# MetaPB in TLA+

MetaPB schedules a graph of array operators onto a CPU and a set of
processing-in-memory DPUs (UPMEM). A scheduler chooses an order of the tasks and,
for each task, the share of its data that the DPUs work on; an executor splits
every task accordingly and runs the CPU part, the DPU part and the transfers
between them on four threads; a performance model predicts what each part costs,
and a metaheuristic search uses the executor in a simulating mode (MIMIC) to
compare schedules.

This directory holds models of these parts, TLC configurations that check them
on small instances, and proofs of the most important facts for every instance.
Paths below are relative to `src/`, the root of the repository; `src/src/...`
therefore is the repository's own directory `src`.

## 1. Inventory

| Part | Source | State | Operations | Module |
|---|---|---|---|---|
| Task graph | `include/Executor/TaskGraph.hpp`, `src/Executor/TaskGraph.cpp` | vertices with operator tag, size, batch; edges | `topoSort`, `genRegressionTask` | `TaskGraph` |
| HeteroComputePool, execution | `src/Executor/HeteroComputePool.cpp:6-240, 315-425` | four queues, four vectors of completion signals, four vectors of waker times, two virtual clocks, sums of energy and transfer, `mutex_`, `dpuMutex_`, `cv_` | `execWorkload`, `processTasks`, `allDependenciesMet`, `genComputeTask`, `genXferTask`, `cleanStatus` | `HeteroComputePool`, abstractly `StageGraph` |
| HeteroComputePool, splitting | `src/Executor/HeteroComputePool.cpp:207, 241-314`, `include/Executor/HeteroComputePool.hpp:130-190` | page block counts per task, memory plan, transfer sum | `parseGraph`, `memPlan`, `getNearestPageBlkCnt` | `WorkSplit` |
| HEFTScheduler | `src/Scheduler/HEFTScheduler.cpp` | costs, ranks, placements; the processors' next free time outlives a call | `schedule`, `calculateUpwardRank`, `scheduleTask` | `HEFTScheduler` |
| Performance model | `include/Operator/OperatorBase.hpp`, `src/Operator/OperatorBase.cpp` | two arrays of samples, the upper bound, sample files | `trainModel`, `savePerfSamples`, `loadPerfSamples`, `loadModelCacheIfExist`, `deducePerfCPU`, `deducePerfDPU` | `PerfModel` |
| Optimizers | `include/Optimizer/**` | history of frames and values, memory of values, global and personal best | `exec`, `exploitation`, `convergeLogging`, `extraction`, `exploration` | `Optimizer` |
| MetaScheduler and simple schedulers | `src/Scheduler/MetaScheduler.cpp`, `include/Scheduler/*` | results of three searches, index of the winner, the schedule returned | `schedule`, `evalSchedules`, the constructors of the others | `MetaScheduler`, `SimpleSchedulers`; a search abstractly as `Search` |
| TaskExecutor prototype | `src/Executor/sema.cpp` | a semaphore and a waker time per vertex, a shared index, a global timer | `run`, `task_exec`, `executeTask`, `updateGlobalTimer` | `TaskExecutor` |
| OperatorManager, registry | `include/Operator/OperatorManager.hpp`, `OperatorRegistry.hpp` | a map from tags to operators, the bound each is trained for | constructor, `trainModel`, `trainAll`, destructor | `OperatorManager` |
| DPU set | `include/DPU_GLOBAL.hpp` | static flags "allocated" and "freed", a set per manager | constructor, destructor | `OperatorManager` |
| Operators, DPU kernels | `src/Operator/*`, `src/Operator/dpu` | operands and results in MRAM, the tasklets' buffers | `execCPU`, `execDPU`, MAP, REDUCE, the kernels' `main` | `Kernels` |
| Timers and reports | `src/utils/ChronoTrigger.cpp`, `src/utils/MetricsGather.cpp`, `include/utils/{Stats,ReportUtils}.hpp` | last probe and report of each task | `tick`, `tock`, `getReport`, `dumpAllReport`, `clear` | `ChronoTrigger` |
| Other utilities | `include/utils/{DPUInterface,CSVWriter,Learner}.hpp` | - | transfers, CSV output | not modelled |
| Benchmarks, plots | `benchmarks`, `visualize`, `dataOutput` | - | - | not modelled |

How they interact. A benchmark builds a `TaskGraph` (its last vertex is `LOGIC_END`; vertex 0 is
`LOGIC_START`, beside which the random graph MO has five computing sources, `benchmarks/workloads/random_workloads.hpp:16-34`, or
a computing task, in GEA, `real_workloads.hpp:103`), has the `OperatorManager` train every operator of it, asks a
scheduler for a `Schedule` (an order, one ratio per task, and whether results are
always written back), and calls `execWorkload` on a `HeteroComputePool`, several
times on the same pool. HEFT asks the performance model directly. MetaScheduler
runs three optimizers, whose `evaluateFunc` executes each candidate on a pool in
MIMIC mode; the pool asks the performance model for the costs of each stage.
So a wrong sample, order or page count travels through all of them, without a
check at any boundary: the models state what each part needs of the one before.

What is hard here, and what would make each part correct:

* **Pool.** Four threads, one condition variable, two mutexes. Each thread looks at
  one vector of completions only, and everything else a stage needs follows from
  what other threads have waited for. Correct means: no stage before its inputs, DPU
  stages one at a time, no lost wake-up, every call returns, and a simulated time that
  some execution on one CPU and one DPU set could have had.
* **HEFT.** The order comes from a sort that is not stable, on ranks that may be equal. The
  executor needs a topological order or it never returns. Placement must respect transfers
  and not use a processor twice, in the second call too, which starts from the
  first one's processor times.
* **Performance model.** A cache that outlives the process, is written without
  protection against being cut, and is loaded into an array that may hold samples
  of another bound; and for some bounds, that of the shipped benchmark among them, more samples than the
  arrays have entries. Correct means that the interpolation answers what was measured.
* **Splitting.** Integer and `uint32_t` arithmetic on sizes up to 4 GiB, and three cases that
  compare a ratio with those of the successors. Correct means that transfers bring what
  the successors need, that operands do not overlap, and that transfers are counted.
* **Optimizer.** Values are remembered although MIMIC execution answers
  differently every time; several records of "the best" must agree.
* **MetaScheduler.** Three searches run as concurrent tasks and are compared when all have
  ended; what is returned was rounded after it was evaluated. Correct means that the pool can
  execute it, and that no search had seen anything better.
* **TaskExecutor.** Workers block on semaphores that count inputs without knowing them, and read and
  write shared times without a lock. Correct means that no vertex starts before its inputs, that
  the timer loses no end, and that the workers never all wait.
* **OperatorManager, DPU set.** Static flags stand for a resource that belongs to an object.
  Correct means that they follow the objects' lives, and that predictions for one graph are on one scale.
* **Kernels.** The same arithmetic is written twice, on the DPUs split over tasklets that share MRAM
  and start with uninitialized WRAM. Correct means that both sides agree where the test compares them.
* **ChronoTrigger.** Statistics are updated one number at a time, across users that clear them at
  different moments. Correct means that a report is about what was measured, and about nothing older.

`PROJECT.json` lists the hazards line by line with the properties that cover them.

## 2. The modules

```
TaskGraph  <- HeteroComputePool  --refines-->  StageGraph
           <- HEFTScheduler        (its order is what the pool assumes)
           <- WorkSplit
           <- SimpleSchedulers  <- MetaScheduler  (each of its searches is a Search)
Optimizer  --refines-->  Search
PerfModel     OperatorManager     Kernels     ChronoTrigger     TaskExecutor
FiniteFolds (lemmas on maxima, minima, finite images and sums over finite sets)
{HeteroComputePool, HEFTScheduler, TaskExecutor, MetaScheduler, Optimizer}_proofs
PageBlocks_proofs (PerfModel and WorkSplit)
Operators_proofs (OperatorManager, Kernels and ChronoTrigger)
MC<module>: instances for TLC
```

A definition called a mutant in its comment is not part of the model. It is a plausible
mistake in the definition that follows it; substituted for that definition, it must
violate a property, which shows that the property depends on the code.

### TaskGraph
The vertices, the predecessors of each in the order of `in_edges`, and `IsSchedule(o)`:
every task once, none before its predecessors. No cycle-freeness is assumed; a graph
with a cycle has no schedule.

### HeteroComputePool
One round is `execWorkload`: `ExecWorkload` (`cleanStatus`, `parseGraph`, four threads
created), the threads' steps, `Join` (four joins, the result). A thread is in one of
these places of `processTasks`:

| `pc[w]` | In the code | Actions |
|---|---|---|
| `fetch` | the loop's test, `front` and `pop` on its own queue | `Fetch`, `Exit` |
| `lock` | `unique_lock lock(mutex_)`, or the reacquisition in `wait` | `Lock` |
| `check` | the predicate `allDependenciesMet`, holding `mutex_` | `Proceed`, `Sleep` |
| `asleep` | inside `cv_.wait` | `SpuriousWakeup`, another thread's `Signal` |
| `claim` | `dpuLock.lock` of the DPU, MAP and REDUCE threads | `ClaimDpu` |
| `run` | `task.execute()` in MIMIC mode, a critical section of `mutex_` | `Execute`, `ExecuteNothing` |
| `release` | the unlock of `dpuMutex_` | `ReleaseDpu` |
| `signal` | set `isCompleted` and `notify_all`, under `mutex_` | `Signal` |

`allDependenciesMet` has a side effect, the running maximum of the completion times it has
got past (`lastWaker`), kept even when it returns false; `Scan` models it. Execution
inside `mutex_` without waiting is one step: all it reads and writes is written under that
mutex only. The transfers of a logical task are empty functions (`ExecuteNothing`) and
leave its completion time 0; a transfer of no page is *not* empty and still moves the DPU clock
to the latest input. Times are natural numbers for the code's doubles.

Costs are a constant function: what `genComputeTask` gets from the performance model for the counts
`WorkSplit` computes. DO mode has the same threads, locks and completions; its wall-clock
measurements are not modelled.

### StageGraph
What `execWorkload` promises, in thirty lines: each stage (CPU, DPU, MAP, REDUCE of each task)
runs once per workload, after all stages it needs, exclusive stages one at a time;
a new workload starts when nothing of the last is left. `RefinesStageGraph` maps the pool's places and flags to
phases. `StageNeeds` demands more than the threads check: the CPU part of a task needs
CPU, DPU and REDUCE of its predecessors, though its thread looks at REDUCE only.

### HEFTScheduler
`Call` (with any of the cost models `CostModels`), `Rank(t)` (one assignment of the recursion, in any order
the recursion allows), `Ranked`, `SortTasks` (any order of descending rank), `Place` (one iteration of the placing loop), `Return`.
Ranks are twice the code's, which averages two costs. Vertex 0 need not be the only source; `Quick` says that the
other tasks together take less than its bonus.

### PerfModel
`trainModel` step by step: load the CPU file, then the DPU file, else measure sample by sample and
save both. `KilledWhileSaving` leaves a file cut after some lines, in the middle of a
number or before it; `Restart` takes everything but the files. `Deduced` is the
interpolation, multiplied by the step so that it stays in the integers. The operator measured is an external linear function, which
interpolation must reproduce exactly; `Grain` is the precision of the files.

The training loop takes `Visited(b)` samples, 15 to 30 of them, for arrays of 17 entries, and no index is checked. So the memory is
modelled: `samples` are the slots of `CPUPerfSamples`, of `DPUPerfSamples` behind it, and the first members of the operator's
`ChronoTrigger` behind that (`CtSlot`). For the 104 page blocks of the only active benchmark (`benchmarks.cpp:49`, 1024 MiB) the
step is 6 and 18 samples are taken: the CPU's last one falls on entry 0 of the DPUs, theirs on the trigger. That makes `ctIntact`
false, and a tick after it is the end of the process (`TickDies`). `Own(s, b)` are the entries that hold samples of their own side and of the bound `b` afterwards,
`Neighbours(n)` those that the answer for `n` page blocks is made of, and `Covered(s, n)` says that the latter are among the former.
A file that was cut may end with a line that reads as some number (`Stray`), as does memory behind the samples.

### WorkSplit
`Parse` is one iteration of `parseGraph`: counts of the task, MAP and REDUCE amounts against the
successors' ratios, the transfer sum in 32 bits. Sizes are in pages of 4 KiB, 2530 to a page
block, so that 2^32 bytes are 2^20 units. Ratios are percentages with exact arithmetic. `SplitInit`, `SplitNext` and `SplitSpec` carry the module's name so that one
proof module can extend it together with `PerfModel`.

### Optimizer
`Exploitation`, `ConvergeLogging`, `Extraction`, `Exploration` are the four steps of
`exec`. The random numbers of PSO, AOA and RSA are choices among a few coordinates (`Proposals`); AOA's scale and RSA's quotients are worked out,
because they do not depend on the random numbers where the limits are symmetric or the best coordinate is 0. `NaN` is a coordinate. `evaluateFunc` may
return another value each time, as MIMIC execution does.

### Search
What a search promises, whatever the algorithm: a frame of points is evaluated, a point keeps the value it
had, the best gives way only to something strictly better. `Optimizer` refines it (`RefinesSearch`: one step
of `Search` is `ConvergeLogging`, the others stutter), and `MetaScheduler` contains one instance per algorithm, `S(i)`. So what is
checked of MetaScheduler holds for any search that implements `Search`, not only for three particular ones.

### SimpleSchedulers and MetaScheduler
`SimpleSchedulers` has the sets of schedules that `CPUOnlyScheduler`, `DPUOnlyScheduler` and `GreedyScheduler` may return: any
topological order, a ratio by position. HEFT may hand any permutation of the tasks to MetaScheduler (`HEFTorder`); an evaluation with one that is not a schedule
waits in the pool for ever. One behaviour of `MetaScheduler` is one call: of a simple one (`CallSimple`) or of
`MetaScheduler::schedule`: `CallMeta`, then `EvalFrame(i)` and `EndTask(i)` of the concurrent tasks in any order, after the last of them `Compare`
one by one, `Return`. `IndexUndefined` is `oVec[-1]`: no search found a value below the initial one. A coordinate is a number from -500
to 500, five times the code's, which makes a ratio a thousandth where it is evaluated and a hundredth where it is returned.

### TaskExecutor
A worker is at one of these places of `task_exec`, `executeTask` and `updateGlobalTimer`:

| `pc[w]` | In the code | Actions |
|---|---|---|
| `fetch` | `index++` and the loop's test | `Fetch` |
| `acquire` | `acquire` once per in edge, then the start time is read | `Acquire`, `Start` |
| `load` | `current_timer = global_timer` | `LoadTimer` |
| `raise` | a turn of the loop around `compare_exchange_weak` | `RaiseTimer` |
| `read`, `write` | the maximum of a successor's waker time, read and written back | `ReadWaker`, `WriteWaker` |
| `release` | `release` of that successor, next edge | `Release` |
| `exit` | the thread has ended | |

The waker times are plain integers that several workers write. In the model each access is atomic, and the maximum can be
lost between `ReadWaker` and `WriteWaker`; formally the race is undefined behaviour, of which these are the outcomes that builds produce.

### OperatorManager
Managers are born (`Construct`), train (`TrainModel(m, g)`, `TrainAll(m, b)`) and die (`Destroy`), one after the other or overlapping. `isAllocated` and
`isFreed` are the static flags; `hasSet` says whose `dpu_set` was filled in, `driver` which sets are out. Using or freeing a set that was never filled in makes
`defined` false, and the behaviour ends. An operator that is not trainable takes the bound as well, since loading nothing cannot fail. What happens inside the training of one operator is `PerfModel`.

### Kernels
One behaviour is the test program for one operator: MAP of both sources, `execDPU`, REDUCE, `execCPU`, the comparison. The tasklets of all DPUs run in
any order; reading and computing a chunk is one step, writing it back another. `execCPU` gets as far as its 32-bit bound (`LoopChunks`), and where the 32-bit offsets of several pages of the DPUs
are the same page of the host, one of them ends up there (`Senders`, `Contended`). Memory that nobody has written holds `Junk`. Items are
natural numbers; the width of an item is left out.

### ChronoTrigger
A user (an operator, a transfer operator, a pool in DO mode, a program of its own like the test) does jobs, each a sequence of `tick`, `tock`,
`getReport`, `dump` and `clear`, which are the actions. `dumpAllReport` is several of them: the ticks and tocks that measure the bias, then `dump`, which only reads and
writes one of the reports (`Dump`). Means and variances are exact, in fractions of `Unit`. Of the metrics, time stands
for the single numbers and energy for those per socket. Accessing an item of a report that has none makes `inBounds` false, and the behaviour ends. The module's
`ChronoInit`, `ChronoNext` and `ChronoSpec` carry its name because `Operators_proofs` extends it together with others.

## 3. What is checked

| Run | Instance | What it shows |
|---|---|---|
| `PoolTwoRounds` | Vee: a logical and a computing source and their join; two workloads, two schedules | Inputs, exclusive DPUs, wake-ups, times, sums and results, over every interleaving with spurious wake-ups |
| `PoolFork` | Fork: logical start, a CPU-heavy and a DPU-heavy task, their join; one workload, one schedule | Refinement and timeline with tasks that run in parallel; every call returns |
| `HeftDiamond` | two sources, LOGIC_START with a successor and a task beside it, their join, end; 45 cost models; two calls | Order, its first vertex, timeline and ratios |
| `PerfCache` | 16 points, bounds 16, 47 and the benchmark's 104, one kill, two restarts, all kinds of operator | Accuracy, overflowing samples included, and which cut file is not trusted |
| `SplitFork` | a task with two successors, 5 ratios, 4 sizes up to 4 GiB, both policies, two orders | MAP amounts, operand extents, transfer sum |
| `SearchAll` | 3 points, 3 frames, one dimension, 3 coordinates, 2 values, each algorithm | Each algorithm implements `Search`; the records of best points |
| `SemaMain` | the graph of `main()`, three workers | Starts, the timer, and that `run()` ends |
| `MetaDiamond` | a diamond; every order HEFT may give; three searches of two frames over three points | The schedule returned is executable and the best; when index -1 is used |
| `KernelsAll` | eight operators, 1 to 3 page blocks over 1 or 2 DPUs, a word of 5 pages, three tasklets | CPU and DPU agree where the code makes them; what EUDIST answers |
| `KernelEudist` | one page of four chunks, six tasklets, the test's data | *Violation*, the finding below |
| `ManagerLives` | three managers, at most two at a time, three graphs | Flags follow lives; a trained graph is on one scale |
| `ChronoUsers` | four users, two jobs, two sizes, two sockets | Reports are the statistics of what was measured |

The type invariants are in no run; those of the pool, HEFT, the performance model, the splitting, TaskExecutor and the optimizers are proved for every instance (section 4),
so the runs spend their time on the other properties.

**The bounds and why they suffice.**

* The pool's four threads are not bounded; a
  thread depends on others only through the tasks of its queue and their direct
  predecessors. Vee has a join of two different tasks (the scan can stop at the first input, at the second or not at all), and the
  second workload meets whatever the first left behind. Fork adds two tasks that are ready at
  the same time, competing for the DPUs, and a task (0) whose successors queue behind each other.
* In HEFT the join makes a placement decision depend on two
  transfers; the second source competes with vertex 0 for the first place, and may cost nothing, which makes ties, or more than the bonus,
  which lets it win (such orders are reached); the second call starts from used processors.
* In PerfModel 16 is the code's own number of samples; 16 page blocks fill all 17
  entries, 47 (like the 415 of 4 GiB) leave the last one and a rest above the last interval, 104 overflow both arrays; one kill and two restarts let a cut file be
  written, found and retrained for another bound.
* In WorkSplit the ratios lie below, between, on and above the successors'; 4096 MiB is what wraps.
* In Optimizer three frames let a point come back after a frame without
  it; the first two points are seeded as the first ten are in the code.
* In TaskExecutor the graph is the one the program runs: two joins, and with three workers two of them can write one
  successor's time while the third waits for it.
* In MetaScheduler the order and the numbering of the diamond disagree, so that a ratio by position is not one by number;
  one of the three points needs rounding and has two predictions, and its values lie on both sides of the initial best, so that the winner may be any search or none.
* In Kernels there are more chunks than tasklets and fewer, fewer DPUs than pages of a block and as many;
  the items differ, so that a chunk in a wrong place shows. Page numbers and loop bounds are taken modulo a word of 5 pages, which three page blocks of two pages overflow
  as 415 of 2530 pages overflow 2^32 bytes in the code.
* In OperatorManager the third manager meets the flags two others left, in any overlap of two; 415 page blocks is the benchmarks' bound; one operator occurs twice with two sizes, and one graph
  names a transfer.
* In ChronoTrigger the second job meets the reports of the first, and two readings of each kind are the least with a variance.

**Deadlock** is checked in all runs; `Finished`, `Parsed`, `TestOver` and `JobsDone` stand for a caller that has
nothing left to do, and in `MetaDiamond` also for a call whose searches wait for an order that is no schedule. In the pool it finds little, since a sleeping
thread may wake up spuriously: threads that wait for each other for ever are what `WorkloadReturns` excludes, under a
fairness that does not count on spurious wake-ups. In `SemaMain` it finds workers that all wait for permits.

**Fairness.** In `PoolFork`: weak fairness of each thread's steps and of the joining caller, that is, the operating
system runs each runnable thread; and spurious wake-ups stop eventually. No mutex is assumed
fair: a thread may lose the race for a mutex any number of times as long as others make progress, and since each
thread has finitely many tasks it gets the mutex in the end. In `SemaMain`: weak fairness of each worker. A semaphore
need not be fair, because only one worker ever waits for it; and the compare-and-exchange fails only when another worker
has raised the timer, which happens once per vertex.

### Finding

**EUDIST answers with some chunk** (`KernelEudist`). In `src/Operator/dpu/EUDIST.c:52` `mram_write` stands behind the loop over the chunks, and the address it
writes to never advances. Each tasklet writes the first chunk of the DPU's result: its last chunk's distance, or, if it has no chunk, what its WRAM held before; the last tasklet wins.
`tests/operatorTest.cpp:62` compares the first result of each side, `flag = (cpuDstInt[0] == dpuDstInt[0]);`, and
may print ", wrong": the test's data are constant, so that the chunks' distances are equal, and the difference shows when a tasklet without a chunk writes last. `EudistIsSomeChunk` (in `KernelsAll`) is what does hold: each DPU answers, in its first chunk only, with the distance of one of its chunks or with nothing.

Smaller observations, without a run:

* `HEFTScheduler.cpp:80` gives vertex 0 the rank 10 plus that of its successors to "ensure entry node to be the first."; another source
  with more than ten seconds behind it comes first, and MO has five computing ones. `HeftDiamond` reaches such orders. `EntryFirst` is what does hold: vertex 0 comes first if all other tasks together are
  predicted to take less than the bonus.
* `OperatorBase.hpp:192` adds "+1 for lowerbound", but for 415 page blocks the step is 27 and 16 samples are taken; `deducePerf*` answers
  sample 16 for the bound and above, which is still zero, or what a training for another bound left there. A full batch is predicted to be free. `DeduceIsAccurate` claims nothing of it.
  A cost of zero breaks `CostsPositive`, on which HEFT's order depends: with equal ranks its order may put a task before its predecessor, for which the pool waits for ever.
* For the 104 page blocks of the shipped benchmark (`benchmarks.cpp:49`) 18 samples go into these arrays of 17 (`OperatorBase.cpp:169-172`). Entry 0 of the DPUs then holds what the CPU took for 102 page blocks,
  so that the DPUs' answers below 6 page blocks are wrong (`DeduceIsAccurate` excludes these and the counts between 96 and 104, which read an entry behind the array), and the members behind the arrays, the ChronoTrigger's first, are overwritten. Without the cache directory the next training of the same operator
  object uses that trigger (`TickDies`). The CPU's answers are right up to 96 page blocks, and the answer for 96 is also that for 104 and more (`Asked`).
* `HeteroComputePool.cpp:420`, "This is precise.": bytes moved are summed in `uint32_t`, so that moving 4 GiB counts as almost nothing. `TransferIsCounted` is about transfers below 4 GiB.
* `HeteroComputePool.cpp:294`, "// offloadRatio < omin": the branch that plans no REDUCE is also taken for a ratio
  equal to the largest and above the smallest of the successors'.
* `OptimizerBase.cpp:63`, "Invariant: All point frame till here is valid to evaluate.": RSA divides by the best
  coordinate plus a denormal number; if it is 0, which a seeded point has, the quotient is infinite and a product with zero is NaN, which neither clamp catches. The model ends there.
* AOA with symmetric limits only recombines coordinates of the first frame (`AOAOnlyRecombines`); `getCumulatePointsHistory` returns each point once, not each evaluation.
* A DPU sample file that was cut is trusted, and one with a line that lacks its number terminates every later process (both states are reached in `PerfCache`).
* In `sema.cpp` the maximum of two waker times can be lost, and the final timer be less than the critical path; `counting_semaphore<1>` is released
  more than once before it is acquired, beyond its declared maximum; and where edges lead to lower numbers, one worker waits for a vertex nobody takes.
* `GreedyScheduler` chooses the ratio at a position by the type of the task that has the *number* of the position.
* MAP and REDUCE take the pages of a block in steps of 2530 whatever number of DPUs was allocated: with fewer, some pages are never transferred. Their page offsets are 32-bit products,
  and so are the bounds of the CPU's loops (`pageBlkCnt * pageBlkSize`, `OperatorMAC.cpp:15` and the other operators): from 415 page blocks, the 4 GiB batch, both wrap, and the CPU computes only the first megabytes. FILTER compares an index
  within a chunk with the length of the whole array: at the end of a chunk it reads into the next one.
* A second manager made while one lives gets no DPU set, and using or freeing it is undefined (`ManagerLives` reaches it).
* `dumpAllReport` after `getReport` on a fresh trigger, in the order of `tests/utilTest.cpp:24` and `:32`, reads a report without items (`UndefinedOnlyAfterQuery`);
  `execDPUwithProbe` does not clear its trigger, so a second probe of one size averages over both.

## 4. What is proved

For every value of the constants that satisfies the named assumptions. TLC checks these assumptions for the instances above.

**The pool** (`HeteroComputePool_proofs`), from `GraphAssumption`, `LogicAssumption`,
`ScheduleAssumption` (the orders given are schedules), `CostAssumption`, `BoundAssumption`: `TypeCorrect`, `DpuExclusiveAlways`,
`NoMissedWakeupAlways`, `DataReadyAlways`, `CompletionsFinalAlways`. The inductive invariant `PoolInv` adds to the types what
each property alone lacks:

* `Positioned`: a thread with a task has taken one from its queue, a thread that has left has taken all;
* `DpuOwned`: a DPU-related thread that executes owns `dpuMutex_`;
* `Fifo`: what a thread has completed is exactly the prefix of its queue before its current task;
* `OnlyQueued`: nothing is complete that was not taken from a queue;
* `StartedReady`: a stage past its wait has its *direct* inputs complete (what the thread itself checked);
* `NoMissedWakeup`.

`DataReady` then follows without further induction. The CPU part of a task has seen REDUCE of each predecessor, which
has seen its DPU part; the DPU part has seen MAP of each predecessor, which has seen its CPU part (`StartedReady`, twice).
The remaining input is the predecessor's stage on the same thread: the queue is a schedule, so the thread has taken the
predecessor before, and what it has taken before its current task is complete (`ScheduleAssumption`, `Fifo`).

*The refinement.* `PoolRefinesStageGraph` proves `RefinesStageGraph`: the initial state maps to one of `StageGraph`, and each step of the pool to a step or a stutter
(`PhasesTold` says what the phase of a stage is in terms of places and queues). `Proceed` of the CPU thread and `ClaimDpu` of the others are `Begin`, `Execute` is `End` for the CPU and `ReleaseDpu` for the others, `Signal` is `Publish`,
`ExecWorkload` is `Restart`, and the rest stutters. That a stage begins only when *all* its inputs have ended is `DataReady`; that exclusive stages exclude each other is
`DpuOwned`; that a new workload finds nothing unfinished needs `CallerInv`: between workloads all threads have left, so by `Positioned` and `Fifo` every task of every queue is complete.

*Virtual time.* `TimeInvariant` has `TimeInv` in the company of `PoolInv`. `WakerInv`: what a stage has gathered in its scans is the
time of a completed input or 0, and no less than any input's once it has started; this needs that completion times are final, also for times published while the
scan is under way. `ClockInv`: a stage charged ends its cost after its gathered time, no end is past its processor's clock, and the clock is one of the ends.
`NoVirtualOverlap` is inductive with these, since a stage begins no earlier than the clock. From them `WakerIsLatestInputAlways`, `EndsAfterInputsAlways`,
`NoVirtualOverlapAlways`, and with `ReportInv` `ResultIsLastEndAlways`. `EnergyBalanceAlways` is about the sum over the stages charged: `Execute`
adds one stage to a finite set of them (`SumAdd`), and no stage twice because each runs once (`Fifo`).

**HEFT** (`HEFTScheduler_proofs`), from `GraphAssumption` and `HEFTAssumption`: `HEFTTypeCorrect`, `OrderRespectsGraphAlways`,
`InputsArriveAlways`, `NoOverlapAlways`, `EntryHeadsOrder`, `RatiosFollowPlacementAlways`; none of them limits the number of sources. `HEFTInv` adds to the types: a rank exceeds each successor's by at least the
task's own share (`RankInv`), the sorted sequence lists every task once by descending rank (`SortInv`), the
order is a prefix of it (`PrefixInv`), every placed task ends before its processor is available again (`BusyInv`), and `NoOverlap`. A positive share
makes a predecessor's rank strictly greater, so no tie can put it later; for the same reason the last task, whose ratio `Return` forces to the CPU, has no successor, and `RatioInv` says of
the other ratios that they are the placement. `BonusInv` is for `EntryHeadsOrder`, which needs no positive costs: each task adds its own share at most once to the greatest rank so far, so no rank but that of vertex 0
exceeds the sum of the shares of the others that are ranked, and if that sum stays below the bonus, vertex 0 is first. `OrderRespectsGraph` is
the pool's `ScheduleAssumption`: this is where the two proofs meet, and `CostsPositive` is the condition that a cost predicted as zero breaks.

**The optimizers** (`Optimizer_proofs`), from `SearchAssumption`: `BestAtATimeAlways`, `PersonalBestAlways`, `AOAOnlyRecombinesAlways`,
and `RefinesSearchTheorem`. `OptInv` has the lengths of the histories at each step of `exec` (`Lengths`), and `Memory`: the map knows every point
of an evaluated frame, each of its values is one the point has had, and a point that was in an earlier frame has a value from there. The last of these is what
the abstract search demands of a frame (`IsFrame`); it is an invariant of the frames and the map together and follows from neither. The refinement is a step simulation: `ConvergeLogging`
is a step of `Search` (`LoggingSearches`), all others leave the abstract state unchanged.

**MetaScheduler** (`MetaScheduler_proofs`), from `MetaAssumption` and `PredictionAssumption`, for any number of searches: `ExecutableAlways`, `ReturnsTheBestAlways`,
`OnlyHopelessUndefinedAlways`. `MetaInv` says of each search that its best is the best of its answers (`SearchOK`, from `Search` alone), that nothing is compared before all
tasks have ended (`Phases`), and that the winner so far is least among those compared (`Winner`). Of HEFT's order it is assumed only that it lists every task once: that an order which is returned is a schedule follows
because the winner has evaluated a frame with it. With `RefinesSearchTheorem`, whose abstract module is the same, this composes:
what is proved of MetaScheduler's searches is proved of PSO, AOA and RSA, as far as they stay within numbers. `Executable` is again the pool's `ScheduleAssumption`.

**TaskExecutor** (`TaskExecutor_proofs`), from `ExecutorAssumption`, for every graph, cycles and parallel edges included: `ExecutorTypeCorrect`, `InputsReleasedAlways`,
`TimerIsLatestEndAlways`, `StartIsAnInputAlways`. A semaphore does not say who released it. `Permits` counts: permits available and acquired
are the *released edges* into the vertex, each edge is released once, by the one worker that has its source (`Claimed`, `OnEdge`, `Sources`). When a worker has acquired as often as there are
in edges, the set of released edges has the size of the finite set of in edges it is part of, so it is all of them. `Written` carries the unprotected times through the two steps of the lost update.

**OperatorManager** (`Operators_proofs`), from `ManagerAssumption`: `SetFollowsManagersAlways`, `GraphIsCoveredAlways`. `Flags` says what the two static flags mean while
behaviour is defined; `Covered` carries the bound of a graph, which is the maximum over its operators (`DivMonotone`: page blocks grow with size), through later trainings.

**Kernels** (`Operators_proofs`), from `KernelAssumption`, for all arrays, parameters and numbers of DPUs, tasklets, pages and page blocks: `SidesAgreeAlways`,
`EudistIsSomeChunkAlways`; counts from which 32-bit offsets and loop bounds wrap are included, the capacity of an MRAM is not a limit. Division with remainder has one result (`DivideUnique`), so a chunk of a DPU is a certain chunk of the array, counted in 32 bits (`Scattered`, `WrapIs`), and REDUCE brings one back exactly where some DPU has the page
(`GatherIs`); if several have it, all computed the same (`GatheredAgrees`). `LoopIs` says how far the CPU's loops get, `Outcome` what they leave. `Shares` is the induction over the tasklets' steps: a tasklet has written what `execCPU` computes to each of *its* chunks it has passed, and a write
disturbs neither an operand nor another chunk's result (`WriteIs`); when all have halted, each chunk is one that some tasklet, its number modulo theirs, has passed.
What the two sides compute for one chunk is compared operator by operator in `RowsAgree`, without opening the folds: both sides apply the same sum to the same items.
`Distances` says what EUDIST may have left in WRAM and in the results; nothing relates it to a particular chunk, which is the finding.

**ChronoTrigger** (`Operators_proofs`), from `ChronoAssumption`, for any readings, sizes, sockets, repetitions and numbers of jobs: `StatsMatchDataAlways`,
`CorrectedIsConsistentAlways`, `UndefinedOnlyAfterQueryAlways`, `ProbeIsFreshAlways`. The assumption on `Unit` (it can be divided by every number of readings) stands for exact
division, that on `DblMax` says that no reading exceeds the largest double. `ChronoInv` has three parts. `ReportsInv`: each report is that of the data measured for
its name, and only the bias has a report without items. That `Stats::add` keeps this is arithmetic on sums over sequences: `MeanMoves` shows that the mean moves by
a whole number of units, `AddMore` that the incremental variance, multiplied out, is the sum of squares less the square of the sum. `ScriptInv`: the calls
that remain tock after a tick and look at a report only when something has been measured for it by then. `Room`: with the readings still to come there are no more than `Unit` can be divided by;
`Fuel` counts them along the calls. `ProbeIsFresh` is about two histories that are cleared at different moments. `FreshInv`
says of every tock and question still to come that what is measured of its name by then is what the job has measured (`AllFresh`). The DPU's report of the job before, which stays behind,
keeps this from being an invariant of the present state alone: it differs until the CPU's probe clears, which comes before the DPU is measured.

**The performance model** (`PageBlocks_proofs`), from `SampleAssumption` (the training loop ends, which takes a bound of at least 15), `TimeAssumption` and `PerfBoundAssumption`, for any number of kills and restarts
and for bounds that overflow the arrays as well:
`PerfTypeCorrect`, `DeduceIsAccurateAlways`, `CutCpuFileIsNotTrustedAlways`. Neither property is inductive, because what is interpolated was measured by another
process for another bound. `PerfInv` follows the samples through memory and files: `Training` says which entries have been measured for the bound at each
step of `trainModel`; `Uncut` that without a kill every file that is read is whole, and that the samples of an operator that is ready are those of its bound;
`CpuFirst` that, even with kills, the CPU file of a bound is whole whenever there is a DPU file for it, since the DPU file is written second (the hazard is
that order). All of them are about `Own` entries: writing a sample past the end of the CPU's array disturbs the first entries of the DPUs' only, and past the end of those no entry (`Exact`, over the iterations so far). `Close` then follows from both neighbours being close, by an argument on the numerator of the interpolation.

**The splitting of work** (`PageBlocks_proofs`), from `SplitAssumption` and `GraphAssumption`: `SplitTypeCorrect`, `MapCoversSuccessorsAlways`, `OperandsApartAlways`,
`TransferIsCountedAlways`. `SplitInv` has the counts of the tasks parsed so far (`Planned`), that the others have none (`Unplanned`), and how far the sum of the cut transfers is from the sum of
the pages moved (`Counted`). `MapCoversSuccessors` is then arithmetic: the percentage is rounded down, the page blocks up, and the difference stays
below one mebibyte. `OperandsApart` bounds the products by 2^32 for up to 207 page blocks.

`FiniteFolds` has the lemmas that these share: on `Max`, least elements and finite images, and on sums over finite sets (`SumOver`). A sum is
`MapThenSumSet` of the community modules, which folds in an order that `CHOOSE` picks; `SumRemove` says that any element may be taken out first, from which come adding an element
(`SumAdd`) and changing one term (`SumChange`, for the transfers). Instead of an induction over sets, which is not available (see below), it takes the least size of a
counterexample (`SmallestSet`) and contradicts it.

**Only model-checked.** Liveness (`WorkloadReturns`, `Terminates`) and deadlock freedom, which are out of the prover's reach. Every other property of a passing run is
a theorem. `StageGraph` and `Search` state no liveness, so their refinements are proved as simulations.

## 5. What is not modelled, and why

* Energy counters, CSV and plots: input and output. Wall-clock results of DO mode, the timing lists and the move constructor of the pool.
* The width of items and the alignment of transfers in the kernels; the logical operator, which does nothing.
* Floating point: times are exact, ratios are percentages or thousandths. Rounding of a float product across a page
  block is left out; RSA's overflow is modelled by what it does.
* RSA with a random number of exactly 0, and PSO's velocities, which the choice of any coordinate includes.
* Undefined behaviour that callers avoid: training bounds below 15, for which the code's loop does not end (`SampleAssumption`), fewer points than seeds
  (`SearchAssumption`), the map of values with NaN keys (the model stops there), a machine without two sockets (`ChronoTrigger`).
* Who owns the shared memory: operands of all tasks share one base address and one DPU page in the pool. The order of the stages is modelled, the contents of memory are not.
* `OptimizerNaive`, which nothing runs; `Learner.hpp`, which nothing uses; `DPUInterface.hpp`, a copy of the SDK's transfer functions.
* Benchmarks: they give the models their inputs (one source or several, `LOGIC_END` last, batches of 1 to 4 GiB, one pool for several workloads).

## 6. Plan

Done, in this order: the pool with its abstraction and first proofs; HEFT, which feeds it; the performance model, which feeds both; splitting; the searches;
then what surrounds them: MetaScheduler over an abstract search that the optimizers implement, the prototype of the executor, managers and DPU set, kernels, timers; with
the proofs of the optimizers, MetaScheduler, the prototype and the managers.

The pool's refinement and virtual time, HEFT's ratios, the performance model, the splitting, the kernels and the timers were proved after that.

Next: `StageMemory`, who owns the shared buffers, on top of `StageGraph`; then its invariant, with the pool's refinement of `StageGraph` as the first step.
