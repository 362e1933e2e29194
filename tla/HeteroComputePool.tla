------------------------- MODULE HeteroComputePool -------------------------
(***************************************************************************)
(* The co-processing executor: src/Executor/HeteroComputePool.cpp.         *)
(*                                                                         *)
(* execWorkload splits every task of the graph into four stages and runs   *)
(* them on four threads, one per kind of stage, each with a queue of its   *)
(* own holding the tasks in the order of the schedule.  A thread waits on  *)
(* the condition variable cv_ until the stages its task needs have         *)
(* completed; the threads that touch the DPUs then take dpuMutex_ for the  *)
(* time they execute.  In MIMIC mode a stage executes by adding its        *)
(* predicted cost to the virtual clock of its processor.                   *)
(*                                                                         *)
(* Times are natural numbers (the code's doubles, without rounding).  A    *)
(* critical section of mutex_ that neither waits nor calls out is one      *)
(* step; everything it touches is touched under mutex_ only.               *)
(***************************************************************************)
EXTENDS TaskGraph, FiniteSetsExt

CONSTANTS
  Logic,        \* the tasks tagged LOGIC_START or LOGIC_END
  Orders,       \* the schedules (sched.order) execWorkload may be given
  Cost,         \* Cost[w][t]: predicted time of stage w of task t
  Energy,       \* Energy[w][t]: predicted energy of stage w of task t
  MaxRounds,    \* how often the caller executes a workload on this pool
  Nobody        \* the owner of a free mutex

Worker == {"cpu", "dpu", "map", "reduce"}

Resource == {"cpu", "dpu"}

ASSUME LogicAssumption ==
  Logic \subseteq Task

ASSUME ScheduleAssumption ==
  \A o \in Orders : IsSchedule(o)

ASSUME CostAssumption ==
  /\ Cost \in [Worker -> [Task -> Nat]]
  /\ Energy \in [Worker -> [Task -> Nat]]

ASSUME BoundAssumption ==
  /\ MaxRounds \in Nat
  /\ Nobody \notin Worker

VARIABLES
  main,          \* the calling thread: "idle", or "join" inside execWorkload
  rounds,        \* how many workloads have been started
  order,         \* sched.order of the workload, the initial content of the queues
  popped,        \* popped[w]: how many tasks w has taken from its queue
  pc,            \* where each of the four threads is in processTasks
  mutex,         \* the owner of mutex_ while it is held across steps
  dpuMutex,      \* the owner of dpuMutex_
  isCompleted,   \* isCompleted[w][t]: xxxCompleted_[t].isCompleted
  completeTime,  \* completeTime[w][t]: xxxCompleted_[t].completeTime_ms
  lastWaker,     \* lastWaker[w][t]: xxxLastWakerTime_ms[t]
  mimicTime,     \* mimicTime[r]: cpuMIMICTime_ms and dpuMIMICTime_ms
  totalEnergy,   \* totalEnergyCost_joule
  makespan       \* result.timeCost_Second of the last execWorkload, once it is set

syncVars  == <<main, rounds, order, popped, pc, mutex, dpuMutex, isCompleted>>
mimicVars == <<completeTime, lastWaker, mimicTime, totalEnergy>>
vars == <<syncVars, mimicVars, makespan>>

----------------------------------------------------------------------------
(* Helpers. *)

DPURelated(w) == w # "cpu"

ResourceOf(w) == IF w = "cpu" THEN "cpu" ELSE "dpu"

\* Mutant: the CPU thread is given the vector of the wrong transfer.
ProducerMapForCpu(w) ==
  CASE w \in {"cpu", "dpu"} -> "map"
    [] w = "reduce" -> "dpu"
    [] w = "map"    -> "cpu"

\* The vector of completion signals a thread's dependency check reads.
Producer(w) ==
  CASE w = "cpu"    -> "reduce"
    [] w = "reduce" -> "dpu"
    [] w = "dpu"    -> "map"
    [] w = "map"    -> "cpu"

\* The tasks whose Producer(w) stage the stage w of t waits for, as scanned.
Deps(w, t) == IF w \in {"cpu", "dpu"} THEN DepSeq[t] ELSE <<t>>

\* The task a thread has taken from its queue.
Current(w) == order[popped[w]]

\* The dependencies the scan gets past: it returns at the first missing one.
Scanned(w, t) ==
  {i \in DOMAIN Deps(w, t) :
     \A j \in 1..i : isCompleted[Producer(w)][Deps(w, t)[j]]}

\* Mutant: the scan returns after the first dependency.
FirstDependencyMet(w, t) ==
  \A i \in DOMAIN Deps(w, t) :
    i = 1 => isCompleted[Producer(w)][Deps(w, t)[i]]

AllDependenciesMet(w, t) ==
  \A i \in DOMAIN Deps(w, t) : isCompleted[Producer(w)][Deps(w, t)[i]]

\* Mutant: std::max is forgotten, the dependency scanned last wins.
LastWakerOverwritten(w, t) ==
  LET seen == Scanned(w, t) IN
  IF seen = {} THEN lastWaker[w][t]
  ELSE completeTime[Producer(w)][Deps(w, t)[Max(seen)]]

\* The scan's side effect, whether or not it succeeds.
LastWakerAfterScan(w, t) ==
  Max({lastWaker[w][t]} \cup
      {completeTime[Producer(w)][Deps(w, t)[i]] : i \in Scanned(w, t)})

\* A logical node has nothing to transfer: its MAP and REDUCE do nothing.
Charges(w, t) == w \in {"cpu", "dpu"} \/ t \notin Logic

\* Mutants: the inputs, then the clock, are left out of the maximum.
EndTimeClockOnly(w, t) == mimicTime[ResourceOf(w)] + Cost[w][t]
EndTimeInputsOnly(w, t) == lastWaker[w][t] + Cost[w][t]

EndTime(w, t) ==
  Max({mimicTime[ResourceOf(w)], lastWaker[w][t]}) + Cost[w][t]

AllWorkers(v) == [w \in Worker |-> v]
PerTask(v)    == [w \in Worker |-> [t \in Task |-> v]]

----------------------------------------------------------------------------
(* The calling thread. *)

Init ==
  /\ main = "idle"
  /\ rounds = 0
  /\ order = <<>>
  /\ popped = AllWorkers(0)
  /\ pc = AllWorkers("exit")
  /\ mutex = Nobody
  /\ dpuMutex = Nobody
  /\ isCompleted = PerTask(FALSE)
  /\ completeTime = PerTask(0)
  /\ lastWaker = PerTask(0)
  /\ mimicTime = [r \in Resource |-> 0]
  /\ totalEnergy = 0
  /\ makespan = 0

\* Mutant: cleanStatus forgets the energy.
ExecWorkloadKeepsEnergy ==
  /\ main = "idle"
  /\ rounds < MaxRounds
  /\ \E o \in Orders : order' = o
  /\ main' = "join"
  /\ rounds' = rounds + 1
  /\ popped' = AllWorkers(0)
  /\ pc' = AllWorkers("fetch")
  /\ isCompleted' = PerTask(FALSE)
  /\ completeTime' = PerTask(0)
  /\ lastWaker' = PerTask(0)
  /\ mimicTime' = [r \in Resource |-> 0]
  /\ makespan' = 0
  /\ UNCHANGED <<mutex, dpuMutex, totalEnergy>>

\* cleanStatus, parseGraph, and the creation of the four threads.
ExecWorkload ==
  /\ main = "idle"
  /\ rounds < MaxRounds
  /\ \E o \in Orders : order' = o
  /\ main' = "join"
  /\ rounds' = rounds + 1
  /\ popped' = AllWorkers(0)
  /\ pc' = AllWorkers("fetch")
  /\ isCompleted' = PerTask(FALSE)
  /\ completeTime' = PerTask(0)
  /\ lastWaker' = PerTask(0)
  /\ mimicTime' = [r \in Resource |-> 0]
  /\ totalEnergy' = 0
  /\ makespan' = 0
  /\ UNCHANGED <<mutex, dpuMutex>>

JoinCpuClock ==
  /\ main = "join"
  /\ \A w \in Worker : pc[w] = "exit"
  /\ main' = "idle"
  /\ makespan' = mimicTime["cpu"]
  /\ UNCHANGED <<rounds, order, popped, pc, mutex, dpuMutex, isCompleted>>
  /\ UNCHANGED mimicVars

Join ==
  /\ main = "join"
  /\ \A w \in Worker : pc[w] = "exit"
  /\ main' = "idle"
  /\ makespan' = Max({mimicTime[r] : r \in Resource})
  /\ UNCHANGED <<rounds, order, popped, pc, mutex, dpuMutex, isCompleted>>
  /\ UNCHANGED mimicVars

----------------------------------------------------------------------------
(* processTasks, the body of each of the four threads. *)

\* The thread's own queue: no other thread touches it, no lock is taken.
Fetch(w) ==
  /\ pc[w] = "fetch"
  /\ popped[w] < Len(order)
  /\ popped' = [popped EXCEPT ![w] = @ + 1]
  /\ pc' = [pc EXCEPT ![w] = "lock"]
  /\ UNCHANGED <<main, rounds, order, mutex, dpuMutex, isCompleted>>
  /\ UNCHANGED <<mimicVars, makespan>>

Exit(w) ==
  /\ pc[w] = "fetch"
  /\ popped[w] = Len(order)
  /\ pc' = [pc EXCEPT ![w] = "exit"]
  /\ UNCHANGED <<main, rounds, order, popped, mutex, dpuMutex, isCompleted>>
  /\ UNCHANGED <<mimicVars, makespan>>

\* unique_lock lock(mutex_), and its reacquisition inside cv_.wait.
Lock(w) ==
  /\ pc[w] = "lock"
  /\ mutex = Nobody
  /\ mutex' = w
  /\ pc' = [pc EXCEPT ![w] = "check"]
  /\ UNCHANGED <<main, rounds, order, popped, dpuMutex, isCompleted>>
  /\ UNCHANGED <<mimicVars, makespan>>

Scan(w) ==
  /\ pc[w] = "check"
  /\ lastWaker' =
       [lastWaker EXCEPT ![w][Current(w)] = LastWakerAfterScan(w, Current(w))]
  /\ mutex' = Nobody
  /\ UNCHANGED <<main, rounds, order, popped, dpuMutex, isCompleted>>
  /\ UNCHANGED <<completeTime, mimicTime, totalEnergy, makespan>>

\* The predicate holds: wait returns and the lock goes out of scope.
Proceed(w) ==
  /\ Scan(w)
  /\ AllDependenciesMet(w, Current(w))
  /\ pc' = [pc EXCEPT ![w] = IF DPURelated(w) THEN "claim" ELSE "run"]

\* The predicate fails: wait releases mutex_ and sleeps, in one atomic step.
Sleep(w) ==
  /\ Scan(w)
  /\ ~AllDependenciesMet(w, Current(w))
  /\ pc' = [pc EXCEPT ![w] = "asleep"]

\* cv_.wait may return without a notification.
SpuriousWakeup(w) ==
  /\ pc[w] = "asleep"
  /\ pc' = [pc EXCEPT ![w] = "lock"]
  /\ UNCHANGED <<main, rounds, order, popped, mutex, dpuMutex, isCompleted>>
  /\ UNCHANGED <<mimicVars, makespan>>

\* Mutant: the lock object is deferred and dpuMutex_ never locked.
ClaimDpuUnlocked(w) ==
  /\ pc[w] = "claim"
  /\ dpuMutex' = w
  /\ pc' = [pc EXCEPT ![w] = "run"]
  /\ UNCHANGED <<main, rounds, order, popped, mutex, isCompleted>>
  /\ UNCHANGED <<mimicVars, makespan>>

ClaimDpu(w) ==
  /\ pc[w] = "claim"
  /\ dpuMutex = Nobody
  /\ dpuMutex' = w
  /\ pc' = [pc EXCEPT ![w] = "run"]
  /\ UNCHANGED <<main, rounds, order, popped, mutex, isCompleted>>
  /\ UNCHANGED <<mimicVars, makespan>>

AfterRun(w) == IF DPURelated(w) THEN "release" ELSE "signal"

\* Mutant: the MAP task writes its end into the DPU vector.
ExecuteMapIntoDpu(w) ==
  LET t == Current(w) IN
  /\ pc[w] = "run"
  /\ Charges(w, t)
  /\ mutex = Nobody
  /\ mimicTime' = [mimicTime EXCEPT ![ResourceOf(w)] = EndTime(w, t)]
  /\ completeTime' =
       [completeTime EXCEPT ![IF w = "map" THEN "dpu" ELSE w][t] = EndTime(w, t)]
  /\ totalEnergy' = totalEnergy + Energy[w][t]
  /\ pc' = [pc EXCEPT ![w] = AfterRun(w)]
  /\ UNCHANGED <<main, rounds, order, popped, mutex, dpuMutex, isCompleted>>
  /\ UNCHANGED <<lastWaker, makespan>>

\* task.execute() in MIMIC mode: a critical section of mutex_, entered with
\* dpuMutex_ held by the three DPU-related threads.
Execute(w) ==
  LET t == Current(w) IN
  /\ pc[w] = "run"
  /\ Charges(w, t)
  /\ mutex = Nobody
  /\ mimicTime' = [mimicTime EXCEPT ![ResourceOf(w)] = EndTime(w, t)]
  /\ completeTime' = [completeTime EXCEPT ![w][t] = EndTime(w, t)]
  /\ totalEnergy' = totalEnergy + Energy[w][t]
  /\ pc' = [pc EXCEPT ![w] = AfterRun(w)]
  /\ UNCHANGED <<main, rounds, order, popped, mutex, dpuMutex, isCompleted>>
  /\ UNCHANGED <<lastWaker, makespan>>

\* The transfer of a logical node: execute is an empty function.
ExecuteNothing(w) ==
  /\ pc[w] = "run"
  /\ ~Charges(w, Current(w))
  /\ pc' = [pc EXCEPT ![w] = AfterRun(w)]
  /\ UNCHANGED <<main, rounds, order, popped, mutex, dpuMutex, isCompleted>>
  /\ UNCHANGED <<mimicVars, makespan>>

\* Mutant: dpuMutex_ is released after DPU tasks only.
ReleaseDpuNotXfer(w) ==
  /\ pc[w] = "release"
  /\ dpuMutex' = IF w = "dpu" THEN Nobody ELSE dpuMutex
  /\ pc' = [pc EXCEPT ![w] = "signal"]
  /\ UNCHANGED <<main, rounds, order, popped, mutex, isCompleted>>
  /\ UNCHANGED <<mimicVars, makespan>>

ReleaseDpu(w) ==
  /\ pc[w] = "release"
  /\ dpuMutex' = Nobody
  /\ pc' = [pc EXCEPT ![w] = "signal"]
  /\ UNCHANGED <<main, rounds, order, popped, mutex, isCompleted>>
  /\ UNCHANGED <<mimicVars, makespan>>

\* Mutant: notify_one instead of notify_all.
SignalOne(w) ==
  LET sleepers == {v \in Worker : pc[v] = "asleep"} IN
  /\ pc[w] = "signal"
  /\ mutex = Nobody
  /\ isCompleted' = [isCompleted EXCEPT ![w][Current(w)] = TRUE]
  /\ \E woken \in SUBSET sleepers :
       /\ Cardinality(woken) = (IF sleepers = {} THEN 0 ELSE 1)
       /\ pc' = [v \in Worker |-> IF v = w THEN "fetch"
                                 ELSE IF v \in woken THEN "lock" ELSE pc[v]]
  /\ UNCHANGED <<main, rounds, order, popped, mutex, dpuMutex>>
  /\ UNCHANGED <<mimicVars, makespan>>

\* Under mutex_: mark the stage complete and notify_all the sleeping threads.
Signal(w) ==
  /\ pc[w] = "signal"
  /\ mutex = Nobody
  /\ isCompleted' = [isCompleted EXCEPT ![w][Current(w)] = TRUE]
  /\ pc' = [v \in Worker |-> IF v = w THEN "fetch"
                             ELSE IF pc[v] = "asleep" THEN "lock" ELSE pc[v]]
  /\ UNCHANGED <<main, rounds, order, popped, mutex, dpuMutex>>
  /\ UNCHANGED <<mimicVars, makespan>>

----------------------------------------------------------------------------
(* The specification. *)

\* One iteration of processTasks makes progress with each of these.
Step(w) ==
  \/ Fetch(w)   \/ Exit(w)
  \/ Lock(w)    \/ Proceed(w)        \/ Sleep(w)
  \/ ClaimDpu(w) \/ Execute(w) \/ ExecuteNothing(w) \/ ReleaseDpu(w)
  \/ Signal(w)

\* The caller has no workload left.
Finished ==
  /\ main = "idle"
  /\ rounds = MaxRounds
  /\ UNCHANGED vars

Next ==
  \/ ExecWorkload
  \/ Join
  \/ \E w \in Worker : Step(w) \/ SpuriousWakeup(w)
  \/ Finished

Spec == Init /\ [][Next]_vars

\* Every thread that can step does, and spurious wake-ups do not go on for
\* ever.  No mutex is assumed to be fair.
Fairness ==
  /\ WF_vars(Join)
  /\ \A w \in Worker : WF_vars(Step(w))
  /\ <>[][~\E w \in Worker : SpuriousWakeup(w)]_vars

FairSpec == Spec /\ Fairness

----------------------------------------------------------------------------
(* Vocabulary of the properties. *)

Past(w, t, labels) == popped[w] > 0 /\ Current(w) = t /\ pc[w] \in labels

\* w is past its wait for t, or has done t.
Started(w, t) ==
  isCompleted[w][t] \/ Past(w, t, {"claim", "run", "release", "signal"})

\* Stage w of t has added its cost to a virtual clock.
Charged(w, t) ==
  /\ Charges(w, t)
  /\ isCompleted[w][t] \/ Past(w, t, {"release", "signal"})

ChargedStages == {s \in Worker \X Task : Charged(s[1], s[2])}

TotalOf(f, S) == MapThenSumSet(LAMBDA s : f[s[1]][s[2]], S)

Begin(s) == completeTime[s[1]][s[2]] - Cost[s[1]][s[2]]
End(s)   == completeTime[s[1]][s[2]]

----------------------------------------------------------------------------
(* Properties. *)

\* The types of the variables, and the two facts about the owners of the
\* mutexes that every other argument about processTasks starts from.
TypeOK ==
  /\ main \in {"idle", "join"}
  /\ rounds \in 0..MaxRounds
  /\ order \in Orders \cup {<<>>}
  /\ popped \in [Worker -> 0..Len(order)]
  /\ pc \in [Worker -> {"fetch", "lock", "check", "asleep", "claim", "run",
                        "release", "signal", "exit"}]
  /\ mutex \in Worker \cup {Nobody}
  /\ dpuMutex \in Worker \cup {Nobody}
  /\ isCompleted \in [Worker -> [Task -> BOOLEAN]]
  /\ completeTime \in [Worker -> [Task -> Nat]]
  /\ lastWaker \in [Worker -> [Task -> Nat]]
  /\ mimicTime \in [Resource -> Nat]
  /\ totalEnergy \in Nat
  /\ makespan \in Nat

\* The two compute parts of a task begin only when both compute parts of every
\* predecessor are complete, and so is the transfer that brings the result to
\* the part's own memory: REDUCE for the CPU part, MAP for the DPU part.  Each
\* thread checks one of these four vectors only; the rest follows from the
\* chain of the other threads' waits and from the order of the queues.
DataReady ==
  \A t \in Task : \A p \in Preds(t) :
    /\ Started("cpu", t) => \A w \in {"cpu", "dpu", "reduce"} : isCompleted[w][p]
    /\ Started("dpu", t) => \A w \in {"cpu", "dpu", "map"} : isCompleted[w][p]

\* The "exclusivity" of processTasks: of the DPU, MAP and REDUCE threads at
\* most one executes at any time.
DpuExclusive ==
  \A v, w \in Worker :
    /\ DPURelated(v) /\ pc[v] \in {"run", "release"}
    /\ DPURelated(w) /\ pc[w] \in {"run", "release"}
    => v = w

\* No thread sleeps in cv_.wait on a predicate that already holds: the only
\* notification is the one of the stage that made it true.
NoMissedWakeup ==
  \A w \in Worker : pc[w] = "asleep" => ~AllDependenciesMet(w, Current(w))

\* A thread that proceeds knows when its latest input was ready, though the
\* scans before collected only the inputs up to the first missing one.
WakerIsLatestInput ==
  \A w \in Worker, t \in Task :
    Started(w, t) =>
      lastWaker[w][t] =
        Max({0} \cup {completeTime[Producer(w)][Deps(w, t)[i]] :
                      i \in DOMAIN Deps(w, t)})

\* Virtual time respects the graph: a stage ends no earlier than its cost
\* after the end of each stage it waited for.
EndsAfterInputs ==
  \A s \in ChargedStages : \A i \in DOMAIN Deps(s[1], s[2]) :
    Begin(s) >= completeTime[Producer(s[1])][Deps(s[1], s[2])[i]]

\* Virtual time respects the hardware: the predicted intervals of two stages
\* of one processor do not overlap, whichever threads charged them.
NoVirtualOverlap ==
  \A a, b \in ChargedStages :
    a # b /\ ResourceOf(a[1]) = ResourceOf(b[1])
      => End(a) <= Begin(b) \/ End(b) <= Begin(a)

\* No addition to totalEnergyCost_joule is lost or made twice, though four
\* threads make them and the same pool runs one workload after the other.
EnergyBalance == totalEnergy = TotalOf(Energy, ChargedStages)

\* execWorkload reports the end of the stage that ended last, never an earlier
\* clock, and only after every stage of every task has run.
ResultIsLastEnd ==
  main = "idle" /\ rounds > 0 =>
    /\ \A w \in Worker, t \in Task : isCompleted[w][t]
    /\ makespan = Max({0} \cup {End(s) : s \in Worker \X Task})

\* Within a workload a completion is final, its time included, so a dependent
\* that reads it later reads what an earlier one read; and clocks never go back.
CompletionsFinal ==
  [][main = "join" =>
       /\ \A w \in Worker, t \in Task : isCompleted[w][t] =>
            isCompleted'[w][t] /\ completeTime'[w][t] = completeTime[w][t]
       /\ \A r \in Resource : mimicTime'[r] >= mimicTime[r]]_vars

\* execWorkload returns: no schedule that respects the graph makes the four
\* threads wait for one another for ever, on cv_ or on the two mutexes.
WorkloadReturns == (main = "join") ~> (main = "idle")

----------------------------------------------------------------------------
(* The pool implements the stage graph. *)

StageNeeds(s) ==
  LET inputs(W) == W \X Preds(s[2]) IN
  CASE s[1] = "cpu"    -> inputs({"cpu", "dpu", "reduce"})
    [] s[1] = "dpu"    -> inputs({"cpu", "dpu", "map"})
    [] s[1] = "map"    -> {<<"cpu", s[2]>>}
    [] s[1] = "reduce" -> {<<"dpu", s[2]>>}

PhaseOf(w, t) ==
  CASE isCompleted[w][t]               -> "done"
    [] Past(w, t, {"run", "release"})
       /\ ~isCompleted[w][t]           -> "running"
    [] Past(w, t, {"signal"})
       /\ ~isCompleted[w][t]           -> "ran"
    [] OTHER                           -> "pending"

Abstract == INSTANCE StageGraph WITH
  Stage     <- Worker \X Task,
  Needs     <- [s \in Worker \X Task |-> StageNeeds(s)],
  Exclusive <- {s \in Worker \X Task : DPURelated(s[1])},
  phase     <- [s \in Worker \X Task |-> PhaseOf(s[1], s[2])]

\* One workload after the other, every stage of each runs once, after all it
\* needs, the DPU stages one at a time.
RefinesStageGraph == Abstract!Spec
===========================================================================
