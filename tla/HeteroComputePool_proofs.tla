---------------------- MODULE HeteroComputePool_proofs ----------------------
(***************************************************************************)
(* Theorems about HeteroComputePool for every task graph, every set of     *)
(* schedules, every cost and any number of workloads.                      *)
(*                                                                         *)
(* PoolInv is the inductive invariant.  Its parts relate the position of   *)
(* each thread in processTasks to the position in its queue (Positioned),  *)
(* the completion vectors to those positions (Fifo), the holder of         *)
(* dpuMutex_ to the threads that execute on the DPUs (DpuOwned), and the   *)
(* started stages to the completions they waited for (StartedReady).       *)
(*                                                                         *)
(* Three results rest on it.  The pool implements StageGraph: each step is *)
(* one of StageGraph or a stutter (PhasesTold).  TimeInv is inductive in   *)
(* its company: what a stage has gathered of its inputs' times (WakerInv), *)
(* how the ends of the stages bound the clocks (ClockInv), that no two     *)
(* stages of a processor overlap in virtual time, and what is reported     *)
(* (ReportInv).  The energies add up to the cost of the stages charged.    *)
(***************************************************************************)
EXTENDS HeteroComputePool, FiniteFolds

Busy == {"lock", "check", "asleep", "claim", "run", "release", "signal"}

\* A thread with a task has popped one; a thread that left has popped all.
Positioned ==
  \A w \in Worker :
    /\ pc[w] \in Busy => popped[w] >= 1
    /\ pc[w] = "exit" => popped[w] = Len(order)

\* The CPU thread never touches dpuMutex_, the others hold it to execute.
DpuOwned ==
  \A w \in Worker :
    /\ pc[w] \in {"claim", "release"} => DPURelated(w)
    /\ DPURelated(w) /\ pc[w] \in {"run", "release"} => dpuMutex = w

\* What a thread has completed is what it has popped, less the task it is on.
Fifo ==
  \A w \in Worker : \A i \in DOMAIN order :
    isCompleted[w][order[i]] <=>
      \/ i < popped[w]
      \/ i = popped[w] /\ pc[w] \in {"fetch", "exit"}

\* Nothing but tasks of the queues is ever marked complete.
OnlyQueued ==
  \A w \in Worker, t \in Task :
    isCompleted[w][t] => \E i \in DOMAIN order : order[i] = t

StartedReady ==
  \A w \in Worker, t \in Task : Started(w, t) => AllDependenciesMet(w, t)

TypeInv == TypeOK /\ Positioned

PoolInv == TypeInv /\ DpuOwned /\ Fifo /\ OnlyQueued /\ StartedReady /\ NoMissedWakeup

----------------------------------------------------------------------------

\* Every schedule and the empty queue are sequences of tasks; the thread that
\* has taken something from its queue is on a task of the graph.
LEMMA OrderTyped ==
  ASSUME TypeOK
  PROVE  order \in Seq(Task) /\ Len(order) \in Nat
PROOF
  <1>1. order \in Orders \cup {<<>>}
    BY DEF TypeOK
  <1>2. \A o \in Orders : o \in Seq(Task)
    BY ScheduleAssumption DEF IsSchedule
  <1>3. <<>> \in Seq(Task)
    OBVIOUS
  <1>4. order \in Seq(Task)
    BY <1>1, <1>2, <1>3
  <1>5. Len(order) \in Nat
    BY <1>4
  <1> QED  BY <1>4, <1>5

LEMMA CurrentTyped ==
  ASSUME TypeInv, NEW w \in Worker, pc[w] \in Busy
  PROVE  Current(w) \in Task /\ popped[w] \in DOMAIN order
PROOF
  <1>1. popped[w] \in 1..Len(order)
    BY OrderTyped DEF TypeInv, TypeOK, Positioned
  <1>2. order \in [1..Len(order) -> Task]
    BY OrderTyped DEF TypeInv
  <1> QED  BY <1>1, <1>2 DEF Current

\* The dependency check looks up tasks of the graph, finitely many.
LEMMA DepsTyped ==
  ASSUME NEW w \in Worker, NEW t \in Task
  PROVE  /\ Producer(w) \in Worker
         /\ Deps(w, t) \in Seq(Task)
         /\ IsFiniteSet(DOMAIN Deps(w, t))
         /\ \A i \in DOMAIN Deps(w, t) : Deps(w, t)[i] \in Task
PROOF
  <1>1. Producer(w) \in Worker
    BY DEF Producer, Worker
  <1>2. Deps(w, t) \in Seq(Task)
    BY GraphAssumption DEF Deps
  <1>3. IsFiniteSet(DOMAIN Deps(w, t))
    <2>1. Len(Deps(w, t)) \in Nat /\ DOMAIN Deps(w, t) = 1..Len(Deps(w, t))
      BY <1>2
    <2> QED  BY <2>1, FS_Interval
  <1> QED  BY <1>1, <1>2, <1>3

\* The scan leaves a time, whichever prefix of the dependencies it got past.
LEMMA ScanTyped ==
  ASSUME TypeOK, NEW w \in Worker, NEW t \in Task
  PROVE  LastWakerAfterScan(w, t) \in Nat
PROOF
  <1> DEFINE I == Scanned(w, t)
             f == [i \in I |-> completeTime[Producer(w)][Deps(w, t)[i]]]
  <1>1. IsFiniteSet(I)
    BY DepsTyped, FS_Subset DEF Scanned
  <1>2. lastWaker[w][t] \in Nat
    BY DEF TypeOK
  <1>3. f \in [I -> Nat]
    BY DepsTyped DEF TypeOK, Scanned
  <1>4. {completeTime[Producer(w)][Deps(w, t)[i]] : i \in I} = {f[i] : i \in I}
    OBVIOUS
  <1> HIDE DEF f, I
  <1>5. Max({lastWaker[w][t]} \cup {f[i] : i \in I}) \in Nat
    BY <1>1, <1>2, <1>3, MaxWith
  <1> QED  BY <1>4, <1>5 DEF LastWakerAfterScan, I

LEMMA EndTimeTyped ==
  ASSUME TypeOK, NEW w \in Worker, NEW t \in Task
  PROVE  /\ ResourceOf(w) \in Resource
         /\ EndTime(w, t) \in Nat
         /\ EndTime(w, t) >= mimicTime[ResourceOf(w)]
PROOF
  <1>1. ResourceOf(w) \in Resource
    BY DEF ResourceOf, Resource
  <1>2. mimicTime[ResourceOf(w)] \in Nat /\ lastWaker[w][t] \in Nat
        /\ Cost[w][t] \in Nat
    BY <1>1, CostAssumption DEF TypeOK
  <1> QED  BY <1>1, <1>2, MaxOfTwo DEF EndTime

----------------------------------------------------------------------------
(* The type invariant. *)

USE DEF TypeInv

\* The step of the type invariant, one case per action.
LEMMA TypeStep ==
  ASSUME TypeInv, [Next]_vars
  PROVE  TypeInv'
PROOF
  <1>0. order \in Seq(Task) /\ Len(order) \in Nat
    BY OrderTyped
  <1> USE <1>0
  <1>1. CASE ExecWorkload
    <2>1. PICK o \in Orders : order' = o
      BY <1>1 DEF ExecWorkload
    <2>2. Len(order') \in Nat
      BY <2>1, ScheduleAssumption DEF IsSchedule
    <2>3. TypeOK'
      BY <1>1, <2>1, <2>2, BoundAssumption
      DEF ExecWorkload, TypeOK, AllWorkers, PerTask, Resource
    <2>4. Positioned'
      BY <1>1 DEF ExecWorkload, Positioned, AllWorkers, Busy
    <2> QED  BY <2>3, <2>4
  <1>2. CASE Join
    <2>1. Max({mimicTime[r] : r \in Resource}) \in Nat
      <3>1. {mimicTime[r] : r \in Resource} = {mimicTime["cpu"], mimicTime["dpu"]}
        BY DEF Resource
      <3>2. mimicTime["cpu"] \in Nat /\ mimicTime["dpu"] \in Nat
        BY DEF TypeOK, Resource
      <3> QED  BY <3>1, <3>2, MaxOfTwo
    <2>2. TypeOK'
      BY <1>2, <2>1 DEF Join, TypeOK, mimicVars
    <2>3. Positioned'
      BY <1>2 DEF Join, Positioned
    <2> QED  BY <2>2, <2>3
  <1>3. ASSUME NEW w \in Worker, Step(w) \/ SpuriousWakeup(w)
        PROVE  TypeInv'
    <2>1. CASE Fetch(w)
      <3>1. popped[w] + 1 \in 0..Len(order) /\ popped[w] + 1 >= 1
        <4>1. popped[w] \in 0..Len(order) /\ popped[w] < Len(order)
          BY <2>1 DEF Fetch, TypeOK
        <4> QED  BY <4>1, <1>0
      <3>2. TypeOK'
        BY <2>1, <3>1 DEF Fetch, TypeOK, mimicVars
      <3>3. Positioned'
        BY <2>1, <3>1 DEF Fetch, TypeOK, Positioned, Busy
      <3> QED  BY <3>2, <3>3
    <2>2. CASE Exit(w)
      BY <2>2 DEF Exit, TypeOK, Positioned, Busy, mimicVars
    <2>3. CASE Lock(w)
      BY <2>3 DEF Lock, TypeOK, Positioned, Busy, mimicVars
    <2>4. ASSUME Scan(w)
          PROVE  lastWaker' \in [Worker -> [Task -> Nat]]
      <3>1. Current(w) \in Task
        BY <2>4, CurrentTyped DEF Scan, Busy
      <3>2. LastWakerAfterScan(w, Current(w)) \in Nat
        BY <3>1, ScanTyped
      <3> QED  BY <2>4, <3>1, <3>2 DEF Scan, TypeOK
    <2>5. CASE Proceed(w)
      BY <2>4, <2>5 DEF Proceed, Scan, TypeOK, Positioned, Busy
    <2>6. CASE Sleep(w)
      BY <2>4, <2>6 DEF Sleep, Scan, TypeOK, Positioned, Busy
    <2>7. CASE SpuriousWakeup(w)
      BY <2>7 DEF SpuriousWakeup, TypeOK, Positioned, Busy, mimicVars
    <2>8. CASE ClaimDpu(w)
      BY <2>8 DEF ClaimDpu, TypeOK, Positioned, Busy, mimicVars
    <2>9. CASE Execute(w)
      <3>1. Current(w) \in Task
        BY <2>9, CurrentTyped DEF Execute, Busy
      <3>2. ResourceOf(w) \in Resource /\ EndTime(w, Current(w)) \in Nat
        BY <3>1, EndTimeTyped
      <3>3. Energy[w][Current(w)] \in Nat
        BY <3>1, CostAssumption
      <3>4. TypeOK'
        <4>1. mimicTime' \in [Resource -> Nat]
              /\ completeTime' \in [Worker -> [Task -> Nat]]
          BY <2>9, <3>1, <3>2 DEF Execute, TypeOK
        <4>2. totalEnergy' \in Nat
          BY <2>9, <3>3 DEF Execute, TypeOK
        <4> QED  BY <2>9, <4>1, <4>2 DEF Execute, TypeOK, AfterRun
      <3>5. Positioned'
        BY <2>9 DEF Execute, TypeOK, Positioned, Busy, AfterRun
      <3> QED  BY <3>4, <3>5
    <2>10. CASE ExecuteNothing(w)
      BY <2>10 DEF ExecuteNothing, TypeOK, Positioned, Busy, mimicVars, AfterRun
    <2>11. CASE ReleaseDpu(w)
      BY <2>11 DEF ReleaseDpu, TypeOK, Positioned, Busy, mimicVars
    <2>12. CASE Signal(w)
      <3>1. Current(w) \in Task
        BY <2>12, CurrentTyped DEF Signal, Busy
      <3>2. TypeOK'
        BY <2>12, <3>1 DEF Signal, TypeOK, mimicVars
      <3>3. Positioned'
        BY <2>12 DEF Signal, TypeOK, Positioned, Busy
      <3> QED  BY <3>2, <3>3
    <2> QED
      BY <1>3, <2>1, <2>2, <2>3, <2>5, <2>6, <2>7, <2>8, <2>9, <2>10, <2>11, <2>12
      DEF Step
  <1>4. CASE Finished \/ UNCHANGED vars
    BY <1>4 DEF Finished, vars, syncVars, mimicVars, TypeOK, Positioned
  <1> QED  BY <1>1, <1>2, <1>3, <1>4 DEF Next

LEMMA TypeInit ==
  ASSUME Init
  PROVE  TypeInv
PROOF
  <1>1. Len(<<>>) = 0
    OBVIOUS
  <1> QED
    BY <1>1, BoundAssumption
    DEF Init, TypeOK, Positioned, AllWorkers, PerTask, Resource, Busy

\* Every variable keeps its type; every pop is of a non-empty queue, and every
\* time and energy the four threads add up stays defined.
THEOREM TypeCorrect == Spec => []TypeOK
PROOF
  <1>1. Spec => []TypeInv
    BY TypeInit, TypeStep, PTL DEF Spec
  <1>2. TypeInv => TypeOK
    OBVIOUS
  <1> QED  BY <1>1, <1>2, PTL

----------------------------------------------------------------------------
(* Mutual exclusion on the DPUs. *)

LEMMA DpuOwnedStep ==
  ASSUME TypeInv, DpuOwned, [Next]_vars
  PROVE  DpuOwned'
PROOF
  <1>1. CASE ExecWorkload
    BY <1>1 DEF ExecWorkload, DpuOwned, AllWorkers
  <1>2. CASE Join
    BY <1>2 DEF Join, DpuOwned
  <1>3. ASSUME NEW w \in Worker, Step(w) \/ SpuriousWakeup(w)
        PROVE  DpuOwned'
    <2>1. CASE Fetch(w) \/ Exit(w) \/ Lock(w) \/ SpuriousWakeup(w)
      BY <2>1 DEF Fetch, Exit, Lock, SpuriousWakeup, DpuOwned, TypeOK
    <2>2. CASE Proceed(w) \/ Sleep(w)
      BY <2>2 DEF Proceed, Sleep, Scan, DpuOwned, TypeOK
    <2>3. CASE ClaimDpu(w)
      <3>1. \A v \in Worker : ~(DPURelated(v) /\ pc[v] \in {"run", "release"})
        BY <2>3, BoundAssumption DEF ClaimDpu, DpuOwned
      <3> QED  BY <2>3, <3>1 DEF ClaimDpu, DpuOwned, TypeOK
    <2>4. CASE Execute(w) \/ ExecuteNothing(w)
      BY <2>4 DEF Execute, ExecuteNothing, AfterRun, DpuOwned, TypeOK
    <2>5. CASE ReleaseDpu(w)
      <3>1. DPURelated(w) /\ dpuMutex = w
        BY <2>5 DEF ReleaseDpu, DpuOwned
      <3>2. \A v \in Worker \ {w} : ~(DPURelated(v) /\ pc[v] \in {"run", "release"})
        BY <3>1 DEF DpuOwned
      <3> QED  BY <2>5, <3>1, <3>2 DEF ReleaseDpu, DpuOwned, TypeOK
    <2>6. CASE Signal(w)
      BY <2>6 DEF Signal, DpuOwned, TypeOK
    <2> QED
      BY <1>3, <2>1, <2>2, <2>3, <2>4, <2>5, <2>6 DEF Step
  <1>4. CASE Finished \/ UNCHANGED vars
    BY <1>4 DEF Finished, vars, syncVars, DpuOwned
  <1> QED  BY <1>1, <1>2, <1>3, <1>4 DEF Next

\* No two of the DPU, MAP and REDUCE threads execute at the same time.
THEOREM DpuExclusiveAlways == Spec => []DpuExclusive
PROOF
  <1>1. Init => DpuOwned
    BY DEF Init, DpuOwned, AllWorkers
  <1>2. DpuOwned => DpuExclusive
    BY DEF DpuOwned, DpuExclusive
  <1>3. Spec => [](TypeInv /\ DpuOwned)
    <2>1. Init => TypeInv /\ DpuOwned
      BY <1>1, TypeInit
    <2>2. TypeInv /\ DpuOwned /\ [Next]_vars => (TypeInv /\ DpuOwned)'
      BY TypeStep, DpuOwnedStep
    <2> QED  BY <2>1, <2>2, PTL DEF Spec
  <1> QED  BY <1>2, <1>3, PTL

----------------------------------------------------------------------------
(* Wake-ups. *)

LEMMA WakeupStep ==
  ASSUME TypeInv, NoMissedWakeup, [Next]_vars
  PROVE  NoMissedWakeup'
PROOF
  <1>1. CASE ExecWorkload
    BY <1>1 DEF ExecWorkload, NoMissedWakeup, AllWorkers
  <1>2. CASE Join
    BY <1>2 DEF Join, NoMissedWakeup, AllDependenciesMet, Current
  <1>3. ASSUME NEW w \in Worker, Step(w) \/ SpuriousWakeup(w)
        PROVE  NoMissedWakeup'
    <2>1. CASE Fetch(w)
      BY <2>1 DEF Fetch, NoMissedWakeup, AllDependenciesMet, Current, TypeOK
    <2>2. CASE Exit(w) \/ Lock(w) \/ SpuriousWakeup(w)
      BY <2>2
      DEF Exit, Lock, SpuriousWakeup, NoMissedWakeup, AllDependenciesMet, Current, TypeOK
    <2>3. CASE Proceed(w)
      BY <2>3 DEF Proceed, Scan, NoMissedWakeup, AllDependenciesMet, Current, TypeOK
    <2>4. CASE Sleep(w)
      BY <2>4 DEF Sleep, Scan, NoMissedWakeup, AllDependenciesMet, Current, TypeOK
    <2>5. CASE ClaimDpu(w) \/ ReleaseDpu(w)
      BY <2>5
      DEF ClaimDpu, ReleaseDpu, NoMissedWakeup, AllDependenciesMet, Current, TypeOK
    <2>6. CASE Execute(w) \/ ExecuteNothing(w)
      BY <2>6
      DEF Execute, ExecuteNothing, AfterRun, NoMissedWakeup, AllDependenciesMet,
          Current, TypeOK
    <2>7. CASE Signal(w)
      BY <2>7 DEF Signal, NoMissedWakeup, TypeOK
    <2> QED
      BY <1>3, <2>1, <2>2, <2>3, <2>4, <2>5, <2>6, <2>7 DEF Step
  <1>4. CASE Finished \/ UNCHANGED vars
    BY <1>4
    DEF Finished, vars, syncVars, NoMissedWakeup, AllDependenciesMet, Current
  <1> QED  BY <1>1, <1>2, <1>3, <1>4 DEF Next

\* A thread asleep on cv_ always has an input missing: its wake-up, the signal
\* of that input, is still to come.
THEOREM NoMissedWakeupAlways == Spec => []NoMissedWakeup
PROOF
  <1>1. Init => TypeInv /\ NoMissedWakeup
    BY TypeInit DEF Init, NoMissedWakeup, AllWorkers
  <1>2. TypeInv /\ NoMissedWakeup /\ [Next]_vars => (TypeInv /\ NoMissedWakeup)'
    BY TypeStep, WakeupStep
  <1> QED  BY <1>1, <1>2, PTL DEF Spec

----------------------------------------------------------------------------
(* Completion: the queues, and what a started stage can rely on. *)

\* The order of the queues names every task once, predecessors first.
LEMMA OrderInjective ==
  ASSUME TypeOK
  PROVE  /\ \A i, j \in DOMAIN order : order[i] = order[j] => i = j
         /\ \A i, j \in DOMAIN order : order[j] \in Preds(order[i]) => j < i
PROOF
  <1>1. CASE order \in Orders
    BY <1>1, ScheduleAssumption DEF IsSchedule
  <1>2. CASE order = <<>>
    BY <1>2
  <1> QED  BY <1>1, <1>2 DEF TypeOK

LEMMA FifoStep ==
  ASSUME TypeInv, Fifo, [Next]_vars
  PROVE  Fifo'
PROOF
  <1>0. /\ order \in Seq(Task)
        /\ \A w \in Worker : popped[w] \in Nat
    BY OrderTyped DEF TypeOK
  <1>1. CASE ExecWorkload
    <2>1. PICK o \in Orders : order' = o
      BY <1>1 DEF ExecWorkload
    <2>2. o \in Seq(Task)
      BY ScheduleAssumption DEF IsSchedule
    <2>3. \A i \in DOMAIN o : o[i] \in Task /\ i \in Nat /\ i > 0
      BY <2>2
    <2> QED  BY <1>1, <2>1, <2>3 DEF ExecWorkload, Fifo, AllWorkers, PerTask
  <1>2. CASE Join
    BY <1>2 DEF Join, Fifo
  <1>3. ASSUME NEW w \in Worker, Step(w) \/ SpuriousWakeup(w)
        PROVE  Fifo'
    <2>1. CASE Fetch(w)
      <3>1. \A i \in DOMAIN order :
              i < popped[w] + 1 <=> i < popped[w] \/ i = popped[w]
        BY <1>0
      <3> QED  BY <1>0, <2>1, <3>1 DEF Fetch, Fifo, TypeOK
    <2>2. CASE Exit(w)
      BY <2>2, ZenonT(40) DEF Exit, Fifo, TypeOK
    <2>3. CASE Lock(w) \/ SpuriousWakeup(w)
      BY <2>3, ZenonT(40) DEF Lock, SpuriousWakeup, Fifo, TypeOK
    <2>4. CASE Proceed(w) \/ Sleep(w)
      BY <2>4, ZenonT(40) DEF Proceed, Sleep, Scan, Fifo, TypeOK
    <2>5. CASE ClaimDpu(w) \/ ReleaseDpu(w)
      BY <2>5, ZenonT(40) DEF ClaimDpu, ReleaseDpu, Fifo, TypeOK
    <2>6. CASE Execute(w) \/ ExecuteNothing(w)
      BY <2>6 DEF Execute, ExecuteNothing, AfterRun, Fifo, TypeOK
    <2>7. CASE Signal(w)
      <3>1. Current(w) \in Task /\ popped[w] \in DOMAIN order
        BY <2>7, CurrentTyped DEF Signal, Busy
      <3>2. \A i \in DOMAIN order : order[i] = Current(w) <=> i = popped[w]
        BY <3>1, OrderInjective DEF Current
      <3>3. \A i \in DOMAIN order : order[i] \in Task
        BY <1>0
      <3>4. \A i \in DOMAIN order :
              isCompleted'[w][order[i]] <=> isCompleted[w][order[i]] \/ i = popped[w]
        BY <2>7, <3>1, <3>2, <3>3 DEF Signal, TypeOK
      <3>5. \A v \in Worker \ {w} : isCompleted'[v] = isCompleted[v]
        BY <2>7 DEF Signal, TypeOK
      <3>6. /\ pc'[w] = "fetch" /\ pc[w] = "signal"
            /\ \A v \in Worker \ {w} :
                 pc'[v] \in {"fetch", "exit"} <=> pc[v] \in {"fetch", "exit"}
        BY <2>7 DEF Signal, TypeOK
      <3>7. UNCHANGED <<order, popped>>
        BY <2>7 DEF Signal
      <3>8. ASSUME NEW v \in Worker, NEW i \in DOMAIN order
            PROVE  isCompleted'[v][order[i]] <=>
                     i < popped[v] \/ (i = popped[v] /\ pc'[v] \in {"fetch", "exit"})
        <4>1. CASE v = w
          BY <3>4, <3>6, <4>1 DEF Fifo
        <4>2. CASE v # w
          BY <3>5, <3>6, <4>2 DEF Fifo
        <4> QED  BY <4>1, <4>2
      <3> QED  BY <3>7, <3>8 DEF Fifo
    <2> QED
      BY <1>3, <2>1, <2>2, <2>3, <2>4, <2>5, <2>6, <2>7 DEF Step
  <1>4. CASE Finished \/ UNCHANGED vars
    BY <1>4 DEF Finished, vars, syncVars, Fifo
  <1> QED  BY <1>1, <1>2, <1>3, <1>4 DEF Next

\* A thread's own step is the only one that starts a stage of its, and only
\* Proceed does; every other step keeps or raises the completions.
LEMMA StartedReadyStep ==
  ASSUME TypeInv, StartedReady, [Next]_vars
  PROVE  StartedReady'
PROOF
  <1> USE DEF Started, Past, AllDependenciesMet, Current
  <1>1. CASE ExecWorkload
    BY <1>1 DEF ExecWorkload, StartedReady, AllWorkers, PerTask
  <1>2. CASE Join
    BY <1>2 DEF Join, StartedReady
  <1>3. ASSUME NEW w \in Worker, Step(w) \/ SpuriousWakeup(w)
        PROVE  StartedReady'
    <2>1. CASE Fetch(w)
      BY <2>1 DEF Fetch, StartedReady, TypeOK
    <2>2. CASE Exit(w) \/ Lock(w) \/ SpuriousWakeup(w)
      BY <2>2 DEF Exit, Lock, SpuriousWakeup, StartedReady, TypeOK
    <2>3. CASE Proceed(w)
      BY <2>3 DEF Proceed, Scan, StartedReady, TypeOK
    <2>4. CASE Sleep(w)
      BY <2>4 DEF Sleep, Scan, StartedReady, TypeOK
    <2>5. CASE ClaimDpu(w) \/ ReleaseDpu(w)
      BY <2>5 DEF ClaimDpu, ReleaseDpu, StartedReady, TypeOK
    <2>6. CASE Execute(w) \/ ExecuteNothing(w)
      BY <2>6 DEF Execute, ExecuteNothing, AfterRun, StartedReady, TypeOK
    <2>7. CASE Signal(w)
      <3>1. Current(w) \in Task /\ popped[w] >= 1
        BY <2>7, CurrentTyped DEF Signal, Busy, Positioned
      <3>2. \A v \in Worker, t \in Task : isCompleted[v][t] => isCompleted'[v][t]
        BY <2>7 DEF Signal, TypeOK
      <3>3. \A v \in Worker, t \in Task : Started(v, t)' => Started(v, t)
        BY <2>7, <3>1 DEF Signal, TypeOK
      <3> QED  BY <3>2, <3>3, DepsTyped DEF StartedReady
    <2> QED
      BY <1>3, <2>1, <2>2, <2>3, <2>4, <2>5, <2>6, <2>7 DEF Step
  <1>4. CASE Finished \/ UNCHANGED vars
    BY <1>4 DEF Finished, vars, syncVars, StartedReady
  <1> QED  BY <1>1, <1>2, <1>3, <1>4 DEF Next

LEMMA OnlyQueuedStep ==
  ASSUME TypeInv, OnlyQueued, [Next]_vars
  PROVE  OnlyQueued'
PROOF
  <1>1. CASE ExecWorkload
    BY <1>1 DEF ExecWorkload, OnlyQueued, PerTask
  <1>2. ASSUME NEW w \in Worker, Signal(w)
        PROVE  OnlyQueued'
    <2>1. Current(w) \in Task /\ popped[w] \in DOMAIN order
      BY <1>2, CurrentTyped DEF Signal, Busy
    <2>2. order[popped[w]] = Current(w) /\ order' = order
      BY <1>2 DEF Current, Signal
    <2> QED  BY <1>2, <2>1, <2>2 DEF Signal, OnlyQueued, TypeOK
  <1>3. CASE UNCHANGED <<order, isCompleted>>
    BY <1>3 DEF OnlyQueued
  <1>4. ExecWorkload \/ (\E w \in Worker : Signal(w)) \/ UNCHANGED <<order, isCompleted>>
    BY DEF Next, Join, Step, SpuriousWakeup, Fetch, Exit, Lock, Proceed, Sleep, Scan,
           ClaimDpu, Execute, ExecuteNothing, ReleaseDpu, Finished, vars, syncVars
  <1> QED  BY <1>1, <1>2, <1>3, <1>4

\* The inductive invariant of the pool.
THEOREM PoolInvariant == Spec => []PoolInv
PROOF
  <1>1. Init => PoolInv
    <2>1. ASSUME Init  PROVE Fifo /\ OnlyQueued /\ StartedReady
      BY <2>1
      DEF Init, Fifo, OnlyQueued, StartedReady, Started, Past, AllWorkers, PerTask
    <2>2. ASSUME Init  PROVE DpuOwned /\ NoMissedWakeup
      BY <2>2 DEF Init, DpuOwned, NoMissedWakeup, AllWorkers
    <2> QED  BY <2>1, <2>2, TypeInit DEF PoolInv
  <1>2. PoolInv /\ [Next]_vars => PoolInv'
    BY TypeStep, DpuOwnedStep, FifoStep, OnlyQueuedStep, StartedReadyStep, WakeupStep
    DEF PoolInv
  <1> QED  BY <1>1, <1>2, PTL DEF Spec

\* A thread past its wait for t has completed the tasks before t in the order,
\* the predecessors of t among them.
LEMMA OwnPredecessors ==
  ASSUME PoolInv, NEW w \in Worker, NEW t \in Task, NEW p \in Preds(t), Started(w, t)
  PROVE  isCompleted[w][p]
PROOF
  <1>1. PICK i \in DOMAIN order : order[i] = t
    BY CurrentTyped DEF PoolInv, OnlyQueued, Started, Past, Busy, Current
  <1>2. p \in Task
    BY GraphAssumption DEF Preds
  <1>3. order \in Orders
    BY <1>1 DEF PoolInv, TypeOK
  <1>4. PICK j \in DOMAIN order : order[j] = p
    BY <1>2, <1>3, ScheduleAssumption DEF IsSchedule
  <1>5. j < i
    BY <1>1, <1>4, OrderInjective DEF PoolInv
  <1>6. i \in Nat /\ j \in Nat /\ popped[w] \in Nat
    <2>1. order \in Seq(Task)
      BY OrderTyped DEF PoolInv
    <2>2. i \in Nat /\ j \in Nat
      BY <2>1
    <2>3. popped[w] \in 0..Len(order)
      BY DEF PoolInv, TypeOK
    <2> QED  BY <2>1, <2>2, <2>3
  <1>7. i <= popped[w]
    <2>1. CASE isCompleted[w][t]
      BY <1>1, <1>6, <2>1 DEF PoolInv, Fifo
    <2>2. CASE Past(w, t, {"claim", "run", "release", "signal"})
      <3>1. popped[w] \in DOMAIN order /\ order[popped[w]] = t
        BY <2>2, CurrentTyped DEF Past, PoolInv, Busy, Current
      <3> QED  BY <1>1, <1>6, <3>1, OrderInjective DEF PoolInv
    <2> QED  BY <2>1, <2>2 DEF Started
  <1>8. j < popped[w]
    BY <1>5, <1>6, <1>7
  <1> QED  BY <1>4, <1>8 DEF PoolInv, Fifo

\* The input a started stage checked for is complete, so the stage that
\* produced it has started, and has its own input complete.
LEMMA CheckedInput ==
  ASSUME PoolInv, NEW t \in Task
  PROVE  /\ \A w \in {"cpu", "dpu"}, p \in Preds(t) :
              Started(w, t) => isCompleted[Producer(w)][p]
         /\ \A w \in {"map", "reduce"} :
              isCompleted[w][t] => isCompleted[Producer(w)][t]
PROOF
  <1>1. ASSUME NEW w \in {"cpu", "dpu"}, NEW p \in Preds(t), Started(w, t)
        PROVE  isCompleted[Producer(w)][p]
    <2>1. w \in Worker /\ Deps(w, t) = DepSeq[t]
      BY DEF Worker, Deps
    <2>2. PICK i \in DOMAIN Deps(w, t) : Deps(w, t)[i] = p
      BY <2>1 DEF Preds
    <2>3. AllDependenciesMet(w, t)
      BY <1>1, <2>1 DEF PoolInv, StartedReady
    <2> QED  BY <2>2, <2>3 DEF AllDependenciesMet
  <1>2. ASSUME NEW w \in {"map", "reduce"}, isCompleted[w][t]
        PROVE  isCompleted[Producer(w)][t]
    <2>1. w \in Worker /\ Deps(w, t) = <<t>>
      BY DEF Worker, Deps
    <2>2. AllDependenciesMet(w, t)
      BY <1>2, <2>1 DEF PoolInv, StartedReady, Started
    <2>3. 1 \in DOMAIN Deps(w, t) /\ Deps(w, t)[1] = t
      BY <2>1
    <2> QED  BY <2>2, <2>3 DEF AllDependenciesMet
  <1> QED  BY <1>1, <1>2

\* The chain of the waits behind DataReady.
LEMMA PoolReady == PoolInv => DataReady
PROOF
  <1>1. ASSUME PoolInv, NEW t \in Task, NEW p \in Preds(t)
        PROVE  /\ Started("cpu", t) =>
                    \A w \in {"cpu", "dpu", "reduce"} : isCompleted[w][p]
               /\ Started("dpu", t) =>
                    \A w \in {"cpu", "dpu", "map"} : isCompleted[w][p]
    <2>1. p \in Task
      BY GraphAssumption DEF Preds
    <2>2. /\ Producer("cpu") = "reduce"
          /\ Producer("dpu") = "map"
          /\ Producer("reduce") = "dpu"
          /\ Producer("map") = "cpu"
      BY DEF Producer
    <2>3. ASSUME Started("cpu", t)
          PROVE  isCompleted["reduce"][p] /\ isCompleted["dpu"][p] /\ isCompleted["cpu"][p]
      <3>1. isCompleted["reduce"][p]
        BY <1>1, <2>2, <2>3, CheckedInput
      <3>2. isCompleted["dpu"][p]
        BY <1>1, <2>1, <2>2, <3>1, CheckedInput
      <3>3. isCompleted["cpu"][p]
        BY <1>1, <2>3, OwnPredecessors DEF Worker
      <3> QED  BY <3>1, <3>2, <3>3
    <2>4. ASSUME Started("dpu", t)
          PROVE  isCompleted["map"][p] /\ isCompleted["cpu"][p] /\ isCompleted["dpu"][p]
      <3>1. isCompleted["map"][p]
        BY <1>1, <2>2, <2>4, CheckedInput
      <3>2. isCompleted["cpu"][p]
        BY <1>1, <2>1, <2>2, <3>1, CheckedInput
      <3>3. isCompleted["dpu"][p]
        BY <1>1, <2>4, OwnPredecessors DEF Worker
      <3> QED  BY <3>1, <3>2, <3>3
    <2> QED  BY <2>3, <2>4
  <1> QED  BY <1>1 DEF DataReady

\* Both halves of every predecessor, and the transfer that matters to the half
\* that starts, are complete; the thread has checked for the transfer only.
THEOREM DataReadyAlways == Spec => []DataReady
  BY PoolReady, PoolInvariant, PTL

----------------------------------------------------------------------------
(* What a step may never do. *)

\* A thread that executes is on a task it has not completed.
LEMMA RunningIncomplete ==
  ASSUME PoolInv, NEW w \in Worker, pc[w] \in Busy
  PROVE  Current(w) \in Task /\ ~isCompleted[w][Current(w)]
PROOF
  <1>1. Current(w) \in Task /\ popped[w] \in DOMAIN order
    BY CurrentTyped DEF PoolInv
  <1>2. isCompleted[w][order[popped[w]]] <=>
          popped[w] < popped[w] \/ pc[w] \in {"fetch", "exit"}
    BY <1>1 DEF PoolInv, Fifo
  <1>3. popped[w] \in Nat
    <2>1. popped[w] \in 0..Len(order) /\ Len(order) \in Nat
      BY OrderTyped DEF PoolInv, TypeOK
    <2> QED  BY <2>1
  <1> QED  BY <1>1, <1>2, <1>3 DEF Current, Busy

\* Until the next workload no completion is withdrawn, no completion time
\* changes after it is published, and neither virtual clock goes back.
CompletionsKept ==
  /\ \A w \in Worker, t \in Task : isCompleted[w][t] =>
       isCompleted'[w][t] /\ completeTime'[w][t] = completeTime[w][t]
  /\ \A r \in Resource : mimicTime'[r] >= mimicTime[r]

LEMMA CompletionsKeptStep ==
  ASSUME PoolInv, [Next]_vars, ~ExecWorkload
  PROVE  CompletionsKept
PROOF
  <1>0. \A r \in Resource : mimicTime[r] \in Nat
    BY DEF PoolInv, TypeOK
  <1>1. ASSUME NEW w \in Worker, Execute(w)
        PROVE  CompletionsKept
    <2>1. Current(w) \in Task /\ ~isCompleted[w][Current(w)]
      BY <1>1, RunningIncomplete DEF Execute, Busy
    <2>2. ASSUME NEW v \in Worker, NEW t \in Task, isCompleted[v][t]
          PROVE  isCompleted'[v][t] /\ completeTime'[v][t] = completeTime[v][t]
      BY <1>1, <2>1, <2>2 DEF Execute, PoolInv, TypeOK
    <2>3. EndTime(w, Current(w)) >= mimicTime[ResourceOf(w)]
      BY <2>1, EndTimeTyped DEF PoolInv
    <2>4. \A r \in Resource : mimicTime'[r] >= mimicTime[r]
      BY <1>0, <1>1, <2>3 DEF Execute, PoolInv, TypeOK
    <2> QED  BY <2>2, <2>4 DEF CompletionsKept
  <1>2. ASSUME NEW w \in Worker, Signal(w)
        PROVE  CompletionsKept
    BY <1>0, <1>2 DEF Signal, PoolInv, TypeOK, mimicVars, CompletionsKept
  <1>3. CASE UNCHANGED <<isCompleted, completeTime, mimicTime>>
    BY <1>0, <1>3 DEF CompletionsKept
  <1>4. \/ \E w \in Worker : Execute(w) \/ Signal(w)
        \/ UNCHANGED <<isCompleted, completeTime, mimicTime>>
    BY
    DEF Next, Join, Step, SpuriousWakeup, Fetch, Exit, Lock, Proceed, Sleep, Scan,
        ClaimDpu, ExecuteNothing, ReleaseDpu, Finished, vars, syncVars, mimicVars
  <1> QED  BY <1>1, <1>2, <1>3, <1>4

\* A dependent that reads a completion later reads what an earlier one read.
THEOREM CompletionsFinalAlways == Spec => CompletionsFinal
PROOF
  <1>1. PoolInv /\ [Next]_vars => [main = "join" => CompletionsKept]_vars
    <2>1. main = "join" => ~ExecWorkload
      BY DEF ExecWorkload
    <2> QED  BY <2>1, CompletionsKeptStep
  <1>2. [main = "join" => CompletionsKept]_vars =>
          [main = "join" =>
             /\ \A w \in Worker, t \in Task : isCompleted[w][t] =>
                  isCompleted'[w][t] /\ completeTime'[w][t] = completeTime[w][t]
             /\ \A r \in Resource : mimicTime'[r] >= mimicTime[r]]_vars
    BY DEF CompletionsKept
  <1> QED  BY <1>1, <1>2, PoolInvariant, PTL DEF Spec, CompletionsFinal

----------------------------------------------------------------------------
(* The calling thread. *)

\* Between two workloads no thread runs; a pool that has never executed one has
\* nothing complete; after that the queues are those of a schedule.
CallerInv ==
  /\ main = "idle" => \A w \in Worker : pc[w] = "exit"
  /\ rounds > 0 => order \in Orders
  /\ rounds = 0 =>
       main = "idle" /\ \A w \in Worker, t \in Task : ~isCompleted[w][t]

LEMMA CallerInit ==
  ASSUME Init
  PROVE  CallerInv
  BY DEF Init, CallerInv, AllWorkers, PerTask

LEMMA CallerStep ==
  ASSUME TypeInv, CallerInv, [Next]_vars
  PROVE  CallerInv'
PROOF
  <1>0. rounds \in Nat
    BY BoundAssumption DEF TypeOK
  <1>1. CASE ExecWorkload
    <2>1. rounds' # 0 /\ main' = "join" /\ order' \in Orders
      BY <1>0, <1>1 DEF ExecWorkload
    <2> QED  BY <2>1 DEF CallerInv
  <1>2. CASE Join
    BY <1>2 DEF Join, CallerInv
  <1>3. ASSUME NEW w \in Worker, Step(w) \/ SpuriousWakeup(w)
        PROVE  CallerInv'
    <2>1. pc[w] # "exit" /\ UNCHANGED <<main, rounds, order>>
      BY <1>3
      DEF Step, SpuriousWakeup, Fetch, Exit, Lock, Proceed, Sleep, Scan, ClaimDpu,
          Execute, ExecuteNothing, ReleaseDpu, Signal
    <2>2. main # "idle" /\ rounds # 0
      BY <2>1 DEF CallerInv
    <2> QED  BY <2>1, <2>2 DEF CallerInv
  <1>4. CASE Finished \/ UNCHANGED vars
    BY <1>4 DEF Finished, vars, syncVars, CallerInv
  <1> QED  BY <1>1, <1>2, <1>3, <1>4 DEF Next

\* Threads that have all left their loops have completed every task.
LEMMA AllExitedAllDone ==
  ASSUME PoolInv, order \in Orders, \A w \in Worker : pc[w] = "exit",
         NEW w \in Worker, NEW t \in Task
  PROVE  isCompleted[w][t]
PROOF
  <1>1. PICK i \in DOMAIN order : order[i] = t
    BY ScheduleAssumption DEF IsSchedule
  <1>2. popped[w] = Len(order)
    BY DEF PoolInv, Positioned
  <1>3. i \in 1..Len(order) /\ Len(order) \in Nat
    BY <1>1, OrderTyped DEF PoolInv
  <1>4. i < popped[w] \/ (i = popped[w] /\ pc[w] \in {"fetch", "exit"})
    BY <1>2, <1>3
  <1> QED  BY <1>1, <1>4 DEF PoolInv, Fifo

----------------------------------------------------------------------------
(* The pool implements the stage graph. *)

Phase == [s \in Worker \X Task |-> PhaseOf(s[1], s[2])]

\* The phases as the simulation needs them: they depend on the completions and
\* on the places of the threads.
PhasesTold ==
  \A w \in Worker, t \in Task :
    /\ Phase[<<w, t>>] = "done" <=> isCompleted[w][t]
    /\ Phase[<<w, t>>] = "running" <=> Past(w, t, {"run", "release"})
    /\ Phase[<<w, t>>] = "ran" <=> Past(w, t, {"signal"})
    /\ Phase[<<w, t>>] \in {"pending", "running", "ran", "done"}

LEMMA PhasesAreTold == PoolInv => PhasesTold
PROOF
  <1> SUFFICES ASSUME PoolInv, NEW w \in Worker, NEW t \in Task
               PROVE  /\ Phase[<<w, t>>] = "done" <=> isCompleted[w][t]
                      /\ Phase[<<w, t>>] = "running" <=> Past(w, t, {"run", "release"})
                      /\ Phase[<<w, t>>] = "ran" <=> Past(w, t, {"signal"})
                      /\ Phase[<<w, t>>] \in {"pending", "running", "ran", "done"}
    BY DEF PhasesTold
  <1>1. Phase[<<w, t>>] = PhaseOf(w, t)
    BY DEF Phase
  <1>2. Past(w, t, {"run", "release", "signal"}) => ~isCompleted[w][t]
    BY RunningIncomplete DEF Past, Busy
  <1>3. /\ Past(w, t, {"run", "release"}) => pc[w] \in {"run", "release"}
        /\ Past(w, t, {"signal"}) => pc[w] = "signal"
        /\ Past(w, t, {"run", "release"}) => Past(w, t, {"run", "release", "signal"})
        /\ Past(w, t, {"signal"}) => Past(w, t, {"run", "release", "signal"})
    BY DEF Past
  <1> QED  BY <1>1, <1>2, <1>3 DEF PhaseOf

\* A stage keeps its phase when its completion and its thread's place do.
LEMMA SamePhase ==
  ASSUME PhasesTold, PhasesTold', NEW w \in Worker, NEW t \in Task,
         isCompleted'[w][t] = isCompleted[w][t],
         Past(w, t, {"run", "release"})' <=> Past(w, t, {"run", "release"}),
         Past(w, t, {"signal"})' <=> Past(w, t, {"signal"})
  PROVE  Phase'[<<w, t>>] = Phase[<<w, t>>]
  BY DEF PhasesTold

\* The phase of one stage moves.
LEMMA OnePhaseMoves ==
  ASSUME NEW w \in Worker, NEW t \in Task, NEW new,
         Phase'[<<w, t>>] = new,
         \A v \in Worker, u \in Task :
           <<v, u>> # <<w, t>> => Phase'[<<v, u>>] = Phase[<<v, u>>]
  PROVE  Phase' = [Phase EXCEPT ![<<w, t>>] = new]
PROOF
  <1>1. \A s \in Worker \X Task :
          Phase'[s] = [Phase EXCEPT ![<<w, t>>] = new][s]
    <2>1. DOMAIN Phase = Worker \X Task
      BY DEF Phase
    <2>2. ASSUME NEW v \in Worker, NEW u \in Task
          PROVE  Phase'[<<v, u>>] = [Phase EXCEPT ![<<w, t>>] = new][<<v, u>>]
      BY <2>1, <2>2
    <2> QED  BY <2>2
  <1>2. /\ Phase' = [s \in Worker \X Task |-> Phase'[s]]
        /\ [Phase EXCEPT ![<<w, t>>] = new] =
             [s \in Worker \X Task |-> [Phase EXCEPT ![<<w, t>>] = new][s]]
    BY DEF Phase
  <1> QED  BY <1>1, <1>2

\* A step that moves no stage is a stutter of the stage graph.
LEMMA NoPhaseMoves ==
  ASSUME \A w \in Worker, t \in Task : Phase'[<<w, t>>] = Phase[<<w, t>>]
  PROVE  Phase' = Phase
PROOF
  <1>1. \A s \in Worker \X Task : Phase'[s] = Phase[s]
    OBVIOUS
  <1>2. /\ Phase' = [s \in Worker \X Task |-> Phase'[s]]
        /\ Phase = [s \in Worker \X Task |-> Phase[s]]
    BY DEF Phase
  <1> QED  BY <1>1, <1>2

\* A stage that has started has what it needs: checked by its own thread, or
\* following from the checks of the others.
NeedsMet ==
  \A w \in Worker, t \in Task : Started(w, t) =>
    \A n \in StageNeeds(<<w, t>>) : n \in Worker \X Task /\ isCompleted[n[1]][n[2]]

LEMMA StartedHasNeeds == PoolInv => NeedsMet
PROOF
  <1> SUFFICES ASSUME PoolInv, NEW w \in Worker, NEW t \in Task, Started(w, t),
                      NEW n \in StageNeeds(<<w, t>>)
               PROVE  n \in Worker \X Task /\ isCompleted[n[1]][n[2]]
    BY DEF NeedsMet
  <1>1. CASE w \in {"cpu", "dpu"}
    <2>1. Preds(t) \subseteq Task
      BY GraphAssumption DEF Preds
    <2>2. DataReady
      BY PoolReady
    <2> QED  BY <1>1, <2>1, <2>2 DEF StageNeeds, DataReady, Worker
  <1>2. CASE w \in {"map", "reduce"}
    <2>1. n = <<Producer(w), t>> /\ Producer(w) \in Worker
      BY <1>2 DEF StageNeeds, Producer, Worker
    <2>2. Deps(w, t) = <<t>> /\ 1 \in DOMAIN <<t>> /\ <<t>>[1] = t
      BY <1>2 DEF Deps
    <2>3. AllDependenciesMet(w, t)
      BY DEF PoolInv, StartedReady
    <2> QED  BY <2>1, <2>2, <2>3 DEF AllDependenciesMet
  <1> QED  BY <1>1, <1>2 DEF Worker

\* Begin, of a stage that was pending and has started.
LEMMA BeginMaps ==
  ASSUME PhasesTold, NeedsMet',
         NEW w \in Worker, NEW t \in Task,
         Started(w, t)', isCompleted' = isCompleted,
         Phase[<<w, t>>] = "pending",
         DPURelated(w) => \A v \in Worker : DPURelated(v) => pc[v] \notin {"run", "release"},
         Phase' = [Phase EXCEPT ![<<w, t>>] = "running"]
  PROVE  Abstract!Next
PROOF
  <1>1. \A n \in StageNeeds(<<w, t>>) : Phase[n] = "done"
    <2>1. \A n \in StageNeeds(<<w, t>>) :
            n \in Worker \X Task /\ isCompleted'[n[1]][n[2]]
      BY DEF NeedsMet
    <2>2. ASSUME NEW n \in StageNeeds(<<w, t>>)
          PROVE  Phase[n] = "done"
      <3>1. n \in Worker \X Task /\ isCompleted[n[1]][n[2]]
        BY <2>1
      <3>2. n = <<n[1], n[2]>>
        BY <3>1
      <3> QED  BY <3>1, <3>2 DEF PhasesTold
    <2> QED  BY <2>2
  <1>2. ASSUME NEW x \in Worker \X Task, DPURelated(w), DPURelated(x[1])
        PROVE  Phase[x] # "running"
    <2>1. x = <<x[1], x[2]>> /\ x[1] \in Worker /\ x[2] \in Task
      OBVIOUS
    <2>2. ~Past(x[1], x[2], {"run", "release"})
      BY <1>2 DEF Past
    <2> QED  BY <2>1, <2>2 DEF PhasesTold
  <1>3. Abstract!Begin(<<w, t>>)
    BY <1>1, <1>2 DEF Abstract!Begin, Phase
  <1> QED  BY <1>3 DEF Abstract!Next

\* End and Publish.
LEMMA EndMaps ==
  ASSUME NEW w \in Worker, NEW t \in Task, Phase[<<w, t>>] = "running",
         Phase' = [Phase EXCEPT ![<<w, t>>] = "ran"]
  PROVE  Abstract!Next
PROOF
  <1>1. Abstract!End(<<w, t>>)
    BY DEF Abstract!End, Phase
  <1> QED  BY <1>1 DEF Abstract!Next

LEMMA PublishMaps ==
  ASSUME NEW w \in Worker, NEW t \in Task, Phase[<<w, t>>] = "ran",
         Phase' = [Phase EXCEPT ![<<w, t>>] = "done"]
  PROVE  Abstract!Next
PROOF
  <1>1. Abstract!Publish(<<w, t>>)
    BY DEF Abstract!Publish, Phase
  <1> QED  BY <1>1 DEF Abstract!Next

\* No stage moves but stage w of t.
OthersStay(w, t) ==
  \A v \in Worker, u \in Task :
    <<v, u>> # <<w, t>> => Phase'[<<v, u>>] = Phase[<<v, u>>]

\* Every step of the pool is a step of the stage graph or leaves it alone.
LEMMA SimulationStep ==
  ASSUME PoolInv, PoolInv', PhasesTold, PhasesTold', NeedsMet', CallerInv,
         [Next]_vars
  PROVE  [Abstract!Next]_Phase
PROOF
  <1>1. CASE ExecWorkload
    <2>1. \A w \in Worker, t \in Task : Phase'[<<w, t>>] = "pending"
      <3>1. ASSUME NEW w \in Worker, NEW t \in Task
            PROVE  /\ ~isCompleted'[w][t]
                   /\ ~Past(w, t, {"run", "release"})'
                   /\ ~Past(w, t, {"signal"})'
        BY <1>1 DEF ExecWorkload, Past, AllWorkers, PerTask
      <3> QED  BY <3>1 DEF PhasesTold
    <2>2. CASE rounds = 0
      <3>1. ASSUME NEW w \in Worker, NEW t \in Task
            PROVE  Phase[<<w, t>>] = "pending"
        <4>1. ~isCompleted[w][t] /\ pc[w] = "exit"
          BY <2>2 DEF CallerInv
        <4> QED  BY <4>1 DEF PhasesTold, Past
      <3> QED  BY <2>1, <3>1, NoPhaseMoves
    <2>3. CASE rounds # 0
      <3>1. order \in Orders /\ \A w \in Worker : pc[w] = "exit"
        BY <1>1, <2>3 DEF ExecWorkload, CallerInv, PoolInv, TypeOK
      <3>2. \A w \in Worker, t \in Task : isCompleted[w][t]
        BY <3>1, AllExitedAllDone
      <3>3. \A s \in Worker \X Task : Phase[s] = "done"
        BY <3>2 DEF PhasesTold
      <3>4. Phase' = [s \in Worker \X Task |-> "pending"]
        <4>1. \A s \in Worker \X Task : Phase'[s] = "pending"
          BY <2>1
        <4>2. Phase' = [s \in Worker \X Task |-> Phase'[s]]
          BY DEF Phase
        <4> QED  BY <4>1, <4>2
      <3>5. Abstract!Restart
        BY <3>3, <3>4 DEF Abstract!Restart, Phase
      <3> QED  BY <3>5 DEF Abstract!Next
    <2> QED  BY <2>2, <2>3
  <1>2. CASE Join \/ Finished \/ UNCHANGED vars
    <2>1. UNCHANGED <<order, popped, pc, isCompleted>>
      BY <1>2 DEF Join, Finished, vars, syncVars
    <2>2. ASSUME NEW w \in Worker, NEW t \in Task
          PROVE  Phase'[<<w, t>>] = Phase[<<w, t>>]
      BY <2>1, SamePhase DEF Past, Current
    <2> QED  BY <2>2, NoPhaseMoves
  <1>3. ASSUME NEW w \in Worker, Step(w) \/ SpuriousWakeup(w)
        PROVE  [Abstract!Next]_Phase
    <2> SUFFICES ASSUME NEW t, t = Current(w)
                 PROVE  [Abstract!Next]_Phase
      OBVIOUS
    <2>0. pc[w] \in Busy => t \in Task /\ ~isCompleted[w][t] /\ popped[w] > 0
      <3>1. pc[w] \in Busy => popped[w] >= 1 /\ popped[w] \in Nat
        BY OrderTyped DEF PoolInv, Positioned, TypeOK
      <3> QED  BY <3>1, RunningIncomplete
    <2>1. ASSUME UNCHANGED <<order, popped, isCompleted>>, pc[w] \in Busy,
                 \A v \in Worker : v # w => pc'[v] = pc[v]
          PROVE  /\ OthersStay(w, t)
                 /\ Past(w, t, {"run", "release"})' <=> pc'[w] \in {"run", "release"}
                 /\ Past(w, t, {"signal"})' <=> pc'[w] = "signal"
                 /\ Started(w, t)' <=> pc'[w] \in {"claim", "run", "release", "signal"}
      <3>1. /\ Past(w, t, {"run", "release"})' <=> pc'[w] \in {"run", "release"}
            /\ Past(w, t, {"signal"})' <=> pc'[w] = "signal"
            /\ Started(w, t)' <=> pc'[w] \in {"claim", "run", "release", "signal"}
        BY <2>0, <2>1 DEF Past, Current, Started
      <3>2. ASSUME NEW v \in Worker, NEW u \in Task, <<v, u>> # <<w, t>>
            PROVE  Phase'[<<v, u>>] = Phase[<<v, u>>]
        BY <2>1, <3>2, SamePhase DEF Past, Current
      <3> QED  BY <3>1, <3>2 DEF OthersStay
    <2>2. ASSUME UNCHANGED <<order, isCompleted>>,
                 \A v \in Worker : v # w => popped'[v] = popped[v] /\ pc'[v] = pc[v],
                 pc[w] \notin {"run", "release", "signal"},
                 pc'[w] \notin {"run", "release", "signal"}
          PROVE  Phase' = Phase
      <3>1. ASSUME NEW v \in Worker, NEW u \in Task
            PROVE  Phase'[<<v, u>>] = Phase[<<v, u>>]
        BY <2>2, SamePhase DEF Past, Current
      <3> QED  BY <3>1, NoPhaseMoves
    <2>3. ASSUME UNCHANGED <<order, popped, isCompleted>>,
                 \A v \in Worker : v # w => pc'[v] = pc[v],
                 pc[w] \in {"check", "claim"}, pc'[w] = "run",
                 DPURelated(w) =>
                   \A v \in Worker : DPURelated(v) => pc[v] \notin {"run", "release"}
          PROVE  Abstract!Next
      <3>1. t \in Task /\ OthersStay(w, t) /\ Started(w, t)'
            /\ Past(w, t, {"run", "release"})'
        BY <2>0, <2>1, <2>3 DEF Busy
      <3>2. Phase[<<w, t>>] = "pending" /\ Phase'[<<w, t>>] = "running"
        <4>1. ~isCompleted[w][t] /\ ~Past(w, t, {"run", "release"})
              /\ ~Past(w, t, {"signal"})
          BY <2>0, <2>3 DEF Past, Busy
        <4> QED  BY <3>1, <4>1 DEF PhasesTold
      <3>3. Phase' = [Phase EXCEPT ![<<w, t>>] = "running"]
        BY <3>1, <3>2, OnePhaseMoves DEF OthersStay
      <3> QED  BY <2>3, <3>1, <3>2, <3>3, BeginMaps
    <2>4. ASSUME UNCHANGED <<order, popped, isCompleted>>,
                 \A v \in Worker : v # w => pc'[v] = pc[v],
                 pc[w] \in {"run", "release"}, pc'[w] = "signal"
          PROVE  Abstract!Next
      <3>1. t \in Task /\ OthersStay(w, t) /\ Past(w, t, {"signal"})'
        BY <2>0, <2>1, <2>4 DEF Busy
      <3>2. Phase[<<w, t>>] = "running" /\ Phase'[<<w, t>>] = "ran"
        <4>1. Past(w, t, {"run", "release"})
          BY <2>0, <2>4 DEF Past, Busy
        <4> QED  BY <3>1, <4>1 DEF PhasesTold
      <3>3. Phase' = [Phase EXCEPT ![<<w, t>>] = "ran"]
        BY <3>1, <3>2, OnePhaseMoves DEF OthersStay
      <3> QED  BY <3>1, <3>2, <3>3, EndMaps
    <2>5. CASE Fetch(w) \/ Exit(w) \/ Lock(w) \/ Sleep(w) \/ SpuriousWakeup(w)
      BY <2>2, <2>5
      DEF Fetch, Exit, Lock, Sleep, Scan, SpuriousWakeup, PoolInv, TypeOK
    <2>6. CASE Proceed(w) /\ DPURelated(w)
      BY <2>2, <2>6 DEF Proceed, Scan, PoolInv, TypeOK
    <2>7. CASE Proceed(w) /\ ~DPURelated(w)
      BY <2>3, <2>7 DEF Proceed, Scan, PoolInv, TypeOK
    <2>8. CASE ClaimDpu(w)
      <3>1. \A v \in Worker : DPURelated(v) => pc[v] \notin {"run", "release"}
        BY <2>8, BoundAssumption DEF ClaimDpu, PoolInv, DpuOwned
      <3> QED  BY <2>3, <2>8, <3>1 DEF ClaimDpu, PoolInv, TypeOK
    <2>9. CASE (Execute(w) \/ ExecuteNothing(w)) /\ DPURelated(w)
      <3>1. /\ UNCHANGED <<order, popped, isCompleted>>
            /\ \A v \in Worker : v # w => pc'[v] = pc[v]
            /\ pc[w] = "run" /\ pc'[w] = "release"
        BY <2>9 DEF Execute, ExecuteNothing, AfterRun, PoolInv, TypeOK
      <3>2. t \in Task /\ OthersStay(w, t) /\ Past(w, t, {"run", "release"})'
            /\ Past(w, t, {"run", "release"})
        BY <2>0, <2>1, <3>1 DEF Busy, Past
      <3>3. Phase'[<<w, t>>] = Phase[<<w, t>>]
        <4> QED  BY <3>2 DEF PhasesTold
      <3>4. Phase' = Phase
        BY <3>2, <3>3, NoPhaseMoves DEF OthersStay
      <3> QED  BY <3>4
    <2>10. CASE (Execute(w) \/ ExecuteNothing(w)) /\ ~DPURelated(w)
      BY <2>4, <2>10 DEF Execute, ExecuteNothing, AfterRun, PoolInv, TypeOK
    <2>11. CASE ReleaseDpu(w)
      BY <2>4, <2>11 DEF ReleaseDpu, PoolInv, TypeOK
    <2>12. CASE Signal(w)
      <3>1. /\ UNCHANGED <<order, popped>>
            /\ pc[w] = "signal" /\ pc'[w] = "fetch"
            /\ \A v \in Worker : v # w =>
                 \/ pc'[v] = pc[v]
                 \/ pc[v] = "asleep" /\ pc'[v] = "lock"
            /\ t \in Task
        BY <2>0, <2>12 DEF Signal, PoolInv, TypeOK, Busy
      <3>2. /\ isCompleted'[w][t]
            /\ \A v \in Worker, u \in Task : <<v, u>> # <<w, t>> =>
                 isCompleted'[v][u] = isCompleted[v][u]
        BY <2>12, <3>1 DEF Signal, PoolInv, TypeOK
      <3>3. ASSUME NEW v \in Worker, NEW u \in Task, <<v, u>> # <<w, t>>
            PROVE  Phase'[<<v, u>>] = Phase[<<v, u>>]
        <4>1. /\ Past(v, u, {"run", "release"})' <=> Past(v, u, {"run", "release"})
              /\ Past(v, u, {"signal"})' <=> Past(v, u, {"signal"})
          BY <3>1, <3>3 DEF Past, Current
        <4> QED  BY <3>2, <3>3, <4>1, SamePhase
      <3>4. Phase[<<w, t>>] = "ran" /\ Phase'[<<w, t>>] = "done"
        <4>1. Past(w, t, {"signal"})
          BY <2>0, <3>1 DEF Past, Busy
        <4> QED  BY <3>1, <3>2, <4>1 DEF PhasesTold
      <3>5. Phase' = [Phase EXCEPT ![<<w, t>>] = "done"]
        BY <3>1, <3>3, <3>4, OnePhaseMoves
      <3> QED  BY <3>1, <3>4, <3>5, PublishMaps
    <2> QED
      BY <1>3, <2>5, <2>6, <2>7, <2>8, <2>9, <2>10, <2>11, <2>12 DEF Step
  <1> QED  BY <1>1, <1>2, <1>3 DEF Next

\* The four threads, their queues, the wait on cv_ and the two mutexes are, seen
\* as phases of the stages, the stage graph: each stage once per workload, after
\* all it needs, the DPU stages one at a time, and a new workload only when
\* nothing is left of the last.
THEOREM PoolRefinesStageGraph == Spec => RefinesStageGraph
PROOF
  <1>1. Init => Abstract!Init
    <2> SUFFICES ASSUME Init  PROVE Abstract!Init
      OBVIOUS
    <2>1. ASSUME NEW w \in Worker, NEW t \in Task
          PROVE  PhaseOf(w, t) = "pending"
      BY DEF Init, PhaseOf, Past, AllWorkers, PerTask
    <2> QED  BY <2>1 DEF Abstract!Init
  <1>2. PoolInv /\ CallerInv /\ [Next]_vars => CallerInv'
    BY CallerStep DEF PoolInv
  <1>3. /\ PoolInv /\ PhasesTold /\ CallerInv /\ [Next]_vars
        /\ PoolInv' /\ PhasesTold' /\ NeedsMet'
        => [Abstract!Next]_Phase
    BY SimulationStep
  <1>4. [Abstract!Next]_Phase =>
          [Abstract!Next]_([s \in Worker \X Task |-> PhaseOf(s[1], s[2])])
    BY DEF Phase
  <1> QED
    BY <1>1, <1>2, <1>3, <1>4, CallerInit, PoolInvariant, PhasesAreTold,
       StartedHasNeeds, PTL
    DEF Spec, RefinesStageGraph, Abstract!Spec

----------------------------------------------------------------------------
(* Virtual time. *)

\* What a stage has gathered of its inputs' completion times: nothing but times
\* of completed inputs, and all of them once it has started.
WakerInv ==
  \A w \in Worker, t \in Task :
    /\ \/ lastWaker[w][t] = 0
       \/ \E i \in DOMAIN Deps(w, t) :
            /\ isCompleted[Producer(w)][Deps(w, t)[i]]
            /\ lastWaker[w][t] = completeTime[Producer(w)][Deps(w, t)[i]]
    /\ Started(w, t) =>
         \A i \in DOMAIN Deps(w, t) :
           lastWaker[w][t] >= completeTime[Producer(w)][Deps(w, t)[i]]

\* A charged stage has run for its cost after its last input; its processor's
\* clock is past every end on it, and is one of them.
ClockInv ==
  /\ \A w \in Worker, t \in Task :
       /\ Charged(w, t) => completeTime[w][t] >= lastWaker[w][t] + Cost[w][t]
       /\ completeTime[w][t] <= mimicTime[ResourceOf(w)]
  /\ \A r \in Resource :
       \/ mimicTime[r] = 0
       \/ \E w \in Worker, t \in Task :
            ResourceOf(w) = r /\ completeTime[w][t] = mimicTime[r]

\* The makespan of the last workload is the later of the two clocks.
ReportInv ==
  main = "idle" /\ rounds > 0 => makespan = Max({mimicTime[r] : r \in Resource})

TimeInv == WakerInv /\ ClockInv /\ NoVirtualOverlap /\ ReportInv

\* A stage starts in Proceed only.
LEMMA StartedBefore ==
  ASSUME PoolInv, [Next]_vars, ~ExecWorkload, \A w \in Worker : ~Proceed(w),
         NEW v \in Worker, NEW u \in Task, Started(v, u)'
  PROVE  Started(v, u)
PROOF
  <1> USE DEF Started, Past, Current, PoolInv, TypeOK
  <1>1. ASSUME NEW w \in Worker, Fetch(w)
        PROVE  Started(v, u)
    BY <1>1 DEF Fetch
  <1>2. ASSUME NEW w \in Worker, Signal(w)
        PROVE  Started(v, u)
    <2>1. popped[w] > 0 /\ popped[w] \in Nat
      BY <1>2, OrderTyped DEF Signal, Positioned, Busy
    <2> QED  BY <1>2, <2>1 DEF Signal
  <1>3. ASSUME NEW w \in Worker,
               \/ Exit(w) \/ Lock(w) \/ Sleep(w) \/ SpuriousWakeup(w) \/ ClaimDpu(w)
               \/ Execute(w) \/ ExecuteNothing(w) \/ ReleaseDpu(w)
        PROVE  Started(v, u)
    <2>1. /\ UNCHANGED <<order, popped, isCompleted>>
          /\ \A x \in Worker :
               pc'[x] \in {"claim", "run", "release", "signal"}
                 => pc[x] \in {"claim", "run", "release", "signal"}
      BY <1>3
      DEF Exit, Lock, Sleep, Scan, SpuriousWakeup, ClaimDpu, Execute, ExecuteNothing,
          ReleaseDpu, AfterRun
    <2> QED  BY <2>1
  <1>4. CASE Join \/ Finished \/ UNCHANGED vars
    BY <1>4 DEF Join, Finished, vars, syncVars
  <1> QED  BY <1>1, <1>2, <1>3, <1>4 DEF Next, Step

\* A stage is charged in Execute only.
LEMMA ChargedBefore ==
  ASSUME PoolInv, [Next]_vars, ~ExecWorkload,
         NEW v \in Worker, NEW u \in Task, Charged(v, u)',
         ~(Execute(v) /\ u = Current(v))
  PROVE  Charged(v, u)
PROOF
  <1> USE DEF Charged, Past, Current, PoolInv, TypeOK
  <1>1. ASSUME NEW w \in Worker, Fetch(w)
        PROVE  Charged(v, u)
    BY <1>1 DEF Fetch
  <1>2. ASSUME NEW w \in Worker, Signal(w)
        PROVE  Charged(v, u)
    <2>1. popped[w] > 0 /\ popped[w] \in Nat
      BY <1>2, OrderTyped DEF Signal, Positioned, Busy
    <2> QED  BY <1>2, <2>1 DEF Signal
  <1>3. ASSUME NEW w \in Worker,
               \/ Exit(w) \/ Lock(w) \/ Proceed(w) \/ Sleep(w) \/ SpuriousWakeup(w)
               \/ ClaimDpu(w) \/ ReleaseDpu(w)
        PROVE  Charged(v, u)
    <2>1. /\ UNCHANGED <<order, popped, isCompleted>>
          /\ \A x \in Worker :
               pc'[x] \in {"release", "signal"} => pc[x] \in {"release", "signal"}
      BY <1>3
      DEF Exit, Lock, Proceed, Sleep, Scan, SpuriousWakeup, ClaimDpu, ReleaseDpu
    <2> QED  BY <2>1
  <1>4. ASSUME NEW w \in Worker, Execute(w) \/ ExecuteNothing(w)
        PROVE  Charged(v, u)
    <2>1. /\ UNCHANGED <<order, popped, isCompleted>>
          /\ \A x \in Worker : x # w => pc'[x] = pc[x]
      BY <1>4 DEF Execute, ExecuteNothing
    <2>2. CASE v = w /\ Execute(w)
      BY <2>1, <2>2
    <2>3. CASE v = w /\ ExecuteNothing(w)
      BY <2>1, <2>3 DEF ExecuteNothing
    <2>4. CASE v # w
      BY <2>1, <2>4
    <2> QED  BY <1>4, <2>2, <2>3, <2>4
  <1>5. CASE Join \/ Finished \/ UNCHANGED vars
    BY <1>5 DEF Join, Finished, vars, syncVars
  <1> QED  BY <1>1, <1>2, <1>3, <1>4, <1>5 DEF Next, Step

\* What the scan leaves: the time it found or that of an input it got past, and
\* none of these is later.
LEMMA ScanResult ==
  ASSUME TypeOK, NEW w \in Worker, NEW t \in Task
  PROVE  LET m == LastWakerAfterScan(w, t) IN
         /\ m \in Nat
         /\ \/ m = lastWaker[w][t]
            \/ \E i \in Scanned(w, t) : m = completeTime[Producer(w)][Deps(w, t)[i]]
         /\ m >= lastWaker[w][t]
         /\ \A i \in Scanned(w, t) : m >= completeTime[Producer(w)][Deps(w, t)[i]]
PROOF
  <1> DEFINE I == Scanned(w, t)
             f == [i \in I |-> completeTime[Producer(w)][Deps(w, t)[i]]]
  <1>1. IsFiniteSet(I)
    BY DepsTyped, FS_Subset DEF Scanned
  <1>2. lastWaker[w][t] \in Nat
    BY DEF TypeOK
  <1>3. f \in [I -> Nat]
    BY DepsTyped DEF TypeOK, Scanned
  <1>4. {completeTime[Producer(w)][Deps(w, t)[i]] : i \in I} = {f[i] : i \in I}
    OBVIOUS
  <1>5. \A i \in I : f[i] = completeTime[Producer(w)][Deps(w, t)[i]]
    OBVIOUS
  <1> DEFINE S == {lastWaker[w][t]} \cup {f[i] : i \in I}
  <1> HIDE DEF f, I
  <1>6. Max(S) \in S /\ Max(S) \in Nat /\ \A y \in S : Max(S) >= y
    BY <1>1, <1>2, <1>3, MaxWith
  <1>7. LastWakerAfterScan(w, t) = Max(S)
    BY <1>4 DEF LastWakerAfterScan, I
  <1> QED  BY <1>5, <1>6, <1>7 DEF I

\* The inputs the scan gets past are complete; they are all there are when it
\* succeeds.
LEMMA ScannedAre ==
  ASSUME TypeOK, NEW w \in Worker, NEW t \in Task
  PROVE  /\ \A i \in Scanned(w, t) :
              i \in DOMAIN Deps(w, t) /\ isCompleted[Producer(w)][Deps(w, t)[i]]
         /\ AllDependenciesMet(w, t) => Scanned(w, t) = DOMAIN Deps(w, t)
PROOF
  <1>1. /\ DOMAIN Deps(w, t) = 1..Len(Deps(w, t))
        /\ Len(Deps(w, t)) \in Nat
    BY DepsTyped
  <1>2. \A i \in DOMAIN Deps(w, t) : i \in 1..i /\ 1..i \subseteq DOMAIN Deps(w, t)
    BY <1>1
  <1> QED  BY <1>2 DEF Scanned, AllDependenciesMet

LEMMA WakerStep ==
  ASSUME PoolInv, WakerInv, [Next]_vars
  PROVE  WakerInv'
PROOF
  <1>0. ASSUME NEW w \in Worker, NEW t \in Task, NEW i \in DOMAIN Deps(w, t)
        PROVE  Producer(w) \in Worker /\ Deps(w, t)[i] \in Task
    BY DepsTyped
  <1>1. CASE ExecWorkload
    <2>1. ASSUME NEW w \in Worker, NEW t \in Task
          PROVE  lastWaker'[w][t] = 0 /\ ~Started(w, t)'
      BY <1>1 DEF ExecWorkload, Started, Past, AllWorkers, PerTask
    <2> QED  BY <2>1 DEF WakerInv
  <1>2. ASSUME ~ExecWorkload, NEW w \in Worker, NEW t \in Task,
               lastWaker'[w][t] = lastWaker[w][t], Started(w, t)' => Started(w, t)
        PROVE  /\ \/ lastWaker'[w][t] = 0
                  \/ \E i \in DOMAIN Deps(w, t) :
                       /\ isCompleted'[Producer(w)][Deps(w, t)[i]]
                       /\ lastWaker'[w][t] = completeTime'[Producer(w)][Deps(w, t)[i]]
               /\ Started(w, t)' =>
                    \A i \in DOMAIN Deps(w, t) :
                      lastWaker'[w][t] >= completeTime'[Producer(w)][Deps(w, t)[i]]
    <2>1. CompletionsKept
      BY <1>2, CompletionsKeptStep
    <2>2. Started(w, t) => AllDependenciesMet(w, t)
      BY DEF PoolInv, StartedReady
    <2>3. ASSUME NEW i \in DOMAIN Deps(w, t), isCompleted[Producer(w)][Deps(w, t)[i]]
          PROVE  /\ isCompleted'[Producer(w)][Deps(w, t)[i]]
                 /\ completeTime'[Producer(w)][Deps(w, t)[i]] =
                      completeTime[Producer(w)][Deps(w, t)[i]]
      BY <1>0, <2>1, <2>3 DEF CompletionsKept
    <2>4. \/ lastWaker[w][t] = 0
          \/ \E i \in DOMAIN Deps(w, t) :
               /\ isCompleted[Producer(w)][Deps(w, t)[i]]
               /\ lastWaker[w][t] = completeTime[Producer(w)][Deps(w, t)[i]]
      BY DEF WakerInv
    <2>5. ASSUME Started(w, t)', NEW i \in DOMAIN Deps(w, t)
          PROVE  lastWaker'[w][t] >= completeTime'[Producer(w)][Deps(w, t)[i]]
      <3>1. isCompleted[Producer(w)][Deps(w, t)[i]]
        BY <1>2, <2>2, <2>5 DEF AllDependenciesMet
      <3>2. lastWaker[w][t] >= completeTime[Producer(w)][Deps(w, t)[i]]
        BY <1>2, <2>5 DEF WakerInv
      <3> QED  BY <1>2, <2>3, <3>1, <3>2
    <2> QED  BY <1>2, <2>3, <2>4, <2>5
  <1>3. ASSUME NEW w \in Worker, Proceed(w) \/ Sleep(w)
        PROVE  WakerInv'
    <2> SUFFICES ASSUME NEW v \in Worker, NEW u \in Task
                 PROVE  /\ \/ lastWaker'[v][u] = 0
                           \/ \E i \in DOMAIN Deps(v, u) :
                                /\ isCompleted'[Producer(v)][Deps(v, u)[i]]
                                /\ lastWaker'[v][u] =
                                     completeTime'[Producer(v)][Deps(v, u)[i]]
                        /\ Started(v, u)' =>
                             \A i \in DOMAIN Deps(v, u) :
                               lastWaker'[v][u] >=
                                 completeTime'[Producer(v)][Deps(v, u)[i]]
      BY DEF WakerInv
    <2>1. /\ ~ExecWorkload
          /\ UNCHANGED <<order, popped, isCompleted, completeTime>>
          /\ \A x \in Worker : x # w => pc'[x] = pc[x]
          /\ lastWaker' = [lastWaker EXCEPT ![w][Current(w)] =
                             LastWakerAfterScan(w, Current(w))]
      <3>1. pc[w] = "check"
        BY <1>3 DEF Proceed, Sleep, Scan
      <3>2. ~ExecWorkload
        <4>1. ASSUME ExecWorkload  PROVE pc'[w] = "fetch"
          BY <4>1 DEF ExecWorkload, AllWorkers
        <4>2. pc'[w] # "fetch"
          BY <1>3 DEF Proceed, Sleep, Scan, PoolInv, TypeOK
        <4> QED  BY <4>1, <4>2
      <3> QED  BY <1>3, <3>2 DEF Proceed, Sleep, Scan, PoolInv, TypeOK
    <2>2. CASE v = w /\ u = Current(w)
      <3>1. lastWaker'[v][u] = LastWakerAfterScan(v, u)
        BY <2>1, <2>2 DEF PoolInv, TypeOK
      <3>2. /\ \/ LastWakerAfterScan(v, u) = lastWaker[v][u]
               \/ \E i \in Scanned(v, u) :
                    LastWakerAfterScan(v, u) = completeTime[Producer(v)][Deps(v, u)[i]]
            /\ \A i \in Scanned(v, u) :
                 LastWakerAfterScan(v, u) >= completeTime[Producer(v)][Deps(v, u)[i]]
        BY ScanResult DEF PoolInv
      <3>3. /\ \A i \in Scanned(v, u) :
                 i \in DOMAIN Deps(v, u) /\ isCompleted[Producer(v)][Deps(v, u)[i]]
            /\ AllDependenciesMet(v, u) => Scanned(v, u) = DOMAIN Deps(v, u)
        BY ScannedAre DEF PoolInv
      <3>4. Started(v, u)' => AllDependenciesMet(v, u)
        <4>1. CASE Proceed(w)
          BY <2>2, <4>1 DEF Proceed
        <4>2. CASE Sleep(w)
          <5>1. ~isCompleted[v][u] /\ pc[w] = "check"
            BY <2>2, <4>2, RunningIncomplete DEF Sleep, Scan, Busy
          <5>2. pc'[w] = "asleep" /\ isCompleted' = isCompleted
            BY <4>2 DEF Sleep, Scan, PoolInv, TypeOK
          <5> QED  BY <2>2, <5>1, <5>2 DEF Started, Past
        <4> QED  BY <1>3, <4>1, <4>2
      <3>5. \/ lastWaker[v][u] = 0
            \/ \E i \in DOMAIN Deps(v, u) :
                 /\ isCompleted[Producer(v)][Deps(v, u)[i]]
                 /\ lastWaker[v][u] = completeTime[Producer(v)][Deps(v, u)[i]]
        BY DEF WakerInv
      <3> QED  BY <2>1, <3>1, <3>2, <3>3, <3>4, <3>5
    <2>3. CASE ~(v = w /\ u = Current(w))
      <3>1. lastWaker'[v][u] = lastWaker[v][u]
        BY <2>1, <2>3 DEF PoolInv, TypeOK
      <3>2. Started(v, u)' => Started(v, u)
        BY <2>1, <2>3 DEF Started, Past, Current
      <3> QED  BY <1>2, <2>1, <3>1, <3>2
    <2> QED  BY <2>2, <2>3
  <1>4. CASE ~ExecWorkload /\ \A w \in Worker : ~Proceed(w) /\ ~Sleep(w)
    <2>1. lastWaker' = lastWaker
      BY <1>4
      DEF Next, Join, Step, SpuriousWakeup, Fetch, Exit, Lock, ClaimDpu, Execute,
          ExecuteNothing, ReleaseDpu, Signal, Finished, vars, mimicVars
    <2>2. ASSUME NEW w \in Worker, NEW t \in Task
          PROVE  Started(w, t)' => Started(w, t)
      BY <1>4, StartedBefore
    <2> QED  BY <1>2, <1>4, <2>1, <2>2 DEF WakerInv
  <1> QED  BY <1>1, <1>3, <1>4

\* The three facts about virtual time that Execute establishes and no other
\* step disturbs.
LEMMA ClockStep ==
  ASSUME PoolInv, ClockInv, NoVirtualOverlap, [Next]_vars
  PROVE  ClockInv' /\ NoVirtualOverlap'
PROOF
  <1>0. /\ \A w \in Worker, t \in Task :
             /\ Cost[w][t] \in Nat /\ lastWaker[w][t] \in Nat
             /\ completeTime[w][t] \in Nat
             /\ ResourceOf(w) \in Resource
        /\ \A r \in Resource : mimicTime[r] \in Nat
    BY CostAssumption DEF PoolInv, TypeOK, ResourceOf, Resource
  <1>1. CASE ExecWorkload
    <2>1. /\ \A w \in Worker, t \in Task : completeTime'[w][t] = 0 /\ ~Charged(w, t)'
          /\ \A r \in Resource : mimicTime'[r] = 0
      BY <1>1 DEF ExecWorkload, Charged, Past, AllWorkers, PerTask
    <2>2. ClockInv'
      BY <1>0, <2>1 DEF ClockInv
    <2>3. ChargedStages' = {}
      BY <2>1 DEF ChargedStages
    <2> QED  BY <2>2, <2>3 DEF NoVirtualOverlap
  <1>2. ASSUME NEW w \in Worker, Execute(w)
        PROVE  ClockInv' /\ NoVirtualOverlap'
    <2> DEFINE r == ResourceOf(w)
    <2> SUFFICES ASSUME NEW t \in Task, t = Current(w), NEW e \in Nat, e = EndTime(w, t)
                 PROVE  ClockInv' /\ NoVirtualOverlap'
      <3>1. Current(w) \in Task
        BY <1>2, CurrentTyped DEF Execute, Busy, PoolInv
      <3> QED  BY <3>1, EndTimeTyped DEF PoolInv
    <2>1. /\ e >= mimicTime[r] + Cost[w][t]
          /\ e >= lastWaker[w][t] + Cost[w][t]
      <3> DEFINE m == Max({mimicTime[r], lastWaker[w][t]})
      <3>1. r \in Resource /\ mimicTime[r] \in Nat /\ lastWaker[w][t] \in Nat
            /\ Cost[w][t] \in Nat
        BY <1>0
      <3>2. m \in Nat /\ m >= mimicTime[r] /\ m >= lastWaker[w][t]
        BY <3>1, MaxOfTwo
      <3>3. e = m + Cost[w][t]
        BY DEF EndTime
      <3> HIDE DEF m, r
      <3> QED  BY <3>1, <3>2, <3>3
    <2>2. /\ mimicTime' = [mimicTime EXCEPT ![r] = e]
          /\ completeTime' = [completeTime EXCEPT ![w][t] = e]
          /\ lastWaker' = lastWaker
          /\ ~ExecWorkload
          /\ \A v \in Worker : v # w => ~Execute(v)
      <3>1. pc'[w] # "fetch"
        BY <1>2 DEF Execute, AfterRun, PoolInv, TypeOK
      <3>2. ~ExecWorkload
        BY <3>1 DEF ExecWorkload, AllWorkers
      <3>3. \A v \in Worker : v # w => ~Execute(v)
        <4>1. pc'[w] # pc[w] /\ \A v \in Worker : v # w => pc'[v] = pc[v]
          BY <1>2 DEF Execute, AfterRun, PoolInv, TypeOK
        <4> QED  BY <4>1 DEF Execute, AfterRun, PoolInv, TypeOK
      <3> QED  BY <1>2, <3>2, <3>3 DEF Execute
    <2>3. /\ mimicTime'[r] = e /\ completeTime'[w][t] = e
          /\ \A q \in Resource : q # r => mimicTime'[q] = mimicTime[q]
          /\ \A v \in Worker, u \in Task :
               <<v, u>> # <<w, t>> => completeTime'[v][u] = completeTime[v][u]
      BY <1>0, <2>2 DEF PoolInv, TypeOK
    <2>4. ASSUME NEW v \in Worker, NEW u \in Task, Charged(v, u)', <<v, u>> # <<w, t>>
          PROVE  Charged(v, u)
      BY <2>2, <2>4, ChargedBefore
    <2>5. \A v \in Worker, u \in Task :
            completeTime[v][u] <= mimicTime[ResourceOf(v)]
      BY DEF ClockInv
    <2>6. ClockInv'
      <3>1. ASSUME NEW v \in Worker, NEW u \in Task
            PROVE  /\ Charged(v, u)' =>
                        completeTime'[v][u] >= lastWaker'[v][u] + Cost[v][u]
                   /\ completeTime'[v][u] <= mimicTime'[ResourceOf(v)]
        <4>1. CASE <<v, u>> = <<w, t>>
          BY <2>1, <2>2, <2>3, <4>1
        <4>2. CASE <<v, u>> # <<w, t>>
          <5>1. Charged(v, u)' =>
                  completeTime'[v][u] >= lastWaker'[v][u] + Cost[v][u]
            BY <2>2, <2>3, <2>4, <4>2 DEF ClockInv
          <5>2. completeTime[v][u] <= mimicTime'[ResourceOf(v)]
            BY <1>0, <2>1, <2>3, <2>5
          <5> QED  BY <2>3, <4>2, <5>1, <5>2
        <4> QED  BY <4>1, <4>2
      <3>2. ASSUME NEW q \in Resource
            PROVE  \/ mimicTime'[q] = 0
                   \/ \E v \in Worker, u \in Task :
                        ResourceOf(v) = q /\ completeTime'[v][u] = mimicTime'[q]
        <4>1. CASE q = r
          BY <2>3, <4>1
        <4>2. CASE q # r
          <5>1. \/ mimicTime[q] = 0
                \/ \E v \in Worker, u \in Task :
                     ResourceOf(v) = q /\ completeTime[v][u] = mimicTime[q]
            BY DEF ClockInv
          <5>2. \A v \in Worker, u \in Task :
                  ResourceOf(v) = q => completeTime'[v][u] = completeTime[v][u]
            BY <2>3, <4>2
          <5> QED  BY <2>3, <4>2, <5>1, <5>2
        <4> QED  BY <4>1, <4>2
      <3> QED  BY <3>1, <3>2 DEF ClockInv
    <2>7. NoVirtualOverlap'
      <3>1. ASSUME NEW v \in Worker, NEW u \in Task, Charged(v, u),
                   ResourceOf(v) = r, <<v, u>> # <<w, t>>
            PROVE  completeTime'[v][u] <= completeTime'[w][t] - Cost[w][t]
        BY <1>0, <2>1, <2>3, <2>5, <3>1
      <3> SUFFICES ASSUME NEW a \in ChargedStages', NEW b \in ChargedStages', a # b,
                          ResourceOf(a[1]) = ResourceOf(b[1])
                   PROVE  End(a)' <= Begin(b)' \/ End(b)' <= Begin(a)'
        BY DEF NoVirtualOverlap
      <3>2. /\ a = <<a[1], a[2]>> /\ a[1] \in Worker /\ a[2] \in Task /\ Charged(a[1], a[2])'
            /\ b = <<b[1], b[2]>> /\ b[1] \in Worker /\ b[2] \in Task /\ Charged(b[1], b[2])'
        BY DEF ChargedStages
      <3>3. CASE a = <<w, t>>
        <4>1. b # <<w, t>> /\ Charged(b[1], b[2]) /\ ResourceOf(b[1]) = r
          BY <2>4, <3>2, <3>3
        <4> QED  BY <3>1, <3>2, <3>3, <4>1 DEF End, Begin
      <3>4. CASE b = <<w, t>>
        <4>1. a # <<w, t>> /\ Charged(a[1], a[2]) /\ ResourceOf(a[1]) = r
          BY <2>4, <3>2, <3>4
        <4> QED  BY <3>1, <3>2, <3>4, <4>1 DEF End, Begin
      <3>5. CASE a # <<w, t>> /\ b # <<w, t>>
        <4>1. a \in ChargedStages /\ b \in ChargedStages
          BY <2>4, <3>2, <3>5 DEF ChargedStages
        <4>2. End(a) <= Begin(b) \/ End(b) <= Begin(a)
          BY <4>1 DEF NoVirtualOverlap
        <4>3. End(a)' = End(a) /\ End(b)' = End(b) /\ Begin(a)' = Begin(a) /\ Begin(b)' = Begin(b)
          BY <2>3, <3>2, <3>5 DEF End, Begin
        <4> QED  BY <4>2, <4>3
      <3> QED  BY <3>3, <3>4, <3>5
    <2> QED  BY <2>6, <2>7
  <1>3. CASE ~ExecWorkload /\ \A w \in Worker : ~Execute(w)
    <2>1. completeTime' = completeTime /\ mimicTime' = mimicTime
      BY <1>3
      DEF Next, Join, Step, SpuriousWakeup, Fetch, Exit, Lock, Proceed, Sleep, Scan,
          ClaimDpu, ExecuteNothing, ReleaseDpu, Signal, Finished, vars, mimicVars
    <2>2. ASSUME NEW v \in Worker, NEW u \in Task, Charged(v, u)'
          PROVE  Charged(v, u)
      BY <1>3, <2>2, ChargedBefore
    <2>3. ASSUME NEW v \in Worker, NEW u \in Task, Charged(v, u)
          PROVE  lastWaker'[v][u] = lastWaker[v][u]
      <3>1. ASSUME NEW w \in Worker, Scan(w)
            PROVE  lastWaker'[v][u] = lastWaker[v][u]
        <4>1. ~isCompleted[w][Current(w)] /\ pc[w] = "check"
          BY <3>1, RunningIncomplete DEF Scan, Busy
        <4>2. ~(v = w /\ u = Current(w))
          BY <2>3, <4>1 DEF Charged, Past
        <4> QED  BY <3>1, <4>2 DEF Scan, PoolInv, TypeOK
      <3>2. CASE \A w \in Worker : ~Scan(w)
        BY <1>3, <3>2
        DEF Next, Join, Step, SpuriousWakeup, Fetch, Exit, Lock, Proceed, Sleep,
            ClaimDpu, ExecuteNothing, ReleaseDpu, Signal, Finished, vars, mimicVars
      <3> QED  BY <3>1, <3>2
    <2>4. ClockInv'
      BY <2>1, <2>2, <2>3 DEF ClockInv
    <2>5. ChargedStages' \subseteq ChargedStages
      BY <2>2 DEF ChargedStages
    <2>6. NoVirtualOverlap'
      BY <2>1, <2>5 DEF NoVirtualOverlap, End, Begin
    <2> QED  BY <2>4, <2>6
  <1> QED  BY <1>1, <1>2, <1>3

LEMMA ReportStep ==
  ASSUME PoolInv, CallerInv, ReportInv, [Next]_vars
  PROVE  ReportInv'
PROOF
  <1>1. CASE ExecWorkload
    BY <1>1 DEF ExecWorkload, ReportInv
  <1>2. CASE Join
    BY <1>2 DEF Join, ReportInv, mimicVars
  <1>3. ASSUME NEW w \in Worker, Step(w) \/ SpuriousWakeup(w)
        PROVE  ReportInv'
    <2>1. pc[w] # "exit" /\ main' = main
      BY <1>3
      DEF Step, SpuriousWakeup, Fetch, Exit, Lock, Proceed, Sleep, Scan, ClaimDpu,
          Execute, ExecuteNothing, ReleaseDpu, Signal
    <2> QED  BY <2>1 DEF CallerInv, ReportInv
  <1>4. CASE Finished \/ UNCHANGED vars
    BY <1>4 DEF Finished, vars, syncVars, mimicVars, ReportInv
  <1> QED  BY <1>1, <1>2, <1>3, <1>4 DEF Next

\* The inductive invariant of the virtual times.
THEOREM TimeInvariant == Spec => [](PoolInv /\ CallerInv /\ TimeInv)
PROOF
  <1>1. Init => CallerInv /\ TimeInv
    <2> SUFFICES ASSUME Init  PROVE TimeInv
      BY CallerInit
    <2>1. /\ rounds = 0
          /\ \A w \in Worker, t \in Task :
               /\ lastWaker[w][t] = 0 /\ completeTime[w][t] = 0
               /\ ~Started(w, t) /\ ~Charged(w, t)
               /\ mimicTime[ResourceOf(w)] = 0
          /\ \A r \in Resource : mimicTime[r] = 0
      BY DEF Init, Started, Charged, Past, AllWorkers, PerTask, ResourceOf, Resource
    <2>2. ChargedStages = {}
      BY <2>1 DEF ChargedStages
    <2> QED  BY <2>1, <2>2 DEF TimeInv, WakerInv, ClockInv, NoVirtualOverlap, ReportInv
  <1>2. PoolInv /\ CallerInv /\ TimeInv /\ [Next]_vars => (CallerInv /\ TimeInv)'
    BY CallerStep, WakerStep, ClockStep, ReportStep DEF TimeInv, PoolInv
  <1> QED  BY <1>1, <1>2, PoolInvariant, PTL DEF Spec

\* A started stage has the time of its latest input, 0 if it has none.
THEOREM WakerIsLatestInputAlways == Spec => []WakerIsLatestInput
PROOF
  <1>1. PoolInv /\ WakerInv => WakerIsLatestInput
    <2> SUFFICES ASSUME PoolInv, WakerInv, NEW w \in Worker, NEW t \in Task, Started(w, t)
                 PROVE  lastWaker[w][t] =
                          Max({0} \cup {completeTime[Producer(w)][Deps(w, t)[i]] :
                                        i \in DOMAIN Deps(w, t)})
      BY DEF WakerIsLatestInput
    <2> DEFINE T == {0} \cup {completeTime[Producer(w)][Deps(w, t)[i]] :
                              i \in DOMAIN Deps(w, t)}
    <2>1. T \in SUBSET Nat
      BY DepsTyped DEF PoolInv, TypeOK
    <2>2. lastWaker[w][t] \in T /\ lastWaker[w][t] \in Nat
      <3>1. lastWaker[w][t] \in Nat
        BY DEF PoolInv, TypeOK
      <3>2. \/ lastWaker[w][t] = 0
            \/ \E i \in DOMAIN Deps(w, t) :
                 lastWaker[w][t] = completeTime[Producer(w)][Deps(w, t)[i]]
        BY DEF WakerInv
      <3> QED  BY <3>1, <3>2
    <2>3. \A y \in T : lastWaker[w][t] >= y
      BY <2>2 DEF WakerInv
    <2> HIDE DEF T
    <2>4. lastWaker[w][t] = Max(T)
      BY <2>1, <2>2, <2>3, MaxIs
    <2> QED  BY <2>4 DEF T
  <1> QED  BY <1>1, TimeInvariant, PTL DEF TimeInv

\* A stage ends no earlier than its cost after the end of each of its inputs.
THEOREM EndsAfterInputsAlways == Spec => []EndsAfterInputs
PROOF
  <1>1. PoolInv /\ WakerInv /\ ClockInv => EndsAfterInputs
    <2> SUFFICES ASSUME PoolInv, WakerInv, ClockInv, NEW s \in ChargedStages,
                        NEW i \in DOMAIN Deps(s[1], s[2])
                 PROVE  Begin(s) >= completeTime[Producer(s[1])][Deps(s[1], s[2])[i]]
      BY DEF EndsAfterInputs
    <2>1. s[1] \in Worker /\ s[2] \in Task /\ Charged(s[1], s[2]) /\ Started(s[1], s[2])
      BY DEF ChargedStages, Charged, Started, Past
    <2>2. /\ completeTime[s[1]][s[2]] >= lastWaker[s[1]][s[2]] + Cost[s[1]][s[2]]
          /\ lastWaker[s[1]][s[2]] >= completeTime[Producer(s[1])][Deps(s[1], s[2])[i]]
      BY <2>1 DEF ClockInv, WakerInv
    <2>3. /\ completeTime[s[1]][s[2]] \in Nat /\ lastWaker[s[1]][s[2]] \in Nat
          /\ Cost[s[1]][s[2]] \in Nat
          /\ completeTime[Producer(s[1])][Deps(s[1], s[2])[i]] \in Nat
      BY <2>1, CostAssumption, DepsTyped DEF PoolInv, TypeOK
    <2> QED  BY <2>2, <2>3 DEF Begin
  <1> QED  BY <1>1, TimeInvariant, PTL DEF TimeInv

\* No processor executes two stages at the same virtual time.
THEOREM NoVirtualOverlapAlways == Spec => []NoVirtualOverlap
  BY TimeInvariant, PTL DEF TimeInv

\* execWorkload reports the end of the last stage, and nothing was left to run.
THEOREM ResultIsLastEndAlways == Spec => []ResultIsLastEnd
PROOF
  <1>1. PoolInv /\ CallerInv /\ ClockInv /\ ReportInv => ResultIsLastEnd
    <2> SUFFICES ASSUME PoolInv, CallerInv, ClockInv, ReportInv, main = "idle", rounds > 0
                 PROVE  /\ \A w \in Worker, t \in Task : isCompleted[w][t]
                        /\ makespan = Max({0} \cup {End(s) : s \in Worker \X Task})
      BY DEF ResultIsLastEnd
    <2>1. \A w \in Worker, t \in Task : isCompleted[w][t]
      BY AllExitedAllDone DEF CallerInv
    <2> DEFINE T == {0} \cup {End(s) : s \in Worker \X Task}
    <2>2. /\ mimicTime["cpu"] \in Nat /\ mimicTime["dpu"] \in Nat
          /\ \A w \in Worker, t \in Task : completeTime[w][t] \in Nat
      BY DEF PoolInv, TypeOK, Resource
    <2>3. T \in SUBSET Nat
      BY <2>2 DEF End
    <2>4. /\ makespan \in {mimicTime["cpu"], mimicTime["dpu"]}
          /\ makespan >= mimicTime["cpu"] /\ makespan >= mimicTime["dpu"]
      <3>1. {mimicTime[r] : r \in Resource} = {mimicTime["cpu"], mimicTime["dpu"]}
        BY DEF Resource
      <3>2. makespan = Max({mimicTime["cpu"], mimicTime["dpu"]})
        BY <3>1 DEF ReportInv
      <3> QED  BY <2>2, <3>2, MaxOfTwo
    <2>5. ASSUME NEW r \in Resource  PROVE mimicTime[r] \in T
      <3>1. CASE mimicTime[r] = 0
        BY <3>1
      <3>2. CASE mimicTime[r] # 0
        <4>1. PICK w \in Worker, t \in Task : completeTime[w][t] = mimicTime[r]
          BY <3>2 DEF ClockInv
        <4>2. <<w, t>> \in Worker \X Task /\ End(<<w, t>>) = mimicTime[r]
          BY <4>1 DEF End
        <4> QED  BY <4>2
      <3> QED  BY <3>1, <3>2
    <2>6. ASSUME NEW y \in T  PROVE makespan >= y
      <3>1. CASE y = 0
        BY <2>2, <2>4, <3>1
      <3>2. ASSUME NEW s \in Worker \X Task, y = End(s)
            PROVE  makespan >= y
        <4>1. End(s) <= mimicTime[ResourceOf(s[1])] /\ End(s) \in Nat
          BY <2>2 DEF End, ClockInv
        <4> QED  BY <2>2, <2>4, <3>2, <4>1 DEF ResourceOf
      <3> QED  BY <3>1, <3>2
    <2>7. makespan \in T
      BY <2>4, <2>5 DEF Resource
    <2> HIDE DEF T
    <2>8. makespan = Max(T)
      BY <2>3, <2>6, <2>7, MaxIs
    <2> QED  BY <2>1, <2>8 DEF T
  <1> QED  BY <1>1, TimeInvariant, PTL DEF TimeInv

----------------------------------------------------------------------------
(* Energy. *)

\* The energy of each stage of the graph.
StageEnergy == [s \in Worker \X Task |-> Energy[s[1]][s[2]]]

\* Total energies are sums, of any finite set of stages.
LEMMA TotalIsSum ==
  ASSUME NEW S \in SUBSET (Worker \X Task), IsFiniteSet(S)
  PROVE  TotalOf(Energy, S) = SumOver(StageEnergy, S)
PROOF
  <1> DEFINE Table(g) ==
        g = [s \in SUBSET S |->
               IF s = {} THEN 0
               ELSE Energy[First(s)[1]][First(s)[2]] + g[s \ {First(s)}]]
  <1>1. TotalOf(Energy, S) = (CHOOSE g : Table(g))[S]
    BY DEF TotalOf, MapThenSumSet, MapThenFoldSet, First
  <1>2. ASSUME NEW s \in SUBSET S, s # {}
        PROVE  Energy[First(s)[1]][First(s)[2]] = StageEnergy[First(s)]
    <2>1. First(s) \in Worker \X Task
      BY <1>2 DEF First
    <2> QED  BY <2>1 DEF StageEnergy
  <1>3. \A g : Table(g) <=> SumTable(StageEnergy, S, g)
    BY <1>2 DEF SumTable
  <1> HIDE DEF Table
  <1>4. Table(CHOOSE g : Table(g))
    BY <1>3, SumTableExists
  <1> DEFINE h == CHOOSE g : Table(g)
  <1>5. SumTable(StageEnergy, S, h)
    BY <1>3, <1>4
  <1> HIDE DEF h
  <1>6. SumOver(StageEnergy, S) = h[S]
    BY <1>5, SumOfTable
  <1> QED  BY <1>1, <1>6 DEF h

\* A schedule lists finitely many tasks, so finitely many stages are charged.
LEMMA ChargedFinite ==
  ASSUME PoolInv
  PROVE  ChargedStages \in SUBSET (Worker \X Task) /\ IsFiniteSet(ChargedStages)
PROOF
  <1> DEFINE Listed == {order[i] : i \in DOMAIN order}
  <1>1. IsFiniteSet(DOMAIN order)
    <2>1. Len(order) \in Nat /\ DOMAIN order = 1..Len(order)
      BY OrderTyped DEF PoolInv
    <2> QED  BY <2>1, FS_Interval
  <1>2. IsFiniteSet(Listed)
    BY <1>1, FiniteImage
  <1>3. IsFiniteSet(Worker)
    <2>1. IsFiniteSet({"cpu"})
      BY FS_Singleton
    <2>2. IsFiniteSet({"cpu"} \cup {"dpu"})
      BY <2>1, FS_AddElement
    <2>3. IsFiniteSet(({"cpu"} \cup {"dpu"}) \cup {"map"})
      BY <2>2, FS_AddElement
    <2>4. IsFiniteSet((({"cpu"} \cup {"dpu"}) \cup {"map"}) \cup {"reduce"})
      BY <2>3, FS_AddElement
    <2>5. Worker = (({"cpu"} \cup {"dpu"}) \cup {"map"}) \cup {"reduce"}
      BY DEF Worker
    <2> QED  BY <2>4, <2>5
  <1>4. IsFiniteSet(Worker \X Listed)
    <2> HIDE DEF Listed
    <2> QED  BY <1>2, <1>3, FS_Product
  <1>5. ASSUME NEW w \in Worker, NEW t \in Task, Charged(w, t)
        PROVE  t \in Listed
    <2>1. CASE isCompleted[w][t]
      BY <2>1 DEF PoolInv, OnlyQueued
    <2>2. CASE Past(w, t, {"release", "signal"})
      <3>1. popped[w] \in DOMAIN order /\ order[popped[w]] = t
        BY <2>2, CurrentTyped DEF Past, PoolInv, Busy, Current
      <3> QED  BY <3>1
    <2> QED  BY <1>5, <2>1, <2>2 DEF Charged
  <1> HIDE DEF Listed
  <1>6. ChargedStages \in SUBSET (Worker \X Task) /\ ChargedStages \subseteq Worker \X Listed
    BY <1>5 DEF ChargedStages
  <1> QED  BY <1>4, <1>6, FS_Subset

\* Until the next workload a charged stage stays charged.
LEMMA ChargedAfter ==
  ASSUME PoolInv, [Next]_vars, ~ExecWorkload,
         NEW v \in Worker, NEW u \in Task, Charged(v, u)
  PROVE  Charged(v, u)'
PROOF
  <1>1. CASE isCompleted[v][u]
    <2>1. isCompleted'[v][u]
      BY <1>1, CompletionsKeptStep DEF CompletionsKept
    <2> QED  BY <2>1 DEF Charged
  <1>2. CASE Past(v, u, {"release", "signal"})
    <2> USE <1>2 DEF Charged, Past, Current, PoolInv, TypeOK
    <2>1. ASSUME NEW w \in Worker, Step(w) \/ SpuriousWakeup(w), w # v
          PROVE  Charged(v, u)'
      <3>1. order' = order /\ popped'[v] = popped[v] /\ pc'[v] = pc[v]
        BY <2>1
        DEF Step, SpuriousWakeup, Fetch, Exit, Lock, Proceed, Sleep, Scan, ClaimDpu,
            Execute, ExecuteNothing, ReleaseDpu, Signal
      <3> QED  BY <3>1
    <2>2. CASE Step(v) \/ SpuriousWakeup(v)
      <3>1. CASE ReleaseDpu(v)
        BY <3>1 DEF ReleaseDpu
      <3>2. CASE Signal(v)
        BY <3>2 DEF Signal
      <3> QED
        BY <2>2, <3>1, <3>2
        DEF Step, SpuriousWakeup, Fetch, Exit, Lock, Proceed, Sleep, Scan, ClaimDpu,
            Execute, ExecuteNothing
    <2>3. CASE Join \/ Finished \/ UNCHANGED vars
      BY <2>3 DEF Join, Finished, vars, syncVars
    <2> QED  BY <2>1, <2>2, <2>3 DEF Next
  <1> QED  BY <1>1, <1>2 DEF Charged

\* The balance as a sum over a finite set.
FiniteBalance ==
  /\ ChargedStages \in SUBSET (Worker \X Task) /\ IsFiniteSet(ChargedStages)
  /\ totalEnergy = SumOver(StageEnergy, ChargedStages)

LEMMA BalanceIsFinite == PoolInv => (EnergyBalance <=> FiniteBalance)
  BY ChargedFinite, TotalIsSum DEF EnergyBalance, FiniteBalance

\* Execute adds the energy of the stage it charges, and no other step charges.
LEMMA EnergyStep ==
  ASSUME PoolInv, FiniteBalance, [Next]_vars,
         ChargedStages' \in SUBSET (Worker \X Task), IsFiniteSet(ChargedStages')
  PROVE  FiniteBalance'
PROOF
  <1>1. CASE ExecWorkload
    <2>1. ASSUME NEW w \in Worker, NEW t \in Task
          PROVE  ~Charged(w, t)'
      BY <1>1 DEF ExecWorkload, Charged, Past, AllWorkers, PerTask
    <2>2. ChargedStages' = {}
      BY <2>1 DEF ChargedStages
    <2>3. IsFiniteSet({})
      BY FS_EmptySet
    <2>4. SumOver(StageEnergy, {}) = 0
      BY <2>3, SumUnfolds
    <2>5. totalEnergy' = 0
      BY <1>1 DEF ExecWorkload
    <2> QED  BY <2>2, <2>3, <2>4, <2>5 DEF FiniteBalance, StageEnergy
  <1>2. ASSUME NEW w \in Worker, Execute(w)
        PROVE  FiniteBalance'
    <2> SUFFICES ASSUME NEW t \in Task, t = Current(w)
                 PROVE  FiniteBalance'
      <3>1. Current(w) \in Task
        BY <1>2, CurrentTyped DEF Execute, Busy, PoolInv
      <3> QED  BY <3>1
    <2>1. ~isCompleted[w][t] /\ pc[w] = "run" /\ Charges(w, t) /\ popped[w] > 0
      <3>1. popped[w] >= 1 /\ popped[w] \in Nat
        BY <1>2, OrderTyped DEF Execute, PoolInv, Positioned, Busy, TypeOK
      <3> QED  BY <1>2, <3>1, RunningIncomplete DEF Execute, Busy
    <2>2. /\ UNCHANGED <<order, popped, isCompleted>>
          /\ pc'[w] \in {"release", "signal"}
          /\ \A v \in Worker : v # w => pc'[v] = pc[v]
          /\ totalEnergy' = totalEnergy + Energy[w][t]
      BY <1>2 DEF Execute, AfterRun, PoolInv, TypeOK
    <2>3. ~Charged(w, t)
      BY <2>1 DEF Charged, Past
    <2>4. Charged(w, t)'
      BY <2>1, <2>2 DEF Charged, Past, Current
    <2>5. ASSUME NEW v \in Worker, NEW u \in Task, <<v, u>> # <<w, t>>
          PROVE  Charged(v, u)' <=> Charged(v, u)
      BY <2>2, <2>5 DEF Charged, Past, Current
    <2>6. ChargedStages' = ChargedStages \cup {<<w, t>>}
      BY <2>4, <2>5 DEF ChargedStages
    <2>7. <<w, t>> \notin ChargedStages
      BY <2>3 DEF ChargedStages
    <2>8. /\ \A s \in Worker \X Task : StageEnergy[s] \in Int
          /\ StageEnergy[<<w, t>>] = Energy[w][t]
      BY CostAssumption DEF StageEnergy
    <2>9. \A s \in ChargedStages \cup {<<w, t>>} : StageEnergy[s] \in Int
      BY <2>8 DEF FiniteBalance
    <2>10. SumOver(StageEnergy, ChargedStages \cup {<<w, t>>}) =
             Energy[w][t] + SumOver(StageEnergy, ChargedStages)
      BY <2>7, <2>8, <2>9, SumAdd DEF FiniteBalance
    <2>11. totalEnergy \in Int /\ Energy[w][t] \in Int
      BY CostAssumption DEF PoolInv, TypeOK
    <2>12. totalEnergy' = SumOver(StageEnergy, ChargedStages \cup {<<w, t>>})
      BY <2>2, <2>10, <2>11 DEF FiniteBalance
    <2>13. SumOver(StageEnergy, ChargedStages)' =
             SumOver(StageEnergy, ChargedStages \cup {<<w, t>>})
      BY <2>6 DEF StageEnergy
    <2> QED  BY <2>12, <2>13 DEF FiniteBalance
  <1>3. CASE ~ExecWorkload /\ \A w \in Worker : ~Execute(w)
    <2>1. totalEnergy' = totalEnergy
      BY <1>3
      DEF Next, Join, Step, SpuriousWakeup, Fetch, Exit, Lock, Proceed, Sleep, Scan,
          ClaimDpu, ExecuteNothing, ReleaseDpu, Signal, Finished, vars, mimicVars
    <2>2. ASSUME NEW v \in Worker, NEW u \in Task
          PROVE  Charged(v, u)' <=> Charged(v, u)
      BY <1>3, ChargedBefore, ChargedAfter
    <2>3. ChargedStages' = ChargedStages
      BY <2>2 DEF ChargedStages
    <2> QED  BY <2>1, <2>3 DEF FiniteBalance, StageEnergy
  <1> QED  BY <1>1, <1>2, <1>3

\* No addition to the energy is lost or made twice, and none survives into the
\* next workload: the total is that of the charged stages.
THEOREM EnergyBalanceAlways == Spec => []EnergyBalance
PROOF
  <1>1. Init => EnergyBalance
    <2> SUFFICES ASSUME Init  PROVE EnergyBalance
      OBVIOUS
    <2>1. ChargedStages = {} /\ totalEnergy = 0
      BY DEF Init, ChargedStages, Charged, Past, AllWorkers, PerTask
    <2>2. IsFiniteSet({}) /\ {} \in SUBSET (Worker \X Task)
      BY FS_EmptySet
    <2>3. TotalOf(Energy, {}) = 0
      BY <2>2, TotalIsSum, SumUnfolds
    <2> QED  BY <2>1, <2>3 DEF EnergyBalance
  <1>2. PoolInv => ChargedStages \in SUBSET (Worker \X Task) /\ IsFiniteSet(ChargedStages)
    BY ChargedFinite
  <1>3. /\ PoolInv /\ FiniteBalance /\ [Next]_vars
        /\ (ChargedStages \in SUBSET (Worker \X Task) /\ IsFiniteSet(ChargedStages))'
        => FiniteBalance'
    BY EnergyStep
  <1> QED  BY <1>1, <1>2, <1>3, BalanceIsFinite, PoolInvariant, PTL DEF Spec
=============================================================================
