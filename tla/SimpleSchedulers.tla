-------------------------- MODULE SimpleSchedulers --------------------------
(***************************************************************************)
(* The schedulers that search for nothing: CPUOnlyScheduler,               *)
(* DPUOnlyScheduler and GreedyScheduler (include/Scheduler).  Each returns *)
(* a topological order and one ratio for each position of it, here in      *)
(* hundredths.  boost::topological_sort may return any such order.         *)
(***************************************************************************)
EXTENDS TaskGraph, FiniteSets, Integers

CONSTANTS
  ComputeBound  \* ComputeBound[i]: gIn.g[i].opType is ComputeBound

\* topoSort returns a sequence of all tasks, each after its predecessors.
TopoSort == {o \in [1..Cardinality(Task) -> Task] : IsSchedule(o)}

Schedules(RatioAt(_)) ==
  {[isAlwaysWrittingBack |-> TRUE, order |-> o,
    offloadRatio |-> [p \in DOMAIN o |-> RatioAt(p)]] : o \in TopoSort}

LastPosition == Cardinality(Task)

CPUOnly == LET Ratio(p) == 0 IN Schedules(Ratio)

\* The last position is LOGIC_END's.
DPUOnly == LET Ratio(p) == IF p = LastPosition THEN 0 ELSE 100 IN Schedules(Ratio)

\* Mutant: the ratio of LOGIC_END is not set to 0.
GreedyNoEnd ==
  LET Ratio(p) == IF ComputeBound[p - 1] THEN 0 ELSE 100 IN Schedules(Ratio)

\* The ratio at a position is chosen by the type of the task that has the
\* number of the position, wherever the order puts that task.
Greedy ==
  LET Ratio(p) == IF p = LastPosition \/ ComputeBound[p - 1] THEN 0 ELSE 100
  IN  Schedules(Ratio)

SimpleSchedules == CPUOnly \cup DPUOnly \cup Greedy
=============================================================================
