--------------------------- MODULE HEFTScheduler ---------------------------
(***************************************************************************)
(* The list scheduler: src/Scheduler/HEFTScheduler.cpp.                    *)
(*                                                                         *)
(* schedule() asks the performance model for the cost of every task on     *)
(* both processors, ranks the tasks by the longest path to a sink, sorts   *)
(* them by rank, and places each on the processor that finishes it first.  *)
(* The sorted order becomes the order of all queues of HeteroComputePool,  *)
(* whose threads wait for ever if it is not a schedule in the sense of     *)
(* TaskGraph.                                                              *)
(*                                                                         *)
(* Costs are natural numbers, and ranks are twice the code's, since the    *)
(* code halves the sum of two costs.  std::sort is not stable: tasks of    *)
(* the same rank come in any order.  The recursion of calculateUpwardRank  *)
(* ends in one assignment per task, after those of its successors; each    *)
(* assignment is a step.                                                   *)
(***************************************************************************)
EXTENDS TaskGraph, Integers, FiniteSetsExt

CONSTANTS
  Entry,        \* vertex 0
  EntryRank,    \* the 10 (seconds) in calculateUpwardRank, in the unit of costs
  CostModels,   \* what deducePerfCPU and deducePerfDPU may predict: [Processor -> [Task -> Nat]]
  XferCost,     \* XferCost[t][i]: predicted transfer of the i-th input of t
  MaxCalls      \* how often schedule() is called on this scheduler

Processor == {"cpu", "dpu"}

Nowhere == "none"       \* assignedProcessor -1

Unranked == -1          \* upwardRank -1

ASSUME HEFTAssumption ==
  /\ IsFiniteSet(Task)
  /\ Entry \in Task
  /\ EntryRank \in Nat \ {0}
  /\ CostModels \subseteq [Processor -> [Task -> Nat]]
  /\ XferCost \in [Task -> Seq(Nat)]
  /\ \A t \in Task : Len(XferCost[t]) = Len(DepSeq[t])
  /\ MaxCalls \in Nat

VARIABLES
  pc,             \* "idle", or the loop of schedule(): "rank", "sort", "place"
  calls,          \* how often schedule() has been called
  cost,           \* computationCostCPU and computationCostDPU of every task
  upwardRank,     \* upwardRank[t], doubled
  sorted,         \* sortedTasks
  order,          \* scheduleResult.order
  offloadRatio,   \* scheduleResult.offloadRatio
  assigned,       \* assignedProcessor[t]
  startTime,
  endTime,
  nextAvailable   \* processors[p].nextAvailableTime, a member: it outlives the call

rankVars  == <<cost, upwardRank, sorted>>
placeVars == <<order, offloadRatio, assigned, startTime, endTime, nextAvailable>>
vars == <<pc, calls, rankVars, placeVars>>

----------------------------------------------------------------------------
(* Helpers. *)

MaxSuccessorRank(t) == Max({0} \cup {upwardRank[s] : s \in Succs(t)})

\* Mutant: the entry node gets no bonus.
OwnRankNoEntry(t) == cost["cpu"][t] + cost["dpu"][t]

\* A task's share of its rank: the average of its two costs, doubled.
OwnRank(t) ==
  IF t = Entry THEN 2 * EntryRank ELSE cost["cpu"][t] + cost["dpu"][t]

\* Mutant: the transfer is paid by an input on the same processor.
EarliestStartWrongSide(p, t) ==
  Max({nextAvailable[p]} \cup
      {IF assigned[DepSeq[t][i]] = p THEN endTime[DepSeq[t][i]] + XferCost[t][i]
       ELSE 0 : i \in DOMAIN DepSeq[t]})

\* When an input from elsewhere is there; inputs of the same processor are.
Arrival(p, t, i) ==
  LET pred == DepSeq[t][i] IN
  IF assigned[pred] # p THEN endTime[pred] + XferCost[t][i] ELSE 0

EarliestStart(p, t) ==
  Max({nextAvailable[p]} \cup {Arrival(p, t, i) : i \in DOMAIN DepSeq[t]})

FinishTime(p, t) == EarliestStart(p, t) + cost[p][t]

\* The loop over the processors keeps the first of two equal finish times.
BestProcessor(t) ==
  IF FinishTime("dpu", t) < FinishTime("cpu", t) THEN "dpu" ELSE "cpu"

RatioOf(p) == IF p = "dpu" THEN 1 ELSE 0

----------------------------------------------------------------------------
(* schedule(). *)

Init ==
  /\ pc = "idle"
  /\ calls = 0
  /\ cost = [p \in Processor |-> [t \in Task |-> 0]]
  /\ upwardRank = [t \in Task |-> Unranked]
  /\ sorted = <<>>
  /\ order = <<>>
  /\ offloadRatio = <<>>
  /\ assigned = [t \in Task |-> Nowhere]
  /\ startTime = [t \in Task |-> 0]
  /\ endTime = [t \in Task |-> 0]
  /\ nextAvailable = [p \in Processor |-> 0]

\* schedulingInfo and scheduleResult are local; the processors are not reset.
Call ==
  /\ pc = "idle"
  /\ calls < MaxCalls
  /\ calls' = calls + 1
  /\ pc' = "rank"
  /\ \E c \in CostModels : cost' = c
  /\ upwardRank' = [t \in Task |-> Unranked]
  /\ sorted' = <<>>
  /\ order' = <<>>
  /\ offloadRatio' = <<>>
  /\ assigned' = [t \in Task |-> Nowhere]
  /\ startTime' = [t \in Task |-> 0]
  /\ endTime' = [t \in Task |-> 0]
  /\ UNCHANGED nextAvailable

\* The end of calculateUpwardRank(t): its successors have their ranks.
Rank(t) ==
  /\ pc = "rank"
  /\ upwardRank[t] = Unranked
  /\ \A s \in Succs(t) : upwardRank[s] # Unranked
  /\ upwardRank' = [upwardRank EXCEPT ![t] = OwnRank(t) + MaxSuccessorRank(t)]
  /\ UNCHANGED <<pc, calls, cost, sorted>>
  /\ UNCHANGED placeVars

\* Every vertex has been visited.
Ranked ==
  /\ pc = "rank"
  /\ \A t \in Task : upwardRank[t] # Unranked
  /\ pc' = "sort"
  /\ UNCHANGED <<calls, rankVars, placeVars>>

\* Mutant: a comparator that orders by the smaller rank.
IsSortedAscending(o) ==
  /\ \A i, j \in DOMAIN o : o[i] = o[j] => i = j
  /\ \A i, j \in DOMAIN o : i < j => upwardRank[o[i]] <= upwardRank[o[j]]

IsSorted(o) ==
  /\ \A i, j \in DOMAIN o : o[i] = o[j] => i = j
  /\ \A i, j \in DOMAIN o : i < j => upwardRank[o[i]] >= upwardRank[o[j]]

SortTasks ==
  /\ pc = "sort"
  /\ \E o \in [1..Cardinality(Task) -> Task] : IsSorted(o) /\ sorted' = o
  /\ pc' = "place"
  /\ UNCHANGED <<calls, cost, upwardRank, placeVars>>

\* Mutants: the idle gap before the task is forgotten; a task contributes two
\* ratios.
PlaceForgetsGap ==
  LET t == sorted[Len(order) + 1]
      p == BestProcessor(t)
  IN
  /\ pc = "place"
  /\ Len(order) < Len(sorted)
  /\ assigned' = [assigned EXCEPT ![t] = p]
  /\ startTime' = [startTime EXCEPT ![t] = nextAvailable[p]]
  /\ endTime' = [endTime EXCEPT ![t] = FinishTime(p, t)]
  /\ nextAvailable' = [nextAvailable EXCEPT ![p] = @ + cost[p][t]]
  /\ order' = Append(order, t)
  /\ offloadRatio' = Append(offloadRatio, RatioOf(p))
  /\ UNCHANGED <<pc, calls, rankVars>>

\* One iteration of the loop: scheduleTask, and the two push_backs.
Place ==
  LET t == sorted[Len(order) + 1]
      p == BestProcessor(t)
  IN
  /\ pc = "place"
  /\ Len(order) < Len(sorted)
  /\ assigned' = [assigned EXCEPT ![t] = p]
  /\ startTime' = [startTime EXCEPT ![t] = nextAvailable[p]]
  /\ endTime' = [endTime EXCEPT ![t] = FinishTime(p, t)]
  /\ nextAvailable' = [nextAvailable EXCEPT ![p] = FinishTime(p, t)]
  /\ order' = Append(order, t)
  /\ offloadRatio' = Append(offloadRatio, RatioOf(p))
  /\ UNCHANGED <<pc, calls, rankVars>>

\* Mutant: the ratio of the first position is overwritten.
ReturnFirstForced ==
  /\ pc = "place"
  /\ Len(order) = Len(sorted)
  /\ offloadRatio' = [offloadRatio EXCEPT ![1] = 0]
  /\ pc' = "idle"
  /\ UNCHANGED <<calls, rankVars, order, assigned, startTime, endTime, nextAvailable>>

\* The last position is forced to the CPU, and the schedule is returned.
Return ==
  /\ pc = "place"
  /\ Len(order) = Len(sorted)
  /\ offloadRatio' = [offloadRatio EXCEPT ![Len(sorted)] = 0]
  /\ pc' = "idle"
  /\ UNCHANGED <<calls, rankVars, order, assigned, startTime, endTime, nextAvailable>>

\* The caller has no schedule left to ask for.
Finished ==
  /\ pc = "idle"
  /\ calls = MaxCalls
  /\ UNCHANGED vars

Next ==
  \/ Call
  \/ \E t \in Task : Rank(t)
  \/ Ranked
  \/ SortTasks
  \/ Place
  \/ Return
  \/ Finished

Spec == Init /\ [][Next]_vars

----------------------------------------------------------------------------
(* Vocabulary of the properties. *)

Placed == {order[i] : i \in DOMAIN order}

\* No task that something depends on is predicted to take no time at all.
CostsPositive ==
  \A t \in Task : Succs(t) # {} => OwnRank(t) > 0

\* All other tasks together are predicted to take less than the 10 seconds that
\* count as the cost of vertex 0.
Quick == MapThenSumSet(LAMBDA t : OwnRank(t), Task \ {Entry}) < 2 * EntryRank

----------------------------------------------------------------------------
(* Properties. *)

TypeOK ==
  /\ pc \in {"idle", "rank", "sort", "place"}
  /\ calls \in 0..MaxCalls
  /\ cost \in [Processor -> [Task -> Nat]]
  /\ upwardRank \in [Task -> Nat \cup {Unranked}]
  /\ sorted \in Seq(Task)
  /\ order \in Seq(Task)
  /\ offloadRatio \in Seq({0, 1})
  /\ Len(offloadRatio) = Len(order)
  /\ assigned \in [Task -> Processor \cup {Nowhere}]
  /\ startTime \in [Task -> Nat]
  /\ endTime \in [Task -> Nat]
  /\ nextAvailable \in [Processor -> Nat]

\* What the executor relies on: if the predicted costs are positive, sorting by
\* rank alone, with ties broken anyhow, yields every task once and none before
\* its predecessors; and while tasks are placed no task reads the placement of
\* a predecessor that has none yet.
OrderRespectsGraph ==
  CostsPositive =>
    /\ \A i \in DOMAIN order : \A q \in Preds(order[i]) :
         \E j \in 1..(i - 1) : order[j] = q
    /\ pc = "idle" /\ calls > 0 => IsSchedule(order)

\* The predicted timeline respects the graph: a task begins its work no earlier
\* than the end of each input, and the transfer if that input is elsewhere.
InputsArrive ==
  CostsPositive =>
    \A t \in Placed : \A i \in DOMAIN DepSeq[t] :
      LET q == DepSeq[t][i]
          p == assigned[t]
      IN  endTime[t] >= cost[p][t] + endTime[q]
                        + (IF assigned[q] = p THEN 0 ELSE XferCost[t][i])

\* The timeline respects the hardware: what two tasks occupy of one processor,
\* from startTime to endTime, does not overlap.
NoOverlap ==
  \A s, t \in Placed :
    s # t /\ assigned[s] = assigned[t]
      => endTime[s] <= startTime[t] \/ endTime[t] <= startTime[s]

\* "ensure entry node to be the first": vertex 0 heads the order, ahead of other
\* sources, of tasks that cost nothing, and of whatever ties there are, as long
\* as it depends on nothing and the rest is done within the bonus.
EntryFirst ==
  Preds(Entry) = {} /\ Quick => (order # <<>> => order[1] = Entry)

\* The offload ratios returned are the placement, task by task, save for a task
\* nothing depends on (LOGIC_END), which the code sends to the CPU.
RatiosFollowPlacement ==
  CostsPositive =>
    \A i \in DOMAIN order :
      offloadRatio[i] # RatioOf(assigned[order[i]]) => Succs(order[i]) = {}
===========================================================================
