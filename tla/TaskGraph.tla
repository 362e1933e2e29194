----------------------------- MODULE TaskGraph -----------------------------
(***************************************************************************)
(* The task graph that schedulers and executor share                       *)
(* (include/Executor/TaskGraph.hpp) and what a schedule of it is.          *)
(*                                                                         *)
(* Nothing here says that the graph has no cycle: a graph with a cycle has *)
(* no schedule.                                                            *)
(***************************************************************************)
EXTENDS Naturals, Sequences

CONSTANTS
  Task,         \* the vertices of the task graph
  DepSeq        \* DepSeq[t]: the predecessors of t, in the order of in_edges

ASSUME GraphAssumption ==
  DepSeq \in [Task -> Seq(Task)]

Preds(t) == {DepSeq[t][i] : i \in DOMAIN DepSeq[t]}

Succs(t) == {s \in Task : t \in Preds(s)}

(***************************************************************************)
(* A schedule lists every task once and no task before its predecessors:   *)
(* what TaskGraph::topoSort returns, and what HEFTScheduler must return.   *)
(***************************************************************************)
IsSchedule(o) ==
  /\ o \in Seq(Task)
  /\ \A t \in Task : \E i \in DOMAIN o : o[i] = t
  /\ \A i, j \in DOMAIN o : o[i] = o[j] => i = j
  /\ \A i, j \in DOMAIN o : o[j] \in Preds(o[i]) => j < i
===========================================================================
