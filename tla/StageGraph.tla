---------------------------- MODULE StageGraph ----------------------------
(***************************************************************************)
(* What HeteroComputePool::execWorkload promises of one workload after the *)
(* other, without threads, queues, locks or clocks.  A task of the graph   *)
(* is split into stages (its CPU part, its DPU part, the MAP and REDUCE    *)
(* transfers).  Every stage runs once per workload, after all the stages   *)
(* it needs, and no two stages of the set Exclusive (those that touch the  *)
(* DPUs) run at the same time.                                             *)
(***************************************************************************)
CONSTANTS
  Stage,        \* the stages of the workload
  Needs,        \* Needs[s]: the stages that must be complete before s begins
  Exclusive     \* the stages that use the DPUs

VARIABLE phase

Phases == {"pending", "running", "ran", "done"}

TypeOK == phase \in [Stage -> Phases]

Init == phase = [s \in Stage |-> "pending"]

Begin(s) ==
  /\ phase[s] = "pending"
  /\ \A n \in Needs[s] : phase[n] = "done"
  /\ s \in Exclusive => \A x \in Exclusive : phase[x] # "running"
  /\ phase' = [phase EXCEPT ![s] = "running"]

\* The stage has stopped executing; its completion is not published yet.
End(s) ==
  /\ phase[s] = "running"
  /\ phase' = [phase EXCEPT ![s] = "ran"]

Publish(s) ==
  /\ phase[s] = "ran"
  /\ phase' = [phase EXCEPT ![s] = "done"]

\* The caller starts another workload; only when nothing is left of the last.
Restart ==
  /\ \A s \in Stage : phase[s] = "done"
  /\ phase' = [s \in Stage |-> "pending"]

Next ==
  \/ \E s \in Stage : Begin(s) \/ End(s) \/ Publish(s)
  \/ Restart

Spec == Init /\ [][Next]_phase
===========================================================================
