------------------------ MODULE MCHeteroComputePool ------------------------
(***************************************************************************)
(* Instances of HeteroComputePool for TLC.                                 *)
(*                                                                         *)
(* Fork: a graph shaped like the benchmark workloads, a logical start      *)
(* node, two parallel tasks, and a task that joins them.                   *)
(* Vee: two sources and their join, for two workloads in a row.            *)
(***************************************************************************)
EXTENDS HeteroComputePool

ForkTask == 0..3
ForkDepSeq ==
  [t \in ForkTask |-> CASE t = 0 -> <<>> [] t \in {1, 2} -> <<0>> [] t = 3 -> <<1, 2>>]
ForkLogic == {0}
ForkOrders == {<<0, 1, 2, 3>>}

\* Logical nodes cost nothing; task 2 is DPU heavy, task 1 CPU heavy, and
\* task 3 needs no REDUCE (a transfer of no page, which costs nothing).
ForkCost ==
  [w \in Worker |-> [t \in ForkTask |->
     CASE t = 0 -> 0
       [] w = "cpu" -> 4 - t
       [] w = "dpu" -> 2 * t
       [] w = "map" -> 1
       [] w = "reduce" -> IF t = 3 THEN 0 ELSE t]]
ForkEnergy == [w \in Worker |-> [t \in ForkTask |-> IF t = 0 THEN 0 ELSE t + 1]]

\* Two sources, one of them logical, and their join: small enough for two
\* workloads in a row on the same pool.
VeeTask == 0..2
VeeDepSeq == [t \in VeeTask |-> IF t = 2 THEN <<1, 0>> ELSE <<>>]
VeeLogic == {0}
VeeOrders == {<<0, 1, 2>>, <<1, 0, 2>>}
VeeCost ==
  [w \in Worker |-> [t \in VeeTask |->
     CASE t = 0 -> 0
       [] w = "cpu" -> 3 - t
       [] w = "dpu" -> t
       [] OTHER -> t]]
VeeEnergy == [w \in Worker |-> [t \in VeeTask |-> t]]

=============================================================================
