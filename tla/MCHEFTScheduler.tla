-------------------------- MODULE MCHEFTScheduler --------------------------
(***************************************************************************)
(* Instances of HEFTScheduler for TLC.                                     *)
(*                                                                         *)
(* Diamond: two sources, LOGIC_START and a task beside it, a task that     *)
(* depends on the former, the join of the two and LOGIC_END, with every    *)
(* combination of CPU-friendly, DPU-friendly and indifferent tasks; the    *)
(* second source may also cost nothing or more than the bonus of vertex 0. *)
(***************************************************************************)
EXTENDS HEFTScheduler

Pair(c, d) == [cpu |-> c, dpu |-> d]

DiamondTask == 0..4
DiamondDepSeq ==
  [t \in DiamondTask |-> CASE t = 0 -> <<>>
                           [] t = 1 -> <<>>
                           [] t = 2 -> <<0>>
                           [] t = 3 -> <<1, 2>>
                           [] t = 4 -> <<3>>]
DiamondXferCost ==
  [t \in DiamondTask |-> CASE t = 0 -> <<>>
                           [] t = 1 -> <<>>
                           [] t = 2 -> <<0>>
                           [] t = 3 -> <<1, 2>>
                           [] t = 4 -> <<1>>]
Friendly == {Pair(1, 4), Pair(4, 1), Pair(2, 2)}
DiamondCostModels ==
  {[p \in {"cpu", "dpu"} |->
      [t \in DiamondTask |-> CASE t = 1 -> a[p] [] t = 2 -> b[p] [] t = 3 -> c[p]
                               [] t \in {0, 4} -> 0]] :
   a \in Friendly \cup {Pair(0, 0), Pair(10, 10)}, b \in Friendly, c \in Friendly}
=============================================================================
