---------------------------- MODULE MCWorkSplit ----------------------------
(***************************************************************************)
(* Instances of WorkSplit for TLC: a task with two successors, so that its *)
(* ratio can lie below, between and above theirs, and two schedules.       *)
(***************************************************************************)
EXTENDS WorkSplit

ForkTask == 0..2
ForkDepSeq == [t \in ForkTask |-> IF t = 0 THEN <<>> ELSE <<0>>]
BothOrders == {<<0, 1, 2>>, <<0, 2, 1>>}
=============================================================================
