----------------------------- MODULE MCKernels -----------------------------
(***************************************************************************)
(* Instances of Kernels for TLC: arrays of different items, and those of   *)
(* tests/operatorTest.cpp, which hold 2 and 3 everywhere.  With five pages *)
(* to a word and two to a block, three page blocks wrap as 415 of the code *)
(* do: the last page is taken for the first, and the CPU stops after one.  *)
(***************************************************************************)
EXTENDS Kernels

MixedSrc1 == [h \in 0..11 |-> [i \in Items |-> 9 * h + 7 * i]]
MixedSrc2 == [h \in 0..11 |-> [i \in Items |-> 5 + 11 * i]]

TestSrc1 == [h \in 0..3 |-> [i \in Items |-> 2]]
TestSrc2 == [h \in 0..3 |-> [i \in Items |-> 3]]

Parameters ==
  [weight |-> 25, target |-> 95, kernel |-> [j \in 0..(KernelSize - 1) |-> 10 * j + 5]]
=============================================================================
