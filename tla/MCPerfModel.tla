---------------------------- MODULE MCPerfModel ----------------------------
(***************************************************************************)
(* Instances of PerfModel for TLC, with the code's 16 sample points.  A    *)
(* bound of 16 page blocks visits all 17 entries; a bound of 47, like the  *)
(* 415 of a 4 GiB batch, visits 16 and leaves a rest above the last; the   *)
(* 104 of the 1 GiB batch benchmarks.cpp runs visits 18, one more than the *)
(* arrays have.                                                            *)
(***************************************************************************)
EXTENDS PerfModel

LinearOverhead == [s \in Side |-> IF s = "cpu" THEN 13 ELSE 47]
LinearSlope == [s \in Side |-> IF s = "cpu" THEN 8 ELSE 3]
=============================================================================
