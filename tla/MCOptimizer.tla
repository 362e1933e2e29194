---------------------------- MODULE MCOptimizer ----------------------------
(***************************************************************************)
(* Instances of Optimizer for TLC: three points, the first two of them     *)
(* seeded, with MetaScheduler's limits of -100 and 100.                    *)
(***************************************************************************)
EXTENDS Optimizer

ThreeCoord == {-100, 0, 100}
=============================================================================
