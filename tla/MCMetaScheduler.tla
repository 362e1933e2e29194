-------------------------- MODULE MCMetaScheduler --------------------------
(***************************************************************************)
(* A diamond for TLC, in which order and numbers may disagree, and three   *)
(* points for the searches to find: everything on the CPU, everything on   *)
(* the DPUs, and a mixture whose ratios need rounding.  Its prediction     *)
(* varies.                                                                 *)
(***************************************************************************)
EXTENDS MetaScheduler

DiamondPreds ==
  [t \in 0..3 |-> CASE t = 0 -> <<>>
                    [] t \in {1, 2} -> <<0>>
                    [] t = 3 -> <<1, 2>>]

DiamondComputeBound == [t \in 0..3 |-> t = 1]

ThreePoints ==
  {[p \in 1..4 |-> -500], [p \in 1..4 |-> 500],
   [p \in 1..4 |-> CASE p = 1 -> -500 [] p = 2 -> 137 [] p = 3 -> 135 [] OTHER -> 500]}

\* The more of the second task is offloaded the faster; energy is least for the
\* mixture.
VaryingOutcomes(ratios) ==
  IF ratios[2] = 0 THEN {[time |-> 9, energy |-> 900]}
  ELSE IF ratios[2] = 1000
  THEN {[time |-> 2, energy |-> 100 + ratios[4]]}
  ELSE {[time |-> 1, energy |-> 50], [time |-> 3, energy |-> 60]}
=============================================================================
