-------------------------- MODULE MCChronoTrigger --------------------------
(***************************************************************************)
(* What passes in ChronoTrigger for TLC: two runs that differ in time and  *)
(* in the energy of each of two sockets, and a bias below and above them.  *)
(***************************************************************************)
EXTENDS ChronoTrigger

Runs == {[time |-> 2, energy |-> <<1, 4>>], [time |-> 5, energy |-> <<3, 0>>]}

Biases == {[time |-> 0, energy |-> <<1, 0>>], [time |-> 3, energy |-> <<0, 5>>]}
=============================================================================
