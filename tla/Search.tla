------------------------------- MODULE Search -------------------------------
(***************************************************************************)
(* What a search promises, whatever algorithm it uses: frame after frame   *)
(* of points is evaluated, a point seen before keeps the answer it had,    *)
(* and the best is replaced only by something strictly better.             *)
(***************************************************************************)
EXTENDS Naturals, FiniteSetsExt

CONSTANTS
  Answers,      \* pairs of a point and a value its evaluation may give
  PointNum,     \* the points in a frame
  IterNum,      \* the frames
  MaxValue,     \* the value of no point
  NoPoint

\* What a user of the module must provide.
AnswersAssumption ==
  /\ PointNum \in Nat \ {0} /\ IterNum \in Nat \ {0} /\ MaxValue \in Nat
  /\ \A a \in Answers : a[2] \in Nat /\ a[2] < MaxValue /\ a[1] # NoPoint

VARIABLE search \* what is evaluated so far, after how many frames, the best

Fresh == [evaluated |-> {}, frames |-> 0, bestPt |-> NoPoint, bestVal |-> MaxValue]

\* Answers that one frame may consist of.
IsFrame(new) ==
  /\ new # {}
  /\ Cardinality(new) <= PointNum
  /\ \A a \in new : (\E b \in search.evaluated : b[1] = a[1]) => a \in search.evaluated

\* The best of a frame, or of what has been found before.
Bests(new) ==
  LET least == {a \in new : \A b \in new : a[2] <= b[2]}
  IN  IF \E a \in least : a[2] < search.bestVal
      THEN least ELSE {<<search.bestPt, search.bestVal>>}

Successors ==
  IF search.frames = IterNum THEN {}
  ELSE UNION {
    {[evaluated |-> search.evaluated \cup new, frames |-> search.frames + 1,
      bestPt |-> a[1], bestVal |-> a[2]] : a \in Bests(new)} :
    new \in {n \in SUBSET Answers : IsFrame(n)}}

Spec == search = Fresh /\ [][search' \in Successors]_search

\* What the caller relies on: the best is among what was evaluated, and
\* nothing evaluated is better.
BestOfEvaluated ==
  search.evaluated # {} =>
    /\ <<search.bestPt, search.bestVal>> \in search.evaluated
    /\ \A a \in search.evaluated : search.bestVal <= a[2]
=============================================================================
