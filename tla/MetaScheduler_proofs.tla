------------------------ MODULE MetaScheduler_proofs ------------------------
(***************************************************************************)
(* Theorems about MetaScheduler for every order, all predictions, any      *)
(* number of searches and any points.                                      *)
(***************************************************************************)
EXTENDS MetaScheduler, FiniteFolds

\* What each search keeps: its answers are numbers that MIMIC predicted, and
\* its best is the best of them.
SearchOK(s) ==
  /\ s.evaluated \subseteq EvalSchedules
  /\ s.frames \in Nat
  /\ s.bestVal \in Nat
  /\ s.evaluated = {} => s.frames = 0 /\ s.bestVal = MaxValue
  /\ s.evaluated # {} =>
       /\ <<s.bestPt, s.bestVal>> \in s.evaluated
       /\ \A a \in s.evaluated : s.bestVal <= a[2]

\* While the searches run nothing is chosen; afterwards all of them are over.
Phases ==
  /\ pc \in {"idle", "searching"} =>
       bestIdx = -1 /\ bestVal = InitialBest /\ compared = 0
  /\ pc \notin {"idle", "searching", "comparing", "undefined"} => pc = "returned"
  /\ pc \in {"comparing", "undefined"} => joined = Algorithm
  /\ joined \subseteq Algorithm
  /\ \A i \in joined : searches[i].frames = IterNum

\* The winner so far is the first of the best among those compared, if it is
\* below the initial best.
Winner ==
  /\ compared \in 0..Cardinality(Algorithm)
  /\ bestIdx \in -1..(compared - 1)
  /\ bestVal \in Nat
  /\ bestVal = IF bestIdx = -1 THEN InitialBest ELSE searches[bestIdx].bestVal
  /\ \A j \in 0..(compared - 1) : bestVal <= searches[j].bestVal

MetaInv ==
  /\ \A i \in Algorithm : searches[i].frames # 0 => HEFTorder \in TopoSort
  /\ searches = [i \in Algorithm |-> searches[i]]
  /\ \A i \in Algorithm : SearchOK(searches[i])
  /\ Phases
  /\ Winner
  /\ pc = "undefined" => compared = Cardinality(Algorithm) /\ bestIdx = -1
  /\ Executable
  /\ ReturnsTheBest

----------------------------------------------------------------------------
(* The constants. *)

LEMMA AlgorithmCount ==
  /\ Cardinality(Algorithm) \in Nat
  /\ \A j \in Algorithm : j \in Nat /\ j < Cardinality(Algorithm)
  /\ \A j \in Nat : j < Cardinality(Algorithm) => j \in Algorithm
PROOF
  <1>1. IsFiniteSet(Algorithm) /\ Algorithm = 0..(Cardinality(Algorithm) - 1)
    BY MetaAssumption
  <1>2. PICK n \in Nat : n = Cardinality(Algorithm)
    BY <1>1, FS_CardinalityType
  <1>3. Algorithm = 0..(n - 1)
    BY <1>1, <1>2, Zenon
  <1>4. /\ \A j \in Algorithm : j \in Nat /\ j < n
        /\ \A j \in Nat : j < n => j \in Algorithm
    BY <1>3
  <1> QED  BY <1>2, <1>4

LEMMA PositionCount ==
  /\ LastPosition \in Nat \ {0}
  /\ LastPosition \in Position
  /\ \A p \in Position : p - 1 \in Task
PROOF
  <1>1. LastPosition \in Nat
    BY MetaAssumption, FS_CardinalityType DEF LastPosition
  <1>2. LastPosition # 0
    BY MetaAssumption, FS_EmptySet DEF LastPosition
  <1> QED  BY <1>1, <1>2, MetaAssumption DEF Position

\* What is answered is a point and a value below the initial one of a search.
LEMMA AnswersTyped ==
  ASSUME NEW i \in Algorithm, NEW a \in EvalSchedules
  PROVE  a = <<a[1], a[2]>> /\ a[1] \in Points /\ a[2] \in Nat /\ a[2] < MaxValue
PROOF
  <1>1. a[2] \in Nat /\ a[2] < MaxValue
    BY PredictionAssumption DEF S!AnswersAssumption
  <1>2. PICK pt \in Points : \E stat \in Outcomes(Proposed(pt)) : a = <<pt, Score(stat)>>
    BY DEF EvalSchedules
  <1> QED  BY <1>1, <1>2

LEMMA SearchConstants ==
  ASSUME NEW i \in Algorithm
  PROVE  IterNum \in Nat \ {0} /\ MaxValue \in Nat
  BY PredictionAssumption DEF S!AnswersAssumption

----------------------------------------------------------------------------
(* The searches. *)

\* A frame keeps the best: its least answer if that is better, else the old.
LEMMA FrameStep ==
  ASSUME NEW i \in Algorithm, SearchOK(searches[i]), NEW next \in S(i)!Successors
  PROVE  SearchOK(next)
PROOF
  <1> DEFINE old == searches[i]
  <1>1. PICK new \in SUBSET EvalSchedules :
          /\ S(i)!IsFrame(new)
          /\ \E a \in S(i)!Bests(new) :
               next = [evaluated |-> old.evaluated \cup new, frames |-> old.frames + 1,
                       bestPt |-> a[1], bestVal |-> a[2]]
    BY DEF S!Successors
  <1>2. PICK b \in S(i)!Bests(new) :
          next = [evaluated |-> old.evaluated \cup new, frames |-> old.frames + 1,
                  bestPt |-> b[1], bestVal |-> b[2]]
    BY <1>1
  <1>3. new # {}
    BY <1>1 DEF S!IsFrame
  <1>4. \A a \in new : a = <<a[1], a[2]>> /\ a[2] \in Nat /\ a[2] < MaxValue
    BY AnswersTyped
  <1>5. \A a \in old.evaluated : a = <<a[1], a[2]>> /\ a[2] \in Nat
    BY AnswersTyped DEF SearchOK
  <1>6. old.frames \in Nat /\ old.bestVal \in Nat /\ MaxValue \in Nat
    BY SearchConstants DEF SearchOK
  <1>7. PICK m \in new : \A a \in new : m[2] <= a[2]
    <2>1. {a[2] : a \in new} \in SUBSET Nat /\ {a[2] : a \in new} # {}
      BY <1>3, <1>4
    <2>2. PICK x \in {a[2] : a \in new} : \A y \in {a[2] : a \in new} : x <= y
      BY <2>1, LeastElement
    <2> QED  BY <2>2
  <1>8. CASE m[2] < old.bestVal
    <2>1. b \in new /\ \A a \in new : b[2] <= a[2]
      BY <1>7, <1>8 DEF S!Bests
    <2>2. b[2] < old.bestVal
      BY <1>4, <1>6, <1>8, <2>1
    <2>3. \A a \in old.evaluated : b[2] <= a[2]
      BY <1>4, <1>5, <1>6, <2>1, <2>2 DEF SearchOK
    <2> QED  BY <1>2, <1>4, <1>6, <2>1, <2>3 DEF SearchOK
  <1>9. CASE ~(m[2] < old.bestVal)
    <2>1. \A a \in new : old.bestVal <= a[2]
      BY <1>4, <1>6, <1>7, <1>9
    <2>2. b = <<old.bestPt, old.bestVal>>
      <3>1. ~\E a \in new : (\A c \in new : a[2] <= c[2]) /\ a[2] < old.bestVal
        BY <1>4, <1>6, <2>1
      <3> QED  BY <3>1 DEF S!Bests
    <2>3. old.evaluated # {}
      BY <1>3, <1>4, <1>6, <2>1 DEF SearchOK
    <2> QED  BY <1>2, <1>6, <2>1, <2>2, <2>3 DEF SearchOK
  <1> QED  BY <1>8, <1>9

----------------------------------------------------------------------------
(* Schedules. *)

\* The simple schedulers return a topological order, a ratio for each of its
\* positions and none for the last.
LEMMA SimpleExecutable ==
  ASSUME NEW s \in SimpleSchedules
  PROVE  /\ IsSchedule(s.order)
         /\ s.offloadRatio \in [Position -> 0..100]
         /\ s.offloadRatio[LastPosition] = 0
PROOF
  <1>1. \A o \in TopoSort : IsSchedule(o) /\ DOMAIN o = Position
    BY DEF TopoSort, Position, LastPosition
  <1>2. CASE s \in CPUOnly
    BY <1>1, <1>2, PositionCount DEF CPUOnly, Schedules
  <1>3. CASE s \in DPUOnly
    BY <1>1, <1>3, PositionCount DEF DPUOnly, Schedules
  <1>4. CASE s \in Greedy
    BY <1>1, <1>4, PositionCount DEF Greedy, Schedules
  <1> QED  BY <1>2, <1>3, <1>4 DEF SimpleSchedules

\* Rounding leaves the ratios within a half of a hundredth.
LEMMA RoundedRatios ==
  ASSUME NEW pt \in Points, NEW r \in ActualRatios(pt)
  PROVE  /\ r \in [Position -> 0..100] /\ r[LastPosition] = 0
         /\ \A p \in Position :
              -5 <= 10 * r[p] - Proposed(pt)[p] /\ 10 * r[p] - Proposed(pt)[p] <= 5
PROOF
  <1>1. pt \in [Position -> -500..500]
    BY MetaAssumption
  <1>2. \A p \in Position : Rounded(pt[p] + 500) \subseteq 0..100
    BY DEF Rounded
  <1>3. r \in [Position -> 0..100]
    BY <1>2 DEF ActualRatios
  <1>4. r[LastPosition] = 0
    BY PositionCount DEF ActualRatios
  <1>5. ASSUME NEW p \in Position
        PROVE  -5 <= 10 * r[p] - Proposed(pt)[p] /\ 10 * r[p] - Proposed(pt)[p] <= 5
    <2>1. CASE p = LastPosition
      <3>1. Proposed(pt)[p] = 0
        BY <2>1 DEF Proposed
      <3> QED  BY <1>4, <2>1, <3>1
    <2>2. CASE p # LastPosition
      <3>1. Proposed(pt)[p] = pt[p] + 500
        BY <2>2 DEF Proposed
      <3>2. r[p] \in Rounded(pt[p] + 500)
        BY <2>2 DEF ActualRatios
      <3> QED  BY <3>1, <3>2 DEF Rounded
    <2> QED  BY <2>1, <2>2
  <1> QED  BY <1>3, <1>4, <1>5

----------------------------------------------------------------------------
(* The steps. *)

LEMMA MetaInit == Init => MetaInv
PROOF
  <1> SUFFICES ASSUME Init PROVE MetaInv
    OBVIOUS
  <1>1. \A i \in Algorithm : SearchOK(searches[i])
    BY SearchConstants DEF Init, SearchOK
  <1>2. Winner
    BY AlgorithmCount, MetaAssumption DEF Init, Winner
  <1> QED  BY <1>1, <1>2 DEF Init, MetaInv, Phases, Executable, ReturnsTheBest, MetaReturned

LEMMA CallSimpleStep == MetaInv /\ CallSimple => MetaInv'
PROOF
  <1> SUFFICES ASSUME MetaInv, CallSimple PROVE MetaInv'
    OBVIOUS
  <1>1. Executable'
    BY SimpleExecutable DEF CallSimple, Executable
  <1>2. ReturnsTheBest'
    BY DEF CallSimple, MetaInv, Phases, ReturnsTheBest, MetaReturned, chosenVars
  <1>3. Phases' /\ Winner'
    BY DEF CallSimple, MetaInv, Phases, Winner, chosenVars
  <1> QED  BY <1>1, <1>2, <1>3 DEF CallSimple, MetaInv, chosenVars

LEMMA CallMetaStep == MetaInv /\ CallMeta => MetaInv'
  BY DEF CallMeta, MetaInv, Phases, Winner, Executable, ReturnsTheBest, MetaReturned, chosenVars

LEMMA EvalFrameStep ==
  ASSUME MetaInv, NEW i \in Algorithm, EvalFrame(i)
  PROVE  MetaInv'
PROOF
  <1>1. PICK next \in S(i)!Successors : searches' = [searches EXCEPT ![i] = next]
    BY DEF EvalFrame
  <1>2. SearchOK(next)
    BY FrameStep DEF MetaInv
  <1>3. \A j \in Algorithm : searches'[j] = IF j = i THEN next ELSE searches[j]
    BY <1>1 DEF MetaInv
  <1>4. \A j \in Algorithm : SearchOK(searches'[j])
    BY <1>2, <1>3 DEF MetaInv
  <1>5. searches' = [j \in Algorithm |-> searches'[j]]
    BY <1>1 DEF MetaInv
  <1>6. Phases'
    BY <1>3 DEF EvalFrame, MetaInv, Phases, chosenVars
  <1>7. Winner'
    BY AlgorithmCount, MetaAssumption DEF EvalFrame, MetaInv, Phases, Winner, chosenVars
  <1>8. HEFTorder' \in TopoSort
    BY DEF EvalFrame
  <1> QED  BY <1>4, <1>5, <1>6, <1>7, <1>8
           DEF EvalFrame, MetaInv, Executable, ReturnsTheBest, MetaReturned, chosenVars

LEMMA EndTaskStep ==
  ASSUME MetaInv, NEW i \in Algorithm, EndTask(i)
  PROVE  MetaInv'
PROOF
  <1>1. Phases'
    BY DEF EndTask, MetaInv, Phases, chosenVars
  <1>2. Winner'
    BY DEF EndTask, MetaInv, Winner, chosenVars
  <1> QED  BY <1>1, <1>2
           DEF EndTask, MetaInv, Executable, ReturnsTheBest, MetaReturned, chosenVars

LEMMA CompareStep == MetaInv /\ Compare => MetaInv'
PROOF
  <1> SUFFICES ASSUME MetaInv, Compare PROVE MetaInv'
    OBVIOUS
  <1>1. compared \in Algorithm /\ compared \in Nat /\ compared' = compared + 1
    BY AlgorithmCount DEF Compare, MetaInv, Winner
  <1>2. \A j \in 0..compared : searches[j].bestVal \in Nat
    <2>1. \A j \in 0..compared : j \in Algorithm
      BY <1>1, AlgorithmCount
    <2> QED  BY <2>1 DEF MetaInv, SearchOK
  <1>3. Winner'
    <2>1. /\ bestIdx \in -1..(compared - 1) /\ bestVal \in Nat /\ searches' = searches
          /\ bestVal = IF bestIdx = -1 THEN InitialBest ELSE searches[bestIdx].bestVal
          /\ \A j \in 0..(compared - 1) : bestVal <= searches[j].bestVal
      BY DEF Compare, MetaInv, Winner
    <2>2. compared' \in 0..Cardinality(Algorithm)
      BY <1>1, AlgorithmCount
    <2>3. CASE searches[compared].bestVal < bestVal
      <3>1. bestIdx' = compared /\ bestVal' = searches[compared].bestVal /\ bestVal' \in Nat
        BY <1>1, <1>2, <2>3 DEF Compare
      <3>2. \A j \in 0..compared : bestVal' <= searches[j].bestVal
        BY <1>1, <1>2, <2>1, <2>3, <3>1
      <3> QED  BY <1>1, <2>1, <2>2, <3>1, <3>2 DEF Winner
    <2>4. CASE ~(searches[compared].bestVal < bestVal)
      <3>1. bestIdx' = bestIdx /\ bestVal' = bestVal
        BY <2>4 DEF Compare
      <3>2. \A j \in 0..compared : bestVal <= searches[j].bestVal
        BY <1>1, <1>2, <2>1, <2>4
      <3> QED  BY <1>1, <2>1, <2>2, <3>1, <3>2 DEF Winner
    <2> QED  BY <2>3, <2>4
  <1>4. Phases'
    BY DEF Compare, MetaInv, Phases
  <1> QED  BY <1>3, <1>4 DEF Compare, MetaInv, Executable, ReturnsTheBest, MetaReturned

LEMMA IndexUndefinedStep == MetaInv /\ IndexUndefined => MetaInv'
  BY DEF IndexUndefined, MetaInv, Phases, Winner, Executable, ReturnsTheBest, MetaReturned,
         chosenVars

\* What is returned is the best point of the winner, rounded.
LEMMA ReturnStep == MetaInv /\ Return => MetaInv'
PROOF
  <1> SUFFICES ASSUME MetaInv, Return PROVE MetaInv'
    OBVIOUS
  <1>1. /\ compared = Cardinality(Algorithm) /\ bestIdx \in Algorithm /\ bestIdx # -1
        /\ bestVal = searches[bestIdx].bestVal
        /\ \A j \in Algorithm : bestVal <= searches[j].bestVal
    BY AlgorithmCount DEF Return, MetaInv, Winner
  <1> PICK won : won = searches[bestIdx]
    OBVIOUS
  <1> PICK best : best = <<won.bestPt, won.bestVal>>
    OBVIOUS
  <1>2. SearchOK(won) /\ won.frames = IterNum /\ IterNum # 0
    BY <1>1, SearchConstants DEF Return, MetaInv, Phases
  <1>3. best \in won.evaluated /\ won.evaluated \subseteq EvalSchedules
    BY <1>2 DEF SearchOK
  <1>4. won.bestPt \in Points
    BY <1>1, <1>3, AnswersTyped
  <1>5. PICK r \in ActualRatios(won.bestPt) :
          schedule' = [isAlwaysWrittingBack |-> FALSE, order |-> HEFTorder, offloadRatio |-> r]
    BY DEF Return
  <1>6. schedule'.order = HEFTorder /\ schedule'.offloadRatio = r
    BY <1>5
  <1>7. searches' = searches /\ HEFTorder' = HEFTorder /\ joined' = joined
        /\ UNCHANGED <<bestIdx, bestVal, compared>> /\ pc' = "returned"
    BY DEF Return, chosenVars
  <1>8. Executable'
    <2>1. HEFTorder \in TopoSort
      BY <1>1, <1>2 DEF MetaInv
    <2> QED  BY <1>4, <1>6, <2>1, RoundedRatios DEF Executable, TopoSort
  <1>9. ReturnsTheBest'
    <2>1. best \in Evaluated /\ best[1] = won.bestPt /\ best[2] = bestVal
      BY <1>1, <1>3 DEF Evaluated
    <2>2. ASSUME NEW b \in Evaluated  PROVE best[2] <= b[2]
      <3>1. PICK j \in Algorithm : b \in searches[j].evaluated
        BY DEF Evaluated
      <3>2. searches[j].bestVal <= b[2] /\ searches[j].bestVal \in Nat /\ b \in EvalSchedules
        BY <3>1 DEF MetaInv, SearchOK
      <3>3. b[2] \in Nat /\ bestVal \in Nat
        BY <3>2, AnswersTyped DEF MetaInv, Winner
      <3> QED  BY <1>1, <2>1, <3>2, <3>3
    <2>3. Represents(best[1])'
      BY <1>4, <1>6, <2>1, RoundedRatios DEF Represents
    <2>4. Evaluated' = Evaluated
      BY <1>7 DEF Evaluated
    <2>5. \E a \in Evaluated' : Represents(a[1])' /\ \A b \in Evaluated' : a[2] <= b[2]
      BY <2>1, <2>2, <2>3, <2>4
    <2> QED  BY <2>5 DEF ReturnsTheBest
  <1>10. Phases' /\ Winner'
    BY <1>7 DEF MetaInv, Phases, Winner
  <1> QED  BY <1>7, <1>8, <1>9, <1>10 DEF MetaInv

LEMMA MetaStutter == MetaInv /\ UNCHANGED vars => MetaInv'
  BY DEF MetaInv, Phases, Winner, Executable, ReturnsTheBest, MetaReturned, Evaluated, Represents,
         vars, chosenVars

----------------------------------------------------------------------------
(* The theorems. *)

\* The invariant of schedule(), for every HEFT order, all predictions and any
\* interleaving of the searches.
THEOREM MetaInvariant == Spec => []MetaInv
PROOF
  <1>1. MetaInv /\ [Next]_vars => MetaInv'
    BY CallSimpleStep, CallMetaStep, EvalFrameStep, EndTaskStep, CompareStep, IndexUndefinedStep,
       ReturnStep, MetaStutter DEF Next, Finished
  <1> QED  BY <1>1, MetaInit, PTL DEF Spec

\* MetaScheduler and the simple schedulers return schedules that the pool can
\* execute: in particular their orders meet what the proofs about the pool
\* assume, whatever order HEFT has handed to MetaScheduler.
THEOREM ExecutableAlways == Spec => []Executable
PROOF
  <1>1. MetaInv => Executable
    BY DEF MetaInv
  <1> QED  BY <1>1, MetaInvariant, PTL

\* MetaScheduler::schedule returns, up to rounding, the best schedule that any
\* of its searches has evaluated.
THEOREM ReturnsTheBestAlways == Spec => []ReturnsTheBest
PROOF
  <1>1. MetaInv => ReturnsTheBest
    BY DEF MetaInv
  <1> QED  BY <1>1, MetaInvariant, PTL

\* Reading oVec[-1] takes that every value any search has seen is at least the
\* one from which the comparison starts.
THEOREM OnlyHopelessUndefinedAlways == Spec => []OnlyHopelessUndefined
PROOF
  <1>1. ASSUME MetaInv, pc = "undefined", NEW a \in Evaluated
        PROVE  a[2] >= InitialBest
    <2>1. PICK j \in Algorithm : a \in searches[j].evaluated
      BY DEF Evaluated
    <2>2. searches[j].bestVal <= a[2] /\ searches[j].bestVal \in Nat /\ a \in EvalSchedules
      BY <1>1, <2>1 DEF MetaInv, SearchOK
    <2>3. InitialBest <= searches[j].bestVal
      <3>1. j \in 0..(compared - 1)
        BY <1>1, AlgorithmCount DEF MetaInv
      <3> QED  BY <1>1, <3>1 DEF MetaInv, Winner
    <2> QED  BY <2>2, <2>3, AnswersTyped, MetaAssumption
  <1>2. MetaInv => OnlyHopelessUndefined
    BY <1>1 DEF OnlyHopelessUndefined
  <1> QED  BY <1>2, MetaInvariant, PTL
=============================================================================
