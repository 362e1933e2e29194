--------------------------- MODULE MetaScheduler ---------------------------
(***************************************************************************)
(* MetaScheduler: three searches over the offload ratios of one order, run *)
(* as OpenMP tasks, and the schedule made of the best point of the best    *)
(* one (src/Scheduler/MetaScheduler.cpp).  A caller may use one of the     *)
(* simple schedulers instead.                                              *)
(*                                                                         *)
(* A coordinate is a number from -500 to 500, five times the code's; a     *)
(* ratio while it is evaluated is in thousandths, a ratio of a schedule    *)
(* returned in hundredths.  Each search behaves as Search says, which      *)
(* Optimizer implements; a search that leaves the numbers, as RSA can, is  *)
(* not followed further.                                                   *)
(***************************************************************************)
EXTENDS SimpleSchedulers, FiniteSetsExt

CONSTANTS
  Algorithm,    \* the searches, in the order of oVec: 0 .. 2
  Points,       \* the points the searches may try
  Outcomes(_),  \* the times and energies MIMIC may predict for given ratios
  Alpha, Beta,  \* Arg_Alpha and Arg_Beta, in tenths
  InitialBest,  \* bestVal before the searches are compared
  PointNum, IterNum, MaxValue, NoPoint

Position == 1..LastPosition

ASSUME MetaAssumption ==
  /\ IsFiniteSet(Task) /\ Task # {} /\ Task = 0..(LastPosition - 1)
  /\ ComputeBound \in [Task -> BOOLEAN]
  /\ IsFiniteSet(Algorithm) /\ Algorithm = 0..(Cardinality(Algorithm) - 1)
  /\ Points \subseteq [Position -> -500..500]
  /\ Alpha \in Nat /\ Beta \in Nat /\ InitialBest \in Nat

VARIABLES
  pc,           \* where the caller is
  HEFTorder,
  searches,     \* searches[i]: the state of oVec[i]
  joined,       \* the searches whose task has ended
  bestIdx,      \* bestOptimizerIdx
  bestVal,
  compared,     \* how many searches have been compared
  schedule      \* the schedule returned

chosenVars == <<bestIdx, bestVal, compared>>
vars == <<pc, HEFTorder, searches, joined, chosenVars, schedule>>

----------------------------------------------------------------------------
(* Helpers. *)

\* The ratios evalSchedules proposes for a point: the last is LOGIC_END's.
Proposed(pt) == [p \in Position |-> IF p = LastPosition THEN 0 ELSE pt[p] + 500]

Score(stat) == Alpha * 200 * stat.time + Beta * stat.energy

\* What evalSchedules may answer for the points of a frame.
EvalSchedules ==
  UNION {{<<pt, Score(stat)>> : stat \in Outcomes(Proposed(pt))} : pt \in Points}

S(i) == INSTANCE Search WITH Answers <- EvalSchedules, search <- searches[i]

\* MIMIC predicts numbers that numeric_limits<double>::max() exceeds.
ASSUME PredictionAssumption == \A i \in Algorithm : S(i)!AnswersAssumption

\* std::round to hundredths; a float that is nearly half way goes either way.
Rounded(thousandths) ==
  {h \in 0..100 : -5 <= 10 * h - thousandths /\ 10 * h - thousandths <= 5}

ActualRatios(pt) ==
  {r \in [Position -> UNION {Rounded(pt[p] + 500) : p \in Position} \cup {0}] :
     \A p \in Position :
       r[p] \in (IF p = LastPosition THEN {0} ELSE Rounded(pt[p] + 500))}

----------------------------------------------------------------------------
(* The constructor, schedule(), and the calls of the other schedulers. *)

NoSchedule == [isAlwaysWrittingBack |-> FALSE, order |-> <<>>, offloadRatio |-> <<>>]

\* HEFTScheduler returns every task once, in an order that is a schedule if costs
\* are positive (OrderRespectsGraph there); nothing looks at it here.
Init ==
  /\ pc = "idle"
  /\ HEFTorder \in Injection(Position, Task)
  /\ searches = [i \in Algorithm |->
       [evaluated |-> {}, frames |-> 0, bestPt |-> NoPoint, bestVal |-> MaxValue]]
  /\ joined = {}
  /\ bestIdx = -1
  /\ bestVal = InitialBest
  /\ compared = 0
  /\ schedule = NoSchedule

CallSimple ==
  /\ pc = "idle"
  /\ schedule' \in SimpleSchedules
  /\ pc' = "returned"
  /\ UNCHANGED <<HEFTorder, searches, joined, chosenVars>>

CallMeta ==
  /\ pc = "idle"
  /\ pc' = "searching"
  /\ UNCHANGED <<HEFTorder, searches, joined, chosenVars, schedule>>

\* The task of oVec[i] evaluates its next frame, unless it waits for the pool for
\* ever: if a task is queued before an input of it, its CPU part waits for the
\* REDUCE of that input, which is queued behind the task's own REDUCE, which
\* waits for the CPU part.
EvalFrame(i) ==
  /\ pc = "searching"
  /\ HEFTorder \in TopoSort
  /\ i \notin joined
  /\ \E next \in S(i)!Successors : searches' = [searches EXCEPT ![i] = next]
  /\ UNCHANGED <<pc, HEFTorder, joined, chosenVars, schedule>>

\* exec() returns; the parallel region ends with its last task.
EndTask(i) ==
  /\ pc = "searching"
  /\ i \notin joined
  /\ searches[i].frames = IterNum
  /\ joined' = joined \cup {i}
  /\ pc' = IF joined' = Algorithm THEN "comparing" ELSE pc
  /\ UNCHANGED <<HEFTorder, searches, chosenVars, schedule>>

\* Mutant: bestVal keeps its first value.
CompareWithInitial ==
  /\ pc = "comparing"
  /\ compared < Cardinality(Algorithm)
  /\ compared' = compared + 1
  /\ IF searches[compared].bestVal < bestVal
     THEN bestIdx' = compared /\ UNCHANGED bestVal
     ELSE UNCHANGED <<bestIdx, bestVal>>
  /\ UNCHANGED <<pc, HEFTorder, searches, joined, schedule>>

\* Mutant: the comparison is the wrong way round.
CompareWorst ==
  /\ pc = "comparing"
  /\ compared < Cardinality(Algorithm)
  /\ compared' = compared + 1
  /\ IF searches[compared].bestVal > bestVal
     THEN bestIdx' = compared /\ bestVal' = searches[compared].bestVal
     ELSE UNCHANGED <<bestIdx, bestVal>>
  /\ UNCHANGED <<pc, HEFTorder, searches, joined, schedule>>

Compare ==
  /\ pc = "comparing"
  /\ compared < Cardinality(Algorithm)
  /\ compared' = compared + 1
  /\ IF searches[compared].bestVal < bestVal
     THEN bestIdx' = compared /\ bestVal' = searches[compared].bestVal
     ELSE UNCHANGED <<bestIdx, bestVal>>
  /\ UNCHANGED <<pc, HEFTorder, searches, joined, schedule>>

\* Without a winner oVec[-1] is used: anything may happen, and the model ends.
IndexUndefined ==
  /\ pc = "comparing"
  /\ compared = Cardinality(Algorithm)
  /\ bestIdx = -1
  /\ pc' = "undefined"
  /\ UNCHANGED <<HEFTorder, searches, joined, chosenVars, schedule>>

Return ==
  /\ pc = "comparing"
  /\ compared = Cardinality(Algorithm)
  /\ bestIdx # -1
  /\ \E ratios \in ActualRatios(searches[bestIdx].bestPt) :
       schedule' = [isAlwaysWrittingBack |-> FALSE, order |-> HEFTorder,
                    offloadRatio |-> ratios]
  /\ pc' = "returned"
  /\ UNCHANGED <<HEFTorder, searches, joined, chosenVars>>

\* The call is over, or no evaluation will ever return.
Finished ==
  /\ \/ pc \in {"returned", "undefined"}
     \/ pc = "searching" /\ HEFTorder \notin TopoSort
  /\ UNCHANGED vars

Next ==
  \/ CallSimple
  \/ CallMeta
  \/ \E i \in Algorithm : EvalFrame(i) \/ EndTask(i)
  \/ Compare
  \/ IndexUndefined
  \/ Return
  \/ Finished

Spec == Init /\ [][Next]_vars

----------------------------------------------------------------------------
(* Vocabulary of the properties. *)

\* Everything that the searches have been told.
Evaluated == UNION {searches[i].evaluated : i \in Algorithm}

\* MetaScheduler itself has returned.
MetaReturned == pc = "returned" /\ compared > 0

\* The schedule differs from what was evaluated for pt by rounding only.
Represents(pt) ==
  \A p \in Position :
    LET difference == 10 * schedule.offloadRatio[p] - Proposed(pt)[p]
    IN  -5 <= difference /\ difference <= 5

----------------------------------------------------------------------------
(* Properties. *)

\* Whichever scheduler was called, the pool can execute what it returned: every
\* task once and after its inputs, one ratio per position, none for LOGIC_END.
\* MetaScheduler never looks at the order it was given; but it returns only an
\* order that the pool has got through, in at least one frame.
Executable ==
  pc = "returned" =>
    /\ IsSchedule(schedule.order)
    /\ schedule.offloadRatio \in [Position -> 0..100]
    /\ schedule.offloadRatio[LastPosition] = 0

\* What is returned is, up to rounding to hundredths, a schedule that was
\* evaluated, in all its ratios, and with the least value any of the searches
\* has seen in any frame.
ReturnsTheBest ==
  MetaReturned =>
    \E a \in Evaluated :
      /\ Represents(a[1])
      /\ \A b \in Evaluated : a[2] <= b[2]

\* schedule() runs into the index -1 only if no search has seen a value below
\* the one it starts from: never because tasks ended in some order.
OnlyHopelessUndefined ==
  pc = "undefined" => \A a \in Evaluated : a[2] >= InitialBest
=============================================================================
