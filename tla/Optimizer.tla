----------------------------- MODULE Optimizer -----------------------------
(***************************************************************************)
(* The metaheuristic search over offload ratios: OptimizerBase and the     *)
(* three algorithms MetaScheduler runs (PSO, AOA and RSA), under           *)
(* include/Optimizer/implements.                                           *)
(*                                                                         *)
(* exec() evaluates a frame of points, remembers the value of every point  *)
(* it has seen, keeps the best, and lets the algorithm propose the next    *)
(* frame.  The limits are symmetric, -Limit..Limit in every dimension, as  *)
(* in MetaScheduler::schedule.  A coordinate is one of a few numbers, or   *)
(* NaN; the random numbers of the algorithms become a choice among them.   *)
(* evaluateFunc is a function of the caller's: MIMIC execution may predict *)
(* different times for the same point, so it may return any value.         *)
(***************************************************************************)
EXTENDS Integers, Sequences, FiniteSetsExt, Folds

CONSTANTS
  Kinds,        \* the algorithms: a subset of {"PSO", "AOA", "RSA"}
  PointNum,
  IterNum,
  DimNum,
  Seeds,        \* how many points of the first frame are not random (10)
  Limit,        \* upperLimits, and -lowerLimits
  Coord,        \* the coordinates that random numbers lead to
  NaN,          \* the coordinate that is not a number
  Values,       \* the values evaluateFunc may return
  MaxValue,     \* numeric_limits<vType>::max()
  NoPoint       \* a point vector that is still empty

Index == 1..PointNum
Dims == 1..DimNum
Point == [Dims -> Coord]

Seed(k) == [d \in Dims |-> -Limit + (2 * Limit * k) \div Seeds]

(***************************************************************************)
(* The constructor overwrites the first Seeds points without asking        *)
(* whether there are as many; every caller has more.                       *)
(***************************************************************************)
ASSUME SearchAssumption ==
  /\ Kinds \subseteq {"PSO", "AOA", "RSA"}
  /\ PointNum \in Nat /\ IterNum \in Nat \ {0} /\ DimNum \in Nat \ {0}
  /\ Seeds \in Nat \ {0} /\ PointNum >= Seeds
  /\ Limit \in Nat /\ Coord \subseteq -Limit..Limit /\ 0 \in Coord
  /\ \A k \in 0..(Seeds - 1) : Seed(k) \in Point
  /\ Values \subseteq Nat /\ MaxValue \in Nat
  /\ \A v \in Values : v < MaxValue
  /\ NaN \notin Coord /\ NoPoint \notin Point

VARIABLES
  kind,
  pc,            \* the step of exec() that comes next, or "done"
  ptHistory,
  valHistory,
  pt2Val,        \* the value of every point evaluated so far
  gBestPt,
  gBestVal,
  gBestPtHist,
  gBestValHist,
  pBestPts,      \* PSO only
  pBestVals,     \* PSO only
  gWorstVal      \* AOA only

memoVars == <<ptHistory, valHistory, pt2Val>>
bestVars == <<gBestPt, gBestVal, gBestPtHist, gBestValHist>>
ownVars  == <<pBestPts, pBestVals, gWorstVal>>
vars == <<kind, pc, memoVars, bestVars, ownVars>>

----------------------------------------------------------------------------
(* Helpers. *)

Frame == ptHistory[Len(ptHistory)]

FrameVals == valHistory[Len(valHistory)]

IsValid(pt) == \A d \in Dims : pt[d] # NaN

\* The points of the frame that have to be evaluated.
NewIdx == {i \in Index : Frame[i] \notin DOMAIN pt2Val}

\* convergeLogging keeps the first of several best points of a frame.
FirstBest ==
  Min({i \in Index : \A j \in Index : FrameVals[i] <= FrameVals[j]})

AbsVal(x) == IF x < 0 THEN -x ELSE x

SumOf(pt) == FoldFunction(+, 0, pt)

\* currIterIdx of AOA and RSA: the number of frames extracted.
CurrIter == Len(gBestValHist)

\* What each algorithm may propose for dimension d of the i-th point.  PSO
\* moves the point by a random velocity and clamps it to the limits.
PSOProposals(i, d) == Coord

\* Mutant: arg_Mu does not cancel the lower limit.
AOAProposalsOffCentre(i, d) == Coord

\* AOA scales the best point by (upper - lower) * arg_Mu + lower, or adds that
\* to it: arg_Mu is 0.5, so that it is 0 for symmetric limits.
AOAProposals(i, d) == {0, gBestPt[d]}

\* RSA divides by the best coordinate plus the smallest positive double.  If
\* the coordinate is 0, a quotient overflows from a dividend of 4 on, and zero
\* times infinity is NaN: Eta where the point is that far from its mean.  NaN
\* passes both clamps.  (Random numbers of exactly 0 are left out.)
RSAProposals(i, d) ==
  LET stage == IF CurrIter <= IterNum \div 4 THEN 1
               ELSE IF CurrIter <= IterNum \div 2 THEN 2
               ELSE IF CurrIter <= (3 * IterNum) \div 4 THEN 3 ELSE 4
      etaOverflows == AbsVal(DimNum * Frame[i][d] - SumOf(Frame[i])) >= 4 * DimNum
  IN
  CASE gBestPt[d] # 0 -> Coord
    [] gBestPt[d] = 0 /\ stage = 2 -> {0}
    [] gBestPt[d] = 0 /\ stage # 2 /\ etaOverflows -> {NaN}
    [] gBestPt[d] = 0 /\ stage = 3 /\ ~etaOverflows -> {0}
    [] OTHER -> Coord

Proposals(i, d) ==
  CASE kind = "PSO" -> PSOProposals(i, d)
    [] kind = "AOA" -> AOAProposals(i, d)
    [] kind = "RSA" -> RSAProposals(i, d)

----------------------------------------------------------------------------
(* exec(). *)

\* The constructors: random points behind the seeds.
Init ==
  /\ kind \in Kinds
  /\ pc = "exploitation"
  /\ \E random \in [(Seeds + 1)..PointNum -> Point] :
       ptHistory = <<[i \in Index |-> IF i <= Seeds THEN Seed(i - 1) ELSE random[i]]>>
  /\ valHistory = <<>>
  /\ pt2Val = <<>>
  /\ gBestPt = NoPoint
  /\ gBestVal = MaxValue
  /\ gBestPtHist = <<>>
  /\ gBestValHist = <<>>
  /\ pBestPts = [i \in Index |-> NoPoint]
  /\ pBestVals = [i \in Index |-> MaxValue]
  /\ gWorstVal = 0

\* Mutant: all points are evaluated, and the map is written over.
ExploitationNoMemo ==
  /\ pc = "exploitation"
  /\ \A i \in Index : IsValid(Frame[i])
  /\ \E new \in [Index -> Values] :
       /\ valHistory' = Append(valHistory, new)
       /\ pt2Val' = [p \in DOMAIN pt2Val \cup {Frame[i] : i \in Index} |->
            IF \E i \in Index : Frame[i] = p
            THEN new[Max({i \in Index : Frame[i] = p})] ELSE pt2Val[p]]
  /\ pc' = "convergeLogging"
  /\ UNCHANGED <<kind, ptHistory, bestVars, ownVars>>

\* The new points are evaluated in one call; of several equal new points the
\* last one's value is remembered.  (With a NaN among the keys ptCompare is no
\* ordering, and what the map does is undefined: the model ends there.)
Exploitation ==
  /\ pc = "exploitation"
  /\ \A i \in Index : IsValid(Frame[i])
  /\ \E new \in [NewIdx -> Values] :
       /\ valHistory' = Append(valHistory,
            [i \in Index |-> IF i \in NewIdx THEN new[i] ELSE pt2Val[Frame[i]]])
       /\ pt2Val' = [p \in DOMAIN pt2Val \cup {Frame[i] : i \in NewIdx} |->
            IF p \in DOMAIN pt2Val THEN pt2Val[p]
            ELSE new[Max({i \in NewIdx : Frame[i] = p})]]
  /\ pc' = "convergeLogging"
  /\ UNCHANGED <<kind, ptHistory, bestVars, ownVars>>

\* Mutant: the global best is replaced by the best of each frame.
ConvergeLoggingFrameBest ==
  /\ pc = "convergeLogging"
  /\ gBestVal' = FrameVals[FirstBest]
  /\ gBestPt' = Frame[FirstBest]
  /\ gBestPtHist' = Append(gBestPtHist, gBestPt')
  /\ gBestValHist' = Append(gBestValHist, gBestVal')
  /\ pc' = "extraction"
  /\ UNCHANGED <<kind, memoVars, ownVars>>

ConvergeLogging ==
  /\ pc = "convergeLogging"
  /\ IF FrameVals[FirstBest] < gBestVal
     THEN /\ gBestVal' = FrameVals[FirstBest]
          /\ gBestPt' = Frame[FirstBest]
     ELSE UNCHANGED <<gBestVal, gBestPt>>
  /\ gBestPtHist' = Append(gBestPtHist, gBestPt')
  /\ gBestValHist' = Append(gBestValHist, gBestVal')
  /\ pc' = "extraction"
  /\ UNCHANGED <<kind, memoVars, ownVars>>

\* After the last frame nothing is proposed.
AfterExtraction == IF Len(valHistory) < IterNum THEN "exploration" ELSE "done"

\* Mutant: the comparison is with the global best.
ImprovesGlobal(i) == FrameVals[i] < gBestVal

\* The i-th point of the frame is better than the i-th point ever was.
Improves(i) == FrameVals[i] < pBestVals[i]

\* PSO: the best of each point.  AOA: the worst value of all.
Extraction ==
  /\ pc = "extraction"
  /\ IF kind = "PSO"
     THEN /\ pBestVals' = [i \in Index |-> IF Improves(i) THEN FrameVals[i] ELSE pBestVals[i]]
          /\ pBestPts' = [i \in Index |-> IF Improves(i) THEN Frame[i] ELSE pBestPts[i]]
     ELSE UNCHANGED <<pBestVals, pBestPts>>
  /\ gWorstVal' = IF kind = "AOA" THEN Max({gWorstVal} \cup {FrameVals[i] : i \in Index})
                  ELSE gWorstVal
  /\ pc' = AfterExtraction
  /\ UNCHANGED <<kind, memoVars, bestVars>>

Exploration ==
  /\ pc = "exploration"
  /\ \E frame \in [Index -> [Dims -> Coord \cup {NaN}]] :
       /\ \A i \in Index, d \in Dims : frame[i][d] \in Proposals(i, d)
       /\ ptHistory' = Append(ptHistory, frame)
  /\ pc' = "exploitation"
  /\ UNCHANGED <<kind, valHistory, pt2Val, bestVars, ownVars>>

\* exec() has returned, or met a point that cannot be evaluated.
Finished ==
  /\ pc = "done" \/ (pc = "exploitation" /\ \E i \in Index : ~IsValid(Frame[i]))
  /\ UNCHANGED vars

Next ==
  \/ Exploitation
  \/ ConvergeLogging
  \/ Extraction
  \/ Exploration
  \/ Finished

Spec == Init /\ [][Next]_vars

----------------------------------------------------------------------------
(* Vocabulary of the properties. *)

\* The values of the first f frames.
ValuesUpTo(f) == UNION {{valHistory[g][i] : i \in Index} : g \in 1..f}

\* Some point of the first f frames is pt, with the value v.
Seen(f, pt, v) ==
  \E g \in 1..f, i \in Index : ptHistory[g][i] = pt /\ valHistory[g][i] = v

----------------------------------------------------------------------------
(* Properties. *)

TypeOK ==
  /\ kind \in Kinds
  /\ pc \in {"exploitation", "convergeLogging", "extraction", "exploration", "done"}
  /\ Len(ptHistory) \in 1..IterNum
  /\ \A f \in DOMAIN ptHistory : ptHistory[f] \in [Index -> [Dims -> Coord \cup {NaN}]]
  /\ Len(valHistory) <= Len(ptHistory)
  /\ \A f \in DOMAIN valHistory : valHistory[f] \in [Index -> Values]
  /\ DOMAIN pt2Val \subseteq Point
  /\ gBestPt \in Point \cup {NoPoint}
  /\ gBestVal \in Values \cup {MaxValue}
  /\ pBestPts \in [Index -> Point \cup {NoPoint}]
  /\ pBestVals \in [Index -> Values \cup {MaxValue}]
  /\ gWorstVal \in Values \cup {0}

\* The convergence histories are what the accessors say, "the best-at-a-time
\* points": entry f is the least value of the first f frames, and a point at
\* which it was obtained; the optimum returned is the last of them.
BestAtATime ==
  /\ \A f \in DOMAIN gBestValHist :
       /\ gBestValHist[f] = Min(ValuesUpTo(f))
       /\ Seen(f, gBestPtHist[f], gBestValHist[f])
  /\ gBestValHist # <<>> =>
       /\ gBestVal = gBestValHist[Len(gBestValHist)]
       /\ gBestPt = gBestPtHist[Len(gBestPtHist)]

\* PSO pulls each point towards the best place that point itself has been to.
PersonalBest ==
  kind = "PSO" /\ pc \in {"exploration", "done"} =>
    \A i \in Index :
      /\ pBestVals[i] = Min({valHistory[f][i] : f \in DOMAIN valHistory})
      /\ \E f \in DOMAIN valHistory :
           ptHistory[f][i] = pBestPts[i] /\ valHistory[f][i] = pBestVals[i]

\* With symmetric limits AOA only recombines: a coordinate that is not 0 and
\* not among those of the first frame is never tried.
AOAOnlyRecombines ==
  kind = "AOA" =>
    \A f \in DOMAIN ptHistory, i \in Index, d \in Dims :
      ptHistory[f][i][d] \in {0} \cup {ptHistory[1][j][d] : j \in Index}

\* What MetaScheduler sees of the optimizer: the frames whose values have been
\* logged, and the best of them.
Logged == Len(gBestValHist)

S == INSTANCE Search WITH
  Answers <- Point \X Values,
  search <- [evaluated |-> {<<ptHistory[f][i], valHistory[f][i]>> :
                              f \in 1..Logged, i \in Index},
             frames |-> Logged, bestPt |-> gBestPt, bestVal |-> gBestVal]

\* Each of the algorithms, memory of values and convergence logging included,
\* is a search: no frame forgets, no point changes its value between frames,
\* and the best gives way only to something better.
RefinesSearch == S!Spec
===========================================================================
