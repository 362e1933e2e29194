-------------------------- MODULE Optimizer_proofs --------------------------
(***************************************************************************)
(* Theorems about Optimizer for any number of points, frames, dimensions   *)
(* and coordinates, and an evaluation that may answer anything.            *)
(*                                                                         *)
(* OptInv adds to the types how long the histories are at each step of     *)
(* exec() (Lengths), what the memory of values and the frames have to do   *)
(* with one another (Memory), that the records of the best are right       *)
(* (Bests, Persons), and where AOA's coordinates come from (Recombined).   *)
(***************************************************************************)
EXTENDS Optimizer, FiniteFolds

AnyPoint == [Dims -> Coord \cup {NaN}]

OptTypes ==
  /\ kind \in Kinds
  /\ pc \in {"exploitation", "convergeLogging", "extraction", "exploration", "done"}
  /\ ptHistory \in Seq([Index -> AnyPoint])
  /\ valHistory \in Seq([Index -> Values])
  /\ gBestPt \in Point \cup {NoPoint}
  /\ gBestVal \in Values \cup {MaxValue}
  /\ gBestPtHist \in Seq(Point \cup {NoPoint})
  /\ gBestValHist \in Seq(Values \cup {MaxValue})
  /\ pBestPts \in [Index -> Point \cup {NoPoint}]
  /\ pBestVals \in [Index -> Values \cup {MaxValue}]
  /\ gWorstVal \in Values \cup {0}

\* How many frames have been evaluated.
Evaluated == Len(valHistory)

\* The histories grow one after the other.
Lengths ==
  /\ Len(ptHistory) = IF pc = "exploitation" THEN Evaluated + 1 ELSE Evaluated
  /\ Len(gBestValHist) = IF pc = "convergeLogging" THEN Evaluated - 1 ELSE Evaluated
  /\ Len(gBestPtHist) = Len(gBestValHist)
  /\ Len(ptHistory) \in 1..IterNum
  /\ pc = "exploration" => Evaluated < IterNum

\* A frame that has been evaluated holds points without NaN; the map remembers
\* all of them, each with a value it has been given; and a point that has been
\* in an earlier frame has a value it had there.
Memory ==
  /\ \A f \in 1..Evaluated, i \in Index : ptHistory[f][i] \in Point
  /\ \A f \in 1..Evaluated, i \in Index : ptHistory[f][i] \in DOMAIN pt2Val
  /\ \A p \in DOMAIN pt2Val : Seen(Evaluated, p, pt2Val[p])
  /\ \A f \in 1..Evaluated, i \in Index :
       (\E g \in 1..(f - 1), j \in Index : ptHistory[g][j] = ptHistory[f][i])
         => Seen(f - 1, ptHistory[f][i], valHistory[f][i])

\* v is the least value of the first f frames and was obtained at pt.
IsBest(f, pt, v) ==
  /\ Seen(f, pt, v)
  /\ \A g \in 1..f, i \in Index : v <= valHistory[g][i]

Bests ==
  /\ \A f \in 1..Logged : IsBest(f, gBestPtHist[f], gBestValHist[f])
  /\ Logged = 0 => gBestPt = NoPoint /\ gBestVal = MaxValue
  /\ Logged > 0 => gBestPt = gBestPtHist[Logged] /\ gBestVal = gBestValHist[Logged]

\* How many frames PSO's extraction has seen.
Extracted == IF pc \in {"convergeLogging", "extraction"} THEN Evaluated - 1 ELSE Evaluated

Persons ==
  kind = "PSO" =>
    \A i \in Index :
      /\ Extracted = 0 => pBestVals[i] = MaxValue
      /\ \A f \in 1..Extracted : pBestVals[i] <= valHistory[f][i]
      /\ Extracted > 0 =>
           \E f \in 1..Extracted :
             ptHistory[f][i] = pBestPts[i] /\ valHistory[f][i] = pBestVals[i]

\* The coordinates of dimension d in the first frame, and 0.
FirstCoords(d) == {0} \cup {ptHistory[1][j][d] : j \in Index}

Recombined ==
  kind = "AOA" =>
    \A f \in 1..Len(ptHistory), i \in Index, d \in Dims : ptHistory[f][i][d] \in FirstCoords(d)

OptInv == OptTypes /\ Lengths /\ Memory /\ Bests /\ Persons /\ Recombined

----------------------------------------------------------------------------
(* Helpers. *)

LEMMA Constants ==
  /\ Index = 1..PointNum /\ PointNum \in Nat \ {0} /\ 1 \in Index
  /\ IterNum \in Nat \ {0} /\ MaxValue \in Nat
  /\ \A v \in Values : v \in Nat /\ v < MaxValue
  /\ IsFiniteSet(Index) /\ Index \subseteq Nat
PROOF
  <1>1. PointNum \in Nat /\ PointNum # 0
    BY SearchAssumption
  <1>2. IsFiniteSet(1..PointNum)
    BY <1>1, FS_Interval
  <1> QED  BY <1>1, <1>2, SearchAssumption DEF Index

\* An element that none is below is the minimum.
LEMMA MinIs ==
  ASSUME NEW T \in SUBSET Nat, NEW x \in T, \A y \in T : x <= y
  PROVE  Min(T) = x
PROOF
  <1>1. Min(T) \in T /\ \A y \in T : Min(T) <= y
    BY DEF Min
  <1>2. Min(T) <= x /\ x <= Min(T) /\ x \in Nat /\ Min(T) \in Nat
    BY <1>1
  <1> QED  BY <1>2

\* The index that convergeLogging picks is that of a least value of the frame.
LEMMA FirstBestIsBest ==
  ASSUME NEW v \in [Index -> Values], FrameVals = v
  PROVE  FirstBest \in Index /\ \A j \in Index : v[FirstBest] <= v[j]
PROOF
  <1> DEFINE I == {i \in Index : \A j \in Index : v[i] <= v[j]}
  <1>1. {v[i] : i \in Index} \in SUBSET Nat /\ {v[i] : i \in Index} # {}
    BY Constants
  <1>2. PICK x \in {v[i] : i \in Index} : \A y \in {v[i] : i \in Index} : x <= y
    BY <1>1, LeastElement
  <1>3. I # {} /\ I \in SUBSET Nat
    <2>1. PICK i \in Index : v[i] = x
      BY <1>2
    <2>2. \A j \in Index : v[i] <= v[j]
      BY <1>2, <2>1
    <2>3. i \in I
      BY <2>2
    <2> QED  BY <2>3, Constants
  <1>4. FirstBest = Min(I)
    BY DEF FirstBest
  <1> HIDE DEF I
  <1>5. PICK m \in I : \A y \in I : m <= y
    BY <1>3, LeastElement
  <1>6. Min(I) = m
    BY <1>3, <1>5, MinIs
  <1> QED  BY <1>4, <1>5, <1>6 DEF I

\* The values of the frames are natural numbers below the initial best.
LEMMA ValuesTyped ==
  ASSUME OptTypes, NEW f \in 1..Evaluated
  PROVE  /\ valHistory[f] \in [Index -> Values]
         /\ \A i \in Index :
              valHistory[f][i] \in Values /\ valHistory[f][i] \in Nat /\ valHistory[f][i] < MaxValue
PROOF
  <1>1. valHistory[f] \in [Index -> Values]
    BY DEF OptTypes, Evaluated
  <1>2. \A i \in Index : valHistory[f][i] \in Values
    BY <1>1
  <1> QED  BY <1>1, <1>2, Constants

\* What has been seen stays so when the histories grow.
LEMMA SeenStays ==
  ASSUME NEW f \in Nat, NEW g \in Nat, f <= g,
         \A k \in 1..f : ptHistory'[k] = ptHistory[k] /\ valHistory'[k] = valHistory[k],
         NEW p, NEW v
  PROVE  Seen(f, p, v) => Seen(g, p, v)'
  BY DEF Seen

----------------------------------------------------------------------------
(* The initial state. *)

LEMMA OptInit == Init => OptInv
PROOF
  <1> SUFFICES ASSUME Init PROVE OptInv
    OBVIOUS
  <1>1. PICK frame \in [Index -> AnyPoint] : ptHistory = <<frame>>
    <2>1. PICK random \in [(Seeds + 1)..PointNum -> Point] :
            ptHistory = <<[i \in Index |-> IF i <= Seeds THEN Seed(i - 1) ELSE random[i]]>>
      BY DEF Init
    <2>2. \A i \in Index : i <= Seeds => i - 1 \in 0..(Seeds - 1)
      BY SearchAssumption DEF Index
    <2>3. \A i \in Index : ~(i <= Seeds) => i \in (Seeds + 1)..PointNum
      BY SearchAssumption DEF Index
    <2>4. \A i \in Index : (IF i <= Seeds THEN Seed(i - 1) ELSE random[i]) \in Point
      BY <2>1, <2>2, <2>3, SearchAssumption
    <2>5. Point \subseteq AnyPoint
      BY DEF Point, AnyPoint
    <2> QED  BY <2>1, <2>4, <2>5
  <1>2. OptTypes
    BY <1>1, Constants DEF Init, OptTypes
  <1>3. Lengths
    BY <1>1, Constants DEF Init, Lengths, Evaluated
  <1>4. Memory
    BY DEF Init, Memory, Evaluated
  <1>5. Bests /\ Persons
    BY DEF Init, Bests, Persons, Logged, Extracted, Evaluated
  <1>6. Recombined
    BY <1>1 DEF Recombined, FirstCoords
  <1> QED  BY <1>2, <1>3, <1>4, <1>5, <1>6 DEF OptInv

----------------------------------------------------------------------------
(* exploitation(). *)

\* A frame of values is appended: new ones for points that the map does not
\* hold, the remembered ones for the others.
LEMMA Evaluation ==
  ASSUME OptInv, Exploitation
  PROVE  \E new \in [NewIdx -> Values], vals \in [Index -> Values] :
           /\ vals = [i \in Index |-> IF i \in NewIdx THEN new[i] ELSE pt2Val[Frame[i]]]
           /\ valHistory' = Append(valHistory, vals)
           /\ pt2Val' = [p \in DOMAIN pt2Val \cup {Frame[i] : i \in NewIdx} |->
                IF p \in DOMAIN pt2Val THEN pt2Val[p]
                ELSE new[Max({i \in NewIdx : Frame[i] = p})]]
PROOF
  <1>1. PICK new \in [NewIdx -> Values] :
          /\ valHistory' = Append(valHistory,
                [i \in Index |-> IF i \in NewIdx THEN new[i] ELSE pt2Val[Frame[i]]])
          /\ pt2Val' = [p \in DOMAIN pt2Val \cup {Frame[i] : i \in NewIdx} |->
                IF p \in DOMAIN pt2Val THEN pt2Val[p]
                ELSE new[Max({i \in NewIdx : Frame[i] = p})]]
    BY DEF Exploitation
  <1>2. \A p \in DOMAIN pt2Val : pt2Val[p] \in Values
    <2>1. \A f \in 1..Evaluated, i \in Index : valHistory[f][i] \in Values
      BY DEF OptInv, OptTypes, Evaluated
    <2>2. ASSUME NEW p \in DOMAIN pt2Val  PROVE pt2Val[p] \in Values
      <3>1. Seen(Evaluated, p, pt2Val[p])
        BY DEF OptInv, Memory
      <3>2. PICK g \in 1..Evaluated, i \in Index : valHistory[g][i] = pt2Val[p]
        BY <3>1 DEF Seen
      <3> QED  BY <2>1, <3>2
    <2> QED  BY <2>2
  <1>3. \A i \in Index : i \notin NewIdx => Frame[i] \in DOMAIN pt2Val
    BY DEF NewIdx
  <1>4. [i \in Index |-> IF i \in NewIdx THEN new[i] ELSE pt2Val[Frame[i]]] \in [Index -> Values]
    BY <1>2, <1>3
  <1> QED  BY <1>1, <1>4

LEMMA ExploitationStep == OptInv /\ Exploitation => OptInv'
PROOF
  <1> SUFFICES ASSUME OptInv, Exploitation PROVE OptInv'
    OBVIOUS
  <1>1. PICK new \in [NewIdx -> Values], vals \in [Index -> Values] :
           /\ vals = [i \in Index |-> IF i \in NewIdx THEN new[i] ELSE pt2Val[Frame[i]]]
           /\ valHistory' = Append(valHistory, vals)
           /\ pt2Val' = [p \in DOMAIN pt2Val \cup {Frame[i] : i \in NewIdx} |->
                IF p \in DOMAIN pt2Val THEN pt2Val[p]
                ELSE new[Max({i \in NewIdx : Frame[i] = p})]]
    BY Evaluation
  <1>2. /\ pc = "exploitation" /\ pc' = "convergeLogging" /\ kind' = kind /\ ptHistory' = ptHistory
        /\ UNCHANGED <<bestVars, ownVars>>
        /\ \A i \in Index : IsValid(Frame[i])
    BY DEF Exploitation
  <1>3. PICK k \in Nat \ {0} : k = Len(ptHistory) /\ Len(valHistory) = k - 1
    BY <1>2 DEF OptInv, OptTypes, Lengths, Evaluated
  <1>4. Frame = ptHistory[k] /\ Frame \in [Index -> AnyPoint]
    BY <1>3 DEF Frame, OptInv, OptTypes
  <1>5. Len(valHistory') = k /\ valHistory'[k] = vals /\ \A f \in 1..(k - 1) : valHistory'[f] = valHistory[f]
    BY <1>1, <1>3 DEF OptInv, OptTypes
  <1>6. OptTypes'
    BY <1>1, <1>2 DEF OptInv, OptTypes, bestVars, ownVars
  <1>7. Lengths'
    BY <1>2, <1>3, <1>5 DEF OptInv, Lengths, Evaluated, bestVars
  <1>8. Memory'
    <2>1. \A i \in Index : ptHistory[k][i] \in Point
      BY <1>2, <1>4 DEF IsValid, AnyPoint, Point
    <2>2. \A f \in 1..k, i \in Index : ptHistory[f][i] \in Point
      BY <1>3, <2>1 DEF OptInv, Memory, Evaluated
    <2>3. \A f \in 1..k, i \in Index : ptHistory[f][i] \in DOMAIN pt2Val'
      <3>1. \A i \in Index : ptHistory[k][i] \in DOMAIN pt2Val'
        BY <1>1, <1>4 DEF NewIdx
      <3>2. DOMAIN pt2Val \subseteq DOMAIN pt2Val'
        BY <1>1
      <3> QED  BY <1>3, <3>1, <3>2 DEF OptInv, Memory, Evaluated
    <2>4. ASSUME NEW p, NEW v, Seen(k - 1, p, v)  PROVE Seen(k, p, v)' /\ Seen(k - 1, p, v)'
      BY <1>2, <1>5, <2>4 DEF Seen
    <2>5. ASSUME NEW p \in DOMAIN pt2Val'  PROVE Seen(k, p, pt2Val[p])'
      <3>1. CASE p \in DOMAIN pt2Val
        <4>1. pt2Val'[p] = pt2Val[p] /\ Seen(k - 1, p, pt2Val[p])
          BY <1>1, <1>3, <3>1 DEF OptInv, Memory, Evaluated
        <4> QED  BY <1>2, <1>5, <4>1 DEF Seen
      <3>2. CASE p \notin DOMAIN pt2Val
        <4> DEFINE I == {i \in NewIdx : Frame[i] = p}
        <4>1. I # {} /\ I \in SUBSET Nat /\ IsFiniteSet(I)
          <5>1. I \subseteq Index /\ I # {}
            BY <1>1, <3>2 DEF NewIdx
          <5> QED  BY <5>1, Constants, FS_Subset
        <4>2. pt2Val'[p] = new[Max(I)]
          BY <1>1, <3>2
        <4> HIDE DEF I
        <4>3. Max(I) \in I
          BY <4>1, MaxIsGreatest
        <4>4. Max(I) \in NewIdx /\ Max(I) \in Index /\ Frame[Max(I)] = p
          BY <4>3 DEF I, NewIdx
        <4>5. vals[Max(I)] = new[Max(I)]
          BY <1>1, <4>4
        <4> QED  BY <1>2, <1>4, <1>5, <4>2, <4>4, <4>5 DEF Seen
      <3> QED  BY <3>1, <3>2
    <2>6. ASSUME NEW f \in 1..k, NEW i \in Index,
                 NEW g \in 1..(f - 1), NEW j \in Index, ptHistory[g][j] = ptHistory[f][i]
          PROVE  Seen(f - 1, ptHistory[f][i], valHistory[f][i])'
      <3>1. CASE f = k
        <4>1. Frame[i] \in DOMAIN pt2Val
          BY <1>3, <1>4, <2>6, <3>1 DEF OptInv, Memory, Evaluated
        <4>2. vals[i] = pt2Val[Frame[i]]
          BY <1>1, <4>1 DEF NewIdx
        <4>3. Seen(k - 1, Frame[i], vals[i])
          BY <1>3, <4>1, <4>2 DEF OptInv, Memory, Evaluated
        <4> QED  BY <1>2, <1>4, <1>5, <3>1, <4>3 DEF Seen
      <3>2. CASE f # k
        <4>1. f \in 1..(k - 1) /\ valHistory'[f] = valHistory[f]
          BY <1>5, <3>2
        <4>2. Seen(f - 1, ptHistory[f][i], valHistory[f][i])
          BY <1>3, <2>6, <4>1 DEF OptInv, Memory, Evaluated
        <4> QED  BY <1>2, <1>5, <4>1, <4>2 DEF Seen
      <3> QED  BY <3>1, <3>2
    <2> QED  BY <1>2, <1>5, <2>2, <2>3, <2>5, <2>6 DEF Memory, Evaluated
  <1>9. Bests'
    <2>1. Logged = k - 1 /\ Logged' = Logged
      BY <1>2, <1>3 DEF Logged, OptInv, Lengths, Evaluated, bestVars
    <2>2. ASSUME NEW f \in 1..(k - 1)  PROVE IsBest(f, gBestPtHist[f], gBestValHist[f])'
      <3>1. IsBest(f, gBestPtHist[f], gBestValHist[f])
        BY <2>1 DEF OptInv, Bests
      <3> QED  BY <1>2, <1>5, <3>1 DEF IsBest, Seen, bestVars
    <2> QED  BY <1>2, <2>1, <2>2 DEF OptInv, Bests, bestVars
  <1>10. Persons'
    <2>1. Extracted = k - 1 /\ Extracted' = k - 1
      BY <1>2, <1>3, <1>5 DEF Extracted, Evaluated
    <2> QED  BY <1>2, <1>5, <2>1 DEF OptInv, Persons, ownVars
  <1>11. Recombined'
    BY <1>2 DEF OptInv, Recombined, FirstCoords
  <1> QED  BY <1>6, <1>7, <1>8, <1>9, <1>10, <1>11 DEF OptInv

----------------------------------------------------------------------------
(* convergeLogging(). *)

\* The frame that is logged, and the best index in it.
LEMMA LoggedFrame ==
  ASSUME OptInv, pc = "convergeLogging"
  PROVE  \E k \in Nat \ {0}, b \in Index :
           /\ k = Evaluated /\ k = Len(ptHistory) /\ Logged = k - 1 /\ k \in 1..IterNum
           /\ Frame = ptHistory[k] /\ FrameVals = valHistory[k]
           /\ valHistory[k] \in [Index -> Values]
           /\ b = FirstBest /\ \A j \in Index : valHistory[k][b] <= valHistory[k][j]
PROOF
  <1>1. PICK k \in Nat \ {0} :
          k = Evaluated /\ k = Len(ptHistory) /\ Logged = k - 1 /\ k \in 1..IterNum
    BY Constants DEF OptInv, OptTypes, Lengths, Evaluated, Logged
  <1>2. Frame = ptHistory[k] /\ FrameVals = valHistory[k] /\ valHistory[k] \in [Index -> Values]
    <2>1. Frame = ptHistory[k] /\ FrameVals = valHistory[k]
      BY <1>1 DEF Frame, FrameVals, Evaluated
    <2> QED  BY <1>1, <2>1, ValuesTyped DEF OptInv
  <1>3. FirstBest \in Index /\ \A j \in Index : valHistory[k][FirstBest] <= valHistory[k][j]
    BY <1>2, FirstBestIsBest
  <1> QED  BY <1>1, <1>2, <1>3

LEMMA ConvergeLoggingStep == OptInv /\ ConvergeLogging => OptInv'
PROOF
  <1> SUFFICES ASSUME OptInv, ConvergeLogging PROVE OptInv'
    OBVIOUS
  <1>1. PICK k \in Nat \ {0}, b \in Index :
           /\ k = Evaluated /\ k = Len(ptHistory) /\ Logged = k - 1 /\ k \in 1..IterNum
           /\ Frame = ptHistory[k] /\ FrameVals = valHistory[k]
           /\ valHistory[k] \in [Index -> Values]
           /\ b = FirstBest /\ \A j \in Index : valHistory[k][b] <= valHistory[k][j]
    BY LoggedFrame DEF ConvergeLogging
  <1>2. /\ pc = "convergeLogging" /\ pc' = "extraction" /\ kind' = kind
        /\ UNCHANGED <<ptHistory, valHistory, pt2Val, pBestPts, pBestVals, gWorstVal>>
        /\ gBestPtHist' = Append(gBestPtHist, gBestPt')
        /\ gBestValHist' = Append(gBestValHist, gBestVal')
    BY DEF ConvergeLogging, memoVars, ownVars
  <1>3. \/ /\ valHistory[k][b] < gBestVal
           /\ gBestVal' = valHistory[k][b] /\ gBestPt' = ptHistory[k][b]
        \/ ~(valHistory[k][b] < gBestVal) /\ gBestVal' = gBestVal /\ gBestPt' = gBestPt
    BY <1>1 DEF ConvergeLogging
  <1>4. valHistory[k][b] \in Values /\ ptHistory[k][b] \in Point
    BY <1>1 DEF OptInv, Memory
  <1>5. OptTypes'
    BY <1>2, <1>3, <1>4 DEF OptInv, OptTypes
  <1>6. Len(gBestPtHist) = k - 1 /\ Len(gBestValHist) = k - 1
    BY <1>1 DEF OptInv, Lengths, Logged
  <1>7. /\ Len(gBestValHist') = k /\ Len(gBestPtHist') = k
        /\ gBestValHist'[k] = gBestVal' /\ gBestPtHist'[k] = gBestPt'
        /\ \A f \in 1..(k - 1) :
             gBestValHist'[f] = gBestValHist[f] /\ gBestPtHist'[f] = gBestPtHist[f]
    BY <1>2, <1>6 DEF OptInv, OptTypes
  <1>8. Lengths'
    BY <1>1, <1>2, <1>7 DEF OptInv, Lengths, Evaluated
  <1>9. Memory'
    BY <1>2 DEF OptInv, Memory, Evaluated, Seen
  <1>10. IsBest(k, gBestPt', gBestVal')
    <2>1. gBestVal \in Nat /\ valHistory[k][b] \in Nat
      BY <1>4, Constants DEF OptInv, OptTypes
    <2>2. \A g \in 1..k, i \in Index : valHistory[g][i] \in Nat
      BY <1>1, ValuesTyped DEF OptInv
    <2>3. CASE k = 1
      <3>1. gBestVal = MaxValue
        BY <1>1, <2>3 DEF OptInv, Bests
      <3>2. gBestVal' = valHistory[k][b] /\ gBestPt' = ptHistory[k][b]
        BY <1>3, <1>4, <3>1, Constants
      <3> QED  BY <1>1, <2>3, <3>2 DEF IsBest, Seen
    <2>4. CASE k # 1
      <3>1. IsBest(k - 1, gBestPt, gBestVal)
        BY <1>1, <2>4 DEF OptInv, Bests
      <3>2. \A g \in 1..(k - 1), i \in Index : gBestVal <= valHistory[g][i]
        BY <3>1 DEF IsBest
      <3>3. CASE valHistory[k][b] < gBestVal
        <4>1. gBestVal' = valHistory[k][b] /\ gBestPt' = ptHistory[k][b]
          BY <1>3, <3>3
        <4>2. \A g \in 1..k, i \in Index : valHistory[k][b] <= valHistory[g][i]
          BY <1>1, <2>1, <2>2, <3>2, <3>3
        <4>3. Seen(k, ptHistory[k][b], valHistory[k][b])
          BY DEF Seen
        <4> QED  BY <4>1, <4>2, <4>3 DEF IsBest
      <3>4. CASE ~(valHistory[k][b] < gBestVal)
        <4>1. gBestVal' = gBestVal /\ gBestPt' = gBestPt
          BY <1>3, <3>4
        <4>2. \A g \in 1..k, i \in Index : gBestVal <= valHistory[g][i]
          BY <1>1, <2>1, <2>2, <3>2, <3>4
        <4>3. Seen(k, gBestPt, gBestVal)
          BY <3>1 DEF IsBest, Seen
        <4> QED  BY <4>1, <4>2, <4>3 DEF IsBest
      <3> QED  BY <3>3, <3>4
    <2> QED  BY <2>3, <2>4
  <1>11. Bests'
    <2>1. ASSUME NEW f \in 1..(k - 1)  PROVE IsBest(f, gBestPtHist[f], gBestValHist[f])'
      <3>1. IsBest(f, gBestPtHist[f], gBestValHist[f])
        BY <1>1 DEF OptInv, Bests
      <3> QED  BY <1>2, <1>7, <3>1 DEF IsBest, Seen
    <2>2. IsBest(k, gBestPtHist[k], gBestValHist[k])'
      BY <1>2, <1>7, <1>10 DEF IsBest, Seen
    <2> QED  BY <1>7, <2>1, <2>2 DEF Bests, Logged
  <1>12. Persons'
    BY <1>2 DEF OptInv, Persons, Extracted, Evaluated
  <1>13. Recombined'
    BY <1>2 DEF OptInv, Recombined, FirstCoords
  <1> QED  BY <1>5, <1>8, <1>9, <1>11, <1>12, <1>13 DEF OptInv

----------------------------------------------------------------------------
(* extraction(). *)

LEMMA ExtractionStep == OptInv /\ Extraction => OptInv'
PROOF
  <1> SUFFICES ASSUME OptInv, Extraction PROVE OptInv'
    OBVIOUS
  <1>1. PICK k \in Nat \ {0} :
          k = Evaluated /\ k = Len(ptHistory) /\ Logged = k /\ k \in 1..IterNum
    BY Constants DEF Extraction, OptInv, OptTypes, Lengths, Evaluated, Logged
  <1>2. /\ Frame = ptHistory[k] /\ FrameVals = valHistory[k] /\ valHistory[k] \in [Index -> Values]
        /\ \A i \in Index : ptHistory[k][i] \in Point
    <2>1. Frame = ptHistory[k] /\ FrameVals = valHistory[k]
      BY <1>1 DEF Frame, FrameVals, Evaluated
    <2>2. \A i \in Index : ptHistory[k][i] \in Point
      BY <1>1 DEF OptInv, Memory
    <2> QED  BY <1>1, <2>1, <2>2, ValuesTyped DEF OptInv
  <1>3. /\ pc = "extraction" /\ kind' = kind
        /\ UNCHANGED <<ptHistory, valHistory, pt2Val, gBestPt, gBestVal, gBestPtHist, gBestValHist>>
        /\ pc' = IF k < IterNum THEN "exploration" ELSE "done"
    BY <1>1 DEF Extraction, memoVars, bestVars, AfterExtraction, Evaluated
  <1>4. gWorstVal' \in Values \cup {0}
    <2> DEFINE W == {gWorstVal} \cup {FrameVals[i] : i \in Index}
    <2>1. gWorstVal \in Nat /\ FrameVals \in [Index -> Nat]
      <3>1. gWorstVal \in Values \cup {0}
        BY DEF OptInv, OptTypes
      <3>2. Values \subseteq Nat
        BY Constants
      <3>3. FrameVals \in [Index -> Values]
        BY <1>2
      <3>4. gWorstVal \in Nat
        BY <3>1, <3>2
      <3>5. FrameVals \in [Index -> Nat]
        <4> \A i \in Index : FrameVals[i] \in Nat
          BY <3>2, <3>3
        <4> QED  BY <3>3
      <3> QED  BY <3>4, <3>5
    <2>2. Max(W) \in W
      BY <2>1, Constants, MaxWith
    <2>3. W \subseteq Values \cup {0}
      BY <1>2 DEF OptInv, OptTypes
    <2> HIDE DEF W
    <2>4. gWorstVal' = IF kind = "AOA" THEN Max(W) ELSE gWorstVal
      BY DEF Extraction, W
    <2> QED  BY <2>2, <2>3, <2>4 DEF OptInv, OptTypes
  <1>5. pBestPts' \in [Index -> Point \cup {NoPoint}] /\ pBestVals' \in [Index -> Values \cup {MaxValue}]
    BY <1>2 DEF Extraction, OptInv, OptTypes
  <1>6. OptTypes'
    BY <1>3, <1>4, <1>5 DEF OptInv, OptTypes
  <1>7. Lengths'
    BY <1>1, <1>3 DEF OptInv, Lengths, Evaluated
  <1>8. Memory' /\ Bests' /\ Recombined'
    BY <1>3 DEF OptInv, Memory, Evaluated, Seen, Bests, IsBest, Logged, Recombined, FirstCoords
  <1>9. Persons'
    <2> SUFFICES ASSUME kind = "PSO", NEW i \in Index
                 PROVE  /\ \A f \in 1..k : pBestVals'[i] <= valHistory[f][i]
                        /\ \E f \in 1..k :
                             ptHistory[f][i] = pBestPts'[i] /\ valHistory[f][i] = pBestVals'[i]
      BY <1>1, <1>3 DEF Persons, Extracted, Evaluated
    <2>1. /\ k = 1 => pBestVals[i] = MaxValue
          /\ \A f \in 1..(k - 1) : pBestVals[i] <= valHistory[f][i]
          /\ k > 1 => \E f \in 1..(k - 1) :
                        ptHistory[f][i] = pBestPts[i] /\ valHistory[f][i] = pBestVals[i]
      BY <1>1, <1>3 DEF OptInv, Persons, Extracted
    <2>2. \A f \in 1..k : valHistory[f][i] \in Nat /\ valHistory[f][i] < MaxValue
      BY <1>1, ValuesTyped DEF OptInv
    <2>3. pBestVals[i] \in Nat
      BY Constants DEF OptInv, OptTypes
    <2>4. CASE valHistory[k][i] < pBestVals[i]
      <3>1. pBestVals'[i] = valHistory[k][i] /\ pBestPts'[i] = ptHistory[k][i]
        BY <1>2, <2>4 DEF Extraction, Improves
      <3>2. \A f \in 1..k : valHistory[k][i] <= valHistory[f][i]
        BY <2>1, <2>2, <2>3, <2>4
      <3> QED  BY <3>1, <3>2
    <2>5. CASE ~(valHistory[k][i] < pBestVals[i])
      <3>1. pBestVals'[i] = pBestVals[i] /\ pBestPts'[i] = pBestPts[i]
        BY <1>2, <2>5 DEF Extraction, Improves
      <3>2. k > 1
        BY <2>1, <2>2, <2>5, Constants
      <3>3. \A f \in 1..k : pBestVals[i] <= valHistory[f][i]
        BY <2>1, <2>2, <2>3, <2>5
      <3> QED  BY <2>1, <3>1, <3>2, <3>3
    <2> QED  BY <2>4, <2>5
  <1> QED  BY <1>6, <1>7, <1>8, <1>9 DEF OptInv

----------------------------------------------------------------------------
(* exploration(). *)

LEMMA ExplorationStep == OptInv /\ Exploration => OptInv'
PROOF
  <1> SUFFICES ASSUME OptInv, Exploration PROVE OptInv'
    OBVIOUS
  <1>1. PICK frame \in [Index -> AnyPoint] :
          /\ \A i \in Index, d \in Dims : frame[i][d] \in Proposals(i, d)
          /\ ptHistory' = Append(ptHistory, frame)
    BY DEF Exploration, AnyPoint
  <1>2. /\ pc = "exploration" /\ pc' = "exploitation" /\ kind' = kind
        /\ UNCHANGED <<valHistory, pt2Val, bestVars, ownVars>>
    BY DEF Exploration
  <1>3. PICK k \in Nat \ {0} :
          k = Evaluated /\ k = Len(ptHistory) /\ Logged = k /\ k < IterNum
    BY <1>2 DEF OptInv, OptTypes, Lengths, Evaluated, Logged
  <1>4. /\ Len(ptHistory') = k + 1 /\ ptHistory'[k + 1] = frame
        /\ \A f \in 1..k : ptHistory'[f] = ptHistory[f]
    BY <1>1, <1>3 DEF OptInv, OptTypes
  <1>5. OptTypes'
    BY <1>1, <1>2 DEF OptInv, OptTypes, bestVars, ownVars
  <1>6. Lengths'
    BY <1>2, <1>3, <1>4, Constants DEF OptInv, Lengths, Evaluated, bestVars
  <1>7. Memory'
    <2>1. \A f \in 1..k, i \in Index :
            /\ ptHistory'[f][i] = ptHistory[f][i] /\ ptHistory[f][i] \in Point
            /\ ptHistory[f][i] \in DOMAIN pt2Val
      BY <1>3, <1>4 DEF OptInv, Memory
    <2>2. \A p \in DOMAIN pt2Val : Seen(k, p, pt2Val[p])'
      BY <1>2, <1>3, <1>4 DEF OptInv, Memory, Seen
    <2>3. ASSUME NEW f \in 1..k, NEW i \in Index,
                 NEW g \in 1..(f - 1), NEW j \in Index, ptHistory'[g][j] = ptHistory'[f][i]
          PROVE  Seen(f - 1, ptHistory[f][i], valHistory[f][i])'
      <3>1. ptHistory[g][j] = ptHistory[f][i] /\ ptHistory'[f][i] = ptHistory[f][i]
        BY <1>4, <2>3
      <3>2. Seen(f - 1, ptHistory[f][i], valHistory[f][i])
        BY <1>3, <3>1 DEF OptInv, Memory
      <3> QED  BY <1>2, <1>4, <3>1, <3>2 DEF Seen
    <2> QED  BY <1>2, <1>3, <2>1, <2>2, <2>3 DEF Memory, Evaluated
  <1>8. Bests'
    <2>1. \A f \in 1..k : IsBest(f, gBestPtHist[f], gBestValHist[f])'
      BY <1>2, <1>3, <1>4 DEF OptInv, Bests, IsBest, Seen, bestVars
    <2> QED  BY <1>2, <1>3, <2>1 DEF OptInv, Bests, Logged, bestVars
  <1>9. Persons'
    BY <1>2, <1>3, <1>4 DEF OptInv, Persons, Extracted, Evaluated, ownVars
  <1>10. Recombined'
    <2> SUFFICES ASSUME kind = "AOA", NEW f \in 1..(k + 1), NEW i \in Index, NEW d \in Dims
                 PROVE  ptHistory'[f][i][d] \in FirstCoords(d)'
      BY <1>2, <1>4 DEF Recombined
    <2>1. FirstCoords(d)' = FirstCoords(d)
      BY <1>4 DEF FirstCoords
    <2>2. CASE f # k + 1
      BY <1>3, <1>4, <2>1, <2>2 DEF OptInv, Recombined
    <2>3. CASE f = k + 1
      <3>1. frame[i][d] \in {0, gBestPt[d]}
        BY <1>1 DEF Proposals, AOAProposals
      <3>2. Seen(k, gBestPt, gBestVal)
        BY <1>3 DEF OptInv, Bests, IsBest
      <3>3. gBestPt[d] \in FirstCoords(d)
        BY <1>3, <3>2 DEF OptInv, Recombined, Seen
      <3>4. 0 \in FirstCoords(d)
        BY DEF FirstCoords
      <3> QED  BY <1>4, <2>1, <2>3, <3>1, <3>3, <3>4
    <2> QED  BY <2>2, <2>3
  <1> QED  BY <1>5, <1>6, <1>7, <1>8, <1>9, <1>10 DEF OptInv

LEMMA OptStutter == OptInv /\ UNCHANGED vars => OptInv'
PROOF
  <1> SUFFICES ASSUME OptInv, UNCHANGED vars PROVE OptInv'
    OBVIOUS
  <1>1. /\ kind' = kind /\ pc' = pc /\ ptHistory' = ptHistory /\ valHistory' = valHistory
        /\ pt2Val' = pt2Val /\ gBestPt' = gBestPt /\ gBestVal' = gBestVal
        /\ gBestPtHist' = gBestPtHist /\ gBestValHist' = gBestValHist
        /\ pBestPts' = pBestPts /\ pBestVals' = pBestVals /\ gWorstVal' = gWorstVal
    BY DEF vars, memoVars, bestVars, ownVars
  <1>2. OptTypes' /\ Lengths'
    BY <1>1 DEF OptInv, OptTypes, Lengths, Evaluated
  <1>3. Memory'
    <2>1. ptHistory' = ptHistory /\ valHistory' = valHistory /\ pt2Val' = pt2Val
      BY <1>1
    <2>2. Memory
      BY DEF OptInv
    <2> QED  BY <2>1, <2>2 DEF Memory, Evaluated, Seen
  <1>4. Bests'
    BY <1>1 DEF OptInv, Bests, IsBest, Seen, Logged
  <1>5. Persons' /\ Recombined'
    BY <1>1 DEF OptInv, Persons, Extracted, Evaluated, Recombined, FirstCoords
  <1> QED  BY <1>2, <1>3, <1>4, <1>5 DEF OptInv

----------------------------------------------------------------------------
(* The theorems. *)

\* In every reachable state the histories, the map, and the records of the
\* best belong together as OptInv says.
THEOREM OptInvariant == Spec => []OptInv
PROOF
  <1>1. OptInv /\ [Next]_vars => OptInv'
    <2> SUFFICES ASSUME OptInv, [Next]_vars PROVE OptInv'
      OBVIOUS
    <2>1. CASE Exploitation
      BY <2>1, ExploitationStep
    <2>2. CASE ConvergeLogging
      BY <2>2, ConvergeLoggingStep
    <2>3. CASE Extraction
      BY <2>3, ExtractionStep
    <2>4. CASE Exploration
      BY <2>4, ExplorationStep
    <2>5. CASE Finished
      BY <2>5, OptStutter DEF Finished
    <2>6. CASE UNCHANGED vars
      BY <2>6, OptStutter
    <2> QED  BY <2>1, <2>2, <2>3, <2>4, <2>5, <2>6 DEF Next
  <1> QED  BY <1>1, OptInit, PTL DEF Spec

\* However many frames are evaluated and whatever the evaluation answers, entry
\* f of the convergence histories is the least value of the first f frames and
\* a point that had it, and the optimum is the last entry (convergeLogging).
THEOREM BestAtATimeAlways == Spec => []BestAtATime
PROOF
  <1>1. OptInv => BestAtATime
    <2> SUFFICES ASSUME OptInv PROVE BestAtATime
      OBVIOUS
    <2>1. PICK n \in Nat : n = Logged /\ n <= Evaluated /\ DOMAIN gBestValHist = 1..n
      BY DEF OptInv, OptTypes, Lengths, Evaluated, Logged
    <2>2. ASSUME NEW f \in 1..n
          PROVE  gBestValHist[f] = Min(ValuesUpTo(f)) /\ Seen(f, gBestPtHist[f], gBestValHist[f])
      <3>1. IsBest(f, gBestPtHist[f], gBestValHist[f])
        BY <2>1 DEF OptInv, Bests
      <3>2. Seen(f, gBestPtHist[f], gBestValHist[f])
        BY <3>1 DEF IsBest
      <3>3. \A g \in 1..f, i \in Index : valHistory[g][i] \in Nat
        BY <2>1, ValuesTyped DEF OptInv, Evaluated, OptTypes
      <3>4. ValuesUpTo(f) \in SUBSET Nat
        BY <3>3 DEF ValuesUpTo
      <3>5. gBestValHist[f] \in ValuesUpTo(f)
        BY <3>2 DEF Seen, ValuesUpTo
      <3>6. \A y \in ValuesUpTo(f) : gBestValHist[f] <= y
        BY <3>1 DEF IsBest, ValuesUpTo
      <3>7. Min(ValuesUpTo(f)) = gBestValHist[f]
        BY <3>4, <3>5, <3>6, MinIs
      <3> QED  BY <3>2, <3>7
    <2>3. ASSUME gBestValHist # <<>>
          PROVE  /\ gBestVal = gBestValHist[Len(gBestValHist)]
                 /\ gBestPt = gBestPtHist[Len(gBestPtHist)]
      <3>1. Logged > 0 /\ Len(gBestPtHist) = Logged
        BY <2>3 DEF OptInv, OptTypes, Lengths, Logged
      <3> QED  BY <3>1 DEF OptInv, Bests, Logged
    <2> QED  BY <2>1, <2>2, <2>3 DEF BestAtATime
  <1> QED  BY <1>1, OptInvariant, PTL

\* When PSO proposes the next frame, what it holds for each point is the least
\* value that point has had and a place where it had it (PSO's extraction).
THEOREM PersonalBestAlways == Spec => []PersonalBest
PROOF
  <1>1. OptInv => PersonalBest
    <2> SUFFICES ASSUME OptInv, kind = "PSO", pc \in {"exploration", "done"}, NEW i \in Index
                 PROVE  /\ pBestVals[i] = Min({valHistory[f][i] : f \in DOMAIN valHistory})
                        /\ \E f \in DOMAIN valHistory :
                             ptHistory[f][i] = pBestPts[i] /\ valHistory[f][i] = pBestVals[i]
      BY DEF PersonalBest
    <2>1. PICK k \in Nat \ {0} : k = Evaluated /\ Extracted = k /\ DOMAIN valHistory = 1..k
      <3>1. Evaluated \in Nat \ {0} /\ DOMAIN valHistory = 1..Evaluated
        BY DEF OptInv, OptTypes, Lengths, Evaluated
      <3> QED  BY <3>1 DEF Extracted
    <2>2. /\ \A f \in 1..k : pBestVals[i] <= valHistory[f][i]
          /\ \E f \in 1..k : ptHistory[f][i] = pBestPts[i] /\ valHistory[f][i] = pBestVals[i]
      BY <2>1 DEF OptInv, Persons
    <2> DEFINE V == {valHistory[f][i] : f \in DOMAIN valHistory}
    <2>3. V \in SUBSET Nat
      BY <2>1, ValuesTyped DEF OptInv
    <2>4. pBestVals[i] \in V /\ \A y \in V : pBestVals[i] <= y
      BY <2>1, <2>2
    <2> HIDE DEF V
    <2>5. Min(V) = pBestVals[i]
      BY <2>3, <2>4, MinIs
    <2> QED  BY <2>1, <2>2, <2>5 DEF V
  <1> QED  BY <1>1, OptInvariant, PTL

\* For any number of frames AOA tries no coordinate but 0 and those that the
\* first frame has in the same dimension (AOA's exploration, arg_Mu = 0.5).
THEOREM AOAOnlyRecombinesAlways == Spec => []AOAOnlyRecombines
PROOF
  <1>1. OptInv => AOAOnlyRecombines
    <2>1. OptInv => DOMAIN ptHistory = 1..Len(ptHistory)
      BY DEF OptInv, OptTypes
    <2> QED  BY <2>1 DEF OptInv, Recombined, FirstCoords, AOAOnlyRecombines
  <1> QED  BY <1>1, OptInvariant, PTL

----------------------------------------------------------------------------
(* The refinement. *)

\* The answers of the frames logged so far, as RefinesSearch maps them.
AnswersUpTo(n) == {<<ptHistory[f][i], valHistory[f][i]>> : f \in 1..n, i \in Index}

\* The answers of frame k.
FrameAnswers(k) == {<<ptHistory[k][i], valHistory[k][i]>> : i \in Index}

\* A frame has at least one answer and no more than it has points.
LEMMA FrameAnswersSize ==
  ASSUME NEW k
  PROVE  /\ FrameAnswers(k) # {} /\ IsFiniteSet(FrameAnswers(k))
         /\ Cardinality(FrameAnswers(k)) <= PointNum
PROOF
  <1> DEFINE f == [i \in Index |-> <<ptHistory[k][i], valHistory[k][i]>>]
  <1>1. f \in Surjection(Index, FrameAnswers(k))
    BY DEF FrameAnswers, Surjection
  <1>2. Cardinality(Index) = PointNum
    <2>1. Cardinality(1..PointNum) = PointNum
      BY Constants, FS_Interval
    <2> QED  BY <2>1 DEF Index
  <1>3. IsFiniteSet(FrameAnswers(k)) /\ Cardinality(FrameAnswers(k)) <= Cardinality(Index)
    BY <1>1, Constants, FS_Surjection
  <1> QED  BY <1>2, <1>3, Constants DEF FrameAnswers

\* What RefinesSearch maps the optimizer's state to.
Abstract ==
  [evaluated |-> {<<ptHistory[f][i], valHistory[f][i]>> : f \in 1..Logged, i \in Index},
   frames |-> Logged, bestPt |-> gBestPt, bestVal |-> gBestVal]

\* The logging of a frame is a step of the abstract search.
LEMMA LoggingSearches == OptInv /\ ConvergeLogging => Abstract' \in S!Successors
PROOF
  <1> SUFFICES ASSUME OptInv, ConvergeLogging PROVE Abstract' \in S!Successors
    OBVIOUS
  <1>1. PICK k \in Nat \ {0}, b \in Index :
           /\ k = Evaluated /\ k = Len(ptHistory) /\ Logged = k - 1 /\ k \in 1..IterNum
           /\ Frame = ptHistory[k] /\ FrameVals = valHistory[k]
           /\ valHistory[k] \in [Index -> Values]
           /\ b = FirstBest /\ \A j \in Index : valHistory[k][b] <= valHistory[k][j]
    BY LoggedFrame DEF ConvergeLogging
  <1>2. /\ ptHistory' = ptHistory /\ valHistory' = valHistory
        /\ \/ /\ valHistory[k][b] < gBestVal
              /\ gBestVal' = valHistory[k][b] /\ gBestPt' = ptHistory[k][b]
           \/ ~(valHistory[k][b] < gBestVal) /\ gBestVal' = gBestVal /\ gBestPt' = gBestPt
    BY <1>1 DEF ConvergeLogging, memoVars
  <1>3. Logged' = k
    BY <1>1 DEF ConvergeLogging, OptInv, OptTypes, Logged
  <1> DEFINE new == FrameAnswers(k)
             least == {a \in new : \A c \in new : a[2] <= c[2]}
  <1>4. new \in SUBSET (Point \X Values)
    BY <1>1 DEF FrameAnswers, OptInv, Memory
  <1>5. Abstract = [evaluated |-> AnswersUpTo(k - 1), frames |-> k - 1,
                    bestPt |-> gBestPt, bestVal |-> gBestVal]
    BY <1>1 DEF Abstract, AnswersUpTo
  <1>6. Abstract' = [evaluated |-> AnswersUpTo(k), frames |-> k,
                     bestPt |-> gBestPt', bestVal |-> gBestVal']
    BY <1>2, <1>3 DEF Abstract, AnswersUpTo
  <1>7. AnswersUpTo(k) = AnswersUpTo(k - 1) \cup new
    <2>1. \A f : f \in 1..k <=> (f \in 1..(k - 1) \/ f = k)
      OBVIOUS
    <2> QED  BY <2>1 DEF AnswersUpTo, FrameAnswers
  <1>8. \A a \in new : (\E c \in AnswersUpTo(k - 1) : c[1] = a[1]) => a \in AnswersUpTo(k - 1)
    <2> SUFFICES ASSUME NEW i \in Index, NEW g \in 1..(k - 1), NEW j \in Index,
                        ptHistory[g][j] = ptHistory[k][i]
                 PROVE  <<ptHistory[k][i], valHistory[k][i]>> \in AnswersUpTo(k - 1)
      BY DEF FrameAnswers, AnswersUpTo
    <2>1. Seen(k - 1, ptHistory[k][i], valHistory[k][i])
      BY <1>1 DEF OptInv, Memory
    <2> QED  BY <2>1 DEF Seen, AnswersUpTo
  <1>9. S!IsFrame(new)
    <2>1. new # {} /\ Cardinality(new) <= PointNum
      BY FrameAnswersSize
    <2> HIDE DEF new
    <2>2. S!Cardinality(new) = Cardinality(new)
      BY DEF S!Cardinality, Cardinality
    <2>3. {<<ptHistory[f][i], valHistory[f][i]>> : f \in 1..Logged, i \in Index} = AnswersUpTo(k - 1)
      BY <1>1 DEF AnswersUpTo
    <2> QED  BY <1>8, <2>1, <2>2, <2>3 DEF S!IsFrame
  <1>10. <<gBestPt', gBestVal'>> \in S!Bests(new)
    <2>1. <<ptHistory[k][b], valHistory[k][b]>> \in least
      BY <1>1 DEF FrameAnswers
    <2>2. \A a \in least : a[2] = valHistory[k][b]
      <3>1. \A j \in Index : valHistory[k][j] \in Nat
        BY <1>1, Constants
      <3> SUFFICES ASSUME NEW i \in Index, <<ptHistory[k][i], valHistory[k][i]>> \in least
                   PROVE  valHistory[k][i] = valHistory[k][b]
        BY DEF FrameAnswers
      <3>2. valHistory[k][i] <= valHistory[k][b]
        <4>1. \A c \in new : <<ptHistory[k][i], valHistory[k][i]>>[2] <= c[2]
          OBVIOUS
        <4>2. <<ptHistory[k][b], valHistory[k][b]>> \in new
          BY DEF FrameAnswers
        <4> HIDE DEF new
        <4>3. <<ptHistory[k][i], valHistory[k][i]>>[2] <= <<ptHistory[k][b], valHistory[k][b]>>[2]
          BY <4>1, <4>2
        <4> QED  BY <4>3
      <3> QED  BY <1>1, <3>1, <3>2
    <2> HIDE DEF least
    <2>3. S!Bests(new) = IF \E a \in least : a[2] < gBestVal THEN least ELSE {<<gBestPt, gBestVal>>}
      BY DEF S!Bests, least
    <2> QED  BY <1>2, <2>1, <2>2, <2>3
  <1>11. Abstract' \in {[evaluated |-> AnswersUpTo(k - 1) \cup new, frames |-> (k - 1) + 1,
                         bestPt |-> a[1], bestVal |-> a[2]] : a \in S!Bests(new)}
    <2>1. Abstract' = [evaluated |-> AnswersUpTo(k - 1) \cup new, frames |-> (k - 1) + 1,
                       bestPt |-> <<gBestPt', gBestVal'>>[1], bestVal |-> <<gBestPt', gBestVal'>>[2]]
      BY <1>6, <1>7
    <2> HIDE DEF new
    <2> QED  BY <1>10, <2>1
  <1> HIDE DEF new
  <1>12. S!Successors = UNION {
           {[evaluated |-> AnswersUpTo(k - 1) \cup n, frames |-> (k - 1) + 1,
             bestPt |-> a[1], bestVal |-> a[2]] : a \in S!Bests(n)} :
           n \in {m \in SUBSET (Point \X Values) : S!IsFrame(m)}}
    BY <1>1, <1>5 DEF S!Successors, AnswersUpTo
  <1> QED  BY <1>4, <1>9, <1>11, <1>12

\* PSO, AOA and RSA implement the search that MetaScheduler is specified with,
\* for any number of points, frames and dimensions: no frame forgets, no point
\* changes its value, and the best gives way only to something better (exec).
THEOREM RefinesSearchTheorem == Spec => RefinesSearch
PROOF
  <1>1. Init => Abstract = S!Fresh
    <2>1. Init => Logged = 0 /\ gBestPt = NoPoint /\ gBestVal = MaxValue
      BY DEF Init, Logged
    <2>2. \A n : n = 0 => 1..n = {}
      OBVIOUS
    <2>3. Init => {<<ptHistory[f][i], valHistory[f][i]>> : f \in 1..Logged, i \in Index} = {}
      BY <2>1, <2>2
    <2> QED  BY <2>1, <2>3 DEF Abstract, S!Fresh
  <1>2. OptInv /\ [Next]_vars => [Abstract' \in S!Successors]_Abstract
    <2> SUFFICES ASSUME OptInv, [Next]_vars PROVE Abstract' \in S!Successors \/ Abstract' = Abstract
      OBVIOUS
    <2>1. CASE ConvergeLogging
      BY <2>1, LoggingSearches
    <2>2. CASE Exploitation
      <3>1. /\ gBestPt' = gBestPt /\ gBestVal' = gBestVal /\ Logged' = Logged
            /\ ptHistory' = ptHistory
        BY <2>2 DEF Exploitation, bestVars, Logged
      <3>2. \A f \in 1..Logged : valHistory'[f] = valHistory[f]
        BY <2>2, Evaluation DEF Exploitation, OptInv, OptTypes, Lengths, Evaluated, Logged
      <3>3. {<<ptHistory[f][i], valHistory[f][i]>> : f \in 1..Logged, i \in Index}'
              = {<<ptHistory[f][i], valHistory[f][i]>> : f \in 1..Logged, i \in Index}
        BY <3>1, <3>2
      <3> QED  BY <3>1, <3>3 DEF Abstract
    <2>3. CASE Exploration
      <3>1. /\ gBestPt' = gBestPt /\ gBestVal' = gBestVal /\ Logged' = Logged
        BY <2>3 DEF Exploration, bestVars, Logged
      <3>2. \A f \in 1..Logged : ptHistory'[f] = ptHistory[f] /\ valHistory'[f] = valHistory[f]
        BY <2>3 DEF Exploration, OptInv, OptTypes, Lengths, Evaluated, Logged
      <3>3. {<<ptHistory[f][i], valHistory[f][i]>> : f \in 1..Logged, i \in Index}'
              = {<<ptHistory[f][i], valHistory[f][i]>> : f \in 1..Logged, i \in Index}
        BY <3>1, <3>2
      <3> QED  BY <3>1, <3>3 DEF Abstract
    <2>4. CASE Extraction
      BY <2>4 DEF Extraction, memoVars, bestVars, Abstract, Logged
    <2>5. CASE UNCHANGED vars
      BY <2>5 DEF vars, memoVars, bestVars, Abstract, Logged
    <2> QED  BY <2>1, <2>2, <2>3, <2>4, <2>5 DEF Next, Finished
  <1> QED  BY <1>1, <1>2, OptInvariant, PTL DEF Spec, RefinesSearch, S!Spec, Abstract
=============================================================================
