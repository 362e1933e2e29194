------------------------ MODULE HEFTScheduler_proofs ------------------------
(***************************************************************************)
(* Theorems about HEFTScheduler for every task graph, every predicted cost *)
(* and any number of calls.                                                *)
(*                                                                         *)
(* HEFTInv is the inductive invariant: a rank exceeds the rank of every    *)
(* successor by at least the task's own share (RankInv), the sorted list   *)
(* is a permutation of the tasks (SortInv), what has been placed is a      *)
(* prefix of it (PrefixInv), and every interval on a processor ends before *)
(* the processor is available again (BusyInv, NoOverlap).  BonusInv bounds *)
(* the ranks that compete with that of vertex 0 by a sum over the tasks    *)
(* ranked so far.  RatioInv says of the list of ratios being collected     *)
(* that it follows the placement.                                          *)
(***************************************************************************)
EXTENDS HEFTScheduler, FiniteFolds

RankInv ==
  \A t \in Task : upwardRank[t] # Unranked =>
    \A s \in Succs(t) :
      upwardRank[s] # Unranked /\ upwardRank[t] >= OwnRank(t) + upwardRank[s]

\* After the sort: all ranks are known, and every task is in the list once.
SortInv ==
  /\ pc \in {"sort", "place"} => \A t \in Task : upwardRank[t] # Unranked
  /\ sorted # <<>> =>
       /\ \A t \in Task : upwardRank[t] # Unranked
       /\ IsSorted(sorted)
       /\ \A t \in Task : \E i \in DOMAIN sorted : sorted[i] = t
  /\ pc \in {"rank", "sort"} => sorted = <<>> /\ order = <<>>
  /\ pc = "place" \/ (pc = "idle" /\ calls > 0) => sorted # <<>>
  /\ pc = "idle" => Len(order) = Len(sorted)

PrefixInv ==
  /\ Len(order) <= Len(sorted)
  /\ \A i \in DOMAIN order : order[i] = sorted[i]

BusyInv ==
  \A t \in Placed :
    /\ assigned[t] \in Processor
    /\ startTime[t] <= endTime[t]
    /\ endTime[t] <= nextAvailable[assigned[t]]

HEFTInv == TypeOK /\ RankInv /\ SortInv /\ PrefixInv /\ BusyInv /\ NoOverlap

----------------------------------------------------------------------------

\* The maximum over the successors, which calculateUpwardRank accumulates, is
\* a number no successor's rank exceeds.
LEMMA SuccessorRank ==
  ASSUME TypeOK, NEW t \in Task, \A s \in Succs(t) : upwardRank[s] # Unranked
  PROVE  /\ MaxSuccessorRank(t) \in Nat
         /\ \A s \in Succs(t) : MaxSuccessorRank(t) >= upwardRank[s]
PROOF
  <1> DEFINE I == Succs(t)
             f == [s \in I |-> upwardRank[s]]
  <1>1. I \subseteq Task
    BY DEF Succs
  <1>2. IsFiniteSet(I)
    BY <1>1, HEFTAssumption, FS_Subset
  <1>3. f \in [I -> Nat]
    BY <1>1 DEF TypeOK
  <1>4. \A s \in I : f[s] = upwardRank[s]
    OBVIOUS
  <1>5. {f[s] : s \in I} = {upwardRank[s] : s \in Succs(t)}
    BY <1>4
  <1> HIDE DEF f
  <1>6. LET S == {0} \cup {f[s] : s \in I}
        IN  Max(S) \in Nat /\ \A y \in S : Max(S) >= y
    BY <1>2, <1>3, MaxWith
  <1> QED  BY <1>4, <1>5, <1>6 DEF MaxSuccessorRank

\* A task's own share of its rank is a natural number.
LEMMA OwnRankTyped ==
  ASSUME TypeOK, NEW t \in Task
  PROVE  OwnRank(t) \in Nat
  BY HEFTAssumption DEF TypeOK, OwnRank, Processor

\* The start of a task on a processor is no earlier than the processor is free
\* nor than any arrival of an input.
LEMMA StartBound ==
  ASSUME TypeOK, NEW t \in Task, NEW p \in Processor
  PROVE  /\ EarliestStart(p, t) \in Nat
         /\ EarliestStart(p, t) >= nextAvailable[p]
         /\ \A i \in DOMAIN DepSeq[t] : EarliestStart(p, t) >= Arrival(p, t, i)
         /\ FinishTime(p, t) \in Nat
         /\ FinishTime(p, t) = EarliestStart(p, t) + cost[p][t]
PROOF
  <1> DEFINE I == DOMAIN DepSeq[t]
             f == [i \in I |-> Arrival(p, t, i)]
  <1>1. DepSeq[t] \in Seq(Task) /\ XferCost[t] \in Seq(Nat) /\ Len(XferCost[t]) = Len(DepSeq[t])
    BY GraphAssumption, HEFTAssumption
  <1>2. I = 1..Len(DepSeq[t]) /\ IsFiniteSet(I)
    <2>1. I = 1..Len(DepSeq[t]) /\ Len(DepSeq[t]) \in Int
      BY <1>1
    <2> QED  BY <2>1, FS_Interval
  <1>3. f \in [I -> Nat]
    <2>1. ASSUME NEW i \in I  PROVE Arrival(p, t, i) \in Nat
      <3>1. DepSeq[t][i] \in Task /\ XferCost[t][i] \in Nat
        BY <1>1, <1>2
      <3>2. endTime[DepSeq[t][i]] \in Nat
        BY <3>1 DEF TypeOK
      <3>3. endTime[DepSeq[t][i]] + XferCost[t][i] \in Nat
        BY <3>1, <3>2
      <3> QED  BY <3>3 DEF Arrival
    <2> QED  BY <2>1
  <1>4. \A i \in I : f[i] = Arrival(p, t, i)
    OBVIOUS
  <1>5. {f[i] : i \in I} = {Arrival(p, t, i) : i \in DOMAIN DepSeq[t]}
    BY <1>4
  <1>6. nextAvailable[p] \in Nat /\ cost[p][t] \in Nat
    BY DEF TypeOK
  <1> HIDE DEF f
  <1>7. LET S == {nextAvailable[p]} \cup {f[i] : i \in I}
        IN  Max(S) \in Nat /\ \A y \in S : Max(S) >= y
    BY <1>2, <1>3, <1>6, MaxWith
  <1>8. /\ EarliestStart(p, t) \in Nat
        /\ EarliestStart(p, t) >= nextAvailable[p]
        /\ \A i \in I : EarliestStart(p, t) >= Arrival(p, t, i)
    BY <1>4, <1>5, <1>7 DEF EarliestStart
  <1> QED  BY <1>6, <1>8 DEF FinishTime

LEMMA BestTyped ==
  ASSUME NEW t
  PROVE  BestProcessor(t) \in Processor
  BY DEF BestProcessor, Processor

\* A list without repetition as long as there are tasks holds every task.
LEMMA AllListed ==
  ASSUME NEW o \in [1..Cardinality(Task) -> Task],
         \A i, j \in DOMAIN o : o[i] = o[j] => i = j
  PROVE  /\ o \in Seq(Task)
         /\ o # <<>>
         /\ \A t \in Task : \E i \in DOMAIN o : o[i] = t
PROOF
  <1> DEFINE N == Cardinality(Task)
  <1>1. IsFiniteSet(Task) /\ Task # {}
    BY HEFTAssumption
  <1>2. N \in Nat /\ N # 0
    BY <1>1, FS_CardinalityType, FS_EmptySet
  <1>3. o \in Injection(1..N, Task)
    BY DEF Injection, IsInjective
  <1>4. Cardinality(1..N) = N
    BY <1>2, FS_Interval
  <1>5. o \in Surjection(1..N, Task)
    BY <1>1, <1>3, <1>4, FS_Injection
  <1>6. \A t \in Task : \E i \in 1..N : o[i] = t
    BY <1>5 DEF Surjection
  <1> QED  BY <1>2, <1>6

----------------------------------------------------------------------------
(* The invariant holds initially and is kept. *)

LEMMA InvInit == Init => HEFTInv
PROOF
  <1> SUFFICES ASSUME Init PROVE HEFTInv
    OBVIOUS
  <1>1. TypeOK
    BY HEFTAssumption DEF Init, TypeOK, Processor, Unranked, Nowhere
  <1>2. RankInv
    BY DEF Init, RankInv
  <1>3. SortInv /\ PrefixInv
    BY DEF Init, SortInv, PrefixInv
  <1>4. BusyInv /\ NoOverlap
    BY DEF Init, BusyInv, NoOverlap, Placed
  <1> QED  BY <1>1, <1>2, <1>3, <1>4 DEF HEFTInv

\* The type invariant, action by action.
LEMMA TypeStep ==
  ASSUME HEFTInv, [Next]_vars
  PROVE  TypeOK'
PROOF
  <1> USE DEF HEFTInv
  <1>1. CASE Call
    <2>1. calls' \in 0..MaxCalls
      BY <1>1, HEFTAssumption DEF Call, TypeOK
    <2>2. cost' \in [Processor -> [Task -> Nat]]
      BY <1>1, HEFTAssumption DEF Call
    <2> QED  BY <1>1, <2>1, <2>2 DEF Call, TypeOK, Unranked, Nowhere
  <1>2. ASSUME NEW t \in Task, Rank(t)  PROVE TypeOK'
    <2>1. OwnRank(t) + MaxSuccessorRank(t) \in Nat
      BY <1>2, OwnRankTyped, SuccessorRank DEF Rank
    <2> QED  BY <1>2, <2>1 DEF Rank, TypeOK, placeVars
  <1>3. CASE Ranked
    BY <1>3 DEF Ranked, TypeOK, rankVars, placeVars
  <1>4. CASE SortTasks
    <2>1. sorted' \in Seq(Task)
      BY <1>4, AllListed DEF SortTasks, IsSorted
    <2> QED  BY <1>4, <2>1 DEF SortTasks, TypeOK, placeVars
  <1>5. CASE Place
    <2> DEFINE t == sorted[Len(order) + 1]
               p == BestProcessor(t)
    <2>1. t \in Task
      BY <1>5 DEF Place, TypeOK
    <2>2. p \in Processor
      BY BestTyped
    <2>3. FinishTime(p, t) \in Nat /\ RatioOf(p) \in {0, 1}
      BY <2>1, <2>2, StartBound DEF RatioOf
    <2>4. nextAvailable[p] \in Nat
      BY <2>2 DEF TypeOK
    <2>5. /\ assigned' = [assigned EXCEPT ![t] = p]
          /\ startTime' = [startTime EXCEPT ![t] = nextAvailable[p]]
          /\ endTime' = [endTime EXCEPT ![t] = FinishTime(p, t)]
          /\ nextAvailable' = [nextAvailable EXCEPT ![p] = FinishTime(p, t)]
          /\ order' = Append(order, t)
          /\ offloadRatio' = Append(offloadRatio, RatioOf(p))
          /\ UNCHANGED <<pc, calls, rankVars>>
      BY <1>5 DEF Place
    <2> HIDE DEF t, p
    <2>6. order' \in Seq(Task) /\ offloadRatio' \in Seq({0, 1}) /\ Len(offloadRatio') = Len(order')
      BY <2>1, <2>3, <2>5 DEF TypeOK
    <2> QED  BY <2>1, <2>2, <2>3, <2>4, <2>5, <2>6 DEF TypeOK, rankVars
  <1>6. CASE Return
    <2>1. offloadRatio' \in Seq({0, 1}) /\ Len(offloadRatio') = Len(offloadRatio)
      <3> DEFINE n == Len(offloadRatio)
      <3>1. n \in Nat /\ offloadRatio \in [1..n -> {0, 1}]
        BY DEF TypeOK
      <3>2. offloadRatio' \in [1..n -> {0, 1}]
        BY <1>6, <3>1 DEF Return
      <3> HIDE DEF n
      <3> QED  BY <3>1, <3>2
    <2> QED  BY <1>6, <2>1 DEF Return, TypeOK, rankVars
  <1>7. CASE UNCHANGED vars
    BY <1>7 DEF TypeOK, vars, rankVars, placeVars
  <1>8. CASE Finished
    BY <1>7, <1>8 DEF Finished
  <1> QED  BY <1>1, <1>2, <1>3, <1>4, <1>5, <1>6, <1>7, <1>8 DEF Next

\* The parts of the invariant that are not about Place follow from the ranks
\* being set once and the lists being reset by Call.
LEMMA RankStep ==
  ASSUME HEFTInv, [Next]_vars
  PROVE  RankInv'
PROOF
  <1> USE DEF HEFTInv
  <1>1. CASE Call
    BY <1>1 DEF Call, RankInv
  <1>2. ASSUME NEW t \in Task, Rank(t)  PROVE RankInv'
    <2>1. OwnRank(t) \in Nat /\ MaxSuccessorRank(t) \in Nat
      BY <1>2, OwnRankTyped, SuccessorRank DEF Rank
    <2>2. \A s \in Succs(t) : s \in Task /\ upwardRank[s] \in Nat /\ MaxSuccessorRank(t) >= upwardRank[s]
      BY <1>2, SuccessorRank DEF Rank, Succs, TypeOK
    <2>3. \A x \in Task : OwnRank(x)' = OwnRank(x)
      BY <1>2 DEF Rank, OwnRank
    <2>4. \A s \in Succs(t) : s # t
      BY <1>2 DEF Rank
    <2>5. upwardRank' = [upwardRank EXCEPT ![t] = OwnRank(t) + MaxSuccessorRank(t)]
      BY <1>2 DEF Rank
    <2>6. \A x \in Task : x # t => upwardRank'[x] = upwardRank[x]
      BY <2>5 DEF TypeOK
    <2>7. upwardRank'[t] = OwnRank(t) + MaxSuccessorRank(t)
      BY <2>5 DEF TypeOK
    <2>8. upwardRank[t] = Unranked
      BY <1>2 DEF Rank
    <2> SUFFICES ASSUME NEW x \in Task, upwardRank'[x] # Unranked, NEW s \in Succs(x)
                 PROVE  upwardRank'[s] # Unranked /\ upwardRank'[x] >= OwnRank(x) + upwardRank'[s]
      BY <2>3 DEF RankInv
    <2>9. s \in Task
      BY DEF Succs
    <2>10. CASE x = t
      <3>1. upwardRank'[s] = upwardRank[s] /\ upwardRank[s] \in Nat /\ MaxSuccessorRank(t) >= upwardRank[s]
        BY <2>2, <2>4, <2>6, <2>9, <2>10
      <3>2. upwardRank[s] # Unranked
        BY <3>1 DEF Unranked
      <3> QED  BY <2>1, <2>7, <2>10, <3>1, <3>2
    <2>11. CASE x # t
      <3>1. upwardRank[x] # Unranked /\ upwardRank'[x] = upwardRank[x]
        BY <2>6, <2>11
      <3>2. upwardRank[s] # Unranked /\ upwardRank[x] >= OwnRank(x) + upwardRank[s]
        BY <3>1 DEF RankInv
      <3>3. s # t
        BY <2>8, <3>2
      <3> QED  BY <2>6, <2>9, <3>1, <3>2, <3>3
    <2> QED  BY <2>10, <2>11
  <1>3. CASE UNCHANGED <<cost, upwardRank>>
    BY <1>3 DEF RankInv, OwnRank
  <1> QED  BY <1>1, <1>2, <1>3 DEF Next, Ranked, SortTasks, Place, Return, Finished,
                                   vars, rankVars

LEMMA SortStep ==
  ASSUME HEFTInv, [Next]_vars
  PROVE  SortInv'
PROOF
  <1> USE DEF HEFTInv
  <1>1. CASE Call
    BY <1>1 DEF Call, SortInv
  <1>2. ASSUME NEW t \in Task, Rank(t)  PROVE SortInv'
    BY <1>2 DEF Rank, SortInv, placeVars
  <1>3. CASE Ranked
    BY <1>3 DEF Ranked, SortInv, rankVars, placeVars
  <1>4. CASE SortTasks
    <2>1. sorted' # <<>> /\ \A t \in Task : \E i \in DOMAIN sorted' : sorted'[i] = t
      BY <1>4, AllListed DEF SortTasks, IsSorted
    <2>2. IsSorted(sorted)'
      BY <1>4 DEF SortTasks, IsSorted
    <2>3. pc = "sort" /\ pc' = "place" /\ upwardRank' = upwardRank
      BY <1>4 DEF SortTasks
    <2> QED  BY <2>1, <2>2, <2>3 DEF SortInv
  <1>5. CASE Place
    <2>1. pc = "place" /\ pc' = "place" /\ UNCHANGED rankVars
      BY <1>5 DEF Place
    <2> QED  BY <2>1 DEF SortInv, rankVars, IsSorted
  <1>6. CASE Return
    BY <1>6 DEF Return, SortInv, rankVars, IsSorted
  <1>7. CASE UNCHANGED vars
    BY <1>7 DEF vars, rankVars, placeVars, SortInv, IsSorted
  <1> QED  BY <1>1, <1>2, <1>3, <1>4, <1>5, <1>6, <1>7 DEF Next, Finished

\* What Place does, spelled out for the three parts it disturbs.
LEMMA PlaceEffect ==
  ASSUME HEFTInv, Place
  PROVE  LET t == sorted[Len(order) + 1]
             p == BestProcessor(t)
         IN  /\ t \in Task
             /\ p \in Processor
             /\ t \notin Placed
             /\ order' = Append(order, t)
             /\ Placed' = Placed \cup {t}
             /\ assigned' = [assigned EXCEPT ![t] = p]
             /\ startTime' = [startTime EXCEPT ![t] = nextAvailable[p]]
             /\ endTime' = [endTime EXCEPT ![t] = FinishTime(p, t)]
             /\ nextAvailable' = [nextAvailable EXCEPT ![p] = FinishTime(p, t)]
             /\ UNCHANGED <<pc, calls, rankVars>>
             /\ FinishTime(p, t) \in Nat
             /\ FinishTime(p, t) >= nextAvailable[p]
             /\ nextAvailable[p] \in Nat
PROOF
  <1> USE DEF HEFTInv
  <1> DEFINE t == sorted[Len(order) + 1]
             p == BestProcessor(t)
  <1>1. t \in Task /\ Len(order) + 1 \in DOMAIN sorted
    BY DEF Place, TypeOK
  <1>2. p \in Processor
    BY BestTyped
  <1>3. t \notin Placed
    <2> SUFFICES ASSUME NEW i \in DOMAIN order, order[i] = t  PROVE FALSE
      BY DEF Placed
    <2>1. i \in DOMAIN sorted /\ sorted[i] = t /\ i # Len(order) + 1
      <3>1. /\ i \in 1..Len(order) /\ Len(order) \in Nat
            /\ Len(sorted) \in Nat /\ DOMAIN sorted = 1..Len(sorted)
        BY DEF TypeOK
      <3>2. Len(order) <= Len(sorted) /\ order[i] = sorted[i]
        BY DEF PrefixInv
      <3> HIDE DEF t
      <3> QED  BY <3>1, <3>2
    <2>2. sorted # <<>>
      BY <2>1
    <2>3. \A j, k \in DOMAIN sorted : sorted[j] = sorted[k] => j = k
      BY <2>2 DEF SortInv, IsSorted
    <2> QED  BY <1>1, <2>1, <2>3
  <1>4. /\ order' = Append(order, t)
        /\ assigned' = [assigned EXCEPT ![t] = p]
        /\ startTime' = [startTime EXCEPT ![t] = nextAvailable[p]]
        /\ endTime' = [endTime EXCEPT ![t] = FinishTime(p, t)]
        /\ nextAvailable' = [nextAvailable EXCEPT ![p] = FinishTime(p, t)]
        /\ UNCHANGED <<pc, calls, rankVars>>
    BY DEF Place
  <1> HIDE DEF t, p
  <1>5. Placed' = Placed \cup {t}
    <2>1. order \in Seq(Task)
      BY DEF TypeOK
    <2>2. DOMAIN order' = DOMAIN order \cup {Len(order) + 1}
      <3>1. Len(order') = Len(order) + 1 /\ order' \in Seq(Task)
        BY <1>1, <1>4, <2>1
      <3>2. DOMAIN order = 1..Len(order) /\ DOMAIN order' = 1..(Len(order) + 1) /\ Len(order) \in Nat
        BY <2>1, <3>1
      <3> QED  BY <3>2
    <2>3. order'[Len(order) + 1] = t /\ \A i \in DOMAIN order : order'[i] = order[i]
      BY <1>4, <2>1, <1>1
    <2> QED  BY <2>2, <2>3 DEF Placed
  <1>6. nextAvailable[p] \in Nat
    BY <1>2 DEF TypeOK
  <1>7. FinishTime(p, t) \in Nat /\ FinishTime(p, t) >= nextAvailable[p]
    <2>1. cost[p][t] \in Nat
      BY <1>1, <1>2 DEF TypeOK
    <2> QED  BY <1>1, <1>2, <1>6, <2>1, StartBound
  <1> QED  BY <1>1, <1>2, <1>3, <1>4, <1>5, <1>6, <1>7 DEF t, p

LEMMA PrefixStep ==
  ASSUME HEFTInv, [Next]_vars
  PROVE  PrefixInv'
PROOF
  <1> USE DEF HEFTInv
  <1>1. CASE Call
    BY <1>1 DEF Call, PrefixInv
  <1>2. CASE SortTasks
    <2>1. order = <<>> /\ order' = order
      BY <1>2 DEF SortTasks, SortInv, placeVars
    <2>2. sorted' \in Seq(Task)
      BY <1>2, AllListed DEF SortTasks, IsSorted
    <2> QED  BY <2>1, <2>2 DEF PrefixInv
  <1>3. CASE Place
    <2> DEFINE t == sorted[Len(order) + 1]
    <2>1. order' = Append(order, t) /\ sorted' = sorted /\ Len(order) < Len(sorted)
      BY <1>3 DEF Place, rankVars
    <2> HIDE DEF t
    <2>2. order \in Seq(Task) /\ sorted \in Seq(Task) /\ t \in Task
      BY <1>3, PlaceEffect DEF TypeOK, t
    <2>3. Len(order') = Len(order) + 1 /\ \A i \in 1..Len(order') :
             order'[i] = IF i = Len(order) + 1 THEN t ELSE order[i]
      BY <2>1, <2>2
    <2>4. ASSUME NEW i \in DOMAIN order'  PROVE order'[i] = sorted[i]
      <3>1. CASE i = Len(order) + 1
        BY <2>1, <2>2, <2>3, <3>1 DEF t
      <3>2. CASE i # Len(order) + 1
        BY <2>1, <2>2, <2>3, <3>2 DEF PrefixInv
      <3> QED  BY <3>1, <3>2
    <2>5. Len(order') <= Len(sorted)
      BY <2>1, <2>2, <2>3
    <2> QED  BY <2>1, <2>4, <2>5 DEF PrefixInv
  <1>4. CASE UNCHANGED <<order, sorted>>
    BY <1>4 DEF PrefixInv
  <1> QED  BY <1>1, <1>2, <1>3, <1>4 DEF Next, Rank, Ranked, Return, Finished, vars,
                                         rankVars, placeVars

LEMMA BusyStep ==
  ASSUME HEFTInv, [Next]_vars
  PROVE  BusyInv' /\ NoOverlap'
PROOF
  <1> USE DEF HEFTInv
  <1>1. CASE Call
    <2>1. Placed' = {}
      BY <1>1 DEF Call, Placed
    <2> QED  BY <2>1 DEF BusyInv, NoOverlap
  <1>2. CASE Place
    <2> DEFINE t == sorted[Len(order) + 1]
               p == BestProcessor(t)
    <2>1. /\ t \in Task /\ p \in Processor /\ t \notin Placed
          /\ Placed' = Placed \cup {t}
          /\ assigned' = [assigned EXCEPT ![t] = p]
          /\ startTime' = [startTime EXCEPT ![t] = nextAvailable[p]]
          /\ endTime' = [endTime EXCEPT ![t] = FinishTime(p, t)]
          /\ nextAvailable' = [nextAvailable EXCEPT ![p] = FinishTime(p, t)]
          /\ FinishTime(p, t) \in Nat /\ nextAvailable[p] \in Nat
          /\ FinishTime(p, t) >= nextAvailable[p]
      BY <1>2, PlaceEffect
    <2> HIDE DEF t, p
    <2>2. Placed \subseteq Task
      BY DEF Placed, TypeOK
    <2>3. /\ assigned'[t] = p /\ startTime'[t] = nextAvailable[p]
          /\ endTime'[t] = FinishTime(p, t) /\ nextAvailable'[p] = FinishTime(p, t)
      BY <2>1 DEF TypeOK
    <2>4. \A s \in Placed : /\ s # t /\ assigned'[s] = assigned[s]
                            /\ startTime'[s] = startTime[s] /\ endTime'[s] = endTime[s]
      BY <2>1, <2>2 DEF TypeOK
    <2>5. \A q \in Processor : nextAvailable'[q] >= nextAvailable[q] /\ nextAvailable'[q] \in Nat
      BY <2>1 DEF TypeOK
    <2>6. \A s \in Placed : /\ assigned[s] \in Processor
                            /\ startTime[s] \in Nat /\ endTime[s] \in Nat
                            /\ nextAvailable[assigned[s]] \in Nat
                            /\ startTime[s] <= endTime[s]
                            /\ endTime[s] <= nextAvailable[assigned[s]]
      BY <2>2 DEF BusyInv, TypeOK
    <2>7. BusyInv'
      <3> SUFFICES ASSUME NEW s \in Placed'
                   PROVE  /\ assigned'[s] \in Processor
                          /\ startTime'[s] <= endTime'[s]
                          /\ endTime'[s] <= nextAvailable'[assigned'[s]]
        BY DEF BusyInv
      <3>1. CASE s = t
        BY <2>1, <2>3, <3>1
      <3>2. CASE s # t
        <4>1. s \in Placed
          BY <2>1, <3>2
        <4>2. nextAvailable'[assigned[s]] >= nextAvailable[assigned[s]] /\ nextAvailable'[assigned[s]] \in Nat
          BY <4>1, <2>5, <2>6
        <4> QED  BY <4>1, <4>2, <2>4, <2>6
      <3> QED  BY <3>1, <3>2
    <2>8. NoOverlap'
      <3> SUFFICES ASSUME NEW r \in Placed', NEW s \in Placed', r # s,
                          assigned'[r] = assigned'[s]
                   PROVE  endTime'[r] <= startTime'[s] \/ endTime'[s] <= startTime'[r]
        BY DEF NoOverlap
      <3>1. CASE r = t
        <4>1. s \in Placed /\ assigned[s] = p
          BY <2>1, <2>3, <2>4, <3>1
        <4> QED  BY <4>1, <2>3, <2>4, <2>6, <3>1
      <3>2. CASE s = t
        <4>1. r \in Placed /\ assigned[r] = p
          BY <2>1, <2>3, <2>4, <3>2
        <4> QED  BY <4>1, <2>3, <2>4, <2>6, <3>2
      <3>3. CASE r # t /\ s # t
        <4>1. r \in Placed /\ s \in Placed
          BY <2>1, <3>3
        <4> QED  BY <4>1, <2>4 DEF NoOverlap
      <3> QED  BY <3>1, <3>2, <3>3
    <2> QED  BY <2>7, <2>8
  <1>3. CASE UNCHANGED <<order, assigned, startTime, endTime, nextAvailable>>
    BY <1>3 DEF BusyInv, NoOverlap, Placed
  <1> QED  BY <1>1, <1>2, <1>3 DEF Next, Rank, Ranked, SortTasks, Return, Finished, vars,
                                   rankVars, placeVars

\* Every reachable state satisfies the invariant.
THEOREM HEFTInvariant == Spec => []HEFTInv
PROOF
  <1>1. HEFTInv /\ [Next]_vars => HEFTInv'
    BY TypeStep, RankStep, SortStep, PrefixStep, BusyStep DEF HEFTInv
  <1> QED  BY InvInit, <1>1, PTL DEF Spec

\* The predicted intervals on one processor do not overlap, under any costs
\* and however often the scheduler is called.
THEOREM NoOverlapAlways == Spec => []NoOverlap
PROOF
  <1>1. HEFTInv => NoOverlap
    BY DEF HEFTInv
  <1> QED  BY HEFTInvariant, <1>1, PTL

\* The types of the variables.
THEOREM HEFTTypeCorrect == Spec => []TypeOK
PROOF
  <1>1. HEFTInv => TypeOK
    BY DEF HEFTInv
  <1> QED  BY HEFTInvariant, <1>1, PTL

\* With positive costs a predecessor has the strictly larger rank.
LEMMA PredecessorRank ==
  ASSUME HEFTInv, CostsPositive, NEW t \in Task, NEW q \in Preds(t),
         upwardRank[q] # Unranked
  PROVE  /\ q \in Task
         /\ upwardRank[q] \in Nat /\ upwardRank[t] \in Nat
         /\ upwardRank[q] > upwardRank[t]
PROOF
  <1> USE DEF HEFTInv
  <1>1. q \in Task
    BY GraphAssumption DEF Preds
  <1>2. t \in Succs(q)
    BY DEF Succs
  <1>3. upwardRank[t] # Unranked /\ upwardRank[q] >= OwnRank(q) + upwardRank[t]
    BY <1>1, <1>2 DEF RankInv
  <1>4. OwnRank(q) > 0 /\ OwnRank(q) \in Nat
    BY <1>1, <1>2, OwnRankTyped DEF CostsPositive
  <1>5. upwardRank[q] \in Nat /\ upwardRank[t] \in Nat
    BY <1>1, <1>3 DEF TypeOK
  <1> QED  BY <1>1, <1>3, <1>4, <1>5

\* In the sorted list a predecessor stands before its successors.
LEMMA PredecessorBefore ==
  ASSUME HEFTInv, CostsPositive, NEW i \in DOMAIN sorted, NEW q \in Preds(sorted[i])
  PROVE  /\ \E j \in DOMAIN sorted : sorted[j] = q
         /\ \A j \in DOMAIN sorted : sorted[j] = q => j < i
PROOF
  <1> USE DEF HEFTInv
  <1>1. sorted \in Seq(Task) /\ sorted[i] \in Task /\ sorted # <<>>
    BY DEF TypeOK
  <1>2. /\ \A t \in Task : upwardRank[t] # Unranked
        /\ IsSorted(sorted)
        /\ \A t \in Task : \E j \in DOMAIN sorted : sorted[j] = t
    BY <1>1 DEF SortInv
  <1>3. q \in Task
    BY <1>1, GraphAssumption DEF Preds
  <1>4. /\ upwardRank[q] \in Nat /\ upwardRank[sorted[i]] \in Nat
        /\ upwardRank[q] > upwardRank[sorted[i]]
    BY <1>1, <1>2, <1>3, PredecessorRank
  <1>5. ASSUME NEW j \in DOMAIN sorted, sorted[j] = q  PROVE j < i
    <2>1. i \in Nat /\ j \in Nat
      BY <1>1
    <2>2. i # j
      BY <1>4, <1>5
    <2>3. ~(i < j)
      <3>1. i < j => upwardRank[sorted[i]] >= upwardRank[sorted[j]]
        BY <1>2 DEF IsSorted
      <3> QED  BY <3>1, <1>4, <1>5
    <2> QED  BY <2>1, <2>2, <2>3
  <1> QED  BY <1>2, <1>3, <1>5

\* The invariant gives the order the executor relies on.
LEMMA InvGivesOrder == HEFTInv => OrderRespectsGraph
PROOF
  <1> SUFFICES ASSUME HEFTInv, CostsPositive
               PROVE  /\ \A i \in DOMAIN order : \A q \in Preds(order[i]) :
                           \E j \in 1..(i - 1) : order[j] = q
                      /\ pc = "idle" /\ calls > 0 => IsSchedule(order)
    BY DEF OrderRespectsGraph
  <1> USE DEF HEFTInv
  <1>1. /\ order \in Seq(Task) /\ sorted \in Seq(Task)
        /\ Len(order) \in Nat /\ Len(sorted) \in Nat
        /\ DOMAIN order = 1..Len(order) /\ DOMAIN sorted = 1..Len(sorted)
    BY DEF TypeOK
  <1>2. Len(order) <= Len(sorted) /\ \A i \in DOMAIN order : order[i] = sorted[i]
    BY DEF PrefixInv
  <1>3. ASSUME NEW i \in DOMAIN order, NEW q \in Preds(order[i])
        PROVE  \E j \in 1..(i - 1) : order[j] = q
    <2>1. i \in DOMAIN sorted /\ order[i] = sorted[i]
      BY <1>1, <1>2
    <2>2. PICK j \in DOMAIN sorted : sorted[j] = q /\ j < i
      BY <1>3, <2>1, PredecessorBefore
    <2>3. j \in 1..(i - 1) /\ j \in DOMAIN order
      BY <1>1, <2>1, <2>2
    <2> QED  BY <1>2, <2>2, <2>3
  <1>4. ASSUME pc = "idle", calls > 0  PROVE IsSchedule(order)
    <2>1. sorted # <<>> /\ Len(order) = Len(sorted)
      BY <1>4 DEF SortInv
    <2>2. DOMAIN order = DOMAIN sorted
      BY <1>1, <2>1
    <2>3. IsSorted(sorted) /\ \A t \in Task : \E j \in DOMAIN sorted : sorted[j] = t
      BY <2>1 DEF SortInv
    <2>4. \A t \in Task : \E j \in DOMAIN order : order[j] = t
      BY <1>2, <2>2, <2>3
    <2>5. \A i, j \in DOMAIN order : order[i] = order[j] => i = j
      BY <1>2, <2>2, <2>3 DEF IsSorted
    <2>6. ASSUME NEW i \in DOMAIN order, NEW j \in DOMAIN order, order[j] \in Preds(order[i])
          PROVE  j < i
      <3>1. sorted[j] \in Preds(sorted[i])
        BY <1>2, <2>6
      <3> QED  BY <2>2, <3>1, PredecessorBefore
    <2> QED  BY <1>1, <2>4, <2>5, <2>6 DEF IsSchedule
  <1> QED  BY <1>3, <1>4

\* Under positive costs schedule() returns a schedule: sorting by upward rank
\* puts every task after its predecessors, however std::sort breaks ties.
THEOREM OrderRespectsGraphAlways == Spec => []OrderRespectsGraph
  BY HEFTInvariant, InvGivesOrder, PTL

----------------------------------------------------------------------------
(* The bonus of vertex 0. *)

Others == Task \ {Entry}

Shares == [t \in Task |-> OwnRank(t)]

RankedOthers == {t \in Others : upwardRank[t] # Unranked}

\* No rank of another task exceeds what all tasks ranked so far contribute to
\* ranks, since no path of theirs leads through vertex 0.
BonusInv ==
  /\ SumOver(Shares, RankedOthers) \in Nat
  /\ Preds(Entry) = {} =>
       \A t \in RankedOthers : upwardRank[t] <= SumOver(Shares, RankedOthers)
  /\ upwardRank[Entry] # Unranked => upwardRank[Entry] >= 2 * EntryRank

\* Nothing is ranked before schedule() is called.
LEMMA BonusInit == Init => BonusInv
PROOF
  <1> SUFFICES ASSUME Init PROVE BonusInv
    OBVIOUS
  <1>1. RankedOthers = {}
    BY DEF RankedOthers, Others, Init
  <1>2. SumOver(Shares, {}) = 0
    BY FS_EmptySet, SumUnfolds
  <1>3. upwardRank[Entry] = Unranked
    BY HEFTAssumption DEF Init
  <1> QED  BY <1>1, <1>2, <1>3 DEF BonusInv

\* calculateUpwardRank adds to the greatest rank of the successors, none of which
\* is vertex 0, no more than the task's own share.
LEMMA RankKeepsBonus ==
  ASSUME HEFTInv, BonusInv, NEW t \in Task, Rank(t)
  PROVE  BonusInv'
PROOF
  <1> DEFINE sum == SumOver(Shares, RankedOthers)
             m == MaxSuccessorRank(t)
  <1>1. /\ OwnRank(t) \in Nat /\ m \in Nat
        /\ m = 0 \/ \E s \in Succs(t) : m = upwardRank[s]
    <2>1. OwnRank(t) \in Nat /\ m \in Nat
      BY OwnRankTyped, SuccessorRank DEF HEFTInv, Rank
    <2>2. m \in {0} \cup {upwardRank[s] : s \in Succs(t)}
      <3> DEFINE I == Succs(t)
                 f == [s \in I |-> upwardRank[s]]
      <3>1. IsFiniteSet(I)
        BY HEFTAssumption, FS_Subset DEF Succs
      <3>2. f \in [I -> Nat]
        BY DEF Succs, Rank, HEFTInv, TypeOK
      <3>3. {f[s] : s \in I} = {upwardRank[s] : s \in Succs(t)}
        OBVIOUS
      <3> HIDE DEF f
      <3>4. LET S == {0} \cup {f[s] : s \in I}
            IN  Max(S) \in S
        BY <3>1, <3>2, MaxWith
      <3> QED  BY <3>3, <3>4 DEF MaxSuccessorRank
    <2> QED  BY <2>1, <2>2
  <1>2. /\ upwardRank' = [upwardRank EXCEPT ![t] = OwnRank(t) + m]
        /\ upwardRank[t] = Unranked
        /\ \A s \in Succs(t) : upwardRank[s] # Unranked
        /\ Shares' = Shares
    BY DEF Rank, Shares, OwnRank
  <1>3. \A u \in Task : upwardRank'[u] = IF u = t THEN OwnRank(t) + m ELSE upwardRank[u]
    BY <1>2 DEF HEFTInv, TypeOK
  <1>4. \A u \in Task : Shares[u] \in Nat /\ Shares[u] = OwnRank(u)
    BY OwnRankTyped DEF Shares, HEFTInv
  <1>5. sum \in Nat
    BY DEF BonusInv
  <1>6. OwnRank(t) + m # Unranked /\ OwnRank(t) + m \in Nat
    BY <1>1 DEF Unranked
  <1> HIDE DEF sum, m
  <1>7. CASE t = Entry
    <2>1. RankedOthers' = RankedOthers
      BY <1>3, <1>7 DEF RankedOthers, Others
    <2>2. OwnRank(t) = 2 * EntryRank /\ EntryRank \in Nat
      BY <1>7, HEFTAssumption DEF OwnRank
    <2>3. \A u \in RankedOthers : upwardRank'[u] = upwardRank[u]
      BY <1>3, <1>7 DEF RankedOthers, Others
    <2>4. upwardRank'[Entry] >= 2 * EntryRank
      BY <1>1, <1>3, <1>7, <2>2
    <2> QED  BY <1>2, <2>1, <2>3, <2>4 DEF BonusInv
  <1>8. CASE t # Entry
    <2>1. RankedOthers' = RankedOthers \cup {t}
      BY <1>2, <1>3, <1>6, <1>8 DEF RankedOthers, Others
    <2>2. t \notin RankedOthers /\ IsFiniteSet(RankedOthers) /\ RankedOthers \subseteq Task
      BY <1>2, HEFTAssumption, FS_Subset DEF RankedOthers, Others
    <2>3. SumOver(Shares, RankedOthers)' = OwnRank(t) + sum
      <3>1. \A u \in RankedOthers \cup {t} : Shares[u] \in Int
        <4>1. \A u \in RankedOthers \cup {t} : u \in Task
          BY <2>2
        <4>2. \A u \in Task : Shares[u] \in Int
          <5> SUFFICES ASSUME NEW u \in Task  PROVE Shares[u] \in Int
            OBVIOUS
          <5>1. Shares[u] \in Nat
            BY <1>4
          <5> QED  BY <5>1
        <4> QED  BY <4>1, <4>2, Zenon
      <3>2. SumOver(Shares, RankedOthers \cup {t}) = Shares[t] + SumOver(Shares, RankedOthers)
        BY <2>2, <3>1, SumAdd
      <3> QED  BY <1>2, <1>4, <2>1, <3>2 DEF sum
    <2>4. OwnRank(t) + sum \in Nat
      BY <1>1, <1>5
    <2>5. ASSUME Preds(Entry) = {}, NEW u \in RankedOthers'
          PROVE  upwardRank'[u] <= OwnRank(t) + sum
      <3>1. CASE u = t
        <4>1. m <= sum
          <5>1. CASE m = 0
            BY <1>5, <5>1
          <5>2. CASE \E s \in Succs(t) : m = upwardRank[s]
            <6>1. PICK s \in Succs(t) : m = upwardRank[s]
              BY <5>2
            <6>2. s # Entry /\ s \in Task
              BY <2>5 DEF Succs
            <6>3. s \in RankedOthers
              BY <1>2, <6>2 DEF RankedOthers, Others
            <6> QED  BY <2>5, <6>1, <6>3 DEF BonusInv, sum
          <5> QED  BY <1>1, <5>1, <5>2
        <4> QED  BY <1>1, <1>3, <1>5, <3>1, <4>1
      <3>2. CASE u # t
        <4>1. u \in RankedOthers /\ u \in Task
          BY <2>1, <2>2, <3>2
        <4>2. upwardRank'[u] = upwardRank[u] /\ upwardRank[u] <= sum
          BY <1>3, <2>5, <3>2, <4>1 DEF BonusInv, sum
        <4>3. upwardRank[u] \in Int
          BY <4>1 DEF HEFTInv, TypeOK, Unranked
        <4> QED  BY <1>1, <1>5, <4>2, <4>3
      <3> QED  BY <3>1, <3>2
    <2>6. upwardRank'[Entry] = upwardRank[Entry]
      BY <1>3, <1>8, HEFTAssumption
    <2> QED  BY <2>3, <2>4, <2>5, <2>6 DEF BonusInv
  <1> QED  BY <1>7, <1>8

\* The bound on the ranks holds at every step.
LEMMA BonusStep ==
  ASSUME HEFTInv, BonusInv, [Next]_vars
  PROVE  BonusInv'
PROOF
  <1>1. CASE Call
    <2>1. \A t \in Task : upwardRank'[t] = Unranked
      BY <1>1 DEF Call
    <2>2. RankedOthers' = {}
      BY <2>1 DEF RankedOthers, Others
    <2>3. SumOver(Shares', {}) = 0
      BY FS_EmptySet, SumUnfolds
    <2>4. upwardRank'[Entry] = Unranked
      BY <2>1, HEFTAssumption
    <2> QED  BY <2>2, <2>3, <2>4 DEF BonusInv
  <1>2. ASSUME NEW t \in Task, Rank(t)  PROVE BonusInv'
    BY <1>2, RankKeepsBonus
  <1>3. CASE UNCHANGED <<cost, upwardRank>>
    <2>1. Shares' = Shares /\ RankedOthers' = RankedOthers
      BY <1>3 DEF Shares, RankedOthers, OwnRank
    <2> QED  BY <1>3, <2>1 DEF BonusInv
  <1> QED  BY <1>1, <1>2, <1>3 DEF Next, Ranked, SortTasks, Place, Return, Finished,
                                   vars, rankVars

\* What Quick adds up is the sum over the other tasks.
LEMMA QuickIs == Quick <=> SumOver(Shares, Others) < 2 * EntryRank
PROOF
  <1> DEFINE Table(g) ==
        g = [s \in SUBSET Others |->
               IF s = {} THEN 0 ELSE OwnRank(First(s)) + g[s \ {First(s)}]]
  <1>1. Quick <=> (CHOOSE g : Table(g))[Others] < 2 * EntryRank
    BY DEF Quick, MapThenSumSet, MapThenFoldSet, First, Others
  <1>2. ASSUME NEW s \in SUBSET Others, s # {}
        PROVE  OwnRank(First(s)) = Shares[First(s)]
    <2>1. First(s) \in Task
      BY <1>2 DEF First, Others
    <2> QED  BY <2>1 DEF Shares
  <1>3. \A g : Table(g) <=> SumTable(Shares, Others, g)
    BY <1>2 DEF SumTable
  <1> HIDE DEF Table
  <1>4. (CHOOSE g : Table(g)) = (CHOOSE g : SumTable(Shares, Others, g))
    BY <1>3
  <1> QED  BY <1>1, <1>4 DEF SumOver

\* Whatever sources, ties and costs there are, vertex 0 heads every order if it
\* depends on nothing and all other tasks together are predicted to take less
\* than its bonus.
THEOREM EntryHeadsOrder == Spec => []EntryFirst
PROOF
  <1>1. HEFTInv /\ BonusInv => EntryFirst
    <2> SUFFICES ASSUME HEFTInv, BonusInv, Preds(Entry) = {}, Quick,
                        order # <<>>, order[1] # Entry
                 PROVE  FALSE
      BY DEF EntryFirst
    <2>1. /\ order \in Seq(Task) /\ 1 \in DOMAIN order /\ order[1] \in Task
          /\ sorted \in Seq(Task) /\ order[1] = sorted[1] /\ 1 \in DOMAIN sorted
      BY DEF HEFTInv, TypeOK, PrefixInv
    <2>2. /\ \A t \in Task : upwardRank[t] # Unranked
          /\ IsSorted(sorted)
          /\ \A t \in Task : \E i \in DOMAIN sorted : sorted[i] = t
      BY <2>1 DEF HEFTInv, SortInv
    <2>3. PICK i \in DOMAIN sorted : sorted[i] = Entry
      BY <2>2, HEFTAssumption
    <2>4. i \in Nat /\ 1 < i
      BY <2>1, <2>3
    <2>5. upwardRank[order[1]] >= upwardRank[Entry]
      BY <2>1, <2>2, <2>3, <2>4 DEF IsSorted
    <2>6. RankedOthers = Others /\ order[1] \in Others
      BY <2>1, <2>2 DEF RankedOthers, Others
    <2>7. /\ SumOver(Shares, Others) \in Nat
          /\ upwardRank[order[1]] <= SumOver(Shares, Others)
          /\ upwardRank[Entry] >= 2 * EntryRank
      BY <2>2, <2>6, HEFTAssumption DEF BonusInv
    <2>8. SumOver(Shares, Others) < 2 * EntryRank
      BY QuickIs
    <2>9. upwardRank[order[1]] \in Int /\ upwardRank[Entry] \in Int /\ EntryRank \in Nat
      BY <2>1, HEFTAssumption DEF HEFTInv, TypeOK, Unranked
    <2> QED  BY <2>5, <2>7, <2>8, <2>9
  <1>2. HEFTInv /\ BonusInv /\ [Next]_vars => BonusInv'
    BY BonusStep
  <1> QED  BY HEFTInvariant, BonusInit, <1>1, <1>2, PTL DEF Spec

\* Every input of a task that Place handles has been placed before.
LEMMA InputsPlaced ==
  ASSUME HEFTInv, CostsPositive, Place
  PROVE  LET t == sorted[Len(order) + 1]
         IN  \A x \in Placed \cup {t} : Preds(x) \subseteq Placed
PROOF
  <1> DEFINE n == Len(order) + 1
             t == sorted[n]
  <1>1. /\ order \in Seq(Task) /\ sorted \in Seq(Task)
        /\ Len(order) \in Nat /\ DOMAIN order = 1..Len(order)
        /\ Len(sorted) \in Nat /\ DOMAIN sorted = 1..Len(sorted)
    BY DEF HEFTInv, TypeOK
  <1>2. n \in DOMAIN sorted
    BY <1>1 DEF Place
  <1>3. \A i \in DOMAIN order : order[i] = sorted[i] /\ i \in DOMAIN sorted
    BY <1>1 DEF HEFTInv, PrefixInv
  <1>4. ASSUME NEW x \in Placed, NEW q \in Preds(x)  PROVE q \in Placed
    <2>1. PICK i \in DOMAIN order : order[i] = x
      BY DEF Placed
    <2>2. PICK j \in 1..(i - 1) : order[j] = q
      BY <2>1, <1>4, InvGivesOrder DEF OrderRespectsGraph
    <2>3. j \in DOMAIN order
      BY <1>1, <2>1, <2>2
    <2> QED  BY <2>2, <2>3 DEF Placed
  <1>5. ASSUME NEW q \in Preds(t)  PROVE q \in Placed
    <2>1. PICK j \in DOMAIN sorted : sorted[j] = q /\ j < n
      BY <1>2, <1>5, PredecessorBefore
    <2>2. j \in DOMAIN order
      BY <1>1, <2>1
    <2> QED  BY <1>3, <2>1, <2>2 DEF Placed
  <1> QED  BY <1>4, <1>5

LEMMA ArriveStep ==
  ASSUME HEFTInv, InputsArrive, [Next]_vars
  PROVE  InputsArrive'
PROOF
  <1>1. CASE Call
    <2>1. Placed' = {}
      BY <1>1 DEF Call, Placed
    <2> QED  BY <2>1 DEF InputsArrive
  <1>2. CASE Place
    <2> DEFINE t == sorted[Len(order) + 1]
               p == BestProcessor(t)
    <2>1. /\ t \in Task /\ p \in Processor /\ t \notin Placed
          /\ Placed' = Placed \cup {t}
          /\ assigned' = [assigned EXCEPT ![t] = p]
          /\ endTime' = [endTime EXCEPT ![t] = FinishTime(p, t)]
          /\ cost' = cost
      BY <1>2, PlaceEffect DEF rankVars
    <2>2. CostsPositive' <=> CostsPositive
      BY <2>1 DEF CostsPositive, OwnRank
    <2>3. CostsPositive => \A x \in Placed \cup {t} : Preds(x) \subseteq Placed
      BY <1>2, InputsPlaced
    <2> HIDE DEF t, p
    <2>4. Placed \subseteq Task /\ TypeOK
      BY DEF Placed, HEFTInv, TypeOK
    <2>5. assigned'[t] = p /\ endTime'[t] = FinishTime(p, t)
      BY <2>1, <2>4 DEF TypeOK
    <2>6. \A s \in Placed : s # t /\ assigned'[s] = assigned[s] /\ endTime'[s] = endTime[s]
      BY <2>1, <2>4 DEF TypeOK
    <2> SUFFICES ASSUME CostsPositive, NEW x \in Placed', NEW i \in DOMAIN DepSeq[x]
                 PROVE  endTime'[x] >= cost[assigned'[x]][x] + endTime'[DepSeq[x][i]]
                            + (IF assigned'[DepSeq[x][i]] = assigned'[x] THEN 0 ELSE XferCost[x][i])
      BY <2>1, <2>2 DEF InputsArrive
    <2> DEFINE q == DepSeq[x][i]
    <2>7. q \in Placed
      BY <2>1, <2>3 DEF Preds
    <2>8. CASE x = t
      <3>1. assigned[q] \in Processor /\ endTime[q] <= nextAvailable[assigned[q]]
        BY <2>7 DEF HEFTInv, BusyInv
      <3>2. /\ endTime[q] \in Nat /\ cost[p][t] \in Nat /\ nextAvailable[p] \in Nat
        BY <2>1, <2>4, <2>7 DEF TypeOK
      <3>3. /\ EarliestStart(p, t) \in Nat
            /\ EarliestStart(p, t) >= nextAvailable[p]
            /\ EarliestStart(p, t) >= Arrival(p, t, i)
            /\ FinishTime(p, t) = EarliestStart(p, t) + cost[p][t]
        BY <2>1, <2>4, <2>8, StartBound
      <3>4. /\ assigned'[q] = assigned[q] /\ endTime'[q] = endTime[q]
        BY <2>6, <2>7
      <3>5. CASE assigned[q] = p
        BY <2>5, <2>8, <3>1, <3>2, <3>3, <3>4, <3>5
      <3>6. CASE assigned[q] # p
        <4>1. Arrival(p, t, i) = endTime[q] + XferCost[t][i]
          BY <2>8, <3>6 DEF Arrival
        <4>2. XferCost[t][i] \in Nat
          <5>1. i \in DOMAIN XferCost[t] /\ XferCost[t] \in Seq(Nat)
            BY <2>1, <2>8, GraphAssumption, HEFTAssumption
          <5> QED  BY <5>1
        <4>3. endTime'[x] >= cost[p][x] + endTime[q] + XferCost[x][i]
          BY <2>5, <2>8, <3>2, <3>3, <4>1, <4>2
        <4> QED  BY <2>5, <2>8, <3>4, <3>6, <4>3
      <3> QED  BY <3>5, <3>6
    <2>9. CASE x # t
      <3>1. x \in Placed
        BY <2>1, <2>9
      <3>2. endTime[x] >= cost[assigned[x]][x] + endTime[q]
                          + (IF assigned[q] = assigned[x] THEN 0 ELSE XferCost[x][i])
        BY <3>1 DEF InputsArrive
      <3> QED  BY <2>6, <2>7, <3>1, <3>2
    <2> QED  BY <2>8, <2>9
  <1>3. CASE UNCHANGED <<cost, order, assigned, endTime>>
    BY <1>3 DEF InputsArrive, CostsPositive, OwnRank, Placed
  <1> QED  BY <1>1, <1>2, <1>3 DEF Next, Rank, Ranked, SortTasks, Return, Finished, vars,
                                   rankVars, placeVars

\* Under positive costs the predicted timeline respects the graph: no task
\* begins its work before its inputs have ended and been transferred.
THEOREM InputsArriveAlways == Spec => []InputsArrive
PROOF
  <1>1. Init => InputsArrive
    BY DEF Init, InputsArrive, Placed
  <1>2. HEFTInv /\ InputsArrive /\ [Next]_vars => InputsArrive'
    BY ArriveStep
  <1> QED  BY HEFTInvariant, <1>1, <1>2, PTL DEF Spec

\* The ratios so far are the placement so far; Return overrides the last one.
RatioInv ==
  \A i \in DOMAIN order :
    \/ offloadRatio[i] = RatioOf(assigned[order[i]])
    \/ pc = "idle" /\ i = Len(order)

LEMMA RatioStep ==
  ASSUME HEFTInv, RatioInv, [Next]_vars
  PROVE  RatioInv'
PROOF
  <1> USE DEF HEFTInv
  <1>0. /\ order \in Seq(Task) /\ offloadRatio \in Seq({0, 1})
        /\ Len(offloadRatio) = Len(order) /\ Len(order) \in Nat
        /\ DOMAIN order = 1..Len(order)
    BY DEF TypeOK
  <1>1. CASE Call
    BY <1>1 DEF Call, RatioInv
  <1>2. CASE Place
    <2> DEFINE t == sorted[Len(order) + 1]
               p == BestProcessor(t)
    <2>1. /\ t \in Task /\ p \in Processor /\ t \notin Placed
          /\ order' = Append(order, t)
          /\ assigned' = [assigned EXCEPT ![t] = p]
          /\ offloadRatio' = Append(offloadRatio, RatioOf(p))
      BY <1>2, PlaceEffect DEF Place
    <2>2. RatioOf(p) \in {0, 1}
      BY DEF RatioOf
    <2> HIDE DEF t, p
    <2>3. assigned'[t] = p /\ \A s \in Placed : assigned'[s] = assigned[s]
      BY <1>0, <2>1 DEF TypeOK, Placed
    <2>4. ASSUME NEW i \in DOMAIN order'
          PROVE  offloadRatio'[i] = RatioOf(assigned'[order'[i]])
      <3>1. CASE i = Len(order) + 1
        BY <1>0, <2>1, <2>2, <2>3, <3>1
      <3>2. CASE i # Len(order) + 1
        <4>1. i \in DOMAIN order /\ order'[i] = order[i] /\ offloadRatio'[i] = offloadRatio[i]
          BY <1>0, <2>1, <2>2, <2>4, <3>2
        <4>2. offloadRatio[i] = RatioOf(assigned[order[i]])
          BY <1>2, <4>1 DEF Place, RatioInv
        <4> QED  BY <2>3, <4>1, <4>2 DEF Placed
      <3> QED  BY <3>1, <3>2
    <2> QED  BY <2>4 DEF RatioInv, RatioOf
  <1>3. CASE Return
    <2>1. /\ order' = order /\ assigned' = assigned /\ pc' = "idle" /\ pc = "place"
          /\ offloadRatio' = [offloadRatio EXCEPT ![Len(order)] = 0]
      BY <1>3 DEF Return
    <2>2. \A i \in DOMAIN order : i # Len(order) => offloadRatio'[i] = offloadRatio[i]
      BY <1>0, <2>1
    <2> QED  BY <2>1, <2>2 DEF RatioInv, RatioOf
  <1>4. CASE UNCHANGED <<order, offloadRatio, assigned>> /\ (pc = "idle" => pc' = "idle")
    BY <1>4 DEF RatioInv, RatioOf
  <1> QED  BY <1>1, <1>2, <1>3, <1>4 DEF Next, Rank, Ranked, SortTasks, Finished, vars,
                                         rankVars, placeVars

\* Under positive costs the one ratio that is forced to the CPU belongs to a
\* task nothing depends on; all others are the placement the costs led to.
THEOREM RatiosFollowPlacementAlways == Spec => []RatiosFollowPlacement
PROOF
  <1>1. Init => RatioInv
    BY DEF Init, RatioInv
  <1>2. HEFTInv /\ RatioInv => RatiosFollowPlacement
    <2> SUFFICES ASSUME HEFTInv, RatioInv, CostsPositive, NEW i \in DOMAIN order,
                        offloadRatio[i] # RatioOf(assigned[order[i]]),
                        NEW s \in Succs(order[i])
                 PROVE  FALSE
      BY DEF RatiosFollowPlacement
    <2>1. pc = "idle" /\ i = Len(order) /\ Len(order) = Len(sorted)
      BY DEF RatioInv, HEFTInv, SortInv
    <2>2. /\ order \in Seq(Task) /\ sorted \in Seq(Task) /\ sorted # <<>>
          /\ i \in DOMAIN sorted /\ order[i] = sorted[i]
      <3>1. /\ order \in Seq(Task) /\ sorted \in Seq(Task)
            /\ order[i] = sorted[i]
        BY DEF HEFTInv, TypeOK, PrefixInv
      <3> QED  BY <2>1, <3>1
    <2>3. s \in Task /\ order[i] \in Preds(s)
      BY DEF Succs
    <2>4. PICK j \in DOMAIN sorted : sorted[j] = s
      BY <2>2, <2>3 DEF HEFTInv, SortInv
    <2>5. i < j
      BY <2>2, <2>3, <2>4, PredecessorBefore
    <2> QED  BY <2>1, <2>2, <2>4, <2>5
  <1> QED  BY HEFTInvariant, RatioStep, <1>1, <1>2, PTL DEF Spec
=============================================================================
