-------------------------- MODULE Operators_proofs --------------------------
(***************************************************************************)
(* Theorems about OperatorManager for any number of managers, however many *)
(* live at the same time, and all graphs; about Kernels, for all arrays,   *)
(* parameters and numbers of DPUs, of tasklets and of pages; and about the *)
(* ChronoTrigger each operator is probed with, for all readings, sizes and *)
(* numbers of jobs.                                                        *)
(*                                                                         *)
(* ManagerInv adds to the types what the static flags mean as long as      *)
(* behaviour is defined (Flags): the sets that are out are those of the    *)
(* living managers that have one, isAllocated says whether there is one,   *)
(* and a set that is out has not been freed.                               *)
(*                                                                         *)
(* KernelInv says where the operands are in MRAM (Sources), which chunks a *)
(* tasklet handles and that the results of those it has passed are what    *)
(* execCPU computes (Shares), what EUDIST has left (Distances), and what   *)
(* the test has gathered (Outcome).                                        *)
(*                                                                         *)
(* ChronoInv says that each report holds the statistics of what has been   *)
(* measured for its name (ReportsInv), that the calls still to come look   *)
(* only at what has been measured by then (ScriptInv), and that so few     *)
(* readings are still to come that Unit can be divided by their number     *)
(* (Room).  FreshInv adds, of the jobs of operators and pools, that what   *)
(* has been measured of a name is what the current job has measured.       *)
(***************************************************************************)
EXTENDS OperatorManager, Kernels, ChronoTrigger, FiniteFolds

ManagerTypes ==
  /\ life \in [Manager -> {"unborn", "alive", "gone"}]
  /\ isAllocated \in BOOLEAN /\ isFreed \in BOOLEAN /\ defined \in BOOLEAN
  /\ hasSet \subseteq Manager /\ driver \subseteq Manager
  /\ \A m \in hasSet : life[m] # "unborn"
  /\ opMap \in [Manager -> [allOPSet -> Nat]]
  /\ trained \in [Manager -> Graphs \cup {None}]

Flags ==
  defined =>
    /\ driver = {m \in hasSet : life[m] = "alive"}
    /\ \A m, n \in driver : m = n
    /\ isAllocated <=> driver # {}
    /\ driver # {} => ~isFreed
    /\ driver = {} => isFreed \/ Alive = {}
    /\ overlapped = {} => Alive \subseteq driver

\* A graph that has been trained is covered, whether its manager lives or not.
Covered(m) ==
  trained[m] # None =>
    LET g == trained[m] IN
    \A i \in DOMAIN g :
      /\ opMap[m][g[i].op] >= NearestPageBlkCnt(g[i].inputSize_MiB)
      /\ \A x \in xferOPSet : opMap[m][x] = opMap[m][g[i].op]

ManagerInv == ManagerTypes /\ Flags /\ \A m \in Manager : Covered(m)

----------------------------------------------------------------------------
(* Page blocks. *)

\* What is divided by the same, in whole numbers, keeps its order.
LEMMA DivMonotone ==
  ASSUME NEW p \in Nat \ {0}, NEW x \in Nat, NEW y \in Nat, x <= y
  PROVE  x \div p \in Nat /\ x \div p <= y \div p
PROOF
  <1> DEFINE q == x \div p
             r == y \div p
  <1>1. q \in Int /\ x = p * q + (x % p) /\ 0 <= x % p /\ x % p < p /\ x % p \in Int
    OBVIOUS
  <1>2. r \in Int /\ y = p * r + (y % p) /\ 0 <= y % p /\ y % p < p /\ y % p \in Int
    OBVIOUS
  <1> HIDE DEF q, r
  <1>3. q >= 0
    <2>1. q < 0 => p * q <= -p
      BY <1>1
    <2> QED  BY <1>1, <2>1
  <1>4. q <= r
    <2>1. q >= r + 1 => p * q >= p * (r + 1)
      BY <1>1, <1>2
    <2>2. p * (r + 1) = p * r + p
      BY <1>2
    <2> QED  BY <1>1, <1>2, <2>1, <2>2
  <1> QED  BY <1>1, <1>3, <1>4 DEF q, r

\* Larger inputs need no fewer page blocks.
LEMMA BlocksMonotone ==
  ASSUME NEW a \in Nat, NEW b \in Nat, a <= b
  PROVE  NearestPageBlkCnt(a) \in Nat /\ NearestPageBlkCnt(a) <= NearestPageBlkCnt(b)
PROOF
  <1>1. PerBlock \in Nat \ {0}
    BY ManagerAssumption
  <1>2. /\ a * 256 + PerBlock - 1 \in Nat /\ b * 256 + PerBlock - 1 \in Nat
        /\ a * 256 + PerBlock - 1 <= b * 256 + PerBlock - 1
    BY <1>1
  <1> QED  BY <1>1, <1>2, DivMonotone DEF NearestPageBlkCnt

\* The regression task of a graph holds, for each operator, an input at least as
\* large as any of the operator's tasks.
LEMMA RegressionLargest ==
  ASSUME NEW g \in Graphs
  PROVE  /\ IsFiniteSet(OpsOf(g)) /\ OpsOf(g) \subseteq allOPSet
         /\ RegressionTask(g) \in [OpsOf(g) -> Nat]
         /\ \A i \in DOMAIN g : g[i].inputSize_MiB \in Nat /\ g[i].inputSize_MiB <= RegressionTask(g)[g[i].op]
PROOF
  <1>1. g \in Seq([op : allOPSet, inputSize_MiB : Nat])
    BY ManagerAssumption
  <1>2. \A i \in DOMAIN g : g[i].op \in allOPSet /\ g[i].inputSize_MiB \in Nat
    <2> DEFINE TaskRecord == [op : allOPSet, inputSize_MiB : Nat]
    <2>1. \A r \in TaskRecord : r.op \in allOPSet /\ r.inputSize_MiB \in Nat
      OBVIOUS
    <2>2. g \in Seq(TaskRecord)
      BY <1>1
    <2> HIDE DEF TaskRecord
    <2>3. \A i \in DOMAIN g : g[i] \in TaskRecord
      BY <2>2
    <2> QED  BY <2>1, <2>3
  <1>3. IsFiniteSet(DOMAIN g)
    <2>1. DOMAIN g = 1..Len(g) /\ Len(g) \in Int
      BY <1>1
    <2> QED  BY <2>1, FS_Interval
  <1>4. IsFiniteSet(OpsOf(g)) /\ OpsOf(g) \subseteq allOPSet
    <2> DEFINE f == [i \in DOMAIN g |-> g[i].op]
    <2>1. DOMAIN f = DOMAIN g /\ OpsOf(g) = {f[i] : i \in DOMAIN g}
      BY DEF OpsOf
    <2> HIDE DEF f
    <2> QED  BY <1>2, <1>3, <2>1, FiniteImage DEF OpsOf
  <1>5. ASSUME NEW o \in OpsOf(g)
        PROVE  /\ RegressionTask(g)[o] \in Nat
               /\ \A i \in DOMAIN g : g[i].op = o => g[i].inputSize_MiB <= RegressionTask(g)[o]
    <2> DEFINE I == {j \in DOMAIN g : g[j].op = o}
               f == [i \in I |-> g[i].inputSize_MiB]
               Sizes == {g[i].inputSize_MiB : i \in {j \in DOMAIN g : g[j].op = o}}
    <2>1. IsFiniteSet(I)
      BY <1>3, FS_Subset
    <2>2. Sizes = {f[i] : i \in I} /\ DOMAIN f = I
      OBVIOUS
    <2>3. IsFiniteSet(Sizes)
      <3> HIDE DEF f, Sizes, I
      <3> QED  BY <2>1, <2>2, FiniteImage
    <2>4. Sizes \in SUBSET Nat /\ Sizes # {}
      BY <1>2, <1>5 DEF OpsOf
    <2>5. \A i \in DOMAIN g : g[i].op = o => g[i].inputSize_MiB \in Sizes
      OBVIOUS
    <2>6. RegressionTask(g)[o] = Max(Sizes)
      BY <1>5 DEF RegressionTask
    <2> HIDE DEF Sizes
    <2>7. Max(Sizes) \in Sizes /\ \A y \in Sizes : Max(Sizes) >= y
      BY <2>3, <2>4, MaxIsGreatest
    <2>8. Max(Sizes) \in Nat /\ \A y \in Sizes : y \in Nat /\ y <= Max(Sizes)
      BY <2>4, <2>7
    <2> QED  BY <2>5, <2>6, <2>8
  <1>6. RegressionTask(g) \in [OpsOf(g) -> Nat]
    BY <1>5 DEF RegressionTask
  <1>7. \A i \in DOMAIN g : g[i].op \in OpsOf(g)
    BY DEF OpsOf
  <1> QED  BY <1>2, <1>4, <1>5, <1>6, <1>7

\* The bound of a regression task covers each task of the graph.
LEMMA MaxBlkLargest ==
  ASSUME NEW g \in Graphs
  PROVE  /\ MaxBlk(RegressionTask(g)) \in Nat
         /\ \A i \in DOMAIN g :
              NearestPageBlkCnt(g[i].inputSize_MiB) <= MaxBlk(RegressionTask(g))
PROOF
  <1> DEFINE f == [o \in OpsOf(g) |-> NearestPageBlkCnt(RegressionTask(g)[o])]
             Blks == {0} \cup {f[o] : o \in OpsOf(g)}
  <1>1. \A o \in OpsOf(g) : RegressionTask(g)[o] \in Nat
    BY RegressionLargest
  <1>2. f \in [OpsOf(g) -> Nat]
    BY <1>1, BlocksMonotone
  <1>3. MaxBlk(RegressionTask(g)) = Max(Blks)
    BY RegressionLargest DEF MaxBlk, RegressionTask
  <1>4. Max(Blks) \in Nat /\ \A y \in Blks : Max(Blks) >= y
    <2> HIDE DEF f
    <2> QED  BY <1>2, RegressionLargest, MaxWith
  <1>5. \A o \in OpsOf(g) : f[o] \in Nat /\ f[o] <= Max(Blks)
    BY <1>2, <1>4
  <1> HIDE DEF Blks
  <1>6. ASSUME NEW i \in DOMAIN g
        PROVE  NearestPageBlkCnt(g[i].inputSize_MiB) <= Max(Blks)
    <2>1. g[i].op \in OpsOf(g)
      BY DEF OpsOf
    <2>2. /\ NearestPageBlkCnt(g[i].inputSize_MiB) \in Nat
          /\ NearestPageBlkCnt(g[i].inputSize_MiB) <= NearestPageBlkCnt(RegressionTask(g)[g[i].op])
      BY <1>1, <2>1, RegressionLargest, BlocksMonotone
    <2> QED  BY <1>4, <1>5, <2>1, <2>2
  <1> QED  BY <1>3, <1>4, <1>6

----------------------------------------------------------------------------
(* The steps. *)

\* Before any manager lives.
LEMMA ManagerInit == Init => ManagerInv
PROOF
  <1> SUFFICES ASSUME Init PROVE ManagerInv
    OBVIOUS
  <1>1. ManagerTypes
    BY DEF Init, ManagerTypes
  <1>2. Flags
    BY DEF Init, Flags, Alive
  <1>3. \A m \in Manager : Covered(m)
    BY DEF Init, Covered
  <1> QED  BY <1>1, <1>2, <1>3 DEF ManagerInv

\* The constructor may take a set; the flag tells the others.
LEMMA ConstructStep ==
  ASSUME ManagerInv, NEW m \in Manager, Construct(m)
  PROVE  ManagerInv'
PROOF
  <1> USE DEF ManagerInv, ManagerTypes
  <1>1. /\ life' = [life EXCEPT ![m] = "alive"] /\ life[m] = "unborn" /\ defined
        /\ opMap' = opMap /\ trained' = trained
    BY DEF Construct
  <1>2. ManagerTypes'
    BY <1>1 DEF Construct, setVars
  <1>3. /\ m \notin hasSet /\ m \notin driver /\ m \notin Alive
        /\ Alive' = Alive \cup {m}
    BY <1>1 DEF Alive, Flags
  <1>4. overlapped' = {} => Alive = {}
    BY DEF Construct
  <1>5. Flags'
    <2>1. CASE isAllocated
      <3>1. UNCHANGED <<isAllocated, isFreed, hasSet, driver, defined>>
        BY <2>1 DEF Construct, setVars
      <3>2. driver # {} /\ driver \subseteq Alive
        BY <1>1, <2>1 DEF Flags, Alive
      <3>3. overlapped' # {}
        BY <1>4, <3>2
      <3>4. driver' = {k \in hasSet' : life'[k] = "alive"}
        BY <1>1, <1>3, <3>1 DEF Flags
      <3> QED  BY <1>1, <2>1, <3>1, <3>2, <3>3, <3>4 DEF Flags
    <2>2. CASE ~isAllocated
      <3>1. driver = {} /\ {k \in hasSet : life[k] = "alive"} = {}
        BY <1>1, <2>2 DEF Flags
      <3>2. hasSet' = hasSet \cup {m} /\ driver' = {m} /\ isAllocated' = TRUE /\ isFreed' = FALSE
        BY <2>2, <3>1 DEF Construct
      <3>3. driver' = {k \in hasSet' : life'[k] = "alive"}
        BY <1>1, <3>1, <3>2
      <3>4. overlapped' = {} => Alive' \subseteq driver'
        BY <1>3, <1>4, <3>2
      <3> QED  BY <3>2, <3>3, <3>4 DEF Flags
    <2> QED  BY <2>1, <2>2
  <1>6. \A k \in Manager : Covered(k)'
    BY <1>1 DEF Covered
  <1> QED  BY <1>2, <1>5, <1>6

\* The destructor of a manager frees the set when it has one.
LEMMA DestroyStep ==
  ASSUME ManagerInv, NEW m \in Manager, Destroy(m)
  PROVE  ManagerInv'
PROOF
  <1> USE DEF ManagerInv, ManagerTypes
  <1>1. /\ life' = [life EXCEPT ![m] = "gone"] /\ life[m] = "alive" /\ defined
        /\ opMap' = opMap /\ trained' = trained /\ overlapped' = overlapped
        /\ hasSet' = hasSet
    BY DEF Destroy, setVars
  <1>2. ManagerTypes'
    <2>1. defined' \in BOOLEAN /\ isAllocated' \in BOOLEAN /\ isFreed' \in BOOLEAN
      <3>1. CASE isFreed
        BY <3>1 DEF Destroy, setVars
      <3>2. CASE ~isFreed
        <4>1. defined' = (m \in hasSet) /\ isAllocated' = FALSE /\ isFreed' = TRUE
          BY <3>2 DEF Destroy
        <4>2. (m \in hasSet) \in BOOLEAN
          OBVIOUS
        <4>3. defined' \in BOOLEAN
          BY <4>1, <4>2, Zenon
        <4> QED  BY <4>1, <4>3
      <3> QED  BY <3>1, <3>2
    <2>2. driver' \subseteq driver
      BY DEF Destroy, setVars
    <2> QED  BY <1>1, <2>1, <2>2
  <1>3. Alive' = Alive \ {m} /\ m \in Alive
    BY <1>1 DEF Alive
  <1>4. {k \in hasSet' : life'[k] = "alive"} = {k \in hasSet : life[k] = "alive"} \ {m}
    BY <1>1
  <1>5. Flags'
    <2>1. CASE isFreed
      <3>1. UNCHANGED <<isAllocated, isFreed, hasSet, driver, defined>>
        BY <2>1 DEF Destroy, setVars
      <3>2. driver = {}
        BY <1>1, <2>1 DEF Flags
      <3> QED  BY <1>1, <1>3, <1>4, <2>1, <3>1, <3>2 DEF Flags
    <2>2. CASE ~isFreed
      <3>1. driver' = driver \ {m} /\ isFreed' = TRUE /\ isAllocated' = FALSE
            /\ defined' = (m \in hasSet)
        BY <2>2 DEF Destroy
      <3>2. m \in hasSet => driver' = {}
        BY <1>1, <3>1 DEF Flags
      <3> QED  BY <1>1, <1>3, <1>4, <3>1, <3>2 DEF Flags
    <2> QED  BY <2>1, <2>2
  <1>6. \A k \in Manager : Covered(k)'
    BY <1>1 DEF Covered
  <1> QED  BY <1>2, <1>5, <1>6

\* Training changes neither lives nor flags, but may end in undefined behaviour.
LEMMA TrainingKeepsFlags ==
  ASSUME ManagerInv, NEW m \in Manager, TrainModel(m) \/ TrainAll(m)
  PROVE  Flags' /\ defined' \in BOOLEAN
PROOF
  <1>1. defined /\ defined' \in BOOLEAN /\ UNCHANGED <<life, setVars, overlapped>>
    BY DEF TrainModel, TrainAll, MayMeasure
  <1>2. Alive' = Alive
    BY <1>1 DEF Alive
  <1> QED  BY <1>1, <1>2 DEF ManagerInv, Flags, setVars

\* What training leaves is a number for each operator.
LEMMA TrainedForTyped ==
  ASSUME ManagerInv, NEW m \in Manager, NEW ops, NEW bound \in Nat
  PROVE  TrainedFor(ops, bound, m) \in [allOPSet -> Nat]
  BY DEF ManagerInv, ManagerTypes, TrainedFor

\* Training for a graph changes the operators of one manager only.
LEMMA TrainModelStep ==
  ASSUME ManagerInv, NEW m \in Manager, TrainModel(m)
  PROVE  ManagerInv'
PROOF
  <1>1. PICK g \in Graphs :
          /\ opMap' = [opMap EXCEPT ![m] =
                         TrainedFor(DOMAIN RegressionTask(g) \cup xferOPSet,
                                    MaxBlk(RegressionTask(g)), m)]
          /\ trained' = [trained EXCEPT ![m] = g]
    BY DEF TrainModel
  <1> DEFINE bound == MaxBlk(RegressionTask(g))
             ops == OpsOf(g) \cup xferOPSet
  <1>2. bound \in Nat /\ \A i \in DOMAIN g : NearestPageBlkCnt(g[i].inputSize_MiB) <= bound
    BY MaxBlkLargest
  <1>3. \A i \in DOMAIN g : NearestPageBlkCnt(g[i].inputSize_MiB) \in Nat
    BY RegressionLargest, BlocksMonotone
  <1>4. DOMAIN RegressionTask(g) = OpsOf(g)
    BY DEF RegressionTask
  <1> HIDE DEF bound
  <1>5. opMap' = [opMap EXCEPT ![m] = TrainedFor(ops, bound, m)]
    BY <1>1, <1>4 DEF bound
  <1>6. TrainedFor(ops, bound, m) \in [allOPSet -> Nat]
    BY <1>2, TrainedForTyped
  <1>7. ManagerTypes'
    <2>1. UNCHANGED <<life, setVars>>
      BY DEF TrainModel
    <2> QED  BY <1>1, <1>5, <1>6, <2>1, TrainingKeepsFlags DEF ManagerInv, ManagerTypes, setVars
  <1>8. Covered(m)'
    <2>1. trained'[m] = g /\ opMap'[m] = TrainedFor(ops, bound, m)
      BY <1>1, <1>5 DEF ManagerInv, ManagerTypes
    <2>2. \A o \in ops \cap allOPSet : TrainedFor(ops, bound, m)[o] = bound
      BY DEF TrainedFor
    <2>3. \A x \in xferOPSet : x \in ops /\ x \in allOPSet
      BY DEF xferOPSet, allOPSet, allPerfRelOPSet
    <2>4. \A i \in DOMAIN g : g[i].op \in ops /\ g[i].op \in allOPSet
      BY RegressionLargest DEF OpsOf
    <2> HIDE DEF ops
    <2>5. ASSUME NEW i \in DOMAIN g
          PROVE  /\ opMap'[m][g[i].op] >= NearestPageBlkCnt(g[i].inputSize_MiB)
                 /\ \A x \in xferOPSet : opMap'[m][x] = opMap'[m][g[i].op]
      BY <1>2, <1>3, <2>1, <2>2, <2>3, <2>4
    <2> QED  BY <2>1, <2>5 DEF Covered
  <1>9. \A k \in Manager \ {m} : Covered(k)'
    <2>1. \A k \in Manager \ {m} : trained'[k] = trained[k] /\ opMap'[k] = opMap[k]
      BY <1>1, <1>5 DEF ManagerInv, ManagerTypes
    <2> QED  BY <2>1 DEF ManagerInv, Covered
  <1> QED  BY <1>7, <1>8, <1>9, TrainingKeepsFlags DEF ManagerInv

\* Training all operators changes those of one manager only.
LEMMA TrainAllStep ==
  ASSUME ManagerInv, NEW m \in Manager, TrainAll(m)
  PROVE  ManagerInv'
PROOF
  <1>1. PICK bound \in Bounds : opMap' = [opMap EXCEPT ![m] = TrainedFor(allPerfRelOPSet, bound, m)]
    BY DEF TrainAll
  <1>2. bound \in Nat
    BY ManagerAssumption
  <1>3. TrainedFor(allPerfRelOPSet, bound, m) \in [allOPSet -> Nat]
    BY <1>2, TrainedForTyped
  <1>4. trained' = [trained EXCEPT ![m] = None] /\ UNCHANGED <<life, setVars>>
    BY DEF TrainAll
  <1>5. ManagerTypes'
    BY <1>1, <1>3, <1>4, TrainingKeepsFlags DEF ManagerInv, ManagerTypes, setVars
  <1>6. \A k \in Manager : Covered(k)'
    BY <1>1, <1>4 DEF ManagerInv, ManagerTypes, Covered
  <1> QED  BY <1>5, <1>6, TrainingKeepsFlags DEF ManagerInv

\* Nothing happens.
LEMMA ManagerStutter == ManagerInv /\ UNCHANGED vars => ManagerInv'
  BY DEF ManagerInv, ManagerTypes, Flags, Covered, Alive, vars, setVars

----------------------------------------------------------------------------
(* The theorems. *)

\* The invariant of all managers a process makes.
THEOREM ManagerInvariant == Spec => []ManagerInv
PROOF
  <1>1. ManagerInv /\ [Next]_vars => ManagerInv'
    BY ConstructStep, DestroyStep, TrainModelStep, TrainAllStep, ManagerStutter DEF Next, Finished
  <1> QED  BY <1>1, ManagerInit, PTL DEF Spec

\* With managers one after the other, each has a DPU set of its own and frees it;
\* overlapping ones never hold more than one set as long as behaviour is defined.
THEOREM SetFollowsManagersAlways == Spec => []SetFollowsManagers
PROOF
  <1>1. ASSUME ManagerInv, defined  PROVE Cardinality(driver) <= 1
    <2>1. CASE driver = {}
      BY <2>1, FS_EmptySet
    <2>2. CASE driver # {}
      <3>1. PICK d : driver = {d}
        BY <1>1, <2>2 DEF ManagerInv, Flags
      <3>2. Cardinality({d}) = 1
        BY FS_Singleton
      <3> QED  BY <3>1, <3>2
    <2> QED  BY <2>1, <2>2
  <1>2. ManagerInv => SetFollowsManagers
    BY <1>1 DEF ManagerInv, ManagerTypes, Flags, SetFollowsManagers, Alive
  <1> QED  BY <1>2, ManagerInvariant, PTL

\* trainModel leaves all operators of the graph, and both transfers, trained for
\* one bound that no task of the graph exceeds.
THEOREM GraphIsCoveredAlways == Spec => []GraphIsCovered
PROOF
  <1>1. ManagerInv => GraphIsCovered
    BY DEF ManagerInv, Covered, GraphIsCovered, Alive
  <1> QED  BY <1>1, ManagerInvariant, PTL

----------------------------------------------------------------------------
(* Kernels: the invariant. *)

\* How many tasklets there are, and how many chunks of an array each DPU has.
NrTasklets == Cardinality(Tasklet)
Part == blks * ChunksPerPage

Mram == 0..(3 * Part - 1)

\* The items of a row that the two sides are to agree on are those of execCPU,
\* if it gets to their chunk.
Agrees(row, h) ==
  h \in LoopChunks =>
    \A i \in Results :
      (op = "FILTER" /\ i + KernelSize - 1 \notin Items) \/ row[i] = CpuChunk(h)[i]

\* A number that EUDIST on DPU d may answer with.
IsDistance(y, d) == \E c \in DpuChunks(blks) : y = EudistCPU(HostChunk(d, c))[0]

Launched == {"running", "reduce", "cpu", "compare"}

KernelTypes ==
  /\ op \in Ops /\ blks \in BlkCounts /\ allocated \in Allocations
  /\ pc \in {"map1", "map2", "launch"} \cup Launched
  /\ buffer = [d \in Dpus |-> [a \in Mram |-> buffer[d][a]]]
  /\ place \in [Thread -> {"load", "store", "halt"}]
  /\ chunk \in [Thread -> Nat]
  /\ cache = [x \in Thread |-> cache[x]]
  /\ \A x \in Thread : DOMAIN cache[x] = Items

\* The operands are in the MRAM of each DPU from their mapping on.
Sources ==
  \A d \in Dpus, c \in DpuChunks(blks) :
    /\ pc # "map1" => buffer[d][c] = Src1[HostChunk(d, c)]
    /\ pc \notin {"map1", "map2"} => buffer[d][Part + c] = Src2[HostChunk(d, c)]

\* A tasklet handles the chunks of its number, and what it has passed is there.
Shares ==
  pc \in Launched =>
    /\ args = ArgsOf
    /\ \A x \in Thread :
         /\ chunk[x] % NrTasklets = x[2]
         /\ place[x] = "halt" => chunk[x] >= Part
         /\ place[x] = "store" =>
              op # "EUDIST" /\ chunk[x] < Part /\ Agrees(cache[x], HostChunk(x[1], chunk[x]))
         /\ op # "EUDIST" =>
              \A c \in DpuChunks(blks) : c < chunk[x] /\ c % NrTasklets = x[2] =>
                Agrees(buffer[x[1]][2 * Part + c], HostChunk(x[1], c))

\* What EUDIST leaves in WRAM and in the results.
Distances ==
  op = "EUDIST" =>
    /\ \A x \in Thread : cache[x][0] # Junk => IsDistance(cache[x][0], x[1])
    /\ \A d \in Dpus, c \in DpuChunks(blks) :
         buffer[d][2 * Part + c][0] # Junk =>
           c = 0 /\ IsDistance(buffer[d][2 * Part + c][0], d)

\* After the launch nothing runs; then the results are gathered and compared.
Outcome ==
  /\ pc \in {"reduce", "cpu", "compare"} => \A x \in Thread : place[x] = "halt"
  /\ pc \notin {"cpu", "compare"} => dpuDst = [h \in HostChunks(blks) |-> JunkChunk]
  /\ pc \in {"cpu", "compare"} =>
       \A h \in HostChunks(blks) :
         IF Senders(h) = {} THEN dpuDst[h] = JunkChunk
         ELSE \E dc \in Senders(h) : dpuDst[h] = buffer[dc[1]][2 * Part + dc[2]]
  /\ pc # "compare" => cpuDst = [h \in HostChunks(blks) |-> JunkChunk]
  /\ pc = "compare" =>
       cpuDst = [h \in HostChunks(blks) |-> IF h \in LoopChunks THEN CpuChunk(h) ELSE JunkChunk]

KernelInv == KernelTypes /\ Sources /\ Shares /\ Distances /\ Outcome

----------------------------------------------------------------------------
(* Kernels: arithmetic. *)

\* The constants of the kernels are positive.
LEMMA KernelConstants ==
  /\ BlockPages \in Nat /\ BlockPages > 0 /\ ChunksPerPage \in Nat /\ ChunksPerPage > 0
  /\ ItemNum \in Nat /\ ItemNum > 0 /\ 0 \in Items
  /\ KernelSize \in Nat /\ KernelSize > 0
  /\ NrTasklets \in Nat /\ NrTasklets > 0 /\ Tasklet = 0..(NrTasklets - 1)
PROOF
  <1>1. Cardinality(Tasklet) \in Nat /\ Tasklet # {}
    BY KernelAssumption, FS_CardinalityType
  <1>2. Cardinality(Tasklet) # 0
    BY KernelAssumption, FS_EmptySet
  <1> QED  BY <1>1, <1>2, KernelAssumption DEF Items, NrTasklets

\* Products of naturals are naturals.
LEMMA ProductNat ==
  ASSUME NEW a \in Nat, NEW b \in Nat
  PROVE  a * b \in Nat
  OBVIOUS

\* Division with remainder.
LEMMA Divide ==
  ASSUME NEW y \in Nat, NEW n \in Nat, n > 0
  PROVE  y \div n \in Nat /\ y % n \in 0..(n - 1) /\ y = n * (y \div n) + (y % n)
  OBVIOUS

\* Division with remainder has one result.
LEMMA DivideUnique ==
  ASSUME NEW n \in Nat, n > 0, NEW q \in Nat, NEW r \in 0..(n - 1)
  PROVE  (q * n + r) \div n = q /\ (q * n + r) % n = r
PROOF
  <1> DEFINE y == q * n + r
             d == y \div n
             m == y % n
  <1>1. y \in Nat /\ q * n \in Nat
    OBVIOUS
  <1>2. d \in Nat /\ m \in 0..(n - 1) /\ y = n * d + m
    BY <1>1
  <1>3. y = q * n + r
    OBVIOUS
  <1> HIDE DEF y, d, m
  <1>4. CASE d = q
    BY <1>2, <1>3, <1>4 DEF d, m, y
  <1>5. CASE d < q
    <2>1. q >= d + 1
      BY <1>2, <1>5
    <2>2. q * n >= (d + 1) * n
      BY <1>2, <2>1
    <2>3. q * n >= n * d + n
      BY <1>2, <2>2
    <2> QED  BY <1>1, <1>2, <1>3, <2>3
  <1>6. CASE d > q
    <2>1. d >= q + 1
      BY <1>2, <1>6
    <2>2. n * d >= n * (q + 1)
      BY <1>2, <2>1
    <2>3. n * d >= q * n + n
      BY <1>2, <2>2
    <2> QED  BY <1>1, <1>2, <1>3, <2>3
  <1> QED  BY <1>2, <1>4, <1>5, <1>6

\* What 32 bits keep of a number is no more than the number.
LEMMA WrapIs ==
  ASSUME NEW y \in Nat
  PROVE  /\ y % WordPages \in Nat /\ y % WordPages <= y /\ y % WordPages < WordPages
         /\ y < WordPages => y % WordPages = y
PROOF
  <1>1. WordPages \in Nat /\ WordPages > 0
    BY KernelAssumption
  <1>2. /\ y \div WordPages \in Nat /\ y % WordPages \in 0..(WordPages - 1)
        /\ y = WordPages * (y \div WordPages) + (y % WordPages)
    BY <1>1, Divide
  <1>3. WordPages * (y \div WordPages) \in Nat
    BY <1>1, <1>2, ProductNat
  <1>4. y % WordPages <= y
    <2> DEFINE whole == WordPages * (y \div WordPages)
               rest == y % WordPages
    <2>1. whole \in Nat /\ rest \in Nat /\ y = whole + rest
      BY <1>1, <1>2, <1>3
    <2> HIDE DEF whole, rest
    <2> QED  BY <2>1 DEF rest
  <1>5. y < WordPages => y % WordPages = y
    BY <1>1
  <1> QED  BY <1>1, <1>2, <1>4, <1>5

\* A chunk of a DPU is one of the page, counted in 32 bits, of its block.
LEMMA Scattered ==
  ASSUME KernelTypes, NEW d \in Dpus, NEW c \in DpuChunks(blks)
  PROVE  /\ HostChunk(d, c) \in HostChunks(blks)
         /\ c \div ChunksPerPage \in 0..(blks - 1)
         /\ HostChunk(d, c) \div ChunksPerPage
              = ((c \div ChunksPerPage) * BlockPages + d) % WordPages
         /\ HostChunk(d, c) % ChunksPerPage = c % ChunksPerPage
PROOF
  <1> DEFINE b == c \div ChunksPerPage
             r == c % ChunksPerPage
             full == b * BlockPages + d
             page == full % WordPages
             h == page * ChunksPerPage + r
  <1>1. /\ blks \in Nat /\ allocated \in Nat /\ allocated <= BlockPages
        /\ d \in 0..(BlockPages - 1) /\ c \in Nat /\ c < blks * ChunksPerPage
    <2>1. /\ blks \in Nat /\ allocated \in Nat /\ allocated <= BlockPages
      BY KernelAssumption, KernelConstants DEF KernelTypes
    <2>2. blks * ChunksPerPage \in Nat
      BY <2>1, KernelConstants
    <2> QED  BY <2>1, <2>2, KernelConstants DEF Dpus, DpuChunks
  <1>2. b \in Nat /\ r \in 0..(ChunksPerPage - 1) /\ c = ChunksPerPage * b + r
    BY <1>1, KernelConstants
  <1>3. HostChunk(d, c) = h
    BY DEF HostChunk, GetBlock
  <1>4. full \in Nat /\ page \in Nat /\ page <= full
    <2>1. full \in Nat
      BY <1>1, <1>2, KernelConstants
    <2> HIDE DEF full
    <2> QED  BY <2>1, WrapIs
  <1>5. h \in Nat /\ h \div ChunksPerPage = page /\ h % ChunksPerPage = r
    <2> HIDE DEF page, r
    <2>1. page * ChunksPerPage \in Nat
      BY <1>4, KernelConstants, ProductNat, Zenon
    <2>2. /\ (page * ChunksPerPage + r) \div ChunksPerPage = page
          /\ (page * ChunksPerPage + r) % ChunksPerPage = r
      BY <1>2, <1>4, KernelConstants, DivideUnique
    <2>3. page * ChunksPerPage + r \in Nat
      <3> DEFINE z == page * ChunksPerPage
      <3> HIDE DEF z
      <3>1. z \in Nat /\ r \in Nat
        BY <1>2, <2>1, KernelConstants DEF z
      <3>2. z + r \in Nat
        BY <3>1
      <3> QED  BY <3>2 DEF z
    <2> QED  BY <2>2, <2>3, Zenon
  <1>6. b < blks
    <2> HIDE DEF b, r
    <2>1. b * ChunksPerPage < blks * ChunksPerPage
      BY <1>1, <1>2, KernelConstants
    <2>2. ~(b >= blks)
      <3> SUFFICES ASSUME b >= blks PROVE FALSE
        OBVIOUS
      <3>1. b * ChunksPerPage >= blks * ChunksPerPage
        BY <1>1, <1>2, KernelConstants
      <3>2. b * ChunksPerPage \in Nat /\ blks * ChunksPerPage \in Nat
        BY <1>1, <1>2, KernelConstants
      <3> QED  BY <2>1, <3>1, <3>2
    <2> QED  BY <1>1, <1>2, <2>2
  <1>7. h < blks * BlockPages * ChunksPerPage
    <2> HIDE DEF b, r
    <2>1. b * BlockPages + BlockPages <= blks * BlockPages
      <3>1. (b + 1) * BlockPages <= blks * BlockPages
        BY <1>1, <1>2, <1>6, KernelConstants
      <3> QED  BY <1>2, <3>1, KernelConstants
    <2> DEFINE all == blks * BlockPages
    <2>2. all \in Nat /\ full + 1 <= all
      BY <1>1, <1>2, <2>1, KernelConstants
    <2> HIDE DEF all, page, full
    <2>3. page + 1 <= all
      BY <1>4, <2>2
    <2>4. (page + 1) * ChunksPerPage <= all * ChunksPerPage
      BY <1>4, <2>2, <2>3, KernelConstants
    <2>5. page * ChunksPerPage + r < all * ChunksPerPage
      <3>1. (page + 1) * ChunksPerPage = page * ChunksPerPage + ChunksPerPage
        BY <1>4, KernelConstants
      <3>2. page * ChunksPerPage \in Nat /\ all * ChunksPerPage \in Nat
        BY <1>4, <2>2, KernelConstants
      <3> QED  BY <1>2, <2>4, <3>1, <3>2, KernelConstants
    <2> QED  BY <2>5 DEF all
  <1>8. h \in HostChunks(blks)
    <2>1. blks * BlockPages * ChunksPerPage \in Nat
      BY <1>1, KernelConstants
    <2> HIDE DEF h
    <2> QED  BY <1>5, <1>7, <2>1 DEF HostChunks
  <1>9. b \in 0..(blks - 1)
    <2> HIDE DEF b
    <2> QED  BY <1>1, <1>2, <1>6
  <1> HIDE DEF h, page, full, b, r
  <1> QED  BY <1>3, <1>5, <1>8, <1>9 DEF page, full, b, r

\* A chunk of the array is gathered where there is a DPU with its page.
LEMMA GatherIs ==
  ASSUME KernelTypes, NEW h \in HostChunks(blks)
  PROVE  Supplied(h) <=> Senders(h) # {}
PROOF
  <1>1. blks \in Nat /\ allocated \in Nat /\ blks * ChunksPerPage \in Nat
    <2>1. blks \in Nat /\ allocated \in Nat
      BY KernelAssumption, KernelConstants DEF KernelTypes
    <2> QED  BY <2>1, KernelConstants
  <1>2. ASSUME Senders(h) # {}  PROVE Supplied(h)
    <2>1. PICK dc \in Dpus \X DpuChunks(blks) : HostChunk(dc[1], dc[2]) = h
      BY <1>2 DEF Senders
    <2>2. /\ dc[1] \in Dpus /\ dc[2] \in DpuChunks(blks)
      BY <2>1
    <2>3. /\ dc[2] \div ChunksPerPage \in 0..(blks - 1)
          /\ ((dc[2] \div ChunksPerPage) * BlockPages + dc[1]) % WordPages = h \div ChunksPerPage
      BY <2>1, <2>2, Scattered
    <2> QED  BY <2>2, <2>3, Zenon DEF Supplied, Dpus
  <1>3. ASSUME Supplied(h)  PROVE Senders(h) # {}
    <2>1. PICK d \in 0..(allocated - 1), b \in 0..(blks - 1) :
            (b * BlockPages + d) % WordPages = h \div ChunksPerPage
      BY <1>3 DEF Supplied
    <2> DEFINE page == h \div ChunksPerPage
               r == h % ChunksPerPage
               c == b * ChunksPerPage + r
    <2>2. h \in Nat
      BY DEF HostChunks
    <2>3. page \in Nat /\ r \in 0..(ChunksPerPage - 1) /\ h = ChunksPerPage * page + r
      BY <2>2, KernelConstants, Divide
    <2> HIDE DEF page, r
    <2>4. c \in DpuChunks(blks)
      <3>1. (b + 1) * ChunksPerPage <= blks * ChunksPerPage
        BY <1>1, KernelConstants
      <3>2. b * ChunksPerPage + ChunksPerPage <= blks * ChunksPerPage
        BY <3>1, KernelConstants
      <3>3. b * ChunksPerPage \in Nat
        BY KernelConstants
      <3> QED  BY <1>1, <2>3, <3>2, <3>3, KernelConstants DEF DpuChunks
    <2>5. c \div ChunksPerPage = b /\ c % ChunksPerPage = r
      BY <2>3, KernelConstants, DivideUnique
    <2>6. HostChunk(d, c) = h
      <3>1. HostChunk(d, c) = page * ChunksPerPage + r
        <4> HIDE DEF c
        <4> QED  BY <2>1, <2>5 DEF HostChunk, GetBlock, page
      <3> QED  BY <2>3, <3>1, KernelConstants
    <2> HIDE DEF c
    <2>7. <<d, c>> \in Senders(h)
      BY <2>4, <2>6 DEF Senders, Dpus
    <2> QED  BY <2>7
  <1> QED  BY <1>2, <1>3

\* The loops get to the chunks of the pages before their bound, all of the array.
LEMMA LoopIs ==
  ASSUME KernelTypes
  PROVE  /\ LoopChunks \subseteq HostChunks(blks)
         /\ \A h \in HostChunks(blks) : h \in LoopChunks <=> Reached(h)
         /\ LoopChunks # {} => Cardinality(LoopChunks) \in Nat /\ Cardinality(LoopChunks) >= 1
PROOF
  <1> DEFINE all == blks * BlockPages
             some == all % WordPages
  <1>1. blks \in Nat /\ all \in Nat
    <2>1. blks \in Nat
      BY KernelAssumption DEF KernelTypes
    <2> QED  BY <2>1, KernelConstants
  <1>2. some \in Nat /\ some <= all
    <2> HIDE DEF all
    <2> QED  BY <1>1, WrapIs
  <1>3. LoopChunks = 0..(some * ChunksPerPage - 1) /\ HostChunks(blks) = 0..(all * ChunksPerPage - 1)
    BY DEF LoopChunks, HostChunks
  <1>4. \A h : Reached(h) <=> h \div ChunksPerPage < some
    BY DEF Reached
  <1> HIDE DEF some, all
  <1>5. /\ some * ChunksPerPage \in Nat /\ all * ChunksPerPage \in Nat
        /\ some * ChunksPerPage <= all * ChunksPerPage
    BY <1>1, <1>2, KernelConstants
  <1>6. ASSUME NEW h \in HostChunks(blks)
        PROVE  h \in LoopChunks <=> h \div ChunksPerPage < some
    <2> DEFINE page == h \div ChunksPerPage
               r == h % ChunksPerPage
    <2>1. h \in Nat
      BY <1>3
    <2>2. page \in Nat /\ r \in 0..(ChunksPerPage - 1) /\ h = ChunksPerPage * page + r
      BY <2>1, KernelConstants, Divide
    <2> HIDE DEF page, r
    <2>3. ASSUME page < some  PROVE h < some * ChunksPerPage
      <3>1. (page + 1) * ChunksPerPage <= some * ChunksPerPage
        BY <1>2, <2>2, <2>3, KernelConstants
      <3>2. (page + 1) * ChunksPerPage = ChunksPerPage * page + ChunksPerPage
        BY <2>2, KernelConstants
      <3>3. ChunksPerPage * page \in Nat
        BY <2>2, KernelConstants
      <3> QED  BY <1>5, <2>2, <3>1, <3>2, <3>3, KernelConstants
    <2>4. ASSUME page >= some  PROVE h >= some * ChunksPerPage
      <3>1. ChunksPerPage * page >= ChunksPerPage * some
        BY <1>2, <2>2, <2>4, KernelConstants
      <3>2. ChunksPerPage * page \in Nat /\ ChunksPerPage * some = some * ChunksPerPage
        BY <1>2, <2>2, KernelConstants
      <3> QED  BY <1>5, <2>2, <3>1, <3>2, KernelConstants
    <2>5. page < some \/ page >= some
      BY <1>2, <2>2
    <2> QED  BY <1>2, <1>3, <1>5, <2>1, <2>2, <2>3, <2>4, <2>5 DEF page
  <1>7. LoopChunks \subseteq HostChunks(blks)
    BY <1>3, <1>5
  <1>8. ASSUME LoopChunks # {}
        PROVE  Cardinality(LoopChunks) \in Nat /\ Cardinality(LoopChunks) >= 1
    <2>1. some * ChunksPerPage >= 1
      BY <1>3, <1>5, <1>8
    <2>2. Cardinality(0..(some * ChunksPerPage - 1)) = some * ChunksPerPage
      <3> DEFINE n == some * ChunksPerPage
      <3>1. n \in Nat /\ n >= 1
        BY <1>5, <2>1
      <3> HIDE DEF n
      <3>2. Cardinality(0..(n - 1)) = n
        BY <3>1, FS_Interval
      <3> QED  BY <3>2 DEF n
    <2> QED  BY <1>3, <1>5, <2>1, <2>2
  <1> QED  BY <1>4, <1>6, <1>7, <1>8

\* The chunks of an operand in the MRAM of a DPU.
LEMMA OperandSize ==
  ASSUME KernelTypes
  PROVE  /\ Part \in Nat /\ Part > 0 /\ DpuChunks(blks) = 0..(Part - 1)
         /\ \A c \in DpuChunks(blks) : c \in Nat /\ c < Part
PROOF
  <1>1. blks \in Nat /\ blks > 0
    BY KernelAssumption DEF KernelTypes
  <1>2. Part \in Nat /\ Part > 0
    BY <1>1, KernelConstants DEF Part
  <1>3. DpuChunks(blks) = 0..(Part - 1)
    BY DEF DpuChunks, Part
  <1> QED  BY <1>2, <1>3

\* Where the operands are: one behind the other.
LEMMA Places ==
  ASSUME KernelTypes
  PROVE  \A c \in Nat : /\ Addr(DpuTCB.src1PageIdx, c) = c
                        /\ Addr(DpuTCB.src2PageIdx, c) = Part + c
                        /\ Addr(DpuTCB.dstPageIdx, c) = 2 * Part + c
PROOF
  <1>1. blks \in Nat
    BY KernelAssumption DEF KernelTypes
  <1>3. DpuTCB.src1PageIdx = 0 /\ DpuTCB.src2PageIdx = blks /\ DpuTCB.dstPageIdx = 2 * blks
    BY DEF DpuTCB
  <1>4. ASSUME NEW c \in Nat
        PROVE  /\ Addr(0, c) = c /\ Addr(blks, c) = Part + c
               /\ Addr(2 * blks, c) = 2 * Part + c
    <2>1. 0 * ChunksPerPage = 0 /\ (2 * blks) * ChunksPerPage = 2 * (blks * ChunksPerPage)
      BY <1>1, KernelConstants
    <2> QED  BY <2>1 DEF Addr, Part
  <1> QED  BY <1>3, <1>4

----------------------------------------------------------------------------
(* Kernels: what the two sides compute for a chunk. *)

\* Nothing that depends on the operator and the sizes alone ever changes.
LEMMA InputKept ==
  ASSUME UNCHANGED input
  PROVE  /\ op' = op /\ blks' = blks /\ allocated' = allocated
         /\ Dpus' = Dpus /\ Thread' = Thread /\ Part' = Part /\ Mram' = Mram
         /\ Results' = Results /\ ArgsOf' = ArgsOf /\ DpuChunks(blks)' = DpuChunks(blks)
         /\ HostChunks(blks)' = HostChunks(blks) /\ LoopChunks' = LoopChunks
         /\ \A h : Senders(h)' = Senders(h)
         /\ \A row, h : Agrees(row, h)' <=> Agrees(row, h)
         /\ \A h : CpuChunk(h)' = CpuChunk(h)
         /\ \A y, d : IsDistance(y, d)' <=> IsDistance(y, d)
PROOF
  <1>1. op' = op /\ blks' = blks /\ allocated' = allocated
    BY DEF input
  <1>2. Results' = Results /\ ArgsOf' = ArgsOf
    BY <1>1 DEF Results, IsO1, ArgsOf, MacArgs, LookupArgs, EudistArgs, ElewAddArgs,
                ElewProdArgs, AffineArgs, ConvArgs, FilterArgs, DpuTCB
  <1>3. \A h : CpuChunk(h)' = CpuChunk(h)
    <2>1. \A h : FilterCPU(h)' = FilterCPU(h)
      BY <1>1 DEF FilterCPU, Filtered, LoopChunks, HostChunks
    <2> QED  BY <1>1, <2>1 DEF CpuChunk, MacCPU, LookupCPU, EudistCPU, ElewAddCPU,
                ElewProdCPU, AffineCPU, ConvCPU
  <1>4. \A row, h : Agrees(row, h)' <=> Agrees(row, h)
    BY <1>1, <1>2, <1>3 DEF Agrees, LoopChunks
  <1>5. \A y, d : IsDistance(y, d)' <=> IsDistance(y, d)
    BY <1>1 DEF IsDistance, EudistCPU
  <1>6. \A h : Senders(h)' = Senders(h)
    BY <1>1 DEF Senders, Dpus, DpuChunks, HostChunk, GetBlock
  <1> QED  BY <1>1, <1>2, <1>3, <1>4, <1>5, <1>6
           DEF Dpus, Thread, Part, Mram, DpuChunks, HostChunks, LoopChunks

\* The arguments that execDPU broadcasts.
LEMMA ArgsAre ==
  ASSUME KernelTypes
  PROVE  /\ ArgsOf.dpuTCB = DpuTCB
         /\ op = "LOOKUP" => ArgsOf.parameter = Tenths.target
         /\ op = "AFFINE" => ArgsOf.parameter = Tenths.weight
         /\ op \in {"CONV_1D", "FILTER"} => ArgsOf.parameter = Tenths.kernel
PROOF
  <1>1. op \in {"MAC", "LOOKUP", "EUDIST", "FILTER", "ELEW_ADD", "ELEW_PROD", "AFFINE", "CONV_1D"}
    BY KernelAssumption DEF KernelTypes
  <1> QED  BY <1>1 DEF ArgsOf, MacArgs, LookupArgs, EudistArgs, ElewAddArgs, ElewProdArgs,
                AffineArgs, ConvArgs, FilterArgs

\* A running tasklet reads its chunk of each operand.
LEMMA SourcesRead ==
  ASSUME KernelInv, pc = "running", NEW x \in Thread
  PROVE  /\ args = ArgsOf
         /\ InRange(x) <=> chunk[x] < Part
         /\ x[1] \in Dpus /\ x[2] \in Tasklet /\ chunk[x] \in Nat
         /\ InRange(x) =>
              /\ chunk[x] \in DpuChunks(blks)
              /\ HostChunk(x[1], chunk[x]) \in HostChunks(blks)
              /\ SrcA(x) = Src1[HostChunk(x[1], chunk[x])]
              /\ SrcB(x) = Src2[HostChunk(x[1], chunk[x])]
PROOF
  <1>1. args = ArgsOf /\ args.dpuTCB = DpuTCB
    BY ArgsAre DEF KernelInv, Shares, Launched
  <1>2. x[1] \in Dpus /\ x[2] \in Tasklet /\ chunk[x] \in Nat
    BY DEF Thread, KernelInv, KernelTypes
  <1>3. InRange(x) <=> chunk[x] < Part
    BY <1>1 DEF InRange, Part, DpuTCB
  <1>4. ASSUME InRange(x)
        PROVE  /\ chunk[x] \in DpuChunks(blks)
               /\ HostChunk(x[1], chunk[x]) \in HostChunks(blks)
               /\ SrcA(x) = Src1[HostChunk(x[1], chunk[x])]
               /\ SrcB(x) = Src2[HostChunk(x[1], chunk[x])]
    <2>1. chunk[x] \in DpuChunks(blks)
      BY <1>2, <1>3, <1>4, OperandSize DEF KernelInv
    <2>2. HostChunk(x[1], chunk[x]) \in HostChunks(blks)
      BY <1>2, <2>1, Scattered DEF KernelInv
    <2>3. SrcA(x) = buffer[x[1]][chunk[x]] /\ SrcB(x) = buffer[x[1]][Part + chunk[x]]
      BY <1>1, <1>2, Places DEF SrcA, SrcB, KernelInv
    <2> QED  BY <1>2, <2>1, <2>2, <2>3 DEF KernelInv, Sources
  <1> QED  BY <1>1, <1>2, <1>3, <1>4

\* For each operator but EUDIST, what a tasklet computes from a chunk of each
\* operand is what execCPU computes from them.
LEMMA RowsAgree ==
  ASSUME KernelTypes, NEW h \in HostChunks(blks), NEW old, DOMAIN old = Items
  PROVE  /\ op = "MAC" => Agrees(SetFirst(old, SumOfProducts(Src1[h], Src2[h])), h)
         /\ op = "LOOKUP" =>
              Agrees(SetFirst(old, CountOf(Src1[h], Truncated(ArgsOf.parameter))), h)
         /\ op = "FILTER" => Agrees([i \in Items |-> Filtered(Src1[h], i)], h)
         /\ op = "ELEW_ADD" => Agrees([i \in Items |-> Src1[h][i] + Src2[h][i]], h)
         /\ op = "ELEW_PROD" => Agrees([i \in Items |-> Src1[h][i] * Src2[h][i]], h)
         /\ op = "AFFINE" =>
              Agrees([i \in Items |->
                        Truncated(ArgsOf.parameter) * Src1[h][i] + Src2[h][i]], h)
         /\ op = "CONV_1D" => Agrees(Convolved(Src1[h], ArgsOf.parameter), h)
PROOF
  <1>1. Src1[h] \in [Items -> Nat] /\ Src2[h] \in [Items -> Nat]
    BY KernelAssumption DEF KernelTypes
  <1>2. 0 \in Items
    BY KernelConstants
  <1>3. \A y : SetFirst(old, y)[0] = y /\ SetFirst(JunkChunk, y)[0] = y
    BY <1>2 DEF SetFirst, JunkChunk
  <1>4. ASSUME op = "MAC"
        PROVE  Agrees(SetFirst(old, SumOfProducts(Src1[h], Src2[h])), h)
    <2>1. Results = {0} /\ CpuChunk(h) = MacCPU(h)
      BY <1>4 DEF Results, IsO1, CpuChunk
    <2> QED  BY <1>3, <2>1 DEF Agrees, MacCPU
  <1>5. ASSUME op = "LOOKUP"
        PROVE  Agrees(SetFirst(old, CountOf(Src1[h], Truncated(ArgsOf.parameter))), h)
    <2>1. Results = {0} /\ CpuChunk(h) = LookupCPU(h)
      BY <1>5 DEF Results, IsO1, CpuChunk
    <2>2. ArgsOf.parameter = Tenths.target
      BY <1>5, ArgsAre
    <2> QED  BY <1>3, <2>1, <2>2 DEF Agrees, LookupCPU
  <1>6. ASSUME op = "ELEW_ADD"
        PROVE  Agrees([i \in Items |-> Src1[h][i] + Src2[h][i]], h)
    <2>1. Results = Items /\ CpuChunk(h) = ElewAddCPU(h)
      BY <1>6 DEF Results, IsO1, CpuChunk
    <2> QED  BY <2>1 DEF Agrees, ElewAddCPU
  <1>7. ASSUME op = "ELEW_PROD"
        PROVE  Agrees([i \in Items |-> Src1[h][i] * Src2[h][i]], h)
    <2>1. Results = Items /\ CpuChunk(h) = ElewProdCPU(h)
      BY <1>7 DEF Results, IsO1, CpuChunk
    <2> QED  BY <2>1 DEF Agrees, ElewProdCPU
  <1>8. ASSUME op = "AFFINE"
        PROVE  Agrees([i \in Items |->
                         Truncated(ArgsOf.parameter) * Src1[h][i] + Src2[h][i]], h)
    <2>1. Results = Items /\ CpuChunk(h) = AffineCPU(h)
      BY <1>8 DEF Results, IsO1, CpuChunk
    <2>2. ArgsOf.parameter = Tenths.weight
      BY <1>8, ArgsAre
    <2> DEFINE w == Truncated(Tenths.weight)
    <2>3. w \in Nat
      BY KernelAssumption DEF Truncated
    <2> HIDE DEF w
    <2>4. \A i \in Items : w * Src1[h][i] + Src2[h][i] = Src1[h][i] * w + Src2[h][i]
      BY <1>1, <2>3
    <2> QED  BY <2>1, <2>2, <2>4 DEF Agrees, AffineCPU, w
  <1>9. ASSUME op = "CONV_1D"
        PROVE  Agrees(Convolved(Src1[h], ArgsOf.parameter), h)
    <2>1. CpuChunk(h) = Convolved(Src1[h], Tenths.kernel)
      BY <1>9 DEF CpuChunk, ConvCPU
    <2>2. ArgsOf.parameter = Tenths.kernel
      BY <1>9, ArgsAre
    <2> QED  BY <2>1, <2>2 DEF Agrees
  <1>10. ASSUME op = "FILTER"
         PROVE  Agrees([i \in Items |-> Filtered(Src1[h], i)], h)
    <2>1. Results = Items /\ CpuChunk(h) = FilterCPU(h)
      BY <1>10 DEF Results, IsO1, CpuChunk
    <2> SUFFICES ASSUME h \in LoopChunks, NEW i \in Items, i + KernelSize - 1 \in Items
                 PROVE  Filtered(Src1[h], i) = FilterCPU(h)[i]
      BY <1>10, <2>1 DEF Agrees
    <2> DEFINE last == i + KernelSize - 1
               W == [k \in i..last |-> Src1[h + k \div ItemNum][k % ItemNum]]
               n == Cardinality(LoopChunks)
    <2>2. /\ i \in Nat /\ last \in Nat /\ last < ItemNum
          /\ \A j \in 0..(KernelSize - 1) : i + j \in i..last /\ i + j \in Items
      BY KernelConstants DEF Items
    <2>3. /\ {k \in i..last : k < n * ItemNum} = i..last
          /\ \A k \in i..last : h + k \div ItemNum \in HostChunks(blks)
      <3>1. n \in Nat /\ n >= 1
        BY LoopIs
      <3> HIDE DEF n, W, last
      <3>2. n * ItemNum \in Nat /\ n * ItemNum >= ItemNum
        BY <3>1, KernelConstants
      <3>3. \A k \in i..last : k \in Nat /\ k < ItemNum
        BY <2>2, KernelConstants
      <3>4. \A k \in i..last : k \div ItemNum = 0
        BY <3>3, KernelConstants
      <3>5. h + 0 = h
        BY DEF HostChunks
      <3>6. \A k \in i..last : k < n * ItemNum
        <4> SUFFICES ASSUME NEW k \in i..last  PROVE k < n * ItemNum
          OBVIOUS
        <4> DEFINE all == n * ItemNum
        <4>1. all \in Nat /\ all >= ItemNum /\ k \in Nat /\ k < ItemNum
          BY <3>2, <3>3
        <4> HIDE DEF all
        <4>2. k < all
          BY <4>1, KernelConstants
        <4> QED  BY <4>2 DEF all
      <3>7. \A k \in i..last : h + k \div ItemNum \in HostChunks(blks)
        BY <3>4, <3>5
      <3> QED  BY <3>6, <3>7, Zenon
    <2>4. FilterCPU(h)[i] = Filtered(W, i)
      BY <2>3, Zenon DEF FilterCPU
    <2>5. /\ {k \in 0..(KernelSize - 1) : i + k \in DOMAIN W} = 0..(KernelSize - 1)
          /\ {k \in 0..(KernelSize - 1) : i + k \in DOMAIN Src1[h]} = 0..(KernelSize - 1)
      <3>1. DOMAIN W = i..last /\ DOMAIN Src1[h] = Items
        BY <1>1
      <3> HIDE DEF W
      <3> QED  BY <2>2, <3>1
    <2>6. ASSUME NEW j \in 0..(KernelSize - 1)
          PROVE  W[i + j] = Src1[h][i + j]
      <3>1. (i + j) \in Nat /\ i + j < ItemNum /\ i + j \in i..last
        <4> HIDE DEF W, n, last
        <4>1. i + j \in Items /\ i + j \in i..last
          BY <2>2
        <4> QED  BY <4>1, KernelConstants DEF Items
      <3>2. (i + j) \div ItemNum = 0 /\ (i + j) % ItemNum = i + j
        BY <3>1, KernelConstants
      <3>3. h + 0 = h
        BY DEF HostChunks
      <3> HIDE DEF last
      <3> QED  BY <3>1, <3>2, <3>3 DEF last
    <2>7. Filtered(W, i) = Filtered(Src1[h], i)
      <3> HIDE DEF W
      <3>1. [j \in 0..(KernelSize - 1) |-> W[i + j] \div KernelSize]
              = [j \in 0..(KernelSize - 1) |-> Src1[h][i + j] \div KernelSize]
        BY <2>6
      <3> QED  BY <2>5, <3>1 DEF Filtered
    <2> QED  BY <2>4, <2>7
  <1> QED  BY <1>4, <1>5, <1>6, <1>7, <1>8, <1>9, <1>10

----------------------------------------------------------------------------
(* Kernels: the steps. *)

\* The test starts with its operands on the host.
LEMMA KernelInit == TestInit => KernelInv
PROOF
  <1> SUFFICES ASSUME TestInit PROVE KernelInv
    OBVIOUS
  <1>1. JunkChunk[0] = Junk
    BY KernelConstants DEF JunkChunk
  <1>2. KernelTypes
    <2>1. buffer = [d \in Dpus |-> [a \in Mram |-> buffer[d][a]]]
      <3>1. 3 * blks * ChunksPerPage = 3 * Part
        <4>1. blks \in Nat
          BY KernelAssumption DEF TestInit
        <4> QED  BY <4>1, KernelConstants DEF Part
      <3> QED  BY <3>1 DEF TestInit, Mram
    <2> QED  BY <2>1 DEF TestInit, KernelTypes, JunkChunk
  <1>3. Sources /\ Shares /\ Outcome
    BY DEF TestInit, Sources, Shares, Outcome, Launched
  <1>4. \A d \in Dpus, c \in DpuChunks(blks) : buffer[d][2 * Part + c] = JunkChunk
    <2> SUFFICES ASSUME NEW d \in Dpus, NEW c \in DpuChunks(blks)
                 PROVE  buffer[d][2 * Part + c] = JunkChunk
      OBVIOUS
    <2>1. 2 * Part + c \in 0..(3 * Part - 1)
      BY <1>2, OperandSize
    <2>2. 3 * blks * ChunksPerPage = 3 * Part
      <3>1. blks \in Nat
        BY KernelAssumption DEF TestInit
      <3> QED  BY <3>1, KernelConstants DEF Part
    <2> QED  BY <2>1, <2>2 DEF TestInit
  <1>5. Distances
    BY <1>1, <1>4 DEF TestInit, Distances
  <1> QED  BY <1>2, <1>3, <1>5 DEF KernelInv

\* dpu_push_xfer fills the operand that begins at base and leaves the rest.
LEMMA MappedIs ==
  ASSUME KernelTypes, NEW src, NEW pageIdx, NEW base \in {0, Part}, Addr(pageIdx, 0) = base
  PROVE  /\ Mapped(src, pageIdx) = [d \in Dpus |-> [a \in Mram |-> Mapped(src, pageIdx)[d][a]]]
         /\ \A d \in Dpus, c \in DpuChunks(blks) :
              /\ Mapped(src, pageIdx)[d][base + c] = src[HostChunk(d, c)]
              /\ base = Part => Mapped(src, pageIdx)[d][c] = buffer[d][c]
              /\ Mapped(src, pageIdx)[d][2 * Part + c] = buffer[d][2 * Part + c]
PROOF
  <1>1. \A d \in Dpus : DOMAIN buffer[d] = Mram
    BY DEF KernelTypes
  <1>2. Mapped(src, pageIdx) =
          [d \in Dpus |-> [a \in Mram |->
             IF a - base \in DpuChunks(blks) THEN src[HostChunk(d, a - base)]
             ELSE buffer[d][a]]]
    BY <1>1 DEF Mapped
  <1>3. ASSUME NEW d \in Dpus, NEW c \in DpuChunks(blks)
        PROVE  /\ Mapped(src, pageIdx)[d][base + c] = src[HostChunk(d, c)]
               /\ base = Part => Mapped(src, pageIdx)[d][c] = buffer[d][c]
               /\ Mapped(src, pageIdx)[d][2 * Part + c] = buffer[d][2 * Part + c]
    <2>1. /\ Part \in Nat /\ c \in Nat /\ c < Part /\ DpuChunks(blks) = 0..(Part - 1)
          /\ base \in Nat
      BY OperandSize
    <2>2. /\ base + c \in Mram /\ c \in Mram /\ 2 * Part + c \in Mram
          /\ (base + c) - base = c
          /\ base = Part => c - base \notin DpuChunks(blks)
          /\ (2 * Part + c) - base \notin DpuChunks(blks)
      BY <2>1 DEF Mram
    <2> QED  BY <1>2, <2>2
  <1> QED  BY <1>2, <1>3

\* The first operand is transferred to the DPUs.
LEMMA Map1Step ==
  ASSUME KernelInv, Map1
  PROVE  KernelInv'
PROOF
  <1> USE DEF KernelInv
  <1>1. UNCHANGED input /\ pc = "map1" /\ pc' = "map2"
    BY DEF Map1
  <1>2. Addr(DpuTCB.src1PageIdx, 0) = 0
    BY Places
  <1>3. /\ buffer' = [d \in Dpus |-> [a \in Mram |-> buffer'[d][a]]]
        /\ \A d \in Dpus, c \in DpuChunks(blks) :
              /\ buffer'[d][0 + c] = Src1[HostChunk(d, c)]
              /\ buffer'[d][2 * Part + c] = buffer[d][2 * Part + c]
    BY <1>2, MappedIs DEF Map1
  <1>4. KernelTypes'
    BY <1>1, <1>3, InputKept DEF Map1, tasklets, KernelTypes
  <1>5. Sources'
    <2>1. \A c \in DpuChunks(blks) : 0 + c = c
      BY OperandSize
    <2> QED  BY <1>1, <1>3, <2>1, InputKept DEF Sources, HostChunk, GetBlock
  <1>6. Shares' /\ Outcome'
    BY <1>1, InputKept DEF Map1, Shares, Outcome, Launched
  <1>7. Distances'
    BY <1>1, <1>3, InputKept DEF Map1, tasklets, Distances
  <1> QED  BY <1>4, <1>5, <1>6, <1>7

\* The second operand is transferred to the DPUs.
LEMMA Map2Step ==
  ASSUME KernelInv, Map2
  PROVE  KernelInv'
PROOF
  <1> USE DEF KernelInv
  <1>1. UNCHANGED input /\ pc = "map2" /\ pc' = "launch"
    BY DEF Map2
  <1>2. Addr(DpuTCB.src2PageIdx, 0) = Part
    <2>1. Addr(DpuTCB.src2PageIdx, 0) = Part + 0 /\ Part \in Nat
      BY Places, OperandSize
    <2> QED  BY <2>1
  <1>3. /\ buffer' = [d \in Dpus |-> [a \in Mram |-> buffer'[d][a]]]
        /\ \A d \in Dpus, c \in DpuChunks(blks) :
              /\ buffer'[d][Part + c] = Src2[HostChunk(d, c)]
              /\ buffer'[d][c] = buffer[d][c]
              /\ buffer'[d][2 * Part + c] = buffer[d][2 * Part + c]
    BY <1>2, MappedIs DEF Map2
  <1>4. KernelTypes'
    BY <1>1, <1>3, InputKept DEF Map2, tasklets, KernelTypes
  <1>5. Sources'
    BY <1>1, <1>3, InputKept DEF Sources, HostChunk, GetBlock
  <1>6. Shares' /\ Outcome'
    BY <1>1, InputKept DEF Map2, Shares, Outcome, Launched
  <1>7. Distances'
    BY <1>1, <1>3, InputKept DEF Map2, tasklets, Distances
  <1> QED  BY <1>4, <1>5, <1>6, <1>7

\* A launch starts the tasklets, each at its first chunk.
LEMMA LaunchStep ==
  ASSUME KernelInv, Launch
  PROVE  KernelInv'
PROOF
  <1> USE DEF KernelInv
  <1>1. UNCHANGED <<input, buffer>> /\ pc = "launch" /\ pc' = "running"
    BY DEF Launch
  <1>2. JunkChunk[0] = Junk
    BY KernelConstants DEF JunkChunk
  <1>3. \A x \in Thread : x[1] \in Dpus /\ x[2] \in Nat /\ x[2] < NrTasklets /\ x[2] % NrTasklets = x[2]
    BY KernelConstants DEF Thread
  <1>4. KernelTypes'
    <2>1. /\ place' \in [Thread -> {"load", "store", "halt"}]
          /\ chunk' \in [Thread -> Nat]
          /\ cache' = [x \in Thread |-> cache'[x]]
          /\ \A x \in Thread : DOMAIN cache'[x] = Items
      BY <1>3 DEF Launch, JunkChunk
    <2> QED  BY <1>1, <2>1, InputKept DEF KernelTypes, Launched
  <1>5. Sources'
    BY <1>1, InputKept DEF Sources, HostChunk, GetBlock
  <1>6. Shares'
    <2> SUFFICES ASSUME NEW x \in Thread
                 PROVE  /\ chunk'[x] % NrTasklets = x[2]
                        /\ place'[x] = "load"
                        /\ \A c \in DpuChunks(blks) :
                             ~(c < chunk'[x] /\ c % NrTasklets = x[2])
      BY <1>1, InputKept DEF Launch, Shares
    <2>1. chunk'[x] = x[2] /\ place'[x] = "load"
      BY DEF Launch
    <2>2. \A c \in Nat : c < x[2] => c % NrTasklets = c
      BY <1>3, KernelConstants
    <2>3. \A c \in DpuChunks(blks) : c \in Nat
      BY OperandSize
    <2> QED  BY <1>3, <2>1, <2>2, <2>3
  <1>7. Distances'
    <2>1. \A x \in Thread : cache'[x][0] = Junk
      BY <1>2 DEF Launch
    <2> QED  BY <1>1, <2>1, InputKept DEF Distances
  <1>8. Outcome'
    BY <1>1, InputKept DEF Launch, Outcome
  <1> QED  BY <1>4, <1>5, <1>6, <1>7, <1>8

\* A tasklet's chunks are as far apart as there are tasklets.
LEMMA NextOfTasklet ==
  ASSUME NEW n \in Nat, n > 0, NEW a \in Nat
  PROVE  /\ (a + n) % n = a % n
         /\ \A b \in Nat : b % n = a % n /\ b < a + n => b <= a
PROOF
  <1> DEFINE q == a \div n
             r == a % n
  <1>1. q \in Nat /\ r \in 0..(n - 1) /\ a = n * q + r
    BY Divide
  <1> HIDE DEF q, r
  <1>2. (a + n) % n = r
    <2>1. a + n = (q + 1) * n + r
      BY <1>1
    <2>2. ((q + 1) * n + r) % n = r
      BY <1>1, DivideUnique
    <2> QED  BY <2>1, <2>2
  <1>3. ASSUME NEW b \in Nat, b % n = r, b < a + n  PROVE b <= a
    <2> DEFINE p == b \div n
    <2>1. p \in Nat /\ b = n * p + r
      BY <1>3, Divide
    <2> HIDE DEF p
    <2>2. p <= q
      <3> SUFFICES ASSUME p >= q + 1  PROVE FALSE
        BY <1>1, <2>1
      <3>1. n * p >= n * (q + 1)
        BY <1>1, <2>1
      <3>2. n * (q + 1) = n * q + n /\ n * p \in Nat /\ n * q \in Nat
        BY <1>1, <2>1
      <3> QED  BY <1>1, <1>3, <2>1, <3>1, <3>2
    <2>3. n * p <= n * q /\ n * p \in Nat /\ n * q \in Nat
      BY <1>1, <2>1, <2>2
    <2> QED  BY <1>1, <2>1, <2>3
  <1> QED  BY <1>2, <1>3 DEF r

\* A write to the result of a chunk leaves operands and other results alone.
LEMMA WriteIs ==
  ASSUME KernelTypes, args = ArgsOf, NEW x \in Thread, NEW k \in DpuChunks(blks), MramWrite(x, k)
  PROVE  /\ buffer' = [d \in Dpus |-> [a \in Mram |-> buffer'[d][a]]]
         /\ \A d \in Dpus, c \in DpuChunks(blks) :
              /\ buffer'[d][c] = buffer[d][c]
              /\ buffer'[d][Part + c] = buffer[d][Part + c]
              /\ buffer'[d][2 * Part + c] =
                   IF d = x[1] /\ c = k THEN cache[x] ELSE buffer[d][2 * Part + c]
PROOF
  <1> DEFINE at == 2 * Part + k
  <1>1. /\ Part \in Nat /\ k \in Nat /\ k < Part /\ at \in Mram
        /\ x[1] \in Dpus
    BY OperandSize DEF Mram, Thread
  <1>2. buffer' = [buffer EXCEPT ![x[1]][at] = cache[x]]
    <2>1. args.dpuTCB.dstPageIdx = DpuTCB.dstPageIdx
      BY ArgsAre
    <2>2. Addr(DpuTCB.dstPageIdx, k) = at
      BY <1>1, Places
    <2> QED  BY <2>1, <2>2 DEF MramWrite
  <1> HIDE DEF at
  <1>3. \A d \in Dpus, a \in Mram :
          buffer'[d][a] = IF d = x[1] /\ a = at THEN cache[x] ELSE buffer[d][a]
    BY <1>1, <1>2 DEF KernelTypes
  <1>4. buffer' = [d \in Dpus |-> [a \in Mram |-> buffer'[d][a]]]
    BY <1>1, <1>2 DEF KernelTypes
  <1>5. ASSUME NEW d \in Dpus, NEW c \in DpuChunks(blks)
        PROVE  /\ buffer'[d][c] = buffer[d][c]
               /\ buffer'[d][Part + c] = buffer[d][Part + c]
               /\ buffer'[d][2 * Part + c] =
                    IF d = x[1] /\ c = k THEN cache[x] ELSE buffer[d][2 * Part + c]
    <2>1. /\ c \in Mram /\ Part + c \in Mram /\ 2 * Part + c \in Mram
          /\ c # at /\ Part + c # at /\ (2 * Part + c = at <=> c = k)
      BY <1>1, OperandSize DEF Mram, at
    <2> QED  BY <1>3, <2>1
  <1> QED  BY <1>4, <1>5

\* A tasklet handles one more of its chunks.
LEMMA EachChunkStep ==
  ASSUME KernelInv, pc = "running", op # "EUDIST", NEW x \in Thread,
         NEW row, DOMAIN row = Items,
         InRange(x) => Agrees(row, HostChunk(x[1], chunk[x])),
         EachChunk(x, row), UNCHANGED <<input, pc, args, dpuDst, cpuDst>>
  PROVE  KernelInv'
PROOF
  <1> USE DEF KernelInv
  <1>1. /\ args = ArgsOf
        /\ InRange(x) <=> chunk[x] < Part
        /\ x[1] \in Dpus /\ x[2] \in Tasklet /\ chunk[x] \in Nat
        /\ chunk[x] % NrTasklets = x[2]
    BY SourcesRead DEF Shares, Launched
  <1>2. Outcome'
    BY InputKept DEF Outcome
  <1>3. Distances'
    BY InputKept DEF Distances
  <1>4. CASE /\ place[x] = "load" /\ InRange(x)
             /\ cache' = [cache EXCEPT ![x] = row]
             /\ place' = [place EXCEPT ![x] = "store"]
             /\ UNCHANGED <<chunk, buffer>>
    <2>1. KernelTypes'
      BY <1>4, InputKept DEF KernelTypes
    <2>2. Sources'
      BY <1>4, InputKept DEF Sources, HostChunk, GetBlock
    <2>3. \A y \in Thread : /\ place'[y] = IF y = x THEN "store" ELSE place[y]
                            /\ cache'[y] = IF y = x THEN row ELSE cache[y]
      BY <1>4 DEF KernelTypes
    <2>4. Shares'
      BY <1>1, <1>4, <2>3, InputKept DEF Shares, Launched, HostChunk, GetBlock
    <2> QED  BY <1>2, <1>3, <2>1, <2>2, <2>4
  <1>5. CASE /\ place[x] = "store"
             /\ MramWrite(x, chunk[x])
             /\ NextChunk(x)
             /\ place' = [place EXCEPT ![x] = "load"]
             /\ UNCHANGED cache
    <2> DEFINE k == chunk[x]
    <2>1. k \in DpuChunks(blks) /\ Agrees(cache[x], HostChunk(x[1], k))
      BY <1>1, <1>5, OperandSize DEF Shares, Launched
    <2>2. /\ buffer' = [d \in Dpus |-> [a \in Mram |-> buffer'[d][a]]]
          /\ \A d \in Dpus, c \in DpuChunks(blks) :
               /\ buffer'[d][c] = buffer[d][c]
               /\ buffer'[d][Part + c] = buffer[d][Part + c]
               /\ buffer'[d][2 * Part + c] =
                    IF d = x[1] /\ c = k THEN cache[x] ELSE buffer[d][2 * Part + c]
      <3>1. KernelTypes /\ args = ArgsOf /\ MramWrite(x, k)
        BY <1>1, <1>5
      <3> HIDE DEF k, KernelInv
      <3> QED  BY <2>1, <3>1, WriteIs, Zenon
    <2>3. \A y \in Thread : /\ place'[y] = IF y = x THEN "load" ELSE place[y]
                            /\ chunk'[y] = IF y = x THEN k + NrTasklets ELSE chunk[y]
      BY <1>5 DEF KernelTypes, NextChunk, NrTasklets
    <2>4. KernelTypes'
      <3>1. chunk' \in [Thread -> Nat]
        BY <1>1, <1>5, KernelConstants DEF KernelTypes, NextChunk, NrTasklets
      <3>2. place' \in [Thread -> {"load", "store", "halt"}]
        BY <1>5 DEF KernelTypes
      <3> QED  BY <1>5, <2>2, <3>1, <3>2, InputKept DEF KernelTypes
    <2>5. Sources'
      BY <2>2, InputKept DEF Sources, HostChunk, GetBlock
    <2>6. ASSUME NEW y \in Thread, NEW c \in DpuChunks(blks),
                 c < chunk'[y], c % NrTasklets = y[2]
          PROVE  Agrees(buffer'[y[1]][2 * Part + c], HostChunk(y[1], c))
      <3>1. y[1] \in Dpus /\ y = <<y[1], y[2]>> /\ x = <<x[1], x[2]>>
        BY DEF Thread
      <3>2. c < chunk[y] => Agrees(buffer[y[1]][2 * Part + c], HostChunk(y[1], c))
        BY <2>6 DEF Shares, Launched
      <3>3. CASE y[1] = x[1] /\ c = k
        BY <2>1, <2>2, <3>1, <3>3
      <3>4. CASE ~(y[1] = x[1] /\ c = k)
        <4>1. c < chunk[y]
          <5>1. CASE y # x
            BY <2>3, <2>6, <5>1
          <5>2. CASE y = x
            <6>1. c # k /\ c \in Nat /\ c % NrTasklets = k % NrTasklets /\ c < k + NrTasklets
              BY <1>1, <2>3, <2>6, <3>4, <5>2, OperandSize
            <6>2. c <= k
              BY <1>1, <6>1, KernelConstants, NextOfTasklet
            <6> QED  BY <1>1, <5>2, <6>1, <6>2
          <5> QED  BY <5>1, <5>2
        <4>2. buffer'[y[1]][2 * Part + c] = buffer[y[1]][2 * Part + c]
          BY <2>2, <3>1, <3>4
        <4> QED  BY <3>2, <4>1, <4>2
      <3> QED  BY <3>3, <3>4
    <2>7. \A y \in Thread :
            /\ chunk'[y] % NrTasklets = y[2]
            /\ place'[y] = "halt" => chunk'[y] >= Part
            /\ place'[y] = "store" =>
                 chunk'[y] < Part /\ Agrees(cache'[y], HostChunk(y[1], chunk'[y]))
      <3>1. (k + NrTasklets) % NrTasklets = x[2]
        BY <1>1, KernelConstants, NextOfTasklet
      <3> QED  BY <1>5, <2>3, <3>1 DEF Shares, Launched
    <2>8. Shares'
      BY <1>1, <2>6, <2>7, InputKept DEF Shares, HostChunk, GetBlock
    <2> QED  BY <1>2, <1>3, <2>4, <2>5, <2>8
  <1>6. CASE /\ place[x] = "load" /\ ~InRange(x)
             /\ place' = [place EXCEPT ![x] = "halt"]
             /\ UNCHANGED <<chunk, buffer, cache>>
    <2>1. KernelTypes'
      BY <1>6, InputKept DEF KernelTypes
    <2>2. Sources'
      BY <1>6, InputKept DEF Sources, HostChunk, GetBlock
    <2>3. \A y \in Thread : place'[y] = IF y = x THEN "halt" ELSE place[y]
      BY <1>6 DEF KernelTypes
    <2>4. chunk[x] >= Part
      BY <1>1, <1>6, OperandSize
    <2>5. Shares'
      BY <1>1, <1>6, <2>3, <2>4, InputKept DEF Shares, Launched, HostChunk, GetBlock
    <2> QED  BY <1>2, <1>3, <2>1, <2>2, <2>5
  <1> QED  BY <1>4, <1>5, <1>6 DEF EachChunk

\* A tasklet of EUDIST leaves the distance of its last chunk, if it has one, in
\* the first chunk of the result.
LEMMA EudistStep ==
  ASSUME KernelInv, pc = "running", NEW x \in Thread, EudistDPU(x),
         UNCHANGED <<input, pc, args, dpuDst, cpuDst>>
  PROVE  KernelInv'
PROOF
  <1> USE DEF KernelInv
  <1>1. /\ op = "EUDIST" /\ args = ArgsOf
        /\ InRange(x) <=> chunk[x] < Part
        /\ x[1] \in Dpus /\ x[2] \in Tasklet /\ chunk[x] \in Nat
        /\ chunk[x] % NrTasklets = x[2]
    BY SourcesRead DEF Shares, Launched, EudistDPU
  <1>2. Outcome'
    BY InputKept DEF Outcome
  <1>3. CASE /\ place[x] = "load" /\ InRange(x)
             /\ cache' = [cache EXCEPT ![x] =
                            SetFirst(@, SquaredDistance(SrcA(x), SrcB(x)))]
             /\ NextChunk(x)
             /\ UNCHANGED <<place, buffer>>
    <2> DEFINE k == chunk[x]
               y == SquaredDistance(Src1[HostChunk(x[1], k)], Src2[HostChunk(x[1], k)])
    <2>1. k \in DpuChunks(blks) /\ SquaredDistance(SrcA(x), SrcB(x)) = y
      BY <1>3, SourcesRead
    <2>2. IsDistance(y, x[1])
      <3>1. EudistCPU(HostChunk(x[1], k))[0] = y
        BY KernelConstants DEF EudistCPU, SetFirst, JunkChunk
      <3> HIDE DEF k, y
      <3> QED  BY <2>1, <3>1 DEF IsDistance
    <2> HIDE DEF y
    <2>3. cache' = [cache EXCEPT ![x] = SetFirst(cache[x], y)]
      BY <1>3, <2>1
    <2>4. /\ DOMAIN SetFirst(cache[x], y) = Items /\ SetFirst(cache[x], y)[0] = y
      BY KernelConstants DEF SetFirst, KernelTypes
    <2>5. \A z \in Thread : cache'[z] = IF z = x THEN SetFirst(cache[x], y) ELSE cache[z]
      BY <2>3 DEF KernelTypes
    <2>6. \A z \in Thread : chunk'[z] = IF z = x THEN k + NrTasklets ELSE chunk[z]
      BY <1>3 DEF KernelTypes, NextChunk, NrTasklets
    <2>7. KernelTypes'
      <3>1. chunk' \in [Thread -> Nat]
        BY <1>1, <1>3, KernelConstants DEF KernelTypes, NextChunk, NrTasklets
      <3>2. cache' = [z \in Thread |-> cache'[z]] /\ \A z \in Thread : DOMAIN cache'[z] = Items
        BY <2>3, <2>4, <2>5 DEF KernelTypes
      <3> QED  BY <1>3, <3>1, <3>2, InputKept DEF KernelTypes
    <2>8. Sources'
      BY <1>3, InputKept DEF Sources, HostChunk, GetBlock
    <2>9. Shares'
      <3>1. (k + NrTasklets) % NrTasklets = x[2]
        BY <1>1, KernelConstants, NextOfTasklet
      <3> QED  BY <1>1, <1>3, <2>6, <3>1, InputKept DEF Shares, Launched
    <2>10. Distances'
      <3>1. \A z \in Thread : cache'[z][0] # Junk => IsDistance(cache'[z][0], z[1])
        BY <1>1, <2>2, <2>4, <2>5 DEF Distances
      <3> QED  BY <1>1, <1>3, <3>1, InputKept DEF Distances
    <2> QED  BY <1>2, <2>7, <2>8, <2>9, <2>10
  <1>4. CASE /\ place[x] = "load" /\ ~InRange(x)
             /\ MramWrite(x, 0)
             /\ place' = [place EXCEPT ![x] = "halt"]
             /\ UNCHANGED <<chunk, cache>>
    <2>1. 0 \in DpuChunks(blks) /\ chunk[x] >= Part
      BY <1>1, <1>4, OperandSize
    <2>2. /\ buffer' = [d \in Dpus |-> [a \in Mram |-> buffer'[d][a]]]
          /\ \A d \in Dpus, c \in DpuChunks(blks) :
               /\ buffer'[d][c] = buffer[d][c]
               /\ buffer'[d][Part + c] = buffer[d][Part + c]
               /\ buffer'[d][2 * Part + c] =
                    IF d = x[1] /\ c = 0 THEN cache[x] ELSE buffer[d][2 * Part + c]
      <3>1. KernelTypes /\ args = ArgsOf /\ MramWrite(x, 0)
        BY <1>1, <1>4
      <3> HIDE DEF KernelInv
      <3> QED  BY <2>1, <3>1, WriteIs, Zenon
    <2>3. \A y \in Thread : place'[y] = IF y = x THEN "halt" ELSE place[y]
      BY <1>4 DEF KernelTypes
    <2>4. KernelTypes'
      BY <1>4, <2>2, InputKept DEF KernelTypes
    <2>5. Sources'
      BY <2>2, InputKept DEF Sources, HostChunk, GetBlock
    <2>6. Shares'
      BY <1>1, <1>4, <2>1, <2>3, InputKept DEF Shares, Launched
    <2>7. ASSUME NEW d \in Dpus, NEW c \in DpuChunks(blks), buffer'[d][2 * Part + c][0] # Junk
          PROVE  c = 0 /\ IsDistance(buffer'[d][2 * Part + c][0], d)
      <3>1. CASE d = x[1] /\ c = 0
        <4>1. buffer'[d][2 * Part + c] = cache[x]
          BY <2>2, <3>1
        <4> QED  BY <1>1, <2>7, <3>1, <4>1 DEF Distances
      <3>2. CASE ~(d = x[1] /\ c = 0)
        <4>1. buffer'[d][2 * Part + c] = buffer[d][2 * Part + c]
          BY <2>2, <3>2
        <4> QED  BY <1>1, <2>7, <4>1 DEF Distances
      <3> QED  BY <3>1, <3>2
    <2>8. Distances'
      BY <1>1, <1>4, <2>7, InputKept DEF Distances
    <2> QED  BY <1>2, <2>4, <2>5, <2>6, <2>8
  <1> QED  BY <1>3, <1>4 DEF EudistDPU

\* The programs of the eight operators.
LEMMA KernelStep ==
  ASSUME KernelInv, NEW x \in Thread, Kernel(x)
  PROVE  KernelInv'
PROOF
  <1> DEFINE h == HostChunk(x[1], chunk[x])
  <1>1. /\ pc = "running" /\ UNCHANGED <<input, pc, args, dpuDst, cpuDst>>
        /\ KernelTypes /\ args = ArgsOf /\ DOMAIN cache[x] = Items
    BY SourcesRead DEF Kernel, KernelInv, KernelTypes
  <1>2. InRange(x) => /\ h \in HostChunks(blks)
                      /\ SrcA(x) = Src1[h] /\ SrcB(x) = Src2[h]
    BY <1>1, SourcesRead
  <1> HIDE DEF h
  <1>3. ASSUME NEW y  PROVE DOMAIN SetFirst(cache[x], y) = Items
    BY <1>1 DEF SetFirst
  <1>4. CASE MacDPU(x)
    <2> DEFINE row == SetFirst(cache[x], SumOfProducts(SrcA(x), SrcB(x)))
    <2>1. op = "MAC" /\ EachChunk(x, row)
      BY <1>4 DEF MacDPU
    <2>2. InRange(x) => Agrees(row, h)
      BY <1>1, <1>2, <2>1, RowsAgree
    <2>3. DOMAIN row = Items
      BY <1>3
    <2> HIDE DEF row
    <2> QED  BY <1>1, <2>1, <2>2, <2>3, EachChunkStep DEF h
  <1>5. CASE LookupDPU(x)
    <2> DEFINE row == SetFirst(cache[x], CountOf(SrcA(x), Truncated(args.parameter)))
    <2>1. op = "LOOKUP" /\ EachChunk(x, row)
      BY <1>5 DEF LookupDPU
    <2>2. InRange(x) => Agrees(row, h)
      BY <1>1, <1>2, <2>1, RowsAgree
    <2>3. DOMAIN row = Items
      BY <1>3
    <2> HIDE DEF row
    <2> QED  BY <1>1, <2>1, <2>2, <2>3, EachChunkStep DEF h
  <1>6. CASE EudistDPU(x)
    BY <1>1, <1>6, EudistStep
  <1>7. CASE FilterDPU(x)
    <2> DEFINE row == [i \in Items |-> Filtered(SrcA(x), i)]
    <2>1. op = "FILTER" /\ EachChunk(x, row)
      BY <1>7 DEF FilterDPU
    <2>2. InRange(x) => Agrees(row, h)
      BY <1>1, <1>2, <2>1, RowsAgree
    <2>3. DOMAIN row = Items
      OBVIOUS
    <2> HIDE DEF row
    <2> QED  BY <1>1, <2>1, <2>2, <2>3, EachChunkStep DEF h
  <1>8. CASE ElewAddDPU(x)
    <2> DEFINE row == [i \in Items |-> SrcA(x)[i] + SrcB(x)[i]]
    <2>1. op = "ELEW_ADD" /\ EachChunk(x, row)
      BY <1>8 DEF ElewAddDPU
    <2>2. InRange(x) => Agrees(row, h)
      BY <1>1, <1>2, <2>1, RowsAgree
    <2>3. DOMAIN row = Items
      OBVIOUS
    <2> HIDE DEF row
    <2> QED  BY <1>1, <2>1, <2>2, <2>3, EachChunkStep DEF h
  <1>9. CASE ElewProdDPU(x)
    <2> DEFINE row == [i \in Items |-> SrcA(x)[i] * SrcB(x)[i]]
    <2>1. op = "ELEW_PROD" /\ EachChunk(x, row)
      BY <1>9 DEF ElewProdDPU
    <2>2. InRange(x) => Agrees(row, h)
      BY <1>1, <1>2, <2>1, RowsAgree
    <2>3. DOMAIN row = Items
      OBVIOUS
    <2> HIDE DEF row
    <2> QED  BY <1>1, <2>1, <2>2, <2>3, EachChunkStep DEF h
  <1>10. CASE AffineDPU(x)
    <2> DEFINE row == [i \in Items |-> Truncated(args.parameter) * SrcA(x)[i] + SrcB(x)[i]]
    <2>1. op = "AFFINE" /\ EachChunk(x, row)
      BY <1>10 DEF AffineDPU
    <2>2. InRange(x) => Agrees(row, h)
      BY <1>1, <1>2, <2>1, RowsAgree
    <2>3. DOMAIN row = Items
      OBVIOUS
    <2> HIDE DEF row
    <2> QED  BY <1>1, <2>1, <2>2, <2>3, EachChunkStep DEF h
  <1>11. CASE ConvDPU(x)
    <2> DEFINE row == Convolved(SrcA(x), args.parameter)
    <2>1. op = "CONV_1D" /\ EachChunk(x, row)
      BY <1>11 DEF ConvDPU
    <2>2. InRange(x) => Agrees(row, h)
      BY <1>1, <1>2, <2>1, RowsAgree
    <2>3. DOMAIN row = Items
      BY DEF Convolved
    <2> HIDE DEF row
    <2> QED  BY <1>1, <2>1, <2>2, <2>3, EachChunkStep DEF h
  <1> QED  BY <1>4, <1>5, <1>6, <1>7, <1>8, <1>9, <1>10, <1>11 DEF Kernel

\* The launch returns when every tasklet has passed its part.
LEMMA HaltedStep ==
  ASSUME KernelInv, Halted
  PROVE  KernelInv'
PROOF
  <1> USE DEF KernelInv
  <1>1. /\ UNCHANGED <<input, buffer, args, tasklets, dpuDst, cpuDst>>
        /\ pc = "running" /\ pc' = "reduce"
    BY DEF Halted
  <1>2. KernelTypes'
    BY <1>1, InputKept DEF KernelTypes, Launched, tasklets
  <1>3. Sources'
    BY <1>1, InputKept DEF Sources, HostChunk, GetBlock
  <1>4. Shares'
    BY <1>1, InputKept DEF Shares, Launched, tasklets, HostChunk, GetBlock
  <1>5. Distances'
    BY <1>1, InputKept DEF Distances, tasklets
  <1>6. Outcome'
    BY <1>1, InputKept DEF Halted, Outcome, tasklets
  <1> QED  BY <1>2, <1>3, <1>4, <1>5, <1>6

\* REDUCE puts the result of each chunk back where MAP took it from.
LEMMA ReduceStep ==
  ASSUME KernelInv, Reduce
  PROVE  KernelInv'
PROOF
  <1> USE DEF KernelInv
  <1>1. /\ UNCHANGED <<input, buffer, args, tasklets, cpuDst>>
        /\ pc = "reduce" /\ pc' = "cpu"
    BY DEF Reduce
  <1>2. KernelTypes'
    BY <1>1, InputKept DEF KernelTypes, Launched, tasklets
  <1>3. Sources'
    BY <1>1, InputKept DEF Sources, HostChunk, GetBlock
  <1>4. Shares'
    BY <1>1, InputKept DEF Shares, Launched, tasklets, HostChunk, GetBlock
  <1>5. Distances'
    BY <1>1, InputKept DEF Distances, tasklets
  <1>6. ASSUME NEW h \in HostChunks(blks)
        PROVE  IF Senders(h) = {} THEN dpuDst'[h] = JunkChunk
               ELSE \E dc \in Senders(h) : dpuDst'[h] = buffer[dc[1]][2 * Part + dc[2]]
    <2>1. PICK last \in [Contended -> Dpus \X DpuChunks(blks)] :
            /\ \A g \in Contended : last[g] \in Senders(g)
            /\ dpuDst' = [g \in HostChunks(blks) |->
                 IF Senders(g) = {} THEN dpuDst[g]
                 ELSE LET sender == IF g \in Contended THEN last[g]
                                    ELSE CHOOSE dc \in Senders(g) : TRUE
                      IN  buffer[sender[1]][Addr(DpuTCB.dstPageIdx, sender[2])]]
      BY DEF Reduce
    <2>2. CASE Senders(h) = {}
      BY <1>1, <2>1, <2>2 DEF Outcome
    <2>3. CASE Senders(h) # {}
      <3> DEFINE sender == IF h \in Contended THEN last[h] ELSE CHOOSE dc \in Senders(h) : TRUE
      <3>1. sender \in Senders(h)
        BY <2>1, <2>3
      <3>2. dpuDst'[h] = buffer[sender[1]][Addr(DpuTCB.dstPageIdx, sender[2])]
        BY <2>1, <2>3
      <3> HIDE DEF sender
      <3>3. Addr(DpuTCB.dstPageIdx, sender[2]) = 2 * Part + sender[2]
        <4>1. sender[2] \in DpuChunks(blks)
          BY <3>1 DEF Senders
        <4> QED  BY <4>1, OperandSize, Places
      <3> QED  BY <2>3, <3>1, <3>2, <3>3
    <2> QED  BY <2>2, <2>3
  <1>7. Outcome'
    BY <1>1, <1>6, InputKept DEF Outcome, tasklets, JunkChunk
  <1> QED  BY <1>2, <1>3, <1>4, <1>5, <1>7

\* The CPU computes the reference.
LEMMA ExecCPUStep ==
  ASSUME KernelInv, ExecCPU
  PROVE  KernelInv'
PROOF
  <1> USE DEF KernelInv
  <1>1. /\ UNCHANGED <<input, buffer, args, tasklets, dpuDst>>
        /\ pc = "cpu" /\ pc' = "compare"
        /\ cpuDst' = [h \in HostChunks(blks) |->
             IF h \in LoopChunks THEN CpuChunk(h) ELSE JunkChunk]
    <2>1. \A h \in HostChunks(blks) : cpuDst[h] = JunkChunk
      BY DEF ExecCPU, Outcome
    <2> QED  BY <2>1 DEF ExecCPU
  <1>2. KernelTypes'
    BY <1>1, InputKept DEF KernelTypes, Launched, tasklets
  <1>3. Sources'
    BY <1>1, InputKept DEF Sources, HostChunk, GetBlock
  <1>4. Shares'
    BY <1>1, InputKept DEF Shares, Launched, tasklets, HostChunk, GetBlock
  <1>5. Distances'
    BY <1>1, InputKept DEF Distances, tasklets
  <1>6. Outcome'
    BY <1>1, InputKept DEF Outcome, tasklets, JunkChunk
  <1> QED  BY <1>2, <1>3, <1>4, <1>5, <1>6

\* What holds at every step of the test program of an operator.
THEOREM KernelInvariant == TestSpec => []KernelInv
PROOF
  <1>1. TestInit => KernelInv
    BY KernelInit
  <1>2. KernelInv /\ [TestNext]_testVars => KernelInv'
    <2> SUFFICES ASSUME KernelInv, [TestNext]_testVars  PROVE KernelInv'
      OBVIOUS
    <2>1. CASE Map1
      BY <2>1, Map1Step
    <2>2. CASE Map2
      BY <2>2, Map2Step
    <2>3. CASE Launch
      BY <2>3, LaunchStep
    <2>4. ASSUME NEW x \in Thread, Kernel(x)  PROVE KernelInv'
      BY <2>4, KernelStep
    <2>5. CASE Halted
      BY <2>5, HaltedStep
    <2>6. CASE Reduce
      BY <2>6, ReduceStep
    <2>7. CASE ExecCPU
      BY <2>7, ExecCPUStep
    <2>8. CASE UNCHANGED testVars
      <3> USE DEF KernelInv
      <3>1. UNCHANGED <<input, pc, buffer, args, tasklets, dpuDst, cpuDst>>
        BY <2>8 DEF testVars
      <3>2. KernelTypes'
        BY <3>1, InputKept DEF KernelTypes, tasklets
      <3>3. Sources'
        BY <3>1, InputKept DEF Sources, HostChunk, GetBlock
      <3>4. Shares'
        BY <3>1, InputKept DEF Shares, tasklets, HostChunk, GetBlock
      <3>5. Distances'
        BY <3>1, InputKept DEF Distances, tasklets
      <3>6. Outcome'
        BY <3>1, InputKept DEF Outcome, tasklets, JunkChunk
      <3> QED  BY <3>2, <3>3, <3>4, <3>5, <3>6
    <2> QED  BY <2>1, <2>2, <2>3, <2>4, <2>5, <2>6, <2>7, <2>8 DEF TestNext, TestOver
  <1> QED  BY <1>1, <1>2, PTL DEF TestSpec

\* A chunk that the CPU gets to holds, if it has been gathered from some DPU, what
\* the CPU computes, whichever of several DPUs was the last to send it.
LEMMA GatheredAgrees ==
  ASSUME KernelInv, pc = "compare", op # "EUDIST",
         NEW h \in HostChunks(blks), NEW dc \in Senders(h)
  PROVE  Agrees(buffer[dc[1]][2 * Part + dc[2]], h)
PROOF
  <1> USE DEF KernelInv
  <1> DEFINE d == dc[1]
             c == dc[2]
             x == <<d, c % NrTasklets>>
  <1>1. d \in Dpus /\ c \in DpuChunks(blks) /\ HostChunk(d, c) = h
    BY DEF Senders
  <1> HIDE DEF d, c
  <1>2. x \in Thread /\ c < Part /\ c \in Nat
    BY <1>1, OperandSize, KernelConstants DEF Thread
  <1>3. x[1] = d /\ x[2] = c % NrTasklets
    OBVIOUS
  <1> HIDE DEF x
  <1>4. c < chunk[x]
    <2>1. place[x] = "halt" /\ chunk[x] \in Nat
      BY <1>2 DEF Outcome, KernelTypes
    <2>2. chunk[x] >= Part
      BY <1>2, <2>1 DEF Shares, Launched
    <2> QED  BY <1>2, <2>1, <2>2, OperandSize
  <1> QED  BY <1>1, <1>2, <1>3, <1>4 DEF Shares, Launched, d, c

\* Of every operator but EUDIST, the test finds what the CPU computes in each
\* chunk for which there is a DPU and that the CPU gets to, whatever the number
\* of DPUs, of tasklets, of pages and of page blocks, offsets and bounds that
\* wrap around included, and in whatever order the tasklets run and the DPUs
\* are gathered; the other chunks stay as they were.
THEOREM SidesAgreeAlways == TestSpec => []SidesAgree
PROOF
  <1>1. KernelInv => SidesAgree
    <2> SUFFICES ASSUME KernelInv, pc = "compare", op # "EUDIST",
                        NEW h \in HostChunks(blks), NEW i \in Results,
                        ~(op = "FILTER" /\ i + KernelSize - 1 \notin Items)
                 PROVE  /\ ~Supplied(h) => dpuDst[h][i] = Junk
                        /\ ~Reached(h) => cpuDst[h][i] = Junk
                        /\ Supplied(h) /\ Reached(h) => dpuDst[h][i] = cpuDst[h][i]
      BY DEF SidesAgree
    <2>1. JunkChunk[i] = Junk
      <3>1. i \in Items
        BY KernelConstants DEF Results
      <3> QED  BY <3>1 DEF JunkChunk
    <2>2. KernelTypes /\ (h \in LoopChunks <=> Reached(h)) /\ (Supplied(h) <=> Senders(h) # {})
      BY LoopIs, GatherIs DEF KernelInv
    <2>3. cpuDst[h] = IF Reached(h) THEN CpuChunk(h) ELSE JunkChunk
      BY <2>2 DEF KernelInv, Outcome
    <2>4. CASE ~Supplied(h)
      <3>1. dpuDst[h] = JunkChunk
        BY <2>2, <2>4 DEF KernelInv, Outcome
      <3> QED  BY <2>1, <2>3, <2>4, <3>1
    <2>5. CASE Supplied(h)
      <3>1. PICK dc \in Senders(h) : dpuDst[h] = buffer[dc[1]][2 * Part + dc[2]]
        BY <2>2, <2>5 DEF KernelInv, Outcome
      <3>2. Agrees(dpuDst[h], h)
        BY <3>1, GatheredAgrees
      <3>3. Reached(h) => dpuDst[h][i] = CpuChunk(h)[i]
        BY <2>2, <3>2 DEF Agrees
      <3> QED  BY <2>1, <2>3, <2>5, <3>3
    <2> QED  BY <2>4, <2>5
  <1> QED  BY <1>1, KernelInvariant, PTL

\* Of EUDIST the test finds at most one number per DPU, in its first chunk: the
\* distance of one of that DPU's chunks.
THEOREM EudistIsSomeChunkAlways == TestSpec => []EudistIsSomeChunk
PROOF
  <1>1. KernelInv => EudistIsSomeChunk
    <2> SUFFICES ASSUME KernelInv, pc = "compare", op = "EUDIST",
                        NEW h \in HostChunks(blks), dpuDst[h][0] # Junk
                 PROVE  /\ h \div ChunksPerPage = DpuOf(h) /\ h % ChunksPerPage = 0
                        /\ IsDistance(dpuDst[h][0], DpuOf(h))
      BY DEF EudistIsSomeChunk, IsDistance
    <2> USE DEF KernelInv
    <2>1. JunkChunk[0] = Junk
      BY KernelConstants DEF JunkChunk
    <2>2. PICK dc \in Senders(h) : dpuDst[h] = buffer[dc[1]][2 * Part + dc[2]]
      BY <2>1 DEF Outcome
    <2> DEFINE d == dc[1]
               c == dc[2]
    <2>3. d \in Dpus /\ c \in DpuChunks(blks) /\ HostChunk(d, c) = h
      BY DEF Senders
    <2>4. dpuDst[h] = buffer[d][2 * Part + c]
      BY <2>2
    <2> HIDE DEF d, c
    <2>5. c = 0 /\ IsDistance(dpuDst[h][0], d)
      BY <2>3, <2>4 DEF Distances
    <2>6. /\ h \div ChunksPerPage = ((c \div ChunksPerPage) * BlockPages + d) % WordPages
          /\ h % ChunksPerPage = c % ChunksPerPage
      BY <2>3, Scattered
    <2>7. 0 \div ChunksPerPage = 0 /\ 0 % ChunksPerPage = 0 /\ 0 * BlockPages = 0
      BY KernelConstants
    <2>8. d \in Nat /\ d < BlockPages /\ d < WordPages
      <3>1. allocated \in Nat /\ allocated <= BlockPages
        BY KernelAssumption, KernelConstants DEF KernelTypes
      <3>2. WordPages \in Nat /\ BlockPages <= WordPages
        BY KernelAssumption
      <3> QED  BY <2>3, <3>1, <3>2, KernelConstants DEF Dpus
    <2>9. h \div ChunksPerPage = d /\ h % ChunksPerPage = 0
      <3>1. 0 + d = d /\ d % WordPages = d
        BY <2>8, WrapIs
      <3> QED  BY <2>5, <2>6, <2>7, <3>1
    <2>10. DpuOf(h) = d
      <3>1. d % BlockPages = d
        BY <2>8, KernelConstants
      <3> QED  BY <2>9, <3>1 DEF DpuOf
    <2> QED  BY <2>5, <2>9, <2>10
  <1> QED  BY <1>1, KernelInvariant, PTL

----------------------------------------------------------------------------
(* ChronoTrigger: statistics. *)

Moments == [time : Nat, energy : [Socket -> Nat]]

Numbers == [rep : Nat, mean : Int, variance : Int, upperBound : Int, lowerBound : Int,
            upperBias : Int, lowerBias : Int, sum : Int]

\* The statistics of some data, which lie between the bounds of the data.
StatsInv(s, data) ==
  /\ s \in Numbers /\ s.rep > 0
  /\ IsStatsOf(s, data)
  /\ 0 <= s.lowerBound /\ s.lowerBound <= s.mean /\ s.mean <= s.upperBound
  /\ s.upperBias = s.upperBound - s.mean /\ s.lowerBias = s.mean - s.lowerBound

\* A function over 1..n is a sequence of that length.
LEMMA SeqIs ==
  ASSUME NEW S, NEW n \in Nat, NEW f, f \in [1..n -> S]
  PROVE  f \in Seq(S) /\ Len(f) = n
PROOF
  <1>1. f \in Seq(S)
    OBVIOUS
  <1>2. DOMAIN f = 1..Len(f) /\ Len(f) \in Nat
    BY <1>1
  <1>3. 1..n = 1..Len(f)
    BY <1>2
  <1>4. n = Len(f)
    <2>1. CASE n = 0
      BY <1>2, <1>3, <2>1
    <2>2. CASE n > 0
      BY <1>2, <1>3, <2>2
    <2> QED  BY <2>1, <2>2
  <1> QED  BY <1>1, <1>4

\* The sums over sequences are those of FiniteFolds.
LEMMA SumOfIs ==
  ASSUME NEW data, IsFiniteSet(DOMAIN data)
  PROVE  SumOf(data) = SumOver(data, DOMAIN data)
PROOF
  <1> DEFINE S == DOMAIN data
             Table(g) == g = [s \in SUBSET S |->
                               IF s = {} THEN 0 ELSE data[First(s)] + g[s \ {First(s)}]]
  <1>1. SumOf(data) = (CHOOSE g : Table(g))[S]
    BY DEF SumOf, MapThenSumSet, MapThenFoldSet, First
  <1>2. \A g : Table(g) <=> SumTable(data, S, g)
    BY DEF SumTable
  <1> HIDE DEF Table
  <1>3. (CHOOSE g : Table(g)) = (CHOOSE g : SumTable(data, S, g))
    BY <1>2
  <1> QED  BY <1>1, <1>3 DEF SumOver

\* One more number.
LEMMA SumOneMore ==
  ASSUME NEW n \in Nat, NEW data \in [1..n -> Int], NEW more \in [1..(n + 1) -> Int],
         \A i \in 1..n : more[i] = data[i]
  PROVE  SumOf(data) \in Int /\ SumOf(more) = SumOf(data) + more[n + 1]
PROOF
  <1>1. IsFiniteSet(1..n) /\ IsFiniteSet(1..(n + 1))
    BY FS_Interval
  <1>2. SumOf(data) = SumOver(data, 1..n) /\ SumOf(more) = SumOver(more, 1..(n + 1))
    BY <1>1, SumOfIs
  <1>3. 1..(n + 1) = (1..n) \cup {n + 1} /\ n + 1 \notin 1..n
    OBVIOUS
  <1>4. SumOver(more, (1..n) \cup {n + 1}) = more[n + 1] + SumOver(more, 1..n)
    BY <1>1, <1>3, SumAdd
  <1>5. SumOver(more, 1..n) = SumOver(data, 1..n)
    BY SumSame
  <1>6. SumOver(data, 1..n) \in Int
    BY <1>1, SumTyped
  <1>7. more[n + 1] \in Int
    BY <1>3
  <1>8. SumOver(more, 1..(n + 1)) = more[n + 1] + SumOver(data, 1..n)
    BY <1>3, <1>4, <1>5
  <1> QED  BY <1>2, <1>6, <1>7, <1>8

\* The sum of one number.
LEMMA SumOfOne ==
  ASSUME NEW data \in [1..1 -> Int]
  PROVE  SumOf(data) = data[1]
PROOF
  <1>1. 1..1 = {1} /\ DOMAIN data = {1} /\ data[1] \in Int
    <2>1. \A i \in 1..1 : i = 1
      OBVIOUS
    <2>2. 1 \in 1..1
      OBVIOUS
    <2> QED  BY <2>1, <2>2
  <1>2. IsFiniteSet({1}) /\ IsFiniteSet({})
    BY FS_Singleton, FS_EmptySet
  <1>3. SumOf(data) = SumOver(data, {1})
    BY <1>1, <1>2, SumOfIs
  <1>4. First({1}) \in {1} /\ SumOver(data, {1}) = data[First({1})] + SumOver(data, {1} \ {First({1})})
    BY <1>2, SumUnfolds
  <1>5. First({1}) = 1 /\ {1} \ {1} = {}
    BY <1>4
  <1>6. SumOver(data, {}) = 0
    BY <1>2, SumUnfolds
  <1>7. SumOver(data, {1}) = data[1] + 0
    BY <1>4, <1>5, <1>6
  <1> QED  BY <1>1, <1>3, <1>7

\* Without a rest, division is the inverse of multiplication.
LEMMA DivideExact ==
  ASSUME NEW n \in Nat, n > 0, NEW k \in Int
  PROVE  (n * k) \div n = k
  OBVIOUS

\* A positive factor can be cancelled.
LEMMA Cancel ==
  ASSUME NEW n \in Nat, n > 0, NEW a \in Int, NEW b \in Int, n * a = n * b
  PROVE  a = b
  OBVIOUS

\* A unit that two successive numbers divide is divided by their product.
LEMMA UnitDivides ==
  ASSUME NEW m \in Nat, m > 0, NEW u \in Nat, u % m = 0, u % (m + 1) = 0
  PROVE  \E r \in Int : u = m * ((m + 1) * r)
PROOF
  <1> DEFINE p == u \div m
             q == u \div (m + 1)
  <1>1. p \in Nat /\ u = m * p
    OBVIOUS
  <1>2. q \in Nat /\ u = (m + 1) * q
    OBVIOUS
  <1> HIDE DEF p, q
  <1>3. p = (m + 1) * (p - q)
    BY <1>1, <1>2
  <1>4. p - q \in Int
    BY <1>1, <1>2
  <1> QED  BY <1>1, <1>3, <1>4

\* The fields after one more value.
MeanIs(s, x, n, mean) == n = s.rep + 1 /\ mean = s.mean + (x - s.mean) \div n

AddedIs(a, s, x, n, mean) ==
  /\ a.rep = n /\ a.mean = mean
  /\ a.variance = IF n = 1 THEN s.variance
                  ELSE ((n - 2) * s.variance) \div (n - 1)
                       + ((x - s.mean) * (x - s.mean)) \div n
  /\ a.upperBound = IF x > s.upperBound THEN x ELSE s.upperBound
  /\ a.lowerBound = IF x < s.lowerBound THEN x ELSE s.lowerBound
  /\ a.upperBias = a.upperBound - a.mean /\ a.lowerBias = a.mean - a.lowerBound
  /\ a.sum = s.sum + x
  /\ a.mean \in Int /\ a.variance \in Int => a \in Numbers

\* What Add does to each field.
LEMMA AddIs ==
  ASSUME NEW s \in Numbers, NEW x \in Int, NEW n, NEW mean
  PROVE  MeanIs(s, x, n, mean) => AddedIs(Add(s, x), s, x, n, mean)
PROOF
  <1> DEFINE a == Add(s, x)
             upper == IF x > s.upperBound THEN x ELSE s.upperBound
             lower == IF x < s.lowerBound THEN x ELSE s.lowerBound
             variance == IF n = 1 THEN s.variance
                         ELSE ((n - 2) * s.variance) \div (n - 1)
                              + ((x - s.mean) * (x - s.mean)) \div n
  <1>0. SUFFICES ASSUME n = s.rep + 1, mean = s.mean + (x - s.mean) \div n
                 PROVE  AddedIs(a, s, x, n, mean)
    BY DEF MeanIs
  <1>1. a = [rep |-> n, mean |-> mean, variance |-> variance, upperBound |-> upper,
             lowerBound |-> lower, upperBias |-> upper - mean, lowerBias |-> mean - lower,
             sum |-> s.sum + x]
    BY <1>0, Zenon DEF Add
  <1>2. n \in Nat /\ upper \in Int /\ lower \in Int /\ s.sum + x \in Int
    BY <1>0 DEF Numbers
  <1> HIDE DEF variance, upper, lower, a
  <1>3. /\ a.rep = n /\ a.mean = mean /\ a.variance = variance /\ a.upperBound = upper
        /\ a.lowerBound = lower /\ a.upperBias = upper - mean /\ a.lowerBias = mean - lower
        /\ a.sum = s.sum + x
    BY <1>1
  <1>4. ASSUME mean \in Int, variance \in Int  PROVE a \in Numbers
    <2>1. upper - mean \in Int /\ mean - lower \in Int
      BY <1>2, <1>4
    <2> QED  BY <1>1, <1>2, <1>4, <2>1 DEF Numbers
  <1> QED  BY <1>3, <1>4 DEF variance, upper, lower, AddedIs

\* The first value.
LEMMA AddFirst ==
  ASSUME NEW v \in Nat, Unit * v <= DblMax, NEW data \in [1..1 -> Nat], data[1] = v
  PROVE  StatsInv(Add(NoStats, Unit * v), data)
PROOF
  <1> DEFINE x == Unit * v
             a == Add(NoStats, x)
  <1>1. Unit \in Nat /\ DblMax \in Nat /\ x \in Nat /\ x <= DblMax
    <2>1. Unit \in Nat /\ DblMax \in Nat
      BY ChronoAssumption
    <2> QED  BY <2>1
  <1>2. NoStats \in Numbers
    BY <1>1 DEF NoStats, Numbers
  <1>3. /\ NoStats.rep = 0 /\ NoStats.mean = 0 /\ NoStats.variance = 0 /\ NoStats.sum = 0
        /\ NoStats.upperBound = -DblMax /\ NoStats.lowerBound = DblMax
    BY DEF NoStats
  <1> HIDE DEF x
  <1>0. 1 = NoStats.rep + 1 /\ x = NoStats.mean + (x - NoStats.mean) \div 1
    BY <1>1, <1>3
  <1> HIDE DEF a
  <1>4. /\ a.rep = 1 /\ a.mean = x
        /\ a.variance = NoStats.variance
        /\ a.upperBound = IF x > NoStats.upperBound THEN x ELSE NoStats.upperBound
        /\ a.lowerBound = IF x < NoStats.lowerBound THEN x ELSE NoStats.lowerBound
        /\ a.upperBias = a.upperBound - a.mean /\ a.lowerBias = a.mean - a.lowerBound
        /\ a.sum = NoStats.sum + x
        /\ a.mean \in Int /\ a.variance \in Int => a \in Numbers
    <2>1. MeanIs(NoStats, x, 1, x) /\ x \in Int
      BY <1>0, <1>1 DEF MeanIs
    <2>2. AddedIs(a, NoStats, x, 1, x)
      BY <1>2, <2>1, AddIs, Zenon DEF a
    <2> QED  BY <2>2 DEF AddedIs
  <1>5. /\ a \in Numbers /\ a.rep = 1 /\ a.mean = x /\ a.sum = x /\ a.variance = 0
        /\ a.upperBound = x /\ a.lowerBound = x
    BY <1>1, <1>3, <1>4
  <1> DEFINE squares == [i \in DOMAIN data |-> data[i] * data[i]]
  <1>6. SumOf(data) = v /\ SumOf(squares) = v * v
    <2>3. data \in [1..1 -> Int] /\ squares \in [1..1 -> Int] /\ squares[1] = v * v
      <3>1. 1 \in 1..1 /\ \A i \in 1..1 : data[i] * data[i] \in Int
        OBVIOUS
      <3> QED  BY <3>1
    <2> QED  BY <2>3, SumOfOne
  <1>7. Len(data) = 1
    BY SeqIs
  <1>8. IsStatsOf(a, data)
    <2>1. DOMAIN data = 1..1 /\ \A i \in 1..1 : i = 1
      OBVIOUS
    <2>2. /\ a.sum = Unit * v /\ a.mean * 1 = a.sum
          /\ a.variance * 1 * (1 - 1) = Unit * Unit * (1 * (v * v) - v * v)
      BY <1>1, <1>5 DEF x
    <2>3. Unit * data[1] = x
      BY DEF x
    <2>4. /\ \A i \in DOMAIN data : a.lowerBound <= Unit * data[i] /\ Unit * data[i] <= a.upperBound
          /\ {a.lowerBound, a.upperBound} \subseteq {Unit * data[i] : i \in DOMAIN data}
      <3>1. 1 \in DOMAIN data
        BY <2>1
      <3> HIDE DEF a, x
      <3>2. \A i \in DOMAIN data : Unit * data[i] = x
        BY <2>1, <2>3
      <3> QED  BY <1>1, <1>5, <3>1, <3>2
    <2> HIDE DEF squares
    <2>5. a.rep = 1 /\ SumOf(data) = v /\ SumOf(squares) = v * v
      BY <1>5, <1>6
    <2> QED  BY <1>7, <2>2, <2>4, <2>5, Zenon DEF IsStatsOf, squares
  <1> QED  BY <1>1, <1>4, <1>5, <1>8 DEF StatsInv, a, x

\* The mean and the variance after one more value, in numbers.
OneMore(m, u, S, Q, v, mean, variance, x, new, newer) ==
  /\ m \in Nat /\ m > 0 /\ u \in Nat /\ u > 0 /\ u % m = 0 /\ u % (m + 1) = 0
  /\ S \in Int /\ Q \in Int /\ v \in Nat /\ mean \in Int /\ variance \in Int
  /\ mean * m = u * S /\ variance * m * (m - 1) = u * u * (m * Q - S * S)
  /\ x = u * v
  /\ new = mean + (x - mean) \div (m + 1)
  /\ newer = (((m + 1) - 2) * variance) \div ((m + 1) - 1) + ((x - mean) * (x - mean)) \div (m + 1)

Moved(m, u, S, Q, v, mean, x, new, newer) ==
  /\ new \in Int /\ newer \in Int
  /\ new * (m + 1) = u * (S + v)
  /\ newer * (m + 1) * m = u * u * ((m + 1) * (Q + v * v) - (S + v) * (S + v))
  /\ (mean <= new /\ new <= x) \/ (x <= new /\ new <= mean)

\* The incremental mean, and with it the incremental variance.
LEMMA MeanMoves ==
  ASSUME NEW m, NEW u, NEW S, NEW Q, NEW v, NEW mean, NEW variance, NEW x, NEW new, NEW newer,
         OneMore(m, u, S, Q, v, mean, variance, x, new, newer)
  PROVE  Moved(m, u, S, Q, v, mean, x, new, newer)
PROOF
  <1> USE DEF OneMore
  <1>1. PICK r \in Int : u = m * ((m + 1) * r)
    BY UnitDivides
  <1> DEFINE n == m + 1
             e == m * v - S
             T == m * Q - S * S
  <1>2. n \in Nat /\ n > 0 /\ e \in Int /\ T \in Int /\ m - 1 \in Int
    OBVIOUS
  <1>3. u = m * (n * r) /\ n = m + 1
    BY <1>1
  <1>4. /\ n * (S + v) \in Int
        /\ n * T + e * e = m * (n * (Q + v * v) - (S + v) * (S + v))
        /\ n * S + e = m * (S + v)
    OBVIOUS
  <1>5. m * v - S = e /\ m * Q - S * S = T
    OBVIOUS
  <1> HIDE DEF n, e, T
  <1>6. mean = n * (r * S)
    <2>1. m * mean = m * (n * (r * S))
      BY <1>2, <1>3
    <2>2. n * (r * S) \in Int
      BY <1>2
    <2> QED  BY <2>1, <2>2, Cancel
  <1>7. x - mean = n * (r * e)
    <2>1. x = n * (r * (m * v))
      BY <1>2, <1>3
    <2>2. n * (r * (m * v)) - n * (r * S) = n * (r * (m * v - S))
      BY <1>2
    <2> QED  BY <1>5, <1>6, <2>1, <2>2
  <1>8. new = mean + r * e
    <2>1. r * e \in Int
      BY <1>2
    <2> QED  BY <1>2, <1>3, <1>7, <2>1, DivideExact
  <1>9. new = m * (r * (S + v))
    <2>1. n * (r * S) + r * e = r * (n * S + e)
      BY <1>2
    <2>2. r * (m * (S + v)) = m * (r * (S + v))
      OBVIOUS
    <2> QED  BY <1>4, <1>6, <1>8, <2>1, <2>2
  <1>10. (m - 1) * variance = m * (n * n * r * r * T)
    <2>1. m * ((m - 1) * variance) = m * (m * (n * n * r * r * T))
      <3>1. m * ((m - 1) * variance) = variance * m * (m - 1)
        OBVIOUS
      <3>2. u * u * T = m * (m * (n * n * r * r * T))
        BY <1>2, <1>3
      <3> QED  BY <1>5, <3>1, <3>2
    <2>2. (m - 1) * variance \in Int /\ m * (n * n * r * r * T) \in Int
      BY <1>2
    <2> QED  BY <2>1, <2>2, Cancel
  <1>11. ((m - 1) * variance) \div m = n * n * r * r * T
    <2>1. n * n * r * r * T \in Int
      BY <1>2
    <2> QED  BY <1>10, <2>1, DivideExact
  <1>12. ((x - mean) * (x - mean)) \div n = n * r * r * e * e
    <2>1. (n * (r * e)) * (n * (r * e)) = n * (n * r * r * e * e)
      BY <1>2
    <2>2. n * r * r * e * e \in Int
      BY <1>2
    <2> QED  BY <1>2, <1>7, <2>1, <2>2, DivideExact
  <1>13. newer = n * r * r * (n * T + e * e)
    <2>1. (m + 1) - 2 = m - 1 /\ (m + 1) - 1 = m
      OBVIOUS
    <2>2. newer = ((m - 1) * variance) \div m + ((x - mean) * (x - mean)) \div n
      BY <1>3, <2>1
    <2>3. newer = n * n * r * r * T + n * r * r * e * e
      BY <1>11, <1>12, <2>2
    <2> QED  BY <1>2, <2>3
  <1>14. newer * n * m = u * u * (n * (Q + v * v) - (S + v) * (S + v))
    <2> DEFINE F == n * (Q + v * v) - (S + v) * (S + v)
    <2>1. F \in Int /\ n * T + e * e = m * F
      BY <1>2, <1>4
    <2> HIDE DEF F
    <2>2. newer = n * r * r * (m * F)
      BY <1>13, <2>1
    <2>3. (n * r * r * (m * F)) * n * m = (m * (n * r)) * (m * (n * r)) * F
      BY <1>2, <2>1
    <2>4. newer * n * m = u * u * F
      BY <1>3, <2>2, <2>3
    <2> QED  BY <2>4 DEF F
  <1>15. new * n = u * (S + v)
    BY <1>2, <1>3, <1>9
  <1>16. new \in Int /\ newer \in Int
    <2>1. m * (r * (S + v)) \in Int /\ n * T + e * e \in Int
      BY <1>2
    <2>2. n * r * r * (n * T + e * e) \in Int
      BY <1>2, <2>1
    <2> QED  BY <1>9, <1>13, <2>1, <2>2
  <1>17. (mean <= new /\ new <= x) \/ (x <= new /\ new <= mean)
    <2> DEFINE d == r * e
    <2>1. d \in Int /\ x \in Int /\ x = mean + n * d /\ new = mean + d
      BY <1>2, <1>7, <1>8
    <2> HIDE DEF d
    <2>2. (d >= 0 => d <= n * d) /\ (d <= 0 => n * d <= d)
      BY <1>2, <2>1
    <2>3. n * d \in Int
      BY <1>2, <2>1
    <2>4. m \in Nat /\ n \in Nat /\ mean \in Int
      BY <1>2
    <2> HIDE DEF OneMore
    <2> QED  BY <2>1, <2>2, <2>3, <2>4
  <1> QED  BY <1>3, <1>14, <1>15, <1>16, <1>17 DEF Moved

\* A sequence is a function over its indices.
LEMMA SeqFunction ==
  ASSUME NEW S, NEW q \in Seq(S)
  PROVE  q \in [1..Len(q) -> S] /\ q \in [DOMAIN q -> S]
  OBVIOUS

\* What Add makes of the statistics of some numbers are those of one more.
LEMMA AddMore ==
  ASSUME NEW data \in Seq(Nat), NEW s, StatsInv(s, data), NEW v \in Nat,
         Unit % Len(data) = 0, Unit % (Len(data) + 1) = 0
  PROVE  StatsInv(Add(s, Unit * v), Append(data, v))
PROOF
  <1> DEFINE m == Len(data)
             S == SumOf(data)
             squares == [i \in DOMAIN data |-> data[i] * data[i]]
             Q == SumOf(squares)
             x == Unit * v
             new == s.mean + (x - s.mean) \div (m + 1)
             newer == (((m + 1) - 2) * s.variance) \div ((m + 1) - 1)
                      + ((x - s.mean) * (x - s.mean)) \div (m + 1)
             a == Add(s, x)
             more == Append(data, v)
             moreSquares == [i \in DOMAIN more |-> more[i] * more[i]]
  <1>1. /\ s \in Numbers /\ s.rep > 0 /\ s.rep = m /\ s.sum = Unit * S
        /\ s.mean * m = s.sum
        /\ s.variance * m * (m - 1) = Unit * Unit * (m * Q - S * S)
        /\ \A i \in DOMAIN data : s.lowerBound <= Unit * data[i] /\ Unit * data[i] <= s.upperBound
        /\ {s.lowerBound, s.upperBound} \subseteq {Unit * data[i] : i \in DOMAIN data}
        /\ 0 <= s.lowerBound /\ s.lowerBound <= s.mean /\ s.mean <= s.upperBound
    BY Zenon DEF StatsInv, IsStatsOf
  <1>2. /\ m \in Nat /\ m > 0 /\ DOMAIN data = 1..m /\ \A i \in 1..m : data[i] \in Nat
        /\ Unit % m = 0 /\ Unit % (m + 1) = 0
    <2>1. data \in [1..m -> Nat] /\ DOMAIN data = 1..m /\ m \in Nat
      BY SeqFunction
    <2>2. m > 0
      <3>1. s.rep > 0 /\ s.rep = m
        BY <1>1, Zenon
      <3> QED  BY <3>1
    <2> QED  BY <2>1, <2>2
  <1>3. Unit \in Nat /\ Unit > 0 /\ x \in Nat
    <2>1. Unit \in Nat \ {0}
      BY ChronoAssumption
    <2> QED  BY <2>1
  <1>4. /\ more \in Seq(Nat) /\ Len(more) = m + 1 /\ DOMAIN more = 1..(m + 1)
        /\ more[m + 1] = v /\ \A i \in 1..m : more[i] = data[i]
    BY <1>2
  <1> HIDE DEF more, m
  <1>5. S \in Int /\ SumOf(more) = S + v
    <2>1. more \in [1..(m + 1) -> Int] /\ data \in [1..m -> Int]
      BY <1>2, <1>4
    <2>2. m \in Nat /\ \A i \in 1..m : more[i] = data[i]
      BY <1>2, <1>4
    <2>3. S = SumOf(data) /\ more[m + 1] = v
      BY <1>4
    <2> HIDE DEF S
    <2>4. SumOf(data) \in Int /\ SumOf(more) = SumOf(data) + more[m + 1]
      BY <2>1, <2>2, SumOneMore
    <2> QED  BY <2>3, <2>4
  <1>6. Q \in Int /\ SumOf(moreSquares) = Q + v * v
    <2>1. \A i \in 1..m : data[i] * data[i] \in Int
      BY <1>2
    <2>2. \A i \in 1..(m + 1) : more[i] \in Nat
      BY <1>4
    <2>3. \A i \in 1..(m + 1) : more[i] * more[i] \in Int
      BY <2>2
    <2>4. squares \in [1..m -> Int] /\ moreSquares \in [1..(m + 1) -> Int]
      BY <1>2, <1>4, <2>1, <2>3
    <2>5. \A i \in 1..m : moreSquares[i] = squares[i]
      BY <1>2, <1>4
    <2>6. moreSquares[m + 1] = v * v
      BY <1>2, <1>4
    <2>7. m \in Nat /\ Q = SumOf(squares)
      BY <1>2
    <2> HIDE DEF Q, squares, moreSquares
    <2>8. SumOf(squares) \in Int /\ SumOf(moreSquares) = SumOf(squares) + moreSquares[m + 1]
      BY <2>4, <2>5, <2>7, SumOneMore
    <2> QED  BY <2>6, <2>7, <2>8
  <1> HIDE DEF S, Q, squares, moreSquares
  <1>7. s.mean \in Int /\ s.variance \in Int /\ s.sum \in Int
        /\ s.upperBound \in Int /\ s.lowerBound \in Int
    BY <1>1 DEF Numbers
  <1>8. /\ new \in Int /\ newer \in Int
        /\ new * (m + 1) = Unit * (S + v)
        /\ newer * (m + 1) * m
             = Unit * Unit * ((m + 1) * (Q + v * v) - (S + v) * (S + v))
        /\ (s.mean <= new /\ new <= x) \/ (x <= new /\ new <= s.mean)
    <2>1. s.mean * m = Unit * S
      BY <1>1
    <2>2. x = Unit * v
      OBVIOUS
    <2>3. s.variance * m * (m - 1) = Unit * Unit * (m * Q - S * S)
      BY <1>1
    <2>4. OneMore(m, Unit, S, Q, v, s.mean, s.variance, x, new, newer)
      <3> HIDE DEF x
      <3>1. new = s.mean + (x - s.mean) \div (m + 1)
        OBVIOUS
      <3>2. newer = (((m + 1) - 2) * s.variance) \div ((m + 1) - 1)
                    + ((x - s.mean) * (x - s.mean)) \div (m + 1)
        OBVIOUS
      <3> HIDE DEF new, newer
      <3> QED  BY <1>2, <1>3, <1>5, <1>6, <1>7, <2>1, <2>2, <2>3, <3>1, <3>2, Zenon DEF OneMore
    <2> HIDE DEF x, new, newer
    <2>5. Moved(m, Unit, S, Q, v, s.mean, x, new, newer)
      BY <2>4, MeanMoves, Zenon
    <2> QED  BY <2>5 DEF Moved
  <1>9. AddedIs(a, s, x, m + 1, new)
    <2>1. x \in Int /\ MeanIs(s, x, m + 1, new)
      BY <1>1, <1>3 DEF MeanIs
    <2> HIDE DEF x, new
    <2> QED  BY <1>1, <2>1, AddIs, Zenon
  <1>10. a.variance = newer
    <2>1. m + 1 # 1
      BY <1>2
    <2> HIDE DEF x, a
    <2> QED  BY <1>9, <2>1, Zenon DEF AddedIs
  <1> HIDE DEF a, new, newer
  <1>11. a \in Numbers
    BY <1>8, <1>9, <1>10 DEF AddedIs
  <1>12. /\ a.sum = Unit * SumOf(more) /\ a.mean * (m + 1) = a.sum
         /\ a.variance * (m + 1) * ((m + 1) - 1)
              = Unit * Unit * ((m + 1) * SumOf(moreSquares) - SumOf(more) * SumOf(more))
    <2>1. a.sum = Unit * (S + v)
      <3>1. Unit * S + Unit * v = Unit * (S + v)
        BY <1>3, <1>5
      <3> QED  BY <1>1, <1>9, <3>1 DEF AddedIs
    <2>2. (m + 1) - 1 = m
      BY <1>2
    <2> HIDE DEF x
    <2> QED  BY <1>5, <1>6, <1>8, <1>9, <1>10, <2>1, <2>2 DEF AddedIs
  <1>13. \A i \in DOMAIN more :
           (i \in 1..m /\ Unit * more[i] = Unit * data[i]) \/ (i = m + 1 /\ Unit * more[i] = x)
    <2>1. \A i \in 1..(m + 1) : i \in 1..m \/ i = m + 1
      BY <1>2
    <2> QED  BY <1>4, <2>1
  <1>14. m + 1 \in DOMAIN more /\ 1..m \subseteq DOMAIN more /\ Unit * more[m + 1] = x
    BY <1>2, <1>4
  <1>15. ASSUME NEW i \in DOMAIN more
         PROVE  a.lowerBound <= Unit * more[i] /\ Unit * more[i] <= a.upperBound
    <2>1. CASE i \in 1..m /\ Unit * more[i] = Unit * data[i]
      <3> DEFINE y == Unit * data[i]
      <3>1. y \in Int /\ s.lowerBound <= y /\ y <= s.upperBound
        <4>1. data[i] \in Nat
          BY <1>2, <2>1
        <4> QED  BY <1>1, <1>2, <1>3, <2>1, <4>1
      <3> HIDE DEF y, x
      <3>2. a.lowerBound <= y /\ y <= a.upperBound
        BY <1>3, <1>7, <1>9, <3>1 DEF AddedIs
      <3> QED  BY <2>1, <3>2 DEF y
    <2>2. CASE i = m + 1 /\ Unit * more[i] = x
      <3> HIDE DEF x
      <3> QED  BY <1>3, <1>7, <1>9, <2>2 DEF AddedIs
    <2> QED  BY <1>13, <2>1, <2>2
  <1>16. {a.lowerBound, a.upperBound} \subseteq {Unit * more[i] : i \in DOMAIN more}
    <2>1. {Unit * data[i] : i \in DOMAIN data} \subseteq {Unit * more[i] : i \in DOMAIN more}
      BY <1>2, <1>4, <1>14
    <2>2. x \in {Unit * more[i] : i \in DOMAIN more}
      BY <1>14
    <2> HIDE DEF x
    <2>3. a.lowerBound \in {x, s.lowerBound} /\ a.upperBound \in {x, s.upperBound}
      BY <1>9 DEF AddedIs
    <2> QED  BY <1>1, <2>1, <2>2, <2>3
  <1>17. 0 <= a.lowerBound /\ a.lowerBound <= a.mean /\ a.mean <= a.upperBound
    <2>1. /\ new \in Int /\ a.mean = new
          /\ (s.mean <= new /\ new <= x) \/ (x <= new /\ new <= s.mean)
      BY <1>8, <1>9 DEF AddedIs
    <2>2. 0 <= s.lowerBound /\ s.lowerBound <= s.mean /\ s.mean <= s.upperBound
      BY <1>1
    <2>3. /\ a.upperBound = IF x > s.upperBound THEN x ELSE s.upperBound
          /\ a.lowerBound = IF x < s.lowerBound THEN x ELSE s.lowerBound
      BY <1>9 DEF AddedIs
    <2> HIDE DEF x
    <2> QED  BY <1>3, <1>7, <2>1, <2>2, <2>3
  <1>18. IsStatsOf(a, more)
    <2> HIDE DEF x
    <2>1. a.rep = Len(more)
      BY <1>4, <1>9 DEF AddedIs
    <2> DEFINE Of(k) ==
                 /\ a.mean * k = a.sum
                 /\ a.variance * k * (k - 1)
                      = Unit * Unit * (k * SumOf(moreSquares) - SumOf(more) * SumOf(more))
    <2>2. Of(m + 1)
      BY <1>12
    <2>3. Len(more) = m + 1
      BY <1>4
    <2>4. Of(Len(more))
      <3> HIDE DEF Of
      <3> QED  BY <2>2, <2>3
    <2> QED  BY <1>12, <1>15, <1>16, <2>1, <2>4, Zenon DEF IsStatsOf, moreSquares
  <1>19. a.rep > 0
    BY <1>2, <1>9 DEF AddedIs
  <1>20. StatsInv(a, more)
    BY <1>9, <1>11, <1>17, <1>18, <1>19, Zenon DEF StatsInv, AddedIs
  <1> QED  BY <1>20 DEF a, more, x

\* Add for the numbers gathered before, also when there are none.
LEMMA AddOne ==
  ASSUME NEW data \in Seq(Nat), NEW s, (data = <<>> /\ s = NoStats) \/ StatsInv(s, data),
         NEW v \in Nat, Unit * v <= DblMax,
         data # <<>> => Unit % Len(data) = 0, Unit % (Len(data) + 1) = 0
  PROVE  StatsInv(Add(s, Unit * v), Append(data, v))
PROOF
  <1>1. CASE data = <<>> /\ s = NoStats
    <2> DEFINE one == Append(data, v)
    <2>1. one \in Seq(Nat) /\ Len(one) = 1 /\ one[1] = v
      BY <1>1
    <2>2. one \in [1..1 -> Nat]
      <3>1. one \in [1..Len(one) -> Nat]
        BY <2>1, SeqFunction
      <3> QED  BY <2>1, <3>1
    <2> HIDE DEF one
    <2>3. StatsInv(Add(NoStats, Unit * v), one)
      BY <2>1, <2>2, AddFirst
    <2> QED  BY <1>1, <2>3 DEF one
  <1>2. CASE StatsInv(s, data)
    <2>1. data # <<>>
      <3>1. s.rep > 0 /\ s.rep = Len(data)
        BY <1>2, Zenon DEF StatsInv, IsStatsOf
      <3> QED  BY <3>1
    <2> QED  BY <1>2, <2>1, AddMore
  <1> QED  BY <1>1, <1>2

----------------------------------------------------------------------------
(* ChronoTrigger: reports. *)

\* The report of a task holds the statistics of what was measured for it.
ReportInv(report, readings) ==
  /\ report \in [items : {TRUE}, time : Numbers, energy : [Socket -> Numbers]]
  /\ StatsInv(report.time, Times(readings))
  /\ \A s \in Socket : StatsInv(report.energy[s], Energies(readings, s))

\* The numbers of one metric are those of the readings.
LEMMA MetricsOf ==
  ASSUME NEW readings \in Seq(Moments), NEW reading \in Moments
  PROVE  /\ Times(readings) \in Seq(Nat) /\ Len(Times(readings)) = Len(readings)
         /\ Times(Append(readings, reading)) = Append(Times(readings), reading.time)
         /\ readings = <<>> => Times(readings) = <<>>
         /\ \A s \in Socket :
              /\ Energies(readings, s) \in Seq(Nat) /\ Len(Energies(readings, s)) = Len(readings)
              /\ Energies(Append(readings, reading), s)
                   = Append(Energies(readings, s), reading.energy[s])
              /\ readings = <<>> => Energies(readings, s) = <<>>
PROOF
  <1> DEFINE n == Len(readings)
             more == Append(readings, reading)
  <1>1. /\ n \in Nat /\ DOMAIN readings = 1..n /\ DOMAIN more = 1..(n + 1)
        /\ \A i \in 1..n : more[i] = readings[i] /\ readings[i] \in Moments
        /\ more[n + 1] = reading
    OBVIOUS
  <1>2. \A r \in Moments : r.time \in Nat /\ r.energy \in [Socket -> Nat]
    BY DEF Moments
  <1> HIDE DEF n, more, Moments
  <1>3. /\ Times(readings) \in Seq(Nat) /\ Len(Times(readings)) = n
        /\ Times(more) = Append(Times(readings), reading.time)
    <2> DEFINE t == Times(readings)
    <2>1. t \in [1..n -> Nat] /\ \A i \in 1..n : t[i] = readings[i].time
      BY <1>1, <1>2 DEF Times
    <2>2. Times(more) = [i \in 1..(n + 1) |-> more[i].time]
      BY <1>1 DEF Times
    <2> HIDE DEF t
    <2>3. t \in Seq(Nat) /\ Len(t) = n
      BY <1>1, <2>1, SeqIs
    <2>4. Append(t, reading.time) = [i \in 1..(n + 1) |-> more[i].time]
      <3>1. reading.time \in Nat
        BY <1>2
      <3>2. /\ Append(t, reading.time) \in Seq(Nat)
            /\ DOMAIN Append(t, reading.time) = 1..(n + 1)
            /\ \A i \in 1..n : Append(t, reading.time)[i] = t[i]
            /\ Append(t, reading.time)[n + 1] = reading.time
        BY <2>3, <3>1
      <3>3. \A i \in 1..(n + 1) : Append(t, reading.time)[i] = more[i].time
        BY <1>1, <2>1, <3>2
      <3>4. Append(t, reading.time) \in [1..(n + 1) -> Nat]
        <4>1. Append(t, reading.time) \in [DOMAIN Append(t, reading.time) -> Nat]
          BY <3>2, SeqFunction
        <4> QED  BY <3>2, <4>1
      <3> QED  BY <3>3, <3>4
    <2> QED  BY <2>2, <2>3, <2>4 DEF t
  <1>4. ASSUME NEW s \in Socket
        PROVE  /\ Energies(readings, s) \in Seq(Nat) /\ Len(Energies(readings, s)) = n
               /\ Energies(more, s) = Append(Energies(readings, s), reading.energy[s])
    <2> DEFINE t == Energies(readings, s)
    <2>1. t \in [1..n -> Nat] /\ \A i \in 1..n : t[i] = readings[i].energy[s]
      BY <1>1, <1>2 DEF Energies
    <2>2. Energies(more, s) = [i \in 1..(n + 1) |-> more[i].energy[s]]
      BY <1>1 DEF Energies
    <2> HIDE DEF t
    <2>3. t \in Seq(Nat) /\ Len(t) = n
      BY <1>1, <2>1, SeqIs
    <2>4. Append(t, reading.energy[s]) = [i \in 1..(n + 1) |-> more[i].energy[s]]
      <3>1. reading.energy[s] \in Nat
        BY <1>2
      <3>2. /\ Append(t, reading.energy[s]) \in Seq(Nat)
            /\ DOMAIN Append(t, reading.energy[s]) = 1..(n + 1)
            /\ \A i \in 1..n : Append(t, reading.energy[s])[i] = t[i]
            /\ Append(t, reading.energy[s])[n + 1] = reading.energy[s]
        BY <2>3, <3>1
      <3>3. \A i \in 1..(n + 1) : Append(t, reading.energy[s])[i] = more[i].energy[s]
        BY <1>1, <2>1, <3>2
      <3>4. Append(t, reading.energy[s]) \in [1..(n + 1) -> Nat]
        <4>1. Append(t, reading.energy[s]) \in [DOMAIN Append(t, reading.energy[s]) -> Nat]
          BY <3>2, SeqFunction
        <4> QED  BY <3>2, <4>1
      <3> QED  BY <3>3, <3>4
    <2> QED  BY <2>2, <2>3, <2>4 DEF t
  <1>5. \A q \in Seq(Nat) : Len(q) = 0 => q = <<>>
    OBVIOUS
  <1>6. readings = <<>> => n = 0
    BY DEF n
  <1> QED  BY <1>3, <1>4, <1>5, <1>6 DEF n, more

\* A report put together from its metrics.
LEMMA RecordOf ==
  ASSUME NEW S, NEW t \in S, NEW e \in [Socket -> S], NEW report,
         report = [items |-> TRUE, time |-> t, energy |-> e]
  PROVE  report \in [items : {TRUE}, time : S, energy : [Socket -> S]]
  OBVIOUS

\* A tock keeps a report true to what was measured.
LEMMA AddDataStep ==
  ASSUME NEW readings \in Seq(Moments), NEW reading \in Moments,
         Unit * reading.time <= DblMax, \A s \in Socket : Unit * reading.energy[s] <= DblMax,
         readings # <<>> => Unit % Len(readings) = 0, Unit % (Len(readings) + 1) = 0,
         NEW report, (readings = <<>> /\ report = Fresh) \/ ReportInv(report, readings)
  PROVE  ReportInv(AddData(report, reading), Append(readings, reading))
PROOF
  <1> DEFINE more == Append(readings, reading)
             new == AddData(report, reading)
  <1>0. /\ report = [items |-> TRUE, time |-> report.time, energy |-> report.energy]
        /\ (readings = <<>> /\ report.time = NoStats) \/ StatsInv(report.time, Times(readings))
        /\ \A s \in Socket : \/ readings = <<>> /\ report.energy[s] = NoStats
                             \/ StatsInv(report.energy[s], Energies(readings, s))
    <2>1. CASE readings = <<>> /\ report = Fresh
      BY <2>1 DEF Fresh
    <2>2. CASE ReportInv(report, readings)
      BY <2>2 DEF ReportInv
    <2> QED  BY <2>1, <2>2
  <1>1. new = [items |-> TRUE, time |-> Add(report.time, Unit * reading.time),
               energy |-> [s \in Socket |-> Add(report.energy[s], Unit * reading.energy[s])]]
    <2>1. report.items = TRUE
      BY <1>0
    <2> QED  BY <2>1 DEF AddData
  <1>2. /\ new.items = TRUE
        /\ new.time = Add(report.time, Unit * reading.time)
        /\ new.energy = [s \in Socket |-> Add(report.energy[s], Unit * reading.energy[s])]
    BY <1>1
  <1>3. readings # <<>> \/ readings = <<>>
    OBVIOUS
  <1> HIDE DEF new
  <1>4. StatsInv(new.time, Times(more))
    <2> DEFINE data == Times(readings)
    <2>1. /\ data \in Seq(Nat) /\ Len(data) = Len(readings)
          /\ Times(more) = Append(data, reading.time)
          /\ readings = <<>> => data = <<>>
      BY MetricsOf
    <2>2. reading.time \in Nat /\ Unit * reading.time <= DblMax
      BY DEF Moments
    <2>3. (data = <<>> /\ report.time = NoStats) \/ StatsInv(report.time, data)
      BY <1>0, <2>1
    <2>4. (data # <<>> => Unit % Len(data) = 0) /\ Unit % (Len(data) + 1) = 0
      BY <2>1
    <2>6. new.time = Add(report.time, Unit * reading.time)
      BY <1>2
    <2> HIDE DEF data, more
    <2>5. StatsInv(Add(report.time, Unit * reading.time), Append(data, reading.time))
      BY <2>1, <2>2, <2>3, <2>4, AddOne, Zenon
    <2> QED  BY <2>1, <2>5, <2>6
  <1>5. ASSUME NEW s \in Socket  PROVE StatsInv(new.energy[s], Energies(more, s))
    <2> DEFINE data == Energies(readings, s)
    <2>1. /\ data \in Seq(Nat) /\ Len(data) = Len(readings)
          /\ Energies(more, s) = Append(data, reading.energy[s])
          /\ readings = <<>> => data = <<>>
      BY MetricsOf
    <2>2. reading.energy[s] \in Nat /\ Unit * reading.energy[s] <= DblMax
      BY DEF Moments
    <2>3. (data = <<>> /\ report.energy[s] = NoStats) \/ StatsInv(report.energy[s], data)
      BY <1>0, <2>1
    <2>4. (data # <<>> => Unit % Len(data) = 0) /\ Unit % (Len(data) + 1) = 0
      BY <2>1
    <2> HIDE DEF data, more
    <2>5. StatsInv(Add(report.energy[s], Unit * reading.energy[s]), Append(data, reading.energy[s]))
      BY <2>1, <2>2, <2>3, <2>4, AddOne, Zenon
    <2>6. new.energy[s] = Add(report.energy[s], Unit * reading.energy[s])
      BY <1>2
    <2> QED  BY <2>1, <2>5, <2>6
  <1>6. new \in [items : {TRUE}, time : Numbers, energy : [Socket -> Numbers]]
    <2>1. new.time \in Numbers /\ \A s \in Socket : new.energy[s] \in Numbers
      BY <1>4, <1>5 DEF StatsInv
    <2>2. \A s \in Socket : Add(report.energy[s], Unit * reading.energy[s]) \in Numbers
      BY <1>2, <2>1
    <2>3. new.energy \in [Socket -> Numbers]
      BY <1>2, <2>2
    <2>4. new = [items |-> TRUE, time |-> new.time, energy |-> new.energy]
      BY <1>1, <1>2
    <2> QED  BY <2>1, <2>3, <2>4, RecordOf, Zenon
  <1> QED  BY <1>4, <1>5, <1>6 DEF ReportInv, new

\* What the invariant says of a report is what the property asks.
LEMMA ReportIs ==
  ASSUME NEW report, NEW readings, ReportInv(report, readings)
  PROVE  report.items /\ report # EmptyReport /\ IsReportOf(report, readings)
PROOF
  <1>1. report.items = TRUE
    BY DEF ReportInv
  <1>2. report # EmptyReport
    <2>1. EmptyReport.items = FALSE
      BY DEF EmptyReport
    <2> QED  BY <1>1, <2>1
  <1>3. /\ IsStatsOf(report.time, Times(readings))
        /\ \A s \in Socket : IsStatsOf(report.energy[s], Energies(readings, s))
    BY Zenon DEF ReportInv, StatsInv
  <1> QED  BY <1>1, <1>2, <1>3 DEF IsReportOf

\* What Minus leaves is the statistics of a shifted metric, or nothing.
LEMMA MinusShifts ==
  ASSUME NEW s, NEW bias, NEW data, NEW noise, StatsInv(s, data), StatsInv(bias, noise)
  PROVE  Shifted(Minus(s, bias), bias)
PROOF
  <1>1. /\ s \in Numbers /\ s.rep > 0 /\ s.mean * s.rep = s.sum
        /\ 0 <= s.lowerBound /\ s.lowerBound <= s.mean /\ s.mean <= s.upperBound
        /\ s.upperBias = s.upperBound - s.mean /\ s.lowerBias = s.mean - s.lowerBound
    <2>1. s.rep = Len(data) /\ s.mean * Len(data) = s.sum
      BY Zenon DEF StatsInv, IsStatsOf
    <2> QED  BY <2>1 DEF StatsInv
  <1>2. bias.mean \in Int
    BY DEF StatsInv, Numbers
  <1>3. CASE bias.mean > s.mean
    BY <1>3 DEF Minus, Shifted, NoStats
  <1>4. CASE ~(bias.mean > s.mean)
    <2> DEFINE new == Minus(s, bias)
    <2>1. new = [s EXCEPT !.mean = @ - bias.mean, !.sum = @ - s.rep * bias.mean,
                 !.upperBound = @ - bias.mean, !.lowerBound = @ - bias.mean]
      BY <1>4, Zenon DEF Minus
    <2>2. /\ new.rep = s.rep /\ new.mean = s.mean - bias.mean
          /\ new.sum = s.sum - s.rep * bias.mean
          /\ new.upperBound = s.upperBound - bias.mean
          /\ new.lowerBound = s.lowerBound - bias.mean
          /\ new.upperBias = s.upperBias /\ new.lowerBias = s.lowerBias
      <3>1. DOMAIN s = {"rep", "mean", "variance", "upperBound", "lowerBound",
                        "upperBias", "lowerBias", "sum"}
        BY <1>1 DEF Numbers
      <3> QED  BY <2>1, <3>1
    <2>3. /\ s.rep \in Nat /\ s.mean \in Int /\ s.sum \in Int /\ s.upperBound \in Int
          /\ s.lowerBound \in Int
      BY <1>1 DEF Numbers
    <2> HIDE DEF new
    <2>4. new.mean * new.rep = new.sum
      <3>1. (s.mean - bias.mean) * s.rep = s.mean * s.rep - s.rep * bias.mean
        BY <1>2, <2>3
      <3> QED  BY <1>1, <2>2, <3>1
    <2>5. 0 <= new.mean /\ new.lowerBound <= new.mean /\ new.mean <= new.upperBound
      BY <1>1, <1>2, <1>4, <2>2, <2>3
    <2>6. /\ new.upperBias = new.upperBound - new.mean
          /\ new.lowerBias = new.mean - new.lowerBound
          /\ new.lowerBound + bias.mean >= 0 /\ new.rep # 0
      BY <1>1, <1>2, <2>2, <2>3
    <2>7. Shifted(new, bias)
      BY <2>4, <2>5, <2>6, Zenon DEF Shifted
    <2> QED  BY <2>7 DEF new
  <1> QED  BY <1>3, <1>4

\* A report asked for, or dumped, is corrected consistently.
LEMMA CorrectedShifts ==
  ASSUME NEW report, NEW bias, NEW data, NEW noise,
         ReportInv(report, data), ReportInv(bias, noise),
         NEW c, c = Corrected(report, bias)
  PROVE  /\ Shifted(c.time, bias.time)
         /\ \A s \in Socket : Shifted(c.energy[s], bias.energy[s])
PROOF
  <1>1. report \in [items : {TRUE}, time : Numbers, energy : [Socket -> Numbers]] /\ bias.items
    BY DEF ReportInv
  <1>2. report = [items |-> TRUE, time |-> report.time, energy |-> report.energy]
    BY <1>1
  <1>3. c = [items |-> TRUE, time |-> Minus(report.time, bias.time),
             energy |-> [s \in Socket |-> Minus(report.energy[s], bias.energy[s])]]
    BY <1>1, <1>2 DEF Corrected
  <1>4. /\ c.time = Minus(report.time, bias.time)
        /\ \A s \in Socket : c.energy[s] = Minus(report.energy[s], bias.energy[s])
    BY <1>3
  <1>5. Shifted(Minus(report.time, bias.time), bias.time)
    BY MinusShifts DEF ReportInv
  <1>6. ASSUME NEW s \in Socket
        PROVE  Shifted(Minus(report.energy[s], bias.energy[s]), bias.energy[s])
    BY MinusShifts DEF ReportInv
  <1> QED  BY <1>4, <1>5, <1>6

\* What a tock gathers is what passed since the tick.
LEMMA GatheredIs ==
  ASSUME NEW before \in Moments, NEW reading \in Moments
  PROVE  Gathered(before, Later(before, reading)) = reading /\ Later(before, reading) \in Moments
PROOF
  <1>1. /\ before.time \in Nat /\ reading.time \in Nat
        /\ \A s \in Socket : before.energy[s] \in Nat /\ reading.energy[s] \in Nat
        /\ reading = [time |-> reading.time, energy |-> reading.energy]
        /\ reading.energy = [s \in Socket |-> reading.energy[s]]
    BY DEF Moments
  <1>2. Later(before, reading) =
          [time |-> before.time + reading.time,
           energy |-> [s \in Socket |-> before.energy[s] + reading.energy[s]]]
    BY DEF Later
  <1>3. Later(before, reading) \in Moments
    <2>1. /\ before.time + reading.time \in Nat
          /\ \A s \in Socket : before.energy[s] + reading.energy[s] \in Nat
      BY <1>1
    <2> QED  BY <1>2, <2>1 DEF Moments
  <1>4. Gathered(before, Later(before, reading)) =
          [time |-> (before.time + reading.time) - before.time,
           energy |-> [s \in Socket |-> (before.energy[s] + reading.energy[s]) - before.energy[s]]]
    BY <1>2 DEF Gathered
  <1>5. /\ (before.time + reading.time) - before.time = reading.time
        /\ \A s \in Socket :
             (before.energy[s] + reading.energy[s]) - before.energy[s] = reading.energy[s]
    BY <1>1
  <1>6. [s \in Socket |-> (before.energy[s] + reading.energy[s]) - before.energy[s]] = reading.energy
    BY <1>1, <1>5
  <1> QED  BY <1>1, <1>3, <1>4, <1>5, <1>6

----------------------------------------------------------------------------
(* ChronoTrigger: the calls of a job. *)

CallNames == {"tick", "tock", "getReport", "dump", "clear"}

Names == ({"CPU", "DPU"} \X Size) \cup {<<"HCP", 0>>, Naive, Bias}

Calls == [call : CallNames, name : Names]

\* A tock comes right after the tick of its name.
Paired(p) ==
  \A i \in 2..Len(p) : p[i].call = "tock" => p[i - 1] = Call("tick", p[i].name)

NoClear(p, from, to) == \A k \in from..to : p[k].call # "clear"

\* What is looked at has been measured: before, or by a call that comes first.
Seen(p, M, i) ==
  \/ p[i].name \in M /\ NoClear(p, 1, i - 1)
  \/ \E k \in 1..(i - 1) : p[k] = Call("tock", p[i].name) /\ NoClear(p, k + 1, i - 1)

Looked(p, M) ==
  \A i \in 1..Len(p) :
    /\ p[i].call \in {"getReport", "dump"} => Seen(p, M, i)
    /\ p[i].call = "dump" => p[i].name = Bias

Segment(p, M) ==
  /\ p \in Seq(Calls) /\ Paired(p) /\ Looked(p, M)
  /\ p # <<>> => p[1].call # "tock"

\* p has at most k tocks of name.
Fuel(p, name, k) ==
  \E left \in [1..(Len(p) + 1) -> Nat] :
    /\ left[1] <= k
    /\ \A i \in 1..Len(p) :
         left[i + 1] + (IF p[i] = Call("tock", name) THEN 1 ELSE 0) <= left[i]

\* A call has the kind and the name it was made with.
LEMMA CallIs ==
  ASSUME NEW c, NEW n
  PROVE  /\ Call(c, n).call = c /\ Call(c, n).name = n
         /\ c \in CallNames /\ n \in Names => Call(c, n) \in Calls
  BY DEF Calls, Call

\* Each call is made of its kind and its name.
LEMMA CallOf ==
  ASSUME NEW c \in Calls
  PROVE  c.call \in CallNames /\ c.name \in Names /\ c = Call(c.call, c.name)
  BY DEF Calls, Call

\* The calls that remain, one by one.
LEMMA TailOf ==
  ASSUME NEW p \in Seq(Calls), p # <<>>
  PROVE  /\ Len(p) \in Nat /\ Len(p) >= 1 /\ Head(p) = p[1] /\ p[1] \in Calls
         /\ Tail(p) \in Seq(Calls) /\ Len(Tail(p)) = Len(p) - 1
         /\ \A i \in 1..Len(Tail(p)) : Tail(p)[i] = p[i + 1]
  OBVIOUS

\* The calls that remain are paired, but for a first tock whose tick was made.
LEMMA PairedTail ==
  ASSUME NEW p \in Seq(Calls), p # <<>>, Paired(p)
  PROVE  /\ Paired(Tail(p))
         /\ Tail(p) # <<>> /\ Head(Tail(p)).call = "tock" =>
              p[1] = Call("tick", Head(Tail(p)).name)
PROOF
  <1> DEFINE q == Tail(p)
  <1>1. /\ Len(p) \in Nat /\ Len(p) >= 1 /\ q \in Seq(Calls) /\ Len(q) = Len(p) - 1
        /\ \A i \in 1..Len(q) : q[i] = p[i + 1]
    BY TailOf
  <1> HIDE DEF q
  <1>2. ASSUME NEW i \in 2..Len(q), q[i].call = "tock"
        PROVE  q[i - 1] = Call("tick", q[i].name)
    <2>1. /\ i + 1 \in 2..Len(p) /\ q[i] = p[i + 1] /\ i - 1 \in 1..Len(q)
          /\ (i - 1) + 1 = i /\ (i + 1) - 1 = i
      BY <1>1
    <2>2. q[i - 1] = p[i]
      BY <1>1, <2>1
    <2> QED  BY <1>2, <2>1, <2>2 DEF Paired
  <1>3. ASSUME q # <<>>, Head(q).call = "tock"
        PROVE  p[1] = Call("tick", Head(q).name)
    <2>1. Len(q) >= 1 /\ Head(q) = q[1]
      BY <1>1, <1>3
    <2>2. 2 \in 2..Len(p) /\ q[1] = p[2] /\ 2 - 1 = 1
      BY <1>1, <2>1
    <2> QED  BY <1>3, <2>1, <2>2 DEF Paired
  <1> QED  BY <1>2, <1>3 DEF Paired, q

\* What a call measures may be looked at by those that remain.
LEMMA LookedTail ==
  ASSUME NEW p \in Seq(Calls), p # <<>>, NEW M, Looked(p, M), NEW N,
         p[1].call = "tock" => p[1].name \in N,
         p[1].call # "clear" => M \subseteq N
  PROVE  Looked(Tail(p), N)
PROOF
  <1> DEFINE q == Tail(p)
  <1>1. /\ Len(p) \in Nat /\ Len(p) >= 1 /\ Len(q) = Len(p) - 1
        /\ \A i \in 1..Len(q) : q[i] = p[i + 1]
    BY TailOf
  <1> HIDE DEF q
  <1>2. ASSUME NEW i \in 1..Len(q)
        PROVE  /\ q[i].call \in {"getReport", "dump"} => Seen(q, N, i)
               /\ q[i].call = "dump" => q[i].name = Bias
    <2>1. i + 1 \in 1..Len(p) /\ q[i] = p[i + 1] /\ (i + 1) - 1 = i
      BY <1>1
    <2>2. \A k \in 1..(i - 1) : k \in 1..Len(q) /\ q[k] = p[k + 1] /\ k + 1 \in 1..i
      BY <1>1
    <2>3. q[i].call = "dump" => q[i].name = Bias
      BY <2>1 DEF Looked
    <2>4. ASSUME q[i].call \in {"getReport", "dump"}
          PROVE  Seen(q, N, i)
      <3>1. Seen(p, M, i + 1)
        BY <2>1, <2>4 DEF Looked
      <3>2. CASE q[i].name \in M /\ NoClear(p, 1, i)
        <4>1. p[1].call # "clear"
          <5>1. 1 \in 1..i
            BY <1>1
          <5>2. \A k \in 1..i : p[k].call # "clear"
            BY <3>2, Zenon DEF NoClear
          <5> QED  BY <5>1, <5>2, Zenon
        <4>2. NoClear(q, 1, i - 1)
          BY <2>2, <3>2 DEF NoClear
        <4> QED  BY <3>2, <4>1, <4>2 DEF Seen
      <3>3. ASSUME NEW k \in 1..i, p[k] = Call("tock", q[i].name), NoClear(p, k + 1, i)
            PROVE  Seen(q, N, i)
        <4>1. CASE k = 1
          <5>1. p[1].call = "tock" /\ p[1].name = q[i].name
            BY <3>3, <4>1, CallIs
          <5>2. NoClear(q, 1, i - 1)
            <6>1. \A j \in 1..(i - 1) : j + 1 \in (k + 1)..i
              BY <1>1, <4>1
            <6> QED  BY <2>2, <3>3, <6>1 DEF NoClear
          <5> QED  BY <5>1, <5>2 DEF Seen
        <4>2. CASE k # 1
          <5>1. k - 1 \in 1..(i - 1) /\ (k - 1) + 1 = k
            BY <1>1, <4>2
          <5>2. q[k - 1] = Call("tock", q[i].name)
            BY <2>2, <3>3, <5>1
          <5>3. NoClear(q, k, i - 1)
            <6>1. \A j \in k..(i - 1) : j \in 1..(i - 1) /\ j + 1 \in (k + 1)..i
              BY <1>1
            <6> QED  BY <2>2, <3>3, <6>1 DEF NoClear
          <5> QED  BY <5>1, <5>2, <5>3 DEF Seen
        <4> QED  BY <4>1, <4>2
      <3> QED  BY <2>1, <3>1, <3>2, <3>3 DEF Seen
    <2> QED  BY <2>3, <2>4
  <1> QED  BY <1>2 DEF Looked, q

\* A tock takes one from the tocks of its name.
LEMMA FuelTail ==
  ASSUME NEW p \in Seq(Calls), p # <<>>, NEW name, NEW k \in Nat, Fuel(p, name, k)
  PROVE  \E j \in Nat : /\ Fuel(Tail(p), name, j)
                        /\ j + (IF p[1] = Call("tock", name) THEN 1 ELSE 0) <= k
PROOF
  <1> DEFINE q == Tail(p)
  <1>1. /\ Len(p) \in Nat /\ Len(p) >= 1 /\ Len(q) = Len(p) - 1
        /\ \A i \in 1..Len(q) : q[i] = p[i + 1]
    BY TailOf
  <1> HIDE DEF q
  <1>2. PICK left \in [1..(Len(p) + 1) -> Nat] :
          /\ left[1] <= k
          /\ \A i \in 1..Len(p) :
               left[i + 1] + (IF p[i] = Call("tock", name) THEN 1 ELSE 0) <= left[i]
    BY DEF Fuel
  <1> DEFINE rest == [i \in 1..(Len(q) + 1) |-> left[i + 1]]
  <1>3. rest \in [1..(Len(q) + 1) -> Nat]
    <2>1. \A i \in 1..(Len(q) + 1) : i + 1 \in 1..(Len(p) + 1)
      BY <1>1
    <2> QED  BY <2>1
  <1>4. \A i \in 1..Len(q) :
          rest[i + 1] + (IF q[i] = Call("tock", name) THEN 1 ELSE 0) <= rest[i]
    <2>1. \A i \in 1..Len(q) :
            /\ i + 1 \in 1..Len(p) /\ i + 1 \in 1..(Len(q) + 1) /\ i \in 1..(Len(q) + 1)
            /\ q[i] = p[i + 1]
      BY <1>1
    <2> QED  BY <1>2, <2>1
  <1>5. 1 \in 1..(Len(q) + 1) /\ 2 \in 1..(Len(p) + 1) /\ 1 \in 1..(Len(p) + 1) /\ 1 \in 1..Len(p)
    BY <1>1
  <1>6. rest[1] = left[2] /\ left[2] \in Nat /\ left[1] \in Nat
    BY <1>5
  <1>7. left[2] + (IF p[1] = Call("tock", name) THEN 1 ELSE 0) <= left[1]
    BY <1>2, <1>5
  <1>8. Fuel(q, name, left[2])
    <2> HIDE DEF rest
    <2>1. rest[1] <= left[2]
      BY <1>6
    <2> QED  BY <1>3, <1>4, <2>1 DEF Fuel
  <1>9. left[2] + (IF p[1] = Call("tock", name) THEN 1 ELSE 0) <= k
    BY <1>2, <1>6, <1>7
  <1> QED  BY <1>6, <1>8, <1>9 DEF q

\* The calls of one sequence, then those of another.
LEMMA Joined ==
  ASSUME NEW p \in Seq(Calls), NEW q \in Seq(Calls)
  PROVE  /\ p \o q \in Seq(Calls) /\ Len(p \o q) = Len(p) + Len(q)
         /\ Len(p) \in Nat /\ Len(q) \in Nat
         /\ \A i \in 1..Len(p) : (p \o q)[i] = p[i]
         /\ \A i \in 1..Len(q) : (p \o q)[Len(p) + i] = q[i]
         /\ \A i \in 1..(Len(p) + Len(q)) :
              i \in 1..Len(p) \/ \E j \in 1..Len(q) : i = Len(p) + j
PROOF
  <1>1. /\ p \o q \in Seq(Calls) /\ Len(p \o q) = Len(p) + Len(q)
        /\ Len(p) \in Nat /\ Len(q) \in Nat
        /\ \A i \in 1..Len(p) : (p \o q)[i] = p[i]
        /\ \A i \in 1..Len(q) : (p \o q)[Len(p) + i] = q[i]
    OBVIOUS
  <1>2. ASSUME NEW i \in 1..(Len(p) + Len(q)), i \notin 1..Len(p)
        PROVE  i - Len(p) \in 1..Len(q) /\ i = Len(p) + (i - Len(p))
    BY <1>1, <1>2
  <1> QED  BY <1>1, <1>2

\* Parts of a job, one after the other: the second may look at what the first
\* has measured, or what had been measured before if the first does not clear.
LEMMA PartJoins ==
  ASSUME NEW p, NEW q, NEW M, NEW N, Segment(p, M), Segment(q, N),
         \A name \in N : /\ NoClear(p, 1, Len(p))
                         /\ name \in M \/ \E k \in 1..Len(p) : p[k] = Call("tock", name)
  PROVE  Segment(p \o q, M)
PROOF
  <1> DEFINE r == p \o q
             m == Len(p)
             n == Len(q)
  <1>0. /\ p \in Seq(Calls) /\ Paired(p) /\ Looked(p, M) /\ (p # <<>> => p[1].call # "tock")
        /\ q \in Seq(Calls) /\ Paired(q) /\ Looked(q, N) /\ (q # <<>> => q[1].call # "tock")
    BY DEF Segment
  <1>1. /\ r \in Seq(Calls) /\ Len(r) = m + n /\ m \in Nat /\ n \in Nat
        /\ \A i \in 1..m : r[i] = p[i]
        /\ \A i \in 1..n : r[m + i] = q[i]
        /\ \A i \in 1..(m + n) : i \in 1..m \/ \E j \in 1..n : i = m + j
    BY <1>0, Joined, Zenon
  <1>2. (m > 0 => p # <<>>) /\ (n > 0 => q # <<>>)
    BY <1>0
  <1>3. \A name \in N : NoClear(p, 1, m) /\ (name \in M \/ \E k \in 1..m : p[k] = Call("tock", name))
    OBVIOUS
  <1> HIDE DEF r, m, n
  <1>4. Paired(r)
    <2>1. ASSUME NEW i \in 2..(m + n), r[i].call = "tock"
          PROVE  r[i - 1] = Call("tick", r[i].name)
      <3>1. CASE i \in 1..m
        <4>1. i \in 2..m /\ i - 1 \in 1..m
          BY <1>1, <3>1
        <4> QED  BY <1>0, <1>1, <2>1, <3>1, <4>1 DEF Paired, m
      <3>2. ASSUME NEW j \in 1..n, i = m + j
            PROVE  r[i - 1] = Call("tick", r[i].name)
        <4>1. r[i] = q[j]
          BY <1>1, <3>2
        <4>2. j # 1
          <5>1. 1 \in 1..n /\ n > 0 => q[1].call # "tock"
            BY <1>0, <1>2
          <5> QED  BY <1>1, <2>1, <4>1, <5>1
        <4>3. j \in 2..n /\ j - 1 \in 1..n /\ i - 1 = m + (j - 1)
          BY <1>1, <3>2, <4>2
        <4>4. r[i - 1] = q[j - 1]
          BY <1>1, <4>3
        <4> QED  BY <1>0, <2>1, <4>1, <4>3, <4>4 DEF Paired, n
      <3>3. i \in 1..(m + n)
        BY <1>1
      <3> QED  BY <1>1, <3>1, <3>2, <3>3
    <2> QED  BY <1>1, <2>1 DEF Paired
  <1>5. Looked(r, M)
    <2>1. ASSUME NEW i \in 1..m
          PROVE  /\ r[i].call \in {"getReport", "dump"} => Seen(r, M, i)
                 /\ r[i].call = "dump" => r[i].name = Bias
      <3>1. r[i] = p[i] /\ \A k \in 1..(i - 1) : k \in 1..m /\ r[k] = p[k]
        BY <1>1
      <3>2. \A k \in 1..(i - 1) : (k + 1)..(i - 1) \subseteq 1..(i - 1)
        OBVIOUS
      <3>3. Seen(p, M, i) => Seen(r, M, i)
        BY <3>1, <3>2 DEF Seen, NoClear
      <3> QED  BY <1>0, <3>1, <3>3 DEF Looked, m
    <2>2. ASSUME NEW j \in 1..n
          PROVE  /\ r[m + j].call \in {"getReport", "dump"} => Seen(r, M, m + j)
                 /\ r[m + j].call = "dump" => r[m + j].name = Bias
      <3>1. r[m + j] = q[j] /\ \A k \in 1..(j - 1) : k \in 1..n /\ r[m + k] = q[k]
        BY <1>1
      <3>2. \A i \in 1..((m + j) - 1) : i \in 1..m \/ \E k \in 1..(j - 1) : i = m + k
        <4>1. ASSUME NEW i \in 1..((m + j) - 1), i \notin 1..m
              PROVE  i - m \in 1..(j - 1) /\ i = m + (i - m)
          BY <1>1, <4>1
        <4> QED  BY <4>1
      <3>3. ASSUME q[j].name \in N, NoClear(q, 1, j - 1)
            PROVE  Seen(r, M, m + j)
        <4>1. \A i \in 1..((m + j) - 1) : r[i].call # "clear"
          <5>1. \A i \in 1..m : p[i].call # "clear"
            BY <1>3, <3>3 DEF NoClear
          <5>2. \A k \in 1..(j - 1) : q[k].call # "clear"
            BY <3>3 DEF NoClear
          <5>3. \A k \in 1..(j - 1) : r[m + k] = q[k]
            BY <3>1
          <5>4. ASSUME NEW i \in 1..m  PROVE r[i].call # "clear"
            BY <1>1, <5>1, <5>4, Zenon
          <5>5. ASSUME NEW k \in 1..(j - 1)  PROVE r[m + k].call # "clear"
            BY <5>2, <5>3, <5>5, Zenon
          <5> QED  BY <3>2, <5>4, <5>5, Zenon
        <4>2. CASE q[j].name \in M
          BY <3>1, <4>1, <4>2 DEF Seen, NoClear
        <4>3. ASSUME NEW k \in 1..m, p[k] = Call("tock", q[j].name)
              PROVE  Seen(r, M, m + j)
          <5>1. k \in 1..((m + j) - 1) /\ (k + 1)..((m + j) - 1) \subseteq 1..((m + j) - 1)
            BY <1>1
          <5>2. r[k] = Call("tock", r[m + j].name)
            BY <1>1, <3>1, <4>3
          <5>3. NoClear(r, k + 1, (m + j) - 1)
            BY <4>1, <5>1 DEF NoClear
          <5> QED  BY <5>1, <5>2, <5>3 DEF Seen
        <4> QED  BY <1>3, <3>3, <4>2, <4>3
      <3>4. ASSUME NEW k \in 1..(j - 1), q[k] = Call("tock", q[j].name), NoClear(q, k + 1, j - 1)
            PROVE  Seen(r, M, m + j)
        <4>1. m + k \in 1..((m + j) - 1) /\ r[m + k] = Call("tock", r[m + j].name)
          BY <1>1, <3>1, <3>4
        <4>2. ASSUME NEW i \in (m + k + 1)..((m + j) - 1)
              PROVE  r[i].call # "clear"
          <5>1. i - m \in (k + 1)..(j - 1) /\ i - m \in 1..(j - 1) /\ i = m + (i - m)
            BY <1>1
          <5> QED  BY <3>1, <3>4, <5>1 DEF NoClear
        <4>3. NoClear(r, (m + k) + 1, (m + j) - 1)
          BY <4>2 DEF NoClear
        <4> QED  BY <4>1, <4>3 DEF Seen
      <3>5. q[j].call \in {"getReport", "dump"} => Seen(q, N, j)
        BY <1>0 DEF Looked, n
      <3>6. q[j].call = "dump" => q[j].name = Bias
        BY <1>0 DEF Looked, n
      <3> QED  BY <3>1, <3>3, <3>4, <3>5, <3>6 DEF Seen
    <2>3. ASSUME NEW i \in 1..(m + n)
          PROVE  /\ r[i].call \in {"getReport", "dump"} => Seen(r, M, i)
                 /\ r[i].call = "dump" => r[i].name = Bias
      BY <1>1, <2>1, <2>2, Zenon
    <2> QED  BY <1>1, <2>3 DEF Looked
  <1>6. r # <<>> => r[1].call # "tock"
    <2>1. CASE m > 0
      BY <1>0, <1>1, <1>2, <2>1
    <2>2. CASE m = 0 /\ n > 0
      <3>1. 1 \in 1..n /\ m + 1 = 1
        BY <1>1, <2>2
      <3> QED  BY <1>0, <1>1, <1>2, <2>2, <3>1
    <2>3. CASE m = 0 /\ n = 0
      BY <1>1, <2>3
    <2> QED  BY <1>1, <2>1, <2>2, <2>3
  <1> QED  BY <1>1, <1>4, <1>5, <1>6 DEF Segment, r

\* More having been measured does no harm.
LEMMA PartMore ==
  ASSUME NEW p, NEW M, NEW N, Segment(p, M), M \subseteq N
  PROVE  Segment(p, N)
PROOF
  <1>1. Looked(p, N)
    BY DEF Segment, Looked, Seen
  <1> QED  BY <1>1 DEF Segment

\* The tocks of two sequences add up.
LEMMA FuelJoins ==
  ASSUME NEW p \in Seq(Calls), NEW q \in Seq(Calls), NEW name,
         NEW a \in Nat, NEW b \in Nat, Fuel(p, name, a), Fuel(q, name, b)
  PROVE  Fuel(p \o q, name, a + b)
PROOF
  <1> DEFINE r == p \o q
             m == Len(p)
             n == Len(q)
  <1>1. /\ r \in Seq(Calls) /\ Len(r) = m + n /\ m \in Nat /\ n \in Nat
        /\ \A i \in 1..m : r[i] = p[i]
        /\ \A i \in 1..n : r[m + i] = q[i]
        /\ \A i \in 1..(m + n) : i \in 1..m \/ \E j \in 1..n : i = m + j
    BY Joined, Zenon
  <1>2. PICK f \in [1..(m + 1) -> Nat] :
          /\ f[1] <= a
          /\ \A i \in 1..m :
               f[i + 1] + (IF p[i] = Call("tock", name) THEN 1 ELSE 0) <= f[i]
    BY DEF Fuel
  <1>3. PICK g \in [1..(n + 1) -> Nat] :
          /\ g[1] <= b
          /\ \A i \in 1..n :
               g[i + 1] + (IF q[i] = Call("tock", name) THEN 1 ELSE 0) <= g[i]
    BY DEF Fuel
  <1> HIDE DEF r, m, n
  <1> DEFINE h == [i \in 1..((m + n) + 1) |-> IF i \in 1..m THEN f[i] + b ELSE g[i - m]]
  <1>4. h \in [1..((m + n) + 1) -> Nat]
    <2>1. ASSUME NEW i \in 1..((m + n) + 1)
          PROVE  (IF i \in 1..m THEN f[i] + b ELSE g[i - m]) \in Nat
      <3>1. CASE i \in 1..m
        <4>1. i \in 1..(m + 1)
          BY <1>1, <3>1
        <4> QED  BY <3>1, <4>1
      <3>2. CASE i \notin 1..m
        <4>1. i - m \in 1..(n + 1)
          BY <1>1, <3>2
        <4> QED  BY <3>2, <4>1
      <3> QED  BY <3>1, <3>2
    <2> QED  BY <2>1
  <1>5. /\ \A i \in 1..m : h[i] = f[i] + b
        /\ \A j \in 1..(n + 1) : h[m + j] = g[j]
    <2>1. \A i \in 1..m : i \in 1..((m + n) + 1)
      BY <1>1
    <2>2. \A j \in 1..(n + 1) : m + j \in 1..((m + n) + 1) /\ m + j \notin 1..m /\ (m + j) - m = j
      BY <1>1
    <2> QED  BY <2>1, <2>2
  <1> HIDE DEF h
  <1>6. h[1] <= a + b
    <2>1. 1 \in 1..(n + 1) /\ 1 \in 1..(m + 1)
      BY <1>1
    <2>2. CASE m = 0
      <3>1. h[1] = g[1]
        BY <1>5, <2>1, <2>2
      <3> QED  BY <1>3, <2>1, <3>1
    <2>3. CASE m > 0
      <3>1. h[1] = f[1] + b
        BY <1>1, <1>5, <2>3
      <3> QED  BY <1>2, <2>1, <3>1
    <2> QED  BY <1>1, <2>2, <2>3
  <1>7. ASSUME NEW i \in 1..(m + n)
        PROVE  h[i + 1] + (IF r[i] = Call("tock", name) THEN 1 ELSE 0) <= h[i]
    <2>1. CASE i \in 1..m
      <3>1. h[i] = f[i] + b /\ r[i] = p[i] /\ i \in 1..(m + 1) /\ i + 1 \in 1..(m + 1)
        BY <1>1, <1>5, <2>1
      <3>2. f[i + 1] + (IF p[i] = Call("tock", name) THEN 1 ELSE 0) <= f[i]
        BY <1>2, <2>1
      <3>3. f[i] \in Nat /\ f[i + 1] \in Nat
        BY <3>1
      <3>4. h[i + 1] \in Nat /\ h[i + 1] <= f[i + 1] + b
        <4>1. CASE i + 1 \in 1..m
          BY <1>5, <3>3, <4>1
        <4>2. CASE i = m
          <5>1. 1 \in 1..(n + 1)
            BY <1>1
          <5>2. h[i + 1] = g[1] /\ g[1] \in Nat
            BY <1>5, <4>2, <5>1
          <5> QED  BY <1>3, <3>3, <5>2
        <4> QED  BY <1>1, <2>1, <4>1, <4>2
      <3> QED  BY <3>1, <3>2, <3>3, <3>4
    <2>2. ASSUME NEW j \in 1..n, i = m + j
          PROVE  h[i + 1] + (IF r[i] = Call("tock", name) THEN 1 ELSE 0) <= h[i]
      <3>1. j \in 1..(n + 1) /\ j + 1 \in 1..(n + 1) /\ i + 1 = m + (j + 1)
        BY <1>1, <2>2
      <3>2. h[i] = g[j] /\ h[i + 1] = g[j + 1] /\ r[i] = q[j]
        BY <1>1, <1>5, <2>2, <3>1
      <3> QED  BY <1>3, <3>2
    <2> QED  BY <1>1, <2>1, <2>2
  <1>8. Fuel(r, name, a + b)
    BY <1>1, <1>4, <1>6, <1>7 DEF Fuel
  <1> QED  BY <1>8 DEF r

\* A bound on the tocks may be raised.
LEMMA FuelMore ==
  ASSUME NEW p \in Seq(Calls), NEW name, NEW a \in Nat, NEW b \in Nat, a <= b, Fuel(p, name, a)
  PROVE  Fuel(p, name, b)
PROOF
  <1>1. PICK left \in [1..(Len(p) + 1) -> Nat] :
          /\ left[1] <= a
          /\ \A i \in 1..Len(p) :
               left[i + 1] + (IF p[i] = Call("tock", name) THEN 1 ELSE 0) <= left[i]
    BY DEF Fuel
  <1>2. left[1] <= b
    <2>1. 1 \in 1..(Len(p) + 1)
      OBVIOUS
    <2>2. left[1] \in Nat
      BY <2>1
    <2> QED  BY <1>1, <2>2
  <1> QED  BY <1>1, <1>2 DEF Fuel

\* Calls without a tock of the name.
LEMMA NoFuel ==
  ASSUME NEW p \in Seq(Calls), NEW name, \A i \in 1..Len(p) : p[i] # Call("tock", name)
  PROVE  Fuel(p, name, 0)
PROOF
  <1> DEFINE none == [i \in 1..(Len(p) + 1) |-> 0]
  <1>1. none \in [1..(Len(p) + 1) -> Nat] /\ Len(p) \in Nat
    OBVIOUS
  <1>2. /\ none[1] = 0
        /\ \A i \in 1..Len(p) : none[i + 1] = 0 /\ none[i] = 0
    BY <1>1
  <1> HIDE DEF none
  <1>3. none[1] <= 0
    BY <1>2
  <1>4. \A i \in 1..Len(p) :
          none[i + 1] + (IF p[i] = Call("tock", name) THEN 1 ELSE 0) <= none[i]
    BY <1>2
  <1> QED  BY <1>1, <1>3, <1>4 DEF Fuel

\* No calls at all.
LEMMA NoCalls ==
  ASSUME NEW M
  PROVE  Segment(<<>>, M) /\ \A n : Fuel(<<>>, n, 0)
PROOF
  <1>1. Segment(<<>>, M)
    BY DEF Segment, Paired, Looked
  <1>2. ASSUME NEW n  PROVE Fuel(<<>>, n, 0)
    <2>1. <<>> \in Seq(Calls) /\ \A i \in 1..Len(<<>>) : FALSE
      OBVIOUS
    <2> QED  BY <2>1, NoFuel
  <1> QED  BY <1>1, <1>2

\* One call that is no tock.
LEMMA OneCall ==
  ASSUME NEW c \in CallNames, c # "tock", NEW name \in Names, NEW M, name \in M,
         c = "dump" => name = Bias
  PROVE  /\ Segment(<<Call(c, name)>>, M)
         /\ \A n : Fuel(<<Call(c, name)>>, n, 0)
         /\ c # "clear" => NoClear(<<Call(c, name)>>, 1, Len(<<Call(c, name)>>))
PROOF
  <1> DEFINE p == <<Call(c, name)>>
  <1>1. Call(c, name) \in Calls /\ Call(c, name).call = c /\ Call(c, name).name = name
    BY CallIs
  <1>2. p \in Seq(Calls) /\ Len(p) = 1 /\ p[1] = Call(c, name) /\ \A i \in 1..1 : i = 1
    BY <1>1
  <1> HIDE DEF p
  <1>3. Paired(p)
    BY <1>2 DEF Paired
  <1>4. Looked(p, M)
    <2>1. Seen(p, M, 1)
      BY <1>1, <1>2 DEF Seen, NoClear
    <2> QED  BY <1>1, <1>2, <2>1 DEF Looked
  <1>5. \A n : p[1] # Call("tock", n)
    BY <1>1, <1>2, CallIs
  <1>6. \A n : Fuel(p, n, 0)
    BY <1>2, <1>5, NoFuel
  <1>7. c # "clear" => NoClear(p, 1, Len(p))
    BY <1>1, <1>2 DEF NoClear
  <1> QED  BY <1>1, <1>2, <1>3, <1>4, <1>6, <1>7 DEF Segment, p

\* Measuring a name.
LEMMA TickTockIs ==
  ASSUME NEW name \in Names, NEW rep \in Nat
  PROVE  LET p == TickTock(name, rep)
         IN  /\ p \in Seq(Calls) /\ Len(p) = 2 * rep
             /\ \A i \in 1..(2 * rep) : p[i] = Call(IF i % 2 = 1 THEN "tick" ELSE "tock", name)
             /\ Segment(p, {}) /\ NoClear(p, 1, Len(p))
             /\ rep > 0 => \E k \in 1..Len(p) : p[k] = Call("tock", name)
             /\ Fuel(p, name, rep)
             /\ \A n : n # name => Fuel(p, n, 0)
PROOF
  <1> DEFINE p == TickTock(name, rep)
             k(i) == IF i % 2 = 1 THEN "tick" ELSE "tock"
  <1>1. 2 * rep \in Nat
    OBVIOUS
  <1>2. p \in [1..(2 * rep) -> Calls]
    <2>1. \A i \in 1..(2 * rep) : Call(k(i), name) \in Calls
      BY CallIs DEF CallNames
    <2> QED  BY <2>1 DEF TickTock
  <1>3. p \in Seq(Calls) /\ Len(p) = 2 * rep
    BY <1>1, <1>2, SeqIs
  <1>4. \A i \in 1..(2 * rep) : p[i] = Call(k(i), name)
    BY DEF TickTock
  <1> HIDE DEF p
  <1>5. \A i \in 1..(2 * rep) : /\ p[i].call = k(i) /\ p[i].name = name
                                /\ p[i].call # "clear" /\ p[i].call \notin {"getReport", "dump"}
    BY <1>4, CallIs
  <1>6. Paired(p)
    <2>1. ASSUME NEW i \in 2..Len(p), p[i].call = "tock"
          PROVE  p[i - 1] = Call("tick", p[i].name)
      <3>1. i \in 1..(2 * rep) /\ i - 1 \in 1..(2 * rep)
        BY <1>1, <1>3
      <3>2. i % 2 # 1
        BY <1>5, <2>1, <3>1
      <3>3. (i - 1) % 2 = 1
        BY <3>1, <3>2
      <3>4. p[i].name = name
        BY <1>5, <3>1
      <3> QED  BY <1>4, <3>1, <3>3, <3>4
    <2> QED  BY <2>1 DEF Paired
  <1>7. Looked(p, {})
    BY <1>3, <1>5 DEF Looked
  <1>8. NoClear(p, 1, Len(p))
    BY <1>3, <1>5 DEF NoClear
  <1>9. p # <<>> => p[1].call # "tock"
    <2>1. ASSUME p # <<>>  PROVE p[1].call # "tock"
      <3>1. Len(p) \in Nat /\ Len(p) # 0
        BY <1>3, <2>1
      <3>2. 1 \in 1..(2 * rep) /\ 1 % 2 = 1
        BY <1>3, <3>1
      <3> QED  BY <1>5, <3>2
    <2> QED  BY <2>1
  <1>10. rep > 0 => \E j \in 1..Len(p) : p[j] = Call("tock", name)
    <2>1. ASSUME rep > 0  PROVE p[2] = Call("tock", name) /\ 2 \in 1..Len(p)
      <3>1. 2 \in 1..(2 * rep) /\ 2 % 2 # 1
        BY <2>1
      <3> QED  BY <1>3, <1>4, <3>1
    <2> QED  BY <2>1
  <1>11. Fuel(p, name, rep)
    <2> DEFINE left == [i \in 1..(2 * rep + 1) |-> rep - ((i - 1) \div 2)]
    <2>1. left \in [1..(Len(p) + 1) -> Nat]
      <3>1. \A i \in 1..(2 * rep + 1) : rep - ((i - 1) \div 2) \in Nat
        OBVIOUS
      <3> QED  BY <1>3, <3>1
    <2>2. left[1] <= rep
      <3>1. 1 \in 1..(2 * rep + 1) /\ rep - ((1 - 1) \div 2) = rep
        OBVIOUS
      <3> QED  BY <3>1
    <2>3. ASSUME NEW i \in 1..Len(p)
          PROVE  left[i + 1] + (IF p[i] = Call("tock", name) THEN 1 ELSE 0) <= left[i]
      <3>1. i \in 1..(2 * rep) /\ i \in 1..(2 * rep + 1) /\ i + 1 \in 1..(2 * rep + 1)
        BY <1>3
      <3>2. left[i] = rep - ((i - 1) \div 2) /\ left[i + 1] = rep - (i \div 2)
        BY <3>1
      <3>3. CASE i % 2 = 1
        <4>1. p[i] # Call("tock", name)
          BY <1>5, <3>1, <3>3, CallIs
        <4>2. i \div 2 >= (i - 1) \div 2 /\ i \div 2 \in Int /\ (i - 1) \div 2 \in Int
          BY <3>1
        <4> HIDE DEF left
        <4> QED  BY <3>2, <4>1, <4>2
      <3>4. CASE i % 2 # 1
        <4>1. i \div 2 = ((i - 1) \div 2) + 1 /\ i \div 2 \in Int /\ (i - 1) \div 2 \in Int
          BY <3>1, <3>4
        <4> HIDE DEF left
        <4> QED  BY <3>2, <4>1
      <3> QED  BY <3>3, <3>4
    <2> HIDE DEF left
    <2> QED  BY <2>1, <2>2, <2>3 DEF Fuel
  <1>12. ASSUME NEW n, n # name  PROVE Fuel(p, n, 0)
    <2>1. \A i \in 1..Len(p) : p[i] # Call("tock", n)
      BY <1>3, <1>5, <1>12, CallIs
    <2> QED  BY <1>3, <2>1, NoFuel
  <1>13. Segment(p, {})
    BY <1>3, <1>6, <1>7, <1>9 DEF Segment
  <1> QED  BY <1>3, <1>4, <1>8, <1>10, <1>11, <1>12, <1>13 DEF p

PerJob(name) == IF name = Bias THEN 2 * BiasRepeat ELSE PROBE_REP

\* The repetitions are positive.
LEMMA BoundsAre ==
  /\ PROBE_REP \in Nat /\ PROBE_REP > 0 /\ BiasRepeat \in Nat /\ BiasRepeat > 0
  /\ 2 * BiasRepeat \in Nat /\ Jobs \in Nat
  /\ 0 \in Nat /\ 0 + 0 = 0 /\ PROBE_REP + 0 = PROBE_REP /\ 0 + PROBE_REP = PROBE_REP
PROOF
  <1>1. PROBE_REP \in Nat \ {0} /\ BiasRepeat \in Nat \ {0} /\ Jobs \in Nat
    BY ChronoAssumption, Zenon
  <1> QED  BY <1>1

\* Two calls, one after the other.
LEMMA TwoCalls ==
  ASSUME NEW a \in Calls, NEW b \in Calls
  PROVE  <<a, b>> = <<a>> \o <<b>> /\ <<a>> = <<a>> \o <<>>
PROOF
  <1> DEFINE p == <<a>> \o <<b>>
             q == <<a>> \o <<>>
  <1>1. p \in Seq(Calls) /\ Len(p) = 2 /\ p[1] = a /\ p[2] = b
    OBVIOUS
  <1>2. q \in Seq(Calls) /\ Len(q) = 1 /\ q[1] = a
    OBVIOUS
  <1>3. /\ <<a, b>> \in Seq(Calls) /\ Len(<<a, b>>) = 2 /\ <<a, b>>[1] = a /\ <<a, b>>[2] = b
        /\ <<a>> \in Seq(Calls) /\ Len(<<a>>) = 1 /\ <<a>>[1] = a
    OBVIOUS
  <1> HIDE DEF p, q
  <1>4. /\ p \in [1..2 -> Calls] /\ <<a, b>> \in [1..2 -> Calls]
        /\ q \in [1..1 -> Calls] /\ <<a>> \in [1..1 -> Calls]
    BY <1>1, <1>2, <1>3, SeqFunction
  <1>5. (\A i \in 1..2 : i = 1 \/ i = 2) /\ (\A i \in 1..1 : i = 1)
    OBVIOUS
  <1>6. \A i \in 1..2 : p[i] = <<a, b>>[i]
    BY <1>1, <1>3, <1>5
  <1>7. \A i \in 1..1 : q[i] = <<a>>[i]
    BY <1>2, <1>3, <1>5
  <1>8. p = <<a, b>>
    BY <1>4, <1>6
  <1>9. q = <<a>>
    BY <1>4, <1>7
  <1> QED  BY <1>8, <1>9 DEF p, q

\* The names that the jobs use, which differ.
LEMMA NamesAre ==
  /\ \A size \in Size : <<"CPU", size>> \in Names /\ <<"DPU", size>> \in Names
  /\ <<"HCP", 0>> \in Names /\ Naive \in Names /\ Bias \in Names
  /\ \A size \in Size : <<"CPU", size>> # Bias /\ <<"DPU", size>> # Bias
  /\ \A size, other \in Size : <<"CPU", size>> # <<"DPU", other>>
  /\ <<"HCP", 0>> # Bias /\ Naive # Bias
  BY DEF Names, Bias, Naive

\* Without a tock of a name, its bound in a job is kept.
LEMMA FuelUpTo ==
  ASSUME NEW p \in Seq(Calls), NEW n, Fuel(p, n, 0)
  PROVE  Fuel(p, n, PerJob(n))
PROOF
  <1>1. 0 \in Nat /\ PerJob(n) \in Nat /\ 0 <= PerJob(n)
    BY BoundsAre DEF PerJob
  <1> QED  BY <1>1, FuelMore, Zenon

\* Two sequences that do not clear.
LEMMA NoClearJoins ==
  ASSUME NEW p \in Seq(Calls), NEW q \in Seq(Calls), NoClear(p, 1, Len(p)), NoClear(q, 1, Len(q))
  PROVE  NoClear(p \o q, 1, Len(p \o q))
PROOF
  <1>1. /\ Len(p \o q) = Len(p) + Len(q)
        /\ \A i \in 1..Len(p) : (p \o q)[i] = p[i]
        /\ \A i \in 1..Len(q) : (p \o q)[Len(p) + i] = q[i]
        /\ \A i \in 1..(Len(p) + Len(q)) :
             i \in 1..Len(p) \/ \E j \in 1..Len(q) : i = Len(p) + j
    BY Joined, Zenon
  <1> QED  BY <1>1 DEF NoClear

\* The job of a pool.
LEMMA WorkloadIs ==
  Segment(Workload, {}) /\ \A n \in Names : Fuel(Workload, n, PerJob(n))
PROOF
  <1> DEFINE name == <<"HCP", 0>>
             p == Workload
  <1>1. name \in Names /\ name # Bias /\ PROBE_REP \in Nat /\ PROBE_REP > 0 /\ 2 * BiasRepeat \in Nat
    BY NamesAre, BoundsAre
  <1> HIDE DEF name
  <1>2. \A c \in CallNames : Call(c, name) \in Calls
    BY <1>1, CallIs
  <1>3. p = <<Call("clear", name), Call("tick", name), Call("tock", name), Call("getReport", name)>>
    BY DEF Workload, name
  <1>4. /\ p \in Seq(Calls) /\ Len(p) = 4
        /\ p[1] = Call("clear", name) /\ p[2] = Call("tick", name)
        /\ p[3] = Call("tock", name) /\ p[4] = Call("getReport", name)
    BY <1>2, <1>3 DEF CallNames
  <1> HIDE DEF p
  <1>5. /\ p[1].call = "clear" /\ p[2].call = "tick" /\ p[3].call = "tock"
        /\ p[4].call = "getReport" /\ p[3].name = name /\ p[4].name = name
    BY <1>4, CallIs
  <1>6. \A i \in 1..4 : i = 1 \/ i = 2 \/ i = 3 \/ i = 4
    OBVIOUS
  <1>7. Paired(p)
    <2>1. ASSUME NEW i \in 2..4, p[i].call = "tock"
          PROVE  p[i - 1] = Call("tick", p[i].name)
      <3>1. i = 3 /\ i - 1 = 2
        BY <1>5, <2>1
      <3> QED  BY <1>4, <1>5, <3>1
    <2> QED  BY <1>4, <2>1 DEF Paired
  <1>8. Looked(p, {})
    <2>1. Seen(p, {}, 4)
      <3>1. 3 \in 1..(4 - 1) /\ NoClear(p, 3 + 1, 4 - 1)
        BY DEF NoClear
      <3> QED  BY <1>4, <1>5, <3>1 DEF Seen
    <2> QED  BY <1>4, <1>5, <1>6, <2>1 DEF Looked
  <1>9. Segment(p, {})
    BY <1>4, <1>5, <1>7, <1>8 DEF Segment
  <1>10. Fuel(p, name, 1)
    <2> DEFINE left == [i \in 1..5 |-> IF i <= 3 THEN 1 ELSE 0]
    <2>1. left \in [1..(Len(p) + 1) -> Nat]
      BY <1>4
    <2>2. \A i \in 1..4 : left[i + 1] + (IF p[i] = Call("tock", name) THEN 1 ELSE 0) <= left[i]
      <3>1. \A i \in 1..4 : i # 3 => p[i] # Call("tock", name)
        BY <1>5, <1>6, CallIs
      <3> QED  BY <3>1
    <2>3. left[1] <= 1
      OBVIOUS
    <2> HIDE DEF left
    <2> QED  BY <1>4, <2>1, <2>2, <2>3 DEF Fuel
  <1>11. ASSUME NEW n \in Names  PROVE Fuel(p, n, PerJob(n))
    <2>1. CASE n = name
      <3>1. PerJob(n) = PROBE_REP /\ 1 \in Nat /\ 1 <= PROBE_REP
        BY <1>1, <2>1 DEF PerJob
      <3> QED  BY <1>1, <1>4, <1>10, <2>1, <3>1, FuelMore, Zenon
    <2>2. CASE n # name
      <3>1. \A i \in 1..Len(p) : p[i] # Call("tock", n)
        BY <1>4, <1>5, <1>6, <2>2, CallIs
      <3>2. Fuel(p, n, 0)
        BY <1>4, <3>1, NoFuel
      <3>3. 0 \in Nat /\ PerJob(n) \in Nat /\ 0 <= PerJob(n)
        BY <1>1 DEF PerJob
      <3> QED  BY <1>4, <3>2, <3>3, FuelMore, Zenon
    <2> QED  BY <2>1, <2>2
  <1> QED  BY <1>9, <1>11 DEF p

\* A probe measures its name, asks for the report, and may clear.
LEMMA ProbeIs ==
  ASSUME NEW name \in Names, NEW p,
         NEW asks, asks = <<Call("getReport", name)>>,
         NEW clears, clears \in {<<>>, <<Call("clear", name)>>},
         p = TickTock(name, PROBE_REP) \o (asks \o clears)
  PROVE  Segment(p, {}) /\ Fuel(p, name, PROBE_REP) /\ \A n : n # name => Fuel(p, n, 0)
PROOF
  <1> DEFINE m == TickTock(name, PROBE_REP)
             q == asks \o clears
  <1>1. PROBE_REP \in Nat /\ PROBE_REP > 0
    BY BoundsAre
  <1>2. /\ m \in Seq(Calls) /\ Segment(m, {}) /\ NoClear(m, 1, Len(m))
        /\ \E k \in 1..Len(m) : m[k] = Call("tock", name)
        /\ Fuel(m, name, PROBE_REP)
        /\ \A n : n # name => Fuel(m, n, 0)
    BY <1>1, TickTockIs
  <1>3. Segment(asks, {name}) /\ NoClear(asks, 1, Len(asks)) /\ \A n : Fuel(asks, n, 0)
    BY OneCall DEF CallNames
  <1>4. Segment(clears, {name}) /\ \A n : Fuel(clears, n, 0)
    <2>1. CASE clears = <<>>
      <3>1. <<>> \in Seq(Calls)
        OBVIOUS
      <3>2. \A n : Fuel(<<>>, n, 0)
        BY NoCalls
      <3> QED  BY <2>1, <3>2, NoCalls
    <2>2. CASE clears = <<Call("clear", name)>>
      BY <2>2, OneCall DEF CallNames
    <2> QED  BY <2>1, <2>2
  <1> HIDE DEF m
  <1>5. asks \in Seq(Calls) /\ clears \in Seq(Calls) /\ q \in Seq(Calls)
    <2>1. asks \in Seq(Calls) /\ clears \in Seq(Calls)
      BY <1>3, <1>4 DEF Segment
    <2> QED  BY <2>1, Joined, Zenon
  <1>6. Segment(q, {name})
    BY <1>3, <1>4, PartJoins, Zenon
  <1>7. \A n : Fuel(q, n, 0)
    <2>1. 0 \in Nat /\ 0 + 0 = 0
      OBVIOUS
    <2>2. ASSUME NEW n  PROVE Fuel(q, n, 0 + 0)
      BY <1>3, <1>4, <1>5, <2>1, FuelJoins, Zenon
    <2> QED  BY <2>1, <2>2
  <1> HIDE DEF q
  <1>8. Segment(p, {})
    <2>1. \A n \in {name} : NoClear(m, 1, Len(m)) /\ (n \in {} \/ \E k \in 1..Len(m) : m[k] = Call("tock", n))
      BY <1>2
    <2>2. Segment(m \o q, {})
      BY <1>2, <1>6, <2>1, PartJoins
    <2> QED  BY <2>2 DEF m, q
  <1>9. Fuel(p, name, PROBE_REP) /\ \A n : n # name => Fuel(p, n, 0)
    <2>1. 0 \in Nat /\ 0 + 0 = 0 /\ PROBE_REP + 0 = PROBE_REP
      BY <1>1
    <2>2. Fuel(m \o q, name, PROBE_REP + 0)
      BY <1>1, <1>2, <1>5, <1>7, <2>1, FuelJoins, Zenon
    <2>3. ASSUME NEW n, n # name  PROVE Fuel(m \o q, n, 0 + 0)
      BY <1>2, <1>5, <1>7, <2>1, <2>3, FuelJoins, Zenon
    <2>4. Fuel(m \o q, name, PROBE_REP) /\ \A n : n # name => Fuel(m \o q, n, 0)
      BY <2>1, <2>2, <2>3
    <2> QED  BY <2>4, Zenon DEF m, q
  <1> QED  BY <1>8, <1>9

\* dumpAllReport measures the bias first.
LEMMA DumpIs ==
  /\ Segment(Dump, {}) /\ NoClear(Dump, 1, Len(Dump))
  /\ Fuel(Dump, Bias, BiasRepeat) /\ \A n : n # Bias => Fuel(Dump, n, 0)
PROOF
  <1> DEFINE m == TickTock(Bias, BiasRepeat)
             q == <<Call("dump", Bias)>>
  <1>1. BiasRepeat \in Nat /\ BiasRepeat > 0 /\ Bias \in Names
    BY BoundsAre, NamesAre
  <1>2. /\ m \in Seq(Calls) /\ Segment(m, {}) /\ NoClear(m, 1, Len(m))
        /\ \E k \in 1..Len(m) : m[k] = Call("tock", Bias)
        /\ Fuel(m, Bias, BiasRepeat)
        /\ \A n : n # Bias => Fuel(m, n, 0)
    BY <1>1, TickTockIs
  <1>3. Segment(q, {Bias}) /\ NoClear(q, 1, Len(q)) /\ \A n : Fuel(q, n, 0)
    BY <1>1, OneCall DEF CallNames
  <1> HIDE DEF m, q
  <1>4. q \in Seq(Calls)
    BY <1>3 DEF Segment
  <1>5. Dump = m \o q
    BY DEF Dump, m, q
  <1>6. Segment(Dump, {})
    <2>1. \A n \in {Bias} : NoClear(m, 1, Len(m)) /\ (n \in {} \/ \E k \in 1..Len(m) : m[k] = Call("tock", n))
      BY <1>2
    <2>2. Segment(m \o q, {})
      BY <1>2, <1>3, <2>1, PartJoins
    <2> QED  BY <1>5, <2>2
  <1>7. Fuel(Dump, Bias, BiasRepeat) /\ \A n : n # Bias => Fuel(Dump, n, 0)
    <2>1. 0 \in Nat /\ 0 + 0 = 0 /\ BiasRepeat + 0 = BiasRepeat
      BY <1>1
    <2>2. Fuel(m \o q, Bias, BiasRepeat + 0)
      BY <1>1, <1>2, <1>3, <1>4, <2>1, FuelJoins, Zenon
    <2>3. ASSUME NEW n, n # Bias  PROVE Fuel(m \o q, n, 0 + 0)
      BY <1>2, <1>3, <1>4, <2>1, <2>3, FuelJoins, Zenon
    <2> QED  BY <1>5, <2>1, <2>2, <2>3
  <1>8. NoClear(Dump, 1, Len(Dump))
    BY <1>2, <1>3, <1>4, <1>5, NoClearJoins
  <1> QED  BY <1>6, <1>7, <1>8

\* A test: the name is measured, then looked at twice.
LEMMA OwnUseIs ==
  ASSUME NEW p \in OwnUses
  PROVE  /\ Segment(p, {}) /\ Fuel(p, Naive, PROBE_REP) /\ Fuel(p, Bias, 2 * BiasRepeat)
         /\ \A n : n # Naive /\ n # Bias => Fuel(p, n, 0)
PROOF
  <1> DEFINE m == TickTock(Naive, PROBE_REP)
  <1>0. p \in {m \o (first \o second) : first \in Looks, second \in Looks}
    BY DEF OwnUses
  <1> HIDE DEF m
  <1>1. PICK first \in Looks, second \in Looks : p = m \o (first \o second)
    BY <1>0
  <1> DEFINE q == first \o second
  <1>2. /\ PROBE_REP \in Nat /\ PROBE_REP > 0 /\ BiasRepeat \in Nat
        /\ Naive \in Names /\ Bias \in Names /\ Naive # Bias
    BY BoundsAre, NamesAre
  <1>3. /\ m \in Seq(Calls) /\ Segment(m, {}) /\ NoClear(m, 1, Len(m))
        /\ \E k \in 1..Len(m) : m[k] = Call("tock", Naive)
        /\ Fuel(m, Naive, PROBE_REP)
        /\ \A n : n # Naive => Fuel(m, n, 0)
    BY <1>2, TickTockIs DEF m
  <1>4. ASSUME NEW look \in Looks
        PROVE  /\ Segment(look, {Naive}) /\ NoClear(look, 1, Len(look))
               /\ Fuel(look, Bias, BiasRepeat) /\ \A n : n # Bias => Fuel(look, n, 0)
    <2>1. CASE look = <<>>
      <3>1. <<>> \in Seq(Calls)
        OBVIOUS
      <3>2. \A n : Fuel(<<>>, n, 0)
        BY NoCalls
      <3>3. Fuel(<<>>, Bias, BiasRepeat)
        <4>1. 0 \in Nat /\ 0 <= BiasRepeat
          BY <1>2
        <4> QED  BY <1>2, <3>1, <3>2, <4>1, FuelMore, Zenon
      <3>4. NoClear(<<>>, 1, Len(<<>>))
        BY DEF NoClear
      <3> QED  BY <2>1, <3>2, <3>3, <3>4, NoCalls
    <2>2. CASE look = <<Call("getReport", Naive)>>
      <3>1. Segment(look, {Naive}) /\ NoClear(look, 1, Len(look)) /\ \A n : Fuel(look, n, 0)
        BY <1>2, <2>2, OneCall DEF CallNames
      <3>2. Fuel(look, Bias, BiasRepeat)
        BY <1>2, <3>1, FuelMore DEF Segment
      <3> QED  BY <3>1, <3>2
    <2>3. CASE look = Dump
      <3>1. Segment(Dump, {Naive})
        BY DumpIs, PartMore
      <3> QED  BY <2>3, <3>1, DumpIs
    <2> QED  BY <2>1, <2>2, <2>3 DEF Looks
  <1> HIDE DEF m
  <1>5. /\ Segment(first, {Naive}) /\ NoClear(first, 1, Len(first))
        /\ Segment(second, {Naive})
        /\ first \in Seq(Calls) /\ second \in Seq(Calls) /\ q \in Seq(Calls)
    <2>1. first \in Seq(Calls) /\ second \in Seq(Calls)
      BY <1>4 DEF Segment
    <2>2. first \o second \in Seq(Calls)
      BY <2>1
    <2> QED  BY <1>4, <2>1, <2>2
  <1>6. Segment(q, {Naive})
    BY <1>5, PartJoins, Zenon
  <1>7. Fuel(q, Bias, BiasRepeat + BiasRepeat)
    BY <1>2, <1>4, <1>5, FuelJoins, Zenon
  <1>8. ASSUME NEW n, n # Bias  PROVE Fuel(q, n, 0)
    <2>1. 0 \in Nat /\ 0 + 0 = 0
      OBVIOUS
    <2>2. Fuel(q, n, 0 + 0)
      BY <1>4, <1>5, <1>8, <2>1, FuelJoins, Zenon
    <2> QED  BY <2>1, <2>2
  <1> HIDE DEF q
  <1>9. Segment(p, {})
    <2>1. \A n \in {Naive} : NoClear(m, 1, Len(m)) /\ (n \in {} \/ \E k \in 1..Len(m) : m[k] = Call("tock", n))
      BY <1>3
    <2>2. Segment(m \o q, {})
      BY <1>3, <1>6, <2>1, PartJoins
    <2> QED  BY <1>1, <2>2 DEF q
  <1>10. p = m \o q
    BY <1>1 DEF q
  <1>11. /\ Fuel(p, Naive, PROBE_REP) /\ Fuel(p, Bias, 2 * BiasRepeat)
         /\ \A n : n # Naive /\ n # Bias => Fuel(p, n, 0)
    <2>1. /\ 0 \in Nat /\ 0 + 0 = 0 /\ PROBE_REP + 0 = PROBE_REP
          /\ BiasRepeat + BiasRepeat \in Nat
          /\ 0 + (BiasRepeat + BiasRepeat) = 2 * BiasRepeat
      BY <1>2
    <2>2. Fuel(m \o q, Naive, PROBE_REP + 0)
      BY <1>2, <1>3, <1>5, <1>8, <2>1, FuelJoins, Zenon
    <2>3. Fuel(m \o q, Bias, 0 + (BiasRepeat + BiasRepeat))
      BY <1>2, <1>3, <1>5, <1>7, <2>1, FuelJoins, Zenon
    <2>4. ASSUME NEW n, n # Naive, n # Bias  PROVE Fuel(m \o q, n, 0 + 0)
      BY <1>3, <1>5, <1>8, <2>1, <2>4, FuelJoins, Zenon
    <2> QED  BY <1>10, <2>1, <2>2, <2>3, <2>4
  <1> QED  BY <1>9, <1>11

\* What every job keeps to.
LEMMA JobIs ==
  ASSUME NEW u \in {"operator", "transfer operator", "pool", "test"}, NEW p \in JobsOf(u)
  PROVE  Segment(p, {}) /\ \A n \in Names : PerJob(n) \in Nat /\ Fuel(p, n, PerJob(n))
PROOF
  <1>1. /\ PROBE_REP \in Nat /\ PROBE_REP > 0 /\ 2 * BiasRepeat \in Nat
        /\ \A n : PerJob(n) \in Nat
    BY BoundsAre DEF PerJob
  <1>2. ASSUME NEW size \in Size
        PROVE  LET c == CPUProbe(size)
                   d == DPUProbe(size)
                   cpu == <<"CPU", size>>
                   dpu == <<"DPU", size>>
               IN  /\ Segment(c, {}) /\ Fuel(c, cpu, PROBE_REP) /\ \A n : n # cpu => Fuel(c, n, 0)
                   /\ Segment(d, {}) /\ Fuel(d, dpu, PROBE_REP) /\ \A n : n # dpu => Fuel(d, n, 0)
    <2> DEFINE cpu == <<"CPU", size>>
               dpu == <<"DPU", size>>
    <2>1. cpu \in Names /\ dpu \in Names
      BY NamesAre
    <2> HIDE DEF cpu, dpu
    <2>2. <<Call("getReport", cpu), Call("clear", cpu)>>
            = <<Call("getReport", cpu)>> \o <<Call("clear", cpu)>>
      BY <2>1, CallIs, TwoCalls DEF CallNames
    <2>3. <<Call("getReport", dpu)>> = <<Call("getReport", dpu)>> \o <<>>
      BY <2>1, CallIs, TwoCalls DEF CallNames
    <2>4. CPUProbe(size) =
            TickTock(cpu, PROBE_REP) \o (<<Call("getReport", cpu)>> \o <<Call("clear", cpu)>>)
      BY <2>2, Zenon DEF CPUProbe, cpu
    <2>5. DPUProbe(size) = TickTock(dpu, PROBE_REP) \o (<<Call("getReport", dpu)>> \o <<>>)
      BY <2>3, Zenon DEF DPUProbe, dpu
    <2>6. /\ Segment(CPUProbe(size), {}) /\ Fuel(CPUProbe(size), cpu, PROBE_REP)
          /\ \A n : n # cpu => Fuel(CPUProbe(size), n, 0)
      <3>1. <<Call("clear", cpu)>> \in {<<>>, <<Call("clear", cpu)>>}
        OBVIOUS
      <3> QED  BY <2>1, <2>4, <3>1, ProbeIs, Zenon
    <2>7. /\ Segment(DPUProbe(size), {}) /\ Fuel(DPUProbe(size), dpu, PROBE_REP)
          /\ \A n : n # dpu => Fuel(DPUProbe(size), n, 0)
      <3>1. <<>> \in {<<>>, <<Call("clear", dpu)>>}
        OBVIOUS
      <3> QED  BY <2>1, <2>5, <3>1, ProbeIs, Zenon
    <2> QED  BY <2>6, <2>7 DEF cpu, dpu
  <1>3. CASE u = "operator"
    <2>1. PICK size \in Size : p = Sample(size)
      BY <1>3 DEF JobsOf
    <2> DEFINE c == CPUProbe(size)
               d == DPUProbe(size)
               cpu == <<"CPU", size>>
               dpu == <<"DPU", size>>
    <2>2. /\ Segment(c, {}) /\ Fuel(c, cpu, PROBE_REP) /\ \A n : n # cpu => Fuel(c, n, 0)
          /\ Segment(d, {}) /\ Fuel(d, dpu, PROBE_REP) /\ \A n : n # dpu => Fuel(d, n, 0)
      BY <1>2
    <2>3. p = c \o d /\ cpu # dpu /\ cpu # Bias /\ dpu # Bias
      BY <2>1, NamesAre DEF Sample
    <2> HIDE DEF c, d, cpu, dpu
    <2>4. Segment(p, {})
      <3> DEFINE N == {}
      <3>1. \A n \in N : /\ NoClear(c, 1, Len(c))
                         /\ n \in N \/ \E k \in 1..Len(c) : c[k] = Call("tock", n)
        OBVIOUS
      <3>2. Segment(c, N) /\ Segment(d, N)
        BY <2>2
      <3> HIDE DEF N
      <3>3. Segment(c \o d, N)
        BY <3>1, <3>2, PartJoins, Zenon
      <3> QED  BY <2>3, <3>3 DEF N
    <2>5. c \in Seq(Calls) /\ d \in Seq(Calls) /\ p \in Seq(Calls)
      BY <2>2, <2>4 DEF Segment
    <2>6. ASSUME NEW n \in Names  PROVE Fuel(p, n, PerJob(n))
      <3>1. 0 \in Nat /\ 0 + 0 = 0 /\ PROBE_REP + 0 = PROBE_REP /\ 0 + PROBE_REP = PROBE_REP
        BY BoundsAre, Zenon
      <3>2. CASE n = cpu
        <4>1. Fuel(c \o d, n, PROBE_REP + 0)
          BY <1>1, <2>2, <2>3, <2>5, <3>1, <3>2, FuelJoins, Zenon
        <4> QED  BY <2>3, <3>1, <3>2, <4>1 DEF PerJob
      <3>3. CASE n = dpu
        <4>1. Fuel(c \o d, n, 0 + PROBE_REP)
          BY <1>1, <2>2, <2>3, <2>5, <3>1, <3>3, FuelJoins, Zenon
        <4> QED  BY <2>3, <3>1, <3>3, <4>1 DEF PerJob
      <3>4. CASE n # cpu /\ n # dpu
        <4>1. Fuel(c \o d, n, 0 + 0)
          BY <2>2, <2>5, <3>1, <3>4, FuelJoins, Zenon
        <4>2. Fuel(p, n, 0)
          BY <2>3, <3>1, <4>1
        <4> QED  BY <2>5, <4>2, FuelUpTo
      <3> QED  BY <3>2, <3>3, <3>4
    <2> QED  BY <1>1, <2>4, <2>6
  <1>4. CASE u = "transfer operator"
    <2>1. PICK size \in Size : p = CPUProbe(size)
      BY <1>4 DEF JobsOf
    <2>2. /\ Segment(p, {}) /\ Fuel(p, <<"CPU", size>>, PROBE_REP)
          /\ \A n : n # <<"CPU", size>> => Fuel(p, n, 0)
      BY <1>2, <2>1
    <2>3. p \in Seq(Calls)
      BY <2>2 DEF Segment
    <2>4. ASSUME NEW n \in Names  PROVE Fuel(p, n, PerJob(n))
      <3>1. CASE n = <<"CPU", size>>
        BY <2>2, <3>1, NamesAre DEF PerJob
      <3>2. CASE n # <<"CPU", size>>
        BY <2>2, <2>3, <3>2, FuelUpTo
      <3> QED  BY <3>1, <3>2
    <2> QED  BY <1>1, <2>2, <2>4
  <1>5. CASE u = "pool"
    <2>1. p = Workload
      BY <1>5 DEF JobsOf
    <2> QED  BY <1>1, <2>1, WorkloadIs
  <1>6. CASE u = "test"
    <2>1. p \in OwnUses
      BY <1>6 DEF JobsOf
    <2>2. /\ Segment(p, {}) /\ Fuel(p, Naive, PROBE_REP) /\ Fuel(p, Bias, 2 * BiasRepeat)
          /\ \A n : n # Naive /\ n # Bias => Fuel(p, n, 0)
      BY <2>1, OwnUseIs
    <2>3. p \in Seq(Calls)
      BY <2>2 DEF Segment
    <2>4. ASSUME NEW n \in Names  PROVE Fuel(p, n, PerJob(n))
      <3>1. CASE n = Naive
        BY <2>2, <3>1, NamesAre DEF PerJob
      <3>2. CASE n = Bias
        BY <2>2, <3>2 DEF PerJob
      <3>3. CASE n # Naive /\ n # Bias
        BY <2>2, <2>3, <3>3, FuelUpTo
      <3> QED  BY <3>1, <3>2, <3>3
    <2> QED  BY <1>1, <2>2, <2>4
  <1> QED  BY <1>3, <1>4, <1>5, <1>6

----------------------------------------------------------------------------
(* ChronoTrigger: the invariant. *)

ChronoTypes ==
  /\ user \in {"operator", "transfer operator", "pool", "test"}
  /\ todo \in Seq(Calls)
  /\ jobs \in 0..Jobs
  /\ now \in Moments
  /\ \A name \in DOMAIN measured : measured[name] \in Seq(Moments)
  /\ \A name \in DOMAIN inJob : inJob[name] \in Seq(Moments)
  /\ inBounds \in BOOLEAN

\* What has been measured has its report; a report without items is that of the
\* bias, made when a report was asked for.
ReportsInv ==
  /\ \A name \in DOMAIN measured :
       name \in DOMAIN task2Report /\ ReportInv(task2Report[name], measured[name])
  /\ \A name \in DOMAIN task2Report :
       name \notin DOMAIN measured =>
         task2Report[name] = EmptyReport /\ name = Bias /\ asked

\* A tock follows its tick, and what is looked at has been measured.
ScriptInv ==
  /\ Paired(todo)
  /\ todo # <<>> /\ Head(todo).call = "tock" =>
       /\ Head(todo).name \in DOMAIN task2LastProbe
       /\ task2LastProbe[Head(todo).name] = now
  /\ inBounds => Looked(todo, DOMAIN measured)

\* The numbers measured are so few that Unit can be divided by theirs.
Room ==
  \A name \in Names : \E k \in Nat :
    Fuel(todo, name, k) /\ Len(DataOf(measured, name)) + k <= jobs * PerJob(name)

ChronoInv ==
  /\ ChronoTypes /\ ReportsInv /\ ScriptInv /\ Room
  /\ CorrectedIsConsistent /\ UndefinedOnlyAfterQuery

\* A history with one entry changed.
LEMMA DataOfWith ==
  ASSUME NEW map, NEW key, NEW value
  PROVE  /\ DataOf(With(map, key, value), key) = value
         /\ \A n : n # key => DataOf(With(map, key, value), n) = DataOf(map, n)
  BY DEF With, DataOf

\* The entries of a history are sequences of readings.
LEMMA DataTyped ==
  ASSUME NEW map, \A name \in DOMAIN map : map[name] \in Seq(Moments), NEW n
  PROVE  DataOf(map, n) \in Seq(Moments) /\ Len(DataOf(map, n)) \in Nat
PROOF
  <1>1. DataOf(map, n) \in Seq(Moments)
    BY DEF DataOf
  <1> QED  BY <1>1

\* What passes is of the type and size the assumption gives.
LEMMA PassingIs ==
  ASSUME NEW name, NEW reading \in Passing(name)
  PROVE  /\ reading \in Moments /\ Unit * reading.time <= DblMax
         /\ \A s \in Socket : Unit * reading.energy[s] <= DblMax
PROOF
  <1>1. reading \in Reading \cup BiasReading
    BY DEF Passing
  <1>2. reading \in [time : Nat, energy : [Socket -> Nat]]
    BY <1>1, ChronoAssumption, Zenon
  <1>3. Unit * reading.time <= DblMax /\ \A s \in Socket : Unit * reading.energy[s] <= DblMax
    BY <1>1, ChronoAssumption, Zenon
  <1> QED  BY <1>2, <1>3 DEF Moments

\* The tocks of a name in one job are bounded.
LEMMA PerJobIs ==
  ASSUME NEW name
  PROVE  PerJob(name) \in Nat /\ Jobs \in Nat
  BY BoundsAre DEF PerJob

\* Unit can be divided by any number of readings there may be.
LEMMA UnitFits ==
  ASSUME NEW name, NEW j \in 0..Jobs, NEW k \in Nat, k > 0, k <= j * PerJob(name)
  PROVE  Unit % k = 0
PROOF
  <1>1. /\ \A n \in 1..(Jobs * PROBE_REP) \cup 1..(2 * Jobs * BiasRepeat) : Unit % n = 0
        /\ PROBE_REP \in Nat /\ BiasRepeat \in Nat /\ Jobs \in Nat
    BY ChronoAssumption, BoundsAre, Zenon
  <1>2. PerJob(name) \in Nat /\ j \in Nat /\ j <= Jobs
    BY <1>1, PerJobIs
  <1>3. j * PerJob(name) <= Jobs * PerJob(name)
    BY <1>1, <1>2
  <1>4. /\ j * PerJob(name) \in Nat /\ Jobs * PROBE_REP \in Nat /\ 2 * Jobs * BiasRepeat \in Nat
        /\ Jobs * (2 * BiasRepeat) = 2 * Jobs * BiasRepeat
    BY <1>1, <1>2
  <1>5. CASE name = Bias
    <2>1. k <= 2 * Jobs * BiasRepeat
      BY <1>2, <1>3, <1>4, <1>5 DEF PerJob
    <2> QED  BY <1>1, <1>4, <2>1
  <1>6. CASE name # Bias
    <2>1. k <= Jobs * PROBE_REP
      BY <1>2, <1>3, <1>4, <1>6 DEF PerJob
    <2> QED  BY <1>1, <1>4, <2>1
  <1> QED  BY <1>5, <1>6

\* What the types give the steps.
LEMMA TypesAre ==
  ASSUME ChronoTypes
  PROVE  /\ todo \in Seq(Calls) /\ jobs \in Nat /\ jobs <= Jobs /\ Jobs \in Nat
         /\ now \in Moments /\ inBounds \in BOOLEAN
         /\ \A n : DataOf(measured, n) \in Seq(Moments) /\ Len(DataOf(measured, n)) \in Nat
PROOF
  <1>1. /\ todo \in Seq(Calls) /\ jobs \in 0..Jobs /\ now \in Moments /\ inBounds \in BOOLEAN
        /\ \A name \in DOMAIN measured : measured[name] \in Seq(Moments)
    BY Zenon DEF ChronoTypes
  <1>2. Jobs \in Nat
    BY BoundsAre
  <1>3. jobs \in Nat /\ jobs <= Jobs
    BY <1>1, <1>2
  <1> QED  BY <1>1, <1>2, <1>3, DataTyped, Zenon

\* A call takes from the room no more than it measures.
LEMMA RoomTail ==
  ASSUME ChronoTypes, Room, todo # <<>>, todo' = Tail(todo), jobs' = jobs,
         \A n \in Names :
           /\ Len(DataOf(measured', n)) \in Nat
           /\ Len(DataOf(measured', n))
                <= Len(DataOf(measured, n)) + (IF todo[1] = Call("tock", n) THEN 1 ELSE 0)
  PROVE  Room'
PROOF
  <1>1. ASSUME NEW n \in Names
        PROVE  \E k \in Nat : /\ Fuel(todo', n, k)
                              /\ Len(DataOf(measured', n)) + k <= jobs' * PerJob(n)
    <2>1. PICK k \in Nat : Fuel(todo, n, k) /\ Len(DataOf(measured, n)) + k <= jobs * PerJob(n)
      BY DEF Room
    <2>2. PICK j \in Nat : /\ Fuel(todo', n, j)
                           /\ j + (IF todo[1] = Call("tock", n) THEN 1 ELSE 0) <= k
      BY <2>1, FuelTail DEF ChronoTypes
    <2>3. /\ Len(DataOf(measured, n)) \in Nat /\ jobs \in Nat /\ PerJob(n) \in Nat
          /\ Len(DataOf(measured', n)) \in Nat
          /\ Len(DataOf(measured', n))
                <= Len(DataOf(measured, n)) + (IF todo[1] = Call("tock", n) THEN 1 ELSE 0)
      BY TypesAre, PerJobIs, Zenon
    <2>4. jobs * PerJob(n) \in Nat
      BY <2>3
    <2>5. Len(DataOf(measured', n)) + j <= jobs * PerJob(n)
      BY <2>1, <2>2, <2>3, <2>4
    <2> QED  BY <2>2, <2>5
  <1> QED  BY <1>1 DEF Room

\* What remains to be called.
LEMMA ScriptTail ==
  ASSUME ChronoTypes, ScriptInv, todo # <<>>, todo' = Tail(todo)
  PROVE  /\ Head(todo) = todo[1] /\ Head(todo) \in Calls
         /\ todo' \in Seq(Calls) /\ Paired(todo')
         /\ todo' # <<>> /\ Head(todo').call = "tock" =>
              todo[1] = Call("tick", Head(todo').name)
  BY TailOf, PairedTail DEF ChronoTypes, ScriptInv

\* A new job looks only at what it measures, and has room to measure.
LEMMA BeginStep ==
  ASSUME ChronoInv, Begin
  PROVE  ChronoInv'
PROOF
  <1>1. /\ todo = <<>> /\ jobs < Jobs /\ jobs' = jobs + 1 /\ todo' \in JobsOf(user) /\ inJob' = <<>>
        /\ UNCHANGED <<user, now, task2LastProbe, task2Report, measured, answer, asked, inBounds>>
    BY DEF Begin
  <1>2. Segment(todo', {}) /\ \A n \in Names : PerJob(n) \in Nat /\ Fuel(todo', n, PerJob(n))
    BY <1>1, JobIs DEF ChronoInv, ChronoTypes
  <1>3. /\ todo' \in Seq(Calls) /\ Paired(todo') /\ Looked(todo', DOMAIN measured)
        /\ todo' # <<>> => Head(todo').call # "tock"
    <2>1. Segment(todo', DOMAIN measured)
      BY <1>2, PartMore
    <2>2. /\ todo' \in Seq(Calls) /\ Paired(todo') /\ Looked(todo', DOMAIN measured)
          /\ todo' # <<>> => todo'[1].call # "tock"
      BY <2>1 DEF Segment
    <2>3. todo' # <<>> => Head(todo') = todo'[1]
      BY <2>2
    <2> QED  BY <2>2, <2>3
  <1>4. jobs' \in 0..Jobs
    <2>1. jobs \in Nat /\ Jobs \in Nat
      BY TypesAre, Zenon DEF ChronoInv
    <2>2. jobs < Jobs /\ jobs' = jobs + 1
      BY <1>1
    <2> QED  BY <2>1, <2>2
  <1>5. ChronoTypes'
    <2>1. DOMAIN inJob' = {}
      BY <1>1
    <2> QED  BY <1>1, <1>3, <1>4, <2>1 DEF ChronoInv, ChronoTypes
  <1>6. ReportsInv' /\ CorrectedIsConsistent' /\ UndefinedOnlyAfterQuery'
    BY <1>1 DEF ChronoInv, ReportsInv, CorrectedIsConsistent, UndefinedOnlyAfterQuery
  <1>7. ScriptInv'
    BY <1>1, <1>3 DEF ScriptInv
  <1>8. Room'
    <2>1. ASSUME NEW n \in Names
          PROVE  \E k \in Nat : /\ Fuel(todo', n, k)
                                /\ Len(DataOf(measured', n)) + k <= jobs' * PerJob(n)
      <3>1. PICK k \in Nat : Len(DataOf(measured, n)) + k <= jobs * PerJob(n)
        BY DEF ChronoInv, Room
      <3>2. Len(DataOf(measured, n)) \in Nat /\ jobs \in Nat /\ PerJob(n) \in Nat
        BY TypesAre, PerJobIs, Zenon DEF ChronoInv
      <3>3. (jobs + 1) * PerJob(n) = jobs * PerJob(n) + PerJob(n) /\ jobs * PerJob(n) \in Nat
        BY <3>2
      <3>4. Len(DataOf(measured, n)) + PerJob(n) <= (jobs + 1) * PerJob(n)
        BY <3>1, <3>2, <3>3
      <3>5. measured' = measured /\ jobs' = jobs + 1
        BY <1>1
      <3>6. Len(DataOf(measured', n)) + PerJob(n) <= jobs' * PerJob(n)
        BY <3>4, <3>5
      <3> QED  BY <1>2, <3>2, <3>6
    <2> QED  BY <2>1 DEF Room
  <1> QED  BY <1>5, <1>6, <1>7, <1>8 DEF ChronoInv

\* A tick is followed by its tock, which finds the probe.
LEMMA TickStep ==
  ASSUME ChronoInv, inBounds, todo # <<>>, todo' = Tail(todo), UNCHANGED <<user, jobs>>,
         Head(todo).call = "tick", Tick(Head(todo).name)
  PROVE  ChronoInv'
PROOF
  <1>0. ChronoTypes /\ ReportsInv /\ ScriptInv /\ Room
    BY DEF ChronoInv
  <1>1. /\ task2LastProbe' = With(task2LastProbe, Head(todo).name, now)
        /\ UNCHANGED <<user, jobs, now, task2Report, measured, inJob, answer, asked, inBounds>>
    BY DEF Tick
  <1>2. /\ Head(todo) = todo[1] /\ todo' \in Seq(Calls) /\ Paired(todo')
        /\ todo' # <<>> /\ Head(todo').call = "tock" =>
             todo[1] = Call("tick", Head(todo').name)
    BY <1>0, ScriptTail
  <1>3. ChronoTypes'
    BY <1>0, <1>1, <1>2 DEF ChronoTypes
  <1>4. ReportsInv' /\ CorrectedIsConsistent' /\ UndefinedOnlyAfterQuery'
    BY <1>1 DEF ChronoInv, ReportsInv, CorrectedIsConsistent, UndefinedOnlyAfterQuery
  <1>5. ScriptInv'
    <2>1. Looked(todo', DOMAIN measured)
      BY <1>0, <1>2, LookedTail DEF ChronoTypes, ScriptInv
    <2>2. ASSUME todo' # <<>>, Head(todo').call = "tock"
          PROVE  /\ Head(todo').name \in DOMAIN task2LastProbe'
                 /\ task2LastProbe'[Head(todo').name] = now'
      <3>1. Head(todo').name = Head(todo).name
        BY <1>2, <2>2, CallIs
      <3>2. /\ Head(todo).name \in DOMAIN task2LastProbe'
            /\ task2LastProbe'[Head(todo).name] = now
        BY <1>1 DEF With
      <3> QED  BY <1>1, <3>1, <3>2
    <2> QED  BY <1>1, <1>2, <2>1, <2>2 DEF ScriptInv
  <1>6. Room'
    <2>1. \A n \in Names : /\ Len(DataOf(measured', n)) \in Nat
                           /\ Len(DataOf(measured', n)) = Len(DataOf(measured, n))
      BY <1>0, <1>1, DataTyped DEF ChronoTypes
    <2>2. \A n \in Names :
           /\ Len(DataOf(measured', n)) \in Nat
           /\ Len(DataOf(measured', n))
                <= Len(DataOf(measured, n)) + (IF todo[1] = Call("tock", n) THEN 1 ELSE 0)
      BY <2>1
    <2> QED  BY <1>0, <1>1, <2>2, RoomTail
  <1> QED  BY <1>3, <1>4, <1>5, <1>6 DEF ChronoInv

\* After a clear nothing is measured, and nothing is looked at that was.
LEMMA ClearStep ==
  ASSUME ChronoInv, inBounds, todo # <<>>, todo' = Tail(todo), UNCHANGED <<user, jobs>>,
         Head(todo).call = "clear", Clear
  PROVE  ChronoInv'
PROOF
  <1>0. ChronoTypes /\ ReportsInv /\ ScriptInv /\ Room
    BY DEF ChronoInv
  <1>1. /\ task2Report' = <<>> /\ measured' = <<>>
        /\ UNCHANGED <<user, jobs, now, inJob, answer, inBounds>>
    BY DEF Clear
  <1>2. DOMAIN task2Report' = {} /\ DOMAIN measured' = {}
    BY <1>1
  <1>3. /\ Head(todo) = todo[1] /\ todo' \in Seq(Calls) /\ Paired(todo')
        /\ todo' # <<>> /\ Head(todo').call = "tock" =>
             todo[1] = Call("tick", Head(todo').name)
    BY <1>0, ScriptTail
  <1>4. ChronoTypes'
    BY <1>0, <1>1, <1>2, <1>3 DEF ChronoTypes
  <1>5. ReportsInv' /\ CorrectedIsConsistent' /\ UndefinedOnlyAfterQuery'
    BY <1>1, <1>2 DEF ChronoInv, ReportsInv, CorrectedIsConsistent, UndefinedOnlyAfterQuery
  <1>6. ScriptInv'
    <2>1. Looked(todo', DOMAIN measured')
      BY <1>0, <1>3, LookedTail DEF ChronoTypes, ScriptInv
    <2>2. ~(todo' # <<>> /\ Head(todo').call = "tock")
      BY <1>3, CallIs
    <2> QED  BY <1>3, <2>1, <2>2 DEF ScriptInv
  <1>7. Room'
    <2>1. \A n \in Names : Len(DataOf(measured', n)) = 0 /\ Len(DataOf(measured, n)) \in Nat
      BY <1>0, <1>2, DataTyped DEF ChronoTypes, DataOf
    <2>2. \A n \in Names :
           /\ Len(DataOf(measured', n)) \in Nat
           /\ Len(DataOf(measured', n))
                <= Len(DataOf(measured, n)) + (IF todo[1] = Call("tock", n) THEN 1 ELSE 0)
      BY <2>1
    <2> QED  BY <1>0, <1>1, <2>2, RoomTail
  <1> QED  BY <1>4, <1>5, <1>6, <1>7 DEF ChronoInv

\* What has no items has not been measured: it is the report of the bias.
LEMMA ItemsAre ==
  ASSUME ReportsInv, NEW name
  PROVE  /\ name \in DOMAIN measured =>
              /\ name \in DOMAIN task2Report /\ OrEmpty(name) = task2Report[name]
              /\ ReportInv(OrEmpty(name), measured[name]) /\ OrEmpty(name).items
         /\ name \notin DOMAIN measured => OrEmpty(name) = EmptyReport /\ ~OrEmpty(name).items
         /\ name \in DOMAIN task2Report /\ name \notin DOMAIN measured => name = Bias /\ asked
PROOF
  <1>1. ASSUME name \in DOMAIN measured
        PROVE  /\ name \in DOMAIN task2Report /\ OrEmpty(name) = task2Report[name]
               /\ ReportInv(OrEmpty(name), measured[name]) /\ OrEmpty(name).items
    <2>1. name \in DOMAIN task2Report /\ ReportInv(task2Report[name], measured[name])
      BY <1>1, Zenon DEF ReportsInv
    <2>2. task2Report[name].items
      BY <2>1, ReportIs, Zenon
    <2> QED  BY <2>1, <2>2 DEF OrEmpty
  <1>2. ASSUME name \notin DOMAIN measured
        PROVE  /\ OrEmpty(name) = EmptyReport /\ ~OrEmpty(name).items
               /\ name \in DOMAIN task2Report => name = Bias /\ asked
    <2>1. name \in DOMAIN task2Report => task2Report[name] = EmptyReport /\ name = Bias /\ asked
      BY <1>2, Zenon DEF ReportsInv
    <2>2. OrEmpty(name) = EmptyReport
      BY <2>1 DEF OrEmpty
    <2>3. EmptyReport.items = FALSE
      BY DEF EmptyReport
    <2> QED  BY <2>1, <2>2, <2>3
  <1> QED  BY <1>1, <1>2

\* Another call than a tick or a tock leaves a script behind that is as before.
LEMMA ScriptStep ==
  ASSUME ChronoTypes, ScriptInv, todo # <<>>, todo' = Tail(todo), inBounds,
         Head(todo).call # "tick", Head(todo).call # "clear",
         DOMAIN measured \subseteq DOMAIN measured',
         Head(todo).call = "tock" /\ inBounds' => Head(todo).name \in DOMAIN measured'
  PROVE  ScriptInv'
PROOF
  <1>1. /\ Head(todo) = todo[1] /\ Paired(todo')
        /\ todo' # <<>> /\ Head(todo').call = "tock" =>
             todo[1] = Call("tick", Head(todo').name)
    BY ScriptTail
  <1>2. ~(todo' # <<>> /\ Head(todo').call = "tock")
    BY <1>1, CallIs
  <1>3. inBounds' => Looked(todo', DOMAIN measured')
    <2>1. todo \in Seq(Calls) /\ Looked(todo, DOMAIN measured)
      BY TypesAre DEF ScriptInv
    <2> QED  BY <1>1, <2>1, LookedTail
  <1> QED  BY <1>1, <1>2, <1>3 DEF ScriptInv

\* A call that measures nothing leaves as much room as before.
LEMMA RoomStays ==
  ASSUME ChronoTypes, Room, todo # <<>>, todo' = Tail(todo), jobs' = jobs, measured' = measured
  PROVE  Room'
PROOF
  <1>1. \A n \in Names : /\ Len(DataOf(measured', n)) \in Nat
                         /\ Len(DataOf(measured', n)) = Len(DataOf(measured, n))
    BY TypesAre, Zenon
  <1>2. \A n \in Names :
         /\ Len(DataOf(measured', n)) \in Nat
         /\ Len(DataOf(measured', n))
              <= Len(DataOf(measured, n)) + (IF todo[1] = Call("tock", n) THEN 1 ELSE 0)
    BY <1>1
  <1> QED  BY <1>2, RoomTail

\* A tock may still be measured exactly.
LEMMA RoomForOne ==
  ASSUME ChronoTypes, Room, todo # <<>>, Head(todo).call = "tock",
         NEW len, len = Len(DataOf(measured, Head(todo).name))
  PROVE  (len > 0 => Unit % len = 0) /\ Unit % (len + 1) = 0
PROOF
  <1> DEFINE name == Head(todo).name
  <1>1. Head(todo) = todo[1] /\ todo[1] \in Calls /\ todo \in Seq(Calls)
    BY TypesAre, TailOf
  <1>2. name \in Names /\ todo[1] = Call("tock", name)
    BY <1>1, CallOf
  <1>3. PICK k \in Nat : Fuel(todo, name, k) /\ len + k <= jobs * PerJob(name)
    BY <1>2, Zenon DEF Room
  <1>4. PICK j \in Nat : j + (IF todo[1] = Call("tock", name) THEN 1 ELSE 0) <= k
    BY <1>1, <1>3, FuelTail
  <1>5. /\ len \in Nat /\ PerJob(name) \in Nat
        /\ jobs \in Nat /\ jobs <= Jobs /\ Jobs \in Nat
    BY TypesAre, PerJobIs, Zenon
  <1> HIDE DEF name
  <1>6. jobs * PerJob(name) \in Nat /\ jobs \in 0..Jobs
    BY <1>5
  <1>7. len + 1 <= jobs * PerJob(name) /\ len <= jobs * PerJob(name)
    BY <1>2, <1>3, <1>4, <1>5, <1>6
  <1>8. Unit % (len + 1) = 0
    BY <1>5, <1>6, <1>7, UnitFits
  <1>9. len > 0 => Unit % len = 0
    BY <1>5, <1>6, <1>7, UnitFits
  <1> QED  BY <1>8, <1>9

\* A tock adds a reading to its report, unless that has no items.
LEMMA TockStep ==
  ASSUME ChronoInv, inBounds, todo # <<>>, todo' = Tail(todo), UNCHANGED <<user, jobs>>,
         Head(todo).call = "tock", Tock(Head(todo).name)
  PROVE  ChronoInv'
PROOF
  <1> DEFINE name == Head(todo).name
  <1>0. /\ ChronoTypes /\ ReportsInv /\ ScriptInv /\ Room
        /\ CorrectedIsConsistent /\ UndefinedOnlyAfterQuery
    BY Zenon DEF ChronoInv
  <1>1. todo' \in Seq(Calls)
    BY <1>0, ScriptTail
  <1>2. CASE name \in DOMAIN task2Report /\ ~task2Report[name].items
    <2>1. inBounds' = FALSE /\ UNCHANGED <<counters, answer, asked>>
      BY <1>2, Zenon DEF Tock, OutOfBounds
    <2>2. UNCHANGED <<now, task2LastProbe, task2Report, measured, inJob, answer, asked>>
      BY <2>1 DEF counters
    <2>3. ChronoTypes'
      BY <1>0, <1>1, <2>1, <2>2 DEF ChronoTypes
    <2>4. ReportsInv' /\ CorrectedIsConsistent'
      BY <1>0, <2>2 DEF ReportsInv, CorrectedIsConsistent
    <2>5. name = Bias /\ asked /\ Bias \notin DOMAIN measured
      <3>1. name \notin DOMAIN measured
        BY <1>0, <1>2, ItemsAre
      <3> QED  BY <1>0, <1>2, <3>1, ItemsAre
    <2>6. UndefinedOnlyAfterQuery'
      BY <2>2, <2>5 DEF UndefinedOnlyAfterQuery
    <2>7. ScriptInv'
      BY <1>0, <2>1, <2>2, ScriptStep
    <2>8. Room'
      BY <1>0, <2>2, RoomStays
    <2> QED  BY <2>3, <2>4, <2>6, <2>7, <2>8 DEF ChronoInv
  <1>3. CASE ~(name \in DOMAIN task2Report /\ ~task2Report[name].items)
    <2> DEFINE report == IF name \in DOMAIN task2Report THEN task2Report[name] ELSE Fresh
               old    == DataOf(measured, name)
    <2>1. PICK reading \in Passing(name) :
            /\ now' = Later(now, reading)
            /\ task2Report' = With(task2Report, name,
                 AddData(report, Gathered(task2LastProbe[name], Later(now, reading))))
            /\ measured' = With(measured, name, Append(old, reading))
            /\ inJob' = With(inJob, name, Append(DataOf(inJob, name), reading))
            /\ UNCHANGED <<task2LastProbe, answer, asked, inBounds>>
      BY <1>3 DEF Tock
    <2>2. /\ reading \in Moments /\ Unit * reading.time <= DblMax
          /\ \A s \in Socket : Unit * reading.energy[s] <= DblMax
      BY PassingIs
    <2>3. now \in Moments /\ old \in Seq(Moments) /\ Len(old) \in Nat
      BY <1>0, TypesAre
    <2>4. task2LastProbe[name] = now
      BY <1>0 DEF ScriptInv
    <2>5. Gathered(task2LastProbe[name], Later(now, reading)) = reading /\ now' \in Moments
      BY <2>1, <2>2, <2>3, <2>4, GatheredIs
    <2>6. (old = <<>> /\ report = Fresh) \/ ReportInv(report, old)
      <3>1. CASE name \in DOMAIN measured
        BY <1>0, <3>1, ItemsAre DEF DataOf
      <3>2. CASE name \notin DOMAIN measured
        <4>1. name \notin DOMAIN task2Report
          BY <1>0, <1>3, <3>2, ItemsAre DEF OrEmpty
        <4> QED  BY <3>2, <4>1 DEF DataOf
      <3> QED  BY <3>1, <3>2
    <2>7. ReportInv(AddData(report, reading), Append(old, reading))
      <3>1. (old # <<>> => Unit % Len(old) = 0) /\ Unit % (Len(old) + 1) = 0
        <4>1. (Len(old) > 0 => Unit % Len(old) = 0) /\ Unit % (Len(old) + 1) = 0
          BY <1>0, RoomForOne
        <4>2. old # <<>> => Len(old) > 0
          BY <2>3
        <4> QED  BY <4>1, <4>2
      <3> HIDE DEF report, old
      <3> QED  BY <2>2, <2>3, <2>6, <3>1, AddDataStep, Zenon
    <2> DEFINE made == AddData(report, reading)
               seen == Append(old, reading)
    <2>8. task2Report' = With(task2Report, name, made) /\ measured' = With(measured, name, seen)
      BY <2>1, <2>5
    <2>9. seen \in Seq(Moments) /\ Len(seen) = Len(old) + 1
      BY <2>2, <2>3
    <2> HIDE DEF report, old, made, seen, name
    <2>10. /\ DOMAIN task2Report' = DOMAIN task2Report \cup {name}
           /\ DOMAIN measured' = DOMAIN measured \cup {name}
           /\ task2Report'[name] = made /\ measured'[name] = seen
           /\ \A n \in DOMAIN task2Report : n # name => task2Report'[n] = task2Report[n]
           /\ \A n \in DOMAIN measured : n # name => measured'[n] = measured[n]
      BY <2>8, Zenon DEF With
    <2>11. ReportsInv'
      <3>1. ASSUME NEW n \in DOMAIN measured'
            PROVE  n \in DOMAIN task2Report' /\ ReportInv(task2Report'[n], measured'[n])
        <4>1. CASE n = name
          BY <2>7, <2>10, <4>1 DEF made, seen
        <4>2. CASE n # name
          BY <1>0, <2>10, <3>1, <4>2, Zenon DEF ReportsInv
        <4> QED  BY <4>1, <4>2
      <3>2. ASSUME NEW n \in DOMAIN task2Report', n \notin DOMAIN measured'
            PROVE  task2Report'[n] = EmptyReport /\ n = Bias /\ asked'
        BY <1>0, <2>1, <2>10, <3>2, Zenon DEF ReportsInv
      <3> QED  BY <3>1, <3>2 DEF ReportsInv
    <2>12. ChronoTypes'
      <3>1. \A n \in DOMAIN measured' : measured'[n] \in Seq(Moments)
        BY <1>0, <2>9, <2>10, Zenon DEF ChronoTypes
      <3>2. \A n \in DOMAIN inJob' : inJob'[n] \in Seq(Moments)
        <4>1. Append(DataOf(inJob, name), reading) \in Seq(Moments)
          <5>1. DataOf(inJob, name) \in Seq(Moments)
            BY <1>0, DataTyped, Zenon DEF ChronoTypes
          <5> QED  BY <2>2, <5>1
        <4>2. inJob' = With(inJob, name, Append(DataOf(inJob, name), reading))
          BY <2>1
        <4>3. \A n \in DOMAIN inJob : inJob[n] \in Seq(Moments)
          BY <1>0, Zenon DEF ChronoTypes
        <4> QED  BY <4>1, <4>2, <4>3 DEF With
      <3>3. UNCHANGED <<user, jobs, inBounds>>
        BY <2>1
      <3> QED  BY <1>0, <1>1, <2>5, <3>1, <3>2, <3>3, Zenon DEF ChronoTypes
    <2>13. CorrectedIsConsistent' /\ UndefinedOnlyAfterQuery'
      <3>1. UNCHANGED <<answer, inBounds>>
        BY <2>1
      <3> QED  BY <1>0, <3>1 DEF CorrectedIsConsistent, UndefinedOnlyAfterQuery
    <2>14. ScriptInv'
      BY <1>0, <2>10, ScriptStep DEF name
    <2>15. Room'
      <3>1. ASSUME NEW n \in Names
            PROVE  /\ Len(DataOf(measured', n)) \in Nat
                   /\ Len(DataOf(measured', n))
                        <= Len(DataOf(measured, n)) + (IF todo[1] = Call("tock", n) THEN 1 ELSE 0)
        <4>1. CASE n = name
          <5>1. DataOf(measured', n) = seen /\ DataOf(measured, n) = old
            BY <2>8, <4>1, DataOfWith DEF old
          <5>2. todo[1] = Call("tock", n)
            <6>1. Head(todo) = todo[1] /\ todo[1] \in Calls
              BY <1>0, TypesAre, TailOf
            <6> QED  BY <4>1, <6>1, CallOf DEF name
          <5> QED  BY <2>3, <2>9, <5>1, <5>2
        <4>2. CASE n # name
          <5>1. DataOf(measured', n) = DataOf(measured, n)
            BY <2>8, <4>2, DataOfWith
          <5>2. Len(DataOf(measured, n)) \in Nat
            BY <1>0, TypesAre
          <5> QED  BY <5>1, <5>2
        <4> QED  BY <4>1, <4>2
      <3>2. jobs' = jobs
        OBVIOUS
      <3> QED  BY <1>0, <3>1, <3>2, RoomTail
    <2> QED  BY <2>11, <2>12, <2>13, <2>14, <2>15 DEF ChronoInv
  <1> QED  BY <1>2, <1>3

\* What is looked at has been measured.
LEMMA LookIs ==
  ASSUME ChronoTypes, ScriptInv, inBounds, todo # <<>>,
         Head(todo).call \in {"getReport", "dump"}
  PROVE  /\ Head(todo).name \in DOMAIN measured
         /\ Head(todo).call = "dump" => Head(todo).name = Bias
PROOF
  <1>1. /\ Head(todo) = todo[1] /\ Len(todo) \in Nat /\ Len(todo) >= 1
        /\ Looked(todo, DOMAIN measured)
    BY TypesAre, TailOf DEF ScriptInv
  <1>2. 1 \in 1..Len(todo)
    BY <1>1
  <1>3. Seen(todo, DOMAIN measured, 1) /\ (todo[1].call = "dump" => todo[1].name = Bias)
    BY <1>1, <1>2, Zenon DEF Looked
  <1>4. ~ \E k \in 1..(1 - 1) : TRUE
    OBVIOUS
  <1>5. todo[1].name \in DOMAIN measured
    BY <1>3, <1>4 DEF Seen
  <1> QED  BY <1>1, <1>3, <1>5

\* A question hands out what was measured; it may leave a report of the bias.
LEMMA GetReportStep ==
  ASSUME ChronoInv, inBounds, todo # <<>>, todo' = Tail(todo), UNCHANGED <<user, jobs>>,
         Head(todo).call = "getReport", GetReport(Head(todo).name)
  PROVE  ChronoInv'
PROOF
  <1> DEFINE name == Head(todo).name
             mine == OrEmpty(name)
             bias == OrEmpty(Bias)
  <1>0. /\ ChronoTypes /\ ReportsInv /\ ScriptInv /\ Room
        /\ CorrectedIsConsistent /\ UndefinedOnlyAfterQuery
    BY Zenon DEF ChronoInv
  <1>1. todo' \in Seq(Calls)
    BY <1>0, ScriptTail
  <1>2. name \in DOMAIN measured
    BY <1>0, LookIs
  <1>3. /\ name \in DOMAIN task2Report /\ mine = task2Report[name]
        /\ ReportInv(mine, measured[name]) /\ mine.items
    BY <1>0, <1>2, ItemsAre
  <1>4. /\ task2Report' = With(With(task2Report, name, mine), Bias, bias)
        /\ answer' = [name |-> name, report |-> Corrected(mine, bias), bias |-> bias]
        /\ asked' = TRUE
        /\ UNCHANGED <<now, task2LastProbe, measured, inJob, inBounds>>
    BY <1>3, Zenon DEF GetReport
  <1>5. /\ Bias \in DOMAIN measured => /\ ReportInv(bias, measured[Bias]) /\ Bias \in DOMAIN task2Report
                                       /\ bias = task2Report[Bias]
        /\ Bias \notin DOMAIN measured => bias = EmptyReport /\ ~bias.items
    BY <1>0, ItemsAre
  <1> HIDE DEF name, mine, bias
  <1>6. /\ DOMAIN task2Report' = DOMAIN task2Report \cup {Bias}
        /\ task2Report'[Bias] = bias
        /\ \A n \in DOMAIN task2Report : n # Bias => task2Report'[n] = task2Report[n]
    <2> DEFINE map == With(task2Report, name, mine)
    <2>1. /\ DOMAIN map = DOMAIN task2Report
          /\ \A n \in DOMAIN task2Report : map[n] = task2Report[n]
      BY <1>3 DEF With
    <2> HIDE DEF map
    <2>2. task2Report' = With(map, Bias, bias)
      BY <1>4 DEF map
    <2> QED  BY <2>1, <2>2 DEF With
  <1>7. ReportsInv'
    <2>1. ASSUME NEW n \in DOMAIN measured
          PROVE  n \in DOMAIN task2Report' /\ ReportInv(task2Report'[n], measured[n])
      <3>1. CASE n = Bias
        BY <1>5, <1>6, <2>1, <3>1
      <3>2. CASE n # Bias
        BY <1>0, <1>6, <2>1, <3>2, Zenon DEF ReportsInv
      <3> QED  BY <3>1, <3>2
    <2>2. ASSUME NEW n \in DOMAIN task2Report', n \notin DOMAIN measured
          PROVE  task2Report'[n] = EmptyReport /\ n = Bias /\ asked'
      <3>1. CASE n = Bias
        BY <1>4, <1>5, <1>6, <2>2, <3>1
      <3>2. CASE n # Bias
        BY <1>0, <1>4, <1>6, <2>2, <3>2, Zenon DEF ReportsInv
      <3> QED  BY <3>1, <3>2
    <2>3. measured' = measured
      BY <1>4
    <2> QED  BY <2>1, <2>2, <2>3 DEF ReportsInv
  <1>8. ChronoTypes'
    <2>1. UNCHANGED <<user, jobs, now, measured, inJob, inBounds>>
      BY <1>4
    <2> QED  BY <1>0, <1>1, <2>1 DEF ChronoTypes
  <1>9. CorrectedIsConsistent' /\ UndefinedOnlyAfterQuery'
    <2>1. answer'.report = Corrected(mine, bias) /\ answer'.bias = bias /\ inBounds' = inBounds
      BY <1>4
    <2>2. CASE bias.items
      <3>1. ReportInv(bias, measured[Bias])
        BY <1>5, <2>2
      <3>2. /\ Shifted(answer'.report.time, bias.time)
            /\ \A s \in Socket : Shifted(answer'.report.energy[s], bias.energy[s])
        BY <1>3, <2>1, <3>1, CorrectedShifts, Zenon
      <3> QED  BY <2>1, <3>2 DEF CorrectedIsConsistent, UndefinedOnlyAfterQuery
    <2>3. CASE ~bias.items
      BY <2>1, <2>3 DEF CorrectedIsConsistent, UndefinedOnlyAfterQuery
    <2> QED  BY <2>2, <2>3
  <1>10. ScriptInv'
    <2>1. measured' = measured
      BY <1>4
    <2> QED  BY <1>0, <2>1, ScriptStep
  <1>11. Room'
    <2>1. measured' = measured /\ jobs' = jobs
      BY <1>4
    <2> QED  BY <1>0, <2>1, RoomStays
  <1> QED  BY <1>7, <1>8, <1>9, <1>10, <1>11 DEF ChronoInv

\* A dump writes what was measured, with the bias measured before.
LEMMA DumpStep ==
  ASSUME ChronoInv, inBounds, todo # <<>>, todo' = Tail(todo), UNCHANGED <<user, jobs>>,
         Head(todo).call = "dump", DumpAllReport
  PROVE  ChronoInv'
PROOF
  <1>0. /\ ChronoTypes /\ ReportsInv /\ ScriptInv /\ Room
        /\ CorrectedIsConsistent /\ UndefinedOnlyAfterQuery
    BY Zenon DEF ChronoInv
  <1>1. todo' \in Seq(Calls)
    BY <1>0, ScriptTail
  <1>2. Bias \in DOMAIN measured
    BY <1>0, LookIs
  <1>3. PICK name \in DOMAIN task2Report \ {Bias} :
          /\ answer' = [name |-> name, report |-> Corrected(task2Report[name], task2Report[Bias]),
                        bias |-> task2Report[Bias]]
          /\ UNCHANGED <<counters, asked, inBounds>>
    BY Zenon DEF DumpAllReport
  <1>4. UNCHANGED <<user, jobs, now, task2LastProbe, task2Report, measured, inJob, asked, inBounds>>
    BY <1>3 DEF counters
  <1>5. name \in DOMAIN measured
    BY <1>0, <1>3, ItemsAre
  <1>6. /\ ReportInv(task2Report[name], measured[name])
        /\ ReportInv(task2Report[Bias], measured[Bias])
    BY <1>0, <1>2, <1>5, Zenon DEF ReportsInv
  <1>7. CorrectedIsConsistent'
    <2>1. /\ answer'.report = Corrected(task2Report[name], task2Report[Bias])
          /\ answer'.bias = task2Report[Bias]
      BY <1>3
    <2>2. /\ Shifted(answer'.report.time, task2Report[Bias].time)
          /\ \A s \in Socket : Shifted(answer'.report.energy[s], task2Report[Bias].energy[s])
      BY <1>6, <2>1, CorrectedShifts, Zenon
    <2> QED  BY <2>1, <2>2 DEF CorrectedIsConsistent
  <1>8. ReportsInv' /\ UndefinedOnlyAfterQuery'
    BY <1>0, <1>4 DEF ReportsInv, UndefinedOnlyAfterQuery
  <1>9. ChronoTypes'
    BY <1>0, <1>1, <1>4 DEF ChronoTypes
  <1>10. ScriptInv'
    BY <1>0, <1>4, ScriptStep
  <1>11. Room'
    BY <1>0, <1>4, RoomStays
  <1> QED  BY <1>7, <1>8, <1>9, <1>10, <1>11 DEF ChronoInv

\* Each call keeps the invariant.
LEMMA DoCallStep ==
  ASSUME ChronoInv, DoCall
  PROVE  ChronoInv'
PROOF
  <1>1. inBounds /\ todo # <<>> /\ todo' = Tail(todo) /\ UNCHANGED <<user, jobs>>
    BY DEF DoCall
  <1>2. Head(todo).call \in CallNames
    <2>1. Head(todo) \in Calls
      BY <1>1, TypesAre, TailOf DEF ChronoInv
    <2> QED  BY <2>1, CallOf
  <1>3. /\ Head(todo).call = "tick" => Tick(Head(todo).name)
        /\ Head(todo).call = "tock" => Tock(Head(todo).name)
        /\ Head(todo).call = "getReport" => GetReport(Head(todo).name)
        /\ Head(todo).call = "dump" => DumpAllReport
        /\ Head(todo).call = "clear" => Clear
    BY DEF DoCall
  <1>4. CASE Head(todo).call = "tick"
    BY <1>1, <1>3, <1>4, TickStep
  <1>5. CASE Head(todo).call = "tock"
    BY <1>1, <1>3, <1>5, TockStep
  <1>6. CASE Head(todo).call = "getReport"
    BY <1>1, <1>3, <1>6, GetReportStep
  <1>7. CASE Head(todo).call = "dump"
    BY <1>1, <1>3, <1>7, DumpStep
  <1>8. CASE Head(todo).call = "clear"
    BY <1>1, <1>3, <1>8, ClearStep
  <1> QED  BY <1>2, <1>4, <1>5, <1>6, <1>7, <1>8, Zenon DEF CallNames

\* Before the first job.
LEMMA ChronoInitial == ChronoInit => ChronoInv
PROOF
  <1> SUFFICES ASSUME ChronoInit  PROVE ChronoInv
    OBVIOUS
  <1>1. /\ user \in User /\ todo = <<>> /\ jobs = 0
        /\ now = [time |-> 0, energy |-> [s \in Socket |-> 0]]
        /\ task2LastProbe = <<>> /\ task2Report = <<>> /\ measured = <<>>
        /\ answer = NoAnswer /\ inJob = <<>> /\ asked = FALSE /\ inBounds = TRUE
    BY DEF ChronoInit
  <1>2. DOMAIN measured = {} /\ DOMAIN inJob = {} /\ DOMAIN task2Report = {}
    BY <1>1
  <1>3. todo \in Seq(Calls) /\ Len(todo) = 0
    BY <1>1
  <1>4. ChronoTypes
    <2>1. user \in {"operator", "transfer operator", "pool", "test"}
      <3>1. User \subseteq {"operator", "transfer operator", "pool", "test"}
        BY ChronoAssumption, Zenon
      <3> QED  BY <1>1, <3>1
    <2>2. jobs \in 0..Jobs
      BY <1>1, BoundsAre
    <2>3. now \in Moments
      BY <1>1 DEF Moments
    <2> QED  BY <1>1, <1>2, <1>3, <2>1, <2>2, <2>3 DEF ChronoTypes
  <1>5. ReportsInv
    BY <1>2 DEF ReportsInv
  <1>6. ScriptInv
    BY <1>1, <1>3 DEF ScriptInv, Paired, Looked
  <1>7. Room
    <2>1. ASSUME NEW n \in Names
          PROVE  \E k \in Nat : Fuel(todo, n, k) /\ Len(DataOf(measured, n)) + k <= jobs * PerJob(n)
      <3>1. DataOf(measured, n) = <<>>
        BY <1>2 DEF DataOf
      <3>2. Fuel(todo, n, 0)
        BY <1>1, NoCalls
      <3>3. PerJob(n) \in Nat /\ jobs * PerJob(n) = 0 /\ Len(<<>>) = 0
        BY <1>1, PerJobIs
      <3>4. Len(DataOf(measured, n)) + 0 <= jobs * PerJob(n)
        BY <3>1, <3>3
      <3> QED  BY <3>2, <3>4
    <2> QED  BY <2>1 DEF Room
  <1>8. CorrectedIsConsistent /\ UndefinedOnlyAfterQuery
    BY <1>1 DEF CorrectedIsConsistent, UndefinedOnlyAfterQuery, NoAnswer, EmptyReport
  <1> QED  BY <1>4, <1>5, <1>6, <1>7, <1>8 DEF ChronoInv

\* Each step keeps the invariant.
LEMMA ChronoStep == ChronoInv /\ [ChronoNext]_chronoVars => ChronoInv'
PROOF
  <1> SUFFICES ASSUME ChronoInv, [ChronoNext]_chronoVars  PROVE ChronoInv'
    OBVIOUS
  <1>1. CASE Begin
    BY <1>1, BeginStep
  <1>2. CASE DoCall
    BY <1>2, DoCallStep
  <1>3. CASE UNCHANGED chronoVars
    BY <1>3 DEF chronoVars, counters, ChronoInv, ChronoTypes, ReportsInv, ScriptInv, Room,
                CorrectedIsConsistent, UndefinedOnlyAfterQuery
  <1> QED  BY <1>1, <1>2, <1>3 DEF ChronoNext, JobsDone

\* The invariant of the users of a ChronoTrigger: each report that has been
\* measured holds its statistics, what is looked at has been measured, and so
\* little is measured that the means and variances stay exact.
THEOREM ChronoInvariant == ChronoSpec => []ChronoInv
  BY ChronoInitial, ChronoStep, PTL DEF ChronoSpec

\* Each report holds the statistics of what passed between the ticks and tocks
\* of its name since the last clear: tock's incremental mean and variance are
\* those of the definition, for any readings and any number of jobs.
THEOREM StatsMatchDataAlways == ChronoSpec => []StatsMatchData
PROOF
  <1>1. ChronoInv => StatsMatchData
    <2> SUFFICES ASSUME ChronoInv, NEW name \in DOMAIN measured
                 PROVE  name \in DOMAIN task2Report /\ IsReportOf(task2Report[name], measured[name])
      BY DEF StatsMatchData
    <2>1. name \in DOMAIN task2Report /\ ReportInv(task2Report[name], measured[name])
      BY Zenon DEF ChronoInv, ReportsInv
    <2> QED  BY <2>1, ReportIs
  <1> QED  BY <1>1, ChronoInvariant, PTL

\* A report corrected by the bias, by getReport or dumpAllReport, is still one
\* report, with its mean within its bounds and its sum that of its mean.
THEOREM CorrectedIsConsistentAlways == ChronoSpec => []CorrectedIsConsistent
PROOF
  <1>1. ChronoInv => CorrectedIsConsistent
    BY DEF ChronoInv
  <1> QED  BY <1>1, ChronoInvariant, PTL

\* Out of bounds accesses come from a dump after a query only.
THEOREM UndefinedOnlyAfterQueryAlways == ChronoSpec => []UndefinedOnlyAfterQuery
PROOF
  <1>1. ChronoInv => UndefinedOnlyAfterQuery
    BY DEF ChronoInv
  <1> QED  BY <1>1, ChronoInvariant, PTL

----------------------------------------------------------------------------
(* ChronoTrigger: the probes of the operators and the pool. *)

OfCPU(name) == name[1] = "CPU"

\* No job of an operator or a pool measures the bias or dumps; what it measures
\* it asks for; what it measures of the CPU it clears; and it does not clear
\* between what it measures of a name.
Plain(p) ==
  \A i \in 1..Len(p) :
    /\ p[i].name # Bias /\ p[i].call # "dump"
    /\ p[i].call = "tock" => \E j \in (i + 1)..Len(p) : p[j] = Call("getReport", p[i].name)
    /\ p[i].call = "tock" /\ OfCPU(p[i].name) => \E j \in (i + 1)..Len(p) : p[j].call = "clear"
    /\ p[i].call \in {"tock", "getReport"} =>
         \A k \in 1..(i - 1) : p[k].call = "clear" =>
           \A j \in 1..(k - 1) : p[j] # Call("tock", p[i].name)

\* Only the CPU is measured before anything has been cleared.
Starts(p) ==
  \A i \in 1..Len(p) :
    p[i].call \in {"tock", "getReport"} /\ NoClear(p, 1, i - 1) => OfCPU(p[i].name)

\* What remains of such a job is such a job.
LEMMA PlainTail ==
  ASSUME NEW p \in Seq(Calls), p # <<>>, Plain(p)
  PROVE  Plain(Tail(p))
PROOF
  <1> DEFINE q == Tail(p)
             n == Len(q)
  <1>1. /\ Len(p) = n + 1 /\ n \in Nat
        /\ \A i \in 1..n : q[i] = p[i + 1]
    BY TailOf
  <1> HIDE DEF q, n
  <1>2. ASSUME NEW i \in 1..n
        PROVE  /\ q[i].name # Bias /\ q[i].call # "dump"
               /\ q[i].call = "tock" => \E j \in (i + 1)..n : q[j] = Call("getReport", q[i].name)
               /\ q[i].call = "tock" /\ OfCPU(q[i].name) => \E j \in (i + 1)..n : q[j].call = "clear"
               /\ q[i].call \in {"tock", "getReport"} =>
                    \A k \in 1..(i - 1) : q[k].call = "clear" =>
                      \A j \in 1..(k - 1) : q[j] # Call("tock", q[i].name)
    <2>1. i + 1 \in 1..Len(p) /\ q[i] = p[i + 1] /\ (i + 1) - 1 = i
      BY <1>1
    <2>2. /\ q[i].name # Bias /\ q[i].call # "dump"
          /\ q[i].call = "tock" => \E j \in ((i + 1) + 1)..(n + 1) : p[j] = Call("getReport", q[i].name)
          /\ q[i].call = "tock" /\ OfCPU(q[i].name) =>
               \E j \in ((i + 1) + 1)..(n + 1) : p[j].call = "clear"
          /\ q[i].call \in {"tock", "getReport"} =>
               \A k \in 1..i : p[k].call = "clear" =>
                 \A j \in 1..(k - 1) : p[j] # Call("tock", q[i].name)
      BY <1>1, <2>1, Zenon DEF Plain
    <2>3. \A j \in ((i + 1) + 1)..(n + 1) : j - 1 \in (i + 1)..n /\ q[j - 1] = p[j]
      <3>1. \A j \in ((i + 1) + 1)..(n + 1) : j - 1 \in (i + 1)..n /\ j - 1 \in 1..n /\ (j - 1) + 1 = j
        BY <1>1
      <3> QED  BY <1>1, <3>1
    <2>4. q[i].call = "tock" => \E j \in (i + 1)..n : q[j] = Call("getReport", q[i].name)
      BY <2>2, <2>3
    <2>5. q[i].call = "tock" /\ OfCPU(q[i].name) => \E j \in (i + 1)..n : q[j].call = "clear"
      BY <2>2, <2>3
    <2>6. ASSUME q[i].call \in {"tock", "getReport"}, NEW k \in 1..(i - 1), q[k].call = "clear",
                 NEW j \in 1..(k - 1)
          PROVE  q[j] # Call("tock", q[i].name)
      <3>1. /\ k + 1 \in 1..i /\ j + 1 \in 1..((k + 1) - 1)
            /\ k \in 1..n /\ j \in 1..n
        BY <1>1
      <3>2. q[k] = p[k + 1] /\ q[j] = p[j + 1]
        BY <1>1, <3>1
      <3> QED  BY <2>2, <2>6, <3>1, <3>2
    <2> QED  BY <2>2, <2>4, <2>5, <2>6
  <1> QED  BY <1>2 DEF Plain, q, n

\* Two such sequences, for different names, of which only the first may clear.
LEMMA PlainJoins ==
  ASSUME NEW p \in Seq(Calls), NEW q \in Seq(Calls), Plain(p), Plain(q), NoClear(q, 1, Len(q)),
         \A i \in 1..Len(p), j \in 1..Len(q) : p[i].name # q[j].name
  PROVE  Plain(p \o q)
PROOF
  <1> DEFINE r == p \o q
             m == Len(p)
             n == Len(q)
  <1>1. /\ Len(r) = m + n /\ m \in Nat /\ n \in Nat
        /\ \A i \in 1..m : r[i] = p[i]
        /\ \A i \in 1..n : r[m + i] = q[i]
        /\ \A i \in 1..(m + n) : i \in 1..m \/ \E j \in 1..n : i = m + j
    BY Joined, Zenon
  <1>2. \A j \in 1..n : q[j].call # "clear"
    BY DEF NoClear
  <1>3. \A i \in 1..m, j \in 1..n : p[i].name # q[j].name
    OBVIOUS
  <1> HIDE DEF r, m, n
  <1> DEFINE Fine(i) ==
               /\ r[i].name # Bias /\ r[i].call # "dump"
               /\ r[i].call = "tock" => \E j \in (i + 1)..(m + n) : r[j] = Call("getReport", r[i].name)
               /\ r[i].call = "tock" /\ OfCPU(r[i].name) => \E j \in (i + 1)..(m + n) : r[j].call = "clear"
               /\ r[i].call \in {"tock", "getReport"} =>
                    \A k \in 1..(i - 1) : r[k].call = "clear" =>
                      \A j \in 1..(k - 1) : r[j] # Call("tock", r[i].name)
  <1>4. ASSUME NEW i \in 1..m  PROVE Fine(i)
    <2>1. r[i] = p[i]
      BY <1>1
    <2>2. /\ p[i].name # Bias /\ p[i].call # "dump"
          /\ p[i].call = "tock" => \E j \in (i + 1)..m : p[j] = Call("getReport", p[i].name)
          /\ p[i].call = "tock" /\ OfCPU(p[i].name) => \E j \in (i + 1)..m : p[j].call = "clear"
          /\ p[i].call \in {"tock", "getReport"} =>
               \A k \in 1..(i - 1) : p[k].call = "clear" =>
                 \A j \in 1..(k - 1) : p[j] # Call("tock", p[i].name)
      BY Zenon DEF Plain, m
    <2>3. \A j \in (i + 1)..m : j \in (i + 1)..(m + n) /\ r[j] = p[j]
      BY <1>1
    <2>4. \A k \in 1..(i - 1) : r[k] = p[k] /\ \A j \in 1..(k - 1) : r[j] = p[j]
      BY <1>1
    <2> QED  BY <2>1, <2>2, <2>3, <2>4
  <1>5. ASSUME NEW i \in 1..n  PROVE Fine(m + i)
    <2>1. r[m + i] = q[i]
      BY <1>1
    <2>2. /\ q[i].name # Bias /\ q[i].call # "dump"
          /\ q[i].call = "tock" => \E j \in (i + 1)..n : q[j] = Call("getReport", q[i].name)
          /\ q[i].call = "tock" /\ OfCPU(q[i].name) => \E j \in (i + 1)..n : q[j].call = "clear"
      BY Zenon DEF Plain, n
    <2>3. \A j \in (i + 1)..n : m + j \in ((m + i) + 1)..(m + n) /\ r[m + j] = q[j]
      BY <1>1
    <2>4. ASSUME NEW k \in 1..((m + i) - 1), r[k].call = "clear", NEW j \in 1..(k - 1)
          PROVE  r[j] # Call("tock", q[i].name)
      <3>1. k \in 1..m
        <4>1. k \in 1..(m + n)
          BY <1>1
        <4>2. ASSUME NEW l \in 1..n, k = m + l  PROVE FALSE
          <5>1. r[k] = q[l]
            BY <1>1, <4>2
          <5> QED  BY <1>2, <2>4, <5>1, Zenon
        <4> QED  BY <1>1, <4>1, <4>2
      <3>2. j \in 1..m /\ r[j] = p[j]
        BY <1>1, <3>1
      <3>3. p[j].name # q[i].name
        BY <1>3, <3>2
      <3> QED  BY <3>2, <3>3, CallIs
    <2> QED  BY <2>1, <2>2, <2>3, <2>4
  <1> HIDE DEF Fine
  <1>6. \A i \in 1..(m + n) : Fine(i)
    BY <1>1, <1>4, <1>5
  <1>7. Plain(r)
    BY <1>1, <1>6 DEF Plain, Fine
  <1> QED  BY <1>7 DEF r

\* The fields of a call.
LEMMA FieldsAre ==
  ASSUME NEW x, NEW c, NEW n, x = Call(c, n)
  PROVE  x.call = c /\ x.name = n
  BY CallIs

\* What a probe calls.
LEMMA ProbePlain ==
  ASSUME NEW name \in Names, name # Bias, NEW p,
         NEW asks, asks = <<Call("getReport", name)>>,
         NEW clears, clears \in {<<>>, <<Call("clear", name)>>},
         OfCPU(name) => clears # <<>>,
         p = TickTock(name, PROBE_REP) \o (asks \o clears)
  PROVE  /\ p \in Seq(Calls) /\ Plain(p)
         /\ \A i \in 1..Len(p) : p[i].name = name
         /\ clears = <<>> => NoClear(p, 1, Len(p))
         /\ clears # <<>> => ~NoClear(p, 1, Len(p))
PROOF
  <1> DEFINE t == TickTock(name, PROBE_REP)
             q == asks \o clears
             m == 2 * PROBE_REP
             n == Len(q)
  <1>0. PROBE_REP \in Nat /\ m \in Nat
    BY BoundsAre
  <1>1. /\ t \in Seq(Calls) /\ Len(t) = m
        /\ \A i \in 1..m : t[i] = Call(IF i % 2 = 1 THEN "tick" ELSE "tock", name)
    BY <1>0, TickTockIs
  <1>2. Call("getReport", name) \in Calls /\ Call("clear", name) \in Calls
    BY CallIs DEF CallNames
  <1>3. /\ q \in Seq(Calls) /\ q[1] = Call("getReport", name)
        /\ clears = <<>> => n = 1
        /\ clears # <<>> => n = 2 /\ q[2] = Call("clear", name)
    <2>1. CASE clears = <<>>
      <3>1. q = <<Call("getReport", name)>> \o <<>>
        BY <2>1
      <3> QED  BY <1>2, <2>1, <3>1
    <2>2. CASE clears = <<Call("clear", name)>>
      <3>1. q = <<Call("getReport", name)>> \o <<Call("clear", name)>>
        BY <2>2
      <3> QED  BY <1>2, <2>2, <3>1
    <2> QED  BY <2>1, <2>2
  <1>4. p = t \o q
    OBVIOUS
  <1> HIDE DEF t, q, m, n
  <1>5. /\ p \in Seq(Calls) /\ Len(p) = m + n /\ n \in Nat
        /\ \A i \in 1..m : p[i] = t[i]
        /\ \A i \in 1..n : p[m + i] = q[i]
        /\ \A i \in 1..(m + n) : i \in 1..m \/ \E j \in 1..n : i = m + j
    <2>1. /\ t \o q \in Seq(Calls) /\ Len(t \o q) = Len(t) + n /\ n \in Nat
          /\ \A i \in 1..Len(t) : (t \o q)[i] = t[i]
          /\ \A i \in 1..n : (t \o q)[Len(t) + i] = q[i]
          /\ \A i \in 1..(Len(t) + n) : i \in 1..Len(t) \/ \E j \in 1..n : i = Len(t) + j
      BY <1>1, <1>3, Joined, Zenon DEF n
    <2> QED  BY <1>1, <1>4, <2>1, Zenon
  <1>6. /\ \A i \in 1..m : p[i].name = name /\ p[i].call \in {"tick", "tock"}
        /\ m + 1 \in 1..Len(p) /\ p[m + 1] = Call("getReport", name)
        /\ clears # <<>> => m + 2 \in 1..Len(p) /\ p[m + 2] = Call("clear", name)
        /\ \A i \in 1..Len(p) : i \in 1..m \/ i = m + 1 \/ (i = m + 2 /\ clears # <<>>)
    <2>1. \A i \in 1..m : p[i].name = name /\ p[i].call \in {"tick", "tock"}
      <3> SUFFICES ASSUME NEW i \in 1..m
                   PROVE  p[i].name = name /\ p[i].call \in {"tick", "tock"}
        OBVIOUS
      <3>1. p[i] = Call("tick", name) \/ p[i] = Call("tock", name)
        BY <1>1, <1>5
      <3>2. CASE p[i] = Call("tick", name)
        BY <3>2, FieldsAre, Zenon
      <3>3. CASE p[i] = Call("tock", name)
        BY <3>3, FieldsAre, Zenon
      <3> QED  BY <3>1, <3>2, <3>3
    <2>2. n = 1 \/ n = 2
      BY <1>3
    <2>3. m + 1 \in 1..Len(p) /\ 1 \in 1..n
      BY <1>0, <1>5, <2>2
    <2>4. clears # <<>> => m + 2 \in 1..Len(p) /\ 2 \in 1..n
      BY <1>0, <1>3, <1>5
    <2>5. \A i \in 1..Len(p) : i \in 1..m \/ i = m + 1 \/ (i = m + 2 /\ clears # <<>>)
      BY <1>0, <1>3, <1>5, <2>2
    <2>6. p[m + 1] = Call("getReport", name)
      BY <1>3, <1>5, <2>3
    <2>7. ASSUME clears # <<>>  PROVE p[m + 2] = Call("clear", name)
      <3>1. 2 \in 1..n /\ q[2] = Call("clear", name)
        BY <1>3, <2>4, <2>7, Zenon
      <3> QED  BY <1>5, <3>1, Zenon
    <2>8. m + 1 \in 1..Len(p) /\ p[m + 1] = Call("getReport", name)
      BY <2>3, <2>6, Zenon
    <2>9. clears # <<>> => m + 2 \in 1..Len(p) /\ p[m + 2] = Call("clear", name)
      BY <2>4, <2>7, Zenon
    <2> QED  BY <2>1, <2>5, <2>8, <2>9, Zenon
  <1>7. /\ p[m + 1].name = name /\ p[m + 1].call = "getReport"
        /\ clears # <<>> => p[m + 2].name = name /\ p[m + 2].call = "clear"
    <2>1. p[m + 1] = Call("getReport", name) /\ (clears # <<>> => p[m + 2] = Call("clear", name))
      BY <1>6
    <2>2. p[m + 1].name = name /\ p[m + 1].call = "getReport"
      <3>1. p[m + 1] = Call("getReport", name)
        BY <2>1
      <3> QED  BY <3>1, FieldsAre, Zenon
    <2>3. ASSUME clears # <<>>  PROVE p[m + 2].name = name /\ p[m + 2].call = "clear"
      <3>1. p[m + 2] = Call("clear", name)
        BY <2>1, <2>3
      <3> QED  BY <3>1, FieldsAre, Zenon
    <2> QED  BY <2>2, <2>3
  <1>8. \A i \in 1..Len(p) : p[i].name = name
    BY <1>6, <1>7
  <1>9. clears = <<>> => NoClear(p, 1, Len(p))
    BY <1>6, <1>7 DEF NoClear
  <1>10. Plain(p)
    <2> SUFFICES ASSUME NEW i \in 1..Len(p)
                 PROVE  /\ p[i].name # Bias /\ p[i].call # "dump"
                        /\ p[i].call = "tock" =>
                             \E j \in (i + 1)..Len(p) : p[j] = Call("getReport", p[i].name)
                        /\ p[i].call = "tock" /\ OfCPU(p[i].name) =>
                             \E j \in (i + 1)..Len(p) : p[j].call = "clear"
                        /\ p[i].call \in {"tock", "getReport"} =>
                             \A k \in 1..(i - 1) : p[k].call = "clear" =>
                               \A j \in 1..(k - 1) : p[j] # Call("tock", p[i].name)
      BY DEF Plain
    <2>1. p[i].name # Bias /\ p[i].call # "dump"
      BY <1>6, <1>7, <1>8
    <2>2. p[i].call = "tock" => i \in 1..m
      BY <1>6, <1>7
    <2>3. i \in 1..m => /\ m + 1 \in (i + 1)..Len(p)
                        /\ clears # <<>> => m + 2 \in (i + 1)..Len(p)
      BY <1>0, <1>5, <1>6
    <2>4. p[i].call \in {"tock", "getReport"} => \A k \in 1..(i - 1) : p[k].call # "clear"
      <3>1. p[i].call \in {"tock", "getReport"} => i \in 1..m \/ i = m + 1
        BY <1>6, <1>7
      <3>2. i \in 1..m \/ i = m + 1 => \A k \in 1..(i - 1) : k \in 1..m
        BY <1>0
      <3> QED  BY <1>6, <3>1, <3>2
    <2> QED  BY <1>6, <1>7, <1>8, <2>1, <2>2, <2>3, <2>4
  <1>11. clears # <<>> => ~NoClear(p, 1, Len(p))
    BY <1>6, <1>7 DEF NoClear
  <1> QED  BY <1>5, <1>8, <1>9, <1>10, <1>11

\* The probes of an operator.
LEMMA ProbesPlain ==
  ASSUME NEW size \in Size
  PROVE  LET c == CPUProbe(size)
             d == DPUProbe(size)
         IN  /\ c \in Seq(Calls) /\ Plain(c) /\ Starts(c)
             /\ d \in Seq(Calls) /\ Plain(d) /\ NoClear(d, 1, Len(d))
             /\ \E k \in 1..Len(c) : c[k].call = "clear"
             /\ \A i \in 1..Len(c), j \in 1..Len(d) : c[i].name # d[j].name
PROOF
  <1> DEFINE c == CPUProbe(size)
             d == DPUProbe(size)
             cpu == <<"CPU", size>>
             dpu == <<"DPU", size>>
  <1>1. /\ cpu \in Names /\ dpu \in Names /\ cpu # Bias /\ dpu # Bias /\ cpu # dpu
        /\ OfCPU(cpu) /\ ~OfCPU(dpu)
    BY NamesAre DEF OfCPU
  <1>2. /\ c = TickTock(cpu, PROBE_REP) \o (<<Call("getReport", cpu)>> \o <<Call("clear", cpu)>>)
        /\ d = TickTock(dpu, PROBE_REP) \o (<<Call("getReport", dpu)>> \o <<>>)
    <2>1. /\ Call("getReport", cpu) \in Calls /\ Call("clear", cpu) \in Calls
          /\ Call("getReport", dpu) \in Calls
      BY <1>1, CallIs DEF CallNames
    <2>2. /\ <<Call("getReport", cpu), Call("clear", cpu)>>
               = <<Call("getReport", cpu)>> \o <<Call("clear", cpu)>>
          /\ <<Call("getReport", dpu)>> = <<Call("getReport", dpu)>> \o <<>>
      BY <2>1, TwoCalls, Zenon
    <2> QED  BY <2>2, Zenon DEF CPUProbe, DPUProbe
  <1> HIDE DEF c, d, cpu, dpu
  <1>3. <<Call("clear", cpu)>> # <<>>
    OBVIOUS
  <1>4. /\ c \in Seq(Calls) /\ Plain(c) /\ \A i \in 1..Len(c) : c[i].name = cpu
        /\ \E k \in 1..Len(c) : c[k].call = "clear"
    <2> DEFINE asks == <<Call("getReport", cpu)>>
               clears == <<Call("clear", cpu)>>
    <2>1. clears \in {<<>>, <<Call("clear", cpu)>>} /\ asks = <<Call("getReport", cpu)>>
      OBVIOUS
    <2>2. clears # <<>> /\ c = TickTock(cpu, PROBE_REP) \o (asks \o clears)
      BY <1>2, <1>3
    <2> HIDE DEF asks, clears
    <2>3. c \in Seq(Calls) /\ Plain(c) /\ \A i \in 1..Len(c) : c[i].name = cpu
      BY <1>1, <2>1, <2>2, ProbePlain, Zenon
    <2>4. ~NoClear(c, 1, Len(c))
      BY <1>1, <2>1, <2>2, ProbePlain, Zenon
    <2> QED  BY <2>3, <2>4 DEF NoClear
  <1>5. /\ d \in Seq(Calls) /\ Plain(d) /\ \A i \in 1..Len(d) : d[i].name = dpu
        /\ NoClear(d, 1, Len(d))
    <2>1. <<>> \in {<<>>, <<Call("clear", dpu)>>}
      OBVIOUS
    <2> QED  BY <1>1, <1>2, <2>1, ProbePlain, Zenon
  <1>6. Starts(c)
    BY <1>1, <1>4 DEF Starts
  <1> QED  BY <1>1, <1>4, <1>5, <1>6 DEF c, d

\* A sample of trainModel: the CPU, which clears, and then the DPUs.
LEMMA SamplePlain ==
  ASSUME NEW size \in Size
  PROVE  Sample(size) \in Seq(Calls) /\ Plain(Sample(size)) /\ Starts(Sample(size))
PROOF
  <1> DEFINE p == Sample(size)
             c == CPUProbe(size)
             d == DPUProbe(size)
  <1>1. /\ c \in Seq(Calls) /\ Plain(c) /\ Starts(c)
        /\ d \in Seq(Calls) /\ Plain(d) /\ NoClear(d, 1, Len(d))
        /\ \E k \in 1..Len(c) : c[k].call = "clear"
        /\ \A i \in 1..Len(c), j \in 1..Len(d) : c[i].name # d[j].name
    BY ProbesPlain
  <1>2. p = c \o d
    BY DEF Sample
  <1> HIDE DEF p, c, d
  <1>3. /\ p \in Seq(Calls) /\ Len(p) = Len(c) + Len(d) /\ Len(c) \in Nat /\ Len(d) \in Nat
        /\ \A i \in 1..Len(c) : p[i] = c[i]
        /\ \A i \in 1..(Len(c) + Len(d)) :
             i \in 1..Len(c) \/ \E j \in 1..Len(d) : i = Len(c) + j
    BY <1>1, <1>2, Joined, Zenon
  <1>4. Plain(p)
    BY <1>1, <1>2, PlainJoins, Zenon
  <1>5. ASSUME NEW i \in 1..Len(p), p[i].call \in {"tock", "getReport"}, NoClear(p, 1, i - 1)
        PROVE  OfCPU(p[i].name)
    <2>1. i \in 1..Len(c)
      <3>1. PICK k \in 1..Len(c) : c[k].call = "clear"
        BY <1>1
      <3>2. ASSUME i \notin 1..Len(c)  PROVE k \in 1..(i - 1)
        <4>1. i \in Nat /\ i > Len(c) /\ k \in Nat /\ k >= 1 /\ k <= Len(c) /\ Len(c) \in Nat
          BY <1>3, <3>2
        <4> QED  BY <4>1
      <3>3. p[k].call = "clear"
        BY <1>3, <3>1
      <3> QED  BY <1>5, <3>2, <3>3 DEF NoClear
    <2>2. p[i] = c[i] /\ \A k \in 1..(i - 1) : p[k] = c[k]
      BY <1>3, <2>1
    <2>3. NoClear(c, 1, i - 1)
      BY <1>5, <2>2 DEF NoClear
    <2> QED  BY <1>1, <1>5, <2>1, <2>2, <2>3 DEF Starts
  <1> QED  BY <1>3, <1>4, <1>5 DEF Starts, p

\* A workload of the pool clears first.
LEMMA WorkloadPlain ==
  Workload \in Seq(Calls) /\ Plain(Workload) /\ Starts(Workload)
PROOF
  <1> DEFINE name == <<"HCP", 0>>
             p == Workload
  <1>1. p = <<Call("clear", name), Call("tick", name), Call("tock", name), Call("getReport", name)>>
    BY DEF Workload
  <1>2. name \in Names /\ name # Bias /\ ~OfCPU(name)
    BY NamesAre DEF OfCPU
  <1> HIDE DEF name, p
  <1>3. \A c \in CallNames : Call(c, name) \in Calls
    BY <1>2, CallIs
  <1>4. /\ p \in Seq(Calls) /\ Len(p) = 4
        /\ p[1] = Call("clear", name) /\ p[2] = Call("tick", name)
        /\ p[3] = Call("tock", name) /\ p[4] = Call("getReport", name)
    BY <1>1, <1>3 DEF CallNames
  <1>5. /\ p[1].call = "clear" /\ p[2].call = "tick" /\ p[3].call = "tock"
        /\ p[4].call = "getReport" /\ p[1].name = name /\ p[2].name = name
        /\ p[3].name = name /\ p[4].name = name
    BY <1>4, CallIs
  <1>6. \A i \in 1..4 : i = 1 \/ i = 2 \/ i = 3 \/ i = 4
    OBVIOUS
  <1>7. \A i \in 1..4 : /\ p[i].name = name /\ p[i].call # "dump"
                        /\ p[i].call = "tock" => i = 3
                        /\ p[i].call = "clear" => i = 1
    BY <1>5, <1>6
  <1>8. Plain(p)
    <2> SUFFICES ASSUME NEW i \in 1..4
                 PROVE  /\ p[i].name # Bias /\ p[i].call # "dump"
                        /\ p[i].call = "tock" =>
                             \E j \in (i + 1)..4 : p[j] = Call("getReport", p[i].name)
                        /\ p[i].call = "tock" /\ OfCPU(p[i].name) =>
                             \E j \in (i + 1)..4 : p[j].call = "clear"
                        /\ p[i].call \in {"tock", "getReport"} =>
                             \A k \in 1..(i - 1) : p[k].call = "clear" =>
                               \A j \in 1..(k - 1) : p[j] # Call("tock", p[i].name)
      BY <1>4 DEF Plain
    <2>1. 4 \in (3 + 1)..4
      OBVIOUS
    <2>2. p[i].call = "tock" => \E j \in (i + 1)..4 : p[j] = Call("getReport", p[i].name)
      BY <1>4, <1>7, <2>1
    <2>3. ASSUME NEW k \in 1..(i - 1), p[k].call = "clear", NEW j \in 1..(k - 1)
          PROVE  FALSE
      <3>1. k \in 1..4 /\ k # 1
        OBVIOUS
      <3> QED  BY <1>7, <2>3, <3>1
    <2> QED  BY <1>2, <1>7, <2>2, <2>3
  <1>9. Starts(p)
    <2>1. ASSUME NEW i \in 1..4, p[i].call \in {"tock", "getReport"}
          PROVE  1 \in 1..(i - 1)
      BY <1>5, <1>6, <2>1
    <2> QED  BY <1>4, <1>5, <2>1 DEF Starts, NoClear
  <1> QED  BY <1>4, <1>8, <1>9 DEF p

\* The jobs of the operators and of the pool.
LEMMA JobPlain ==
  ASSUME NEW u \in {"operator", "transfer operator", "pool"}, NEW p \in JobsOf(u)
  PROVE  p \in Seq(Calls) /\ Plain(p) /\ Starts(p)
PROOF
  <1>1. CASE u = "operator"
    <2>1. PICK size \in Size : p = Sample(size)
      BY <1>1 DEF JobsOf
    <2> QED  BY <2>1, SamplePlain
  <1>2. CASE u = "transfer operator"
    <2>1. PICK size \in Size : p = CPUProbe(size)
      BY <1>2 DEF JobsOf
    <2> QED  BY <2>1, ProbesPlain
  <1>3. CASE u = "pool"
    <2>1. p = Workload
      BY <1>3 DEF JobsOf
    <2> QED  BY <2>1, WorkloadPlain
  <1> QED  BY <1>1, <1>2, <1>3

----------------------------------------------------------------------------
(* ChronoTrigger: a probe answers with its own runs. *)

Asks(p, name) == \E i \in 1..Len(p) : p[i] = Call("getReport", name)

\* At each tock and each question still to come, what is measured of its name
\* is what the job has measured; if something is cleared before, the job has
\* measured nothing yet.
AllFresh(p, M, J) ==
  \A i \in 1..Len(p) : p[i].call \in {"tock", "getReport"} =>
    IF NoClear(p, 1, i - 1) THEN DataOf(M, p[i].name) = DataOf(J, p[i].name)
    ELSE DataOf(J, p[i].name) = <<>>

\* The answer is of the runs of the job, once the job has got it.
FreshAnswer ==
  ~Asks(todo, answer.name) /\ DataOf(inJob, answer.name) # <<>> =>
    IsReportOf(answer.report, DataOf(inJob, answer.name))

FreshInv ==
  user # "test" =>
    /\ inBounds /\ Bias \notin DOMAIN measured
    /\ Plain(todo)
    /\ AllFresh(todo, measured, inJob)
    /\ \A name \in DOMAIN measured : OfCPU(name) => ~NoClear(todo, 1, Len(todo))
    /\ FreshAnswer

\* The elements of a sequence.
LEMMA RangeIs ==
  ASSUME NEW p \in Seq(Calls), NEW x
  PROVE  x \in Range(p) <=> \E i \in 1..Len(p) : p[i] = x
PROOF
  <1>1. DOMAIN p = 1..Len(p)
    OBVIOUS
  <1> QED  BY <1>1 DEF Range

\* A question still to come stays to come.
LEMMA AsksTail ==
  ASSUME NEW p \in Seq(Calls), p # <<>>, NEW name, Asks(p, name), p[1].call # "getReport"
  PROVE  Asks(Tail(p), name)
PROOF
  <1> DEFINE q == Tail(p)
  <1>1. /\ Len(p) \in Nat /\ Len(p) >= 1 /\ Len(q) = Len(p) - 1
        /\ \A i \in 1..Len(q) : q[i] = p[i + 1]
    BY TailOf
  <1> HIDE DEF q
  <1>2. PICK i \in 1..Len(p) : p[i] = Call("getReport", name)
    BY DEF Asks
  <1>3. i # 1
    BY <1>2, FieldsAre
  <1>4. i - 1 \in 1..Len(q) /\ (i - 1) + 1 = i
    BY <1>1, <1>3
  <1>5. q[i - 1] = p[i]
    BY <1>1, <1>4
  <1> QED  BY <1>2, <1>4, <1>5 DEF Asks, q

\* A clear still to come stays to come.
LEMMA ClearTail ==
  ASSUME NEW p \in Seq(Calls), p # <<>>, NEW i \in 2..Len(p), p[i].call = "clear"
  PROVE  ~NoClear(Tail(p), 1, Len(Tail(p)))
PROOF
  <1> DEFINE q == Tail(p)
  <1>1. /\ Len(p) \in Nat /\ Len(p) >= 1 /\ Len(q) = Len(p) - 1
        /\ \A j \in 1..Len(q) : q[j] = p[j + 1]
    BY TailOf
  <1> HIDE DEF q
  <1>2. i - 1 \in 1..Len(q) /\ (i - 1) + 1 = i
    BY <1>1
  <1>3. q[i - 1] = p[i]
    BY <1>1, <1>2
  <1> QED  BY <1>2, <1>3 DEF NoClear, q

\* The call made is not the one that clears.
LEMMA ClearStays ==
  ASSUME NEW p \in Seq(Calls), p # <<>>, p[1].call # "clear", ~NoClear(p, 1, Len(p))
  PROVE  ~NoClear(Tail(p), 1, Len(Tail(p)))
PROOF
  <1>1. PICK i \in 1..Len(p) : p[i].call = "clear"
    BY DEF NoClear
  <1>2. i # 1
    BY <1>1
  <1>3. i \in 2..Len(p)
    BY <1>2
  <1> QED  BY <1>1, <1>3, ClearTail

\* What passes for one name passes for it in both histories.
Adds(M, N, name, x) ==
  /\ DataOf(N, name) = Append(DataOf(M, name), x)
  /\ \A n : n # name => DataOf(N, n) = DataOf(M, n)

\* A tock adds to a history.
LEMMA AddsIs ==
  ASSUME NEW M, NEW name, NEW x, NEW N, N = With(M, name, Append(DataOf(M, name), x))
  PROVE  Adds(M, N, name, x)
PROOF
  <1> DEFINE v == Append(DataOf(M, name), x)
  <1>1. N = With(M, name, v)
    OBVIOUS
  <1> HIDE DEF v
  <1>2. DataOf(N, name) = v /\ \A n : n # name => DataOf(N, n) = DataOf(M, n)
    BY <1>1, DataOfWith
  <1> QED  BY <1>2 DEF Adds, v

\* What is measured stays what the job has measured, call by call.
LEMMA FreshTail ==
  ASSUME NEW p \in Seq(Calls), p # <<>>, Plain(p), NEW M, NEW J, AllFresh(p, M, J),
         NEW N, NEW K,
         \/ p[1].call = "clear" /\ K = J /\ N = <<>>
         \/ p[1].call = "tock" /\ \E x : Adds(M, N, p[1].name, x) /\ Adds(J, K, p[1].name, x)
         \/ p[1].call \notin {"clear", "tock"} /\ N = M /\ K = J
  PROVE  AllFresh(Tail(p), N, K)
PROOF
  <1> DEFINE q == Tail(p)
  <1>1. /\ Len(p) \in Nat /\ Len(p) >= 1 /\ Len(q) = Len(p) - 1 /\ Len(q) \in Nat
        /\ \A i \in 1..Len(q) : q[i] = p[i + 1]
        /\ p[1] \in Calls
    BY TailOf
  <1> HIDE DEF q
  <1> SUFFICES ASSUME NEW i \in 1..Len(q), q[i].call \in {"tock", "getReport"}
               PROVE  IF NoClear(q, 1, i - 1) THEN DataOf(N, q[i].name) = DataOf(K, q[i].name)
                      ELSE DataOf(K, q[i].name) = <<>>
    BY DEF AllFresh, q
  <1> DEFINE name == q[i].name
  <1>2. /\ i + 1 \in 1..Len(p) /\ q[i] = p[i + 1] /\ (i + 1) - 1 = i
        /\ \A k \in 1..(i - 1) : k \in 1..Len(q) /\ k + 1 \in 1..i
        /\ \A k \in 2..i : k - 1 \in 1..(i - 1) /\ k - 1 \in 1..Len(q) /\ (k - 1) + 1 = k
        /\ 1 \in 1..i /\ \A k \in 1..i : k = 1 \/ k \in 2..i
    BY <1>1
  <1>3. IF NoClear(p, 1, i) THEN DataOf(M, name) = DataOf(J, name) ELSE DataOf(J, name) = <<>>
    BY <1>2 DEF AllFresh
  <1>4. p[1].call = "clear" => ~NoClear(p, 1, i)
    BY <1>2 DEF NoClear
  <1>5. p[1].call # "clear" => (NoClear(p, 1, i) <=> NoClear(q, 1, i - 1))
    <2>1. \A k \in 1..(i - 1) : q[k] = p[k + 1]
      BY <1>1, <1>2
    <2>2. NoClear(p, 1, i) => NoClear(q, 1, i - 1)
      BY <1>2, <2>1 DEF NoClear
    <2>3. ASSUME p[1].call # "clear", NoClear(q, 1, i - 1), NEW k \in 1..i
          PROVE  p[k].call # "clear"
      <3>1. CASE k = 1
        BY <2>3, <3>1
      <3>2. CASE k \in 2..i
        <4>1. k - 1 \in 1..(i - 1) /\ q[k - 1] = p[k]
          BY <1>1, <1>2, <3>2
        <4> QED  BY <2>3, <4>1 DEF NoClear
      <3> QED  BY <1>2, <3>1, <3>2
    <2> QED  BY <2>2, <2>3 DEF NoClear
  <1> HIDE DEF name
  <1>6. CASE p[1].call = "clear" /\ K = J /\ N = <<>>
    <2>1. DataOf(J, name) = <<>>
      BY <1>3, <1>4, <1>6
    <2>2. DataOf(N, name) = <<>>
      BY <1>6 DEF DataOf
    <2> QED  BY <1>6, <2>1, <2>2 DEF name
  <1>7. ASSUME p[1].call = "tock", NEW x, Adds(M, N, p[1].name, x), Adds(J, K, p[1].name, x)
        PROVE  IF NoClear(q, 1, i - 1) THEN DataOf(N, name) = DataOf(K, name)
               ELSE DataOf(K, name) = <<>>
    <2>1. NoClear(p, 1, i) <=> NoClear(q, 1, i - 1)
      BY <1>5, <1>7
    <2>2. CASE p[1].name # name
      <3>1. DataOf(N, name) = DataOf(M, name) /\ DataOf(K, name) = DataOf(J, name)
        BY <1>7, <2>2 DEF Adds
      <3> QED  BY <1>3, <2>1, <3>1
    <2>3. CASE p[1].name = name
      <3>1. NoClear(p, 1, i)
        <4>1. p[1] = Call("tock", name)
          BY <1>1, <1>7, <2>3, CallOf
        <4>2. ASSUME NEW k \in 1..i, p[k].call = "clear"  PROVE FALSE
          <5>1. k # 1
            BY <1>7, <4>2
          <5>2. 1 \in 1..(k - 1)
            BY <5>1
          <5>3. \A j \in 1..(k - 1) : p[j] # Call("tock", p[i + 1].name)
            <6>1. p[i + 1].call \in {"tock", "getReport"}
              BY <1>2
            <6> QED  BY <1>2, <4>2, <6>1 DEF Plain
          <5> QED  BY <1>2, <4>1, <5>2, <5>3 DEF name
        <4> QED  BY <4>2 DEF NoClear
      <3>2. DataOf(M, name) = DataOf(J, name)
        BY <1>3, <3>1
      <3>3. DataOf(N, name) = Append(DataOf(M, name), x) /\ DataOf(K, name) = Append(DataOf(J, name), x)
        BY <1>7, <2>3 DEF Adds
      <3> QED  BY <2>1, <3>1, <3>2, <3>3
    <2> QED  BY <2>2, <2>3
  <1>8. CASE p[1].call \notin {"clear", "tock"} /\ N = M /\ K = J
    BY <1>3, <1>5, <1>8 DEF name
  <1> QED  BY <1>6, <1>7, <1>8 DEF name

\* Before the first job.
LEMMA FreshInitial == ChronoInit => FreshInv
PROOF
  <1> SUFFICES ASSUME ChronoInit  PROVE FreshInv
    OBVIOUS
  <1>1. todo = <<>> /\ measured = <<>> /\ inJob = <<>> /\ inBounds = TRUE
    BY DEF ChronoInit
  <1>2. DOMAIN measured = {} /\ Len(todo) = 0 /\ \A n : DataOf(inJob, n) = <<>>
    BY <1>1 DEF DataOf
  <1> QED  BY <1>1, <1>2 DEF FreshInv, Plain, AllFresh, FreshAnswer

\* When a job begins, nothing of the CPU is left over.
LEMMA FreshBegin ==
  ASSUME ChronoInv, FreshInv, Begin
  PROVE  FreshInv'
PROOF
  <1>1. /\ todo = <<>> /\ todo' \in JobsOf(user) /\ inJob' = <<>>
        /\ UNCHANGED <<user, measured, answer, inBounds>>
    BY DEF Begin
  <1> SUFFICES ASSUME user # "test"
               PROVE  /\ inBounds' /\ Bias \notin DOMAIN measured'
                      /\ Plain(todo')
                      /\ AllFresh(todo', measured', inJob')
                      /\ \A name \in DOMAIN measured' :
                           OfCPU(name) => ~NoClear(todo', 1, Len(todo'))
                      /\ FreshAnswer'
    BY <1>1 DEF FreshInv
  <1>2. todo' \in Seq(Calls) /\ Plain(todo') /\ Starts(todo')
    <2>1. user \in {"operator", "transfer operator", "pool"}
      BY DEF ChronoInv, ChronoTypes
    <2> QED  BY <1>1, <2>1, JobPlain
  <1>3. \A name \in DOMAIN measured : ~OfCPU(name)
    <2>1. Len(todo) = 0
      BY <1>1
    <2>2. NoClear(todo, 1, Len(todo))
      BY <2>1 DEF NoClear
    <2> QED  BY <2>2 DEF FreshInv
  <1>4. \A n : DataOf(inJob', n) = <<>>
    BY <1>1 DEF DataOf
  <1>5. AllFresh(todo', measured', inJob')
    <2> SUFFICES ASSUME NEW i \in 1..Len(todo'), todo'[i].call \in {"tock", "getReport"},
                        NoClear(todo', 1, i - 1)
                 PROVE  DataOf(measured', todo'[i].name) = <<>>
      BY <1>4 DEF AllFresh
    <2>1. OfCPU(todo'[i].name)
      BY <1>2 DEF Starts
    <2> QED  BY <1>1, <1>3, <2>1 DEF DataOf
  <1>6. inBounds' /\ Bias \notin DOMAIN measured'
    BY <1>1 DEF FreshInv
  <1>7. FreshAnswer'
    BY <1>4 DEF FreshAnswer
  <1> QED  BY <1>1, <1>2, <1>3, <1>5, <1>6, <1>7

\* A call that neither measures nor answers.
LEMMA FreshQuiet ==
  ASSUME ChronoInv, FreshInv, todo # <<>>, todo' = Tail(todo), user # "test",
         Head(todo).call # "getReport", Head(todo).call # "tock",
         UNCHANGED <<user, inJob, answer, inBounds>>,
         IF Head(todo).call = "clear" THEN measured' = <<>> ELSE measured' = measured
  PROVE  FreshInv'
PROOF
  <1>1. todo \in Seq(Calls) /\ Head(todo) = todo[1]
    BY TypesAre, TailOf DEF ChronoInv
  <1>2. /\ inBounds /\ Bias \notin DOMAIN measured /\ Plain(todo) /\ FreshAnswer
        /\ AllFresh(todo, measured, inJob)
        /\ \A name \in DOMAIN measured : OfCPU(name) => ~NoClear(todo, 1, Len(todo))
    BY Zenon DEF FreshInv
  <1>3. Plain(todo')
    BY <1>1, <1>2, PlainTail
  <1>4. AllFresh(todo', measured', inJob')
    <2>1. AllFresh(Tail(todo), measured', inJob')
      BY <1>1, <1>2, FreshTail
    <2> QED  BY <2>1
  <1>5. /\ Bias \notin DOMAIN measured'
        /\ \A name \in DOMAIN measured' : OfCPU(name) => ~NoClear(todo', 1, Len(todo'))
    <2>1. CASE Head(todo).call = "clear"
      <3>1. DOMAIN measured' = {}
        BY <2>1
      <3> QED  BY <3>1
    <2>2. CASE Head(todo).call # "clear"
      <3>1. measured' = measured
        BY <2>2
      <3>2. ~NoClear(todo, 1, Len(todo)) => ~NoClear(todo', 1, Len(todo'))
        BY <1>1, <2>2, ClearStays
      <3> QED  BY <1>2, <3>1, <3>2
    <2> QED  BY <2>1, <2>2
  <1>6. FreshAnswer'
    <2>1. Asks(todo, answer.name) => Asks(todo', answer.name)
      BY <1>1, AsksTail
    <2>2. answer' = answer /\ inJob' = inJob
      OBVIOUS
    <2> QED  BY <1>2, <2>1, <2>2 DEF FreshAnswer
  <1> QED  BY <1>2, <1>3, <1>4, <1>5, <1>6 DEF FreshInv

\* A tock adds the same reading to what is measured and to the job.
LEMMA FreshTock ==
  ASSUME ChronoInv, FreshInv, todo # <<>>, todo' = Tail(todo), user # "test", user' = user,
         Head(todo).call = "tock", Tock(Head(todo).name)
  PROVE  FreshInv'
PROOF
  <1> DEFINE name == Head(todo).name
  <1>1. /\ todo \in Seq(Calls) /\ Head(todo) = todo[1] /\ Len(todo) \in Nat /\ Len(todo) >= 1
        /\ todo[1] \in Calls
    BY TypesAre, TailOf DEF ChronoInv
  <1>2. /\ inBounds /\ Bias \notin DOMAIN measured /\ Plain(todo) /\ FreshAnswer
        /\ AllFresh(todo, measured, inJob)
        /\ \A n \in DOMAIN measured : OfCPU(n) => ~NoClear(todo, 1, Len(todo))
    BY Zenon DEF FreshInv
  <1>3. /\ name # Bias
        /\ \E j \in (1 + 1)..Len(todo) : todo[j] = Call("getReport", name)
        /\ OfCPU(name) => \E j \in (1 + 1)..Len(todo) : todo[j].call = "clear"
    <2>1. 1 \in 1..Len(todo)
      BY <1>1
    <2> QED  BY <1>1, <1>2, <2>1, Zenon DEF Plain
  <1>4. ~(name \in DOMAIN task2Report /\ ~task2Report[name].items)
    <2>1. ReportsInv
      BY DEF ChronoInv
    <2> QED  BY <1>3, <2>1, ItemsAre
  <1>5. PICK reading \in Passing(name) :
          /\ measured' = With(measured, name, Append(DataOf(measured, name), reading))
          /\ inJob' = With(inJob, name, Append(DataOf(inJob, name), reading))
          /\ UNCHANGED <<answer, inBounds>>
    BY <1>4 DEF Tock
  <1> HIDE DEF name
  <1>6. Adds(measured, measured', name, reading) /\ Adds(inJob, inJob', name, reading)
    BY <1>5, AddsIs, Zenon
  <1>7. Plain(todo')
    BY <1>1, <1>2, PlainTail
  <1>8. AllFresh(todo', measured', inJob')
    <2>1. todo[1].call = "tock" /\ \E x : /\ Adds(measured, measured', todo[1].name, x)
                                          /\ Adds(inJob, inJob', todo[1].name, x)
      BY <1>1, <1>6, Zenon DEF name
    <2>2. AllFresh(Tail(todo), measured', inJob')
      BY <1>1, <1>2, <2>1, FreshTail, Zenon
    <2> QED  BY <2>2
  <1>9. /\ Bias \notin DOMAIN measured'
        /\ \A n \in DOMAIN measured' : OfCPU(n) => ~NoClear(todo', 1, Len(todo'))
    <2>1. DOMAIN measured' = DOMAIN measured \cup {name}
      BY <1>5 DEF With
    <2>2. OfCPU(name) => ~NoClear(todo', 1, Len(todo'))
      <3>1. 1 + 1 = 2
        OBVIOUS
      <3> QED  BY <1>1, <1>3, <3>1, ClearTail
    <2>3. ~NoClear(todo, 1, Len(todo)) => ~NoClear(todo', 1, Len(todo'))
      BY <1>1, ClearStays
    <2> QED  BY <1>2, <1>3, <2>1, <2>2, <2>3
  <1>10. FreshAnswer'
    <2>1. Asks(todo, answer.name) => Asks(todo', answer.name)
      BY <1>1, AsksTail
    <2>2. Asks(todo, name)
      <3>1. \A j \in (1 + 1)..Len(todo) : j \in 1..Len(todo)
        BY <1>1
      <3> QED  BY <1>3, <3>1 DEF Asks
    <2>3. answer.name # name => DataOf(inJob', answer.name) = DataOf(inJob, answer.name)
      BY <1>6 DEF Adds
    <2>4. answer' = answer
      BY <1>5
    <2> QED  BY <1>2, <2>1, <2>2, <2>3, <2>4 DEF FreshAnswer
  <1>11. inBounds'
    BY <1>2, <1>5
  <1> QED  BY <1>7, <1>8, <1>9, <1>10, <1>11 DEF FreshInv

\* The answer is what is measured, which is what the job has measured.
LEMMA FreshReport ==
  ASSUME ChronoInv, FreshInv, todo # <<>>, todo' = Tail(todo), user # "test", user' = user,
         Head(todo).call = "getReport", GetReport(Head(todo).name)
  PROVE  FreshInv'
PROOF
  <1> DEFINE name == Head(todo).name
  <1>0. ChronoTypes /\ ReportsInv /\ ScriptInv
    BY DEF ChronoInv
  <1>1. /\ todo \in Seq(Calls) /\ Head(todo) = todo[1] /\ Len(todo) \in Nat /\ Len(todo) >= 1
    BY <1>0, TypesAre, TailOf
  <1>2. /\ inBounds /\ Bias \notin DOMAIN measured /\ Plain(todo) /\ FreshAnswer
        /\ AllFresh(todo, measured, inJob)
        /\ \A n \in DOMAIN measured : OfCPU(n) => ~NoClear(todo, 1, Len(todo))
    BY Zenon DEF FreshInv
  <1>3. /\ name \in DOMAIN measured
        /\ ReportInv(OrEmpty(name), measured[name]) /\ OrEmpty(name).items
        /\ ~OrEmpty(Bias).items
    <2>1. name \in DOMAIN measured
      BY <1>0, <1>2, LookIs
    <2> QED  BY <1>0, <1>2, <2>1, ItemsAre
  <1>4. /\ answer' = [name |-> name, report |-> Corrected(OrEmpty(name), OrEmpty(Bias)),
                      bias |-> OrEmpty(Bias)]
        /\ UNCHANGED <<measured, inJob, inBounds>>
    BY <1>3, Zenon DEF GetReport
  <1>5. answer'.name = name /\ IsReportOf(answer'.report, DataOf(inJob', name))
    <2>1. answer'.name = name /\ answer'.report = OrEmpty(name)
      BY <1>3, <1>4 DEF Corrected
    <2>2. IsReportOf(OrEmpty(name), measured[name])
      BY <1>3, ReportIs
    <2>3. DataOf(measured, name) = DataOf(inJob, name)
      <3>1. 1 \in 1..Len(todo) /\ NoClear(todo, 1, 1 - 1)
        BY <1>1 DEF NoClear
      <3> QED  BY <1>1, <1>2, <3>1 DEF AllFresh
    <2> QED  BY <1>3, <1>4, <2>1, <2>2, <2>3 DEF DataOf
  <1>6. Plain(todo')
    BY <1>1, <1>2, PlainTail
  <1>7. AllFresh(todo', measured', inJob')
    <2>1. AllFresh(Tail(todo), measured', inJob')
      BY <1>1, <1>2, <1>4, FreshTail
    <2> QED  BY <2>1
  <1>8. \A n \in DOMAIN measured' : OfCPU(n) => ~NoClear(todo', 1, Len(todo'))
    BY <1>1, <1>2, <1>4, ClearStays
  <1>9. FreshAnswer'
    BY <1>5 DEF FreshAnswer
  <1> QED  BY <1>2, <1>4, <1>6, <1>7, <1>8, <1>9 DEF FreshInv

\* Each step keeps what is measured fresh.
LEMMA FreshStep == ChronoInv /\ FreshInv /\ [ChronoNext]_chronoVars => FreshInv'
PROOF
  <1> SUFFICES ASSUME ChronoInv, FreshInv, [ChronoNext]_chronoVars  PROVE FreshInv'
    OBVIOUS
  <1>1. CASE Begin
    BY <1>1, FreshBegin
  <1>2. CASE DoCall
    <2>1. todo # <<>> /\ todo' = Tail(todo) /\ user' = user
      BY <1>2 DEF DoCall
    <2>2. Head(todo) = todo[1] /\ Head(todo) \in Calls /\ Len(todo) \in Nat /\ Len(todo) >= 1
      BY <2>1, TypesAre, TailOf DEF ChronoInv
    <2>3. Head(todo).call \in CallNames
      BY <2>2, CallOf
    <2>4. /\ Head(todo).call = "tick" => Tick(Head(todo).name)
          /\ Head(todo).call = "tock" => Tock(Head(todo).name)
          /\ Head(todo).call = "getReport" => GetReport(Head(todo).name)
          /\ Head(todo).call = "clear" => Clear
      BY <1>2 DEF DoCall
    <2>5. CASE user = "test"
      BY <2>1, <2>5 DEF FreshInv
    <2>6. CASE user # "test" /\ Head(todo).call = "tick"
      <3>1. UNCHANGED <<user, measured, inJob, answer, inBounds>>
        BY <2>1, <2>4, <2>6 DEF Tick
      <3> QED  BY <2>1, <2>6, <3>1, FreshQuiet
    <2>7. CASE user # "test" /\ Head(todo).call = "tock"
      BY <2>1, <2>4, <2>7, FreshTock
    <2>8. CASE user # "test" /\ Head(todo).call = "getReport"
      BY <2>1, <2>4, <2>8, FreshReport
    <2>9. CASE user # "test" /\ Head(todo).call = "clear"
      <3>1. UNCHANGED <<user, inJob, answer, inBounds>> /\ measured' = <<>>
        BY <2>1, <2>4, <2>9 DEF Clear
      <3> QED  BY <2>1, <2>9, <3>1, FreshQuiet
    <2>10. CASE user # "test" /\ Head(todo).call = "dump"
      <3>1. 1 \in 1..Len(todo) /\ Plain(todo)
        BY <2>2, <2>10 DEF FreshInv
      <3> QED  BY <2>2, <2>10, <3>1 DEF Plain
    <2> QED  BY <2>3, <2>5, <2>6, <2>7, <2>8, <2>9, <2>10, Zenon DEF CallNames
  <1>3. CASE UNCHANGED chronoVars
    BY <1>3 DEF chronoVars, counters, FreshInv, FreshAnswer
  <1> QED  BY <1>1, <1>2, <1>3 DEF ChronoNext, JobsDone

\* A probe answers with the runs it has just made and no others, for any number
\* of samples of any sizes and any number of workloads of a pool: execCPUwithProbe
\* clears what execDPUwithProbe leaves behind before the names come up again.
THEOREM ProbeIsFreshAlways == ChronoSpec => []ProbeIsFresh
PROOF
  <1>1. ChronoInv /\ FreshInv => ProbeIsFresh
    <2> SUFFICES ASSUME ChronoInv, FreshInv, user # "test", Answered(answer.name)
                 PROVE  IsReportOf(answer.report, InJob(answer.name))
      BY DEF ProbeIsFresh
    <2>1. todo \in Seq(Calls) /\ FreshAnswer
      BY TypesAre DEF ChronoInv, FreshInv
    <2>2. DataOf(inJob, answer.name) # <<>> /\ ~Asks(todo, answer.name)
      BY <2>1, RangeIs DEF Answered, InJob, Asks
    <2> QED  BY <2>1, <2>2 DEF FreshAnswer, InJob
  <1>2. ChronoSpec => []FreshInv
    BY FreshInitial, FreshStep, ChronoInvariant, PTL DEF ChronoSpec
  <1> QED  BY <1>1, <1>2, ChronoInvariant, PTL
=============================================================================
