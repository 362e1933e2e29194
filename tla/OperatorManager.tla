-------------------------- MODULE OperatorManager --------------------------
(***************************************************************************)
(* OperatorManager, which makes the operators and trains them for a graph  *)
(* (include/Operator/OperatorManager.hpp), and the DPU set that each       *)
(* manager believes to hold (include/DPU_GLOBAL.hpp).                      *)
(*                                                                         *)
(* Whether a set is allocated is kept in two static flags, the set itself  *)
(* in each manager.  A manager made while isAllocated is set never gets a  *)
(* set: its dpu_set is uninitialized.  Freeing or using such a set is      *)
(* undefined, and the model ends.                                          *)
(***************************************************************************)
EXTENDS Integers, Sequences, FiniteSetsExt, Functions

CONSTANTS
  Manager,      \* the managers a process makes, each once
  MaxAlive,     \* how many of them live at the same time: 1 in every caller
  Graphs,       \* task graphs: sequences of tasks with op and inputSize_MiB
  Bounds,       \* the bounds trainAll is called with
  PerBlock,     \* the pages of a page block: 2530
  None          \* no graph

computeBoundOPSet == {"FILTER", "CONV_1D"}
memoryBoundOPSet  == {"AFFINE", "MAC", "EUDIST", "LOOKUP", "ELEW_PROD", "ELEW_ADD"}
xferOPSet         == {"MAP", "REDUCE"}
allPerfRelOPSet   == computeBoundOPSet \cup memoryBoundOPSet \cup xferOPSet
allOPSet          == allPerfRelOPSet \cup {"LOGIC_START", "LOGIC_END", "UNDEFINED"}

ASSUME ManagerAssumption ==
  /\ MaxAlive \in Nat
  /\ Graphs \subseteq Seq([op : allOPSet, inputSize_MiB : Nat])
  /\ Bounds \subseteq Nat \ {0}
  /\ PerBlock \in Nat \ {0}
  /\ None \notin Graphs

VARIABLES
  life,         \* of each manager: "unborn", "alive" or "gone"
  isAllocated, isFreed,
  hasSet,       \* the managers whose dpu_set dpu_alloc has filled in
  driver,       \* the managers whose set the driver has given out
  opMap,        \* opMap[m][op]: the bound the operator is trained for, or 0
  trained,      \* trained[m]: the graph trainModel was called with last
  defined,      \* FALSE once behaviour is undefined, or a DPU_ASSERT failed
  overlapped    \* history: the managers made while another one lived

setVars == <<isAllocated, isFreed, hasSet, driver>>
vars == <<life, setVars, opMap, trained, defined, overlapped>>

----------------------------------------------------------------------------
(* Helpers. *)

Alive == {m \in Manager : life[m] = "alive"}

\* The page blocks that so many MiB need.
NearestPageBlkCnt(mib) == (mib * 256 + PerBlock - 1) \div PerBlock

OpsOf(g) == {g[i].op : i \in DOMAIN g}

\* genRegressionTask: for each operator the largest input of its tasks.
RegressionTask(g) ==
  [op \in OpsOf(g) |-> Max({g[i].inputSize_MiB : i \in {j \in DOMAIN g : g[j].op = op}})]

MaxBlk(task) == Max({0} \cup {NearestPageBlkCnt(task[op]) : op \in DOMAIN task})

\* OperatorBase::trainModel on each of the operators: loading sets the bound, if
\* it fails measuring does.  For an operator that is not trainable it loads
\* nothing and cannot fail.  PerfModel is about what happens inside.
TrainedFor(ops, bound, m) ==
  [op \in allOPSet |-> IF op \in ops THEN bound ELSE opMap[m][op]]

\* Measuring needs the DPUs; with sample files on disk nothing is measured.
MayMeasure(m) == defined' \in (IF m \in hasSet \cap driver THEN {TRUE} ELSE BOOLEAN)

----------------------------------------------------------------------------
(* The life of a manager. *)

Init ==
  /\ life = [m \in Manager |-> "unborn"]
  /\ isAllocated = FALSE
  /\ isFreed = FALSE
  /\ hasSet = {}
  /\ driver = {}
  /\ opMap = [m \in Manager |-> [op \in allOPSet |-> 0]]
  /\ trained = [m \in Manager |-> None]
  /\ defined = TRUE
  /\ overlapped = {}

\* The constructor; instantiateAll makes every operator anew.
Construct(m) ==
  /\ defined
  /\ life[m] = "unborn"
  /\ Cardinality(Alive) < MaxAlive
  /\ life' = [life EXCEPT ![m] = "alive"]
  /\ IF isAllocated
     THEN UNCHANGED <<setVars, defined>>
     ELSE /\ defined' = (driver = {})
          /\ driver' = driver \cup {m}
          /\ hasSet' = hasSet \cup {m}
          /\ isAllocated' = TRUE
          /\ isFreed' = FALSE
  /\ overlapped' = IF Alive = {} THEN overlapped ELSE overlapped \cup {m}
  /\ UNCHANGED <<opMap, trained>>

\* Mutant: the destructor leaves isAllocated set.
DestroyStillAllocated(m) ==
  /\ defined
  /\ life[m] = "alive"
  /\ life' = [life EXCEPT ![m] = "gone"]
  /\ IF isFreed
     THEN UNCHANGED <<setVars, defined>>
     ELSE /\ defined' = (m \in hasSet)
          /\ driver' = driver \ {m}
          /\ isFreed' = TRUE
          /\ UNCHANGED <<hasSet, isAllocated>>
  /\ UNCHANGED <<opMap, trained, overlapped>>

\* Whoever comes first frees, its own set.
Destroy(m) ==
  /\ defined
  /\ life[m] = "alive"
  /\ life' = [life EXCEPT ![m] = "gone"]
  /\ IF isFreed
     THEN UNCHANGED <<setVars, defined>>
     ELSE /\ defined' = (m \in hasSet)
          /\ driver' = driver \ {m}
          /\ isFreed' = TRUE
          /\ isAllocated' = FALSE
          /\ UNCHANGED hasSet
  /\ UNCHANGED <<opMap, trained, overlapped>>

\* Mutant: MAP and REDUCE are trained only if the graph names them.
TrainModelNoXfer(m) ==
  /\ defined
  /\ life[m] = "alive"
  /\ \E g \in Graphs :
       LET task == RegressionTask(g) IN
       /\ opMap' = [opMap EXCEPT ![m] = TrainedFor(DOMAIN task, MaxBlk(task), m)]
       /\ trained' = [trained EXCEPT ![m] = g]
  /\ MayMeasure(m)
  /\ UNCHANGED <<life, setVars, overlapped>>

\* trainModel(genRegressionTask()): all operators of the graph for one bound,
\* that of the largest; MAP and REDUCE are made anew and trained as well.
TrainModel(m) ==
  /\ defined
  /\ life[m] = "alive"
  /\ \E g \in Graphs :
       LET task == RegressionTask(g) IN
       /\ opMap' = [opMap EXCEPT ![m] =
                      TrainedFor(DOMAIN task \cup xferOPSet, MaxBlk(task), m)]
       /\ trained' = [trained EXCEPT ![m] = g]
  /\ MayMeasure(m)
  /\ UNCHANGED <<life, setVars, overlapped>>

TrainAll(m) ==
  /\ defined
  /\ life[m] = "alive"
  /\ \E bound \in Bounds :
       opMap' = [opMap EXCEPT ![m] = TrainedFor(allPerfRelOPSet, bound, m)]
  /\ trained' = [trained EXCEPT ![m] = None]
  /\ MayMeasure(m)
  /\ UNCHANGED <<life, setVars, overlapped>>

Finished ==
  /\ ~defined \/ \A m \in Manager : life[m] = "gone"
  /\ UNCHANGED vars

Next ==
  \/ \E m \in Manager : Construct(m) \/ Destroy(m) \/ TrainModel(m) \/ TrainAll(m)
  \/ Finished

Spec == Init /\ [][Next]_vars

----------------------------------------------------------------------------
(* Properties. *)

\* Whatever managers there were before, the flags are right again after every
\* destructor, as long as the program has no undefined behaviour: a manager that
\* lives alone from beginning to end holds a set the driver has given out; at
\* most one set is out, overlapping lives included, and none once the last
\* manager is gone.
SetFollowsManagers ==
  defined =>
    /\ \A m \in Alive : m \in hasSet \cap driver \/ overlapped # {}
    /\ Cardinality(driver) <= 1
    /\ Alive = {} => driver = {}

\* After a graph has been trained its predictions are comparable: all its
\* operators, and the transfers, answer on the scale of one bound, and no task
\* of it is larger than that.
GraphIsCovered ==
  \A m \in Alive : trained[m] # None =>
    LET g == trained[m] IN
    \A i \in DOMAIN g :
      /\ opMap[m][g[i].op] >= NearestPageBlkCnt(g[i].inputSize_MiB)
      /\ \A x \in xferOPSet : opMap[m][x] = opMap[m][g[i].op]
=============================================================================
