----------------------------- MODULE PerfModel -----------------------------
(***************************************************************************)
(* The performance model of an operator: trainModel, the sample cache on   *)
(* disk and deducePerfCPU / deducePerfDPU of src/Operator/OperatorBase.cpp *)
(* and include/Operator/OperatorBase.hpp.                                  *)
(*                                                                         *)
(* An operator measures itself at equidistant numbers of page blocks, one  *)
(* array of samples per side, writes each array to a file of its own, and  *)
(* answers between the samples by linear interpolation.  A later process   *)
(* trusts the files it finds.                                              *)
(*                                                                         *)
(* The operator measured here takes Overhead + Slope * pageBlkCnt, which   *)
(* interpolation reproduces exactly; energy is treated like time.  A time  *)
(* is a natural number, and Grain the resolution of std::to_string.        *)
(***************************************************************************)
EXTENDS Naturals, Sequences

CONSTANTS
  Points,       \* PERF_SAMPLE_POINT
  UpperBounds,  \* the pageBlkUpperBound trainModel may be called with
  Overhead,     \* Overhead[s]: time of a call on no page, by side
  Slope,        \* Slope[s]: time per page block, by side
  Grain,        \* the unit of the last decimal in a sample file
  CutAt,        \* after how many lines a kill may cut a file that is written
  Stray,        \* what a torn line, or memory behind the samples, may be read as
  MaxKills,     \* how often the process is killed while it writes a file
  MaxRestarts   \* how often it is started anew otherwise

Side == {"cpu", "dpu"}

Entries == Points + 1

(***************************************************************************)
(* CPUPerfSamples and DPUPerfSamples have Points + 1 entries each and are  *)
(* adjacent members, with the operator's ChronoTrigger ct right behind     *)
(* them.  The code checks no index, so the memory they make up is          *)
(* modelled: slot At(s, i) is entry i of side s, for every i the code      *)
(* uses, and CtSlot holds the first members of ct.                         *)
(***************************************************************************)
CtSlot == 2 * Entries

Slot == 0..CtSlot

At(s, i) == IF s = "cpu" THEN i ELSE Entries + i

Step(b) == b \div (Points - 1)

\* How many samples the loops over the page blocks up to b visit.
Visited(b) == b \div Step(b) + 1

(***************************************************************************)
(* Upper bounds below Points - 1 make the step zero and the loops endless; *)
(* no caller uses one.  Some others visit more samples than the arrays     *)
(* have: the 104 page blocks of benchmarks.cpp visit 18, for 17 entries.   *)
(* None visits 2 * Points, so the CPU's samples never get as far as ct.    *)
(***************************************************************************)
ASSUME SampleAssumption ==
  /\ Points \in Nat /\ Points > 1
  /\ \A b \in UpperBounds : b \in Nat /\ Step(b) > 0

ASSUME TimeAssumption ==
  /\ Overhead \in [Side -> Nat]
  /\ Slope \in [Side -> Nat]
  /\ Grain \in Nat \ {0}

ASSUME PerfBoundAssumption ==
  /\ CutAt \subseteq Nat
  /\ Stray \subseteq Nat /\ Stray # {}
  /\ MaxKills \in Nat
  /\ MaxRestarts \in Nat

VARIABLES
  kind,       \* "logic" (not trainable), "xfer" (CPU only) or "compute"
  dirExists,  \* whether files can be created under REGRESSION_MODEL_CACHE_PATH
  pc,         \* "idle", or where trainModel is
  arg,        \* its argument pageBlkUpperBound
  sampleIdx,
  bound,      \* deducePageBlkUpperBound
  samples,    \* CPUPerfSamples, DPUPerfSamples and what lies behind them
  ctIntact,   \* FALSE once a sample has been written over members of ct
  file,       \* file[s][b]: the sample file of side s for the upper bound b
  kills,
  restarts

vars == <<kind, dirExists, pc, arg, sampleIdx, bound, samples, ctIntact, file,
          kills, restarts>>

----------------------------------------------------------------------------
(* Helpers. *)

CPUOnly == kind # "compute"

Trainable == kind # "logic"

Time(s, n) == Overhead[s] + Slope[s] * n

\* std::to_string rounds to its last decimal.
Printed(v) == ((v + Grain \div 2) \div Grain) * Grain

\* perfStats is default-initialised to zero; a pointer reads as zero, too.
NoSamples == [i \in Slot |-> 0]

\* A file: its complete lines, and whether a line follows that lacks a number.
Absent == [exists |-> FALSE, lines |-> <<>>, broken |-> FALSE]

FileOf(lines, broken) == [exists |-> TRUE, lines |-> lines, broken |-> broken]

\* What savePerfSamples writes for the samples of one side, if the memory
\* behind all slots reads as "behind".
SampleLines(s, behind) ==
  [i \in 1..Visited(bound) |->
     Printed(IF At(s, i - 1) \in Slot THEN samples[At(s, i - 1)] ELSE behind)]

\* Reading fills the entries from the first; the other slots keep what they had.
Loaded(s, f) ==
  [k \in Slot |-> IF \E i \in 0..(Len(f.lines) - 1) : k = At(s, i)
                  THEN f.lines[k - At(s, 0) + 1]
                  ELSE samples[k]]

\* Mutant: the right neighbour is the sample after next.
DeducedWrongNeighbour(s, n) ==
  IF n = 0 THEN Step(bound) * samples[At(s, 0)]
  ELSE IF n >= bound THEN Step(bound) * samples[At(s, Points)]
  ELSE LET index == n \div Step(bound)
           x0 == index * Step(bound)
           y0 == samples[At(s, index)]
           y1 == samples[At(s, IF index + 2 <= Points THEN index + 2 ELSE index + 1)]
       IN  y0 * (Step(bound) - (n - x0)) + y1 * (n - x0)

\* deducePerfCPU and deducePerfDPU, times the step: the interpolation
\* y0 + (y1 - y0) * (n - x0) / (x1 - x0) without the division.
Deduced(s, n) ==
  IF n = 0 THEN Step(bound) * samples[At(s, 0)]
  ELSE IF n >= bound THEN Step(bound) * samples[At(s, Points)]
  ELSE LET index == n \div Step(bound)
           x0 == index * Step(bound)
           y0 == samples[At(s, index)]
           y1 == samples[At(s, index + 1)]
       IN  y0 * (Step(bound) - (n - x0)) + y1 * (n - x0)

----------------------------------------------------------------------------
(* A process, and the operator it owns. *)

Init ==
  /\ kind \in {"logic", "xfer", "compute"}
  /\ dirExists \in BOOLEAN
  /\ pc = "idle"
  /\ arg = 0
  /\ sampleIdx = 0
  /\ bound = 0
  /\ samples = NoSamples
  /\ ctIntact = TRUE
  /\ file = [s \in Side |-> [b \in UpperBounds |-> Absent]]
  /\ kills = 0
  /\ restarts = 0

\* The process has gone, with everything but the files.
Gone ==
  /\ pc' = "idle"
  /\ arg' = 0
  /\ sampleIdx' = 0
  /\ bound' = 0
  /\ samples' = NoSamples
  /\ ctIntact' = TRUE

\* trainModel of an operator that is not trainable only takes the bound.
TrainLogic ==
  /\ pc = "idle"
  /\ ~Trainable
  /\ \E b \in UpperBounds : bound' = b
  /\ UNCHANGED <<kind, dirExists, pc, arg, sampleIdx, samples, ctIntact, file, kills,
                 restarts>>

TrainModel ==
  /\ pc = "idle"
  /\ Trainable
  /\ \E b \in UpperBounds : arg' = b
  /\ pc' = "loadCpu"
  /\ UNCHANGED <<kind, dirExists, sampleIdx, bound, samples, ctIntact, file, kills,
                 restarts>>

\* loadModelCacheIfExist, one side: the samples found are taken as they are.
Load(s, from, next) ==
  LET f == file[s][arg] IN
  /\ pc = from
  /\ f.exists
  /\ ~f.broken
  /\ samples' = Loaded(s, f)
  /\ ctIntact' = (ctIntact /\ \A i \in 0..(Len(f.lines) - 1) : At(s, i) < CtSlot)
  /\ pc' = next
  /\ bound' = IF next = "idle" THEN arg ELSE bound
  /\ UNCHANGED <<kind, dirExists, arg, sampleIdx, file, kills, restarts>>

LoadCpu == Load("cpu", "loadCpu", IF CPUOnly THEN "idle" ELSE "loadDpu")

LoadDpu == Load("dpu", "loadDpu", "idle")

SideLoaded == IF pc = "loadCpu" THEN "cpu" ELSE "dpu"

\* std::stod throws on a missing number, out of a noexcept function: the
\* process is terminated, and so is every later one that asks for this bound.
LoadAborts ==
  /\ pc \in {"loadCpu", "loadDpu"}
  /\ file[SideLoaded][arg].broken
  /\ Gone
  /\ UNCHANGED <<kind, dirExists, file, kills, restarts>>

NotCached ==
  /\ pc \in {"loadCpu", "loadDpu"}
  /\ ~file[SideLoaded][arg].exists
  /\ pc' = "measure"
  /\ sampleIdx' = 0
  /\ UNCHANGED <<kind, dirExists, arg, bound, samples, ctIntact, file, kills, restarts>>

\* One iteration of the training loop, which stores what the CPU took and then
\* what the DPUs took.  A surplus CPU sample falls on an entry of the DPUs.
Measure ==
  LET pageBlkCnt == sampleIdx * Step(arg)
      cpuDone == [samples EXCEPT ![At("cpu", sampleIdx)] = Time("cpu", pageBlkCnt)]
  IN
  /\ pc = "measure"
  /\ pageBlkCnt <= arg
  /\ ctIntact
  /\ samples' = IF CPUOnly THEN cpuDone
                ELSE [cpuDone EXCEPT ![At("dpu", sampleIdx)] = Time("dpu", pageBlkCnt)]
  /\ ctIntact' = (CPUOnly \/ At("dpu", sampleIdx) < CtSlot)
  /\ sampleIdx' = sampleIdx + 1
  /\ UNCHANGED <<kind, dirExists, pc, arg, bound, file, kills, restarts>>

\* ct has a sample's bits for its PCM pointer and its number of sockets: the
\* next tick allocates for that many, fails, and noexcept ends the process.
TickDies ==
  /\ pc = "measure"
  /\ sampleIdx * Step(arg) <= arg
  /\ ~ctIntact
  /\ Gone
  /\ UNCHANGED <<kind, dirExists, file, kills, restarts>>

Measured ==
  /\ pc = "measure"
  /\ sampleIdx * Step(arg) > arg
  /\ bound' = arg
  /\ pc' = "saveCpu"
  /\ UNCHANGED <<kind, dirExists, arg, sampleIdx, samples, ctIntact, file, kills, restarts>>

\* Mutant: the two files are written in the other order.
SideSavedDpuFirst == IF pc = "saveCpu" THEN "dpu" ELSE "cpu"

SideSaved == IF pc = "saveCpu" THEN "cpu" ELSE "dpu"

\* savePerfSamples, for the CPU and then for the DPU; without the directory
\* the stream is not open and nothing is written, which nobody notices.
Save ==
  /\ pc \in {"saveCpu", "saveDpu"}
  /\ \E behind \in Stray :
       file' = IF dirExists
               THEN [file EXCEPT ![SideSaved][arg] =
                       FileOf(SampleLines(SideSaved, behind), FALSE)]
               ELSE file
  /\ pc' = IF pc = "saveCpu" THEN "saveDpu" ELSE "idle"
  /\ UNCHANGED <<kind, dirExists, arg, sampleIdx, bound, samples, ctIntact, kills, restarts>>

\* What is left of a file whose writing was cut: complete lines, and after them
\* nothing; a line read as some number, because digits are missing or, before
\* its first comma, its data size is taken for the rest; or a line without a
\* number behind a comma.
Cuts(lines) ==
  LET kept(k) == SubSeq(lines, 1, k) IN
  UNION {{FileOf(kept(k), FALSE), FileOf(kept(k), TRUE)} \cup
         {FileOf(Append(kept(k), v), FALSE) : v \in Stray} :
         k \in {c \in CutAt : c < Len(lines)}}

\* The process is killed while it writes a sample file.
KilledWhileSaving ==
  /\ pc \in {"saveCpu", "saveDpu"}
  /\ dirExists
  /\ kills < MaxKills
  /\ kills' = kills + 1
  /\ \E behind \in Stray : \E f \in Cuts(SampleLines(SideSaved, behind)) :
       file' = [file EXCEPT ![SideSaved][arg] = f]
  /\ Gone
  /\ UNCHANGED <<kind, dirExists, restarts>>

\* The process ends, or dies elsewhere in trainModel, and is started anew.
Restart ==
  /\ restarts < MaxRestarts
  /\ restarts' = restarts + 1
  /\ Gone
  /\ UNCHANGED <<kind, dirExists, file, kills>>

Next ==
  \/ TrainLogic \/ TrainModel
  \/ LoadCpu \/ LoadDpu \/ LoadAborts \/ NotCached
  \/ Measure \/ TickDies \/ Measured \/ Save
  \/ KilledWhileSaving \/ Restart

Spec == Init /\ [][Next]_vars

----------------------------------------------------------------------------
(* Vocabulary of the properties. *)

\* trainModel has returned for a trainable operator, in this process.
Ready == pc = "idle" /\ bound # 0 /\ Trainable

\* The entries that hold their own side's samples after a training for b: those
\* b visits, but for the first of the DPU's array that the CPU's surplus took.
Own(s, b) ==
  {i \in 0..Points : i < Visited(b) /\ (s = "dpu" => Visited(b) <= Entries + i)}

\* The entries whose values decide the answer for n page blocks.
Neighbours(n) ==
  LET index == n \div Step(bound) IN
  IF n >= bound THEN {Points}
  ELSE {index} \cup (IF index * Step(bound) = n THEN {} ELSE {index + 1})

Covered(s, n) == Neighbours(n) \subseteq Own(s, bound)

\* The number of page blocks the answer is for: from the bound on, deduce*
\* answers with the last entry of the array.
Asked(n) == IF n >= bound THEN Points * Step(bound) ELSE n

AbsDiff(a, b) == IF a >= b THEN a - b ELSE b - a

\* The answer for n page blocks is right, up to half a unit of the last decimal.
Close(s, n) ==
  2 * AbsDiff(Deduced(s, n), Step(bound) * Time(s, Asked(n))) <= Grain * Step(bound)

----------------------------------------------------------------------------
(* Properties. *)

TypeOK ==
  /\ kind \in {"logic", "xfer", "compute"}
  /\ dirExists \in BOOLEAN
  /\ pc \in {"idle", "loadCpu", "loadDpu", "measure", "saveCpu", "saveDpu"}
  /\ arg \in UpperBounds \cup {0}
  /\ sampleIdx \in Nat
  /\ bound \in UpperBounds \cup {0}
  /\ samples \in [Slot -> Nat]
  /\ ctIntact \in BOOLEAN
  /\ \A s \in Side, b \in UpperBounds : Len(file[s][b].lines) <= Visited(b)
  /\ kills \in 0..MaxKills
  /\ restarts \in 0..MaxRestarts

\* If no file was ever cut, a trained operator answers for a linear operator
\* what the operator takes, wherever both neighbours are entries of its own: it
\* may have measured in this process, loaded what an earlier one measured, been
\* trained for another bound in between, or have written its samples past the
\* end of the arrays, as the code does for 104 page blocks.
DeduceIsAccurate ==
  Ready /\ kills = 0 =>
    \A s \in Side : (s = "cpu" \/ ~CPUOnly) =>
      \A n \in 0..bound : Covered(s, n) => Close(s, n)

\* An operator with a DPU side never takes the samples of a CPU file that a
\* kill has cut: the DPU file, written last, is missing then.
CutCpuFileIsNotTrusted ==
  Ready /\ kind = "compute" =>
    \A n \in 0..bound : Covered("cpu", n) => Close("cpu", n)
===========================================================================
