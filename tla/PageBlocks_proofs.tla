-------------------------- MODULE PageBlocks_proofs --------------------------
(***************************************************************************)
(* Theorems about the two components that count page blocks: PerfModel,    *)
(* which predicts what a number of page blocks takes, and WorkSplit, which *)
(* turns offload ratios into numbers of page blocks.                       *)
(*                                                                         *)
(* PerfModel: for any sample points and any upper bounds with which the    *)
(* code's loops end, those that overflow the sample arrays included, every *)
(* linear operator, every resolution of the files, and any number of kills *)
(* and restarts. PerfInv is the inductive invariant. It says of the files  *)
(* and of the entries in memory which of them are within half a unit of    *)
(* the last decimal of what the operator takes: the first entries of the   *)
(* DPU are not, when the CPU's samples run over them, and after a kill     *)
(* more are not, but the CPU file of a bound is whole whenever there is a  *)
(* DPU file for it.                                                        *)
(*                                                                         *)
(* WorkSplit: for every graph, schedule, ratios and sizes.  SplitInv is    *)
(* the inductive invariant: which counts the tasks parsed so far have got, *)
(* that the others have none, and how far the sum of the transfers may be  *)
(* from the pages moved.                                                   *)
(***************************************************************************)
EXTENDS PerfModel, WorkSplit, FiniteFolds

----------------------------------------------------------------------------
(* PerfModel: the invariant. *)

Used(s) == s = "cpu" \/ ~CPUOnly

\* v is the time t as far as a file can tell.
Near(v, t) == 2 * AbsDiff(v, t) <= Grain

\* The time of the i-th sample for the upper bound b.
SampleTime(s, b, i) == Time(s, i * Step(b))

\* Of the entries of side s, those that k iterations of the loop leave right.
Right(s, k) == {i \in 0..Points : i < k /\ (s = "dpu" => k <= Entries + i)}

\* The entries are as measured; those the bound visits and keeps are near.
Exact(s, b, k) == \A i \in Right(s, k) : samples[At(s, i)] = SampleTime(s, b, i)

SamplesGood(s, b) == \A i \in Own(s, b) : Near(samples[At(s, i)], SampleTime(s, b, i))

Whole(f, s, b) ==
  /\ f.exists /\ ~f.broken
  /\ Len(f.lines) = Visited(b)
  /\ \A i \in Own(s, b) : Near(f.lines[i + 1], SampleTime(s, b, i))

FileGood(s, b) == Whole(file[s][b], s, b)

File == [exists : BOOLEAN, lines : Seq(Nat), broken : BOOLEAN]

FilesTyped == file \in [Side -> [UpperBounds -> File]]

\* Where trainModel is, and what it has measured so far.
Training ==
  /\ pc # "idle" => arg \in UpperBounds /\ Trainable
  /\ pc = "loadDpu" => ~CPUOnly
  /\ pc = "measure" =>
       /\ sampleIdx <= Visited(arg)
       /\ \A s \in Side : Used(s) => Exact(s, arg, sampleIdx)
  /\ pc \in {"saveCpu", "saveDpu"} =>
       /\ bound = arg
       /\ \A s \in Side : Used(s) => Exact(s, arg, Visited(arg))

\* As long as no kill has cut a file, every file that is read is whole.
Uncut ==
  kills = 0 =>
    /\ \A s \in Side, b \in UpperBounds :
         Used(s) /\ file[s][b].exists => FileGood(s, b)
    /\ Ready => \A s \in Side : Used(s) => SamplesGood(s, bound)

\* The DPU file is written last: where it exists the CPU file is whole, so a
\* CPU file that was cut is measured anew before anything relies on it.
CpuFirst ==
  kind = "compute" =>
    /\ \A b \in UpperBounds : file["dpu"][b].exists => FileGood("cpu", b)
    /\ pc \in {"measure", "saveCpu", "saveDpu"} => ~file["dpu"][arg].exists
    /\ pc = "saveDpu" /\ dirExists => FileGood("cpu", arg)
    /\ pc = "loadDpu" /\ FileGood("cpu", arg) => SamplesGood("cpu", arg)
    /\ Ready => SamplesGood("cpu", bound)

PerfTypeInv == TypeOK /\ FilesTyped /\ Training

PerfInv == PerfTypeInv /\ Uncut /\ CpuFirst

----------------------------------------------------------------------------
(* PerfModel: arithmetic. *)

\* The step divides the bound into the visited samples.
LEMMA VisitedIs ==
  ASSUME NEW b \in UpperBounds
  PROVE  /\ b \in Nat /\ b > 0
         /\ Step(b) \in Nat /\ Step(b) > 0
         /\ Visited(b) \in Nat /\ Visited(b) > 0
         /\ \A i \in Nat : i * Step(b) <= b <=> i < Visited(b)
PROOF
  <1>1. b \in Nat /\ Points \in Nat /\ Points > 1 /\ Step(b) > 0
    BY SampleAssumption
  <1>2. Step(b) \in Nat
    BY <1>1 DEF Step
  <1> DEFINE d == Step(b)
             q == b \div d
  <1>3. d \in Nat /\ d > 0
    BY <1>1, <1>2
  <1>4. b > 0
    <2>1. b = 0 => Step(b) = 0
      <3>1. Points - 1 \in Nat /\ Points - 1 > 0
        BY <1>1
      <3> QED  BY <3>1 DEF Step
    <2> QED  BY <1>1, <2>1
  <1> HIDE DEF d
  <1>5. q \in Nat /\ q * d <= b /\ b < (q + 1) * d
    BY <1>1, <1>3
  <1> HIDE DEF q
  <1>6. ASSUME NEW i \in Nat
        PROVE  i * d <= b <=> i < q + 1
    <2>1. CASE i < q + 1
      <3>1. i <= q
        BY <1>5, <2>1
      <3>2. i * d <= q * d
        BY <1>3, <1>5, <3>1
      <3> QED  BY <1>1, <1>3, <1>5, <2>1, <3>2
    <2>2. CASE i >= q + 1
      <3>1. (q + 1) * d <= i * d
        BY <1>3, <1>5, <2>2
      <3> QED  BY <1>1, <1>3, <1>5, <2>2, <3>1
    <2> QED  BY <1>5, <2>1, <2>2
  <1>7. Visited(b) = q + 1
    BY DEF Visited, q, d
  <1> QED  BY <1>1, <1>2, <1>4, <1>5, <1>6, <1>7 DEF d

LEMMA TimeTyped ==
  ASSUME NEW s \in Side, NEW n \in Nat
  PROVE  /\ Overhead[s] \in Nat /\ Slope[s] \in Nat
         /\ Time(s, n) \in Nat /\ Time(s, n) = Overhead[s] + Slope[s] * n
PROOF
  <1>1. Overhead[s] \in Nat /\ Slope[s] \in Nat
    BY TimeAssumption
  <1> QED  BY <1>1 DEF Time

LEMMA NearIs ==
  ASSUME NEW v \in Nat, NEW t \in Nat
  PROVE  Near(v, t) <=> 2 * (v - t) <= Grain /\ 2 * (t - v) <= Grain
PROOF
  <1>1. Grain \in Nat
    BY TimeAssumption
  <1> QED  BY <1>1 DEF Near, AbsDiff

\* std::to_string is right up to half a unit of its last decimal.
LEMMA PrintedNear ==
  ASSUME NEW v \in Nat
  PROVE  Printed(v) \in Nat /\ Near(Printed(v), v)
PROOF
  <1> DEFINE h == Grain \div 2
             q == (v + h) \div Grain
  <1>1. Grain \in Nat /\ Grain > 0
    BY TimeAssumption
  <1>2. h \in Nat /\ 2 * h <= Grain /\ Grain <= 2 * h + 1
    BY <1>1
  <1> HIDE DEF h
  <1>3. q \in Nat /\ q * Grain <= v + h /\ v + h < q * Grain + Grain
    BY <1>1, <1>2
  <1> HIDE DEF q
  <1>4. q * Grain \in Nat
    BY <1>1, <1>3
  <1>5. Printed(v) = q * Grain
    BY DEF Printed, q, h
  <1>6. 2 * (q * Grain - v) <= Grain /\ 2 * (v - q * Grain) <= Grain
    BY <1>1, <1>2, <1>3, <1>4
  <1> QED  BY <1>4, <1>5, <1>6, NearIs

\* What was measured exactly is near.
LEMMA SameIsNear ==
  ASSUME NEW v \in Nat
  PROVE  Near(v, v)
PROOF
  <1>1. Grain \in Nat
    BY TimeAssumption
  <1> QED  BY <1>1, NearIs

\* Interpolating between two samples that are near gives an answer that is.
LEMMA InterpolationNear ==
  ASSUME NEW s \in Side, NEW step \in Nat, NEW x \in Nat, NEW d \in Nat, d <= step,
         NEW y0 \in Nat, Near(y0, Time(s, x)),
         NEW y1 \in Nat, Near(y1, Time(s, x + step))
  PROVE  2 * AbsDiff(y0 * (step - d) + y1 * d, step * Time(s, x + d)) <= Grain * step
PROOF
  <1> DEFINE O == Overhead[s]
             M == Slope[s]
             t0 == O + M * x
             t1 == O + M * (x + step)
  <1>1. Grain \in Nat
    BY TimeAssumption
  <1>2. O \in Nat /\ M \in Nat
    BY TimeTyped
  <1>3. /\ Time(s, x) = t0 /\ Time(s, x + step) = t1 /\ Time(s, x + d) = O + M * (x + d)
        /\ t0 \in Nat /\ t1 \in Nat
    BY <1>2, TimeTyped
  <1> HIDE DEF O, M
  <1>4. step * (O + M * (x + d)) = t0 * (step - d) + t1 * d
    BY <1>2
  <1> HIDE DEF t0, t1
  <1>5. /\ 2 * (y0 - t0) <= Grain /\ 2 * (t0 - y0) <= Grain
        /\ 2 * (y1 - t1) <= Grain /\ 2 * (t1 - y1) <= Grain
    BY <1>3, NearIs
  <1> DEFINE e == step - d
  <1>6. e \in Nat /\ e + d = step
    OBVIOUS
  <1> HIDE DEF e
  <1>7. /\ (2 * (y0 - t0)) * e <= Grain * e /\ (2 * (t0 - y0)) * e <= Grain * e
        /\ (2 * (y1 - t1)) * d <= Grain * d /\ (2 * (t1 - y1)) * d <= Grain * d
    BY <1>1, <1>3, <1>5, <1>6
  <1>8. Grain * step = Grain * e + Grain * d
    BY <1>1, <1>6
  <1> DEFINE A == y0 * e + y1 * d
             B == t0 * e + t1 * d
  <1>9. A \in Nat /\ B \in Nat
    BY <1>3, <1>6
  <1>10. /\ 2 * (A - B) = (2 * (y0 - t0)) * e + (2 * (y1 - t1)) * d
         /\ 2 * (B - A) = (2 * (t0 - y0)) * e + (2 * (t1 - y1)) * d
    BY <1>3, <1>6
  <1>11. 2 * (A - B) <= Grain * step /\ 2 * (B - A) <= Grain * step
    <2> DEFINE p0 == (2 * (y0 - t0)) * e
               m0 == (2 * (t0 - y0)) * e
               p1 == (2 * (y1 - t1)) * d
               m1 == (2 * (t1 - y1)) * d
               ge == Grain * e
               gd == Grain * d
    <2>1. p0 \in Int /\ m0 \in Int /\ p1 \in Int /\ m1 \in Int /\ ge \in Int /\ gd \in Int
      BY <1>1, <1>3, <1>6
    <2>2. p0 <= ge /\ m0 <= ge /\ p1 <= gd /\ m1 <= gd
      BY <1>7
    <2>3. /\ 2 * (A - B) = p0 + p1 /\ 2 * (B - A) = m0 + m1 /\ Grain * step = ge + gd
      BY <1>8, <1>10
    <2> HIDE DEF p0, m0, p1, m1, ge, gd, A, B
    <2> QED  BY <2>1, <2>2, <2>3
  <1>12. /\ step * Time(s, x + d) = B
         /\ y0 * (step - d) + y1 * d = A
    BY <1>3, <1>4 DEF e
  <1> HIDE DEF A, B
  <1> QED  BY <1>9, <1>11, <1>12 DEF AbsDiff

LEMMA ScaledNear ==
  ASSUME NEW y \in Nat, NEW t \in Nat, Near(y, t), NEW step \in Nat
  PROVE  2 * AbsDiff(step * y, step * t) <= Grain * step
PROOF
  <1>1. Grain \in Nat
    BY TimeAssumption
  <1>2. 2 * (y - t) <= Grain /\ 2 * (t - y) <= Grain
    BY NearIs
  <1>3. (2 * (y - t)) * step <= Grain * step /\ (2 * (t - y)) * step <= Grain * step
    BY <1>1, <1>2
  <1>4. /\ 2 * (step * y - step * t) = (2 * (y - t)) * step
        /\ 2 * (step * t - step * y) = (2 * (t - y)) * step
    OBVIOUS
  <1> QED  BY <1>3, <1>4 DEF AbsDiff

\* Where the entries of the two sides are: none of the CPU's is one of the DPU's.
LEMMA SlotsAre ==
  ASSUME NEW i \in 0..Points
  PROVE  /\ Points \in Nat /\ Entries \in Nat /\ CtSlot \in Nat /\ i \in Nat
         /\ At("cpu", i) = i /\ At("cpu", i) < Entries
         /\ At("dpu", i) = Entries + i /\ At("dpu", i) >= Entries
         /\ \A s \in Side : At(s, i) \in Slot
PROOF
  <1>1. Points \in Nat
    BY SampleAssumption
  <1> QED  BY <1>1 DEF Entries, CtSlot, Slot, At, Side

\* Good entries make good answers, at the samples and between them.
LEMMA GoodSamplesAnswer ==
  ASSUME NEW s \in Side, bound \in UpperBounds, samples \in [Slot -> Nat],
         SamplesGood(s, bound), NEW n \in 0..bound, Covered(s, n)
  PROVE  Close(s, n)
PROOF
  <1> DEFINE st == Step(bound)
             k == n \div st
             y(i) == samples[At(s, i)]
  <1>1. /\ bound \in Nat /\ bound > 0 /\ st \in Nat /\ st > 0
        /\ Points \in Nat /\ n \in Nat
    BY VisitedIs, SampleAssumption
  <1>2. \A i \in Own(s, bound) :
          i \in 0..Points /\ y(i) \in Nat /\ Near(y(i), Time(s, i * st))
    <2>1. ASSUME NEW i \in Own(s, bound)
          PROVE  i \in 0..Points /\ y(i) \in Nat
      <3>1. i \in 0..Points
        BY DEF Own
      <3> QED  BY <3>1, SlotsAre
    <2> QED  BY <2>1 DEF SamplesGood, SampleTime
  <1>3. \A i \in Nat : Time(s, i) \in Nat
    BY TimeTyped
  <1>4. CASE n >= bound
    <2>1. Points \in Own(s, bound)
      BY <1>4 DEF Covered, Neighbours
    <2>2. Deduced(s, n) = st * y(Points)
      BY <1>1, <1>4 DEF Deduced
    <2>3. Asked(n) = Points * st /\ Points * st \in Nat
      BY <1>1, <1>4 DEF Asked
    <2>4. 2 * AbsDiff(st * y(Points), st * Time(s, Points * st)) <= Grain * st
      BY <1>1, <1>2, <1>3, <2>1, <2>3, ScaledNear
    <2> QED  BY <2>2, <2>3, <2>4 DEF Close
  <1>5. CASE n < bound
    <2> HIDE DEF st
    <2>1. k \in Nat /\ k * st <= n /\ n < (k + 1) * st
      BY <1>1
    <2> DEFINE x == k * st
               d == n - x
    <2>2. x \in Nat /\ d \in Nat /\ n = x + d /\ d <= st /\ (k + 1) * st = x + st
      BY <1>1, <2>1
    <2>3. k \in Own(s, bound) /\ (k * st # n => k + 1 \in Own(s, bound))
      BY <1>1, <1>5 DEF Covered, Neighbours, st
    <2>4. Asked(n) = n
      BY <1>1, <1>5 DEF Asked
    <2>5. y(k) \in Nat /\ Near(y(k), Time(s, x))
      BY <1>2, <2>3
    <2>6. CASE n = 0
      <3>1. Deduced(s, n) = st * y(0)
        BY <2>6 DEF Deduced, st
      <3>2. k = 0 /\ x = 0
        BY <1>1, <2>1, <2>2, <2>6
      <3>3. 2 * AbsDiff(st * y(0), st * Time(s, 0)) <= Grain * st
        BY <1>1, <1>3, <2>5, <3>2, ScaledNear
      <3> QED  BY <2>4, <2>6, <3>1, <3>3 DEF Close, st
    <2>7. CASE n > 0
      <3>1. Deduced(s, n) = y(k) * (st - d) + y(k + 1) * d
        BY <1>1, <1>5, <2>7 DEF Deduced, st
      <3>2. CASE k * st = n
        <4>1. x = n /\ d = 0
          BY <1>1, <2>2, <3>2
        <4>2. At(s, k + 1) \in Slot /\ y(k + 1) \in Nat
          <5>1. k \in 0..Points
            BY <1>2, <2>3
          <5>2. At(s, k + 1) \in Slot
            BY <1>1, <5>1 DEF At, Slot, CtSlot, Entries, Side
          <5> QED  BY <5>2
        <4> HIDE DEF y, x, d, k
        <4>3. Deduced(s, n) = st * y(k)
          BY <1>1, <2>5, <3>1, <4>1, <4>2
        <4>4. 2 * AbsDiff(st * y(k), st * Time(s, x)) <= Grain * st
          BY <1>1, <1>3, <2>2, <2>5, ScaledNear
        <4> QED  BY <2>4, <4>1, <4>3, <4>4 DEF Close, st
      <3>3. CASE k * st # n
        <4>1. y(k + 1) \in Nat /\ Near(y(k + 1), Time(s, x + st))
          BY <1>2, <2>2, <2>3, <3>3
        <4>2. 2 * AbsDiff(y(k) * (st - d) + y(k + 1) * d, st * Time(s, x + d)) <= Grain * st
          <5> HIDE DEF x, d, y, k
          <5> QED  BY <1>1, <2>2, <2>5, <4>1, InterpolationNear
        <4> QED  BY <2>2, <2>4, <3>1, <4>2 DEF Close, st
      <3> QED  BY <3>2, <3>3
    <2> QED  BY <1>1, <2>6, <2>7
  <1> QED  BY <1>1, <1>4, <1>5

----------------------------------------------------------------------------
(* PerfModel: samples and files. *)

\* Samples that are as measured are written to a file that is whole.
LEMMA SavedIsWhole ==
  ASSUME NEW s \in Side, bound \in UpperBounds, samples \in [Slot -> Nat],
         NEW behind \in Nat
  PROVE  /\ FileOf(SampleLines(s, behind), FALSE) \in File
         /\ Len(SampleLines(s, behind)) = Visited(bound)
         /\ SampleLines(s, behind) \in Seq(Nat)
         /\ Exact(s, bound, Visited(bound)) =>
              /\ Whole(FileOf(SampleLines(s, behind), FALSE), s, bound)
              /\ SamplesGood(s, bound)
PROOF
  <1> DEFINE v == Visited(bound)
             lines == SampleLines(s, behind)
             read(i) == IF At(s, i) \in Slot THEN samples[At(s, i)] ELSE behind
  <1>1. v \in Nat /\ Points \in Nat /\ Step(bound) \in Nat
    BY VisitedIs, SampleAssumption
  <1>2. \A i : read(i) \in Nat
    OBVIOUS
  <1>3. lines = [i \in 1..v |-> Printed(read(i - 1))]
    BY DEF SampleLines
  <1>4. \A i \in Own(s, bound) :
          /\ i \in 0..(v - 1) /\ i + 1 \in 1..v /\ (i + 1) - 1 = i
          /\ read(i) = samples[At(s, i)]
    <2>1. ASSUME NEW i \in Own(s, bound)
          PROVE  /\ i \in 0..(v - 1) /\ i + 1 \in 1..v /\ (i + 1) - 1 = i
                 /\ read(i) = samples[At(s, i)]
      <3>1. i \in 0..Points /\ i < v
        BY DEF Own
      <3>2. At(s, i) \in Slot
        BY <3>1, SlotsAre
      <3> HIDE DEF v
      <3> QED  BY <1>1, <3>1, <3>2
    <2> QED  BY <2>1
  <1>5. Own(s, bound) = Right(s, v)
    BY DEF Own, Right
  <1> HIDE DEF v, lines, read
  <1>6. \A i \in 1..v : Printed(read(i - 1)) \in Nat
    BY <1>2, PrintedNear
  <1>7. lines \in Seq(Nat) /\ Len(lines) = v
    BY <1>1, <1>3, <1>6
  <1>8. ASSUME Exact(s, bound, v), NEW i \in Own(s, bound)
        PROVE  /\ Near(lines[i + 1], SampleTime(s, bound, i))
               /\ Near(samples[At(s, i)], SampleTime(s, bound, i))
    <2>1. samples[At(s, i)] = SampleTime(s, bound, i) /\ samples[At(s, i)] \in Nat
      BY <1>2, <1>4, <1>5, <1>8 DEF Exact
    <2>2. lines[i + 1] = Printed(samples[At(s, i)])
      BY <1>3, <1>4
    <2> QED  BY <2>1, <2>2, PrintedNear, SameIsNear
  <1>9. FileOf(lines, FALSE) \in File
    BY <1>7 DEF FileOf, File
  <1> QED  BY <1>7, <1>8, <1>9 DEF v, lines, Whole, SamplesGood, FileOf

\* A file fills entries of the side it was written for, and a whole one with
\* good samples; the CPU's entries stay as they are when a DPU file is read.
LEMMA LoadedIsGood ==
  ASSUME PerfTypeInv, NEW s \in Side, NEW b \in UpperBounds
  PROVE  /\ Loaded(s, file[s][b]) \in [Slot -> Nat]
         /\ FileGood(s, b) =>
              \A i \in Own(s, b) :
                Near(Loaded(s, file[s][b])[At(s, i)], SampleTime(s, b, i))
         /\ s = "dpu" =>
              \A i \in 0..Points :
                Loaded(s, file[s][b])[At("cpu", i)] = samples[At("cpu", i)]
PROOF
  <1> DEFINE f == file[s][b]
  <1>1. f.lines \in Seq(Nat)
    BY DEF PerfTypeInv, FilesTyped, File
  <1>2. samples \in [Slot -> Nat]
    BY DEF PerfTypeInv, TypeOK
  <1>3. Loaded(s, f) \in [Slot -> Nat]
    <2>1. ASSUME NEW k \in Slot, NEW i \in 0..(Len(f.lines) - 1), k = At(s, i)
          PROVE  f.lines[k - At(s, 0) + 1] \in Nat
      <3>1. Len(f.lines) \in Nat /\ Points \in Nat
        BY <1>1, SampleAssumption
      <3>2. k - At(s, 0) + 1 = i + 1
        BY <2>1, <3>1 DEF At, Entries
      <3>3. i + 1 \in 1..Len(f.lines)
        BY <3>1
      <3> HIDE DEF f
      <3> QED  BY <1>1, <3>2, <3>3
    <2> HIDE DEF f
    <2> QED  BY <1>2, <2>1 DEF Loaded
  <1>4. ASSUME FileGood(s, b), NEW i \in Own(s, b)
        PROVE  Near(Loaded(s, f)[At(s, i)], SampleTime(s, b, i))
    <2>1. i \in 0..Points /\ i < Visited(b) /\ Visited(b) \in Nat
      BY VisitedIs DEF Own
    <2>2. Len(f.lines) = Visited(b) /\ Near(f.lines[i + 1], SampleTime(s, b, i))
      BY <1>4 DEF FileGood, Whole
    <2>3. At(s, i) \in Slot /\ i \in 0..(Len(f.lines) - 1)
      BY <2>1, <2>2, SlotsAre
    <2>4. At(s, i) - At(s, 0) + 1 = i + 1
      <3>1. i \in Nat /\ Points \in Nat
        BY <2>1, SlotsAre
      <3> QED  BY <3>1 DEF At, Entries
    <2>5. Loaded(s, f)[At(s, i)] = f.lines[i + 1]
      <3> HIDE DEF f
      <3>1. Loaded(s, f)[At(s, i)] = f.lines[At(s, i) - At(s, 0) + 1]
        BY <2>3 DEF Loaded
      <3> QED  BY <2>4, <3>1
    <2> QED  BY <2>2, <2>5
  <1>5. ASSUME s = "dpu", NEW i \in 0..Points
        PROVE  Loaded(s, f)[At("cpu", i)] = samples[At("cpu", i)]
    <2>1. /\ At("cpu", i) \in Slot /\ At("cpu", i) < Entries
          /\ At("cpu", i) \in Nat /\ Entries \in Nat
      BY SlotsAre DEF Side
    <2>2. \A j \in 0..(Len(f.lines) - 1) : At("cpu", i) # At("dpu", j)
      <3>1. ASSUME NEW j \in 0..(Len(f.lines) - 1)  PROVE At("cpu", i) # At("dpu", j)
        <4>1. At("dpu", j) = Entries + j /\ j >= 0 /\ j \in Int
          BY DEF At
        <4> HIDE DEF At
        <4> QED  BY <2>1, <4>1
      <3> QED  BY <3>1
    <2> HIDE DEF f
    <2> QED  BY <1>5, <2>1, <2>2 DEF Loaded
  <1> QED  BY <1>3, <1>4, <1>5

\* What a kill leaves of a file is a file, no longer than the one it cut.
LEMMA CutsTyped ==
  ASSUME NEW lines \in Seq(Nat), NEW f \in Cuts(lines)
  PROVE  f \in File /\ Len(f.lines) <= Len(lines)
PROOF
  <1>1. PICK k \in CutAt :
          /\ k < Len(lines)
          /\ \/ f = FileOf(SubSeq(lines, 1, k), FALSE)
             \/ \E v \in Stray : f = FileOf(Append(SubSeq(lines, 1, k), v), FALSE)
             \/ f = FileOf(SubSeq(lines, 1, k), TRUE)
    BY DEF Cuts
  <1>2. k \in Nat /\ Len(lines) \in Nat
    BY PerfBoundAssumption
  <1> DEFINE kept == SubSeq(lines, 1, k)
  <1>3. kept \in Seq(Nat) /\ Len(kept) = k /\ Len(kept) <= k + 1
    BY <1>1, <1>2
  <1> HIDE DEF kept
  <1>4. ASSUME NEW g \in Seq(Nat), Len(g) <= k + 1, NEW torn \in BOOLEAN, f = FileOf(g, torn)
        PROVE  f \in File /\ Len(f.lines) <= Len(lines)
    <2>1. f \in File /\ f.lines = g
      BY <1>4 DEF FileOf, File
    <2>2. Len(g) \in Nat
      OBVIOUS
    <2> QED  BY <1>1, <1>2, <1>4, <2>1, <2>2
  <1>5. CASE f = FileOf(kept, FALSE)
    BY <1>3, <1>4, <1>5, Zenon
  <1>6. CASE f = FileOf(kept, TRUE)
    BY <1>3, <1>4, <1>6, Zenon
  <1>7. CASE \E v \in Stray : f = FileOf(Append(kept, v), FALSE)
    <2>1. PICK v \in Stray : f = FileOf(Append(kept, v), FALSE)
      BY <1>7
    <2>2. v \in Nat
      BY PerfBoundAssumption
    <2>3. Append(kept, v) \in Seq(Nat) /\ Len(Append(kept, v)) <= k + 1
      BY <1>2, <1>3, <2>2
    <2> QED  BY <1>4, <2>1, <2>3, Zenon
  <1> QED  BY <1>1, <1>5, <1>6, <1>7 DEF kept

----------------------------------------------------------------------------
(* PerfModel: types, and where trainModel is. *)

LEMMA PerfTypeInit == Init => PerfTypeInv
PROOF
  <1> SUFFICES ASSUME Init  PROVE PerfTypeInv
    OBVIOUS
  <1>1. Points \in Nat
    BY SampleAssumption
  <1>2. \A b \in UpperBounds : Visited(b) \in Nat
    BY VisitedIs
  <1>3. <<>> \in Seq(Nat) /\ Len(<<>>) = 0
    OBVIOUS
  <1>4. Absent \in File /\ Len(Absent.lines) = 0
    BY <1>3 DEF Absent, File
  <1>5. TypeOK
    <2>1. \A s \in Side, b \in UpperBounds : Len(file[s][b].lines) <= Visited(b)
      BY <1>1, <1>2, <1>4 DEF Init
    <2> QED  BY <1>1, <2>1, PerfBoundAssumption DEF Init, TypeOK, NoSamples
  <1>6. FilesTyped
    BY <1>4 DEF Init, FilesTyped
  <1>7. Training
    BY DEF Init, Training
  <1> QED  BY <1>5, <1>6, <1>7 DEF PerfTypeInv

\* A file that changes is replaced by one that fits.
LEMMA FileReplaced ==
  ASSUME FilesTyped, \A s \in Side, b \in UpperBounds : Len(file[s][b].lines) <= Visited(b),
         NEW s \in Side, NEW b \in UpperBounds, NEW f \in File, Len(f.lines) <= Visited(b),
         file' = [file EXCEPT ![s][b] = f]
  PROVE  /\ FilesTyped'
         /\ \A t \in Side, c \in UpperBounds : Len(file'[t][c].lines) <= Visited(c)
         /\ \A t \in Side, c \in UpperBounds :
              file'[t][c] = IF t = s /\ c = b THEN f ELSE file[t][c]
PROOF
  <1>1. \A t \in Side, c \in UpperBounds :
          file'[t][c] = IF t = s /\ c = b THEN f ELSE file[t][c]
    BY DEF FilesTyped
  <1>2. FilesTyped'
    BY DEF FilesTyped
  <1> QED  BY <1>1, <1>2

LEMMA PerfTypeStep == PerfTypeInv /\ [Next]_vars => PerfTypeInv'
PROOF
  <1> SUFFICES ASSUME PerfTypeInv, [Next]_vars  PROVE PerfTypeInv'
    OBVIOUS
  <1> USE DEF PerfTypeInv
  <1>0. /\ Points \in Nat
        /\ \A b \in UpperBounds : Visited(b) \in Nat /\ Visited(b) > 0 /\ b # 0
    BY SampleAssumption, VisitedIs
  <1>1. CASE TrainLogic
    BY <1>1 DEF TrainLogic, TypeOK, FilesTyped, Training, Trainable
  <1>2. CASE TrainModel
    BY <1>2 DEF TrainModel, TypeOK, FilesTyped, Training, Trainable, CPUOnly
  <1>3. ASSUME NEW s \in Side, NEW from, NEW next \in {"idle", "loadDpu"},
               from \in {"loadCpu", "loadDpu"},
               next = "loadDpu" => ~CPUOnly, Load(s, from, next)
        PROVE  PerfTypeInv'
    <2>1. arg \in UpperBounds /\ Trainable
      BY <1>3 DEF Load, Training
    <2>2. samples' = Loaded(s, file[s][arg])
      BY <1>3 DEF Load
    <2>3. samples' \in [Slot -> Nat]
      BY <2>1, <2>2, LoadedIsGood
    <2>4. TypeOK'
      BY <1>3, <2>1, <2>3 DEF Load, TypeOK
    <2>5. FilesTyped'
      BY <1>3 DEF Load, FilesTyped
    <2>6. Training'
      BY <1>3, <2>1 DEF Load, Training, Trainable, CPUOnly
    <2> QED  BY <2>4, <2>5, <2>6
  <1>4. CASE LoadCpu
    BY <1>3, <1>4 DEF LoadCpu, Side
  <1>5. CASE LoadDpu
    BY <1>3, <1>5 DEF LoadDpu, Side
  <1>6. ASSUME Gone, UNCHANGED <<kind, dirExists>>, FilesTyped',
               \A s \in Side, b \in UpperBounds : Len(file'[s][b].lines) <= Visited(b),
               kills' \in 0..MaxKills, restarts' \in 0..MaxRestarts
        PROVE  PerfTypeInv'
    <2>1. TypeOK'
      BY <1>0, <1>6 DEF Gone, TypeOK, NoSamples
    <2>2. Training'
      BY <1>6 DEF Gone, Training
    <2> QED  BY <1>6, <2>1, <2>2
  <1>7. CASE LoadAborts
    BY <1>6, <1>7 DEF LoadAborts, FilesTyped, TypeOK
  <1>8. CASE NotCached
    <2>1. arg \in UpperBounds
      BY <1>8 DEF NotCached, Training
    <2>2. TypeOK' /\ FilesTyped'
      BY <1>0, <1>8 DEF NotCached, TypeOK, FilesTyped
    <2>3. Training'
      BY <1>0, <1>8, <2>1 DEF NotCached, Training, Trainable, CPUOnly, Exact, Right
    <2> QED  BY <2>2, <2>3
  <1>9. CASE Measure
    <2>1. arg \in UpperBounds /\ Trainable /\ pc = "measure"
      BY <1>9 DEF Measure, Training
    <2>2. sampleIdx \in Nat /\ sampleIdx < Visited(arg)
      BY <1>0, <1>9, <2>1, VisitedIs DEF Measure, TypeOK
    <2> DEFINE n == sampleIdx * Step(arg)
               cpuDone == [samples EXCEPT ![At("cpu", sampleIdx)] = Time("cpu", n)]
    <2>3. n \in Nat /\ Time("cpu", n) \in Nat /\ Time("dpu", n) \in Nat
      BY <2>1, <2>2, VisitedIs, TimeTyped DEF Side
    <2>4. samples' = IF CPUOnly THEN cpuDone
                     ELSE [cpuDone EXCEPT ![At("dpu", sampleIdx)] = Time("dpu", n)]
      BY <1>9 DEF Measure
    <2> HIDE DEF n
    <2>5. cpuDone \in [Slot -> Nat] /\ samples' \in [Slot -> Nat]
      BY <2>3, <2>4 DEF TypeOK
    <2>6. TypeOK' /\ FilesTyped'
      BY <1>9, <2>2, <2>5 DEF Measure, TypeOK, FilesTyped
    <2>7. /\ arg' = arg /\ sampleIdx' = sampleIdx + 1 /\ kind' = kind /\ pc' = "measure"
      BY <1>9, <2>1 DEF Measure
    <2>8. ASSUME NEW s \in Side, Used(s), NEW i \in Right(s, sampleIdx + 1)
          PROVE  samples'[At(s, i)] = SampleTime(s, arg, i)
      <3>1. /\ i \in 0..Points /\ i < sampleIdx + 1 /\ i \in Nat /\ Entries \in Nat
            /\ At(s, i) \in Slot
        BY SlotsAre DEF Right
      <3>2. s = "dpu" => sampleIdx + 1 <= Entries + i
        BY DEF Right
      <3>3. /\ At("cpu", sampleIdx) = sampleIdx /\ At("dpu", sampleIdx) = Entries + sampleIdx
            /\ At("cpu", i) = i /\ At("dpu", i) = Entries + i /\ i < Entries
        BY <3>1, SampleAssumption DEF At, Entries
      <3>4. CASE i = sampleIdx
        <4>1. SampleTime(s, arg, i) = Time(s, n)
          BY <3>4 DEF SampleTime, n
        <4>2. CASE s = "cpu"
          <5>1. cpuDone[At("cpu", i)] = Time("cpu", n)
            BY <3>1, <3>4, <4>2 DEF TypeOK
          <5>2. At("cpu", i) # At("dpu", sampleIdx)
            BY <2>2, <3>1, <3>3
          <5>3. samples'[At("cpu", i)] = cpuDone[At("cpu", i)]
            BY <2>4, <2>5, <3>1, <4>2, <5>2
          <5> QED  BY <4>1, <4>2, <5>1, <5>3
        <4>3. CASE s = "dpu"
          <5>1. ~CPUOnly
            BY <2>8, <4>3 DEF Used
          <5> HIDE DEF cpuDone
          <5> QED  BY <2>4, <2>5, <3>1, <3>4, <4>1, <4>3, <5>1
        <4> QED  BY <4>2, <4>3 DEF Side
      <3>5. CASE i < sampleIdx
        <4>1. i \in Right(s, sampleIdx)
          BY <2>2, <3>1, <3>2, <3>5 DEF Right
        <4>2. samples[At(s, i)] = SampleTime(s, arg, i)
          BY <2>1, <2>8, <4>1 DEF Training, Exact
        <4>3. At(s, i) # At("cpu", sampleIdx) /\ At(s, i) # At("dpu", sampleIdx)
          <5>1. CASE s = "cpu"
            BY <2>2, <3>1, <3>3, <3>5, <5>1
          <5>2. CASE s = "dpu"
            BY <2>2, <3>1, <3>2, <3>3, <3>5, <5>2
          <5> QED  BY <5>1, <5>2 DEF Side
        <4>4. cpuDone[At(s, i)] = samples[At(s, i)]
          BY <3>1, <4>3 DEF TypeOK
        <4>5. samples'[At(s, i)] = cpuDone[At(s, i)]
          <5> HIDE DEF cpuDone
          <5> QED  BY <2>4, <2>5, <3>1, <4>3
        <4> QED  BY <4>2, <4>4, <4>5
      <3> QED  BY <2>2, <3>1, <3>4, <3>5
    <2>9. Training'
      <3>1. ASSUME NEW s \in Side, Used(s)
            PROVE  Exact(s, arg, sampleIdx)'
        BY <2>7, <2>8, <3>1 DEF Exact, Right, SampleTime, Time
      <3>2. sampleIdx' <= Visited(arg')
        BY <1>0, <2>1, <2>2, <2>7
      <3>3. \A s \in Side : Used(s)' => Used(s)
        BY <2>7 DEF Used, CPUOnly
      <3> QED  BY <2>1, <2>7, <3>1, <3>2, <3>3 DEF Training, Trainable
    <2> QED  BY <2>6, <2>9
  <1>10. CASE Measured
    <2>1. arg \in UpperBounds /\ Trainable /\ pc = "measure"
      BY <1>10 DEF Measured, Training
    <2>2. sampleIdx = Visited(arg)
      <3>1. sampleIdx \in Nat /\ sampleIdx <= Visited(arg)
        BY <2>1 DEF TypeOK, Training
      <3>2. ~(sampleIdx * Step(arg) <= arg)
        <4>1. sampleIdx * Step(arg) \in Nat /\ arg \in Nat
          BY <2>1, <3>1, VisitedIs
        <4> QED  BY <1>10, <4>1 DEF Measured
      <3> QED  BY <1>0, <2>1, <3>1, <3>2, VisitedIs
    <2>3. TypeOK' /\ FilesTyped'
      BY <1>10, <2>1 DEF Measured, TypeOK, FilesTyped
    <2>4. Training'
      BY <1>10, <2>1, <2>2
         DEF Measured, Training, Trainable, CPUOnly, Used, Exact, Right, SampleTime, Time
    <2> QED  BY <2>3, <2>4
  <1>11. CASE Save
    <2>1. arg \in UpperBounds /\ Trainable /\ bound = arg /\ SideSaved \in Side
      BY <1>11 DEF Save, Training, SideSaved, Side
    <2>2. PICK behind \in Stray :
            file' = IF dirExists
                    THEN [file EXCEPT ![SideSaved][arg] =
                            FileOf(SampleLines(SideSaved, behind), FALSE)]
                    ELSE file
      BY <1>11 DEF Save
    <2> DEFINE f == FileOf(SampleLines(SideSaved, behind), FALSE)
    <2>3. /\ FilesTyped'
          /\ \A s \in Side, b \in UpperBounds : Len(file'[s][b].lines) <= Visited(b)
      <3>1. f \in File /\ Len(f.lines) = Visited(arg)
        <4>1. behind \in Nat
          BY PerfBoundAssumption
        <4> QED  BY <2>1, <4>1, SavedIsWhole DEF FileOf, TypeOK
      <3> HIDE DEF f
      <3>2. Len(f.lines) <= Visited(arg)
        BY <1>0, <2>1, <3>1
      <3>3. CASE dirExists
        <4>1. file' = [file EXCEPT ![SideSaved][arg] = f]
          BY <2>2, <3>3 DEF f
        <4> QED  BY <2>1, <3>1, <3>2, <4>1, FileReplaced DEF TypeOK
      <3>4. CASE ~dirExists
        BY <2>2, <3>4 DEF TypeOK, FilesTyped
      <3> QED  BY <3>3, <3>4
    <2>4. TypeOK'
      BY <1>11, <2>3 DEF Save, TypeOK
    <2>5. Training'
      BY <1>11, <2>1
         DEF Save, Training, Trainable, CPUOnly, Used, Exact, Right, SampleTime, Time
    <2> QED  BY <2>3, <2>4, <2>5
  <1>12. CASE KilledWhileSaving
    <2>1. arg \in UpperBounds /\ bound = arg /\ SideSaved \in Side
      BY <1>12 DEF KilledWhileSaving, Training, SideSaved, Side
    <2>2. PICK behind \in Stray : \E f \in Cuts(SampleLines(SideSaved, behind)) :
            file' = [file EXCEPT ![SideSaved][arg] = f]
      BY <1>12 DEF KilledWhileSaving
    <2>3. PICK f \in Cuts(SampleLines(SideSaved, behind)) :
            file' = [file EXCEPT ![SideSaved][arg] = f]
      BY <2>2
    <2>4. f \in File /\ Len(f.lines) <= Visited(arg)
      <3>1. behind \in Nat
        BY PerfBoundAssumption
      <3>2. /\ SampleLines(SideSaved, behind) \in Seq(Nat)
            /\ Len(SampleLines(SideSaved, behind)) = Visited(arg)
        BY <2>1, <3>1, SavedIsWhole DEF TypeOK
      <3> QED  BY <2>3, <3>2, CutsTyped
    <2>5. /\ FilesTyped'
          /\ \A s \in Side, b \in UpperBounds : Len(file'[s][b].lines) <= Visited(b)
      BY <2>1, <2>3, <2>4, FileReplaced DEF TypeOK
    <2>6. kills' \in 0..MaxKills /\ restarts' \in 0..MaxRestarts
      BY <1>12, PerfBoundAssumption DEF KilledWhileSaving, TypeOK
    <2> QED  BY <1>6, <1>12, <2>5, <2>6 DEF KilledWhileSaving
  <1>13. CASE Restart
    <2>1. kills' \in 0..MaxKills /\ restarts' \in 0..MaxRestarts
      BY <1>13, PerfBoundAssumption DEF Restart, TypeOK
    <2> QED  BY <1>6, <1>13, <2>1 DEF Restart, FilesTyped, TypeOK
  <1>14. CASE UNCHANGED vars
    BY <1>14 DEF vars, TypeOK, FilesTyped, Training, Trainable, CPUOnly, Used, Exact,
                 Right, SampleTime, Time
  <1>15. CASE TickDies
    BY <1>6, <1>15 DEF TickDies, FilesTyped, TypeOK
  <1> QED
    BY <1>1, <1>2, <1>4, <1>5, <1>7, <1>8, <1>9, <1>10, <1>11, <1>12, <1>13, <1>14, <1>15
       DEF Next

\* The types hold; no file has more lines than its upper bound visits samples.
THEOREM PerfTypeCorrect == Spec => []TypeOK
PROOF
  <1>1. PerfTypeInv => TypeOK
    BY DEF PerfTypeInv
  <1> QED  BY <1>1, PerfTypeInit, PerfTypeStep, PTL DEF Spec

----------------------------------------------------------------------------
(* PerfModel: which files and samples are right. *)

\* Whether a file or the samples are good depends on nothing else.
LEMMA FileGoodKept ==
  ASSUME NEW s \in Side, NEW b \in UpperBounds, file'[s][b] = file[s][b]
  PROVE  FileGood(s, b)' <=> FileGood(s, b)
PROOF
  BY DEF FileGood, Whole, Own, Near, SampleTime, Time

\* A load of a whole file leaves good samples for its bound.
LEMMA LoadGood ==
  ASSUME PerfTypeInv, NEW s \in Side, NEW from, NEW next, Load(s, from, next),
         arg \in UpperBounds, FileGood(s, arg)
  PROVE  SamplesGood(s, arg)'
PROOF
  <1>1. samples' = Loaded(s, file[s][arg]) /\ arg' = arg
    BY DEF Load
  <1> QED  BY <1>1, LoadedIsGood DEF SamplesGood, Own, Near, SampleTime, Time

\* Reading a DPU file leaves the CPU's samples good.
LEMMA LoadDpuKeepsCpu ==
  ASSUME PerfTypeInv, LoadDpu, arg \in UpperBounds, SamplesGood("cpu", arg)
  PROVE  SamplesGood("cpu", arg)'
PROOF
  <1>1. samples' = Loaded("dpu", file["dpu"][arg]) /\ arg' = arg
    BY DEF LoadDpu, Load
  <1>2. \A i \in Own("cpu", arg) : samples'[At("cpu", i)] = samples[At("cpu", i)]
    BY <1>1, LoadedIsGood DEF Own, Side
  <1> QED  BY <1>1, <1>2 DEF SamplesGood, Own, Near, SampleTime, Time

\* A save leaves a whole file for a side that was measured, and good samples.
LEMMA SaveGood ==
  ASSUME PerfTypeInv, Save,
         NEW s \in Side, s = SideSaved, NEW b \in UpperBounds, b = arg
  PROVE  /\ \A t \in Side, c \in UpperBounds :
              (t # s \/ c # b) => file'[t][c] = file[t][c]
         /\ dirExists /\ Used(s) => FileGood(s, b)'
         /\ ~dirExists => file' = file
         /\ bound' = b
         /\ \A t \in Side : Used(t) => SamplesGood(t, b)'
PROOF
  <1>1. bound = b /\ \A t \in Side : Used(t) => Exact(t, bound, Visited(bound))
    BY DEF Save, PerfTypeInv, Training
  <1>0. PICK behind \in Stray :
          file' = IF dirExists
                  THEN [file EXCEPT ![s][b] = FileOf(SampleLines(s, behind), FALSE)]
                  ELSE file
    BY DEF Save
  <1>2. \A t \in Side : Used(t) =>
          Whole(FileOf(SampleLines(t, behind), FALSE), t, b) /\ SamplesGood(t, b)
    <2>1. behind \in Nat
      BY PerfBoundAssumption
    <2> QED  BY <1>1, <2>1, SavedIsWhole DEF PerfTypeInv, TypeOK
  <1>3. PICK g : /\ g = FileOf(SampleLines(s, behind), FALSE)
                 /\ file' = IF dirExists THEN [file EXCEPT ![s][b] = g] ELSE file
    BY <1>0
  <1>4. \A t \in Side, c \in UpperBounds :
          (t # s \/ c # b) => file'[t][c] = file[t][c]
    BY <1>3 DEF PerfTypeInv, FilesTyped
  <1>5. ASSUME dirExists, Used(s)  PROVE FileGood(s, b)'
    <2>1. file'[s][b] = g
      BY <1>3, <1>5 DEF PerfTypeInv, FilesTyped
    <2>2. Whole(g, s, b)
      BY <1>2, <1>3, <1>5
    <2> QED  BY <2>1, <2>2 DEF FileGood, Whole, Own, Near, SampleTime, Time
  <1>6. bound' = b /\ \A t \in Side : Used(t) => SamplesGood(t, b)'
    BY <1>1, <1>2 DEF Save, SamplesGood, Own, Near, SampleTime, Time
  <1> QED  BY <1>3, <1>4, <1>5, <1>6

LEMMA PerfInit == Init => Uncut /\ CpuFirst
PROOF
  <1> SUFFICES ASSUME Init  PROVE Uncut /\ CpuFirst
    OBVIOUS
  <1>1. \A s \in Side, b \in UpperBounds : ~file[s][b].exists
    BY DEF Init, Absent
  <1>2. ~Ready /\ pc = "idle"
    BY DEF Init, Ready
  <1> QED  BY <1>1, <1>2 DEF Uncut, CpuFirst, Side

LEMMA UncutStep == PerfInv /\ [Next]_vars => Uncut'
PROOF
  <1> SUFFICES ASSUME PerfInv, [Next]_vars, kills' = 0
               PROVE  /\ \A s \in Side, b \in UpperBounds :
                           Used(s)' /\ file'[s][b].exists => FileGood(s, b)'
                      /\ Ready' => \A s \in Side : Used(s)' => SamplesGood(s, bound)'
    BY DEF Uncut
  <1>0. /\ 0 \notin UpperBounds
        /\ PerfTypeInv
    BY VisitedIs DEF PerfInv
  <1>1. kind' = kind /\ kills = 0
    <2>1. kind' = kind /\ (kills' = kills \/ kills' = kills + 1)
      BY DEF Next, vars, TrainLogic, TrainModel, LoadCpu, LoadDpu, Load, LoadAborts,
             NotCached, Measure, TickDies, Measured, Save, KilledWhileSaving, Restart
    <2>2. kills \in Nat
      BY <1>0, PerfBoundAssumption DEF PerfTypeInv, TypeOK
    <2> QED  BY <2>1, <2>2
  <1>2. \A s \in Side : Used(s)' <=> Used(s)
    BY <1>1 DEF Used, CPUOnly
  <1>3. /\ \A s \in Side, b \in UpperBounds :
             Used(s) /\ file[s][b].exists => FileGood(s, b)
        /\ Ready => \A s \in Side : Used(s) => SamplesGood(s, bound)
    BY <1>1 DEF PerfInv, Uncut
  \* A step that writes no file, and after which no training has returned.
  <1>4. ASSUME file' = file
        PROVE  \A s \in Side, b \in UpperBounds :
                 Used(s)' /\ file'[s][b].exists => FileGood(s, b)'
    BY <1>2, <1>3, <1>4, FileGoodKept
  <1>5. CASE TrainLogic
    BY <1>4, <1>5 DEF TrainLogic, Ready, Trainable
  <1>6. CASE TrainModel
    BY <1>4, <1>6 DEF TrainModel, Ready
  <1>7. CASE LoadCpu
    <2>1. arg \in UpperBounds /\ file' = file
      BY <1>0, <1>7 DEF LoadCpu, Load, PerfTypeInv, Training
    <2>2. ASSUME Ready'  PROVE \A s \in Side : Used(s)' => SamplesGood(s, bound)'
      <3>1. CPUOnly /\ bound' = arg
        BY <1>7, <2>2 DEF LoadCpu, Load, Ready
      <3>2. FileGood("cpu", arg)
        BY <1>3, <1>7, <2>1 DEF LoadCpu, Load, Used, Side
      <3>3. SamplesGood("cpu", arg)' /\ arg' = arg
        BY <1>0, <1>7, <2>1, <3>2, LoadGood DEF LoadCpu, Load, Side
      <3> QED  BY <1>2, <3>1, <3>3 DEF SamplesGood, Own, Used
    <2> QED  BY <1>4, <2>1, <2>2
  <1>8. CASE LoadDpu
    <2>1. /\ arg \in UpperBounds /\ file' = file /\ bound' = arg /\ ~CPUOnly
          /\ kind = "compute"
      BY <1>0, <1>8 DEF LoadDpu, Load, PerfTypeInv, Training, CPUOnly
    <2>2. FileGood("dpu", arg) /\ FileGood("cpu", arg)
      <3>1. file["dpu"][arg].exists
        BY <1>8 DEF LoadDpu, Load
      <3> QED  BY <1>3, <2>1, <3>1 DEF Used, PerfInv, CpuFirst, Side
    <2>3. SamplesGood("dpu", arg)' /\ arg' = arg
      BY <1>0, <1>8, <2>1, <2>2, LoadGood DEF LoadDpu, Load, Side
    <2>4. SamplesGood("cpu", arg)'
      BY <1>0, <1>8, <2>1, <2>2, LoadDpuKeepsCpu DEF LoadDpu, Load, PerfInv, CpuFirst
    <2>5. \A s \in Side : SamplesGood(s, bound)'
      BY <2>1, <2>3, <2>4 DEF SamplesGood, Own, Side
    <2> QED  BY <1>4, <2>1, <2>5
  <1>9. ASSUME file' = file, Gone  PROVE ~Ready'
    BY <1>9 DEF Gone, Ready
  <1>10. CASE LoadAborts
    BY <1>4, <1>9, <1>10 DEF LoadAborts
  <1>11. CASE NotCached
    BY <1>4, <1>11 DEF NotCached, Ready
  <1>12. CASE Measure
    BY <1>4, <1>12 DEF Measure, Ready
  <1>13. CASE Measured
    BY <1>4, <1>13 DEF Measured, Ready
  <1>14. CASE Save
    <2> PICK t \in Side, b \in UpperBounds : t = SideSaved /\ b = arg
      BY <1>0, <1>14 DEF Save, PerfTypeInv, Training, SideSaved, Side
    <2>1. /\ \A s \in Side, c \in UpperBounds :
               (s # t \/ c # b) => file'[s][c] = file[s][c]
          /\ dirExists /\ Used(t) => FileGood(t, b)'
          /\ ~dirExists => file' = file
          /\ bound' = b
          /\ \A s \in Side : Used(s) => SamplesGood(s, b)'
      BY <1>0, <1>14, SaveGood
    <2>2. ASSUME NEW s \in Side, NEW c \in UpperBounds, Used(s)', file'[s][c].exists
          PROVE  FileGood(s, c)'
      <3>1. CASE file'[s][c] = file[s][c]
        BY <1>2, <1>3, <2>2, <3>1, FileGoodKept
      <3>2. CASE s = t /\ c = b /\ dirExists
        BY <1>2, <2>1, <2>2, <3>2
      <3> QED  BY <2>1, <3>1, <3>2
    <2>3. Ready' => \A s \in Side : Used(s)' => SamplesGood(s, bound)'
      BY <1>2, <2>1 DEF SamplesGood, Own
    <2> QED  BY <2>2, <2>3
  <1>15. CASE KilledWhileSaving
    <2>1. FALSE
      BY <1>0, <1>1, <1>15 DEF KilledWhileSaving, PerfTypeInv, TypeOK
    <2> QED  BY <2>1
  <1>16. CASE Restart
    BY <1>4, <1>9, <1>16 DEF Restart
  <1>17. CASE UNCHANGED vars
    BY <1>2, <1>3, <1>4, <1>17
       DEF vars, Ready, Trainable, SamplesGood, Own, Near, SampleTime, Time
  <1>18. CASE TickDies
    BY <1>4, <1>9, <1>18 DEF TickDies
  <1> QED
    BY <1>5, <1>6, <1>7, <1>8, <1>10, <1>11, <1>12, <1>13, <1>14, <1>15, <1>16, <1>17,
       <1>18
       DEF Next

LEMMA CpuFirstStep == PerfInv /\ [Next]_vars => CpuFirst'
PROOF
  <1>0. [Next]_vars => kind' = kind
    BY DEF Next, vars, TrainLogic, TrainModel, LoadCpu, LoadDpu, Load, LoadAborts,
           NotCached, Measure, TickDies, Measured, Save, KilledWhileSaving, Restart
  <1> SUFFICES ASSUME PerfInv, [Next]_vars, kind = "compute", kind' = "compute"
               PROVE  CpuFirst'
    BY <1>0 DEF CpuFirst
  <1>1. PerfTypeInv /\ 0 \notin UpperBounds /\ ~CPUOnly /\ Trainable
        /\ "cpu" \in Side /\ "dpu" \in Side
    BY VisitedIs DEF PerfInv, CPUOnly, Trainable, Side
  <1>2. /\ \A b \in UpperBounds : file["dpu"][b].exists => FileGood("cpu", b)
        /\ pc \in {"measure", "saveCpu", "saveDpu"} => ~file["dpu"][arg].exists
        /\ pc = "saveDpu" /\ dirExists => FileGood("cpu", arg)
        /\ pc = "loadDpu" /\ FileGood("cpu", arg) => SamplesGood("cpu", arg)
        /\ Ready => SamplesGood("cpu", bound)
    BY DEF PerfInv, CpuFirst
  \* The first conjunct in a step that writes no file.
  <1>3. ASSUME file' = file
        PROVE  /\ \A b \in UpperBounds : file'["dpu"][b].exists => FileGood("cpu", b)'
               /\ \A b \in UpperBounds : FileGood("cpu", b)' <=> FileGood("cpu", b)
    BY <1>1, <1>2, <1>3, FileGoodKept
  <1>4. CASE TrainLogic
    BY <1>1, <1>4 DEF TrainLogic
  <1>5. CASE TrainModel
    BY <1>3, <1>5 DEF TrainModel, CpuFirst, Ready
  <1>6. CASE LoadCpu
    <2>1. /\ arg \in UpperBounds /\ file' = file /\ arg' = arg /\ pc' = "loadDpu"
      BY <1>1, <1>6 DEF LoadCpu, Load, PerfTypeInv, Training
    <2>2. ASSUME FileGood("cpu", arg)'  PROVE SamplesGood("cpu", arg)'
      <3>1. FileGood("cpu", arg)
        BY <2>1, <2>2 DEF FileGood, Whole, Own, Near, SampleTime, Time
      <3> QED  BY <1>1, <1>6, <2>1, <3>1, LoadGood DEF LoadCpu
    <2> QED  BY <1>3, <2>1, <2>2 DEF CpuFirst, Ready
  <1>7. CASE LoadDpu
    <2>1. /\ arg \in UpperBounds /\ file' = file /\ bound' = arg /\ pc' = "idle"
          /\ pc = "loadDpu" /\ file["dpu"][arg].exists
      BY <1>1, <1>7 DEF LoadDpu, Load, PerfTypeInv, Training
    <2>2. SamplesGood("cpu", arg)' /\ arg' = arg
      BY <1>1, <1>2, <1>7, <2>1, LoadDpuKeepsCpu DEF LoadDpu, Load
    <2>3. SamplesGood("cpu", bound)'
      BY <2>1, <2>2 DEF SamplesGood, Own
    <2> QED  BY <1>3, <2>1, <2>3 DEF CpuFirst
  <1>8. ASSUME Gone  PROVE ~Ready' /\ pc' = "idle"
    BY <1>8 DEF Gone, Ready
  <1>9. CASE LoadAborts
    BY <1>3, <1>8, <1>9 DEF LoadAborts, CpuFirst
  <1>10. CASE NotCached
    <2>1. arg \in UpperBounds /\ arg' = arg /\ file' = file /\ pc' = "measure"
      BY <1>1, <1>10 DEF NotCached, PerfTypeInv, Training
    <2>2. ~file["dpu"][arg].exists
      <3>1. CASE pc = "loadCpu"
        BY <1>2, <1>10, <2>1, <3>1 DEF NotCached, SideLoaded, FileGood, Whole
      <3>2. CASE pc = "loadDpu"
        BY <1>10, <3>2 DEF NotCached, SideLoaded
      <3> QED  BY <1>10, <3>1, <3>2 DEF NotCached
    <2> QED  BY <1>3, <2>1, <2>2 DEF CpuFirst, Ready
  <1>11. CASE Measure
    BY <1>2, <1>3, <1>11 DEF Measure, CpuFirst, Ready
  <1>12. CASE Measured
    BY <1>2, <1>3, <1>12 DEF Measured, CpuFirst, Ready
  <1>13. CASE Save
    <2> PICK t \in Side, b \in UpperBounds : t = SideSaved /\ b = arg
      BY <1>1, <1>13 DEF Save, PerfTypeInv, Training, SideSaved, Side
    <2>1. /\ \A s \in Side, c \in UpperBounds :
               (s # t \/ c # b) => file'[s][c] = file[s][c]
          /\ dirExists /\ Used(t) => FileGood(t, b)'
          /\ ~dirExists => file' = file
          /\ bound' = b
          /\ \A s \in Side : Used(s) => SamplesGood(s, b)'
      BY <1>1, <1>13, SaveGood
    <2>2. CASE pc = "saveCpu"
      <3>1. t = "cpu" /\ Used(t) /\ pc' = "saveDpu" /\ arg' = b /\ dirExists' = dirExists
        BY <1>13, <2>2 DEF Save, SideSaved, Used
      <3>2. \A c \in UpperBounds : file'["dpu"][c] = file["dpu"][c]
        BY <1>1, <2>1, <3>1
      <3>3. ~file'["dpu"][b].exists
        BY <1>2, <2>2, <3>2
      <3>4. \A c \in UpperBounds : file'["dpu"][c].exists => FileGood("cpu", c)'
        BY <1>1, <1>2, <2>1, <3>1, <3>2, <3>3, FileGoodKept
      <3>5. dirExists => FileGood("cpu", arg)'
        BY <2>1, <3>1 DEF FileGood, Whole, Own, Near, SampleTime, Time
      <3> QED  BY <3>1, <3>3, <3>4, <3>5 DEF CpuFirst, Ready
    <2>3. CASE pc = "saveDpu"
      <3>1. t = "dpu" /\ pc' = "idle"
        BY <1>13, <2>3 DEF Save, SideSaved
      <3>2. \A c \in UpperBounds : FileGood("cpu", c)' <=> FileGood("cpu", c)
        BY <1>1, <2>1, <3>1, FileGoodKept
      <3>3. ASSUME NEW c \in UpperBounds, file'["dpu"][c].exists
            PROVE  FileGood("cpu", c)'
        <4>1. CASE c = b /\ dirExists
          BY <1>2, <2>3, <3>2, <4>1
        <4>2. CASE c # b \/ ~dirExists
          BY <1>1, <1>2, <2>1, <3>1, <3>2, <3>3, <4>2
        <4> QED  BY <4>1, <4>2
      <3>4. SamplesGood("cpu", bound)'
        BY <1>1, <2>1 DEF Used, SamplesGood, Own
      <3> QED  BY <3>1, <3>3, <3>4 DEF CpuFirst
    <2> QED  BY <1>13, <2>2, <2>3 DEF Save
  <1>14. CASE KilledWhileSaving
    <2>1. /\ arg \in UpperBounds /\ Gone /\ dirExists
          /\ \E f : file' = [file EXCEPT ![SideSaved][arg] = f]
      BY <1>1, <1>14 DEF KilledWhileSaving, PerfTypeInv, Training
    <2>2. CASE pc = "saveCpu"
      <3>1. \A c \in UpperBounds : /\ file'["dpu"][c] = file["dpu"][c]
                                   /\ c # arg => file'["cpu"][c] = file["cpu"][c]
        BY <1>1, <2>1, <2>2 DEF SideSaved, PerfTypeInv, FilesTyped
      <3>2. \A c \in UpperBounds : file'["dpu"][c].exists => FileGood("cpu", c)'
        BY <1>1, <1>2, <2>2, <3>1, FileGoodKept
      <3> QED  BY <1>8, <2>1, <3>2 DEF CpuFirst
    <2>3. CASE pc = "saveDpu"
      <3>1. \A c \in UpperBounds : /\ file'["cpu"][c] = file["cpu"][c]
                                   /\ c # arg => file'["dpu"][c] = file["dpu"][c]
        BY <1>1, <2>1, <2>3 DEF SideSaved, PerfTypeInv, FilesTyped
      <3>2. \A c \in UpperBounds : file'["dpu"][c].exists => FileGood("cpu", c)'
        BY <1>1, <1>2, <2>1, <2>3, <3>1, FileGoodKept
      <3> QED  BY <1>8, <2>1, <3>2 DEF CpuFirst
    <2> QED  BY <1>14, <2>2, <2>3 DEF KilledWhileSaving
  <1>15. CASE Restart
    BY <1>3, <1>8, <1>15 DEF Restart, CpuFirst
  <1>16. CASE UNCHANGED vars
    BY <1>16
       DEF vars, PerfInv, CpuFirst, Ready, Trainable, FileGood, Whole, SamplesGood, Own,
           Near, SampleTime, Time
  <1>17. CASE TickDies
    BY <1>3, <1>8, <1>17 DEF TickDies, CpuFirst
  <1> QED
    BY <1>4, <1>5, <1>6, <1>7, <1>9, <1>10, <1>11, <1>12, <1>13, <1>14, <1>15, <1>16,
       <1>17
       DEF Next

\* The inductive invariant: over crashes and restarts, which of the files and of
\* the samples in memory are as the operator was measured.
THEOREM PerfInvariant == Spec => []PerfInv
PROOF
  <1>1. Init => PerfInv
    BY PerfTypeInit, PerfInit DEF PerfInv
  <1>2. PerfInv /\ [Next]_vars => PerfInv'
    BY PerfTypeStep, UncutStep, CpuFirstStep DEF PerfInv
  <1> QED  BY <1>1, <1>2, PTL DEF Spec

\* deducePerfCPU and deducePerfDPU answer a linear operator's time up to half a
\* unit of the last decimal, measured or loaded, as long as no file was cut.
THEOREM DeduceIsAccurateAlways == Spec => []DeduceIsAccurate
PROOF
  <1>1. PerfInv => DeduceIsAccurate
    <2> SUFFICES ASSUME PerfInv, Ready, kills = 0,
                        NEW s \in Side, s = "cpu" \/ ~CPUOnly,
                        NEW n \in 0..bound, Covered(s, n)
                 PROVE  Close(s, n)
      BY DEF DeduceIsAccurate
    <2>1. bound \in UpperBounds /\ samples \in [Slot -> Nat]
      BY DEF PerfInv, PerfTypeInv, TypeOK, Ready
    <2>2. SamplesGood(s, bound)
      BY DEF PerfInv, Uncut, Used
    <2> QED  BY <2>1, <2>2, GoodSamplesAnswer
  <1> QED  BY <1>1, PerfInvariant, PTL

\* An operator with a DPU side answers right for its CPU side whatever files
\* kills have cut: the DPU file is written last and a cut CPU file lacks it.
THEOREM CutCpuFileIsNotTrustedAlways == Spec => []CutCpuFileIsNotTrusted
PROOF
  <1>1. PerfInv => CutCpuFileIsNotTrusted
    <2> SUFFICES ASSUME PerfInv, Ready, kind = "compute",
                        NEW n \in 0..bound, Covered("cpu", n)
                 PROVE  Close("cpu", n)
      BY DEF CutCpuFileIsNotTrusted
    <2>1. bound \in UpperBounds /\ samples \in [Slot -> Nat] /\ "cpu" \in Side
      BY DEF PerfInv, PerfTypeInv, TypeOK, Ready, Side
    <2>2. SamplesGood("cpu", bound)
      BY DEF PerfInv, CpuFirst
    <2> QED  BY <2>1, <2>2, GoodSamplesAnswer
  <1> QED  BY <1>1, PerfInvariant, PTL

----------------------------------------------------------------------------
(* WorkSplit: the invariant. *)

InputsTyped ==
  /\ order \in Orders
  /\ ratio \in [0..(N - 1) -> Ratios]
  /\ alwaysBack \in BOOLEAN
  /\ size \in [Task -> Sizes]

CountsTyped ==
  /\ cpuCnt \in [Task -> Nat] /\ dpuCnt \in [Task -> Nat]
  /\ mapCnt \in [Task -> Nat] /\ reduceCnt \in [Task -> Nat]

\* The MAP of a task that has been parsed is that of its ratio.
Planned ==
  \A i \in 1..parsed : mapCnt[order[i]] = PageBlks(MapWork(ratio[i - 1], order[i]))

\* A task whose turn has not come moves nothing.
Unplanned ==
  \A t \in Task : ~Done(t) => mapCnt[t] = 0 /\ reduceCnt[t] = 0

Moved == [t \in Task |-> TrueTransfer(t)]

\* Each task parsed loses less than a mebibyte of the pages it moves.
Counted ==
  (\A t \in Task : TrueTransfer(t) < Wrap) =>
    /\ totalTransfer * PagesPerMiB <= SumOver(Moved, Task)
    /\ SumOver(Moved, Task) <= totalTransfer * PagesPerMiB + (PagesPerMiB - 1) * parsed

SplitInv ==
  InputsTyped /\ CountsTyped /\ SplitTypeOK /\ Planned /\ Unplanned /\ Counted

----------------------------------------------------------------------------
(* WorkSplit: arithmetic. *)

\* Rounding up to page blocks loses nothing and is monotonic.
LEMMA PageBlksIs ==
  ASSUME NEW m \in Nat
  PROVE  /\ PageBlks(m) \in Nat
         /\ PageBlks(m) * DpuNum >= m * PagesPerMiB
         /\ \A n \in Nat : n <= m => PageBlks(n) <= PageBlks(m)
PROOF
  <1>1. /\ PageBlks(m) \in Nat
        /\ PageBlks(m) * DpuNum >= m * PagesPerMiB
    BY DEF PageBlks, DpuNum, PagesPerMiB
  <1>2. ASSUME NEW n \in Nat, n <= m  PROVE PageBlks(n) <= PageBlks(m)
    BY <1>2 DEF PageBlks, DpuNum, PagesPerMiB
  <1> QED  BY <1>1, <1>2

\* A percentage of a number is no more than the number, and falls short of the
\* exact share by less than one.
LEMMA PartIs ==
  ASSUME NEW p \in 0..100, NEW n \in Nat
  PROVE  /\ Part(p, n) \in 0..n
         /\ 100 * (Part(p, n) + 1) > p * n
PROOF
  <1> DEFINE x == p * n
  <1>1. x \in Nat /\ x <= 100 * n
    OBVIOUS
  <1> HIDE DEF x
  <1>2. x \div 100 \in 0..n /\ 100 * ((x \div 100) + 1) > x
    BY <1>1
  <1> QED  BY <1>2 DEF Part, x

\* The tasks are finitely many, and a schedule lists each in its place.
LEMMA ScheduleIs ==
  ASSUME InputsTyped
  PROVE  /\ IsFiniteSet(Task)
         /\ \A i \in 1..N : i \in DOMAIN order /\ order[i] \in Task
         /\ \A i, j \in DOMAIN order : order[i] = order[j] => i = j
PROOF
  <1>1. N \in Nat /\ N > 0 /\ Task = 0..(N - 1) /\ IsSchedule(order)
    BY SplitAssumption DEF InputsTyped
  <1>2. IsFiniteSet(Task) /\ Cardinality(Task) = N
    <2>1. IsFiniteSet(0..(N - 1)) /\ Cardinality(0..(N - 1)) = N
      BY <1>1, FS_Interval
    <2> QED  BY <1>1, <2>1
  <1>3. order \in Seq(Task) /\ DOMAIN order = 1..Len(order) /\ Len(order) \in Nat
    BY <1>1 DEF IsSchedule
  <1>4. order \in Surjection(1..Len(order), Task)
    BY <1>1, <1>3 DEF IsSchedule, Surjection
  <1>5. Cardinality(1..Len(order)) = Len(order) /\ IsFiniteSet(1..Len(order))
    BY <1>3, FS_Interval
  <1>6. N <= Len(order)
    <2>1. Cardinality(Task) <= Cardinality(1..Len(order))
      BY <1>4, <1>5, FS_Surjection
    <2> QED  BY <1>2, <1>5, <2>1
  <1>7. \A i \in 1..N : i \in DOMAIN order /\ order[i] \in Task
    BY <1>1, <1>3, <1>6
  <1>8. \A i, j \in DOMAIN order : order[i] = order[j] => i = j
    BY <1>1 DEF IsSchedule
  <1> QED  BY <1>2, <1>7, <1>8

\* The bounds over the successors that parseGraph compares a ratio with.
LEMMA SuccRatioBounds ==
  ASSUME InputsTyped, NEW t \in Task
  PROVE  /\ OMax(t) \in 0..100 /\ OMin(t) \in 0..100
         /\ \A s \in Succs(t) : /\ ratio[s] \in 0..100
                                /\ OMin(t) <= ratio[s] /\ ratio[s] <= OMax(t)
PROOF
  <1> DEFINE I == Succs(t)
             f == [s \in I |-> ratio[s]]
             S == SuccRatios(t)
  <1>1. IsFiniteSet(I) /\ I \subseteq Task
    BY ScheduleIs, FS_Subset DEF Succs
  <1>2. \A s \in I : ratio[s] \in 0..100
    BY <1>1, SplitAssumption DEF InputsTyped
  <1>3. IsFiniteSet(S) /\ S \subseteq 0..100 /\ \A s \in I : ratio[s] \in S
    <2>1. S = {f[s] : s \in I} /\ DOMAIN f = I
      BY DEF SuccRatios
    <2> HIDE DEF f, I, S
    <2>2. IsFiniteSet(S)
      BY <1>1, <2>1, FiniteImage
    <2> QED  BY <1>2, <2>2 DEF S, I, SuccRatios
  <1> HIDE DEF S
  <1>4. LET U == {0} \cup S
        IN  Max(U) \in U /\ \A y \in U : Max(U) >= y
    <2>1. IsFiniteSet(S \cup {0})
      BY <1>3, FS_AddElement
    <2>2. S \cup {0} = {0} \cup S /\ {0} \cup S \in SUBSET Nat
      BY <1>3
    <2> QED  BY <2>1, <2>2, MaxIsGreatest
  <1>5. LET U == {100} \cup S
        IN  Min(U) \in U /\ \A y \in U : Min(U) <= y
    <2>1. {100} \cup S \in SUBSET Nat
      BY <1>3
    <2> QED  BY <2>1, LeastElement DEF Min
  <1>6. CASE I = {}
    BY <1>6 DEF OMax, OMin
  <1>7. CASE I # {}
    <2>1. OMax(t) = Max({0} \cup S) /\ OMin(t) = Min({100} \cup S)
      BY <1>7 DEF OMax, OMin, S
    <2> HIDE DEF I
    <2>2. OMax(t) \in {0} \cup S /\ \A y \in S : OMax(t) >= y
      BY <1>4, <2>1
    <2>3. OMin(t) \in {100} \cup S /\ \A y \in S : OMin(t) <= y
      BY <1>5, <2>1
    <2>4. OMax(t) \in 0..100 /\ OMin(t) \in 0..100
      <3>1. {0} \cup S \subseteq 0..100 /\ {100} \cup S \subseteq 0..100
        BY <1>3
      <3> QED  BY <2>2, <2>3, <3>1
    <2> QED  BY <1>2, <1>3, <2>2, <2>3, <2>4 DEF I
  <1> QED  BY <1>6, <1>7

\* No more is mapped or reduced than the task has, and what is mapped makes up
\* for what the most offloaded successor has more.
LEMMA WorkIs ==
  ASSUME InputsTyped, NEW t \in Task, NEW r \in 0..100
  PROVE  /\ size[t] \in Nat
         /\ MapWork(r, t) \in 0..size[t]
         /\ ReduceWork(r, t) \in 0..size[t]
         /\ \A s \in Succs(t) : ratio[s] > r =>
              100 * (MapWork(r, t) + 1) > (ratio[s] - r) * size[t]
PROOF
  <1>1. size[t] \in Nat /\ alwaysBack \in BOOLEAN
    BY SplitAssumption DEF InputsTyped
  <1>2. /\ OMax(t) \in 0..100 /\ OMin(t) \in 0..100
        /\ \A s \in Succs(t) : /\ ratio[s] \in 0..100
                               /\ OMin(t) <= ratio[s] /\ ratio[s] <= OMax(t)
    BY SuccRatioBounds
  <1>3. Succs(t) = {} => OMax(t) = 0 /\ OMin(t) = 0
    BY DEF OMax, OMin
  <1>4. OMin(t) <= OMax(t)
    <2>1. CASE Succs(t) = {}
      BY <1>3, <2>1
    <2>2. CASE Succs(t) # {}
      <3> PICK s \in Succs(t) : TRUE
        BY <2>2
      <3>1. ratio[s] \in 0..100 /\ OMin(t) <= ratio[s] /\ ratio[s] <= OMax(t)
        BY <1>2
      <3>2. OMin(t) \in Int /\ OMax(t) \in Int
        BY <1>2
      <3> QED  BY <3>1, <3>2
    <2> QED  BY <2>1, <2>2
  <1>5. MapWork(r, t) \in 0..size[t]
    <2>1. Part(OMax(t), size[t]) \in 0..size[t]
      BY <1>1, <1>2, PartIs
    <2>2. ASSUME r <= OMax(t)  PROVE Part(OMax(t) - r, size[t]) \in 0..size[t]
      <3>1. OMax(t) - r \in 0..100
        BY <1>2, <2>2
      <3> QED  BY <1>1, <3>1, PartIs
    <2>3. ~(r > OMax(t)) => r <= OMax(t)
      BY <1>2
    <2>4. 0 \in 0..size[t]
      BY <1>1
    <2>5. MapWork(r, t) \in {Part(OMax(t), size[t]), 0} \cup
                            {x \in {Part(OMax(t) - r, size[t])} : r <= OMax(t)}
      BY <2>3, Zenon DEF MapWork
    <2> QED  BY <2>1, <2>2, <2>4, <2>5
  <1>6. ReduceWork(r, t) \in 0..size[t]
    <2>1. ASSUME r > OMax(t) \/ (r > OMin(t) /\ r < OMax(t))
          PROVE  Part(r - OMin(t), size[t]) \in 0..size[t]
      <3>1. r - OMin(t) \in 0..100
        BY <1>2, <1>4, <2>1
      <3> QED  BY <1>1, <3>1, PartIs
    <2>2. 0 \in 0..size[t] /\ size[t] \in 0..size[t]
      BY <1>1
    <2> QED  BY <2>1, <2>2, Zenon DEF ReduceWork
  <1>7. ASSUME NEW s \in Succs(t), ratio[s] > r
        PROVE  100 * (MapWork(r, t) + 1) > (ratio[s] - r) * size[t]
    <2>1. ratio[s] \in 0..100 /\ ratio[s] <= OMax(t) /\ ~(r > OMax(t))
      BY <1>2, <1>7
    <2> DEFINE n == size[t]
               p == ratio[s] - r
    <2>2. PICK q \in 0..100 : MapWork(r, t) = Part(q, n) /\ p <= q
      <3>1. CASE alwaysBack
        <4>1. MapWork(r, t) = Part(OMax(t), n)
          BY <3>1, Zenon DEF MapWork
        <4>2. p <= OMax(t)
          <5>1. OMax(t) \in Int /\ ratio[s] \in Int /\ 0 <= r /\ ratio[s] <= OMax(t)
            BY <1>2, <2>1
          <5> HIDE DEF n
          <5> QED  BY <5>1
        <4>3. OMax(t) \in 0..100
          BY <1>2
        <4> HIDE DEF n, p
        <4> QED  BY <4>1, <4>2, <4>3
      <3>2. CASE ~alwaysBack
        <4>1. MapWork(r, t) = Part(OMax(t) - r, n)
          BY <2>1, <3>2, Zenon DEF MapWork
        <4>2. p <= OMax(t) - r /\ OMax(t) - r \in 0..100
          <5>1. OMax(t) \in Int /\ ratio[s] \in Int /\ r \in Int /\ 0 <= r /\ OMax(t) <= 100
            BY <1>2, <2>1
          <5>2. ratio[s] <= OMax(t) /\ r < ratio[s]
            BY <1>7, <2>1, <5>1
          <5> HIDE DEF n
          <5> QED  BY <5>1, <5>2
        <4> HIDE DEF n, p
        <4> QED  BY <4>1, <4>2
      <3> QED  BY <3>1, <3>2
    <2>3. n \in Nat /\ p \in Nat
      BY <1>1, <1>7, <2>1
    <2> HIDE DEF n, p
    <2>4. p * n <= q * n /\ p * n \in Nat /\ q * n \in Nat
      BY <2>2, <2>3
    <2>5. 100 * (Part(q, n) + 1) > q * n /\ Part(q, n) \in Nat
      <3>1. q \in 0..100 /\ n \in Nat
        BY <2>3
      <3>2. Part(q, n) \in 0..n /\ 100 * (Part(q, n) + 1) > q * n
        BY <3>1, PartIs, Zenon
      <3> QED  BY <3>1, <3>2
    <2>6. 100 * (Part(q, n) + 1) > p * n
      BY <2>4, <2>5
    <2> QED  BY <2>2, <2>6 DEF n, p
  <1> QED  BY <1>1, <1>5, <1>6, <1>7

\* Below 4 GiB, the mebibytes that are counted are those moved, cut to a whole.
LEMMA TransferMiBIs ==
  ASSUME NEW m \in Nat, NEW n \in Nat
  PROVE  /\ TransferMiB(m, n) \in Nat
         /\ (m + n) * DpuNum < Wrap =>
              /\ TransferMiB(m, n) * PagesPerMiB <= (m + n) * DpuNum
              /\ (m + n) * DpuNum <= TransferMiB(m, n) * PagesPerMiB + (PagesPerMiB - 1)
PROOF
  <1> DEFINE y == n * DpuNum + m * DpuNum
  <1>1. y \in Nat /\ y = (m + n) * DpuNum
    BY DEF DpuNum
  <1> HIDE DEF y
  <1>2. y % Wrap \in Nat /\ (y < Wrap => y % Wrap = y)
    BY <1>1, SMT DEF Wrap
  <1>3. TransferMiB(m, n) = (y % Wrap) \div PagesPerMiB
    BY DEF TransferMiB, y
  <1> QED  BY <1>1, <1>2, <1>3 DEF PagesPerMiB

----------------------------------------------------------------------------
(* WorkSplit: the invariant is kept. *)

LEMMA SplitInvInit == SplitInit => SplitInv
PROOF
  <1> SUFFICES ASSUME SplitInit  PROVE SplitInv
    OBVIOUS
  <1>1. InputsTyped /\ CountsTyped
    BY DEF SplitInit, InputsTyped, CountsTyped
  <1>2. \A t \in Task : PageBlks(size[t]) \in Nat
    BY <1>1, SplitAssumption, PageBlksIs DEF InputsTyped
  <1>3. SplitTypeOK
    <2>1. N \in Nat
      BY SplitAssumption
    <2> QED  BY <1>2, <2>1 DEF SplitInit, SplitTypeOK
  <1>4. Planned /\ Unplanned
    BY DEF SplitInit, Planned, Unplanned
  <1>5. Counted
    <2>1. \A t \in Task : Moved[t] = 0
      BY DEF SplitInit, Moved, TrueTransfer, DpuNum
    <2>2. SumOver(Moved, Task) = 0
      BY <1>1, <2>1, ScheduleIs, SumOfZeros
    <2> QED  BY <2>2 DEF SplitInit, Counted, PagesPerMiB
  <1> QED  BY <1>1, <1>3, <1>4, <1>5 DEF SplitInv

\* What one iteration of parseGraph does, for the task t whose turn it is.
LEMMA ParseEffect ==
  ASSUME SplitInv, Parse
  PROVE  \E t \in Task, m \in Nat, n \in Nat, c \in Nat, d \in Nat :
           /\ parsed + 1 \in 1..N /\ t = order[parsed + 1] /\ ~Done(t)
           /\ m = PageBlks(MapWork(ratio[parsed], t))
           /\ m <= PageBlks(size[t]) /\ n <= PageBlks(size[t])
           /\ c <= PageBlks(size[t]) /\ d <= PageBlks(size[t])
           /\ UNCHANGED inputVars /\ parsed' = parsed + 1
           /\ cpuCnt' = [cpuCnt EXCEPT ![t] = c]
           /\ dpuCnt' = [dpuCnt EXCEPT ![t] = d]
           /\ mapCnt' = [mapCnt EXCEPT ![t] = m]
           /\ reduceCnt' = [reduceCnt EXCEPT ![t] = n]
           /\ totalTransfer' = totalTransfer + (IF t \in Logic THEN 0 ELSE TransferMiB(m, n))
PROOF
  <1> USE DEF SplitInv
  <1>1. parsed + 1 \in 1..N /\ parsed \in 0..(N - 1) /\ N \in Nat
    BY SplitAssumption DEF Parse, SplitTypeOK
  <1>2. PICK t \in Task : t = order[parsed + 1]
    BY <1>1, ScheduleIs
  <1>3. ratio[parsed] \in 0..100
    BY <1>1, SplitAssumption DEF InputsTyped
  <1>4. ~Done(t)
    <2> SUFFICES ASSUME NEW j \in 1..parsed, order[j] = t  PROVE FALSE
      BY DEF Done
    <2>1. j \in 1..N /\ j # parsed + 1
      BY <1>1
    <2> QED  BY <1>1, <1>2, <2>1, ScheduleIs
  <1> DEFINE r == ratio[parsed]
             total == PageBlks(size[t])
             m == PageBlks(MapWork(r, t))
             n == PageBlks(ReduceWork(r, t))
             c == Part(100 - r, total)
             d == total - c
  <1>5. size[t] \in Nat /\ MapWork(r, t) \in 0..size[t] /\ ReduceWork(r, t) \in 0..size[t]
    BY <1>3, WorkIs
  <1>6. total \in Nat /\ m \in Nat /\ m <= total /\ n \in Nat /\ n <= total
    BY <1>5, PageBlksIs
  <1>7. c \in Nat /\ c <= total /\ d \in Nat /\ d <= total
    <2>1. 100 - r \in 0..100
      BY <1>3
    <2> HIDE DEF total
    <2>2. c \in 0..total
      BY <1>6, <2>1, PartIs
    <2> QED  BY <1>6, <2>2
  <1>8. /\ UNCHANGED inputVars /\ parsed' = parsed + 1
        /\ cpuCnt' = [cpuCnt EXCEPT ![t] = c]
        /\ dpuCnt' = [dpuCnt EXCEPT ![t] = d]
        /\ mapCnt' = [mapCnt EXCEPT ![t] = m]
        /\ reduceCnt' = [reduceCnt EXCEPT ![t] = n]
        /\ totalTransfer' = totalTransfer + (IF t \in Logic THEN 0 ELSE TransferMiB(m, n))
    BY <1>2 DEF Parse, OwnRatio
  <1>9. m = PageBlks(MapWork(ratio[parsed], t)) /\ total = PageBlks(size[t])
    OBVIOUS
  <1> HIDE DEF m, n, c, d, total
  <1> QED  BY <1>1, <1>2, <1>4, <1>6, <1>7, <1>8, <1>9

LEMMA SplitInvStep == SplitInv /\ [SplitNext]_splitVars => SplitInv'
PROOF
  <1> SUFFICES ASSUME SplitInv, [SplitNext]_splitVars  PROVE SplitInv'
    OBVIOUS
  <1>1. CASE UNCHANGED splitVars
    <2>1. /\ order' = order /\ ratio' = ratio /\ alwaysBack' = alwaysBack /\ size' = size
          /\ parsed' = parsed /\ cpuCnt' = cpuCnt /\ dpuCnt' = dpuCnt
          /\ mapCnt' = mapCnt /\ reduceCnt' = reduceCnt /\ totalTransfer' = totalTransfer
      BY <1>1 DEF splitVars, inputVars, countVars
    <2>2. InputsTyped' /\ CountsTyped' /\ SplitTypeOK'
      BY <2>1 DEF SplitInv, InputsTyped, CountsTyped, SplitTypeOK
    <2>3. Planned'
      BY <2>1 DEF SplitInv, Planned, MapWork, OMax, SuccRatios
    <2>4. Unplanned' /\ Counted'
      BY <2>1 DEF SplitInv, Unplanned, Done, Counted, Moved, TrueTransfer
    <2> QED  BY <2>2, <2>3, <2>4 DEF SplitInv
  <1>2. CASE Parse
    <2> PICK t \in Task, m \in Nat, n \in Nat, c \in Nat, d \in Nat :
           /\ parsed + 1 \in 1..N /\ t = order[parsed + 1] /\ ~Done(t)
           /\ m = PageBlks(MapWork(ratio[parsed], t))
           /\ m <= PageBlks(size[t]) /\ n <= PageBlks(size[t])
           /\ c <= PageBlks(size[t]) /\ d <= PageBlks(size[t])
           /\ UNCHANGED inputVars /\ parsed' = parsed + 1
           /\ cpuCnt' = [cpuCnt EXCEPT ![t] = c]
           /\ dpuCnt' = [dpuCnt EXCEPT ![t] = d]
           /\ mapCnt' = [mapCnt EXCEPT ![t] = m]
           /\ reduceCnt' = [reduceCnt EXCEPT ![t] = n]
           /\ totalTransfer' = totalTransfer + (IF t \in Logic THEN 0 ELSE TransferMiB(m, n))
      BY <1>2, ParseEffect
    <2>1. InputsTyped /\ CountsTyped /\ SplitTypeOK /\ Planned /\ Unplanned /\ Counted
      BY DEF SplitInv
    <2>2. /\ order' = order /\ ratio' = ratio /\ alwaysBack' = alwaysBack /\ size' = size
          /\ parsed \in Nat /\ totalTransfer \in Nat /\ N \in Nat
      BY <2>1, SplitAssumption DEF inputVars, SplitTypeOK
    <2>3. InputsTyped' /\ CountsTyped'
      BY <2>1, <2>2 DEF InputsTyped, CountsTyped
    <2>4. \A x \in Task :
            /\ mapCnt'[x] = IF x = t THEN m ELSE mapCnt[x]
            /\ reduceCnt'[x] = IF x = t THEN n ELSE reduceCnt[x]
            /\ cpuCnt'[x] = IF x = t THEN c ELSE cpuCnt[x]
            /\ dpuCnt'[x] = IF x = t THEN d ELSE dpuCnt[x]
      BY <2>1 DEF CountsTyped
    <2>5. SplitTypeOK'
      <3>1. PageBlks(size[t]) \in Nat
        BY <2>1, SplitAssumption, PageBlksIs DEF InputsTyped
      <3>2. totalTransfer' \in Nat
        <4> DEFINE k == IF t \in Logic THEN 0 ELSE TransferMiB(m, n)
        <4>1. totalTransfer' = totalTransfer + k
          OBVIOUS
        <4>2. TransferMiB(m, n) \in Nat
          BY TransferMiBIs
        <4>3. k \in Nat
          BY <4>2
        <4> HIDE DEF k
        <4> QED  BY <2>2, <4>1, <4>3
      <3>3. parsed' \in 0..N
        BY <2>2
      <3> QED  BY <2>1, <2>2, <2>4, <3>1, <3>2, <3>3 DEF SplitTypeOK
    <2>6. \A x \in Task : Done(x)' <=> Done(x) \/ x = t
      BY <2>2 DEF Done
    <2>7. Planned'
      <3>0. \A q, u : MapWork(q, u)' = MapWork(q, u)
        BY <2>2 DEF MapWork, OMax, SuccRatios
      <3> SUFFICES ASSUME NEW i \in 1..(parsed + 1)
                   PROVE  mapCnt'[order[i]] = PageBlks(MapWork(ratio[i - 1], order[i]))
        BY <2>2, <3>0 DEF Planned
      <3>1. CASE i = parsed + 1
        BY <2>2, <2>4, <3>1
      <3>2. CASE i # parsed + 1
        <4>1. i \in 1..parsed /\ i \in 1..N
          BY <2>2, <3>2
        <4>2. order[i] \in Task /\ Done(order[i]) /\ order[i] # t
          BY <2>1, <4>1, ScheduleIs DEF Done
        <4> QED  BY <2>1, <2>4, <4>1, <4>2 DEF Planned
      <3> QED  BY <3>1, <3>2
    <2>8. Unplanned'
      BY <2>1, <2>4, <2>6 DEF Unplanned
    <2>9. /\ \A x \in Task : x # t => TrueTransfer(x)' = TrueTransfer(x)
          /\ TrueTransfer(t) = 0
          /\ TrueTransfer(t)' = IF t \in Logic THEN 0 ELSE (m + n) * DpuNum
          /\ \A x \in Task : TrueTransfer(x) \in Nat
      <3>1. \A x \in Task : mapCnt[x] \in Nat /\ reduceCnt[x] \in Nat
        BY <2>1 DEF CountsTyped
      <3>2. mapCnt[t] = 0 /\ reduceCnt[t] = 0
        BY <2>1 DEF Unplanned
      <3> QED  BY <2>4, <3>1, <3>2 DEF TrueTransfer, DpuNum
    <2> DEFINE x == IF t \in Logic THEN 0 ELSE TransferMiB(m, n)
               y == IF t \in Logic THEN 0 ELSE (m + n) * DpuNum
    <2>10. /\ x \in Nat /\ y \in Nat
           /\ y < Wrap => x * PagesPerMiB <= y /\ y <= x * PagesPerMiB + (PagesPerMiB - 1)
      <3>1. CASE t \in Logic
        BY <3>1, SMT DEF PagesPerMiB
      <3>2. CASE t \notin Logic
        <4>1. x = TransferMiB(m, n) /\ y = (m + n) * DpuNum
          BY <3>2
        <4>2. y \in Nat
          BY <4>1 DEF DpuNum
        <4> HIDE DEF x, y
        <4> QED  BY <4>1, <4>2, TransferMiBIs
      <3> QED  BY <3>1, <3>2
    <2> HIDE DEF x, y
    <2>11. SumOver(Moved', Task) = SumOver(Moved, Task) + y /\ SumOver(Moved, Task) \in Int
      <3>1. /\ \A z \in Task : Moved[z] \in Int /\ Moved'[z] \in Int
            /\ \A z \in Task : z # t => Moved'[z] = Moved[z]
            /\ Moved[t] = 0 /\ Moved'[t] = y
        BY <2>9, <2>10 DEF Moved, y
      <3>2. IsFiniteSet(Task)
        BY <2>1, ScheduleIs
      <3>3. SumOver(Moved', Task) = SumOver(Moved, Task) - Moved[t] + Moved'[t]
        BY <3>1, <3>2, SumChange
      <3>4. SumOver(Moved, Task) \in Int
        BY <3>1, <3>2, SumTyped
      <3> QED  BY <2>10, <3>1, <3>3, <3>4
    <2>12. Counted'
      <3> SUFFICES ASSUME \A z \in Task : TrueTransfer(z)' < Wrap
                   PROVE  /\ totalTransfer' * PagesPerMiB <= SumOver(Moved', Task)
                          /\ SumOver(Moved', Task) <=
                               totalTransfer' * PagesPerMiB + (PagesPerMiB - 1) * parsed'
        BY DEF Counted
      <3>1. \A z \in Task : TrueTransfer(z) < Wrap
        BY <2>9, SMT DEF Wrap
      <3>2. /\ totalTransfer * PagesPerMiB <= SumOver(Moved, Task)
            /\ SumOver(Moved, Task) <= totalTransfer * PagesPerMiB + (PagesPerMiB - 1) * parsed
        BY <2>1, <3>1 DEF Counted
      <3>3. y < Wrap
        BY <2>9 DEF y
      <3>4. totalTransfer' = totalTransfer + x /\ parsed' = parsed + 1
        BY DEF x
      <3> QED  BY <2>2, <2>10, <2>11, <3>2, <3>3, <3>4 DEF PagesPerMiB
    <2> QED  BY <2>3, <2>5, <2>7, <2>8, <2>12 DEF SplitInv
  <1> QED  BY <1>1, <1>2 DEF SplitNext, Parsed

\* The inductive invariant of parseGraph.
THEOREM SplitInvariant == SplitSpec => []SplitInv
  BY SplitInvInit, SplitInvStep, PTL DEF SplitSpec

\* The counts of page blocks are natural numbers no greater than the task's.
THEOREM SplitTypeCorrect == SplitSpec => []SplitTypeOK
PROOF
  <1>1. SplitInv => SplitTypeOK
    BY DEF SplitInv
  <1> QED  BY <1>1, SplitInvariant, PTL

\* For a schedule in the order of the tasks' numbers, what a task's share on the
\* DPUs and its MAP hold together is enough for its most offloaded successor.
THEOREM MapCoversSuccessorsAlways == SplitSpec => []MapCoversSuccessors
PROOF
  <1>1. SplitInv => MapCoversSuccessors
    <2> SUFFICES ASSUME SplitInv, InOrder, NEW i \in 1..parsed, NEW t \in Task, order[i] = t,
                        NEW s \in Succs(t), ratio[s] > ratio[t]
                 PROVE  Holds(mapCnt[t], ratio[s] - ratio[t], t)
      BY DEF MapCoversSuccessors, Done
    <2>1. InputsTyped /\ Planned /\ parsed \in 0..N /\ N \in Nat
      BY SplitAssumption DEF SplitInv, SplitTypeOK
    <2>2. i - 1 = t
      BY <2>1 DEF InOrder
    <2>3. mapCnt[t] = PageBlks(MapWork(ratio[t], t))
      BY <2>1, <2>2 DEF Planned
    <2>4. ratio[t] \in 0..100 /\ ratio[s] \in 0..100
      BY <2>1, SplitAssumption DEF InputsTyped, Succs
    <2> DEFINE w == MapWork(ratio[t], t)
               p == ratio[s] - ratio[t]
               n == size[t]
    <2>5. n \in Nat /\ w \in Nat /\ p \in Nat /\ 100 * (w + 1) > p * n
      <3>1. n \in Nat /\ w \in 0..n /\ 100 * (w + 1) > p * n
        BY <2>1, <2>4, WorkIs, Zenon
      <3>2. p \in Nat
        <4>1. ratio[s] \in Int /\ ratio[t] \in Int /\ ratio[t] < ratio[s]
          BY <2>4
        <4> HIDE DEF n, w
        <4> QED  BY <4>1
      <3> HIDE DEF n, w, p
      <3> QED  BY <3>1, <3>2
    <2> HIDE DEF w, p, n
    <2>6. PageBlks(w) \in Nat /\ PageBlks(w) * DpuNum >= w * PagesPerMiB
      BY <2>5, PageBlksIs
    <2>7. p * n \in Nat
      BY <2>5
    <2>8. 100 * (PageBlks(w) * DpuNum + PagesPerMiB) > (p * n) * PagesPerMiB
      BY <2>5, <2>6, <2>7 DEF DpuNum, PagesPerMiB
    <2>9. p * n * PagesPerMiB = (p * n) * PagesPerMiB
      OBVIOUS
    <2> QED  BY <2>3, <2>8, <2>9 DEF Holds, w, p, n
  <1> QED  BY <1>1, SplitInvariant, PTL

\* Up to 207 page blocks memPlan's byte offsets do not wrap: the operands of the
\* CPU part of a task are apart.
THEOREM OperandsApartAlways == SplitSpec => []OperandsApart
PROOF
  <1>1. SplitInv => OperandsApart
    <2> SUFFICES ASSUME NEW c \in Nat, c <= 207
                 PROVE  LET n == c * DpuNum IN
                        /\ Apart(Src1At(c), Src2At(c), n)
                        /\ Apart(Src1At(c), DstAt(c), n)
                        /\ Apart(Src2At(c), DstAt(c), n)
      BY DEF OperandsApart, SplitInv, CountsTyped
    <2> DEFINE n == c * DpuNum
    <2>1. n \in Nat /\ n + n < Wrap /\ 2 * c * DpuNum = n + n
      BY SMT DEF DpuNum, Wrap
    <2>2. Src2At(c) = n % Wrap /\ DstAt(c) = (n + n) % Wrap
      BY <2>1 DEF Src2At, DstAt
    <2> HIDE DEF n
    <2>3. n % Wrap = n /\ (n + n) % Wrap = n + n
      BY <2>1, SMT DEF Wrap
    <2> QED  BY <2>1, <2>2, <2>3 DEF Apart, Src1At, n
  <1> QED  BY <1>1, SplitInvariant, PTL

\* The amount parseGraph reports is the amount moved, but for less than one
\* mebibyte per task, as long as no task moves 4 GiB or more.
THEOREM TransferIsCountedAlways == SplitSpec => []TransferIsCounted
PROOF
  <1>1. SplitInv => TransferIsCounted
    <2> SUFFICES ASSUME SplitInv, \A t \in Task : TrueTransfer(t) < Wrap
                 PROVE  /\ totalTransfer * PagesPerMiB <= PagesMoved
                        /\ PagesMoved < (totalTransfer + N) * PagesPerMiB
      BY DEF TransferIsCounted
    <2>1. /\ IsFiniteSet(Task) /\ totalTransfer \in Nat /\ parsed \in 0..N
          /\ N \in Nat /\ N > 0
      BY ScheduleIs, SplitAssumption DEF SplitInv, SplitTypeOK
    <2>2. PagesMoved = SumOver(Moved, Task)
      <3> DEFINE Table(g) ==
            g = [s \in SUBSET Task |->
                   IF s = {} THEN 0 ELSE TrueTransfer(First(s)) + g[s \ {First(s)}]]
      <3>1. PagesMoved = (CHOOSE g : Table(g))[Task]
        BY DEF PagesMoved, MapThenSumSet, MapThenFoldSet, First
      <3>2. ASSUME NEW s \in SUBSET Task, s # {}
            PROVE  TrueTransfer(First(s)) = Moved[First(s)]
        <4>1. First(s) \in Task
          BY <3>2 DEF First
        <4> QED  BY <4>1 DEF Moved
      <3>3. \A g : Table(g) <=> SumTable(Moved, Task, g)
        BY <3>2 DEF SumTable
      <3> HIDE DEF Table
      <3> QED  BY <3>1, <3>3 DEF SumOver
    <2>3. SumOver(Moved, Task) \in Int
      <3>1. \A t \in Task : Moved[t] \in Int
        BY DEF Moved, TrueTransfer, DpuNum, SplitInv, CountsTyped
      <3> QED  BY <2>1, <3>1, SumTyped
    <2>4. /\ totalTransfer * PagesPerMiB <= SumOver(Moved, Task)
          /\ SumOver(Moved, Task) <= totalTransfer * PagesPerMiB + (PagesPerMiB - 1) * parsed
      BY DEF SplitInv, Counted
    <2> QED  BY <2>1, <2>2, <2>3, <2>4 DEF PagesPerMiB
  <1> QED  BY <1>1, SplitInvariant, PTL
=============================================================================
