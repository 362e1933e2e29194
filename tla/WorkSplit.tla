----------------------------- MODULE WorkSplit -----------------------------
(***************************************************************************)
(* How a workload is split: HeteroComputePool::parseGraph, memPlan and the *)
(* transfer bookkeeping of genXferTask.                                    *)
(*                                                                         *)
(* For each task, in the order of the schedule, parseGraph turns the       *)
(* offload ratio into page blocks for the CPU and for the DPUs, compares   *)
(* the ratio with those of the successors to find how much to MAP to the   *)
(* DPUs and to REDUCE from them, and lays the operands out in memory.      *)
(*                                                                         *)
(* Ratios are percentages and their arithmetic is exact, where the code's  *)
(* floats may round across a page block.  Sizes are counted in DPU pages   *)
(* of 4 KiB, so that 2^32 bytes, where uint32_t wraps, are 2^20 pages.     *)
(***************************************************************************)
EXTENDS TaskGraph, FiniteSetsExt

CONSTANTS
  N,            \* the tasks are 0..N-1
  Logic,        \* the tasks tagged LOGIC_START or LOGIC_END
  Orders,       \* the orders of tasks parseGraph may be given
  Ratios,       \* the offload ratios that occur, in percent
  Sizes         \* the values of inputSize_MiB that occur

DpuNum == 2530                 \* pages in a page block
PagesPerMiB == 256
Wrap == 1048576                \* 2^20 pages: what a uint32_t byte count wraps at

ASSUME SplitAssumption ==
  /\ N \in Nat /\ N > 0
  /\ Task = 0..(N - 1)
  /\ Logic \subseteq Task
  /\ \A o \in Orders : IsSchedule(o)
  /\ Ratios \subseteq 0..100
  /\ Sizes \subseteq Nat

VARIABLES
  order,          \* sched.order
  ratio,          \* sched.offloadRatio, indexed from 0
  alwaysBack,     \* sched.isAlwaysWrittingBack
  size,           \* size[t]: inputSize_MiB
  parsed,         \* how many positions of the order have been parsed
  cpuCnt,         \* cpuPageBlkCnt by task, and so on
  dpuCnt,
  mapCnt,
  reduceCnt,
  totalTransfer   \* totalTransfer_mb

inputVars == <<order, ratio, alwaysBack, size>>
countVars == <<cpuCnt, dpuCnt, mapCnt, reduceCnt>>
splitVars == <<inputVars, parsed, countVars, totalTransfer>>

----------------------------------------------------------------------------
(* Helpers. *)

\* getNearestPageBlkCnt, and the same rounding of inputSize_MiB in parseGraph.
PageBlks(mib) == (mib * PagesPerMiB + DpuNum - 1) \div DpuNum

\* A float percentage of a whole number, converted to an unsigned integer.
Part(percent, n) == (percent * n) \div 100

\* The ratio parseGraph takes for the task at position i (from 0)...
OwnRatio(i) == ratio[i]

\* ...and the ratios it compares it with.
SuccRatios(t) == {ratio[s] : s \in Succs(t)}

OMax(t) == IF Succs(t) = {} THEN 0 ELSE Max({0} \cup SuccRatios(t))
OMin(t) == IF Succs(t) = {} THEN 0 ELSE Min({100} \cup SuccRatios(t))

\* Mutants: the MAP of the middle branch starts from the minimum; the shares
\* are added up.
MapWorkFromMin(r, t) ==
  IF alwaysBack THEN Part(OMax(t), size[t])
  ELSE IF r > OMin(t) /\ r < OMax(t) THEN Part(r - OMin(t), size[t])
  ELSE IF r > OMax(t) THEN 0
  ELSE Part(OMax(t) - r, size[t])

\* mapWork_MiB of a task with ratio r.
MapWork(r, t) ==
  IF alwaysBack THEN Part(OMax(t), size[t])
  ELSE IF r > OMax(t) THEN 0
  ELSE Part(OMax(t) - r, size[t])

\* reduceWork_MiB: the last of the three branches reduces nothing, and is also
\* taken when r is the maximum.
ReduceWork(r, t) ==
  IF alwaysBack THEN IF r = 0 THEN 0 ELSE size[t]
  ELSE IF r > OMax(t) \/ (r > OMin(t) /\ r < OMax(t))
       THEN Part(r - OMin(t), size[t])
       ELSE 0

\* Mutant: the MAP is left out of the sum.
TransferMiBReduceOnly(map, reduce) == ((reduce * DpuNum) % Wrap) \div PagesPerMiB

\* The uint32_t sum of two products in bytes, divided by 1<<20.
TransferMiB(map, reduce) ==
  ((reduce * DpuNum + map * DpuNum) % Wrap) \div PagesPerMiB

\* memPlan: where the operands of the CPU part of a task begin, in pages from
\* the base of the pool; the byte offsets are uint32_t products.
Src1At(cnt) == 0
Src2At(cnt) == (cnt * DpuNum) % Wrap

\* Mutant: the result begins one page block after the second source.
DstAtNextBlock(cnt) == (cnt * DpuNum + DpuNum) % Wrap

DstAt(cnt) == (2 * cnt * DpuNum) % Wrap

----------------------------------------------------------------------------
(* parseGraph. *)

SplitInit ==
  /\ order \in Orders
  /\ ratio \in [0..(N - 1) -> Ratios]
  /\ alwaysBack \in BOOLEAN
  /\ size \in [Task -> Sizes]
  /\ parsed = 0
  /\ cpuCnt = [t \in Task |-> 0]
  /\ dpuCnt = [t \in Task |-> 0]
  /\ mapCnt = [t \in Task |-> 0]
  /\ reduceCnt = [t \in Task |-> 0]
  /\ totalTransfer = 0

\* One iteration of the loop over the order.
Parse ==
  LET t == order[parsed + 1]
      r == OwnRatio(parsed)
      total == PageBlks(size[t])
      cpu == Part(100 - r, total)
      map == PageBlks(MapWork(r, t))
      reduce == PageBlks(ReduceWork(r, t))
  IN
  /\ parsed < N
  /\ parsed' = parsed + 1
  /\ cpuCnt' = [cpuCnt EXCEPT ![t] = cpu]
  /\ dpuCnt' = [dpuCnt EXCEPT ![t] = total - cpu]
  /\ mapCnt' = [mapCnt EXCEPT ![t] = map]
  /\ reduceCnt' = [reduceCnt EXCEPT ![t] = reduce]
  /\ totalTransfer' =
       totalTransfer + (IF t \in Logic THEN 0 ELSE TransferMiB(map, reduce))
  /\ UNCHANGED inputVars

\* The graph has been parsed.
Parsed ==
  /\ parsed = N
  /\ UNCHANGED splitVars

SplitNext == Parse \/ Parsed

SplitSpec == SplitInit /\ [][SplitNext]_splitVars

----------------------------------------------------------------------------
(* Vocabulary of the properties. *)

Done(t) == \E i \in 1..parsed : order[i] = t

\* The schedule lists the tasks in the order of their numbers: only then is
\* the ratio at a task's position the ratio at its number.
InOrder == \A i \in 1..N : order[i] = i - 1

\* c page blocks hold p percent of t's size, but for what a cut to whole
\* mebibytes loses.
Holds(c, p, t) == 100 * (c * DpuNum + PagesPerMiB) > p * size[t] * PagesPerMiB

\* The extents [a, a + n) and [b, b + n) have no page in common.
Apart(a, b, n) == a + n <= b \/ b + n <= a

TrueTransfer(t) == IF t \in Logic THEN 0 ELSE (mapCnt[t] + reduceCnt[t]) * DpuNum

PagesMoved == MapThenSumSet(TrueTransfer, Task)

----------------------------------------------------------------------------
(* Properties. *)

\* The counts are natural numbers a uint32_t can hold.
SplitTypeOK ==
  /\ parsed \in 0..N
  /\ \A t \in Task : /\ cpuCnt[t] \in 0..PageBlks(size[t])
                     /\ dpuCnt[t] \in 0..PageBlks(size[t])
                     /\ mapCnt[t] \in 0..PageBlks(size[t])
                     /\ reduceCnt[t] \in 0..PageBlks(size[t])
  /\ totalTransfer \in Nat

\* What the DPUs have computed and what MAP sends them together are at least
\* the share of the most offloaded successor, whichever branch planned it.
MapCoversSuccessors ==
  InOrder => \A t \in Task : Done(t) =>
    \A s \in Succs(t) :
      ratio[s] > ratio[t] => Holds(mapCnt[t], ratio[s] - ratio[t], t)

\* Up to 207 page blocks the operands of the CPU part lie apart; from 208 on
\* the offset of the result wraps around and lands on a source.
OperandsApart ==
  \A t \in Task : cpuCnt[t] <= 207 =>
    LET n == cpuCnt[t] * DpuNum IN
    /\ Apart(Src1At(cpuCnt[t]), Src2At(cpuCnt[t]), n)
    /\ Apart(Src1At(cpuCnt[t]), DstAt(cpuCnt[t]), n)
    /\ Apart(Src2At(cpuCnt[t]), DstAt(cpuCnt[t]), n)

\* As long as no task moves 4 GiB or more, the reported amount falls short of
\* the amount moved by less than one mebibyte per task.
TransferIsCounted ==
  (\A t \in Task : TrueTransfer(t) < Wrap) =>
    /\ totalTransfer * PagesPerMiB <= PagesMoved
    /\ PagesMoved < (totalTransfer + N) * PagesPerMiB
===========================================================================
