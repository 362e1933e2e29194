------------------------------ MODULE Kernels ------------------------------
(***************************************************************************)
(* The operators on both sides: the loops on the CPU (src/Operator), the   *)
(* programs of the DPUs' tasklets (src/Operator/dpu), and MAP and REDUCE,  *)
(* which scatter the pages of an array over the DPUs and gather them.      *)
(*                                                                         *)
(* The model follows tests/operatorTest.cpp: map both sources, run the     *)
(* operator on the DPUs, reduce its result, run the operator on the CPU,   *)
(* and compare.  An array is a function from chunks (DPU_DMA_BFFR_BYTE     *)
(* bytes, what a tasklet handles at a time) to items.  Items are natural   *)
(* numbers without overflow; Junk is whatever uninitialized memory holds.  *)
(* The chunks of the parallel loops on the CPU do not depend on one        *)
(* another, and the loops are one step.                                    *)
(***************************************************************************)
EXTENDS Integers, FiniteSets, Functions

CONSTANTS
  Ops,          \* the operators to run
  BlockPages,   \* the pages of a block: 2530, hard-coded
  WordPages,    \* the pages that 2^32 bytes make up: 2^20
  Allocations,  \* how many DPUs dpu_alloc may have found
  Tasklet,      \* NR_TASKLETS tasklets: 0 .. 11
  ChunksPerPage,
  ItemNum,      \* the items of a chunk
  BlkCounts,    \* the page block counts to run with
  Src1, Src2,   \* the arrays, functions from chunks to items
  Tenths,       \* parameters of operators in tenths, from their headers
  KernelSize,
  Junk

Items == 0..(ItemNum - 1)

\* The chunks of an array of n page blocks, and of a DPU's part of it.
HostChunks(n) == 0..(n * BlockPages * ChunksPerPage - 1)
DpuChunks(n) == 0..(n * ChunksPerPage - 1)

ASSUME KernelAssumption ==
  /\ Ops \subseteq {"MAC", "LOOKUP", "EUDIST", "FILTER", "ELEW_ADD", "ELEW_PROD",
                    "AFFINE", "CONV_1D"}
  /\ WordPages \in Nat /\ BlockPages <= WordPages
  /\ BlockPages \in Nat \ {0} /\ ChunksPerPage \in Nat \ {0} /\ ItemNum \in Nat \ {0}
  /\ Allocations \subseteq 1..BlockPages
  /\ IsFiniteSet(Tasklet) /\ Tasklet # {} /\ Tasklet = 0..(Cardinality(Tasklet) - 1)
  /\ BlkCounts \subseteq Nat \ {0}
  /\ \A h \in UNION {HostChunks(n) : n \in BlkCounts} :
       Src1[h] \in [Items -> Nat] /\ Src2[h] \in [Items -> Nat]
  /\ Tenths \in [weight : Nat, target : Nat, kernel : [0..(KernelSize - 1) -> Nat]]
  /\ KernelSize \in Nat \ {0}
  /\ Junk \notin Nat

VARIABLES
  op, blks, allocated,
  pc,           \* the test program: the call that comes next
  buffer,       \* buffer[d]: the MRAM of DPU d, chunk by chunk
  args,         \* the arguments broadcast to the DPUs
  place, chunk, \* where each tasklet is, and the chunk it handles
  cache,        \* its buffer for results in WRAM
  dpuDst,       \* the host array that REDUCE fills
  cpuDst        \* the host array that execCPU fills

input == <<op, blks, allocated>>
tasklets == <<place, chunk, cache>>
testVars == <<input, pc, buffer, args, tasklets, dpuDst, cpuDst>>

----------------------------------------------------------------------------
(* Helpers. *)

Dpus == 0..(allocated - 1)

Thread == Dpus \X Tasklet

Sum(f) == FoldFunction(+, 0, f)

\* Conversion of a float parameter to int.
Truncated(tenths) == tenths \div 10

\* What the tasklets leave in their result buffer for a chunk of each source;
\* the operators that answer with one number set the first item only.
SetFirst(old, x) == [old EXCEPT ![0] = x]

SumOfProducts(a, b) == Sum([i \in Items |-> a[i] * b[i]])
SquaredDistance(a, b) == Sum([i \in Items |-> (b[i] - a[i]) * (b[i] - a[i])])
CountOf(a, target) == Cardinality({i \in Items : a[i] = target})

\* A padded convolution of one chunk: indexes outside of it add nothing.
Convolved(a, kernel) ==
  LET padding == (KernelSize - 1) \div 2
  IN  [i \in Items |->
        Sum([j \in {k \in DOMAIN kernel : i - padding + k \in Items} |->
              a[i - padding + j] * Truncated(kernel[j])])]

\* The mean of the items from i on, divided once more, among those in reach.
Filtered(a, i) ==
  Sum([j \in {k \in 0..(KernelSize - 1) : i + k \in DOMAIN a} |->
        a[i + j] \div KernelSize]) \div KernelSize

----------------------------------------------------------------------------
(* execCPU: the value of chunk h of dst, which held Junk. *)

\* The chunks the loops get to: pageBlkCnt * pageBlkSize has 32 bits.
LoopChunks == 0..(((blks * BlockPages) % WordPages) * ChunksPerPage - 1)

JunkChunk == [i \in Items |-> Junk]

MacCPU(h) == SetFirst(JunkChunk, SumOfProducts(Src1[h], Src2[h]))

LookupCPU(h) == SetFirst(JunkChunk, CountOf(Src1[h], Truncated(Tenths.target)))

EudistCPU(h) == SetFirst(JunkChunk, SquaredDistance(Src1[h], Src2[h]))

ElewAddCPU(h) == [i \in Items |-> Src1[h][i] + Src2[h][i]]

ElewProdCPU(h) == [i \in Items |-> Src1[h][i] * Src2[h][i]]

AffineCPU(h) == [i \in Items |-> Src1[h][i] * Truncated(Tenths.weight) + Src2[h][i]]

ConvCPU(h) == Convolved(Src1[h], Tenths.kernel)

\* The bound is the loop's, though indexes count from the chunk: the window
\* reads on into the next chunk, and past the last one of the array.
FilterCPU(h) ==
  LET reach(i)  == {k \in i..(i + KernelSize - 1) : k < Cardinality(LoopChunks) * ItemNum}
      Window(i) == [k \in reach(i) |-> Src1[h + k \div ItemNum][k % ItemNum]]
  IN  [i \in Items |->
        IF \A k \in reach(i) : h + k \div ItemNum \in HostChunks(blks)
        THEN Filtered(Window(i), i) ELSE Junk]

CpuChunk(h) ==
  CASE op = "MAC" -> MacCPU(h)
    [] op = "LOOKUP" -> LookupCPU(h)
    [] op = "EUDIST" -> EudistCPU(h)
    [] op = "FILTER" -> FilterCPU(h)
    [] op = "ELEW_ADD" -> ElewAddCPU(h)
    [] op = "ELEW_PROD" -> ElewProdCPU(h)
    [] op = "AFFINE" -> AffineCPU(h)
    [] op = "CONV_1D" -> ConvCPU(h)

----------------------------------------------------------------------------
(* execDPU: the arguments that each operator broadcasts. *)

\* DPU_TCB: one operand behind the other, from page 0 on.
DpuTCB == [src1PageIdx |-> 0, src2PageIdx |-> blks, dstPageIdx |-> 2 * blks, pageCnt |-> blks]

NoArgs == [dpuTCB |-> DpuTCB, parameter |-> 0]

MacArgs      == [dpuTCB |-> DpuTCB, parameter |-> 0]
LookupArgs   == [dpuTCB |-> DpuTCB, parameter |-> Tenths.target]
EudistArgs   == [dpuTCB |-> DpuTCB, parameter |-> 0]
ElewAddArgs  == [dpuTCB |-> DpuTCB, parameter |-> 0]
ElewProdArgs == [dpuTCB |-> DpuTCB, parameter |-> 0]
AffineArgs   == [dpuTCB |-> DpuTCB, parameter |-> Tenths.weight]
ConvArgs     == [dpuTCB |-> DpuTCB, parameter |-> Tenths.kernel]
FilterArgs   == [dpuTCB |-> DpuTCB, parameter |-> Tenths.kernel]

ArgsOf ==
  CASE op = "MAC" -> MacArgs
    [] op = "LOOKUP" -> LookupArgs
    [] op = "EUDIST" -> EudistArgs
    [] op = "FILTER" -> FilterArgs
    [] op = "ELEW_ADD" -> ElewAddArgs
    [] op = "ELEW_PROD" -> ElewProdArgs
    [] op = "AFFINE" -> AffineArgs
    [] op = "CONV_1D" -> ConvArgs

----------------------------------------------------------------------------
(* The programs of the tasklets.  A thread is a DPU and one of its tasklets. *)

\* The place of a chunk of an operand in MRAM.
Addr(pageIdx, c) == pageIdx * ChunksPerPage + c

SrcA(x) == buffer[x[1]][Addr(args.dpuTCB.src1PageIdx, chunk[x])]
SrcB(x) == buffer[x[1]][Addr(args.dpuTCB.src2PageIdx, chunk[x])]

InRange(x) == chunk[x] < args.dpuTCB.pageCnt * ChunksPerPage

NextChunk(x) == chunk' = [chunk EXCEPT ![x] = @ + Cardinality(Tasklet)]

MramWrite(x, c) ==
  buffer' = [buffer EXCEPT ![x[1]][Addr(args.dpuTCB.dstPageIdx, c)] = cache[x]]

\* One step of main() where each chunk is read, computed and written back.
EachChunk(x, result) ==
  \/ /\ place[x] = "load" /\ InRange(x)
     /\ cache' = [cache EXCEPT ![x] = result]
     /\ place' = [place EXCEPT ![x] = "store"]
     /\ UNCHANGED <<chunk, buffer>>
  \/ /\ place[x] = "store"
     /\ MramWrite(x, chunk[x])
     /\ NextChunk(x)
     /\ place' = [place EXCEPT ![x] = "load"]
     /\ UNCHANGED cache
  \/ /\ place[x] = "load" /\ ~InRange(x)
     /\ place' = [place EXCEPT ![x] = "halt"]
     /\ UNCHANGED <<chunk, buffer, cache>>

MacDPU(x) == op = "MAC" /\ EachChunk(x, SetFirst(cache[x], SumOfProducts(SrcA(x), SrcB(x))))

LookupDPU(x) ==
  op = "LOOKUP" /\ EachChunk(x, SetFirst(cache[x], CountOf(SrcA(x), Truncated(args.parameter))))

ElewAddDPU(x) == op = "ELEW_ADD" /\ EachChunk(x, [i \in Items |-> SrcA(x)[i] + SrcB(x)[i]])

ElewProdDPU(x) == op = "ELEW_PROD" /\ EachChunk(x, [i \in Items |-> SrcA(x)[i] * SrcB(x)[i]])

AffineDPU(x) ==
  op = "AFFINE" /\
    EachChunk(x, [i \in Items |-> Truncated(args.parameter) * SrcA(x)[i] + SrcB(x)[i]])

ConvDPU(x) == op = "CONV_1D" /\ EachChunk(x, Convolved(SrcA(x), args.parameter))

\* The bound is the length of the chunk.
FilterDPU(x) ==
  op = "FILTER" /\
    EachChunk(x, [i \in Items |-> Filtered(SrcA(x), i)])

\* Mutant: the distance of the last chunk is not reset.
EudistDPUAdds(x) ==
  /\ op = "EUDIST"
  /\ \/ /\ place[x] = "load" /\ InRange(x)
        /\ cache' = [cache EXCEPT ![x] = SetFirst(@, SquaredDistance(SrcA(x), SrcB(x))
                                                  + (IF @[0] = Junk THEN 0 ELSE @[0]))]
        /\ NextChunk(x)
        /\ UNCHANGED <<place, buffer>>
     \/ /\ place[x] = "load" /\ ~InRange(x)
        /\ MramWrite(x, 0)
        /\ place' = [place EXCEPT ![x] = "halt"]
        /\ UNCHANGED <<chunk, cache>>

\* The write comes after the loop: one per tasklet, of what it has computed
\* last, if anything, to the first chunk of the result.
EudistDPU(x) ==
  /\ op = "EUDIST"
  /\ \/ /\ place[x] = "load" /\ InRange(x)
        /\ cache' = [cache EXCEPT ![x] = SetFirst(@, SquaredDistance(SrcA(x), SrcB(x)))]
        /\ NextChunk(x)
        /\ UNCHANGED <<place, buffer>>
     \/ /\ place[x] = "load" /\ ~InRange(x)
        /\ MramWrite(x, 0)
        /\ place' = [place EXCEPT ![x] = "halt"]
        /\ UNCHANGED <<chunk, cache>>

----------------------------------------------------------------------------
(* The test program. *)

\* Mutant: a block has as many pages as there are DPUs.
GetBlockAllocated(d, b) == (b * allocated + d) % WordPages

\* The page of an array that block b of DPU d is; its offset has 32 bits.
GetBlock(d, b) == (b * BlockPages + d) % WordPages

\* Chunk c of a DPU's part of an array, as a chunk of the array.
HostChunk(d, c) == GetBlock(d, c \div ChunksPerPage) * ChunksPerPage + (c % ChunksPerPage)

Mapped(src, pageIdx) ==
  [d \in Dpus |-> [a \in DOMAIN buffer[d] |->
     IF a - Addr(pageIdx, 0) \in DpuChunks(blks)
     THEN src[HostChunk(d, a - Addr(pageIdx, 0))] ELSE buffer[d][a]]]

TestInit ==
  /\ op \in Ops
  /\ blks \in BlkCounts
  /\ allocated \in Allocations
  /\ pc = "map1"
  /\ buffer = [d \in Dpus |-> [a \in 0..(3 * blks * ChunksPerPage - 1) |-> JunkChunk]]
  /\ args = NoArgs
  /\ place = [x \in Thread |-> "halt"]
  /\ chunk = [x \in Thread |-> 0]
  /\ cache = [x \in Thread |-> JunkChunk]
  /\ dpuDst = [h \in HostChunks(blks) |-> JunkChunk]
  /\ cpuDst = [h \in HostChunks(blks) |-> JunkChunk]

Map1 ==
  /\ pc = "map1"
  /\ buffer' = Mapped(Src1, DpuTCB.src1PageIdx)
  /\ pc' = "map2"
  /\ UNCHANGED <<input, args, tasklets, dpuDst, cpuDst>>

Map2 ==
  /\ pc = "map2"
  /\ buffer' = Mapped(Src2, DpuTCB.src2PageIdx)
  /\ pc' = "launch"
  /\ UNCHANGED <<input, args, tasklets, dpuDst, cpuDst>>

\* dpu_load, dpu_broadcast_to and dpu_launch: tasklet t begins with chunk t.
\* WRAM is not cleared.
Launch ==
  /\ pc = "launch"
  /\ args' = ArgsOf
  /\ place' = [x \in Thread |-> "load"]
  /\ chunk' = [x \in Thread |-> x[2]]
  /\ cache' = [x \in Thread |-> JunkChunk]
  /\ pc' = "running"
  /\ UNCHANGED <<input, buffer, dpuDst, cpuDst>>

Kernel(x) ==
  /\ pc = "running"
  /\ \/ MacDPU(x)
     \/ LookupDPU(x)
     \/ EudistDPU(x)
     \/ FilterDPU(x)
     \/ ElewAddDPU(x)
     \/ ElewProdDPU(x)
     \/ AffineDPU(x)
     \/ ConvDPU(x)
  /\ UNCHANGED <<input, pc, args, dpuDst, cpuDst>>

\* The launch is synchronous.
Halted ==
  /\ pc = "running"
  /\ \A x \in Thread : place[x] = "halt"
  /\ pc' = "reduce"
  /\ UNCHANGED <<input, buffer, args, tasklets, dpuDst, cpuDst>>

\* Where in the DPUs chunk h of the array gathered comes from, which is more
\* than one place when page offsets have wrapped.
Senders(h) == {dc \in Dpus \X DpuChunks(blks) : HostChunk(dc[1], dc[2]) = h}

Contended == {h \in HostChunks(blks) : Cardinality(Senders(h)) > 1}

\* dpu_push_sg_xfer promises no order: of several senders any may be the last.
Reduce ==
  /\ pc = "reduce"
  /\ \E last \in [Contended -> Dpus \X DpuChunks(blks)] :
       /\ \A h \in Contended : last[h] \in Senders(h)
       /\ dpuDst' = [h \in HostChunks(blks) |->
            IF Senders(h) = {} THEN dpuDst[h]
            ELSE LET sender == IF h \in Contended THEN last[h]
                               ELSE CHOOSE dc \in Senders(h) : TRUE
                 IN  buffer[sender[1]][Addr(DpuTCB.dstPageIdx, sender[2])]]
  /\ pc' = "cpu"
  /\ UNCHANGED <<input, buffer, args, tasklets, cpuDst>>

ExecCPU ==
  /\ pc = "cpu"
  /\ cpuDst' = [h \in HostChunks(blks) |-> IF h \in LoopChunks THEN CpuChunk(h) ELSE cpuDst[h]]
  /\ pc' = "compare"
  /\ UNCHANGED <<input, buffer, args, tasklets, dpuDst>>

TestOver == pc = "compare" /\ UNCHANGED testVars

TestNext ==
  \/ Map1
  \/ Map2
  \/ Launch
  \/ \E x \in Thread : Kernel(x)
  \/ Halted
  \/ Reduce
  \/ ExecCPU
  \/ TestOver

TestSpec == TestInit /\ [][TestNext]_testVars

----------------------------------------------------------------------------
(* Vocabulary of the properties. *)

\* "isO1" in the test: the operator answers with one number per chunk.
IsO1 == op \in {"MAC", "LOOKUP", "EUDIST"}

\* The items of a chunk that the operator computes.
Results == IF IsO1 THEN {0} ELSE Items

\* The DPU whose page of its block chunk h is in.
DpuOf(h) == (h \div ChunksPerPage) % BlockPages

\* Some DPU there is has a block whose page, counted in 32 bits, chunk h is in.
Supplied(h) ==
  \E d \in 0..(allocated - 1), b \in 0..(blks - 1) :
    (b * BlockPages + d) % WordPages = h \div ChunksPerPage

\* The CPU gets to chunk h before its 32-bit bound.
Reached(h) == h \div ChunksPerPage < (blks * BlockPages) % WordPages

----------------------------------------------------------------------------
(* Properties. *)

\* Both sides compute the same: scattering, parameters, the tasklets' shares and
\* gathering included, with the page offsets and the loop bounds of 32 bits that
\* wrap from 415 page blocks on.  Where no DPU has the page the DPUs' result is
\* missing, where the CPU's loop does not get to the CPU's is; elsewhere the two
\* are equal.  FILTER agrees where its window stays within a chunk.
SidesAgree ==
  pc = "compare" /\ op # "EUDIST" =>
    \A h \in HostChunks(blks), i \in Results :
      \/ op = "FILTER" /\ i + KernelSize - 1 \notin Items
      \/ /\ ~Supplied(h) => dpuDst[h][i] = Junk
         /\ ~Reached(h) => cpuDst[h][i] = Junk
         /\ Supplied(h) /\ Reached(h) => dpuDst[h][i] = cpuDst[h][i]

\* What the DPUs answer for EUDIST is, in the first chunk of each DPU, the
\* distance of some chunk of that DPU or nothing, and nothing anywhere else.
EudistIsSomeChunk ==
  pc = "compare" /\ op = "EUDIST" =>
    \A h \in HostChunks(blks) :
      dpuDst[h][0] # Junk =>
        /\ h \div ChunksPerPage = DpuOf(h) /\ h % ChunksPerPage = 0
        /\ \E c \in DpuChunks(blks) : dpuDst[h][0] = EudistCPU(HostChunk(DpuOf(h), c))[0]

\* "correct": what tests/operatorTest.cpp prints if the sides agree, in the first
\* number for an operator that answers with one, in all items otherwise.
TestIsCorrect ==
  pc = "compare" =>
    IF IsO1 THEN cpuDst[0][0] = dpuDst[0][0]
    ELSE \A h \in HostChunks(blks), i \in Items : cpuDst[h][i] = dpuDst[h][i]
=============================================================================
