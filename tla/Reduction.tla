------------------------------ MODULE Reduction ------------------------------
(* reduction/: the elements of a reducible combined to one value, by a loop,  *)
(* by OpenMP threads or in steps of GPU kernels that halve a block of         *)
(* elements until each block has left one.                                    *)
(*                                                                            *)
(* A backend is a record: its name, and for "gpu" the device's maximal number *)
(* of threads, its warp size and whether the element type is shufflable.      *)
EXTENDS LayoutTransformation

\* cpu_final_threshold_t; 8 in the source.
CpuFinalThreshold == 2

\* Where the host has the result.
ResultCell == 0
Neutral == EmptyBag

NextPow2(n) == CHOOSE p \in { 2^k : k \in 0..10 } : n <= p /\ p < 2 * n

-----------------------------------------------------------------------------
(* Sizes and the first contents.                                              *)

GetThreads(b, n) == Gcd(n \div 2, b.maxThreads)

\* reduction_round_size: a multiple that kernels can halve down to the threshold.
RoundSize(b, size) ==
  LET chunk == NextPow2(size) \div CpuFinalThreshold
  IN  IF b.name = "gpu" /\ chunk > 0 THEN RoundUp(size, chunk) ELSE size

\* Mutant: room for the elements and the results of the last step.
AllocationSizeLast(b, n) == IF b.name = "gpu" THEN n + CpuFinalThreshold ELSE n

\* reduction_allocation_size: room for the results of every step.
RECURSIVE SizeOfSteps(_, _)
SizeOfSteps(b, n) ==
  LET blocks == n \div (2 * GetThreads(b, n))
  IN  n + IF blocks > CpuFinalThreshold THEN SizeOfSteps(b, blocks) ELSE blocks
AllocationSize(b, n) == IF b.name = "gpu" THEN SizeOfSteps(b, n) ELSE n

NeutralAt(ptr, size, n) == Store(ptr + n * size, <<>>, Neutral)

\* Mutant: holes in lines are left as they are.
FillBehind(b, ptr, size, data, rounded, holes) ==
  << Sequential({ NeutralAt(ptr, size, n) : n \in data..rounded-1 }) >>

\* reduction_fill: what is not going to be written, between and behind lines.
Fill(b, ptr, size, data, rounded, holes) ==
  CASE b.name = "naive" -> << Sequential({ NeutralAt(ptr, size, n) : n \in 0..rounded-1 }) >>
    [] b.name = "cpu" ->
         << Sequential({ NeutralAt(ptr, size, n) : n \in (IF holes THEN 0 ELSE data)..rounded-1 }) >>
    [] b.name = "gpu" ->
         IF ~holes /\ data = rounded THEN <<>>
         ELSE LET threads == Gcd(rounded, b.maxThreads)
              IN  << [t \in (0..(rounded \div threads) - 1) \X (0..threads - 1) |->
                        <<Do({ NeutralAt(ptr, size, t[1] * threads + t[2]) }, 0)>>] >>

-----------------------------------------------------------------------------
(* The host: a loop, or one per thread and the results combined.              *)

Into(cell, more) == Store(cell, <<cell>> \o more, Neutral)

ReduceNaive(ptr, size, n) ==
  << Sequential({ Store(ResultCell, <<>>, Neutral) }),
     [t \in { <<0, 0>> } |-> [i \in 1..n |-> Do({ Into(ResultCell, <<ptr + (i - 1) * size>>) }, 0)]] >>

\* Mutant: threads add to one variable.
ReduceCpuShared(ptr, size, n, threads) ==
  << Sequential({ Store(ResultCell, <<>>, Neutral) }),
     OmpLoop(n, threads, [i \in 0..n-1 |-> <<Do({ Into(ResultCell, <<ptr + i * size>>) }, 0)>>]) >>

\* parallel for reduction: a private copy per thread; all are combined behind the loop.
ReduceCpu(ptr, size, n, threads) ==
  LET own(t) == Private(t[2])
      loop == [t \in { <<0, u>> : u \in 0..threads-1 } |->
                 <<Do({ Store(own(t), <<>>, Neutral) }, 0)>>
                 \o [x \in 1..Cardinality(StaticShare(n, threads, t[2])) |->
                       Do({ Into(own(t), <<ptr + (x - 1 + t[2] * ((n + threads - 1) \div threads)) * size>>) }, 0)]]
      all == [u \in 1..threads |-> Private(u - 1)]
  IN  << Sequential({ Store(ResultCell, <<>>, Neutral) }),
         [loop EXCEPT ![<<0, 0>>] = Append(@, Do({ Into(ResultCell, all) }, 1))] >>

-----------------------------------------------------------------------------
(* Kernels.  Block number k of BlockSize threads combines 2 * BlockSize       *)
(* elements.  io are the addresses of elements and results, and their size.   *)

In(io, n) == io.in + n * io.size
Out(io, k) == io.out + k * io.size

\* tiny_kernel: blocks of one thread.
TinyKernel(io, k) ==
  [u \in {0} |-> <<Do({ Store(Out(io, k), <<In(io, 2 * k), In(io, 2 * k + 1)>>, Neutral) }, 0)>>]

\* shmem_kernel: every thread combines two elements to its cell of shared memory; steps
\* of half of the cells follow, a barrier before each.
ShmemKernel(bs, io, k) ==
  LET rounds == CHOOSE r \in 1..10 : 2^r = bs
      cell(u) == Shared(k, u)
      load(u) == Do({ Store(cell(u), <<In(io, k * bs * 2 + u), In(io, k * bs * 2 + u + bs)>>, Neutral) }, 0)
      step(u, r) == LET s == 2^(rounds - r)
                    IN  Do(IF u >= s THEN {}
                           ELSE { Store(IF r = rounds THEN Out(io, k) ELSE cell(u),
                                        <<cell(u), cell(u + s)>>, Neutral) }, r)
  IN  [u \in 0..bs-1 |-> <<load(u)>> \o [r \in 1..rounds |-> step(u, r)]]

\* Mutant: the last step of a warp is missing.
WarpReduceShort(width, vals) ==
  LET after[s \in { 2^k : k \in 0..10 }] ==
        IF s >= width THEN vals
        ELSE [l \in DOMAIN vals |->
                after[2 * s][l] \o after[2 * s][IF l + s \in DOMAIN vals THEN l + s ELSE l]]
  IN  after[2][0]

\* warp_reduce: lane l takes what lane l + width / 2 has, then l + width / 4, ...; what
\* comes out of a warp is the value of lane 0.  A lane's value is the sequence of the
\* addresses that were combined to it.
WarpReduce(width, vals) ==
  LET after[s \in { 2^k : k \in 0..10 }] ==
        IF s >= width THEN vals
        ELSE [l \in DOMAIN vals |->
                after[2 * s][l] \o after[2 * s][IF l + s \in DOMAIN vals THEN l + s ELSE l]]
  IN  after[1][0]

\* small_warp_kernel: a block is a warp.
SmallWarpKernel(bs, io, k) ==
  LET pair(l) == <<In(io, k * bs * 2 + l), In(io, k * bs * 2 + l + bs)>>
  IN  [u \in {0} |->
         <<Do({ Store(Out(io, k), WarpReduce(bs, [l \in 0..bs-1 |-> pair(l)]), Neutral) }, 0)>>]

\* big_warp_kernel: every warp leaves its result in shared memory, and behind a barrier
\* the first warp combines them.
BigWarpKernel(ws, bs, io, k) ==
  LET pair(l) == <<In(io, k * bs * 2 + l), In(io, k * bs * 2 + l + bs)>>
      warps == bs \div ws
      buff(w) == Shared(k, w)
      first(w) == Do({ Store(buff(w), WarpReduce(ws, [l \in 0..ws-1 |-> pair(w * ws + l)]), Neutral) }, 0)
      second == Do({ Store(Out(io, k), WarpReduce(warps, [l \in 0..warps-1 |-> <<buff(l)>>]), Neutral) }, 1)
  IN  [w \in 0..warps-1 |-> IF w = 0 THEN <<first(w), second>> ELSE <<first(w)>>]

\* choose_kernel
Kernel(b, bs, io, k) ==
  IF bs = 1 THEN TinyKernel(io, k)
  ELSE IF ~b.shufflable THEN ShmemKernel(bs, io, k)
  ELSE IF bs > b.warpSize THEN BigWarpKernel(b.warpSize, bs, io, k)
  ELSE SmallWarpKernel(bs, io, k)

\* reduce_step: a launch of blocks.
ReduceStep(b, from, n, size) ==
  LET bs     == GetThreads(b, n)
      blocks == n \div (2 * bs)
      io     == [in |-> from, out |-> from + n * size, size |-> size]
      work   == [k \in 0..blocks-1 |-> Kernel(b, bs, io, k)]
  IN  [t \in UNION { {k} \X DOMAIN work[k] : k \in 0..blocks-1 } |-> work[t[1]][t[2]]]

\* reduction_reduce: steps until the host does the rest of the elements, at last.
RECURSIVE ReduceGpu(_, _, _, _)
ReduceGpu(b, from, size, n) ==
  IF n <= CpuFinalThreshold
    THEN << Sequential({ Store(ResultCell, [x \in 1..n |-> from + (x - 1) * size], Neutral) }) >>
    ELSE <<ReduceStep(b, from, n, size)>>
         \o ReduceGpu(b, from + n * size, size, n \div (2 * GetThreads(b, n)))

ReduceLaunches(b, ptr, size, n, threads) ==
  CASE b.name = "naive" -> ReduceNaive(ptr, size, n)
    [] b.name = "cpu" -> ReduceCpu(ptr, size, n, threads)
    [] b.name = "gpu" -> ReduceGpu(b, ptr, size, n)
=============================================================================
