------------------------ MODULE LayoutTransformation ------------------------
(* layout_transformation.hpp and its CPU and GPU loops, with                  *)
(* common/hypercube_iterator.hpp: the elements of an array copied from one    *)
(* layout to another.  What a call launches is a sequence of launches.        *)
EXTENDS Sid, ParallelLoops

\* Extent of a GPU block in a dimension; 8 in the source.
BlockSize1D == 2

\* What is copied: pointer, element size and strides (numbers) of an array.
ArrayAt(holder, strides) == [at |-> holder.at, size |-> holder.size, strides |-> strides]

Rank(dims) == Cardinality(DOMAIN dims)

\* extend: three dimensions or more.
Extend(f, val) ==
  [d \in 0..(IF Rank(f) < 3 THEN 3 ELSE Rank(f)) - 1 |-> IF d < Rank(f) THEN f[d] ELSE val]

\* drop_front<3>
Outer(f) == [d \in 0..Rank(f) - 4 |-> f[d + 3]]

-----------------------------------------------------------------------------
(* The points of a hypercube.                                                 *)

\* Mutant: an index that starts again takes the next outer one along unchanged.
NextPointStuck(pos, end) ==
  LET moves == { d \in DOMAIN pos : pos[d] + 1 < end[d] }
  IN  IF moves = {} THEN end
      ELSE LET d == CHOOSE x \in moves : \A y \in moves : x <= y
           IN  [pos EXCEPT ![d] = @ + 1]

\* operator++: the last index that can be incremented is; those behind it start again.
NextPoint(pos, end) ==
  LET moves == { d \in DOMAIN pos : pos[d] + 1 < end[d] }
  IN  IF moves = {} THEN end
      ELSE LET d == CHOOSE x \in moves : \A y \in moves : y <= x
           IN  [e \in DOMAIN pos |-> IF e < d THEN pos[e] ELSE IF e = d THEN pos[e] + 1 ELSE 0]

RECURSIVE PointsFrom(_, _)
PointsFrom(pos, end) == IF pos = end THEN <<>> ELSE <<pos>> \o PointsFrom(NextPoint(pos, end), end)

\* make_hypercube_view: of no dimensions, it has one point.
HypercubeView(sizes) ==
  IF Rank(sizes) = 0 THEN << <<>> >> ELSE PointsFrom([d \in DOMAIN sizes |-> 0], sizes)

-----------------------------------------------------------------------------
PlaceOf(a, index, outer) ==
  a.at + a.size * (  SumFunction([d \in 0..2 |-> index[d] * a.strides[d]])
                   + SumFunction([d \in DOMAIN outer |-> outer[d] * a.strides[d + 3]]))

CopyElement(dst, src, index, outer) ==
  Do({ Copy(PlaceOf(dst, index, outer), PlaceOf(src, index, outer)) }, 0)

\* An OpenMP loop of n iterations with their work.
OmpLoop(n, threads, work) ==
  [t \in { <<0, u>> : u \in 0..threads-1 } |->
     SX!FlattenSeq([x \in 1..Cardinality(StaticShare(n, threads, t[2])) |->
        work[x - 1 + t[2] * ((n + threads - 1) \div threads)]])]

\* transform_cpu_loop: collapse(3), once per point of the other dimensions.
TransformCpu(dst, src, dims, threads) ==
  LET points == HypercubeView(Outer(dims))
      index(n) == [d \in 0..2 |-> IF d = 0 THEN n \div (dims[1] * dims[2])
                                  ELSE IF d = 1 THEN (n \div dims[2]) % dims[1]
                                  ELSE n % dims[2]]
  IN  [p \in 1..Len(points) |->
         OmpLoop(dims[0] * dims[1] * dims[2], threads,
                 [n \in 0..dims[0] * dims[1] * dims[2] - 1 |-> <<CopyElement(dst, src, index(n), points[p])>>])]

\* transform_gpu_loop: blocks cover the first three dimensions, threads of the last ones
\* return early; a thread copies all the points of the other dimensions.
TransformGpu(dst, src, dims) ==
  LET points == HypercubeView(Outer(dims))
      blocks == [d \in 0..2 |-> (dims[d] + BlockSize1D - 1) \div BlockSize1D]
      split(n, f, d) == IF d = 0 THEN n % f[0]
                        ELSE IF d = 1 THEN (n \div f[0]) % f[1] ELSE n \div (f[0] * f[1])
      index(t) == [d \in 0..2 |-> split(t[1], blocks, d) * BlockSize1D
                                  + split(t[2], [e \in 0..2 |-> BlockSize1D], d)]
      copies(t) == IF \E d \in 0..2 : index(t)[d] >= dims[d] THEN <<>>
                   ELSE [p \in 1..Len(points) |-> CopyElement(dst, src, index(t), points[p])]
  IN  << [t \in (0..blocks[0] * blocks[1] * blocks[2] - 1) \X (0..BlockSize1D^3 - 1) |-> copies(t)] >>

\* transform_layout
TransformLayout(gpu, dst, src, dims, threads) ==
  LET to   == [dst EXCEPT !.strides = Extend(@, 0)]
      from == [src EXCEPT !.strides = Extend(@, 0)]
  IN  IF gpu THEN TransformGpu(to, from, Extend(dims, 1))
      ELSE TransformCpu(to, from, Extend(dims, 1), threads)
=============================================================================
