--------------------------- MODULE BoundaryKernel ---------------------------
(* boundaries/apply_gpu.hpp: one kernel applies a boundary functor to all    *)
(* the halo regions.  Its threads form one block of the extents of the       *)
(* regions sorted by size; each region maps the sorted axes of the threads   *)
(* back to its own.                                                          *)
EXTENDS BoundaryApply

CONSTANT ThreadsPerBlock    \* threads_per_block_x_t, _y_t, _z_t

ASSUME KernelAssumption == ThreadsPerBlock \in [Axes -> Nat \ {0}]

VARIABLES bits,     \* precomputed_pred::m_predicate_values, as the set bits
          shapes    \* kernel_configuration::sizes, by direction

kvars == <<vars, bits, shapes>>

\* direction_index.
Index(d) == (d[1] + 1) * 9 + (d[2] + 1) * 3 + d[3] + 1

Exchanged(f, i, j) == [f EXCEPT ![i] = f[j], ![j] = f[i]]

\* One comparison of the sort in shape_type, and all of them in order: the
\* sizes in descending order, and where each of them comes from.
Compare(s, i, j) == IF s.sorted[i] <= s.sorted[j]
                      THEN [sorted |-> Exchanged(s.sorted, i, j), from |-> Exchanged(s.from, i, j)]
                      ELSE s
Sort(size) == Compare(Compare(Compare([sorted |-> size, from |-> <<1, 2, 3>>], 1, 2), 1, 3), 2, 3)

\* Mutant: the permutation is not inverted.
PermForward(from) == from

\* m_perm: at what place among the sorted sizes an axis is.
Perm(from) == [a \in Axes |-> CHOOSE i \in Axes : from[i] = a]

Segment(h, i) == IF i = -1 THEN h.minus ELSE IF i = 0 THEN h.end - h.begin + 1 ELSE h.plus

Start(h, i) == IF i = -1 THEN h.begin - h.minus ELSE IF i = 0 THEN h.begin ELSE h.end + 1

Shape(f, d) == LET s == Sort(<<Segment(f[1], d[1]), Segment(f[2], d[2]), Segment(f[3], d[3])>>)
               IN  [sorted |-> s.sorted, perm |-> Perm(s.from),
                    start |-> <<Start(f[1], d[1]), Start(f[2], d[2]), Start(f[3], d[3])>>]

Largest(S) == CHOOSE x \in S : \A y \in S : y <= x

\* Mutant: the threads cover whole blocks only.
ThreadsWhole(a) == LET b == Largest({ shapes[d].sorted[a] : d \in Dirs })
                   IN  0 .. (b \div ThreadsPerBlock[a]) * ThreadsPerBlock[a] - 1

\* The threads along an axis: block_size, kernel_grid_size and the launch.
Threads(a) == LET b == Largest({ shapes[d].sorted[a] : d \in Dirs })
                  t == ThreadsPerBlock[a]
                  grid == IF b = 0 THEN 1 ELSE (b + t - 1) \div t
              IN  0 .. grid * t - 1

-----------------------------------------------------------------------------
KInit == /\ Init
         /\ shapes = [d \in Dirs |-> Shape(halos, d)]
         /\ shapes # [d \in Dirs |-> [shapes[d] EXCEPT !.sorted = <<0, 0, 0>>]]
         /\ bits = { Index(d) : d \in accepted }

\* The elements the threads write in one region, and how often.
Target(s, t) == [a \in Axes |-> t[s.perm[a]] + s.start[a]]
Working(s) == { t \in Threads(1) \X Threads(2) \X Threads(3) : \A a \in Axes : t[a] < s.sorted[a] }

Kernel(d) == written' = [x \in DOMAIN written |->
    written[x] + Cardinality({ t \in Working(shapes[d]) : Target(shapes[d], t) = x })]

\* Mutant: the loop over the bits goes one too far.
KApplyPast == /\ next <= 27
              /\ next' = next + 1
              /\ IF next < 27 /\ next # Centre /\ Index(Nth(next)) \in bits
                    THEN Kernel(Nth(next)) ELSE UNCHANGED written
              /\ UNCHANGED <<halos, accepted, bits, shapes>>

\* All threads apply the functor in the next direction.
KApply == /\ next < 27
          /\ next' = next + 1
          /\ IF next # Centre /\ Index(Nth(next)) \in bits THEN Kernel(Nth(next)) ELSE UNCHANGED written
          /\ UNCHANGED <<halos, accepted, bits, shapes>>

KSpec == KInit /\ [][KApply]_kvars

-----------------------------------------------------------------------------
(* The kernel writes what the loops of the CPU write, region by region.      *)
ImplementsApply == Spec
=============================================================================
