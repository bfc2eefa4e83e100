--------------------------- MODULE MCBoundaryKernel ---------------------------
(* Fields and predicates for model checking BoundaryKernel, and thread       *)
(* blocks small enough that a kernel needs several of them.                  *)
EXTENDS BoundaryKernel

\* An axis of n elements with halos of the given widths, and padding.
Width(m, n, p, pad) == [minus |-> m, plus |-> p, begin |-> m, end |-> m + n - 1,
                        total |-> m + n + p + pad]

Some == { Width(0, 1, 0, 0), Width(1, 1, 2, 0), Width(2, 3, 0, 1), Width(1, 2, 1, 0) }

EveryField == { <<x, y, z>> : x \in Some, y \in Some, z \in Some }

\* All directions, those of a process in a corner of the grid, and a single one.
Everywhere == Dirs
AtCorner   == { d \in Dirs : \E a \in Axes : d[a] = -1 }
OneEdge    == { d \in Dirs : d = <<1, 0, -1>> }
SomePredicates == {Everywhere, AtCorner, OneEdge}

Blocks231 == <<2, 3, 1>>
=============================================================================
