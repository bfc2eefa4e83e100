---------------------------- MODULE MCGpuPacking ----------------------------
(* A grid, halos and fields for model checking GpuPacking.  The grid is open *)
(* along its first two axes and closed in itself along the third: each of    *)
(* its processes lacks other neighbours.                                     *)
EXTENDS GpuPacking

Axis3(a, b, c) == [x \in Axes |-> CASE x = 1 -> a [] x = 2 -> b [] x = 3 -> c]

Dims321 == Axis3(3, 2, 1)
Periodic3 == Axis3(FALSE, FALSE, TRUE)
Identity == Axis3(1, 2, 3)

Width(m, p, inner) ==
    [minus |-> m, plus |-> p, begin |-> m, end |-> m + inner - 1, total |-> m + p + inner]

Uneven == Axis3(Width(1, 2, 3), Width(1, 1, 2), Width(1, 0, 1))

\* A field that needs less than the example, and has room to spare.
Narrower == Axis3([minus |-> 1, plus |-> 1, begin |-> 2, end |-> 4, total |-> 7], Width(0, 1, 2), Width(1, 0, 1))

TwoFields == <<Narrower, Uneven>>
=============================================================================
