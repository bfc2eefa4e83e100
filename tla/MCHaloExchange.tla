--------------------------- MODULE MCHaloExchange ---------------------------
(* Grids and halos for model checking HaloExchange.  A grid is named by its  *)
(* number of processes along each axis.                                      *)
EXTENDS HaloExchange

Axis3(a, b, c) == [x \in Axes |-> CASE x = 1 -> a [] x = 2 -> b [] x = 3 -> c]

Dims121 == Axis3(1, 2, 1)

Periodic2 == Axis3(FALSE, TRUE, FALSE)

Rotated == Axis3(2, 3, 1)

\* An axis with two elements inside and halos of the given widths.
Width(m, p) == [minus |-> m, plus |-> p, begin |-> m, end |-> m + 1, total |-> m + p + 2]

Uneven == Axis3(Width(1, 2), Width(1, 2), Width(2, 1))

FewerLater == [n \in 1..MaxStep |-> IF n = 1 THEN 2 ELSE 1]
=============================================================================
