------------------------------ MODULE ProcGrid ------------------------------
(* gcl/low_level/proc_grids_3D.hpp and translate.hpp: a three-dimensional    *)
(* grid of processes, the neighbour of a process in each of the 26           *)
(* directions, and the number a direction has as an array index and as the   *)
(* tag of a message.                                                         *)
(*                                                                           *)
(* A rank is represented by its coordinates: MPI_Cart_rank and               *)
(* MPI_Cart_coords are inverse to each other.                                *)
EXTENDS Integers

CONSTANTS Dims,     \* m_dimensions
          Cyclic    \* m_cyclic

Axes == 1..3

ASSUME GridAssumption == /\ Dims \in [Axes -> Nat \ {0}]
                         /\ Cyclic \in [Axes -> BOOLEAN]

Coords == UNION { 0..(Dims[a] - 1) : a \in Axes }
Procs  == { c \in [Axes -> Coords] : \A a \in Axes : c[a] < Dims[a] }

Offsets == {-1, 0, 1}
Here    == [a \in Axes |-> 0]
Dirs    == [Axes -> Offsets] \ {Here}

Neg(d) == [a \in Axes |-> -d[a]]

-----------------------------------------------------------------------------
\* One axis of proc(I, J, K): the coordinate at offset i of c.
CoordAlong(c, a, i) == IF Cyclic[a] THEN (c + i + Dims[a]) % Dims[a] ELSE c + i

\* proc(I, J, K), whose early returns of -1 say that there is no neighbour.
NbrCoords(p, d) == [a \in Axes |-> CoordAlong(p[a], a, d[a])]
HasNbr(p, d)    == \A a \in Axes : Cyclic[a] \/ p[a] + d[a] \in 0..(Dims[a] - 1)

-----------------------------------------------------------------------------
\* Mutant: the second axis has no part in the tag.
TagWithoutJ(d) == (d[3] + 1) * 9 + (d[1] + 1) * 3

\* Halo_Exchange_3D::TAG and translate_t<3, layout_map<0, 1, 2>>.
Tag(d)       == (d[3] + 1) * 9 + (d[1] + 1) * 3 + d[2] + 1
Translate(d) == (d[3] + 1) * 9 + (d[2] + 1) * 3 + d[1] + 1
=============================================================================
