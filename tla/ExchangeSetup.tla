---------------------------- MODULE ExchangeSetup ----------------------------
(* gcl/halo_exchange.hpp: how halo_exchange_dynamic_ut is set up.  The user  *)
(* names the axes of the data in an order of their own; the handler keeps    *)
(* them by increasing stride, and the process grid in an order of its own.   *)
(* A layout_map relates the user's order to the strides, another one to the  *)
(* grid.                                                                     *)
EXTENDS LayoutMap

CONSTANTS GridMaps,  \* the values of layout2proc_map_abs
          Lengths    \* the total length of the data along each axis of the user

D == 0..2            \* DIMS

ASSUME SetupAssumption == GridMaps \subseteq Unmasked(3) /\ Lengths \in [D -> Nat \ {0}]

VARIABLES layout,    \* T_layout_map
          gridMap,   \* layout2proc_map_abs
          period,    \* the periodicity, by axis of the user
          cyclic,    \* m_cyclic, by axis of the grid
          halos,     \* the user's axis whose halo is kept, by increasing stride
          phase

vars == <<layout, gridMap, period, cyclic, halos, phase>>

None == 3            \* no halo has been added

\* The template arguments of the handler.
StrideMap == Reverse(layout)
ProcMap   == Transform(StrideMap, gridMap)

\* Mutant: the grid takes the periodicity in the order of the user.
PermuteNot(l, c) == c

\* boollist::permute.
Permute(l, c) == [i \in D |-> c[Find(l, i)]]

Init == /\ layout \in Unmasked(3)
        /\ gridMap \in GridMaps
        /\ period \in [D -> BOOLEAN]
        /\ cyclic = [i \in D |-> FALSE]
        /\ halos = [i \in D |-> None]
        /\ phase = "new"

Construct == /\ phase = "new"
             /\ phase' = "constructed"
             /\ cyclic' = Permute(gridMap, period)
             /\ UNCHANGED <<layout, gridMap, period, halos>>

\* Mutant: the handler keeps the halos in the order of the user.
AddHaloUser(DI) == /\ phase = "constructed"
                   /\ halos' = [halos EXCEPT ![DI] = DI]
                   /\ UNCHANGED <<layout, gridMap, period, cyclic, phase>>

AddHalo(DI) == /\ phase = "constructed"
               /\ halos' = [halos EXCEPT ![At(StrideMap, DI)] = DI]
               /\ UNCHANGED <<layout, gridMap, period, cyclic, phase>>

Setup == /\ phase = "constructed"
         /\ \A i \in D : halos[i] # None
         /\ phase' = "ready"
         /\ UNCHANGED <<layout, gridMap, period, cyclic, halos>>

Next == Construct \/ (\E DI \in D : AddHalo(DI)) \/ Setup
Spec == Init /\ [][Next]_vars

-----------------------------------------------------------------------------
\* nth: the direction on the grid of a direction by increasing stride.
ProcDir(eta) == [i \in D |-> eta[At(ProcMap, i)]]

\* A direction or an index in the user's order, by increasing stride.
ByStride(x) == [i \in D |-> x[Find(StrideMap, i)]]

\* access(): where pack and unpack look for an element.
Access(i) == LET n == [k \in D |-> Lengths[halos[k]]]
             IN  i[0] + i[1] * n[0] + i[2] * n[0] * n[1]

Indices == UNION { 0..Lengths[u] - 1 : u \in D }

\* Where the user has it: axes at a larger place of the layout are closer.
Offset(x) == LET Stride(u) == IF layout[u] = 2 THEN 1
                              ELSE IF layout[u] = 1 THEN Lengths[Find(layout, 2)]
                              ELSE Lengths[Find(layout, 1)] * Lengths[Find(layout, 2)]
             IN  x[0] * Stride(0) + x[1] * Stride(1) + x[2] * Stride(2)

TypeOK == /\ layout \in Unmasked(3) /\ gridMap \in GridMaps
          /\ period \in [D -> BOOLEAN] /\ cyclic \in [D -> BOOLEAN]
          /\ halos \in [D -> D \cup {None}] /\ phase \in {"new", "constructed", "ready"}
          /\ \A i \in D : halos[i] # None => At(StrideMap, halos[i]) = i

(* Pack and unpack find the elements where the user's layout has them,       *)
(* whatever the layout and the order in which the halos were added.          *)
ElementsFound == phase = "ready" =>
    \A x \in { y \in [D -> Indices] : \A u \in D : y[u] < Lengths[u] } :
        Access(ByStride(x)) = Offset(x)

(* An axis of the grid is periodic exactly if the axis of the data that is   *)
(* exchanged along it is.                                                    *)
PeriodicAxesMatch == phase # "new" =>
    \A u, i \in D : (\A e \in [D -> {-1, 0, 1}] : ProcDir(ByStride(e))[i] = e[u])
                       => cyclic[i] = period[u]
-----------------------------------------------------------------------------
(* The inductive invariant behind these properties.                          *)
CyclicOK == phase # "new" => cyclic = Permute(gridMap, period)
HalosOK  == phase = "ready" => \A i \in D : halos[i] # None
IndInv   == TypeOK /\ CyclicOK /\ HalosOK
=============================================================================
