--------------------------- MODULE HaloDescriptor ---------------------------
(* common/halo_descriptor.hpp: one axis of a field with its halos, and the   *)
(* index ranges that are sent to and received from a neighbour at offset -1, *)
(* 0 or 1 along that axis.                                                   *)
EXTENDS Integers

\* What the assertions of the constructor accept (within the width of uint_t).
IsHalo(h) == /\ h.minus \in Nat /\ h.plus \in Nat
             /\ h.begin \in Nat /\ h.end \in Nat /\ h.total \in Nat
             /\ h.begin <= h.end
             /\ h.plus <= h.total - h.end - 1
             /\ h.begin >= h.minus

Length(h) == h.end - h.begin + 1

\* Mutant: the halo widths the two sides use are exchanged on the send side.
SLengthSwapped(h, i) == IF i = 0 THEN Length(h) ELSE IF i = 1 THEN h.plus ELSE h.minus

SLength(h, i) == IF i = 0 THEN Length(h) ELSE IF i = 1 THEN h.minus ELSE h.plus
RLength(h, i) == IF i = 0 THEN Length(h) ELSE IF i = 1 THEN h.plus ELSE h.minus

\* The indices packed for, and unpacked from, the neighbour at offset i.
Inside(h, i) == IF i = 0 THEN h.begin .. h.end
                ELSE IF i = 1 THEN (h.end - h.minus + 1) .. h.end
                              ELSE h.begin .. (h.begin + h.plus - 1)

Outside(h, i) == IF i = 0 THEN h.begin .. h.end
                 ELSE IF i = 1 THEN (h.end + 1) .. (h.end + h.plus)
                               ELSE (h.begin - h.minus) .. (h.begin - 1)
=============================================================================
