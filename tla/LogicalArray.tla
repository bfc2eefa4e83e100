---------------------------- MODULE LogicalArray ----------------------------
(* What a data_store promises its user: one array, whatever the number of    *)
(* allocations behind it.  A request for a view never changes the array, and *)
(* a write through a mutable view that is still live changes the elements it *)
(* names and no other.                                                       *)
EXTENDS StorageViews

CONSTANTS Cells,    \* the elements of the storage
          Values    \* what an element can hold

VARIABLES array,    \* the elements written so far: a partial function
          live      \* the kinds of view that may be used

Writes == UNION { [cs -> Values] : cs \in SUBSET Cells }

Init == /\ live = {}
        /\ array \in [Cells -> Values] \cup [{} -> Values]

Request(k) == /\ live' = LiveAfter(live, k)
              /\ UNCHANGED array

Write(k, writes) == /\ k \in live \cap MutableKinds
                    /\ array' = Overlay(writes, array)
                    /\ UNCHANGED live

Next == \/ \E k \in ViewKinds : Request(k)
        \/ \E k \in MutableKinds, writes \in Writes : Write(k, writes)

Spec == Init /\ [][Next]_<<array, live>>
=============================================================================
