---------------------------- MODULE StorageViews ----------------------------
(* The four kinds of view of a data_store and the rule that says which of    *)
(* those already handed out may still be used after a new request            *)
(* (docs_src/manuals/user_manual/storages.hrst: "Each new view request       *)
(* potentially invalidates the previously created views").                   *)
CONSTANT Shared    \* TRUE when both spaces are one allocation (the CPU traits)

ASSUME SharedAssumption == Shared \in BOOLEAN

ViewKinds    == {"host", "const_host", "target", "const_target"}
MutableKinds == {"host", "target"}
HostKinds    == {"host", "const_host"}
TargetKinds  == {"target", "const_target"}

\* A request for a view of kind k leaves a view of kind v usable when both
\* look at the same allocation, or when neither can write.
Compatible(v, k) == \/ Shared
                    \/ {v, k} \subseteq HostKinds
                    \/ {v, k} \subseteq TargetKinds
                    \/ {v, k} \cap MutableKinds = {}

\* The array a after the given writes, a partial function on its elements.
Overlay(writes, a) == [c \in DOMAIN writes \cup DOMAIN a |->
                          IF c \in DOMAIN writes THEN writes[c] ELSE a[c]]

LiveAfter(live, k) == {k} \cup { v \in live : Compatible(v, k) }
=============================================================================
