------------------------------ MODULE DataStore ------------------------------
(* storage/data_store.hpp: one array kept in two allocations, one in host    *)
(* memory and one in target (device) memory, with a flag that says which of  *)
(* them is out of date.  A request for a pointer or a view first transfers   *)
(* the whole array if the requested side is out of date, and a request for a *)
(* mutable one marks the other side out of date.                             *)
(*                                                                           *)
(* Kernels run asynchronously: a launch returns at once, the threads write   *)
(* the target later in any order, and the transfers of storage/gpu.hpp       *)
(* (cudaMemcpy) wait for them.  At most one kernel is outstanding (the       *)
(* bound on the stream's depth); a second launch waits for the first.        *)
(*                                                                           *)
(* With Shared = TRUE the store is the host-referenceable variant: a single  *)
(* allocation, no flag, and computations that finish before they return.     *)
EXTENDS StorageViews, Functions

CONSTANTS Cells,    \* the elements of the storage
          Values,   \* what an element can hold
          Zero      \* what make_unique<T[]> puts into the host allocation

ASSUME ZeroAssumption == Zero \in Values

VARIABLES state,    \* which allocation is out of date
          host,     \* the host allocation (unused when Shared)
          target,   \* the target allocation
          kernel,   \* the writes the outstanding kernel has still to do
          live,     \* the kinds of view the user may still use
          written   \* the elements that hold a value the user gave

vars == <<state, host, target, kernel, live, written>>

States == {"synced", "invalid_host", "invalid_target"}
Arrays == [Cells -> Values]
Writes == UNION { [cs -> Values] : cs \in SUBSET Cells }
Idle   == [c \in {} |-> Zero]      \* no write outstanding

TypeOK == /\ state \in States
          /\ host \in Arrays
          /\ target \in Arrays
          /\ kernel \in Writes
          /\ live \subseteq ViewKinds
          /\ written \subseteq Cells

-----------------------------------------------------------------------------
(* The two constructors.  What cuda_malloc returns holds anything.           *)
CtorUninitialized == /\ state = "synced"
                     /\ host = [c \in Cells |-> Zero]
                     /\ target \in Arrays
                     /\ written = {}

CtorInitializer == /\ state = IF Shared THEN "synced" ELSE "invalid_target"
                   /\ host \in Arrays
                   /\ target \in Arrays
                   /\ written = Cells

Init == /\ CtorUninitialized \/ CtorInitializer
        /\ kernel = Idle
        /\ live = {}

-----------------------------------------------------------------------------
(* Transfers.  m_state in between is the value the getters see after them.   *)
TargetStale == ~Shared /\ state = "invalid_target"
HostStale   == ~Shared /\ state = "invalid_host"

\* Mutant: transfers whether or not the target is out of date.
UpdateTargetAlways == /\ kernel = Idle
                      /\ target' = host
                      /\ UNCHANGED <<host, kernel, written>>

UpdateTarget == /\ TargetStale => kernel = Idle
                /\ target' = IF TargetStale THEN host ELSE target
                /\ UNCHANGED <<host, kernel, written>>

\* Mutant: a transfer that copies the initialised elements alone into a fresh
\* allocation.
UpdateHostPartial == /\ HostStale => kernel = Idle
                     /\ host' = IF HostStale THEN Restrict(target, written) ELSE host
                     /\ UNCHANGED <<target, kernel, written>>

UpdateHost == /\ HostStale => kernel = Idle
              /\ host' = IF HostStale THEN target ELSE host
              /\ UNCHANGED <<target, kernel, written>>

SetState(s) == state' = IF Shared THEN state ELSE s

GetTargetPtr == /\ UpdateTarget
                /\ SetState("invalid_host")
                /\ live' = LiveAfter(live, "target")

GetConstTargetPtr == /\ UpdateTarget
                     /\ SetState(IF TargetStale THEN "synced" ELSE state)
                     /\ live' = LiveAfter(live, "const_target")

\* Mutant: the mutable request does not mark the target out of date.
GetHostPtrUnmarked == /\ UpdateHost
                      /\ SetState(IF HostStale THEN "synced" ELSE state)
                      /\ live' = LiveAfter(live, "host")

GetHostPtr == /\ UpdateHost
              /\ SetState("invalid_target")
              /\ live' = LiveAfter(live, "host")

GetConstHostPtr == /\ UpdateHost
                   /\ SetState(IF HostStale THEN "synced" ELSE state)
                   /\ live' = LiveAfter(live, "const_host")

-----------------------------------------------------------------------------
(* What the user does through the views.                                     *)
HostWrite(c, v) == /\ "host" \in live
                   /\ IF Shared
                         THEN target' = [target EXCEPT ![c] = v] /\ UNCHANGED host
                         ELSE host' = [host EXCEPT ![c] = v] /\ UNCHANGED target
                   /\ written' = written \cup {c}
                   /\ UNCHANGED <<state, kernel, live>>

\* A computation on the target.  On the CPU it is done when run returns; on a
\* device the launch only queues its writes.
Compute(writes) == /\ "target" \in live
                   /\ kernel = Idle
                   /\ IF Shared
                         THEN target' = Overlay(writes, target) /\ UNCHANGED kernel
                         ELSE kernel' = writes /\ UNCHANGED target
                   /\ written' = written \cup DOMAIN writes
                   /\ UNCHANGED <<state, host, live>>

\* One thread of the outstanding kernel writes its element.
KernelThread(c) == /\ c \in DOMAIN kernel
                   /\ target' = [target EXCEPT ![c] = kernel[c]]
                   /\ kernel' = Restrict(kernel, DOMAIN kernel \ {c})
                   /\ UNCHANGED <<state, host, live, written>>

Next == \/ GetTargetPtr \/ GetConstTargetPtr
        \/ GetHostPtr \/ GetConstHostPtr
        \/ \E c \in Cells, v \in Values : HostWrite(c, v)
        \/ \E writes \in Writes : Compute(writes)
        \/ \E c \in Cells : KernelThread(c)

Spec == Init /\ [][Next]_vars

-----------------------------------------------------------------------------
(* The array behind the two allocations.                                     *)
Drained   == Overlay(kernel, target)        \* the target once the kernel has ended
HostArray == IF Shared THEN Drained ELSE host

Array == [c \in written |-> IF TargetStale THEN host[c] ELSE Drained[c]]

(* What the flag says of the two allocations and of the views in use: the    *)
(* part of the inductive invariant that LiveViewsSeeTheArray does not state. *)
SyncedMeansEqual == ~Shared /\ state = "synced" => \A c \in written : host[c] = Drained[c]

FlagMatchesViews ==
    IF Shared THEN state = "synced"
              ELSE /\ "host" \in live => state = "invalid_target"
                   /\ "target" \in live => state = "invalid_host"
                   /\ "const_host" \in live => state # "invalid_host"
                   /\ "const_target" \in live => state # "invalid_target"

(* A read through any view the user may still use sees the array: the host   *)
(* views at once, the target views (whose readers are queued behind the      *)
(* outstanding kernel) once it has ended.  It is the synchronisation the     *)
(* flag of data_store.hpp is kept for.                                       *)
LiveViewsSeeTheArray ==
    \A c \in written :
        /\ live \cap HostKinds # {} => HostArray[c] = Array[c]
        /\ live \cap TargetKinds # {} => Drained[c] = Array[c]

(* While a kernel is outstanding the host allocation is marked out of date,  *)
(* so that the next request for it goes through the transfer that waits for  *)
(* the kernel: no host access overlaps an unfinished computation.            *)
OutstandingKernelMarksHost == kernel # Idle => state = "invalid_host"

IndInv == TypeOK /\ SyncedMeansEqual /\ FlagMatchesViews /\ OutstandingKernelMarksHost

(* The store is one array: a request for a view never changes the written    *)
(* elements, and a write through a live view changes the elements it names.  *)
Abstract == INSTANCE LogicalArray WITH array <- Array
ImplementsLogicalArray == Abstract!Spec
=============================================================================
