---------------------------- MODULE MemoryProofs ----------------------------
(* Proofs about what one process keeps in memory: the two sides of a data    *)
(* store, for every set of elements and values and for both variants of the  *)
(* store; variables that are changed by atomic functions, whatever the       *)
(* workers do to them, with whatever implementation and interleaving; and    *)
(* where the elements of a storage are, for every number of dimensions,      *)
(* layout, length, alignment and halo.                                       *)
EXTENDS DataStore, Atomics, StorageBuilder, FiniteSetTheorems, WellFoundedInduction, TLAPS

\* Writing into an array gives an array.
LEMMA OverlayLemma ==
    ASSUME NEW f \in Writes, NEW g \in Arrays
    PROVE  /\ Overlay(f, g) \in Arrays
           /\ \A c \in Cells : Overlay(f, g)[c] = IF c \in DOMAIN f THEN f[c] ELSE g[c]
  <1>1. DOMAIN f \subseteq Cells /\ \A c \in DOMAIN f : f[c] \in Values
    BY DEF Writes
  <1>2. DOMAIN f \cup DOMAIN g = Cells
    BY <1>1 DEF Arrays
  <1> QED  BY <1>1, <1>2 DEF Overlay, Arrays

LEMMA IdleLemma == Idle \in Writes /\ DOMAIN Idle = {}
  <1>1. Idle \in [{} -> Values]
    BY DEF Idle
  <1> QED  BY <1>1 DEF Writes, Idle

LEMMA WritesDomain == ASSUME NEW f \in Writes PROVE DOMAIN f \subseteq Cells
  BY DEF Writes

LEMMA RestrictLemma ==
    ASSUME NEW f \in Writes, NEW c
    PROVE  /\ Restrict(f, DOMAIN f \ {c}) \in Writes
           /\ DOMAIN Restrict(f, DOMAIN f \ {c}) = DOMAIN f \ {c}
           /\ \A d \in DOMAIN f \ {c} : Restrict(f, DOMAIN f \ {c})[d] = f[d]
  <1> DEFINE cs == DOMAIN f \ {c}
  <1>1. DOMAIN f \subseteq Cells /\ \A d \in DOMAIN f : f[d] \in Values
    BY DEF Writes
  <1>2. Restrict(f, cs) \in [cs -> Values] /\ cs \in SUBSET Cells
    BY <1>1 DEF Restrict
  <1> QED  BY <1>2 DEF Writes, Restrict

\* The target as it will be is an array, and agrees with the kernel's writes.
LEMMA DrainedLemma ==
    ASSUME TypeOK
    PROVE  /\ Drained \in Arrays
           /\ \A c \in Cells : Drained[c] = IF c \in DOMAIN kernel THEN kernel[c] ELSE target[c]
  BY OverlayLemma DEF Drained, TypeOK

\* With no kernel outstanding the target is what it will be.
LEMMA DrainedIdle ==
    ASSUME TypeOK, kernel = Idle
    PROVE  \A c \in Cells : Drained[c] = target[c]
  BY DrainedLemma, IdleLemma

-----------------------------------------------------------------------------
LEMMA InitInv == Init => IndInv
  <1> SUFFICES ASSUME Init PROVE IndInv
    OBVIOUS
  <1>1. TypeOK
    BY IdleLemma, ZeroAssumption, SharedAssumption
    DEF Init, TypeOK, CtorUninitialized, CtorInitializer, States, Arrays
  <1>2. SyncedMeansEqual
    BY DEF Init, SyncedMeansEqual, CtorUninitialized, CtorInitializer
  <1>3. FlagMatchesViews /\ OutstandingKernelMarksHost
    BY SharedAssumption DEF Init, FlagMatchesViews, OutstandingKernelMarksHost,
                            CtorUninitialized, CtorInitializer
  <1> QED  BY <1>1, <1>2, <1>3 DEF IndInv

LEMMA StepInv == IndInv /\ [Next]_vars => IndInv'
  <1> SUFFICES ASSUME IndInv, [Next]_vars PROVE IndInv'
    OBVIOUS
  <1> USE SharedAssumption
  <1>0. TypeOK
    BY DEF IndInv
  <1>1. CASE GetTargetPtr
    <2>1. TypeOK'
      BY <1>0, <1>1 DEF GetTargetPtr, UpdateTarget, SetState, TypeOK, States, LiveAfter, ViewKinds
    <2>2. SyncedMeansEqual'
      BY <1>1 DEF GetTargetPtr, SetState, SyncedMeansEqual
    <2>3. FlagMatchesViews'
      BY <1>1 DEF GetTargetPtr, SetState, FlagMatchesViews, LiveAfter, Compatible,
                  HostKinds, TargetKinds, MutableKinds, IndInv
    <2>4. OutstandingKernelMarksHost'
      BY <1>1 DEF IndInv, GetTargetPtr, UpdateTarget, SetState, OutstandingKernelMarksHost
    <2> QED  BY <2>1, <2>2, <2>3, <2>4 DEF IndInv
  <1>2. CASE GetConstTargetPtr
    <2>1. TypeOK'
      BY <1>0, <1>2 DEF GetConstTargetPtr, UpdateTarget, SetState, TypeOK, States, LiveAfter, ViewKinds
    <2>2. SyncedMeansEqual'
      <3>1. CASE TargetStale
        <4>1. /\ kernel' = Idle /\ target' = host
              /\ host' = host /\ written' = written
          BY <1>2, <3>1 DEF GetConstTargetPtr, UpdateTarget
        <4>2. \A c \in Cells : Overlay(Idle, host)[c] = host[c]
          BY <1>0, OverlayLemma, IdleLemma DEF TypeOK
        <4> QED  BY <4>1, <4>2, <1>0 DEF SyncedMeansEqual, TypeOK, Drained
      <3>2. CASE ~TargetStale
        BY <1>2, <3>2 DEF GetConstTargetPtr, UpdateTarget, SetState, SyncedMeansEqual, IndInv, Drained
      <3> QED  BY <3>1, <3>2
    <2>3. FlagMatchesViews'
      BY <1>0, <1>2 DEF GetConstTargetPtr, SetState, FlagMatchesViews, LiveAfter, Compatible,
                  HostKinds, TargetKinds, MutableKinds, IndInv, TargetStale, TypeOK, States
    <2>4. OutstandingKernelMarksHost'
      BY <1>2 DEF IndInv, GetConstTargetPtr, UpdateTarget, SetState, OutstandingKernelMarksHost, TargetStale
    <2> QED  BY <2>1, <2>2, <2>3, <2>4 DEF IndInv
  <1>3. CASE GetHostPtr
    <2>1. TypeOK'
      BY <1>0, <1>3 DEF GetHostPtr, UpdateHost, SetState, TypeOK, States, LiveAfter, ViewKinds
    <2>2. SyncedMeansEqual'
      BY <1>3 DEF GetHostPtr, SetState, SyncedMeansEqual
    <2>3. FlagMatchesViews'
      BY <1>3 DEF GetHostPtr, SetState, FlagMatchesViews, LiveAfter, Compatible,
                  HostKinds, TargetKinds, MutableKinds, IndInv
    <2>4. OutstandingKernelMarksHost'
      BY <1>3 DEF IndInv, GetHostPtr, UpdateHost, SetState, OutstandingKernelMarksHost, HostStale
    <2> QED  BY <2>1, <2>2, <2>3, <2>4 DEF IndInv
  <1>4. CASE GetConstHostPtr
    <2>1. TypeOK'
      BY <1>0, <1>4 DEF GetConstHostPtr, UpdateHost, SetState, TypeOK, States, LiveAfter, ViewKinds
    <2>2. SyncedMeansEqual'
      <3>1. CASE HostStale
        <4>1. /\ kernel = Idle /\ kernel' = kernel /\ host' = target
              /\ target' = target /\ written' = written
          BY <1>4, <3>1 DEF GetConstHostPtr, UpdateHost
        <4> QED  BY <4>1, <2>1, <1>0, DrainedIdle DEF SyncedMeansEqual, TypeOK, Drained
      <3>2. CASE ~HostStale
        BY <1>4, <3>2 DEF GetConstHostPtr, UpdateHost, SetState, SyncedMeansEqual, IndInv, Drained
      <3> QED  BY <3>1, <3>2
    <2>3. FlagMatchesViews'
      BY <1>0, <1>4 DEF GetConstHostPtr, SetState, FlagMatchesViews, LiveAfter, Compatible,
                  HostKinds, TargetKinds, MutableKinds, IndInv, HostStale, TypeOK, States
    <2>4. OutstandingKernelMarksHost'
      BY <1>4 DEF IndInv, GetConstHostPtr, UpdateHost, SetState, OutstandingKernelMarksHost, HostStale
    <2> QED  BY <2>1, <2>2, <2>3, <2>4 DEF IndInv
  <1>5. CASE \E c \in Cells, v \in Values : HostWrite(c, v)
    <2> PICK c \in Cells, v \in Values : HostWrite(c, v)
      BY <1>5
    <2>1. TypeOK'
      BY <1>0 DEF HostWrite, TypeOK, Arrays
    <2>2. SyncedMeansEqual'
      BY DEF HostWrite, SyncedMeansEqual, FlagMatchesViews, IndInv
    <2>3. FlagMatchesViews' /\ OutstandingKernelMarksHost'
      BY DEF HostWrite, FlagMatchesViews, OutstandingKernelMarksHost, IndInv
    <2> QED  BY <2>1, <2>2, <2>3 DEF IndInv
  <1>6. CASE \E writes \in Writes : Compute(writes)
    <2> PICK writes \in Writes : Compute(writes)
      BY <1>6
    <2>1. TypeOK'
      BY <1>0, OverlayLemma, WritesDomain DEF Compute, TypeOK
    <2>2. SyncedMeansEqual'
      BY DEF Compute, SyncedMeansEqual, FlagMatchesViews, IndInv
    <2>3. FlagMatchesViews' /\ OutstandingKernelMarksHost'
      BY DEF Compute, FlagMatchesViews, OutstandingKernelMarksHost, IndInv
    <2> QED  BY <2>1, <2>2, <2>3 DEF IndInv
  <1>7. CASE \E c \in Cells : KernelThread(c)
    <2> PICK c \in Cells : KernelThread(c)
      BY <1>7
    <2>0. kernel[c] \in Values /\ kernel # Idle /\ state = "invalid_host"
      BY <1>0, IdleLemma DEF KernelThread, TypeOK, Writes, IndInv, OutstandingKernelMarksHost
    <2>1. TypeOK'
      BY <1>0, <2>0, RestrictLemma DEF KernelThread, TypeOK, Arrays
    <2>2. SyncedMeansEqual' /\ OutstandingKernelMarksHost'
      BY <2>0 DEF KernelThread, SyncedMeansEqual, OutstandingKernelMarksHost
    <2>3. FlagMatchesViews'
      BY DEF KernelThread, FlagMatchesViews, IndInv
    <2> QED  BY <2>1, <2>2, <2>3 DEF IndInv
  <1>8. CASE UNCHANGED vars
    BY <1>8 DEF vars, IndInv, TypeOK, SyncedMeansEqual, FlagMatchesViews, OutstandingKernelMarksHost, Drained
  <1> QED  BY <1>1, <1>2, <1>3, <1>4, <1>5, <1>6, <1>7, <1>8 DEF Next

(* The invariant that holds the flag, the views and the allocations together *)
(* is kept by every step: a store of any size is well typed, and no request  *)
(* for the host side can meet an unfinished kernel without waiting for it.   *)
THEOREM Invariance == Spec => [](TypeOK /\ OutstandingKernelMarksHost /\ IndInv)
  <1>1. IndInv => TypeOK /\ OutstandingKernelMarksHost
    BY DEF IndInv
  <1> QED  BY <1>1, InitInv, StepInv, PTL DEF Spec

\* The variables keep their types.
THEOREM TypeCorrect == Spec => []TypeOK
  BY Invariance, PTL

(* A read through a view that may still be used sees the array, whatever the *)
(* size of the store and the order of requests, writes and kernel threads.   *)
THEOREM ViewsAreCurrent == Spec => []LiveViewsSeeTheArray
  <1>1. ASSUME IndInv PROVE LiveViewsSeeTheArray
    <2> SUFFICES ASSUME NEW c \in written
                 PROVE  /\ live \cap HostKinds # {} => HostArray[c] = Array[c]
                        /\ live \cap TargetKinds # {} => Drained[c] = Array[c]
      BY DEF LiveViewsSeeTheArray
    <2>1. Array[c] = IF TargetStale THEN host[c] ELSE Drained[c]
      BY DEF Array
    <2>2. CASE Shared
      BY <2>1, <2>2 DEF HostArray, TargetStale
    <2>3. CASE ~Shared
      <3>1. state \in States /\ SyncedMeansEqual /\ FlagMatchesViews
        BY <1>1 DEF IndInv, TypeOK
      <3>2. live \cap HostKinds # {} => host[c] = Array[c]
        BY <2>1, <2>3, <3>1 DEF States, SyncedMeansEqual, FlagMatchesViews, HostKinds, TargetStale
      <3>3. live \cap TargetKinds # {} => Drained[c] = Array[c]
        BY <2>1, <2>3, <3>1 DEF FlagMatchesViews, TargetKinds, TargetStale
      <3> QED  BY <2>3, <3>2, <3>3 DEF HostArray
    <2> QED  BY <2>2, <2>3
  <1> QED  BY <1>1, Invariance, PTL
-----------------------------------------------------------------------------
\* The value behind an element: what Array holds at it.
Newest(c) == IF TargetStale THEN host[c] ELSE Drained[c]

LEMMA SameArray == ASSUME written' = written, \A c \in written : Newest(c)' = Newest(c)
                   PROVE  Array' = Array
  BY DEF Array, Newest

\* A request transfers, flags and leaves the array as it was.
LEMMA RequestsKeepArray ==
    ASSUME IndInv, GetTargetPtr \/ GetConstTargetPtr \/ GetHostPtr \/ GetConstHostPtr
    PROVE  Array' = Array
  <1>1. TypeOK /\ SyncedMeansEqual /\ written \subseteq Cells
    BY DEF IndInv, TypeOK
  <1>2. written' = written
    BY DEF GetTargetPtr, GetConstTargetPtr, GetHostPtr, GetConstHostPtr, UpdateTarget, UpdateHost
  <1> SUFFICES ASSUME NEW c \in written PROVE Newest(c)' = Newest(c)
    BY <1>2, SameArray
  <1>3. CASE GetTargetPtr \/ GetConstTargetPtr
    <2>1. CASE TargetStale
      <3>1. kernel' = Idle /\ target' = host /\ host' = host /\ ~TargetStale'
        BY <1>3, <2>1 DEF GetTargetPtr, GetConstTargetPtr, UpdateTarget, SetState, TargetStale
      <3>2. Overlay(Idle, host)[c] = host[c]
        BY <1>1, OverlayLemma, IdleLemma DEF TypeOK
      <3> QED  BY <2>1, <3>1, <3>2 DEF Newest, Drained
    <2>2. CASE ~TargetStale
      <3>1. kernel' = kernel /\ target' = target /\ host' = host /\ ~TargetStale'
        BY <1>3, <2>2 DEF GetTargetPtr, GetConstTargetPtr, UpdateTarget, SetState, TargetStale
      <3> QED  BY <2>2, <3>1 DEF Newest, Drained
    <2> QED  BY <2>1, <2>2
  <1>4. CASE GetHostPtr \/ GetConstHostPtr
    <2>1. CASE HostStale
      <3>1. /\ kernel = Idle /\ kernel' = kernel /\ target' = target
            /\ host' = target /\ ~TargetStale
        BY <1>4, <2>1 DEF GetHostPtr, GetConstHostPtr, UpdateHost, HostStale, TargetStale
      <3>2. Drained[c] = target[c] /\ Drained' = Drained
        BY <1>1, <3>1, DrainedIdle DEF Drained
      <3> QED  BY <3>1, <3>2 DEF Newest
    <2>2. CASE ~HostStale
      <3>1. kernel' = kernel /\ target' = target /\ host' = host
        BY <1>4, <2>2 DEF GetHostPtr, GetConstHostPtr, UpdateHost
      <3>2. Shared \/ state \in {"synced", "invalid_target"}
        BY <1>1, <2>2 DEF HostStale, TypeOK, States
      <3>3. ~Shared /\ state = "synced" => host[c] = Drained[c]
        BY <1>1 DEF SyncedMeansEqual
      <3>4. CASE Shared
        BY <3>1, <3>4 DEF Newest, TargetStale, Drained
      <3>5. CASE ~Shared
        <4>1. Newest(c) = host[c]
          BY <3>2, <3>3, <3>5 DEF Newest, TargetStale
        <4>2. state' \in {"invalid_target", state}
          BY <1>4, <2>2, <3>5 DEF GetHostPtr, GetConstHostPtr, SetState, HostStale
        <4> QED  BY <3>1, <3>2, <3>3, <3>5, <4>1, <4>2 DEF Newest, TargetStale, Drained
      <3> QED  BY <3>4, <3>5
    <2> QED  BY <2>1, <2>2
  <1> QED  BY <1>3, <1>4

\* Threads and host writes act on single elements.
LEMMA PointWrite ==
    ASSUME NEW c \in Cells, NEW v \in Values
    PROVE  /\ [x \in {c} |-> v] \in Writes
           /\ \A g \in Arrays : Overlay([x \in {c} |-> v], g) = [g EXCEPT ![c] = v]
  <1> DEFINE w == [x \in {c} |-> v]
  <1>1. w \in [{c} -> Values] /\ {c} \in SUBSET Cells
    OBVIOUS
  <1>2. w \in Writes
    BY <1>1 DEF Writes
  <1>3. ASSUME NEW g \in Arrays PROVE Overlay(w, g) = [g EXCEPT ![c] = v]
    BY <1>1 DEF Overlay, Arrays
  <1> QED  BY <1>2, <1>3

\* A write through a live host view is a write of one element of the array.
LEMMA HostWriteIsWrite ==
    ASSUME IndInv, NEW c \in Cells, NEW v \in Values, HostWrite(c, v)
    PROVE  \E writes \in Writes : Abstract!Write("host", writes)
  <1> DEFINE w == [x \in {c} |-> v]
  <1>1. w \in Writes /\ DOMAIN w = {c} /\ w[c] = v
    BY PointWrite
  <1>2. TypeOK /\ FlagMatchesViews /\ OutstandingKernelMarksHost
    BY DEF IndInv
  <1>3. /\ "host" \in live /\ live' = live /\ state' = state /\ kernel' = kernel
        /\ written' = written \cup {c} /\ written \subseteq Cells
    BY <1>2 DEF HostWrite, TypeOK
  <1>4. \A x \in written' : Newest(x)' = IF x = c THEN v ELSE Newest(x)
    <2>1. CASE Shared
      <3>1. /\ kernel = Idle /\ ~TargetStale /\ ~TargetStale'
            /\ target' = [target EXCEPT ![c] = v] /\ target \in Arrays
        BY <1>2, <2>1 DEF FlagMatchesViews, OutstandingKernelMarksHost, HostWrite, TargetStale, TypeOK
      <3>2. target' \in Arrays
        BY <3>1 DEF Arrays
      <3>3. \A x \in Cells : Overlay(Idle, target)[x] = target[x] /\ Overlay(Idle, target')[x] = target'[x]
        BY <3>1, <3>2, OverlayLemma, IdleLemma
      <3>4. \A x \in Cells : Newest(x)' = target'[x] /\ Newest(x) = target[x]
        BY <1>3, <3>1, <3>3 DEF Newest, Drained
      <3> QED  BY <1>3, <3>1, <3>4 DEF Arrays
    <2>2. CASE ~Shared
      <3>1. TargetStale /\ TargetStale' /\ host' = [host EXCEPT ![c] = v] /\ host \in [Cells -> Values]
        BY <1>2, <1>3, <2>2 DEF FlagMatchesViews, TargetStale, HostWrite, TypeOK, Arrays
      <3> QED  BY <1>3, <3>1 DEF Newest
    <2> QED  BY <2>1, <2>2
  <1>5. Array' = Overlay(w, Array)
    BY <1>1, <1>3, <1>4 DEF Array, Overlay, Newest
  <1> QED  BY <1>1, <1>3, <1>5 DEF Abstract!Write, Abstract!MutableKinds, Abstract!Overlay, Overlay

\* A computation writes its elements of the array at once, whenever its
\* threads will run.
LEMMA ComputeIsWrite ==
    ASSUME IndInv, NEW writes \in Writes, Compute(writes)
    PROVE  Abstract!Write("target", writes)
  <1>1. TypeOK /\ FlagMatchesViews
    BY DEF IndInv
  <1>2. /\ "target" \in live /\ live' = live /\ state' = state /\ kernel = Idle
        /\ written' = written \cup DOMAIN writes /\ written' \subseteq Cells
        /\ ~TargetStale /\ ~TargetStale'
    BY <1>1, WritesDomain DEF Compute, TypeOK, FlagMatchesViews, TargetStale
  <1>3. \A x \in Cells : /\ Overlay(writes, target)[x] = IF x \in DOMAIN writes THEN writes[x] ELSE target[x]
                         /\ Overlay(Idle, target)[x] = target[x]
                         /\ Overlay(Idle, Overlay(writes, target))[x] = Overlay(writes, target)[x]
    BY <1>1, OverlayLemma, IdleLemma DEF TypeOK
  <1>4. \A x \in Cells : Drained'[x] = IF x \in DOMAIN writes THEN writes[x] ELSE Drained[x]
    BY <1>2, <1>3 DEF Compute, Drained
  <1>5. Array' = Overlay(writes, Array)
    BY <1>2, <1>4 DEF Array, Overlay
  <1> QED  BY <1>2, <1>5 DEF Abstract!Write, Abstract!MutableKinds, Abstract!Overlay, Overlay

LEMMA KernelThreadKeepsArray ==
    ASSUME IndInv, NEW c \in Cells, KernelThread(c)
    PROVE  Array' = Array
  <1>1. TypeOK /\ TypeOK'
    BY StepInv DEF IndInv, Next
  <1>2. /\ DOMAIN kernel' = DOMAIN kernel \ {c}
        /\ \A d \in DOMAIN kernel \ {c} : kernel'[d] = kernel[d]
    <2>1. kernel \in Writes
      BY <1>1 DEF TypeOK
    <2>2. kernel' = Restrict(kernel, DOMAIN kernel \ {c})
      BY DEF KernelThread
    <2> QED  BY <2>1, <2>2, RestrictLemma
  <1>3. \A x \in Cells : Drained[x] = IF x \in DOMAIN kernel THEN kernel[x] ELSE target[x]
    BY <1>1, DrainedLemma
  <1>4. \A x \in Cells : Overlay(kernel', target')[x] = IF x \in DOMAIN kernel' THEN kernel'[x] ELSE target'[x]
    BY <1>1, OverlayLemma DEF TypeOK
  <1>5. \A x \in Cells : Drained'[x] = Drained[x]
    BY <1>1, <1>2, <1>3, <1>4 DEF KernelThread, Drained, TypeOK, Arrays
  <1> QED  BY <1>1, <1>5, SameArray DEF KernelThread, Newest, TargetStale, TypeOK

(* The data store implements one array: every step of the two allocations,   *)
(* their flag and the outstanding kernel is a request, a write or nothing.   *)
THEOREM Refinement == Spec => ImplementsLogicalArray
  <1>1. Init => Abstract!Init
    <2> SUFFICES ASSUME Init PROVE Abstract!Init
      OBVIOUS
    <2>1. TypeOK
      BY InitInv DEF IndInv
    <2>2. CASE written = {}
      BY <2>2 DEF Init, Abstract!Init, Array
    <2>3. CASE written = Cells
      <3>1. Array \in [Cells -> Values]
        BY <2>1, <2>3, DrainedLemma DEF Array, TypeOK, Arrays
      <3> QED  BY <3>1 DEF Init, Abstract!Init
    <2> QED  BY <2>2, <2>3 DEF Init, CtorUninitialized, CtorInitializer
  <1>2. IndInv /\ [Next]_vars => [Abstract!Next]_<<Array, live>>
    <2> SUFFICES ASSUME IndInv, [Next]_vars PROVE [Abstract!Next]_<<Array, live>>
      OBVIOUS
    <2> USE DEF Abstract!Next
    <2>1. CASE GetTargetPtr \/ GetConstTargetPtr \/ GetHostPtr \/ GetConstHostPtr
      <3>1. Array' = Array
        BY <2>1, RequestsKeepArray
      <3>2. \E k \in ViewKinds : live' = LiveAfter(live, k)
        BY <2>1 DEF GetTargetPtr, GetConstTargetPtr, GetHostPtr, GetConstHostPtr, ViewKinds
      <3> QED  BY <3>1, <3>2 DEF Abstract!Request, Abstract!ViewKinds, ViewKinds,
                 Abstract!LiveAfter, LiveAfter, Abstract!Compatible, Compatible, HostKinds,
                 TargetKinds, MutableKinds, Abstract!HostKinds, Abstract!TargetKinds, Abstract!MutableKinds
    <2>2. CASE \E c \in Cells, v \in Values : HostWrite(c, v)
      BY <2>2, HostWriteIsWrite DEF Abstract!MutableKinds, Abstract!Writes, Writes
    <2>3. CASE \E writes \in Writes : Compute(writes)
      BY <2>3, ComputeIsWrite DEF Abstract!MutableKinds, Abstract!Writes, Writes
    <2>4. CASE \E c \in Cells : KernelThread(c)
      BY <2>4, KernelThreadKeepsArray DEF KernelThread
    <2>5. CASE UNCHANGED vars
      BY <2>5 DEF vars, Array, Drained, TargetStale
    <2> QED  BY <2>1, <2>2, <2>3, <2>4, <2>5 DEF Next
  <1> QED  BY <1>1, <1>2, Invariance, PTL DEF Spec, ImplementsLogicalArray, Abstract!Spec

-----------------------------------------------------------------------------
(* The atomic functions are atomic.                                          *)
Phases == {"before", "loop", "inside"}

Types ==
  /\ cell \in Int
  /\ todo \in [Workers -> Seq(Operations)]
  /\ returned \in [Workers -> Int]
  /\ phase \in [Workers -> Phases]
  /\ old \in [Workers -> Int]

\* A worker in a loop has something to do with the value it read.
LoopsImprove ==
  \A w \in Workers : phase[w] = "loop" =>
    /\ Busy(w) /\ Current(w).how \in {"cas", "compare"}
    /\ Current(w).how = "compare" => ~NothingToDo(Current(w), old[w])

\* A worker in a critical section has read the value the variable still has ...
SectionsHold ==
  \A w \in Workers : phase[w] = "inside" => Busy(w) /\ Current(w).how = "critical" /\ old[w] = cell

\* ... because it is alone.
SectionsExclude == \A u, w \in Workers : phase[u] = "inside" /\ phase[w] = "inside" => u = w

AtomicInv == Types /\ MayMix(todo) /\ LoopsImprove /\ SectionsHold /\ SectionsExclude

-----------------------------------------------------------------------------
(* Facts about values and sequences of operations.                           *)

\* An operation gives a number.
LEMMA ApplyType ==
    ASSUME NEW op, NEW a \in Int, NEW b \in Int
    PROVE  Apply(op, a, b) \in Int
  BY DEF Apply, Reference!Apply

\* A minimum or maximum with nothing to do leaves the value, another one puts its own.
LEMMA ApplyCompare ==
    ASSUME NEW o \in Operations, o.how = "compare", NEW a \in Int
    PROVE  Apply(o.op, a, o.val) = IF NothingToDo(o, a) THEN a ELSE o.val
  <1>1. o.op \in {"min", "max"} /\ o.val \in Int
    BY DEF Operations
  <1>2. CASE o.op = "min"
    BY <1>1, <1>2 DEF Apply, Reference!Apply, NothingToDo
  <1>3. CASE o.op = "max"
    BY <1>1, <1>3 DEF Apply, Reference!Apply, NothingToDo
  <1> QED  BY <1>1, <1>2, <1>3

\* The operation of a worker that has one.
LEMMA CurrentType ==
    ASSUME Types, NEW w \in Workers, Busy(w)
    PROVE  Current(w) \in Operations /\ Current(w).val \in Int
  <1>1. todo[w] \in Seq(Operations) /\ todo[w] # <<>>
    BY DEF Types, Busy
  <1>2. Current(w) \in Operations
    BY <1>1 DEF Current
  <1> QED  BY <1>2 DEF Operations

\* What is left after an operation.
LEMMA Rest ==
    ASSUME NEW s \in Seq(Operations), s # <<>>
    PROVE  /\ Tail(s) \in Seq(Operations) /\ Len(Tail(s)) = Len(s) - 1 /\ Len(s) \in Nat \ {0}
           /\ \A n \in 1..Len(Tail(s)) : Tail(s)[n] = s[n + 1] /\ n + 1 \in 1..Len(s)
  OBVIOUS

\* Operations stay compatible when one is done.
LEMMA MixStays ==
    ASSUME Types, MayMix(todo), NEW w \in Workers, Busy(w),
           todo' = [todo EXCEPT ![w] = Tail(@)]
    PROVE  todo' \in [Workers -> Seq(Operations)] /\ MayMix(todo')
  <1>1. todo[w] \in Seq(Operations) /\ todo[w] # <<>>
    BY DEF Types, Busy
  <1>2. ASSUME NEW u \in Workers
        PROVE  /\ Len(todo[u]) \in Nat /\ Len(todo'[u]) \in Nat
               /\ \A n \in 1..Len(todo'[u]) : \E m \in 1..Len(todo[u]) : todo'[u][n] = todo[u][m]
    <2>1. CASE u = w
      <3>1. todo'[u] = Tail(todo[w])
        BY <2>1 DEF Types
      <3> QED  BY <1>1, <2>1, <3>1, Rest
    <2>2. CASE u # w
      <3>1. todo'[u] = todo[u] /\ todo[u] \in Seq(Operations)
        BY <2>2 DEF Types
      <3> QED  BY <3>1
    <2> QED  BY <2>1, <2>2
  <1>3. todo' \in [Workers -> Seq(Operations)]
    BY <1>1, Rest DEF Types
  <1>4. MayMix(todo')
    <2> SUFFICES ASSUME NEW u \in Workers, NEW v \in Workers,
                        NEW m \in 1..Len(todo'[u]), NEW n \in 1..Len(todo'[v]),
                        todo'[u][m].how = "critical"
                 PROVE  todo'[v][n].how = "critical" /\ todo'[v][n].op = todo'[u][m].op
      BY DEF MayMix
    <2>1. PICK k \in 1..Len(todo[u]) : todo'[u][m] = todo[u][k]
      BY <1>2
    <2>2. PICK l \in 1..Len(todo[v]) : todo'[v][n] = todo[v][l]
      BY <1>2
    <2>3. todo[u][k].how = "critical"
      BY <2>1
    <2>4. todo[v][l].how = "critical" /\ todo[v][l].op = todo[u][k].op
      BY <2>3 DEF MayMix
    <2> QED  BY <2>1, <2>2, <2>4
  <1> QED  BY <1>3, <1>4

\* Whoever works in a critical section, or is about to, keeps all others out of loops, and
\* all work in sections of one name.
LEMMA CriticalForAll ==
    ASSUME Types, MayMix(todo), NEW u \in Workers, NEW w \in Workers, Busy(u), Busy(w),
           Current(u).how = "critical"
    PROVE  Current(w).how = "critical" /\ Current(w).op = Current(u).op
  <1>1. /\ todo[u] \in Seq(Operations) /\ todo[u] # <<>>
        /\ todo[w] \in Seq(Operations) /\ todo[w] # <<>>
    BY DEF Types, Busy
  <1>2. 1 \in 1..Len(todo[u]) /\ 1 \in 1..Len(todo[w])
    BY <1>1
  <1> QED  BY <1>2 DEF MayMix, Current

-----------------------------------------------------------------------------
(* The invariant.                                                            *)

\* A worker returns, the variable changes only if nobody else is in a section.
LEMMA ReturnKeeps ==
    ASSUME AtomicInv, NEW w \in Workers, Busy(w), NEW value \in Int, Return(w, value),
           cell' \in Int, cell' = cell \/ \A u \in Workers \ {w} : phase[u] # "inside"
    PROVE  AtomicInv'
  <1>1. /\ returned' = [returned EXCEPT ![w] = value]
        /\ todo' = [todo EXCEPT ![w] = Tail(@)]
        /\ phase' = [phase EXCEPT ![w] = "before"]
        /\ old' = old
    BY DEF Return
  <1>2. todo' \in [Workers -> Seq(Operations)] /\ MayMix(todo)'
    BY <1>1, MixStays DEF AtomicInv, MayMix
  <1>3. Types'
    BY <1>1, <1>2 DEF AtomicInv, Types, Phases
  <1>4. phase'[w] = "before"
    BY <1>1 DEF AtomicInv, Types
  <1>5. ASSUME NEW u \in Workers, u # w
        PROVE  phase'[u] = phase[u] /\ todo'[u] = todo[u] /\ old'[u] = old[u]
    BY <1>1, <1>5 DEF AtomicInv, Types
  <1>6. LoopsImprove'
    BY <1>4, <1>5 DEF AtomicInv, LoopsImprove, Busy, Current
  <1>7. SectionsHold'
    <2> SUFFICES ASSUME NEW u \in Workers, phase'[u] = "inside"
                 PROVE  Busy(u)' /\ Current(u)'.how = "critical" /\ old'[u] = cell'
      BY DEF SectionsHold
    <2>1. u # w
      BY <1>4
    <2>2. phase[u] = "inside" /\ cell' = cell
      BY <1>5, <2>1
    <2> QED  BY <1>5, <2>1, <2>2 DEF AtomicInv, SectionsHold, Busy, Current
  <1>8. SectionsExclude'
    BY <1>4, <1>5 DEF AtomicInv, SectionsExclude
  <1> QED  BY <1>2, <1>3, <1>6, <1>7, <1>8 DEF AtomicInv

\* Nobody is in a section while a worker is at an operation of another kind.
LEMMA NobodyInside ==
    ASSUME AtomicInv, NEW w \in Workers, Busy(w), Current(w).how # "critical"
    PROVE  \A u \in Workers : phase[u] # "inside"
  BY CriticalForAll DEF AtomicInv, SectionsHold

LEMMA InitKeeps == AtomicInit => AtomicInv
  <1> SUFFICES ASSUME AtomicInit PROVE AtomicInv
    OBVIOUS
  <1>1. Types
    BY DEF AtomicInit, Types, Phases
  <1>2. \A w \in Workers : Len(todo[w]) = 0 /\ phase[w] = "before"
    BY DEF AtomicInit
  <1> QED  BY <1>1, <1>2 DEF AtomicInv, MayMix, LoopsImprove, SectionsHold, SectionsExclude

LEMMA BeginKeeps ==
    ASSUME AtomicInv, NEW value \in Int, NEW td \in [Workers -> Seq(Operations)],
           MayMix(td), Begin(value, td)
    PROVE  AtomicInv'
  <1>1. \A w \in Workers : phase[w] = "before"
    BY DEF AtomicInv, Types, Phases, Begin, NoneBusy, LoopsImprove, SectionsHold
  <1> QED  BY <1>1 DEF AtomicInv, Types, Begin, LoopsImprove, SectionsHold, SectionsExclude, MayMix

\* A worker reads the variable and begins, or goes on with, a loop.
LEMMA LoopKeeps ==
    ASSUME AtomicInv, NEW w \in Workers, Busy(w), Current(w).how \in {"cas", "compare"},
           ~(Current(w).how = "compare" /\ NothingToDo(Current(w), cell)),
           old' = [old EXCEPT ![w] = cell], phase' = [phase EXCEPT ![w] = "loop"],
           UNCHANGED <<cell, todo, returned>>
    PROVE  AtomicInv'
  <1>1. Types' /\ MayMix(todo)'
    BY DEF AtomicInv, Types, Phases, MayMix
  <1>2. phase'[w] = "loop" /\ old'[w] = cell /\ \A u \in Workers \ {w} : phase'[u] = phase[u] /\ old'[u] = old[u]
    BY DEF AtomicInv, Types
  <1>3. LoopsImprove'
    BY <1>2 DEF AtomicInv, LoopsImprove, Busy, Current, NothingToDo
  <1>4. SectionsHold' /\ SectionsExclude'
    BY <1>2 DEF AtomicInv, SectionsHold, SectionsExclude, Busy, Current
  <1> QED  BY <1>1, <1>3, <1>4 DEF AtomicInv

LEMMA EnterKeeps ==
    ASSUME AtomicInv, NEW w \in Workers, Enter(w)
    PROVE  AtomicInv'
  <1>1. \A u \in Workers : phase[u] # "inside"
    BY CriticalForAll DEF AtomicInv, SectionsHold, Enter
  <1>2. Types' /\ MayMix(todo)'
    BY DEF AtomicInv, Types, Phases, Enter, MayMix
  <1>3. /\ phase'[w] = "inside" /\ old'[w] = cell' /\ todo' = todo
        /\ \A u \in Workers \ {w} : phase'[u] = phase[u] /\ old'[u] = old[u]
    BY DEF AtomicInv, Types, Enter
  <1>4. LoopsImprove'
    BY <1>3 DEF AtomicInv, LoopsImprove, Busy, Current, NothingToDo
  <1>5. SectionsHold' /\ SectionsExclude'
    BY <1>1, <1>3 DEF Enter, SectionsHold, SectionsExclude, Busy, Current
  <1> QED  BY <1>2, <1>4, <1>5 DEF AtomicInv

LEMMA StepKeeps ==
    ASSUME AtomicInv, NEW w \in Workers, WorkerStep(w)
    PROVE  AtomicInv'
  <1>1. Types /\ LoopsImprove /\ SectionsHold /\ SectionsExclude /\ cell \in Int /\ old[w] \in Int
    BY DEF AtomicInv, Types
  <1>2. CASE Direct(w)
    <2>1. Busy(w) /\ Current(w).how = "direct" /\ Return(w, cell)
      BY <1>2 DEF Direct
    <2>2. cell' \in Int
      BY <1>1, <1>2, <2>1, ApplyType, CurrentType DEF Direct
    <2>3. \A u \in Workers : phase[u] # "inside"
      BY <2>1, NobodyInside
    <2> QED  BY <1>1, <2>1, <2>2, <2>3, ReturnKeeps
  <1>3. CASE Load(w)
    BY <1>3, LoopKeeps DEF Load
  <1>4. CASE LoadAndReturn(w)
    BY <1>1, <1>4, ReturnKeeps DEF LoadAndReturn
  <1>5. CASE Swap(w)
    <2>1. Busy(w) /\ Current(w).how \in {"cas", "compare"} /\ Return(w, old[w])
      BY <1>1, <1>5 DEF Swap, LoopsImprove
    <2>2. cell' \in Int
      BY <1>1, <1>5, <2>1, ApplyType, CurrentType DEF Swap
    <2>3. \A u \in Workers : phase[u] # "inside"
      BY <2>1, NobodyInside
    <2> QED  BY <1>1, <2>1, <2>2, <2>3, ReturnKeeps
  <1>6. CASE SwapFails(w)
    <2>1. Current(w).how \in {"cas", "compare"}
      BY <1>1, <1>6 DEF SwapFails, LoopsImprove
    <2>2. phase' = [phase EXCEPT ![w] = "loop"]
      BY <1>1, <1>6 DEF SwapFails, Types
    <2> QED  BY <1>6, <2>1, <2>2, LoopKeeps DEF SwapFails
  <1>7. CASE SwapNeedless(w)
    BY <1>1, <1>7, ReturnKeeps DEF SwapNeedless
  <1>8. CASE Enter(w)
    BY <1>8, EnterKeeps
  <1>9. CASE Leave(w)
    <2>1. Busy(w) /\ Return(w, old[w])
      BY <1>9 DEF Leave
    <2>2. cell' \in Int
      BY <1>1, <1>9, <2>1, ApplyType, CurrentType DEF Leave
    <2>3. \A u \in Workers \ {w} : phase[u] # "inside"
      BY <1>1, <1>9 DEF Leave, SectionsExclude
    <2> QED  BY <1>1, <2>1, <2>2, <2>3, ReturnKeeps
  <1> QED  BY <1>2, <1>3, <1>4, <1>5, <1>6, <1>7, <1>8, <1>9 DEF WorkerStep

\* In every state: types, compatible operations, and what workers have read is what their
\* next step relies on, in loops and in critical sections.
THEOREM AtomicInvariant == AtomicSpec => []AtomicInv
  <1>1. AtomicInv /\ [AtomicNext]_atomicVars => AtomicInv'
    <2> SUFFICES ASSUME AtomicInv, [AtomicNext]_atomicVars PROVE AtomicInv'
      OBVIOUS
    <2>1. CASE AtomicNext
      BY <2>1, BeginKeeps, StepKeeps DEF AtomicNext
    <2>2. CASE UNCHANGED atomicVars
      BY <2>2 DEF atomicVars, AtomicInv, Types, MayMix, LoopsImprove, SectionsHold, SectionsExclude,
                  Busy, Current, NothingToDo
    <2> QED  BY <2>1, <2>2
  <1> QED  BY <1>1, InitKeeps, PTL DEF AtomicSpec

-----------------------------------------------------------------------------
(* The refinement.                                                           *)

\* Where an operation takes effect, it does so on the value the variable has, and returns it.
LEMMA PerformFrom ==
    ASSUME AtomicInv, NEW w \in Workers, Busy(w), Return(w, cell),
           cell' = Apply(Current(w).op, cell, Current(w).val)
    PROVE  Reference!Perform(w)
  BY DEF Reference!Perform, Return, Busy, Current, Apply

LEMMA StepImplements ==
    ASSUME AtomicInv, NEW w \in Workers, WorkerStep(w)
    PROVE  Reference!Perform(w) \/ UNCHANGED Reference!vars
  <1>1. Types /\ LoopsImprove /\ SectionsHold /\ cell \in Int
    BY DEF AtomicInv, Types
  <1>2. CASE Direct(w)
    BY <1>2, PerformFrom DEF Direct
  <1>3. CASE LoadAndReturn(w) \/ SwapNeedless(w)
    <2>1. /\ Busy(w) /\ Current(w).how = "compare" /\ NothingToDo(Current(w), cell)
          /\ Return(w, cell) /\ cell' = cell
      BY <1>3 DEF LoadAndReturn, SwapNeedless
    <2>2. Apply(Current(w).op, cell, Current(w).val) = cell
      BY <1>1, <2>1, CurrentType, ApplyCompare
    <2> QED  BY <2>1, <2>2, PerformFrom
  <1>4. CASE Swap(w)
    <2>1. Busy(w) /\ Return(w, cell)
      BY <1>4 DEF Swap
    <2>2. cell' = Apply(Current(w).op, cell, Current(w).val)
      <3>1. CASE Current(w).how = "compare"
        <4>1. ~NothingToDo(Current(w), cell) /\ cell' = Current(w).val
          BY <1>1, <1>4, <3>1 DEF Swap, LoopsImprove
        <4> QED  BY <1>1, <2>1, <3>1, <4>1, CurrentType, ApplyCompare
      <3>2. CASE Current(w).how # "compare"
        BY <1>4, <3>2 DEF Swap
      <3> QED  BY <3>1, <3>2
    <2> QED  BY <2>1, <2>2, PerformFrom
  <1>5. CASE Leave(w)
    <2>1. Busy(w) /\ Return(w, cell) /\ cell' = Apply(Current(w).op, cell, Current(w).val)
      BY <1>1, <1>5 DEF Leave, SectionsHold
    <2> QED  BY <2>1, PerformFrom
  <1>6. CASE Load(w) \/ SwapFails(w) \/ Enter(w)
    BY <1>6 DEF Load, SwapFails, Enter, Reference!vars
  <1> QED  BY <1>2, <1>3, <1>4, <1>5, <1>6 DEF WorkerStep

\* The atomic functions are atomic, on every platform, for all types, any number of workers,
\* any operations and values: each takes effect at once and returns the value before it,
\* although loops read first and swap later, and sections read and write in steps.
THEOREM AtomicFunctions == AtomicSpec => ImplementsRegister
  <1>1. AtomicInit => Reference!Init
    BY DEF AtomicInit, Reference!Init
  <1>2. AtomicInv /\ [AtomicNext]_atomicVars => [Reference!Next]_Reference!vars
    <2> SUFFICES ASSUME AtomicInv, [AtomicNext]_atomicVars
                 PROVE  Reference!Next \/ UNCHANGED Reference!vars
      OBVIOUS
    <2>1. ASSUME NEW value \in Int, NEW td, Begin(value, td)
          PROVE  Reference!Start
      BY <2>1 DEF Begin, NoneBusy, Busy, Reference!Start
    <2>2. ASSUME NEW w \in Workers, WorkerStep(w)
          PROVE  Reference!Next \/ UNCHANGED Reference!vars
      BY <2>2, StepImplements DEF Reference!Next
    <2>3. CASE UNCHANGED atomicVars
      BY <2>3 DEF atomicVars, Reference!vars
    <2> QED  BY <2>1, <2>2, <2>3 DEF AtomicNext, Reference!Next
  <1> QED  BY <1>1, <1>2, AtomicInvariant, PTL DEF AtomicSpec, ImplementsRegister, Reference!Spec

-----------------------------------------------------------------------------
(* Induction on the natural numbers, with a set in place of a predicate: the *)
(* intervals 0..n are finite sets, which have no infinite descent.           *)
\* A set of natural numbers that is not empty has a least element.
LEMMA LeastNatural ==
    ASSUME NEW T \in SUBSET Nat, T # {}
    PROVE  \E m \in T : \A k \in T : m <= k
  <1> DEFINE I(n) == 0..n
             TT == { I(n) : n \in T }
             R == StrictSubsetOrdering(Nat)
  <1>1. TT \subseteq FiniteSubsetsOf(Nat)
    <2> SUFFICES ASSUME NEW n \in T PROVE I(n) \in FiniteSubsetsOf(Nat)
      OBVIOUS
    <2>1. n \in Int /\ 0 \in Int /\ 0..n \in SUBSET Nat
      OBVIOUS
    <2>2. IsFiniteSet(0..n)
      BY <2>1, FS_Interval
    <2> QED  BY <2>1, <2>2 DEF FiniteSubsetsOf
  <1>2. TT # {}
    OBVIOUS
  <1>3. IsWellFoundedOn(R, FiniteSubsetsOf(Nat))
    BY FS_StrictSubsetOrderingWellFounded
  <1>4. PICK x \in TT : \A y \in TT : ~ (<<y, x>> \in R)
    <2> HIDE DEF R, TT
    <2> QED  BY <1>1, <1>2, <1>3, WFMin
  <1>5. PICK m \in T : x = I(m)
    OBVIOUS
  <1>6. ASSUME NEW k \in T, k < m PROVE FALSE
    <2>1. I(k) \in TT
      OBVIOUS
    <2>2. I(k) \subseteq I(m) /\ I(k) # I(m)
      <3>1. m \in I(m) /\ m \notin I(k)
        BY <1>6
      <3> QED  BY <1>6, <3>1
    <2>3. <<I(k), x>> \in R
      BY <2>2, <1>5 DEF StrictSubsetOrdering
    <2> QED  BY <2>1, <2>3, <1>4
  <1> QED  BY <1>6

\* A set with zero and the successor of all its elements has all numbers.
LEMMA SetInduction ==
    ASSUME NEW S, 0 \in S, \A n \in Nat : n \in S => n + 1 \in S
    PROVE  Nat \subseteq S
  <1> SUFFICES ASSUME Nat \ S # {} PROVE FALSE
    OBVIOUS
  <1>1. PICK m \in Nat \ S : \A k \in Nat \ S : m <= k
    BY LeastNatural
  <1>2. m - 1 \in Nat /\ m - 1 \in S
    BY <1>1
  <1> QED  BY <1>1, <1>2

-----------------------------------------------------------------------------
(* Sums over the dimensions of a storage.                                    *)
Some(s) == CHOOSE x \in s : TRUE

\* What holds of the empty set, and of a set if it holds without one of its elements.
LEMMA SubsetInduction ==
    ASSUME NEW S, IsFiniteSet(S), NEW Q, {} \in Q,
           \A s \in SUBSET S : s # {} /\ s \ {Some(s)} \in Q => s \in Q
    PROVE  SUBSET S \subseteq Q
  <1> DEFINE X == {n \in Nat : \A s \in SUBSET S : Cardinality(s) = n => s \in Q}
  <1>1. 0 \in X
    <2>1. ASSUME NEW s \in SUBSET S, Cardinality(s) = 0 PROVE s \in Q
      <3>1. IsFiniteSet(s)
        BY FS_Subset
      <3>2. s = {}
        BY <2>1, <3>1, FS_EmptySet
      <3> QED  BY <3>2
    <2> QED  BY <2>1
  <1>2. ASSUME NEW n \in Nat, n \in X PROVE n + 1 \in X
    <2>1. ASSUME NEW s \in SUBSET S, Cardinality(s) = n + 1 PROVE s \in Q
      <3>1. IsFiniteSet(s)
        BY FS_Subset
      <3>2. s # {}
        BY <2>1, FS_EmptySet
      <3>3. Some(s) \in s
        BY <3>2 DEF Some
      <3>4. Cardinality(s \ {Some(s)}) = n
        <4>1. Cardinality(s \ {Some(s)}) = Cardinality(s) - 1
          BY <3>1, <3>3, FS_RemoveElement
        <4> QED  BY <2>1, <4>1
      <3>5. s \ {Some(s)} \in Q
        BY <1>2, <3>4
      <3> QED  BY <3>2, <3>5
    <2> QED  BY <2>1
  <1>3. Nat \subseteq X
    <2> HIDE DEF X
    <2> QED  BY <1>1, <1>2, SetInduction
  <1>4. ASSUME NEW s \in SUBSET S PROVE s \in Q
    <2>1. Cardinality(s) \in Nat
      BY FS_Subset, FS_CardinalityType
    <2> QED  BY <1>3, <2>1
  <1> QED  BY <1>4

\* The sums over all subsets.
Sums(f, iter) ==
    LET S == DOMAIN f IN
    /\ iter \in [SUBSET S -> Int]
    /\ \A s \in SUBSET S : iter[s] = IF s = {} THEN 0 ELSE f[Some(s)] + iter[s \ {Some(s)}]
    /\ SumFunction(f) = iter[S]

LEMMA SumSteps ==
    ASSUME NEW S, IsFiniteSet(S), NEW f \in [S -> Int]
    PROVE  \E iter : Sums(f, iter)
  <1> DEFINE OneMore(g) == [s \in SUBSET S |-> IF s = {} THEN 0 ELSE f[Some(s)] + g[s \ {Some(s)}]]
             Rounds(n) == {g \in [SUBSET S -> Int] : 
                              \A s \in SUBSET S : Cardinality(s) <= n => g[s] = OneMore(g)[s]}
             X == {n \in Nat : Rounds(n) # {}}
  <1>0. \A s \in SUBSET S : s # {} => Some(s) \in s /\ Some(s) \in S /\ f[Some(s)] \in Int
    BY DEF Some
  <1>t. ASSUME NEW g \in [SUBSET S -> Int] PROVE OneMore(g) \in [SUBSET S -> Int]
    BY <1>0
  <1>c. \A s \in SUBSET S : IsFiniteSet(s) /\ Cardinality(s) \in Nat
    BY FS_Subset, FS_CardinalityType
  <1>r. \A s \in SUBSET S : s # {} => Cardinality(s \ {Some(s)}) = Cardinality(s) - 1 /\ Cardinality(s) # 0
    BY <1>0, <1>c, FS_RemoveElement, FS_EmptySet
  <1>1. 0 \in X
    <2> DEFINE g == [s \in SUBSET S |-> 0]
    <2>1. ASSUME NEW s \in SUBSET S, Cardinality(s) <= 0 PROVE g[s] = OneMore(g)[s]
      <3>1. s = {}
        <4> SUFFICES ASSUME s # {} PROVE FALSE
          OBVIOUS
        <4>1. Cardinality(s) \in Nat /\ Cardinality(s) # 0
          BY <1>c, <1>r
        <4> QED  BY <2>1, <4>1
      <3> QED  BY <3>1
    <2>2. g \in [SUBSET S -> Int]
      OBVIOUS
    <2> QED  BY <2>1, <2>2
  <1>2. ASSUME NEW n \in Nat, n \in X PROVE n + 1 \in X
    <2>1. PICK g \in [SUBSET S -> Int] : \A s \in SUBSET S : Cardinality(s) <= n => g[s] = OneMore(g)[s]
      BY <1>2
    <2> DEFINE h == OneMore(g)
    <2>2. h \in [SUBSET S -> Int]
      BY <1>t
    <2>3. ASSUME NEW s \in SUBSET S, Cardinality(s) <= n + 1 PROVE h[s] = OneMore(h)[s]
      <3>1. CASE s = {}
        BY <3>1
      <3>2. CASE s # {}
        <4> DEFINE r == s \ {Some(s)}
        <4>1. r \in SUBSET S /\ Cardinality(r) <= n
          BY <1>r, <1>c, <2>3, <3>2
        <4>2. g[r] = h[r]
          BY <2>1, <4>1
        <4>3. h[s] = f[Some(s)] + g[r] /\ OneMore(h)[s] = f[Some(s)] + h[r]
          BY <3>2
        <4> QED  BY <4>2, <4>3
      <3> QED  BY <3>1, <3>2
    <2> HIDE DEF h, OneMore
    <2> QED  BY <2>2, <2>3
  <1>3. Cardinality(S) \in X
    <2>1. Nat \subseteq X
      <3> HIDE DEF X
      <3> QED  BY <1>1, <1>2, SetInduction
    <2> QED  BY <1>c, <2>1
  <1>4. PICK g \in [SUBSET S -> Int] : \A s \in SUBSET S : Cardinality(s) <= Cardinality(S) => g[s] = OneMore(g)[s]
    BY <1>3
  <1>5. g = OneMore(g)
    <2>1. \A s \in SUBSET S : Cardinality(s) <= Cardinality(S)
      BY FS_Subset
    <2>2. \A s \in SUBSET S : g[s] = OneMore(g)[s]
      BY <1>4, <2>1
    <2>3. OneMore(g) \in [SUBSET S -> Int]
      BY <1>t
    <2> HIDE DEF OneMore
    <2> QED  BY <2>2, <2>3
  <1>6. DOMAIN f = S
    OBVIOUS
  <1> DEFINE iter == CHOOSE it : it = [s \in SUBSET S |-> IF s = {} THEN 0 ELSE f[Some(s)] + it[s \ {Some(s)}]]
  <1>7. SumFunction(f) = iter[S]
    BY <1>6 DEF SumFunction, SumFunctionOnSet, FoldFunctionOnSet, MapThenFoldSet, Some
  <1>8. iter = [s \in SUBSET S |-> IF s = {} THEN 0 ELSE f[Some(s)] + iter[s \ {Some(s)}]]
    BY <1>5
  <1> HIDE DEF iter
  <1>9. \A s \in SUBSET S : iter[s] = IF s = {} THEN 0 ELSE f[Some(s)] + iter[s \ {Some(s)}]
    BY <1>8
  <1>10. \A s \in SUBSET S : iter[s] \in Int
    <2> DEFINE Q == {s \in SUBSET S : iter[s] \in Int}
    <2>1. {} \in Q
      <3>1. iter[{}] = 0
        BY <1>9
      <3> QED  BY <3>1
    <2>2. \A s \in SUBSET S : s # {} /\ s \ {Some(s)} \in Q => s \in Q
      BY <1>0, <1>9
    <2> HIDE DEF Q
    <2>3. SUBSET S \subseteq Q
      BY <2>1, <2>2, SubsetInduction
    <2> QED  BY <2>3 DEF Q
  <1>11. iter \in [SUBSET S -> Int]
    BY <1>8, <1>10
  <1> QED  BY <1>6, <1>7, <1>9, <1>11 DEF Sums

LEMMA SomeFacts ==
    ASSUME NEW S, NEW s \in SUBSET S, s # {}
    PROVE  Some(s) \in s /\ Some(s) \in S /\ s \ {Some(s)} \in SUBSET S
  BY DEF Some

LEMMA EmptySum ==
    ASSUME NEW f, NEW iter, Sums(f, iter)
    PROVE  iter[{}] = 0
  <1>1. {} \in SUBSET DOMAIN f
    OBVIOUS
  <1> QED  BY <1>1 DEF Sums

LEMMA SumLinear ==
    ASSUME NEW S, IsFiniteSet(S), NEW f \in [S -> Int], NEW g \in [S -> Int], NEW h \in [S -> Int],
           \A x \in S : h[x] = f[x] + g[x]
    PROVE  /\ SumFunction(f) \in Int /\ SumFunction(g) \in Int
           /\ SumFunction(h) = SumFunction(f) + SumFunction(g)
  <1>1. PICK F : Sums(f, F)
    BY SumSteps
  <1>2. PICK G : Sums(g, G)
    BY SumSteps
  <1>3. PICK H : Sums(h, H)
    BY SumSteps
  <1> DEFINE Q == {s \in SUBSET S : H[s] = F[s] + G[s]}
  <1>4. {} \in Q
    <2>1. F[{}] = 0 /\ G[{}] = 0 /\ H[{}] = 0
      BY <1>1, <1>2, <1>3, EmptySum
    <2> QED  BY <2>1
  <1>5. ASSUME NEW s \in SUBSET S, s # {}, s \ {Some(s)} \in Q PROVE s \in Q
    <2> DEFINE x == Some(s)
               r == s \ {x}
    <2>1. x \in S /\ r \in SUBSET S
      BY <1>5, SomeFacts
    <2>2. F[s] = f[x] + F[r] /\ G[s] = g[x] + G[r] /\ H[s] = h[x] + H[r]
      BY <1>1, <1>2, <1>3, <1>5 DEF Sums
    <2>3. F[r] \in Int /\ G[r] \in Int /\ f[x] \in Int /\ g[x] \in Int
      BY <1>1, <1>2, <2>1 DEF Sums
    <2>4. H[r] = F[r] + G[r]
      BY <1>5
    <2>5. h[x] = f[x] + g[x]
      BY <2>1
    <2> HIDE DEF x, r
    <2> QED  BY <2>2, <2>3, <2>4, <2>5
  <1> HIDE DEF Q
  <1>6. S \in Q
    BY <1>4, <1>5, SubsetInduction
  <1> QED  BY <1>1, <1>2, <1>3, <1>6 DEF Q, Sums

LEMMA SumAtMost ==
    ASSUME NEW S, IsFiniteSet(S), NEW f \in [S -> Int], NEW g \in [S -> Int], \A x \in S : f[x] <= g[x]
    PROVE  SumFunction(f) <= SumFunction(g)
  <1>1. PICK F : Sums(f, F)
    BY SumSteps
  <1>2. PICK G : Sums(g, G)
    BY SumSteps
  <1> DEFINE Q == {s \in SUBSET S : F[s] <= G[s]}
  <1>4. {} \in Q
    <2>1. F[{}] = 0 /\ G[{}] = 0
      BY <1>1, <1>2, EmptySum
    <2> QED  BY <2>1
  <1>5. ASSUME NEW s \in SUBSET S, s # {}, s \ {Some(s)} \in Q PROVE s \in Q
    <2> DEFINE x == Some(s)
               r == s \ {x}
    <2>1. x \in S /\ r \in SUBSET S
      BY <1>5, SomeFacts
    <2>2. F[s] = f[x] + F[r] /\ G[s] = g[x] + G[r]
      BY <1>1, <1>2, <1>5 DEF Sums
    <2>3. F[r] \in Int /\ G[r] \in Int /\ f[x] \in Int /\ g[x] \in Int
      BY <1>1, <1>2, <2>1 DEF Sums
    <2>4. F[r] <= G[r] /\ f[x] <= g[x]
      BY <1>5, <2>1
    <2> HIDE DEF x, r
    <2>5. F[s] <= G[s]
      BY <2>2, <2>3, <2>4
    <2> QED  BY <2>5
  <1> HIDE DEF Q
  <1>6. S \in Q
    BY <1>4, <1>5, SubsetInduction
  <1> QED  BY <1>1, <1>2, <1>6 DEF Q, Sums

LEMMA SumOne ==
    ASSUME NEW S, IsFiniteSet(S), NEW f \in [S -> Int], NEW e \in S, \A x \in S : x # e => f[x] = 0
    PROVE  SumFunction(f) = f[e]
  <1>1. PICK F : Sums(f, F)
    BY SumSteps
  <1> DEFINE Q == {s \in SUBSET S : F[s] = IF e \in s THEN f[e] ELSE 0}
  <1>4. {} \in Q
    BY <1>1 DEF Sums
  <1>5. ASSUME NEW s \in SUBSET S, s # {}, s \ {Some(s)} \in Q PROVE s \in Q
    <2> DEFINE x == Some(s)
               r == s \ {x}
    <2>1. x \in s /\ x \in S /\ r \in SUBSET S
      BY <1>5, SomeFacts
    <2>2. F[s] = f[x] + F[r]
      BY <1>1, <1>5 DEF Sums
    <2>3. F[r] = IF e \in r THEN f[e] ELSE 0
      BY <1>5
    <2>4. f[x] \in Int /\ f[e] \in Int
      BY <2>1
    <2>5. CASE x = e
      <3>1. e \in s /\ F[r] = 0
        BY <2>1, <2>3, <2>5
      <3> HIDE DEF x, r
      <3> QED  BY <2>2, <2>4, <2>5, <3>1
    <2>6. CASE x # e
      <3>1. (e \in s) <=> (e \in r)
        BY <2>6
      <3>2. f[x] = 0
        BY <2>1, <2>6
      <3> HIDE DEF x, r
      <3> QED  BY <2>2, <2>3, <2>4, <3>1, <3>2
    <2> QED  BY <2>5, <2>6
  <1> HIDE DEF Q
  <1>6. S \in Q
    BY <1>4, <1>5, SubsetInduction
  <1> QED  BY <1>1, <1>6 DEF Q, Sums

\* Sums that differ in one element.
LEMMA SumChange ==
    ASSUME NEW S, IsFiniteSet(S), NEW g \in [S -> Int], NEW h \in [S -> Int], NEW e \in S,
           \A x \in S : x # e => h[x] = g[x]
    PROVE  /\ SumFunction(g) \in Int /\ SumFunction(h) \in Int
           /\ SumFunction(h) = (h[e] - g[e]) + SumFunction(g)
  <1>1. PICK f : f = [x \in S |-> IF x = e THEN h[e] - g[e] ELSE 0]
    OBVIOUS
  <1>2. h[e] \in Int /\ g[e] \in Int /\ h[e] - g[e] \in Int
    OBVIOUS
  <1>3. f \in [S -> Int] /\ f[e] = h[e] - g[e] /\ \A x \in S : x # e => f[x] = 0
    BY <1>1, <1>2
  <1>4. \A x \in S : h[x] = f[x] + g[x]
    <2> SUFFICES ASSUME NEW x \in S PROVE h[x] = f[x] + g[x]
      OBVIOUS
    <2>1. h[x] \in Int /\ g[x] \in Int
      OBVIOUS
    <2> QED  BY <1>2, <1>3, <2>1
  <1>5. SumFunction(f) \in Int /\ SumFunction(g) \in Int /\ SumFunction(h) = SumFunction(f) + SumFunction(g)
    <2>1. f \in [S -> Int]
      BY <1>3
    <2> QED  BY <1>4, <2>1, SumLinear
  <1>6. SumFunction(f) = f[e]
    BY <1>3, SumOne
  <1> QED  BY <1>2, <1>3, <1>5, <1>6

LEMMA SumInt ==
    ASSUME NEW S, IsFiniteSet(S), NEW f \in [S -> Int]
    PROVE  SumFunction(f) \in Int
  <1>1. PICK z : z = [x \in S |-> 0]
    OBVIOUS
  <1>2. z \in [S -> Int] /\ \A x \in S : f[x] = f[x] + z[x]
    BY <1>1
  <1> QED  BY <1>2, SumLinear

LEMMA SumZero ==
    ASSUME NEW S, IsFiniteSet(S), NEW f \in [S -> Int], \A x \in S : f[x] = 0
    PROVE  SumFunction(f) = 0
  <1>1. \A x \in S : f[x] = f[x] + f[x]
    OBVIOUS
  <1>2. SumFunction(f) \in Int /\ SumFunction(f) = SumFunction(f) + SumFunction(f)
    BY <1>1, SumLinear
  <1> QED  BY <1>2

\* A sum of multiples is a multiple.
IsMultiple(a, m) == \E k \in Int : a = k * m

LEMMA MultipleSum ==
    ASSUME NEW m \in Int, NEW a, NEW b, IsMultiple(a, m), IsMultiple(b, m)
    PROVE  IsMultiple(a + b, m)
  <1>1. PICK k \in Int, l \in Int : a = k * m /\ b = l * m
    BY DEF IsMultiple
  <1>2. k + l \in Int /\ a + b = (k + l) * m
    BY <1>1
  <1> QED  BY <1>2 DEF IsMultiple

LEMMA SumMultiple ==
    ASSUME NEW S, IsFiniteSet(S), NEW f \in [S -> Int], NEW m \in Int, \A x \in S : IsMultiple(f[x], m)
    PROVE  IsMultiple(SumFunction(f), m)
  <1>1. PICK F : Sums(f, F)
    BY SumSteps
  <1> DEFINE Q == {s \in SUBSET S : IsMultiple(F[s], m)}
  <1>4. {} \in Q
    <2>1. F[{}] = 0
      BY <1>1, EmptySum
    <2>2. 0 = 0 * m
      OBVIOUS
    <2>3. IsMultiple(F[{}], m)
      BY <2>1, <2>2 DEF IsMultiple
    <2> QED  BY <2>3
  <1>5. ASSUME NEW s \in SUBSET S, s # {}, s \ {Some(s)} \in Q PROVE s \in Q
    <2> DEFINE x == Some(s)
               r == s \ {x}
    <2>1. x \in S /\ r \in SUBSET S
      BY <1>5, SomeFacts
    <2>2. F[s] = f[x] + F[r]
      BY <1>1, <1>5 DEF Sums
    <2>3. IsMultiple(f[x], m) /\ IsMultiple(F[r], m)
      BY <1>5, <2>1
    <2> HIDE DEF x, r
    <2>5. IsMultiple(F[s], m)
      BY <2>2, <2>3, MultipleSum
    <2> QED  BY <2>5
  <1> HIDE DEF Q
  <1>6. S \in Q
    BY <1>4, <1>5, SubsetInduction
  <1> QED  BY <1>1, <1>6 DEF Q, Sums

\* Sums whose terms are multiples apart.
LEMMA SumApart ==
    ASSUME NEW S, IsFiniteSet(S), NEW f \in [S -> Int], NEW g \in [S -> Int], NEW m \in Int,
           \A x \in S : IsMultiple(f[x] - g[x], m)
    PROVE  SumFunction(f) \in Int /\ SumFunction(g) \in Int /\ IsMultiple(SumFunction(f) - SumFunction(g), m)
  <1>1. PICK h : h = [x \in S |-> f[x] - g[x]]
    OBVIOUS
  <1>2. ASSUME NEW x \in S PROVE h[x] \in Int /\ f[x] = h[x] + g[x] /\ IsMultiple(h[x], m)
    BY <1>1
  <1>3. h \in [S -> Int]
    BY <1>1, <1>2
  <1>4. \A x \in S : f[x] = h[x] + g[x]
    BY <1>2
  <1>5. SumFunction(h) \in Int /\ SumFunction(g) \in Int /\ SumFunction(f) = SumFunction(h) + SumFunction(g)
    BY <1>3, <1>4, SumLinear
  <1>6. IsMultiple(SumFunction(h), m)
    BY <1>2, <1>3, SumMultiple
  <1>7. SumFunction(f) - SumFunction(g) = SumFunction(h)
    BY <1>5
  <1> QED  BY <1>5, <1>6, <1>7

-----------------------------------------------------------------------------
(* Layouts and strides.                                                      *)

\* A layout numbers the dimensions it does not mask.
LEMMA LayoutFacts ==
    ASSUME NEW n \in Nat, NEW l \in Layouts(n)
    PROVE  LET M == MaxArg(l) IN
           /\ M \in Int /\ -1 <= M /\ DOMAIN l = 0..n-1 /\ IsFiniteSet(0..n-1)
           /\ \A d \in 0..n-1 : l[d] \in -1..M /\ (l[d] # -1 => Find(l, l[d]) = d)
           /\ \A p \in 0..M : Find(l, p) \in 0..n-1 /\ l[Find(l, p)] = p
  <1> DEFINE I == 0..n-1
             used == {i \in I : l[i] >= 0}
             M == MaxArg(l)
             f == [i \in used |-> l[i]]
  <1>1. IsFiniteSet(I)
    <2>1. 0 \in Int /\ n - 1 \in Int
      OBVIOUS
    <2> QED  BY <2>1, FS_Interval
  <1>2. l \in [I -> -1..n-1] /\ {l[i] : i \in used} = 0..Cardinality(used) - 1
    BY DEF Layouts
  <1>3. IsFiniteSet(used) /\ Cardinality(used) \in Nat
    BY <1>1, FS_Subset, FS_CardinalityType
  <1>4. M = Cardinality(used) - 1 /\ M \in Int /\ -1 <= M
    <2>1. DOMAIN l = I
      BY <1>2
    <2>2. M = Cardinality(used) - 1
      BY <2>1 DEF MaxArg
    <2> DEFINE c == Cardinality(used)
    <2> HIDE DEF used, M
    <2> QED  BY <1>3, <2>2
  <1>5. Cardinality(0..M) = Cardinality(used)
    <2> DEFINE c == Cardinality(used)
    <2>0. 0 \in Int /\ M \in Int
      BY <1>4
    <2>1. Cardinality(0..M) = IF 0 > M THEN 0 ELSE M - 0 + 1
      <3> HIDE DEF M
      <3> QED  BY <2>0, FS_Interval
    <2>2. c \in Nat /\ M = c - 1
      BY <1>3, <1>4
    <2> HIDE DEF M, c
    <2>3. Cardinality(0..M) = c
      BY <2>1, <2>2
    <2> QED  BY <2>3 DEF c
  <1>6. \A i \in used : l[i] \in 0..M
    BY <1>2, <1>4
  <1>7. \A p \in 0..M : \E i \in used : l[i] = p
    BY <1>2, <1>4
  <1>8. f \in Surjection(used, 0..M)
    <2> HIDE DEF M
    <2> QED  BY <1>6, <1>7 DEF Surjection
  <1>9. f \in Injection(used, 0..M)
    BY <1>3, <1>5, <1>8, FS_SurjSameCardinalityImpliesInj
  <1>10. \A i, j \in used : l[i] = l[j] => i = j
    BY <1>9 DEF Injection, IsInjective
  <1>11. ASSUME NEW p \in 0..M PROVE Find(l, p) \in I /\ l[Find(l, p)] = p
    <2>1. PICK i \in I : l[i] = p
      BY <1>7
    <2>2. DOMAIN l = I
      BY <1>2
    <2>3. Find(l, p) = CHOOSE d \in I : l[d] = p
      BY <2>1, <2>2 DEF Find
    <2> QED  BY <2>1, <2>3
  <1>12. ASSUME NEW d \in I PROVE l[d] \in -1..M /\ (l[d] # -1 => Find(l, l[d]) = d)
    <2>1. CASE d \in used
      <3>1. l[d] \in 0..M
        BY <1>6, <2>1
      <3>2. Find(l, l[d]) \in I /\ l[Find(l, l[d])] = l[d]
        BY <1>11, <3>1
      <3>3. Find(l, l[d]) \in used
        BY <2>1, <3>2
      <3>4. Find(l, l[d]) = d
        BY <1>10, <2>1, <3>2, <3>3
      <3> HIDE DEF M
      <3> QED  BY <1>4, <3>1, <3>4
    <2>2. CASE d \notin used
      <3>1. l[d] \in -1..n-1
        BY <1>2
      <3>2. ~ l[d] >= 0
        BY <2>2
      <3>3. l[d] = -1
        BY <3>1, <3>2
      <3> HIDE DEF M
      <3> QED  BY <1>4, <3>3
    <2> QED  BY <2>1, <2>2
  <1> HIDE DEF M
  <1>13. DOMAIN l = I
    BY <1>2
  <1> QED  BY <1>1, <1>4, <1>11, <1>12, <1>13 DEF M

\* Lengths and alignment are numbers, whether the compiler knows them or not.
Numbers(S) == [v : S, known : BOOLEAN]

\* A storage of n dimensions.
IsStorage(n, l, align, lengths) ==
    /\ n \in Nat /\ l \in Layouts(n)
    /\ align \in Numbers(Nat \ {0})
    /\ lengths \in [0..n-1 -> Numbers(Nat)]

\* What the lengths of lines are rounded up to.
LEMMA RoundUpFacts ==
    ASSUME NEW a \in Nat, NEW k \in Nat \ {0}
    PROVE  /\ RoundUp(a, k) \in Nat /\ a <= RoundUp(a, k) /\ RoundUp(a, k) < a + k
           /\ IsMultiple(RoundUp(a, k), k)
  <1> DEFINE q == (a + k - 1) \div k
             r == (a + k - 1) % k
  <1>1. q \in Nat /\ r \in 0..k-1 /\ a + k - 1 = k * q + r
    OBVIOUS
  <1>2. RoundUp(a, k) = q * k /\ q * k = k * q
    BY <1>1 DEF RoundUp
  <1>3. k * q \in Nat
    BY <1>1
  <1> HIDE DEF q, r
  <1>4. IsMultiple(RoundUp(a, k), k)
    BY <1>1, <1>2 DEF IsMultiple
  <1> DEFINE m == k * q
  <1>5. RoundUp(a, k) = m /\ m \in Nat /\ a + k - 1 = m + r
    BY <1>1, <1>2, <1>3
  <1> HIDE DEF m
  <1> QED  BY <1>1, <1>4, <1>5

LEMMA TimesValue == ASSUME NEW a, NEW b PROVE Times(a, b).v = a.v * b.v
  BY DEF Times, Result

LEMMA PaddedLine ==
    ASSUME NEW l, NEW align, NEW lengths, NEW d \in DOMAIN l, l[d] # -1, l[d] = MaxArg(l), MaxArg(l) # 0,
           lengths[d].v \in Nat, align.v \in Nat \ {0}
    PROVE  PaddedLengths(l, align, lengths)[d].v = RoundUp(lengths[d].v, align.v)
  <1> DEFINE sum == Plus(lengths[d], align)
             less == Minus(sum, Known(1))
             ratio == Quotient(less, align)
  <1>1. sum.v = lengths[d].v + align.v
    BY DEF Plus, Result
  <1>2. less.v = sum.v - 1
    BY DEF Minus, Known, Result
  <1>3. ratio.v = less.v \div align.v
    BY DEF Quotient, Result
  <1>4. PaddedLengths(l, align, lengths)[d] = Times(ratio, align)
    BY DEF PaddedLengths
  <1> HIDE DEF sum, less, ratio
  <1>5. Times(ratio, align).v = ratio.v * align.v
    BY TimesValue
  <1> QED  BY <1>1, <1>2, <1>3, <1>4, <1>5 DEF RoundUp

\* The strides of a storage and the lengths of its dimensions with their padding.
IsStrides(n, l, align, lengths, at) ==
    LET M == MaxArg(l)
        padded == PaddedLengths(l, align, lengths) IN
    /\ at \in [0..M -> Numbers(Nat)]
    /\ 0 <= M => at[M] = Known(1)
    /\ \A p \in 0..M-1 : at[p] = Times(padded[Find(l, p + 1)], at[p + 1])
    /\ Strides(l, align, lengths) = [d \in 0..n-1 |-> IF l[d] = -1 THEN Known(0) ELSE at[l[d]]]

LEMMA PaddingFacts ==
    ASSUME NEW n, NEW l, NEW align, NEW lengths, IsStorage(n, l, align, lengths)
    PROVE  LET padded == PaddedLengths(l, align, lengths) IN
           /\ padded \in [0..n-1 -> Numbers(Nat)]
           /\ \A d \in 0..n-1 : l[d] # -1 =>
                 /\ lengths[d].v <= padded[d].v
                 /\ l[d] = MaxArg(l) /\ MaxArg(l) # 0 => IsMultiple(padded[d].v, align.v)
  <1> DEFINE padded == PaddedLengths(l, align, lengths)
  <1>1. DOMAIN l = 0..n-1
    BY LayoutFacts DEF IsStorage
  <1>2. ASSUME NEW d \in 0..n-1
        PROVE  /\ padded[d] \in Numbers(Nat)
               /\ l[d] # -1 => lengths[d].v <= padded[d].v
               /\ l[d] # -1 /\ l[d] = MaxArg(l) /\ MaxArg(l) # 0 => IsMultiple(padded[d].v, align.v)
    <2>1. lengths[d] \in Numbers(Nat) /\ lengths[d].v \in Nat /\ align.v \in Nat \ {0} /\ align \in Numbers(Nat)
      BY DEF IsStorage, Numbers
    <2>2. CASE l[d] = -1
      <3>1. padded[d] = Known(1)
        BY <1>1, <2>2 DEF PaddedLengths
      <3> QED  BY <2>2, <3>1 DEF Known, Numbers
    <2>3. CASE l[d] # -1 /\ l[d] = MaxArg(l) /\ MaxArg(l) # 0
      <3>1. padded[d] = Times(Quotient(Minus(Plus(lengths[d], align), Known(1)), align), align)
        BY <1>1, <2>3 DEF PaddedLengths
      <3>a. padded[d].v = RoundUp(lengths[d].v, align.v)
        <4>1. d \in DOMAIN l
          BY <1>1
        <4>2. l[d] # -1
          BY <2>3
        <4>3. l[d] = MaxArg(l)
          BY <2>3
        <4>4. MaxArg(l) # 0
          BY <2>3
        <4>5. lengths[d].v \in Nat
          BY <2>1
        <4>6. align.v \in Nat \ {0}
          BY <2>1
        <4> QED  BY <4>1, <4>2, <4>3, <4>4, <4>5, <4>6, PaddedLine
      <3>b. padded[d] = [v |-> padded[d].v, known |-> padded[d].known]
        BY <3>1 DEF Times, Result
      <3>c. padded[d].known = (Quotient(Minus(Plus(lengths[d], align), Known(1)), align).known /\ align.known)
        BY <3>1 DEF Times, Result
      <3>2. padded[d].v = RoundUp(lengths[d].v, align.v) /\ padded[d] = [v |-> padded[d].v, known |-> padded[d].known]
            /\ padded[d].known \in BOOLEAN
        BY <3>a, <3>b, <3>c
      <3>3. padded[d].v \in Nat /\ lengths[d].v <= padded[d].v /\ IsMultiple(padded[d].v, align.v)
        BY <2>1, <3>2, RoundUpFacts
      <3> HIDE DEF padded
      <3>4. padded[d] \in Numbers(Nat)
        BY <3>2, <3>3 DEF Numbers
      <3> QED  BY <3>3, <3>4
    <2>4. CASE l[d] # -1 /\ ~ (l[d] = MaxArg(l) /\ MaxArg(l) # 0)
      <3>1. padded[d] = lengths[d]
        BY <1>1, <2>4 DEF PaddedLengths
      <3> HIDE DEF padded
      <3> QED  BY <2>1, <2>4, <3>1
    <2> QED  BY <2>2, <2>3, <2>4
  <1>3. padded = [d \in 0..n-1 |-> padded[d]]
    BY <1>1 DEF PaddedLengths
  <1> HIDE DEF padded
  <1>4. padded \in [0..n-1 -> Numbers(Nat)]
    BY <1>2, <1>3
  <1> QED  BY <1>2, <1>4 DEF padded

\* There is a function that follows the rule of the strides, from the last place to the first.
CountsDown(at, T, M, last, step) ==
    at \in [0..M -> T] /\ \A p \in 0..M : at[p] = IF p = M THEN last ELSE step[p][at[p + 1]]

LEMMA CountDown ==
    ASSUME NEW T, NEW M \in Nat, NEW last \in T, NEW step \in [0..M-1 -> [T -> T]]
    PROVE  \E at : CountsDown(at, T, M, last, step)
  <1> DEFINE Rule(at, q) == \A p \in q..M : at[p] = IF p = M THEN last ELSE step[p][at[p + 1]]
             X == {n \in Nat : n <= M => \E at \in [0..M -> T] : Rule(at, M - n)}
  <1>1. 0 \in X
    <2>1. [p \in 0..M |-> last] \in [0..M -> T] /\ Rule([p \in 0..M |-> last], M - 0)
      OBVIOUS
    <2> HIDE DEF Rule
    <2> QED  BY <2>1
  <1>2. ASSUME NEW n \in Nat, n \in X PROVE n + 1 \in X
    <2> SUFFICES ASSUME n + 1 <= M PROVE \E at \in [0..M -> T] : Rule(at, M - (n + 1))
      OBVIOUS
    <2>1. PICK f \in [0..M -> T] : Rule(f, M - n)
      <3> HIDE DEF Rule
      <3> QED  BY <1>2
    <2> DEFINE q == M - (n + 1)
               g == [f EXCEPT ![q] = step[q][f[q + 1]]]
    <2>2. q \in 0..M-1 /\ q + 1 = M - n /\ q + 1 \in 0..M /\ q \in 0..M
      OBVIOUS
    <2>3. f[q + 1] \in T /\ step[q][f[q + 1]] \in T
      <3>1. f[q + 1] \in T
        BY <2>2
      <3> HIDE DEF q
      <3> QED  BY <2>2, <3>1
    <2>4. g \in [0..M -> T]
      BY <2>3
    <2>5. ASSUME NEW p \in q..M PROVE g[p] = IF p = M THEN last ELSE step[p][g[p + 1]]
      <3> HIDE DEF q
      <3>1. CASE p = q
        <4>1. g[p] = step[q][f[q + 1]] /\ g[q + 1] = f[q + 1] /\ p # M
          BY <2>2, <3>1
        <4> QED  BY <3>1, <4>1
      <3>2. CASE p # q
        <4>1. p \in q + 1 .. M /\ p \in 0..M
          BY <2>2, <3>2
        <4>2. g[p] = f[p]
          BY <3>2, <4>1
        <4>3. f[p] = IF p = M THEN last ELSE step[p][f[p + 1]]
          BY <2>1, <2>2, <4>1
        <4>4. CASE p = M
          BY <4>2, <4>3, <4>4
        <4>5. CASE p # M
          <5>1. p + 1 \in 0..M /\ p + 1 # q
            BY <2>2, <4>1, <4>5
          <5>2. g[p + 1] = f[p + 1]
            BY <5>1
          <5> HIDE DEF g
          <5> QED  BY <4>2, <4>3, <4>5, <5>2
        <4> QED  BY <4>4, <4>5
      <3> QED  BY <3>1, <3>2
    <2> HIDE DEF g
    <2> QED  BY <2>4, <2>5
  <1>3. M \in X
    <2> HIDE DEF X
    <2> QED  BY <1>1, <1>2, SetInduction
  <1>4. PICK at \in [0..M -> T] : Rule(at, M - M)
    <2> HIDE DEF Rule
    <2> QED  BY <1>3
  <1>5. \A p \in 0..M : at[p] = IF p = M THEN last ELSE step[p][at[p + 1]]
    BY <1>4
  <1> QED  BY <1>5 DEF CountsDown

LEMMA StrideFacts ==
    ASSUME NEW n, NEW l, NEW align, NEW lengths, IsStorage(n, l, align, lengths)
    PROVE  \E at : IsStrides(n, l, align, lengths, at)
  <1> DEFINE M == MaxArg(l)
             padded == PaddedLengths(l, align, lengths)
             T == Numbers(Nat)
             at == CHOOSE f : f = [p \in 0..M |-> IF p = M THEN Known(1) ELSE Times(padded[Find(l, p + 1)], f[p + 1])]
  <1>1. M \in Int /\ -1 <= M /\ DOMAIN l = 0..n-1 /\ \A p \in 0..M : Find(l, p) \in 0..n-1
    BY LayoutFacts DEF IsStorage
  <1>2. padded \in [0..n-1 -> T]
    BY PaddingFacts
  <1>3. Known(1) \in T
    BY DEF Known, Numbers
  <1>4. \A a, b \in T : Times(a, b) \in T
    <2> SUFFICES ASSUME NEW a \in T, NEW b \in T PROVE Times(a, b) \in T
      OBVIOUS
    <2>1. a.v \in Nat /\ b.v \in Nat
      BY DEF Numbers
    <2>2. a.v * b.v \in Nat
      BY <2>1
    <2> QED  BY <2>2 DEF Times, Result, Numbers
  <1>5. Strides(l, align, lengths) = [d \in 0..n-1 |-> IF l[d] = -1 THEN Known(0) ELSE at[l[d]]]
    BY <1>1 DEF Strides
  <1> HIDE DEF M, T, padded
  <1>6. \E f \in [0..M -> T] : f = [p \in 0..M |-> IF p = M THEN Known(1) ELSE Times(padded[Find(l, p + 1)], f[p + 1])]
    <2>1. CASE M = -1
      <3> DEFINE f == [p \in 0..M |-> Known(1)]
      <3>1. 0..M = {}
        BY <2>1
      <3>2. f = [p \in 0..M |-> IF p = M THEN Known(1) ELSE Times(padded[Find(l, p + 1)], f[p + 1])]
        BY <3>1
      <3> QED  BY <1>3, <3>2
    <2>2. CASE M # -1
      <3> DEFINE step == [p \in 0..M-1 |-> [b \in T |-> Times(padded[Find(l, p + 1)], b)]]
      <3>1. M \in Nat
        BY <1>1, <2>2
      <3>2. step \in [0..M-1 -> [T -> T]]
        <4>1. ASSUME NEW p \in 0..M-1, NEW b \in T PROVE Times(padded[Find(l, p + 1)], b) \in T
          <5>1. p + 1 \in 0..M
            BY <3>1
          <5>2. padded[Find(l, p + 1)] \in T
            BY <1>1, <1>2, <5>1
          <5> QED  BY <1>4, <5>2
        <4> QED  BY <4>1
      <3>a. PICK f : CountsDown(f, T, M, Known(1), step)
        <4> HIDE DEF step
        <4> QED  BY <1>3, <3>1, <3>2, CountDown
      <3>3. f \in [0..M -> T] /\ \A p \in 0..M : f[p] = IF p = M THEN Known(1) ELSE step[p][f[p + 1]]
        <4> HIDE DEF step
        <4> QED  BY <3>a DEF CountsDown
      <3>4. ASSUME NEW p \in 0..M, p # M PROVE step[p][f[p + 1]] = Times(padded[Find(l, p + 1)], f[p + 1])
        <4>1. p \in 0..M-1 /\ p + 1 \in 0..M
          BY <3>1, <3>4
        <4>2. f[p + 1] \in T
          BY <3>3, <4>1
        <4> QED  BY <4>1, <4>2
      <3> HIDE DEF step
      <3>5. \A p \in 0..M : f[p] = IF p = M THEN Known(1) ELSE Times(padded[Find(l, p + 1)], f[p + 1])
        BY <3>3, <3>4
      <3>6. f = [p \in 0..M |-> IF p = M THEN Known(1) ELSE Times(padded[Find(l, p + 1)], f[p + 1])]
        BY <3>3, <3>5
      <3> QED  BY <3>3, <3>6
    <2> QED  BY <2>1, <2>2
  <1>7. at = [p \in 0..M |-> IF p = M THEN Known(1) ELSE Times(padded[Find(l, p + 1)], at[p + 1])]
    BY <1>6
  <1> HIDE DEF at
  <1>8. 0 <= M => at[M] = Known(1)
    <2> SUFFICES ASSUME 0 <= M PROVE at[M] = Known(1)
      OBVIOUS
    <2>1. M \in 0..M
      BY <1>1
    <2> QED  BY <1>7, <2>1
  <1>9. \A p \in 0..M-1 : at[p] = Times(padded[Find(l, p + 1)], at[p + 1])
    <2> SUFFICES ASSUME NEW p \in 0..M-1 PROVE at[p] = Times(padded[Find(l, p + 1)], at[p + 1])
      OBVIOUS
    <2>1. p \in 0..M /\ p # M
      BY <1>1
    <2> QED  BY <1>7, <2>1
  <1>10. at \in [0..M -> T]
    <2> DEFINE X == {k \in Nat : k <= M => at[M - k] \in T}
    <2>1. 0 \in X
      <3> SUFFICES ASSUME 0 <= M PROVE at[M - 0] \in T
        OBVIOUS
      <3> QED  BY <1>1, <1>3, <1>8
    <2>2. ASSUME NEW k \in Nat, k \in X PROVE k + 1 \in X
      <3> SUFFICES ASSUME k + 1 <= M PROVE at[M - (k + 1)] \in T
        OBVIOUS
      <3> DEFINE p == M - (k + 1)
      <3>1. p \in 0..M-1 /\ p + 1 = M - k /\ p + 1 \in 0..M
        BY <1>1
      <3>2. at[p + 1] \in T
        BY <1>1, <2>2, <3>1
      <3> HIDE DEF p
      <3>3. at[p] = Times(padded[Find(l, p + 1)], at[p + 1])
        BY <1>9, <3>1
      <3>4. padded[Find(l, p + 1)] \in T
        BY <1>1, <1>2, <3>1
      <3>5. at[p] \in T
        BY <1>4, <3>2, <3>3, <3>4
      <3> QED  BY <3>5 DEF p
    <2>3. ASSUME NEW p \in 0..M PROVE at[p] \in T
      <3>1. Nat \subseteq X
        <4> HIDE DEF X
        <4> QED  BY <2>1, <2>2, SetInduction
      <3>2. M - p \in Nat /\ M - p <= M /\ M - (M - p) = p
        BY <1>1
      <3>3. M - p \in X
        BY <3>1, <3>2
      <3> QED  BY <3>2, <3>3
    <2> QED  BY <1>7, <2>3
  <1> QED  BY <1>5, <1>8, <1>9, <1>10 DEF IsStrides, M, T, padded

-----------------------------------------------------------------------------
(* Positions as numbers whose digits are the indices.                        *)
LEMMA Division ==
    ASSUME NEW k \in Nat, NEW s \in Nat \ {0}, NEW r \in 0..s-1
    PROVE  (k * s + r) \div s = k /\ (k * s + r) % s = r
  <1> DEFINE a == k * s + r
             q == a \div s
             m == a % s
  <1>1. a \in Nat
    <2>1. k * s \in Nat
      OBVIOUS
    <2> QED  BY <2>1
  <1>2. q \in Nat /\ m \in 0..s-1 /\ a = s * q + m
    <2> HIDE DEF a
    <2> QED  BY <1>1
  <1> HIDE DEF q, m
  <1>3. s * (k - q) = m - r
    <2>1. s * (k - q) = s * k - s * q /\ s * k = k * s /\ s * k \in Int /\ s * q \in Int
      BY <1>2
    <2> QED  BY <1>2, <2>1
  <1>4. k - q = 0
    <2> DEFINE e == k - q
    <2>1. e \in Int /\ s * e = m - r
      BY <1>2, <1>3
    <2>2. ASSUME e >= 1 PROVE FALSE
      <3> HIDE DEF e
      <3>1. s * e >= s
        BY <2>1, <2>2
      <3> QED  BY <1>2, <2>1, <3>1
    <2>3. ASSUME e <= -1 PROVE FALSE
      <3> HIDE DEF e
      <3>1. s * e <= -s
        BY <2>1, <2>3
      <3> QED  BY <1>2, <2>1, <3>1
    <2> HIDE DEF e
    <2>4. e = 0
      BY <2>1, <2>2, <2>3
    <2> QED  BY <2>4 DEF e
  <1>5. q = k
    BY <1>2, <1>4
  <1>6. m = r
    BY <1>2, <1>3, <1>4
  <1> QED  BY <1>5, <1>6 DEF q, m

\* The remainder by a multiple of s has the remainder by s.
LEMMA Remainders ==
    ASSUME NEW p \in Nat, NEW w \in Nat \ {0}, NEW s \in Nat \ {0}
    PROVE  /\ w * s \in Nat \ {0}
           /\ p % (w * s) = ((p % (w * s)) \div s) * s + (p % s)
           /\ (p % (w * s)) \div s \in Nat
  <1> DEFINE b == w * s
             r == p % b
             q == p \div b
             d == r \div s
             e == r % s
  <1>1. b \in Nat \ {0}
    OBVIOUS
  <1>2. q \in Nat /\ r \in Nat /\ p = b * q + r
    <2> HIDE DEF b
    <2> QED  BY <1>1
  <1>3. d \in Nat /\ e \in 0..s-1 /\ r = s * d + e
    <2>1. r \in Nat
      BY <1>2
    <2> HIDE DEF r
    <2> QED  BY <2>1
  <1>4. p = (q * w + d) * s + e /\ q * w + d \in Nat
    <2> HIDE DEF q, d, e, r
    <2>1. b * q = (q * w) * s
      BY <1>2
    <2>2. (q * w + d) * s = (q * w) * s + d * s /\ d * s = s * d /\ q * w \in Nat
      BY <1>2, <1>3
    <2>3. q * w + d \in Nat
      BY <1>3, <2>2
    <2>4. (q * w) * s \in Nat /\ s * d \in Nat
      BY <1>3, <2>2
    <2> QED  BY <1>2, <1>3, <2>1, <2>2, <2>3, <2>4
  <1>5. p % s = e
    <2> DEFINE k == q * w + d
    <2> HIDE DEF k, e
    <2>1. (k * s + e) % s = e
      BY <1>3, <1>4, Division DEF k
    <2> QED  BY <1>4, <2>1 DEF k
  <1>6. r = d * s + e
    <2> HIDE DEF d, e, r
    <2> QED  BY <1>3
  <1> QED  BY <1>1, <1>3, <1>5, <1>6 DEF b, r, d

\* Places of weights S, the digit of each smaller than W, t what the last ones amount to.
Radix(M, S, W) ==
    /\ M \in Int /\ -1 <= M /\ S \in [0..M -> Nat] /\ W \in [0..M -> Nat]
    /\ 0 <= M => S[M] = 1
    /\ \A p \in 0..M-1 : S[p] = W[p + 1] * S[p + 1]

Amounts(M, S, x, t) ==
    /\ x \in [0..M -> Nat] /\ t \in [0..M+1 -> Int] /\ t[M + 1] = 0
    /\ \A q \in 0..M : t[q] = x[q] * S[q] + t[q + 1]

LEMMA Weights ==
    ASSUME NEW M, NEW S, NEW W, Radix(M, S, W), \A q \in 1..M : W[q] > 0
    PROVE  \A q \in 0..M : S[q] \in Nat \ {0}
  <1> DEFINE X == {k \in Nat : k <= M => S[M - k] # 0}
  <1>1. 0 \in X
    BY DEF Radix
  <1>2. ASSUME NEW k \in Nat, k \in X PROVE k + 1 \in X
    <2> SUFFICES ASSUME k + 1 <= M PROVE S[M - (k + 1)] # 0
      OBVIOUS
    <2> DEFINE p == M - (k + 1)
    <2>1. p \in 0..M-1 /\ p + 1 \in 1..M /\ p + 1 = M - k /\ p + 1 \in 0..M
      BY DEF Radix
    <2>2. S[p + 1] \in Nat \ {0}
      BY <1>2, <2>1 DEF Radix
    <2>3. W[p + 1] \in Nat \ {0} /\ S[p] = W[p + 1] * S[p + 1]
      BY <2>1 DEF Radix
    <2>4. S[p] # 0
      <3> DEFINE w == W[p + 1]
                 r == S[p + 1]
      <3>1. w \in Nat \ {0} /\ r \in Nat \ {0}
        BY <2>2, <2>3
      <3> HIDE DEF w, r
      <3>2. w * r # 0
        BY <3>1
      <3> QED  BY <2>3, <3>2 DEF w, r
    <2> QED  BY <2>4
  <1>3. Nat \subseteq X
    <2> HIDE DEF X
    <2> QED  BY <1>1, <1>2, SetInduction
  <1>4. ASSUME NEW q \in 0..M PROVE S[q] \in Nat \ {0}
    <2>1. M - q \in Nat /\ M - q <= M /\ M - (M - q) = q
      BY DEF Radix
    <2>2. S[q] # 0
      BY <1>3, <2>1
    <2> QED  BY <2>2 DEF Radix
  <1> QED  BY <1>4

\* What the last places amount to is less than one at the place before.
LEMMA TailsAreSmall ==
    ASSUME NEW M, NEW S, NEW W, Radix(M, S, W), NEW x, NEW t, Amounts(M, S, x, t), \A q \in 1..M : x[q] < W[q]
    PROVE  \A q \in 0..M : S[q] \in Nat \ {0} /\ t[q + 1] \in 0..S[q] - 1
  <1>0. M \in Int /\ \A q \in 0..M : S[q] \in Nat \ {0}
    <2>1. \A q \in 1..M : W[q] > 0
      <3> SUFFICES ASSUME NEW q \in 1..M PROVE W[q] > 0
        OBVIOUS
      <3>0. q \in 0..M /\ x[q] < W[q]
        BY DEF Radix
      <3>1. q \in 0..M /\ x[q] \in Nat /\ W[q] \in Nat /\ x[q] < W[q]
        BY <3>0 DEF Radix, Amounts
      <3> QED  BY <3>1
    <2> QED  BY <2>1, Weights DEF Radix
  <1> DEFINE X == {k \in Nat : k <= M => t[M - k + 1] \in 0..S[M - k] - 1}
  <1>1. 0 \in X
    <2> SUFFICES ASSUME 0 <= M PROVE t[M - 0 + 1] \in 0..S[M - 0] - 1
      OBVIOUS
    <2>1. S[M] = 1 /\ t[M + 1] = 0 /\ M - 0 = M
      BY <1>0 DEF Radix, Amounts
    <2> QED  BY <2>1
  <1>2. ASSUME NEW k \in Nat, k \in X PROVE k + 1 \in X
    <2> SUFFICES ASSUME k + 1 <= M PROVE t[M - (k + 1) + 1] \in 0..S[M - (k + 1)] - 1
      OBVIOUS
    <2> DEFINE p == M - (k + 1)
               q == M - k
    <2>1. p \in 0..M-1 /\ q \in 1..M /\ q = p + 1 /\ q \in 0..M /\ k <= M
      BY <1>0
    <2>2. t[q + 1] \in 0..S[q] - 1
      BY <1>2, <2>1
    <2>3. S[q] \in Nat \ {0} /\ W[q] \in Nat /\ x[q] \in Nat /\ x[q] < W[q]
      BY <1>0, <2>1 DEF Radix, Amounts
    <2>4. S[p] = W[q] * S[q] /\ t[q] = x[q] * S[q] + t[q + 1]
      BY <2>1 DEF Radix, Amounts
    <2>5. t[q] \in 0..S[p] - 1
      <3> DEFINE w == W[q]
                 s == S[q]
                 y == x[q]
                 r == t[q + 1]
      <3>1. w \in Nat /\ s \in Nat \ {0} /\ y \in Nat /\ y < w /\ r \in 0..s-1
        BY <2>2, <2>3
      <3>2. S[p] = w * s /\ t[q] = y * s + r
        BY <2>4
      <3> HIDE DEF w, s, y, r
      <3>3. (w - y - 1) * s \in Nat /\ (w - y - 1) * s = w * s - y * s - s /\ w * s \in Nat /\ y * s \in Nat
        <4>1. w - y - 1 \in Nat
          BY <3>1
        <4>2. (w - y - 1) * s = w * s - y * s - s
          BY <3>1
        <4> QED  BY <3>1, <4>1, <4>2
      <3> QED  BY <3>1, <3>2, <3>3
    <2> HIDE DEF p, q
    <2>6. t[p + 1] \in 0..S[p] - 1
      BY <2>1, <2>5
    <2> QED  BY <2>6 DEF p
  <1>3. Nat \subseteq X
    <2> HIDE DEF X
    <2> QED  BY <1>1, <1>2, SetInduction
  <1>4. ASSUME NEW q \in 0..M PROVE t[q + 1] \in 0..S[q] - 1
    <2>1. M - q \in Nat /\ M - q <= M /\ M - (M - q) = q
      BY <1>0
    <2>2. t[M - (M - q) + 1] \in 0..S[M - (M - q)] - 1
      BY <1>3, <2>1
    <2> QED  BY <2>1, <2>2
  <1> QED  BY <1>0, <1>4

\* A position has the indices as its digits.
LEMMA DigitsFound ==
    ASSUME NEW M, NEW S, NEW W, Radix(M, S, W), NEW x, NEW t, Amounts(M, S, x, t), \A q \in 1..M : x[q] < W[q]
    PROVE  /\ t[0] \in Nat
           /\ 0 <= M => t[0] \div S[0] = x[0]
           /\ \A q \in 1..M : (t[0] % S[q - 1]) \div S[q] = x[q]
  <1>0. M \in Int /\ -1 <= M
    BY DEF Radix
  <1>1. \A q \in 0..M : S[q] \in Nat \ {0} /\ t[q + 1] \in 0..S[q] - 1 /\ x[q] \in Nat /\ t[q] = x[q] * S[q] + t[q + 1]
    <2>1. \A q \in 0..M : S[q] \in Nat \ {0} /\ t[q + 1] \in 0..S[q] - 1
      BY TailsAreSmall
    <2>2. \A q \in 0..M : x[q] \in Nat /\ t[q] = x[q] * S[q] + t[q + 1]
      BY DEF Amounts
    <2> QED  BY <2>1, <2>2
  <1> DEFINE Above(q) == \E k \in Nat : t[0] = k * S[q] + t[q + 1] /\ (q = 0 => k = x[0])
             X == {q \in Nat : q <= M => Above(q)}
  <1>2. 0 \in X
    <2> SUFFICES ASSUME 0 <= M PROVE Above(0)
      OBVIOUS
    <2>1. 0 \in 0..M
      BY <1>0
    <2>2. x[0] \in Nat /\ t[0] = x[0] * S[0] + t[0 + 1]
      BY <1>1, <2>1
    <2> QED  BY <2>2
  <1>3. ASSUME NEW q \in Nat, q \in X PROVE q + 1 \in X
    <2> SUFFICES ASSUME q + 1 <= M PROVE Above(q + 1)
      OBVIOUS
    <2>1. q \in 0..M-1 /\ q \in 0..M /\ q + 1 \in 0..M
      BY <1>0
    <2>2. PICK k \in Nat : t[0] = k * S[q] + t[q + 1]
      BY <1>3, <2>1
    <2>3. S[q] = W[q + 1] * S[q + 1] /\ W[q + 1] \in Nat
      BY <2>1 DEF Radix
    <2>4. /\ S[q + 1] \in Nat \ {0} /\ x[q + 1] \in Nat
          /\ t[q + 1] = x[q + 1] * S[q + 1] + t[q + 1 + 1] /\ t[q + 1 + 1] \in Int
      BY <1>1, <2>1
    <2> DEFINE w == W[q + 1]
               s == S[q + 1]
               y == x[q + 1]
               r == t[q + 1 + 1]
               h == k * w + y
    <2>5. w \in Nat /\ s \in Nat \ {0} /\ y \in Nat /\ r \in Int /\ t[0] = k * (w * s) + (y * s + r)
      BY <2>2, <2>3, <2>4
    <2>6. h \in Nat /\ t[0] = h * s + r
      <3> HIDE DEF w, s, y, r
      <3>1. k * w \in Nat
        BY <2>5
      <3>2. (k * w + y) * s = k * (w * s) + y * s /\ k * (w * s) \in Nat /\ y * s \in Nat
        <4>1. (k * w + y) * s = k * (w * s) + y * s
          BY <2>5
        <4>2. w * s \in Nat /\ y * s \in Nat
          BY <2>5
        <4>3. k * (w * s) \in Nat
          BY <4>2
        <4> QED  BY <4>1, <4>2, <4>3
      <3> QED  BY <2>5, <3>1, <3>2
    <2> HIDE DEF h
    <2>7. t[0] = h * S[q + 1] + t[q + 1 + 1]
      BY <2>6
    <2>8. q + 1 # 0
      OBVIOUS
    <2> QED  BY <2>6, <2>7, <2>8
  <1>4. ASSUME NEW q \in 0..M PROVE Above(q)
    <2>1. Nat \subseteq X
      <3> HIDE DEF X
      <3> QED  BY <1>2, <1>3, SetInduction
    <2> QED  BY <1>0, <2>1
  <1>5. ASSUME NEW q \in 0..M
        PROVE  /\ t[0] \in Nat /\ t[0] % S[q] = t[q + 1] /\ t[0] \div S[q] \in Nat
               /\ q = 0 => t[0] \div S[q] = x[0]
    <2>1. PICK k \in Nat : t[0] = k * S[q] + t[q + 1] /\ (q = 0 => k = x[0])
      BY <1>4
    <2>2. S[q] \in Nat \ {0} /\ t[q + 1] \in 0..S[q] - 1
      BY <1>1
    <2> DEFINE s == S[q]
               r == t[q + 1]
    <2>3. s \in Nat \ {0} /\ r \in 0..s-1 /\ t[0] = k * s + r
      BY <2>1, <2>2
    <2> HIDE DEF s, r
    <2>4. t[0] \div s = k /\ t[0] % s = r
      BY <2>3, Division
    <2>5. t[0] \in Nat
      <3>1. k * s \in Nat
        BY <2>3
      <3> QED  BY <2>3, <3>1
    <2> QED  BY <2>1, <2>4, <2>5 DEF s, r
  <1>6. t[0] \in Nat
    <2>1. CASE 0 <= M
      <3>1. 0 \in 0..M
        BY <1>0, <2>1
      <3> QED  BY <1>5, <3>1
    <2>2. CASE ~ 0 <= M
      <3>1. M + 1 = 0
        BY <1>0, <2>2
      <3> QED  BY <3>1 DEF Amounts
    <2> QED  BY <2>1, <2>2
  <1>7. ASSUME 0 <= M PROVE t[0] \div S[0] = x[0]
    <2>1. 0 \in 0..M
      BY <1>0, <1>7
    <2> QED  BY <1>5, <2>1
  <1>8. ASSUME NEW q \in 1..M PROVE (t[0] % S[q - 1]) \div S[q] = x[q]
    <2>1. q \in 0..M /\ q - 1 \in 0..M /\ q - 1 + 1 = q
      BY <1>0
    <2>2. t[0] % S[q - 1] = t[q]
      BY <1>5, <2>1
    <2> DEFINE k == x[q]
               s == S[q]
               r == t[q + 1]
    <2>3. k \in Nat /\ s \in Nat \ {0} /\ r \in 0..s-1 /\ t[q] = k * s + r
      BY <1>1, <2>1
    <2> HIDE DEF k, s, r
    <2>4. t[q] \div s = k
      BY <2>3, Division
    <2> QED  BY <2>2, <2>4 DEF k, s
  <1> QED  BY <1>6, <1>7, <1>8

\* Conversely, the digits of a position amount to it.
LEMMA DigitsAmount ==
    ASSUME NEW M, NEW S, NEW W, Radix(M, S, W), \A q \in 1..M : W[q] > 0,
           NEW p \in Nat, M = -1 => p = 0,
           NEW x, NEW t, Amounts(M, S, x, t),
           0 <= M => x[0] = p \div S[0], \A q \in 1..M : x[q] = (p % S[q - 1]) \div S[q]
    PROVE  t[0] = p
  <1>0. M \in Int /\ -1 <= M /\ t[M + 1] = 0
    BY DEF Radix, Amounts
  <1>1. \A q \in 0..M : S[q] \in Nat \ {0} /\ t[q] = x[q] * S[q] + t[q + 1]
    BY Weights DEF Amounts
  <1> DEFINE X == {k \in Nat : k <= M => t[M - k + 1] = p % S[M - k]}
  <1>2. 0 \in X
    <2> SUFFICES ASSUME 0 <= M PROVE t[M - 0 + 1] = p % S[M - 0]
      OBVIOUS
    <2>1. M - 0 = M /\ S[M] = 1
      BY <1>0 DEF Radix
    <2>2. p % 1 = 0
      OBVIOUS
    <2> QED  BY <1>0, <2>1, <2>2
  <1>3. ASSUME NEW k \in Nat, k \in X PROVE k + 1 \in X
    <2> SUFFICES ASSUME k + 1 <= M PROVE t[M - (k + 1) + 1] = p % S[M - (k + 1)]
      OBVIOUS
    <2> DEFINE a == M - (k + 1)
               q == M - k
    <2>1. a \in 0..M-1 /\ q \in 1..M /\ q = a + 1 /\ q \in 0..M /\ k <= M /\ q - 1 = a
      BY <1>0
    <2>2. t[q + 1] = p % S[q]
      BY <1>3, <2>1
    <2>3. x[q] = (p % S[q - 1]) \div S[q]
      BY <2>1
    <2>4. S[a] = W[q] * S[q] /\ W[q] \in Nat \ {0} /\ S[q] \in Nat \ {0} /\ t[q] = x[q] * S[q] + t[q + 1]
      <3>1. W[q] \in Nat /\ W[q] > 0
        BY <2>1 DEF Radix
      <3> HIDE DEF q
      <3>2. S[a] = W[q] * S[q]
        BY <2>1 DEF Radix
      <3> QED  BY <1>1, <2>1, <3>1, <3>2
    <2>5. t[q] = p % S[a]
      <3> DEFINE w == W[q]
                 s == S[q]
      <3>1. w \in Nat \ {0} /\ s \in Nat \ {0}
        BY <2>4
      <3>2. t[q] = ((p % (w * s)) \div s) * s + (p % s) /\ S[a] = w * s
        BY <2>1, <2>2, <2>3, <2>4
      <3> HIDE DEF w, s, q, a
      <3>3. p % (w * s) = ((p % (w * s)) \div s) * s + (p % s)
        BY <3>1, Remainders
      <3> QED  BY <3>2, <3>3
    <2> HIDE DEF a, q
    <2>6. t[a + 1] = p % S[a]
      BY <2>1, <2>5
    <2> QED  BY <2>6 DEF a
  <1>4. Nat \subseteq X
    <2> HIDE DEF X
    <2> QED  BY <1>2, <1>3, SetInduction
  <1>5. CASE M = -1
    <2>1. M + 1 = 0
      BY <1>5
    <2> QED  BY <1>0, <1>5, <2>1
  <1>6. CASE 0 <= M
    <2>1. M \in Nat /\ M - M = 0 /\ 0 \in 0..M
      BY <1>0, <1>6
    <2>2. t[M - M + 1] = p % S[M - M]
      BY <1>4, <2>1
    <2> DEFINE s == S[0]
    <2>3. s \in Nat \ {0} /\ t[0] = (p \div s) * s + (p % s)
      BY <1>1, <1>6, <2>1, <2>2
    <2> HIDE DEF s
    <2> QED  BY <2>3
  <1> QED  BY <1>0, <1>5, <1>6

-----------------------------------------------------------------------------
(* The positions of a storage.                                               *)
\* The weights of the places are the strides, and lines are padded.
StorageRadix(n, l, align, lengths, S, W) ==
    LET M == MaxArg(l) IN
    /\ Radix(M, S, W)
    /\ \A d \in 0..n-1 : MakeInfo(l, align, lengths).strides[d].v = IF l[d] = -1 THEN 0 ELSE S[l[d]]
    /\ \A d \in 0..n-1 : l[d] # -1 => lengths[d].v <= W[l[d]]
    /\ 0 < M => IsMultiple(W[M], align.v)

LEMMA StorageWeights ==
    ASSUME NEW n, NEW l, NEW align, NEW lengths, IsStorage(n, l, align, lengths)
    PROVE  \E S, W : StorageRadix(n, l, align, lengths, S, W)
  <1> DEFINE M == MaxArg(l)
             padded == PaddedLengths(l, align, lengths)
  <1>1. PICK at : IsStrides(n, l, align, lengths, at)
    BY StrideFacts
  <1>2. /\ M \in Int /\ -1 <= M
        /\ \A d \in 0..n-1 : l[d] \in -1..M /\ (l[d] # -1 => Find(l, l[d]) = d)
        /\ \A p \in 0..M : Find(l, p) \in 0..n-1 /\ l[Find(l, p)] = p
    BY LayoutFacts DEF IsStorage
  <1>3. /\ padded \in [0..n-1 -> Numbers(Nat)]
        /\ \A d \in 0..n-1 : l[d] # -1 =>
              /\ lengths[d].v <= padded[d].v
              /\ l[d] = M /\ M # 0 => IsMultiple(padded[d].v, align.v)
    BY PaddingFacts
  <1>4. /\ at \in [0..M -> Numbers(Nat)]
        /\ 0 <= M => at[M] = Known(1)
        /\ \A p \in 0..M-1 : at[p] = Times(padded[Find(l, p + 1)], at[p + 1])
        /\ Strides(l, align, lengths) = [d \in 0..n-1 |-> IF l[d] = -1 THEN Known(0) ELSE at[l[d]]]
    BY <1>1 DEF IsStrides
  <1> DEFINE S == [p \in 0..M |-> at[p].v]
             W == [p \in 0..M |-> padded[Find(l, p)].v]
  <1> HIDE DEF M, padded
  <1>5. S \in [0..M -> Nat]
    BY <1>4 DEF Numbers
  <1>6. W \in [0..M -> Nat]
    <2>1. ASSUME NEW p \in 0..M PROVE padded[Find(l, p)].v \in Nat
      BY <1>2, <1>3 DEF Numbers
    <2> QED  BY <2>1
  <1>7. 0 <= M => S[M] = 1
    <2> SUFFICES ASSUME 0 <= M PROVE S[M] = 1
      OBVIOUS
    <2>1. M \in 0..M
      BY <1>2
    <2> QED  BY <1>4, <2>1 DEF Known
  <1>8. \A p \in 0..M-1 : S[p] = W[p + 1] * S[p + 1]
    <2> SUFFICES ASSUME NEW p \in 0..M-1 PROVE S[p] = W[p + 1] * S[p + 1]
      OBVIOUS
    <2>1. p \in 0..M /\ p + 1 \in 0..M
      BY <1>2
    <2>2. at[p].v = padded[Find(l, p + 1)].v * at[p + 1].v
      <3>1. at[p] = Times(padded[Find(l, p + 1)], at[p + 1])
        BY <1>4
      <3> QED  BY <3>1 DEF Times, Result
    <2> QED  BY <2>1, <2>2
  <1>9. Radix(M, S, W)
    BY <1>2, <1>5, <1>6, <1>7, <1>8 DEF Radix
  <1>10. \A d \in 0..n-1 : MakeInfo(l, align, lengths).strides[d].v = IF l[d] = -1 THEN 0 ELSE S[l[d]]
    <2> SUFFICES ASSUME NEW d \in 0..n-1 PROVE Strides(l, align, lengths)[d].v = IF l[d] = -1 THEN 0 ELSE S[l[d]]
      BY DEF MakeInfo
    <2>1. CASE l[d] = -1
      BY <1>4, <2>1 DEF Known
    <2>2. CASE l[d] # -1
      <3>1. l[d] \in 0..M
        BY <1>2, <2>2
      <3> QED  BY <1>4, <2>2, <3>1
    <2> QED  BY <2>1, <2>2
  <1>11. \A d \in 0..n-1 : l[d] # -1 => lengths[d].v <= W[l[d]]
    <2> SUFFICES ASSUME NEW d \in 0..n-1, l[d] # -1 PROVE lengths[d].v <= W[l[d]]
      OBVIOUS
    <2>1. l[d] \in 0..M /\ Find(l, l[d]) = d
      BY <1>2
    <2>2. W[l[d]] = padded[d].v
      BY <2>1
    <2> QED  BY <1>3, <2>2
  <1>12. 0 < M => IsMultiple(W[M], align.v)
    <2> SUFFICES ASSUME 0 < M PROVE IsMultiple(W[M], align.v)
      OBVIOUS
    <2>1. M \in 0..M /\ M # 0 /\ M # -1
      BY <1>2
    <2>2. Find(l, M) \in 0..n-1 /\ l[Find(l, M)] = M
      BY <1>2, <2>1
    <2>3. IsMultiple(padded[Find(l, M)].v, align.v)
      BY <1>3, <2>1, <2>2
    <2> QED  BY <2>1, <2>3
  <1> HIDE DEF S, W
  <1> QED  BY <1>9, <1>10, <1>11, <1>12 DEF StorageRadix, M

\* What the places from q on contribute to a position.
Part(n, l, S, is, q) == [d \in 0..n-1 |-> IF l[d] # -1 /\ l[d] >= q THEN is[d] * S[l[d]] ELSE 0]

LEMMA PartFacts ==
    ASSUME NEW n \in Nat, NEW l \in Layouts(n), NEW S \in [0..MaxArg(l) -> Nat], NEW is \in [0..n-1 -> Int]
    PROVE  LET M == MaxArg(l) IN
           /\ \A q \in 0..M+1 : Part(n, l, S, is, q) \in [0..n-1 -> Int] /\ SumFunction(Part(n, l, S, is, q)) \in Int
           /\ SumFunction(Part(n, l, S, is, M + 1)) = 0
           /\ \A q \in 0..M : SumFunction(Part(n, l, S, is, q))
                              = is[Find(l, q)] * S[q] + SumFunction(Part(n, l, S, is, q + 1))
  <1> DEFINE M == MaxArg(l)
             I == 0..n-1
             P(q) == Part(n, l, S, is, q)
  <1>1. /\ M \in Int /\ -1 <= M /\ IsFiniteSet(I)
        /\ \A d \in I : l[d] \in -1..M /\ (l[d] # -1 => Find(l, l[d]) = d)
        /\ \A p \in 0..M : Find(l, p) \in I /\ l[Find(l, p)] = p
    BY LayoutFacts
  <1> HIDE DEF M
  <1>2. ASSUME NEW d \in I, l[d] # -1 PROVE is[d] * S[l[d]] \in Int /\ l[d] \in 0..M
    <2>1. l[d] \in 0..M
      BY <1>1, <1>2
    <2>2. S[l[d]] \in Nat /\ is[d] \in Int
      BY <2>1 DEF M
    <2> QED  BY <2>1, <2>2
  <1>3. ASSUME NEW q \in 0..M+1 PROVE P(q) \in [I -> Int]
    BY <1>2 DEF Part
  <1>4. ASSUME NEW q \in 0..M+1 PROVE SumFunction(P(q)) \in Int
    <2>1. P(q) \in [I -> Int]
      BY <1>3
    <2> HIDE DEF P, I
    <2> QED  BY <1>1, <2>1, SumInt
  <1>5. SumFunction(P(M + 1)) = 0
    <2> DEFINE f == P(M + 1)
    <2>1. \A d \in I : f[d] = 0
      <3> SUFFICES ASSUME NEW d \in I PROVE f[d] = 0
        OBVIOUS
      <3>1. ~ (l[d] # -1 /\ l[d] >= M + 1)
        BY <1>1
      <3> QED  BY <3>1 DEF Part
    <2>2. f \in [I -> Int]
      <3>1. M + 1 \in 0..M+1
        BY <1>1
      <3> QED  BY <1>3, <3>1
    <2> HIDE DEF f
    <2>3. SumFunction(f) = 0
      BY <1>1, <2>1, <2>2, SumZero
    <2> QED  BY <2>3 DEF f
  <1>6. ASSUME NEW q \in 0..M PROVE SumFunction(P(q)) = is[Find(l, q)] * S[q] + SumFunction(P(q + 1))
    <2>1. PICK e \in I : e = Find(l, q) /\ l[e] = q /\ q # -1 /\ q \in 0..M+1 /\ q + 1 \in 0..M+1
      BY <1>1
    <2>2. PICK g \in [I -> Int] : g = P(q + 1)
      BY <1>3, <2>1
    <2>3. PICK h \in [I -> Int] : h = P(q)
      BY <1>3, <2>1
    <2>4. h[e] = is[e] * S[q] /\ g[e] = 0
      BY <1>1, <2>1, <2>2, <2>3 DEF Part
    <2>5. \A d \in I : d # e => h[d] = g[d]
      <3> SUFFICES ASSUME NEW d \in I, d # e PROVE h[d] = g[d]
        OBVIOUS
      <3>1. l[d] # q
        BY <1>1, <2>1
      <3>2. l[d] # -1 /\ l[d] >= q <=> l[d] # -1 /\ l[d] >= q + 1
        <4>1. l[d] \in Int /\ q \in Int
          BY <1>1
        <4> QED  BY <3>1, <4>1
      <3> QED  BY <2>2, <2>3, <3>2 DEF Part
    <2>6. IsFiniteSet(I)
      BY <1>1
    <2> HIDE DEF I, P
    <2>7. SumFunction(h) = (h[e] - g[e]) + SumFunction(g)
      BY <2>5, <2>6, SumChange
    <2>8. h[e] \in Int /\ h[e] - 0 = h[e]
      OBVIOUS
    <2> QED  BY <2>1, <2>2, <2>3, <2>4, <2>7, <2>8
  <1> HIDE DEF P
  <1> QED  BY <1>3, <1>4, <1>5, <1>6 DEF M, P

\* The indices by their places, and what they amount to.
Digits(l, S, info, is, x, t) ==
    /\ Amounts(MaxArg(l), S, x, t)
    /\ x = [p \in 0..MaxArg(l) |-> is[Find(l, p)]]
    /\ t[0] = IndexOf(info, is)

LEMMA IndexAmounts ==
    ASSUME NEW n, NEW l, NEW align, NEW lengths, IsStorage(n, l, align, lengths),
           NEW S, NEW W, StorageRadix(n, l, align, lengths, S, W),
           NEW is \in [0..n-1 -> Nat]
    PROVE  \E x, t : Digits(l, S, MakeInfo(l, align, lengths), is, x, t)
  <1>1. PICK M : M = MaxArg(l)
    OBVIOUS
  <1>2. /\ n \in Nat /\ l \in Layouts(n) /\ M \in Int /\ -1 <= M /\ S \in [0..M -> Nat]
        /\ \A p \in 0..M : Find(l, p) \in 0..n-1
        /\ \A d \in 0..n-1 : l[d] \in -1..M
    BY <1>1, LayoutFacts DEF IsStorage, StorageRadix, Radix
  <1> DEFINE x == [p \in 0..M |-> is[Find(l, p)]]
             t == [q \in 0..M+1 |-> SumFunction(Part(n, l, S, is, q))]
  <1>3. /\ \A q \in 0..M+1 : SumFunction(Part(n, l, S, is, q)) \in Int
        /\ SumFunction(Part(n, l, S, is, M + 1)) = 0
        /\ \A q \in 0..M : SumFunction(Part(n, l, S, is, q))
                           = is[Find(l, q)] * S[q] + SumFunction(Part(n, l, S, is, q + 1))
    <2>1. is \in [0..n-1 -> Int]
      OBVIOUS
    <2> QED  BY <1>1, <1>2, <2>1, PartFacts
  <1>4. Amounts(M, S, x, t)
    <2>1. x \in [0..M -> Nat]
      BY <1>2
    <2>2. t \in [0..M+1 -> Int]
      BY <1>3
    <2>3. t[M + 1] = 0
      <3>1. M + 1 \in 0..M+1
        BY <1>2
      <3> QED  BY <1>3, <3>1
    <2>4. \A q \in 0..M : t[q] = x[q] * S[q] + t[q + 1]
      <3> SUFFICES ASSUME NEW q \in 0..M PROVE t[q] = x[q] * S[q] + t[q + 1]
        OBVIOUS
      <3>1. q \in 0..M+1 /\ q + 1 \in 0..M+1
        BY <1>2
      <3> QED  BY <1>3, <3>1
    <2> QED  BY <2>1, <2>2, <2>3, <2>4 DEF Amounts
  <1>5. t[0] = IndexOf(MakeInfo(l, align, lengths), is)
    <2> DEFINE strides == MakeInfo(l, align, lengths).strides
    <2>1. 0 \in 0..M+1
      BY <1>2
    <2>2. ASSUME NEW d \in 0..n-1
          PROVE  is[d] * strides[d].v = IF l[d] # -1 /\ l[d] >= 0 THEN is[d] * S[l[d]] ELSE 0
      <3>1. strides[d].v = IF l[d] = -1 THEN 0 ELSE S[l[d]]
        BY DEF StorageRadix
      <3>2. CASE l[d] = -1
        <4>1. is[d] * 0 = 0
          OBVIOUS
        <4> QED  BY <3>1, <3>2, <4>1
      <3>3. CASE l[d] # -1
        <4>1. l[d] >= 0
          BY <1>2, <3>3
        <4> QED  BY <3>1, <3>3, <4>1
      <3> QED  BY <3>2, <3>3
    <2>3. [d \in DOMAIN is |-> is[d] * strides[d].v] = Part(n, l, S, is, 0)
      <3>1. DOMAIN is = 0..n-1
        OBVIOUS
      <3> HIDE DEF strides
      <3> QED  BY <2>2, <3>1 DEF Part
    <2>4. IndexOf(MakeInfo(l, align, lengths), is) = SumFunction(Part(n, l, S, is, 0))
      BY <2>3 DEF IndexOf
    <2> QED  BY <2>1, <2>4
  <1>6. Digits(l, S, MakeInfo(l, align, lengths), is, x, t)
    <2>1. x = [p \in 0..M |-> is[Find(l, p)]]
      OBVIOUS
    <2> HIDE DEF x, t
    <2> QED  BY <1>1, <1>4, <1>5, <2>1 DEF Digits
  <1> HIDE DEF x, t
  <1> QED  BY <1>6

\* The positions are counted from zero, and grow with the indices.
LEMMA IndexOfFacts ==
    ASSUME NEW n, NEW l, NEW align, NEW lengths, IsStorage(n, l, align, lengths),
           NEW is \in [0..n-1 -> Nat], NEW js \in [0..n-1 -> Nat], \A d \in 0..n-1 : is[d] <= js[d]
    PROVE  LET info == MakeInfo(l, align, lengths) IN
           IndexOf(info, is) \in Nat /\ IndexOf(info, js) \in Nat /\ IndexOf(info, is) <= IndexOf(info, js)
  <1> DEFINE info == MakeInfo(l, align, lengths)
             I == 0..n-1
  <1>1. IsFiniteSet(I)
    BY LayoutFacts DEF IsStorage
  <1>2. PICK S, W : StorageRadix(n, l, align, lengths, S, W)
    BY StorageWeights
  <1>3. \A d \in I : l[d] \in -1..MaxArg(l)
    BY LayoutFacts DEF IsStorage
  <1>4. ASSUME NEW d \in I PROVE info.strides[d].v \in Nat
    <2>1. info.strides[d].v = IF l[d] = -1 THEN 0 ELSE S[l[d]]
      BY <1>2 DEF StorageRadix
    <2>2. CASE l[d] = -1
      BY <2>1, <2>2
    <2>3. CASE l[d] # -1
      <3>1. S \in [0..MaxArg(l) -> Nat] /\ MaxArg(l) \in Int
        BY <1>2 DEF StorageRadix, Radix
      <3>2. l[d] \in 0..MaxArg(l)
        BY <1>3, <2>3, <3>1
      <3> QED  BY <2>1, <2>3, <3>1, <3>2
    <2> QED  BY <2>2, <2>3
  <1> HIDE DEF info
  <1>5. PICK z : z = [d \in I |-> 0]
    OBVIOUS
  <1>6. PICK f : f = [d \in DOMAIN is |-> is[d] * info.strides[d].v]
    OBVIOUS
  <1>7. PICK g : g = [d \in DOMAIN js |-> js[d] * info.strides[d].v]
    OBVIOUS
  <1>8. DOMAIN is = I /\ DOMAIN js = I
    OBVIOUS
  <1>9. ASSUME NEW d \in I PROVE f[d] \in Int /\ g[d] \in Int /\ 0 <= f[d] /\ f[d] <= g[d]
    <2> DEFINE a == is[d]
               b == js[d]
               s == info.strides[d].v
    <2>1. a \in Nat /\ b \in Nat /\ a <= b /\ s \in Nat
      BY <1>4
    <2>2. f[d] = a * s /\ g[d] = b * s
      BY <1>6, <1>7, <1>8
    <2> HIDE DEF a, b, s
    <2>3. a * s \in Nat /\ b * s \in Nat /\ a * s <= b * s
      BY <2>1
    <2> QED  BY <2>2, <2>3
  <1>10. f \in [I -> Int] /\ g \in [I -> Int]
    <2>1. f = [d \in I |-> f[d]] /\ g = [d \in I |-> g[d]]
      BY <1>6, <1>7, <1>8
    <2> QED  BY <1>9, <2>1
  <1>11. z \in [I -> Int] /\ (\A d \in I : z[d] = 0) /\ \A d \in I : z[d] <= f[d]
    BY <1>5, <1>9
  <1>12. \A d \in I : f[d] <= g[d]
    BY <1>9
  <1> HIDE DEF I
  <1>13. SumFunction(f) <= SumFunction(g)
    BY <1>1, <1>10, <1>12, SumAtMost
  <1>14. SumFunction(z) <= SumFunction(f)
    BY <1>1, <1>10, <1>11, SumAtMost
  <1>15. SumFunction(z) = 0
    BY <1>1, <1>11, SumZero
  <1>16. SumFunction(f) \in Int /\ SumFunction(g) \in Int
    BY <1>1, <1>10, SumInt
  <1>17. IndexOf(info, is) = SumFunction(f) /\ IndexOf(info, js) = SumFunction(g)
    BY <1>6, <1>7 DEF IndexOf
  <1> QED  BY <1>13, <1>14, <1>15, <1>16, <1>17 DEF info

\* The last index has the last position.
LEMMA InfoLengthFacts ==
    ASSUME NEW n, NEW l, NEW align, NEW lengths, IsStorage(n, l, align, lengths)
    PROVE  LET info == MakeInfo(l, align, lengths)
               last == [d \in 0..n-1 |-> lengths[d].v - 1] IN
           /\ InfoLength(info) \in Nat
           /\ InfoLength(info) > 0 => \A d \in 0..n-1 : lengths[d].v \in Nat \ {0}
           /\ (\A d \in 0..n-1 : lengths[d].v > 0) =>
                 last \in [0..n-1 -> Nat] /\ InfoLength(info) = IndexOf(info, last) + 1
  <1> DEFINE info == MakeInfo(l, align, lengths)
             last == [d \in 0..n-1 |-> lengths[d].v - 1]
  <1>1. info.lengths = lengths /\ DOMAIN lengths = 0..n-1 /\ \A d \in 0..n-1 : lengths[d].v \in Nat
    BY DEF MakeInfo, IsStorage, Numbers
  <1>2. CASE \E d \in 0..n-1 : lengths[d].v = 0
    BY <1>1, <1>2 DEF InfoLength
  <1>3. CASE ~ \E d \in 0..n-1 : lengths[d].v = 0
    <2>1. InfoLength(info) = IndexOf(info, last) + 1
      BY <1>1, <1>3 DEF InfoLength
    <2>2. last \in [0..n-1 -> Nat]
      BY <1>1, <1>3
    <2> HIDE DEF last, info
    <2>3. IndexOf(info, last) \in Nat
      <3>1. \A d \in 0..n-1 : last[d] <= last[d]
        BY <2>2
      <3> QED  BY <2>2, <3>1, IndexOfFacts DEF info
    <2>4. InfoLength(info) \in Nat
      BY <2>1, <2>3
    <2>5. \A d \in 0..n-1 : lengths[d].v \in Nat \ {0}
      BY <1>1, <1>3
    <2> QED  BY <2>1, <2>2, <2>4, <2>5 DEF info, last
  <1> QED  BY <1>2, <1>3

(* Every index of a storage has a position in it, whatever the number of     *)
(* dimensions, the layout, the lengths and the alignment; and restore_index  *)
(* gets the index back from it: no two indices that differ in a dimension    *)
(* that is not masked have the same position.                                *)
THEOREM IndicesFound ==
    ASSUME NEW n, NEW l, NEW align, NEW lengths, IsStorage(n, l, align, lengths),
           NEW is \in [0..n-1 -> Nat], InRange(MakeInfo(l, align, lengths), is)
    PROVE  LET info == MakeInfo(l, align, lengths) IN
           /\ IndexOf(info, is) \in 0..InfoLength(info) - 1
           /\ \A d \in 0..n-1 : l[d] # -1 => RestoreIndices(info, l, IndexOf(info, is))[d] = is[d]
  <1>1. PICK M : M = MaxArg(l)
    OBVIOUS
  <1>2. PICK info : info = MakeInfo(l, align, lengths)
    OBVIOUS
  <1>3. /\ n \in Nat /\ M \in Int /\ -1 <= M /\ DOMAIN l = 0..n-1
        /\ \A p \in 0..M : Find(l, p) \in 0..n-1 /\ l[Find(l, p)] = p
        /\ \A d \in 0..n-1 : l[d] \in -1..M /\ (l[d] # -1 => Find(l, l[d]) = d)
    BY <1>1, LayoutFacts DEF IsStorage
  <1>4. \A d \in 0..n-1 : is[d] < lengths[d].v /\ lengths[d].v \in Nat /\ is[d] \in Nat
    BY DEF InRange, MakeInfo, IsStorage, Numbers
  <1>5. PICK S, W : StorageRadix(n, l, align, lengths, S, W)
    BY StorageWeights
  <1>d. PICK x, t : Digits(l, S, info, is, x, t)
    BY <1>2, <1>5, IndexAmounts
  <1>e. Amounts(M, S, x, t)
    BY <1>1, <1>d DEF Digits
  <1>6. x = [p \in 0..M |-> is[Find(l, p)]] /\ t[0] = IndexOf(info, is)
    BY <1>1, <1>d DEF Digits
  <1>7. Radix(M, S, W)
    BY <1>1, <1>5 DEF StorageRadix
  <1>8. \A q \in 1..M : x[q] < W[q]
    <2> SUFFICES ASSUME NEW q \in 1..M PROVE x[q] < W[q]
      OBVIOUS
    <2>1. q \in 0..M /\ q # -1
      BY <1>3
    <2>2. PICK d \in 0..n-1 : d = Find(l, q) /\ l[d] = q
      BY <1>3, <2>1
    <2>3. x[q] = is[d] /\ lengths[d].v <= W[q]
      BY <1>5, <1>6, <2>1, <2>2 DEF StorageRadix
    <2>4. W[q] \in Nat
      BY <1>7, <2>1 DEF Radix
    <2> QED  BY <1>4, <2>3, <2>4
  <1>9. /\ t[0] \in Nat
        /\ 0 <= M => t[0] \div S[0] = x[0]
        /\ \A q \in 1..M : (t[0] % S[q - 1]) \div S[q] = x[q]
    BY <1>e, <1>7, <1>8, DigitsFound
  <1>10. ASSUME NEW d \in 0..n-1, l[d] # -1 PROVE RestoreIndices(info, l, t[0])[d] = is[d]
    <2> DEFINE q == l[d]
    <2>1. q \in 0..M /\ Find(l, q) = d /\ 0 <= M
      BY <1>3, <1>10
    <2>2. x[q] = is[d]
      BY <1>6, <2>1
    <2>3. info.strides[d].v = S[q]
      BY <1>2, <1>5, <1>10 DEF StorageRadix
    <2>4. CASE q = 0
      <3>1. RestoreIndices(info, l, t[0])[d] = t[0] \div info.strides[d].v
        BY <1>3, <1>10, <2>4 DEF RestoreIndices
      <3> QED  BY <1>9, <2>1, <2>2, <2>3, <2>4, <3>1
    <2>5. CASE q # 0
      <3>1. q \in 1..M /\ q - 1 \in 0..M /\ q - 1 # -1
        <4> HIDE DEF q
        <4> QED  BY <1>3, <2>1, <2>5
      <3>2. PICK e \in 0..n-1 : e = Find(l, q - 1) /\ l[e] = q - 1
        BY <1>3, <3>1
      <3>3. info.strides[e].v = S[q - 1]
        BY <1>2, <1>5, <3>1, <3>2 DEF StorageRadix
      <3>4. RestoreIndices(info, l, t[0])[d] = (t[0] % info.strides[e].v) \div info.strides[d].v
        BY <1>3, <1>10, <2>5, <3>2 DEF RestoreIndices
      <3> QED  BY <1>9, <2>2, <2>3, <3>1, <3>3, <3>4
    <2> QED  BY <2>4, <2>5
  <1>11. IndexOf(info, is) \in 0..InfoLength(info) - 1
    <2>1. PICK last : last = [d \in 0..n-1 |-> lengths[d].v - 1]
      OBVIOUS
    <2>2. last \in [0..n-1 -> Nat] /\ InfoLength(info) = IndexOf(info, last) + 1
      <3>1. \A d \in 0..n-1 : lengths[d].v > 0
        BY <1>4
      <3> QED  BY <1>2, <2>1, <3>1, InfoLengthFacts
    <2>3. \A d \in 0..n-1 : is[d] <= last[d]
      BY <1>4, <2>1
    <2>4. IndexOf(info, is) \in Nat /\ IndexOf(info, last) \in Nat /\ IndexOf(info, is) <= IndexOf(info, last)
      BY <1>2, <2>2, <2>3, IndexOfFacts
    <2> QED  BY <2>2, <2>4
  <1> QED  BY <1>2, <1>6, <1>10, <1>11

(* And every position of a storage has indices: the position of the indices  *)
(* that restore_index finds for it is the same position, in the padding of   *)
(* a line as well.                                                           *)
THEOREM PositionsHeld ==
    ASSUME NEW n, NEW l, NEW align, NEW lengths, IsStorage(n, l, align, lengths),
           NEW p \in 0..InfoLength(MakeInfo(l, align, lengths)) - 1
    PROVE  LET info == MakeInfo(l, align, lengths) IN
           /\ RestoreIndices(info, l, p) \in [0..n-1 -> Nat]
           /\ IndexOf(info, RestoreIndices(info, l, p)) = p
  <1>1. PICK M : M = MaxArg(l)
    OBVIOUS
  <1>2. PICK info : info = MakeInfo(l, align, lengths)
    OBVIOUS
  <1>3. /\ n \in Nat /\ M \in Int /\ -1 <= M /\ DOMAIN l = 0..n-1
        /\ \A q \in 0..M : Find(l, q) \in 0..n-1 /\ l[Find(l, q)] = q
        /\ \A d \in 0..n-1 : l[d] \in -1..M /\ (l[d] # -1 => Find(l, l[d]) = d)
    BY <1>1, LayoutFacts DEF IsStorage
  <1>4. InfoLength(info) \in Nat /\ (InfoLength(info) > 0 => \A d \in 0..n-1 : lengths[d].v \in Nat \ {0})
    BY <1>2, InfoLengthFacts
  <1>5. p \in Nat /\ p < InfoLength(info) /\ \A d \in 0..n-1 : lengths[d].v \in Nat \ {0}
    BY <1>2, <1>4
  <1>6. PICK S, W : StorageRadix(n, l, align, lengths, S, W)
    BY StorageWeights
  <1>7. Radix(M, S, W)
    BY <1>1, <1>6 DEF StorageRadix
  <1>8. \A q \in 1..M : W[q] > 0
    <2> SUFFICES ASSUME NEW q \in 1..M PROVE W[q] > 0
      OBVIOUS
    <2>1. q \in 0..M /\ q # -1
      BY <1>3
    <2>2. PICK d \in 0..n-1 : l[d] = q
      BY <1>3, <2>1
    <2>3. lengths[d].v <= W[q]
      BY <1>6, <2>1, <2>2 DEF StorageRadix
    <2>4. W[q] \in Nat
      BY <1>7, <2>1 DEF Radix
    <2> QED  BY <1>5, <2>3, <2>4
  <1>9. \A q \in 0..M : S[q] \in Nat \ {0}
    BY <1>7, <1>8, Weights
  <1>10. PICK is : is = RestoreIndices(info, l, p)
    OBVIOUS
  <1>11. \A d \in 0..n-1 : info.strides[d].v = IF l[d] = -1 THEN 0 ELSE S[l[d]]
    BY <1>2, <1>6 DEF StorageRadix
  <1>12. info.lengths = lengths
    BY <1>2 DEF MakeInfo
  <1>13. ASSUME NEW d \in 0..n-1, l[d] = 0
         PROVE  0 \in 0..M /\ is[d] = p \div S[0]
    <2>1. 0 \in 0..M
      BY <1>3, <1>13
    <2>2. is[d] = p \div info.strides[d].v
      BY <1>3, <1>10, <1>13 DEF RestoreIndices
    <2>3. info.strides[d].v = S[0]
      BY <1>11, <1>13
    <2> QED  BY <2>1, <2>2, <2>3
  <1>14. ASSUME NEW d \in 0..n-1, NEW q \in 1..M, l[d] = q
         PROVE  is[d] = (p % S[q - 1]) \div S[q]
    <2>1. q - 1 \in 0..M /\ q - 1 # -1 /\ q # -1 /\ q # 0
      BY <1>3
    <2>2. PICK e \in 0..n-1 : e = Find(l, q - 1) /\ l[e] = q - 1
      BY <1>3, <2>1
    <2>3. info.strides[e].v = S[q - 1] /\ info.strides[d].v = S[q]
      BY <1>11, <1>14, <2>1, <2>2
    <2>4. is[d] = (p % info.strides[e].v) \div info.strides[d].v
      BY <1>3, <1>10, <1>14, <2>1, <2>2 DEF RestoreIndices
    <2> QED  BY <2>3, <2>4
  <1>15. is = [d \in 0..n-1 |-> is[d]]
    BY <1>3, <1>10 DEF RestoreIndices
  <1>16. ASSUME NEW d \in 0..n-1 PROVE is[d] \in Nat
    <2>1. CASE l[d] = -1
      <3>1. is[d] = lengths[d].v - 1
        BY <1>3, <1>10, <1>12, <2>1 DEF RestoreIndices
      <3> QED  BY <1>5, <3>1
    <2>2. CASE l[d] = 0
      <3>1. S[0] \in Nat \ {0} /\ is[d] = p \div S[0]
        BY <1>9, <1>13, <2>2
      <3> QED  BY <1>5, <3>1
    <2>3. CASE l[d] # -1 /\ l[d] # 0
      <3>1. PICK q \in 1..M : q = l[d] /\ q \in 0..M /\ q - 1 \in 0..M
        BY <1>3, <2>3
      <3>2. is[d] = (p % S[q - 1]) \div S[q] /\ S[q] \in Nat \ {0} /\ S[q - 1] \in Nat \ {0}
        BY <1>9, <1>14, <3>1
      <3> QED  BY <1>5, <3>2
    <2> QED  BY <2>1, <2>2, <2>3
  <1>17. is \in [0..n-1 -> Nat]
    BY <1>15, <1>16
  <1>18. PICK x, t : Digits(l, S, info, is, x, t)
    BY <1>2, <1>6, <1>17, IndexAmounts
  <1>19. Amounts(M, S, x, t)
    BY <1>1, <1>18 DEF Digits
  <1>20. x = [q \in 0..M |-> is[Find(l, q)]] /\ t[0] = IndexOf(info, is)
    BY <1>1, <1>18 DEF Digits
  <1>21. 0 <= M => x[0] = p \div S[0]
    <2> SUFFICES ASSUME 0 <= M PROVE x[0] = p \div S[0]
      OBVIOUS
    <2>1. 0 \in 0..M
      BY <1>3
    <2>2. Find(l, 0) \in 0..n-1 /\ l[Find(l, 0)] = 0 /\ x[0] = is[Find(l, 0)]
      BY <1>3, <1>20, <2>1
    <2> QED  BY <1>13, <2>2
  <1>22. \A q \in 1..M : x[q] = (p % S[q - 1]) \div S[q]
    <2> SUFFICES ASSUME NEW q \in 1..M PROVE x[q] = (p % S[q - 1]) \div S[q]
      OBVIOUS
    <2>1. q \in 0..M
      BY <1>3
    <2>2. Find(l, q) \in 0..n-1 /\ l[Find(l, q)] = q /\ x[q] = is[Find(l, q)]
      BY <1>3, <1>20, <2>1
    <2> QED  BY <1>14, <2>2
  <1>23. M = -1 => p = 0
    <2> SUFFICES ASSUME M = -1 PROVE p = 0
      OBVIOUS
    <2>1. PICK last : last = [d \in 0..n-1 |-> lengths[d].v - 1]
      OBVIOUS
    <2>2. last \in [0..n-1 -> Nat] /\ InfoLength(info) = IndexOf(info, last) + 1
      <3>1. \A d \in 0..n-1 : lengths[d].v > 0
        BY <1>5
      <3> QED  BY <1>2, <2>1, <3>1, InfoLengthFacts
    <2>3. PICK y, u : Digits(l, S, info, last, y, u)
      BY <1>2, <1>6, <2>2, IndexAmounts
    <2>4. u[0] = IndexOf(info, last) /\ u[M + 1] = 0 /\ M + 1 = 0
      BY <1>1, <2>3 DEF Digits, Amounts
    <2> QED  BY <1>5, <2>2, <2>4
  <1>24. t[0] = p
    BY <1>5, <1>7, <1>8, <1>19, <1>21, <1>22, <1>23, DigitsAmount
  <1> QED  BY <1>2, <1>10, <1>17, <1>20, <1>24

-----------------------------------------------------------------------------
(* Alignment.                                                                *)

\* The divisors that two numbers have in common, and the greatest of them.
Common(a, b) == {d \in Nat \ {0} : IsMultiple(a, d) /\ IsMultiple(b, d)}

IsGreatest(g, a, b) == g \in Common(a, b) /\ \A e \in Common(a, b) : e <= g

Greatest(a, b) == IF a = 0 /\ b = 0 THEN 0 ELSE CHOOSE g : IsGreatest(g, a, b)

LEMMA CommonSteps ==
    ASSUME NEW a \in Nat, NEW b \in Nat \ {0}
    PROVE  a % b \in Nat /\ a % b < b /\ Common(a, b) = Common(b, a % b)
  <1> DEFINE q == a \div b
             r == a % b
  <1>1. q \in Nat /\ r \in Nat /\ r < b /\ a = b * q + r
    OBVIOUS
  <1> HIDE DEF q, r
  <1>2. ASSUME NEW d \in Nat \ {0}, IsMultiple(b, d) PROVE IsMultiple(a, d) <=> IsMultiple(r, d)
    <2>1. PICK k \in Int : b = k * d
      BY <1>2 DEF IsMultiple
    <2>2. b * q = (k * q) * d /\ k * q \in Int
      BY <1>1, <2>1
    <2>3. ASSUME NEW j \in Int, r = j * d PROVE IsMultiple(a, d)
      <3>1. a = (k * q + j) * d /\ k * q + j \in Int
        BY <1>1, <2>2, <2>3
      <3> QED  BY <3>1 DEF IsMultiple
    <2>4. ASSUME NEW j \in Int, a = j * d PROVE IsMultiple(r, d)
      <3>1. r = (j - k * q) * d /\ j - k * q \in Int
        BY <1>1, <2>2, <2>4
      <3> QED  BY <3>1 DEF IsMultiple
    <2> QED  BY <2>3, <2>4 DEF IsMultiple
  <1>3. Common(a, b) = Common(b, r)
    BY <1>2 DEF Common
  <1> QED  BY <1>1, <1>3 DEF r

LEMMA CommonWithZero ==
    ASSUME NEW a \in Nat \ {0}
    PROVE  IsGreatest(a, a, 0) /\ \A g : IsGreatest(g, a, 0) => g = a
  <1>1. a \in Common(a, 0)
    <2>1. a = 1 * a /\ 0 = 0 * a
      OBVIOUS
    <2> QED  BY <2>1 DEF Common, IsMultiple
  <1>2. ASSUME NEW e \in Common(a, 0) PROVE e <= a
    <2>1. PICK k \in Int : a = k * e
      BY <1>2 DEF Common, IsMultiple
    <2>2. e \in Nat \ {0}
      BY <1>2 DEF Common
    <2>3. k >= 1
      BY <2>1, <2>2
    <2>4. (k - 1) * e >= 0 /\ (k - 1) * e = k * e - e
      BY <2>2, <2>3
    <2> QED  BY <2>1, <2>2, <2>4
  <1>3. ASSUME NEW g, IsGreatest(g, a, 0) PROVE g = a
    <2>1. g \in Nat /\ a <= g /\ g <= a
      BY <1>1, <1>2, <1>3 DEF IsGreatest, Common
    <2> QED  BY <2>1
  <1> QED  BY <1>1, <1>2, <1>3 DEF IsGreatest

\* Euclid's rule: a function follows it.
Euclid(g) == g = [b \in Nat |-> [a \in Nat |-> IF b = 0 THEN a ELSE g[a % b][b]]]

LEMMA EuclidExists == \E g : Euclid(g)
  <1> DEFINE g == [b \in Nat |-> [a \in Nat |-> Greatest(a, b)]]
  <1>1. ASSUME NEW a \in Nat, NEW b \in Nat
        PROVE  Greatest(a, b) = IF b = 0 THEN a ELSE g[a % b][b]
    <2>1. CASE b = 0 /\ a = 0
      BY <2>1 DEF Greatest
    <2>2. CASE b = 0 /\ a # 0
      BY <2>2, CommonWithZero DEF Greatest
    <2>3. CASE b # 0
      <3>1. a % b \in Nat /\ Common(a, b) = Common(b, a % b)
        BY <2>3, CommonSteps
      <3>2. g[a % b][b] = Greatest(b, a % b)
        BY <3>1
      <3>3. \A h : IsGreatest(h, a, b) <=> IsGreatest(h, b, a % b)
        BY <3>1 DEF IsGreatest
      <3>4. Greatest(a, b) = Greatest(b, a % b)
        BY <2>3, <3>3 DEF Greatest
      <3> QED  BY <2>3, <3>2, <3>4
    <2> QED  BY <2>1, <2>2, <2>3
  <1>2. g = [b \in Nat |-> [a \in Nat |-> IF b = 0 THEN a ELSE g[a % b][b]]]
    BY <1>1
  <1> QED  BY <1>2 DEF Euclid

\* Gcd gives a divisor of both numbers.
LEMMA GcdDivides ==
    ASSUME NEW m \in Nat \ {0}, NEW n \in Nat
    PROVE  Gcd(m, n) \in Common(m, n)
  <1> DEFINE gcd == CHOOSE g : Euclid(g)
  <1>1. Gcd(m, n) = gcd[n][m]
    BY DEF Gcd, Euclid
  <1>2. \A b \in Nat : \A a \in Nat : gcd[b][a] = IF b = 0 THEN a ELSE gcd[a % b][b]
    <2>1. Euclid(gcd)
      BY EuclidExists
    <2> HIDE DEF gcd
    <2> QED  BY <2>1 DEF Euclid
  <1> HIDE DEF gcd
  <1> DEFINE Divides(b) == \A a \in Nat : a # 0 \/ b # 0 => gcd[b][a] \in Common(a, b)
             X == {k \in Nat : \A b \in 0..k : Divides(b)}
  <1>3. ASSUME NEW b \in Nat, \A c \in 0..b-1 : Divides(c) PROVE Divides(b)
    <2> SUFFICES ASSUME NEW a \in Nat, a # 0 \/ b # 0 PROVE gcd[b][a] \in Common(a, b)
      OBVIOUS
    <2>1. CASE b = 0
      <3>1. gcd[b][a] = a /\ a # 0
        BY <1>2, <2>1
      <3>2. a \in Common(a, 0)
        BY <3>1, CommonWithZero DEF IsGreatest
      <3> QED  BY <2>1, <3>1, <3>2
    <2>2. CASE b # 0
      <3>1. a % b \in Nat /\ a % b < b /\ Common(a, b) = Common(b, a % b)
        BY <2>2, CommonSteps
      <3>2. a % b \in 0..b-1
        BY <3>1
      <3>3. gcd[a % b][b] \in Common(b, a % b)
        BY <1>3, <2>2, <3>2
      <3> QED  BY <1>2, <2>2, <3>1, <3>3
    <2> QED  BY <2>1, <2>2
  <1> HIDE DEF Divides
  <1>4. 0 \in X
    <2>1. \A b \in 0..0 : Divides(b)
      <3> SUFFICES ASSUME NEW b \in 0..0 PROVE Divides(b)
        OBVIOUS
      <3>1. b \in Nat /\ 0..b-1 = {}
        OBVIOUS
      <3> QED  BY <1>3, <3>1
    <2> QED  BY <2>1
  <1>5. ASSUME NEW k \in Nat, k \in X PROVE k + 1 \in X
    <2>1. \A b \in 0..k : Divides(b)
      BY <1>5
    <2>2. Divides(k + 1)
      <3>1. k + 1 \in Nat /\ (k + 1) - 1 = k
        OBVIOUS
      <3> QED  BY <1>3, <2>1, <3>1
    <2>3. \A b \in 0..k+1 : b \in 0..k \/ b = k + 1
      OBVIOUS
    <2>4. \A b \in 0..k+1 : Divides(b)
      BY <2>1, <2>2, <2>3
    <2> QED  BY <2>4
  <1>6. n \in X
    <2> HIDE DEF X
    <2> QED  BY <1>4, <1>5, SetInduction
  <1>7. Divides(n)
    <2>1. n \in 0..n
      OBVIOUS
    <2> QED  BY <1>6, <2>1
  <1>8. gcd[n][m] \in Common(m, n)
    BY <1>7 DEF Divides
  <1> QED  BY <1>1, <1>8

\* The alignment in elements is a multiple of the alignment in bytes.
LEMMA ElemAlignmentFacts ==
    ASSUME NEW traits \in {"gpu", "cpu_kfirst", "cpu_ifirst"}, NEW size \in Nat \ {0}
    PROVE  /\ StorageAlignment(traits) \in Nat \ {0} /\ ElemAlignment(traits, size) \in Nat \ {0}
           /\ IsMultiple(ElemAlignment(traits, size) * size, StorageAlignment(traits))
           /\ StorageAlignment(traits) <= ElemAlignment(traits, size) * size
  <1> DEFINE bytes == StorageAlignment(traits)
             g == Gcd(size, bytes)
             e == ElemAlignment(traits, size)
  <1>1. bytes \in Nat \ {0}
    BY DEF StorageAlignment
  <1>2. e = bytes \div g
    BY DEF ElemAlignment
  <1> HIDE DEF bytes, e
  <1>3. g \in Common(size, bytes)
    BY <1>1, GcdDivides
  <1> HIDE DEF g
  <1>4. g \in Nat \ {0}
    BY <1>3 DEF Common
  <1>5. PICK k \in Int, j \in Int : size = k * g /\ bytes = j * g
    BY <1>3 DEF Common, IsMultiple
  <1>6. k >= 1 /\ j >= 1
    BY <1>1, <1>4, <1>5
  <1>7. e = j
    <2>1. j \in Nat /\ 0 \in 0..g-1 /\ j * g + 0 = j * g /\ j * g \in Int
      BY <1>4, <1>6
    <2>2. (j * g + 0) \div g = j
      BY <1>4, <2>1, Division
    <2> QED  BY <1>2, <1>5, <2>1, <2>2
  <1>8. e * size = k * bytes
    <2>1. j * (k * g) = k * (j * g)
      BY <1>4
    <2> QED  BY <1>5, <1>7, <2>1
  <1>9. bytes <= e * size
    <2>1. (k - 1) * bytes >= 0 /\ (k - 1) * bytes = k * bytes - bytes /\ k * bytes \in Int
      BY <1>1, <1>6
    <2> QED  BY <1>1, <1>8, <2>1
  <1>10. IsMultiple(e * size, bytes)
    BY <1>8 DEF IsMultiple
  <1> QED  BY <1>1, <1>6, <1>7, <1>9, <1>10 DEF bytes, e

\* All strides but the innermost one are multiples of the alignment.
LEMMA AlignedStrides ==
    ASSUME NEW M, NEW S, NEW W, Radix(M, S, W), NEW k \in Nat, 0 < M => IsMultiple(W[M], k)
    PROVE  \A p \in 0..M-1 : IsMultiple(S[p], k)
  <1>0. M \in Int
    BY DEF Radix
  <1> DEFINE X == {i \in Nat : i < M => IsMultiple(S[M - 1 - i], k)}
  <1>1. ASSUME NEW p \in 0..M-1
        PROVE  S[p] = W[p + 1] * S[p + 1] /\ W[p + 1] \in Nat /\ S[p + 1] \in Nat
    <2>1. p + 1 \in 0..M
      BY <1>0
    <2> QED  BY <2>1 DEF Radix
  <1>2. 0 \in X
    <2> SUFFICES ASSUME 0 < M PROVE IsMultiple(S[M - 1], k)
      BY <1>0
    <2>1. M - 1 \in 0..M-1 /\ M - 1 + 1 = M
      BY <1>0
    <2>2. S[M - 1] = W[M] * S[M] /\ W[M] \in Nat /\ S[M] = 1
      BY <1>1, <2>1 DEF Radix
    <2>3. S[M - 1] = W[M]
      BY <2>2
    <2> QED  BY <2>3
  <1>3. ASSUME NEW i \in Nat, i \in X PROVE i + 1 \in X
    <2> SUFFICES ASSUME i + 1 < M PROVE IsMultiple(S[M - 1 - (i + 1)], k)
      OBVIOUS
    <2> DEFINE p == M - 1 - (i + 1)
    <2>1. p \in 0..M-1 /\ p + 1 = M - 1 - i /\ i < M
      BY <1>0
    <2>2. IsMultiple(S[p + 1], k)
      BY <1>3, <2>1
    <2>3. S[p] = W[p + 1] * S[p + 1] /\ W[p + 1] \in Nat
      BY <1>1, <2>1
    <2>4. PICK j \in Int : S[p + 1] = j * k
      BY <2>2 DEF IsMultiple
    <2>5. S[p] = (W[p + 1] * j) * k /\ W[p + 1] * j \in Int
      <3> DEFINE w == W[p + 1]
      <3>1. w \in Nat /\ S[p] = w * (j * k)
        BY <2>3, <2>4
      <3> HIDE DEF w
      <3>2. w * (j * k) = (w * j) * k /\ w * j \in Int
        BY <3>1
      <3> QED  BY <3>1, <3>2 DEF w
    <2> HIDE DEF p
    <2>6. IsMultiple(S[p], k)
      BY <2>5 DEF IsMultiple
    <2> QED  BY <2>6 DEF p
  <1>4. Nat \subseteq X
    <2> HIDE DEF X
    <2> QED  BY <1>2, <1>3, SetInduction
  <1>5. ASSUME NEW p \in 0..M-1 PROVE IsMultiple(S[p], k)
    <2>1. M - 1 - p \in Nat /\ M - 1 - p < M /\ M - 1 - (M - 1 - p) = p
      BY <1>0
    <2> QED  BY <1>4, <2>1
  <1> QED  BY <1>5

\* A position as the sum of what the dimensions contribute.
Contributions(n, l, S, info, is, f) ==
    /\ f \in [0..n-1 -> Int]
    /\ IndexOf(info, is) = SumFunction(f)
    /\ \A d \in 0..n-1 : f[d] = IF l[d] = -1 THEN 0 ELSE is[d] * S[l[d]]

LEMMA IndexSum ==
    ASSUME NEW n, NEW l, NEW align, NEW lengths, IsStorage(n, l, align, lengths),
           NEW S, NEW W, StorageRadix(n, l, align, lengths, S, W),
           NEW is \in [0..n-1 -> Nat]
    PROVE  \E f : Contributions(n, l, S, MakeInfo(l, align, lengths), is, f)
  <1>1. PICK info : info = MakeInfo(l, align, lengths)
    OBVIOUS
  <1>2. \A d \in 0..n-1 : info.strides[d].v = IF l[d] = -1 THEN 0 ELSE S[l[d]]
    BY <1>1 DEF StorageRadix
  <1>3. \A d \in 0..n-1 : l[d] # -1 => S[l[d]] \in Nat
    <2>1. \A d \in 0..n-1 : l[d] \in -1..MaxArg(l)
      BY LayoutFacts DEF IsStorage
    <2>2. S \in [0..MaxArg(l) -> Nat] /\ MaxArg(l) \in Int
      BY DEF StorageRadix, Radix
    <2>3. \A d \in 0..n-1 : l[d] # -1 => l[d] \in 0..MaxArg(l)
      BY <2>1, <2>2
    <2> QED  BY <2>2, <2>3
  <1>4. PICK f : f = [d \in DOMAIN is |-> is[d] * info.strides[d].v]
    OBVIOUS
  <1>5. IndexOf(info, is) = SumFunction(f)
    BY <1>4 DEF IndexOf
  <1>6. ASSUME NEW d \in 0..n-1
        PROVE  f[d] = (IF l[d] = -1 THEN 0 ELSE is[d] * S[l[d]]) /\ f[d] \in Int
    <2>1. is[d] \in Nat /\ f[d] = is[d] * info.strides[d].v
      BY <1>4
    <2>2. CASE l[d] = -1
      <3>1. info.strides[d].v = 0 /\ is[d] * 0 = 0
        BY <1>2, <2>1, <2>2
      <3> QED  BY <2>1, <2>2, <3>1
    <2>3. CASE l[d] # -1
      <3>1. info.strides[d].v = S[l[d]] /\ S[l[d]] \in Nat
        BY <1>2, <1>3, <2>3
      <3>2. is[d] * S[l[d]] \in Int
        BY <2>1, <3>1
      <3> QED  BY <2>1, <2>3, <3>1, <3>2
    <2> QED  BY <2>2, <2>3
  <1>7. f = [d \in 0..n-1 |-> f[d]]
    BY <1>4
  <1>8. f \in [0..n-1 -> Int]
    BY <1>6, <1>7
  <1>9. Contributions(n, l, S, info, is, f)
    BY <1>5, <1>6, <1>8 DEF Contributions
  <1> QED  BY <1>1, <1>9

\* Elements of different lines that have the same index in a line are multiples of the
\* alignment apart.
LEMMA LinesAligned ==
    ASSUME NEW n, NEW l, NEW align, NEW lengths, IsStorage(n, l, align, lengths),
           NEW is \in [0..n-1 -> Nat], NEW js \in [0..n-1 -> Nat],
           \A d \in 0..n-1 : l[d] = MaxArg(l) => is[d] = js[d]
    PROVE  LET info == MakeInfo(l, align, lengths) IN
           \E k \in Int : IndexOf(info, is) = k * align.v + IndexOf(info, js)
  <1>1. PICK M : M = MaxArg(l)
    OBVIOUS
  <1>2. PICK info : info = MakeInfo(l, align, lengths)
    OBVIOUS
  <1>3. PICK a : a = align.v /\ a \in Nat \ {0}
    BY DEF IsStorage, Numbers
  <1>4. PICK S, W : StorageRadix(n, l, align, lengths, S, W)
    BY StorageWeights
  <1>5. M \in Int /\ -1 <= M /\ IsFiniteSet(0..n-1) /\ \A d \in 0..n-1 : l[d] \in -1..M
    BY <1>1, LayoutFacts DEF IsStorage
  <1>6. Radix(M, S, W) /\ (0 < M => IsMultiple(W[M], a))
    BY <1>1, <1>3, <1>4 DEF StorageRadix
  <1>7. \A p \in 0..M-1 : IsMultiple(S[p], a)
    BY <1>3, <1>6, AlignedStrides
  <1>f. PICK f : Contributions(n, l, S, info, is, f)
    BY <1>2, <1>4, IndexSum
  <1>8. /\ f \in [0..n-1 -> Int] /\ IndexOf(info, is) = SumFunction(f)
        /\ \A d \in 0..n-1 : f[d] = IF l[d] = -1 THEN 0 ELSE is[d] * S[l[d]]
    BY <1>f DEF Contributions
  <1>g. PICK g : Contributions(n, l, S, info, js, g)
    BY <1>2, <1>4, IndexSum
  <1>9. /\ g \in [0..n-1 -> Int] /\ IndexOf(info, js) = SumFunction(g)
        /\ \A d \in 0..n-1 : g[d] = IF l[d] = -1 THEN 0 ELSE js[d] * S[l[d]]
    BY <1>g DEF Contributions
  <1>13. ASSUME NEW d \in 0..n-1 PROVE IsMultiple(f[d] - g[d], a)
    <2>1. is[d] \in Nat /\ js[d] \in Nat
      OBVIOUS
    <2>2. CASE l[d] = -1 \/ l[d] = M
      <3>1. f[d] = g[d] /\ f[d] \in Int
        BY <1>1, <1>8, <1>9, <2>2
      <3>2. f[d] - g[d] = 0 * a /\ 0 \in Int
        BY <1>3, <3>1
      <3> QED  BY <3>2 DEF IsMultiple
    <2>3. CASE ~ (l[d] = -1 \/ l[d] = M)
      <3>1. PICK p \in 0..M-1 : p = l[d] /\ p # -1
        BY <1>5, <2>3
      <3>2. PICK j \in Int : S[p] = j * a
        BY <1>7, <3>1 DEF IsMultiple
      <3>3. f[d] = is[d] * (j * a) /\ g[d] = js[d] * (j * a)
        BY <1>8, <1>9, <3>1, <3>2
      <3>4. PICK x \in Nat, y \in Nat : x = is[d] /\ y = js[d]
        BY <2>1
      <3>5. f[d] - g[d] = x * (j * a) - y * (j * a)
        BY <3>3, <3>4
      <3>6. x * (j * a) - y * (j * a) = ((x - y) * j) * a /\ (x - y) * j \in Int
        BY <1>3
      <3> QED  BY <3>5, <3>6 DEF IsMultiple
    <2> QED  BY <2>2, <2>3
  <1>14. SumFunction(f) \in Int /\ SumFunction(g) \in Int /\ IsMultiple(SumFunction(f) - SumFunction(g), a)
    <2>1. PICK I : I = 0..n-1
      OBVIOUS
    <2>2. f \in [I -> Int]
      BY <1>8, <2>1
    <2>3. g \in [I -> Int]
      BY <1>9, <2>1
    <2>4. IsFiniteSet(I)
      BY <1>5, <2>1
    <2>5. \A d \in I : IsMultiple(f[d] - g[d], a)
      BY <1>13, <2>1
    <2>6. a \in Int
      BY <1>3
    <2> QED  BY <2>2, <2>3, <2>4, <2>5, <2>6, SumApart
  <1>16. PICK k \in Int : SumFunction(f) - SumFunction(g) = k * a
    BY <1>14 DEF IsMultiple
  <1>17. k * a \in Int
    BY <1>3
  <1> QED  BY <1>2, <1>3, <1>8, <1>9, <1>14, <1>16, <1>17

-----------------------------------------------------------------------------
(* Stores as they are built.                                                 *)
Backends == {"gpu", "cpu_kfirst", "cpu_ifirst"}

\* A permutation of the dimensions is a layout.
LEMMA PermutationIsLayout ==
    ASSUME NEW n \in Nat, NEW l \in [0..n-1 -> 0..n-1], \A p \in 0..n-1 : \E d \in 0..n-1 : l[d] = p
    PROVE  l \in Layouts(n)
  <1> DEFINE used == {i \in 0..n-1 : l[i] >= 0}
  <1>1. used = 0..n-1
    <2>1. \A i \in 0..n-1 : l[i] \in 0..n-1
      OBVIOUS
    <2> QED  BY <2>1
  <1>2. Cardinality(0..n-1) = n
    <2>1. 0 \in Int /\ n - 1 \in Int
      OBVIOUS
    <2>2. Cardinality(0..n-1) = IF 0 > n - 1 THEN 0 ELSE (n - 1) - 0 + 1
      BY <2>1, FS_Interval
    <2> QED  BY <2>2
  <1>3. {l[i] : i \in 0..n-1} = 0..n-1
    OBVIOUS
  <1>4. l \in [0..n-1 -> -1..n-1]
    OBVIOUS
  <1> QED  BY <1>1, <1>2, <1>3, <1>4 DEF Layouts

(* The places that the backends give to the dimensions are a layout, with    *)
(* no dimension masked, whatever their number: layout_type of the traits.    *)
THEOREM BackendLayouts ==
    ASSUME NEW n \in Nat, NEW traits \in Backends
    PROVE  StorageLayout(traits, n) \in Unmasked(n)
  <1> DEFINE l == StorageLayout(traits, n)
  <1>1. /\ l \in [0..n-1 -> 0..n-1]
        /\ \A p \in 0..n-1 : \E d \in 0..n-1 : l[d] = p
    <2>1. CASE traits = "gpu"
      <3>1. l = [d \in 0..n-1 |-> n - 1 - d]
        BY <2>1 DEF StorageLayout, GpuLayout
      <3> HIDE DEF l
      <3>2. ASSUME NEW p \in 0..n-1 PROVE \E d \in 0..n-1 : l[d] = p
        <4>1. n - 1 - p \in 0..n-1 /\ l[n - 1 - p] = p
          BY <3>1
        <4> QED  BY <4>1
      <3> QED  BY <3>1, <3>2
    <2>2. CASE traits = "cpu_kfirst"
      <3>1. l = [d \in 0..n-1 |-> IF n < 3 THEN d ELSE IF d < 3 THEN d + n - 3 ELSE d - 3]
        BY <2>2 DEF StorageLayout, KFirstLayout
      <3> HIDE DEF l
      <3>2. ASSUME NEW p \in 0..n-1 PROVE \E d \in 0..n-1 : l[d] = p
        <4>1. CASE n < 3
          BY <3>1, <4>1
        <4>2. CASE n >= 3 /\ p >= n - 3
          <5>1. p + 3 - n \in 0..n-1 /\ l[p + 3 - n] = p
            BY <3>1, <4>2
          <5> QED  BY <5>1
        <4>3. CASE n >= 3 /\ p < n - 3
          <5>1. p + 3 \in 0..n-1 /\ l[p + 3] = p
            BY <3>1, <4>3
          <5> QED  BY <5>1
        <4> QED  BY <4>1, <4>2, <4>3
      <3> QED  BY <3>1, <3>2
    <2>3. CASE traits = "cpu_ifirst"
      <3>1. l = [d \in 0..n-1 |-> IF n >= 3 /\ d \in {1, 2} THEN n - 4 + d ELSE n - 1 - d]
        BY <2>3 DEF StorageLayout, IFirstLayout
      <3> HIDE DEF l
      <3>2. ASSUME NEW p \in 0..n-1 PROVE \E d \in 0..n-1 : l[d] = p
        <4>1. CASE n >= 3 /\ p \in {n - 3, n - 2}
          <5>1. p + 4 - n \in 0..n-1 /\ l[p + 4 - n] = p
            BY <3>1, <4>1
          <5> QED  BY <5>1
        <4>2. CASE ~ (n >= 3 /\ p \in {n - 3, n - 2})
          <5>1. n - 1 - p \in 0..n-1 /\ l[n - 1 - p] = p
            BY <3>1, <4>2
          <5> QED  BY <5>1
        <4> QED  BY <4>1, <4>2
      <3> QED  BY <3>1, <3>2
    <2> QED  BY <2>1, <2>2, <2>3 DEF Backends
  <1> HIDE DEF l
  <1>2. l \in Layouts(n)
    BY <1>1, PermutationIsLayout
  <1>3. \A i \in 0..n-1 : l[i] >= 0
    <2>1. \A i \in 0..n-1 : l[i] \in 0..n-1
      BY <1>1
    <2> QED  BY <2>1
  <1> QED  BY <1>2, <1>3 DEF Unmasked, l

\* A builder that has a type and the lengths of n dimensions, and what else users may set.
IsBuilder(b, n) ==
    /\ {"type", "lengths"} \subseteq DOMAIN b
    /\ b.type \in Nat \ {0}
    /\ b.lengths \in [0..n-1 -> Numbers(Nat)]
    /\ "layout" \in DOMAIN b => b.layout \in Layouts(n)
    /\ "halos" \in DOMAIN b => b.halos \in [0..n-1 -> Nat]

\* A store of n dimensions.
IsStore(s, n, lengths) ==
    /\ s.traits \in Backends /\ s.size \in Nat \ {0} /\ s.halos \in [0..n-1 -> Nat]
    /\ IsStorage(n, s.layout, Known(ElemAlignment(s.traits, s.size)), lengths)
    /\ s.info = MakeInfo(s.layout, Known(ElemAlignment(s.traits, s.size)), lengths)

LEMMA BuildFacts ==
    ASSUME NEW n \in Nat, NEW b, IsBuilder(b, n), NEW traits \in Backends
    PROVE  /\ IsStore(Build(b, traits), n, b.lengths)
           /\ Build(b, traits).traits = traits
  <1> DEFINE l == WithDefault(b, "layout", StorageLayout(traits, n))
             e == Known(ElemAlignment(traits, b.type))
             s == Build(b, traits)
  <1>1. Cardinality(DOMAIN b.lengths) = n
    <2>1. DOMAIN b.lengths = 0..n-1
      BY DEF IsBuilder
    <2>2. 0 \in Int /\ n - 1 \in Int
      OBVIOUS
    <2>3. Cardinality(0..n-1) = IF 0 > n - 1 THEN 0 ELSE (n - 1) - 0 + 1
      BY <2>2, FS_Interval
    <2> QED  BY <2>1, <2>3
  <1>2. l \in Layouts(n)
    <2>1. StorageLayout(traits, n) \in Layouts(n)
      BY BackendLayouts DEF Unmasked
    <2> QED  BY <2>1 DEF WithDefault, IsBuilder
  <1>3. DOMAIN l = 0..n-1
    BY <1>2 DEF Layouts
  <1>4. s.traits = traits /\ s.layout = l /\ s.size = b.type /\ s.info = MakeInfo(l, e, b.lengths)
    BY <1>1 DEF Build, MakeInfoFor
  <1>5. s.halos \in [0..n-1 -> Nat]
    <2>1. s.halos = WithDefault(b, "halos", [d \in DOMAIN l |-> 0])
      BY <1>1 DEF Build
    <2>2. [d \in DOMAIN l |-> 0] \in [0..n-1 -> Nat]
      BY <1>3
    <2> QED  BY <2>1, <2>2 DEF WithDefault, IsBuilder
  <1>6. e \in Numbers(Nat \ {0})
    <2>1. ElemAlignment(traits, b.type) \in Nat \ {0}
      BY ElemAlignmentFacts DEF IsBuilder, Backends
    <2> QED  BY <2>1 DEF Known, Numbers
  <1>7. IsStorage(n, l, e, b.lengths)
    BY <1>2, <1>6 DEF IsStorage, IsBuilder
  <1> HIDE DEF s, l
  <1>8. IsStore(s, n, b.lengths)
    BY <1>4, <1>5, <1>7 DEF IsStore, IsBuilder
  <1> QED  BY <1>4, <1>8 DEF s

\* The first address that is aligned, from p on, moved to the origin of the halo.
LEMMA TargetFacts ==
    ASSUME NEW n, NEW s, NEW lengths, IsStore(s, n, lengths), NEW p \in Nat
    PROVE  LET q == TargetPtr(s, p)
               bytes == StorageAlignment(s.traits) IN
           /\ q \in Int /\ p <= q /\ q < p + bytes
           /\ IsMultiple(q + IndexOf(s.info, s.halos) * s.size, bytes)
  <1>1. PICK bytes : bytes = StorageAlignment(s.traits) /\ bytes \in Nat \ {0}
    BY DEF StorageAlignment, IsStore, Backends
  <1>2. PICK offset : offset = IndexOf(s.info, s.halos) * s.size
    OBVIOUS
  <1>3. IndexOf(s.info, s.halos) \in Nat
    <2>1. PICK hs \in [0..n-1 -> Nat] : hs = s.halos
      BY DEF IsStore
    <2>2. PICK l, align : l = s.layout /\ align = Known(ElemAlignment(s.traits, s.size))
      OBVIOUS
    <2>3. IsStorage(n, l, align, lengths) /\ s.info = MakeInfo(l, align, lengths)
      BY <2>2 DEF IsStore
    <2>4. \A d \in 0..n-1 : hs[d] <= hs[d]
      OBVIOUS
    <2>5. IndexOf(MakeInfo(l, align, lengths), hs) \in Nat
      BY <2>3, <2>4, IndexOfFacts
    <2> QED  BY <2>1, <2>3, <2>5
  <1>4. offset \in Nat
    BY <1>2, <1>3 DEF IsStore
  <1>5. PICK up : up = RoundUp(p + offset, bytes)
    OBVIOUS
  <1>6. up \in Nat /\ p + offset <= up /\ up < p + offset + bytes /\ IsMultiple(up, bytes)
    <2>1. p + offset \in Nat
      BY <1>4
    <2> QED  BY <1>1, <1>5, <2>1, RoundUpFacts
  <1>7. TargetPtr(s, p) = up - offset
    BY <1>1, <1>2, <1>5 DEF TargetPtr
  <1>8. (up - offset) + offset = up
    BY <1>4, <1>6
  <1>9. up - offset \in Int /\ p <= up - offset /\ up - offset < p + bytes
    BY <1>1, <1>4, <1>6
  <1> QED  BY <1>1, <1>2, <1>6, <1>7, <1>8, <1>9

(* The constructor of a store, wherever the allocation is: every element is  *)
(* inside of what BytesFor asks for, although the target pointer has been    *)
(* moved; and where the halo of the innermost dimension ends, every line is  *)
(* aligned, for every layout, every number of dimensions, every length and   *)
(* every size of an element.                                                 *)
THEOREM TargetAligned ==
    ASSUME NEW n \in Nat, NEW b, IsBuilder(b, n), NEW traits \in Backends, NEW p \in Nat,
           NEW is \in [0..n-1 -> Nat]
    PROVE  LET s == Build(b, traits)
               at == TargetPtr(s, p) + IndexOf(s.info, is) * s.size IN
           /\ InRange(s.info, is) => p <= at /\ at + s.size <= p + BytesFor(s)
           /\ (\A d \in 0..n-1 : s.layout[d] = MaxArg(s.layout) => is[d] = s.halos[d])
                 => IsMultiple(at, StorageAlignment(traits))
  <1>1. PICK s : s = Build(b, traits)
    OBVIOUS
  <1>2. PICK lengths : lengths = b.lengths
    OBVIOUS
  <1>3. IsStore(s, n, lengths) /\ s.traits = traits
    BY <1>1, <1>2, BuildFacts
  <1>4. PICK l, align : l = s.layout /\ align = Known(ElemAlignment(s.traits, s.size))
    OBVIOUS
  <1>5. IsStorage(n, l, align, lengths)
    BY <1>3, <1>4 DEF IsStore
  <1>6. s.info = MakeInfo(l, align, lengths)
    BY <1>3, <1>4 DEF IsStore
  <1>7. PICK hs \in [0..n-1 -> Nat] : hs = s.halos
    BY <1>3 DEF IsStore
  <1>8. PICK size \in Nat \ {0} : size = s.size
    BY <1>3 DEF IsStore
  <1>9. PICK e, bytes : e = ElemAlignment(traits, size) /\ bytes = StorageAlignment(traits)
    OBVIOUS
  <1>10. bytes \in Nat \ {0} /\ e \in Nat \ {0} /\ IsMultiple(e * size, bytes) /\ bytes <= e * size
    BY <1>9, ElemAlignmentFacts DEF Backends
  <1>11. align.v = e
    BY <1>3, <1>4, <1>8, <1>9 DEF Known
  <1>12. PICK q : q = TargetPtr(s, p)
    OBVIOUS
  <1>13. q \in Int /\ p <= q /\ q < p + bytes /\ IsMultiple(q + IndexOf(s.info, hs) * size, bytes)
    BY <1>3, <1>7, <1>8, <1>9, <1>12, TargetFacts
  <1>14. IndexOf(s.info, is) \in Nat /\ IndexOf(s.info, hs) \in Nat
    <2>1. (\A d \in 0..n-1 : is[d] <= is[d]) /\ (\A d \in 0..n-1 : hs[d] <= hs[d])
      OBVIOUS
    <2>2. IndexOf(MakeInfo(l, align, lengths), is) \in Nat
      BY <1>5, <2>1, IndexOfFacts
    <2>3. IndexOf(MakeInfo(l, align, lengths), hs) \in Nat
      BY <1>5, <2>1, IndexOfFacts
    <2> QED  BY <1>6, <2>2, <2>3
  <1>15. PICK i \in Nat, h \in Nat : i = IndexOf(s.info, is) /\ h = IndexOf(s.info, hs)
    BY <1>14
  <1>16. ASSUME InRange(s.info, is)
         PROVE  p <= q + i * size /\ (q + i * size) + size <= p + BytesFor(s)
    <2>1. i \in 0..InfoLength(s.info) - 1
      BY <1>5, <1>6, <1>15, <1>16, IndicesFound
    <2>2. PICK len \in Nat : len = InfoLength(s.info)
      BY <1>5, <1>6, InfoLengthFacts
    <2>3. BytesFor(s) = (len + e) * size
      BY <1>3, <1>8, <1>9, <2>2 DEF BytesFor
    <2>4. (len + e) * size = len * size + e * size /\ len * size \in Nat /\ e * size \in Nat
      BY <1>10
    <2>5. i * size + size <= len * size /\ i * size \in Nat
      <3>1. i + 1 <= len
        BY <2>1, <2>2
      <3>2. (len - (i + 1)) * size >= 0
        BY <3>1
      <3>3. (len - (i + 1)) * size = len * size - (i * size + size) /\ i * size \in Nat
        OBVIOUS
      <3> QED  BY <2>4, <3>2, <3>3
    <2> DEFINE x == i * size
               y == len * size
               z == e * size
    <2>6. /\ x \in Nat /\ y \in Nat /\ z \in Nat /\ size \in Nat
          /\ BytesFor(s) = y + z /\ x + size <= y /\ bytes <= z
          /\ q \in Int /\ p <= q /\ q < p + bytes /\ bytes \in Nat
      BY <1>10, <1>13, <2>3, <2>4, <2>5
    <2> HIDE DEF x, y, z
    <2>7. p <= q + x /\ (q + x) + size <= p + BytesFor(s)
      BY <2>6
    <2> QED  BY <2>7 DEF x
  <1>17. ASSUME \A d \in 0..n-1 : s.layout[d] = MaxArg(s.layout) => is[d] = s.halos[d]
         PROVE  IsMultiple(q + i * size, bytes)
    <2>1. \A d \in 0..n-1 : l[d] = MaxArg(l) => is[d] = hs[d]
      BY <1>4, <1>7, <1>17
    <2>a. PICK k \in Int : IndexOf(MakeInfo(l, align, lengths), is)
                           = k * align.v + IndexOf(MakeInfo(l, align, lengths), hs)
      BY <1>5, <2>1, LinesAligned
    <2>2. i = k * e + h
      BY <1>6, <1>11, <1>15, <2>a
    <2>3. PICK u \in Int : q + h * size = u * bytes
      BY <1>13, <1>15 DEF IsMultiple
    <2>4. PICK v \in Int : e * size = v * bytes
      BY <1>10 DEF IsMultiple
    <2>5. i * size = k * (e * size) + h * size
      BY <1>10, <2>2
    <2>6. k * (e * size) = (k * v) * bytes
      BY <1>10, <2>4
    <2>7. h * size \in Int /\ k * (e * size) \in Int /\ (k * v) * bytes \in Int /\ u * bytes \in Int
      BY <1>10
    <2>8. q + i * size = u * bytes + (k * v) * bytes
      <3> DEFINE x == i * size
                 y == h * size
                 z == k * (e * size)
      <3>1. x = z + y /\ q + y = u * bytes /\ z = (k * v) * bytes
        BY <2>3, <2>5, <2>6
      <3>2. y \in Int /\ z \in Int /\ q \in Int
        BY <1>13, <2>7
      <3> HIDE DEF x, y, z
      <3>3. q + x = (q + y) + z
        BY <3>1, <3>2
      <3>4. q + x = u * bytes + (k * v) * bytes
        BY <3>1, <3>3
      <3> QED  BY <3>4 DEF x
    <2>9. u * bytes + (k * v) * bytes = (u + k * v) * bytes /\ u + k * v \in Int
      BY <1>10
    <2> QED  BY <2>8, <2>9 DEF IsMultiple
  <1> QED  BY <1>1, <1>8, <1>9, <1>12, <1>15, <1>16, <1>17

\* Strides depend on the values of the lengths, and on the alignment if lines are padded.
LEMMA EqualStrides ==
    ASSUME NEW n, NEW l, NEW a, NEW b, NEW ks, NEW ls, IsStorage(n, l, a, ks), IsStorage(n, l, b, ls),
           \A d \in 0..n-1 : ks[d].v = ls[d].v, MaxArg(l) > 0 => a.v = b.v
    PROVE  \A d \in 0..n-1 : MakeInfo(l, a, ks).strides[d].v = MakeInfo(l, b, ls).strides[d].v
  <1>1. PICK M : M = MaxArg(l)
    OBVIOUS
  <1>2. /\ M \in Int /\ -1 <= M /\ DOMAIN l = 0..n-1
        /\ \A d \in 0..n-1 : l[d] \in -1..M
        /\ \A p \in 0..M : Find(l, p) \in 0..n-1
    BY <1>1, LayoutFacts DEF IsStorage
  <1>3. PICK f : IsStrides(n, l, a, ks, f)
    BY StrideFacts
  <1>4. PICK g : IsStrides(n, l, b, ls, g)
    BY StrideFacts
  <1> DEFINE u == PaddedLengths(l, a, ks)
             v == PaddedLengths(l, b, ls)
  <1>5. ASSUME NEW d \in 0..n-1 PROVE u[d].v = v[d].v
    <2>1. CASE l[d] = -1
      BY <1>2, <2>1 DEF PaddedLengths
    <2>2. CASE l[d] # -1 /\ l[d] = M /\ M # 0
      <3>a. d \in DOMAIN l
        BY <1>2
      <3>b. l[d] # -1
        BY <2>2
      <3>c. l[d] = MaxArg(l)
        BY <1>1, <2>2
      <3>d. MaxArg(l) # 0
        BY <1>1, <2>2
      <3>1. a.v = b.v /\ ks[d].v = ls[d].v
        BY <1>1, <1>2, <2>2
      <3>2. u[d].v = RoundUp(ks[d].v, a.v)
        <4>1. ks[d].v \in Nat
          BY DEF IsStorage, Numbers
        <4>2. a.v \in Nat \ {0}
          BY DEF IsStorage, Numbers
        <4> QED  BY <3>a, <3>b, <3>c, <3>d, <4>1, <4>2, PaddedLine
      <3>3. v[d].v = RoundUp(ls[d].v, b.v)
        <4>1. ls[d].v \in Nat
          BY DEF IsStorage, Numbers
        <4>2. b.v \in Nat \ {0}
          BY DEF IsStorage, Numbers
        <4> QED  BY <3>a, <3>b, <3>c, <3>d, <4>1, <4>2, PaddedLine
      <3> QED  BY <3>1, <3>2, <3>3
    <2>3. CASE l[d] # -1 /\ ~ (l[d] = M /\ M # 0)
      <3>1. u[d] = ks[d] /\ v[d] = ls[d]
        BY <1>1, <1>2, <2>3 DEF PaddedLengths
      <3> QED  BY <3>1
    <2> QED  BY <2>1, <2>2, <2>3
  <1> HIDE DEF u, v
  <1>6. /\ 0 <= M => f[M] = Known(1) /\ g[M] = Known(1)
        /\ \A p \in 0..M-1 : f[p] = Times(u[Find(l, p + 1)], f[p + 1]) /\ g[p] = Times(v[Find(l, p + 1)], g[p + 1])
    BY <1>1, <1>3, <1>4 DEF IsStrides, u, v
  <1> DEFINE X == {k \in Nat : k <= M => f[M - k].v = g[M - k].v}
  <1>7. 0 \in X
    <2>1. M - 0 = M
      BY <1>2
    <2> QED  BY <1>6, <2>1
  <1>8. ASSUME NEW k \in Nat, k \in X PROVE k + 1 \in X
    <2> SUFFICES ASSUME k + 1 <= M PROVE f[M - (k + 1)].v = g[M - (k + 1)].v
      OBVIOUS
    <2>1. PICK p : p = M - (k + 1)
      OBVIOUS
    <2>2. p \in 0..M-1 /\ p + 1 = M - k /\ p + 1 \in 0..M /\ k <= M
      BY <1>2, <2>1
    <2>3. f[p + 1].v = g[p + 1].v
      BY <1>8, <2>2
    <2>4. u[Find(l, p + 1)].v = v[Find(l, p + 1)].v
      BY <1>2, <1>5, <2>2
    <2>5. f[p].v = u[Find(l, p + 1)].v * f[p + 1].v
      BY <1>6, <2>2, TimesValue
    <2>6. g[p].v = v[Find(l, p + 1)].v * g[p + 1].v
      BY <1>6, <2>2, TimesValue
    <2> QED  BY <2>1, <2>3, <2>4, <2>5, <2>6
  <1>9. Nat \subseteq X
    <2> HIDE DEF X
    <2> QED  BY <1>7, <1>8, SetInduction
  <1>10. ASSUME NEW p \in 0..M PROVE f[p].v = g[p].v
    <2>1. M - p \in Nat /\ M - p <= M /\ M - (M - p) = p
      BY <1>2
    <2> QED  BY <1>9, <2>1
  <1>11. ASSUME NEW d \in 0..n-1
         PROVE  MakeInfo(l, a, ks).strides[d].v = MakeInfo(l, b, ls).strides[d].v
    <2>1. /\ MakeInfo(l, a, ks).strides[d] = IF l[d] = -1 THEN Known(0) ELSE f[l[d]]
          /\ MakeInfo(l, b, ls).strides[d] = IF l[d] = -1 THEN Known(0) ELSE g[l[d]]
      BY <1>3, <1>4 DEF IsStrides, MakeInfo
    <2>2. l[d] # -1 => l[d] \in 0..M
      BY <1>2
    <2> QED  BY <1>10, <2>1, <2>2
  <1> QED  BY <1>11

(* strides_kind, as the concept of a SID has it: stores of the same kind     *)
(* have the same strides, if the compiler knows the strides, and otherwise   *)
(* if the lengths are the same, which is what their id stands for.  Nothing  *)
(* else about a store matters: its layout and its padding are in the kind.   *)
THEOREM SameKindSameStrides ==
    ASSUME NEW n \in Nat, NEW b, IsBuilder(b, n), NEW c, IsBuilder(c, n),
           NEW traits \in Backends, NEW traits2 \in Backends,
           Build(b, traits).kind = Build(c, traits2).kind, Build(b, traits).kind # UnknownKind,
           \/ \A d \in 0..n-1 : Build(b, traits).info.strides[d].known
           \/ \A d \in 0..n-1 : b.lengths[d].v = c.lengths[d].v
    PROVE  \A d \in 0..n-1 : Build(b, traits).info.strides[d].v = Build(c, traits2).info.strides[d].v
  <1>1. PICK s : s = Build(b, traits)
    OBVIOUS
  <1>2. PICK t : t = Build(c, traits2)
    OBVIOUS
  <1>3. IsStore(s, n, b.lengths)
    BY <1>1, BuildFacts
  <1>4. IsStore(t, n, c.lengths)
    BY <1>2, BuildFacts
  <1>5. s.kind = StridesKind(s.traits, s.layout, s.size, s.info, WithDefault(b, "id", Nobody))
    BY <1>1 DEF Build
  <1>6. t.kind = StridesKind(t.traits, t.layout, t.size, t.info, WithDefault(c, "id", Nobody))
    BY <1>2 DEF Build
  <1>7. DOMAIN s.layout = 0..n-1 /\ DOMAIN t.layout = 0..n-1
    <2>1. s.layout \in Layouts(n) /\ t.layout \in Layouts(n)
      BY <1>3, <1>4 DEF IsStore, IsStorage
    <2> QED  BY <2>1 DEF Layouts
  <1>8. DOMAIN s.info.strides = 0..n-1 /\ DOMAIN t.info.strides = 0..n-1
    BY <1>3, <1>4, <1>7 DEF IsStore, MakeInfo, Strides
  <1>9. s.kind = t.kind /\ s.kind # UnknownKind
    BY <1>1, <1>2
  <1> DEFINE AllKnown(x) == \A d \in 0..n-1 : x.info.strides[d].known
             Padding(x) == IF MaxArg(x.layout) > 0 THEN <<ElemAlignment(x.traits, x.size)>> ELSE <<>>
  <1>10. s.kind = IF AllKnown(s) THEN <<"strides", TypeOf(s.info.strides)>>
                  ELSE <<"storage", TypeOf(s.info.strides), s.layout, WithDefault(b, "id", Nobody), Padding(s)>>
    BY <1>5, <1>7, <1>9 DEF StridesKind
  <1>11. t.kind = IF AllKnown(t) THEN <<"strides", TypeOf(t.info.strides)>>
                  ELSE <<"storage", TypeOf(t.info.strides), t.layout, WithDefault(c, "id", Nobody), Padding(t)>>
    BY <1>6, <1>7, <1>9 DEF StridesKind
  <1>12. CASE AllKnown(s)
    <2>1. AllKnown(t) /\ TypeOf(s.info.strides) = TypeOf(t.info.strides)
      <3> HIDE DEF AllKnown, Padding
      <3>1. s.kind[1] = "strides" /\ s.kind[2] = TypeOf(s.info.strides)
        BY <1>10, <1>12
      <3>2. AllKnown(t)
        BY <1>9, <1>11, <3>1
      <3>3. t.kind[2] = TypeOf(t.info.strides)
        BY <1>11, <3>2
      <3> QED  BY <1>9, <3>1, <3>2, <3>3
    <2>2. ASSUME NEW d \in 0..n-1 PROVE s.info.strides[d].v = t.info.strides[d].v
      <3>1. TypeOf(s.info.strides)[d] = <<s.info.strides[d].v>> /\ TypeOf(t.info.strides)[d] = <<t.info.strides[d].v>>
        BY <1>8, <1>12, <2>1 DEF TypeOf
      <3>2. <<s.info.strides[d].v>> = <<t.info.strides[d].v>>
        BY <2>1, <3>1
      <3> QED  BY <3>2
    <2> QED  BY <1>1, <1>2, <2>2
  <1>13. CASE ~AllKnown(s)
    <2>1. \A d \in 0..n-1 : b.lengths[d].v = c.lengths[d].v
      BY <1>1, <1>13
    <2>2. s.layout = t.layout /\ Padding(s) = Padding(t)
      <3> HIDE DEF AllKnown, Padding
      <3>1. s.kind[1] = "storage" /\ s.kind[3] = s.layout /\ s.kind[5] = Padding(s)
        BY <1>10, <1>13
      <3>2. ~AllKnown(t)
        BY <1>9, <1>11, <3>1
      <3>3. t.kind[3] = t.layout /\ t.kind[5] = Padding(t)
        BY <1>11, <3>2
      <3> QED  BY <1>9, <3>1, <3>3
    <2>3. PICK l : l = s.layout /\ l = t.layout
      BY <2>2
    <2>4. PICK i, j : i = Known(ElemAlignment(s.traits, s.size)) /\ j = Known(ElemAlignment(t.traits, t.size))
      OBVIOUS
    <2>5. MaxArg(l) > 0 => i.v = j.v
      <3> SUFFICES ASSUME MaxArg(l) > 0 PROVE i.v = j.v
        OBVIOUS
      <3>1. <<ElemAlignment(s.traits, s.size)>> = <<ElemAlignment(t.traits, t.size)>>
        BY <2>2, <2>3
      <3>2. ElemAlignment(s.traits, s.size) = ElemAlignment(t.traits, t.size)
        BY <3>1
      <3> QED  BY <2>4, <3>2 DEF Known
    <2>6. IsStorage(n, l, i, b.lengths) /\ s.info = MakeInfo(l, i, b.lengths)
      BY <1>3, <2>3, <2>4 DEF IsStore
    <2>7. IsStorage(n, l, j, c.lengths) /\ t.info = MakeInfo(l, j, c.lengths)
      BY <1>4, <2>3, <2>4 DEF IsStore
    <2>8. PICK ks, ls : ks = b.lengths /\ ls = c.lengths
      OBVIOUS
    <2>9. IsStorage(n, l, i, ks) /\ IsStorage(n, l, j, ls) /\ \A d \in 0..n-1 : ks[d].v = ls[d].v
      BY <2>1, <2>6, <2>7, <2>8
    <2>10. \A d \in 0..n-1 : MakeInfo(l, i, ks).strides[d].v = MakeInfo(l, j, ls).strides[d].v
      BY <2>5, <2>9, EqualStrides
    <2> QED  BY <1>1, <1>2, <2>6, <2>7, <2>8, <2>10
  <1> QED  BY <1>12, <1>13
=============================================================================
