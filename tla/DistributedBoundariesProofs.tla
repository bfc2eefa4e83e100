--------------------- MODULE DistributedBoundariesProofs ---------------------
(* Proofs about DistributedBoundaries, for every grid of processes, all halo *)
(* widths and every sequence of calls.                                       *)
EXTENDS DistributedBoundaries, ProcGridProofs, SequenceTheorems

-----------------------------------------------------------------------------
(* The stores of a job.                                                     *)
\* What the stores a job is bound to are made of.
Args == [place : Nat] \cup [store : AllStores]

LEMMA ArgFacts ==
    ASSUME NEW x \in Args
    PROVE  /\ IsPlace(x) => x.place \in Nat
           /\ ~ IsPlace(x) => x.store \in AllStores /\ x = Store(x.store)
           /\ \A s : ~ IsPlace(Store(s))
  <1>1. CASE x \in [place : Nat]
    BY <1>1 DEF IsPlace, Store
  <1>2. CASE x \in [store : AllStores]
    BY <1>2 DEF IsPlace, Store
  <1> QED  BY <1>1, <1>2 DEF Args

\* The stores of a job that are exchanged are those it names itself.
LEMMA ExcStoresFacts ==
    ASSUME NEW jb \in JobTypes
    PROVE  /\ ExcStores(jb) \in Seq(AllStores)
           /\ ToSet(ExcStores(jb)) = { s \in AllStores : Store(s) \in ToSet(jb.args) }
  <1> DEFINE part == [ i \in DOMAIN jb.args |->
                         IF IsPlace(jb.args[i]) THEN <<>> ELSE <<jb.args[i].store>> ]
  <1>1. jb.args \in Seq(Args)
    BY DEF JobTypes, Args
  <1>2. DOMAIN jb.args = 1..Len(jb.args) /\ Len(jb.args) \in Nat
        /\ \A i \in DOMAIN jb.args : jb.args[i] \in Args
    BY <1>1
  <1>3. \A i \in DOMAIN jb.args : part[i] \in Seq(AllStores)
    BY <1>2, ArgFacts
  <1>4. part \in Seq(Seq(AllStores)) /\ DOMAIN part = DOMAIN jb.args
    <2>1. part = [ i \in DOMAIN jb.args |-> part[i] ]
      OBVIOUS
    <2> HIDE DEF part
    <2> QED  BY <1>2, <1>3, <2>1
  <1>5. ExcStores(jb) = FlattenSeq(part)
    BY DEF ExcStores
  <1>6. \A i \in DOMAIN jb.args :
            ToSet(part[i]) = { s \in AllStores : Store(s) = jb.args[i] }
    <2> SUFFICES ASSUME NEW i \in DOMAIN jb.args
                 PROVE  ToSet(part[i]) = { s \in AllStores : Store(s) = jb.args[i] }
      OBVIOUS
    <2>1. CASE IsPlace(jb.args[i])
      <3>1. \A s : Store(s) # jb.args[i]
        BY <1>2, <2>1, ArgFacts
      <3>2. part[i] = <<>>
        BY <2>1
      <3> QED  BY <3>1, <3>2 DEF ToSet
    <2>2. CASE ~ IsPlace(jb.args[i])
      <3>1. jb.args[i] = Store(jb.args[i].store) /\ jb.args[i].store \in AllStores
        BY <1>2, <2>2, ArgFacts
      <3>2. part[i] = <<jb.args[i].store>> /\ ToSet(part[i]) = {jb.args[i].store}
        BY <2>2 DEF ToSet
      <3>3. \A s, t : Store(s) = Store(t) => s = t
        BY DEF Store
      <3> QED  BY <3>1, <3>2, <3>3
    <2> QED  BY <2>1, <2>2
  <1> HIDE DEF part
  <1>7. /\ FlattenSeq(part) \in Seq(AllStores)
        /\ ToSet(FlattenSeq(part)) = UNION { ToSet(part[i]) : i \in DOMAIN part }
    BY <1>4, Flatten
  <1>8. UNION { ToSet(part[i]) : i \in DOMAIN part } = { s \in AllStores : Store(s) \in ToSet(jb.args) }
    BY <1>4, <1>6 DEF ToSet
  <1> QED  BY <1>5, <1>7, <1>8

\* The calls and their jobs.
LEMMA CallFacts ==
    ASSUME NEW n \in DOMAIN Calls
    PROVE  /\ Calls[n].what \in {"exchange", "boundary_only"}
           /\ Calls[n].jobs \in Seq(JobTypes)
           /\ Len(Calls[n].jobs) \in Nat
           /\ DOMAIN Calls[n].jobs = 1..Len(Calls[n].jobs)
           /\ \A j \in DOMAIN Calls[n].jobs : Calls[n].jobs[j] \in JobTypes
  <1>1. Calls[n] \in CallTypes
    BY BoundariesAssumption
  <1>2. Calls[n].what \in {"exchange", "boundary_only"} /\ Calls[n].jobs \in Seq(JobTypes)
    BY <1>1 DEF CallTypes
  <1> QED  BY <1>2

\* The stores a call names, other than to be read only.
NamedBy(jobs) == { s \in AllStores : \E j \in DOMAIN jobs : Store(s) \in ToSet(jobs[j].args) }

LEMMA CollectFacts ==
    ASSUME NEW jobs \in Seq(JobTypes)
    PROVE  CollectStores(jobs) \in Seq(AllStores) /\ ToSet(CollectStores(jobs)) = NamedBy(jobs)
  <1> DEFINE part == [ j \in DOMAIN jobs |-> ExcStores(jobs[j]) ]
  <1>1. \A j \in DOMAIN jobs : jobs[j] \in JobTypes
    OBVIOUS
  <1>2. \A j \in DOMAIN jobs : /\ part[j] \in Seq(AllStores)
                               /\ ToSet(part[j]) = { s \in AllStores : Store(s) \in ToSet(jobs[j].args) }
    BY <1>1, ExcStoresFacts
  <1>3. part \in Seq(Seq(AllStores)) /\ DOMAIN part = DOMAIN jobs
    BY <1>2
  <1>4. CollectStores(jobs) = FlattenSeq(part)
    BY DEF CollectStores
  <1> HIDE DEF part
  <1>5. /\ FlattenSeq(part) \in Seq(AllStores)
        /\ ToSet(FlattenSeq(part)) = UNION { ToSet(part[j]) : j \in DOMAIN part }
    BY <1>3, Flatten
  <1>6. UNION { ToSet(part[j]) : j \in DOMAIN part } = NamedBy(jobs)
    <2>1. ASSUME NEW x
          PROVE  (\E j \in DOMAIN part : x \in ToSet(part[j])) <=> x \in NamedBy(jobs)
      BY <1>2, <1>3 DEF NamedBy
    <2>2. ASSUME NEW x
          PROVE  x \in UNION { ToSet(part[j]) : j \in DOMAIN part } <=>
                     \E j \in DOMAIN part : x \in ToSet(part[j])
      OBVIOUS
    <2> QED  BY <2>1, <2>2
  <1> QED  BY <1>4, <1>5, <1>6

\* What is packed and unpacked is named by the call, and is all of it if there
\* are as many stores as jobs.
LEMMA TransferredFacts ==
    ASSUME NEW n \in DOMAIN Calls
    PROVE  LET jobs == Calls[n].jobs
           IN  /\ ToSet(Transferred(jobs)) \subseteq NamedBy(jobs)
               /\ Len(CollectStores(jobs)) = Len(jobs) => ToSet(Transferred(jobs)) = NamedBy(jobs)
  <1> DEFINE jobs == Calls[n].jobs
             all  == CollectStores(jobs)
  <1>1. all \in Seq(AllStores) /\ ToSet(all) = NamedBy(jobs) /\ Len(jobs) \in Nat
    BY CallFacts, CollectFacts
  <1>2. Len(all) >= Len(jobs) /\ Len(all) \in Nat
    BY <1>1, BoundariesAssumption
  <1>3. Transferred(jobs) = SubSeq(all, 1, Len(jobs))
    BY DEF Transferred
  <1> HIDE DEF all, jobs
  <1>4. /\ DOMAIN SubSeq(all, 1, Len(jobs)) = 1..Len(jobs)
        /\ \A i \in 1..Len(jobs) : SubSeq(all, 1, Len(jobs))[i] = all[i] /\ i \in DOMAIN all
    BY <1>1, <1>2
  <1>5. ToSet(Transferred(jobs)) \subseteq ToSet(all)
    BY <1>3, <1>4 DEF ToSet
  <1>6. Len(all) = Len(jobs) => ToSet(all) \subseteq ToSet(Transferred(jobs))
    <2>1. Len(all) = Len(jobs) => DOMAIN all = 1..Len(jobs)
      BY <1>1
    <2> QED  BY <1>3, <1>4, <2>1 DEF ToSet
  <1> QED  BY <1>1, <1>5, <1>6 DEF jobs, all

\* A boundary condition is applied to stores.
LEMMA StoresFacts ==
    ASSUME NEW n \in DOMAIN Calls, NEW j \in DOMAIN Calls[n].jobs
    PROVE  Last(Stores(Calls[n].jobs[j])) \in AllStores
  <1> DEFINE jb == Calls[n].jobs[j]
  <1>1. jb \in JobTypes
    BY CallFacts
  <1>2. jb.args \in Seq(Args) /\ jb.readOnly \in Seq(AllStores)
    BY <1>1 DEF JobTypes, Args
  <1>3. /\ jb.args # <<>>
        /\ \A i \in DOMAIN jb.args : IsPlace(jb.args[i]) => jb.args[i].place \in DOMAIN jb.readOnly
    BY BoundariesAssumption
  <1> HIDE DEF jb
  <1>4. \A i \in DOMAIN jb.args : Stores(jb)[i] \in AllStores
    <2> SUFFICES ASSUME NEW i \in DOMAIN jb.args PROVE Stores(jb)[i] \in AllStores
      OBVIOUS
    <2>1. jb.args[i] \in Args
      BY <1>2
    <2>2. CASE IsPlace(jb.args[i])
      <3>1. jb.readOnly[jb.args[i].place] \in AllStores
        BY <1>2, <1>3, <2>2
      <3> QED  BY <2>2, <3>1 DEF Stores
    <2>3. CASE ~ IsPlace(jb.args[i])
      BY <2>1, <2>3, ArgFacts DEF Stores
    <2> QED  BY <2>2, <2>3
  <1>5. DOMAIN jb.args = 1..Len(jb.args) /\ Len(jb.args) \in Nat \ {0}
    BY <1>2, <1>3
  <1>6. Stores(jb) \in Seq(AllStores) /\ Len(Stores(jb)) = Len(jb.args)
    <2>1. DOMAIN Stores(jb) = 1..Len(jb.args)
      BY <1>5 DEF Stores
    <2>2. Stores(jb) = [i \in 1..Len(jb.args) |-> Stores(jb)[i]]
      BY <1>5 DEF Stores
    <2> QED  BY <1>4, <1>5, <2>2
  <1>7. Last(Stores(jb)) = Stores(jb)[Len(jb.args)] /\ Len(jb.args) \in DOMAIN jb.args
    BY <1>5, <1>6 DEF Last
  <1> QED  BY <1>4, <1>7 DEF jb

-----------------------------------------------------------------------------
(* Regions, counts and types.                                                *)

LEMMA SideFacts ==
    ASSUME NEW p \in Procs, NEW d \in Sides(p)
    PROVE  d \in Regions /\ d \in Dirs /\ HasNbr(p, d) /\ NbrCoords(p, d) \in Procs /\ Neg(d) \in Dirs
  BY NeighbourBack, DirFacts DEF Sides, Regions

\* The exchanges among the first calls are counted one by one.
LEMMA CountFacts ==
    /\ ExchangesTo(0) = 0 /\ ExchangesTo(Len(Calls)) = Exchanges
    /\ \A n \in 0..Len(Calls) : ExchangesTo(n) \in Nat
    /\ \A n \in 1..Len(Calls) :
          ExchangesTo(n) = IF Calls[n].what = "exchange" THEN ExchangesTo(n - 1) + 1 ELSE ExchangesTo(n - 1)
    /\ \A n, m \in 0..Len(Calls) : n <= m => ExchangesTo(n) <= ExchangesTo(m)
    /\ Len(Calls) \in Nat /\ DOMAIN Calls = 1..Len(Calls)
  <1> DEFINE Set(n) == { k \in 1..n : Calls[k].what = "exchange" }
  <1>1. Len(Calls) \in Nat /\ DOMAIN Calls = 1..Len(Calls)
    BY BoundariesAssumption
  <1>2. \A n \in 0..Len(Calls) : IsFiniteSet(1..n)
    BY <1>1, FS_Interval
  <1>3. \A n \in 0..Len(Calls) : IsFiniteSet(Set(n)) /\ Cardinality(Set(n)) \in Nat
    <2> SUFFICES ASSUME NEW n \in 0..Len(Calls) PROVE IsFiniteSet(Set(n)) /\ Cardinality(Set(n)) \in Nat
      OBVIOUS
    <2>1. IsFiniteSet(1..n) /\ Set(n) \in SUBSET (1..n)
      BY <1>2
    <2>2. IsFiniteSet(Set(n))
      BY <2>1, FS_Subset
    <2> QED  BY <2>2, FS_CardinalityType
  <1>4. Cardinality(Set(0)) = 0
    <2>1. Set(0) = {}
      OBVIOUS
    <2> QED  BY <2>1, FS_EmptySet
  <1>5. ASSUME NEW n \in 1..Len(Calls)
        PROVE  Cardinality(Set(n)) = IF Calls[n].what = "exchange" THEN Cardinality(Set(n - 1)) + 1
                                                                 ELSE Cardinality(Set(n - 1))
    <2>0. n - 1 \in 0..Len(Calls) /\ n \notin Set(n - 1)
      BY <1>1
    <2>1. CASE Calls[n].what = "exchange"
      <3>1. Set(n) = Set(n - 1) \cup {n}
        BY <1>1, <2>1
      <3>2. IsFiniteSet(Set(n - 1))
        BY <1>3, <2>0
      <3> HIDE DEF Set
      <3> QED  BY <2>0, <2>1, <3>1, <3>2, FS_AddElement
    <2>2. CASE Calls[n].what # "exchange"
      <3>1. Set(n) = Set(n - 1)
        BY <1>1, <2>2
      <3> QED  BY <2>2, <3>1
    <2> QED  BY <2>1, <2>2
  <1>6. ASSUME NEW n \in 0..Len(Calls), NEW m \in 0..Len(Calls), n <= m
        PROVE  Cardinality(Set(n)) <= Cardinality(Set(m))
    <2>1. Set(n) \in SUBSET Set(m) /\ IsFiniteSet(Set(m))
      BY <1>1, <1>3, <1>6
    <2> HIDE DEF Set
    <2> QED  BY <2>1, FS_Subset
  <1>7. \A n : ExchangesTo(n) = Cardinality(Set(n))
    BY DEF ExchangesTo
  <1>8. Exchanges = Cardinality(Set(Len(Calls)))
    BY <1>1 DEF Exchanges
  <1> HIDE DEF Set
  <1> QED  BY <1>1, <1>3, <1>4, <1>5, <1>6, <1>7, <1>8

HaloTypes == [AllStores -> [Regions -> Contents]]

\* A process in a call makes one of those listed.
LEMMA InCall ==
    ASSUME TypeOK, NEW p \in Procs, call[p] > 0
    PROVE  /\ call[p] \in DOMAIN Calls /\ Jobs(p) = Calls[call[p]].jobs
           /\ Jobs(p) \in Seq(JobTypes) /\ Len(Jobs(p)) \in Nat /\ DOMAIN Jobs(p) = 1..Len(Jobs(p))
           /\ job[p] \in 0..Len(Jobs(p))
  <1>1. call[p] \in 0..Len(Calls) /\ call[p] \in DOMAIN Calls
    BY CountFacts DEF TypeOK
  <1>2. Jobs(p) = Calls[call[p]].jobs
    BY DEF Jobs
  <1>3. job[p] \in Nat /\ job[p] <= Len(Jobs(p))
    BY <1>1 DEF TypeOK
  <1>4. Jobs(p) \in Seq(JobTypes) /\ Len(Jobs(p)) \in Nat /\ DOMAIN Jobs(p) = 1..Len(Jobs(p))
    BY <1>1, <1>2, CallFacts
  <1> QED  BY <1>1, <1>2, <1>3, <1>4

\* What a halo region can come to hold is of the type of its contents.
LEMMA ContentsFacts ==
    /\ Value \in Contents /\ Initial \in Contents
    /\ \A p \in Procs, s \in AllStores, n \in 0..Exchanges :
          /\ Interior(p, s, n) \in Contents /\ Interior(p, s, n).nth = n
          /\ \A d \in Dirs : Border(p, d, s, n) \in Contents /\ Border(p, d, s, n).nth = n
  <1>1. 0 \in 0..Exchanges
    BY CountFacts
  <1> QED  BY <1>1 DEF Value, Initial, Interior, Border, Contents

LEMMA UnpackedType ==
    ASSUME TypeOK, NEW p \in Procs, call[p] > 0, Sync!Finish(p)
    PROVE  /\ Unpacked(p, halo[p]) \in HaloTypes
           /\ \A s \in AllStores, d \in Regions :
                 Unpacked(p, halo[p])[s][d] =
                     IF d \in Sides(p) /\ s \in ToSet(Transferred(Jobs(p)))
                       THEN Border(NbrCoords(p, d), Neg(d), s, sent[p]) ELSE halo[p][s][d]
  <1>1. \A d \in Sides(p) : seen'[p][d] = sent[p]
    BY DEF TypeOK, Sync!Finish
  <1>2. \A s \in AllStores, d \in Sides(p) : Border(NbrCoords(p, d), Neg(d), s, sent[p]) \in Contents
    BY SideFacts, ContentsFacts DEF TypeOK
  <1>3. \A s \in AllStores, d \in Regions : halo[p][s][d] \in Contents
    BY DEF TypeOK
  <1>4. \A s \in AllStores, d \in Regions :
            Unpacked(p, halo[p])[s][d] =
                IF d \in Sides(p) /\ s \in ToSet(Transferred(Jobs(p)))
                  THEN Border(NbrCoords(p, d), Neg(d), s, sent[p]) ELSE halo[p][s][d]
    BY <1>1 DEF Unpacked
  <1>5. Unpacked(p, halo[p]) = [s \in AllStores |-> [d \in Regions |-> Unpacked(p, halo[p])[s][d]]]
    BY DEF Unpacked
  <1>6. \A s \in AllStores, d \in Regions : Unpacked(p, halo[p])[s][d] \in Contents
    BY <1>2, <1>3, <1>4
  <1> QED  BY <1>4, <1>5, <1>6 DEF HaloTypes

LEMMA AppliedType ==
    ASSUME TypeOK, NEW p \in Procs, call[p] > 0, NEW j \in DOMAIN Jobs(p)
    PROVE  LET jb == Jobs(p)[j]
           IN  /\ Applied(p, jb, halo[p]) \in HaloTypes
               /\ \A s \in AllStores, d \in Regions :
                     Applied(p, jb, halo[p])[s][d] =
                         IF IsOpen(p, d) /\ s \in Written(jb) THEN BoundaryValue(p, jb, halo[p], s, d)
                                                              ELSE halo[p][s][d]
  <1> DEFINE jb == Jobs(p)[j]
  <1>1. Last(Stores(jb)) \in AllStores
    BY InCall, StoresFacts
  <1>2. halo[p] \in HaloTypes /\ sent[p] \in 0..Exchanges
    BY DEF TypeOK, HaloTypes
  <1> HIDE DEF jb
  <1>3. \A s \in AllStores, d \in Regions : BoundaryValue(p, jb, halo[p], s, d) \in Contents
    <2> SUFFICES ASSUME NEW s \in AllStores, NEW d \in Regions
                 PROVE  BoundaryValue(p, jb, halo[p], s, d) \in Contents
      OBVIOUS
    <2>1. halo[p][Last(Stores(jb))][d] \in Contents
      BY <1>1, <1>2 DEF HaloTypes
    <2>2. Inwards(p, d) \in Regions => halo[p][s][Inwards(p, d)] \in Contents
      BY <1>2 DEF HaloTypes
    <2>3. Value \in Contents /\ Interior(p, s, sent[p]) \in Contents
      BY <1>2, ContentsFacts
    <2> QED  BY <2>1, <2>2, <2>3 DEF BoundaryValue
  <1>4. \A s \in AllStores, d \in Regions :
            Applied(p, jb, halo[p])[s][d] =
                IF IsOpen(p, d) /\ s \in Written(jb) THEN BoundaryValue(p, jb, halo[p], s, d)
                                                     ELSE halo[p][s][d]
    BY DEF Applied
  <1>5. \A s \in AllStores, d \in Regions : Applied(p, jb, halo[p])[s][d] \in Contents
    BY <1>2, <1>3, <1>4 DEF HaloTypes
  <1>6. Applied(p, jb, halo[p]) = [s \in AllStores |-> [d \in Regions |-> Applied(p, jb, halo[p])[s][d]]]
    BY DEF Applied
  <1> QED  BY <1>4, <1>5, <1>6 DEF HaloTypes, jb

-----------------------------------------------------------------------------
LEMMA InitInv == Init => IndInv
  <1> SUFFICES ASSUME Init PROVE IndInv
    OBVIOUS
  <1>1. Exchanges \in Nat /\ Len(Calls) \in Nat /\ ExchangesTo(0) = 0
    BY CountFacts
  <1>2. TypeOK
    <2>1. halo \in [Procs -> [AllStores -> [Regions -> Contents]]]
      BY ContentsFacts DEF Init
    <2>2. busy = { p \in Procs : pc[p] = "exchanging" }
      BY DEF Init, Sync!Init
    <2>3. DOMAIN seen = Procs /\ \A p \in Procs : seen[p] \in [Sides(p) -> 0..Exchanges]
      BY <1>1 DEF Init, Sync!Init
    <2> QED  BY <1>1, <2>1, <2>2, <2>3 DEF Init, TypeOK, Sync!Init
  <1>3. ASSUME NEW p \in Procs PROVE ProcessOK(p)
    <2>1. /\ call[p] = 0 /\ pc[p] = "idle" /\ sent[p] = 0 /\ job[p] = 0
      BY DEF Init, Sync!Init
    <2>2. ~ InExchange(p) /\ 1..call[p] = {}
      BY <2>1 DEF InExchange
    <2>3. PhaseOK(p) /\ FitOK(p) /\ SentOK(p)
      BY <1>1, <2>1, <2>2 DEF PhaseOK, FitOK, SentOK
    <2>4. BordersOK(p) /\ OpenSidesOK(p)
      BY <2>2 DEF BordersOK, OpenSidesOK
    <2> QED  BY <2>3, <2>4 DEF ProcessOK
  <1> QED  BY <1>2, <1>3 DEF IndInv

\* What holds of a process does not depend on the others.
LEMMA Frame ==
    ASSUME NEW q, ProcessOK(q), pc'[q] = pc[q], call'[q] = call[q], job'[q] = job[q],
           halo'[q] = halo[q], sent'[q] = sent[q]
    PROVE  ProcessOK(q)'
  <1>1. Jobs(q)' = Jobs(q) /\ InExchange(q)' = InExchange(q)
    BY DEF Jobs, InExchange
  <1>2. Done(q)' = Done(q)
    BY <1>1 DEF Done
  <1>3. PhaseOK(q)' /\ FitOK(q)' /\ SentOK(q)'
    BY <1>1 DEF ProcessOK, PhaseOK, FitOK, SentOK
  <1>4. BordersOK(q)'
    BY <1>1 DEF ProcessOK, BordersOK
  <1>5. OpenSidesOK(q)'
    BY <1>1, <1>2 DEF ProcessOK, OpenSidesOK
  <1> QED  BY <1>3, <1>4, <1>5 DEF ProcessOK

\* A step of p is a step of no one else.
LEMMA Others ==
    ASSUME TypeOK, NEW p \in Procs, Run(p), NEW q \in Procs, q # p
    PROVE  /\ pc'[q] = pc[q] /\ call'[q] = call[q] /\ job'[q] = job[q] /\ halo'[q] = halo[q]
           /\ sent'[q] = sent[q] /\ seen'[q] = seen[q] /\ (q \in busy' <=> q \in busy)
  <1> USE DEF TypeOK
  <1>1. CASE Exchange(p)
    BY <1>1 DEF Exchange, Begin, Sync!Publish
  <1>2. CASE Throw(p)
    BY <1>2 DEF Throw, Begin
  <1>3. CASE BoundaryOnly(p)
    BY <1>3 DEF BoundaryOnly, Begin
  <1>4. CASE Unpack(p)
    BY <1>4 DEF Unpack, Sync!Finish
  <1>5. CASE ApplyBoundary(p)
    BY <1>5 DEF ApplyBoundary
  <1>6. CASE Return(p)
    BY <1>6 DEF Return
  <1> QED  BY <1>1, <1>2, <1>3, <1>4, <1>5, <1>6 DEF Run

\* A process that begins a call is in it and has applied none of its jobs.
LEMMA Begun ==
    ASSUME IndInv, NEW p \in Procs, NEW what, Begin(p, what)
    PROVE  /\ call' \in [Procs -> 0..Len(Calls)] /\ call'[p] = call[p] + 1 /\ call'[p] > 0
           /\ call[p] \in 0..Len(Calls) /\ call'[p] \in 1..Len(Calls)
           /\ Calls[call'[p]].what = what /\ Jobs(p)' = Calls[call'[p]].jobs
           /\ job[p] = 0 /\ Len(Jobs(p)') \in Nat
           /\ \A n \in 1..call[p] : ~ (Calls[n].what = "exchange" /\ TooMany(Calls[n].jobs))
  <1>0. TypeOK /\ ProcessOK(p) /\ Len(Calls) \in Nat
    BY CountFacts DEF IndInv
  <1>1. pc[p] = "idle" /\ call[p] < Len(Calls) /\ call' = [call EXCEPT ![p] = @ + 1]
        /\ Calls[call[p] + 1].what = what
    BY DEF Begin
  <1>2. call[p] \in 0..Len(Calls) /\ call \in [Procs -> 0..Len(Calls)]
    BY <1>0 DEF TypeOK
  <1>3. call[p] + 1 \in 1..Len(Calls) /\ call'[p] = call[p] + 1
    BY <1>0, <1>1, <1>2
  <1>4. call' \in [Procs -> 0..Len(Calls)]
    BY <1>0, <1>1, <1>2, <1>3
  <1>5. Jobs(p)' = Calls[call'[p]].jobs /\ Len(Calls[call'[p]].jobs) \in Nat
    BY <1>3, CallFacts, CountFacts DEF Jobs
  <1>6. job[p] = 0 /\ \A n \in 1..call[p] : ~ (Calls[n].what = "exchange" /\ TooMany(Calls[n].jobs))
    BY <1>0, <1>1 DEF ProcessOK, PhaseOK, FitOK
  <1> QED  BY <1>0, <1>1, <1>2, <1>3, <1>4, <1>5, <1>6

LEMMA ExchangeInv ==
    ASSUME IndInv, NEW p \in Procs, Exchange(p)
    PROVE  TypeOK' /\ ProcessOK(p)'
  <1>0. TypeOK /\ ProcessOK(p) /\ Begin(p, "exchange") /\ pc[p] = "idle"
    BY DEF IndInv, Exchange, Begin
  <1>1. /\ pc' = [pc EXCEPT ![p] = "exchanging"] /\ job' = job /\ halo' = halo /\ seen' = seen
        /\ sent[p] < Exchanges /\ sent' = [sent EXCEPT ![p] = @ + 1] /\ busy' = busy \cup {p}
        /\ ~ TooMany(Jobs(p)')
    BY DEF Exchange, Begin, Sync!Publish, Jobs, TypeOK, IndInv
  <1>2. /\ sent[p] \in 0..Exchanges /\ Exchanges \in Nat /\ sent'[p] = sent[p] + 1 /\ pc'[p] = "exchanging"
    BY <1>0, <1>1, CountFacts DEF TypeOK
  <1>3. TypeOK'
    <2>1. sent' \in [Procs -> 0..Exchanges] /\ busy' = { q \in Procs : pc'[q] = "exchanging" }
      BY <1>0, <1>1, <1>2 DEF TypeOK
    <2>2. ASSUME NEW q \in Procs PROVE job'[q] <= IF call'[q] = 0 THEN 0 ELSE Len(Jobs(q)')
      <3>1. CASE q = p
        BY <1>0, <1>1, <3>1, Begun
      <3>2. CASE q # p
        <4>1. call'[q] = call[q] /\ Jobs(q)' = Jobs(q)
          BY <1>0, <3>2 DEF Begin, TypeOK, Jobs
        <4> QED  BY <1>0, <1>1, <4>1 DEF TypeOK
      <3> QED  BY <3>1, <3>2
    <2>3. call' \in [Procs -> 0..Len(Calls)]
      BY <1>0, Begun
    <2> QED  BY <1>0, <1>1, <2>1, <2>2, <2>3 DEF TypeOK
  <1>4. PhaseOK(p)' /\ BordersOK(p)' /\ OpenSidesOK(p)'
    BY <1>0, <1>1, <1>2, Begun DEF PhaseOK, InExchange, BordersOK, OpenSidesOK
  <1>5. FitOK(p)'
    <2>1. \A n \in 1..call'[p] : n \in 1..call[p] \/ n = call'[p]
      BY <1>0, Begun
    <2>2. ~ TooMany(Calls[call'[p]].jobs)
      BY <1>0, <1>1, Begun
    <2> QED  BY <1>0, <2>1, <2>2, Begun DEF FitOK
  <1>6. SentOK(p)'
    <2>1. sent[p] = ExchangesTo(call[p])
      BY <1>0 DEF ProcessOK, SentOK
    <2>2. ExchangesTo(call'[p]) = ExchangesTo(call[p]) + 1
      BY <1>0, Begun, CountFacts
    <2> QED  BY <1>2, <2>1, <2>2 DEF SentOK
  <1> QED  BY <1>3, <1>4, <1>5, <1>6 DEF ProcessOK

\* The other two calls begin with nothing to wait for.
LEMMA BeginInv ==
    ASSUME IndInv, NEW p \in Procs, Throw(p) \/ BoundaryOnly(p)
    PROVE  TypeOK' /\ ProcessOK(p)'
  <1>0. TypeOK /\ ProcessOK(p) /\ pc[p] = "idle" /\ \E what : Begin(p, what)
    BY DEF IndInv, Throw, BoundaryOnly, Begin
  <1>1. job' = job /\ halo' = halo /\ seen' = seen /\ sent' = sent /\ busy' = busy
    BY DEF Throw, BoundaryOnly
  <1>2. pc' \in [Procs -> {"idle", "exchanging", "applying", "thrown"}] /\ pc'[p] \in {"applying", "thrown"}
        /\ \A q \in Procs \ {p} : pc'[q] = pc[q]
    BY <1>0 DEF Throw, BoundaryOnly, TypeOK
  <1>3. TypeOK'
    <2>1. busy' = { q \in Procs : pc'[q] = "exchanging" }
      BY <1>0, <1>1, <1>2 DEF TypeOK
    <2>2. ASSUME NEW q \in Procs PROVE job'[q] <= IF call'[q] = 0 THEN 0 ELSE Len(Jobs(q)')
      <3>1. CASE q = p
        BY <1>0, <1>1, <3>1, Begun
      <3>2. CASE q # p
        <4>1. call'[q] = call[q] /\ Jobs(q)' = Jobs(q)
          BY <1>0, <3>2 DEF Begin, TypeOK, Jobs
        <4> QED  BY <1>0, <1>1, <4>1 DEF TypeOK
      <3> QED  BY <3>1, <3>2
    <2>3. call' \in [Procs -> 0..Len(Calls)]
      BY <1>0, Begun
    <2> QED  BY <1>0, <1>1, <1>2, <2>1, <2>2, <2>3 DEF TypeOK
  <1>4. sent[p] = ExchangesTo(call[p])
    BY <1>0 DEF ProcessOK, SentOK
  <1>5. \A n \in 1..call'[p] : n \in 1..call[p] \/ n = call'[p]
    BY <1>0, Begun
  <1>6. CASE Throw(p)
    <2>1. pc'[p] = "thrown" /\ Begin(p, "exchange") /\ TooMany(Jobs(p)')
      BY <1>0, <1>6 DEF Throw, TypeOK, Begin, Jobs
    <2>2. PhaseOK(p)' /\ BordersOK(p)' /\ OpenSidesOK(p)'
      BY <1>0, <1>1, <2>1, Begun DEF PhaseOK, InExchange, BordersOK, OpenSidesOK
    <2>3. FitOK(p)'
      BY <1>0, <1>5, <2>1, Begun DEF FitOK
    <2>4. SentOK(p)'
      <3>1. call'[p] - 1 = call[p]
        BY <2>1, Begun
      <3> QED  BY <1>1, <1>4, <2>1, <3>1 DEF SentOK
    <2> QED  BY <1>3, <2>2, <2>3, <2>4 DEF ProcessOK
  <1>7. CASE BoundaryOnly(p)
    <2>1. pc'[p] = "applying" /\ Begin(p, "boundary_only")
      BY <1>0, <1>7 DEF BoundaryOnly, TypeOK
    <2>2. ~ InExchange(p)' /\ call'[p] > 0
      BY <2>1, Begun DEF InExchange
    <2>3. PhaseOK(p)' /\ BordersOK(p)' /\ OpenSidesOK(p)'
      BY <2>1, <2>2 DEF PhaseOK, BordersOK, OpenSidesOK
    <2>4. FitOK(p)'
      BY <1>5, <2>1, Begun DEF FitOK
    <2>5. SentOK(p)'
      <3>1. ExchangesTo(call'[p]) = ExchangesTo(call[p])
        BY <2>1, Begun, CountFacts
      <3> QED  BY <1>1, <1>4, <2>1, <3>1 DEF SentOK
    <2> QED  BY <1>3, <2>3, <2>4, <2>5 DEF ProcessOK
  <1> QED  BY <1>6, <1>7
\* What a process turns to at an open boundary faces a neighbour.
LEMMA InwardsFacts ==
    ASSUME NEW p \in Procs, NEW d \in Dirs, Inwards(p, d) \in Regions
    PROVE  Inwards(p, d) \in Sides(p)
  <1>1. ASSUME NEW a \in Axes
        PROVE  Cyclic[a] \/ p[a] + Inwards(p, d)[a] \in 0..(Dims[a] - 1)
    <2>1. p[a] \in 0..(Dims[a] - 1) /\ p[a] + 0 = p[a]
      BY ProcCoords
    <2>2. Inwards(p, d)[a] = IF Cyclic[a] \/ p[a] + d[a] \in 0..(Dims[a] - 1) THEN d[a] ELSE 0
      BY DEF Inwards
    <2> QED  BY <2>1, <2>2
  <1> QED  BY <1>1 DEF Sides, HasNbr

LEMMA UnpackInv ==
    ASSUME IndInv, NEW p \in Procs, Unpack(p)
    PROVE  TypeOK' /\ ProcessOK(p)'
  <1>0. TypeOK /\ ProcessOK(p) /\ pc[p] = "exchanging" /\ Sync!Finish(p)
    BY DEF IndInv, Unpack
  <1>1. /\ pc' = [pc EXCEPT ![p] = "applying"] /\ call' = call /\ job' = job /\ sent' = sent
        /\ busy' = busy \ {p} /\ seen' = [seen EXCEPT ![p] = [d \in Sides(p) |-> sent[p]]]
        /\ halo' = [halo EXCEPT ![p] = Unpacked(p, halo[p])]
    BY <1>0 DEF Unpack, Sync!Finish
  <1>2. call[p] > 0 /\ job[p] = 0 /\ InExchange(p)
    BY <1>0 DEF ProcessOK, PhaseOK
  <1>3. /\ pc'[p] = "applying" /\ halo'[p] = Unpacked(p, halo[p]) /\ sent[p] \in 0..Exchanges
        /\ Jobs(p)' = Jobs(p) /\ InExchange(p)'
    BY <1>0, <1>1, <1>2 DEF TypeOK, Jobs, InExchange
  <1>4. TypeOK'
    <2>1. halo' \in [Procs -> [AllStores -> [Regions -> Contents]]]
      BY <1>0, <1>1, <1>2, UnpackedType DEF TypeOK, HaloTypes
    <2>2. busy' = { q \in Procs : pc'[q] = "exchanging" }
      BY <1>0, <1>1 DEF TypeOK
    <2>3. DOMAIN seen' = Procs /\ \A q \in Procs : seen'[q] \in [Sides(q) -> 0..Exchanges]
      <3>1. seen'[p] \in [Sides(p) -> 0..Exchanges]
        BY <1>0, <1>1, <1>3 DEF TypeOK
      <3>2. \A q \in Procs \ {p} : seen'[q] = seen[q]
        BY <1>0, <1>1 DEF TypeOK
      <3>3. DOMAIN seen' = Procs
        BY <1>0, <1>1 DEF TypeOK
      <3> QED  BY <1>0, <3>1, <3>2, <3>3 DEF TypeOK
    <2>4. \A q \in Procs : job'[q] <= IF call'[q] = 0 THEN 0 ELSE Len(Jobs(q)')
      BY <1>0, <1>1 DEF TypeOK, Jobs
    <2> QED  BY <1>0, <1>1, <2>1, <2>2, <2>3, <2>4 DEF TypeOK
  <1>5. PhaseOK(p)' /\ FitOK(p)' /\ SentOK(p)'
    BY <1>0, <1>1, <1>2, <1>3 DEF ProcessOK, PhaseOK, FitOK, SentOK
  <1>6. BordersOK(p)'
    <2>1. ToSet(Transferred(Jobs(p))) \subseteq AllStores
      BY <1>0, <1>2, InCall, TransferredFacts DEF NamedBy
    <2>2. \A d \in Sides(p) : d \in Regions
      BY SideFacts
    <2>3. ASSUME NEW s \in ToSet(Transferred(Jobs(p))), NEW d \in Sides(p)
          PROVE  halo'[p][s][d] = Border(NbrCoords(p, d), Neg(d), s, sent'[p])
      BY <1>0, <1>1, <1>2, <1>3, <2>1, <2>2, UnpackedType
    <2> QED  BY <1>3, <2>3 DEF BordersOK
  <1>7. OpenSidesOK(p)'
    <2>1. Done(p)' = {}
      BY <1>1, <1>2, <1>3 DEF Done
    <2> QED  BY <2>1 DEF OpenSidesOK
  <1> QED  BY <1>4, <1>5, <1>6, <1>7 DEF ProcessOK

LEMMA ReturnInv ==
    ASSUME IndInv, NEW p \in Procs, Return(p)
    PROVE  TypeOK' /\ ProcessOK(p)'
  <1>0. TypeOK /\ ProcessOK(p) /\ pc[p] = "applying" /\ job[p] = Len(Jobs(p))
    BY DEF IndInv, Return
  <1>1. /\ pc' = [pc EXCEPT ![p] = "idle"] /\ call' = call /\ job' = [job EXCEPT ![p] = 0]
        /\ halo' = halo /\ sent' = sent /\ busy' = busy /\ seen' = seen
    BY DEF Return
  <1>2. /\ call[p] > 0 /\ pc'[p] = "idle" /\ job'[p] = 0
        /\ \A q : Jobs(q)' = Jobs(q) /\ InExchange(q)' = InExchange(q)
    BY <1>0, <1>1 DEF ProcessOK, PhaseOK, TypeOK, Jobs, InExchange
  <1>3. Done(p)' = Done(p)
    <2>1. DOMAIN Jobs(p) = 1..Len(Jobs(p))
      BY <1>0, <1>2, InCall
    <2> QED  BY <1>0, <1>2, <2>1 DEF Done
  <1>4. TypeOK'
    <2>1. busy' = { q \in Procs : pc'[q] = "exchanging" }
      BY <1>0, <1>1 DEF TypeOK
    <2>2. ASSUME NEW q \in Procs PROVE job'[q] <= IF call'[q] = 0 THEN 0 ELSE Len(Jobs(q)')
      <3>1. call[p] > 0 => Len(Jobs(p)) \in Nat
        BY <1>0, InCall
      <3>2. q # p => job'[q] = job[q]
        BY <1>0, <1>1 DEF TypeOK
      <3> QED  BY <1>0, <1>1, <1>2, <3>1, <3>2 DEF TypeOK
    <2>3. job' \in [Procs -> Nat] /\ pc' \in [Procs -> {"idle", "exchanging", "applying", "thrown"}]
      BY <1>0, <1>1 DEF TypeOK
    <2> QED  BY <1>0, <1>1, <2>1, <2>2, <2>3 DEF TypeOK
  <1>5. PhaseOK(p)' /\ FitOK(p)' /\ SentOK(p)'
    BY <1>0, <1>1, <1>2 DEF ProcessOK, PhaseOK, FitOK, SentOK
  <1>6. BordersOK(p)'
    BY <1>0, <1>1, <1>2 DEF ProcessOK, BordersOK
  <1>7. OpenSidesOK(p)'
    BY <1>0, <1>1, <1>2, <1>3 DEF ProcessOK, OpenSidesOK
  <1> QED  BY <1>4, <1>5, <1>6, <1>7 DEF ProcessOK

\* What the boundary condition of a job leaves, and what it writes.
LEMMA AppliedFacts ==
    ASSUME IndInv, NEW p \in Procs, ApplyBoundary(p)
    PROVE  /\ job[p] + 1 \in DOMAIN Jobs(p) /\ call[p] > 0 /\ job[p] \in Nat
           /\ Jobs(p)' = Jobs(p) /\ pc[p] = "applying"
           /\ pc' = pc /\ call' = call /\ sent' = sent /\ busy' = busy /\ seen' = seen
           /\ job' = [job EXCEPT ![p] = @ + 1] /\ job'[p] = job[p] + 1
           /\ halo' = [halo EXCEPT ![p] = Applied(p, Jobs(p)[job[p] + 1], halo[p])]
           /\ halo'[p] = Applied(p, Jobs(p)[job[p] + 1], halo[p])
           /\ \A s \in AllStores, d \in Regions :
                 halo'[p][s][d] =
                    IF d \notin Sides(p) /\ s \in Written(Jobs(p)[job[p] + 1])
                      THEN BoundaryValue(p, Jobs(p)[job[p] + 1], halo[p], s, d) ELSE halo[p][s][d]
  <1>0. TypeOK /\ ProcessOK(p) /\ pc[p] = "applying" /\ job[p] < Len(Jobs(p))
    BY DEF IndInv, ApplyBoundary
  <1>1. call[p] > 0
    BY <1>0 DEF ProcessOK, PhaseOK
  <1>2. job[p] \in Nat /\ job[p] + 1 \in DOMAIN Jobs(p)
    BY <1>0, <1>1, InCall
  <1>3. /\ pc' = pc /\ call' = call /\ sent' = sent /\ busy' = busy /\ seen' = seen
        /\ job' = [job EXCEPT ![p] = @ + 1]
        /\ halo' = [halo EXCEPT ![p] = Applied(p, Jobs(p)[job[p] + 1], halo[p])]
    BY DEF ApplyBoundary
  <1>4. job'[p] = job[p] + 1 /\ halo'[p] = Applied(p, Jobs(p)[job[p] + 1], halo[p])
    BY <1>0, <1>3 DEF TypeOK
  <1>5. \A d \in Regions : IsOpen(p, d) <=> d \notin Sides(p)
    BY DEF IsOpen, Sides
  <1>6. Jobs(p)' = Jobs(p)
    BY <1>3 DEF Jobs
  <1>7. \A s \in AllStores, d \in Regions :
            halo'[p][s][d] =
                IF d \notin Sides(p) /\ s \in Written(Jobs(p)[job[p] + 1])
                  THEN BoundaryValue(p, Jobs(p)[job[p] + 1], halo[p], s, d) ELSE halo[p][s][d]
    BY <1>0, <1>1, <1>2, <1>4, <1>5, AppliedType
  <1> QED  BY <1>0, <1>1, <1>2, <1>3, <1>4, <1>6, <1>7

LEMMA ApplyInv ==
    ASSUME IndInv, NEW p \in Procs, ApplyBoundary(p)
    PROVE  TypeOK' /\ ProcessOK(p)'
  <1> DEFINE n == job[p] + 1
             T == ToSet(Transferred(Jobs(p)))
  <1>0. TypeOK /\ ProcessOK(p) /\ pc[p] = "applying" /\ call[p] > 0 /\ n \in DOMAIN Jobs(p) /\ job[p] \in Nat
    BY AppliedFacts DEF IndInv
  <1>1. /\ pc' = pc /\ call' = call /\ sent' = sent /\ busy' = busy /\ seen' = seen
        /\ job' = [job EXCEPT ![p] = @ + 1] /\ job'[p] = n /\ Jobs(p)' = Jobs(p)
    BY AppliedFacts
  <1>2. T \subseteq AllStores
    BY <1>0, InCall, TransferredFacts DEF NamedBy
  <1>3. InExchange(p)' = InExchange(p)
    BY <1>1 DEF InExchange
  <1>4. TypeOK'
    <2>1. halo' \in [Procs -> [AllStores -> [Regions -> Contents]]]
      <3>1. Applied(p, Jobs(p)[n], halo[p]) \in HaloTypes
        BY <1>0, AppliedType
      <3>2. halo' = [halo EXCEPT ![p] = Applied(p, Jobs(p)[n], halo[p])]
        BY AppliedFacts
      <3> QED  BY <1>0, <3>1, <3>2 DEF TypeOK, HaloTypes
    <2>2. ASSUME NEW q \in Procs PROVE job'[q] <= IF call'[q] = 0 THEN 0 ELSE Len(Jobs(q)')
      <3>1. CASE q = p
        <4>1. DOMAIN Jobs(p) = 1..Len(Jobs(p))
          BY <1>0, InCall
        <4> QED  BY <1>0, <1>1, <3>1, <4>1
      <3>2. CASE q # p
        BY <1>0, <1>1, <3>2 DEF TypeOK, Jobs
      <3> QED  BY <3>1, <3>2
    <2>3. job' \in [Procs -> Nat]
      BY <1>0, <1>1 DEF TypeOK
    <2> QED  BY <1>0, <1>1, <2>1, <2>2, <2>3 DEF TypeOK
  <1>5. PhaseOK(p)' /\ FitOK(p)' /\ SentOK(p)'
    BY <1>0, <1>1, <1>3 DEF ProcessOK, PhaseOK, FitOK, SentOK
  <1>6. BordersOK(p)'
    <2> SUFFICES ASSUME InExchange(p), NEW s \in T, NEW d \in Sides(p)
                 PROVE  halo'[p][s][d] = Border(NbrCoords(p, d), Neg(d), s, sent[p])
      BY <1>1, <1>3 DEF BordersOK
    <2>1. halo[p][s][d] = Border(NbrCoords(p, d), Neg(d), s, sent[p])
      BY <1>0 DEF ProcessOK, BordersOK
    <2>2. d \in Regions
      BY SideFacts
    <2> QED  BY <1>2, <2>1, <2>2, AppliedFacts
  <1>7. OpenSidesOK(p)'
    <2> SUFFICES ASSUME InExchange(p), NEW j \in 1..n, Jobs(p)[j].bc = "extend",
                        NEW s \in Written(Jobs(p)[j]) \cap T, NEW d \in Regions \ Sides(p),
                        \A k \in 1..n : k > j => s \notin Written(Jobs(p)[k])
                 PROVE  halo'[p][s][d].nth = sent[p]
      <3>1. Done(p)' = 1..n
        BY <1>0, <1>1 DEF Done
      <3> QED  BY <1>1, <1>3, <3>1 DEF OpenSidesOK
    <2>1. CASE j = n
      <3>1. halo'[p][s][d] = BoundaryValue(p, Jobs(p)[n], halo[p], s, d)
        BY <1>2, <2>1, AppliedFacts
      <3>2. BoundaryValue(p, Jobs(p)[n], halo[p], s, d) =
                IF Inwards(p, d) \in Regions THEN halo[p][s][Inwards(p, d)] ELSE Interior(p, s, sent[p])
        BY <2>1 DEF BoundaryValue
      <3>3. CASE Inwards(p, d) \in Regions
        <4>1. Inwards(p, d) \in Sides(p)
          BY <3>3, InwardsFacts DEF Regions
        <4>2. halo[p][s][Inwards(p, d)] =
                  Border(NbrCoords(p, Inwards(p, d)), Neg(Inwards(p, d)), s, sent[p])
          BY <1>0, <4>1 DEF ProcessOK, BordersOK
        <4> QED  BY <3>1, <3>2, <3>3, <4>2 DEF Border
      <3>4. CASE Inwards(p, d) \notin Regions
        BY <3>1, <3>2, <3>4 DEF Interior
      <3> QED  BY <3>3, <3>4
    <2>2. CASE j # n
      <3>1. j \in 1..job[p] /\ n > j /\ n \in 1..n /\ 1..job[p] \subseteq 1..n
        BY <1>0, <2>2
      <3>2. s \notin Written(Jobs(p)[n])
        BY <3>1
      <3>3. halo'[p][s][d] = halo[p][s][d]
        BY <1>2, <3>2, AppliedFacts
      <3>4. Done(p) = 1..job[p] /\ \A k \in Done(p) : k > j => s \notin Written(Jobs(p)[k])
        BY <1>0, <3>1 DEF Done
      <3>5. halo[p][s][d].nth = sent[p]
        BY <1>0, <3>1, <3>4 DEF ProcessOK, OpenSidesOK
      <3> QED  BY <3>3, <3>5
    <2> QED  BY <2>1, <2>2
  <1> QED  BY <1>4, <1>5, <1>6, <1>7 DEF ProcessOK
-----------------------------------------------------------------------------
LEMMA StepInv == IndInv /\ [Next]_vars => IndInv'
  <1> SUFFICES ASSUME IndInv, [Next]_vars PROVE IndInv'
    OBVIOUS
  <1>1. ASSUME NEW p \in Procs, Run(p) PROVE IndInv'
    <2>1. TypeOK' /\ ProcessOK(p)'
      BY <1>1, ExchangeInv, BeginInv, UnpackInv, ApplyInv, ReturnInv DEF Run
    <2>2. ASSUME NEW q \in Procs, q # p PROVE ProcessOK(q)'
      <3>1. TypeOK /\ ProcessOK(q)
        BY DEF IndInv
      <3>2. /\ pc'[q] = pc[q] /\ call'[q] = call[q] /\ job'[q] = job[q]
            /\ halo'[q] = halo[q] /\ sent'[q] = sent[q]
        BY <1>1, <2>2, <3>1, Others
      <3> QED  BY <3>1, <3>2, Frame
    <2> QED  BY <2>1, <2>2 DEF IndInv
  <1>2. CASE UNCHANGED vars
    <2>1. /\ pc' = pc /\ call' = call /\ job' = job /\ halo' = halo
          /\ sent' = sent /\ busy' = busy /\ seen' = seen
      BY <1>2 DEF vars
    <2>2. TypeOK'
      BY <2>1 DEF IndInv, TypeOK, Jobs
    <2>3. ASSUME NEW q \in Procs PROVE ProcessOK(q)'
      <3>1. ProcessOK(q)
        BY DEF IndInv
      <3> QED  BY <2>1, <3>1, Frame
    <2> QED  BY <2>2, <2>3 DEF IndInv
  <1> QED  BY <1>1, <1>2 DEF Next, Terminate

LEMMA Invariance == Spec => []IndInv
  BY InitInv, StepInv, PTL DEF Spec

\* Type correctness: in particular a process never applies more boundary
\* conditions than its call has jobs, and no halo region holds a border of an
\* exchange that has not taken place.
THEOREM TypeCorrect == Spec => []TypeOK
  <1>1. IndInv => TypeOK
    BY DEF IndInv
  <1> QED  BY <1>1, Invariance, PTL

\* An exchange of too many stores throws before it has sent anything, and no
\* other process waits for it: they all make the same calls, and whoever waits
\* in an exchange is in a call before the one that throws.
THEOREM NoneWaiting == Spec => []ThrowLeavesNoneWaiting
  <1>1. IndInv => ThrowLeavesNoneWaiting
    <2> SUFFICES ASSUME IndInv, NEW p \in Procs, NEW q \in Procs, pc[p] = "thrown", q \in busy
                 PROVE  sent[q] <= sent[p]
      BY DEF ThrowLeavesNoneWaiting
    <2>1. /\ TypeOK /\ ProcessOK(p) /\ ProcessOK(q) /\ pc[q] = "exchanging"
          /\ call[p] \in 0..Len(Calls) /\ call[q] \in 0..Len(Calls)
      BY DEF IndInv, TypeOK
    <2>2. call[p] > 0 /\ Calls[call[p]].what = "exchange" /\ TooMany(Calls[call[p]].jobs)
      BY <2>1 DEF ProcessOK, PhaseOK, InExchange, Jobs
    <2>3. call[p] \notin 1..call[q]
      BY <2>1, <2>2 DEF ProcessOK, FitOK
    <2>4. call[q] <= call[p] - 1 /\ call[p] - 1 \in 0..Len(Calls)
      BY <2>1, <2>2, <2>3, CountFacts
    <2>5. sent[q] = ExchangesTo(call[q]) /\ sent[p] = ExchangesTo(call[p] - 1)
      BY <2>1 DEF ProcessOK, SentOK
    <2> QED  BY <2>1, <2>4, <2>5, CountFacts
  <1> QED  BY <1>1, Invariance, PTL

\* What came from a neighbour is changed by the unpacking of an exchange only:
\* boundary conditions are applied where there is no neighbour.
THEOREM SidesKept == Spec => AlwaysSidesKept
  <1>1. IndInv /\ [Next]_vars => [OnlyUnpackTouchesSides]_vars
    <2> SUFFICES ASSUME IndInv, Next PROVE OnlyUnpackTouchesSides
      OBVIOUS
    <2> SUFFICES ASSUME NEW q \in Procs, pc[q] # "exchanging", NEW s \in AllStores, NEW d \in Sides(q)
                 PROVE  halo'[q][s][d] = halo[q][s][d]
      BY DEF OnlyUnpackTouchesSides
    <2>1. ASSUME NEW p \in Procs, Run(p), q # p PROVE halo'[q] = halo[q]
      BY <2>1, Others DEF IndInv
    <2>2. CASE ApplyBoundary(q)
      BY <2>2, AppliedFacts, SideFacts
    <2>3. CASE Exchange(q) \/ Throw(q) \/ BoundaryOnly(q) \/ Return(q)
      BY <2>3 DEF Exchange, Throw, BoundaryOnly, Return
    <2>4. ~ Unpack(q)
      BY DEF Unpack
    <2>5. CASE UNCHANGED vars
      BY <2>5 DEF vars
    <2> QED  BY <2>1, <2>2, <2>3, <2>4, <2>5 DEF Next, Run, Terminate
  <1> QED  BY <1>1, Invariance, PTL DEF Spec, AlwaysSidesKept

-----------------------------------------------------------------------------
(* What the stores handed over have to be like for the halos to be right.   *)
\* The calls of exchange() are handed one store per job: exchange() packs and
\* unpacks as many stores as there are jobs.
OneStorePerJob == \A n \in DOMAIN Calls :
    Calls[n].what = "exchange" => Len(CollectStores(Calls[n].jobs)) = Len(Calls[n].jobs)

\* A functor does not write the stores it is only associated with.
OwnStoresWritten == \A n \in DOMAIN Calls : \A j \in DOMAIN Calls[n].jobs :
    Written(Calls[n].jobs[j]) \subseteq NamedBy(Calls[n].jobs)

LEMMA InReturned ==
    ASSUME IndInv, NEW p \in Procs, Returned(p, "exchange")
    PROVE  /\ TypeOK /\ ProcessOK(p) /\ InExchange(p) /\ pc[p] = "idle" /\ Done(p) = DOMAIN Jobs(p)
           /\ call[p] \in DOMAIN Calls /\ Jobs(p) = Calls[call[p]].jobs
           /\ DOMAIN Jobs(p) = 1..Len(Jobs(p)) /\ Len(Jobs(p)) \in Nat
           /\ OneStorePerJob => ToSet(Transferred(Jobs(p))) = NamedBy(Jobs(p))
  <1>1. TypeOK /\ ProcessOK(p) /\ pc[p] = "idle" /\ call[p] > 0 /\ InExchange(p) /\ Done(p) = DOMAIN Jobs(p)
    BY DEF IndInv, Returned, InExchange, Done
  <1>2. /\ call[p] \in DOMAIN Calls /\ Jobs(p) = Calls[call[p]].jobs
        /\ DOMAIN Jobs(p) = 1..Len(Jobs(p)) /\ Len(Jobs(p)) \in Nat
    BY <1>1, InCall
  <1>3. OneStorePerJob => ToSet(Transferred(Jobs(p))) = NamedBy(Jobs(p))
    BY <1>1, <1>2, TransferredFacts DEF OneStorePerJob, InExchange
  <1> QED  BY <1>1, <1>2, <1>3

\* After exchange() every store it was handed has its neighbours' borders of
\* this exchange in all halo regions that face a neighbour.
THEOREM Complete ==
    ASSUME OneStorePerJob
    PROVE  Spec => []HalosComplete
  <1>1. IndInv => HalosComplete
    <2> SUFFICES ASSUME IndInv, NEW p \in Procs, Returned(p, "exchange"), NEW s \in Named(p), NEW d \in Sides(p)
                 PROVE  halo[p][s][d] = Border(NbrCoords(p, d), Neg(d), s, sent[p])
      BY DEF HalosComplete
    <2>1. s \in ToSet(Transferred(Jobs(p)))
      BY InReturned DEF Named, NamedBy
    <2> QED  BY <2>1, InReturned DEF ProcessOK, BordersOK
  <1> QED  BY <1>1, Invariance, PTL

\* A boundary condition that reads inside of an open boundary finds there what
\* the exchange before it brought, and nothing older.
THEOREM Current ==
    ASSUME OneStorePerJob, OwnStoresWritten
    PROVE  Spec => []ExtendsCurrent
  <1>1. IndInv => ExtendsCurrent
    <2> SUFFICES ASSUME IndInv, NEW p \in Procs, Returned(p, "exchange"),
                        NEW j \in DOMAIN Jobs(p), Jobs(p)[j].bc = "extend",
                        NEW s \in Written(Jobs(p)[j]), NEW d \in Regions \ Sides(p),
                        \A k \in (j + 1)..Len(Jobs(p)) : s \notin Written(Jobs(p)[k])
                 PROVE  halo[p][s][d].nth = sent[p]
      BY DEF ExtendsCurrent
    <2>1. s \in ToSet(Transferred(Jobs(p)))
      BY InReturned DEF OwnStoresWritten
    <2>2. j \in Done(p) /\ \A k \in Done(p) : k > j => s \notin Written(Jobs(p)[k])
      BY InReturned
    <2> QED  BY <2>1, <2>2, InReturned DEF ProcessOK, OpenSidesOK
  <1> QED  BY <1>1, Invariance, PTL

\* A store that is only associated with a placeholder is not written during
\* the call: it is not transferred, and the index sequence of bind_bc is the
\* one of the stores the job names itself.
THEOREM ReadOnlyStoresKept ==
    ASSUME OwnStoresWritten
    PROVE  Spec => AlwaysReadOnlyKept
  <1>1. IndInv /\ [Next]_vars => [ReadOnlyKept]_vars
    <2> SUFFICES ASSUME IndInv, Next PROVE ReadOnlyKept
      OBVIOUS
    <2> SUFFICES ASSUME NEW q \in Procs, call[q] > 0, call'[q] = call[q], NEW s \in AllStores \ Named(q)
                 PROVE  halo'[q][s] = halo[q][s]
      BY DEF ReadOnlyKept
    <2>0. /\ TypeOK /\ call[q] \in DOMAIN Calls /\ Jobs(q) = Calls[call[q]].jobs
          /\ s \notin NamedBy(Jobs(q))
      BY InCall DEF IndInv, Named, NamedBy
    <2>1. ASSUME NEW p \in Procs, Run(p), q # p PROVE halo'[q] = halo[q]
      BY <2>0, <2>1, Others
    <2>2. CASE ApplyBoundary(q)
      <3>1. \A d \in Regions : halo'[q][s][d] = halo[q][s][d]
        <4>1. s \notin Written(Jobs(q)[job[q] + 1])
          BY <2>0, <2>2, AppliedFacts DEF OwnStoresWritten
        <4> QED  BY <2>2, <4>1, AppliedFacts
      <3>2. halo'[q] \in HaloTypes
        BY <2>0, <2>2, AppliedFacts, AppliedType
      <3> QED  BY <2>0, <3>1, <3>2 DEF TypeOK, HaloTypes
    <2>3. CASE Unpack(q)
      <3>0. Sync!Finish(q) /\ halo'[q] = Unpacked(q, halo[q])
        BY <2>0, <2>3 DEF Unpack, TypeOK
      <3>1. s \notin ToSet(Transferred(Jobs(q)))
        BY <2>0, TransferredFacts
      <3>2. \A d \in Regions : halo'[q][s][d] = halo[q][s][d]
        BY <2>0, <3>0, <3>1, UnpackedType
      <3>3. halo'[q] \in HaloTypes
        BY <2>0, <3>0, UnpackedType
      <3> QED  BY <2>0, <3>2, <3>3 DEF TypeOK, HaloTypes
    <2>4. CASE Exchange(q) \/ Throw(q) \/ BoundaryOnly(q) \/ Return(q)
      BY <2>4 DEF Exchange, Throw, BoundaryOnly, Return
    <2>5. CASE UNCHANGED vars
      BY <2>5 DEF vars
    <2> QED  BY <2>1, <2>2, <2>3, <2>4, <2>5 DEF Next, Run, Terminate
  <1> QED  BY <1>1, Invariance, PTL DEF Spec, AlwaysReadOnlyKept
=============================================================================
