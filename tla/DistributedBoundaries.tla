------------------------ MODULE DistributedBoundaries ------------------------
(* boundaries/distributed_boundaries.hpp: a call of exchange() updates the   *)
(* halos of the stores its jobs name from the neighbours, then applies the   *)
(* boundary conditions of its jobs where there is no neighbour, in the order *)
(* of the jobs; boundary_only() does the latter alone.  All processes make   *)
(* the same calls.                                                           *)
(*                                                                           *)
(* The halo exchange is taken as NeighbourSync, which HaloExchange implements.*)
(* The interior of a store changes before each exchange; the contents of a   *)
(* halo region are abstracted to where they come from.                       *)
EXTENDS ProcGrid, HaloDescriptor, Sequences, SequencesExt

-----------------------------------------------------------------------------
(* boundaries/bound_bc.hpp: the jobs given to distributed_boundaries.  A job *)
(* is a data store, or a boundary condition bound to data stores; some of    *)
(* these take the place of a placeholder and are only read.                  *)

\* std::placeholders, by position among the stores that replace them.
Place(i)   == [place |-> i]
Store(s)   == [store |-> s]
IsPlace(x) == "place" \in DOMAIN x

Plain(s) == [bc |-> "none", args |-> <<Store(s)>>, readOnly |-> <<>>]

\* bind_bc(f, stores...), and bind_bc(f, stores...).associate(ro...).
BindBc(f, stores)        == [bc |-> f, args |-> stores, readOnly |-> <<>>]
Associate(job, readOnly) == [job EXCEPT !.readOnly = readOnly]

IsBoundBc(job) == job.bc # "none"

\* substitute_placeholders: the stores the boundary condition is applied to.
Stores(job) == [ i \in DOMAIN job.args |->
                   IF IsPlace(job.args[i]) THEN job.readOnly[job.args[i].place]
                                           ELSE job.args[i].store ]

\* Mutant: the index sequence of bind_bc is kept by associate.
ExcStoresAll(job) == Stores(job)

\* comm_indices and exc_stores: those that are not placeholders.
ExcStores(job) == FlattenSeq([ i \in DOMAIN job.args |->
                      IF IsPlace(job.args[i]) THEN <<>> ELSE <<job.args[i].store>> ])

\* The stores the functor writes: copy_boundary reads the last.
Written(job) == LET s == Stores(job)
                IN  ToSet(IF job.bc = "copy" THEN Front(s) ELSE IF job.bc = "none" THEN <<>> ELSE s)

CollectStores(jobs) == FlattenSeq([ i \in DOMAIN jobs |-> ExcStores(jobs[i]) ])

-----------------------------------------------------------------------------
CONSTANTS Halos,     \* m_halos
          MaxStores, \* m_max_stores
          AllStores, \* the data stores of each process
          Calls      \* the calls each process makes: [what, jobs]

\* What a job can be, and a call.
JobTypes  == [bc : {"none", "copy", "value", "extend"}, readOnly : Seq(AllStores),
              args : Seq([place : Nat] \cup [store : AllStores])]
CallTypes == [what : {"exchange", "boundary_only"}, jobs : Seq(JobTypes)]

ASSUME BoundariesAssumption ==
    /\ \A a \in Axes : IsHalo(Halos[a])
    /\ MaxStores \in Nat
    /\ Calls \in Seq(CallTypes)
    /\ \A n \in DOMAIN Calls : Len(CollectStores(Calls[n].jobs)) >= Len(Calls[n].jobs)
    /\ \A n \in DOMAIN Calls : \A j \in DOMAIN Calls[n].jobs :
          LET jb == Calls[n].jobs[j]
          IN  /\ jb.args # <<>>
              /\ \A i \in DOMAIN jb.args : IsPlace(jb.args[i]) => jb.args[i].place \in DOMAIN jb.readOnly

VARIABLES pc,      \* what each process does next
          call,    \* the number of calls it has begun
          job,     \* the jobs whose boundary conditions it has applied
          halo,    \* the halo regions of its stores, by direction
          sent,    \* the exchanges it has started  (see NeighbourSync)
          busy,    \* the processes waiting in one
          seen     \* the exchange the neighbours' borders were last taken from

vars == <<pc, call, job, halo, sent, busy, seen>>

\* The halo regions that are not empty, and those across which p has a neighbour.
Regions  == { d \in Dirs : \A a \in Axes : RLength(Halos[a], d[a]) # 0 }
Sides(p) == { d \in Regions : HasNbr(p, d) }

Exchanges == Cardinality({ n \in DOMAIN Calls : Calls[n].what = "exchange" })

Sync == INSTANCE NeighbourSync WITH
    Receives <- [p \in Procs |-> Sides(p)],
    Source   <- [p \in Procs |-> [d \in Regions |-> NbrCoords(p, d)]],
    MaxStep  <- Exchanges

\* What a region can hold: a neighbour's border as of its nth exchange, the
\* process's own interior, the value of a boundary condition, or what it held first.
Border(p, d, s, n) == [kind |-> "border", from |-> p, dir |-> d, store |-> s, nth |-> n]
Interior(p, s, n)  == [kind |-> "interior", from |-> p, dir |-> Here, store |-> s, nth |-> n]
Value              == [kind |-> "value", from |-> Here, dir |-> Here, store |-> "none", nth |-> 0]
Initial            == [kind |-> "initial", from |-> Here, dir |-> Here, store |-> "none", nth |-> 0]

-----------------------------------------------------------------------------
Init == /\ pc = [p \in Procs |-> "idle"]
        /\ call = [p \in Procs |-> 0]
        /\ job = [p \in Procs |-> 0]
        /\ halo = [p \in Procs |-> [s \in AllStores |-> [d \in Regions |-> Initial]]]
        /\ Sync!Init

Jobs(p) == Calls[call[p]].jobs

TooMany(jobs) == MaxStores < Len(jobs)

\* Mutant: the last store is left out.
TransferredShort(jobs) == SubSeq(CollectStores(jobs), 1, Len(jobs) - 1)

\* The stores packed and unpacked: as many as there are jobs.
Transferred(jobs) == SubSeq(CollectStores(jobs), 1, Len(jobs))

Begin(p, what) == /\ pc[p] = "idle"
                  /\ call[p] < Len(Calls)
                  /\ Calls[call[p] + 1].what = what
                  /\ call' = [call EXCEPT ![p] = @ + 1]

\* Mutant: an exchange of too many stores goes on.
ExchangeUnchecked(p) == /\ Begin(p, "exchange")
                        /\ Sync!Publish(p)
                        /\ pc' = [pc EXCEPT ![p] = "exchanging"]
                        /\ UNCHANGED <<job, halo>>

\* exchange() up to the wait for the neighbours: check, pack, post and send.
Exchange(p) == /\ Begin(p, "exchange")
               /\ ~ TooMany(Calls[call[p] + 1].jobs)
               /\ Sync!Publish(p)
               /\ pc' = [pc EXCEPT ![p] = "exchanging"]
               /\ UNCHANGED <<job, halo>>

Throw(p) == /\ Begin(p, "exchange")
            /\ TooMany(Calls[call[p] + 1].jobs)
            /\ pc' = [pc EXCEPT ![p] = "thrown"]
            /\ UNCHANGED <<job, halo, sent, busy, seen>>

BoundaryOnly(p) == /\ Begin(p, "boundary_only")
                   /\ pc' = [pc EXCEPT ![p] = "applying"]
                   /\ UNCHANGED <<job, halo, sent, busy, seen>>

\* The halos h of p with what its neighbours sent in its current exchange.
Unpacked(p, h) ==
    [s \in AllStores |-> [d \in Regions |->
        IF d \in Sides(p) /\ s \in ToSet(Transferred(Jobs(p)))
          THEN Border(NbrCoords(p, d), Neg(d), s, seen'[p][d])
          ELSE h[s][d]]]

-----------------------------------------------------------------------------
\* Mutant: the boundary condition is applied all around.
IsOpenAlways(p, d) == TRUE

\* proc_grid_predicate.
IsOpen(p, d) == ~ HasNbr(p, d)

\* Where a functor looks that extends the store outwards: the nearest region
\* that is not open, or the interior.
Inwards(p, d) == [a \in Axes |-> IF Cyclic[a] \/ p[a] + d[a] \in 0..(Dims[a] - 1) THEN d[a] ELSE 0]

\* The boundary functors: copy_boundary, value_boundary, zero_boundary, and a
\* user's own that reads the store it writes.
BoundaryValue(p, jb, h, s, d) ==
    IF jb.bc = "copy" THEN h[Last(Stores(jb))][d]
    ELSE IF jb.bc = "value" THEN Value
    ELSE IF Inwards(p, d) \in Regions THEN h[s][Inwards(p, d)] ELSE Interior(p, s, sent[p])

\* boundary_apply::apply for one job.
Applied(p, jb, h) ==
    [s \in AllStores |-> [d \in Regions |->
        IF IsOpen(p, d) /\ s \in Written(jb) THEN BoundaryValue(p, jb, h, s, d) ELSE h[s][d]]]

\* Mutant: boundary conditions before communication.
UnpackLast(p) == /\ pc[p] = "exchanging"
                 /\ Sync!Finish(p)
                 /\ halo' = [halo EXCEPT ![p] =
                        Unpacked(p, FoldLeft(LAMBDA h, jb : Applied(p, jb, h), @, Jobs(p)))]
                 /\ pc' = [pc EXCEPT ![p] = "idle"]
                 /\ UNCHANGED <<call, job>>

\* The rest of the exchange, and unpack.
Unpack(p) == /\ pc[p] = "exchanging"
             /\ Sync!Finish(p)
             /\ halo' = [halo EXCEPT ![p] = Unpacked(p, @)]
             /\ pc' = [pc EXCEPT ![p] = "applying"]
             /\ UNCHANGED <<call, job>>

\* apply_boundary, job by job.
ApplyBoundary(p) == /\ pc[p] = "applying"
                    /\ job[p] < Len(Jobs(p))
                    /\ job' = [job EXCEPT ![p] = @ + 1]
                    /\ halo' = [halo EXCEPT ![p] = Applied(p, Jobs(p)[job[p] + 1], @)]
                    /\ UNCHANGED <<pc, call, sent, busy, seen>>

\* Mutant: the next call goes on where this one has ended.
ReturnKeepingJob(p) == /\ pc[p] = "applying"
                       /\ job[p] = Len(Jobs(p))
                       /\ pc' = [pc EXCEPT ![p] = "idle"]
                       /\ UNCHANGED <<call, job, halo, sent, busy, seen>>

Return(p) == /\ pc[p] = "applying"
             /\ job[p] = Len(Jobs(p))
             /\ job' = [job EXCEPT ![p] = 0]
             /\ pc' = [pc EXCEPT ![p] = "idle"]
             /\ UNCHANGED <<call, halo, sent, busy, seen>>

Run(p) == Exchange(p) \/ Throw(p) \/ BoundaryOnly(p) \/ Unpack(p) \/ ApplyBoundary(p) \/ Return(p)

Over(p) == pc[p] = "thrown" \/ (pc[p] = "idle" /\ call[p] = Len(Calls))
Terminate == (\A p \in Procs : Over(p)) /\ UNCHANGED vars

Next == (\E p \in Procs : Run(p)) \/ Terminate

Spec == Init /\ [][Next]_vars

-----------------------------------------------------------------------------
Contents == [kind : {"border", "interior", "value", "initial"}, from : Procs \cup {Here},
             dir : Dirs \cup {Here}, store : AllStores \cup {"none"}, nth : 0..Exchanges]

TypeOK == /\ pc \in [Procs -> {"idle", "exchanging", "applying", "thrown"}]
          /\ call \in [Procs -> 0..Len(Calls)]
          /\ job \in [Procs -> Nat]
          /\ \A p \in Procs : job[p] <= IF call[p] = 0 THEN 0 ELSE Len(Jobs(p))
          /\ halo \in [Procs -> [AllStores -> [Regions -> Contents]]]
          /\ sent \in [Procs -> 0..Exchanges]
          /\ busy = { p \in Procs : pc[p] = "exchanging" }
          /\ DOMAIN seen = Procs
          /\ \A p \in Procs : seen[p] \in [Sides(p) -> 0..Exchanges]

\* The stores p has named in its current call, other than to be read only.
Named(p) == { s \in AllStores : \E j \in DOMAIN Jobs(p) : Store(s) \in ToSet(Jobs(p)[j].args) }
Returned(p, what) == pc[p] = "idle" /\ call[p] > 0 /\ Calls[call[p]].what = what

(* After exchange() every store handed to it, as a data store of its own or  *)
(* bound to a boundary condition and not read-only, has its neighbours'      *)
(* borders of that exchange in all halo regions that face a neighbour.       *)
HalosComplete ==
    \A p \in Procs : Returned(p, "exchange") =>
        \A s \in Named(p), d \in Sides(p) :
            halo[p][s][d] = Border(NbrCoords(p, d), Neg(d), s, sent[p])

(* A boundary condition that reads what is inside of an open boundary finds  *)
(* it as of the exchange before it: communication comes first.               *)
ExtendsCurrent ==
    \A p \in Procs : Returned(p, "exchange") =>
        \A j \in DOMAIN Jobs(p) : Jobs(p)[j].bc = "extend" =>
            \A s \in Written(Jobs(p)[j]), d \in Regions \ Sides(p) :
                (\A k \in (j + 1)..Len(Jobs(p)) : s \notin Written(Jobs(p)[k])) =>
                    halo[p][s][d].nth = sent[p]

(* A store that is only associated with a placeholder is never written, by   *)
(* neighbours or by boundary conditions, in a call in which it is only that. *)
ReadOnlyKept ==
    \A p \in Procs : call[p] > 0 /\ call'[p] = call[p] =>
        \A s \in AllStores \ Named(p) : halo'[p][s] = halo[p][s]
AlwaysReadOnlyKept == [][ReadOnlyKept]_vars

(* boundary_only() leaves alone what came from neighbours, and exchange()    *)
(* changes it only while it unpacks.                                         *)
OnlyUnpackTouchesSides ==
    \A p \in Procs : pc[p] # "exchanging" =>
        \A s \in AllStores, d \in Sides(p) : halo'[p][s][d] = halo[p][s][d]
AlwaysSidesKept == [][OnlyUnpackTouchesSides]_vars

(* A process that throws leaves no one waiting for it: an exchange that      *)
(* another process waits in, it has taken part in before.                    *)
ThrowLeavesNoneWaiting ==
    \A p, q \in Procs : pc[p] = "thrown" /\ q \in busy => sent[q] <= sent[p]

-----------------------------------------------------------------------------
(* The inductive invariant behind these properties.                          *)
InExchange(p) == call[p] > 0 /\ Calls[call[p]].what = "exchange"

PhaseOK(p) == /\ pc[p] # "idle" => call[p] > 0
              /\ pc[p] # "applying" => job[p] = 0
              /\ pc[p] = "exchanging" => InExchange(p)
              /\ pc[p] = "thrown" => InExchange(p) /\ TooMany(Jobs(p))

\* No call so far had too many jobs, but the one a process has thrown in.
FitOK(p) == \A n \in 1..call[p] :
    Calls[n].what = "exchange" /\ TooMany(Calls[n].jobs) => n = call[p] /\ pc[p] = "thrown"

\* The exchanges among the first n calls, and those a process has taken part in.
ExchangesTo(n) == Cardinality({ k \in 1..n : Calls[k].what = "exchange" })
SentOK(p)      == sent[p] = IF pc[p] = "thrown" THEN ExchangesTo(call[p] - 1) ELSE ExchangesTo(call[p])

\* Once unpacked, the borders stay: all boundary conditions are applied beside them.
BordersOK(p) == InExchange(p) /\ pc[p] \in {"applying", "idle"} =>
    \A s \in ToSet(Transferred(Jobs(p))), d \in Sides(p) :
        halo[p][s][d] = Border(NbrCoords(p, d), Neg(d), s, sent[p])

\* The boundary conditions applied in the current call, and what they have left.
Done(p) == IF pc[p] = "applying" THEN 1..job[p] ELSE DOMAIN Jobs(p)
OpenSidesOK(p) == InExchange(p) /\ pc[p] \in {"applying", "idle"} =>
    \A j \in Done(p) : Jobs(p)[j].bc = "extend" =>
        \A s \in Written(Jobs(p)[j]) \cap ToSet(Transferred(Jobs(p))), d \in Regions \ Sides(p) :
            (\A k \in Done(p) : k > j => s \notin Written(Jobs(p)[k])) => halo[p][s][d].nth = sent[p]

ProcessOK(p) == PhaseOK(p) /\ FitOK(p) /\ SentOK(p) /\ BordersOK(p) /\ OpenSidesOK(p)

IndInv == TypeOK /\ \A p \in Procs : ProcessOK(p)
=============================================================================
