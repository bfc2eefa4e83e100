-------------------------- MODULE StencilExecution --------------------------
(***************************************************************************)
(* A stencil computation running on a backend.  Every worker goes through  *)
(* its items; an item reads and writes the memory, which holds for every   *)
(* location the stamp of the stage that wrote it last.  The workers of one *)
(* launch interleave freely, except for the barriers of a GPU block; a     *)
(* launch starts when all workers of the one before have ended.            *)
(***************************************************************************)
EXTENDS StencilBackends

CONSTANT Instances      \* the computations, each with a backend and sizes

ASSUME InstancesAssumption == \A x \in Instances : IsInstance(x)

VARIABLES exe,      \* the instance that runs, with what is known before it runs
          launch,   \* the launch that runs
          work,     \* for every worker of the launch the items it has not run yet
          mem       \* the stamps in memory, of the locations written so far

vars == <<exe, launch, work, mem>>

Init ==
    /\ exe \in {Program(x) : x \in Instances}
    /\ launch = 0
    /\ work = <<>>
    /\ mem = <<>>

Workers == DOMAIN work

Idle == \A w \in Workers : work[w] = <<>>

\* Shared memory and registers do not survive a kernel.
Survives(loc) == loc[1] \notin {"shared", "register"}

\* Mutant: the first kernel is launched again and again.
StartLaunchAgain ==
    /\ Idle
    /\ launch < Len(exe.launches)
    /\ launch' = launch + 1
    /\ work' = exe.work[1]
    /\ mem' = [loc \in {q \in DOMAIN mem : Survives(q)} |-> mem[loc]]
    /\ UNCHANGED exe

\* The next kernel starts.
StartLaunch ==
    /\ Idle
    /\ launch < Len(exe.launches)
    /\ launch' = launch + 1
    /\ work' = exe.work[launch + 1]
    /\ mem' = [loc \in {q \in DOMAIN mem : Survives(q)} |-> mem[loc]]
    /\ UNCHANGED exe

\* Mutant: a barrier inside of the condition on the extent, where threads without work
\* do not arrive.
BarrierOpenForAll(w) ==
    \A v \in Workers :
        SameTeam(exe, v, w) => work[v] # <<>> /\ Head(work[v]).phase >= Head(work[w]).phase

(***************************************************************************)
(* __syncthreads: an item may run when no thread of the block has an item  *)
(* left that comes before the barriers this thread has to pass.            *)
(***************************************************************************)
BarrierOpen(w) ==
    \A v \in Workers :
        SameTeam(exe, v, w) /\ work[v] # <<>> => Head(work[v]).phase >= Head(work[w]).phase

CanRun(w) == work[w] # <<>> /\ BarrierOpen(w)

Read(loc) == IF loc \in DOMAIN mem THEN mem[loc] ELSE Untouched(loc)

\* What an item changes, and what it leaves at loc.
Targets(item) == item.writes \cup {c.to : c \in item.copies}

CopiedFrom(item, loc) == (CHOOSE c \in item.copies : c.to = loc).from

ValueAfter(item, loc) ==
    IF loc \in item.writes THEN item.stamp
    ELSE IF loc \in Targets(item) THEN Read(CopiedFrom(item, loc))
    ELSE mem[loc]

\* Worker w applies a stage to one point, or copies between a field and its cache.
RunItem(w) ==
    /\ CanRun(w)
    /\ LET item == Head(work[w]) IN
          mem' = [loc \in DOMAIN mem \cup Targets(item) |-> ValueAfter(item, loc)]
    /\ work' = [work EXCEPT ![w] = Tail(@)]
    /\ UNCHANGED <<exe, launch>>

Finished == launch = Len(exe.launches) /\ Idle

\* When the computation has returned, nothing is left to do.
Next == StartLaunch \/ \E w \in Workers : RunItem(w)

Spec == Init /\ [][Next]_vars

(***************************************************************************)
(* The driver runs the kernels in order, and the threads of a kernel or of *)
(* the pool are not starved.                                               *)
(***************************************************************************)
FairSpec == Spec /\ WF_vars(Next)

-----------------------------------------------------------------------------
\* Work is left of the running launch only; memory holds what stages have written, or
\* what K caches have copied of memory no stage has written.
TypeOK ==
    /\ launch \in 0 .. Len(exe.launches)
    /\ \A w \in Workers : \A n \in DOMAIN work[w] :
          Head(work[w][n].stamp) \in ToSet(exe.launches[launch])
    /\ \A loc \in DOMAIN mem : <<mem[loc][1], mem[loc][2]>> \in StageIds(exe.p) \cup {Caller}

(***************************************************************************)
(* Whenever a thread is about to apply a stage, every value the stage      *)
(* reads is the one the manual promises: written by the promised stage,    *)
(* for that very point, and not yet overwritten.  Whatever the other       *)
(* threads of the block, of other blocks and of other levels have done.    *)
(***************************************************************************)
ReadsAsPromised ==
    \A w \in Workers : CanRun(w) => \A r \in Head(work[w]).reads : Read(r.from) = r.want

(***************************************************************************)
(* When the computation returns, every field of the caller holds, at every *)
(* point of the compute domain, what its final writer has computed there.  *)
(***************************************************************************)
ResultsComplete ==
    Finished =>
        \A f \in Fields(exe.p) \ exe.p.temps : \A i \in 0 .. exe.isize - 1 : \A k \in Levels(exe) :
            Read(<<"field", f, i, k>>) = Stamp(FinalWriter(exe.p, f, k), f, i, k)

(***************************************************************************)
(* A K cache never touches the caller's memory outside of the levels of    *)
(* the data, however far its window reaches over the first or last level.  *)
(***************************************************************************)
CopiesStayInBounds ==
    \A w \in Workers : CanRun(w) =>
        \A c \in Head(work[w]).copies : \A loc \in {c.from, c.to} :
            loc[1] = "field" => loc[4] \in Levels(exe)

(***************************************************************************)
(* What is ordered before the program runs.  An item <<l, w, n>> is the    *)
(* n-th of worker w in launch l.  Launches are ordered, and in a launch    *)
(* the items of a worker and those of a team with barriers between them.   *)
(***************************************************************************)
ItemIds(x) ==
    UNION {UNION {{<<l, w, n>> : n \in DOMAIN x.work[l][w]} : w \in DOMAIN x.work[l]} : l \in DOMAIN x.work}

ItemOf(x, a) == x.work[a[1]][a[2]][a[3]]

OrderedBefore(x, a, b) ==
    \/ a[1] < b[1]
    \/ a[1] = b[1] /\ a[2] = b[2] /\ a[3] < b[3]
    \/ a[1] = b[1] /\ SameTeam(x, a[2], b[2]) /\ ItemOf(x, a).phase < ItemOf(x, b).phase

Writers(x, loc) == {a \in ItemIds(x) : loc \in Targets(ItemOf(x, a))}

\* Whether what a leaves at loc may still be there when b runs.
Reaches(a, b, loc) == a[1] = b[1] \/ Survives(loc)

(***************************************************************************)
(* Item b finds v at loc: a writer before b leaves v there, or nobody has  *)
(* written, and every other writer leaves the same or is ordered before    *)
(* that writer or after b.  left[a][loc] is what item a leaves at loc.     *)
(***************************************************************************)
Supplied(x, left, b, loc, v) ==
    \E a \in Writers(x, loc) :
        /\ OrderedBefore(x, a, b) /\ Reaches(a, b, loc) /\ left[a][loc] = v
        /\ \A c \in Writers(x, loc) \ {b} :
              left[c][loc] = v \/ OrderedBefore(x, c, a) \/ OrderedBefore(x, b, c)

NotSupplied(x, left, b, loc, v) ==
    /\ v = Untouched(loc)
    /\ \A c \in Writers(x, loc) \ {b} :
          left[c][loc] = v \/ OrderedBefore(x, b, c) \/ ~ Reaches(c, b, loc)

Finds(x, left, b, loc, v) == Supplied(x, left, b, loc, v) \/ NotSupplied(x, left, b, loc, v)

\* The same when the computation has returned.
Keeps(x, left, loc, v) ==
    \/ \E a \in Writers(x, loc) :
          /\ left[a][loc] = v
          /\ \A c \in Writers(x, loc) : left[c][loc] = v \/ OrderedBefore(x, c, a)
    \/ v = Untouched(loc) /\ \A c \in Writers(x, loc) : left[c][loc] = v

\* What every item leaves: its stamp, or what the last writer before it has left at the source.
Left(x) ==
    LET left[a \in ItemIds(x)] ==
            [loc \in Targets(ItemOf(x, a)) |->
                IF loc \in ItemOf(x, a).writes THEN ItemOf(x, a).stamp
                ELSE LET from   == CopiedFrom(ItemOf(x, a), loc)
                         before == {c \in Writers(x, from) : OrderedBefore(x, c, a) /\ Reaches(c, a, from)}
                         last   == CHOOSE c \in before : \A d \in before : d = c \/ OrderedBefore(x, d, c)
                     IN IF before = {} THEN Untouched(from) ELSE left[last][from]]
    IN left

(***************************************************************************)
(* A program without races: the order decides what every item reads and    *)
(* copies, and what is left in the end, and it is what is promised.        *)
(***************************************************************************)
PhasesAscend(x) ==
    \A l \in DOMAIN x.work : \A w \in DOMAIN x.work[l] : \A n \in DOMAIN x.work[l][w] :
        \A o \in 1 .. n : x.work[l][w][o].phase <= x.work[l][w][n].phase

ReadsOrdered(x, left) ==
    \A b \in ItemIds(x) : \A r \in ItemOf(x, b).reads : Finds(x, left, b, r.from, r.want)

CopiesOrdered(x, left) ==
    \A b \in ItemIds(x) : \A loc \in Targets(ItemOf(x, b)) :
        IF loc \in ItemOf(x, b).writes THEN left[b][loc] = ItemOf(x, b).stamp
        ELSE Finds(x, left, b, CopiedFrom(ItemOf(x, b), loc), left[b][loc])

ResultsOrdered(x, left) ==
    \A f \in Fields(x.p) \ x.p.temps : \A i \in 0 .. x.isize - 1 : \A k \in Levels(x) :
        Keeps(x, left, <<"field", f, i, k>>, Stamp(FinalWriter(x.p, f, k), f, i, k))

RaceFree(x) ==
    PhasesAscend(x) /\ CopiesOrdered(x, Left(x)) /\ ReadsOrdered(x, Left(x)) /\ ResultsOrdered(x, Left(x))

(***************************************************************************)
(* Before a program runs, the order of its items alone settles what each   *)
(* of them will read and copy, and what will be left in the caller's       *)
(* fields: all of it what is promised, whoever is faster.                  *)
(***************************************************************************)
OrderSettles == launch = 0 => RaceFree(exe)

\* The computation returns: no barrier is waited for in vain.
ComputationReturns == <>Finished
=============================================================================
