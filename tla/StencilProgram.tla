--------------------------- MODULE StencilProgram ---------------------------
(***************************************************************************)
(* What the stencil library computes from a computation before it runs:    *)
(* the extended compute domain of every stage, the stages that need a      *)
(* barrier in front of them, the stages that are fused into one loop body  *)
(* and the multistages that share one kernel launch.                       *)
(*                                                                         *)
(* A computation is a record                                               *)
(*   temps  the temporaries; all other fields are supplied by the caller   *)
(*   mss    a sequence of multistages [exec, ij, kc, stages]: the          *)
(*          execution policy, the IJ-cached temporaries, the K-cached      *)
(*          fields with their policies and a sequence of stages            *)
(* A stage is a record                                                     *)
(*   out  the fields it writes                                             *)
(*   in   for every level on which its operator has an apply overload, the *)
(*        reads <<field, i offset, k offset>> of that overload             *)
(* The horizontal dimensions i and j are treated alike by the code; one of *)
(* them is kept.  The extent declared by an accessor is the smallest one   *)
(* that holds the point itself and the offsets it is read with.            *)
(***************************************************************************)
EXTENDS Integers, Sequences, SequencesExt

\* A loop: what Op does for every element of s, one after the other.
ForEach(s, Op(_)) == FlattenSeq([n \in DOMAIN s |-> Op(s[n])])

(* Extents: stencil/common/extent.hpp. *)

Extent(lo, hi, klo, khi) == [lo |-> lo, hi |-> hi, klo |-> klo, khi |-> khi]
ZeroExtent == Extent(0, 0, 0, 0)

EnclosingExtent(E) ==
    IF E = {} THEN ZeroExtent
    ELSE Extent(Min({e.lo : e \in E}), Max({e.hi : e \in E}),
                Min({e.klo : e \in E}), Max({e.khi : e \in E}))

SumExtent(d, e) == Extent(d.lo + e.lo, d.hi + e.hi, d.klo + e.klo, d.khi + e.khi)

Horizontal(e) == [e EXCEPT !.klo = 0, !.khi = 0]

(* Stages and their accessors. *)

StageIds(p) == UNION {{m} \X DOMAIN p.mss[m].stages : m \in DOMAIN p.mss}
StageOf(p, x) == p.mss[x[1]].stages[x[2]]
AppliesAt(st) == DOMAIN st.in
Reads(st) == UNION {st.in[k] : k \in AppliesAt(st)}
Args(st) == st.out \cup {r[1] : r \in Reads(st)}
Fields(p) == UNION {Args(StageOf(p, x)) : x \in StageIds(p)}

\* What a program can make a computation of: finitely many stages, fields and reads.
IsStage(st) ==
    /\ IsFiniteSet(st.out) /\ IsFiniteSet(AppliesAt(st)) /\ AppliesAt(st) \subseteq Int
    /\ \A k \in AppliesAt(st) : IsFiniteSet(st.in[k]) /\ \A r \in st.in[k] : r[2] \in Int /\ r[3] \in Int

IsComputation(p) ==
    /\ p.mss # <<>> /\ p.mss \in Seq(ToSet(p.mss))
    /\ \A m \in DOMAIN p.mss :
          /\ p.mss[m].stages # <<>> /\ p.mss[m].stages \in Seq(ToSet(p.mss[m].stages))
          /\ \A s \in DOMAIN p.mss[m].stages : IsStage(StageOf(p, <<m, s>>))
          /\ IsFiniteSet(DOMAIN p.mss[m].kc)

ParamExtent(st, f) ==
    EnclosingExtent({ZeroExtent} \cup
        {Extent(r[2], r[2], r[3], r[3]) : r \in {q \in Reads(st) : q[1] = f}})

(***************************************************************************)
(* The extent map: the stages of all multistages from the last to the      *)
(* first; each adds, for every field it accesses, its own extent plus that *)
(* of the accessor.  Its own extent encloses those its outputs have in the *)
(* map so far.                                                             *)
(***************************************************************************)
FlatStages(p) ==
    FlattenSeq([m \in DOMAIN p.mss |-> [s \in DOMAIN p.mss[m].stages |-> <<m, s>>]])

EsfExtent(st, map) == EnclosingExtent({EnclosingExtent(map[f]) : f \in st.out})

ProcessEsf(st, map) ==
    [f \in DOMAIN map |->
        IF f \in Args(st) THEN map[f] \cup {SumExtent(EsfExtent(st, map), ParamExtent(st, f))}
        ELSE map[f]]

ExtentMap(p) ==
    LET L == Len(FlatStages(p))
        map[n \in 0 .. L] ==
            IF n = 0 THEN [f \in Fields(p) |-> {}]
            ELSE ProcessEsf(StageOf(p, FlatStages(p)[L + 1 - n]), map[n - 1])
    IN map[L]

\* The extended compute domain of stage x, from the finished map.
StageExtent(p, x) == Horizontal(EsfExtent(StageOf(p, x), ExtentMap(p)))

(***************************************************************************)
(* need_sync: a stage needs a barrier if it accesses, with a horizontal    *)
(* extent, a field written since the last barrier.  The first stage needs  *)
(* one exactly if the multistage has an IJ cache.                          *)
(***************************************************************************)
HasDirtyArgs(st, dirty) ==
    \E f \in Args(st) \cap dirty : Horizontal(ParamExtent(st, f)) # ZeroExtent

\* Mutant: forgets what was written before the last stage.
NeedSyncStepForgetful(state, st) ==
    [sync |-> Append(state.sync, HasDirtyArgs(st, state.dirty)), dirty |-> st.out]

NeedSyncStep(state, st) ==
    LET need == HasDirtyArgs(st, state.dirty) IN
    [sync  |-> Append(state.sync, need),
     dirty |-> IF need THEN st.out ELSE state.dirty \cup st.out]

HasIjCache(ms) == ms.ij # {}

NeedSync(ms) ==
    LET after[n \in 0 .. Len(ms.stages)] ==
            IF n = 0 THEN [sync |-> <<>>, dirty |-> {}] ELSE NeedSyncStep(after[n - 1], ms.stages[n])
    IN [after[Len(ms.stages)].sync EXCEPT ![1] = HasIjCache(ms)]

(***************************************************************************)
(* Everything below is about an annotated computation: one that carries    *)
(* the extents ext of its stages and the need_sync flags of its            *)
(* multistages, as the cells of the backend specification do.              *)
(***************************************************************************)
Annotated(p) ==
    [temps |-> p.temps, mss |-> p.mss,
     ext   |-> [x \in StageIds(p) |-> StageExtent(p, x)],
     sync  |-> [m \in DOMAIN p.mss |-> NeedSync(p.mss[m])]]

\* The extent of a placeholder: over the stages X that access it.
PlhExtent(p, X, f) ==
    EnclosingExtent({SumExtent(p.ext[x], ParamExtent(StageOf(p, x), f)) :
                        x \in {y \in X : f \in Args(StageOf(p, y))}})

MssStages(p, m) == {x \in StageIds(p) : x[1] = m}

MssExtent(p, m) == EnclosingExtent({p.ext[x] : x \in MssStages(p, m)})

(***************************************************************************)
(* The rows of a multistage's matrix: its stages, and on the GPU the fills *)
(* and the flushes of its K caches, <<"fill", f>> and <<"flush", f>>, for  *)
(* the threads of all the stages that access f.                            *)
(***************************************************************************)
StageRows(p, m) == [s \in DOMAIN p.mss[m].stages |-> <<"stage", s>>]

RowExtent(p, m, row) ==
    IF row[1] = "stage" THEN p.ext[<<m, row[2]>>]
    ELSE Horizontal(PlhExtent(p, MssStages(p, m), row[2]))

RowNeedsSync(p, m, row) == row[1] = "stage" /\ p.sync[m][row[2]]

(***************************************************************************)
(* Rows with equal extents are fused into one cell.  meta::group hands the *)
(* candidate to the predicate before the members of the group, and the     *)
(* predicate ignores the need_sync of its first argument: it is the        *)
(* members that must not need a barrier, and the barrier of the candidate  *)
(* moves in front of the fused cell.                                       *)
(***************************************************************************)
CanFuseStages(p, m, group, row) ==
    \A t \in ToSet(group) :
        RowExtent(p, m, t) = RowExtent(p, m, row) /\ ~ RowNeedsSync(p, m, t)

FuseStep(p, m, groups, row) ==
    IF groups # <<>> /\ CanFuseStages(p, m, Last(groups), row)
    THEN Append(Front(groups), Append(Last(groups), row))
    ELSE Append(groups, <<row>>)

FuseStageRows(p, m, rows) ==
    LET groups[n \in 0 .. Len(rows)] ==
            IF n = 0 THEN <<>> ELSE FuseStep(p, m, groups[n - 1], rows[n])
    IN groups[Len(rows)]

GroupNeedsSync(p, m, group) == \E row \in ToSet(group) : RowNeedsSync(p, m, row)

GroupExtent(p, m, group) == RowExtent(p, m, Head(group))

\* The rows of a group that have something to do at level k: a stage where it has an
\* apply overload, a fill or a flush everywhere.
CellRows(p, m, group, k) ==
    ForEach(group, LAMBDA row :
        IF row[1] = "stage" => k \in AppliesAt(StageOf(p, <<m, row[2]>>)) THEN <<row>> ELSE <<>>)

(***************************************************************************)
(* Kernel fusion: consecutive multistages share a launch if they agree in  *)
(* the largest extent and in being parallel, and if the later one accesses *)
(* what the earlier ones write without a horizontal extent, and in a       *)
(* parallel kernel without a vertical one.  Fields are told apart by their *)
(* caches; a K cache with a policy accesses its field uncached as well.    *)
(***************************************************************************)
IsParallel(p, m) == p.mss[m].exec = "parallel"

CacheKeys(p, m, f) ==
    CASE f \in p.mss[m].ij -> {"ij"}
      [] f \in DOMAIN p.mss[m].kc -> {"k"} \cup (IF p.mss[m].kc[f] = {} THEN {} ELSE {"none"})
      [] OTHER -> {"none"}

OutKeys(p, launch) ==
    UNION {UNION {{f} \X CacheKeys(p, m, f) :
                     f \in UNION {StageOf(p, x).out : x \in MssStages(p, m)}} : m \in ToSet(launch)}

ExtentOfKeys(p, keys, m) ==
    EnclosingExtent({PlhExtent(p, MssStages(p, m), key[1]) :
        key \in {q \in keys : q[2] \in CacheKeys(p, m, q[1])}})

\* Mutant: what the earlier multistages write may be read at other levels.
CanFuseKernelsAnyLevel(p, launch, m) ==
    LET e == ExtentOfKeys(p, OutKeys(p, launch), m) IN
    /\ MssExtent(p, Last(launch)) = MssExtent(p, m)
    /\ IsParallel(p, Last(launch)) = IsParallel(p, m)
    /\ e.lo = 0 /\ e.hi = 0

CanFuseKernels(p, launch, m) ==
    LET e == ExtentOfKeys(p, OutKeys(p, launch), m) IN
    /\ MssExtent(p, Last(launch)) = MssExtent(p, m)
    /\ IsParallel(p, Last(launch)) = IsParallel(p, m)
    /\ e.lo = 0 /\ e.hi = 0
    /\ IsParallel(p, m) => e.klo = 0 /\ e.khi = 0

LaunchStep(p, launches, m) ==
    IF launches # <<>> /\ CanFuseKernels(p, Last(launches), m)
    THEN Append(Front(launches), Append(Last(launches), m))
    ELSE Append(launches, <<m>>)

Launches(p) ==
    LET launches[m \in 0 .. Len(p.mss)] ==
            IF m = 0 THEN <<>> ELSE LaunchStep(p, launches[m - 1], m)
    IN launches[Len(p.mss)]
=============================================================================
