--------------------------- MODULE StencilBackends ---------------------------
(***************************************************************************)
(* The loop nests of the backends.  An instance x is a computation with a  *)
(* backend and the sizes it runs on:                                       *)
(*   p        the computation            backend  "naive", "cpu_kfirst",   *)
(*   isize    columns of the domain               "cpu_ifirst", "gpu" or   *)
(*   axis     the vertical axis                   "gpu_horizontal"         *)
(*   block    columns of a block                                           *)
(*   threads  threads of the CPU pool    kblock   levels of a GPU block    *)
(*   launches the kernel launches, a sequence of sequences of multistages  *)
(*   fused    cpu_ifirst only: everything is one parallel loop             *)
(* A worker is a thread.  Its work is a sequence of items, each one stage  *)
(* at one point or one step of a K cache, in the order of the loops; phase *)
(* counts the barriers that the thread has to pass before the item.        *)
(***************************************************************************)
EXTENDS FillFlush

Levels(x) == 0 .. KSizeOf(x.axis) - 1

\* An instance: every multistage does something at some level.
IsInstance(x) ==
    /\ DOMAIN x = {"p", "backend", "isize", "axis", "block", "kblock", "threads"}
    /\ IsComputation(x.p)
    /\ \A m \in DOMAIN x.p.mss : \E s \in DOMAIN x.p.mss[m].stages :
          AppliesAt(StageOf(x.p, <<m, s>>)) \cap Levels(x) # {}
    /\ x.backend \in {"naive", "cpu_kfirst", "cpu_ifirst", "gpu", "gpu_horizontal"}
    /\ x.axis.sizes \in Seq(Nat)
    /\ \A size \in {x.isize, x.block, x.kblock, x.threads} : size \in Nat \ {0}

\* The levels from lo to hi in the order of the loop.
LevelSeq(exec, lo, hi) ==
    [n \in 1 .. hi - lo + 1 |-> IF exec = "backward" THEN hi + 1 - n ELSE lo + n - 1]

CeilDiv(a, b) == (a + b - 1) \div b

(***************************************************************************)
(* Where a field lives.  All of the caller's fields are shared.  The       *)
(* temporaries of the naive backend are shared by everything, those of the *)
(* blocked ones belong to a block (GPU) or to a thread (CPU) and are       *)
(* indexed from the origin of the block; with no vertical extent anywhere  *)
(* and all multistages parallel, cpu_ifirst keeps a single level.  IJ      *)
(* caches live in the shared memory of a block, from its start, one level. *)
(* K caches live in registers of a thread, indexed from its current level, *)
(* and so do all temporaries of gpu_horizontal, from its current column.   *)
(***************************************************************************)
FuseAll(p) ==
    /\ \A m \in DOMAIN p.mss : IsParallel(p, m)
    /\ \A f \in Fields(p) : LET e == PlhExtent(p, StageIds(p), f) IN e.klo = 0 /\ e.khi = 0

\* The interval of a multistage: from the lowest to the highest level with an operator.
MssInterval(x, m) ==
    LET K == Levels(x) \cap UNION {AppliesAt(StageOf(x.p, y)) : y \in MssStages(x.p, m)}
    IN Min(K) .. Max(K)

MatrixRows(p, backend, m) == IF backend = "gpu" THEN TransformMatrix(p, m) ELSE StageRows(p, m)

Compiled(p, x) ==
    [temps |-> p.temps, mss |-> p.mss, ext |-> p.ext, sync |-> p.sync,
     groups    |-> [m \in DOMAIN p.mss |-> FuseStageRows(p, m, MatrixRows(p, x.backend, m))],
     intervals |-> [m \in DOMAIN p.mss |-> MssInterval(x, m)]]

Executable(x) ==
    LET p == Annotated(x.p) IN
    [p |-> Compiled(p, x), backend |-> x.backend, isize |-> x.isize, axis |-> x.axis,
     block |-> x.block, kblock |-> x.kblock, threads |-> x.threads,
     launches |-> IF x.backend = "gpu" THEN Launches(p) ELSE <<[m \in DOMAIN p.mss |-> m]>>,
     fused    |-> x.backend = "cpu_ifirst" /\ FuseAll(p),
     work     |-> <<>>]

ThreadTemporary(x, at, f, i, k) == <<"temp", at.thread, f, i - at.origin, IF x.fused THEN 0 ELSE k>>

BlockTemporary(at, f, i, k) == <<"temp", at.b, f, i - at.origin, k>>

IjCache(x, at, m, f, i) ==
    <<"shared", at.b, at.z, i - at.origin - PlhExtent(x.p, MssStages(x.p, m), f).lo>>

KRegister(at, m, f, i, o) == <<"register", at.b, i, m, f, o>>

JRegister(at, f, i) == <<"register", at.b, at.k, f, i - at.j>>

MainMemory(x, at, f, i, k) ==
    IF f \notin x.p.temps THEN <<"field", f, i, k>>
    ELSE CASE x.backend = "naive" -> <<"temp", f, i, k>>
           [] x.backend = "gpu"   -> BlockTemporary(at, f, i, k)
           [] OTHER               -> ThreadTemporary(x, at, f, i, k)

\* Where multistage m finds field f at level k while it is at level at.k.
Location(x, at, m, f, i, k) ==
    CASE x.backend = "gpu" /\ f \in x.p.mss[m].ij     -> IjCache(x, at, m, f, i)
      [] x.backend = "gpu" /\ f \in KCached(x.p, m)   -> KRegister(at, m, f, i, k - at.k)
      [] x.backend = "gpu_horizontal" /\ f \in x.p.temps -> JRegister(at, f, i)
      [] OTHER                                        -> MainMemory(x, at, f, i, k)

(***************************************************************************)
(* An item: what it reads, with the stamp the manual promises to be there, *)
(* what it writes, with its own stamp, and the values it copies, all at    *)
(* once.  A stamp is the stage and the point it was applied to; memory     *)
(* nobody has written holds a value of its own.                            *)
(***************************************************************************)
Untouched(loc) == <<0, 0, loc>>

Stamp(w, f, i, k) == IF w = Caller THEN Untouched(<<"field", f, i, k>>) ELSE <<w[1], w[2], i, k>>

Item(x, where, w, i, k, phase) ==
    LET st == StageOf(x.p, w)
        at == where @@ [k |-> k]
    IN [phase  |-> phase,
        reads  |-> {[from |-> Location(x, at, w[1], r[1], i + r[2], k + r[3]),
                     want |-> Stamp(PromisedWriter(x.p, r[1], k + r[3], w, k), r[1], i + r[2], k + r[3])] :
                       r \in st.in[k]},
        writes |-> {Location(x, at, w[1], f, i, k) : f \in st.out},
        stamp  |-> <<w[1], w[2], i, k>>,
        copies |-> {}]

CopyItem(m, copies, phase) ==
    [phase |-> phase, reads |-> {}, writes |-> {}, stamp |-> <<m, 0>>, copies |-> copies]

\* A fill or a flush of field f by the thread of column i at level k.
SyncItem(x, at, m, row, i, k, phase) ==
    LET f == row[2]
        offsets == SyncedOffsets(x.p, m, row[1], f, x.p.intervals[m], x.axis, k)
        copy(o) ==
            IF row[1] = "fill"
            THEN [from |-> MainMemory(x, at, f, i, k + o), to |-> KRegister(at, m, f, i, o)]
            ELSE [from |-> KRegister(at, m, f, i, o), to |-> MainMemory(x, at, f, i, k + o)]
    IN CopyItem(m, {copy(o) : o \in offsets}, phase)

\* The windows of all K caches of multistage m slide by one level.
SlideItem(x, at, m, i, phase) ==
    LET step == SlideStep(x.p.mss[m].exec) IN
    CopyItem(m, UNION {{[from |-> KRegister(at, m, f, i, o + step), to |-> KRegister(at, m, f, i, o)] :
                           o \in SlidOffsets(x.p, m, f)} : f \in KCached(x.p, m)}, phase)

(* The GPU: gpu/entry_point.hpp, make_kernel_fun.hpp, launch_kernel.hpp. *)

InExtent(e, t, size) == e.lo <= t /\ e.hi > t - size

\* Mutant: nothing is left for the last block if the blocks divide the domain.
BlockSizeRemainder(x, b) == IF (b + 1) * x.block < x.isize THEN x.block ELSE x.isize % x.block

BlockSizeAt(x, b) == IF (b + 1) * x.block < x.isize THEN x.block ELSE x.isize - b * x.block

LaunchParallel(p, launch) == IsParallel(p, Head(launch))

GpuTeams(x, launch) ==
    [b : 0 .. CeilDiv(x.isize, x.block) - 1,
     z : IF LaunchParallel(x.p, launch) THEN 0 .. CeilDiv(KSizeOf(x.axis), x.kblock) - 1 ELSE {0}]

GpuWorkers(x, launch) ==
    LET e == MssExtent(x.p, Head(launch)) IN
    {[b |-> team.b, z |-> team.z, t |-> t] :
        team \in GpuTeams(x, launch), t \in e.lo .. x.block + e.hi - 1}

\* A block of a parallel kernel counts its levels from the start of the interval.
GpuLevels(x, m, z) ==
    LET I == x.p.intervals[m]
        start == Min(I) + z * x.kblock
    IN IF IsParallel(x.p, m)
       THEN LevelSeq("parallel", start, Min({Max(I), start + x.kblock - 1}))
       ELSE LevelSeq(x.p.mss[m].exec, Min(I), Max(I))

\* The cells of a thread at level k: a group without operators at that level has none,
\* and its barrier is gone with it.
CellsAt(x, m, k) ==
    ForEach(x.p.groups[m], LAMBDA group :
        IF CellRows(x.p, m, group, k) = <<>> THEN <<>>
        ELSE <<[m |-> m, k |-> k, rows |-> CellRows(x.p, m, group, k),
                extent |-> GroupExtent(x.p, m, group), sync |-> GroupNeedsSync(x.p, m, group)]>>)

\* After the cells of a level the K caches slide, those of idle threads in vain.
SlideAt(x, m, k) ==
    IF KCached(x.p, m) = {} THEN <<>>
    ELSE <<[m |-> m, k |-> k, rows |-> <<<<"slide">>>>, extent |-> MssExtent(x.p, m), sync |-> FALSE]>>

GpuCells(x, launch, z) ==
    ForEach(launch, LAMBDA m :
        ForEach(GpuLevels(x, m, z), LAMBDA k :
            CellsAt(x, m, k) \o SlideAt(x, m, k)))

RowItem(x, at, cell, row, i, phase) ==
    CASE row[1] = "stage" -> Item(x, at, <<cell.m, row[2]>>, i, cell.k, phase)
      [] row[1] = "slide" -> SlideItem(x, at, cell.m, i, phase)
      [] OTHER            -> SyncItem(x, at, cell.m, row, i, cell.k, phase)

\* exec_cells: the barrier is for all threads, the operator for those within the extent.
GpuItems(x, cells, w) ==
    LET at == [b |-> w.b, z |-> w.z, origin |-> w.b * x.block]
        phase(n) == Cardinality({j \in 1 .. n : cells[j].sync})
    IN ForEach([n \in DOMAIN cells |-> n], LAMBDA n :
           IF ~ InExtent(cells[n].extent, w.t, BlockSizeAt(x, w.b)) THEN <<>>
           ELSE ForEach(cells[n].rows, LAMBDA row :
                    <<RowItem(x, at, cells[n], row, at.origin + w.t, phase(n))>>))

(***************************************************************************)
(* gpu_horizontal: a single parallel multistage.  A thread has a row of    *)
(* its own and goes along it, column by column; the row is the dimension   *)
(* that is kept here.  A cell with a larger extent is ahead of the others  *)
(* by that extent, and the registers of the temporaries slide along.       *)
(***************************************************************************)
\* As far before the first column as the farthest cell is ahead.
JStart(e) == e.lo - e.hi

JSlide(x, at, k) ==
    CopyItem(1, UNION {{[from |-> JRegister(at @@ [k |-> k], f, at.j + o + 1),
                         to   |-> JRegister(at @@ [k |-> k], f, at.j + o)] :
                           o \in LET e == PlhExtent(x.p, MssStages(x.p, 1), f) IN e.lo .. e.hi - 1} :
                       f \in x.p.temps}, 0)

JCells(x, at, j, k, size) ==
    ForEach(CellsAt(x, 1, k), LAMBDA cell :
        IF ~ InExtent(cell.extent, j + cell.extent.hi, size) THEN <<>>
        ELSE ForEach(cell.rows, LAMBDA row :
                 <<Item(x, at, <<1, row[2]>>, at.j + cell.extent.hi, k, 0)>>))

JLoop(x, w, k) ==
    LET start == JStart(MssExtent(x.p, 1))
        at(j) == [b |-> w.b, j |-> w.b * x.block + j]
    IN ForEach([n \in 1 .. x.block - start |-> start + n - 1], LAMBDA j :
           JCells(x, at(j), j, k, BlockSizeAt(x, w.b)) \o <<JSlide(x, at(j), k)>>)

HorizontalItems(x, w) ==
    ForEach(GpuLevels(x, 1, w.z), LAMBDA k : JLoop(x, w, k))

(* The CPU backends run the groups of all multistages one after the other. *)

SplitView(p) ==
    ForEach([m \in DOMAIN p.mss |-> m], LAMBDA m :
        ForEach(p.groups[m], LAMBDA group : <<[m |-> m, group |-> group]>>))

Extended(x, v, from, size) ==
    LET e == GroupExtent(x.p, v.m, v.group) IN
    [n \in 1 .. size - e.lo + e.hi |-> from + e.lo + n - 1]

CpuCell(x, at, v, i, k) ==
    ForEach(CellRows(x.p, v.m, v.group, k), LAMBDA row : <<Item(x, at, <<v.m, row[2]>>, i, k, 0)>>)

CpuLevels(x, v) == LevelSeq(x.p.mss[v.m].exec, 0, KSizeOf(x.axis) - 1)

\* i outside, k inside: cpu_kfirst.hpp.
KFirst(x, at, v, from, size) ==
    ForEach(Extended(x, v, from, size), LAMBDA i :
        ForEach(CpuLevels(x, v), LAMBDA k : CpuCell(x, at, v, i, k)))

\* k outside, i inside: cpu_ifirst/loops.hpp.
IFirst(x, at, v, from, size, levels) ==
    ForEach(levels, LAMBDA k :
        ForEach(Extended(x, v, from, size), LAMBDA i : CpuCell(x, at, v, i, k)))

\* The operators of a group at level k: an overload of a stage is told by what it reads.
Overloads(x, v, k) ==
    ForEach(CellRows(x.p, v.m, v.group, k), LAMBDA row :
        <<[stage |-> row[2], in |-> StageOf(x.p, <<v.m, row[2]>>).in[k]]>>)

\* A cell, that is a run of levels with the same operators, at a time: naive.hpp.
LevelRuns(x, v) ==
    LET same(k1, k2) == Overloads(x, v, k1) = Overloads(x, v, k2)
        step(runs, k) == IF runs # <<>> /\ same(Last(Last(runs)), k)
                         THEN Append(Front(runs), Append(Last(runs), k))
                         ELSE Append(runs, <<k>>)
        levels == CpuLevels(x, v)
        upTo[n \in 0 .. Len(levels)] == IF n = 0 THEN <<>> ELSE step(upTo[n - 1], levels[n])
    IN upTo[Len(levels)]

Naive(x, at, v) ==
    ForEach(LevelRuns(x, v), LAMBDA levels :
        ForEach(Extended(x, v, 0, x.isize), LAMBDA i :
            ForEach(levels, LAMBDA k : CpuCell(x, at, v, i, k))))

\* execinfo.hpp for one row: the blocks of cpu_ifirst follow from the number of threads.
CpuBlock(x) ==
    CASE x.backend = "naive"      -> x.isize
      [] x.backend = "cpu_kfirst" -> x.block
      [] x.backend = "cpu_ifirst" -> CeilDiv(x.isize, x.threads)

CpuBlocks(x) == CeilDiv(x.isize, CpuBlock(x))

\* The iterations of parallel_for_loop: blocks, and levels too if everything is fused.
CpuUnits(x) ==
    LET units == CpuBlocks(x) * (IF x.fused THEN KSizeOf(x.axis) ELSE 1) IN
    [n \in 1 .. units |-> [index |-> n - 1, b |-> (n - 1) % CpuBlocks(x), k |-> (n - 1) \div CpuBlocks(x)]]

UnitItems(x, thread, u) ==
    LET from == u.b * CpuBlock(x)
        size == IF u.b + 1 = CpuBlocks(x) THEN x.isize - from ELSE CpuBlock(x)
        at   == [thread |-> thread, origin |-> from]
    IN ForEach(SplitView(x.p), LAMBDA v :
           CASE x.backend = "naive"      -> Naive(x, at, v)
             [] x.backend = "cpu_kfirst" -> KFirst(x, at, v, from, size)
             [] x.backend = "cpu_ifirst" ->
                    IFirst(x, at, v, from, size, IF x.fused THEN <<u.k>> ELSE CpuLevels(x, v)))

\* A static schedule: thread t takes the t-th share of the iterations.
CpuItems(x, thread) ==
    LET share == CeilDiv(Len(CpuUnits(x)), x.threads) IN
    ForEach(CpuUnits(x), LAMBDA u : IF u.index \div share = thread THEN UnitItems(x, thread, u) ELSE <<>>)

(* What every worker of launch l has to do. *)

OnGpu(x) == x.backend = "gpu"

WorkOf(x, l) ==
    CASE x.backend = "gpu" ->
         LET cells == [z \in {w.z : w \in GpuTeams(x, x.launches[l])} |-> GpuCells(x, x.launches[l], z)] IN
         [w \in GpuWorkers(x, x.launches[l]) |-> GpuItems(x, cells[w.z], w)]
      [] x.backend = "gpu_horizontal" ->
         [w \in {[b |-> team.b, z |-> team.z, t |-> 0] : team \in GpuTeams(x, x.launches[l])} |->
             HorizontalItems(x, w)]
      [] OTHER -> [w \in [b : {0}, z : {0}, t : 0 .. x.threads - 1] |-> CpuItems(x, w.t)]

\* Everything that is known before the computation runs.
Program(x) ==
    LET e == Executable(x) IN [e EXCEPT !.work = [l \in DOMAIN e.launches |-> WorkOf(e, l)]]

\* Threads of a GPU block share barriers; CPU threads have none.
SameTeam(x, v, w) == IF OnGpu(x) THEN v.b = w.b /\ v.z = w.z ELSE v = w
=============================================================================
