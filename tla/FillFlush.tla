------------------------------ MODULE FillFlush ------------------------------
(***************************************************************************)
(* K caches on the GPU: gpu/fill_flush.hpp and k_cache.hpp.  A forward or  *)
(* backward multistage may keep a window of a column of a field in         *)
(* registers.  The window slides with the loop over the levels.  Policy    *)
(* fill loads what enters the window, flush stores what leaves it; which   *)
(* levels that are, and whether they have to be checked against the bounds *)
(* of the data, is decided at compile time from the interval of the axis   *)
(* the level belongs to: the levels near a splitter are intervals of their *)
(* own, all others share one.                                              *)
(***************************************************************************)
EXTENDS DocumentedModel, VerticalRegions

KCached(p, m) == DOMAIN p.mss[m].kc

HasPolicy(p, m, f, policy) == policy \in p.mss[m].kc[f]

\* Fills come before the stages of a multistage and flushes after them.
TransformMatrix(p, m) ==
    LET rows(policy) ==
            SetToSeq({<<policy, f>> : f \in {g \in KCached(p, m) : HasPolicy(p, m, g, policy)}})
    IN rows("fill") \o StageRows(p, m) \o rows("flush")

LevelsAreClose(from, to, lim) ==
    from[1] = to[1] /\ RealOffset(to[2]) - RealOffset(from[2]) < lim

(***************************************************************************)
(* The levels to synchronise when the loop is at level k, relative to k:   *)
(* the whole window at the interval where the loop starts (fill) or ends   *)
(* (flush), and otherwise the level that enters or leaves.                 *)
(***************************************************************************)
SyncsAbove(exec, policy) == (exec # "backward") <=> (policy = "fill")

SyncAll(exec, policy, levels, axis, k) ==
    LET end == IF SyncsAbove(exec, policy) THEN Min(levels) ELSE Max(levels)
    IN IntervalAt(axis, k) = IntervalAt(axis, end)

SyncOffsets(exec, policy, e, levels, axis, k) ==
    CASE e.klo = e.khi -> {e.klo}
      [] SyncAll(exec, policy, levels, axis, k) -> e.klo .. e.khi
      [] OTHER -> {IF SyncsAbove(exec, policy) THEN e.khi ELSE e.klo}

(***************************************************************************)
(* The bound a synchronisation checks: the lower one near the start of the *)
(* multistage's interval, or else the upper one near its end.              *)
(***************************************************************************)
\* Mutant: only the levels near the start are checked.
SyncCheckStart(isTmp, e, levels, axis, k) ==
    IF e.klo # e.khi /\ ~ isTmp
       /\ LevelsAreClose(IntervalAt(axis, Min(levels)).first, IntervalAt(axis, k).last, - e.klo)
    THEN "lo" ELSE "none"

SyncCheck(isTmp, e, levels, axis, k) ==
    LET cur     == IntervalAt(axis, k)
        toFirst == LevelsAreClose(IntervalAt(axis, Min(levels)).first, cur.last, - e.klo)
        toLast  == LevelsAreClose(cur.first, IntervalAt(axis, Max(levels)).last, e.khi)
    IN IF e.klo = e.khi \/ isTmp THEN "none"
       ELSE IF toFirst THEN "lo" ELSE IF toLast THEN "hi" ELSE "none"

\* The data of the caller have the levels of the axis.
KSizeOf(axis) == KSize(axis, FullInterval(axis))

IsKValid(check, axis, k) ==
    /\ check = "lo" => k >= 0
    /\ check = "hi" => k < KSizeOf(axis)

\* The offsets that a fill or flush of f copies at level k of multistage m.
SyncedOffsets(p, m, policy, f, levels, axis, k) ==
    LET e == PlhExtent(p, MssStages(p, m), f)
        check == SyncCheck(f \in p.temps, e, levels, axis, k)
    IN {o \in SyncOffsets(p.mss[m].exec, policy, e, levels, axis, k) : IsKValid(check, axis, k + o)}

\* The window slides along the loop; its last register keeps its value.
SlideStep(exec) == IF exec = "backward" THEN -1 ELSE 1

SlidOffsets(p, m, f) ==
    LET e == PlhExtent(p, MssStages(p, m), f) IN
    {o \in e.klo .. e.khi : o + SlideStep(p.mss[m].exec) \in e.klo .. e.khi}

(***************************************************************************)
(* What validate_k_bounds asserts: the levels of the inner interval, where *)
(* bounds are not checked, keep the window inside of the data.             *)
(***************************************************************************)
InnerInterval(axis, levels) ==
    Interval(<<IntervalAt(axis, Min(levels)).first[1], axis.limit>>,
             <<IntervalAt(axis, Max(levels)).last[1], - axis.limit>>)

ValidateKBounds(p, m, levels, axis) ==
    LET inner == InnerInterval(axis, levels)
        start == KStart(axis, inner)
    IN \A f \in KCached(p, m) \ p.temps : \A policy \in p.mss[m].kc[f] :
           LET e == PlhExtent(p, MssStages(p, m), f) IN
           IF SyncsAbove(p.mss[m].exec, policy)
           THEN KSizeOf(axis) >= start + KSize(axis, inner) + e.khi
           ELSE 0 <= start + e.klo

(***************************************************************************)
(* A K cache of multistage m does what its policies say only if the        *)
(* multistage is forward or backward and accesses the field without        *)
(* horizontal offsets, fills what is read of other multistages and of the  *)
(* caller, flushes what others read, and, where it only flushes, writes    *)
(* every level and starts where its window does not reach over the levels  *)
(* of the data.                                                            *)
(***************************************************************************)
FillsWhatItReads(p, m, f) ==
    \A x \in MssStages(p, m) : \A k \in AppliesAt(StageOf(p, x)) :
        \A r \in StageOf(p, x).in[k] :
            r[1] = f => r[2] = 0 /\ (PromisedWriter(p, f, k + r[3], x, k)[1] = m \/ HasPolicy(p, m, f, "fill"))

FlushesWhatIsRead(p, m, f) ==
    (\E x \in MssStages(p, m) : f \in StageOf(p, x).out)
        /\ (f \notin p.temps \/ \E y \in StageIds(p) : y[1] > m /\ f \in Args(StageOf(p, y)))
    => HasPolicy(p, m, f, "flush")

FlushesWhatIsWritten(p, m, f, levels, axis) ==
    f \notin p.temps /\ p.mss[m].kc[f] = {"flush"} =>
        LET e == PlhExtent(p, MssStages(p, m), f) IN
        /\ levels \subseteq UNION {AppliesAt(StageOf(p, x)) : x \in {y \in MssStages(p, m) : f \in StageOf(p, y).out}}
        /\ IF p.mss[m].exec = "backward" THEN e.khi = 0 \/ Max(levels) = KSizeOf(axis) - 1
           ELSE e.klo = 0 \/ Min(levels) = 0

\* The static assertion of make_sync_fun.
SyncsAllAtOneLevel(p, m, f, levels, axis) ==
    \A policy \in p.mss[m].kc[f] : \A k \in levels :
        SyncAll(p.mss[m].exec, policy, levels, axis, k) =>
            IntervalAt(axis, k).first = IntervalAt(axis, k).last

KCachesAreLegal(p, m, levels, axis) ==
    /\ KCached(p, m) # {} => ~ IsParallel(p, m) /\ ValidateKBounds(p, m, levels, axis)
    /\ \A f \in KCached(p, m) :
          /\ f \in p.temps \/ p.mss[m].kc[f] # {}
          /\ SyncsAllAtOneLevel(p, m, f, levels, axis)
          /\ FillsWhatItReads(p, m, f)
          /\ FlushesWhatIsRead(p, m, f)
          /\ FlushesWhatIsWritten(p, m, f, levels, axis)
=============================================================================
