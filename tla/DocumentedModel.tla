--------------------------- MODULE DocumentedModel ---------------------------
(***************************************************************************)
(* What the user manual promises about the values a stage reads: the       *)
(* multistages one after the other; for each IJ plane the stages of a      *)
(* multistage strictly one after the other, each as if applied to the      *)
(* whole plane; and, with policy forward (backward), all stages at the     *)
(* smaller (larger) levels before those at k.  The promise says which      *)
(* stage must have written the value last, and nothing about blocks,       *)
(* extents, barriers or fusion.                                            *)
(***************************************************************************)
EXTENDS StencilProgram

LevelBefore(exec, k1, k2) ==
    \/ exec = "forward"  /\ k1 < k2
    \/ exec = "backward" /\ k1 > k2

\* Stage w at level kw comes before stage r at level kr.
Precedes(p, w, kw, r, kr) ==
    \/ w[1] < r[1]
    \/ /\ w[1] = r[1]
       /\ LevelBefore(p.mss[w[1]].exec, kw, kr) \/ (kw = kr /\ w[2] < r[2])

WritersAt(p, f, k) ==
    {x \in StageIds(p) : f \in StageOf(p, x).out /\ k \in AppliesAt(StageOf(p, x))}

Latest(X) == CHOOSE x \in X : \A y \in X : y[1] < x[1] \/ (y[1] = x[1] /\ y[2] <= x[2])

Caller == <<0, 0>>     \* the value the caller supplied

\* The stage whose value a read of f at level kf by stage r at level kr must see.
PromisedWriter(p, f, kf, r, kr) ==
    LET before == {w \in WritersAt(p, f, kf) : Precedes(p, w, kf, r, kr)} IN
    IF before = {} THEN Caller ELSE Latest(before)

\* The stage that has the last word on field f at level k.
FinalWriter(p, f, k) == IF WritersAt(p, f, k) = {} THEN Caller ELSE Latest(WritersAt(p, f, k))

(***************************************************************************)
(* The access restrictions 1 to 5 of the manual, together with what the    *)
(* policies leave undefined (a read at another level of what the same      *)
(* multistage writes there later, or in no order), and that temporaries    *)
(* are written before they are read.  A read of what a forward or backward *)
(* multistage has written at an earlier level is a read after a write: the *)
(* tests of the caches accumulate in place that way.                       *)
(***************************************************************************)
SingleWriter(p) ==
    \A x, y \in StageIds(p) : x # y => StageOf(p, x).out \cap StageOf(p, y).out = {}

NoOffsetOnOutput(p) ==
    \A x \in StageIds(p) : \A r \in Reads(StageOf(p, x)) : r[1] \in StageOf(p, x).out => r[2] = 0

ReadBeforeWrite(p, x, y, f) ==
    /\ x[1] = y[1] /\ x[2] <= y[2]
    /\ \E r \in Reads(StageOf(p, x)) : r[1] = f /\ r[3] = 0
    /\ f \in StageOf(p, y).out

WriteAfterReadRule(p) ==
    \A x, y \in StageIds(p) : \A f \in Fields(p) \ p.temps :
        ReadBeforeWrite(p, x, y, f) =>
            /\ StageExtent(p, x) = ZeroExtent
            /\ \A r \in Reads(StageOf(p, x)) :
                  r[1] = f => r[2] = 0 /\ (r[3] = 0 \/ LevelBefore(p.mss[x[1]].exec, r[3], 0))

OrderedLevels(p) ==
    \A x, y \in StageIds(p) : \A r \in Reads(StageOf(p, x)) :
        x[1] = y[1] /\ r[1] \in StageOf(p, y).out /\ r[3] # 0 =>
            LevelBefore(p.mss[x[1]].exec, r[3], 0)

TemporariesWritten(p) ==
    \A x \in StageIds(p) : \A k \in AppliesAt(StageOf(p, x)) : \A r \in StageOf(p, x).in[k] :
        r[1] \in p.temps => PromisedWriter(p, r[1], k + r[3], x, k) # Caller

AccessRules(p) ==
    SingleWriter(p) /\ NoOffsetOnOutput(p) /\ WriteAfterReadRule(p)
        /\ OrderedLevels(p) /\ TemporariesWritten(p)

(***************************************************************************)
(* No stage writes what an earlier one, of the same or of an earlier       *)
(* multistage, reads at another point.  The manual does not ask for this   *)
(* (rule 5, the guarantee of forward and backward, and the order of the    *)
(* multistages allow such a pair), but not every backend orders it.        *)
(***************************************************************************)
WritersComeFirst(p) ==
    \A x, y \in StageIds(p) : \A r \in Reads(StageOf(p, x)) :
        r[1] \in StageOf(p, y).out /\ <<r[2], r[3]>> # <<0, 0>> =>
            x = y \/ y[1] < x[1] \/ (y[1] = x[1] /\ y[2] < x[2])

\* An IJ-cached temporary is used in its own multistage only, without vertical offsets,
\* and at most one temporary of a multistage is IJ-cached (a bound of the model).
CacheIsLocal(p, m) ==
    /\ \A f \in p.mss[m].ij : \A x \in StageIds(p) :
          f \in Args(StageOf(p, x)) =>
              x[1] = m /\ \A r \in Reads(StageOf(p, x)) : r[1] = f => r[3] = 0
    /\ \A f, g \in p.mss[m].ij : f = g
=============================================================================
