--------------------------- MODULE VerticalRegions ---------------------------
(***************************************************************************)
(* The vertical axis of a stencil computation: stencil/core/level.hpp,     *)
(* interval.hpp, functor_metafunctions.hpp and grid.hpp.  An axis is a     *)
(* record                                                                  *)
(*   sizes  the number of levels between each splitter and the next one    *)
(*   limit  the largest offset from a splitter that the program may name   *)
(* A level is named <<splitter, offset>>: offset 1 is the first one above  *)
(* the splitter, offset -1 the last one below, and there is no offset 0.   *)
(* An interval is [first, last].  The levels that cannot be named, those   *)
(* further than the limit from any splitter, share one interval between    *)
(* two splitters; every other level is an interval of its own.             *)
(***************************************************************************)
EXTENDS Integers, Sequences, SequencesExt

Interval(first, last) == [first |-> first, last |-> last]

FullInterval(axis) == Interval(<<0, 1>>, <<Len(axis.sizes), -1>>)

(* Levels in order: the index of a level that can be named. *)

LevelIndex(axis, level) ==
    axis.limit * (2 * level[1] + 1) + level[2] - (IF level[2] >= 0 THEN 1 ELSE 0)

IndexLevel(axis, index) ==
    LET o == (index % (2 * axis.limit)) - axis.limit IN
    <<index \div (2 * axis.limit), IF o >= 0 THEN o + 1 ELSE o>>

\* A level moved by n; it jumps over the missing offset 0.
AddOffset(offset, n) ==
    IF (offset > 0 /\ offset + n > 0) \/ (offset < 0 /\ offset + n < 0) THEN offset + n
    ELSE offset + n + (IF n > 0 THEN 1 ELSE IF n < 0 THEN -1 ELSE 0)

Modify(interval, left, right) ==
    Interval(<<interval.first[1], AddOffset(interval.first[2], left)>>,
             <<interval.last[1], AddOffset(interval.last[2], right)>>)

FirstLevel(interval) == Interval(interval.first, interval.first)
LastLevel(interval) == Interval(interval.last, interval.last)

(***************************************************************************)
(* split_interval: a level at the upper limit above a splitter, and so     *)
(* the next one, at the lower limit below the next splitter, are one       *)
(* interval with what is between them.                                     *)
(***************************************************************************)
AddLevel(axis, intervals, level) ==
    IF intervals # <<>> /\ Last(intervals).first[2] = axis.limit /\ Last(intervals).last[2] = axis.limit
    THEN Append(Front(intervals), Interval(Last(intervals).first, level))
    ELSE Append(intervals, Interval(level, level))

SplitInterval(axis, interval) ==
    LET from  == LevelIndex(axis, interval.first)
        count == LevelIndex(axis, interval.last) - from + 1
        upTo[n \in 0 .. count] ==
            IF n = 0 THEN <<>> ELSE AddLevel(axis, upTo[n - 1], IndexLevel(axis, from + n - 1))
    IN upTo[count]

(* Where an interval is at run time: grid.hpp. *)

RealOffset(offset) == IF offset > 0 THEN offset - 1 ELSE offset

SplitterValue(axis, splitter) ==
    LET value[n \in 0 .. splitter] == IF n = 0 THEN 0 ELSE value[n - 1] + axis.sizes[n]
    IN value[splitter]

ValueAt(axis, level) == SplitterValue(axis, level[1]) + RealOffset(level[2])

KStart(axis, interval) == ValueAt(axis, interval.first)

KSize(axis, interval) ==
    1 + (SplitterValue(axis, interval.last[1]) - SplitterValue(axis, interval.first[1]))
      + RealOffset(interval.last[2]) - RealOffset(interval.first[2])

LevelsIn(axis, interval) == KStart(axis, interval) .. KStart(axis, interval) + KSize(axis, interval) - 1

\* The intervals that the loops over the levels go through, and the one level k is in.
Intervals(axis) == ToSet(SplitInterval(axis, FullInterval(axis)))

IntervalAt(axis, k) == CHOOSE i \in Intervals(axis) : k \in LevelsIn(axis, i)

(***************************************************************************)
(* The operator of a stage has overloads [at, reads], each for an          *)
(* interval, and at most one without (default is empty or holds its        *)
(* reads): it serves the levels that no other one is for.  At run time:    *)
(* the reads at every level that has an overload.                          *)
(***************************************************************************)
FindOverload(axis, overloads, default, interval) ==
    LET index == LevelIndex(axis, interval.first)
        bound == {o \in overloads : LevelIndex(axis, o.at.first) <= index
                                      /\ index <= LevelIndex(axis, o.at.last)}
    IN IF bound # {} THEN {o.reads : o \in bound} ELSE default

\* What check_valid_apply_overloads asserts: a level at the limit towards another splitter
\* stands for levels without a name, and no overload may begin or end in the middle of them.
ValidOverloads(axis, overloads, default) ==
    LET full   == FullInterval(axis)
        index(level) == LevelIndex(axis, level)
    IN /\ overloads # {} \/ default # {}
       /\ \A o \in overloads :
             /\ o.at.first[2] = - axis.limit => index(o.at.first) <= index(full.first)
             /\ o.at.last[2] = axis.limit => index(o.at.last) >= index(full.last)
             /\ \A q \in overloads :
                   o = q \/ index(o.at.last) < index(q.at.first) \/ index(q.at.last) < index(o.at.first)

Operator(axis, overloads, default) ==
    LET at(k) == FindOverload(axis, overloads, default, IntervalAt(axis, k)) IN
    [k \in {l \in LevelsIn(axis, FullInterval(axis)) : at(l) # {}} |-> CHOOSE reads \in at(k) : TRUE]

(***************************************************************************)
(* What the loops rely on, of an axis whose levels have one name each: no  *)
(* interval has a negative size, and every level is in exactly one.        *)
(***************************************************************************)
LargeEnough(axis) == \A s \in DOMAIN axis.sizes : axis.sizes[s] >= 2 * (axis.limit - 1)

Tiled(axis) ==
    /\ \A i \in Intervals(axis) : KSize(axis, i) >= 0
    /\ \A k \in LevelsIn(axis, FullInterval(axis)) :
          \E i \in Intervals(axis) :
              /\ k \in LevelsIn(axis, i)
              /\ \A j \in Intervals(axis) : k \in LevelsIn(axis, j) => j = i
=============================================================================
