-------------------------- MODULE MCStencilExecution --------------------------
(* Computations that follow the access restrictions, on all backends. *)
EXTENDS StencilExecution

Stage(out, in, levels) == [out |-> out, in |-> [k \in levels |-> in]]

\* A vertical axis with splitters between the given sizes and the default limit.
Axis(sizes) == [sizes |-> sizes, limit |-> 2]

\* An operator with an overload for the first level and one for all the others.
Solve(out, first, then, axis) ==
    [out |-> out,
     in  |-> Operator(axis, {[at |-> FirstLevel(FullInterval(axis)), reads |-> first]}, {then})]

Multistage(exec, ij, stages) == [exec |-> exec, ij |-> ij, kc |-> <<>>, stages |-> stages]
Caching(exec, kc, stages) == [exec |-> exec, ij |-> {}, kc |-> kc, stages |-> stages]
Computation(temps, mss) == [temps |-> temps, mss |-> mss]

Sizes(isize, ksizes, block, kblock, threads) ==
    [isize |-> isize, axis |-> Axis(ksizes), block |-> block, kblock |-> kblock, threads |-> threads]

On(backend, p, sizes) == [p |-> p, backend |-> backend] @@ sizes

\* A chain of differences: lap is needed one column beyond the domain on both sides.
Laplacian ==
    Computation({"lap"}, <<Multistage("parallel", {}, <<
        Stage({"lap"}, {<<"in", -1, 0>>, <<"in", 1, 0>>}, {0, 1}),
        Stage({"out"}, {<<"lap", -1, 0>>, <<"lap", 1, 0>>, <<"in", 0, 0>>}, {0, 1})>>)>>)

\* A stage whose barrier also covers the next one; three groups.
Fluxes ==
    Computation({"flx"}, <<Multistage("parallel", {}, <<
        Stage({"flx"}, {<<"in", 0, 0>>, <<"in", 1, 0>>}, {0}),
        Stage({"cpy"}, {<<"in", 0, 0>>}, {0}),
        Stage({"out"}, {<<"flx", -1, 0>>, <<"flx", 0, 0>>}, {0})>>)>>)

\* A solve: down the column with the level above, up again with the level below.
Tridiagonal ==
    Computation({"c"}, <<
        Multistage("forward", {}, <<
            Solve({"c"}, {<<"inf", 0, 0>>}, {<<"inf", 0, 0>>, <<"c", 0, -1>>}, Axis(<<2>>)),
            Solve({"d"}, {<<"c", 0, 0>>}, {<<"c", 0, 0>>, <<"d", 0, -1>>}, Axis(<<2>>))>>),
        Multistage("backward", {}, <<
            Solve({"x"}, {<<"c", 0, 0>>, <<"d", 0, 0>>, <<"x", 0, 1>>}, {<<"d", 0, 0>>}, Axis(<<2>>))>>)>>)

\* A sweep that reads the previous level of the neighbouring column.
Sweep ==
    Computation({"a"}, <<Multistage("forward", {}, <<
        Stage({"a"}, {<<"in", 0, 0>>}, {0, 1}),
        Solve({"out"}, {<<"a", 1, 0>>}, {<<"a", 0, 0>>, <<"a", 1, -1>>, <<"out", 0, -1>>}, Axis(<<2>>))>>)>>)

\* An IJ cache is written again at the next level: the first stage needs a barrier.
Cached ==
    Computation({"a"}, <<Multistage("forward", {"a"}, <<
        Stage({"a"}, {<<"in", 0, 0>>}, {0, 1}),
        Stage({"out"}, {<<"a", 1, 0>>}, {0, 1})>>)>>)

\* Two multistages in one launch, whose IJ caches are the same shared memory.
CachedTwice ==
    Computation({"a", "b"}, <<
        Multistage("parallel", {"a"}, <<
            Stage({"a"}, {<<"in", 0, 0>>}, {0}),
            Stage({"u"}, {<<"a", 1, 0>>}, {0})>>),
        Multistage("parallel", {"b"}, <<
            Stage({"b"}, {<<"in", 0, 0>>}, {0}),
            Stage({"v"}, {<<"b", 1, 0>>, <<"u", 0, 0>>}, {0})>>)>>)

\* The second multistage needs columns of other threads of the first: two launches.
TwoLaunches ==
    Computation({"a"}, <<
        Multistage("parallel", {}, <<Stage({"a"}, {<<"in", 0, 0>>}, {0, 1})>>),
        Multistage("parallel", {}, <<Stage({"out"}, {<<"a", 1, 0>>}, {0, 1})>>)>>)

\* A field of the caller is written beyond the domain, by two blocks at their seam.
Redundant ==
    Computation({}, <<Multistage("parallel", {}, <<
        Stage({"a"}, {<<"in", 0, 0>>}, {0}),
        Stage({"b"}, {<<"a", 1, 0>>}, {0})>>)>>)

\* Read in place and overwritten later, without offsets.
InPlace ==
    Computation({"t"}, <<Multistage("parallel", {}, <<
        Stage({"t"}, {<<"a", 0, 0>>, <<"in", 1, 0>>}, {0, 1}),
        Stage({"a"}, {<<"t", 0, 0>>, <<"a", 0, 0>>}, {0, 1})>>)>>)

\* A stage at some levels only, with a barrier of its own at those levels.
TopOnly ==
    Computation({"a"}, <<Multistage("forward", {}, <<
        Stage({"a"}, {<<"in", 0, 0>>}, {0, 1}),
        Stage({"out"}, {<<"a", 1, 0>>, <<"a", 1, -1>>}, {1})>>)>>)

Examples == {Laplacian, Fluxes, Tridiagonal, Sweep, Cached, CachedTwice, TwoLaunches,
             Redundant, InPlace, TopOnly}

(* Every chain of three stages t, u, out in one multistage or in two, where u reads t and *)
(* out reads t and u, at the same or a neighbouring column and at the same or the previous *)
(* level, with and without an IJ cache for t, as far as the access restrictions allow it.  *)

Chain(exec, cut, ij, rt, ru, rr) ==
    LET stages == <<Stage({"t"}, {<<"in", 0, 0>>}, {0, 1}),
                    Solve({"u"}, {<<"t", rt[1], 0>>}, {<<"t", rt[1], rt[2]>>}, Axis(<<2>>)),
                    Stage({"out"}, {<<"t", rr, 0>>, <<"u", ru, 0>>}, {0, 1})>>
        first == Multistage(exec, ij, SubSeq(stages, 1, cut))
        rest  == Multistage(exec, {}, SubSeq(stages, cut + 1, 3))
    IN Computation({"t", "u"}, IF cut = 3 THEN <<first>> ELSE <<first, rest>>)

Chains ==
    {p \in {Chain(exec, cut, ij, rt, ru, rr) : exec \in {"parallel", "forward"}, cut \in 1 .. 3,
                ij \in {{}, {"t"}}, rt \in {0, 1} \X {0, -1}, ru \in {0, 1}, rr \in {-1, 0, 1}} :
        /\ AccessRules(p) /\ WritersComeFirst(p)
        /\ \A m \in DOMAIN p.mss : CacheIsLocal(p, m)}

ASSUME ExamplesAreLegal ==
    \A p \in Examples :
        AccessRules(p) /\ WritersComeFirst(p) /\ \A m \in DOMAIN p.mss : CacheIsLocal(p, m)

(* K caches, on a column of three levels or more. *)

None == {}
Fill == {"fill"}
Flush == {"flush"}

\* An operator with overloads for the first level, the last one and those between: what
\* it reads depends on the vertical offsets that stay on the axis.
ColumnOverloads(axis, With(_)) ==
    LET full == FullInterval(axis) IN
    {[at |-> FirstLevel(full), reads |-> With({0, 1})],
     [at |-> Modify(full, 1, -1), reads |-> With({-1, 0, 1})],
     [at |-> LastLevel(full), reads |-> With({-1, 0})]}

InColumn(axis, With(_)) == Operator(axis, ColumnOverloads(axis, With), {})

Window(f, D) == {<<f, 0, d>> : d \in D}

\* The solve of vertical advection: coefficients flushed on the way up, and kept in
\* registers or in memory on the way down, a window of the input filled.
Advection(back, axis) ==
    Computation({"c", "d", "x"}, <<
        Caching("forward", [c |-> Flush, d |-> Flush, in |-> Fill], <<
            [out |-> {"c", "d"},
             in  |-> InColumn(axis, LAMBDA D : Window("in", D) \cup Window("c", D \cap {-1})
                                                \cup Window("d", D \cap {-1}))]>>),
        Caching("backward", back, <<
            [out |-> {"x", "out"},
             in  |-> InColumn(axis, LAMBDA D : {<<"c", 0, 0>>, <<"d", 0, 0>>}
                                                \cup Window("x", D \cap {1}))]>>)>>)

\* A value accumulated in place along the loop.
Before(exec) == IF exec = "forward" THEN -1 ELSE 1

Accumulation(exec, axis) ==
    Computation({}, <<Caching(exec, [a |-> {"fill", "flush"}], <<
        [out |-> {"a"}, in |-> InColumn(axis, LAMBDA D : Window("a", D \cap {0, Before(exec)}))]>>)>>)

\* One loop with all kinds of caches: a window W of the input, an intermediate t and a
\* result that reads both at the level before; a later multistage may read both.
Columns(exec, W, kcIn, kcT, kcOut, later, axis) ==
    LET kc == [f \in (IF kcIn THEN {"in"} ELSE {}) \cup (IF kcT THEN {"t"} ELSE {})
                        \cup (IF kcOut THEN {"out"} ELSE {}) |->
                  CASE f = "in"  -> Fill
                    [] f = "t"   -> IF later THEN Flush ELSE None
                    [] f = "out" -> Flush]
        first == Caching(exec, kc, <<
                    [out |-> {"t"}, in |-> InColumn(axis, LAMBDA D : Window("in", D \cap W))],
                    [out |-> {"out"}, in |-> InColumn(axis, LAMBDA D :
                        {<<"t", 0, 0>>} \cup Window("t", D \cap {Before(exec)})
                                        \cup Window("out", D \cap {Before(exec)}))]>>)
        second == Multistage("forward", {}, <<
                    [out |-> {"v"}, in |-> InColumn(axis, LAMBDA D : {<<"t", 0, 0>>, <<"out", 0, 0>>})]>>)
    IN Computation({"t"}, IF later THEN <<first, second>> ELSE <<first>>)

Columned(axis) ==
    {Advection(back, axis) : back \in {<<>>, [x |-> None], [x |-> None, c |-> Fill, d |-> Fill]}}
    \cup {Accumulation(exec, axis) : exec \in {"forward", "backward"}}
    \cup {Columns(exec, W, kcIn, kcT, kcOut, later, axis) :
              exec \in {"forward", "backward"}, W \in SUBSET {-1, 0, 1} \ {{}},
              kcIn, kcT, kcOut \in BOOLEAN, later \in BOOLEAN}

\* Three levels that are an interval each, and two parts with an inner interval each.
ThreeLevels == Axis(<<3>>)
TwoParts    == Axis(<<3, 2>>)

ASSUME ColumnsAreLegal ==
    \A axis \in {ThreeLevels, TwoParts} : \A q \in Columned(axis) :
        /\ ValidOverloads(axis, ColumnOverloads(axis, LAMBDA D : Window("in", D)), {})
        /\ AccessRules(q) /\ WritersComeFirst(q)
        /\ \A m \in DOMAIN q.mss :
              KCachesAreLegal(Annotated(q), m, LevelsIn(axis, FullInterval(axis)), axis)

(* The intervals of an axis are its levels, for every small axis that has names enough. *)
ASSUME SmallAxesAreTiled ==
    \A parts \in 1 .. 3 : \A limit \in 1 .. 3 : \A sizes \in [1 .. parts -> 1 .. 2 * limit] :
        LET axis == [sizes |-> sizes, limit |-> limit] IN LargeEnough(axis) => Tiled(axis)

Whole   == Sizes(2, <<2>>, 2, 1, 1)     \* one block of two columns
Partial == Sizes(3, <<2>>, 2, 2, 2)     \* a full block and a partial one
Single  == Sizes(2, <<2>>, 1, 1, 2)     \* two blocks of one column
Tall    == Sizes(1, <<3>>, 1, 1, 1)     \* one column of three levels
Parts   == Sizes(2, <<3, 2>>, 1, 1, 1)  \* two columns with a splitter

Backends == {"naive", "cpu_kfirst", "cpu_ifirst", "gpu"}

\* gpu_horizontal runs computations of one parallel multistage.
IsHorizontal(p) == Len(p.mss) = 1 /\ IsParallel(p, 1)

MCInstances ==
    {On(backend, p, s) : backend \in Backends, p \in Examples, s \in {Whole, Partial, Single}}
    \cup {On(backend, p, Partial) : backend \in Backends \ {"gpu"}, p \in Chains}
    \cup {On("gpu", p, Whole) : p \in Chains}
    \cup {On("gpu_horizontal", p, s) : p \in {q \in Examples : IsHorizontal(q)}, s \in {Whole, Single}}
    \cup {On("gpu_horizontal", p, Partial) : p \in {q \in Examples \cup Chains : IsHorizontal(q)}}
    \cup {On("gpu", p, Tall) : p \in Columned(ThreeLevels)}
    \cup {On(backend, p, Parts) : backend \in Backends,
              p \in {Advection(back, TwoParts) : back \in {<<>>, [x |-> None]}}}

\* A barrier of a stage that has an operator at the upper level only.
UpperBarrier ==
    Computation({"a", "b", "c"}, <<Multistage("parallel", {}, <<
        Stage({"a"}, {<<"in", 0, 0>>}, {0, 1}),
        Stage({"b"}, {<<"a", 1, 0>>}, {1}),
        Stage({"c"}, {<<"a", 1, 0>>}, {0, 1}),
        Solve({"out"}, {<<"c", -1, 0>>}, {<<"c", -1, 0>>, <<"b", 1, 0>>}, Axis(<<2>>))>>)>>)

\* A barrier that moves: c has it and is fused behind b, which u no longer waits for.
MovedBarrier ==
    Computation({"a", "b", "c", "w"}, <<Multistage("parallel", {}, <<
        Stage({"a"}, {<<"in", 0, 0>>}, {0}),
        Stage({"b"}, {<<"in", 0, 0>>}, {0}),
        Stage({"c"}, {<<"a", 1, 0>>}, {0}),
        Stage({"u"}, {<<"b", 2, 0>>}, {0}),
        Stage({"w"}, {<<"c", 1, 0>>}, {0}),
        Stage({"x"}, {<<"w", 1, 0>>}, {0})>>)>>)

ASSUME BarriersAreLegal ==
    \A q \in {UpperBarrier, MovedBarrier} : AccessRules(q) /\ WritersComeFirst(q)

MCBarriers == {On("gpu", q, Whole) : q \in {UpperBarrier, MovedBarrier}}

\* Two multistages of one launch; the second has no operator at the lowest level.
LaterStart ==
    Computation({"a"}, <<
        Multistage("parallel", {}, <<Stage({"a"}, {<<"in", 0, 0>>}, {0, 1})>>),
        Multistage("parallel", {}, <<Stage({"out"}, {<<"a", 0, 0>>}, {1})>>)>>)

ASSUME LaterStartIsLegal == AccessRules(LaterStart) /\ WritersComeFirst(LaterStart)

MCLaterStart == {On("gpu", LaterStart, Whole)}
=============================================================================
