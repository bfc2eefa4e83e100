--------------------------- MODULE MCFieldProgram ---------------------------
(* Programs for all traits, backends of reductions and kinds of atomics. *)
EXTENDS FieldProgram

Lengths(known, sizes) ==
  [d \in 0..Len(sizes)-1 |-> IF d + 1 \in known THEN Known(sizes[d + 1]) ELSE AtRunTime(sizes[d + 1])]
AllIndices(sizes) == Indices([lengths |-> Lengths({}, sizes)])

\* Different values, the same along the dimensions not in dims.
Value(from, is, dims) ==
  SetToBag({ from + SumFunction([d \in DOMAIN is |-> IF d \in dims THEN is[d] * 8^d ELSE 0]) })
Values(from, sizes, dims) == [is \in AllIndices(sizes) |-> Value(from, is, dims)]

\* Calls.
Uninitialized(name, b) == [op |-> "build", name |-> name, builder |-> b, first |-> <<>>]
Initializing(name, b, values) ==
  [op |-> "build", name |-> name, builder |-> SetInitializer(b, values), first |-> values]
OneValue(name, b, v, sizes) ==
  [op |-> "build", name |-> name, builder |-> SetValue(b, SetToBag({v})),
   first |-> [is \in AllIndices(sizes) |-> SetToBag({v})]]
Reducible(name, b) == [op |-> "reducible", name |-> name, builder |-> b]
AssignTo(name, how, values) == [op |-> "assign", name |-> name, how |-> how, values |-> values]
Copying(from, to) == [op |-> "transform", from |-> from, to |-> to]
Reducing(name) == [op |-> "reduce", name |-> name]
CArray(name, extents, values) == [op |-> "array", name |-> name, extents |-> extents, first |-> values]
Dropping(name) == [op |-> "drop", name |-> name]
Exiting == [op |-> "exit"]
Atomically(value, ops) == [op |-> "accumulate", value |-> value, ops |-> ops]

Sized(size, known, lengths) == SetDimensions(SetType(NothingSet, size), Lengths(known, lengths))
Halo(b, halos) == SetHalos(b, [d \in 0..Len(halos)-1 |-> halos[d + 1]])
Selected(b, traits, mask) == SetSelector(b, traits, [d \in 0..Len(mask)-1 |-> mask[d + 1]])
InLayout(b, l) == SetLayout(b, [d \in 0..Len(l)-1 |-> l[d + 1]])

\* Programs.
Program(traits, backend, env, atomics, calls) ==
  [traits |-> traits, backend |-> backend, threads |-> 2, env |-> env, atomics |-> atomics, calls |-> calls]

Gpu(max, shufflable) == [name |-> "gpu", maxThreads |-> max, warpSize |-> 2, shufflable |-> shufflable]
Cpu == [name |-> "cpu"]
Naive == [name |-> "naive"]
NoAtomics == [platform |-> "none"]

\* Lines of 3 in units of 4, aligned at the second element, and their transpose.
Padded == Halo(Sized(2, {}, <<3, 2>>), <<1, 0>>)
Layouts2 == Program("gpu", Gpu(4, TRUE), "", NoAtomics,
  << Initializing("a", Padded, Values(1, <<3, 2>>, {0, 1})),
     Uninitialized("b", InLayout(Sized(2, {}, <<3, 2>>), <<0, 1>>)),
     Copying("a", "b"), Dropping("a"), Dropping("b"), Exiting >>)

\* A fourth dimension: one kernel, two elements per thread.
Layouts4 == Program("gpu", Gpu(4, TRUE), "", NoAtomics,
  << OneValue("a", Sized(8, {4}, <<2, 1, 1, 2>>), 5, <<2, 1, 1, 2>>),
     Uninitialized("b", InLayout(Sized(8, {}, <<2, 1, 1, 2>>), <<0, 3, 1, 2>>)),
     Uninitialized("c", InLayout(Sized(8, {}, <<2, 1, 1, 2>>), <<0, 3, 2, 1>>)),
     Copying("a", "b"), Dropping("a"), Dropping("b"), Dropping("c"), Exiting >>)

\* On the host, launches for five dimensions, from a storage without the first one.
Layouts5 == Program("cpu_kfirst", Cpu, "", NoAtomics,
  << Initializing("a", Selected(Sized(1, {}, <<2, 1, 1, 2, 2>>), "cpu_kfirst", <<FALSE, TRUE, TRUE, TRUE, TRUE>>),
                  Values(1, <<2, 1, 1, 2, 2>>, {1, 2, 3, 4})),
     Uninitialized("b", Sized(1, {1, 2}, <<2, 1, 1, 2, 2>>)),
     Copying("a", "b"), Dropping("a"), Dropping("b"), Exiting >>)

\* A reducible after another that left its buffer, on a GPU: kernels of every kind.
Reductions(max, shufflable, size, lengths) == Program("gpu", Gpu(max, shufflable), "", NoAtomics,
  << Reducible("r", Sized(size, {}, lengths)),
     AssignTo("r", "range", Values(1, lengths, {0, 1})),
     Reducing("r"), Dropping("r"),
     Reducible("s", Sized(size, {}, lengths)),
     AssignTo("s", "range", [is \in AllIndices(lengths) |-> SetToBag({7})]),
     Reducing("s"), Dropping("s"), Exiting >>)

\* The same on the host, with memory from huge pages.
HostReductions(backend, env) == Program("cpu_ifirst", backend, env, NoAtomics,
  << Initializing("a", Halo(Sized(6, {1}, <<3, 2>>), <<1, 1>>), Values(1, <<3, 2>>, {0, 1})),
     Reducible("r", Sized(2, {}, <<3, 2>>)),
     AssignTo("r", "loops", Values(1, <<3, 2>>, {0, 1})),
     Reducing("r"), Dropping("a"), Dropping("r"),
     Reducible("s", Sized(2, {1, 2}, <<1, 3, 2>>)),
     AssignTo("s", "range", Values(1, <<1, 3, 2>>, {2})),
     Reducing("s"), AssignTo("s", "loops", Values(20, <<1, 3, 2>>, {1})), Dropping("s"), Exiting >>)

-----------------------------------------------------------------------------
(* Stencils.                                                                  *)

Off(i, j, k) == [d \in 0..2 |-> IF d = 0 THEN i ELSE IF d = 1 THEN j ELSE k]
None == [d \in 0..2 |-> <<0, 0>>]
IExtent(m, p) == [None EXCEPT ![0] = <<m, p>>]
JExtent(m, p) == [None EXCEPT ![1] = <<m, p>>]

\* What is read where, of a sequence of cells executed with a step in k.
Rule(cells, members, kstart, kstep) ==
  LET upto[n \in 0..Len(cells)] == IF n = 0 THEN 0 ELSE upto[n - 1] + cells[n].size
      cellOf(x) == CHOOSE n \in DOMAIN cells : upto[n - 1] <= x /\ x < upto[n]
      named(from) == [r \in DOMAIN from |-> <<members[from[r][1]], from[r][2]>>]
  IN  [k \in 0..upto[Len(cells)]-1 |-> named(cells[cellOf((k - kstart) * kstep)].from)]

StageOf(members, ext, kstart, kstep, cells) ==
  [members |-> members, ext |-> ext, kstart |-> kstart, kstep |-> kstep, cells |-> cells,
   sets |-> members[cells[1].to], rule |-> Rule(cells, members, kstart, kstep)]
Cell(size, to, from) == [size |-> size, to |-> to, from |-> from]

Renamed(name, names) == [what |-> "renamed", name |-> name, names |-> names]
Field(name) == [what |-> "field", name |-> name]
Position(d) == [what |-> "positional", dim |-> d]
Parameter(v) == [what |-> "parameter", value |-> v]

GridOf(i, j, k) == [i |-> i, j |-> j, k |-> k, kstart |-> 0]
Running2(args, grid, origin, tmps, stages) ==
  [op |-> "sweep", args |-> args,
   sweep |-> [grid |-> grid, origin |-> origin, tmps |-> tmps, stages |-> stages,
              sets |-> { stages[s].sets : s \in DOMAIN stages } \cap DOMAIN args]]

\* Two temporaries of the same extent, three columns in blocks of two, two rows; storages
\* of different strides that have ids.
Smoothing == Program("cpu_kfirst", Cpu, "", NoAtomics,
  << Initializing("u", Halo(SetId(Sized(1, {}, <<5, 2, 1>>), "u"), <<1, 0, 0>>), Values(1, <<5, 2, 1>>, {0, 1})),
     Uninitialized("v", SetUnknownId(Sized(1, {}, <<5, 4, 1>>))),
     Initializing("c", SetUnknownId(Selected(Sized(1, {}, <<5, 2, 1>>), "cpu_kfirst", <<TRUE, FALSE, FALSE>>)),
                  Values(100, <<5, 2, 1>>, {0})),
     Running2(("in" :> Field("u")) @@ ("out" :> Field("v")) @@ ("coeff" :> Field("c"))
                @@ ("i" :> Position(0)) @@ ("p" :> Parameter(-7)),
              GridOf(3, 2, 1), Off(1, 0, 0),
              << [name |-> "t", ext |-> IExtent(-1, 1), size |-> 1], [name |-> "s", ext |-> IExtent(-1, 1), size |-> 1] >>,
              << StageOf(<<"in", "t">>, IExtent(-1, 1), 0, 1, << Cell(1, 2, << <<1, Off(0, 0, 0)>> >>) >>),
                 StageOf(<<"t", "s", "coeff">>, IExtent(-1, 1), 0, 1,
                         << Cell(1, 2, << <<1, Off(0, 0, 0)>>, <<3, Off(0, 0, 0)>> >>) >>),
                 StageOf(<<"coeff", "out", "t", "s", "i", "p">>, None, 0, 1,
                         << Cell(1, 2, << <<3, Off(-1, 0, 0)>>, <<4, Off(1, 0, 0)>>, <<5, Off(0, 0, 0)>>,
                                          <<6, Off(0, 0, 0)>>, <<1, Off(0, 0, 0)>> >>) >>) >>),
     Dropping("u"), Dropping("v"), Dropping("c"), Exiting >>)

\* A solver: downwards from the first level, then upwards from the last one, with a C array
\* of coefficients by level and column.
Solving == Program("cpu_kfirst", Cpu, "", NoAtomics,
  << Initializing("u", Sized(1, {}, <<2, 2, 3>>), Values(1, <<2, 2, 3>>, {0, 1, 2})),
     Uninitialized("v", Sized(1, {}, <<2, 2, 3>>)),
     CArray("c", <<3, 2>>, Values(1000, <<3, 2>>, {0, 1})),
     Running2(("in" :> Field("u")) @@ ("out" :> Field("v")) @@ ("coeff" :> Renamed("c", <<DimK, DimI>>)),
              GridOf(2, 2, 3), Off(0, 0, 0),
              << [name |-> "t", ext |-> None, size |-> 1] >>,
              << StageOf(<<"in", "t", "coeff">>, None, 0, 1,
                         << Cell(1, 2, << <<1, Off(0, 0, 0)>> >>),
                            Cell(2, 2, << <<1, Off(0, 0, 0)>>, <<2, Off(0, 0, -1)>>, <<3, Off(0, 0, 0)>> >>) >>),
                 StageOf(<<"t", "out">>, None, 2, -1,
                         << Cell(1, 2, << <<1, Off(0, 0, 0)>> >>),
                            Cell(2, 2, << <<1, Off(0, 0, 0)>>, <<2, Off(0, 0, 1)>> >>) >>) >>),
     Dropping("u"), Dropping("v"), Dropping("c"), Exiting >>)

-----------------------------------------------------------------------------
(* Atomics.                                                                   *)

CONSTANTS w1, w2, w3

Atomic(platform, type, value, a, b, c) ==
  Program("cpu_kfirst", Naive, "", [platform |-> platform, type |-> type],
          << Atomically(value, [w \in Workers |-> IF w = w1 THEN a ELSE IF w = w2 THEN b ELSE c]) >>)

Minima == { Atomic("cuda", t, 5, << <<"min", 3>>, <<"max", 4>> >>, << <<"min", 2>>, <<"exch", 9>> >>, << <<"add", 1>> >>) :
              t \in {"int", "float", "double"} }
Sums == { Atomic("cuda", t, 0, << <<"add", 1>>, <<"sub", 5>> >>, << <<"sub", 2>>, <<"exch", 9>> >>, << <<"add", 1>> >>) :
            t \in {"float", "double"} }
OnHost == { Atomic("openmp", "double", 0, << <<"add", 1>>, <<"sub", 2>> >>, << <<"exch", 4>> >>, << <<"add", 1>> >>),
            Atomic("openmp", "double", 5, << <<"min", 3>>, <<"min", 1>> >>, << <<"min", 2>> >>, << <<"min", 7>> >>),
            Atomic("openmp 3.0", "int", 5, << <<"sub", 3>> >>, << <<"sub", 2>>, <<"sub", 1>> >>, << <<"sub", 7>> >>) }

Programs ==
  { Layouts2, Layouts4, Layouts5, Smoothing, Solving }
  \cup { Reductions(4, s, 2, <<3, 2>>) : s \in BOOLEAN }
  \cup { Reductions(2, s, 8, <<16>>) : s \in BOOLEAN }
  \cup { HostReductions(b, env) : b \in {Cpu, Naive}, env \in {"disable", "explicit", ""} }
  \cup Minima \cup Sums \cup OnHost

Spec == (\E p \in Programs : InitWith(p)) /\ [][Next]_allVars /\ Fairness
=============================================================================
