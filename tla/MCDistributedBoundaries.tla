----------------------- MODULE MCDistributedBoundaries -----------------------
(* Grids and calls for model checking DistributedBoundaries.                 *)
EXTENDS DistributedBoundaries

CONSTANTS a, b, c, d

Axis3(x, y, z) == [n \in Axes |-> CASE n = 1 -> x [] n = 2 -> y [] n = 3 -> z]

Dims311 == Axis3(3, 1, 1)
Dims221 == Axis3(2, 2, 1)
Open      == Axis3(FALSE, FALSE, FALSE)
Periodic1 == Axis3(TRUE, FALSE, FALSE)

Width(m, p) == [minus |-> m, plus |-> p, begin |-> m, end |-> m + 1, total |-> m + p + 2]
Horizontal  == Axis3(Width(1, 1), Width(1, 1), Width(0, 0))

ABCD == {a, b, c, d}

Do(what, jobs) == [what |-> what, jobs |-> jobs]

\* The calls in the documentation and the test: value, copy from a read-only
\* store, and a plain store; then the same without communication.
Documented == << BindBc("value", <<Store(a)>>),
                 Associate(BindBc("copy", <<Store(b), Place(1)>>), <<c>>), Plain(d) >>
Extending  == << BindBc("extend", <<Store(d)>>), Plain(b) >>

\* The last call has more jobs than there is room for.
DocumentedCalls == << Do("boundary_only", Documented), Do("exchange", Extending),
                      Do("exchange", Documented), Do("exchange", Append(Documented, Plain(c))) >>

\* A boundary condition with two stores of its own, as the documentation of
\* copy_boundary and value_boundary has it.
TwoStores == << Do("exchange", << BindBc("value", <<Store(a), Store(b)>>), Plain(d) >>),
                Do("exchange", << BindBc("value", <<Store(a)>>), Plain(d) >>) >>
=============================================================================
