--------------------------------- MODULE Sid ---------------------------------
(* The SID concept (sid/concept.hpp), data that is accessed through strides,  *)
(* what models it or adapts it, and (sid/composite.hpp and sid/loop.hpp)      *)
(* several SIDs accessed as one, and the loops that take a pointer to them    *)
(* along.                                                                     *)
(*                                                                            *)
(* A SID is a function from the properties it provides: "origin", a pointer   *)
(* holder, and optionally "strides", "kind", "lower" and "upper".  Strides    *)
(* and bounds are functions from dimensions.  A pointer holder is where it    *)
(* points and how far one element is from the next; what is shifted is an     *)
(* offset, in elements, whether of type ptr or ptr_diff.                      *)
EXTENDS StorageBuilder, Sequences

SX == INSTANCE SequencesExt

\* stencil/common/dim.hpp
DimI == 0
DimJ == 1
DimK == 2
DimC == 3
DimThread == 9

\* sid::blocked_dim
Blocked(d) == d + 10

\* dereferencing gives memory, the position itself, or the value of a parameter.
PtrHolder(at, size) == [at |-> at, size |-> size, what |-> "memory"]

\* operator+ of a holder and a ptr_diff.
Advanced(holder, offset) == [holder EXCEPT !.at = @ + offset * holder.size]

-----------------------------------------------------------------------------
(* The concept.                                                               *)

Property(s, p, default) == IF p \in DOMAIN s THEN s[p] ELSE default

GetOrigin(s) == s.origin
GetStrides(s) == Property(s, "strides", <<>>)

\* The kind of strides that say all is their type.
DefaultKind(strides) == <<"strides", TypeOf(strides)>>
GetKind(s) == IF "kind" \in DOMAIN s THEN s.kind ELSE DefaultKind(GetStrides(s))

GetLowerBounds(s) == Property(s, "lower", <<>>)
GetUpperBounds(s) == Property(s, "upper", <<>>)

\* A dimension without stride has stride 0; one without bounds has none.
GetStride(strides, d) == IF d \in DOMAIN strides THEN strides[d] ELSE Known(0)
NoBound == 1000000
GetLowerBound(bounds, d) == IF d \in DOMAIN bounds THEN bounds[d] ELSE Known(-NoBound)
GetUpperBound(bounds, d) == IF d \in DOMAIN bounds THEN bounds[d] ELSE Known(NoBound)

NeedShift(stride, offset) == ~IsKnownAs(stride, 0) /\ ~IsKnownAs(offset, 0)

\* shift: nine overloads, by what is known of stride and offset, that differ in the
\* instruction they use.
Shift(obj, stride, offset) ==
  IF NeedShift(stride, offset) THEN obj + stride.v * offset.v ELSE obj

\* multi_shifted: along all dimensions that have an offset.
MultiShifted(obj, strides, offsets) ==
  SX!FoldLeft(LAMBDA o, d : Shift(o, GetStride(strides, d), offsets[d]), obj, SX!SetToSeq(DOMAIN offsets))

-----------------------------------------------------------------------------
(* What models the concept.                                                   *)

\* sid::synthetic() and set<Property>(value).
Synthetic == <<>>
Set(s, property, value) == property :> value @@ s

\* A C array of the given extents, the last of stride 1.
ArraySid(holder, extents) ==
  LET n == Len(extents)
      stride[d \in 0..n-1] == IF d = n - 1 THEN 1 ELSE extents[d + 2] * stride[d + 1]
  IN  [origin |-> holder,
       strides |-> [d \in 0..n-1 |-> Known(stride[d])],
       lower |-> [d \in 0..n-1 |-> Known(0)],
       upper |-> [d \in 0..n-1 |-> Known(extents[d + 1])]]

\* A data store whose target pointer is ptr: masked dimensions have no bounds.
StorageSid(s, ptr) ==
  LET unmasked == { d \in DOMAIN s.layout : s.layout[d] >= 0 }
  IN  [origin |-> PtrHolder(ptr, s.size), strides |-> s.info.strides, kind |-> s.kind,
       lower |-> [d \in unmasked |-> Known(0)],
       upper |-> [d \in unmasked |-> s.info.lengths[d]]]

\* stride_util: sizes is a sequence of <<dimension, size>>, the first of stride 1.
SizesProduct(sizes) == SX!FoldLeft(LAMBDA p, x : Times(p, x[2]), Known(1), sizes)
StridesFromSizes(sizes) ==
  [d \in { sizes[n][1] : n \in DOMAIN sizes } |->
     SizesProduct(SubSeq(sizes, 1, (CHOOSE n \in DOMAIN sizes : sizes[n][1] = d) - 1))]
TotalSize(sizes) == SizesProduct(sizes).v

SizeOf(sizes, d) == sizes[CHOOSE n \in DOMAIN sizes : sizes[n][1] = d][2]

\* make_contiguous, of memory that has been allocated.
Contiguous(holder, sizes, kind) ==
  LET strides == StridesFromSizes(sizes)
  IN  Set(Set(Set(Set(Set(Synthetic, "origin", holder), "strides", strides), "kind", kind),
              "upper", [d \in DOMAIN strides |-> SizeOf(sizes, d)]),
          "lower", [d \in DOMAIN strides |-> Known(0)])

\* stencil::positional<Dim>: what is shifted is the position.
Positional(d) ==
  [origin |-> [at |-> 0, size |-> 1, what |-> "position"],
   strides |-> [x \in {d} |-> AtRunTime(1)], kind |-> <<"positional", d>>]

\* stencil::global_parameter: nothing shifts it.
GlobalParameter(value) == [origin |-> [at |-> value, size |-> 0, what |-> "position"]]

-----------------------------------------------------------------------------
(* Adapters.  sid::delegate: a property that is not replaced is the adapted   *)
(* SID's.                                                                     *)

Delegate(s, replaced) == replaced @@ s

\* block_stride, also of strides that are no numbers, whose blocked_stride multiplies
\* when it is applied.  What is known of the stride is lost.
BlockStride(stride, size) == Times(AtRunTime(stride.v), size)

\* block: a stride more for every dimension that has one and a size of blocks.
Block(s, sizes) ==
  LET common == DOMAIN sizes \cap DOMAIN GetStrides(s)
  IN  IF common = {} THEN s
      ELSE Delegate(s, [strides |-> [d \in { Blocked(x) : x \in common } |->
                                       BlockStride(s.strides[d - 10], sizes[d - 10])] @@ s.strides,
                        kind |-> IF GetKind(s) = UnknownKind THEN UnknownKind
                                 ELSE <<"block", GetKind(s), TypeOf(sizes)>>])

\* add_offsets
AddOffsets(bounds, offsets) ==
  [d \in DOMAIN bounds |-> IF d \in DOMAIN offsets THEN Minus(bounds[d], offsets[d]) ELSE bounds[d]]

\* shift_sid_origin
ShiftSidOrigin(s, offsets) ==
  Delegate(s, [origin |-> Advanced(s.origin, MultiShifted(0, GetStrides(s), offsets)),
               lower |-> AddOffsets(GetLowerBounds(s), offsets),
               upper |-> AddOffsets(GetUpperBounds(s), offsets)])

\* rename_dimensions: new is a function from old to new names, of some dimensions.
Remap(f, new) ==
  LET name(d) == IF d \in DOMAIN new THEN new[d] ELSE d
  IN  [d \in { name(x) : x \in DOMAIN f } |-> f[CHOOSE x \in DOMAIN f : name(x) = d]]

RenameDimensions(s, new) ==
  LET renamed == [strides |-> Remap(GetStrides(s), new),
                  lower |-> Remap(GetLowerBounds(s), new),
                  upper |-> Remap(GetUpperBounds(s), new)]
  IN  Delegate(s, IF "kind" \notin DOMAIN s THEN renamed
                  ELSE "kind" :> (IF s.kind = UnknownKind THEN UnknownKind
                                  ELSE <<"renamed", s.kind, new>>) @@ renamed)

\* rename_numbered_dimensions
RenameNumberedDimensions(s, names) == RenameDimensions(s, [n \in 0..Len(names)-1 |-> names[n + 1]])

-----------------------------------------------------------------------------
(* Composites.  Strides and offsets of SIDs of the same kind are the same, so *)
(* that one of them, the primary, is kept for all.                            *)
(*                                                                            *)
(* A composite is a function from its keys 1..n to SIDs.  Its pointers and    *)
(* strides are functions from the keys, its offsets are functions from the    *)
(* primaries.                                                                 *)

\* replace_unknown_kind: the kind of nobody else.
ReplacedKind(c, n) == IF GetKind(c[n]) = UnknownKind THEN <<"unique", n>> ELSE GetKind(c[n])

\* make_index_map: keys to the first key of the same kind.
Primary(c, n) == CHOOSE m \in DOMAIN c :
                   /\ ReplacedKind(c, m) = ReplacedKind(c, n)
                   /\ \A k \in 1..m-1 : ReplacedKind(c, k) # ReplacedKind(c, n)
Primaries(c) == { Primary(c, n) : n \in DOMAIN c }

StrideKeys(c) == UNION { DOMAIN GetStrides(c[n]) : n \in DOMAIN c }

\* normalize_strides: a SID without the dimension has stride 0.  Secondaries get the
\* strides of their primary.
CompositeStrides(c) ==
  [d \in StrideKeys(c) |-> [n \in DOMAIN c |-> GetStride(GetStrides(c[Primary(c, n)]), d)]]

\* are_secondaries_equal_to_primary: asserted where strides are put into a composite.
SecondariesEqualPrimary(c) ==
  \A n \in DOMAIN c, d \in StrideKeys(c) :
    GetStride(GetStrides(c[n]), d).v = GetStride(GetStrides(c[Primary(c, n)]), d).v

CompositeStride(strides, c, d) ==
  IF d \in DOMAIN strides THEN strides[d] ELSE [n \in DOMAIN c |-> Known(0)]

\* composite_ptr_holder
CompositeOrigin(c) == [n \in DOMAIN c |-> GetOrigin(c[n])]

\* A default constructed ptr_diff.
NoOffset(c) == [n \in Primaries(c) |-> 0]

\* sid_shift of a ptr_diff, and of pointers.
ShiftOffset(diff, stride, offset) == [n \in DOMAIN diff |-> Shift(diff[n], stride[n], offset)]
ShiftPtr(ptr, stride, offset) == [n \in DOMAIN ptr |-> Advanced(ptr[n], Shift(0, stride[n], offset))]

\* operator+ of pointers and a ptr_diff: members of the same kind move alike.
PlusOffset(c, ptr, diff) == [n \in DOMAIN ptr |-> Advanced(ptr[n], diff[Primary(c, n)])]

\* A composite is a SID of unknown kind.
CompositeSid(c) ==
  [origin |-> CompositeOrigin(c), strides |-> CompositeStrides(c), kind |-> UnknownKind]

-----------------------------------------------------------------------------
(* Loops over the dimensions of a composite, and ranges, which do the same    *)
(* for a range-based for.                                                     *)
(*                                                                            *)
(* What a loop, or its body, does with a pointer is a walk: where it is used  *)
(* and for what, in order, and where it is left in the end, as offsets of all *)
(* members from where it was.                                                 *)

\* make_loop: of a loop that is known to be run once or never, the step is dropped.
MakeLoop(d, num, step) ==
  [d |-> d, num |-> num, step |-> IF num.known /\ num.v < 2 THEN Known(0) ELSE step]

Standing(keys) == [seen |-> <<>>, end |-> [n \in keys |-> 0]]
Using(walk, use) == [walk EXCEPT !.seen = Append(@, [at |-> walk.end, use |-> use])]
StepOnce(walk, stride, offset) == [walk EXCEPT !.end = ShiftOffset(@, stride, offset)]

\* A walk, and another from where it ends.
AndThen(walk, body) ==
  LET from(offs) == [n \in DOMAIN offs |-> walk.end[n] + offs[n]]
  IN  [seen |-> walk.seen \o [x \in DOMAIN body.seen |-> [body.seen[x] EXCEPT !.at = from(@)]],
       end |-> from(body.end)]

\* for (i = 0; i < num_steps; ++i): the body, and a step behind each.
Stepping(loop, stride, body) ==
  LET after[n \in 0..loop.num.v] ==
        IF n = 0 THEN Standing(DOMAIN stride) ELSE StepOnce(AndThen(after[n - 1], body), stride, loop.step)
  IN  after[loop.num.v]

\* generic_loop and known_step_loop: all the way back, if there was a way.
RunNumber(loop, stride, body) ==
  IF loop.num.v <= 0 THEN Standing(DOMAIN stride)
  ELSE StepOnce(Stepping(loop, stride, body), stride, Negated(Times(loop.step, loop.num)))

\* known_num_steps_loop and all_known_loop.
RunKnownNumber(loop, stride, body) ==
  StepOnce(Stepping(loop, stride, body), stride, Negated(Times(loop.step, loop.num)))

\* Loops of step 0: the pointer stays.
RunInPlace(loop, stride, body) ==
  LET after[n \in 0..loop.num.v] ==
        IF n = 0 THEN Standing(DOMAIN stride) ELSE AndThen(after[n - 1], body)
  IN  IF loop.num.v <= 0 THEN Standing(DOMAIN stride) ELSE after[loop.num.v]

\* Mutant: the pointer is left behind the last element.
RunLoopOnly(loop, stride, body) ==
  IF loop.num.v <= 0 THEN Standing(DOMAIN stride) ELSE Stepping(loop, stride, body)

\* operator() of the loops that make_loop returns, around a body.
RunLoop(loop, stride, body) ==
  IF IsKnownAs(loop.step, 0) THEN RunInPlace(loop, stride, body)
  ELSE IF loop.num.known THEN RunKnownNumber(loop, stride, body)
  ELSE RunNumber(loop, stride, body)

\* Loops around one another, the last the innermost.
Nested(loops, strides, c, body) ==
  SX!FoldRight(LAMBDA loop, inner : RunLoop(loop, CompositeStride(strides, c, loop.d), inner), loops, body)

\* The pointers a walk from ptr has.
OnTheWay(walk, ptr) == [x \in DOMAIN walk.seen |-> [n \in DOMAIN ptr |-> Advanced(ptr[n], walk.seen[x].at[n])]]

-----------------------------------------------------------------------------
(* Cursors: the position of every loop.  All but the outermost one count up   *)
(* from 0, the outermost one counts down and never wraps.                     *)

\* Of a loop that is known to run once, the inner cursor is none, and the outermost one ends
\* before its first step.
RunsOnce(loop) == IsKnownAs(loop.num, 1)

\* The cursor of a loop that is known to have no steps has always more of them.
Endless(loop) == IsKnownAs(loop.num, 0)

\* done of the outermost cursor, which says whether there is more.
OutermostMore(loop, pos) == ~RunsOnce(loop) /\ (Endless(loop) \/ pos > 0)

\* done of an inner cursor: as its outer cursor says, but without steps.
InnerMore(loop, outer) == (~RunsOnce(loop) /\ loop.num.v <= 0) \/ outer

\* operator!= of a range.
More(loops, pos) ==
  LET last == Len(loops)
      from[n \in 1..last] ==
        IF n = last THEN OutermostMore(loops[n], pos[n]) ELSE InnerMore(loops[n], from[n + 1])
  IN  from[1]

\* make_cursor
Started(loops) == [n \in DOMAIN loops |-> IF n = Len(loops) THEN loops[n].num.v ELSE 0]

\* next of an inner cursor that is through: back to the start, and the outer one goes on.
Through(loop, pos) == pos + 1 = loop.num.v
WayBack(loop) == Times(loop.step, Minus(Known(1), loop.num))

\* operator++ of a range.
Advance(loops, strides, c, w) ==
  LET last == Len(loops)
      m == CHOOSE n \in 1..last : /\ n = last \/ ~Through(loops[n], w.pos[n])
                                  /\ \A k \in 1..n-1 : Through(loops[k], w.pos[k])
      by(n) == IF n = m THEN loops[n].step ELSE WayBack(loops[n])
      ptr[n \in 0..m] == IF n = 0 THEN w.ptr
                         ELSE ShiftPtr(ptr[n - 1], CompositeStride(strides, c, loops[n].d), by(n))
  IN  [ptr |-> ptr[m],
       pos |-> [n \in 1..last |-> IF n < m THEN 0
                                  ELSE IF n > m THEN w.pos[n]
                                  ELSE IF m = last THEN w.pos[n] - 1 ELSE w.pos[n] + 1]]

\* make_range(ptr, strides, loops...), the first loop the innermost: the pointers that a
\* range-based for sees.
RECURSIVE RangeFrom(_, _, _, _)
RangeFrom(loops, strides, c, w) ==
  IF More(loops, w.pos) THEN <<w.ptr>> \o RangeFrom(loops, strides, c, Advance(loops, strides, c, w))
  ELSE <<>>
MakeRange(loops, strides, c, ptr) ==
  RangeFrom(loops, strides, c, [ptr |-> ptr, pos |-> Started(loops)])
=============================================================================
