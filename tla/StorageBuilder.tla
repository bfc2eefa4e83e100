--------------------------- MODULE StorageBuilder ---------------------------
(* Storages, from the parameters a builder has collected to a layout, strides *)
(* and an allocation: storage/info.hpp, storage/traits.hpp,                   *)
(* storage/builder.hpp and what storage/data_store.hpp does when it           *)
(* constructs a store.                                                        *)
EXTENDS LayoutMap, Functions, Bags, TLC

-----------------------------------------------------------------------------
(* common/integral_constant.hpp: numbers that may be part of a type.  A       *)
(* number here is its value and whether the compiler knows it; which overload *)
(* of a function is taken, and which types are the same, depends on both.     *)

\* integral_constant<T, n>, and a number that is an object.
Known(n) == [v |-> n, known |-> TRUE]
AtRunTime(n) == [v |-> n, known |-> FALSE]

\* is_integral_constant_of
IsKnownAs(a, n) == a.known /\ a.v = n

\* What an operator gives: an integral_constant for two of them.
Result(n, a, b) == [v |-> n, known |-> a.known /\ b.known]
Plus(a, b) == Result(a.v + b.v, a, b)
Minus(a, b) == Result(a.v - b.v, a, b)
Times(a, b) == Result(a.v * b.v, a, b)
Quotient(a, b) == Result(a.v \div b.v, a, b)
Negated(a) == [a EXCEPT !.v = -@]

\* The type of a tuple of numbers: the values the compiler knows.
TypeOf(f) == [d \in DOMAIN f |-> IF f[d].known THEN <<f[d].v>> ELSE <<>>]

-----------------------------------------------------------------------------
(* The lengths and the strides of a storage, given its layout and the         *)
(* alignment, in elements, of its innermost dimension.                        *)

MaxArg(l) == Cardinality({ i \in DOMAIN l : l[i] >= 0 }) - 1

RoundUp(n, k) == ((n + k - 1) \div k) * k

\* The innermost dimension is padded, unless it is the only one.
PaddedLengths(l, align, lengths) ==
  [d \in DOMAIN l |->
     IF l[d] = -1 THEN Known(1)
     ELSE IF l[d] = MaxArg(l) /\ MaxArg(l) # 0
       THEN Times(Quotient(Minus(Plus(lengths[d], align), Known(1)), align), align)
       ELSE lengths[d]]

\* Mutant: strides count the elements of a line without its padding.
StridesUnpadded(l, align, lengths) ==
  LET at[p \in 0..MaxArg(l)] ==
        IF p = MaxArg(l) THEN Known(1) ELSE Times(lengths[Find(l, p + 1)], at[p + 1])
  IN  [d \in DOMAIN l |-> IF l[d] = -1 THEN Known(0) ELSE at[l[d]]]

Strides(l, align, lengths) ==
  LET padded == PaddedLengths(l, align, lengths)
      at[p \in 0..MaxArg(l)] ==
        IF p = MaxArg(l) THEN Known(1) ELSE Times(padded[Find(l, p + 1)], at[p + 1])
  IN  [d \in DOMAIN l |-> IF l[d] = -1 THEN Known(0) ELSE at[l[d]]]

MakeInfo(l, align, lengths) ==
  [lengths |-> lengths, strides |-> Strides(l, align, lengths)]

IndexOf(info, is) == SumFunction([d \in DOMAIN is |-> is[d] * info.strides[d].v])

InfoLength(info) ==
  IF \E d \in DOMAIN info.lengths : info.lengths[d].v = 0 THEN 0
  ELSE IndexOf(info, [d \in DOMAIN info.lengths |-> info.lengths[d].v - 1]) + 1

\* The indices a user may ask for.
InRange(info, is) == \A d \in DOMAIN info.lengths : is[d] < info.lengths[d].v

Indices(info) ==
  LET most == CHOOSE n \in { info.lengths[d].v : d \in DOMAIN info.lengths } :
                \A d \in DOMAIN info.lengths : info.lengths[d].v <= n
  IN  { is \in [DOMAIN info.lengths -> 0..most - 1] : InRange(info, is) }

\* Mutant: the outermost dimension is not divided out of a position.
RestoreIndicesFlat(info, l, src) ==
  [d \in DOMAIN l |->
     IF l[d] = -1 THEN info.lengths[d].v - 1 ELSE src \div info.strides[d].v]

\* The indices of the element at a position, in range or in the padding.
RestoreIndices(info, l, src) ==
  [d \in DOMAIN l |->
     IF l[d] = -1 THEN info.lengths[d].v - 1
     ELSE IF l[d] = 0 THEN src \div info.strides[d].v
     ELSE (src % info.strides[Find(l, l[d] - 1)].v) \div info.strides[d].v]

\* Euclid's algorithm, as a function of the divisor.
Gcd(m, n) ==
  LET gcd[b \in Nat] == [a \in Nat |-> IF b = 0 THEN a ELSE gcd[a % b][b]]
  IN  gcd[n][m]

-----------------------------------------------------------------------------
(* Traits: the memory a storage is for.                                       *)

\* storage_layout: the places of n dimensions that suit the backend.
GpuLayout(n) == [d \in 0..n-1 |-> n - 1 - d]
KFirstLayout(n) == [d \in 0..n-1 |-> IF n < 3 THEN d ELSE IF d < 3 THEN d + n - 3 ELSE d - 3]
IFirstLayout(n) == [d \in 0..n-1 |-> IF n >= 3 /\ d \in {1, 2} THEN n - 4 + d ELSE n - 1 - d]
StorageLayout(traits, n) == CASE traits = "gpu" -> GpuLayout(n)
                              [] traits = "cpu_kfirst" -> KFirstLayout(n)
                              [] traits = "cpu_ifirst" -> IFirstLayout(n)

\* storage_alignment, in bytes; a unit stands for 16 bytes of the source.
StorageAlignment(traits) == CASE traits = "gpu" -> 8
                              [] traits = "cpu_kfirst" -> 1
                              [] traits = "cpu_ifirst" -> 4

\* storage_is_host_referenceable: the store writes its target without a host copy.
HostReferenceable(traits) == traits # "gpu"

ElemAlignment(traits, size) == LET bytes == StorageAlignment(traits) IN bytes \div Gcd(size, bytes)

MakeInfoFor(traits, l, size, lengths) == MakeInfo(l, Known(ElemAlignment(traits, size)), lengths)

\* The id of a builder without id, and the kind that no two stores share.
Nobody == "nobody"
UnknownKind == <<"unknown">>

\* Mutant: the layout is not part of a kind.
StridesKindOfAnyLayout(traits, l, size, info, id) ==
  IF id = "unknown" THEN UnknownKind
  ELSE IF \A d \in DOMAIN l : info.strides[d].known THEN <<"strides", TypeOf(info.strides)>>
  ELSE <<"storage", TypeOf(info.strides), id,
         IF MaxArg(l) > 0 THEN <<ElemAlignment(traits, size)>> ELSE <<>> >>

\* strides_kind: stores of the same kind have the same strides.
StridesKind(traits, l, size, info, id) ==
  IF id = "unknown" THEN UnknownKind
  ELSE IF \A d \in DOMAIN l : info.strides[d].known THEN <<"strides", TypeOf(info.strides)>>
  ELSE <<"storage", TypeOf(info.strides), l, id,
         IF MaxArg(l) > 0 THEN <<ElemAlignment(traits, size)>> ELSE <<>> >>

\* has_holes: whether lines are longer than the elements in them.
HasHoles(traits, l, size, lengths) ==
  /\ ElemAlignment(traits, size) # 1
  /\ lengths[Find(l, Cardinality(DOMAIN l) - 1)].v % ElemAlignment(traits, size) # 0

-----------------------------------------------------------------------------
(* The builder: the parameters set so far.                                    *)

NothingSet == <<>>

\* add_value: a parameter is set once.
AddValue(b, key, value) == IF key \in DOMAIN b THEN b ELSE b @@ key :> value

SetType(b, size) == AddValue(b, "type", size)
SetId(b, id) == AddValue(b, "id", id)
SetUnknownId(b) == AddValue(b, "id", "unknown")
SetLayout(b, l) == AddValue(b, "layout", l)
SetDimensions(b, lengths) == AddValue(b, "lengths", lengths)
SetHalos(b, halos) == AddValue(b, "halos", halos)

\* apply_mask: dimensions that are not selected leave no hole among the places.
ApplyMask(l, mask) ==
  [d \in DOMAIN l |->
     IF mask[d] THEN l[d] - Cardinality({ e \in DOMAIN l : ~mask[e] /\ 0 <= l[e] /\ l[e] < l[d] })
                ELSE -1]

SetSelector(b, traits, mask) ==
  SetLayout(b, ApplyMask(StorageLayout(traits, Cardinality(DOMAIN mask)), mask))

\* initializer and value: the contents to begin with, by index or for every element.
SetInitializer(b, fun) == AddValue(b, "initializer", [each |-> "index", at |-> fun])
SetValue(b, value) == AddValue(b, "initializer", [each |-> "element", at |-> value])

WithDefault(b, key, default) == IF key \in DOMAIN b THEN b[key] ELSE default

\* build: everything about a store but where it is.
Build(b, traits) ==
  LET n == Cardinality(DOMAIN b.lengths)
      l == WithDefault(b, "layout", StorageLayout(traits, n))
      info == MakeInfoFor(traits, l, b.type, b.lengths)
  IN  [traits |-> traits, layout |-> l, size |-> b.type, info |-> info,
       kind   |-> StridesKind(traits, l, b.type, info, WithDefault(b, "id", Nobody)),
       halos  |-> WithDefault(b, "halos", [d \in DOMAIN l |-> 0]),
       init   |-> WithDefault(b, "initializer", [each |-> "nothing"])]

-----------------------------------------------------------------------------
(* The constructors of a store.                                               *)

\* What is allocated, in bytes: room to move by less than the alignment.
BytesFor(s) == (InfoLength(s.info) + ElemAlignment(s.traits, s.size)) * s.size

\* Mutant: the first element is aligned, whatever the halos.
TargetPtrAtOrigin(s, p) == RoundUp(p, StorageAlignment(s.traits))

\* The target pointer for an allocation at p: the first element inside of the halos
\* is aligned.
TargetPtr(s, p) ==
  LET offset == IndexOf(s.info, s.halos) * s.size
  IN  RoundUp(p + offset, StorageAlignment(s.traits)) - offset

\* wrap_initializer and wrap_value: positions with their first values.  Padding is
\* passed over by an initializer and written by a value.
Initialized(s) ==
  LET all == 0..InfoLength(s.info) - 1
      at(p) == RestoreIndices(s.info, s.layout, p)
  IN  CASE s.init.each = "nothing" -> <<>>
        [] s.init.each = "index" -> [p \in { q \in all : InRange(s.info, at(q)) } |-> s.init.at[at(p)]]
        [] s.init.each = "element" -> [p \in all |-> s.init.at]

\* make_unique of the host copy: zeros.
Zeros == EmptyBag

\* init and update_target: the contents of the target, by position.  A host copy is
\* transferred whole.
FirstContents(s) ==
  IF HostReferenceable(s.traits) \/ s.init.each = "nothing" THEN Initialized(s)
  ELSE Initialized(s) @@ [p \in 0..InfoLength(s.info) - 1 |-> Zeros]
=============================================================================
