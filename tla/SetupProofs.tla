----------------------------- MODULE SetupProofs -----------------------------
(* Proofs about LayoutMap, for any number of dimensions, and ExchangeSetup,  *)
(* for all lengths and maps to the grid.                                     *)
EXTENDS ExchangeSetup, FiniteSetTheorems, TLAPS

-----------------------------------------------------------------------------
\* A layout that masks no dimension gives each of them a place of its own, and
\* find is the inverse of at.
LEMMA UnmaskedFacts ==
    ASSUME NEW n \in Nat, NEW l \in Unmasked(n)
    PROVE  /\ l \in [0..n-1 -> 0..n-1]
           /\ \A i, j \in 0..n-1 : l[i] = l[j] => i = j
           /\ \A k \in 0..n-1 : Find(l, k) \in 0..n-1 /\ l[Find(l, k)] = k
           /\ \A i \in 0..n-1 : Find(l, l[i]) = i
           /\ Cardinality(0..n-1) = n
  <1> DEFINE I == 0..n-1
  <1>1. IsFiniteSet(I) /\ Cardinality(I) = n
    <2>1. 0 \in Int /\ n - 1 \in Int
      OBVIOUS
    <2> QED  BY <2>1, FS_Interval
  <1>2. l \in [I -> -1..n-1] /\ \A i \in I : l[i] >= 0
    BY DEF Unmasked, Layouts
  <1>3. { i \in I : l[i] >= 0 } = I
    BY <1>2
  <1>4. { l[i] : i \in I } = I
    <2>1. { l[i] : i \in { i \in I : l[i] >= 0 } } = 0..Cardinality({ i \in I : l[i] >= 0 }) - 1
      BY DEF Unmasked, Layouts
    <2> QED  BY <1>1, <1>3, <2>1
  <1>5. l \in [I -> I] /\ \A k \in I : \E i \in I : l[i] = k
    BY <1>2, <1>4
  <1>6. l \in Surjection(I, I)
    BY <1>5 DEF Surjection
  <1>7. l \in Injection(I, I)
    BY <1>1, <1>6, FS_SurjSameCardinalityImpliesInj
  <1>8. \A i, j \in I : l[i] = l[j] => i = j
    BY <1>7 DEF Injection, IsInjective
  <1>9. \A k \in I : Find(l, k) \in I /\ l[Find(l, k)] = k
    <2>1. DOMAIN l = I
      BY <1>5
    <2>2. ASSUME NEW k \in I
          PROVE  (CHOOSE d \in I : l[d] = k) \in I /\ l[CHOOSE d \in I : l[d] = k] = k
      BY <1>5
    <2>3. ASSUME NEW k \in I PROVE Find(l, k) = CHOOSE d \in I : l[d] = k
      BY <1>5, <2>1 DEF Find
    <2> QED  BY <2>2, <2>3
  <1>10. \A i \in I : Find(l, l[i]) = i
    BY <1>5, <1>8, <1>9
  <1> QED  BY <1>1, <1>5, <1>8, <1>9, <1>10

\* Conversely, every permutation of the places is such a layout.
LEMMA Permutations ==
    ASSUME NEW n \in Nat, NEW l \in [0..n-1 -> 0..n-1], \A i, j \in 0..n-1 : l[i] = l[j] => i = j
    PROVE  l \in Unmasked(n)
  <1> DEFINE I == 0..n-1
  <1>1. IsFiniteSet(I) /\ Cardinality(I) = n
    <2>1. 0 \in Int /\ n - 1 \in Int
      OBVIOUS
    <2> QED  BY <2>1, FS_Interval
  <1>2. l \in Injection(I, I)
    BY DEF Injection, IsInjective
  <1>3. l \in Surjection(I, I)
    BY <1>1, <1>2, FS_Injection
  <1>4. { l[i] : i \in I } = I
    <2>1. \A k \in I : \E i \in I : l[i] = k
      BY <1>3 DEF Surjection
    <2>2. \A i \in I : l[i] \in I
      OBVIOUS
    <2>3. ASSUME NEW x PROVE x \in { l[i] : i \in I } <=> x \in I
      <3>1. x \in { l[i] : i \in I } <=> \E i \in I : l[i] = x
        OBVIOUS
      <3> QED  BY <2>1, <2>2, <3>1
    <2> QED  BY <2>3
  <1>5. { i \in I : l[i] >= 0 } = I
    OBVIOUS
  <1>6. { l[i] : i \in { i \in I : l[i] >= 0 } } = 0..Cardinality({ i \in I : l[i] >= 0 }) - 1
    BY <1>1, <1>4, <1>5
  <1>7. l \in [I -> -1..n-1]
    OBVIOUS
  <1> QED  BY <1>6, <1>7 DEF Unmasked, Layouts

\* reverse_map turns the order of the strides around, and does so twice in vain.
THEOREM ReverseFacts ==
    ASSUME NEW n \in Nat, NEW l \in Unmasked(n)
    PROVE  /\ Reverse(l) \in Unmasked(n)
           /\ \A i \in 0..n-1 : Reverse(l)[i] = n - 1 - l[i]
           /\ Reverse(Reverse(l)) = l
  <1> DEFINE I == 0..n-1
  <1>1. ASSUME NEW m \in Unmasked(n)
        PROVE  Reverse(m) = [i \in I |-> n - 1 - m[i]]
    <2>1. m \in [I -> I] /\ Cardinality(I) = n
      BY UnmaskedFacts
    <2>2. DOMAIN m = I /\ \A i \in I : m[i] \in Nat /\ m[i] >= 0
      BY <2>1
    <2>3. { i \in DOMAIN m : m[i] >= 0 } = I
      BY <2>2
    <2>4. Reverse(m) = [i \in I |-> IF m[i] < 0 THEN m[i] ELSE n - 1 - m[i]]
      BY <2>1, <2>2, <2>3 DEF Reverse
    <2> QED  BY <2>2, <2>4
  <1>2. l \in [I -> I] /\ \A i, j \in I : l[i] = l[j] => i = j
    BY UnmaskedFacts
  <1>3. Reverse(l) \in [I -> I] /\ \A i, j \in I : Reverse(l)[i] = Reverse(l)[j] => i = j
    BY <1>1, <1>2
  <1>4. Reverse(l) \in Unmasked(n)
    BY <1>3, Permutations
  <1>5. Reverse(Reverse(l)) = [i \in I |-> n - 1 - (n - 1 - l[i])]
    BY <1>1, <1>4
  <1> QED  BY <1>1, <1>2, <1>4, <1>5

\* layout_transform applies one layout after the other.
THEOREM TransformFacts ==
    ASSUME NEW n \in Nat, NEW l \in Unmasked(n), NEW m \in Unmasked(n)
    PROVE  /\ Transform(l, m) \in Unmasked(n)
           /\ \A i \in 0..n-1 : Transform(l, m)[i] = l[m[i]]
  <1>1. /\ l \in [0..n-1 -> 0..n-1] /\ \A i, j \in 0..n-1 : l[i] = l[j] => i = j
        /\ m \in [0..n-1 -> 0..n-1] /\ \A i, j \in 0..n-1 : m[i] = m[j] => i = j
    BY UnmaskedFacts
  <1>2. Transform(l, m) = [i \in 0..n-1 |-> l[m[i]]]
    BY <1>1 DEF Transform, At
  <1>3. /\ Transform(l, m) \in [0..n-1 -> 0..n-1]
        /\ \A i, j \in 0..n-1 : Transform(l, m)[i] = Transform(l, m)[j] => i = j
    BY <1>1, <1>2
  <1> QED  BY <1>2, <1>3, Permutations
-----------------------------------------------------------------------------
(* The layouts of ExchangeSetup.                                             *)
LEMMA MapFacts ==
    ASSUME NEW l \in Unmasked(3)
    PROVE  /\ l \in [D -> D]
           /\ \A i, j \in D : l[i] = l[j] => i = j
           /\ \A k \in D : Find(l, k) \in D /\ l[Find(l, k)] = k
           /\ \A i \in D : Find(l, l[i]) = i
           /\ Reverse(l) \in Unmasked(3)
           /\ \A i \in D : Reverse(l)[i] = 2 - l[i]
  <1> DEFINE n == 3
  <1>1. n \in Nat /\ 0..n-1 = D /\ n - 1 = 2 /\ l \in Unmasked(n)
    BY DEF D
  <1> HIDE DEF n
  <1>2. /\ l \in [0..n-1 -> 0..n-1]
        /\ \A i, j \in 0..n-1 : l[i] = l[j] => i = j
        /\ \A k \in 0..n-1 : Find(l, k) \in 0..n-1 /\ l[Find(l, k)] = k
        /\ \A i \in 0..n-1 : Find(l, l[i]) = i
        /\ Reverse(l) \in Unmasked(n)
        /\ \A i \in 0..n-1 : Reverse(l)[i] = n - 1 - l[i]
    BY <1>1, UnmaskedFacts, ReverseFacts
  <1>3. Reverse(l) \in Unmasked(3)
    BY <1>2 DEF n
  <1> QED  BY <1>1, <1>2, <1>3

LEMMA StrideFacts ==
    ASSUME TypeOK
    PROVE  /\ StrideMap \in Unmasked(3) /\ StrideMap \in [D -> D]
           /\ \A u \in D : StrideMap[u] = 2 - layout[u]
           /\ \A k \in D : Find(StrideMap, k) \in D /\ StrideMap[Find(StrideMap, k)] = k
           /\ \A u \in D : Find(StrideMap, StrideMap[u]) = u
  <1>1. layout \in Unmasked(3)
    BY DEF TypeOK
  <1> QED  BY <1>1, MapFacts DEF StrideMap

LEMMA InitInv == Init => IndInv
  <1> SUFFICES ASSUME Init PROVE IndInv
    OBVIOUS
  <1>1. /\ layout \in Unmasked(3) /\ gridMap \in GridMaps /\ period \in [D -> BOOLEAN]
        /\ cyclic = [i \in D |-> FALSE] /\ halos = [i \in D |-> None] /\ phase = "new"
    BY DEF Init
  <1> QED  BY <1>1 DEF IndInv, TypeOK, CyclicOK, HalosOK

LEMMA StepInv == IndInv /\ [Next]_vars => IndInv'
  <1> SUFFICES ASSUME IndInv, [Next]_vars PROVE IndInv'
    OBVIOUS
  <1>0. /\ TypeOK /\ CyclicOK /\ HalosOK
        /\ layout \in Unmasked(3) /\ gridMap \in GridMaps /\ gridMap \in Unmasked(3)
        /\ period \in [D -> BOOLEAN]
    BY SetupAssumption DEF IndInv, TypeOK
  <1>1. CASE Construct
    <2>1. /\ phase = "new" /\ phase' = "constructed" /\ cyclic' = Permute(gridMap, period)
          /\ layout' = layout /\ gridMap' = gridMap /\ period' = period /\ halos' = halos
      BY <1>1 DEF Construct
    <2>2. Permute(gridMap, period) \in [D -> BOOLEAN]
      BY <1>0, MapFacts DEF Permute
    <2>3. TypeOK'
      BY <1>0, <2>1, <2>2 DEF TypeOK, StrideMap
    <2> QED  BY <2>1, <2>3 DEF IndInv, CyclicOK, HalosOK
  <1>2. ASSUME NEW DI \in D, AddHalo(DI) PROVE IndInv'
    <2>1. /\ phase = "constructed" /\ phase' = phase /\ cyclic' = cyclic
          /\ layout' = layout /\ gridMap' = gridMap /\ period' = period
          /\ halos' = [halos EXCEPT ![StrideMap[DI]] = DI]
      BY <1>2 DEF AddHalo, At
    <2>2. StrideMap[DI] \in D /\ StrideMap' = StrideMap
      BY <1>0, <2>1, StrideFacts DEF StrideMap
    <2>3. halos \in [D -> D \cup {None}]
      BY <1>0 DEF TypeOK
    <2>4. halos' \in [D -> D \cup {None}]
      BY <2>1, <2>2, <2>3
    <2>5. \A i \in D : halos'[i] # None => At(StrideMap', halos'[i]) = i
      BY <1>0, <2>1, <2>2, <2>3 DEF TypeOK, At
    <2>6. TypeOK'
      BY <1>0, <2>1, <2>4, <2>5 DEF TypeOK
    <2> QED  BY <1>0, <2>1, <2>6 DEF IndInv, CyclicOK, HalosOK
  <1>3. CASE Setup
    <2>1. /\ phase = "constructed" /\ phase' = "ready" /\ \A i \in D : halos[i] # None
          /\ layout' = layout /\ gridMap' = gridMap /\ period' = period /\ halos' = halos /\ cyclic' = cyclic
      BY <1>3 DEF Setup
    <2>2. TypeOK'
      BY <1>0, <2>1 DEF TypeOK, StrideMap
    <2> QED  BY <1>0, <2>1, <2>2 DEF IndInv, CyclicOK, HalosOK
  <1>4. CASE UNCHANGED vars
    <2>1. /\ phase' = phase /\ layout' = layout /\ gridMap' = gridMap /\ period' = period
          /\ halos' = halos /\ cyclic' = cyclic
      BY <1>4 DEF vars
    <2> QED  BY <1>0, <2>1 DEF IndInv, TypeOK, CyclicOK, HalosOK, StrideMap
  <1> QED  BY <1>1, <1>2, <1>3, <1>4 DEF Next

LEMMA Invariance == Spec => []IndInv
  BY InitInv, StepInv, PTL DEF Spec

\* Type correctness: in particular a halo, once added, is kept at the place of
\* its axis in the order of the strides.
THEOREM TypeCorrect == Spec => []TypeOK
  <1>1. IndInv => TypeOK
    BY DEF IndInv
  <1> QED  BY <1>1, Invariance, PTL

\* Pack and unpack find the elements where the user's layout has them, for all
\* lengths of the data, each layout and each order in which halos are added.
THEOREM Addressing == Spec => []ElementsFound
  <1>1. IndInv => ElementsFound
    <2> SUFFICES ASSUME IndInv, phase = "ready", NEW x \in [D -> Indices]
                 PROVE  Access(ByStride(x)) = Offset(x)
      BY DEF ElementsFound
    <2> DEFINE h(k) == Find(StrideMap, k)
    <2>0. TypeOK /\ layout \in Unmasked(3) /\ \A i \in D : halos[i] \in D /\ StrideMap[halos[i]] = i
      BY DEF IndInv, TypeOK, HalosOK, At
    <2>1. \A k \in D : halos[k] = h(k) /\ h(k) \in D /\ layout[h(k)] = 2 - k
      <3>1. \A u \in D : layout[u] \in D /\ StrideMap[u] = 2 - layout[u]
        BY <2>0, MapFacts, StrideFacts
      <3>2. \A k \in D : h(k) \in D /\ StrideMap[h(k)] = k /\ halos[k] = h(k)
        BY <2>0, StrideFacts
      <3>3. \A a, b \in D : b = 2 - a => a = 2 - b
        BY DEF D
      <3> QED  BY <3>1, <3>2, <3>3
    <2> HIDE DEF h
    <2>2. /\ 0 \in D /\ 1 \in D /\ 2 \in D /\ 2 - 0 = 2 /\ 2 - 1 = 1 /\ 2 - 2 = 0
      BY DEF D
    <2>3. /\ h(0) \in D /\ h(1) \in D /\ h(2) \in D
          /\ layout[h(0)] = 2 /\ layout[h(1)] = 1 /\ layout[h(2)] = 0
          /\ Find(layout, 2) = h(0) /\ Find(layout, 1) = h(1)
      <3>1. layout[h(0)] = 2 /\ layout[h(1)] = 1 /\ layout[h(2)] = 0
        BY <2>1, <2>2
      <3>2. \A u \in D : Find(layout, layout[u]) = u
        BY <2>0, MapFacts
      <3>3. h(0) \in D /\ h(1) \in D /\ h(2) \in D
        BY <2>1, <2>2
      <3> QED  BY <3>1, <3>2, <3>3
    <2>4. \A u \in D : x[u] \in Int /\ Lengths[u] \in Int
      <3>1. \A u \in D : Lengths[u] \in Nat
        BY SetupAssumption
      <3>2. \A u \in D : x[u] \in Indices
        OBVIOUS
      <3>3. Indices \subseteq Int
        BY <3>1 DEF Indices
      <3>4. \A u \in D : x[u] \in Int
        BY <3>2, <3>3
      <3>5. \A u \in D : Lengths[u] \in Int
        BY <3>1
      <3> QED  BY <3>4, <3>5
    <2> DEFINE A == Lengths[h(0)]
               B == Lengths[h(1)]
    <2>5. Access(ByStride(x)) = x[h(0)] + x[h(1)] * A + x[h(2)] * A * B
      BY <2>1, <2>2 DEF Access, ByStride, h
    <2> DEFINE Stride(u) == IF layout[u] = 2 THEN 1 ELSE IF layout[u] = 1 THEN A ELSE B * A
    <2>6. Offset(x) = x[0] * Stride(0) + x[1] * Stride(1) + x[2] * Stride(2)
      BY <2>3 DEF Offset
    <2>7. Stride(h(0)) = 1 /\ Stride(h(1)) = A /\ Stride(h(2)) = B * A
      BY <2>3
    <2>8. A \in Int /\ B \in Int /\ \A u \in D : Stride(u) \in Int /\ x[u] * Stride(u) \in Int
      <3>1. A \in Int /\ B \in Int /\ B * A \in Int
        BY <2>3, <2>4
      <3> HIDE DEF A, B
      <3>2. \A u \in D : Stride(u) \in Int
        BY <3>1
      <3> HIDE DEF Stride
      <3> QED  BY <2>4, <3>1, <3>2
    <2> DEFINE T(u) == x[u] * Stride(u)
    <2>9. Access(ByStride(x)) = T(h(0)) + T(h(1)) + T(h(2))
      <3>1. x[h(2)] * A * B = x[h(2)] * (B * A) /\ x[h(0)] = x[h(0)] * 1
        <4> HIDE DEF A, B
        <4> QED  BY <2>3, <2>4, <2>8
      <3> HIDE DEF A, B, Stride
      <3> QED  BY <2>5, <2>7, <3>1
    <2>10. \A u \in D : T(u) \in Int
      BY <2>8
    <2> HIDE DEF T, A, B, Stride
    <2>11. T(h(0)) + T(h(1)) + T(h(2)) = T(0) + T(1) + T(2)
      <3>1. h(0) # h(1) /\ h(0) # h(2) /\ h(1) # h(2)
        BY <2>3
      <3>2. \A u \in D : u = 0 \/ u = 1 \/ u = 2
        BY DEF D
      <3> QED  BY <2>2, <2>3, <2>10, <3>1, <3>2
    <2> QED  BY <2>6, <2>9, <2>11 DEF T
  <1> QED  BY <1>1, Invariance, PTL

-----------------------------------------------------------------------------
(* Directions and periodicity on the grid.                                   *)
\* Along an axis of the grid the handler exchanges the axis of the user that
\* the map to the grid has there.
LEMMA Directions ==
    ASSUME TypeOK, NEW e, NEW i \in D
    PROVE  ProcDir(ByStride(e))[i] = e[gridMap[i]]
  <1>1. gridMap \in Unmasked(3) /\ gridMap[i] \in D /\ gridMap \in [D -> D]
    BY SetupAssumption, MapFacts DEF TypeOK
  <1>2. ProcMap[i] = StrideMap[gridMap[i]] /\ StrideMap[gridMap[i]] \in D
    BY <1>1, StrideFacts DEF ProcMap, Transform, At
  <1>3. ByStride(e)[StrideMap[gridMap[i]]] = e[Find(StrideMap, StrideMap[gridMap[i]])]
    BY <1>2 DEF ByStride
  <1>4. Find(StrideMap, StrideMap[gridMap[i]]) = gridMap[i]
    BY <1>1, StrideFacts
  <1> QED  BY <1>2, <1>3, <1>4 DEF ProcDir, At

\* A map to the grid that exchanges two axes of the data, or none.
OwnInverse(g) == \A i \in D : g[g[i]] = i

\* The periodicity follows the directions for all data exactly if the map to
\* the grid is its own inverse: boollist::permute looks an axis up with find
\* where the directions take it with at.
THEOREM PermuteFollows ==
    ASSUME NEW g \in Unmasked(3)
    PROVE  OwnInverse(g) <=> \A c \in [D -> BOOLEAN], i \in D : Permute(g, c)[i] = c[g[i]]
  <1>1. /\ g \in [D -> D] /\ \A i, j \in D : g[i] = g[j] => i = j
        /\ \A k \in D : Find(g, k) \in D /\ g[Find(g, k)] = k
        /\ \A i \in D : Find(g, g[i]) = i
    BY MapFacts
  <1>2. ASSUME OwnInverse(g), NEW i \in D PROVE Find(g, i) = g[i]
    BY <1>1, <1>2 DEF OwnInverse
  <1>3. ASSUME \A c \in [D -> BOOLEAN], i \in D : Permute(g, c)[i] = c[g[i]], NEW i \in D
        PROVE  g[g[i]] = i
    <2> DEFINE c == [u \in D |-> u = g[i]]
    <2>1. c \in [D -> BOOLEAN] /\ c[g[i]]
      BY <1>1
    <2>2. Permute(g, c)[i] = c[Find(g, i)]
      BY DEF Permute
    <2>3. c[Find(g, i)]
      BY <1>3, <2>1, <2>2
    <2>4. Find(g, i) = g[i]
      BY <1>1, <2>3
    <2> QED  BY <1>1, <2>4
  <1>4. ASSUME OwnInverse(g), NEW c \in [D -> BOOLEAN], NEW i \in D PROVE Permute(g, c)[i] = c[g[i]]
    BY <1>2, <1>4 DEF Permute
  <1> QED  BY <1>3, <1>4 DEF OwnInverse

\* With maps to the grid that exchange two axes, or none, an axis of the grid
\* is periodic exactly if the axis of the data exchanged along it is.
THEOREM PeriodicAxes ==
    ASSUME \A g \in GridMaps : OwnInverse(g)
    PROVE  Spec => []PeriodicAxesMatch
  <1>1. IndInv => PeriodicAxesMatch
    <2> SUFFICES ASSUME IndInv, phase # "new", NEW u \in D, NEW i \in D,
                        \A e \in [D -> {-1, 0, 1}] : ProcDir(ByStride(e))[i] = e[u]
                 PROVE  cyclic[i] = period[u]
      BY DEF PeriodicAxesMatch
    <2>1. /\ TypeOK /\ gridMap \in Unmasked(3) /\ OwnInverse(gridMap) /\ period \in [D -> BOOLEAN]
          /\ cyclic = Permute(gridMap, period) /\ gridMap[i] \in D
      <3>1. /\ TypeOK /\ gridMap \in GridMaps /\ period \in [D -> BOOLEAN]
            /\ cyclic = Permute(gridMap, period)
        BY DEF IndInv, TypeOK, CyclicOK
      <3>2. gridMap \in Unmasked(3) /\ OwnInverse(gridMap)
        BY <3>1, SetupAssumption
      <3> QED  BY <3>1, <3>2, MapFacts
    <2> DEFINE e == [k \in D |-> IF k = u THEN 1 ELSE 0]
    <2>2. e \in [D -> {-1, 0, 1}] /\ e[u] = 1
      OBVIOUS
    <2>3. e[gridMap[i]] = 1
      <3> HIDE DEF e
      <3> QED  BY <2>1, <2>2, Directions
    <2>4. gridMap[i] = u
      BY <2>1, <2>3
    <2> QED  BY <2>1, <2>4, PermuteFollows
  <1> QED  BY <1>1, Invariance, PTL
=============================================================================
