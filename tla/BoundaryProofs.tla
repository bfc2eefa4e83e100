--------------------------- MODULE BoundaryProofs ---------------------------
(* That boundary conditions are applied to every element of the accepted     *)
(* halo regions once and to nothing else, for fields of every size, and that *)
(* the kernel of the GPU does the same for thread blocks of every size.      *)
EXTENDS BoundaryKernel, FiniteSetTheorems, WellFoundedInduction, TLAPS

\* An index is in the range of one offset only.
LEMMA OneOffset ==
    ASSUME NEW h, IsHalo(h), NEW i \in {-1, 0, 1}, NEW j \in {-1, 0, 1},
           NEW x \in Outside(h, i), x \in Outside(h, j)
    PROVE  i = j
  BY DEF IsHalo, Outside

\* The halo regions of different directions have no element in common.
LEMMA OneRegion ==
    ASSUME NEW f \in Fields, NEW d \in Dirs, NEW e \in Dirs,
           NEW x \in Region(f, d), x \in Region(f, e)
    PROVE  d = e
  <1>1. d \in [Axes -> {-1, 0, 1}] /\ e \in [Axes -> {-1, 0, 1}]
    BY DEF Dirs
  <1>2. ASSUME NEW a \in Axes PROVE d[a] = e[a]
    <2>1. IsHalo(f[a])
      BY ApplyAssumption
    <2>2. x[a] \in Outside(f[a], d[a]) /\ x[a] \in Outside(f[a], e[a])
      BY DEF Region
    <2>3. d[a] \in {-1, 0, 1} /\ e[a] \in {-1, 0, 1}
      BY <1>1
    <2> QED  BY <2>1, <2>2, <2>3, OneOffset
  <1> QED  BY <1>1, <1>2

\* The calls of apply() go through all directions, each once.
LEMMA NthAxes ==
    ASSUME NEW n \in 0..26
    PROVE  /\ Nth(n) \in [Axes -> {-1, 0, 1}]
           /\ Nth(n)[1] = (n \div 9) - 1
           /\ Nth(n)[2] = ((n \div 3) % 3) - 1
           /\ Nth(n)[3] = (n % 3) - 1
  <1>1. /\ (n \div 9) - 1 \in {-1, 0, 1} /\ ((n \div 3) % 3) - 1 \in {-1, 0, 1}
        /\ (n % 3) - 1 \in {-1, 0, 1}
    OBVIOUS
  <1> QED  BY <1>1 DEF Nth, Axes

LEMMA NthOnce ==
    ASSUME NEW n \in 0..26, NEW m \in 0..26, Nth(n) = Nth(m)
    PROVE  n = m
  <1>1. n \div 9 = m \div 9 /\ (n \div 3) % 3 = (m \div 3) % 3 /\ n % 3 = m % 3
    BY NthAxes
  <1> QED  BY <1>1

LEMMA NthDirection ==
    ASSUME NEW n \in 0..26, n # Centre
    PROVE  Nth(n) \in Dirs
  <1>1. SUFFICES ASSUME Nth(n) = [a \in Axes |-> 0] PROVE FALSE
    BY NthAxes DEF Dirs
  <1>2. Nth(n)[1] = 0 /\ Nth(n)[2] = 0 /\ Nth(n)[3] = 0
    BY <1>1 DEF Axes
  <1>3. (n \div 9) - 1 = 0 /\ ((n \div 3) % 3) - 1 = 0 /\ (n % 3) - 1 = 0
    BY <1>2, NthAxes
  <1> QED  BY <1>3 DEF Centre

LEMMA NthAll ==
    ASSUME NEW d \in Dirs
    PROVE  \E n \in 0..26 : n # Centre /\ Nth(n) = d
  <1> DEFINE n == (d[1] + 1) * 9 + (d[2] + 1) * 3 + d[3] + 1
  <1>1. /\ d \in [Axes -> {-1, 0, 1}]
        /\ d[1] \in {-1, 0, 1} /\ d[2] \in {-1, 0, 1} /\ d[3] \in {-1, 0, 1}
    BY DEF Dirs, Axes
  <1>2. n \in 0..26
    BY <1>1
  <1>3. (n \div 9) - 1 = d[1] /\ ((n \div 3) % 3) - 1 = d[2] /\ (n % 3) - 1 = d[3]
    BY <1>1
  <1>4. Nth(n)[1] = d[1] /\ Nth(n)[2] = d[2] /\ Nth(n)[3] = d[3]
    BY <1>2, <1>3, NthAxes
  <1>5. Nth(n) = d
    <2>1. \A a \in Axes : Nth(n)[a] = d[a]
      BY <1>4 DEF Axes
    <2> QED  BY <1>1, <1>2, <2>1, NthAxes
  <1>6. n # Centre
    <2> SUFFICES ASSUME n = Centre PROVE FALSE
      OBVIOUS
    <2>1. d[1] = 0 /\ d[2] = 0 /\ d[3] = 0
      BY <1>1 DEF Centre
    <2>2. \A a \in Axes : d[a] = 0
      BY <2>1 DEF Axes
    <2>3. d = [a \in Axes |-> 0]
      BY <1>1, <2>2
    <2> QED  BY <2>3 DEF Dirs
  <1> HIDE DEF n
  <1> QED  BY <1>2, <1>5, <1>6

-----------------------------------------------------------------------------
\* The variables keep their types.
THEOREM TypeCorrect == Spec => []TypeOK
  <1>1. Init => TypeOK
    BY DEF Init, TypeOK
  <1>2. TypeOK /\ [Next]_vars => TypeOK'
    <2> SUFFICES ASSUME TypeOK, [Next]_vars PROVE TypeOK'
      OBVIOUS
    <2>1. CASE Apply
      <3>1. next' \in 0..27 /\ halos' = halos /\ accepted' = accepted
        BY <2>1 DEF Apply, TypeOK
      <3>2. CASE next # Centre /\ Nth(next) \in accepted
        BY <2>1, <3>1, <3>2 DEF Apply, Loop, TypeOK
      <3>3. CASE ~ (next # Centre /\ Nth(next) \in accepted)
        BY <2>1, <3>1, <3>3 DEF Apply, TypeOK
      <3> QED  BY <3>2, <3>3
    <2>2. CASE UNCHANGED vars
      BY <2>2 DEF vars, TypeOK
    <2> QED  BY <2>1, <2>2 DEF Next
  <1> QED  BY <1>1, <1>2, PTL DEF Spec

\* What has been written so far, for every predicate and all sizes of fields.
THEOREM WrittenSoFar == Spec => []OnceSoFar
  <1>1. Init => OnceSoFar
    BY DEF Init, OnceSoFar
  <1>2. TypeOK /\ OnceSoFar /\ [Next]_vars => OnceSoFar'
    <2> SUFFICES ASSUME TypeOK, OnceSoFar, [Next]_vars PROVE OnceSoFar'
      OBVIOUS
    <2>1. CASE Apply
      <3> DEFINE Done(n, x) == /\ n # Centre /\ Nth(n) \in accepted
                               /\ x \in Region(halos, Nth(n))
      <3>1. /\ next \in 0..26 /\ next' = next + 1 /\ halos' = halos /\ accepted' = accepted
            /\ halos \in Fields
        BY <2>1 DEF Apply, TypeOK
      <3>2. SUFFICES ASSUME NEW x \in Points(halos)
                     PROVE  written'[x] = IF \E n \in 0..next : Done(n, x) THEN 1 ELSE 0
        BY <3>1 DEF OnceSoFar
      <3>3. written[x] = IF \E n \in 0..next - 1 : Done(n, x) THEN 1 ELSE 0
        BY DEF OnceSoFar
      <3>4. (\E n \in 0..next : Done(n, x)) <=> (\E n \in 0..next - 1 : Done(n, x)) \/ Done(next, x)
        <4>1. 0..next = (0..next - 1) \cup {next}
          BY <3>1
        <4> QED  BY <4>1
      <3>5. CASE Done(next, x)
        <4>1. written'[x] = written[x] + 1
          BY <2>1, <3>5 DEF Apply, Loop, TypeOK
        <4>2. ~ \E n \in 0..next - 1 : Done(n, x)
          <5> SUFFICES ASSUME NEW n \in 0..next - 1, Done(n, x) PROVE FALSE
            OBVIOUS
          <5>1. n \in 0..26 /\ n # next
            BY <3>1
          <5>2. Nth(n) \in Dirs /\ Nth(next) \in Dirs
            BY <3>1, <3>5, <5>1, NthDirection
          <5>3. Nth(n) = Nth(next)
            BY <3>1, <3>5, <5>2, OneRegion
          <5> QED  BY <3>1, <5>1, <5>3, NthOnce
        <4> QED  BY <3>3, <3>4, <3>5, <4>1, <4>2
      <3>6. CASE ~ Done(next, x)
        <4>1. written'[x] = written[x]
          BY <2>1, <3>6 DEF Apply, Loop, TypeOK
        <4> QED  BY <3>3, <3>4, <3>6, <4>1
      <3> QED  BY <3>5, <3>6
    <2>2. CASE UNCHANGED vars
      BY <2>2 DEF vars, OnceSoFar
    <2> QED  BY <2>1, <2>2 DEF Next
  <1> QED  BY <1>1, <1>2, TypeCorrect, PTL DEF Spec

\* After apply all accepted halo elements have been written once, no others.
THEOREM AllWrittenOnce == Spec => []EachOnce
  <1>1. TypeOK /\ OnceSoFar => EachOnce
    <2> SUFFICES ASSUME TypeOK, OnceSoFar, next = 27, NEW x \in Points(halos)
                 PROVE  written[x] = IF \E d \in accepted : x \in Region(halos, d) THEN 1 ELSE 0
      BY DEF EachOnce
    <2>1. accepted \subseteq Dirs
      BY ApplyAssumption DEF TypeOK
    <2>2. (\E d \in accepted : x \in Region(halos, d)) <=>
          (\E n \in 0..26 : n # Centre /\ Nth(n) \in accepted /\ x \in Region(halos, Nth(n)))
      BY <2>1, NthAll
    <2>3. next - 1 = 26
      OBVIOUS
    <2> QED  BY <2>2, <2>3 DEF OnceSoFar
  <1> QED  BY <1>1, TypeCorrect, WrittenSoFar, PTL
-----------------------------------------------------------------------------
(* The kernel of the GPU.                                                    *)
\* The bits of the predicate tell the directions apart.
LEMMA IndexOnce ==
    ASSUME NEW d \in Dirs, NEW e \in Dirs, Index(d) = Index(e)
    PROVE  d = e
  <1>1. d \in [Axes -> {-1, 0, 1}] /\ e \in [Axes -> {-1, 0, 1}]
    BY DEF Dirs
  <1>2. /\ d[1] \in {-1, 0, 1} /\ d[2] \in {-1, 0, 1} /\ d[3] \in {-1, 0, 1}
        /\ e[1] \in {-1, 0, 1} /\ e[2] \in {-1, 0, 1} /\ e[3] \in {-1, 0, 1}
    BY <1>1 DEF Axes
  <1>3. d[1] = e[1] /\ d[2] = e[2] /\ d[3] = e[3]
    BY <1>2 DEF Index
  <1>4. \A a \in Axes : d[a] = e[a]
    BY <1>3 DEF Axes
  <1> QED  BY <1>1, <1>4

\* What the sort keeps: the sizes are those of different axes.
Sorting(size, s) == /\ s.sorted \in [Axes -> Nat]
                    /\ s.from \in [Axes -> Axes]
                    /\ \A i, j \in Axes : s.from[i] = s.from[j] => i = j
                    /\ \A i \in Axes : s.sorted[i] = size[s.from[i]]

LEMMA CompareKeeps ==
    ASSUME NEW size, NEW s, Sorting(size, s), NEW i \in Axes, NEW j \in Axes
    PROVE  Sorting(size, Compare(s, i, j))
  <1>1. CASE ~ (s.sorted[i] <= s.sorted[j])
    BY <1>1 DEF Compare
  <1>2. CASE s.sorted[i] <= s.sorted[j]
    <2> DEFINE p == Exchanged(s.sorted, i, j)
               q == Exchanged(s.from, i, j)
    <2>1. Compare(s, i, j).sorted = p /\ Compare(s, i, j).from = q
      BY <1>2 DEF Compare
    <2>2. /\ p \in [Axes -> Nat] /\ q \in [Axes -> Axes]
          /\ \A k \in Axes : /\ p[k] = IF k = j THEN s.sorted[i] ELSE IF k = i THEN s.sorted[j] ELSE s.sorted[k]
                             /\ q[k] = IF k = j THEN s.from[i] ELSE IF k = i THEN s.from[j] ELSE s.from[k]
      BY DEF Sorting, Exchanged
    <2> HIDE DEF p, q
    <2>3. \A k, m \in Axes : q[k] = q[m] => k = m
      BY <2>2 DEF Sorting
    <2>4. \A k \in Axes : p[k] = size[q[k]]
      BY <2>2 DEF Sorting
    <2> QED  BY <2>1, <2>2, <2>3, <2>4 DEF Sorting
  <1> QED  BY <1>1, <1>2

LEMMA SortKeeps ==
    ASSUME NEW size \in [Axes -> Nat]
    PROVE  Sorting(size, Sort(size))
  <1> DEFINE s0 == [sorted |-> size, from |-> <<1, 2, 3>>]
             s1 == Compare(s0, 1, 2)
             s2 == Compare(s1, 1, 3)
  <1>0. 1 \in Axes /\ 2 \in Axes /\ 3 \in Axes
    BY DEF Axes
  <1>1. Sorting(size, s0)
    BY DEF Sorting, Axes
  <1> HIDE DEF s0
  <1>2. Sorting(size, s1)
    BY <1>0, <1>1, CompareKeeps
  <1> HIDE DEF s1
  <1>3. Sorting(size, s2)
    BY <1>0, <1>2, CompareKeeps
  <1> HIDE DEF s2
  <1>4. Sorting(size, Compare(s2, 2, 3))
    BY <1>0, <1>3, CompareKeeps
  <1> QED  BY <1>4 DEF Sort, s0, s1, s2

\* Every axis has one place among the sorted ones.
LEMMA PermInverts ==
    ASSUME NEW from \in [Axes -> Axes], \A i, j \in Axes : from[i] = from[j] => i = j
    PROVE  /\ Perm(from) \in [Axes -> Axes]
           /\ \A a \in Axes : from[Perm(from)[a]] = a
           /\ \A i \in Axes : Perm(from)[from[i]] = i
  <1>1. ASSUME NEW a \in Axes PROVE \E i \in Axes : from[i] = a
    <2>1. from[1] \in 1..3 /\ from[2] \in 1..3 /\ from[3] \in 1..3
      BY DEF Axes
    <2>2. from[1] # from[2] /\ from[1] # from[3] /\ from[2] # from[3]
      BY DEF Axes
    <2>3. from[1] = a \/ from[2] = a \/ from[3] = a
      BY <2>1, <2>2 DEF Axes
    <2> QED  BY <2>3 DEF Axes
  <1>2. ASSUME NEW a \in Axes PROVE Perm(from)[a] \in Axes /\ from[Perm(from)[a]] = a
    <2>1. Perm(from)[a] = CHOOSE i \in Axes : from[i] = a
      BY DEF Perm
    <2> QED  BY <1>1, <2>1
  <1>3. Perm(from) \in [Axes -> Axes]
    BY <1>2 DEF Perm
  <1> QED  BY <1>2, <1>3

\* The extent of a region and its start are those the loops go over.
LEMMA SegmentIsOutside ==
    ASSUME NEW h, IsHalo(h), NEW i \in {-1, 0, 1}
    PROVE  /\ Segment(h, i) \in Nat /\ Start(h, i) \in Nat /\ Segment(h, i) <= h.total
           /\ \A x \in Nat : x \in Outside(h, i) <=>
                             /\ Start(h, i) <= x
                             /\ x < Start(h, i) + Segment(h, i)
  BY DEF IsHalo, Segment, Start, Outside

\* What a shape says of its region.
IsShape(f, d, s) ==
    /\ s.sorted \in [Axes -> Nat] /\ s.perm \in [Axes -> Axes]
    /\ \A i \in Axes : \E a \in Axes : s.perm[a] = i
    /\ \A a, b \in Axes : s.perm[a] = s.perm[b] => a = b
    /\ \A a \in Axes : s.sorted[s.perm[a]] = Segment(f[a], d[a]) /\ s.start[a] = Start(f[a], d[a])

LEMMA ShapeOf ==
    ASSUME NEW f \in Fields, NEW d \in Dirs
    PROVE  IsShape(f, d, Shape(f, d))
  <1> DEFINE size == <<Segment(f[1], d[1]), Segment(f[2], d[2]), Segment(f[3], d[3])>>
             start == <<Start(f[1], d[1]), Start(f[2], d[2]), Start(f[3], d[3])>>
             s == Sort(size)
             p == Perm(s.from)
  <1>1. \A a \in Axes : IsHalo(f[a]) /\ d[a] \in {-1, 0, 1}
    BY ApplyAssumption DEF Dirs
  <1>2. \A a \in Axes : Segment(f[a], d[a]) \in Nat
    BY <1>1, SegmentIsOutside
  <1>3. size \in [Axes -> Nat] /\ \A a \in Axes : size[a] = Segment(f[a], d[a]) /\ start[a] = Start(f[a], d[a])
    BY <1>2 DEF Axes
  <1>4. Shape(f, d) = [sorted |-> s.sorted, perm |-> p, start |-> start]
    BY DEF Shape
  <1> HIDE DEF size, start
  <1>5. Sorting(size, s)
    BY <1>3, SortKeeps
  <1> HIDE DEF s
  <1>6. /\ p \in [Axes -> Axes]
        /\ \A a \in Axes : s.from[p[a]] = a
        /\ \A i \in Axes : p[s.from[i]] = i
    BY <1>5, PermInverts DEF Sorting
  <1> HIDE DEF p
  <1>7. \A a \in Axes : s.sorted[p[a]] = Segment(f[a], d[a])
    BY <1>3, <1>5, <1>6 DEF Sorting
  <1>8. \A i \in Axes : \E a \in Axes : p[a] = i
    BY <1>5, <1>6 DEF Sorting
  <1>9. \A a, b \in Axes : p[a] = p[b] => a = b
    BY <1>6
  <1>10. s.sorted \in [Axes -> Nat]
    BY <1>5 DEF Sorting
  <1> QED  BY <1>3, <1>4, <1>6, <1>7, <1>8, <1>9, <1>10 DEF IsShape

\* A bounded set of numbers has a largest one.
LEMMA LargestOf ==
    ASSUME NEW N \in Nat, NEW S \in SUBSET (0..N), S # {}
    PROVE  Largest(S) \in S /\ \A y \in S : y <= Largest(S)
  <1> DEFINE I(n) == n..N
             T == { I(n) : n \in S }
             R == StrictSubsetOrdering(Nat)
  <1>1. T \subseteq FiniteSubsetsOf(Nat)
    <2> SUFFICES ASSUME NEW n \in S PROVE I(n) \in FiniteSubsetsOf(Nat)
      OBVIOUS
    <2>1. n \in Int /\ N \in Int /\ n..N \in SUBSET Nat
      OBVIOUS
    <2>2. IsFiniteSet(n..N)
      BY <2>1, FS_Interval
    <2> QED  BY <2>1, <2>2 DEF FiniteSubsetsOf
  <1>2. T # {}
    OBVIOUS
  <1>3. IsWellFoundedOn(R, FiniteSubsetsOf(Nat))
    BY FS_StrictSubsetOrderingWellFounded
  <1>4. PICK x \in T : \A y \in T : ~ (<<y, x>> \in R)
    <2> HIDE DEF R, T
    <2> QED  BY <1>1, <1>2, <1>3, WFMin
  <1>5. PICK m \in S : x = I(m)
    OBVIOUS
  <1>6. ASSUME NEW y \in S PROVE y <= m
    <2> SUFFICES ASSUME m < y PROVE FALSE
      OBVIOUS
    <2>1. I(y) \subseteq I(m) /\ I(y) # I(m) /\ I(m) \in SUBSET Nat /\ I(y) \in SUBSET Nat
      <3>1. m \in I(m) /\ m \notin I(y)
        OBVIOUS
      <3>2. I(y) \subseteq I(m)
        OBVIOUS
      <3>3. I(m) \in SUBSET Nat /\ I(y) \in SUBSET Nat
        OBVIOUS
      <3> QED  BY <3>1, <3>2, <3>3
    <2>2. <<I(y), x>> \in R
      BY <1>5, <2>1 DEF StrictSubsetOrdering
    <2> QED  BY <1>4, <2>2
  <1>7. \E z \in S : \A y \in S : y <= z
    BY <1>6
  <1> QED  BY <1>7 DEF Largest

\* So many blocks hold at least b threads.
LEMMA BlocksCover ==
    ASSUME NEW b \in Nat, NEW t \in Nat \ {0}
    PROVE  ((b + t - 1) \div t) * t >= b /\ ((b + t - 1) \div t) \in Nat
  <1> DEFINE x == b + t - 1
  <1>1. x \in Nat
    OBVIOUS
  <1>2. /\ x \div t \in Nat /\ x % t \in 0..t - 1
        /\ x = (x \div t) * t + (x % t)
    BY <1>1
  <1> DEFINE g == (x \div t) * t
             r == x % t
  <1>3. r \in 0..t - 1 /\ b + t - 1 = g + r /\ g \in Nat
    BY <1>2
  <1>4. g >= b
    <2> HIDE DEF g, r
    <2> QED  BY <1>3
  <1> QED  BY <1>2, <1>4
-----------------------------------------------------------------------------
\* The constants of the kernel are those of the field and the predicate.
KInv == /\ TypeOK
        /\ shapes = [d \in Dirs |-> Shape(halos, d)]
        /\ bits = { Index(d) : d \in accepted }

\* There are threads for every element of every region.
LEMMA ThreadsCover ==
    ASSUME KInv, NEW a \in Axes
    PROVE  /\ Threads(a) \subseteq Nat
           /\ \A d \in Dirs : 0..shapes[d].sorted[a] - 1 \subseteq Threads(a)
  <1> DEFINE S == { shapes[d].sorted[a] : d \in Dirs }
             b == Largest(S)
             t == ThreadsPerBlock[a]
             grid == IF b = 0 THEN 1 ELSE (b + t - 1) \div t
             N == halos[1].total + halos[2].total + halos[3].total
  <1>1. halos \in Fields /\ \A c \in Axes : IsHalo(halos[c])
    BY ApplyAssumption DEF KInv, TypeOK
  <1>2. \A c \in Axes : halos[c].total \in Nat /\ halos[c].total <= N
    <2>1. halos[1].total \in Nat /\ halos[2].total \in Nat /\ halos[3].total \in Nat
      BY <1>1 DEF IsHalo, Axes
    <2> QED  BY <2>1 DEF Axes
  <1>3. N \in Nat
    BY <1>2 DEF Axes
  <1> HIDE DEF N
  <1>4. ASSUME NEW d \in Dirs PROVE shapes[d].sorted[a] \in 0..N
    <2>1. IsShape(halos, d, shapes[d])
      BY <1>1, ShapeOf DEF KInv
    <2>2. PICK c \in Axes : shapes[d].perm[c] = a
      BY <2>1 DEF IsShape
    <2>3. shapes[d].sorted[a] = Segment(halos[c], d[c])
      BY <2>1, <2>2 DEF IsShape
    <2>4. d[c] \in {-1, 0, 1}
      BY DEF Dirs
    <2>5. Segment(halos[c], d[c]) \in Nat /\ Segment(halos[c], d[c]) <= halos[c].total
      BY <1>1, <2>4, SegmentIsOutside
    <2> QED  BY <1>2, <1>3, <2>3, <2>5
  <1>5. S \in SUBSET (0..N) /\ S # {}
    <2>1. Nth(0) \in Dirs
      BY NthDirection DEF Centre
    <2> QED  BY <1>4, <2>1
  <1> HIDE DEF S
  <1>6. b \in S /\ \A y \in S : y <= b
    BY <1>3, <1>5, LargestOf
  <1>7. b \in Nat /\ t \in Nat \ {0}
    <2>1. b \in Nat
      <3> HIDE DEF b
      <3>1. b \in 0..N
        BY <1>5, <1>6
      <3> QED  BY <1>3, <3>1
    <2>2. t \in Nat \ {0}
      BY KernelAssumption
    <2> QED  BY <2>1, <2>2
  <1>8. Threads(a) = 0..grid * t - 1
    BY DEF Threads, S
  <1> HIDE DEF b, t
  <1>9. grid * t \in Nat /\ grid * t >= b
    <2>1. CASE b = 0
      BY <1>7, <2>1
    <2>2. CASE b # 0
      <3>1. grid = (b + t - 1) \div t
        BY <2>2
      <3>2. grid * t >= b /\ grid \in Nat
        BY <1>7, <3>1, BlocksCover
      <3> QED  BY <1>7, <3>2
    <2> QED  BY <2>1, <2>2
  <1> DEFINE n == grid * t
  <1>10. n \in Nat /\ n >= b /\ Threads(a) = 0..n - 1
    BY <1>8, <1>9
  <1> HIDE DEF n
  <1>11. ASSUME NEW d \in Dirs PROVE shapes[d].sorted[a] \in Nat /\ shapes[d].sorted[a] <= b
    BY <1>3, <1>4, <1>6 DEF S
  <1> QED  BY <1>7, <1>10, <1>11

\* An element of a region is written by one thread, any other by none.
LEMMA OneThread ==
    ASSUME KInv, NEW d \in Dirs, NEW x \in Points(halos)
    PROVE  Cardinality({ t \in Working(shapes[d]) : Target(shapes[d], t) = x }) =
           IF x \in Region(halos, d) THEN 1 ELSE 0
  <1> DEFINE s == shapes[d]
             W == { t \in Working(s) : Target(s, t) = x }
             C == Threads(1) \X Threads(2) \X Threads(3)
  <1>1. /\ halos \in Fields /\ \A a \in Axes : IsHalo(halos[a]) /\ d[a] \in {-1, 0, 1}
        /\ \A a \in Axes : x[a] \in Nat
    BY ApplyAssumption DEF KInv, TypeOK, Points, IsHalo, Dirs, Axes
  <1>2. IsShape(halos, d, s)
    BY <1>1, ShapeOf DEF KInv
  <1>3. ASSUME NEW a \in Axes
        PROVE  /\ x[a] \in Outside(halos[a], d[a]) <=>
                  /\ s.start[a] <= x[a]
                  /\ x[a] < s.start[a] + s.sorted[s.perm[a]]
               /\ s.start[a] \in Nat
    <2>1. IsHalo(halos[a]) /\ d[a] \in {-1, 0, 1} /\ x[a] \in Nat
      BY <1>1
    <2>2. s.sorted[s.perm[a]] = Segment(halos[a], d[a]) /\ s.start[a] = Start(halos[a], d[a])
      BY <1>2 DEF IsShape
    <2> HIDE DEF s
    <2> QED  BY <2>1, <2>2, SegmentIsOutside
  <1>4. \A a \in Axes : /\ Threads(a) \subseteq Nat /\ 0..s.sorted[a] - 1 \subseteq Threads(a)
                        /\ s.start[a] \in Nat
    BY <1>3, ThreadsCover
  <1>5. x = [a \in Axes |-> x[a]]
    BY DEF Points, Axes
  <1> HIDE DEF s
  <1>6. ASSUME NEW t \in C PROVE t = <<t[1], t[2], t[3]>> /\ \A i \in Axes : t[i] \in Threads(i) /\ t[i] \in Nat
    BY <1>4 DEF Axes
  <1>7. ASSUME NEW t \in W
        PROVE  \A a \in Axes : /\ t[s.perm[a]] \in Nat /\ t[s.perm[a]] < s.sorted[s.perm[a]]
                               /\ x[a] = t[s.perm[a]] + s.start[a]
    <2>1. t \in C /\ \A i \in Axes : t[i] < s.sorted[i]
      BY DEF Working
    <2>2. x = [a \in Axes |-> t[s.perm[a]] + s.start[a]]
      BY DEF Target
    <2>3. \A a \in Axes : s.perm[a] \in Axes
      BY <1>2 DEF IsShape
    <2> HIDE DEF C, W
    <2> QED  BY <1>6, <2>1, <2>2, <2>3
  <1>8. CASE x \notin Region(halos, d)
    <2>1. W = {}
      <3> SUFFICES ASSUME NEW t \in W PROVE FALSE
        OBVIOUS
      <3> HIDE DEF W, C
      <3>1. \A a \in Axes : s.sorted[s.perm[a]] \in Nat /\ s.start[a] \in Nat
        BY <1>2, <1>4 DEF IsShape
      <3>2. \A a \in Axes : x[a] \in Outside(halos[a], d[a])
        BY <1>1, <1>3, <1>4, <1>7, <3>1
      <3> QED  BY <1>8, <3>2 DEF Region
    <2> QED  BY <1>8, <2>1, FS_EmptySet DEF s
  <1>9. CASE x \in Region(halos, d)
    <2> DEFINE v(i) == x[CHOOSE a \in Axes : s.perm[a] = i] - s.start[CHOOSE a \in Axes : s.perm[a] = i]
               u == <<v(1), v(2), v(3)>>
    <2>1. \A a \in Axes : /\ s.start[a] <= x[a]
                          /\ x[a] < s.start[a] + s.sorted[s.perm[a]]
      BY <1>3, <1>9 DEF Region
    <2>2. ASSUME NEW a \in Axes PROVE v(s.perm[a]) = x[a] - s.start[a]
      <3>1. (CHOOSE b \in Axes : s.perm[b] = s.perm[a]) = a
        BY <1>2 DEF IsShape
      <3> QED  BY <3>1
    <2> HIDE DEF v
    <2>3. ASSUME NEW i \in Axes PROVE v(i) \in Nat /\ v(i) < s.sorted[i] /\ v(i) \in Threads(i)
      <3>1. PICK a \in Axes : s.perm[a] = i
        BY <1>2 DEF IsShape
      <3>2. v(i) = x[a] - s.start[a] /\ s.sorted[i] \in Nat
        BY <1>2, <2>2, <3>1 DEF IsShape
      <3>3. v(i) \in Nat /\ v(i) < s.sorted[i]
        BY <1>1, <1>4, <2>1, <3>1, <3>2
      <3> QED  BY <1>4, <3>2, <3>3
    <2>4. \A i \in Axes : u[i] = v(i)
      BY DEF Axes
    <2>5. u \in W
      <3>1. u \in C
        BY <2>3 DEF Axes
      <3> HIDE DEF u
      <3>2. \A a \in Axes : u[s.perm[a]] + s.start[a] = x[a]
        <4> SUFFICES ASSUME NEW a \in Axes PROVE u[s.perm[a]] + s.start[a] = x[a]
          OBVIOUS
        <4>1. s.perm[a] \in Axes
          BY <1>2 DEF IsShape
        <4>2. u[s.perm[a]] = x[a] - s.start[a]
          BY <2>2, <2>4, <4>1
        <4> QED  BY <1>1, <1>4, <4>2
      <3>3. Target(s, u) = x
        <4>1. Target(s, u) = [a \in Axes |-> x[a]]
          BY <3>2 DEF Target
        <4> QED  BY <1>5, <4>1
      <3>4. u \in Working(s)
        BY <2>3, <2>4, <3>1 DEF Working
      <3> QED  BY <3>3, <3>4
    <2>6. ASSUME NEW t \in W PROVE t = u
      <3>1. t \in C
        BY DEF Working
      <3> HIDE DEF W, C
      <3>2. ASSUME NEW i \in Axes PROVE t[i] = v(i)
        <4>1. PICK a \in Axes : s.perm[a] = i
          BY <1>2 DEF IsShape
        <4>2. t[i] \in Nat /\ x[a] = t[i] + s.start[a]
          BY <1>7, <4>1
        <4> QED  BY <1>4, <2>2, <4>1, <4>2
      <3>3. t[1] = v(1) /\ t[2] = v(2) /\ t[3] = v(3)
        BY <3>2 DEF Axes
      <3> QED  BY <1>6, <3>1, <3>3
    <2>7. W = {u}
      <3> HIDE DEF W, u
      <3> QED  BY <2>5, <2>6
    <2> QED  BY <1>9, <2>7, FS_Singleton DEF s
  <1> QED  BY <1>8, <1>9

\* A step of the kernel is a step of the loops.
LEMMA KernelStep ==
    ASSUME KInv, [KApply]_kvars
    PROVE  [Next]_vars /\ KInv'
  <1>1. CASE UNCHANGED kvars
    <2>1. UNCHANGED vars /\ shapes' = shapes /\ bits' = bits
      BY <1>1 DEF kvars
    <2> QED  BY <2>1 DEF vars, KInv, TypeOK
  <1>2. CASE KApply
    <2>1. /\ next \in 0..26 /\ next' = next + 1 /\ next' \in 0..27 /\ halos' = halos /\ accepted' = accepted
          /\ bits' = bits /\ shapes' = shapes
          /\ accepted \subseteq Dirs
      BY <1>2, ApplyAssumption DEF KApply, KInv, TypeOK
    <2>2. ASSUME next # Centre
          PROVE  Index(Nth(next)) \in bits <=> Nth(next) \in accepted
      <3>1. Nth(next) \in Dirs
        BY <2>1, <2>2, NthDirection
      <3> QED  BY <2>1, <3>1, IndexOnce DEF KInv
    <2>3. CASE next # Centre /\ Index(Nth(next)) \in bits
      <3>1. PICK d \in Dirs : d = Nth(next)
        BY <2>1, <2>3, NthDirection
      <3>2. written' = [x \in DOMAIN written |->
              written[x] + Cardinality({ t \in Working(shapes[d]) : Target(shapes[d], t) = x })]
        BY <1>2, <2>3, <3>1 DEF KApply, Kernel
      <3>3. DOMAIN written = Points(halos) /\ \A x \in Points(halos) : written[x] \in Nat
        BY DEF KInv, TypeOK
      <3>4. ASSUME NEW x \in Points(halos)
            PROVE  written[x] + Cardinality({ t \in Working(shapes[d]) : Target(shapes[d], t) = x }) =
                   IF x \in Region(halos, d) THEN written[x] + 1 ELSE written[x]
        BY <3>3, OneThread
      <3>5. written' = [x \in DOMAIN written |-> IF x \in Region(halos, d) THEN written[x] + 1 ELSE written[x]]
        BY <3>2, <3>3, <3>4
      <3>6. Apply
        BY <1>2, <2>1, <2>2, <2>3, <3>1, <3>5 DEF Apply, Loop, KApply
      <3>7. DOMAIN written' = Points(halos) /\ \A x \in Points(halos) : written'[x] \in Nat
        BY <3>3, <3>5
      <3>8. TypeOK'
        BY <2>1, <3>7 DEF KInv, TypeOK
      <3> QED  BY <2>1, <3>6, <3>8 DEF KInv, Next
    <2>4. CASE ~ (next # Centre /\ Index(Nth(next)) \in bits)
      <3>1. written' = written
        BY <1>2, <2>4 DEF KApply
      <3>2. ~ (next # Centre /\ Nth(next) \in accepted)
        BY <2>2, <2>4
      <3>3. Apply
        BY <1>2, <2>1, <3>1, <3>2 DEF Apply, KApply
      <3>4. TypeOK'
        BY <2>1, <3>1 DEF KInv, TypeOK
      <3> QED  BY <2>1, <3>3, <3>4 DEF KInv, Next
    <2> QED  BY <2>3, <2>4
  <1> QED  BY <1>1, <1>2

\* The kernel with its sorted extents, permutations and thread blocks writes
\* what the loops of the CPU write, region by region.
THEOREM KernelAsLoops == KSpec => ImplementsApply
  <1>1. KInit => Init /\ KInv
    BY DEF KInit, Init, KInv, TypeOK
  <1>2. KInv /\ [KApply]_kvars => [Next]_vars /\ KInv'
    BY KernelStep
  <1> QED  BY <1>1, <1>2, PTL DEF KSpec, ImplementsApply, Spec

\* After the kernel all accepted halo elements have been written once, no others.
THEOREM KernelWritesOnce == KSpec => []EachOnce
  BY KernelAsLoops, AllWrittenOnce DEF ImplementsApply
=============================================================================
