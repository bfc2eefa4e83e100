-------------------------- MODULE GpuPackingProofs --------------------------
(* Proofs about GpuKernels and GpuPacking, for every grid of processes, all  *)
(* halos and every number of threads in a block.                             *)
EXTENDS GpuPacking, ProcGridProofs, SequenceTheorems

-----------------------------------------------------------------------------
(* One axis of a kernel.                                                     *)
\* What is sent to, or received from, a neighbour at offset i along an axis.
Share(packs, h, i) == IF packs THEN SLength(h, i) ELSE RLength(h, i)

HaloType == [minus : Nat, plus : Nat, begin : Nat, end : Nat, total : Nat]

LEMMA ShareFacts ==
    ASSUME NEW packs \in BOOLEAN, NEW h \in HaloType, IsHalo(h)
    PROVE  /\ Length(h) \in Nat \ {0}
           /\ \A i \in Offsets : Share(packs, h, i) \in Nat
           /\ Share(packs, h, 0) = Length(h)
           /\ Share(packs, h, 1) = IF packs THEN h.minus ELSE h.plus
           /\ Share(packs, h, -1) = IF packs THEN h.plus ELSE h.minus
  BY DEF IsHalo, Length, Offsets, Share, SLength, RLength, HaloType

\* A thread that takes part along an axis belongs to one part of the border, has
\* a position within it, and accesses the field within its bounds.
LEMMA AxisFacts ==
    ASSUME NEW k \in KernelTypes, NEW a \in Axes, NEW h \in HaloType, IsHalo(h),
           NEW i \in 0..Extent(k, a, h) - 1
    PROVE  LET d == Part(k, a, h, i)
           IN  /\ d \in Offsets /\ Extent(k, a, h) \in Nat /\ i \in Nat
               /\ PartLength(k, h, d) = Share(k.packs, h, d)
               /\ InPart(k, a, h, i) \in 0..Share(k.packs, h, d) - 1
               /\ k.packs => Source(k, a, h, i) \in 0..h.total - 1
               /\ ~ k.packs => Target(k, a, h, i) \in 0..h.total - 1
               /\ a = k.axis => d = k.side
  <1>1. /\ k.packs \in BOOLEAN /\ k.axis \in 1..3 /\ k.side \in {-1, 1} /\ a \in 1..3
        /\ h.minus \in Nat /\ h.plus \in Nat /\ h.begin \in Nat /\ h.end \in Nat /\ h.total \in Nat
        /\ h.begin <= h.end /\ h.plus <= h.total - h.end - 1 /\ h.begin >= h.minus
    BY DEF KernelTypes, Axes, HaloType, IsHalo
  <1>2. Length(h) = h.end - h.begin + 1
    BY DEF Length
  <1>3. CASE k.packs
    <2>1. /\ Share(k.packs, h, 0) = Length(h) /\ Share(k.packs, h, 1) = h.minus /\ Share(k.packs, h, -1) = h.plus
          /\ Low(k, h) = h.plus /\ High(k, h) = h.minus
      BY <1>3 DEF Share, SLength, Low, High
    <2>2. CASE a < k.axis
      <3>1. Extent(k, a, h) = h.plus + Length(h) + h.minus
        BY <1>1, <1>3, <2>2 DEF Extent, LengthOn, SLength
      <3>2. Source(k, a, h, i) \in 0..h.total - 1
        BY <1>1, <1>2, <1>3, <2>1, <2>2, <3>1 DEF Source, PartOf
      <3>3. ~ k.packs => Target(k, a, h, i) \in 0..h.total - 1
        BY <1>3
      <3> QED  BY <1>1, <1>2, <2>1, <2>2, <3>1, <3>2, <3>3
               DEF Part, PartOf, PartLength, InPart, Offsets
    <2>3. CASE a = k.axis
      <3>1. Extent(k, a, h) = IF k.side = 1 THEN h.minus ELSE h.plus
        BY <1>1, <1>3, <2>3 DEF Extent, LengthOn, SLength
      <3>2. Source(k, a, h, i) \in 0..h.total - 1
        BY <1>1, <1>2, <2>3, <3>1 DEF Source
      <3>3. ~ k.packs => Target(k, a, h, i) \in 0..h.total - 1
        BY <1>3
      <3> QED  BY <1>1, <1>2, <2>1, <2>3, <3>1, <3>2, <3>3
               DEF Part, PartLength, InPart, Offsets
    <2>4. CASE a > k.axis
      <3>1. Extent(k, a, h) = Length(h)
        BY <1>1, <1>3, <2>4 DEF Extent, LengthOn, SLength
      <3>2. Source(k, a, h, i) \in 0..h.total - 1
        BY <1>1, <1>2, <2>4, <3>1 DEF Source
      <3>3. ~ k.packs => Target(k, a, h, i) \in 0..h.total - 1
        BY <1>3
      <3> QED  BY <1>1, <1>2, <2>1, <2>4, <3>1, <3>2, <3>3
               DEF Part, PartLength, InPart, Offsets
    <2> QED  BY <1>1, <2>2, <2>3, <2>4
  <1>4. CASE ~ k.packs
    <2>1. /\ Share(k.packs, h, 0) = Length(h) /\ Share(k.packs, h, 1) = h.plus /\ Share(k.packs, h, -1) = h.minus
          /\ Low(k, h) = h.minus /\ High(k, h) = h.plus
      BY <1>4 DEF Share, RLength, Low, High
    <2>2. CASE a < k.axis
      <3>1. Extent(k, a, h) = h.minus + Length(h) + h.plus
        BY <1>1, <1>4, <2>2 DEF Extent, LengthOn, RLength
      <3> QED  BY <1>1, <1>2, <1>4, <2>1, <2>2, <3>1
               DEF Part, PartOf, PartLength, InPart, Target, Offsets
    <2>3. CASE a = k.axis
      <3>1. Extent(k, a, h) = IF k.side = 1 THEN h.plus ELSE h.minus
        BY <1>1, <1>4, <2>3 DEF Extent, LengthOn, RLength
      <3> QED  BY <1>1, <1>2, <1>4, <2>1, <2>3, <3>1
               DEF Part, PartLength, InPart, Target, Offsets
    <2>4. CASE a > k.axis
      <3>1. Extent(k, a, h) = Length(h)
        BY <1>1, <1>4, <2>4 DEF Extent, LengthOn, RLength
      <3> QED  BY <1>1, <1>2, <1>4, <2>1, <2>4, <3>1
               DEF Part, PartLength, InPart, Target, Offsets
    <2> QED  BY <1>1, <2>2, <2>3, <2>4
  <1> QED  BY <1>3, <1>4

\* Two threads that are apart along an axis are apart in the message, and in
\* the field.
LEMMA AxisApart ==
    ASSUME NEW k \in KernelTypes, NEW a \in Axes, NEW h \in HaloType, IsHalo(h),
           NEW i \in Nat, NEW j \in Nat
    PROVE  /\ Part(k, a, h, i) = Part(k, a, h, j) /\ InPart(k, a, h, i) = InPart(k, a, h, j) => i = j
           /\ Target(k, a, h, i) = Target(k, a, h, j) => i = j
  <1>1. /\ k.packs \in BOOLEAN /\ k.axis \in 1..3 /\ k.side \in {-1, 1} /\ a \in 1..3
        /\ h.minus \in Nat /\ h.plus \in Nat /\ h.begin \in Nat /\ h.end \in Nat
    BY DEF KernelTypes, Axes, HaloType
  <1>2. Low(k, h) \in Nat /\ Length(h) \in Int
    BY <1>1 DEF Low, Length
  <1>3. Part(k, a, h, i) = Part(k, a, h, j) /\ InPart(k, a, h, i) = InPart(k, a, h, j) => i = j
    <2>1. CASE a < k.axis
      BY <1>1, <1>2, <2>1 DEF Part, InPart
    <2>2. CASE ~ (a < k.axis)
      BY <1>1, <2>2 DEF InPart
    <2> QED  BY <2>1, <2>2
  <1>4. Target(k, a, h, i) = Target(k, a, h, j) => i = j
    BY <1>1 DEF Target
  <1> QED  BY <1>3, <1>4

-----------------------------------------------------------------------------
(* Positions in a box.                                                       *)
\* A row of length m and the place in it.
LEMMA RowFacts ==
    ASSUME NEW m \in Nat, NEW n \in Nat, NEW x \in 0..m-1, NEW y \in 0..n-1
    PROVE  /\ x + y * m \in 0..m*n-1
           /\ \A u \in 0..m-1, v \in 0..n-1 : x + y * m = u + v * m => x = u /\ y = v
  <1>1. y * m \in Nat /\ m * n \in Nat /\ (n - 1 - y) * m \in Nat
    OBVIOUS
  <1>2. (n - 1 - y) * m = m * n - m - y * m
    OBVIOUS
  <1>3. x + y * m \in 0..m*n-1
    BY <1>1, <1>2
  <1>4. ASSUME NEW u \in 0..m-1, NEW v \in 0..n-1, x + y * m = u + v * m PROVE x = u /\ y = v
    <2>1. v * m \in Nat /\ (y - v) * m = y * m - v * m /\ (y - v) * m = u - x
      BY <1>1, <1>4
    <2>2. CASE y > v
      <3>1. (y - v - 1) * m \in Nat /\ (y - v - 1) * m = (y - v) * m - m
        BY <2>2
      <3> QED  BY <2>1, <3>1
    <2>3. CASE y < v
      <3>1. (v - y - 1) * m \in Nat /\ (v - y - 1) * m = 0 - (y - v) * m - m
        BY <2>3
      <3> QED  BY <2>1, <3>1
    <2>4. CASE y = v
      BY <1>4, <2>4, <2>1
    <2> QED  BY <2>2, <2>3, <2>4
  <1> QED  BY <1>3, <1>4

\* The place of position x in a box of the given size, the first axis fastest.
Linear(x, size) == x[1] + x[2] * size[1] + x[3] * size[1] * size[2]

Within(size) == { x \in [Axes -> Nat] : \A a \in Axes : x[a] \in 0..size[a] - 1 }

LEMMA BoxFacts ==
    ASSUME NEW size \in [Axes -> Nat], NEW x \in Within(size)
    PROVE  /\ Linear(x, size) \in 0..size[1]*size[2]*size[3]-1
           /\ \A u \in Within(size) : Linear(x, size) = Linear(u, size) => x = u
  <1> DEFINE l == size[1]
             m == size[2]
             n == size[3]
             s == l * m
             r(u) == u[1] + u[2] * l
  <1>1. l \in Nat /\ m \in Nat /\ n \in Nat /\ s \in Nat
    BY DEF Axes
  <1>2. ASSUME NEW u \in Within(size)
        PROVE  /\ u[1] \in 0..l-1 /\ u[2] \in 0..m-1 /\ u[3] \in 0..n-1
               /\ r(u) \in 0..s-1
               /\ Linear(u, size) = r(u) + u[3] * s
    <2>1. u[1] \in 0..l-1 /\ u[2] \in 0..m-1 /\ u[3] \in 0..n-1
      BY DEF Axes, Within
    <2>2. u[3] * l * m = u[3] * s
      BY <1>1, <2>1
    <2>3. r(u) \in 0..s-1
      <3> HIDE DEF l, m, n
      <3> QED  BY <1>1, <2>1, RowFacts
    <2> QED  BY <2>1, <2>2, <2>3 DEF Linear
  <1>3. l * m * n = s * n
    OBVIOUS
  <1>4. Linear(x, size) \in 0..s*n-1
    <2> HIDE DEF l, m, n, s, r
    <2>1. r(x) \in 0..s-1 /\ x[3] \in 0..n-1
      BY <1>2
    <2>2. r(x) + x[3] * s \in 0..s*n-1
      BY <1>1, <2>1, RowFacts
    <2> QED  BY <1>2, <2>2
  <1>5. ASSUME NEW u \in Within(size), Linear(x, size) = Linear(u, size) PROVE x = u
    <2>1. r(x) = r(u) /\ x[3] = u[3]
      <3> HIDE DEF l, m, n, s, r
      <3>1. r(x) \in 0..s-1 /\ x[3] \in 0..n-1 /\ r(u) \in 0..s-1 /\ u[3] \in 0..n-1
        BY <1>2
      <3> DEFINE i == r(x)
                 j == x[3]
                 v == r(u)
                 w == u[3]
      <3>2. i + j * s = v + w * s
        BY <1>2, <1>5
      <3> HIDE DEF i, j, v, w
      <3>3. i \in 0..s-1 /\ j \in 0..n-1 /\ v \in 0..s-1 /\ w \in 0..n-1
        BY <3>1 DEF i, j, v, w
      <3>4. i = v /\ j = w
        BY <1>1, <3>2, <3>3, RowFacts
      <3> QED  BY <3>4 DEF i, j, v, w
    <2>2. x[1] = u[1] /\ x[2] = u[2]
      <3>1. x[1] \in 0..l-1 /\ x[2] \in 0..m-1 /\ u[1] \in 0..l-1 /\ u[2] \in 0..m-1
        BY <1>2
      <3> DEFINE i == x[1]
                 j == x[2]
                 v == u[1]
                 w == u[2]
      <3>2. i + j * l = v + w * l
        BY <2>1
      <3>3. i \in 0..l-1 /\ j \in 0..m-1 /\ v \in 0..l-1 /\ w \in 0..m-1
        BY <3>1
      <3> HIDE DEF i, j, v, w, l, m
      <3>4. i = v /\ j = w
        BY <1>1, <3>2, <3>3, RowFacts
      <3> QED  BY <3>4 DEF i, j, v, w
    <2> QED  BY <2>1, <2>2 DEF Within, Axes
  <1> QED  BY <1>3, <1>4, <1>5

-----------------------------------------------------------------------------
(* Sides with a neighbour, and halos without the borders of the others.      *)
\* There is a neighbour in a direction if there is one on each of its sides.
LEMMA SideFacts ==
    ASSUME proc \in Procs, NEW d \in Dirs
    PROVE  Side(d) <=> \A a \in Axes : d[a] # 0 => Side(Towards(a, d[a]))
  <1> DEFINE In(a, i) == Cyclic[a] \/ proc[a] + i \in 0..(Dims[a] - 1)
  <1>1. \A a \in Axes : Layout[a] \in Axes
    BY PackingAssumption
  <1>2. Side(d) <=> \A a \in Axes : In(a, d[Layout[a]])
    BY DEF Side, HasNbr
  <1>3. \A a \in Axes : In(a, 0)
    <2> TAKE a \in Axes
    <2>1. proc[a] \in 0..(Dims[a] - 1)
      BY ProcCoords
    <2> QED  BY <2>1, GridAssumption
  <1>4. \A x \in Axes : Side(Towards(x, d[x])) <=> \A a \in Axes : In(a, IF Layout[a] = x THEN d[x] ELSE 0)
    <2> TAKE x \in Axes
    <2>1. \A a \in Axes : Towards(x, d[x])[Layout[a]] = IF Layout[a] = x THEN d[x] ELSE 0
      BY <1>1 DEF Towards, Here
    <2>2. Side(Towards(x, d[x])) <=> \A a \in Axes : In(a, Towards(x, d[x])[Layout[a]])
      BY DEF Side, HasNbr
    <2> HIDE DEF In
    <2> QED  BY <2>1, <2>2
  <1> HIDE DEF In
  <1> QED  BY <1>1, <1>2, <1>3, <1>4

\* Where there is no neighbour nothing is sent or received; nothing else changes.
LEMMA TrimFacts ==
    ASSUME NEW packs \in BOOLEAN, NEW hs \in HaloTypes, NEW a \in Axes, IsHalo(hs[a])
    PROVE  LET h == Trimmed(packs, hs)[a]
           IN  /\ h \in HaloType /\ IsHalo(h) /\ h.total = hs[a].total
               /\ \A i \in Offsets : Share(packs, h, i) = IF i = 0 \/ Side(Towards(a, i))
                                                          THEN Share(packs, hs[a], i) ELSE 0
  <1> DEFINE h == Trimmed(packs, hs)[a]
             g == hs[a]
  <1>1. g \in HaloType
    BY DEF HaloTypes, HaloType
  <1>2. /\ h.minus = IF Side(Towards(a, IF packs THEN 1 ELSE -1)) THEN g.minus ELSE 0
        /\ h.plus = IF Side(Towards(a, IF packs THEN -1 ELSE 1)) THEN g.plus ELSE 0
        /\ h.begin = g.begin /\ h.end = g.end /\ h.total = g.total
        /\ h \in HaloType
    BY <1>1 DEF Trimmed, HaloType
  <1> HIDE DEF h
  <1>3. IsHalo(h)
    BY <1>1, <1>2 DEF IsHalo, HaloType
  <1>4. Share(packs, h, 0) = Share(packs, g, 0)
    BY <1>2 DEF Share, SLength, RLength, Length
  <1>5. Share(packs, h, 1) = IF Side(Towards(a, 1)) THEN Share(packs, g, 1) ELSE 0
    <2>1. CASE packs
      BY <1>2, <2>1 DEF Share, SLength
    <2>2. CASE ~ packs
      BY <1>2, <2>2 DEF Share, RLength
    <2> QED  BY <2>1, <2>2
  <1>6. Share(packs, h, -1) = IF Side(Towards(a, -1)) THEN Share(packs, g, -1) ELSE 0
    <2>1. CASE packs
      BY <1>2, <2>1 DEF Share, SLength
    <2>2. CASE ~ packs
      BY <1>2, <2>2 DEF Share, RLength
    <2> QED  BY <2>1, <2>2
  <1> QED  BY <1>2, <1>3, <1>4, <1>5, <1>6 DEF Offsets, h

LEMMA SizeFacts ==
    ASSUME NEW packs \in BOOLEAN, NEW hs \in HaloTypes, \A a \in Axes : IsHalo(hs[a]), NEW d \in Dirs
    PROVE  /\ Size(packs, hs, d) = Share(packs, hs[1], d[1]) * Share(packs, hs[2], d[2]) * Share(packs, hs[3], d[3])
           /\ Size(packs, hs, d) \in Nat
           /\ proc \in Procs /\ Side(d) => Size(packs, Trimmed(packs, hs), d) = Size(packs, hs, d)
  <1> DEFINE n(a) == Share(packs, hs[a], d[a])
             m(a) == Share(packs, Trimmed(packs, hs)[a], d[a])
  <1>1. /\ Size(packs, hs, d) = n(1) * n(2) * n(3)
        /\ Size(packs, Trimmed(packs, hs), d) = m(1) * m(2) * m(3)
    BY DEF Size, Share
  <1>2. \A a \in Axes : d[a] \in Offsets /\ hs[a] \in HaloType
    BY DEF Dirs, HaloTypes, HaloType
  <1>3. \A a \in Axes : n(a) \in Nat
    BY <1>2, ShareFacts
  <1>4. n(1) * n(2) * n(3) \in Nat
    <2> HIDE DEF n
    <2> QED  BY <1>3 DEF Axes
  <1>5. ASSUME proc \in Procs, Side(d), NEW a \in Axes PROVE m(a) = n(a)
    <2>1. d[a] = 0 \/ Side(Towards(a, d[a]))
      BY <1>5, SideFacts
    <2> QED  BY <1>2, <2>1, TrimFacts
  <1>6. proc \in Procs /\ Side(d) => m(1) = n(1) /\ m(2) = n(2) /\ m(3) = n(3)
    BY <1>5 DEF Axes
  <1> HIDE DEF n, m
  <1>7. proc \in Procs /\ Side(d) => m(1) * m(2) * m(3) = n(1) * n(2) * n(3)
    BY <1>6
  <1> QED  BY <1>1, <1>4, <1>7 DEF n

-----------------------------------------------------------------------------
(* The threads of a kernel.                                                  *)
LEMMA ExtentFacts ==
    ASSUME NEW k \in KernelTypes, NEW a \in Axes, NEW h \in HaloType, IsHalo(h)
    PROVE  /\ Extent(k, a, h) \in Nat
           /\ \A i \in Offsets : LengthOn(k, h, i) = Share(k.packs, h, i)
  <1>1. \A i \in Offsets : LengthOn(k, h, i) = Share(k.packs, h, i)
    BY DEF LengthOn, Share
  <1>2. k.packs \in BOOLEAN /\ k.side \in Offsets
    BY DEF KernelTypes, Offsets
  <1>3. /\ Share(k.packs, h, -1) \in Nat /\ Share(k.packs, h, 0) \in Nat /\ Share(k.packs, h, 1) \in Nat
        /\ Share(k.packs, h, k.side) \in Nat
    <2>1. -1 \in Offsets /\ 0 \in Offsets /\ 1 \in Offsets
      BY DEF Offsets
    <2> QED  BY <1>2, <2>1, ShareFacts
  <1> QED  BY <1>1, <1>2, <1>3 DEF Extent, Offsets

\* Those that take part are within the extent of the kernel, also along its own
\* axis, where the kernel does not look: there its blocks are one thread thick.
LEMMA ThreadFacts ==
    ASSUME NEW k \in KernelTypes, NEW hs \in [Axes -> HaloType], \A a \in Axes : IsHalo(hs[a]),
           NEW block \in Blocks(k, hs), NEW t \in Threads(k, hs, block)
    PROVE  /\ t = <<t[1], t[2], t[3]>>
           /\ \A a \in Axes : t[a] \in 0..Extent(k, a, hs[a]) - 1
  <1> DEFINE Along(a) == { block[a] * k.threads[a] + s : s \in 0..(k.threads[a] - 1) }
             Taking(a) == { i \in Along(a) : a = k.axis \/ i < Extent(k, a, hs[a]) }
             InGrid(a) == 0 .. (CeilDiv(Extent(k, a, hs[a]), k.threads[a]) - 1)
  <1>1. t \in Taking(1) \X Taking(2) \X Taking(3)
    BY DEF Threads
  <1>2. block \in InGrid(1) \X InGrid(2) \X InGrid(3)
    BY DEF Blocks
  <1>3. t = <<t[1], t[2], t[3]>> /\ \A a \in Axes : t[a] \in Taking(a) /\ block[a] \in InGrid(a)
    <2> HIDE DEF Taking, InGrid
    <2> QED  BY <1>1, <1>2 DEF Axes
  <1>4. ASSUME NEW a \in Axes PROVE t[a] \in 0..Extent(k, a, hs[a]) - 1
    <2> DEFINE e == Extent(k, a, hs[a])
               b == block[a]
               n == k.threads[a]
    <2>1. e \in Nat /\ n \in Nat \ {0} /\ (a = k.axis => n = 1)
      BY ExtentFacts DEF KernelTypes
    <2>2. b \in Nat /\ b < CeilDiv(e, n)
      <3>1. CeilDiv(e, n) \in Int /\ b \in 0..CeilDiv(e, n) - 1
        BY <1>3, <2>1 DEF CeilDiv
      <3> QED  BY <3>1
    <2>3. PICK s \in 0..n-1 : t[a] = b * n + s
      BY <1>3
    <2>4. a = k.axis \/ t[a] < e
      BY <1>3
    <2> HIDE DEF e, b, n
    <2>5. b * n \in Nat
      BY <2>1, <2>2
    <2>6. CASE a = k.axis
      <3>1. CeilDiv(e, 1) = e
        BY <2>1 DEF CeilDiv
      <3> QED  BY <2>1, <2>2, <2>3, <2>6, <3>1 DEF e
    <2>7. CASE a # k.axis
      BY <2>1, <2>3, <2>4, <2>5, <2>7 DEF e
    <2> QED  BY <2>6, <2>7
  <1> QED  BY <1>3, <1>4

\* An element of a field or of a message belongs to no two threads.
LEMMA Injective ==
    ASSUME NEW k \in KernelTypes, NEW hs \in [Axes -> HaloType], \A a \in Axes : IsHalo(hs[a]),
           NEW b \in Blocks(k, hs), NEW t \in Threads(k, hs, b),
           NEW c \in Blocks(k, hs), NEW u \in Threads(k, hs, c)
    PROVE  /\ k.packs /\ Access(k, hs, t).dir = Access(k, hs, u).dir
                      /\ Access(k, hs, t).slot = Access(k, hs, u).slot => t = u
           /\ ~ k.packs /\ Access(k, hs, t).at = Access(k, hs, u).at => t = u
  <1> DEFINE P(s, a) == Part(k, a, hs[a], s[a])
             O(s, a) == InPart(k, a, hs[a], s[a])
             L(s, a) == PartLength(k, hs[a], P(s, a))
             Q(s) == O(s, 1) + O(s, 2) * L(s, 1) + O(s, 3) * L(s, 1) * L(s, 2)
  <1>1. \A a \in Axes : t[a] \in 0..Extent(k, a, hs[a]) - 1 /\ u[a] \in 0..Extent(k, a, hs[a]) - 1
    BY ThreadFacts
  <1>2. ASSUME NEW a \in Axes
        PROVE  /\ t[a] \in Nat /\ u[a] \in Nat
               /\ P(t, a) \in Offsets /\ P(u, a) \in Offsets
               /\ O(t, a) \in 0..L(t, a) - 1 /\ O(u, a) \in 0..L(u, a) - 1
               /\ L(t, a) \in Nat /\ L(u, a) \in Nat
    <2>1. k.packs \in BOOLEAN
      BY DEF KernelTypes
    <2> QED  BY <1>1, <2>1, AxisFacts, ShareFacts
  <1>3. (\A a \in Axes : t[a] = u[a]) => t = u
    <2>1. t = <<t[1], t[2], t[3]>> /\ u = <<u[1], u[2], u[3]>>
      BY ThreadFacts
    <2> QED  BY <2>1 DEF Axes
  <1>4. ASSUME k.packs, Access(k, hs, t).dir = Access(k, hs, u).dir,
               Access(k, hs, t).slot = Access(k, hs, u).slot
        PROVE  t = u
    <2>1. \A a \in Axes : P(t, a) = P(u, a)
      BY <1>4 DEF Access
    <2>2. \A a \in Axes : L(t, a) = L(u, a)
      BY <2>1
    <2>3. Q(t) = Q(u)
      BY <1>4 DEF Access, Axes
    <2>4. \A a \in Axes : O(t, a) = O(u, a)
      <3> DEFINE size == [a \in Axes |-> L(t, a)]
                 x == [a \in Axes |-> O(t, a)]
                 y == [a \in Axes |-> O(u, a)]
      <3> HIDE DEF O, L
      <3>1. size \in [Axes -> Nat] /\ x \in Within(size) /\ y \in Within(size)
        BY <1>2, <2>2 DEF Within
      <3>2. Linear(x, size) = Linear(y, size)
        BY <2>2, <2>3 DEF Linear, Axes
      <3>3. x = y
        <4> HIDE DEF x, y, size
        <4> QED  BY <3>1, <3>2, BoxFacts
      <3>4. \A a \in Axes : x[a] = y[a]
        BY <3>3
      <3> QED  BY <3>4
    <2>5. \A a \in Axes : t[a] = u[a]
      BY <1>2, <2>1, <2>4, AxisApart
    <2> QED  BY <2>5, <1>3
  <1>5. ASSUME ~ k.packs, Access(k, hs, t).at = Access(k, hs, u).at PROVE t = u
    <2>1. \A a \in Axes : Target(k, a, hs[a], t[a]) = Target(k, a, hs[a], u[a])
      BY <1>5 DEF Access
    <2>2. \A a \in Axes : t[a] = u[a]
      BY <1>2, <2>1, AxisApart
    <2> QED  BY <2>2, <1>3
  <1> QED  BY <1>4, <1>5

LEMMA TrimmedType ==
    ASSUME NEW packs \in BOOLEAN, NEW hs \in HaloTypes, \A a \in Axes : IsHalo(hs[a])
    PROVE  /\ Trimmed(packs, hs) \in HaloTypes /\ Trimmed(packs, hs) \in [Axes -> HaloType]
           /\ \A a \in Axes : IsHalo(Trimmed(packs, hs)[a])
  <1>1. \A a \in Axes : Trimmed(packs, hs)[a] \in HaloType /\ IsHalo(Trimmed(packs, hs)[a])
    BY TrimFacts
  <1>2. Trimmed(packs, hs) = [a \in Axes |-> Trimmed(packs, hs)[a]]
    BY DEF Trimmed
  <1> QED  BY <1>1, <1>2 DEF HaloTypes, HaloType

\* A thread accesses a message that there is, within the part of its field, and
\* the field within its bounds.
LEMMA AccessFacts ==
    ASSUME proc \in Procs,
           NEW k \in KernelTypes, NEW gs \in HaloTypes, \A a \in Axes : IsHalo(gs[a]),
           NEW b \in Blocks(k, Trimmed(k.packs, gs)), NEW t \in Threads(k, Trimmed(k.packs, gs), b)
    PROVE  LET x == Access(k, Trimmed(k.packs, gs), t)
           IN  /\ x.dir \in Sides /\ x.dir \in Dirs
               /\ x.slot \in 0..Size(k.packs, gs, x.dir) - 1
               /\ x.at \in Box(gs)
  <1> DEFINE hs == Trimmed(k.packs, gs)
             d == [a \in Axes |-> Part(k, a, hs[a], t[a])]
             o == [a \in Axes |-> InPart(k, a, hs[a], t[a])]
             l == [a \in Axes |-> PartLength(k, hs[a], d[a])]
             at == [a \in Axes |-> IF k.packs THEN Source(k, a, hs[a], t[a]) ELSE Target(k, a, hs[a], t[a])]
  <1>0. k.packs \in BOOLEAN /\ k.axis \in Axes /\ k.side \in {-1, 1}
    BY DEF KernelTypes
  <1>1. /\ hs \in HaloTypes /\ hs \in [Axes -> HaloType]
        /\ \A a \in Axes : IsHalo(hs[a]) /\ hs[a] \in HaloType
    BY <1>0, TrimmedType DEF HaloTypes, HaloType
  <1>2. \A a \in Axes : t[a] \in 0..Extent(k, a, hs[a]) - 1
    BY <1>1, ThreadFacts
  <1>3. ASSUME NEW a \in Axes
        PROVE  /\ d[a] \in Offsets /\ l[a] = Share(k.packs, hs[a], d[a])
               /\ l[a] \in Nat /\ o[a] \in 0..l[a] - 1
               /\ at[a] \in 0..gs[a].total - 1
               /\ a = k.axis => d[a] = k.side
    <2>1. hs[a].total = gs[a].total
      BY <1>0, TrimFacts
    <2>2. /\ d[a] \in Offsets /\ l[a] = Share(k.packs, hs[a], d[a])
          /\ o[a] \in 0..l[a] - 1
          /\ a = k.axis => d[a] = k.side
          /\ k.packs => Source(k, a, hs[a], t[a]) \in 0..hs[a].total - 1
          /\ ~ k.packs => Target(k, a, hs[a], t[a]) \in 0..hs[a].total - 1
      <3> HIDE DEF hs
      <3> QED  BY <1>1, <1>2, AxisFacts
    <2>3. l[a] \in Nat
      BY <1>0, <1>1, <2>2, ShareFacts
    <2>4. at[a] \in 0..gs[a].total - 1
      BY <2>1, <2>2
    <2> QED  BY <2>2, <2>3, <2>4
  <1>4. d \in Dirs
    <2>1. d \in [Axes -> Offsets]
      <3>1. \A a \in Axes : d[a] \in Offsets
        BY <1>3
      <3> QED  BY <3>1
    <2>2. d # Here
      <3>1. d[k.axis] # 0
        BY <1>0, <1>3
      <3> QED  BY <1>0, <3>1 DEF Here
    <2> QED  BY <2>1, <2>2 DEF Dirs
  <1>5. Side(d)
    <2>1. ASSUME NEW a \in Axes, d[a] # 0 PROVE Side(Towards(a, d[a]))
      <3>1. Share(k.packs, hs[a], d[a]) # 0
        BY <1>3
      <3>2. d[a] \in Offsets
        BY <1>3
      <3> HIDE DEF d
      <3> QED  BY <1>0, <2>1, <3>1, <3>2, TrimFacts
    <2> HIDE DEF d
    <2> QED  BY <1>4, <2>1, SideFacts
  <1>6. Linear(o, l) \in 0..Size(k.packs, gs, d) - 1
    <2>1. Size(k.packs, hs, d) = Size(k.packs, gs, d)
      <3> HIDE DEF d
      <3> QED  BY <1>0, <1>4, <1>5, SizeFacts
    <2>2. Size(k.packs, hs, d) = l[1] * l[2] * l[3]
      <3>1. Size(k.packs, hs, d)
            = Share(k.packs, hs[1], d[1]) * Share(k.packs, hs[2], d[2]) * Share(k.packs, hs[3], d[3])
        <4> HIDE DEF d, hs
        <4> QED  BY <1>0, <1>1, <1>4, SizeFacts
      <3>2. /\ l[1] = Share(k.packs, hs[1], d[1]) /\ l[2] = Share(k.packs, hs[2], d[2])
            /\ l[3] = Share(k.packs, hs[3], d[3])
        <4> HIDE DEF d, hs, l, o, at
        <4> QED  BY <1>3 DEF Axes
      <3> HIDE DEF d, hs, l
      <3> QED  BY <3>1, <3>2
    <2>3. l \in [Axes -> Nat] /\ o \in Within(l)
      <3>1. \A a \in Axes : l[a] \in Nat /\ o[a] \in 0..l[a] - 1 /\ o[a] \in Nat
        <4> HIDE DEF d, hs, l, o, at
        <4> QED  BY <1>3
      <3>2. l = [a \in Axes |-> l[a]] /\ o = [a \in Axes |-> o[a]]
        OBVIOUS
      <3> HIDE DEF l, o
      <3> QED  BY <3>1, <3>2 DEF Within
    <2> HIDE DEF d, hs, l, o
    <2> QED  BY <2>1, <2>2, <2>3, BoxFacts
  <1>7. at \in Box(gs)
    <2>1. at = <<at[1], at[2], at[3]>>
      BY DEF Axes
    <2>2. at[1] \in 0..gs[1].total - 1 /\ at[2] \in 0..gs[2].total - 1 /\ at[3] \in 0..gs[3].total - 1
      <3> HIDE DEF at, d, l, o
      <3> QED  BY <1>3 DEF Axes
    <2> HIDE DEF at
    <2> QED  BY <2>1, <2>2 DEF Box
  <1>8. Access(k, hs, t) = [at |-> at, dir |-> d, slot |-> Linear(o, l)]
    BY DEF Access, Linear, Axes
  <1> HIDE DEF at, d, o, l
  <1> QED  BY <1>4, <1>5, <1>6, <1>7, <1>8 DEF Sides

-----------------------------------------------------------------------------
(* The parts of the fields in a message.                                     *)
\* What the documentation asks of the generic exchange, and WithinBuffers needs:
\* no field has more to send or to receive than the example setup() is given
\* (halo_exchange.hpp:385, "the maximum, or a suffciently large, halo").
ExampleCovers == \A packs \in BOOLEAN, d \in Dirs, f \in Own :
                    Size(packs, FieldHalos[f], d) <= Size(packs, HaloExample, d)

LEMMA OwnFacts ==
    /\ Len(FieldHalos) \in Nat /\ Own = 1..Len(FieldHalos)
    /\ \A f \in Own : FieldHalos[f] \in HaloTypes /\ \A a \in Axes : IsHalo(FieldHalos[f][a])
    /\ HaloExample \in HaloTypes /\ \A a \in Axes : IsHalo(HaloExample[a])
    /\ \A f \in Own : HalosOf(f) \in HaloTypes /\ \A a \in Axes : IsHalo(HalosOf(f)[a])
  <1>1. Len(FieldHalos) \in Nat /\ Own = 1..Len(FieldHalos)
    BY PackingAssumption DEF Own
  <1>2. \A f \in Own : FieldHalos[f] \in HaloTypes /\ \A a \in Axes : IsHalo(FieldHalos[f][a])
    BY PackingAssumption DEF Own
  <1>3. HaloExample \in HaloTypes /\ \A a \in Axes : IsHalo(HaloExample[a])
    BY PackingAssumption
  <1> QED  BY <1>1, <1>2, <1>3 DEF HalosOf

\* The prefix sums add up the parts, and the buffers are large enough for them.
LEMMA PrefixFacts ==
    ASSUME proc \in Procs, NEW packs \in BOOLEAN, NEW d \in Dirs, Side(d)
    PROVE  LET P == Prefix(packs, d)
           IN  /\ SetupSize(packs, d) \in Nat /\ P[0] = 0
               /\ \A f \in Own : P[f - 1] \in Nat /\ P[f] = P[f - 1] + Size(packs, FieldHalos[f], d)
               /\ ExampleCovers => \A f \in Own : P[f] <= f * SetupSize(packs, d)
  <1> DEFINE L == Len(FieldHalos)
             Part0(f) == Size(packs, Trimmed(packs, FieldHalos[f]), d)
             Term(g, f) == IF f = 0 THEN 0 ELSE g[f - 1] + Part0(f)
             Eq(g) == g = [f \in 0..L |-> Term(g, f)]
             g0 == CHOOSE g : Eq(g)
             s == SetupSize(packs, d)
  <1>1. L \in Nat /\ Own = 1..L
    BY OwnFacts
  <1>2. \A f \in 1..L : Part0(f) \in Nat /\ Part0(f) = Size(packs, FieldHalos[f], d)
    <2>1. \A f \in 1..L : FieldHalos[f] \in HaloTypes /\ \A a \in Axes : IsHalo(FieldHalos[f][a])
      BY OwnFacts
    <2> QED  BY <2>1, SizeFacts
  <1>3. s \in Nat /\ s = Size(packs, HaloExample, d)
    <2>1. HaloExample \in HaloTypes /\ \A a \in Axes : IsHalo(HaloExample[a])
      BY OwnFacts
    <2> QED  BY <2>1, SizeFacts DEF SetupSize
  <1>4. \E g : Eq(g)
    <2> DEFINE Rec(n, g) == \A f \in 0..n : g[f] = Term(g, f)
               P(n) == n <= L => \E g \in [0..n -> Nat] : Rec(n, g)
               X == { n \in Nat : P(n) }
    <2>1. P(0)
      <3>1. [f \in 0..0 |-> 0] \in [0..0 -> Nat] /\ Rec(0, [f \in 0..0 |-> 0])
        OBVIOUS
      <3> QED  BY <3>1
    <2>2. ASSUME NEW n \in Nat, P(n) PROVE P(n + 1)
      <3> SUFFICES ASSUME n + 1 <= L PROVE \E h \in [0..n+1 -> Nat] : Rec(n + 1, h)
        OBVIOUS
      <3>1. PICK g \in [0..n -> Nat] : Rec(n, g)
        <4> HIDE DEF Rec
        <4> QED  BY <1>1, <2>2
      <3> DEFINE h == [f \in 0..n+1 |-> IF f <= n THEN g[f] ELSE g[n] + Part0(n + 1)]
      <3>2. Part0(n + 1) \in Nat
        BY <1>2
      <3> HIDE DEF Part0
      <3>3. h \in [0..n+1 -> Nat]
        BY <3>2
      <3>4. ASSUME NEW f \in 0..n+1 PROVE h[f] = Term(h, f)
        <4>1. CASE f = 0
          BY <3>1, <4>1
        <4>2. CASE f # 0 /\ f <= n
          <5>1. h[f] = g[f] /\ h[f - 1] = g[f - 1] /\ g[f] = g[f - 1] + Part0(f)
            BY <3>1, <4>2
          <5> QED  BY <4>2, <5>1
        <4>3. CASE f = n + 1
          <5>1. h[f] = g[n] + Part0(n + 1) /\ h[f - 1] = g[n]
            BY <4>3
          <5> QED  BY <4>3, <5>1
        <4> QED  BY <4>1, <4>2, <4>3
      <3> HIDE DEF h, Term
      <3> QED  BY <3>3, <3>4
    <2> HIDE DEF P
    <2>3. 0 \in X /\ \A n \in Nat : n \in X => n + 1 \in X
      BY <2>1, <2>2
    <2> HIDE DEF X
    <2>4. L \in X
      BY <1>1, <2>3, SetInduction
    <2>5. PICK g \in [0..L -> Nat] : Rec(L, g)
      BY <1>1, <2>4 DEF X, P
    <2>6. Eq(g)
      BY <2>5
    <2> QED  BY <2>6
  <1>5. Eq(g0)
    BY <1>4
  <1>6. Prefix(packs, d) = g0
    BY DEF Prefix
  <1> HIDE DEF g0
  <1>7. g0[0] = 0 /\ \A f \in 1..L : g0[f] = g0[f - 1] + Part0(f)
    <2> HIDE DEF Part0
    <2> QED  BY <1>1, <1>5
  <1> DEFINE Y == { n \in Nat : n <= L => /\ g0[n] \in Nat
                                          /\ ExampleCovers => g0[n] <= n * s }
  <1>8. 0 \in Y
    BY <1>3, <1>7
  <1>9. ASSUME NEW n \in Nat, n \in Y PROVE n + 1 \in Y
    <2> SUFFICES ASSUME n + 1 <= L PROVE g0[n + 1] \in Nat /\ (ExampleCovers => g0[n + 1] <= (n + 1) * s)
      OBVIOUS
    <2>1. n + 1 \in 1..L /\ (n + 1) - 1 = n
      OBVIOUS
    <2>2. g0[n + 1] = g0[n] + Part0(n + 1)
      BY <1>7, <2>1
    <2>3. g0[n] \in Nat /\ (ExampleCovers => g0[n] <= n * s)
      BY <1>9
    <2>4. Part0(n + 1) \in Nat /\ (ExampleCovers => Part0(n + 1) <= s)
      BY <1>1, <1>2, <1>3, <2>1 DEF ExampleCovers
    <2> HIDE DEF Part0, s
    <2>5. (n + 1) * s = n * s + s /\ n * s \in Nat
      BY <1>3
    <2> QED  BY <1>3, <2>2, <2>3, <2>4, <2>5
  <1> HIDE DEF Y
  <1>10. Nat \subseteq Y
    BY <1>8, <1>9, SetInduction
  <1>11. ASSUME NEW f \in 1..L
         PROVE  g0[f - 1] \in Nat /\ g0[f] = g0[f - 1] + Part0(f) /\ (ExampleCovers => g0[f] <= f * s)
    <2>1. f - 1 \in Nat /\ f \in Nat /\ f <= L /\ f - 1 <= L
      BY <1>1
    <2> HIDE DEF Part0, s
    <2> QED  BY <1>7, <1>10, <2>1 DEF Y
  <1> HIDE DEF Part0, s
  <1> QED  BY <1>1, <1>2, <1>3, <1>6, <1>7, <1>11 DEF s

\* An element of a field's part is an element of the message.
LEMMA PlaceFacts ==
    ASSUME proc \in Procs, NEW packs \in BOOLEAN, NEW d \in Dirs, Side(d), generic => ExampleCovers,
           NEW f \in Own, NEW i \in 0..Size(packs, HalosOf(f), d) - 1
    PROVE  1 + i + Place(packs, f, d) \in 1..(Len(FieldHalos) * SetupSize(packs, d))
  <1> DEFINE s == SetupSize(packs, d)
             n == Len(FieldHalos)
  <1>1. n \in Nat /\ f \in 1..n
    BY OwnFacts
  <1>2. s \in Nat
    BY PrefixFacts
  <1>3. (f - 1) * s = f * s - s /\ f * s <= n * s /\ f * s \in Nat /\ n * s \in Nat /\ (f - 1) * s \in Nat
    <2> HIDE DEF s, n
    <2>1. (n - f) * s \in Nat /\ (n - f) * s = n * s - f * s /\ n * s \in Nat /\ f * s \in Nat
      BY <1>1, <1>2
    <2> QED  BY <1>1, <1>2, <2>1
  <1>4. CASE generic
    <2> DEFINE p == Prefix(packs, d)[f - 1]
               q == Size(packs, HalosOf(f), d)
    <2>1. p \in Nat /\ p + q <= f * s
      BY <1>4, PrefixFacts DEF HalosOf
    <2>2. q \in Nat
      BY OwnFacts, SizeFacts
    <2>3. Place(packs, f, d) = p
      BY <1>4 DEF Place
    <2> HIDE DEF p, q, s, n
    <2> QED  BY <1>3, <2>1, <2>2, <2>3 DEF q, s, n
  <1>5. CASE ~ generic
    <2> DEFINE q == Size(packs, HalosOf(f), d)
    <2>1. q = s
      BY <1>5 DEF HalosOf, SetupSize
    <2>2. Place(packs, f, d) = (f - 1) * s
      BY <1>5 DEF Place
    <2> HIDE DEF q, s, n
    <2> QED  BY <1>2, <1>3, <2>1, <2>2 DEF q, s, n
  <1> QED  BY <1>4, <1>5

-----------------------------------------------------------------------------
(* The stream.                                                               *)
\* What is launched for a face has blocks.
Launched == { l \in [kernel : KernelTypes, field : Own] : BlocksOf(<<l>>) # {} }

LEMMA KernelFacts ==
    /\ DynamicPacking \in Seq(KernelTypes) /\ DynamicUnpacking \in Seq(KernelTypes)
    /\ GenericPacking \in Seq(KernelTypes) /\ GenericUnpacking \in Seq(KernelTypes)
  <1>1. \A p \in BOOLEAN, g \in BOOLEAN, i \in {-1, 1} :
           /\ Kernel(p, g, 1, i, <<1, Wide, Narrow>>) \in KernelTypes
           /\ Kernel(p, g, 2, i, <<Wide, 1, Narrow>>) \in KernelTypes
           /\ Kernel(p, g, 3, i, <<Wide, Narrow, 1>>) \in KernelTypes
    <2> TAKE p \in BOOLEAN, g \in BOOLEAN, i \in {-1, 1}
    <2>1. /\ <<1, Wide, Narrow>> \in [Axes -> Nat \ {0}] /\ <<Wide, 1, Narrow>> \in [Axes -> Nat \ {0}]
          /\ <<Wide, Narrow, 1>> \in [Axes -> Nat \ {0}]
      BY ThreadsAssumption DEF Axes
    <2> QED  BY <2>1 DEF Kernel, KernelTypes, Axes
  <1>2. /\ m_packXL \in KernelTypes /\ m_packXU \in KernelTypes /\ m_packYL \in KernelTypes
        /\ m_packYU \in KernelTypes /\ m_packZL \in KernelTypes /\ m_packZU \in KernelTypes
    BY <1>1 DEF m_packXL, m_packXU, m_packYL, m_packYU, m_packZL, m_packZU
  <1>3. /\ m_unpackXL \in KernelTypes /\ m_unpackXU \in KernelTypes /\ m_unpackYL \in KernelTypes
        /\ m_unpackYU \in KernelTypes /\ m_unpackZL \in KernelTypes /\ m_unpackZU \in KernelTypes
    BY <1>1 DEF m_unpackXL, m_unpackXU, m_unpackYL, m_unpackYU, m_unpackZL, m_unpackZU
  <1>4. /\ m_packXL_generic \in KernelTypes /\ m_packXU_generic \in KernelTypes
        /\ m_packYL_generic \in KernelTypes /\ m_packYU_generic \in KernelTypes
        /\ m_packZL_generic \in KernelTypes /\ m_packZU_generic \in KernelTypes
    BY <1>1 DEF m_packXL_generic, m_packXU_generic, m_packYL_generic, m_packYU_generic,
                m_packZL_generic, m_packZU_generic
  <1>5. /\ m_unpackXL_generic \in KernelTypes /\ m_unpackXU_generic \in KernelTypes
        /\ m_unpackYL_generic \in KernelTypes /\ m_unpackYU_generic \in KernelTypes
        /\ m_unpackZL_generic \in KernelTypes /\ m_unpackZU_generic \in KernelTypes
    BY <1>1 DEF m_unpackXL_generic, m_unpackXU_generic, m_unpackYL_generic, m_unpackYU_generic,
                m_unpackZL_generic, m_unpackZU_generic
  <1> QED  BY <1>2, <1>3, <1>4, <1>5
           DEF DynamicPacking, DynamicUnpacking, GenericPacking, GenericUnpacking

LEMMA FaceLaunch ==
    ASSUME NEW k \in KernelTypes, NEW f \in Own
    PROVE  /\ Launch(k, f) \in [kernel : KernelTypes, field : Own]
           /\ ~ Computes(Launch(k, f))
           /\ BlocksOf(<<Launch(k, f)>>) = Blocks(k, Trimmed(k.packs, HalosOf(f)))
  <1>1. f # 0
    BY OwnFacts
  <1>2. <<Launch(k, f)>> # <<>> /\ Head(<<Launch(k, f)>>) = Launch(k, f)
    OBVIOUS
  <1> QED  BY <1>1, <1>2 DEF Launch, Computes, BlocksOf

LEMMA LaunchesFacts ==
    ASSUME NEW kernels \in Seq(KernelTypes)
    PROVE  Launches(kernels) \in Seq(Launched)
  <1> DEFINE Wanted(k) == SetupSize(k.packs, Towards(k.axis, k.side)) # 0
             One(k, f) == IF Blocks(k, Trimmed(k.packs, HalosOf(f))) # {} THEN <<Launch(k, f)>> ELSE <<>>
             Fields(k) == [f \in Own |-> One(k, f)]
             Each(k) == FlattenSeq(Fields(k))
             Faces == [i \in DOMAIN kernels |-> IF Wanted(kernels[i]) THEN Each(kernels[i]) ELSE <<>>]
  <1>1. ASSUME NEW k \in KernelTypes, NEW f \in Own PROVE One(k, f) \in Seq(Launched)
    <2>1. CASE Blocks(k, Trimmed(k.packs, HalosOf(f))) # {}
      <3>1. Launch(k, f) \in Launched
        BY <2>1, FaceLaunch DEF Launched
      <3>2. One(k, f) = <<Launch(k, f)>>
        BY <2>1
      <3> HIDE DEF One
      <3> QED  BY <3>1, <3>2
    <2>2. CASE Blocks(k, Trimmed(k.packs, HalosOf(f))) = {}
      BY <2>2
    <2> QED  BY <2>1, <2>2
  <1>2. ASSUME NEW k \in KernelTypes PROVE Each(k) \in Seq(Launched)
    <2>1. Fields(k) \in Seq(Seq(Launched))
      <3> HIDE DEF One
      <3>1. \A f \in 1..Len(FieldHalos) : One(k, f) \in Seq(Launched)
        BY <1>1, OwnFacts
      <3>2. Fields(k) = [f \in 1..Len(FieldHalos) |-> One(k, f)]
        BY OwnFacts
      <3> QED  BY <3>1, <3>2, OwnFacts
    <2> HIDE DEF Fields
    <2> QED  BY <2>1, Flatten
  <1>3. Faces \in Seq(Seq(Launched))
    <2> HIDE DEF Each, Wanted
    <2>1. \A i \in 1..Len(kernels) : kernels[i] \in KernelTypes
      OBVIOUS
    <2>2. \A i \in 1..Len(kernels) : (IF Wanted(kernels[i]) THEN Each(kernels[i]) ELSE <<>>) \in Seq(Launched)
      BY <1>2, <2>1
    <2>3. DOMAIN kernels = 1..Len(kernels) /\ Len(kernels) \in Nat
      OBVIOUS
    <2> QED  BY <2>2, <2>3
  <1>4. FlattenSeq(Faces) \in Seq(Launched)
    <2> HIDE DEF Faces
    <2> QED  BY <1>3, Flatten
  <1> QED  BY <1>4 DEF Launches

-----------------------------------------------------------------------------
(* Type correctness.                                                         *)
StreamOK == /\ queue \in Seq(LaunchTypes)
            /\ left \subseteq BlocksOf(queue)
            /\ queue # <<>> => left # {}
            /\ LaunchesOK

MemoryOK == /\ DOMAIN sendbuf = Sides /\ DOMAIN recvbuf = Sides
            /\ \A d \in Sides : /\ DOMAIN sendbuf[d] = 1..(Len(FieldHalos) * SetupSize(TRUE, d))
                                /\ DOMAIN recvbuf[d] = 1..(Len(FieldHalos) * SetupSize(FALSE, d))
            /\ DOMAIN fields = Own
            /\ \A f \in Own : DOMAIN fields[f] = Box(HalosOf(f))

HostOK == /\ proc \in Procs /\ generic \in BOOLEAN
          /\ pc \in {"computing", "ready", "packing", "packed", "exchanged"}
          /\ step \in 0..MaxStep

LEMMA Parts == IndInv <=> HostOK /\ StreamOK /\ MemoryOK
  BY DEF IndInv, TypeOK, HostOK, StreamOK, MemoryOK

\* The blocks of a stream are those of its first kernel.
LEMMA HeadBlocks ==
    ASSUME NEW q \in Seq(LaunchTypes)
    PROVE  /\ q = <<>> => BlocksOf(q) = {}
           /\ q # <<>> => BlocksOf(q) = BlocksOf(<<q[1]>>)
  <1>1. q = <<>> => BlocksOf(q) = {}
    BY DEF BlocksOf
  <1>2. ASSUME q # <<>> PROVE BlocksOf(q) = BlocksOf(<<q[1]>>)
    <2>1. Head(q) = q[1] /\ Head(<<q[1]>>) = q[1] /\ <<q[1]>> # <<>>
      BY <1>2
    <2> QED  BY <1>2, <2>1 DEF BlocksOf
  <1> QED  BY <1>1, <1>2

\* The process and the exchange it makes are always the same.
LEMMA SameBlocks ==
    ASSUME proc' = proc, generic' = generic, NEW q, queue' = q
    PROVE  BlocksOf(queue)' = BlocksOf(q)
  BY DEF BlocksOf, Trimmed, Side, HasNbr, HalosOf, Computes

LEMMA SameLaunch ==
    ASSUME proc' = proc, generic' = generic, NEW n, NEW l, queue'[n] = l
    PROVE  BlocksOf(<<queue[n]>>)' = BlocksOf(<<l>>)
  BY DEF BlocksOf, Trimmed, Side, HasNbr, HalosOf, Computes

LEMMA SameSides ==
    ASSUME proc' = proc, generic' = generic
    PROVE  /\ Sides' = Sides
           /\ \A packs, d : SetupSize(packs, d)' = SetupSize(packs, d)
           /\ \A f : Box(HalosOf(f))' = Box(HalosOf(f))
  <1>1. Sides' = Sides
    BY DEF Sides, Side, HasNbr
  <1>2. ASSUME NEW packs, NEW d PROVE SetupSize(packs, d)' = SetupSize(packs, d)
    BY DEF SetupSize, Size, Side, HasNbr
  <1>3. ASSUME NEW f PROVE Box(HalosOf(f))' = Box(HalosOf(f))
    BY DEF Box, HalosOf
  <1> QED  BY <1>1, <1>2, <1>3

\* The stream keeps its type if it does and each of its kernels has blocks.
LEMMA StreamKept ==
    ASSUME proc' = proc, generic' = generic, NEW q \in Seq(LaunchTypes), queue' = q,
           \A n \in DOMAIN q : BlocksOf(<<q[n]>>) # {},
           left' \subseteq BlocksOf(q), q # <<>> => left' # {}
    PROVE  StreamOK'
  <1>1. BlocksOf(queue)' = BlocksOf(q)
    BY SameBlocks
  <1>2. ASSUME NEW n \in DOMAIN q PROVE BlocksOf(<<queue[n]>>)' # {}
    BY SameLaunch
  <1>3. LaunchesOK'
    BY <1>2 DEF LaunchesOK
  <1> QED  BY <1>1, <1>3 DEF StreamOK

LEMMA MemoryKept ==
    ASSUME MemoryOK, proc' = proc, generic' = generic,
           DOMAIN sendbuf' = Sides, DOMAIN recvbuf' = Sides,
           \A d \in Sides : DOMAIN sendbuf'[d] = DOMAIN sendbuf[d] /\ DOMAIN recvbuf'[d] = DOMAIN recvbuf[d],
           DOMAIN fields' = Own, \A f \in Own : DOMAIN fields'[f] = DOMAIN fields[f]
    PROVE  MemoryOK'
  <1>1. Sides' = Sides
    BY SameSides
  <1>2. ASSUME NEW d \in Sides'
        PROVE  /\ DOMAIN sendbuf'[d] = 1..(Len(FieldHalos) * SetupSize(TRUE, d)')
               /\ DOMAIN recvbuf'[d] = 1..(Len(FieldHalos) * SetupSize(FALSE, d)')
    <2>1. SetupSize(TRUE, d)' = SetupSize(TRUE, d) /\ SetupSize(FALSE, d)' = SetupSize(FALSE, d)
      BY SameSides
    <2> QED  BY <1>1, <2>1 DEF MemoryOK
  <1>3. ASSUME NEW f \in Own PROVE DOMAIN fields'[f] = Box(HalosOf(f))'
    <2>1. Box(HalosOf(f))' = Box(HalosOf(f))
      BY SameSides
    <2> QED  BY <2>1 DEF MemoryOK
  <1>4. Own' = Own
    BY DEF Own
  <1> QED  BY <1>1, <1>2, <1>3, <1>4 DEF MemoryOK

LEMMA EnqueueKeeps ==
    ASSUME StreamOK, proc' = proc, generic' = generic,
           NEW ls \in Seq(LaunchTypes), \A n \in DOMAIN ls : BlocksOf(<<ls[n]>>) # {}, Enqueue(ls)
    PROVE  StreamOK'
  <1> DEFINE q == queue \o ls
  <1>1. queue' = q /\ left' = IF queue = <<>> THEN BlocksOf(ls) ELSE left
    BY DEF Enqueue
  <1>2. queue \in Seq(LaunchTypes) /\ q \in Seq(LaunchTypes)
    BY DEF StreamOK
  <1>3. ASSUME NEW n \in DOMAIN q PROVE BlocksOf(<<q[n]>>) # {}
    <2>1. CASE n <= Len(queue)
      <3>1. q[n] = queue[n] /\ n \in DOMAIN queue
        BY <1>2, <1>3, <2>1
      <3> QED  BY <3>1 DEF StreamOK, LaunchesOK
    <2>2. CASE ~ (n <= Len(queue))
      <3>1. q[n] = ls[n - Len(queue)] /\ n - Len(queue) \in DOMAIN ls
        BY <1>2, <1>3, <2>2
      <3> QED  BY <3>1
    <2> QED  BY <2>1, <2>2
  <1>4. left' \subseteq BlocksOf(q) /\ (q # <<>> => left' # {})
    <2>1. CASE queue = <<>>
      <3>1. q = ls
        BY <2>1
      <3>2. left' = BlocksOf(q)
        BY <1>1, <2>1, <3>1
      <3>3. q # <<>> => 1 \in DOMAIN q
        BY <1>2
      <3>4. q # <<>> => BlocksOf(q) # {}
        <4> HIDE DEF q
        <4> QED  BY <1>2, <1>3, <3>3, HeadBlocks
      <3> QED  BY <3>2, <3>4
    <2>2. CASE queue # <<>>
      <3>1. left' = left /\ left # {} /\ left \subseteq BlocksOf(queue)
        BY <1>1, <2>2 DEF StreamOK
      <3>2. q # <<>> /\ q[1] = queue[1]
        BY <1>2, <2>2
      <3>3. BlocksOf(q) = BlocksOf(queue)
        <4> HIDE DEF q
        <4> QED  BY <1>2, <2>2, <3>2, HeadBlocks
      <3> QED  BY <3>1, <3>3
    <2> QED  BY <2>1, <2>2
  <1> HIDE DEF q
  <1> QED  BY <1>1, <1>2, <1>3, <1>4, StreamKept

LEMMA ThreadsDoneKeeps ==
    ASSUME StreamOK, NEW block \in left, ThreadsDone(block)
    PROVE  StreamOK'
  <1>0. proc' = proc /\ generic' = generic /\ queue \in Seq(LaunchTypes) /\ queue # <<>>
    BY HeadBlocks DEF ThreadsDone, StreamOK
  <1>1. CASE left = {block}
    <2> DEFINE q == Tail(queue)
    <2>1. queue' = q /\ left' = BlocksOf(q)
      BY <1>1 DEF ThreadsDone
    <2>2. q \in Seq(LaunchTypes) /\ \A n \in DOMAIN q : q[n] = queue[n + 1] /\ n + 1 \in DOMAIN queue
      BY <1>0
    <2>3. \A n \in DOMAIN q : BlocksOf(<<q[n]>>) # {}
      <3> HIDE DEF q
      <3> QED  BY <2>2 DEF StreamOK, LaunchesOK
    <2>4. q # <<>> => BlocksOf(q) # {}
      <3>1. q # <<>> => 1 \in DOMAIN q
        BY <2>2
      <3> HIDE DEF q
      <3> QED  BY <2>2, <2>3, <3>1, HeadBlocks
    <2> HIDE DEF q
    <2> QED  BY <1>0, <2>1, <2>2, <2>3, <2>4, StreamKept
  <1>2. CASE left # {block}
    <2>1. queue' = queue /\ left' = left \ {block}
      BY <1>2 DEF ThreadsDone
    <2>2. /\ \A n \in DOMAIN queue : BlocksOf(<<queue[n]>>) # {}
          /\ left' \subseteq BlocksOf(queue) /\ left' # {}
      BY <1>2, <2>1 DEF StreamOK, LaunchesOK
    <2> QED  BY <1>0, <2>1, <2>2, StreamKept
  <1> QED  BY <1>1, <1>2

LEMMA InitInv == Init => IndInv
  <1> SUFFICES ASSUME Init PROVE HostOK /\ StreamOK /\ MemoryOK
    BY Parts
  <1>1. HostOK
    BY PackingAssumption DEF Init, HostOK
  <1>2. StreamOK
    BY DEF Init, StreamOK, LaunchesOK
  <1>3. MemoryOK
    <2>1. sendbuf = Buffers(TRUE) /\ recvbuf = Buffers(FALSE)
          /\ fields = [f \in Own |-> [x \in Box(HalosOf(f)) |-> Element(Here, x, 0)]]
      BY DEF Init
    <2> QED  BY <2>1 DEF MemoryOK, Buffers
  <1> QED  BY <1>1, <1>2, <1>3

\* What pack and unpack launch.
LEMMA LaunchesTyped ==
    ASSUME NEW kernels \in Seq(KernelTypes)
    PROVE  /\ Launches(kernels) \in Seq(LaunchTypes)
           /\ \A n \in DOMAIN Launches(kernels) : BlocksOf(<<Launches(kernels)[n]>>) # {}
  <1> DEFINE q == Launches(kernels)
  <1>1. q \in Seq(Launched)
    BY LaunchesFacts
  <1> HIDE DEF q
  <1>2. \A n \in DOMAIN q : q[n] \in Launched
    BY <1>1
  <1>3. Launched \subseteq LaunchTypes
    BY DEF Launched, LaunchTypes
  <1>4. q \in Seq(LaunchTypes)
    BY <1>1, <1>3
  <1>5. \A n \in DOMAIN q : BlocksOf(<<q[n]>>) # {}
    BY <1>2 DEF Launched
  <1> QED  BY <1>4, <1>5 DEF q

LEMMA HostInv ==
    ASSUME IndInv, Host
    PROVE  IndInv'
  <1>0. HostOK /\ StreamOK /\ MemoryOK
    BY Parts
  <1>1. proc' = proc /\ generic' = generic
    BY DEF Host, Compute, Pack, Synchronize, Exchange, Unpack
  <1>2. HostOK'
    BY <1>0, PackingAssumption DEF HostOK, Host, Compute, Pack, Synchronize, Exchange, Unpack
  <1>3. StreamOK'
    <2>1. CASE Compute
      <3> DEFINE ls == <<Computation>>
      <3>1. ls \in Seq(LaunchTypes) /\ \A n \in DOMAIN ls : ls[n] = Computation
        BY DEF LaunchTypes
      <3>2. BlocksOf(<<Computation>>) # {}
        <4>1. <<Computation>> # <<>> /\ Head(<<Computation>>) = Computation
          OBVIOUS
        <4>2. Computes(Computation)
          BY DEF Computes, Computation, Launch
        <4> QED  BY <4>1, <4>2 DEF BlocksOf
      <3>3. Enqueue(ls)
        BY <2>1 DEF Compute
      <3> HIDE DEF ls
      <3> QED  BY <1>0, <1>1, <3>1, <3>2, <3>3, EnqueueKeeps
    <2>2. CASE Pack
      <3> DEFINE ks == IF generic THEN GenericPacking ELSE DynamicPacking
      <3>1. ks \in Seq(KernelTypes)
        BY KernelFacts
      <3>2. Enqueue(Launches(ks))
        BY <2>2 DEF Pack
      <3> HIDE DEF ks
      <3> QED  BY <1>0, <1>1, <3>1, <3>2, LaunchesTyped, EnqueueKeeps
    <2>3. CASE Unpack
      <3> DEFINE ks == IF generic THEN GenericUnpacking ELSE DynamicUnpacking
      <3>1. ks \in Seq(KernelTypes)
        BY KernelFacts
      <3>2. Enqueue(Launches(ks))
        BY <2>3 DEF Unpack
      <3> HIDE DEF ks
      <3> QED  BY <1>0, <1>1, <3>1, <3>2, LaunchesTyped, EnqueueKeeps
    <2>4. CASE Synchronize \/ Exchange
      <3>1. queue' = queue /\ left' = left
        BY <2>4 DEF Synchronize, Exchange
      <3> QED  BY <1>0, <1>1, <3>1, StreamKept DEF StreamOK, LaunchesOK
    <2> QED  BY <2>1, <2>2, <2>3, <2>4 DEF Host
  <1>4. MemoryOK'
    <2>1. CASE Exchange
      <3>1. sendbuf' = sendbuf /\ fields' = fields /\ DOMAIN recvbuf' = Sides
            /\ \A d \in Sides : DOMAIN recvbuf'[d] = DOMAIN recvbuf[d]
        BY <2>1 DEF Exchange
      <3> QED  BY <1>0, <1>1, <3>1, MemoryKept DEF MemoryOK
    <2>2. CASE Compute \/ Pack \/ Synchronize \/ Unpack
      <3>1. UNCHANGED <<fields, sendbuf, recvbuf>>
        BY <2>2 DEF Compute, Pack, Synchronize, Unpack
      <3> QED  BY <1>0, <1>1, <3>1, MemoryKept DEF MemoryOK
    <2> QED  BY <2>1, <2>2 DEF Host
  <1> QED  BY <1>2, <1>3, <1>4, Parts DEF IndInv, TypeOK, HostOK, StreamOK, MemoryOK

LEMMA BlockInv ==
    ASSUME IndInv, NEW block \in left, RunBlock(block)
    PROVE  IndInv'
  <1>0. HostOK /\ StreamOK /\ MemoryOK
    BY Parts
  <1>1. ThreadsDone(block)
    BY DEF RunBlock
  <1>2. proc' = proc /\ generic' = generic /\ pc' = pc /\ step' = step /\ recvbuf' = recvbuf
    BY <1>1 DEF ThreadsDone
  <1>3. HostOK'
    BY <1>0, <1>2 DEF HostOK
  <1>4. StreamOK'
    BY <1>0, <1>1, ThreadsDoneKeeps
  <1>5. /\ DOMAIN sendbuf' = Sides /\ \A d \in Sides : DOMAIN sendbuf'[d] = DOMAIN sendbuf[d]
        /\ DOMAIN fields' = Own /\ \A f \in Own : DOMAIN fields'[f] = DOMAIN fields[f]
    <2>1. CASE RunPacking(block)
      BY <1>0, <2>1 DEF RunPacking, MemoryOK
    <2>2. CASE RunUnpacking(block)
      <3>1. sendbuf' = sendbuf /\ DOMAIN fields' = DOMAIN fields
        BY <2>2 DEF RunUnpacking
      <3>2. ASSUME NEW f \in Own PROVE DOMAIN fields'[f] = DOMAIN fields[f]
        <4>1. f \in DOMAIN fields
          BY <1>0 DEF MemoryOK
        <4> QED  BY <2>2, <4>1 DEF RunUnpacking
      <3> QED  BY <1>0, <3>1, <3>2 DEF MemoryOK
    <2>3. CASE RunComputation
      BY <1>0, <2>3 DEF RunComputation, MemoryOK
    <2> QED  BY <2>1, <2>2, <2>3 DEF RunBlock
  <1>6. MemoryOK'
    BY <1>0, <1>2, <1>5, MemoryKept DEF MemoryOK
  <1> QED  BY <1>3, <1>4, <1>6, Parts DEF IndInv, TypeOK, HostOK, StreamOK, MemoryOK

LEMMA StepInv == IndInv /\ [Next]_vars => IndInv'
  <1> SUFFICES ASSUME IndInv, [Next]_vars PROVE IndInv'
    OBVIOUS
  <1>1. CASE Host
    BY <1>1, HostInv
  <1>2. CASE \E block \in left : RunBlock(block)
    BY <1>2, BlockInv
  <1>3. CASE UNCHANGED vars
    <2>1. UNCHANGED <<proc, generic, pc, step, queue, left, fields, sendbuf, recvbuf>>
      BY <1>3 DEF vars
    <2>2. HostOK /\ StreamOK /\ MemoryOK
      BY Parts
    <2>3. HostOK'
      BY <2>1, <2>2 DEF HostOK
    <2>4. StreamOK'
      BY <2>1, <2>2, StreamKept DEF StreamOK, LaunchesOK
    <2>5. MemoryOK'
      BY <2>1, <2>2, MemoryKept DEF MemoryOK
    <2> QED  BY <2>3, <2>4, <2>5 DEF IndInv, TypeOK, HostOK, StreamOK, MemoryOK
  <1>4. CASE Terminate
    BY <1>3, <1>4 DEF Terminate
  <1> QED  BY <1>1, <1>2, <1>3, <1>4 DEF Next

LEMMA Invariance == Spec => []IndInv
  <1> QED  BY InitInv, StepInv, PTL DEF Spec

(* Every variable keeps its type, a stream that is not empty has blocks left *)
(* to run, and the buffers keep the sizes of setup().                        *)
THEOREM TypeCorrect == Spec => []TypeOK
  <1>1. IndInv => TypeOK
    BY DEF IndInv
  <1> QED  BY <1>1, Invariance, PTL

-----------------------------------------------------------------------------
(* The accesses of the kernels.                                              *)
LEMMA HeadFacts ==
    ASSUME IndInv, queue # <<>>, ~ Computes(Head(queue))
    PROVE  LET l == Head(queue)
           IN  /\ l.kernel \in KernelTypes /\ l.kernel.packs \in BOOLEAN /\ l.field \in Own
               /\ HalosOf(l.field) \in HaloTypes /\ \A a \in Axes : IsHalo(HalosOf(l.field)[a])
               /\ BlocksOf(queue) = Blocks(l.kernel, Trimmed(l.kernel.packs, HalosOf(l.field)))
  <1> DEFINE l == Head(queue)
  <1>1. l \in LaunchTypes
    BY DEF IndInv, TypeOK
  <1>2. Computation.field = 0
    BY DEF Computation, Launch
  <1>3. l \in [kernel : KernelTypes, field : Own]
    BY <1>1, <1>2 DEF Computes, LaunchTypes
  <1>4. BlocksOf(queue) = Blocks(l.kernel, Trimmed(l.kernel.packs, HalosOf(l.field)))
    BY DEF BlocksOf
  <1> HIDE DEF l
  <1>5. l.kernel \in KernelTypes /\ l.field \in Own
    BY <1>3
  <1> QED  BY <1>4, <1>5, OwnFacts DEF l, KernelTypes

LEMMA AccessOfFacts ==
    ASSUME NEW l, NEW t
    PROVE  LET x == Access(l.kernel, Trimmed(l.kernel.packs, HalosOf(l.field)), t)
           IN  /\ AccessOf(l, t).dir = x.dir /\ AccessOf(l, t).at = x.at
               /\ AccessOf(l, t).slot = 1 + x.slot + (IF x.dir \in Sides THEN Place(l.kernel.packs, l.field, x.dir) ELSE 0)
  BY DEF AccessOf, Access

LEMMA PlaceType ==
    ASSUME proc \in Procs, NEW packs \in BOOLEAN, NEW d \in Dirs, Side(d), NEW f \in Own
    PROVE  Place(packs, f, d) \in Nat
  <1>1. f \in Nat \ {0} /\ SetupSize(packs, d) \in Nat /\ Prefix(packs, d)[f - 1] \in Nat
    BY OwnFacts, PrefixFacts
  <1>2. (f - 1) * SetupSize(packs, d) \in Nat
    <2> DEFINE s == SetupSize(packs, d)
    <2>1. s \in Nat /\ f - 1 \in Nat
      BY <1>1
    <2> HIDE DEF s
    <2>2. (f - 1) * s \in Nat
      BY <2>1
    <2> QED  BY <2>2 DEF s
  <1> QED  BY <1>1, <1>2 DEF Place

LEMMA ThreadsFinite ==
    ASSUME NEW k \in KernelTypes, NEW hs \in [Axes -> HaloType], \A a \in Axes : IsHalo(hs[a])
    PROVE  IsFiniteSet(UNION { Threads(k, hs, b) : b \in Blocks(k, hs) })
  <1> DEFINE All == UNION { Threads(k, hs, b) : b \in Blocks(k, hs) }
             size == [a \in Axes |-> Extent(k, a, hs[a])]
             At(t) == [a \in Axes |-> t[a]]
             N == size[1] * size[2] * size[3]
             g == [t \in All |-> Linear(At(t), size)]
  <1>1. size \in [Axes -> Nat]
    BY ExtentFacts
  <1>2. ASSUME NEW t \in All PROVE t = <<t[1], t[2], t[3]>> /\ At(t) \in Within(size)
    <2>1. PICK b \in Blocks(k, hs) : t \in Threads(k, hs, b)
      OBVIOUS
    <2>2. t = <<t[1], t[2], t[3]>> /\ \A a \in Axes : t[a] \in 0..Extent(k, a, hs[a]) - 1
      BY <2>1, ThreadFacts
    <2>3. \A a \in Axes : At(t)[a] \in 0..size[a] - 1 /\ At(t)[a] \in Nat
      BY <2>2, ExtentFacts
    <2> QED  BY <2>2, <2>3 DEF Within
  <1>3. \A t \in All : Linear(At(t), size) \in 0..N - 1
    <2> HIDE DEF At, size, All
    <2> QED  BY <1>1, <1>2, BoxFacts
  <1>4. ASSUME NEW t \in All, NEW u \in All, Linear(At(t), size) = Linear(At(u), size) PROVE t = u
    <2>1. At(t) = At(u)
      <3> HIDE DEF At, size, All
      <3> QED  BY <1>1, <1>2, <1>4, BoxFacts
    <2>2. \A a \in Axes : t[a] = u[a]
      BY <2>1
    <2>3. t[1] = u[1] /\ t[2] = u[2] /\ t[3] = u[3]
      BY <2>2 DEF Axes
    <2>4. t = <<t[1], t[2], t[3]>> /\ u = <<u[1], u[2], u[3]>>
      BY <1>2
    <2> HIDE DEF All, At
    <2> QED  BY <2>3, <2>4
  <1>5. g \in Injection(All, 0..N - 1)
    <2> HIDE DEF At, size, All, N
    <2> QED  BY <1>3, <1>4 DEF Injection, IsInjective
  <1>6. IsFiniteSet(0..N - 1)
    <2>1. N \in Int
      <3>1. size[1] \in Nat /\ size[2] \in Nat /\ size[3] \in Nat
        BY <1>1 DEF Axes
      <3> HIDE DEF size
      <3> QED  BY <3>1
    <2>2. 0 \in Int /\ N - 1 \in Int
      BY <2>1
    <2> HIDE DEF N
    <2> QED  BY <2>2, FS_Interval
  <1> HIDE DEF g, N, All
  <1>7. IsFiniteSet(All)
    BY <1>5, <1>6, FS_Injection
  <1> QED  BY <1>7 DEF All

(* Also in the corners, where two of three neighbours may be missing, no     *)
(* thread accesses a message that does not exist, or anything beyond the end *)
(* of one, or of a field: if no field of the generic exchange has more to    *)
(* send or to receive than the example setup() is given.                     *)
THEOREM Bounds ==
    ASSUME ExampleCovers
    PROVE  Spec => []WithinBuffers
  <1>1. IndInv => WithinBuffers
    <2> SUFFICES ASSUME IndInv, queue # <<>>, ~ Computes(Head(queue)),
                        NEW block \in left, NEW x \in Accesses(Head(queue), block)
                 PROVE  LET l == Head(queue)
                            buffers == IF l.kernel.packs THEN sendbuf ELSE recvbuf
                        IN  x.dir \in Sides /\ x.slot \in DOMAIN buffers[x.dir] /\ x.at \in DOMAIN fields[l.field]
      BY DEF WithinBuffers
    <2> DEFINE l == Head(queue)
               k == l.kernel
               f == l.field
               gs == HalosOf(f)
               buffers == IF k.packs THEN sendbuf ELSE recvbuf
    <2>1. /\ k \in KernelTypes /\ k.packs \in BOOLEAN /\ f \in Own
          /\ gs \in HaloTypes /\ \A a \in Axes : IsHalo(gs[a])
          /\ block \in Blocks(k, Trimmed(k.packs, gs)) /\ proc \in Procs
      BY HeadFacts DEF IndInv, TypeOK
    <2>2. PICK t \in Threads(k, Trimmed(k.packs, gs), block) : x = AccessOf(l, t)
      BY DEF Accesses, ThreadsOf
    <2> DEFINE y == Access(k, Trimmed(k.packs, gs), t)
    <2>3. /\ y.dir \in Sides /\ y.dir \in Dirs /\ Side(y.dir)
          /\ y.slot \in 0..Size(k.packs, gs, y.dir) - 1
          /\ y.at \in Box(gs)
      <3> HIDE DEF k, gs
      <3> QED  BY <2>1, AccessFacts DEF Sides
    <2>4. x.dir = y.dir /\ x.at = y.at /\ x.slot = 1 + y.slot + Place(k.packs, f, y.dir)
      BY <2>2, <2>3 DEF AccessOf, Access
    <2>5. x.slot \in 1..(Len(FieldHalos) * SetupSize(k.packs, y.dir))
      <3> HIDE DEF k, f, y
      <3> QED  BY <2>1, <2>3, <2>4, PlaceFacts
    <2>6. DOMAIN buffers[y.dir] = 1..(Len(FieldHalos) * SetupSize(k.packs, y.dir))
      <3>1. CASE k.packs = TRUE
        BY <2>3, <3>1 DEF IndInv, TypeOK
      <3>2. CASE k.packs = FALSE
        BY <2>3, <3>2 DEF IndInv, TypeOK
      <3> QED  BY <2>1, <3>1, <3>2
    <2>7. x.at \in DOMAIN fields[f]
      BY <2>1, <2>3, <2>4 DEF IndInv, TypeOK
    <2> QED  BY <2>3, <2>4, <2>5, <2>6, <2>7
  <1> QED  BY <1>1, Invariance, PTL

(* The threads of a kernel, in whatever blocks, write each a place of their  *)
(* own: the order in which the blocks run makes no difference.               *)
THEOREM Apart == Spec => []ThreadsApart
  <1>1. IndInv => ThreadsApart
    <2> DEFINE l == Head(queue)
               k == l.kernel
               hs == Trimmed(k.packs, HalosOf(l.field))
               Written(x) == IF k.packs THEN <<x.dir, x.slot>> ELSE x.at
               All == UNION { ThreadsOf(l, block) : block \in BlocksOf(queue) }
               Image == { Written(AccessOf(l, t)) : t \in All }
    <2> SUFFICES ASSUME IndInv, queue # <<>>, ~ Computes(Head(queue))
                 PROVE  Cardinality(Image) = Cardinality(All)
      BY DEF ThreadsApart
    <2>1. /\ k \in KernelTypes /\ k.packs \in BOOLEAN /\ proc \in Procs
          /\ HalosOf(l.field) \in HaloTypes /\ \A a \in Axes : IsHalo(HalosOf(l.field)[a])
          /\ BlocksOf(queue) = Blocks(k, hs)
      BY HeadFacts DEF IndInv, TypeOK
    <2>2. hs \in [Axes -> HaloType] /\ \A a \in Axes : IsHalo(hs[a])
      BY <2>1, TrimmedType
    <2>3. ASSUME NEW t \in All PROVE \E b \in Blocks(k, hs) : t \in Threads(k, hs, b)
      BY <2>1, <2>3 DEF ThreadsOf
    <2>4. ASSUME NEW t \in All, NEW u \in All, Written(AccessOf(l, t)) = Written(AccessOf(l, u))
          PROVE  t = u
      <3> DEFINE x == Access(k, hs, t)
                 y == Access(k, hs, u)
                 p(d) == IF d \in Sides THEN Place(k.packs, l.field, d) ELSE 0
      <3>1. PICK b \in Blocks(k, hs), c \in Blocks(k, hs) : t \in Threads(k, hs, b) /\ u \in Threads(k, hs, c)
        BY <2>3
      <3>2. AccessOf(l, t).dir = x.dir /\ AccessOf(l, t).at = x.at /\ AccessOf(l, t).slot = 1 + x.slot + p(x.dir)
        BY AccessOfFacts
      <3>3. AccessOf(l, u).dir = y.dir /\ AccessOf(l, u).at = y.at /\ AccessOf(l, u).slot = 1 + y.slot + p(y.dir)
        BY AccessOfFacts
      <3>4. CASE k.packs
        <4>1. x.dir = y.dir /\ 1 + x.slot + p(x.dir) = 1 + y.slot + p(y.dir)
          BY <2>4, <3>2, <3>3, <3>4
        <4>2. /\ x.dir \in Sides /\ x.dir \in Dirs /\ Side(x.dir)
              /\ x.slot \in 0..Size(k.packs, HalosOf(l.field), x.dir) - 1
              /\ y.slot \in 0..Size(k.packs, HalosOf(l.field), y.dir) - 1
          <5> HIDE DEF k
          <5> QED  BY <2>1, <3>1, AccessFacts DEF Sides
        <4>3. p(x.dir) \in Nat
          <5> DEFINE d == x.dir
          <5>1. l.field \in Own /\ d \in Sides /\ d \in Dirs /\ Side(d)
            BY <4>2, HeadFacts
          <5> HIDE DEF k, d
          <5>2. Place(k.packs, l.field, d) \in Nat
            BY <2>1, <5>1, PlaceType
          <5> QED  BY <5>1, <5>2 DEF d
        <4>4. x.slot = y.slot
          <5>1. x.slot \in Int /\ y.slot \in Int /\ p(y.dir) = p(x.dir)
            BY <4>1, <4>2
          <5> HIDE DEF x, y, p
          <5> QED  BY <4>1, <4>3, <5>1
        <4> HIDE DEF k, hs
        <4> QED  BY <2>1, <2>2, <3>1, <3>4, <4>1, <4>4, Injective
      <3>5. CASE ~ k.packs
        <4>1. x.at = y.at
          BY <2>4, <3>2, <3>3, <3>5
        <4> HIDE DEF k, hs
        <4> QED  BY <2>1, <2>2, <3>1, <3>5, <4>1, Injective
      <3> QED  BY <3>4, <3>5
    <2>5. IsFiniteSet(All)
      <3>1. All = UNION { Threads(k, hs, b) : b \in Blocks(k, hs) }
        BY <2>1 DEF ThreadsOf
      <3> HIDE DEF k, hs, All
      <3> QED  BY <2>1, <2>2, <3>1, ThreadsFinite
    <2>6. Cardinality(Image) = Cardinality(All)
      <3> DEFINE W(t) == Written(AccessOf(l, t))
                 g == [t \in All |-> W(t)]
      <3>1. \A t, u \in All : W(t) = W(u) => t = u
        BY <2>4
      <3>2. Image = { W(t) : t \in All }
        OBVIOUS
      <3> HIDE DEF All, W, Image
      <3>3. g \in Injection(All, Image)
        BY <3>1, <3>2 DEF Injection, IsInjective
      <3>4. g \in Surjection(All, Image)
        BY <3>2 DEF Surjection
      <3> HIDE DEF g
      <3>5. ExistsBijection(All, Image)
        BY <3>3, <3>4 DEF ExistsBijection, Bijection
      <3> QED  BY <2>5, <3>5, FS_Bijection
    <2> QED  BY <2>6
  <1> QED  BY <1>1, Invariance, PTL

-----------------------------------------------------------------------------
(* The order of the elements in a message.                                   *)
\* The row and the column of a place.
LEMMA RowDigits ==
    ASSUME NEW m \in Nat, NEW n \in Nat, NEW i \in 0..m*n-1
    PROVE  /\ m > 0 /\ i % m \in 0..m-1 /\ i \div m \in 0..n-1 /\ i = (i % m) + (i \div m) * m
           /\ \A x \in 0..m-1, y \in 0..n-1 : i = x + y * m => x = i % m /\ y = i \div m
  <1>1. m > 0 /\ n > 0
    <2>1. m * n \in Nat /\ m * n > 0
      OBVIOUS
    <2> QED  BY <2>1
  <1> DEFINE q == i \div m
             r == i % m
  <1>2. q \in Nat /\ r \in 0..m-1 /\ i = r + q * m
    BY <1>1
  <1> HIDE DEF q, r
  <1>3. q < n
    <2> SUFFICES ASSUME q >= n PROVE FALSE
      BY <1>2
    <2>1. (q - n) * m \in Nat /\ (q - n) * m = q * m - n * m /\ m * n = n * m /\ q * m \in Nat /\ n * m \in Nat
      BY <1>2
    <2> QED  BY <1>2, <2>1
  <1>4. q \in 0..n-1
    BY <1>2, <1>3
  <1>5. ASSUME NEW x \in 0..m-1, NEW y \in 0..n-1, i = x + y * m PROVE x = r /\ y = q
    <2>1. x + y * m = r + q * m
      BY <1>2, <1>5
    <2> QED  BY <1>2, <1>4, <2>1, RowFacts
  <1> QED  BY <1>1, <1>2, <1>4, <1>5 DEF q, r

\* The loops visit every element of a box, each at its place.
LEMMA VisitedFacts ==
    ASSUME NEW size \in [Axes -> Nat], NEW lo \in [Axes -> Int]
    PROVE  /\ \A x \in Within(size) : Visited(lo, size, Linear(x, size)) = [a \in Axes |-> lo[a] + x[a]]
           /\ \A i \in 0..size[1]*size[2]*size[3]-1 : \E x \in Within(size) : Linear(x, size) = i
  <1> DEFINE l == size[1]
             m == size[2]
             n == size[3]
  <1>1. l \in Nat /\ m \in Nat /\ n \in Nat /\ l * m \in Nat /\ m * n \in Nat
    BY DEF Axes
  <1>2. ASSUME NEW x \in Within(size)
        PROVE  Visited(lo, size, Linear(x, size)) = [a \in Axes |-> lo[a] + x[a]]
    <2> DEFINE i == Linear(x, size)
               u == x[1]
               v == x[2]
               w == x[3]
    <2>1. u \in 0..l-1 /\ v \in 0..m-1 /\ w \in 0..n-1
      BY DEF Within, Axes
    <2> HIDE DEF l, m, n, u, v, w
    <2>2. /\ u + v * l \in 0..l*m-1 /\ v + w * m \in 0..m*n-1
          /\ (u + v * l) + w * (l * m) \in 0..(l*m)*n-1
          /\ u + (v + w * m) * l \in 0..l*(m*n)-1
      <3>1. u + v * l \in 0..l*m-1 /\ v + w * m \in 0..m*n-1
        BY <1>1, <2>1, RowFacts
      <3>2. (u + v * l) + w * (l * m) \in 0..(l*m)*n-1
        <4> DEFINE r == u + v * l
                   s == l * m
        <4>1. r \in 0..s-1 /\ s \in Nat
          BY <1>1, <3>1
        <4> HIDE DEF r, s
        <4>2. r + w * s \in 0..s*n-1
          BY <1>1, <2>1, <4>1, RowFacts
        <4> QED  BY <4>2 DEF r, s
      <3>3. u + (v + w * m) * l \in 0..l*(m*n)-1
        <4> DEFINE r == v + w * m
                   s == m * n
        <4>1. r \in 0..s-1 /\ s \in Nat
          BY <1>1, <3>1
        <4> HIDE DEF r, s
        <4>2. u + r * l \in 0..l*s-1
          BY <1>1, <2>1, <4>1, RowFacts
        <4> QED  BY <4>2 DEF r, s
      <3> QED  BY <3>1, <3>2, <3>3
    <2>3. i = (u + v * l) + w * (l * m) /\ i = u + (v + w * m) * l
      <3>1. i = u + v * l + w * l * m
        BY DEF Linear, l, m, u, v, w
      <3>2. w * l * m = w * (l * m) /\ (v + w * m) * l = v * l + w * l * m
        BY <1>1, <2>1
      <3> QED  BY <1>1, <2>1, <3>1, <3>2
    <2>4. i \div (l * m) = w
      <3> DEFINE r == u + v * l
                 s == l * m
      <3>1. r \in 0..s-1 /\ s \in Nat /\ i \in 0..s*n-1 /\ i = r + w * s
        BY <1>1, <2>2, <2>3
      <3> HIDE DEF r, s, i
      <3>2. i \div s = w
        BY <1>1, <2>1, <3>1, RowDigits
      <3> QED  BY <3>2 DEF s
    <2>5. i % l = u /\ i \div l = v + w * m
      <3> DEFINE r == v + w * m
                 s == m * n
      <3>1. r \in 0..s-1 /\ s \in Nat /\ i \in 0..l*s-1 /\ i = u + r * l
        BY <1>1, <2>2, <2>3
      <3> HIDE DEF r, s, i
      <3>2. i % l = u /\ i \div l = r
        BY <1>1, <2>1, <3>1, RowDigits
      <3> QED  BY <3>2 DEF r
    <2>6. (v + w * m) % m = v
      <3> DEFINE r == v + w * m
      <3>1. r \in 0..m*n-1 /\ r = v + w * m
        BY <2>2
      <3> HIDE DEF r
      <3>2. r % m = v
        BY <1>1, <2>1, <3>1, RowDigits
      <3> QED  BY <3>2 DEF r
    <2>7. Visited(lo, size, i) = << lo[1] + (i % l), lo[2] + ((i \div l) % m), lo[3] + (i \div (l * m)) >>
      BY DEF Visited, l, m
    <2>8. Visited(lo, size, i) = << lo[1] + u, lo[2] + v, lo[3] + w >>
      <3> HIDE DEF i
      <3> QED  BY <2>4, <2>5, <2>6, <2>7
    <2>9. [a \in Axes |-> lo[a] + x[a]] = << lo[1] + u, lo[2] + v, lo[3] + w >>
      BY DEF Axes, u, v, w
    <2> QED  BY <2>8, <2>9
  <1>3. ASSUME NEW i \in 0..l*m*n-1 PROVE \E x \in Within(size) : Linear(x, size) = i
    <2> DEFINE s == l * m
               r == i % s
               w == i \div s
               u == r % l
               v == r \div l
    <2>1. r \in 0..s-1 /\ w \in 0..n-1 /\ i = r + w * s
      <3> HIDE DEF l, m, n
      <3>1. s \in Nat /\ i \in 0..s*n-1
        BY <1>1
      <3> HIDE DEF s
      <3> QED  BY <1>1, <3>1, RowDigits
    <2>2. u \in 0..l-1 /\ v \in 0..m-1 /\ r = u + v * l
      <3> HIDE DEF l, m, n, r
      <3> QED  BY <1>1, <2>1, RowDigits
    <2> DEFINE x == [a \in Axes |-> IF a = 1 THEN u ELSE IF a = 2 THEN v ELSE w]
    <2> HIDE DEF u, v, w, r
    <2>3. x[1] = u /\ x[2] = v /\ x[3] = w
      BY DEF Axes
    <2>4. x \in Within(size)
      <3>1. \A a \in Axes : x[a] \in Nat /\ x[a] \in 0..size[a] - 1
        BY <1>1, <2>1, <2>2 DEF Axes
      <3> QED  BY <3>1 DEF Within
    <2>5. Linear(x, size) = i
      <3>1. Linear(x, size) = u + v * l + w * l * m
        BY <2>3 DEF Linear
      <3>2. w * l * m = w * s
        BY <1>1, <2>1
      <3> HIDE DEF x
      <3> QED  BY <2>1, <2>2, <3>1, <3>2
    <2> QED  BY <2>4, <2>5
  <1> QED  BY <1>2, <1>3

\* Where a part of the border begins in the field.
Begin(packs, h, i) == IF i = 0 THEN h.begin
                      ELSE IF i = 1 THEN (IF packs THEN h.end - h.minus + 1 ELSE h.end + 1)
                                    ELSE (IF packs THEN h.begin ELSE h.begin - h.minus)

LEMMA AxisPlace ==
    ASSUME NEW k \in KernelTypes, NEW a \in Axes, NEW h \in HaloType, IsHalo(h),
           NEW i \in 0..Extent(k, a, h) - 1
    PROVE  (IF k.packs THEN Source(k, a, h, i) ELSE Target(k, a, h, i))
           = Begin(k.packs, h, Part(k, a, h, i)) + InPart(k, a, h, i)
  <1>1. /\ k.packs \in BOOLEAN /\ k.axis \in 1..3 /\ k.side \in {-1, 1} /\ a \in 1..3
        /\ h.minus \in Nat /\ h.plus \in Nat /\ h.begin \in Nat /\ h.end \in Nat /\ i \in Nat
    BY ExtentFacts DEF KernelTypes, Axes, HaloType
  <1>2. Length(h) = h.end - h.begin + 1
    BY DEF Length
  <1>3. CASE k.packs
    <2>1. Low(k, h) = h.plus
      BY <1>3 DEF Low
    <2>2. Source(k, a, h, i) = Begin(TRUE, h, Part(k, a, h, i)) + InPart(k, a, h, i)
      <3>1. CASE a < k.axis
        BY <1>1, <1>2, <2>1, <3>1 DEF Source, Begin, Part, PartOf, InPart
      <3>2. CASE ~ (a < k.axis)
        BY <1>1, <1>2, <3>2 DEF Source, Begin, Part, InPart
      <3> QED  BY <3>1, <3>2
    <2> QED  BY <1>3, <2>2 DEF Begin
  <1>4. CASE ~ k.packs
    <2>1. Low(k, h) = h.minus
      BY <1>4 DEF Low
    <2>2. Target(k, a, h, i) = Begin(FALSE, h, Part(k, a, h, i)) + InPart(k, a, h, i)
      <3>1. CASE a < k.axis
        BY <1>1, <1>2, <2>1, <3>1 DEF Target, Begin, Part, PartOf, InPart
      <3>2. CASE ~ (a < k.axis)
        BY <1>1, <1>2, <3>2 DEF Target, Begin, Part, InPart
      <3> QED  BY <3>1, <3>2
    <2> QED  BY <1>4, <2>2 DEF Begin
  <1> QED  BY <1>1, <1>3, <1>4

\* The size of the border, or halo, in a direction.
Shares(packs, hs, d) == [a \in Axes |-> Share(packs, hs[a], d[a])]
Begins(packs, hs, d) == [a \in Axes |-> Begin(packs, hs[a], d[a])]

LEMMA SharesFacts ==
    ASSUME NEW packs \in BOOLEAN, NEW hs \in HaloTypes, \A a \in Axes : IsHalo(hs[a]), NEW d \in Dirs
    PROVE  /\ Shares(packs, hs, d) \in [Axes -> Nat] /\ Begins(packs, hs, d) \in [Axes -> Int]
           /\ Size(packs, hs, d) = Shares(packs, hs, d)[1] * Shares(packs, hs, d)[2] * Shares(packs, hs, d)[3]
           /\ Shares(TRUE, hs, Neg(d)) = Shares(FALSE, hs, d)
  <1>1. \A a \in Axes : d[a] \in Offsets /\ hs[a] \in HaloType
    BY DEF Dirs, HaloTypes, HaloType
  <1>2. Shares(packs, hs, d) \in [Axes -> Nat]
    BY <1>1, ShareFacts DEF Shares
  <1>3. \A a \in Axes : Begin(packs, hs[a], d[a]) \in Int
    <2> TAKE a \in Axes
    <2>1. hs[a].begin \in Int /\ hs[a].end \in Int /\ hs[a].minus \in Int
      BY <1>1 DEF HaloType
    <2> QED  BY <2>1 DEF Begin
  <1>4. Begins(packs, hs, d) \in [Axes -> Int]
    BY <1>3 DEF Begins
  <1>5. Size(packs, hs, d) = Shares(packs, hs, d)[1] * Shares(packs, hs, d)[2] * Shares(packs, hs, d)[3]
    BY SizeFacts DEF Shares, Axes
  <1>6. \A a \in Axes : Share(TRUE, hs[a], Neg(d)[a]) = Share(FALSE, hs[a], d[a])
    BY <1>1, DirFacts DEF Share, SLength, RLength, Offsets
  <1>7. Shares(TRUE, hs, Neg(d)) = Shares(FALSE, hs, d)
    BY <1>6 DEF Shares
  <1> QED  BY <1>2, <1>4, <1>5, <1>7

\* What a thread accesses is, in the message as in the field, at one place of a box.
LEMMA AccessAt ==
    ASSUME proc \in Procs,
           NEW k \in KernelTypes, NEW gs \in HaloTypes, \A a \in Axes : IsHalo(gs[a]),
           NEW b \in Blocks(k, Trimmed(k.packs, gs)), NEW t \in Threads(k, Trimmed(k.packs, gs), b)
    PROVE  LET x == Access(k, Trimmed(k.packs, gs), t)
           IN  \E o \in Within(Shares(k.packs, gs, x.dir)) :
                  /\ \A a \in Axes : o[a] = InPart(k, a, Trimmed(k.packs, gs)[a], t[a])
                  /\ x.slot = Linear(o, Shares(k.packs, gs, x.dir))
                  /\ x.at = [a \in Axes |-> Begins(k.packs, gs, x.dir)[a] + o[a]]
  <1> DEFINE hs == Trimmed(k.packs, gs)
             x == Access(k, hs, t)
             d == x.dir
             o == [a \in Axes |-> InPart(k, a, hs[a], t[a])]
             size == Shares(k.packs, gs, d)
  <1>0. k.packs \in BOOLEAN
    BY DEF KernelTypes
  <1>1. /\ hs \in [Axes -> HaloType]
        /\ \A a \in Axes : IsHalo(hs[a]) /\ hs[a] \in HaloType
    BY <1>0, TrimmedType
  <1>2. \A a \in Axes : t[a] \in 0..Extent(k, a, hs[a]) - 1
    BY <1>1, ThreadFacts
  <1>3. d \in Dirs /\ Side(d) /\ \A a \in Axes : d[a] = Part(k, a, hs[a], t[a])
    <2>1. d \in Sides /\ d \in Dirs
      BY AccessFacts
    <2>2. d = [a \in Axes |-> Part(k, a, hs[a], t[a])]
      BY DEF Access
    <2> HIDE DEF d, hs
    <2> QED  BY <2>1, <2>2 DEF Sides
  <1>4. ASSUME NEW a \in Axes
        PROVE  /\ PartLength(k, hs[a], d[a]) = size[a] /\ o[a] \in 0..size[a] - 1 /\ o[a] \in Nat
               /\ (IF k.packs THEN Source(k, a, hs[a], t[a]) ELSE Target(k, a, hs[a], t[a]))
                  = Begins(k.packs, gs, d)[a] + o[a]
    <2>1. d[a] = 0 \/ Side(Towards(a, d[a]))
      <3> HIDE DEF d
      <3> QED  BY <1>3, SideFacts
    <2>2. Share(k.packs, hs[a], d[a]) = size[a]
      <3>1. d[a] \in Offsets
        BY <1>3, DirFacts
      <3>2. size[a] = Share(k.packs, gs[a], d[a])
        BY DEF Shares
      <3> HIDE DEF d, size
      <3> QED  BY <1>0, <2>1, <3>1, <3>2, TrimFacts
    <2>3. /\ PartLength(k, hs[a], d[a]) = Share(k.packs, hs[a], d[a])
          /\ o[a] \in 0..Share(k.packs, hs[a], d[a]) - 1
      <3>1. o[a] = InPart(k, a, hs[a], t[a]) /\ d[a] = Part(k, a, hs[a], t[a])
        BY <1>3
      <3> HIDE DEF d, o, hs
      <3> QED  BY <1>1, <1>2, <3>1, AxisFacts
    <2>4. Begin(k.packs, hs[a], d[a]) = Begins(k.packs, gs, d)[a]
      <3>1. /\ hs[a].begin = gs[a].begin /\ hs[a].end = gs[a].end
            /\ k.packs /\ d[a] = 1 => hs[a].minus = gs[a].minus
            /\ ~ k.packs /\ d[a] = -1 => hs[a].minus = gs[a].minus
        <4>1. gs[a] \in HaloType
          BY DEF HaloTypes, HaloType
        <4>2. hs[a] = [gs[a] EXCEPT
                !.minus = IF Side(Towards(a, IF k.packs THEN 1 ELSE -1)) THEN @ ELSE 0,
                !.plus  = IF Side(Towards(a, IF k.packs THEN -1 ELSE 1)) THEN @ ELSE 0]
          BY DEF Trimmed
        <4> HIDE DEF d, hs
        <4>3. /\ hs[a].begin = gs[a].begin /\ hs[a].end = gs[a].end
              /\ hs[a].minus = IF Side(Towards(a, IF k.packs THEN 1 ELSE -1)) THEN gs[a].minus ELSE 0
          BY <4>1, <4>2 DEF HaloType
        <4>4. k.packs /\ d[a] = 1 => hs[a].minus = gs[a].minus
          BY <2>1, <4>3
        <4>5. ~ k.packs /\ d[a] = -1 => hs[a].minus = gs[a].minus
          BY <2>1, <4>3
        <4> QED  BY <4>3, <4>4, <4>5
      <3>2. d[a] \in Offsets
        BY <1>3, DirFacts
      <3> HIDE DEF d, hs
      <3> QED  BY <3>1, <3>2 DEF Begin, Begins, Offsets
    <2>5. (IF k.packs THEN Source(k, a, hs[a], t[a]) ELSE Target(k, a, hs[a], t[a]))
          = Begin(k.packs, hs[a], Part(k, a, hs[a], t[a])) + InPart(k, a, hs[a], t[a])
      <3> HIDE DEF hs
      <3> QED  BY <1>1, <1>2, AxisPlace
    <2>6. o[a] = InPart(k, a, hs[a], t[a]) /\ d[a] = Part(k, a, hs[a], t[a])
      BY <1>3
    <2>7. size[a] \in Nat
      <3> HIDE DEF d
      <3> QED  BY <1>0, <1>3, SharesFacts
    <2> HIDE DEF d, o, hs, size
    <2> QED  BY <2>2, <2>3, <2>4, <2>5, <2>6, <2>7
  <1>5. o \in Within(size)
    <2>1. \A a \in Axes : o[a] \in 0..size[a] - 1 /\ o[a] \in Nat
      <3> HIDE DEF o, size
      <3> QED  BY <1>4
    <2>2. o = [a \in Axes |-> o[a]]
      OBVIOUS
    <2> HIDE DEF o, size
    <2> QED  BY <2>1, <2>2 DEF Within
  <1>6. x.slot = Linear(o, size)
    <2>1. x.slot = o[1] + o[2] * PartLength(k, hs[1], d[1])
                   + o[3] * PartLength(k, hs[1], d[1]) * PartLength(k, hs[2], d[2])
      BY DEF Access, Axes
    <2>2. PartLength(k, hs[1], d[1]) = size[1] /\ PartLength(k, hs[2], d[2]) = size[2]
      <3> HIDE DEF o, size, hs, d, x
      <3> QED  BY <1>4 DEF Axes
    <2> HIDE DEF o, size, hs, d, x
    <2> QED  BY <2>1, <2>2 DEF Linear
  <1>7. x.at = [a \in Axes |-> Begins(k.packs, gs, d)[a] + o[a]]
    <2>1. x.at = [a \in Axes |-> IF k.packs THEN Source(k, a, hs[a], t[a]) ELSE Target(k, a, hs[a], t[a])]
      BY DEF Access
    <2> HIDE DEF o, size, hs, d, x
    <2> QED  BY <1>4, <2>1
  <1>8. \A a \in Axes : o[a] = InPart(k, a, hs[a], t[a])
    OBVIOUS
  <1> HIDE DEF o, x, hs, d, size
  <1> QED  BY <1>5, <1>6, <1>7, <1>8 DEF x, hs, d, size

-----------------------------------------------------------------------------
(* Nothing is left out: what belongs to a message has a thread.              *)
\* Along one axis.
LEMMA AxisThread ==
    ASSUME NEW k \in KernelTypes, NEW a \in Axes, NEW h \in HaloType, IsHalo(h),
           NEW i \in Offsets, a = k.axis => i = k.side, a > k.axis => i = 0,
           NEW o \in 0..Share(k.packs, h, i) - 1
    PROVE  \E t \in 0..Extent(k, a, h) - 1 : Part(k, a, h, t) = i /\ InPart(k, a, h, t) = o
  <1>1. /\ k.packs \in BOOLEAN /\ k.axis \in 1..3 /\ k.side \in {-1, 1} /\ a \in 1..3
        /\ h.minus \in Nat /\ h.plus \in Nat /\ h.begin \in Nat /\ h.end \in Nat /\ h.begin <= h.end
    BY DEF KernelTypes, Axes, HaloType, IsHalo
  <1>2. Length(h) = h.end - h.begin + 1 /\ Share(k.packs, h, 0) = Length(h)
    BY DEF Length, Share, SLength, RLength
  <1>3. /\ Low(k, h) \in Nat /\ High(k, h) \in Nat
        /\ Share(k.packs, h, -1) = Low(k, h) /\ Share(k.packs, h, 1) = High(k, h)
    BY <1>1 DEF Share, SLength, RLength, Low, High
  <1>4. Extent(k, a, h) = IF a < k.axis THEN Low(k, h) + Length(h) + High(k, h)
                          ELSE IF a = k.axis THEN Share(k.packs, h, k.side) ELSE Length(h)
    <2>1. \A j \in Offsets : LengthOn(k, h, j) = Share(k.packs, h, j)
      BY ExtentFacts
    <2> QED  BY <1>1, <1>2, <1>3, <2>1 DEF Extent, Offsets
  <1>5. CASE a < k.axis
    <2> DEFINE t == o + (IF i = -1 THEN 0 ELSE Low(k, h)) + (IF i = 1 THEN Length(h) ELSE 0)
    <2>1. o \in Nat /\ o < Share(k.packs, h, i) /\ i \in {-1, 0, 1}
      BY <1>1, <1>2, <1>3 DEF Offsets
    <2>2. t \in 0..Extent(k, a, h) - 1
      BY <1>1, <1>2, <1>3, <1>4, <1>5, <2>1
    <2>3. PartOf(k, h, t) = i
      BY <1>1, <1>2, <1>3, <2>1 DEF PartOf
    <2>4. InPart(k, a, h, t) = o
      <3> HIDE DEF t
      <3>1. InPart(k, a, h, t) = t - (IF i = -1 THEN 0 ELSE Low(k, h)) - (IF i = 1 THEN Length(h) ELSE 0)
        BY <1>5, <2>3 DEF InPart
      <3> QED  BY <1>1, <1>2, <1>3, <2>1, <3>1 DEF t
    <2>5. Part(k, a, h, t) = i
      BY <1>5, <2>3 DEF Part
    <2> HIDE DEF t
    <2> QED  BY <2>2, <2>4, <2>5
  <1>6. CASE ~ (a < k.axis)
    <2>1. Extent(k, a, h) = Share(k.packs, h, i)
      BY <1>1, <1>2, <1>4, <1>6
    <2>2. Part(k, a, h, o) = i /\ InPart(k, a, h, o) = o
      BY <1>1, <1>6 DEF Part, InPart
    <2> QED  BY <2>1, <2>2
  <1> QED  BY <1>5, <1>6

\* The blocks have all the threads that are needed.
LEMMA BlockThread ==
    ASSUME NEW e \in Nat, NEW n \in Nat \ {0}, NEW t \in 0..e - 1
    PROVE  \E b \in 0..CeilDiv(e, n) - 1, s \in 0..n - 1 : t = b * n + s
  <1> DEFINE b == t \div n
             s == t % n
             c == CeilDiv(e, n)
  <1>1. b \in Nat /\ s \in 0..n-1 /\ t = b * n + s
    OBVIOUS
  <1>2. c \in Int /\ c * n > e - 1
    <2> DEFINE x == e + n - 1
               q == x \div n
               r == x % n
    <2>1. x \in Nat /\ q \in Nat /\ r \in 0..n-1 /\ x = q * n + r
      OBVIOUS
    <2>2. c = q
      BY DEF CeilDiv
    <2> HIDE DEF q, r, c
    <2>3. q * n \in Nat
      BY <2>1
    <2>4. q * n > e - 1
      BY <2>1, <2>3
    <2> QED  BY <2>1, <2>2, <2>4
  <1> HIDE DEF b, s, c
  <1>3. b < c
    <2> SUFFICES ASSUME b >= c PROVE FALSE
      BY <1>1, <1>2
    <2>1. (b - c) * n >= 0 /\ (b - c) * n = b * n - c * n /\ b * n \in Int /\ c * n \in Int
      BY <1>1, <1>2
    <2> QED  BY <1>1, <1>2, <2>1
  <1>4. b \in 0..c - 1
    BY <1>1, <1>2, <1>3
  <1> QED  BY <1>1, <1>4 DEF c

\* Of a whole message: the kernel for the last axis along which it leaves the field
\* has its threads.
IsKernelFor(k, d) == /\ d[k.axis] = k.side
                     /\ \A a \in Axes : a > k.axis => d[a] = 0

LEMMA ThreadOf ==
    ASSUME proc \in Procs,
           NEW k \in KernelTypes, NEW gs \in HaloTypes, \A a \in Axes : IsHalo(gs[a]),
           NEW d \in Dirs, Side(d), IsKernelFor(k, d), NEW o \in Within(Shares(k.packs, gs, d))
    PROVE  \E b \in Blocks(k, Trimmed(k.packs, gs)) : \E t \in Threads(k, Trimmed(k.packs, gs), b) :
              LET x == Access(k, Trimmed(k.packs, gs), t)
              IN  /\ x.dir = d /\ x.slot = Linear(o, Shares(k.packs, gs, d))
                  /\ x.at = [a \in Axes |-> Begins(k.packs, gs, d)[a] + o[a]]
  <1> DEFINE hs == Trimmed(k.packs, gs)
             Fits(a, i) == Part(k, a, hs[a], i) = d[a] /\ InPart(k, a, hs[a], i) = o[a]
  <1>0. k.packs \in BOOLEAN /\ k.axis \in Axes
    BY DEF KernelTypes
  <1>1. /\ hs \in [Axes -> HaloType]
        /\ \A a \in Axes : IsHalo(hs[a]) /\ hs[a] \in HaloType
    BY <1>0, TrimmedType
  <1>2. ASSUME NEW a \in Axes
        PROVE  /\ d[a] \in Offsets /\ (a = k.axis => d[a] = k.side) /\ (a > k.axis => d[a] = 0)
               /\ o[a] \in 0..Share(k.packs, hs[a], d[a]) - 1
    <2>1. d[a] \in Offsets
      BY DirFacts
    <2>2. d[a] = 0 \/ Side(Towards(a, d[a]))
      BY SideFacts
    <2>3. Share(k.packs, hs[a], d[a]) = Share(k.packs, gs[a], d[a])
      BY <1>0, <2>1, <2>2, TrimFacts
    <2>4. o[a] \in 0..Shares(k.packs, gs, d)[a] - 1
      BY DEF Within
    <2>5. Shares(k.packs, gs, d)[a] = Share(k.packs, gs[a], d[a])
      BY DEF Shares
    <2> HIDE DEF hs
    <2> QED  BY <2>1, <2>3, <2>4, <2>5 DEF IsKernelFor
  <1>3. ASSUME NEW a \in Axes
        PROVE  \E i \in 0..Extent(k, a, hs[a]) - 1 : Fits(a, i)
    <2> DEFINE h == hs[a]
               i == d[a]
               p == o[a]
    <2>1. /\ h \in HaloType /\ IsHalo(h) /\ i \in Offsets /\ (a = k.axis => i = k.side)
          /\ (a > k.axis => i = 0) /\ p \in 0..Share(k.packs, h, i) - 1
      BY <1>1, <1>2
    <2> HIDE DEF h, i, p
    <2>2. \E t \in 0..Extent(k, a, h) - 1 : Part(k, a, h, t) = i /\ InPart(k, a, h, t) = p
      BY <2>1, AxisThread
    <2> QED  BY <2>2 DEF h, i, p
  <1> HIDE DEF Fits, hs
  <1>4. PICK i1 \in 0..Extent(k, 1, hs[1]) - 1, i2 \in 0..Extent(k, 2, hs[2]) - 1,
             i3 \in 0..Extent(k, 3, hs[3]) - 1 : Fits(1, i1) /\ Fits(2, i2) /\ Fits(3, i3)
    <2>1. 1 \in Axes /\ 2 \in Axes /\ 3 \in Axes
      BY DEF Axes
    <2> QED  BY <1>3, <2>1
  <1> DEFINE t == <<i1, i2, i3>>
             InGrid(a) == 0 .. (CeilDiv(Extent(k, a, hs[a]), k.threads[a]) - 1)
             Along(b, a) == { b[a] * k.threads[a] + s : s \in 0..(k.threads[a] - 1) }
             Taking(b, a) == { i \in Along(b, a) : a = k.axis \/ i < Extent(k, a, hs[a]) }
  <1>5. \A a \in Axes : t[a] \in 0..Extent(k, a, hs[a]) - 1 /\ Fits(a, t[a])
    BY <1>4 DEF Axes
  <1>6. \E b \in InGrid(1) \X InGrid(2) \X InGrid(3) : \A a \in Axes : t[a] \in Along(b, a)
    <2> HIDE DEF t
    <2>1. ASSUME NEW a \in Axes
          PROVE  \E c \in InGrid(a) : \E s \in 0..(k.threads[a] - 1) : t[a] = c * k.threads[a] + s
      <3> DEFINE e == Extent(k, a, hs[a])
                 n == k.threads[a]
                 i == t[a]
      <3>1. e \in Nat /\ n \in Nat \ {0} /\ i \in 0..e - 1
        BY <1>1, <1>5, ExtentFacts DEF KernelTypes
      <3> HIDE DEF e, n, i
      <3>2. \E c \in 0..CeilDiv(e, n) - 1, s \in 0..n - 1 : i = c * n + s
        BY <3>1, BlockThread
      <3> QED  BY <3>2 DEF e, n, i
    <2> HIDE DEF InGrid
    <2>2. PICK c1 \in InGrid(1), c2 \in InGrid(2), c3 \in InGrid(3) :
              /\ \E s \in 0..(k.threads[1] - 1) : t[1] = c1 * k.threads[1] + s
              /\ \E s \in 0..(k.threads[2] - 1) : t[2] = c2 * k.threads[2] + s
              /\ \E s \in 0..(k.threads[3] - 1) : t[3] = c3 * k.threads[3] + s
      <3>1. 1 \in Axes /\ 2 \in Axes /\ 3 \in Axes
        BY DEF Axes
      <3> QED  BY <2>1, <3>1
    <2> DEFINE b == <<c1, c2, c3>>
    <2>3. b \in InGrid(1) \X InGrid(2) \X InGrid(3) /\ b[1] = c1 /\ b[2] = c2 /\ b[3] = c3
      OBVIOUS
    <2> HIDE DEF b
    <2>4. t[1] \in Along(b, 1) /\ t[2] \in Along(b, 2) /\ t[3] \in Along(b, 3)
      BY <2>2, <2>3
    <2> HIDE DEF Along
    <2>5. \A a \in Axes : t[a] \in Along(b, a)
      BY <2>4 DEF Axes
    <2> QED  BY <2>3, <2>5
  <1>7. PICK b \in InGrid(1) \X InGrid(2) \X InGrid(3) : \A a \in Axes : t[a] \in Along(b, a)
    BY <1>6
  <1>8. b \in Blocks(k, hs)
    BY DEF Blocks
  <1>9. t \in Threads(k, hs, b)
    <2>1. \A a \in Axes : t[a] \in Taking(b, a)
      <3>1. \A a \in Axes : t[a] < Extent(k, a, hs[a])
        <4> HIDE DEF t
        <4> QED  BY <1>1, <1>5, ExtentFacts
      <3> HIDE DEF t, Along
      <3> QED  BY <1>7, <3>1
    <2>2. Threads(k, hs, b) = Taking(b, 1) \X Taking(b, 2) \X Taking(b, 3)
      BY DEF Threads
    <2> HIDE DEF Taking
    <2>3. t[1] \in Taking(b, 1) /\ t[2] \in Taking(b, 2) /\ t[3] \in Taking(b, 3)
      BY <2>1 DEF Axes
    <2> QED  BY <2>2, <2>3
  <1> HIDE DEF t
  <1> DEFINE x == Access(k, hs, t)
  <1>10. x.dir = d
    <2>1. x.dir = [a \in Axes |-> Part(k, a, hs[a], t[a])]
      BY DEF Access
    <2>2. \A a \in Axes : Part(k, a, hs[a], t[a]) = d[a]
      BY <1>5 DEF Fits
    <2>3. d = [a \in Axes |-> d[a]]
      BY DEF Dirs
    <2> HIDE DEF x
    <2> QED  BY <2>1, <2>2, <2>3
  <1>11. PICK p \in Within(Shares(k.packs, gs, x.dir)) :
                  /\ \A a \in Axes : p[a] = InPart(k, a, hs[a], t[a])
                  /\ x.slot = Linear(p, Shares(k.packs, gs, x.dir))
                  /\ x.at = [a \in Axes |-> Begins(k.packs, gs, x.dir)[a] + p[a]]
    <2>1. b \in Blocks(k, Trimmed(k.packs, gs)) /\ t \in Threads(k, Trimmed(k.packs, gs), b)
      BY <1>8, <1>9 DEF hs
    <2>2. LET y == Access(k, Trimmed(k.packs, gs), t)
          IN  \E q \in Within(Shares(k.packs, gs, y.dir)) :
                  /\ \A a \in Axes : q[a] = InPart(k, a, Trimmed(k.packs, gs)[a], t[a])
                  /\ y.slot = Linear(q, Shares(k.packs, gs, y.dir))
                  /\ y.at = [a \in Axes |-> Begins(k.packs, gs, y.dir)[a] + q[a]]
      BY <2>1, AccessAt
    <2> QED  BY <2>2 DEF hs
  <1>12. p = o
    <2>1. p = [a \in Axes |-> p[a]] /\ o = [a \in Axes |-> o[a]]
      BY DEF Within
    <2>2. \A a \in Axes : p[a] = o[a]
      BY <1>5, <1>11 DEF Fits
    <2> QED  BY <2>1, <2>2
  <1> HIDE DEF x
  <1>13. x.dir = d /\ x.slot = Linear(o, Shares(k.packs, gs, d))
         /\ x.at = [a \in Axes |-> Begins(k.packs, gs, d)[a] + o[a]]
    BY <1>10, <1>11, <1>12
  <1> QED  BY <1>8, <1>9, <1>13 DEF x, hs

-----------------------------------------------------------------------------
(* The borders and the halos of a field.                                     *)
\* The loops over a border: each position of the box, in its order.
LEMMA BorderFacts ==
    ASSUME NEW gs \in HaloTypes, \A a \in Axes : IsHalo(gs[a]), NEW d \in Dirs
    PROVE  LET size == Shares(TRUE, gs, d)
           IN  /\ Border(gs, d) \in Seq({ Border(gs, d)[i] : i \in DOMAIN Border(gs, d) })
               /\ Len(Border(gs, d)) = Size(TRUE, gs, d) /\ DOMAIN Border(gs, d) = 1..Size(TRUE, gs, d)
               /\ \A o \in Within(size) : /\ Linear(o, size) + 1 \in DOMAIN Border(gs, d)
                                          /\ Border(gs, d)[Linear(o, size) + 1]
                                             = [a \in Axes |-> Begins(TRUE, gs, d)[a] + o[a]]
               /\ \A i \in DOMAIN Border(gs, d) : \E o \in Within(size) : i = Linear(o, size) + 1
  <1> DEFINE size == Shares(TRUE, gs, d)
             lo == Begins(TRUE, gs, d)
             n == Size(TRUE, gs, d)
             B == Border(gs, d)
  <1>1. n \in Nat /\ n = size[1] * size[2] * size[3] /\ size \in [Axes -> Nat] /\ lo \in [Axes -> Int]
    BY SharesFacts, SizeFacts
  <1>2. B = [i \in 1..n |-> Visited(lo, size, i - 1)]
    <2>1. size = [a \in Axes |-> SLength(gs[a], d[a])]
      BY DEF Shares, Share
    <2>2. \A a \in Axes : d[a] \in Offsets
      BY DirFacts
    <2>3. lo = [a \in Axes |-> IF d[a] = 1 THEN gs[a].end - gs[a].minus + 1 ELSE gs[a].begin]
      BY <2>2 DEF Begins, Begin, Offsets
    <2> HIDE DEF size, lo, n
    <2> QED  BY <2>1, <2>3 DEF Border, n
  <1> HIDE DEF size, lo, n, B
  <1>3. DOMAIN B = 1..n /\ Len(B) = n /\ B \in Seq({ B[i] : i \in DOMAIN B })
    <2> DEFINE v(i) == Visited(lo, size, i - 1)
    <2>1. B = [i \in 1..n |-> v(i)]
      BY <1>2
    <2> HIDE DEF v
    <2>2. B = [i \in 1..n |-> B[i]] /\ DOMAIN B = 1..n /\ \A i \in 1..n : B[i] \in { B[j] : j \in DOMAIN B }
      BY <2>1
    <2> DEFINE S == { B[j] : j \in DOMAIN B }
    <2>3. B \in [1..n -> S]
      BY <2>2
    <2> HIDE DEF S
    <2>4. B \in Seq(S)
      BY <1>1, <2>3, SeqDef
    <2>5. Len(B) \in Nat /\ DOMAIN B = 1..Len(B)
      BY <2>4, LenProperties
    <2>6. Len(B) = n
      BY <1>1, <2>2, <2>5
    <2> QED  BY <2>2, <2>4, <2>6 DEF S
  <1>4. ASSUME NEW o \in Within(size)
        PROVE  Linear(o, size) + 1 \in DOMAIN B /\ B[Linear(o, size) + 1] = [a \in Axes |-> lo[a] + o[a]]
    <2> DEFINE i == Linear(o, size)
    <2>1. i \in 0..n - 1
      BY <1>1, BoxFacts
    <2>2. Visited(lo, size, i) = [a \in Axes |-> lo[a] + o[a]]
      BY <1>1, VisitedFacts
    <2> HIDE DEF i
    <2>3. i + 1 \in 1..n /\ (i + 1) - 1 = i
      BY <1>1, <2>1
    <2>4. B[i + 1] = Visited(lo, size, i)
      BY <1>2, <2>3
    <2> QED  BY <1>3, <2>2, <2>3, <2>4 DEF i
  <1>5. ASSUME NEW i \in DOMAIN B PROVE \E o \in Within(size) : i = Linear(o, size) + 1
    <2>1. i - 1 \in 0..size[1]*size[2]*size[3]-1
      BY <1>1, <1>3
    <2>2. PICK o \in Within(size) : Linear(o, size) = i - 1
      BY <1>1, <2>1, VisitedFacts
    <2>3. i \in Int
      BY <1>1, <1>3
    <2> QED  BY <2>2, <2>3
  <1> QED  BY <1>3, <1>4, <1>5 DEF size, lo, n, B

\* The elements of the halo towards a neighbour, and where they are at the neighbour.
Faces(gs, d, x) == \A a \in Axes : x[a] \in Outside(gs[a], d[a])
Across(gs, d, x) == [a \in Axes |-> x[a] - d[a] * Length(gs[a])]
PlaceAt(packs, gs, d, o) == [a \in Axes |-> Begins(packs, gs, d)[a] + o[a]]

LEMMA AxisHalo ==
    ASSUME NEW h \in HaloType, IsHalo(h), NEW i \in Offsets, NEW x \in Int
    PROVE  /\ x \in Outside(h, i) <=> x - Begin(FALSE, h, i) \in 0..Share(FALSE, h, i) - 1
           /\ \A j \in Offsets : x \in Outside(h, i) /\ x \in Outside(h, j) => i = j
           /\ x \in Outside(h, i) => x \in 0..h.total - 1
           /\ x \in Outside(h, i) /\ x \in Inside(h, 0) => i = 0
           /\ Begin(FALSE, h, i) - i * Length(h) = Begin(TRUE, h, -i)
  <1>1. /\ h.minus \in Nat /\ h.plus \in Nat /\ h.begin \in Nat /\ h.end \in Nat /\ h.total \in Nat
        /\ h.begin <= h.end /\ h.plus <= h.total - h.end - 1 /\ h.begin >= h.minus
    BY DEF HaloType, IsHalo
  <1>2. i \in {-1, 0, 1}
    BY DEF Offsets
  <1> QED  BY <1>1, <1>2 DEF Outside, Inside, Begin, Share, RLength, Length, Offsets

LEMMA HaloFacts ==
    ASSUME NEW gs \in HaloTypes, \A a \in Axes : IsHalo(gs[a]), NEW d \in Dirs
    PROVE  /\ \A o \in Within(Shares(FALSE, gs, d)) :
                 /\ PlaceAt(FALSE, gs, d, o) \in Box(gs) \ Inner(gs)
                 /\ Faces(gs, d, PlaceAt(FALSE, gs, d, o))
                 /\ Across(gs, d, PlaceAt(FALSE, gs, d, o)) = PlaceAt(TRUE, gs, Neg(d), o)
           /\ \A x \in Box(gs) : Faces(gs, d, x) =>
                 \E o \in Within(Shares(FALSE, gs, d)) : x = PlaceAt(FALSE, gs, d, o)
           /\ \A x \in Box(gs), e \in Dirs : Faces(gs, d, x) /\ Faces(gs, e, x) => d = e
  <1>1. \A a \in Axes : gs[a] \in HaloType /\ d[a] \in Offsets /\ d[a] \in Int /\ Neg(d)[a] = -d[a]
    BY DirFacts DEF HaloTypes, HaloType, Offsets
  <1>2. /\ Shares(FALSE, gs, d) \in [Axes -> Nat] /\ Begins(FALSE, gs, d) \in [Axes -> Int]
        /\ \A a \in Axes : /\ Shares(FALSE, gs, d)[a] = Share(FALSE, gs[a], d[a])
                           /\ Begins(FALSE, gs, d)[a] = Begin(FALSE, gs[a], d[a])
                           /\ Begins(TRUE, gs, Neg(d))[a] = Begin(TRUE, gs[a], Neg(d)[a])
    BY SharesFacts DEF Shares, Begins
  <1>3. \A x \in Box(gs) : x = <<x[1], x[2], x[3]>> /\ \A a \in Axes : x[a] \in Int
    <2> TAKE x \in Box(gs)
    <2>1. x = <<x[1], x[2], x[3]>> /\ x[1] \in Int /\ x[2] \in Int /\ x[3] \in Int
      BY DEF Box
    <2> QED  BY <2>1 DEF Axes
  <1>4. ASSUME NEW o \in Within(Shares(FALSE, gs, d))
        PROVE  /\ PlaceAt(FALSE, gs, d, o) \in Box(gs) \ Inner(gs)
               /\ Faces(gs, d, PlaceAt(FALSE, gs, d, o))
               /\ Across(gs, d, PlaceAt(FALSE, gs, d, o)) = PlaceAt(TRUE, gs, Neg(d), o)
    <2> DEFINE x == PlaceAt(FALSE, gs, d, o)
    <2>1. x = [a \in Axes |-> x[a]] /\ \A a \in Axes : x[a] = Begins(FALSE, gs, d)[a] + o[a]
      BY DEF PlaceAt
    <2>2. \A a \in Axes : o[a] \in 0..Shares(FALSE, gs, d)[a] - 1 /\ o[a] \in Nat
      BY DEF Within
    <2> HIDE DEF x
    <2>3. ASSUME NEW a \in Axes
          PROVE  /\ x[a] \in Int /\ x[a] \in Outside(gs[a], d[a])
                 /\ x[a] - d[a] * Length(gs[a]) = Begins(TRUE, gs, Neg(d))[a] + o[a]
      <3> DEFINE h == gs[a]
                 i == d[a]
                 p == o[a]
                 y == x[a]
      <3>1. h \in HaloType /\ IsHalo(h) /\ i \in Offsets /\ p \in 0..Share(FALSE, h, i) - 1 /\ p \in Nat
            /\ y = Begin(FALSE, h, i) + p /\ Begin(FALSE, h, i) \in Int /\ i \in Int /\ Length(h) \in Int
        <4>1. Begins(FALSE, gs, d)[a] \in Int
          BY <1>2
        <4>2. Length(gs[a]) \in Int
          BY <1>1 DEF Length, HaloType
        <4> QED  BY <1>1, <1>2, <2>1, <2>2, <4>1, <4>2
      <3>2. Begins(TRUE, gs, Neg(d))[a] = Begin(TRUE, h, -i)
        BY <1>1, <1>2
      <3> HIDE DEF h, i, p, y
      <3>3. y \in Int /\ y - Begin(FALSE, h, i) \in 0..Share(FALSE, h, i) - 1
        <4> DEFINE b == Begin(FALSE, h, i)
                   s == Share(FALSE, h, i)
        <4>1. b \in Int /\ p \in 0..s - 1 /\ y = b + p /\ p \in Nat
          BY <3>1
        <4> HIDE DEF b, s
        <4>2. y \in Int /\ y - b = p
          BY <4>1
        <4> QED  BY <4>1, <4>2 DEF b, s
      <3>4. y \in Outside(h, i) /\ Begin(FALSE, h, i) - i * Length(h) = Begin(TRUE, h, -i)
        BY <3>1, <3>3, AxisHalo
      <3>5. y - i * Length(h) = Begin(TRUE, h, -i) + p
        <4> DEFINE b == Begin(FALSE, h, i)
                   c == Begin(TRUE, h, -i)
                   l == Length(h)
        <4>1. b \in Int /\ y = b + p /\ p \in Nat /\ b - i * l = c /\ i \in Int /\ l \in Int
          BY <3>1, <3>4
        <4> HIDE DEF b, c, l
        <4>2. i * l \in Int
          BY <4>1
        <4>3. y - i * l = c + p
          BY <4>1, <4>2
        <4> QED  BY <4>3 DEF c, l
      <3> QED  BY <3>2, <3>3, <3>4, <3>5 DEF h, i, p, y
    <2>4. x \in Box(gs)
      <3>1. \A a \in Axes : x[a] \in 0..gs[a].total - 1
        <4> TAKE a \in Axes
        <4>1. gs[a] \in HaloType /\ IsHalo(gs[a]) /\ d[a] \in Offsets /\ x[a] \in Int /\ x[a] \in Outside(gs[a], d[a])
          BY <1>1, <2>3
        <4> QED  BY <4>1, AxisHalo
      <3>2. x = <<x[1], x[2], x[3]>>
        BY <2>1 DEF Axes
      <3>3. x[1] \in 0..gs[1].total - 1 /\ x[2] \in 0..gs[2].total - 1 /\ x[3] \in 0..gs[3].total - 1
        BY <3>1 DEF Axes
      <3> QED  BY <3>2, <3>3 DEF Box
    <2>5. x \notin Inner(gs)
      <3>1. PICK a \in Axes : d[a] # 0
        <4>1. d = [a \in Axes |-> d[a]] /\ d # Here
          BY DEF Dirs
        <4> QED  BY <4>1 DEF Here
      <3>2. gs[a] \in HaloType /\ IsHalo(gs[a]) /\ d[a] \in Offsets /\ x[a] \in Int /\ x[a] \in Outside(gs[a], d[a])
        BY <1>1, <2>3
      <3>3. x[a] \notin Inside(gs[a], 0)
        BY <3>1, <3>2, AxisHalo
      <3> QED  BY <3>3 DEF Inner
    <2>6. Across(gs, d, x) = PlaceAt(TRUE, gs, Neg(d), o)
      BY <2>3 DEF Across, PlaceAt
    <2>7. Faces(gs, d, x)
      BY <2>3 DEF Faces
    <2> QED  BY <2>4, <2>5, <2>6, <2>7 DEF x
  <1>5. ASSUME NEW x \in Box(gs), Faces(gs, d, x)
        PROVE  \E o \in Within(Shares(FALSE, gs, d)) : x = PlaceAt(FALSE, gs, d, o)
    <2> DEFINE o == [a \in Axes |-> x[a] - Begins(FALSE, gs, d)[a]]
    <2>1. ASSUME NEW a \in Axes
          PROVE  /\ o[a] \in Nat /\ o[a] \in 0..Shares(FALSE, gs, d)[a] - 1
                 /\ x[a] = Begins(FALSE, gs, d)[a] + o[a]
      <3>1. gs[a] \in HaloType /\ IsHalo(gs[a]) /\ d[a] \in Offsets /\ x[a] \in Int /\ x[a] \in Outside(gs[a], d[a])
        BY <1>1, <1>3, <1>5 DEF Faces
      <3>2. x[a] - Begin(FALSE, gs[a], d[a]) \in 0..Share(FALSE, gs[a], d[a]) - 1
        BY <3>1, AxisHalo
      <3> DEFINE b == Begins(FALSE, gs, d)[a]
                 s == Shares(FALSE, gs, d)[a]
      <3>3. o[a] = x[a] - b /\ b \in Int /\ s \in Nat /\ x[a] \in Int /\ x[a] - b \in 0..s - 1
        BY <1>2, <3>1, <3>2
      <3> HIDE DEF b, s, o
      <3>4. o[a] \in Nat /\ o[a] \in 0..s - 1 /\ x[a] = b + o[a]
        BY <3>3
      <3> QED  BY <3>4 DEF b, s
    <2>2. o = [a \in Axes |-> o[a]]
      OBVIOUS
    <2> HIDE DEF o
    <2>3. o \in Within(Shares(FALSE, gs, d))
      BY <2>1, <2>2 DEF Within
    <2>4. x = PlaceAt(FALSE, gs, d, o)
      <3>1. x = [a \in Axes |-> x[a]]
        BY <1>3 DEF Axes
      <3> QED  BY <2>1, <3>1 DEF PlaceAt
    <2> QED  BY <2>3, <2>4
  <1>6. ASSUME NEW x \in Box(gs), NEW e \in Dirs, Faces(gs, d, x), Faces(gs, e, x) PROVE d = e
    <2>1. d = [a \in Axes |-> d[a]] /\ e = [a \in Axes |-> e[a]]
      BY DEF Dirs
    <2>2. \A a \in Axes : d[a] = e[a]
      <3> TAKE a \in Axes
      <3>1. /\ gs[a] \in HaloType /\ IsHalo(gs[a]) /\ d[a] \in Offsets /\ e[a] \in Offsets /\ x[a] \in Int
            /\ x[a] \in Outside(gs[a], d[a]) /\ x[a] \in Outside(gs[a], e[a])
        BY <1>1, <1>3, <1>6, DirFacts DEF Faces
      <3> QED  BY <3>1, AxisHalo
    <2> QED  BY <2>1, <2>2
  <1> QED  BY <1>4, <1>5, <1>6

\* No field is narrower than its halos (nothing checks it): what is sent is then inside,
\* computed here, and not what was received for the step before.
BordersInside == \A f \in Own, a \in Axes :
    /\ FieldHalos[f][a].minus <= Length(FieldHalos[f][a]) /\ FieldHalos[f][a].plus <= Length(FieldHalos[f][a])
    /\ HaloExample[a].minus <= Length(HaloExample[a]) /\ HaloExample[a].plus <= Length(HaloExample[a])

LEMMA BorderInside ==
    ASSUME BordersInside, NEW f \in Own, NEW d \in Dirs, NEW o \in Within(Shares(TRUE, HalosOf(f), d))
    PROVE  PlaceAt(TRUE, HalosOf(f), d, o) \in Inner(HalosOf(f))
  <1> DEFINE gs == HalosOf(f)
             x == PlaceAt(TRUE, gs, d, o)
  <1>1. /\ gs \in HaloTypes /\ \A a \in Axes : IsHalo(gs[a])
        /\ \A a \in Axes : gs[a].minus <= Length(gs[a]) /\ gs[a].plus <= Length(gs[a])
    BY OwnFacts DEF BordersInside, HalosOf
  <1> HIDE DEF gs
  <1>2. x = [a \in Axes |-> x[a]] /\ \A a \in Axes : x[a] = Begin(TRUE, gs[a], d[a]) + o[a]
    BY DEF PlaceAt, Begins
  <1> HIDE DEF x
  <1>3. \A a \in Axes : x[a] \in Inside(gs[a], 0) /\ x[a] \in 0..gs[a].total - 1
    <2> TAKE a \in Axes
    <2> DEFINE h == gs[a]
               i == d[a]
               p == o[a]
    <2>1. h \in HaloType /\ IsHalo(h) /\ i \in {-1, 0, 1} /\ h.minus <= Length(h) /\ h.plus <= Length(h)
      BY <1>1, DirFacts DEF HaloTypes, HaloType, Offsets
    <2>2. p \in 0..Share(TRUE, h, i) - 1
      <3>1. p \in 0..Shares(TRUE, gs, d)[a] - 1
        BY DEF Within, gs
      <3> QED  BY <3>1 DEF Shares
    <2>3. x[a] = Begin(TRUE, h, i) + p
      BY <1>2
    <2> HIDE DEF h, i, p
    <2>4. /\ h.minus \in Nat /\ h.plus \in Nat /\ h.begin \in Nat /\ h.end \in Nat /\ h.total \in Nat
          /\ h.begin <= h.end /\ h.plus <= h.total - h.end - 1 /\ h.begin >= h.minus
      BY <2>1 DEF HaloType, IsHalo
    <2>5. x[a] \in Inside(h, 0) /\ x[a] \in 0..h.total - 1
      BY <2>1, <2>2, <2>3, <2>4 DEF Inside, Begin, Share, SLength, Length
    <2> QED  BY <2>5 DEF h
  <1>4. x \in Box(gs)
    <2>1. x = <<x[1], x[2], x[3]>>
      BY <1>2 DEF Axes
    <2>2. x[1] \in 0..gs[1].total - 1 /\ x[2] \in 0..gs[2].total - 1 /\ x[3] \in 0..gs[3].total - 1
      BY <1>3 DEF Axes
    <2> QED  BY <2>1, <2>2 DEF Box
  <1> QED  BY <1>3, <1>4 DEF Inner, x, gs

-----------------------------------------------------------------------------
(* The kernels that are launched.                                            *)
\* What pack, or unpack, launches.
KernelsFor(packs) == IF packs THEN (IF generic THEN GenericPacking ELSE DynamicPacking)
                              ELSE (IF generic THEN GenericUnpacking ELSE DynamicUnpacking)

\* Every face has a kernel.
LEMMA FaceKernels ==
    ASSUME NEW packs \in BOOLEAN
    PROVE  /\ KernelsFor(packs) \in Seq(KernelTypes)
           /\ \A i \in DOMAIN KernelsFor(packs) : KernelsFor(packs)[i].packs = packs
           /\ \A a \in Axes, s \in {-1, 1} : \E i \in DOMAIN KernelsFor(packs) :
                 KernelsFor(packs)[i].axis = a /\ KernelsFor(packs)[i].side = s
  <1> DEFINE ks == KernelsFor(packs)
             Six(p, g) == << Kernel(p, g, 3, -1, <<Wide, Narrow, 1>>), Kernel(p, g, 3, 1, <<Wide, Narrow, 1>>),
                             Kernel(p, g, 2, -1, <<Wide, 1, Narrow>>), Kernel(p, g, 2, 1, <<Wide, 1, Narrow>>),
                             Kernel(p, g, 1, -1, <<1, Wide, Narrow>>), Kernel(p, g, 1, 1, <<1, Wide, Narrow>>) >>
  <1>1. /\ GenericPacking = Six(TRUE, TRUE) /\ DynamicPacking = Six(TRUE, FALSE)
        /\ GenericUnpacking = Six(FALSE, TRUE) /\ DynamicUnpacking = Six(FALSE, FALSE)
    BY DEF GenericPacking, m_packXL_generic, m_packXU_generic, m_packYL_generic,
           m_packYU_generic, m_packZL_generic, m_packZU_generic,
           DynamicPacking, m_packXL, m_packXU, m_packYL, m_packYU, m_packZL, m_packZU,
           GenericUnpacking, m_unpackXL_generic, m_unpackXU_generic, m_unpackYL_generic,
           m_unpackYU_generic, m_unpackZL_generic, m_unpackZU_generic,
           DynamicUnpacking, m_unpackXL, m_unpackXU, m_unpackYL, m_unpackYU, m_unpackZL, m_unpackZU
  <1>2. PICK g \in BOOLEAN : ks = Six(packs, g)
    <2> HIDE DEF Six
    <2>1. CASE packs = TRUE
      BY <1>1, <2>1 DEF KernelsFor
    <2>2. CASE packs = FALSE
      BY <1>1, <2>2 DEF KernelsFor
    <2> QED  BY <2>1, <2>2
  <1>3. ks \in Seq(KernelTypes)
    BY KernelFacts DEF KernelsFor
  <1> HIDE DEF ks
  <1>4. \A a, s, t : /\ Kernel(packs, g, a, s, t).packs = packs
                     /\ Kernel(packs, g, a, s, t).axis = a /\ Kernel(packs, g, a, s, t).side = s
    BY DEF Kernel
  <1>5. DOMAIN ks = 1..6
    BY <1>2
  <1>6. /\ ks[1].axis = 3 /\ ks[1].side = -1 /\ ks[2].axis = 3 /\ ks[2].side = 1
        /\ ks[3].axis = 2 /\ ks[3].side = -1 /\ ks[4].axis = 2 /\ ks[4].side = 1
        /\ ks[5].axis = 1 /\ ks[5].side = -1 /\ ks[6].axis = 1 /\ ks[6].side = 1
    BY <1>2, <1>4
  <1>7. \A i \in 1..6 : ks[i].packs = packs
    <2>1. /\ ks[1].packs = packs /\ ks[2].packs = packs /\ ks[3].packs = packs
          /\ ks[4].packs = packs /\ ks[5].packs = packs /\ ks[6].packs = packs
      BY <1>2, <1>4
    <2> QED  BY <2>1
  <1>8. \A a \in Axes, s \in {-1, 1} : \E i \in 1..6 : ks[i].axis = a /\ ks[i].side = s
    BY <1>6 DEF Axes
  <1> QED  BY <1>3, <1>5, <1>7, <1>8 DEF ks

\* What is launched, in a list of kernels.
LEMMA LaunchesSet ==
    ASSUME NEW kernels \in Seq(KernelTypes)
    PROVE  /\ \A n \in DOMAIN Launches(kernels) : \E i \in DOMAIN kernels, f \in Own :
                 Launches(kernels)[n] = Launch(kernels[i], f)
           /\ \A i \in DOMAIN kernels, f \in Own :
                 /\ SetupSize(kernels[i].packs, Towards(kernels[i].axis, kernels[i].side)) # 0
                 /\ Blocks(kernels[i], Trimmed(kernels[i].packs, HalosOf(f))) # {}
                 => \E n \in DOMAIN Launches(kernels) : Launches(kernels)[n] = Launch(kernels[i], f)
  <1> DEFINE Wanted(k) == SetupSize(k.packs, Towards(k.axis, k.side)) # 0
             One(k, f) == IF Blocks(k, Trimmed(k.packs, HalosOf(f))) # {} THEN <<Launch(k, f)>> ELSE <<>>
             Fields(k) == [f \in Own |-> One(k, f)]
             Each(k) == FlattenSeq(Fields(k))
             Faced(i) == IF Wanted(kernels[i]) THEN Each(kernels[i]) ELSE <<>>
             All == [i \in DOMAIN kernels |-> Faced(i)]
             S == { Launch(kernels[i], f) : i \in DOMAIN kernels, f \in Own }
  <1>1. ASSUME NEW i \in DOMAIN kernels
        PROVE  Each(kernels[i]) \in Seq(S) /\ ToSet(Each(kernels[i])) = UNION { ToSet(One(kernels[i], f)) : f \in Own }
    <2> DEFINE k == kernels[i]
    <2>1. ASSUME NEW f \in Own PROVE One(k, f) \in Seq(S)
      <3>1. Launch(k, f) \in S
        OBVIOUS
      <3> DEFINE l == Launch(k, f)
      <3> HIDE DEF S, l
      <3>2. <<l>> \in Seq(S) /\ <<>> \in Seq(S)
        BY <3>1 DEF l
      <3>3. One(k, f) = <<l>> \/ One(k, f) = <<>>
        BY DEF l
      <3> HIDE DEF One
      <3> QED  BY <3>2, <3>3
    <2> HIDE DEF One, k, S
    <2>2. Fields(k) \in Seq(Seq(S))
      <3>1. \A f \in 1..Len(FieldHalos) : One(k, f) \in Seq(S)
        BY <2>1, OwnFacts
      <3>2. Fields(k) = [f \in 1..Len(FieldHalos) |-> One(k, f)]
        BY OwnFacts
      <3> QED  BY <3>1, <3>2, OwnFacts
    <2>3. DOMAIN Fields(k) = Own /\ \A f \in Own : Fields(k)[f] = One(k, f)
      OBVIOUS
    <2> HIDE DEF Fields
    <2>4. FlattenSeq(Fields(k)) \in Seq(S)
          /\ ToSet(FlattenSeq(Fields(k))) = UNION { ToSet(Fields(k)[f]) : f \in DOMAIN Fields(k) }
      BY <2>2, Flatten
    <2> QED  BY <2>3, <2>4 DEF k
  <1> HIDE DEF Each, S
  <1>2. All \in Seq(Seq(S)) /\ DOMAIN All = DOMAIN kernels /\ \A i \in DOMAIN kernels : All[i] = Faced(i)
    <2> HIDE DEF Wanted
    <2>1. \A i \in 1..Len(kernels) : Faced(i) \in Seq(S)
      BY <1>1
    <2>2. DOMAIN kernels = 1..Len(kernels) /\ Len(kernels) \in Nat
      OBVIOUS
    <2> HIDE DEF Faced
    <2> QED  BY <2>1, <2>2
  <1> DEFINE q == Launches(kernels)
  <1>3. q = FlattenSeq(All)
    BY DEF Launches, Each
  <1> HIDE DEF All
  <1>4. q \in Seq(S) /\ ToSet(q) = UNION { ToSet(All[i]) : i \in DOMAIN All }
    <2>1. FlattenSeq(All) \in Seq(S) /\ ToSet(FlattenSeq(All)) = UNION { ToSet(All[i]) : i \in DOMAIN All }
      BY <1>2, Flatten
    <2> QED  BY <1>3, <2>1
  <1> HIDE DEF q
  <1>5. \A n \in DOMAIN q : q[n] \in S
    BY <1>4
  <1>6. ASSUME NEW i \in DOMAIN kernels, NEW f \in Own, Wanted(kernels[i]),
               Blocks(kernels[i], Trimmed(kernels[i].packs, HalosOf(f))) # {}
        PROVE  \E n \in DOMAIN q : q[n] = Launch(kernels[i], f)
    <2>1. One(kernels[i], f) = <<Launch(kernels[i], f)>>
      BY <1>6
    <2>2. Launch(kernels[i], f) \in ToSet(One(kernels[i], f))
      <3> DEFINE l == Launch(kernels[i], f)
      <3> HIDE DEF l
      <3>1. <<l>>[1] = l /\ 1 \in DOMAIN <<l>>
        OBVIOUS
      <3>2. l \in ToSet(<<l>>)
        BY <3>1 DEF ToSet
      <3> HIDE DEF One
      <3> QED  BY <2>1, <3>2 DEF l
    <2>3. All[i] = Each(kernels[i])
      BY <1>2, <1>6
    <2> HIDE DEF One, Faced, Wanted
    <2>4. Launch(kernels[i], f) \in ToSet(All[i])
      BY <1>1, <2>2, <2>3
    <2>5. Launch(kernels[i], f) \in ToSet(q)
      BY <1>2, <1>4, <2>4
    <2> QED  BY <2>5 DEF ToSet
  <1>7. \A n \in DOMAIN q : \E i \in DOMAIN kernels, f \in Own : q[n] = Launch(kernels[i], f)
    BY <1>5 DEF S
  <1> QED  BY <1>6, <1>7 DEF q

\* Every element of every message is packed, and unpacked.
LEMMA AllLaunched ==
    ASSUME proc \in Procs, ExampleCovers, NEW packs \in BOOLEAN, NEW d \in Dirs, Side(d),
           NEW f \in Own, NEW o \in Within(Shares(packs, HalosOf(f), d))
    PROVE  \E n \in DOMAIN Launches(KernelsFor(packs)) :
              LET l == Launches(KernelsFor(packs))[n]
              IN  /\ l.field = f /\ Order(l) = (IF packs THEN 2 ELSE 0)
                  /\ \E b \in BlocksOf(<<l>>) : \E t \in ThreadsOf(l, b) :
                        /\ AccessOf(l, t).dir = d
                        /\ AccessOf(l, t).slot = Place(packs, f, d) + Linear(o, Shares(packs, HalosOf(f), d)) + 1
                        /\ AccessOf(l, t).at = PlaceAt(packs, HalosOf(f), d, o)
  <1> DEFINE gs == HalosOf(f)
             ks == KernelsFor(packs)
             size == Shares(packs, gs, d)
  <1>1. gs \in HaloTypes /\ \A a \in Axes : IsHalo(gs[a])
    BY OwnFacts
  <1>2. PICK c \in Axes : d[c] \in {-1, 1} /\ \A a \in Axes : a > c => d[a] = 0
    <2>1. d[1] \in {-1, 0, 1} /\ d[2] \in {-1, 0, 1} /\ d[3] \in {-1, 0, 1}
      BY DirFacts DEF Axes, Offsets
    <2>2. ~ (d[1] = 0 /\ d[2] = 0 /\ d[3] = 0)
      <3>1. d = [a \in Axes |-> d[a]] /\ d # Here
        BY DEF Dirs
      <3> QED  BY <3>1 DEF Here, Axes
    <2> QED  BY <2>1, <2>2 DEF Axes
  <1>3. PICK i \in DOMAIN ks : ks[i].axis = c /\ ks[i].side = d[c]
    BY <1>2, FaceKernels
  <1> DEFINE k == ks[i]
  <1>4. k \in KernelTypes /\ k.packs = packs /\ k.axis = c /\ k.side = d[c]
    BY <1>3, FaceKernels
  <1>5. IsKernelFor(k, d)
    BY <1>2, <1>4 DEF IsKernelFor
  <1> HIDE DEF gs, ks, k
  <1>6. PICK b \in Blocks(k, Trimmed(packs, gs)) : \E t \in Threads(k, Trimmed(packs, gs), b) :
              LET x == Access(k, Trimmed(packs, gs), t)
              IN  /\ x.dir = d /\ x.slot = Linear(o, size)
                  /\ x.at = [a \in Axes |-> Begins(packs, gs, d)[a] + o[a]]
    <2>1. o \in Within(Shares(k.packs, gs, d))
      BY <1>4 DEF gs
    <2>2. \E b \in Blocks(k, Trimmed(k.packs, gs)) : \E t \in Threads(k, Trimmed(k.packs, gs), b) :
              LET x == Access(k, Trimmed(k.packs, gs), t)
              IN  /\ x.dir = d /\ x.slot = Linear(o, Shares(k.packs, gs, d))
                  /\ x.at = [a \in Axes |-> Begins(k.packs, gs, d)[a] + o[a]]
      BY <1>1, <1>4, <1>5, <2>1, ThreadOf
    <2> QED  BY <1>4, <2>2
  <1>7. PICK t \in Threads(k, Trimmed(packs, gs), b) :
              LET x == Access(k, Trimmed(packs, gs), t)
              IN  /\ x.dir = d /\ x.slot = Linear(o, size)
                  /\ x.at = [a \in Axes |-> Begins(packs, gs, d)[a] + o[a]]
    BY <1>6
  <1>8. SetupSize(packs, Towards(c, d[c])) # 0
    <2> DEFINE e == Towards(c, d[c])
               ex == HaloExample
               m(a) == Share(packs, ex[a], d[a])
               n(a) == Share(packs, ex[a], e[a])
    <2>1. e \in Dirs /\ \A a \in Axes : e[a] = IF a = c THEN d[c] ELSE 0
      <3>1. e = [Here EXCEPT ![c] = d[c]]
        BY DEF Towards
      <3>2. e \in [Axes -> Offsets] /\ \A a \in Axes : e[a] = IF a = c THEN d[c] ELSE 0
        BY <1>2, <3>1 DEF Here, Offsets
      <3>3. e # Here
        <4>1. e[c] # 0
          BY <1>2, <3>2
        <4> QED  BY <4>1 DEF Here
      <3> QED  BY <3>2, <3>3 DEF Dirs
    <2>2. Side(e)
      <3>1. d[c] # 0
        BY <1>2
      <3> QED  BY <3>1, SideFacts
    <2>3. ex \in HaloTypes /\ \A a \in Axes : IsHalo(ex[a]) /\ ex[a] \in HaloType
      BY OwnFacts DEF HaloTypes, HaloType
    <2>4. Size(packs, ex, d) # 0
      <3>1. Size(packs, gs, d) \in Nat /\ Size(packs, gs, d) # 0
        <4>1. size \in [Axes -> Nat] /\ Size(packs, gs, d) = size[1] * size[2] * size[3]
          BY <1>1, SharesFacts
        <4>2. Linear(o, size) \in 0..size[1] * size[2] * size[3] - 1
          <5>1. o \in Within(size)
            BY DEF gs
          <5> HIDE DEF size
          <5> QED  BY <4>1, <5>1, BoxFacts
        <4>3. Linear(o, size) \in 0..Size(packs, gs, d) - 1
          BY <4>1, <4>2
        <4>4. Size(packs, gs, d) \in Nat
          BY <1>1, SizeFacts
        <4> QED  BY <4>3, <4>4
      <3>2. Size(packs, ex, d) \in Nat
        BY <2>3, SizeFacts
      <3>3. CASE generic
        <4>1. gs = FieldHalos[f]
          BY <3>3 DEF gs, HalosOf
        <4>2. Size(packs, gs, d) <= Size(packs, ex, d)
          BY <4>1 DEF ExampleCovers
        <4> QED  BY <3>1, <3>2, <4>2
      <3>4. CASE ~ generic
        BY <3>1, <3>4 DEF gs, HalosOf
      <3> QED  BY <3>3, <3>4
    <2>5. /\ Size(packs, ex, d) = m(1) * m(2) * m(3) /\ Size(packs, ex, e) = n(1) * n(2) * n(3)
      BY <2>1, <2>3, SizeFacts
    <2>6. \A a \in Axes : m(a) \in Nat /\ n(a) \in Nat /\ (m(a) # 0 => n(a) # 0)
      <3> TAKE a \in Axes
      <3>1. m(a) \in Nat /\ n(a) \in Nat
        BY <2>1, <2>3, DirFacts, ShareFacts
      <3>2. CASE a = c
        BY <2>1, <3>1, <3>2
      <3>3. CASE a # c
        <4>1. n(a) = Length(ex[a]) /\ Length(ex[a]) \in Nat \ {0}
          BY <2>1, <2>3, <3>3, ShareFacts
        <4> QED  BY <3>1, <4>1
      <3> QED  BY <3>2, <3>3
    <2> HIDE DEF m, n
    <2>7. m(1) # 0 /\ m(2) # 0 /\ m(3) # 0
      <3>1. m(1) \in Nat /\ m(2) \in Nat /\ m(3) \in Nat
        BY <2>6 DEF Axes
      <3> QED  BY <2>4, <2>5, <3>1
    <2>8. n(1) \in Nat \ {0} /\ n(2) \in Nat \ {0} /\ n(3) \in Nat \ {0}
      BY <2>6, <2>7 DEF Axes
    <2>9. n(1) * n(2) * n(3) # 0
      BY <2>8
    <2> QED  BY <2>2, <2>5, <2>9 DEF SetupSize
  <1>9. PICK n \in DOMAIN Launches(ks) : Launches(ks)[n] = Launch(k, f)
    <2>1. ks \in Seq(KernelTypes)
      BY FaceKernels DEF ks
    <2>2. SetupSize(k.packs, Towards(k.axis, k.side)) # 0
      BY <1>4, <1>8
    <2>3. Blocks(k, Trimmed(k.packs, HalosOf(f))) # {}
      BY <1>4, <1>6 DEF gs
    <2> QED  BY <2>1, <2>2, <2>3, LaunchesSet DEF k
  <1> DEFINE l == Launch(k, f)
  <1>10. /\ l.kernel = k /\ l.field = f /\ ~ Computes(l)
         /\ BlocksOf(<<l>>) = Blocks(k, Trimmed(packs, gs))
         /\ ThreadsOf(l, b) = Threads(k, Trimmed(packs, gs), b)
    <2>1. l.kernel = k /\ l.field = f
      BY DEF Launch
    <2>2. ~ Computes(l) /\ BlocksOf(<<l>>) = Blocks(k, Trimmed(k.packs, HalosOf(f)))
      BY <1>4, FaceLaunch
    <2> HIDE DEF l
    <2> QED  BY <1>4, <2>1, <2>2 DEF ThreadsOf, gs
  <1>11. Order(l) = IF packs THEN 2 ELSE 0
    <2> HIDE DEF l
    <2> QED  BY <1>4, <1>10 DEF Order
  <1>12. /\ AccessOf(l, t).dir = d
         /\ AccessOf(l, t).slot = Place(packs, f, d) + Linear(o, size) + 1
         /\ AccessOf(l, t).at = PlaceAt(packs, gs, d, o)
    <2> DEFINE x == Access(k, Trimmed(packs, gs), t)
    <2>1. l.kernel.packs = packs
      BY <1>4, <1>10
    <2>2. /\ AccessOf(l, t).dir = x.dir /\ AccessOf(l, t).at = x.at
          /\ AccessOf(l, t).slot = 1 + x.slot + (IF x.dir \in Sides THEN Place(packs, f, x.dir) ELSE 0)
      <3> HIDE DEF l
      <3> QED  BY <1>10, <2>1, AccessOfFacts DEF gs
    <2>3. x.dir = d /\ x.slot = Linear(o, size) /\ x.at = PlaceAt(packs, gs, d, o)
      BY <1>7 DEF PlaceAt
    <2>4. Linear(o, size) \in Int /\ Place(packs, f, d) \in Int
      <3>1. size \in [Axes -> Nat] /\ o \in Within(size)
        BY <1>1, SharesFacts DEF gs
      <3>2. Linear(o, size) \in 0..size[1] * size[2] * size[3] - 1
        <4> HIDE DEF size
        <4> QED  BY <3>1, BoxFacts
      <3> HIDE DEF size
      <3> QED  BY <3>2, PlaceType
    <2>5. d \in Sides
      BY DEF Sides
    <2> HIDE DEF x, size, l
    <2> QED  BY <2>2, <2>3, <2>4, <2>5
  <1> HIDE DEF l, size
  <1>13. Launches(ks)[n] = l
    BY <1>9 DEF l
  <1>14. b \in BlocksOf(<<l>>) /\ t \in ThreadsOf(l, b)
    BY <1>10
  <1>15. LET m == Launches(ks)[n]
         IN  /\ m.field = f /\ Order(m) = (IF packs THEN 2 ELSE 0)
             /\ b \in BlocksOf(<<m>>) /\ t \in ThreadsOf(m, b)
             /\ AccessOf(m, t).dir = d
             /\ AccessOf(m, t).slot = Place(packs, f, d) + Linear(o, size) + 1
             /\ AccessOf(m, t).at = PlaceAt(packs, gs, d, o)
    BY <1>10, <1>11, <1>12, <1>13, <1>14
  <1> QED  BY <1>15 DEF ks, gs, size

-----------------------------------------------------------------------------
(* The messages of the CPU.                                                  *)
\* The parts of a message are one after the other.
LEMMA PlaceNext ==
    ASSUME proc \in Procs, NEW packs \in BOOLEAN, NEW d \in Dirs, Side(d), NEW f \in Own
    PROVE  /\ f = 1 => Place(packs, f, d) = 0
           /\ f + 1 \in Own => Place(packs, f + 1, d) = Place(packs, f, d) + Size(packs, HalosOf(f), d)
  <1> DEFINE s == SetupSize(packs, d)
             n == Len(FieldHalos)
  <1>1. n \in Nat /\ Own = 1..n /\ f \in 1..n /\ (f + 1) - 1 = f
    BY OwnFacts
  <1>2. s \in Nat
    BY PrefixFacts
  <1>3. CASE generic
    <2> DEFINE p == Prefix(packs, d)
    <2>1. p[0] = 0 /\ p[f] = p[f - 1] + Size(packs, HalosOf(f), d)
      BY <1>3, PrefixFacts DEF HalosOf
    <2>2. Place(packs, f, d) = p[f - 1] /\ Place(packs, f + 1, d) = p[(f + 1) - 1]
      BY <1>3 DEF Place
    <2> HIDE DEF p
    <2> QED  BY <1>1, <2>1, <2>2
  <1>4. CASE ~ generic
    <2>1. Place(packs, f, d) = (f - 1) * s /\ Place(packs, f + 1, d) = ((f + 1) - 1) * s
      BY <1>4 DEF Place
    <2>2. Size(packs, HalosOf(f), d) = s
      BY <1>4 DEF HalosOf, SetupSize
    <2> HIDE DEF s, n
    <2>3. f * s = (f - 1) * s + s /\ (f = 1 => (f - 1) * s = 0)
      BY <1>1, <1>2
    <2> QED  BY <1>1, <2>1, <2>2, <2>3
  <1> QED  BY <1>3, <1>4

\* Each element at its place, in the message that is sent in a direction or, from the
\* neighbour's side, in the one that is received from there.
IsMessage(m, e, packs, d, whose, n) ==
    /\ m \in Seq({ m[j] : j \in DOMAIN m })
    /\ \A f \in Own : \A i \in 1..Size(packs, HalosOf(f), d) :
          /\ i \in DOMAIN Border(HalosOf(f), e)
          /\ Place(packs, f, d) + i \in 1..Len(m)
          /\ m[Place(packs, f, d) + i] = Element(whose, Border(HalosOf(f), e)[i], n)
    /\ \A j \in 1..Len(m) : \E f \in Own : \E i \in 1..Size(packs, HalosOf(f), d) : j = Place(packs, f, d) + i
    /\ \A f, g \in Own : f < g => Place(packs, f, d) + Size(packs, HalosOf(f), d) <= Place(packs, g, d)

LEMMA MessageAt ==
    ASSUME proc \in Procs, NEW packs \in BOOLEAN, NEW d \in Dirs, Side(d), NEW whose, NEW n
    PROVE  LET e == IF packs THEN d ELSE Neg(d)
           IN  IsMessage(CpuMessage(whose, e, n), e, packs, d, whose, n)
  <1> DEFINE e == IF packs THEN d ELSE Neg(d)
             m == CpuMessage(whose, e, n)
             B(f) == Border(HalosOf(f), e)
             Of(f) == [i \in DOMAIN B(f) |-> Element(whose, B(f)[i], n)]
             L == Len(FieldHalos)
             seqs == [f \in Own |-> Of(f)]
             S == UNION { { Of(f)[i] : i \in DOMAIN Of(f) } : f \in Own }
             p == [f \in Own |-> Place(packs, f, d)]
  <1>1. L \in Nat /\ Own = 1..L
    BY OwnFacts
  <1>2. e \in Dirs
    BY DirFacts
  <1>3. ASSUME NEW f \in Own
        PROVE  /\ DOMAIN B(f) = 1..Size(packs, HalosOf(f), d) /\ Size(packs, HalosOf(f), d) \in Nat
    <2>1. HalosOf(f) \in HaloTypes /\ \A a \in Axes : IsHalo(HalosOf(f)[a])
      BY OwnFacts
    <2> DEFINE gs == HalosOf(f)
    <2> HIDE DEF gs, e
    <2>2. DOMAIN Border(gs, e) = 1..Size(TRUE, gs, e)
      BY <1>2, <2>1, BorderFacts DEF gs
    <2>3. Size(TRUE, gs, e) = Size(packs, gs, d) /\ Size(packs, gs, d) \in Nat
      <3>1. CASE packs = TRUE
        BY <2>1, <3>1, SizeFacts DEF gs, e
      <3>2. CASE packs = FALSE
        <4>1. e = Neg(d)
          BY <3>2 DEF e
        <4>2. /\ Size(TRUE, gs, e) = Shares(TRUE, gs, e)[1] * Shares(TRUE, gs, e)[2] * Shares(TRUE, gs, e)[3]
              /\ Size(FALSE, gs, d) = Shares(FALSE, gs, d)[1] * Shares(FALSE, gs, d)[2] * Shares(FALSE, gs, d)[3]
              /\ Shares(TRUE, gs, Neg(d)) = Shares(FALSE, gs, d)
              /\ Size(FALSE, gs, d) \in Nat
          BY <1>2, <2>1, SharesFacts, SizeFacts DEF gs
        <4> QED  BY <3>2, <4>1, <4>2
      <3> QED  BY <3>1, <3>2
    <2> QED  BY <2>2, <2>3 DEF gs
  <1>4. m = FlattenSeq(seqs)
    BY DEF CpuMessage
  <1> HIDE DEF e, B
  <1>5. ASSUME NEW f \in Own
        PROVE  /\ Of(f) \in Seq(S) /\ Len(Of(f)) = Size(packs, HalosOf(f), d)
               /\ \A i \in 1..Size(packs, HalosOf(f), d) : Of(f)[i] = Element(whose, B(f)[i], n)
    <2> DEFINE l == Size(packs, HalosOf(f), d)
               s == Of(f)
               v(i) == Element(whose, B(f)[i], n)
    <2>1. l \in Nat /\ s = [i \in 1..l |-> v(i)]
      BY <1>3
    <2>2. \A i \in DOMAIN s : s[i] \in S
      OBVIOUS
    <2> HIDE DEF l, s, v, S
    <2>3. s = [i \in 1..l |-> s[i]] /\ DOMAIN s = 1..l /\ \A i \in 1..l : s[i] = v(i)
      BY <2>1
    <2>4. s \in [1..l -> S]
      BY <2>2, <2>3
    <2>5. s \in Seq(S)
      BY <2>1, <2>4, SeqDef
    <2>6. Len(s) \in Nat /\ DOMAIN s = 1..Len(s)
      BY <2>5, LenProperties
    <2>7. Len(s) = l
      BY <2>1, <2>3, <2>6
    <2> QED  BY <2>3, <2>5, <2>7 DEF l, s, v
  <1> HIDE DEF Of, S
  <1>6. seqs \in Seq(Seq(S)) /\ Len(seqs) = L /\ \A f \in 1..L : seqs[f] = Of(f)
    <2>1. seqs = [f \in 1..L |-> Of(f)] /\ \A f \in 1..L : Of(f) \in Seq(S)
      BY <1>1, <1>5
    <2> HIDE DEF seqs, L
    <2>2. seqs \in [1..L -> Seq(S)]
      BY <2>1
    <2>3. seqs \in Seq(Seq(S))
      BY <1>1, <2>2, SeqDef
    <2>4. Len(seqs) \in Nat /\ DOMAIN seqs = 1..Len(seqs)
      BY <2>3, LenProperties
    <2>5. Len(seqs) = L
      BY <1>1, <2>2, <2>4
    <2> QED  BY <2>1, <2>3, <2>5
  <1>7. CASE L = 0
    <2>1. seqs = <<>>
      <3> HIDE DEF seqs
      <3> QED  BY <1>6, <1>7
    <2>2. m = <<>>
      <3>1. FlattenSeq(<<>>) = <<>>
        BY DEF FlattenSeq
      <3> HIDE DEF m, seqs
      <3> QED  BY <1>4, <2>1, <3>1
    <2>3. m \in Seq({ m[j] : j \in DOMAIN m }) /\ 1..Len(m) = {} /\ Own = {}
      <3> HIDE DEF m
      <3> QED  BY <1>1, <1>7, <2>2
    <2> HIDE DEF m
    <2>4. IsMessage(m, e, packs, d, whose, n)
      BY <2>3 DEF IsMessage
    <2> QED  BY <2>4 DEF m, e
  <1>8. CASE L # 0
    <2>1. p[1] = 0 /\ \A f \in 1..L - 1 : p[f + 1] = p[f] + Len(seqs[f])
      <3>1. 1 \in Own /\ \A f \in 1..L - 1 : f \in Own /\ f + 1 \in Own
        BY <1>1, <1>8
      <3>2. p[1] = 0
        BY <3>1, PlaceNext
      <3>3. ASSUME NEW f \in 1..L - 1 PROVE p[f + 1] = p[f] + Len(seqs[f])
        <4>1. seqs[f] = Of(f) /\ Len(Of(f)) = Size(packs, HalosOf(f), d)
          BY <1>5, <3>1
        <4> QED  BY <3>1, <4>1, PlaceNext
      <3> QED  BY <3>2, <3>3
    <2>2. \A f \in Own : p[f] = Place(packs, f, d)
      OBVIOUS
    <2> HIDE DEF p, seqs, m
    <2>3. seqs # <<>>
      BY <1>1, <1>6, <1>8
    <2>4. /\ FlattenSeq(seqs) \in Seq(S)
          /\ \A i \in 1..Len(seqs) : \A j \in 1..Len(seqs[i]) :
                p[i] + j \in 1..Len(FlattenSeq(seqs)) /\ FlattenSeq(seqs)[p[i] + j] = seqs[i][j]
          /\ \A k \in 1..Len(FlattenSeq(seqs)) : \E i \in 1..Len(seqs) : \E j \in 1..Len(seqs[i]) : k = p[i] + j
          /\ \A i \in 1..Len(seqs) : \A j \in 1..i - 1 : p[j] + Len(seqs[j]) <= p[i]
      <3>1. \A i \in 1..Len(seqs) - 1 : p[i + 1] = p[i] + Len(seqs[i])
        BY <1>6, <2>1
      <3> HIDE DEF L
      <3> QED  BY <1>6, <2>1, <2>3, <3>1, FlattenAt
    <2> HIDE DEF L
    <2>5. \A f \in Own : seqs[f] = Of(f) /\ Len(seqs[f]) = Size(packs, HalosOf(f), d)
      BY <1>1, <1>5, <1>6
    <2>6. ASSUME NEW f \in Own, NEW i \in 1..Size(packs, HalosOf(f), d)
          PROVE  /\ i \in DOMAIN B(f)
                 /\ p[f] + i \in 1..Len(m) /\ m[p[f] + i] = Element(whose, B(f)[i], n)
      <3>1. f \in 1..Len(seqs) /\ i \in 1..Len(seqs[f])
        BY <1>1, <1>6, <2>5
      <3>2. p[f] + i \in 1..Len(m) /\ m[p[f] + i] = seqs[f][i]
        BY <1>4, <2>4, <3>1
      <3>3. seqs[f][i] = Element(whose, B(f)[i], n)
        BY <1>5, <2>5
      <3> QED  BY <1>3, <3>2, <3>3
    <2>7. ASSUME NEW j \in 1..Len(m)
          PROVE  \E f \in Own : \E i \in 1..Size(packs, HalosOf(f), d) : j = p[f] + i
      <3>1. \E f \in 1..Len(seqs) : \E i \in 1..Len(seqs[f]) : j = p[f] + i
        BY <1>4, <2>4
      <3> QED  BY <1>1, <1>6, <2>5, <3>1
    <2>8. ASSUME NEW f \in Own, NEW g \in Own, f < g
          PROVE  p[f] + Size(packs, HalosOf(f), d) <= p[g]
      <3>1. g \in 1..Len(seqs) /\ f \in 1..g - 1
        BY <1>1, <1>6, <2>8
      <3>2. p[f] + Len(seqs[f]) <= p[g]
        BY <2>4, <3>1
      <3> QED  BY <2>5, <3>2
    <2>9. m \in Seq({ m[j] : j \in DOMAIN m })
      <3> DEFINE T == { m[j] : j \in DOMAIN m }
      <3>1. m \in Seq(S)
        BY <1>4, <2>4
      <3>2. Len(m) \in Nat /\ m \in [1..Len(m) -> S] /\ DOMAIN m = 1..Len(m)
        BY <3>1, LenProperties
      <3>3. m \in [1..Len(m) -> T]
        <4>1. m = [j \in 1..Len(m) |-> m[j]] /\ \A j \in 1..Len(m) : m[j] \in T
          BY <3>2
        <4> HIDE DEF T
        <4> QED  BY <4>1
      <3> HIDE DEF T
      <3>4. m \in Seq(T)
        BY <3>2, <3>3, SeqDef
      <3> QED  BY <3>4 DEF T
    <2>10. IsMessage(m, e, packs, d, whose, n)
      BY <2>2, <2>6, <2>7, <2>8, <2>9 DEF IsMessage, B
    <2> QED  BY <2>10 DEF m, e
  <1> QED  BY <1>1, <1>7, <1>8

-----------------------------------------------------------------------------
(* The process stays the same, and with it what a kernel does.               *)
LEMMA SamePrefix ==
    ASSUME proc' = proc, generic' = generic, NEW packs, NEW d
    PROVE  Prefix(packs, d)' = Prefix(packs, d)
  BY DEF Prefix, Size, Trimmed, Side, HasNbr

LEMMA SamePlaces ==
    ASSUME proc' = proc, generic' = generic, NEW packs, NEW d, NEW f
    PROVE  /\ Place(packs, f, d)' = Place(packs, f, d)
           /\ HalosOf(f)' = HalosOf(f)
  <1>1. Prefix(packs, d)' = Prefix(packs, d) /\ SetupSize(packs, d)' = SetupSize(packs, d)
    BY SamePrefix, SameSides
  <1> QED  BY <1>1 DEF Place, HalosOf

LEMMA SameThreads ==
    ASSUME proc' = proc, generic' = generic, NEW n, NEW l, queue'[n] = l
    PROVE  /\ \A b : ThreadsOf(queue[n], b)' = ThreadsOf(l, b)
           /\ \A t : AccessOf(queue[n], t)' = AccessOf(l, t)
  <1>1. Trimmed(queue[n].kernel.packs, HalosOf(queue[n].field))' = Trimmed(l.kernel.packs, HalosOf(l.field))
    BY DEF Trimmed, Side, HasNbr, HalosOf
  <1>2. ASSUME NEW b PROVE ThreadsOf(queue[n], b)' = ThreadsOf(l, b)
    BY <1>1 DEF ThreadsOf
  <1>3. ASSUME NEW t PROVE AccessOf(queue[n], t)' = AccessOf(l, t)
    <2>1. PICK x : x = Access(l.kernel, Trimmed(l.kernel.packs, HalosOf(l.field)), t)
      OBVIOUS
    <2>2. Access(queue[n].kernel, Trimmed(queue[n].kernel.packs, HalosOf(queue[n].field)), t)' = x
      BY <1>1, <2>1
    <2>3. Place(l.kernel.packs, l.field, x.dir)' = Place(l.kernel.packs, l.field, x.dir)
      <3> DEFINE packs == l.kernel.packs
                 f == l.field
                 d == x.dir
      <3> HIDE DEF packs, f, d
      <3>1. Place(packs, f, d)' = Place(packs, f, d)
        BY SamePlaces
      <3> QED  BY <3>1 DEF packs, f, d
    <2>4. Sides' = Sides
      BY SameSides
    <2>5. AccessOf(queue[n], t)' =
             [x EXCEPT !.slot = 1 + @ + (IF x.dir \in Sides' THEN Place(l.kernel.packs, l.field, x.dir)' ELSE 0)]
      BY <2>2 DEF AccessOf
    <2> QED  BY <2>1, <2>3, <2>4, <2>5 DEF AccessOf
  <1> QED  BY <1>2, <1>3

\* The threads of a kernel, wherever it is in the stream.
AllThreads(l) == UNION { ThreadsOf(l, b) : b \in BlocksOf(<<l>>) }

LEMMA WaitingFacts ==
    ASSUME StreamOK, queue # <<>>
    PROVE  /\ 1 \in DOMAIN queue /\ Head(queue) = queue[1] /\ BlocksOf(queue) = BlocksOf(<<queue[1]>>)
           /\ Waiting(1) = UNION { ThreadsOf(queue[1], b) : b \in left }
           /\ Waiting(1) \subseteq AllThreads(queue[1])
           /\ \A n \in DOMAIN queue : n # 1 => Waiting(n) = AllThreads(queue[n])
           /\ \A n \in DOMAIN queue : Waiting(n) \subseteq AllThreads(queue[n])
  <1>1. queue \in Seq(LaunchTypes) /\ left \subseteq BlocksOf(queue)
    BY DEF StreamOK
  <1>2. 1 \in DOMAIN queue /\ Head(queue) = queue[1] /\ BlocksOf(queue) = BlocksOf(<<queue[1]>>)
    BY <1>1, HeadBlocks
  <1>3. Waiting(1) = UNION { ThreadsOf(queue[1], b) : b \in left }
    BY DEF Waiting
  <1>4. \A n \in DOMAIN queue : n # 1 => Waiting(n) = AllThreads(queue[n])
    BY DEF Waiting, AllThreads
  <1>5. Waiting(1) \subseteq AllThreads(queue[1])
    BY <1>1, <1>2, <1>3 DEF AllThreads
  <1> QED  BY <1>2, <1>3, <1>4, <1>5

\* The threads that wait after a step.
LEMMA WaitingAfter ==
    ASSUME proc' = proc, generic' = generic, NEW n, NEW l, queue'[n] = l
    PROVE  /\ n = 1 => Waiting(n)' = UNION { ThreadsOf(l, b) : b \in left' }
           /\ n # 1 => Waiting(n)' = AllThreads(l)
  <1>1. \A b : ThreadsOf(queue[n], b)' = ThreadsOf(l, b)
    BY SameThreads
  <1>2. BlocksOf(<<queue[n]>>)' = BlocksOf(<<l>>)
    BY SameLaunch
  <1>3. Waiting(n)' = UNION { ThreadsOf(queue[n], b)' : b \in (IF n = 1 THEN left' ELSE BlocksOf(<<queue[n]>>)') }
    BY DEF Waiting
  <1>4. n = 1 => Waiting(n)' = UNION { ThreadsOf(l, b) : b \in left' }
    BY <1>1, <1>3
  <1>5. n # 1 => Waiting(n)' = AllThreads(l)
    BY <1>1, <1>2, <1>3 DEF AllThreads
  <1> QED  BY <1>4, <1>5

\* What is enqueued waits behind the others.
LEMMA WaitingEnqueued ==
    ASSUME StreamOK, proc' = proc, generic' = generic, NEW ls \in Seq(LaunchTypes), Enqueue(ls),
           NEW k, k = Len(queue)
    PROVE  /\ \A n \in DOMAIN queue : n \in DOMAIN queue' /\ queue'[n] = queue[n] /\ Waiting(n)' = Waiting(n)
           /\ \A n \in DOMAIN ls : /\ k + n \in DOMAIN queue' /\ queue'[k + n] = ls[n]
                                   /\ Waiting(k + n)' = AllThreads(ls[n])
           /\ \A n \in DOMAIN queue' : n \in DOMAIN queue \/ (n > k /\ n - k \in DOMAIN ls /\ queue'[n] = ls[n - k])
  <1> DEFINE q == queue \o ls
  <1>1. queue' = q /\ left' = IF queue = <<>> THEN BlocksOf(ls) ELSE left
    BY DEF Enqueue
  <1>2. queue \in Seq(LaunchTypes)
    BY DEF StreamOK
  <1>3. /\ k \in Nat /\ DOMAIN queue = 1..k /\ DOMAIN ls = 1..Len(ls) /\ Len(ls) \in Nat /\ DOMAIN q = 1..k + Len(ls)
        /\ \A n \in 1..k + Len(ls) : q[n] = IF n <= k THEN queue[n] ELSE ls[n - k]
    BY <1>2
  <1> HIDE DEF q
  <1>4. ASSUME NEW n \in DOMAIN queue
        PROVE  n \in DOMAIN queue' /\ queue'[n] = queue[n] /\ Waiting(n)' = Waiting(n)
    <2>1. n \in DOMAIN q /\ q[n] = queue[n]
      BY <1>3
    <2>2. left' = left
      BY <1>1, <1>2
    <2>3. queue # <<>>
      BY <1>2
    <2>4. CASE n = 1
      BY <1>1, <2>1, <2>2, <2>3, <2>4, WaitingFacts, WaitingAfter
    <2>5. CASE n # 1
      BY <1>1, <2>1, <2>3, <2>5, WaitingFacts, WaitingAfter
    <2> QED  BY <1>1, <2>1, <2>4, <2>5
  <1>5. ASSUME NEW n \in DOMAIN ls
        PROVE  k + n \in DOMAIN queue' /\ queue'[k + n] = ls[n] /\ Waiting(k + n)' = AllThreads(ls[n])
    <2> DEFINE m == k + n
    <2>1. k + n \in DOMAIN q /\ q[k + n] = ls[n]
      <3>1. k + n \in 1..k + Len(ls) /\ ~ (k + n <= k) /\ (k + n) - k = n
        BY <1>3
      <3> QED  BY <1>3, <3>1
    <2>2. CASE k + n = 1
      <3>1. k = 0 /\ n = 1
        BY <1>3, <2>2
      <3>2. queue = <<>>
        BY <1>2, <3>1, EmptySeq
      <3>3. left' = BlocksOf(ls) /\ BlocksOf(ls) = BlocksOf(<<ls[1]>>)
        <4>1. ls # <<>>
          BY <3>1
        <4> QED  BY <1>1, <3>2, <4>1, HeadBlocks
      <3>4. Waiting(m)' = UNION { ThreadsOf(ls[n], b) : b \in left' }
        <4>1. queue'[m] = ls[n] /\ m = 1
          BY <1>1, <2>1, <2>2
        <4> HIDE DEF m
        <4> QED  BY <4>1, WaitingAfter
      <3> QED  BY <1>1, <2>1, <3>1, <3>3, <3>4 DEF AllThreads
    <2>3. CASE k + n # 1
      <3>1. queue'[m] = ls[n] /\ m # 1
        BY <1>1, <2>1, <2>3
      <3>2. Waiting(m)' = AllThreads(ls[n])
        <4> HIDE DEF m
        <4> QED  BY <3>1, WaitingAfter
      <3> QED  BY <1>1, <2>1, <3>2
    <2> QED  BY <1>1, <2>1, <2>2, <2>3
  <1>6. ASSUME NEW n \in DOMAIN queue'
        PROVE  n \in DOMAIN queue \/ (n > k /\ n - k \in DOMAIN ls /\ queue'[n] = ls[n - k])
    <2>1. n \in 1..k + Len(ls)
      BY <1>1, <1>3
    <2>2. CASE n <= k
      BY <1>3, <2>1, <2>2
    <2>3. CASE ~ (n <= k)
      <3>1. n > k /\ n - k \in DOMAIN ls
        BY <1>3, <2>1, <2>3
      <3> QED  BY <1>1, <1>3, <2>1, <2>3, <3>1
    <2> QED  BY <2>2, <2>3
  <1> QED  BY <1>4, <1>5, <1>6

\* The threads of a block that has run wait no longer, all others still do.
LEMMA WaitingDone ==
    ASSUME StreamOK, NEW block \in left, ThreadsDone(block), NEW n \in DOMAIN queue, NEW t \in Waiting(n)
    PROVE  \/ n = 1 /\ t \in ThreadsOf(queue[1], block)
           \/ \E m \in DOMAIN queue' : queue'[m] = queue[n] /\ t \in Waiting(m)'
  <1> SUFFICES ASSUME ~ (n = 1 /\ t \in ThreadsOf(queue[1], block))
               PROVE  \E m \in DOMAIN queue' : queue'[m] = queue[n] /\ t \in Waiting(m)'
    OBVIOUS
  <1>1. queue \in Seq(LaunchTypes) /\ queue # <<>> /\ proc' = proc /\ generic' = generic /\ left \subseteq BlocksOf(queue)
    BY HeadBlocks DEF StreamOK, ThreadsDone
  <1>2. CASE left = {block}
    <2>1. n # 1
      <3>1. Waiting(1) = ThreadsOf(queue[1], block)
        BY <1>1, <1>2, WaitingFacts
      <3> QED  BY <3>1
    <2> DEFINE q == Tail(queue)
               m == n - 1
    <2>2. queue' = q /\ left' = BlocksOf(q)
      BY <1>2 DEF ThreadsDone
    <2>3. q \in Seq(LaunchTypes) /\ m \in DOMAIN q /\ q[m] = queue[n]
      BY <1>1, <2>1
    <2>4. t \in AllThreads(queue[n])
      BY <1>1, <2>1, WaitingFacts
    <2> HIDE DEF q, m
    <2>5. CASE m = 1
      <3>1. q # <<>>
        BY <2>3
      <3>2. left' = BlocksOf(<<queue[n]>>)
        BY <2>2, <2>3, <2>5, <3>1, HeadBlocks
      <3>3. Waiting(m)' = UNION { ThreadsOf(queue[n], b) : b \in left' }
        BY <1>1, <2>2, <2>3, <2>5, WaitingAfter
      <3>4. Waiting(m)' = AllThreads(queue[n])
        BY <3>2, <3>3 DEF AllThreads
      <3> QED  BY <2>2, <2>3, <2>4, <3>4
    <2>6. CASE m # 1
      <3>1. Waiting(m)' = AllThreads(queue[n])
        BY <1>1, <2>2, <2>3, <2>6, WaitingAfter
      <3> QED  BY <2>2, <2>3, <2>4, <3>1
    <2> QED  BY <2>5, <2>6
  <1>3. CASE left # {block}
    <2>1. queue' = queue /\ left' = left \ {block}
      BY <1>3 DEF ThreadsDone
    <2>2. t \in Waiting(n)'
      <3>1. CASE n = 1
        <4>1. PICK b \in left : t \in ThreadsOf(queue[1], b)
          BY <1>1, <3>1, WaitingFacts
        <4>2. b \in left'
          BY <2>1, <3>1, <4>1
        <4>3. Waiting(n)' = UNION { ThreadsOf(queue[1], c) : c \in left' }
          BY <1>1, <2>1, <3>1, WaitingAfter
        <4> QED  BY <4>1, <4>2, <4>3
      <3>2. CASE n # 1
        BY <1>1, <2>1, <3>2, WaitingFacts, WaitingAfter
      <3> QED  BY <3>1, <3>2
    <2> QED  BY <2>1, <2>2
  <1> QED  BY <1>2, <1>3

-----------------------------------------------------------------------------
(* What is still to be written after a step.                                 *)
LEMMA WaitsOn ==
    ASSUME proc' = proc, generic' = generic, NEW m \in DOMAIN queue', NEW l, queue'[m] = l, NEW t \in Waiting(m)',
           NEW x, x = AccessOf(l, t)
    PROVE  /\ Order(l) = 0 => Unwritten(l.field, x.at)'
           /\ Order(l) = 2 => Unsent(x.dir, x.slot)'
  <1>1. x = AccessOf(l, t)
    OBVIOUS
  <1>2. AccessOf(queue[m], t)' = x
    BY <1>1, SameThreads
  <1>3. Order(queue[m])' = Order(l) /\ (queue[m].field)' = l.field
    BY DEF Order, Computes
  <1>4. ASSUME Order(l) = 0 PROVE Unwritten(l.field, x.at)'
    BY <1>2, <1>3, <1>4 DEF Unwritten
  <1>5. ASSUME Order(l) = 2 PROVE Unsent(x.dir, x.slot)'
    BY <1>2, <1>3, <1>5 DEF Unsent
  <1> QED  BY <1>1, <1>4, <1>5

LEMMA PendingEnqueued ==
    ASSUME StreamOK, proc' = proc, generic' = generic, NEW ls \in Seq(LaunchTypes), Enqueue(ls)
    PROVE  /\ \A f, x : Unwritten(f, x) => Unwritten(f, x)'
           /\ \A d, slot : Unsent(d, slot) => Unsent(d, slot)'
  <1>1. \A n \in DOMAIN queue : n \in DOMAIN queue' /\ queue'[n] = queue[n] /\ Waiting(n)' = Waiting(n)
    BY WaitingEnqueued
  <1>2. ASSUME NEW f, NEW x, Unwritten(f, x) PROVE Unwritten(f, x)'
    <2>1. PICK n \in DOMAIN queue : /\ Order(queue[n]) = 0 /\ queue[n].field = f
                                    /\ \E t \in Waiting(n) : AccessOf(queue[n], t).at = x
      BY <1>2 DEF Unwritten
    <2>2. PICK t \in Waiting(n) : AccessOf(queue[n], t).at = x
      BY <2>1
    <2>3. PICK l : l = queue[n]
      OBVIOUS
    <2>4. n \in DOMAIN queue' /\ queue'[n] = l /\ t \in Waiting(n)'
      BY <1>1, <2>3
    <2>5. PICK y : y = AccessOf(l, t)
      OBVIOUS
    <2>6. Unwritten(l.field, y.at)'
      BY <2>1, <2>3, <2>4, <2>5, WaitsOn
    <2> QED  BY <2>1, <2>2, <2>3, <2>5, <2>6
  <1>3. ASSUME NEW d, NEW slot, Unsent(d, slot) PROVE Unsent(d, slot)'
    <2>1. PICK n \in DOMAIN queue : /\ Order(queue[n]) = 2
                                    /\ \E t \in Waiting(n) : /\ AccessOf(queue[n], t).dir = d
                                                             /\ AccessOf(queue[n], t).slot = slot
      BY <1>3 DEF Unsent
    <2>2. PICK t \in Waiting(n) : AccessOf(queue[n], t).dir = d /\ AccessOf(queue[n], t).slot = slot
      BY <2>1
    <2>3. PICK l : l = queue[n]
      OBVIOUS
    <2>4. n \in DOMAIN queue' /\ queue'[n] = l /\ t \in Waiting(n)'
      BY <1>1, <2>3
    <2>5. PICK y : y = AccessOf(l, t)
      OBVIOUS
    <2>6. Unsent(y.dir, y.slot)'
      BY <2>1, <2>3, <2>4, <2>5, WaitsOn
    <2> QED  BY <2>1, <2>2, <2>3, <2>5, <2>6
  <1> QED  BY <1>2, <1>3

\* A block leaves to be written what its own threads have not written.
LEMMA PendingDone ==
    ASSUME StreamOK, NEW block \in left, ThreadsDone(block)
    PROVE  /\ \A f, x : Unwritten(f, x) =>
                 \/ Unwritten(f, x)'
                 \/ /\ Order(queue[1]) = 0 /\ queue[1].field = f
                    /\ \E t \in ThreadsOf(queue[1], block) : AccessOf(queue[1], t).at = x
           /\ \A d, slot : Unsent(d, slot) =>
                 \/ Unsent(d, slot)'
                 \/ /\ Order(queue[1]) = 2
                    /\ \E t \in ThreadsOf(queue[1], block) : /\ AccessOf(queue[1], t).dir = d
                                                             /\ AccessOf(queue[1], t).slot = slot
  <1>0. proc' = proc /\ generic' = generic
    BY DEF ThreadsDone
  <1>1. ASSUME NEW f, NEW x, Unwritten(f, x)
        PROVE  \/ Unwritten(f, x)'
               \/ /\ Order(queue[1]) = 0 /\ queue[1].field = f
                  /\ \E t \in ThreadsOf(queue[1], block) : AccessOf(queue[1], t).at = x
    <2>1. PICK n \in DOMAIN queue : /\ Order(queue[n]) = 0 /\ queue[n].field = f
                                    /\ \E t \in Waiting(n) : AccessOf(queue[n], t).at = x
      BY <1>1 DEF Unwritten
    <2>2. PICK t \in Waiting(n) : AccessOf(queue[n], t).at = x
      BY <2>1
    <2>3. CASE n = 1 /\ t \in ThreadsOf(queue[1], block)
      BY <2>1, <2>2, <2>3
    <2>4. CASE \E m \in DOMAIN queue' : queue'[m] = queue[n] /\ t \in Waiting(m)'
      <3>1. PICK m \in DOMAIN queue' : queue'[m] = queue[n] /\ t \in Waiting(m)'
        BY <2>4
      <3>2. PICK l : l = queue[n]
        OBVIOUS
      <3>3. PICK y : y = AccessOf(l, t)
        OBVIOUS
      <3>4. Unwritten(l.field, y.at)'
        BY <1>0, <2>1, <3>1, <3>2, <3>3, WaitsOn
      <3> QED  BY <2>1, <2>2, <3>2, <3>3, <3>4
    <2> QED  BY <2>3, <2>4, WaitingDone
  <1>2. ASSUME NEW d, NEW slot, Unsent(d, slot)
        PROVE  \/ Unsent(d, slot)'
               \/ /\ Order(queue[1]) = 2
                  /\ \E t \in ThreadsOf(queue[1], block) : /\ AccessOf(queue[1], t).dir = d
                                                           /\ AccessOf(queue[1], t).slot = slot
    <2>1. PICK n \in DOMAIN queue : /\ Order(queue[n]) = 2
                                    /\ \E t \in Waiting(n) : /\ AccessOf(queue[n], t).dir = d
                                                             /\ AccessOf(queue[n], t).slot = slot
      BY <1>2 DEF Unsent
    <2>2. PICK t \in Waiting(n) : AccessOf(queue[n], t).dir = d /\ AccessOf(queue[n], t).slot = slot
      BY <2>1
    <2>3. CASE n = 1 /\ t \in ThreadsOf(queue[1], block)
      BY <2>1, <2>2, <2>3
    <2>4. CASE \E m \in DOMAIN queue' : queue'[m] = queue[n] /\ t \in Waiting(m)'
      <3>1. PICK m \in DOMAIN queue' : queue'[m] = queue[n] /\ t \in Waiting(m)'
        BY <2>4
      <3>2. PICK l : l = queue[n]
        OBVIOUS
      <3>3. PICK y : y = AccessOf(l, t)
        OBVIOUS
      <3>4. Unsent(y.dir, y.slot)'
        BY <1>0, <2>1, <3>1, <3>2, <3>3, WaitsOn
      <3> QED  BY <2>1, <2>2, <3>2, <3>3, <3>4
    <2> QED  BY <2>3, <2>4, WaitingDone
  <1> QED  BY <1>1, <1>2

\* What the threads of a block access.
LEMMA BlockAccess ==
    ASSUME IndInv, NEW block \in left, Order(queue[1]) # 1, NEW t \in ThreadsOf(queue[1], block)
    PROVE  LET k == queue[1].kernel
               f == queue[1].field
               x == AccessOf(queue[1], t)
           IN  /\ f \in Own /\ x.dir \in Dirs /\ x.dir \in Sides
               /\ \E o \in Within(Shares(k.packs, HalosOf(f), x.dir)) :
                     /\ x.slot = Place(k.packs, f, x.dir) + Linear(o, Shares(k.packs, HalosOf(f), x.dir)) + 1
                     /\ x.at = PlaceAt(k.packs, HalosOf(f), x.dir, o)
  <1> DEFINE l == queue[1]
             k == l.kernel
             f == l.field
             gs == HalosOf(f)
             y == Access(k, Trimmed(k.packs, gs), t)
             d == y.dir
             size == Shares(k.packs, gs, d)
  <1>1. StreamOK /\ proc \in Procs
    BY Parts DEF HostOK
  <1>2. queue # <<>> /\ Head(queue) = l
    <2>1. queue # <<>>
      BY <1>1, HeadBlocks DEF StreamOK
    <2> QED  BY <1>1, <2>1, WaitingFacts
  <1>3. /\ k \in KernelTypes /\ k.packs \in BOOLEAN /\ f \in Own /\ gs \in HaloTypes
        /\ \A a \in Axes : IsHalo(gs[a])
        /\ block \in Blocks(k, Trimmed(k.packs, gs))
    <2>1. ~ Computes(Head(queue))
      BY <1>2 DEF Order
    <2> QED  BY <1>1, <1>2, <2>1, HeadFacts DEF StreamOK
  <1>4. t \in Threads(k, Trimmed(k.packs, gs), block)
    BY DEF ThreadsOf
  <1> HIDE DEF k, f, gs
  <1>5. d \in Sides /\ d \in Dirs /\ Side(d)
    BY <1>1, <1>3, <1>4, AccessFacts DEF Sides
  <1>6. PICK o \in Within(size) : y.slot = Linear(o, size) /\ y.at = [a \in Axes |-> Begins(k.packs, gs, d)[a] + o[a]]
    BY <1>1, <1>3, <1>4, AccessAt
  <1>7. Linear(o, size) \in Int /\ Place(k.packs, f, d) \in Int
    <2>1. size \in [Axes -> Nat]
      <3> HIDE DEF d
      <3> QED  BY <1>3, <1>5, SharesFacts
    <2>2. Linear(o, size) \in 0..size[1] * size[2] * size[3] - 1
      <3> HIDE DEF size
      <3> QED  BY <1>6, <2>1, BoxFacts
    <2>3. Place(k.packs, f, d) \in Nat
      <3> HIDE DEF d
      <3> QED  BY <1>1, <1>3, <1>5, PlaceType
    <2> HIDE DEF size, d
    <2> QED  BY <2>2, <2>3
  <1>8. /\ AccessOf(l, t).dir = d /\ AccessOf(l, t).at = y.at
        /\ AccessOf(l, t).slot = 1 + y.slot + (IF d \in Sides THEN Place(k.packs, f, d) ELSE 0)
    BY AccessOfFacts DEF k, f, gs
  <1> HIDE DEF y, d, size, l
  <1>9. /\ AccessOf(l, t).dir = d /\ AccessOf(l, t).at = PlaceAt(k.packs, gs, d, o)
        /\ AccessOf(l, t).slot = Place(k.packs, f, d) + Linear(o, size) + 1
    BY <1>5, <1>6, <1>7, <1>8 DEF PlaceAt
  <1> QED  BY <1>3, <1>5, <1>6, <1>9 DEF l, k, f, gs, size

\* The order of the kernels.
LEMMA OrderFacts ==
    /\ \A l : Order(l) \in {0, 1, 2} /\ (Order(l) = 1 <=> Computes(l))
    /\ \A n : Order(queue[n])' = Order(queue'[n])
    /\ Order(Computation) = 1
    /\ \A packs \in BOOLEAN : \A n \in DOMAIN Launches(KernelsFor(packs)) :
          Order(Launches(KernelsFor(packs))[n]) = IF packs THEN 2 ELSE 0
  <1>1. \A l : Order(l) \in {0, 1, 2} /\ (Order(l) = 1 <=> Computes(l))
    BY DEF Order
  <1>2. \A n : Order(queue[n])' = Order(queue'[n])
    BY DEF Order, Computes
  <1>3. Order(Computation) = 1
    BY DEF Order, Computes, Computation, Launch
  <1>4. ASSUME NEW packs \in BOOLEAN, NEW n \in DOMAIN Launches(KernelsFor(packs))
        PROVE  Order(Launches(KernelsFor(packs))[n]) = IF packs THEN 2 ELSE 0
    <2>1. KernelsFor(packs) \in Seq(KernelTypes)
      BY FaceKernels
    <2>2. PICK i \in DOMAIN KernelsFor(packs), f \in Own :
              Launches(KernelsFor(packs))[n] = Launch(KernelsFor(packs)[i], f)
      <3> DEFINE ks == KernelsFor(packs)
      <3>1. ks \in Seq(KernelTypes) /\ n \in DOMAIN Launches(ks)
        BY <2>1
      <3> HIDE DEF ks
      <3>2. \E i \in DOMAIN ks, f \in Own : Launches(ks)[n] = Launch(ks[i], f)
        BY <3>1, LaunchesSet
      <3> QED  BY <3>2 DEF ks
    <2> DEFINE k == KernelsFor(packs)[i]
    <2>3. k \in KernelTypes /\ k.packs = packs
      BY <2>1, FaceKernels
    <2> HIDE DEF k
    <2>4. Launch(k, f).kernel = k /\ ~ Computes(Launch(k, f))
      BY <2>3, FaceLaunch DEF Launch
    <2>5. Order(Launch(k, f)) = IF packs THEN 2 ELSE 0
      BY <2>3, <2>4 DEF Order
    <2> QED  BY <2>2, <2>5 DEF k
  <1> QED  BY <1>1, <1>2, <1>3, <1>4

-----------------------------------------------------------------------------
(* The order of the kernels in the stream, after every step.                 *)
OrderedAs(q, p, s) ==
    /\ \A m, n \in DOMAIN q : m < n => \/ Order(q[m]) < Order(q[n])
                                       \/ Order(q[m]) = Order(q[n]) /\ Order(q[n]) # 1
    /\ p \in {"packed", "exchanged"} => q = <<>>
    /\ p = "computing" => \A n \in DOMAIN q : Order(q[n]) = 0
    /\ p = "ready" => \A n \in DOMAIN q : Order(q[n]) # 2
    /\ p # "computing" => s > 0
    /\ (\E n \in DOMAIN q : Order(q[n]) = 0) => (IF p \in {"computing", "exchanged"} THEN s ELSE s - 1) > 0

LEMMA InOrderAs == /\ InOrder <=> OrderedAs(queue, pc, step)
                   /\ InOrder' <=> OrderedAs(queue', pc', step')
  <1>1. InOrder <=> OrderedAs(queue, pc, step)
    BY DEF InOrder, OrderedAs, Exchanged
  <1>2. InOrder' <=> OrderedAs(queue', pc', step')
    BY DEF InOrder, OrderedAs, Exchanged, Order, Computes
  <1> QED  BY <1>1, <1>2

\* What a launch adds is later than what was there.
LEMMA OrderedMore ==
    ASSUME NEW q \in Seq(LaunchTypes), NEW ls \in Seq(LaunchTypes), NEW o \in {0, 1, 2},
           \A n \in DOMAIN ls : Order(ls[n]) = o,
           o = 1 => Len(ls) = 1,
           \A n \in DOMAIN q : Order(q[n]) < o,
           \A m, n \in DOMAIN q : m < n => Order(q[m]) < Order(q[n]) \/ (Order(q[m]) = Order(q[n]) /\ Order(q[n]) # 1)
    PROVE  /\ \A m, n \in DOMAIN (q \o ls) :
                 m < n => \/ Order((q \o ls)[m]) < Order((q \o ls)[n])
                          \/ Order((q \o ls)[m]) = Order((q \o ls)[n]) /\ Order((q \o ls)[n]) # 1
           /\ \A n \in DOMAIN (q \o ls) : \/ n \in DOMAIN q /\ Order((q \o ls)[n]) = Order(q[n])
                                          \/ n \notin DOMAIN q /\ Order((q \o ls)[n]) = o
  <1> DEFINE r == q \o ls
             k == Len(q)
  <1>1. /\ k \in Nat /\ DOMAIN q = 1..k /\ Len(ls) \in Nat /\ DOMAIN ls = 1..Len(ls) /\ DOMAIN r = 1..(k + Len(ls))
        /\ \A n \in 1..k : r[n] = q[n]
        /\ \A n \in DOMAIN r : n \in 1..k \/ (n > k /\ n - k \in DOMAIN ls /\ r[n] = ls[n - k])
    OBVIOUS
  <1>2. \A n \in DOMAIN r : \/ n \in DOMAIN q /\ Order(r[n]) = Order(q[n])
                            \/ n \notin DOMAIN q /\ n > k /\ n - k \in DOMAIN ls /\ Order(r[n]) = o
    BY <1>1
  <1> HIDE DEF r
  <1>3. ASSUME NEW m \in DOMAIN r, NEW n \in DOMAIN r, m < n
        PROVE  Order(r[m]) < Order(r[n]) \/ (Order(r[m]) = Order(r[n]) /\ Order(r[n]) # 1)
    <2>1. CASE m \in DOMAIN q /\ n \in DOMAIN q
      BY <1>2, <1>3, <2>1
    <2>2. CASE m \in DOMAIN q /\ n \notin DOMAIN q
      BY <1>2, <2>2
    <2>3. CASE m \notin DOMAIN q
      <3>1. m > k /\ n > k /\ n \notin DOMAIN q /\ m - k \in DOMAIN ls /\ n - k \in DOMAIN ls
        BY <1>1, <1>2, <1>3, <2>3
      <3>2. Order(r[m]) = o /\ Order(r[n]) = o
        BY <1>2, <2>3, <3>1
      <3>3. o # 1
        BY <1>1, <1>3, <3>1
      <3> QED  BY <3>2, <3>3
    <2> QED  BY <2>1, <2>2, <2>3
  <1> QED  BY <1>2, <1>3 DEF r

LEMMA OrderKept ==
    ASSUME IndInv, InOrder, [Next]_vars
    PROVE  InOrder'
  <1>0. /\ HostOK /\ StreamOK /\ queue \in Seq(LaunchTypes) /\ OrderedAs(queue, pc, step)
        /\ step \in Nat
    BY Parts, InOrderAs, PackingAssumption DEF StreamOK, HostOK
  <1>1. SUFFICES OrderedAs(queue', pc', step')
    BY InOrderAs
  <1>2. ASSUME Compute PROVE OrderedAs(queue', pc', step')
    <2>1. /\ queue' = queue \o <<Computation>> /\ pc = "computing" /\ pc' = "ready" /\ step' = step + 1
      BY <1>2 DEF Compute, Enqueue
    <2>2. <<Computation>> \in Seq(LaunchTypes) /\ Order(Computation) = 1
      BY OrderFacts DEF LaunchTypes
    <2>3. \A n \in DOMAIN queue : Order(queue[n]) = 0
      BY <1>0, <2>1 DEF OrderedAs
    <2> DEFINE r == queue \o <<Computation>>
    <2>4. /\ \A m, n \in DOMAIN r : m < n => Order(r[m]) < Order(r[n]) \/ (Order(r[m]) = Order(r[n]) /\ Order(r[n]) # 1)
          /\ \A n \in DOMAIN r : \/ n \in DOMAIN queue /\ Order(r[n]) = Order(queue[n])
                                 \/ n \notin DOMAIN queue /\ Order(r[n]) = 1
      <3>1. \A n \in DOMAIN <<Computation>> : Order(<<Computation>>[n]) = 1
        BY <2>2
      <3> QED  BY <1>0, <2>2, <2>3, <3>1, OrderedMore
    <2>5. (\E n \in DOMAIN r : Order(r[n]) = 0) => step > 0
      BY <1>0, <2>1, <2>4 DEF OrderedAs
    <2> HIDE DEF r
    <2>6. OrderedAs(r, "ready", step + 1)
      BY <1>0, <2>3, <2>4, <2>5 DEF OrderedAs
    <2> QED  BY <2>1, <2>6 DEF r
  <1>3. ASSUME Pack PROVE OrderedAs(queue', pc', step')
    <2> DEFINE ls == Launches(KernelsFor(TRUE))
               r == queue \o ls
    <2>1. /\ queue' = r /\ pc = "ready" /\ pc' = "packing" /\ step' = step
      BY <1>3 DEF Pack, Enqueue, KernelsFor
    <2>2. ls \in Seq(LaunchTypes) /\ \A n \in DOMAIN ls : Order(ls[n]) = 2
      BY OrderFacts, LaunchesTyped, FaceKernels
    <2>3. \A n \in DOMAIN queue : Order(queue[n]) < 2
      BY <1>0, <2>1, OrderFacts DEF OrderedAs
    <2> HIDE DEF ls
    <2>4. /\ \A m, n \in DOMAIN r : m < n => Order(r[m]) < Order(r[n]) \/ (Order(r[m]) = Order(r[n]) /\ Order(r[n]) # 1)
          /\ \A n \in DOMAIN r : \/ n \in DOMAIN queue /\ Order(r[n]) = Order(queue[n])
                                 \/ n \notin DOMAIN queue /\ Order(r[n]) = 2
      <3>1. \A m, n \in DOMAIN queue : m < n => \/ Order(queue[m]) < Order(queue[n])
                                                \/ Order(queue[m]) = Order(queue[n]) /\ Order(queue[n]) # 1
        BY <1>0 DEF OrderedAs
      <3> QED  BY <1>0, <2>2, <2>3, <3>1, OrderedMore
    <2>5. (\E n \in DOMAIN r : Order(r[n]) = 0) => step - 1 > 0
      BY <1>0, <2>1, <2>4 DEF OrderedAs
    <2> HIDE DEF r
    <2>6. OrderedAs(r, "packing", step)
      BY <1>0, <2>1, <2>4, <2>5 DEF OrderedAs
    <2> QED  BY <2>1, <2>6
  <1>4. ASSUME Unpack PROVE OrderedAs(queue', pc', step')
    <2> DEFINE ls == Launches(KernelsFor(FALSE))
    <2>1. /\ queue' = queue \o ls /\ pc = "exchanged" /\ pc' = "computing" /\ step' = step
      BY <1>4 DEF Unpack, Enqueue, KernelsFor
    <2>2. ls \in Seq(LaunchTypes) /\ \A n \in DOMAIN ls : Order(ls[n]) = 0
      BY OrderFacts, LaunchesTyped, FaceKernels
    <2>3. queue = <<>> /\ step > 0
      BY <1>0, <2>1 DEF OrderedAs
    <2> HIDE DEF ls
    <2>4. queue' = ls
      BY <2>1, <2>2, <2>3
    <2>5. OrderedAs(ls, "computing", step)
      BY <1>0, <2>2, <2>3 DEF OrderedAs
    <2> QED  BY <2>1, <2>4, <2>5
  <1>5. ASSUME Synchronize PROVE OrderedAs(queue', pc', step')
    BY <1>0, <1>5 DEF Synchronize, Idle, OrderedAs
  <1>6. ASSUME Exchange PROVE OrderedAs(queue', pc', step')
    BY <1>0, <1>6 DEF Exchange, OrderedAs
  <1>7. ASSUME NEW block \in left, ThreadsDone(block) PROVE OrderedAs(queue', pc', step')
    <2>1. /\ queue # <<>> /\ pc' = pc /\ step' = step /\ queue' \in {queue, Tail(queue)}
      BY <1>0, <1>7, HeadBlocks DEF ThreadsDone, StreamOK
    <2> DEFINE r == Tail(queue)
    <2>2. \A n \in DOMAIN r : n \in Nat /\ n + 1 \in DOMAIN queue /\ r[n] = queue[n + 1]
      BY <1>0, <2>1
    <2>3. pc \notin {"packed", "exchanged"}
      BY <1>0, <2>1 DEF OrderedAs
    <2> HIDE DEF r
    <2>4. OrderedAs(r, pc, step)
      <3>1. \A m, n \in DOMAIN r : m < n => Order(r[m]) < Order(r[n]) \/ (Order(r[m]) = Order(r[n]) /\ Order(r[n]) # 1)
        <4>1. ASSUME NEW m \in DOMAIN r, NEW n \in DOMAIN r, m < n
              PROVE  Order(r[m]) < Order(r[n]) \/ (Order(r[m]) = Order(r[n]) /\ Order(r[n]) # 1)
          <5>1. m + 1 \in DOMAIN queue /\ n + 1 \in DOMAIN queue /\ m + 1 < n + 1 /\ r[m] = queue[m + 1] /\ r[n] = queue[n + 1]
            BY <2>2, <4>1
          <5> QED  BY <1>0, <5>1 DEF OrderedAs
        <4> QED  BY <4>1
      <3>2. (\E n \in DOMAIN r : Order(r[n]) = 0) => \E n \in DOMAIN queue : Order(queue[n]) = 0
        BY <2>2
      <3>3. /\ pc = "computing" => \A n \in DOMAIN r : Order(r[n]) = 0
            /\ pc = "ready" => \A n \in DOMAIN r : Order(r[n]) # 2
        BY <1>0, <2>2 DEF OrderedAs
      <3> QED  BY <1>0, <2>3, <3>1, <3>2, <3>3 DEF OrderedAs
    <2> QED  BY <1>0, <2>1, <2>4 DEF r
  <1>8. ASSUME UNCHANGED vars PROVE OrderedAs(queue', pc', step')
    BY <1>0, <1>8 DEF vars
  <1> QED  BY <1>2, <1>3, <1>4, <1>5, <1>6, <1>7, <1>8 DEF Next, Host, RunBlock, Terminate

-----------------------------------------------------------------------------
(* How far the elements inside, the halos and the messages are.              *)
LEMMA CountersAs ==
    /\ Computed' = IF \E n \in DOMAIN queue' : Order(queue'[n]) = 1 THEN step' - 1 ELSE step'
    /\ Computed = IF \E n \in DOMAIN queue : Order(queue[n]) = 1 THEN step - 1 ELSE step
    /\ Unpacked' = IF pc' = "computing" THEN step' ELSE step' - 1
    /\ Exchanged' = IF pc' \in {"computing", "exchanged"} THEN step' ELSE step' - 1
  <1>1. Computed' = IF \E n \in DOMAIN queue' : Order(queue'[n]) = 1 THEN step' - 1 ELSE step'
    BY DEF Computed, Order, Computes
  <1>2. Computed = IF \E n \in DOMAIN queue : Order(queue[n]) = 1 THEN step - 1 ELSE step
    BY OrderFacts DEF Computed
  <1> QED  BY <1>1, <1>2 DEF Unpacked, Exchanged

LEMMA Counters == IndInv => Computed \in Int /\ Unpacked \in Int /\ Exchanged \in Int /\ step \in Nat
  BY PackingAssumption DEF IndInv, TypeOK, Computed, Unpacked, Exchanged

\* What the kernels in a longer stream are.
LEMMA Appended ==
    ASSUME NEW q \in Seq(LaunchTypes), NEW ls \in Seq(LaunchTypes), NEW o,
           \A n \in DOMAIN ls : Order(ls[n]) # o
    PROVE  (\E n \in DOMAIN (q \o ls) : Order((q \o ls)[n]) = o) <=> \E n \in DOMAIN q : Order(q[n]) = o
  <1> DEFINE r == q \o ls
             k == Len(q)
  <1>1. /\ k \in Nat /\ DOMAIN q = 1..k
        /\ \A n \in 1..k : n \in DOMAIN r /\ r[n] = q[n]
        /\ \A n \in DOMAIN r : n \in 1..k \/ (n - k \in DOMAIN ls /\ r[n] = ls[n - k])
    OBVIOUS
  <1> HIDE DEF r
  <1> QED  BY <1>1 DEF r

LEMMA HostCounters ==
    ASSUME IndInv, InOrder, Host
    PROVE  /\ Computed' = Computed
           /\ Unpacked' = IF Unpack THEN Exchanged ELSE Unpacked
           /\ Exchanged' = IF Exchange THEN step ELSE Exchanged
  <1>0. /\ queue \in Seq(LaunchTypes) /\ OrderedAs(queue, pc, step) /\ step \in Nat
    BY Parts, InOrderAs, PackingAssumption DEF StreamOK, HostOK
  <1>1. CASE Compute
    <2>1. /\ queue' = queue \o <<Computation>> /\ pc = "computing" /\ pc' = "ready" /\ step' = step + 1
          /\ ~ Exchange /\ ~ Unpack
      BY <1>1 DEF Compute, Enqueue, Exchange, Unpack
    <2>2. \A n \in DOMAIN queue : Order(queue[n]) # 1
      BY <1>0, <2>1 DEF OrderedAs
    <2>3. \E n \in DOMAIN queue' : Order(queue'[n]) = 1
      <3> DEFINE n == Len(queue) + 1
      <3>1. n \in DOMAIN queue' /\ queue'[n] = Computation
        BY <1>0, <2>1
      <3> QED  BY <3>1, OrderFacts
    <2> QED  BY <1>0, <2>1, <2>2, <2>3, CountersAs DEF Unpacked, Exchanged
  <1>2. CASE Pack
    <2> DEFINE ls == Launches(KernelsFor(TRUE))
    <2>1. /\ queue' = queue \o ls /\ pc = "ready" /\ pc' = "packing" /\ step' = step
          /\ ~ Exchange /\ ~ Unpack
      BY <1>2 DEF Pack, Enqueue, KernelsFor, Exchange, Unpack
    <2>2. ls \in Seq(LaunchTypes) /\ \A n \in DOMAIN ls : Order(ls[n]) # 1
      <3>1. ls \in Seq(LaunchTypes)
        BY LaunchesTyped, FaceKernels
      <3>2. \A n \in DOMAIN ls : Order(ls[n]) = 2
        BY OrderFacts
      <3> HIDE DEF ls
      <3> QED  BY <3>1, <3>2
    <2> HIDE DEF ls
    <2> DEFINE r == queue \o ls
    <2>3. (\E n \in DOMAIN r : Order(r[n]) = 1) <=> \E n \in DOMAIN queue : Order(queue[n]) = 1
      BY <1>0, <2>2, Appended
    <2>4. queue' = r
      BY <2>1
    <2> HIDE DEF r
    <2> QED  BY <1>0, <2>1, <2>3, <2>4, CountersAs DEF Unpacked, Exchanged
  <1>3. CASE Unpack
    <2> DEFINE ls == Launches(KernelsFor(FALSE))
    <2>1. /\ queue' = queue \o ls /\ pc = "exchanged" /\ pc' = "computing" /\ step' = step
          /\ ~ Exchange /\ Unpack
      BY <1>3 DEF Unpack, Enqueue, KernelsFor, Exchange
    <2>2. ls \in Seq(LaunchTypes) /\ \A n \in DOMAIN ls : Order(ls[n]) # 1
      <3>1. ls \in Seq(LaunchTypes)
        BY LaunchesTyped, FaceKernels
      <3>2. \A n \in DOMAIN ls : Order(ls[n]) = 0
        BY OrderFacts
      <3> HIDE DEF ls
      <3> QED  BY <3>1, <3>2
    <2> HIDE DEF ls
    <2> DEFINE r == queue \o ls
    <2>3. (\E n \in DOMAIN r : Order(r[n]) = 1) <=> \E n \in DOMAIN queue : Order(queue[n]) = 1
      BY <1>0, <2>2, Appended
    <2>4. queue' = r
      BY <2>1
    <2> HIDE DEF r
    <2> QED  BY <1>0, <2>1, <2>3, <2>4, CountersAs DEF Unpacked, Exchanged
  <1>4. CASE Synchronize
    <2>1. queue' = queue /\ pc = "packing" /\ pc' = "packed" /\ step' = step /\ ~ Exchange /\ ~ Unpack
      BY <1>4 DEF Synchronize, Exchange, Unpack
    <2> QED  BY <1>0, <2>1, CountersAs DEF Unpacked, Exchanged
  <1>5. CASE Exchange
    <2>1. queue' = queue /\ pc = "packed" /\ pc' = "exchanged" /\ step' = step /\ Exchange /\ ~ Unpack
      BY <1>5 DEF Exchange, Unpack
    <2> QED  BY <1>0, <2>1, CountersAs DEF Unpacked, Exchanged
  <1> QED  BY <1>1, <1>2, <1>3, <1>4, <1>5 DEF Host

\* The elements inside are computed once the program's kernel has run.
LEMMA DoneCounters ==
    ASSUME IndInv, InOrder, NEW block \in left, ThreadsDone(block)
    PROVE  /\ Unpacked' = Unpacked /\ Exchanged' = Exchanged /\ step' = step /\ pc' = pc
           /\ ~ Computes(queue[1]) => Computed' = Computed
           /\ Computes(queue[1]) => Computed' = step /\ Computed = step - 1
  <1>0. /\ StreamOK /\ queue \in Seq(LaunchTypes) /\ OrderedAs(queue, pc, step) /\ step \in Nat
        /\ queue # <<>> /\ queue[1] = Head(queue) /\ 1 \in DOMAIN queue /\ block \in BlocksOf(<<queue[1]>>)
        /\ left \subseteq BlocksOf(<<queue[1]>>)
    <2>1. StreamOK /\ queue \in Seq(LaunchTypes) /\ OrderedAs(queue, pc, step) /\ step \in Nat
      BY Parts, InOrderAs, PackingAssumption DEF StreamOK, HostOK
    <2>2. queue # <<>>
      BY <2>1, HeadBlocks DEF StreamOK
    <2> QED  BY <2>1, <2>2, WaitingFacts DEF StreamOK
  <1>1. Unpacked' = Unpacked /\ Exchanged' = Exchanged /\ step' = step /\ pc' = pc
    BY DEF ThreadsDone, Unpacked, Exchanged
  <1> DEFINE r == Tail(queue)
  <1>2. /\ \A n \in DOMAIN r : n + 1 \in DOMAIN queue /\ r[n] = queue[n + 1] /\ 1 < n + 1
        /\ \A n \in DOMAIN queue : n = 1 \/ (n - 1 \in DOMAIN r /\ r[n - 1] = queue[n])
    BY <1>0
  <1>3. queue' = IF left = {block} THEN r ELSE queue
    BY DEF ThreadsDone
  <1> HIDE DEF r
  <1>4. ASSUME ~ Computes(queue[1]) PROVE Computed' = Computed
    <2>1. Order(queue[1]) # 1
      BY <1>4, OrderFacts
    <2>2. (\E n \in DOMAIN r : Order(r[n]) = 1) <=> \E n \in DOMAIN queue : Order(queue[n]) = 1
      BY <1>2, <2>1
    <2>3. (\E n \in DOMAIN queue' : Order(queue'[n]) = 1) <=> \E n \in DOMAIN queue : Order(queue[n]) = 1
      BY <1>3, <2>2
    <2> QED  BY <1>1, <2>3, CountersAs
  <1>5. ASSUME Computes(queue[1]) PROVE Computed' = step /\ Computed = step - 1
    <2>1. Order(queue[1]) = 1
      BY <1>5, OrderFacts
    <2>2. left = {block}
      <3>1. <<queue[1]>> # <<>> /\ Head(<<queue[1]>>) = queue[1]
        OBVIOUS
      <3>2. BlocksOf(<<queue[1]>>) = { <<0, 0, 0>> }
        BY <1>5, <3>1 DEF BlocksOf
      <3> QED  BY <1>0, <3>2
    <2>3. \A n \in DOMAIN r : Order(r[n]) # 1
      <3>1. ASSUME NEW n \in DOMAIN r PROVE Order(r[n]) # 1
        <4>1. n + 1 \in DOMAIN queue /\ r[n] = queue[n + 1] /\ 1 < n + 1
          BY <1>2
        <4>2. Order(queue[1]) < Order(queue[n + 1]) \/ (Order(queue[1]) = Order(queue[n + 1]) /\ Order(queue[n + 1]) # 1)
          BY <1>0, <4>1 DEF OrderedAs
        <4> QED  BY <2>1, <4>1, <4>2
      <3> QED  BY <3>1
    <2> QED  BY <1>0, <1>1, <1>3, <2>1, <2>2, <2>3, CountersAs
  <1> QED  BY <1>1, <1>4, <1>5

-----------------------------------------------------------------------------
(* The elements inside.                                                      *)
LEMMA InsideAs ==
    ASSUME proc' = proc, generic' = generic
    PROVE  InsideOK' <=> \A f \in Own : \A x \in Inner(HalosOf(f)) : fields'[f][x] = Element(Here, x, Computed')
  <1>1. \A f : HalosOf(f)' = HalosOf(f)
    BY SamePlaces
  <1>2. \A f : Inner(HalosOf(f))' = Inner(HalosOf(f))
    BY DEF Inner, Box, HalosOf
  <1> QED  BY <1>1, <1>2 DEF InsideOK, Element

\* What the i-th element of a field is after n steps and exchanges.
LEMMA ExpectedFacts ==
    ASSUME proc \in Procs, NEW f \in Own, NEW n, NEW x \in Box(HalosOf(f))
    PROVE  LET gs == HalosOf(f)
           IN  /\ x \in Inner(gs) => Expected(f, n)[x] = Element(Here, x, n)
               /\ x \notin Inner(gs) /\ (n = 0 \/ \A d \in Sides : ~ Faces(gs, d, x))
                  => Expected(f, n)[x] = Element(Here, x, 0)
               /\ x \notin Inner(gs) /\ n # 0 => \A d \in Sides :
                     Faces(gs, d, x) => Expected(f, n)[x] = Element(d, Across(gs, d, x), n)
  <1> DEFINE gs == HalosOf(f)
             Facing == { d \in Sides : Faces(gs, d, x) }
             e == CHOOSE d \in Facing : TRUE
  <1>1. Expected(f, n)[x] = IF x \in Inner(gs) THEN Element(Here, x, n)
                            ELSE IF n = 0 \/ Facing = {} THEN Element(Here, x, 0)
                            ELSE Element(e, Across(gs, e, x), n)
    BY DEF Expected, Faces, Across
  <1>2. \A d \in Facing : d = e
    <2>1. gs \in HaloTypes /\ \A a \in Axes : IsHalo(gs[a])
      BY OwnFacts
    <2>2. ASSUME NEW d \in Facing PROVE d = e
      <3>1. e \in Facing
        BY <2>2
      <3>2. d \in Dirs /\ e \in Dirs /\ Faces(gs, d, x) /\ Faces(gs, e, x)
        BY <3>1 DEF Sides
      <3> HIDE DEF e, gs
      <3> QED  BY <2>1, <3>2, HaloFacts DEF gs
    <2> QED  BY <2>2
  <1> HIDE DEF e
  <1> QED  BY <1>1, <1>2

LEMMA ExpectedSame ==
    ASSUME proc' = proc, generic' = generic, NEW f, NEW n, Unpacked' = n
    PROVE  Expected(f, Unpacked)' = Expected(f, n)
  <1>1. HalosOf(f)' = HalosOf(f) /\ Sides' = Sides
    BY SamePlaces, SameSides
  <1>2. Inner(HalosOf(f))' = Inner(HalosOf(f)) /\ Box(HalosOf(f))' = Box(HalosOf(f))
    BY DEF Inner, Box, HalosOf
  <1> QED  BY <1>1, <1>2 DEF Expected, Element

\* The program's kernel computes for the next step: it looks at one element.
LEMMA StepOfFacts ==
    ASSUME IndInv, InsideOK, NEW f \in Own
    PROVE  StepOf(f) = Computed
  <1> DEFINE gs == HalosOf(f)
             x == [a \in Axes |-> gs[a].begin]
  <1>1. gs \in HaloTypes /\ \A a \in Axes : IsHalo(gs[a])
    BY OwnFacts
  <1> HIDE DEF gs
  <1>2. \A a \in Axes : x[a] \in Inside(gs[a], 0) /\ x[a] \in 0 .. gs[a].total - 1
    BY <1>1 DEF HaloTypes, IsHalo, Inside
  <1>3. x = <<x[1], x[2], x[3]>>
    BY DEF Axes
  <1>4. x \in Inner(gs)
    <2> HIDE DEF x
    <2>1. <<x[1], x[2], x[3]>> \in Box(gs)
      BY <1>2 DEF Box, Axes
    <2> QED  BY <1>2, <1>3, <2>1 DEF Inner
  <1>5. fields[f][x] = Element(Here, x, Computed)
    BY <1>4 DEF InsideOK, gs
  <1> QED  BY <1>5 DEF StepOf, Element, gs

\* A thread that unpacks writes outside, and writes what is expected there.
LEMMA UnpackedAt ==
    ASSUME IndInv, InOrder, ReceivedOK, NEW block \in left, Order(queue[1]) = 0,
           NEW t \in ThreadsOf(queue[1], block)
    PROVE  LET f == queue[1].field
               y == AccessOf(queue[1], t)
           IN  /\ f \in Own /\ y.at \in Box(HalosOf(f)) \ Inner(HalosOf(f))
               /\ recvbuf[y.dir][y.slot] = Expected(f, Unpacked)[y.at]
  <1> DEFINE l == queue[1]
             f == l.field
             gs == HalosOf(f)
             y == AccessOf(l, t)
             d == y.dir
             size == Shares(FALSE, gs, d)
             p == Place(FALSE, f, d)
  <1>0. StreamOK /\ queue \in Seq(LaunchTypes) /\ queue # <<>> /\ 1 \in DOMAIN queue /\ proc \in Procs
    <2>1. StreamOK /\ queue \in Seq(LaunchTypes) /\ proc \in Procs
      BY Parts DEF StreamOK, HostOK
    <2>2. queue # <<>>
      BY <2>1, HeadBlocks DEF StreamOK
    <2> QED  BY <2>1, <2>2, WaitingFacts
  <1>1. l.kernel.packs = FALSE
    <2>1. ~ Computes(Head(queue)) /\ Head(queue) = l
      BY <1>0, WaitingFacts DEF Order
    <2>2. l.kernel.packs \in BOOLEAN
      BY <1>0, <2>1, HeadFacts
    <2>3. ~ l.kernel.packs
      BY <2>1 DEF Order
    <2> QED  BY <2>2, <2>3
  <1>2. /\ f \in Own /\ d \in Dirs /\ d \in Sides
        /\ \E o \in Within(size) : y.slot = p + Linear(o, size) + 1 /\ y.at = PlaceAt(FALSE, gs, d, o)
    <2> DEFINE k == l.kernel
    <2>1. /\ f \in Own /\ d \in Dirs /\ d \in Sides
          /\ \E o \in Within(Shares(k.packs, gs, d)) :
                /\ y.slot = Place(k.packs, f, d) + Linear(o, Shares(k.packs, gs, d)) + 1
                /\ y.at = PlaceAt(k.packs, gs, d, o)
      BY BlockAccess
    <2> DEFINE b == k.packs
    <2>2. b = FALSE
      BY <1>1
    <2> HIDE DEF f, d, gs, y, b
    <2> QED  BY <2>1, <2>2 DEF b
  <1>3. gs \in HaloTypes /\ \A a \in Axes : IsHalo(gs[a])
    BY <1>2, OwnFacts
  <1> HIDE DEF l, f, gs, y, d, size, p
  <1>4. PICK o \in Within(size) : y.slot = p + Linear(o, size) + 1 /\ y.at = PlaceAt(FALSE, gs, d, o)
    BY <1>2
  <1>5. /\ y.at \in Box(gs) \ Inner(gs) /\ Faces(gs, d, y.at)
        /\ Across(gs, d, y.at) = PlaceAt(TRUE, gs, Neg(d), o)
    <2> DEFINE x == PlaceAt(FALSE, gs, d, o)
    <2>1. x \in Box(gs) \ Inner(gs) /\ Faces(gs, d, x) /\ Across(gs, d, x) = PlaceAt(TRUE, gs, Neg(d), o)
      <3>1. \A u \in Within(Shares(FALSE, gs, d)) :
                 /\ PlaceAt(FALSE, gs, d, u) \in Box(gs) \ Inner(gs)
                 /\ Faces(gs, d, PlaceAt(FALSE, gs, d, u))
                 /\ Across(gs, d, PlaceAt(FALSE, gs, d, u)) = PlaceAt(TRUE, gs, Neg(d), u)
        BY <1>2, <1>3, HaloFacts
      <3>2. o \in Within(Shares(FALSE, gs, d))
        BY DEF size
      <3> QED  BY <3>1, <3>2
    <2>2. y.at = x
      BY <1>4
    <2> HIDE DEF x
    <2> QED  BY <2>1, <2>2
  <1>6. Exchanged > 0 /\ Exchanged = Unpacked
    <2>1. Exchanged > 0 /\ pc \notin {"packed", "exchanged"}
      BY <1>0 DEF InOrder
    <2> QED  BY <2>1 DEF Exchanged, Unpacked
  <1>7. /\ Linear(o, size) + 1 \in DOMAIN Border(gs, Neg(d))
        /\ Border(gs, Neg(d))[Linear(o, size) + 1] = PlaceAt(TRUE, gs, Neg(d), o)
    <2>1. Neg(d) \in Dirs
      BY <1>2 DEF Neg, Dirs, Offsets, Here, Axes
    <2>2. size = Shares(TRUE, gs, Neg(d))
      BY <1>2, <1>3, SharesFacts DEF size
    <2> QED  BY <1>3, <1>4, <2>1, <2>2, BorderFacts DEF PlaceAt
  <1>8. recvbuf[d][y.slot] = Element(d, Across(gs, d, y.at), Exchanged)
    <2> DEFINE i == Linear(o, size) + 1
    <2>1. i \in DOMAIN Border(gs, Neg(d)) /\ Border(gs, Neg(d))[i] = Across(gs, d, y.at)
      BY <1>5, <1>7
    <2>2. y.slot = p + i
      <3>1. Linear(o, size) \in Int /\ p \in Int
        <4>1. size \in [Axes -> Nat]
          BY <1>2, <1>3, SharesFacts DEF size
        <4>2. Linear(o, size) \in Int
          BY <4>1, BoxFacts
        <4>3. p \in Nat
          BY <1>0, <1>2, PlaceType DEF Sides, p
        <4> QED  BY <4>2, <4>3
      <3> QED  BY <1>4, <3>1
    <2> HIDE DEF i
    <2>3. recvbuf[d][p + i] = Element(d, Border(gs, Neg(d))[i], Exchanged)
      BY <1>2, <1>6, <2>1 DEF ReceivedOK, gs, p
    <2> QED  BY <2>1, <2>2, <2>3
  <1>9. Expected(f, Unpacked)[y.at] = Element(d, Across(gs, d, y.at), Unpacked)
    <2>1. Unpacked # 0
      BY <1>6
    <2> QED  BY <1>0, <1>2, <1>5, <2>1, ExpectedFacts DEF gs
  <1> QED  BY <1>2, <1>5, <1>6, <1>8, <1>9 DEF l, f, gs, y, d

\* What a block leaves in the fields.
LEMMA FieldsAfter ==
    ASSUME IndInv, InOrder, InsideOK, ReceivedOK, NEW block \in left, RunBlock(block),
           NEW f \in Own, NEW x \in Box(HalosOf(f))
    PROVE  /\ Order(queue[1]) = 2 => fields' = fields
           /\ Order(queue[1]) = 1 => fields'[f][x] = IF x \in Inner(HalosOf(f)) THEN Element(Here, x, Computed + 1)
                                                     ELSE fields[f][x]
           /\ Order(queue[1]) = 0 =>
                 \/ /\ fields'[f][x] = fields[f][x]
                    /\ f = queue[1].field => ~ \E t \in ThreadsOf(queue[1], block) : AccessOf(queue[1], t).at = x
                 \/ x \notin Inner(HalosOf(f)) /\ fields'[f][x] = Expected(f, Unpacked)[x]
  <1> DEFINE l == queue[1]
  <1>0. /\ MemoryOK /\ Head(queue) = l
    <2>1. StreamOK /\ MemoryOK
      BY Parts
    <2>2. queue # <<>>
      BY <2>1, HeadBlocks DEF StreamOK
    <2> QED  BY <2>1, <2>2, WaitingFacts
  <1>1. f \in DOMAIN fields /\ x \in DOMAIN fields[f] /\ DOMAIN fields = Own
    BY <1>0 DEF MemoryOK
  <1>2. CASE RunPacking(block)
    <2>1. Order(l) = 2 /\ fields' = fields
      BY <1>0, <1>2 DEF RunPacking, Order
    <2> QED  BY <2>1
  <1>3. CASE RunComputation
    <2>1. Order(l) = 1
      BY <1>0, <1>3 DEF RunComputation, Order
    <2>2. fields'[f][x] = IF x \in Inner(HalosOf(f)) THEN Element(Here, x, StepOf(f) + 1) ELSE fields[f][x]
      BY <1>1, <1>3 DEF RunComputation
    <2> QED  BY <2>1, <2>2, StepOfFacts
  <1>4. CASE RunUnpacking(block)
    <2> DEFINE A == Accesses(l, block)
               here == \E y \in A : y.at = x
               z == CHOOSE y \in A : y.at = x
    <2>1. Order(l) = 0
      BY <1>0, <1>4 DEF RunUnpacking, Order
    <2>2. CASE f # l.field
      <3>1. fields'[f] = fields[f]
        BY <1>0, <1>1, <1>4, <2>2 DEF RunUnpacking
      <3> QED  BY <2>1, <2>2, <3>1
    <2>3. CASE f = l.field
      <3>1. fields'[f][x] = IF here THEN recvbuf[z.dir][z.slot] ELSE fields[f][x]
        BY <1>0, <1>1, <1>4, <2>3 DEF RunUnpacking
      <3>2. CASE ~ here
        <4>1. ~ \E t \in ThreadsOf(l, block) : AccessOf(l, t).at = x
          BY <3>2 DEF Accesses
        <4> HIDE DEF here, z, A
        <4> QED  BY <2>1, <3>1, <3>2, <4>1
      <3>3. CASE here
        <4>1. z \in A /\ z.at = x
          BY <3>3
        <4>2. PICK t \in ThreadsOf(l, block) : z = AccessOf(l, t)
          BY <4>1 DEF Accesses
        <4> HIDE DEF z
        <4>3. x \notin Inner(HalosOf(f)) /\ recvbuf[z.dir][z.slot] = Expected(f, Unpacked)[x]
          BY <2>1, <2>3, <4>1, <4>2, UnpackedAt
        <4> QED  BY <2>1, <3>1, <3>3, <4>3
      <3> QED  BY <3>2, <3>3
    <2> QED  BY <2>2, <2>3
  <1> QED  BY <1>2, <1>3, <1>4 DEF RunBlock

LEMMA InsideKept ==
    ASSUME IndInv, InOrder, InsideOK, ReceivedOK, [Next]_vars
    PROVE  InsideOK'
  <1>1. CASE Host
    <2>1. proc' = proc /\ generic' = generic /\ fields' = fields /\ Computed' = Computed
      BY <1>1, HostCounters DEF Host, Compute, Pack, Synchronize, Exchange, Unpack
    <2> QED  BY <2>1, InsideAs DEF InsideOK
  <1>2. ASSUME NEW block \in left, RunBlock(block) PROVE InsideOK'
    <2>1. ThreadsDone(block) /\ proc' = proc /\ generic' = generic
      BY <1>2 DEF RunBlock, ThreadsDone
    <2>2. ASSUME NEW f \in Own, NEW x \in Inner(HalosOf(f)) PROVE fields'[f][x] = Element(Here, x, Computed')
      <3>1. x \in Box(HalosOf(f)) /\ fields[f][x] = Element(Here, x, Computed)
        BY DEF Inner, InsideOK
      <3>2. CASE Order(queue[1]) = 1
        <4>1. Computed' = step /\ Computed = step - 1 /\ Computed \in Int /\ step \in Int
          BY <2>1, <3>2, DoneCounters, OrderFacts, Counters
        <4>2. Computed' = Computed + 1
          BY <4>1
        <4> QED  BY <1>2, <3>1, <3>2, <4>2, FieldsAfter
      <3>3. CASE Order(queue[1]) # 1
        <4>1. Computed' = Computed
          BY <2>1, <3>3, DoneCounters, OrderFacts
        <4>2. Order(queue[1]) \in {0, 2}
          BY <3>3, OrderFacts
        <4>3. fields'[f][x] = fields[f][x]
          BY <1>2, <3>1, <4>2, FieldsAfter
        <4> QED  BY <3>1, <4>1, <4>3
      <3> QED  BY <3>2, <3>3
    <2> QED  BY <2>1, <2>2, InsideAs
  <1>3. CASE UNCHANGED vars
    <2>1. proc' = proc /\ generic' = generic /\ fields' = fields /\ Computed' = Computed
      <3>1. queue' = queue /\ step' = step
        BY <1>3 DEF vars
      <3> QED  BY <1>3, <3>1, CountersAs DEF vars
    <2> QED  BY <2>1, InsideAs DEF InsideOK
  <1> QED  BY <1>1, <1>2, <1>3 DEF Next, Terminate

-----------------------------------------------------------------------------
(* The halos.                                                                *)
LEMMA OutsideAs ==
    ASSUME proc' = proc, generic' = generic, NEW n, Unpacked' = n
    PROVE  OutsideOK' <=> \A f \in Own : \A x \in Box(HalosOf(f)) \ Inner(HalosOf(f)) :
                             fields'[f][x] = Expected(f, n)[x] \/ Unwritten(f, x)'
  <1>1. \A f : Inner(HalosOf(f))' = Inner(HalosOf(f)) /\ Box(HalosOf(f))' = Box(HalosOf(f))
    BY DEF Inner, Box, HalosOf
  <1>2. \A f : Expected(f, Unpacked)' = Expected(f, n)
    BY ExpectedSame
  <1> QED  BY <1>1, <1>2 DEF OutsideOK

\* What stands in the stream stays there as long as nothing runs.
LEMMA PendingSame ==
    ASSUME StreamOK, proc' = proc, generic' = generic, queue' = queue, left' = left
    PROVE  /\ \A f, x : Unwritten(f, x) => Unwritten(f, x)'
           /\ \A d, slot : Unsent(d, slot) => Unsent(d, slot)'
  <1>1. <<>> \in Seq(LaunchTypes) /\ queue \o <<>> = queue
    BY DEF StreamOK
  <1>2. queue = <<>> => left = BlocksOf(<<>>)
    BY HeadBlocks, <1>1 DEF StreamOK
  <1>3. Enqueue(<<>>)
    BY <1>1, <1>2 DEF Enqueue
  <1> QED  BY <1>1, <1>3, PendingEnqueued

\* All that a launch of the kernels of all faces leaves to be written.
LEMMA PendingLaunched ==
    ASSUME IndInv, ExampleCovers, proc' = proc, generic' = generic, NEW packs \in BOOLEAN,
           Enqueue(Launches(KernelsFor(packs))),
           NEW d \in Sides, NEW f \in Own, NEW o \in Within(Shares(packs, HalosOf(f), d)),
           NEW at, at = PlaceAt(packs, HalosOf(f), d, o),
           NEW slot, slot = Place(packs, f, d) + Linear(o, Shares(packs, HalosOf(f), d)) + 1
    PROVE  /\ packs => Unsent(d, slot)'
           /\ ~ packs => Unwritten(f, at)'
  <1> DEFINE ls == Launches(KernelsFor(packs))
  <1>1. StreamOK /\ proc \in Procs /\ d \in Dirs /\ Side(d)
    BY Parts DEF HostOK, Sides
  <1>2. ls \in Seq(LaunchTypes)
    BY LaunchesTyped, FaceKernels
  <1>3. \E n \in DOMAIN ls :
          /\ ls[n].field = f /\ Order(ls[n]) = (IF packs THEN 2 ELSE 0)
          /\ \E b \in BlocksOf(<<ls[n]>>) : \E t \in ThreadsOf(ls[n], b) :
                /\ AccessOf(ls[n], t).dir = d
                /\ AccessOf(ls[n], t).slot = slot
                /\ AccessOf(ls[n], t).at = at
    BY <1>1, AllLaunched
  <1> HIDE DEF ls
  <1>4. PICK n \in DOMAIN ls : 
          /\ ls[n].field = f /\ Order(ls[n]) = (IF packs THEN 2 ELSE 0)
          /\ \E b \in BlocksOf(<<ls[n]>>) : \E t \in ThreadsOf(ls[n], b) :
                /\ AccessOf(ls[n], t).dir = d
                /\ AccessOf(ls[n], t).slot = slot
                /\ AccessOf(ls[n], t).at = at
    BY <1>3
  <1>5. PICK l : l = ls[n]
    OBVIOUS
  <1>6. PICK t \in AllThreads(l) : AccessOf(l, t).dir = d /\ AccessOf(l, t).slot = slot /\ AccessOf(l, t).at = at
    BY <1>4, <1>5 DEF AllThreads
  <1>7. PICK y : y = AccessOf(l, t)
    OBVIOUS
  <1>8. PICK m : m = Len(queue) + n
    OBVIOUS
  <1>9. m \in DOMAIN queue' /\ queue'[m] = l /\ t \in Waiting(m)'
    <2>1. Enqueue(ls)
      BY DEF ls
    <2>2. PICK k : k = Len(queue)
      OBVIOUS
    <2>3. k + n \in DOMAIN queue' /\ queue'[k + n] = ls[n] /\ Waiting(k + n)' = AllThreads(ls[n])
      BY <1>1, <1>2, <2>1, <2>2, WaitingEnqueued
    <2>4. PICK j : j = k + n
      OBVIOUS
    <2>5. j \in DOMAIN queue' /\ queue'[j] = ls[n] /\ Waiting(j)' = AllThreads(ls[n])
      BY <2>3, <2>4
    <2>6. j = m
      BY <1>8, <2>2, <2>4
    <2> QED  BY <1>5, <1>6, <2>5, <2>6
  <1>10. /\ Order(l) = 0 => Unwritten(l.field, y.at)'
         /\ Order(l) = 2 => Unsent(y.dir, y.slot)'
    BY <1>7, <1>9, WaitsOn
  <1>11. l.field = f /\ Order(l) = (IF packs THEN 2 ELSE 0) /\ y.dir = d /\ y.slot = slot /\ y.at = at
    BY <1>4, <1>5, <1>6, <1>7
  <1> QED  BY <1>10, <1>11

LEMMA OutsideKept ==
    ASSUME IndInv, ExampleCovers, InOrder, InsideOK, OutsideOK, ReceivedOK, [Next]_vars
    PROVE  OutsideOK'
  <1>0. StreamOK /\ proc \in Procs
    BY Parts DEF HostOK
  <1>1. CASE Host /\ ~ Unpack
    <2>1. proc' = proc /\ generic' = generic /\ fields' = fields
      BY <1>1 DEF Host, Compute, Pack, Synchronize, Exchange, Unpack
    <2>2. \A f, x : Unwritten(f, x) => Unwritten(f, x)'
      <3>1. CASE Compute
        <4>1. <<Computation>> \in Seq(LaunchTypes) /\ Enqueue(<<Computation>>)
          BY <3>1 DEF LaunchTypes, Compute
        <4> QED  BY <1>0, <2>1, <4>1, PendingEnqueued
      <3>2. CASE Pack
        <4> DEFINE ls == Launches(KernelsFor(TRUE))
        <4>1. ls \in Seq(LaunchTypes) /\ Enqueue(ls)
          BY <3>2, LaunchesTyped, FaceKernels DEF Pack, KernelsFor
        <4> HIDE DEF ls
        <4> QED  BY <1>0, <2>1, <4>1, PendingEnqueued
      <3>3. CASE Synchronize \/ Exchange
        <4>1. queue' = queue /\ left' = left
          BY <3>3 DEF Synchronize, Exchange
        <4> QED  BY <1>0, <2>1, <4>1, PendingSame
      <3> QED  BY <1>1, <3>1, <3>2, <3>3 DEF Host
    <2>3. Unpacked' = Unpacked
      BY <1>1, HostCounters
    <2>4. PICK n : n = Unpacked
      OBVIOUS
    <2>5. \A f \in Own : \A x \in Box(HalosOf(f)) \ Inner(HalosOf(f)) :
              fields'[f][x] = Expected(f, n)[x] \/ Unwritten(f, x)'
      BY <2>1, <2>2, <2>4 DEF OutsideOK
    <2> QED  BY <2>1, <2>3, <2>4, <2>5, OutsideAs
  <1>2. CASE Unpack
    <2>1. /\ proc' = proc /\ generic' = generic /\ fields' = fields
          /\ Enqueue(Launches(KernelsFor(FALSE)))
      BY <1>2 DEF Unpack, KernelsFor
    <2>2. PICK n : n = Exchanged
      OBVIOUS
    <2>3. Unpacked' = n
      BY <1>2, <2>2, HostCounters DEF Host
    <2>4. ASSUME NEW f \in Own, NEW x \in Box(HalosOf(f)) \ Inner(HalosOf(f))
          PROVE  fields'[f][x] = Expected(f, n)[x] \/ Unwritten(f, x)'
      <3> DEFINE gs == HalosOf(f)
      <3>1. gs \in HaloTypes /\ \A a \in Axes : IsHalo(gs[a])
        BY OwnFacts
      <3>2. CASE \E d \in Sides : Faces(gs, d, x)
        <4>1. PICK d \in Sides : Faces(gs, d, x)
          BY <3>2
        <4>2. d \in Dirs
          BY DEF Sides
        <4>3. PICK o \in Within(Shares(FALSE, gs, d)) : x = PlaceAt(FALSE, gs, d, o)
          <5> HIDE DEF gs
          <5>1. x \in Box(gs)
            BY DEF gs
          <5>2. \A u \in Box(gs) : Faces(gs, d, u) => \E o \in Within(Shares(FALSE, gs, d)) : u = PlaceAt(FALSE, gs, d, o)
            BY <3>1, <4>2, HaloFacts
          <5> QED  BY <4>1, <5>1, <5>2
        <4>4. PICK slot : slot = Place(FALSE, f, d) + Linear(o, Shares(FALSE, gs, d)) + 1
          OBVIOUS
        <4>5. PICK b \in BOOLEAN : b = FALSE
          OBVIOUS
        <4>6. Unwritten(f, x)'
          <5>1. /\ o \in Within(Shares(b, gs, d)) /\ x = PlaceAt(b, gs, d, o) /\ Enqueue(Launches(KernelsFor(b)))
                /\ slot = Place(b, f, d) + Linear(o, Shares(b, gs, d)) + 1 /\ ~ b
            BY <2>1, <4>3, <4>4, <4>5
          <5> QED  BY <2>1, <5>1, PendingLaunched
        <4> QED  BY <4>6
      <3>3. CASE \A d \in Sides : ~ Faces(gs, d, x)
        <4>1. \A m : Expected(f, m)[x] = Element(Here, x, 0)
          BY <1>0, <3>3, ExpectedFacts
        <4>2. Unwritten(f, x) => Unwritten(f, x)'
          <5> DEFINE ls == Launches(KernelsFor(FALSE))
          <5>1. ls \in Seq(LaunchTypes) /\ Enqueue(ls)
            BY <2>1, LaunchesTyped, FaceKernels
          <5> HIDE DEF ls
          <5> QED  BY <1>0, <2>1, <5>1, PendingEnqueued
        <4>3. fields[f][x] = Expected(f, Unpacked)[x] \/ Unwritten(f, x)
          BY DEF OutsideOK
        <4> QED  BY <2>1, <4>1, <4>2, <4>3
      <3> QED  BY <3>2, <3>3
    <2> QED  BY <2>1, <2>3, <2>4, OutsideAs
  <1>3. ASSUME NEW block \in left, RunBlock(block) PROVE OutsideOK'
    <2>1. ThreadsDone(block) /\ proc' = proc /\ generic' = generic
      BY <1>3 DEF RunBlock, ThreadsDone
    <2>2. Unpacked' = Unpacked
      BY <2>1, DoneCounters
    <2>3. PICK n : n = Unpacked
      OBVIOUS
    <2>4. ASSUME NEW f \in Own, NEW x \in Box(HalosOf(f)) \ Inner(HalosOf(f))
          PROVE  fields'[f][x] = Expected(f, n)[x] \/ Unwritten(f, x)'
      <3>1. fields[f][x] = Expected(f, n)[x] \/ Unwritten(f, x)
        BY <2>3 DEF OutsideOK
      <3>2. \/ Unwritten(f, x) => Unwritten(f, x)'
            \/ /\ Order(queue[1]) = 0 /\ queue[1].field = f
               /\ \E t \in ThreadsOf(queue[1], block) : AccessOf(queue[1], t).at = x
        BY <1>0, <2>1, PendingDone
      <3>3. CASE Order(queue[1]) = 0
        <4>1. \/ /\ fields'[f][x] = fields[f][x]
                 /\ f = queue[1].field => ~ \E t \in ThreadsOf(queue[1], block) : AccessOf(queue[1], t).at = x
              \/ fields'[f][x] = Expected(f, n)[x]
          BY <1>3, <2>3, <3>3, FieldsAfter
        <4> QED  BY <3>1, <3>2, <4>1
      <3>4. CASE Order(queue[1]) # 0
        <4>1. fields'[f][x] = fields[f][x]
          <5>1. Order(queue[1]) \in {1, 2}
            BY <3>4, OrderFacts
          <5> QED  BY <1>3, <5>1, FieldsAfter
        <4> QED  BY <3>1, <3>2, <3>4, <4>1
      <3> QED  BY <3>3, <3>4
    <2> QED  BY <2>1, <2>2, <2>3, <2>4, OutsideAs
  <1>4. CASE UNCHANGED vars
    <2>1. /\ proc' = proc /\ generic' = generic /\ fields' = fields /\ Unpacked' = Unpacked
          /\ queue' = queue /\ left' = left
      BY <1>4 DEF vars, Unpacked
    <2>2. PICK n : n = Unpacked
      OBVIOUS
    <2>3. \A f, x : Unwritten(f, x) => Unwritten(f, x)'
      BY <1>0, <2>1, PendingSame
    <2>4. \A f \in Own : \A x \in Box(HalosOf(f)) \ Inner(HalosOf(f)) :
              fields'[f][x] = Expected(f, n)[x] \/ Unwritten(f, x)'
      BY <2>1, <2>2, <2>3 DEF OutsideOK
    <2> QED  BY <2>1, <2>2, <2>4, OutsideAs
  <1> QED  BY <1>1, <1>2, <1>3, <1>4 DEF Next, Terminate

-----------------------------------------------------------------------------
(* The messages received.                                                    *)
LEMMA SameBorder ==
    ASSUME proc' = proc, generic' = generic, NEW f, NEW d
    PROVE  Border(HalosOf(f), d)' = Border(HalosOf(f), d)
  BY DEF Border, HalosOf, Size, SLength, RLength, Visited, Length

LEMMA ReceivedAs ==
    ASSUME proc' = proc, generic' = generic, NEW n, Exchanged' = n,
           n > 0 => \A d \in Sides, f \in Own : \A i \in DOMAIN Border(HalosOf(f), Neg(d)) :
              recvbuf'[d][Place(FALSE, f, d) + i] = Element(d, Border(HalosOf(f), Neg(d))[i], n)
    PROVE  ReceivedOK'
  <1>1. Sides' = Sides
    BY SameSides
  <1>2. \A f, d : Border(HalosOf(f), Neg(d))' = Border(HalosOf(f), Neg(d))
    <2>1. ASSUME NEW f, NEW d PROVE Border(HalosOf(f), Neg(d))' = Border(HalosOf(f), Neg(d))
      <3>1. PICK e : e = Neg(d)
        OBVIOUS
      <3>2. Border(HalosOf(f), e)' = Border(HalosOf(f), e)
        BY SameBorder
      <3> QED  BY <3>1, <3>2
    <2> QED  BY <2>1
  <1>3. \A f, d : Place(FALSE, f, d)' = Place(FALSE, f, d)
    BY SamePlaces
  <1>4. ASSUME n > 0, NEW d \in Sides, NEW f \in Own, NEW i \in DOMAIN Border(HalosOf(f), Neg(d))'
        PROVE  recvbuf'[d][Place(FALSE, f, d)' + i] = Element(d, Border(HalosOf(f), Neg(d))'[i], n)
    <2>1. i \in DOMAIN Border(HalosOf(f), Neg(d))
      BY <1>2
    <2>2. recvbuf'[d][Place(FALSE, f, d) + i] = Element(d, Border(HalosOf(f), Neg(d))[i], n)
      BY <1>4, <2>1
    <2> QED  BY <1>2, <1>3, <2>2
  <1> QED  BY <1>1, <1>4 DEF ReceivedOK, Element

LEMMA ReceivedKept ==
    ASSUME IndInv, ExampleCovers, InOrder, ReceivedOK, [Next]_vars
    PROVE  ReceivedOK'
  <1>0. proc \in Procs
    BY Parts DEF HostOK
  <1>1. CASE Exchange
    <2>1. /\ proc' = proc /\ generic' = generic
          /\ recvbuf' = [d \in Sides |-> LET m == CpuMessage(d, Neg(d), step)
                                         IN  [i \in DOMAIN recvbuf[d] |-> IF i \in DOMAIN m THEN m[i] ELSE recvbuf[d][i]]]
      BY <1>1 DEF Exchange
    <2>2. PICK n : n = step
      OBVIOUS
    <2>3. Exchanged' = n
      BY <1>1, <2>2, HostCounters DEF Host
    <2>4. ASSUME NEW d \in Sides, NEW f \in Own, NEW i \in DOMAIN Border(HalosOf(f), Neg(d))
          PROVE  recvbuf'[d][Place(FALSE, f, d) + i] = Element(d, Border(HalosOf(f), Neg(d))[i], n)
      <3> DEFINE gs == HalosOf(f)
                 m == CpuMessage(d, Neg(d), n)
                 p == Place(FALSE, f, d)
                 s == Size(FALSE, gs, d)
                 D == DOMAIN recvbuf[d]
                 B == Border(gs, Neg(d))
      <3>1. d \in Dirs /\ Side(d) /\ Neg(d) \in Dirs
        BY DEF Sides, Neg, Dirs, Offsets, Here, Axes
      <3>2. gs \in HaloTypes /\ \A a \in Axes : IsHalo(gs[a])
        BY OwnFacts
      <3>3. i \in 1..s
        <4>1. DOMAIN B = 1..Size(TRUE, gs, Neg(d))
          BY <3>1, <3>2, BorderFacts
        <4>2. Size(TRUE, gs, Neg(d)) = s
          <5> HIDE DEF gs
          <5>1. Shares(TRUE, gs, Neg(d)) = Shares(FALSE, gs, d)
            BY <3>1, <3>2, SharesFacts
          <5>2. Size(FALSE, gs, d) = Shares(FALSE, gs, d)[1] * Shares(FALSE, gs, d)[2] * Shares(FALSE, gs, d)[3]
            BY <3>1, <3>2, SharesFacts
          <5>3. Size(TRUE, gs, Neg(d)) = Shares(TRUE, gs, Neg(d))[1] * Shares(TRUE, gs, Neg(d))[2] * Shares(TRUE, gs, Neg(d))[3]
            BY <3>1, <3>2, SharesFacts
          <5> QED  BY <5>1, <5>2, <5>3
        <4> HIDE DEF s, gs
        <4> QED  BY <4>1, <4>2 DEF gs
      <3>4. /\ m \in Seq({ m[j] : j \in DOMAIN m }) /\ p + i \in 1..Len(m)
            /\ m[p + i] = Element(d, B[i], n)
        <4>1. PICK packs \in BOOLEAN : packs = FALSE
          OBVIOUS
        <4>2. PICK q : q = [g \in Own |-> Place(packs, g, d)]
          OBVIOUS
        <4>3. PICK e : e = Neg(d)
          OBVIOUS
        <4>4. PICK v : v = CpuMessage(d, e, n)
          OBVIOUS
        <4>5. /\ v \in Seq({ v[j] : j \in DOMAIN v })
              /\ \A g \in Own : \A j \in 1..Size(packs, HalosOf(g), d) :
                    q[g] + j \in 1..Len(v) /\ v[q[g] + j] = Element(d, Border(HalosOf(g), e)[j], n)
          <5>1. e = IF packs THEN d ELSE Neg(d)
            BY <4>1, <4>3
          <5>2. v = CpuMessage(d, e, n)
            BY <4>3, <4>4
          <5>3. IsMessage(v, e, packs, d, d, n)
            BY <1>0, <3>1, <5>1, <5>2, MessageAt
          <5>4. \A g \in Own : q[g] = Place(packs, g, d)
            BY <4>2
          <5> QED  BY <5>3, <5>4 DEF IsMessage
        <4>6. q[f] = p /\ v = m /\ i \in 1..Size(packs, gs, d) /\ B = Border(gs, e)
          BY <3>3, <4>1, <4>2, <4>3, <4>4
        <4> HIDE DEF m, p, B
        <4> QED  BY <4>5, <4>6
      <3>5. p + i \in D
        <4>1. D = 1..(Len(FieldHalos) * SetupSize(FALSE, d))
          BY Parts DEF MemoryOK
        <4>2. s \in Nat /\ p \in Nat
          BY <1>0, <3>1, <3>2, SizeFacts, PlaceType
        <4> HIDE DEF s, p
        <4>3. i - 1 \in 0..s - 1 /\ 1 + (i - 1) + p = p + i
          BY <3>3, <4>2
        <4>4. \A j \in 0..s - 1 : 1 + j + p \in 1..(Len(FieldHalos) * SetupSize(FALSE, d))
          BY <1>0, <3>1, PlaceFacts DEF s, p
        <4> QED  BY <4>1, <4>3, <4>4
      <3>6. DOMAIN m = 1..Len(m)
        <4> HIDE DEF m
        <4> QED  BY <3>4
      <3>7. recvbuf'[d] = [j \in D |-> IF j \in DOMAIN m THEN m[j] ELSE recvbuf[d][j]]
        BY <2>1, <2>2
      <3> HIDE DEF m, p, D, B
      <3>8. recvbuf'[d][p + i] = Element(d, B[i], n)
        BY <3>4, <3>5, <3>6, <3>7
      <3> QED  BY <3>8 DEF p, B
    <2> QED  BY <2>1, <2>3, <2>4, ReceivedAs
  <1>2. CASE ~ Exchange
    <2>1. /\ proc' = proc /\ generic' = generic /\ recvbuf' = recvbuf
      <3>1. CASE Host
        BY <1>2, <3>1 DEF Host, Compute, Pack, Synchronize, Unpack
      <3>2. ASSUME NEW block \in left, RunBlock(block) PROVE proc' = proc /\ generic' = generic /\ recvbuf' = recvbuf
        BY <3>2 DEF RunBlock, ThreadsDone
      <3> QED  BY <3>1, <3>2 DEF Next, Terminate, vars
    <2>2. Exchanged' = Exchanged
      <3>1. CASE Host
        BY <1>2, <3>1, HostCounters
      <3>2. ASSUME NEW block \in left, RunBlock(block) PROVE Exchanged' = Exchanged
        BY <3>2, DoneCounters DEF RunBlock
      <3>3. CASE UNCHANGED vars
        BY <3>3 DEF vars, Exchanged
      <3> QED  BY <3>1, <3>2, <3>3 DEF Next, Terminate
    <2>3. PICK n : n = Exchanged
      OBVIOUS
    <2> QED  BY <2>1, <2>2, <2>3, ReceivedAs DEF ReceivedOK
  <1> QED  BY <1>1, <1>2

-----------------------------------------------------------------------------
(* A field is a function.                                                    *)
LEMMA FieldsKept ==
    ASSUME IndInv, FieldsOK, [Next]_vars
    PROVE  FieldsOK'
  <1>0. DOMAIN fields = Own
    BY Parts DEF MemoryOK
  <1>1. CASE Host \/ UNCHANGED vars
    <2>1. fields' = fields
      BY <1>1 DEF Host, Compute, Pack, Synchronize, Exchange, Unpack, vars
    <2> QED  BY <2>1 DEF FieldsOK
  <1>2. ASSUME NEW block \in left, RunBlock(block) PROVE FieldsOK'
    <2>1. CASE RunPacking(block)
      BY <2>1 DEF RunPacking, FieldsOK
    <2>2. CASE RunUnpacking(block)
      <3>1. ASSUME NEW f \in Own PROVE fields'[f] = [x \in DOMAIN fields'[f] |-> fields'[f][x]]
        <4>1. CASE f = Head(queue).field
          <5> DEFINE A == Accesses(Head(queue), block)
                     W(at) == IF \E y \in A : y.at = at
                              THEN LET y == CHOOSE y \in A : y.at = at IN recvbuf[y.dir][y.slot]
                              ELSE fields[f][at]
          <5>1. fields'[f] = [at \in DOMAIN fields[f] |-> W(at)]
            BY <1>0, <2>2, <4>1 DEF RunUnpacking
          <5> HIDE DEF W
          <5> QED  BY <5>1
        <4>2. CASE f # Head(queue).field
          BY <1>0, <2>2, <4>2 DEF RunUnpacking, FieldsOK
        <4> QED  BY <4>1, <4>2
      <3> QED  BY <3>1 DEF FieldsOK
    <2>3. CASE RunComputation
      <3>1. ASSUME NEW f \in Own PROVE fields'[f] = [x \in DOMAIN fields'[f] |-> fields'[f][x]]
        <4> DEFINE W(x) == IF x \in Inner(HalosOf(f)) THEN Element(Here, x, StepOf(f) + 1) ELSE fields[f][x]
        <4>1. fields'[f] = [x \in DOMAIN fields[f] |-> W(x)]
          BY <2>3 DEF RunComputation
        <4> HIDE DEF W
        <4> QED  BY <4>1
      <3> QED  BY <3>1 DEF FieldsOK
    <2> QED  BY <1>2, <2>1, <2>2, <2>3 DEF RunBlock
  <1> QED  BY <1>1, <1>2 DEF Next, Terminate

-----------------------------------------------------------------------------
(* The messages sent.                                                        *)
LEMMA SentAs ==
    ASSUME proc' = proc, generic' = generic,
           pc' \in {"packing", "packed"} =>
              \A d \in Sides, f \in Own : \A i \in DOMAIN Border(HalosOf(f), d) : \A slot :
                 slot = Place(TRUE, f, d) + i =>
                    \/ sendbuf'[d][slot] = Element(Here, Border(HalosOf(f), d)[i], step')
                    \/ Unsent(d, slot)'
    PROVE  SentOK'
  <1>1. Sides' = Sides
    BY SameSides
  <1>2. \A f, d : Border(HalosOf(f), d)' = Border(HalosOf(f), d)
    BY SameBorder
  <1>3. \A f, d : Place(TRUE, f, d)' = Place(TRUE, f, d)
    BY SamePlaces
  <1>4. ASSUME pc' \in {"packing", "packed"}, NEW d \in Sides', NEW f \in Own, NEW i \in DOMAIN Border(HalosOf(f), d)'
        PROVE  \/ sendbuf'[d][Place(TRUE, f, d)' + i] = Element(Here, Border(HalosOf(f), d)'[i], step')
               \/ Unsent(d, Place(TRUE, f, d) + i)'
    <2>1. i \in DOMAIN Border(HalosOf(f), d)
      BY <1>2
    <2>2. PICK slot : slot = Place(TRUE, f, d) + i
      OBVIOUS
    <2>3. Place(TRUE, f, d)' + i = slot
      BY <1>3, <2>2
    <2>4. sendbuf'[d][slot] = Element(Here, Border(HalosOf(f), d)[i], step') \/ Unsent(d, slot)'
      BY <1>1, <1>4, <2>1, <2>2
    <2>5. Unsent(d, slot)' => Unsent(d, Place(TRUE, f, d) + i)'
      BY <2>3 DEF Unsent
    <2> QED  BY <1>2, <2>3, <2>4, <2>5
  <1> QED  BY <1>1, <1>4 DEF SentOK, Element

\* A thread that packs sends the element that belongs at its place.
LEMMA PackedAt ==
    ASSUME IndInv, BordersInside, InOrder, InsideOK, NEW block \in left, Order(queue[1]) = 2,
           NEW t \in ThreadsOf(queue[1], block), NEW d \in Sides, AccessOf(queue[1], t).dir = d,
           NEW f \in Own, NEW i \in DOMAIN Border(HalosOf(f), d), AccessOf(queue[1], t).slot = Place(TRUE, f, d) + i
    PROVE  fields[queue[1].field][AccessOf(queue[1], t).at] = Element(Here, Border(HalosOf(f), d)[i], step)
  <1> DEFINE l == queue[1]
             g == l.field
             gs == HalosOf(g)
             y == AccessOf(l, t)
             size == Shares(TRUE, gs, d)
             p == [e \in Own |-> Place(TRUE, e, d)]
             s == [e \in Own |-> Size(TRUE, HalosOf(e), d)]
  <1>0. /\ StreamOK /\ queue \in Seq(LaunchTypes) /\ queue # <<>> /\ 1 \in DOMAIN queue
        /\ proc \in Procs /\ d \in Dirs /\ Side(d)
    <2>1. StreamOK /\ queue \in Seq(LaunchTypes) /\ proc \in Procs
      BY Parts DEF StreamOK, HostOK
    <2>2. queue # <<>>
      BY <2>1, HeadBlocks DEF StreamOK
    <2> QED  BY <2>1, <2>2, WaitingFacts DEF Sides
  <1>1. l.kernel.packs = TRUE
    <2>1. ~ Computes(Head(queue)) /\ Head(queue) = l
      BY <1>0, WaitingFacts DEF Order
    <2>2. l.kernel.packs \in BOOLEAN
      BY <1>0, <2>1, HeadFacts
    <2>3. l.kernel.packs
      BY <2>1 DEF Order
    <2> QED  BY <2>2, <2>3
  <1>2. /\ g \in Own
        /\ \E o \in Within(size) : y.slot = p[g] + Linear(o, size) + 1 /\ y.at = PlaceAt(TRUE, gs, d, o)
    <2> DEFINE k == l.kernel
    <2>1. /\ g \in Own
          /\ \E o \in Within(Shares(k.packs, gs, y.dir)) :
                /\ y.slot = Place(k.packs, g, y.dir) + Linear(o, Shares(k.packs, gs, y.dir)) + 1
                /\ y.at = PlaceAt(k.packs, gs, y.dir, o)
      <3>1. Order(l) # 1
        OBVIOUS
      <3> QED  BY <3>1, BlockAccess, Zenon
    <2> DEFINE b == k.packs
    <2>2. b = TRUE /\ y.dir = d
      BY <1>1
    <2>3. g \in Own => p[g] = Place(TRUE, g, d)
      OBVIOUS
    <2> HIDE DEF g, gs, y, b, p
    <2> QED  BY <2>1, <2>2, <2>3 DEF b
  <1>3. /\ gs \in HaloTypes /\ \A a \in Axes : IsHalo(gs[a])
        /\ HalosOf(f) \in HaloTypes /\ \A a \in Axes : IsHalo(HalosOf(f)[a])
    BY <1>2, OwnFacts
  <1>4. y.slot = p[f] + i
    OBVIOUS
  <1>5. \A e \in Own : p[e] \in Nat /\ s[e] \in Nat
    <2>1. ASSUME NEW e \in Own PROVE Place(TRUE, e, d) \in Nat /\ Size(TRUE, HalosOf(e), d) \in Nat
      <3>1. HalosOf(e) \in HaloTypes /\ \A a \in Axes : IsHalo(HalosOf(e)[a])
        BY OwnFacts
      <3> QED  BY <1>0, <3>1, PlaceType, SizeFacts
    <2> QED  BY <2>1
  <1>6. \A e, h \in Own : e < h => p[e] + s[e] <= p[h]
    <2>1. PICK packs \in BOOLEAN : packs = TRUE
      OBVIOUS
    <2>2. PICK c : c = d
      OBVIOUS
    <2>3. PICK n : n = 0
      OBVIOUS
    <2>4. c = IF packs THEN d ELSE Neg(d)
      BY <2>1, <2>2
    <2>5. IsMessage(CpuMessage(Here, c, n), c, packs, d, Here, n)
      BY <1>0, <2>4, MessageAt
    <2> QED  BY <2>1, <2>5 DEF IsMessage
  <1>7. i \in 1..s[f]
    BY <1>0, <1>3, BorderFacts
  <1> HIDE DEF l, g, gs, y, size, p, s
  <1>8. PICK o \in Within(size) : y.slot = p[g] + Linear(o, size) + 1 /\ y.at = PlaceAt(TRUE, gs, d, o)
    BY <1>2
  <1>9. Linear(o, size) \in 0..s[g] - 1
    <2>1. size \in [Axes -> Nat] /\ s[g] = size[1] * size[2] * size[3]
      BY <1>0, <1>2, <1>3, SharesFacts DEF size, s, gs
    <2> QED  BY <2>1, BoxFacts
  <1>10. g = f /\ i = Linear(o, size) + 1
    <2> DEFINE j == Linear(o, size)
    <2> HIDE DEF j
    <2>1. j \in 0..s[g] - 1 /\ p[g] + j + 1 = p[f] + i
      BY <1>4, <1>8, <1>9 DEF j
    <2>2. g \in Nat /\ f \in Nat
      BY <1>2, OwnFacts
    <2>3. ~ g < f
      BY <1>2, <1>5, <1>6, <1>7, <2>1
    <2>4. ~ f < g
      BY <1>2, <1>5, <1>6, <1>7, <2>1
    <2>5. g = f
      BY <2>2, <2>3, <2>4
    <2>6. p[g] = p[f] /\ p[f] \in Nat /\ s[g] \in Nat
      BY <1>2, <1>5, <2>5
    <2>7. i = j + 1
      BY <1>7, <2>1, <2>6
    <2> QED  BY <2>5, <2>7 DEF j
  <1>11. Border(gs, d)[i] = PlaceAt(TRUE, gs, d, o)
    BY <1>0, <1>3, <1>10, BorderFacts DEF size, PlaceAt
  <1>12. PlaceAt(TRUE, gs, d, o) \in Inner(gs)
    BY <1>0, <1>2, BorderInside DEF size, gs
  <1>13. Computed = step
    <2>1. \A n \in DOMAIN queue : Order(queue[n]) # 1
      <3>1. ASSUME NEW n \in DOMAIN queue PROVE Order(queue[n]) # 1
        <4>1. n \in Nat \ {0}
          BY <1>0
        <4>2. CASE n = 1
          BY <4>2
        <4>3. CASE 1 < n
          <5>1. Order(queue[1]) < Order(queue[n]) \/ Order(queue[1]) = Order(queue[n])
            BY <1>0, <4>3 DEF InOrder
          <5>2. Order(queue[n]) \in Int
            BY OrderFacts
          <5> QED  BY <5>1, <5>2
        <4> QED  BY <4>1, <4>2, <4>3
      <3> QED  BY <3>1
    <2> QED  BY <2>1, CountersAs
  <1>14. fields[g][y.at] = Element(Here, y.at, Computed)
    BY <1>2, <1>8, <1>12 DEF InsideOK, gs
  <1> QED  BY <1>8, <1>10, <1>11, <1>13, <1>14 DEF l, g, gs, y

\* Every element to be sent has its place in the buffer.
LEMMA SlotInBuffer ==
    ASSUME IndInv, generic => ExampleCovers, NEW d \in Sides, NEW f \in Own, NEW i \in DOMAIN Border(HalosOf(f), d)
    PROVE  Place(TRUE, f, d) + i \in DOMAIN sendbuf[d]
  <1> DEFINE gs == HalosOf(f)
             s == Size(TRUE, gs, d)
             p == Place(TRUE, f, d)
             D == 1..(Len(FieldHalos) * SetupSize(TRUE, d))
  <1>1. /\ proc \in Procs /\ d \in Dirs /\ Side(d) /\ DOMAIN sendbuf[d] = D
        /\ gs \in HaloTypes /\ \A a \in Axes : IsHalo(gs[a])
    BY Parts, OwnFacts DEF HostOK, MemoryOK, Sides
  <1>2. i \in 1..s
    BY <1>1, BorderFacts
  <1>3. s \in Nat /\ p \in Nat
    BY <1>1, SizeFacts, PlaceType
  <1>4. \A j \in 0..s - 1 : 1 + j + p \in D
    BY <1>1, PlaceFacts
  <1> HIDE DEF s, p, D
  <1>5. i - 1 \in 0..s - 1 /\ 1 + (i - 1) + p = p + i
    BY <1>2, <1>3
  <1> QED  BY <1>1, <1>4, <1>5 DEF p

LEMMA SentKept ==
    ASSUME IndInv, ExampleCovers, BordersInside, InOrder, InsideOK, SentOK, [Next]_vars
    PROVE  SentOK'
  <1>0. StreamOK /\ MemoryOK /\ proc \in Procs
    BY Parts DEF HostOK
  <1>1. CASE Compute \/ Unpack \/ Exchange
    <2>1. proc' = proc /\ generic' = generic /\ pc' \notin {"packing", "packed"}
      BY <1>1 DEF Compute, Unpack, Exchange
    <2> QED  BY <2>1, SentAs
  <1>2. CASE Pack
    <2>1. /\ proc' = proc /\ generic' = generic
          /\ Enqueue(Launches(KernelsFor(TRUE)))
      BY <1>2 DEF Pack, KernelsFor
    <2>2. ASSUME NEW d \in Sides, NEW f \in Own, NEW i \in DOMAIN Border(HalosOf(f), d),
                 NEW slot, slot = Place(TRUE, f, d) + i
          PROVE  Unsent(d, slot)'
      <3> DEFINE gs == HalosOf(f)
      <3>1. gs \in HaloTypes /\ \A a \in Axes : IsHalo(gs[a])
        BY OwnFacts
      <3>2. d \in Dirs /\ Side(d)
        BY DEF Sides
      <3>3. PICK o \in Within(Shares(TRUE, gs, d)) : i = Linear(o, Shares(TRUE, gs, d)) + 1
        BY <3>1, <3>2, BorderFacts
      <3>4. PICK at : at = PlaceAt(TRUE, gs, d, o)
        OBVIOUS
      <3>5. PICK b \in BOOLEAN : b = TRUE
        OBVIOUS
      <3>6. slot = Place(TRUE, f, d) + Linear(o, Shares(TRUE, gs, d)) + 1
        <4> DEFINE p == Place(TRUE, f, d)
                   size == Shares(TRUE, gs, d)
                   j == Linear(o, size)
        <4>1. p \in Nat
          BY <1>0, <3>2, PlaceType
        <4>2. j \in Int
          <5>1. size \in [Axes -> Nat]
            BY <3>1, <3>2, SharesFacts
          <5>2. o \in Within(size)
            OBVIOUS
          <5> HIDE DEF size
          <5>3. j \in 0..size[1] * size[2] * size[3] - 1
            BY <5>1, <5>2, BoxFacts
          <5> QED  BY <5>3
        <4>3. slot = p + i /\ i = j + 1
          BY <2>2, <3>3
        <4> HIDE DEF p, j
        <4>4. slot = p + j + 1
          BY <4>1, <4>2, <4>3
        <4> QED  BY <4>4 DEF p, j
      <3>7. /\ o \in Within(Shares(b, gs, d)) /\ at = PlaceAt(b, gs, d, o) /\ Enqueue(Launches(KernelsFor(b)))
            /\ slot = Place(b, f, d) + Linear(o, Shares(b, gs, d)) + 1
        BY <2>1, <3>4, <3>5, <3>6
      <3>8. b => Unsent(d, slot)'
        BY <2>1, <3>7, PendingLaunched
      <3> QED  BY <3>5, <3>8
    <2> QED  BY <2>1, <2>2, SentAs
  <1>3. CASE Synchronize \/ UNCHANGED vars
    <2>1. /\ proc' = proc /\ generic' = generic /\ queue' = queue /\ left' = left /\ step' = step /\ sendbuf' = sendbuf
          /\ pc' \in {"packing", "packed"} => pc \in {"packing", "packed"}
      BY <1>3 DEF Synchronize, vars
    <2>2. \A d, slot : Unsent(d, slot) => Unsent(d, slot)'
      BY <1>0, <2>1, PendingSame
    <2> QED  BY <2>1, <2>2, SentAs DEF SentOK
  <1>4. ASSUME NEW block \in left, RunBlock(block) PROVE SentOK'
    <2>1. ThreadsDone(block) /\ proc' = proc /\ generic' = generic /\ pc' = pc /\ step' = step
      BY <1>4 DEF RunBlock, ThreadsDone
    <2>2. ASSUME pc \in {"packing", "packed"}, NEW d \in Sides, NEW f \in Own, NEW i \in DOMAIN Border(HalosOf(f), d),
                 NEW slot, slot = Place(TRUE, f, d) + i
          PROVE  sendbuf'[d][slot] = Element(Here, Border(HalosOf(f), d)[i], step) \/ Unsent(d, slot)'
      <3> DEFINE x == Element(Here, Border(HalosOf(f), d)[i], step)
                 own == \E t \in ThreadsOf(queue[1], block) :
                           AccessOf(queue[1], t).dir = d /\ AccessOf(queue[1], t).slot = slot
      <3>1. sendbuf[d][slot] = x \/ Unsent(d, slot)
        BY <2>2 DEF SentOK
      <3>2. \/ Unsent(d, slot) => Unsent(d, slot)'
            \/ Order(queue[1]) = 2 /\ own
        BY <1>0, <2>1, PendingDone
      <3>3. queue # <<>> /\ Head(queue) = queue[1]
        <4>1. queue # <<>>
          BY <1>0, HeadBlocks DEF StreamOK
        <4> QED  BY <1>0, <4>1, WaitingFacts
      <3>4. CASE RunPacking(block)
        <4> DEFINE A == Accesses(queue[1], block)
                   Written == { y \in A : y.dir = d }
                   here == \E y \in Written : y.slot = slot
                   z == CHOOSE y \in Written : y.slot = slot
        <4>1. Order(queue[1]) = 2
          BY <3>3, <3>4 DEF RunPacking, Order
        <4>2. d \in DOMAIN sendbuf /\ slot \in DOMAIN sendbuf[d] /\ DOMAIN sendbuf = Sides
          BY <1>0, <2>2, SlotInBuffer DEF MemoryOK
        <4>3. sendbuf'[d][slot] = IF here THEN fields[queue[1].field][z.at] ELSE sendbuf[d][slot]
          BY <3>3, <3>4, <4>2 DEF RunPacking
        <4>4. CASE here
          <5>1. z \in A /\ z.dir = d /\ z.slot = slot
            BY <4>4
          <5>2. PICK t \in ThreadsOf(queue[1], block) : z = AccessOf(queue[1], t)
            BY <5>1 DEF Accesses
          <5> HIDE DEF z
          <5>3. AccessOf(queue[1], t).dir = d /\ AccessOf(queue[1], t).slot = Place(TRUE, f, d) + i
            BY <2>2, <5>1, <5>2
          <5>4. fields[queue[1].field][AccessOf(queue[1], t).at] = x
            BY <4>1, <5>3, PackedAt
          <5>5. fields[queue[1].field][z.at] = x
            BY <5>2, <5>4
          <5> HIDE DEF here, x
          <5>6. sendbuf'[d][slot] = x
            BY <4>3, <4>4, <5>5
          <5> QED  BY <5>6 DEF x
        <4>5. CASE ~ here
          <5>1. ~ own
            BY <4>5 DEF Accesses
          <5> HIDE DEF here, own, x, z
          <5> QED  BY <3>1, <3>2, <4>3, <4>5, <5>1 DEF x
        <4> QED  BY <4>4, <4>5
      <3>5. CASE ~ RunPacking(block)
        <4>1. sendbuf' = sendbuf /\ Order(queue[1]) # 2
          BY <1>4, <3>3, <3>5 DEF RunBlock, RunUnpacking, RunComputation, Order
        <4> HIDE DEF own
        <4> QED  BY <3>1, <3>2, <4>1
      <3> QED  BY <3>4, <3>5
    <2> QED  BY <2>1, <2>2, SentAs
  <1> QED  BY <1>1, <1>2, <1>3, <1>4 DEF Next, Host, Terminate

-----------------------------------------------------------------------------
(* What the fields and the messages hold, as an invariant.                   *)
LEMMA InitData == Init => HalosInv /\ SentOK
  <1> SUFFICES ASSUME Init PROVE HalosInv /\ SentOK
    OBVIOUS
  <1>1. IndInv
    BY InitInv
  <1>2. queue = <<>> /\ pc = "computing" /\ step = 0
    BY DEF Init
  <1>3. InOrder
    BY <1>2 DEF InOrder
  <1>4. Computed = 0 /\ Unpacked = 0 /\ Exchanged = 0
    BY <1>2 DEF Computed, Unpacked, Exchanged
  <1>5. ASSUME NEW f \in Own
        PROVE  fields[f] = [x \in Box(HalosOf(f)) |-> Element(Here, x, 0)]
    BY DEF Init
  <1>6. InsideOK
    BY <1>4, <1>5 DEF InsideOK, Inner
  <1>7. OutsideOK
    <2>1. ASSUME NEW f \in Own, NEW x \in Box(HalosOf(f)) \ Inner(HalosOf(f))
          PROVE  fields[f][x] = Expected(f, Unpacked)[x]
      <3>1. proc \in Procs
        BY DEF Init
      <3>2. Expected(f, 0)[x] = Element(Here, x, 0)
        BY <3>1, ExpectedFacts
      <3> QED  BY <1>4, <1>5, <3>2
    <2> QED  BY <2>1 DEF OutsideOK
  <1>8. ReceivedOK
    BY <1>4 DEF ReceivedOK
  <1>9. FieldsOK
    <2>1. ASSUME NEW f \in Own PROVE fields[f] = [x \in DOMAIN fields[f] |-> fields[f][x]]
      <3> DEFINE W(x) == Element(Here, x, 0)
      <3>1. fields[f] = [x \in Box(HalosOf(f)) |-> W(x)]
        BY <1>5
      <3> HIDE DEF W
      <3> QED  BY <3>1
    <2> QED  BY <2>1 DEF FieldsOK
  <1>10. SentOK
    BY <1>2 DEF SentOK
  <1> QED  BY <1>1, <1>3, <1>6, <1>7, <1>8, <1>9, <1>10 DEF HalosInv

LEMMA HalosStep ==
    ASSUME ExampleCovers, HalosInv, [Next]_vars
    PROVE  HalosInv'
  <1>1. IndInv' /\ InOrder' /\ InsideOK' /\ OutsideOK' /\ ReceivedOK' /\ FieldsOK'
    BY StepInv, OrderKept, InsideKept, OutsideKept, ReceivedKept, FieldsKept DEF HalosInv
  <1> QED  BY <1>1 DEF HalosInv

\* Nothing is still to be unpacked: the fields are complete.
LEMMA FieldsComplete ==
    ASSUME HalosInv, NEW n, Computed = n, Unpacked = n, \A m \in DOMAIN queue : Order(queue[m]) # 0, NEW f \in Own
    PROVE  fields[f] = Expected(f, n)
  <1> DEFINE S == Box(HalosOf(f))
  <1>1. proc \in Procs /\ DOMAIN fields[f] = S
    BY Parts DEF HalosInv, HostOK, MemoryOK
  <1>2. \A x \in S : fields[f][x] = Expected(f, n)[x]
    <2>1. ASSUME NEW x \in S PROVE fields[f][x] = Expected(f, n)[x]
      <3>1. CASE x \in Inner(HalosOf(f))
        <4>1. fields[f][x] = Element(Here, x, n)
          BY <3>1 DEF HalosInv, InsideOK
        <4> QED  BY <1>1, <3>1, <4>1, ExpectedFacts
      <3>2. CASE x \notin Inner(HalosOf(f))
        <4>1. ~ Unwritten(f, x)
          BY DEF Unwritten
        <4> QED  BY <3>2, <4>1 DEF HalosInv, OutsideOK
      <3> QED  BY <3>1, <3>2
    <2> QED  BY <2>1
  <1>3. fields[f] = [x \in S |-> fields[f][x]]
    BY <1>1 DEF HalosInv, FieldsOK
  <1>4. Expected(f, n) = [x \in S |-> Expected(f, n)[x]]
    <2> DEFINE hs == HalosOf(f)
               Facing(x) == { d \in Sides : \A a \in Axes : x[a] \in Outside(hs[a], d[a]) }
               W(x) == IF x \in Inner(hs) THEN Element(Here, x, n)
                       ELSE IF n = 0 \/ Facing(x) = {} THEN Element(Here, x, 0)
                       ELSE LET d == CHOOSE d \in Facing(x) : TRUE
                            IN  Element(d, [a \in Axes |-> x[a] - d[a] * Length(hs[a])], n)
    <2>1. Expected(f, n) = [x \in S |-> W(x)]
      BY DEF Expected
    <2> HIDE DEF W, S
    <2> QED  BY <2>1
  <1> QED  BY <1>2, <1>3, <1>4

(* Whenever the program's kernel is about to run, and whenever the process   *)
(* may stop, every element of every field is what it should be: the process' *)
(* own of the step before, the neighbours' in the halos facing them, and     *)
(* nothing else touched, although unpack returns before its kernels have run *)
(* (descriptors_manual_gpu.hpp:404).                                         *)
THEOREM Halos ==
    ASSUME ExampleCovers
    PROVE  Spec => []HalosAsExpected
  <1>1. HalosInv => HalosAsExpected
    <2> SUFFICES ASSUME HalosInv PROVE HalosAsExpected
      OBVIOUS
    <2>0. /\ queue \in Seq(LaunchTypes) /\ StreamOK /\ InOrder /\ IndInv /\ step \in Nat
      BY Parts, PackingAssumption DEF HalosInv, StreamOK, HostOK
    <2>1. ASSUME queue # <<>>, Computes(Head(queue)), NEW f \in Own PROVE fields[f] = Expected(f, step - 1)
      <3>1. 1 \in DOMAIN queue /\ Order(queue[1]) = 1 /\ \A m \in DOMAIN queue : m \in Nat \ {0}
        BY <2>0, <2>1, WaitingFacts, OrderFacts
      <3>2. \A m \in DOMAIN queue : Order(queue[m]) # 0
        <4>1. ASSUME NEW m \in DOMAIN queue, Order(queue[m]) = 0 PROVE FALSE
          <5>1. 1 < m
            BY <3>1, <4>1
          <5> QED  BY <2>0, <3>1, <4>1, <5>1 DEF InOrder
        <4> QED  BY <4>1
      <3>3. pc # "computing"
        BY <2>0, <3>1 DEF InOrder
      <3>4. Computed = step - 1 /\ Unpacked = step - 1
        BY <3>1, <3>3, CountersAs DEF Unpacked
      <3> QED  BY <3>2, <3>4, FieldsComplete
    <2>2. ASSUME Idle, pc = "computing", NEW f \in Own PROVE fields[f] = Expected(f, step)
      <3>1. DOMAIN queue = {}
        BY <2>2 DEF Idle
      <3>2. Computed = step /\ Unpacked = step
        BY <2>2, <3>1, CountersAs DEF Unpacked
      <3> QED  BY <3>1, <3>2, FieldsComplete
    <2> QED  BY <2>1, <2>2 DEF HalosAsExpected
  <1>2. Init => HalosInv
    BY InitData
  <1>3. HalosInv /\ [Next]_vars => HalosInv'
    BY HalosStep
  <1> QED  BY <1>1, <1>2, <1>3, PTL DEF Spec

(* What is sent is, element for element, the message the loops of the CPU    *)
(* would have packed: the parts of the fields, the faces, edges and corners, *)
(* which different kernels pack, are all there and in their places.          *)
THEOREM Sent ==
    ASSUME ExampleCovers, BordersInside
    PROVE  Spec => []SentAsFromTheCpu
  <1>1. HalosInv /\ SentOK => SentAsFromTheCpu
    <2> SUFFICES ASSUME HalosInv, SentOK, pc = "packed", NEW d \in Sides
                 PROVE  LET m == CpuMessage(Here, d, step) IN SubSeq(sendbuf[d], 1, Len(m)) = m
      BY DEF SentAsFromTheCpu
    <2> DEFINE m == CpuMessage(Here, d, step)
               s == SubSeq(sendbuf[d], 1, Len(m))
               S == { m[j] : j \in DOMAIN m }
    <2>1. proc \in Procs /\ d \in Dirs /\ Side(d) /\ DOMAIN queue = {}
      <3>1. queue = <<>>
        BY DEF HalosInv, InOrder
      <3> QED  BY <3>1, Parts DEF HalosInv, HostOK, Sides
    <2>2. \A slot : ~ Unsent(d, slot)
      BY <2>1 DEF Unsent
    <2>3. PICK b \in BOOLEAN : b = TRUE
      OBVIOUS
    <2>4. PICK e : e = d
      OBVIOUS
    <2>5. PICK n : n = step
      OBVIOUS
    <2>6. IsMessage(CpuMessage(Here, e, n), e, b, d, Here, n)
      <3>1. e = IF b THEN d ELSE Neg(d)
        BY <2>3, <2>4
      <3> QED  BY <2>1, <3>1, MessageAt
    <2>7. IsMessage(m, d, b, d, Here, step)
      BY <2>4, <2>5, <2>6
    <2> HIDE DEF m
    <2>8. m \in Seq(S) /\ Len(m) \in Nat /\ DOMAIN m = 1..Len(m)
      <3>1. m \in Seq(S)
        BY <2>7 DEF IsMessage
      <3> HIDE DEF S
      <3> QED  BY <3>1, LenProperties
    <2>9. \A j \in 1..Len(m) : sendbuf[d][j] = m[j]
      <3>1. ASSUME NEW j \in 1..Len(m) PROVE sendbuf[d][j] = m[j]
        <4>0. PICK f \in Own : \E i \in 1..Size(b, HalosOf(f), d) : j = Place(b, f, d) + i
          BY <2>7 DEF IsMessage
        <4>1. PICK i \in 1..Size(b, HalosOf(f), d) : j = Place(b, f, d) + i
          BY <4>0
        <4>2. i \in DOMAIN Border(HalosOf(f), d) /\ m[j] = Element(Here, Border(HalosOf(f), d)[i], step)
          BY <2>7, <4>1 DEF IsMessage
        <4>3. PICK slot : slot = Place(TRUE, f, d) + i
          OBVIOUS
        <4>4. slot = j
          BY <2>3, <4>1, <4>3
        <4>5. sendbuf[d][slot] = Element(Here, Border(HalosOf(f), d)[i], step)
          BY <2>2, <4>2, <4>3 DEF SentOK
        <4> QED  BY <4>2, <4>4, <4>5
      <3> QED  BY <3>1
    <2>10. \A j \in 1..Len(m) : m[j] \in S
      BY <2>8
    <2> HIDE DEF S
    <2>11. s \in Seq(S) /\ Len(s) = Len(m) /\ \A j \in 1..Len(m) : s[j] = sendbuf[d][j]
      <3> DEFINE k == Len(m)
                 q == sendbuf[d]
      <3>1. k \in Int /\ 1 \in Int /\ \A j \in 1..k : q[j] \in S
        BY <2>8, <2>9, <2>10
      <3> HIDE DEF k, q
      <3>2. /\ SubSeq(q, 1, k) \in Seq(S)
            /\ Len(SubSeq(q, 1, k)) = IF 1 <= k THEN k - 1 + 1 ELSE 0
            /\ \A j \in 1..k - 1 + 1 : SubSeq(q, 1, k)[j] = q[1 + j - 1]
        BY <3>1, SubSeqProperties
      <3>3. k \in Nat /\ k - 1 + 1 = k /\ \A j \in 1..k : 1 + j - 1 = j
        BY <2>8 DEF k
      <3>4. SubSeq(q, 1, k) \in Seq(S) /\ Len(SubSeq(q, 1, k)) = k /\ \A j \in 1..k : SubSeq(q, 1, k)[j] = q[j]
        BY <3>2, <3>3
      <3> QED  BY <3>4 DEF k, q
    <2> HIDE DEF s
    <2>12. s = m
      BY <2>8, <2>9, <2>11, SeqEqual
    <2> QED  BY <2>12 DEF s, m
  <1>2. Init => HalosInv /\ SentOK
    BY InitData
  <1>3. HalosInv /\ SentOK /\ [Next]_vars => HalosInv' /\ SentOK'
    BY HalosStep, SentKept DEF HalosInv
  <1> QED  BY <1>1, <1>2, <1>3, PTL DEF Spec
=============================================================================
