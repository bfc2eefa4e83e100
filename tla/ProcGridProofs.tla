--------------------------- MODULE ProcGridProofs ---------------------------
(* The facts about the process grid that the exchange rests on, for every    *)
(* size of grid and every choice of periodic axes; and what several proofs   *)
(* need of induction and of sequences.                                       *)
EXTENDS ProcGrid, SequencesExt, FiniteSetTheorems, SequenceTheorems, WellFoundedInduction, TLAPS

LEMMA DirFacts ==
    ASSUME NEW d \in Dirs
    PROVE  /\ Neg(d) \in Dirs
           /\ Neg(Neg(d)) = d
           /\ \A a \in Axes : d[a] \in Offsets /\ Neg(d)[a] = -d[a]
  <1>1. d \in [Axes -> Offsets] /\ \A a \in Axes : -d[a] \in Offsets /\ -(-d[a]) = d[a]
    BY DEF Dirs, Offsets
  <1>2. Neg(d) \in [Axes -> Offsets]
    BY <1>1 DEF Neg
  <1>3. Neg(Neg(d)) = d
    BY <1>1 DEF Neg
  <1>4. Neg(d) # Here
    <2> SUFFICES ASSUME Neg(d) = Here PROVE d = Here
      BY DEF Dirs
    <2>1. \A a \in Axes : -d[a] = 0
      BY DEF Neg, Here
    <2>2. \A a \in Axes : d[a] = 0
      BY <1>1, <2>1 DEF Offsets
    <2> QED  BY <1>1, <2>2 DEF Here
  <1> QED  BY <1>1, <1>2, <1>3, <1>4 DEF Dirs, Neg

\* Every direction has a number of its own, as a tag and as an array index.
LEMMA DirNumbers ==
    ASSUME NEW d \in Dirs, NEW e \in Dirs
    PROVE  /\ Tag(d) \in 0..26 /\ Translate(d) \in 0..26
           /\ Tag(d) = Tag(e) => d = e
           /\ Translate(d) = Translate(e) => d = e
  <1>1. /\ d \in [Axes -> Offsets] /\ e \in [Axes -> Offsets]
        /\ d[1] \in Offsets /\ d[2] \in Offsets /\ d[3] \in Offsets
        /\ e[1] \in Offsets /\ e[2] \in Offsets /\ e[3] \in Offsets
    BY DEF Dirs, Axes
  <1>2. Tag(d) \in 0..26 /\ Translate(d) \in 0..26
    BY <1>1 DEF Tag, Translate, Offsets
  <1>3. d[1] = e[1] /\ d[2] = e[2] /\ d[3] = e[3] => d = e
    <2> SUFFICES ASSUME d[1] = e[1], d[2] = e[2], d[3] = e[3] PROVE d = e
      OBVIOUS
    <2>1. \A a \in Axes : d[a] = e[a]
      BY DEF Axes
    <2> QED  BY <1>1, <2>1
  <1>4. Tag(d) = Tag(e) => d[1] = e[1] /\ d[2] = e[2] /\ d[3] = e[3]
    BY <1>1 DEF Tag, Offsets
  <1>5. Translate(d) = Translate(e) => d[1] = e[1] /\ d[2] = e[2] /\ d[3] = e[3]
    BY <1>1 DEF Translate, Offsets
  <1> QED  BY <1>2, <1>3, <1>4, <1>5

\* Going round a periodic axis: one step up, none, one step down.
LEMMA Wrap ==
    ASSUME NEW n \in Nat \ {0}, NEW c \in 0..(n-1)
    PROVE  /\ (c + 0 + n) % n = c
           /\ (c + 1 + n) % n = IF c = n - 1 THEN 0 ELSE c + 1
           /\ (c + (-1) + n) % n = IF c = 0 THEN n - 1 ELSE c - 1
  OBVIOUS

LEMMA ProcCoords ==
    ASSUME NEW p \in Procs
    PROVE  \A a \in Axes : p[a] \in 0..(Dims[a] - 1)
  <1> SUFFICES ASSUME NEW a \in Axes PROVE p[a] \in 0..(Dims[a] - 1)
    OBVIOUS
  <1>1. p[a] \in Coords /\ p[a] < Dims[a]
    BY DEF Procs
  <1>2. PICK b \in Axes : p[a] \in 0..(Dims[b] - 1)
    BY <1>1 DEF Coords
  <1> QED  BY <1>1, <1>2, GridAssumption

\* The coordinate at an offset exists, and the opposite offset leads back.
LEMMA CoordBack ==
    ASSUME NEW a \in Axes, NEW c \in 0..(Dims[a] - 1), NEW i \in Offsets,
           Cyclic[a] \/ c + i \in 0..(Dims[a] - 1)
    PROVE  /\ CoordAlong(c, a, i) \in 0..(Dims[a] - 1)
           /\ CoordAlong(CoordAlong(c, a, i), a, -i) = c
           /\ Cyclic[a] \/ CoordAlong(c, a, i) + (-i) \in 0..(Dims[a] - 1)
  <1>1. Dims[a] \in Nat \ {0} /\ Cyclic[a] \in BOOLEAN
    BY GridAssumption
  <1>2. CASE ~Cyclic[a]
    BY <1>1, <1>2 DEF CoordAlong, Offsets
  <1>3. CASE Cyclic[a]
    <2> DEFINE n == Dims[a]
               x == IF i = 0 THEN c ELSE
                    IF i = 1 THEN (IF c = n - 1 THEN 0 ELSE c + 1)
                             ELSE (IF c = 0 THEN n - 1 ELSE c - 1)
    <2> HIDE DEF n
    <2>0. \A k \in 0..(n-1), j \in Offsets :
             CoordAlong(k, a, j) = IF j = 0 THEN k ELSE
                                   IF j = 1 THEN (IF k = n - 1 THEN 0 ELSE k + 1)
                                            ELSE (IF k = 0 THEN n - 1 ELSE k - 1)
      <3> SUFFICES ASSUME NEW k \in 0..(n-1), NEW j \in Offsets
                   PROVE  CoordAlong(k, a, j) = IF j = 0 THEN k ELSE
                                   IF j = 1 THEN (IF k = n - 1 THEN 0 ELSE k + 1)
                                            ELSE (IF k = 0 THEN n - 1 ELSE k - 1)
        OBVIOUS
      <3>1. n \in Nat \ {0}
        BY <1>1 DEF n
      <3>2. CoordAlong(k, a, j) = (k + j + n) % n
        BY <1>3 DEF CoordAlong, n
      <3>3. CASE j = 0
        BY <3>1, <3>2, <3>3, Wrap
      <3>4. CASE j = 1
        BY <3>1, <3>2, <3>4, Wrap
      <3>5. CASE j = -1
        <4>1. (k + (-1) + n) % n = IF k = 0 THEN n - 1 ELSE k - 1
          BY <3>1, Wrap
        <4> QED  BY <3>2, <3>5, <4>1
      <3> QED  BY <3>3, <3>4, <3>5 DEF Offsets
    <2>1. CoordAlong(c, a, i) = x
      BY <2>0 DEF n
    <2>2. x \in 0..(n-1)
      BY <1>1 DEF Offsets, n
    <2>3. CoordAlong(x, a, -i) = IF i = 0 THEN x ELSE
                    IF i = 1 THEN (IF x = 0 THEN n - 1 ELSE x - 1)
                             ELSE (IF x = n - 1 THEN 0 ELSE x + 1)
      <3> HIDE DEF x
      <3>1. -i \in Offsets /\ (-i = 0 <=> i = 0) /\ (-i = 1 <=> i = -1)
        BY DEF Offsets
      <3>2. i = 0 \/ i = 1 \/ i = -1
        BY DEF Offsets
      <3> QED  BY <2>0, <2>2, <3>1, <3>2
    <2>4. CoordAlong(x, a, -i) = c
      BY <1>1, <2>2, <2>3 DEF Offsets, n
    <2> HIDE DEF x
    <2> QED  BY <1>3, <2>1, <2>2, <2>4 DEF n
  <1> QED  BY <1>2, <1>3

(* Seen from the neighbour in direction d, a process is the neighbour in the *)
(* opposite direction: what one sends towards d the other expects from -d,   *)
(* on open and on periodic axes, also those one or two processes wide.       *)
THEOREM NeighbourBack ==
    ASSUME NEW p \in Procs, NEW d \in Dirs, HasNbr(p, d)
    PROVE  /\ NbrCoords(p, d) \in Procs
           /\ HasNbr(NbrCoords(p, d), Neg(d))
           /\ NbrCoords(NbrCoords(p, d), Neg(d)) = p
  <1> DEFINE q == NbrCoords(p, d)
  <1>1. \A a \in Axes : /\ p[a] \in 0..(Dims[a] - 1) /\ d[a] \in Offsets
                        /\ Cyclic[a] \/ p[a] + d[a] \in 0..(Dims[a] - 1)
                        /\ q[a] = CoordAlong(p[a], a, d[a]) /\ Neg(d)[a] = -d[a]
    BY ProcCoords, DirFacts DEF HasNbr, NbrCoords
  <1>2. \A a \in Axes : /\ q[a] \in 0..(Dims[a] - 1)
                        /\ CoordAlong(q[a], a, -d[a]) = p[a]
                        /\ Cyclic[a] \/ q[a] + (-d[a]) \in 0..(Dims[a] - 1)
    BY <1>1, CoordBack
  <1>3. q \in Procs
    <2>1. \A a \in Axes : q[a] \in Coords /\ q[a] < Dims[a]
      BY <1>2, GridAssumption DEF Coords
    <2> QED  BY <2>1 DEF NbrCoords, Procs
  <1>4. HasNbr(q, Neg(d))
    BY <1>1, <1>2 DEF HasNbr
  <1>5. NbrCoords(q, Neg(d)) = p
    <2>1. p \in [Axes -> Coords]
      BY DEF Procs
    <2>2. \A a \in Axes : NbrCoords(q, Neg(d))[a] = p[a]
      BY <1>1, <1>2 DEF NbrCoords
    <2> QED  BY <2>1, <2>2 DEF NbrCoords
  <1> QED  BY <1>3, <1>4, <1>5

-----------------------------------------------------------------------------
(* Induction on the natural numbers, with a set in place of a predicate: the *)
(* intervals 0..n are finite sets, which have no infinite descent.           *)
\* A set of natural numbers that is not empty has a least element.
LEMMA LeastNatural ==
    ASSUME NEW T \in SUBSET Nat, T # {}
    PROVE  \E m \in T : \A k \in T : m <= k
  <1> DEFINE I(n) == 0..n
             TT == { I(n) : n \in T }
             R == StrictSubsetOrdering(Nat)
  <1>1. TT \subseteq FiniteSubsetsOf(Nat)
    <2> SUFFICES ASSUME NEW n \in T PROVE I(n) \in FiniteSubsetsOf(Nat)
      OBVIOUS
    <2>1. n \in Int /\ 0 \in Int /\ 0..n \in SUBSET Nat
      OBVIOUS
    <2>2. IsFiniteSet(0..n)
      BY <2>1, FS_Interval
    <2> QED  BY <2>1, <2>2 DEF FiniteSubsetsOf
  <1>2. TT # {}
    OBVIOUS
  <1>3. IsWellFoundedOn(R, FiniteSubsetsOf(Nat))
    BY FS_StrictSubsetOrderingWellFounded
  <1>4. PICK x \in TT : \A y \in TT : ~ (<<y, x>> \in R)
    <2> HIDE DEF R, TT
    <2> QED  BY <1>1, <1>2, <1>3, WFMin
  <1>5. PICK m \in T : x = I(m)
    OBVIOUS
  <1>6. ASSUME NEW k \in T, k < m PROVE FALSE
    <2>1. I(k) \in TT
      OBVIOUS
    <2>2. I(k) \subseteq I(m) /\ I(k) # I(m)
      <3>1. m \in I(m) /\ m \notin I(k)
        BY <1>6
      <3> QED  BY <1>6, <3>1
    <2>3. <<I(k), x>> \in R
      BY <2>2, <1>5 DEF StrictSubsetOrdering
    <2> QED  BY <2>1, <2>3, <1>4
  <1> QED  BY <1>6

\* A set with zero and the successor of all its elements has all numbers.
LEMMA SetInduction ==
    ASSUME NEW S, 0 \in S, \A n \in Nat : n \in S => n + 1 \in S
    PROVE  Nat \subseteq S
  <1> SUFFICES ASSUME Nat \ S # {} PROVE FALSE
    OBVIOUS
  <1>1. PICK m \in Nat \ S : \A k \in Nat \ S : m <= k
    BY LeastNatural
  <1>2. m - 1 \in Nat /\ m - 1 \in S
    BY <1>1
  <1> QED  BY <1>1, <1>2
-----------------------------------------------------------------------------
(* Sequences of sequences.                                                   *)
\* The elements of two sequences one after the other.
LEMMA ToSetConcat ==
    ASSUME NEW S, NEW s \in Seq(S), NEW t \in Seq(S)
    PROVE  ToSet(s \o t) = ToSet(s) \cup ToSet(t)
  <1>1. ASSUME NEW k \in 1..Len(s) + Len(t)
        PROVE  (s \o t)[k] \in ToSet(s) \cup ToSet(t)
    <2>1. CASE k <= Len(s)
      BY <2>1 DEF ToSet
    <2>2. CASE k > Len(s)
      <3>1. (s \o t)[k] = t[k - Len(s)] /\ k - Len(s) \in DOMAIN t
        BY <2>2
      <3> QED  BY <3>1 DEF ToSet
    <2> QED  BY <2>1, <2>2
  <1>2. ASSUME NEW i \in 1..Len(s) PROVE s[i] \in ToSet(s \o t)
    <2>1. s[i] = (s \o t)[i] /\ i \in DOMAIN (s \o t)
      OBVIOUS
    <2> QED  BY <2>1 DEF ToSet
  <1>3. ASSUME NEW i \in 1..Len(t) PROVE t[i] \in ToSet(s \o t)
    <2>1. t[i] = (s \o t)[Len(s) + i] /\ Len(s) + i \in DOMAIN (s \o t)
      OBVIOUS
    <2> QED  BY <2>1 DEF ToSet
  <1>4. DOMAIN (s \o t) = 1..Len(s) + Len(t) /\ DOMAIN s = 1..Len(s) /\ DOMAIN t = 1..Len(t)
    OBVIOUS
  <1>5. ToSet(s \o t) \subseteq ToSet(s) \cup ToSet(t)
    BY <1>1, <1>4 DEF ToSet
  <1>6. ToSet(s) \subseteq ToSet(s \o t) /\ ToSet(t) \subseteq ToSet(s \o t)
    BY <1>2, <1>3, <1>4 DEF ToSet
  <1> QED  BY <1>5, <1>6

\* FlattenSeq appends one sequence after the other.
LEMMA FlattenSteps ==
    ASSUME NEW S, NEW seqs \in Seq(Seq(S)), seqs # <<>>
    PROVE  \E f \in [1..Len(seqs) -> Seq(S)] :
              /\ f[1] = seqs[1] /\ \A i \in 1..Len(seqs) : i # 1 => f[i] = f[i - 1] \o seqs[i]
              /\ FlattenSeq(seqs) = f[Len(seqs)]
  <1> DEFINE L == Len(seqs)
             Term(f, i) == IF i = 1 THEN seqs[i] ELSE f[i - 1] \o seqs[i]
             Eq(f) == f = [i \in 1..L |-> Term(f, i)]
             f0 == CHOOSE f : Eq(f)
             Rec(n, f) == \A i \in 1..n : f[i] = Term(f, i)
             P(n) == n <= L => \E f \in [1..n -> Seq(S)] : Rec(n, f)
             X == { n \in Nat : P(n) }
  <1>0. L \in Nat /\ L # 0 /\ \A i \in 1..L : seqs[i] \in Seq(S)
    OBVIOUS
  <1>1. P(0)
    <2>1. [i \in 1..0 |-> <<>>] \in [1..0 -> Seq(S)] /\ Rec(0, [i \in 1..0 |-> <<>>])
      OBVIOUS
    <2> QED  BY <2>1
  <1>2. ASSUME NEW n \in Nat, P(n) PROVE P(n + 1)
    <2> SUFFICES ASSUME n + 1 <= L PROVE \E g \in [1..n+1 -> Seq(S)] : Rec(n + 1, g)
      OBVIOUS
    <2>1. PICK f \in [1..n -> Seq(S)] : Rec(n, f)
      <3> HIDE DEF Rec
      <3> QED  BY <1>0, <1>2
    <2> DEFINE g == [i \in 1..n+1 |-> IF i <= n THEN f[i] ELSE Term(f, i)]
    <2>2. seqs[n+1] \in Seq(S) /\ (n # 0 => f[n] \in Seq(S))
      BY <1>0
    <2>3. Term(f, n + 1) \in Seq(S)
      BY <2>2
    <2>4. g \in [1..n+1 -> Seq(S)]
      <3> HIDE DEF Term
      <3> QED  BY <2>3
    <2>5. ASSUME NEW i \in 1..n+1 PROVE g[i] = Term(g, i)
      <3>1. i # 1 => i - 1 \in 1..n
        OBVIOUS
      <3>2. Term(g, i) = Term(f, i)
        BY <3>1
      <3> HIDE DEF Term
      <3>3. i <= n => f[i] = Term(f, i)
        BY <2>1
      <3> QED  BY <3>2, <3>3
    <2> HIDE DEF g, Term
    <2> QED  BY <2>4, <2>5
  <1> HIDE DEF P
  <1>3. 0 \in X /\ \A n \in Nat : n \in X => n + 1 \in X
    BY <1>1, <1>2
  <1> HIDE DEF X
  <1>4. L \in X
    BY <1>0, <1>3, SetInduction
  <1>5. PICK f \in [1..L -> Seq(S)] : \A i \in 1..L : f[i] = Term(f, i)
    BY <1>0, <1>4 DEF X, P
  <1>6. Eq(f)
    BY <1>5
  <1>7. Eq(f0)
    BY <1>6
  <1>8. FlattenSeq(seqs) = f0[L]
    BY DEF FlattenSeq
  <1> HIDE DEF f0
  <1>9. f0[1] = seqs[1] /\ \A i \in 1..L : i # 1 => f0[i] = f0[i - 1] \o seqs[i]
    <2>1. \A i \in 1..L : f0[i] = Term(f0, i)
      <3> HIDE DEF Term
      <3> QED  BY <1>7
    <2>2. 1 \in 1..L
      BY <1>0
    <2> QED  BY <2>1, <2>2
  <1> DEFINE Y == { n \in Nat : n \in 1..L => f0[n] \in Seq(S) }
  <1>10. 0 \in Y
    OBVIOUS
  <1>11. ASSUME NEW n \in Nat, n \in Y PROVE n + 1 \in Y
    <2> SUFFICES ASSUME n + 1 \in 1..L PROVE f0[n + 1] \in Seq(S)
      OBVIOUS
    <2>1. CASE n = 0
      BY <1>0, <1>9, <2>1
    <2>2. CASE n # 0
      <3>1. f0[n + 1] = f0[n] \o seqs[n + 1]
        <4>1. n + 1 # 1 /\ (n + 1) - 1 = n
          BY <2>2
        <4> QED  BY <1>9, <4>1
      <3>2. f0[n] \in Seq(S) /\ seqs[n + 1] \in Seq(S)
        BY <1>0, <1>11, <2>2
      <3> QED  BY <3>1, <3>2
    <2> QED  BY <2>1, <2>2
  <1> HIDE DEF Y
  <1>12. \A n \in 1..L : f0[n] \in Seq(S)
    <2>1. Nat \subseteq Y
      BY <1>10, <1>11, SetInduction
    <2> QED  BY <2>1 DEF Y
  <1>13. f0 \in [1..L -> Seq(S)]
    <2> HIDE DEF Term
    <2>1. f0 = [i \in 1..L |-> f0[i]]
      BY <1>7
    <2> QED  BY <1>12, <2>1
  <1> QED  BY <1>8, <1>9, <1>13

\* It gives a sequence of the elements of all its sequences.
LEMMA Flatten ==
    ASSUME NEW S, NEW seqs \in Seq(Seq(S))
    PROVE  /\ FlattenSeq(seqs) \in Seq(S)
           /\ ToSet(FlattenSeq(seqs)) = UNION { ToSet(seqs[i]) : i \in DOMAIN seqs }
  <1> DEFINE L == Len(seqs)
             Of(n) == UNION { ToSet(seqs[i]) : i \in 1..n }
  <1>0. L \in Nat /\ DOMAIN seqs = 1..L /\ \A i \in 1..L : seqs[i] \in Seq(S)
    OBVIOUS
  <1>1. CASE seqs = <<>>
    <2>1. FlattenSeq(seqs) = <<>> /\ DOMAIN seqs = {}
      BY <1>0, <1>1 DEF FlattenSeq
    <2> QED  BY <2>1 DEF ToSet
  <1>2. CASE seqs # <<>>
    <2>1. PICK f \in [1..L -> Seq(S)] :
              /\ f[1] = seqs[1] /\ \A i \in 1..L : i # 1 => f[i] = f[i - 1] \o seqs[i]
              /\ FlattenSeq(seqs) = f[L]
      BY <1>2, FlattenSteps
    <2> DEFINE Y == { n \in Nat : n \in 1..L => ToSet(f[n]) = Of(n) }
    <2>2. 0 \in Y
      OBVIOUS
    <2>3. ASSUME NEW n \in Nat, n \in Y PROVE n + 1 \in Y
      <3> SUFFICES ASSUME n + 1 \in 1..L PROVE ToSet(f[n+1]) = Of(n+1)
        OBVIOUS
      <3>1. CASE n = 0
        <4>1. f[n+1] = seqs[n+1] /\ 1..n+1 = {n+1}
          BY <2>1, <3>1
        <4> QED  BY <4>1
      <3>2. CASE n # 0
        <4>1. f[n+1] = f[n] \o seqs[n+1]
          <5>1. n + 1 # 1 /\ (n + 1) - 1 = n
            BY <3>2
          <5> QED  BY <5>1, <2>1
        <4>2. f[n] \in Seq(S) /\ seqs[n+1] \in Seq(S) /\ ToSet(f[n]) = Of(n)
          BY <1>0, <2>1, <2>3, <3>2
        <4>3. ToSet(f[n] \o seqs[n+1]) = ToSet(f[n]) \cup ToSet(seqs[n+1])
          BY <4>2, ToSetConcat
        <4>4. Of(n+1) = Of(n) \cup ToSet(seqs[n+1])
          <5>1. 1..n+1 = (1..n) \cup {n+1}
            OBVIOUS
          <5> QED  BY <5>1
        <4> QED  BY <4>1, <4>2, <4>3, <4>4
      <3> QED  BY <3>1, <3>2
    <2> HIDE DEF Y
    <2>4. L \in Y
      BY <1>0, <2>2, <2>3, SetInduction
    <2>5. L \in 1..L
      BY <1>0, <1>2
    <2>6. ToSet(f[L]) = Of(L) /\ f[L] \in Seq(S)
      BY <2>1, <2>4, <2>5 DEF Y
    <2> HIDE DEF L
    <2> QED  BY <1>0, <2>1, <2>6
  <1> QED  BY <1>1, <1>2

\* The i-th of them begins after p[i] elements.
LEMMA FlattenAt ==
    ASSUME NEW S, NEW seqs \in Seq(Seq(S)), seqs # <<>>,
           NEW p, p[1] = 0, \A i \in 1..Len(seqs) - 1 : p[i + 1] = p[i] + Len(seqs[i])
    PROVE  /\ FlattenSeq(seqs) \in Seq(S)
           /\ \A i \in 1..Len(seqs) : \A j \in 1..Len(seqs[i]) :
                 p[i] + j \in 1..Len(FlattenSeq(seqs)) /\ FlattenSeq(seqs)[p[i] + j] = seqs[i][j]
           /\ \A n \in 1..Len(FlattenSeq(seqs)) : \E i \in 1..Len(seqs) : \E j \in 1..Len(seqs[i]) : n = p[i] + j
           /\ \A i \in 1..Len(seqs) : \A j \in 1..i - 1 : p[j] + Len(seqs[j]) <= p[i]
  <1> DEFINE L == Len(seqs)
             l(i) == Len(seqs[i])
  <1>0. L \in Nat \ {0} /\ \A i \in 1..L : seqs[i] \in Seq(S) /\ l(i) \in Nat
    OBVIOUS
  <1>1. PICK f \in [1..L -> Seq(S)] :
            /\ f[1] = seqs[1] /\ \A i \in 1..L : i # 1 => f[i] = f[i - 1] \o seqs[i]
            /\ FlattenSeq(seqs) = f[L]
    BY FlattenSteps
  <1> DEFINE Good(n) == /\ \A i \in 1..n : p[i] \in Nat
                        /\ Len(f[n]) = p[n] + l(n)
                        /\ \A i \in 1..n : \A j \in 1..l(i) : p[i] + j \in 1..Len(f[n]) /\ f[n][p[i] + j] = seqs[i][j]
                        /\ \A m \in 1..Len(f[n]) : \E i \in 1..n : \E j \in 1..l(i) : m = p[i] + j
                        /\ \A i \in 1..n - 1 : p[i] + l(i) <= p[n]
             Y == { n \in Nat : n \in 1..L => Good(n) }
  <1>2. 0 \in Y
    OBVIOUS
  <1>3. ASSUME NEW n \in Nat, n \in Y PROVE n + 1 \in Y
    <2> SUFFICES ASSUME n + 1 \in 1..L PROVE Good(n + 1)
      OBVIOUS
    <2>1. CASE n = 0
      <3>1. n + 1 = 1 /\ f[1] = seqs[1] /\ 1..1 = {1}
        BY <1>1, <2>1
      <3>2. seqs[1] \in Seq(S) /\ Len(seqs[1]) \in Nat
        BY <1>0
      <3>3. Good(1)
        BY <3>1, <3>2
      <3> QED  BY <3>1, <3>3
    <2>2. CASE n # 0
      <3> DEFINE s == f[n]
                 t == seqs[n + 1]
                 u == f[n + 1]
      <3>1. n + 1 # 1 /\ (n + 1) - 1 = n /\ n \in 1..L /\ n \in 1..L - 1
        BY <1>0, <2>2
      <3>2. u = s \o t /\ s \in Seq(S) /\ t \in Seq(S)
        BY <1>0, <1>1, <3>1
      <3>3. Good(n)
        BY <1>3, <3>1
      <3>4. p[n + 1] = p[n] + l(n)
        BY <3>1
      <3>5. l(n) \in Nat /\ l(n + 1) = Len(t) /\ Len(t) \in Nat /\ Len(s) = p[n] + l(n) /\ p[n] \in Nat
        BY <1>0, <3>1, <3>3
      <3> HIDE DEF l, s, t, u
      <3>6. /\ Len(u) = Len(s) + Len(t)
            /\ \A i \in 1..Len(s) + Len(t) : u[i] = IF i <= Len(s) THEN s[i] ELSE t[i - Len(s)]
        BY <3>2, ConcatProperties
      <3>7. p[n + 1] \in Nat /\ Len(u) = p[n + 1] + l(n + 1) /\ p[n + 1] = Len(s)
        BY <3>4, <3>5, <3>6
      <3>8. ASSUME NEW i \in 1..n + 1, NEW j \in 1..l(i)
            PROVE  p[i] + j \in 1..Len(u) /\ u[p[i] + j] = seqs[i][j]
        <4>1. CASE i = n + 1
          <5>1. p[i] + j \in 1..Len(u) /\ ~ (p[i] + j <= Len(s)) /\ (p[i] + j) - Len(s) = j
            <6> DEFINE q == p[n + 1]
                       m == l(n + 1)
            <6>1. q \in Nat /\ m \in Nat /\ Len(u) = q + m /\ q = Len(s) /\ j \in 1..m /\ p[i] = q
              BY <3>5, <3>7, <4>1
            <6> HIDE DEF q, m
            <6> QED  BY <6>1
          <5>2. u[p[i] + j] = t[(p[i] + j) - Len(s)]
            BY <3>6, <5>1
          <5> QED  BY <4>1, <5>1, <5>2 DEF t
        <4>2. CASE i # n + 1
          <5>1. i \in 1..n
            BY <4>2
          <5>2. p[i] + j \in 1..Len(s) /\ s[p[i] + j] = seqs[i][j]
            BY <3>3, <5>1 DEF s
          <5>3. p[i] + j \in 1..Len(u) /\ p[i] + j \in 1..Len(s) + Len(t) /\ p[i] + j <= Len(s)
            <6> DEFINE q == p[i] + j
                       a == Len(s)
                       b == Len(t)
            <6>1. q \in 1..a /\ a \in Nat /\ b \in Nat /\ Len(u) = a + b
              BY <3>2, <3>5, <3>6, <5>2
            <6> HIDE DEF q, a, b
            <6>2. q \in 1..a + b /\ q <= a
              BY <6>1
            <6> QED  BY <6>1, <6>2 DEF q, a, b
          <5> QED  BY <3>6, <5>2, <5>3
        <4> QED  BY <4>1, <4>2
      <3>9. ASSUME NEW m \in 1..Len(u) PROVE \E i \in 1..n + 1 : \E j \in 1..l(i) : m = p[i] + j
        <4>1. CASE m <= Len(s)
          <5>1. m \in 1..Len(s)
            BY <3>5, <4>1
          <5>2. \E i \in 1..n : \E j \in 1..l(i) : m = p[i] + j
            BY <3>3, <5>1 DEF s
          <5> QED  BY <5>2
        <4>2. CASE ~ (m <= Len(s))
          <5> DEFINE q == p[n + 1]
                     b == l(n + 1)
          <5>1. q \in Nat /\ b \in Nat /\ m \in 1..q + b /\ ~ (m <= q)
            BY <3>5, <3>7, <4>2
          <5> HIDE DEF q, b
          <5>2. m - q \in 1..b /\ m = q + (m - q)
            BY <5>1
          <5> QED  BY <5>2 DEF q, b
        <4> QED  BY <4>1, <4>2
      <3>10. ASSUME NEW i \in 1..n PROVE p[i] + l(i) <= p[n + 1]
        <4>1. CASE i = n
          BY <3>4, <3>5, <3>7, <4>1
        <4>2. CASE i # n
          <5>1. p[i] + l(i) <= p[n] /\ i \in 1..n - 1
            BY <3>3, <4>2
          <5>2. p[n] <= p[n + 1]
            BY <3>4, <3>5
          <5>3. p[i] \in Nat /\ l(i) \in Nat
            <6>1. i \in 1..L
              BY <1>0, <3>1
            <6>2. l(i) \in Nat
              BY <1>0, <6>1 DEF l
            <6> QED  BY <6>2, <3>3
          <5> DEFINE x == p[i]
                     y == l(i)
                     q == p[n]
                     r == p[n + 1]
          <5>4. x \in Nat /\ y \in Nat /\ q \in Nat /\ r \in Nat /\ x + y <= q /\ q <= r
            BY <3>5, <3>7, <5>1, <5>2, <5>3
          <5> HIDE DEF x, y, q, r
          <5>5. x + y <= r
            BY <5>4
          <5> QED  BY <5>5 DEF x, y, r
        <4> QED  BY <4>1, <4>2
      <3>11. \A i \in 1..n + 1 : p[i] \in Nat
        BY <3>3, <3>7
      <3>12. (n + 1) - 1 = n
        BY <3>1
      <3> HIDE DEF l
      <3> QED  BY <3>7, <3>8, <3>9, <3>10, <3>11, <3>12 DEF u
    <2> QED  BY <2>1, <2>2
  <1> HIDE DEF Y
  <1>4. Nat \subseteq Y
    BY <1>2, <1>3, SetInduction
  <1>5. \A n \in 1..L : Good(n)
    <2> HIDE DEF Good
    <2> QED  BY <1>0, <1>4 DEF Y
  <1>6. L \in 1..L
    BY <1>0
  <1>7. /\ \A i \in 1..L : \A j \in 1..Len(seqs[i]) : p[i] + j \in 1..Len(f[L]) /\ f[L][p[i] + j] = seqs[i][j]
        /\ \A n \in 1..Len(f[L]) : \E i \in 1..L : \E j \in 1..Len(seqs[i]) : n = p[i] + j
    <2>1. Good(L)
      BY <1>5, <1>6
    <2> HIDE DEF L
    <2> QED  BY <2>1
  <1>8. \A i \in 1..L : \A j \in 1..i - 1 : p[j] + Len(seqs[j]) <= p[i]
    <2> HIDE DEF L
    <2> QED  BY <1>5
  <1>9. f[L] \in Seq(S)
    BY <1>6
  <1> HIDE DEF L, Good
  <1> QED  BY <1>1, <1>7, <1>8, <1>9 DEF L
=============================================================================
