---------------------------- MODULE StencilProofs ----------------------------
(* Proofs about stencil computations, for every computation, backend and size. *)
EXTENDS StencilExecution, ProcGridProofs

IsSeq(s) == s \in Seq(ToSet(s))

LEMMA SeqFacts ==
    ASSUME NEW s, IsSeq(s)
    PROVE  /\ Len(s) \in Nat /\ DOMAIN s = 1 .. Len(s)
           /\ s = <<>> <=> Len(s) = 0
           /\ s # <<>> => /\ Head(s) = s[1] /\ Tail(s) \in Seq(ToSet(s)) /\ Len(Tail(s)) = Len(s) - 1
                          /\ \A n \in 1 .. Len(s) - 1 : Tail(s)[n] = s[n + 1]
  <1> DEFINE T == ToSet(s)
  <1>1. s \in Seq(T)
    BY DEF IsSeq
  <1> HIDE DEF T
  <1>2. /\ Len(s) \in Nat /\ DOMAIN s = 1 .. Len(s)
        /\ s = <<>> <=> Len(s) = 0
        /\ s # <<>> => /\ Head(s) = s[1] /\ Tail(s) \in Seq(T) /\ Len(Tail(s)) = Len(s) - 1
                       /\ \A n \in 1 .. Len(s) - 1 : Tail(s)[n] = s[n + 1]
    BY <1>1, HeadTailProperties, EmptySeq
  <1> QED  BY <1>2 DEF T

\* A sequence with elements of a set is one of its own elements.
LEMMA IsSeqOf ==
    ASSUME NEW S, NEW s \in Seq(S)
    PROVE  IsSeq(s)
  <1>1. Len(s) \in Nat /\ DOMAIN s = 1 .. Len(s) /\ s = [n \in 1 .. Len(s) |-> s[n]]
    OBVIOUS
  <1>2. \A n \in 1 .. Len(s) : s[n] \in ToSet(s)
    BY <1>1 DEF ToSet
  <1>3. s \in [1 .. Len(s) -> ToSet(s)]
    BY <1>1, <1>2
  <1> QED  BY <1>1, <1>3, SeqDef DEF IsSeq

(***************************************************************************)
(* Recursive functions on numbers: there is one that follows its rule.     *)
(***************************************************************************)
Follows(f, T, base, L, step) ==
    f \in [0 .. L -> T] /\ f[0] = base /\ \A n \in 1 .. L : f[n] = step[<<f[n - 1], n>>]

LEMMA Iterate ==
    ASSUME NEW T, NEW base \in T, NEW L \in Nat, NEW step \in [T \X (1 .. L) -> T]
    PROVE  \E f : Follows(f, T, base, L, step)
  <1> DEFINE Rec(n, f) == f[0] = base /\ \A i \in 1 .. n : f[i] = step[<<f[i - 1], i>>]
             P(n) == n <= L => \E f \in [0 .. n -> T] : Rec(n, f)
             X == {n \in Nat : P(n)}
  <1>1. P(0)
    <2>1. [i \in 0 .. 0 |-> base] \in [0 .. 0 -> T] /\ Rec(0, [i \in 0 .. 0 |-> base])
      OBVIOUS
    <2> QED  BY <2>1
  <1>2. ASSUME NEW n \in Nat, P(n) PROVE P(n + 1)
    <2> SUFFICES ASSUME n + 1 <= L PROVE \E g \in [0 .. n + 1 -> T] : Rec(n + 1, g)
      OBVIOUS
    <2>1. PICK f \in [0 .. n -> T] : Rec(n, f)
      <3> HIDE DEF Rec
      <3> QED  BY <1>2
    <2> DEFINE g == [i \in 0 .. n + 1 |-> IF i <= n THEN f[i] ELSE step[<<f[n], n + 1>>]]
    <2>2. f[n] \in T /\ n + 1 \in 1 .. L
      OBVIOUS
    <2>3. step[<<f[n], n + 1>>] \in T
      BY <2>2
    <2>4. g \in [0 .. n + 1 -> T]
      BY <2>3
    <2>5. g[0] = base
      BY <2>1
    <2>6. ASSUME NEW i \in 1 .. n + 1 PROVE g[i] = step[<<g[i - 1], i>>]
      <3>1. i - 1 \in 0 .. n /\ g[i - 1] = f[i - 1]
        OBVIOUS
      <3>2. CASE i <= n
        BY <2>1, <3>1, <3>2
      <3>3. CASE i = n + 1
        BY <3>1, <3>3
      <3> QED  BY <3>2, <3>3
    <2> HIDE DEF g
    <2> QED  BY <2>4, <2>5, <2>6
  <1> HIDE DEF P
  <1>3. 0 \in X /\ \A n \in Nat : n \in X => n + 1 \in X
    BY <1>1, <1>2
  <1> HIDE DEF X
  <1>4. L \in X
    BY <1>3, SetInduction
  <1> QED  BY <1>4 DEF X, P, Follows

\* A finite set of numbers has a smallest and a largest one.
LEMMA FiniteBounds ==
    ASSUME NEW S \in SUBSET Int, IsFiniteSet(S), S # {}
    PROVE  /\ Min(S) \in S /\ \A y \in S : Min(S) <= y
           /\ Max(S) \in S /\ \A y \in S : Max(S) >= y
  <1>1. PICK n \in Nat : ExistsBijection(1 .. n, S)
    BY FS_NatBijection
  <1>2. PICK f \in Bijection(1 .. n, S) : TRUE
    BY <1>1 DEF ExistsBijection
  <1>3. f \in [1 .. n -> S] /\ \A y \in S : \E i \in 1 .. n : f[i] = y
    BY <1>2 DEF Bijection, Injection, Surjection
  <1> DEFINE P(m) == m \in 1 .. n => \E i, j \in 1 .. m : \A k \in 1 .. m : f[i] <= f[k] /\ f[k] <= f[j]
             X == {m \in Nat : P(m)}
  <1>4. 0 \in X
    OBVIOUS
  <1>5. ASSUME NEW m \in Nat, m \in X PROVE m + 1 \in X
    <2> SUFFICES ASSUME m + 1 \in 1 .. n
                 PROVE  \E i, j \in 1 .. m + 1 : \A k \in 1 .. m + 1 : f[i] <= f[k] /\ f[k] <= f[j]
      OBVIOUS
    <2>0. \A k \in 1 .. n : f[k] \in Int
      BY <1>3
    <2>1. CASE m = 0
      <3>1. 1 \in 1 .. m + 1 /\ \A k \in 1 .. m + 1 : k = 1
        BY <2>1
      <3>2. f[1] <= f[1]
        BY <2>0, <2>1
      <3> QED  BY <3>1, <3>2
    <2>2. CASE m # 0
      <3>1. PICK i \in 1 .. m, j \in 1 .. m : \A k \in 1 .. m : f[i] <= f[k] /\ f[k] <= f[j]
        BY <1>5, <2>2
      <3> DEFINE p == IF f[m + 1] < f[i] THEN m + 1 ELSE i
                 q == IF f[m + 1] > f[j] THEN m + 1 ELSE j
      <3>2. p \in 1 .. m + 1 /\ q \in 1 .. m + 1 /\ f[i] \in Int /\ f[j] \in Int /\ f[m + 1] \in Int
        BY <2>0
      <3>3. ASSUME NEW k \in 1 .. m + 1 PROVE f[p] <= f[k] /\ f[k] <= f[q]
        <4>1. CASE k = m + 1
          BY <3>2, <4>1
        <4>2. CASE k \in 1 .. m
          <5>1. f[k] \in Int /\ f[i] <= f[k] /\ f[k] <= f[j]
            BY <2>0, <3>1, <4>2
          <5> QED  BY <3>2, <5>1
        <4> QED  BY <4>1, <4>2
      <3> HIDE DEF p, q
      <3> QED  BY <3>2, <3>3
    <2> QED  BY <2>1, <2>2
  <1> HIDE DEF X
  <1>6. n \in X
    BY <1>4, <1>5, SetInduction
  <1>7. n \in 1 .. n
    <2>1. PICK y \in S : TRUE
      OBVIOUS
    <2>2. PICK i \in 1 .. n : f[i] = y
      BY <1>3
    <2> QED  BY <2>2
  <1>8. PICK i \in 1 .. n, j \in 1 .. n : \A k \in 1 .. n : f[i] <= f[k] /\ f[k] <= f[j]
    BY <1>6, <1>7 DEF X
  <1>9. f[i] \in S /\ f[j] \in S /\ \A y \in S : f[i] <= y /\ f[j] >= y
    BY <1>3, <1>8
  <1> QED  BY <1>9 DEF Min, Max

\* The values of a function on a finite set are finite.
LEMMA FiniteImage ==
    ASSUME NEW S, IsFiniteSet(S), NEW f
    PROVE  IsFiniteSet({f[x] : x \in S})
  <1> DEFINE T == {f[x] : x \in S}
             g == [x \in S |-> f[x]]
  <1>1. g \in Surjection(S, T)
    BY DEF Surjection
  <1> QED  BY <1>1, FS_Surjection DEF ExistsSurjection

\* A loop over a sequence makes a sequence; every element belongs to a round, in order.
LEMMA FlattenIsSeq ==
    ASSUME NEW n \in Int, NEW f, f = [i \in 1 .. n |-> f[i]], \A i \in 1 .. n : IsSeq(f[i])
    PROVE  /\ IsSeq(FlattenSeq(f))
           /\ ToSet(FlattenSeq(f)) = UNION {ToSet(f[i]) : i \in 1 .. n}
           /\ n > 0 => f \in Seq(Seq(UNION {ToSet(f[i]) : i \in 1 .. n})) /\ f # <<>> /\ Len(f) = n
           /\ n <= 0 => FlattenSeq(f) = <<>>
  <1> DEFINE S == UNION {ToSet(f[i]) : i \in 1 .. n}
             L == IF n > 0 THEN n ELSE 0
  <1>1. ASSUME NEW i \in 1 .. n PROVE f[i] \in Seq(S)
    <2>1. ToSet(f[i]) \subseteq S
      OBVIOUS
    <2>2. f[i] \in Seq(ToSet(f[i]))
      BY DEF IsSeq
    <2> HIDE DEF S
    <2> QED  BY <2>1, <2>2, SeqMonotonic
  <1>2. L \in Nat /\ 1 .. L = 1 .. n
    OBVIOUS
  <1> HIDE DEF L, S
  <1>3. f \in [1 .. L -> Seq(S)]
    BY <1>1, <1>2
  <1>4. f \in Seq(Seq(S)) /\ DOMAIN f = 1 .. L
    <2>1. f \in Seq(Seq(S))
      BY <1>2, <1>3, SeqDef
    <2> QED  BY <1>3, <2>1
  <1>5. Len(f) = L
    <2> DEFINE k == Len(f)
    <2>1. k \in Nat /\ DOMAIN f = 1 .. k
      BY <1>4, LenProperties
    <2> HIDE DEF k
    <2>2. 1 .. k = 1 .. L
      BY <1>4, <2>1
    <2>3. k = L
      BY <1>2, <2>1, <2>2
    <2> QED  BY <2>3 DEF k
  <1>6. FlattenSeq(f) \in Seq(S) /\ ToSet(FlattenSeq(f)) = UNION {ToSet(f[i]) : i \in 1 .. n}
    BY <1>2, <1>4, Flatten
  <1>7. n > 0 => L = n /\ f # <<>>
    <2> SUFFICES ASSUME n > 0 PROVE L = n /\ f # <<>>
      OBVIOUS
    <2>1. L = n
      BY DEF L
    <2>2. Len(f) # 0
      BY <1>5, <2>1
    <2> QED  BY <2>1, <2>2
  <1>8. n <= 0 => FlattenSeq(f) = <<>>
    <2> SUFFICES ASSUME n <= 0 PROVE FlattenSeq(f) = <<>>
      OBVIOUS
    <2>1. L = 0
      BY DEF L
    <2>2. f = <<>>
      BY <1>4, <1>5, <2>1, EmptySeq
    <2> QED  BY <2>2 DEF FlattenSeq
  <1>9. IsSeq(FlattenSeq(f))
    BY <1>6, IsSeqOf
  <1> QED  BY <1>4, <1>5, <1>6, <1>7, <1>8, <1>9 DEF S

(***************************************************************************)
(* From the order of the items to every interleaving.                      *)
(***************************************************************************)
\* What the proofs need to know of a program: its work is made of sequences of items.
WellFormed(x) ==
    /\ Len(x.launches) \in Nat /\ DOMAIN x.work = 1 .. Len(x.launches)
    /\ \A l \in DOMAIN x.work : \A w \in DOMAIN x.work[l] :
          /\ IsSeq(x.work[l][w])
          /\ \A n \in DOMAIN x.work[l][w] : x.work[l][w][n].phase \in Nat

HasDone(x, w) == Len(x.work[launch][w]) - Len(work[w])

Done(x, a) == a[1] < launch \/ (a[1] = launch /\ a[3] <= HasDone(x, a[2]))

\* What is left of a worker's items are the last ones.
Progress(x) ==
    /\ launch \in 0 .. Len(x.launches)
    /\ launch = 0 => work = <<>> /\ mem = <<>>
    /\ launch # 0 =>
          /\ DOMAIN work = DOMAIN x.work[launch]
          /\ \A w \in DOMAIN x.work[launch] :
                /\ IsSeq(work[w]) /\ Len(work[w]) <= Len(x.work[launch][w])
                /\ \A n \in 1 .. Len(work[w]) : work[w][n] = x.work[launch][w][HasDone(x, w) + n]

\* Nothing has been done before what is ordered before it.
InOrderDone(x) ==
    \A a, b \in ItemIds(x) : OrderedBefore(x, a, b) /\ Done(x, b) => Done(x, a)

\* Memory holds what a writer has left that no other writer was ordered after.
LastLeft(x, left, loc) ==
    \E a \in Writers(x, loc) :
        /\ Done(x, a) /\ (a[1] = launch \/ Survives(loc)) /\ mem[loc] = left[a][loc]
        /\ \A c \in Writers(x, loc) : Done(x, c) => ~ OrderedBefore(x, a, c)

Written(x, loc) ==
    \A a \in Writers(x, loc) : Done(x, a) /\ (a[1] = launch \/ Survives(loc)) => loc \in DOMAIN mem

Memory(x, left) ==
    /\ \A loc \in DOMAIN mem : LastLeft(x, left, loc)
    /\ \A loc : Written(x, loc)

\* The item a worker would run next.
NextItem(x, w) == <<launch, w, HasDone(x, w) + 1>>

LEMMA NextItemFacts ==
    ASSUME NEW x, WellFormed(x), Progress(x), NEW w \in Workers, work[w] # <<>>
    PROVE  /\ launch # 0 /\ launch \in DOMAIN x.work /\ w \in DOMAIN x.work[launch]
           /\ NextItem(x, w) \in ItemIds(x)
           /\ ItemOf(x, NextItem(x, w)) = Head(work[w])
           /\ ~ Done(x, NextItem(x, w))
           /\ HasDone(x, w) \in Nat
  <1>1. launch # 0
    BY DEF Progress, Workers
  <1>2. launch \in DOMAIN x.work /\ w \in DOMAIN x.work[launch]
    BY <1>1 DEF Progress, WellFormed, Workers
  <1> DEFINE full == x.work[launch][w]
  <1>3. /\ IsSeq(work[w]) /\ IsSeq(full) /\ Len(work[w]) <= Len(full)
        /\ \A n \in 1 .. Len(work[w]) : work[w][n] = full[HasDone(x, w) + n]
    BY <1>1, <1>2 DEF Progress, WellFormed
  <1>4. /\ Len(full) \in Nat /\ DOMAIN full = 1 .. Len(full) /\ Len(work[w]) \in Nat \ {0}
        /\ Head(work[w]) = work[w][1]
    BY <1>3, SeqFacts
  <1>5. HasDone(x, w) = Len(full) - Len(work[w])
    BY DEF HasDone
  <1>6. HasDone(x, w) \in Nat /\ HasDone(x, w) + 1 \in DOMAIN full
    <2> DEFINE p == Len(full)
               q == Len(work[w])
               d == HasDone(x, w)
    <2>1. p \in Nat /\ q \in Nat \ {0} /\ q <= p /\ d = p - q /\ DOMAIN full = 1 .. p
      BY <1>3, <1>4, <1>5
    <2> HIDE DEF p, q, d
    <2>2. d \in Nat /\ d + 1 \in DOMAIN full
      BY <2>1
    <2> QED  BY <2>2 DEF d
  <1>7. Head(work[w]) = full[HasDone(x, w) + 1]
    BY <1>3, <1>4
  <1>8. NextItem(x, w) \in ItemIds(x)
    BY <1>2, <1>6 DEF NextItem, ItemIds
  <1>9. ~ Done(x, NextItem(x, w))
    <2>1. launch \in Int
      BY DEF Progress
    <2> QED  BY <1>6, <2>1 DEF Done, NextItem
  <1> QED  BY <1>1, <1>2, <1>6, <1>7, <1>8, <1>9 DEF ItemOf, NextItem

LEMMA ItemIdFacts ==
    ASSUME NEW x, WellFormed(x), NEW a \in ItemIds(x)
    PROVE  /\ a = <<a[1], a[2], a[3]>>
           /\ a[1] \in 1 .. Len(x.launches) /\ a[1] \in DOMAIN x.work
           /\ a[2] \in DOMAIN x.work[a[1]] /\ a[3] \in 1 .. Len(x.work[a[1]][a[2]])
           /\ Len(x.work[a[1]][a[2]]) \in Nat
           /\ ItemOf(x, a).phase \in Nat
  <1>1. PICK l \in DOMAIN x.work : \E w \in DOMAIN x.work[l] : \E n \in DOMAIN x.work[l][w] : a = <<l, w, n>>
    BY DEF ItemIds
  <1>2. PICK w \in DOMAIN x.work[l] : \E n \in DOMAIN x.work[l][w] : a = <<l, w, n>>
    BY <1>1
  <1>3. PICK n \in DOMAIN x.work[l][w] : a = <<l, w, n>>
    BY <1>2
  <1>4. IsSeq(x.work[l][w]) /\ x.work[l][w][n].phase \in Nat
    BY DEF WellFormed
  <1>5. Len(x.work[l][w]) \in Nat /\ DOMAIN x.work[l][w] = 1 .. Len(x.work[l][w])
    BY <1>4, SeqFacts
  <1>6. DOMAIN x.work = 1 .. Len(x.launches)
    BY DEF WellFormed
  <1>7. a[1] = l /\ a[2] = w /\ a[3] = n
    BY <1>3
  <1>8. ItemOf(x, a).phase \in Nat
    BY <1>4, <1>7 DEF ItemOf
  <1> QED  BY <1>3, <1>5, <1>6, <1>7, <1>8

\* When a worker may run its next item, all that is ordered before has been done.
LEMMA BeforeIsDone ==
    ASSUME NEW x, WellFormed(x), PhasesAscend(x), Progress(x), exe = x, NEW w \in Workers, CanRun(w),
           NEW a \in ItemIds(x), OrderedBefore(x, a, NextItem(x, w))
    PROVE  Done(x, a)
  <1> DEFINE b == NextItem(x, w)
             v == a[2]
             full == x.work[launch][v]
  <1>1. /\ launch # 0 /\ launch \in DOMAIN x.work /\ w \in DOMAIN x.work[launch]
        /\ b \in ItemIds(x) /\ ItemOf(x, b) = Head(work[w]) /\ HasDone(x, w) \in Nat
        /\ b[1] = launch /\ b[2] = w /\ b[3] = HasDone(x, w) + 1
    BY NextItemFacts DEF CanRun, NextItem
  <1>2. /\ a[1] \in DOMAIN x.work /\ v \in DOMAIN x.work[a[1]] /\ a[3] \in 1 .. Len(x.work[a[1]][v])
        /\ ItemOf(x, a).phase \in Nat /\ ItemOf(x, b).phase \in Nat
        /\ Len(x.work[a[1]][v]) \in Nat
    BY <1>1, ItemIdFacts
  <1>3. CASE a[1] < launch
    BY <1>3 DEF Done
  <1>4. CASE a[1] = launch /\ v = w /\ a[3] < b[3]
    BY <1>1, <1>2, <1>4 DEF Done
  <1>5. CASE a[1] = launch /\ SameTeam(x, v, w) /\ ItemOf(x, a).phase < ItemOf(x, b).phase
    <2>0. v \in Workers /\ v \in DOMAIN x.work[launch]
      BY <1>1, <1>2, <1>5 DEF Progress, Workers
    <2>1. /\ IsSeq(full) /\ IsSeq(work[v]) /\ Len(work[v]) <= Len(full)
          /\ \A n \in 1 .. Len(work[v]) : work[v][n] = full[HasDone(x, v) + n]
          /\ HasDone(x, v) = Len(full) - Len(work[v])
      BY <1>1, <2>0 DEF Progress, WellFormed, HasDone
    <2>2. Len(work[v]) \in Nat /\ Len(full) \in Nat /\ DOMAIN full = 1 .. Len(full)
      BY <2>1, SeqFacts
    <2>3. CASE work[v] = <<>>
      <3>1. Len(work[v]) = 0
        BY <2>1, <2>3, SeqFacts
      <3> QED  BY <1>2, <1>5, <2>1, <2>2, <3>1 DEF Done
    <2>4. CASE work[v] # <<>>
      <3> SUFFICES ASSUME ~ Done(x, a) PROVE FALSE
        OBVIOUS
      <3>1. Head(work[v]) = work[v][1] /\ Len(work[v]) # 0
        BY <2>1, <2>4, SeqFacts
      <3> DEFINE p == Len(full)
                 q == Len(work[v])
                 d == HasDone(x, v)
                 n == a[3]
      <3>0. /\ p \in Nat /\ q \in Nat \ {0} /\ q <= p /\ d = p - q /\ DOMAIN full = 1 .. p
            /\ n \in 1 .. p /\ ~ n <= d
        BY <1>2, <1>5, <2>1, <2>2, <3>1 DEF Done
      <3> HIDE DEF p, q, d, n
      <3>2. Head(work[v]) = full[HasDone(x, v) + 1]
        <4>1. 1 \in 1 .. q
          BY <3>0
        <4> QED  BY <2>1, <3>1, <4>1 DEF q
      <3>3. Head(work[v]).phase >= Head(work[w]).phase
        BY <1>5, <2>0, <2>4 DEF CanRun, BarrierOpen
      <3>4. a[3] > HasDone(x, v) /\ a[3] \in DOMAIN full
        <4>1. n > d /\ n \in DOMAIN full
          BY <3>0
        <4> QED  BY <4>1 DEF n, d
      <3>5. HasDone(x, v) + 1 \in 1 .. a[3] /\ HasDone(x, v) + 1 \in DOMAIN full
        <4>1. d + 1 \in 1 .. n /\ d + 1 \in DOMAIN full
          BY <3>0
        <4> QED  BY <4>1 DEF n, d
      <3>6. full[HasDone(x, v) + 1].phase <= full[a[3]].phase
        BY <1>1, <2>0, <3>4, <3>5 DEF PhasesAscend
      <3>7. full[a[3]] = ItemOf(x, a)
        BY <1>5 DEF ItemOf
      <3>8. full[HasDone(x, v) + 1].phase \in Nat
        BY <1>1, <2>0, <3>5 DEF WellFormed
      <3> HIDE DEF b, v, full
      <3> QED  BY <1>1, <1>2, <1>5, <3>2, <3>3, <3>6, <3>7, <3>8
    <2> QED  BY <2>3, <2>4
  <1> QED  BY <1>1, <1>3, <1>4, <1>5 DEF OrderedBefore

\* It then finds what the order promises.
LEMMA FindsIt ==
    ASSUME NEW x, NEW left, WellFormed(x), PhasesAscend(x), Progress(x), InOrderDone(x), Memory(x, left),
           exe = x, NEW w \in Workers, CanRun(w),
           NEW loc, NEW v, Finds(x, left, NextItem(x, w), loc, v)
    PROVE  Read(loc) = v
  <1> DEFINE b == NextItem(x, w)
  <1>1. b \in ItemIds(x) /\ ~ Done(x, b) /\ b[1] = launch
    BY NextItemFacts DEF CanRun, NextItem
  <1>2. \A a \in ItemIds(x) : OrderedBefore(x, a, b) => Done(x, a)
    BY BeforeIsDone
  <1>3. \A c \in ItemIds(x) : OrderedBefore(x, b, c) => ~ Done(x, c)
    BY <1>1 DEF InOrderDone
  <1> HIDE DEF b
  <1>4. ASSUME loc \in DOMAIN mem
        PROVE  \E c \in Writers(x, loc) \ {b} :
                  /\ Done(x, c) /\ Reaches(c, b, loc) /\ mem[loc] = left[c][loc]
                  /\ \A a \in Writers(x, loc) : Done(x, a) => ~ OrderedBefore(x, c, a)
    BY <1>1, <1>4 DEF Memory, LastLeft, Reaches
  <1>5. CASE Supplied(x, left, b, loc, v)
    <2>1. PICK a \in Writers(x, loc) :
              /\ OrderedBefore(x, a, b) /\ Reaches(a, b, loc) /\ left[a][loc] = v
              /\ \A c \in Writers(x, loc) \ {b} :
                    left[c][loc] = v \/ OrderedBefore(x, c, a) \/ OrderedBefore(x, b, c)
      BY <1>5 DEF Supplied
    <2>2. a \in ItemIds(x) /\ Done(x, a)
      BY <1>2, <2>1 DEF Writers
    <2>3. loc \in DOMAIN mem
      BY <1>1, <2>1, <2>2 DEF Memory, Written, Reaches
    <2>4. PICK c \in Writers(x, loc) \ {b} :
              /\ Done(x, c) /\ mem[loc] = left[c][loc]
              /\ \A d \in Writers(x, loc) : Done(x, d) => ~ OrderedBefore(x, c, d)
      BY <1>4, <2>3
    <2>5. ~ OrderedBefore(x, c, a) /\ ~ OrderedBefore(x, b, c)
      BY <1>3, <2>2, <2>4 DEF Writers
    <2>6. left[c][loc] = v
      BY <2>1, <2>5
    <2> QED  BY <2>3, <2>4, <2>6 DEF Read
  <1>6. CASE NotSupplied(x, left, b, loc, v)
    <2>1. CASE loc \notin DOMAIN mem
      BY <1>6, <2>1 DEF Read, NotSupplied
    <2>2. CASE loc \in DOMAIN mem
      <3>1. PICK c \in Writers(x, loc) \ {b} : Done(x, c) /\ Reaches(c, b, loc) /\ mem[loc] = left[c][loc]
        BY <1>4, <2>2
      <3>2. ~ OrderedBefore(x, b, c)
        BY <1>3, <3>1 DEF Writers
      <3>3. left[c][loc] = v
        BY <1>6, <3>1, <3>2 DEF NotSupplied
      <3> QED  BY <2>2, <3>1, <3>3 DEF Read
    <2> QED  BY <2>1, <2>2
  <1> QED  BY <1>5, <1>6 DEF Finds, b

\* What running an item changes.
LEMMA RunsOne ==
    ASSUME NEW x, WellFormed(x), Progress(x), exe = x, NEW w \in Workers, RunItem(w)
    PROVE  /\ Progress(x)' /\ launch' = launch /\ exe' = x
           /\ \A a \in ItemIds(x) : Done(x, a)' <=> Done(x, a) \/ a = NextItem(x, w)
  <1> DEFINE full(v) == x.work[launch][v]
  <1>1. /\ launch # 0 /\ launch \in DOMAIN x.work /\ w \in DOMAIN x.work[launch]
        /\ work[w] # <<>> /\ launch' = launch /\ exe' = x
        /\ DOMAIN work' = DOMAIN work /\ DOMAIN work = DOMAIN x.work[launch]
        /\ \A v \in DOMAIN work : work'[v] = IF v = w THEN Tail(work[w]) ELSE work[v]
    BY NextItemFacts DEF RunItem, CanRun, Workers, Progress
  <1>2. ASSUME NEW v \in DOMAIN x.work[launch]
        PROVE  /\ IsSeq(work[v]) /\ IsSeq(full(v)) /\ Len(work[v]) \in Nat /\ Len(full(v)) \in Nat
               /\ Len(work[v]) <= Len(full(v)) /\ HasDone(x, v) = Len(full(v)) - Len(work[v])
               /\ \A n \in 1 .. Len(work[v]) : work[v][n] = full(v)[HasDone(x, v) + n]
    <2>1. /\ IsSeq(work[v]) /\ IsSeq(full(v))
          /\ Len(work[v]) <= Len(full(v)) /\ HasDone(x, v) = Len(full(v)) - Len(work[v])
          /\ \A n \in 1 .. Len(work[v]) : work[v][n] = full(v)[HasDone(x, v) + n]
      BY <1>1 DEF Progress, WellFormed, HasDone
    <2> QED  BY <2>1, SeqFacts
  <1>3. /\ work'[w] \in Seq(ToSet(work[w])) /\ Len(work'[w]) = Len(work[w]) - 1 /\ Len(work[w]) # 0
        /\ \A n \in 1 .. Len(work[w]) - 1 : work'[w][n] = work[w][n + 1]
    <2>1. IsSeq(work[w]) /\ work'[w] = Tail(work[w])
      BY <1>1, <1>2
    <2> QED  BY <1>1, <2>1, SeqFacts
  <1>4. HasDone(x, w)' = HasDone(x, w) + 1
    <2>1. HasDone(x, w)' = Len(full(w)) - Len(work'[w])
      BY <1>1 DEF HasDone
    <2>2. HasDone(x, w) = Len(full(w)) - Len(work[w]) /\ Len(full(w)) \in Nat /\ Len(work[w]) \in Nat
      BY <1>1, <1>2
    <2> DEFINE p == Len(full(w))
               q == Len(work[w])
               r == Len(work'[w])
    <2>3. r = q - 1 /\ p \in Nat /\ q \in Nat
      BY <1>3, <2>2
    <2> HIDE DEF p, q, r
    <2>4. p - r = (p - q) + 1
      BY <2>3
    <2> QED  BY <2>1, <2>2, <2>4 DEF p, q, r
  <1>5. \A v \in DOMAIN x.work[launch] : v # w => work'[v] = work[v] /\ HasDone(x, v)' = HasDone(x, v)
    BY <1>1 DEF HasDone
  <1>6. Progress(x)'
    <2>1. ASSUME NEW v \in DOMAIN x.work[launch]
          PROVE  /\ IsSeq(work'[v]) /\ Len(work'[v]) <= Len(full(v))
                 /\ \A n \in 1 .. Len(work'[v]) : work'[v][n] = full(v)[HasDone(x, v)' + n]
      <3>1. CASE v # w
        BY <1>2, <1>5, <3>1
      <3>2. CASE v = w
        <4> DEFINE p == Len(work[w])
                   q == Len(full(w))
                   d == HasDone(x, w)
        <4>1. p \in Nat \ {0} /\ q \in Nat /\ p <= q /\ d = q - p /\ Len(work'[w]) = p - 1
          BY <1>1, <1>2, <1>3
        <4>2. IsSeq(work'[w])
          BY <1>3, IsSeqOf
        <4>3. ASSUME NEW n \in 1 .. p - 1 PROVE work'[w][n] = full(w)[HasDone(x, w)' + n]
          <5>1. work'[w][n] = work[w][n + 1]
            BY <1>3
          <5> HIDE DEF p, d, q
          <5>2. n + 1 \in 1 .. p /\ d + 1 + n = d + (n + 1)
            BY <4>1
          <5>3. work[w][n + 1] = full(w)[d + (n + 1)]
            BY <1>1, <1>2, <5>2 DEF p, d
          <5> QED  BY <1>4, <5>1, <5>2, <5>3 DEF d
        <4>4. Len(work'[w]) <= Len(full(w))
          <5> HIDE DEF p, d, q
          <5>1. p - 1 <= q
            BY <4>1
          <5> QED  BY <4>1, <5>1 DEF q
        <4> HIDE DEF p
        <4> QED  BY <3>2, <4>1, <4>2, <4>3, <4>4
      <3> QED  BY <3>1, <3>2
    <2>2. launch' \in 0 .. Len(x.launches) /\ launch' # 0 /\ DOMAIN work' = DOMAIN x.work[launch]
      BY <1>1 DEF Progress
    <2> QED  BY <1>1, <2>1, <2>2 DEF Progress
  <1>7. ASSUME NEW a \in ItemIds(x)
        PROVE  Done(x, a)' <=> Done(x, a) \/ a = NextItem(x, w)
    <2>1. /\ a = <<a[1], a[2], a[3]>> /\ a[1] \in 1 .. Len(x.launches) /\ a[2] \in DOMAIN x.work[a[1]]
          /\ a[3] \in 1 .. Len(x.work[a[1]][a[2]]) /\ Len(x.work[a[1]][a[2]]) \in Nat
      BY ItemIdFacts
    <2>2. a = NextItem(x, w) <=> a[1] = launch /\ a[2] = w /\ a[3] = HasDone(x, w) + 1
      BY <2>1 DEF NextItem
    <2>3. Done(x, a)' <=> a[1] < launch \/ (a[1] = launch /\ a[3] <= HasDone(x, a[2])')
      BY <1>1 DEF Done
    <2>4. CASE a[1] = launch /\ a[2] = w
      <3>1. HasDone(x, w) \in Int /\ launch \in Int
        BY <1>1, NextItemFacts DEF Progress
      <3>2. HasDone(x, a[2])' = HasDone(x, w) + 1
        BY <1>4, <2>4
      <3>3. Done(x, a)' <=> a[3] <= HasDone(x, w) + 1
        BY <2>3, <2>4, <3>1, <3>2
      <3>4. Done(x, a) <=> a[3] <= HasDone(x, w)
        BY <2>4, <3>1 DEF Done
      <3> DEFINE d == HasDone(x, w)
                 n == a[3]
      <3>5. n \in Int /\ d \in Int
        BY <2>1, <3>1
      <3> HIDE DEF d, n
      <3>6. n <= d + 1 <=> n <= d \/ n = d + 1
        BY <3>5
      <3> QED  BY <2>2, <2>4, <3>3, <3>4, <3>6 DEF d, n
    <2>5. CASE a[1] = launch /\ a[2] # w
      <3>1. HasDone(x, a[2])' = HasDone(x, a[2])
        BY <1>5, <2>1, <2>5
      <3> QED  BY <2>2, <2>3, <2>5, <3>1 DEF Done
    <2>6. CASE a[1] # launch
      BY <2>2, <2>3, <2>6 DEF Done
    <2> QED  BY <2>4, <2>5, <2>6
  <1> QED  BY <1>1, <1>6, <1>7

\* An item leaves what the order promises, and is the last to do so.
LEMMA RunKeepsMemory ==
    ASSUME NEW x, NEW left, WellFormed(x), PhasesAscend(x), CopiesOrdered(x, left), exe = x,
           Progress(x), InOrderDone(x), Memory(x, left), NEW w \in Workers, RunItem(w)
    PROVE  InOrderDone(x)' /\ Memory(x, left)'
  <1>0. CanRun(w) /\ work[w] # <<>>
    BY DEF RunItem, CanRun
  <1>b. PICK b : b = NextItem(x, w)
    OBVIOUS
  <1> DEFINE item == ItemOf(x, b)
  <1>1. /\ b \in ItemIds(x) /\ ~ Done(x, b) /\ b[1] = launch /\ item = Head(work[w])
    BY <1>0, <1>b, NextItemFacts DEF NextItem
  <1>2. /\ launch' = launch
        /\ \A a \in ItemIds(x) : Done(x, a)' <=> Done(x, a) \/ a = b
    BY <1>b, RunsOne
  <1>3. /\ DOMAIN mem' = DOMAIN mem \cup Targets(item)
        /\ \A loc \in DOMAIN mem' : mem'[loc] = ValueAfter(item, loc)
    BY <1>1 DEF RunItem
  <1>4. \A a \in ItemIds(x) : OrderedBefore(x, a, b) => Done(x, a)
    BY <1>0, <1>b, BeforeIsDone
  <1>5. \A c \in ItemIds(x) : OrderedBefore(x, b, c) => ~ Done(x, c)
    BY <1>1 DEF InOrderDone
  <1>6. ~ OrderedBefore(x, b, b)
    <2>1. b[1] \in Int /\ b[3] \in Int /\ item.phase \in Int
      BY <1>1, ItemIdFacts
    <2> QED  BY <2>1 DEF OrderedBefore
  <1>7. ASSUME NEW loc \in Targets(item) PROVE mem'[loc] = left[b][loc]
    <2>1. mem'[loc] = ValueAfter(item, loc)
      BY <1>3
    <2>2. CASE loc \in item.writes
      BY <1>1, <2>1, <2>2 DEF ValueAfter, CopiesOrdered
    <2>3. CASE loc \notin item.writes
      <3>1. mem'[loc] = Read(CopiedFrom(item, loc))
        BY <2>1, <2>3 DEF ValueAfter
      <3>2. Finds(x, left, b, CopiedFrom(item, loc), left[b][loc])
        BY <1>1, <2>3 DEF CopiesOrdered
      <3> HIDE DEF item
      <3>3. Read(CopiedFrom(item, loc)) = left[b][loc]
        BY <1>0, <1>b, <3>2, FindsIt
      <3> QED  BY <3>1, <3>3
    <2> QED  BY <2>2, <2>3
  <1>8. ASSUME NEW loc, loc \notin Targets(item)
        PROVE  (loc \in DOMAIN mem' <=> loc \in DOMAIN mem) /\ (loc \in DOMAIN mem => mem'[loc] = mem[loc])
    BY <1>3, <1>8 DEF ValueAfter, Targets
  <1>9. \A loc : loc \in Targets(item) <=> b \in Writers(x, loc)
    BY <1>1 DEF Writers
  <1>10. InOrderDone(x)'
    <2> SUFFICES ASSUME NEW a \in ItemIds(x), NEW c \in ItemIds(x), OrderedBefore(x, a, c), Done(x, c)'
                 PROVE  Done(x, a)'
      BY DEF InOrderDone
    <2>1. CASE c = b
      BY <1>2, <1>4, <2>1
    <2>2. CASE c # b
      <3>1. Done(x, a)
        BY <1>2, <2>2 DEF InOrderDone
      <3> QED  BY <1>2, <3>1
    <2> QED  BY <2>1, <2>2
  <1>11. ASSUME NEW loc \in DOMAIN mem' PROVE LastLeft(x, left, loc)'
    <2>1. CASE loc \in Targets(item)
      <3>1. b \in Writers(x, loc) /\ Done(x, b)' /\ b[1] = launch' /\ mem'[loc] = left[b][loc]
        BY <1>1, <1>2, <1>7, <1>9, <2>1
      <3>2. ASSUME NEW c \in Writers(x, loc), Done(x, c)' PROVE ~ OrderedBefore(x, b, c)
        <4>1. c \in ItemIds(x)
          BY DEF Writers
        <4> QED  BY <1>2, <1>5, <1>6, <3>2, <4>1
      <3> QED  BY <3>1, <3>2 DEF LastLeft
    <2>2. CASE loc \notin Targets(item)
      <3>1. loc \in DOMAIN mem /\ mem'[loc] = mem[loc]
        BY <1>8, <2>2
      <3>2. PICK a \in Writers(x, loc) :
                /\ Done(x, a) /\ (a[1] = launch \/ Survives(loc)) /\ mem[loc] = left[a][loc]
                /\ \A c \in Writers(x, loc) : Done(x, c) => ~ OrderedBefore(x, a, c)
        BY <3>1 DEF Memory, LastLeft
      <3>3. \A c \in Writers(x, loc) : c \in ItemIds(x) /\ c # b
        BY <1>9, <2>2 DEF Writers
      <3>4. /\ Done(x, a)' /\ (a[1] = launch' \/ Survives(loc)) /\ mem'[loc] = left[a][loc]
            /\ \A c \in Writers(x, loc) : Done(x, c)' => ~ OrderedBefore(x, a, c)
        BY <1>2, <3>1, <3>2, <3>3
      <3> QED  BY <3>4 DEF LastLeft
    <2> QED  BY <2>1, <2>2
  <1>12. ASSUME NEW loc PROVE Written(x, loc)'
    <2> SUFFICES ASSUME NEW a \in Writers(x, loc), Done(x, a)', a[1] = launch' \/ Survives(loc)
                 PROVE  loc \in DOMAIN mem'
      BY DEF Written
    <2>1. a \in ItemIds(x)
      BY DEF Writers
    <2>2. CASE a = b
      BY <1>3, <1>9, <2>2
    <2>3. CASE a # b
      <3>1. Done(x, a)
        BY <1>2, <2>1, <2>3
      <3>2. loc \in DOMAIN mem
        BY <1>2, <3>1 DEF Memory, Written
      <3> QED  BY <1>3, <3>2
    <2> QED  BY <2>2, <2>3
  <1> QED  BY <1>10, <1>11, <1>12 DEF Memory

\* Between two launches everything up to the first of them has been done.
LEMMA StartsNext ==
    ASSUME NEW x, NEW left, WellFormed(x), exe = x, Progress(x), StartLaunch
    PROVE  /\ Progress(x)' /\ exe' = x
           /\ InOrderDone(x) => InOrderDone(x)'
           /\ Memory(x, left) => Memory(x, left)'
  <1>1. /\ launch \in Int /\ launch >= 0 /\ launch < Len(x.launches) /\ launch' = launch + 1 /\ exe' = x
        /\ work' = x.work[launch + 1] /\ launch' \in DOMAIN x.work
        /\ DOMAIN mem' = {loc \in DOMAIN mem : Survives(loc)}
        /\ \A loc \in DOMAIN mem' : mem'[loc] = mem[loc]
    BY DEF StartLaunch, Progress, WellFormed
  <1>2. ASSUME NEW a \in ItemIds(x) PROVE Done(x, a) <=> a[1] <= launch
    <2>1. /\ a[1] \in 1 .. Len(x.launches) /\ a[2] \in DOMAIN x.work[a[1]]
          /\ a[3] \in 1 .. Len(x.work[a[1]][a[2]]) /\ Len(x.work[a[1]][a[2]]) \in Nat
      BY ItemIdFacts
    <2>2. CASE a[1] = launch
      <3>1. a[2] \in Workers /\ IsSeq(work[a[2]])
        BY <2>1, <2>2 DEF Progress, Workers
      <3>2. Len(work[a[2]]) = 0
        BY <3>1, SeqFacts DEF StartLaunch, Idle
      <3>3. HasDone(x, a[2]) = Len(x.work[a[1]][a[2]])
        BY <2>1, <2>2, <3>2 DEF HasDone
      <3> QED  BY <1>1, <2>1, <2>2, <3>3 DEF Done
    <2>3. CASE a[1] # launch
      <3>1. a[1] \in Int
        BY <2>1
      <3> QED  BY <1>1, <2>3, <3>1 DEF Done
    <2> QED  BY <2>2, <2>3
  <1>3. ASSUME NEW w \in DOMAIN x.work[launch']
        PROVE  /\ IsSeq(work'[w]) /\ Len(work'[w]) = Len(x.work[launch'][w]) /\ Len(work'[w]) \in Nat
               /\ HasDone(x, w)' = 0
               /\ \A n \in 1 .. Len(work'[w]) : work'[w][n] = x.work[launch'][w][0 + n]
    <2>1. IsSeq(work'[w]) /\ work'[w] = x.work[launch'][w]
      BY <1>1 DEF WellFormed
    <2>2. Len(work'[w]) \in Nat
      BY <2>1, SeqFacts
    <2> QED  BY <2>1, <2>2 DEF HasDone
  <1>4. Progress(x)'
    <2>1. launch' \in 0 .. Len(x.launches) /\ launch' # 0
      BY <1>1 DEF WellFormed
    <2>2. DOMAIN work' = DOMAIN x.work[launch']
      BY <1>1
    <2> QED  BY <1>3, <2>1, <2>2 DEF Progress
  <1>5. ASSUME NEW a \in ItemIds(x) PROVE Done(x, a)' <=> a[1] <= launch
    <2>1. /\ a[1] \in 1 .. Len(x.launches) /\ a[2] \in DOMAIN x.work[a[1]]
          /\ a[3] \in 1 .. Len(x.work[a[1]][a[2]])
      BY ItemIdFacts
    <2>2. CASE a[1] = launch'
      <3>1. HasDone(x, a[2])' = 0
        BY <1>3, <2>1, <2>2
      <3> QED  BY <1>1, <2>1, <2>2, <3>1 DEF Done
    <2>3. CASE a[1] # launch'
      <3>1. a[1] \in Int
        BY <2>1
      <3> QED  BY <1>1, <2>3, <3>1 DEF Done
    <2> QED  BY <2>2, <2>3
  <1>6. \A a \in ItemIds(x) : (Done(x, a)' <=> Done(x, a)) /\ (Done(x, a) => a[1] # launch')
    <2>1. \A a \in ItemIds(x) : a[1] \in Int
      BY ItemIdFacts
    <2> QED  BY <1>1, <1>2, <1>5, <2>1
  <1>7. InOrderDone(x) => InOrderDone(x)'
    BY <1>6 DEF InOrderDone
  <1>8. ASSUME Memory(x, left), NEW loc \in DOMAIN mem' PROVE LastLeft(x, left, loc)'
    <2>1. loc \in DOMAIN mem /\ Survives(loc) /\ mem'[loc] = mem[loc]
      BY <1>1
    <2>2. \A a \in Writers(x, loc) : a \in ItemIds(x)
      BY DEF Writers
    <2> QED  BY <1>6, <1>8, <2>1, <2>2 DEF LastLeft, Memory
  <1>9. ASSUME Memory(x, left), NEW loc PROVE Written(x, loc)'
    <2>1. \A a \in Writers(x, loc) : a \in ItemIds(x)
      BY DEF Writers
    <2> QED  BY <1>1, <1>6, <1>9, <2>1 DEF Written, Memory
  <1> QED  BY <1>1, <1>4, <1>7, <1>8, <1>9 DEF Memory

(***************************************************************************)
(* Fusing the stages of a multistage: the groups cut the rows into pieces, *)
(* group g from row c[g - 1] + 1 to row c[g].                              *)
(***************************************************************************)
Grouped(p, m, rows, groups, c, n) ==
    /\ groups \in Seq(Seq(ToSet(rows)))
    /\ c \in [0 .. Len(groups) -> 0 .. n] /\ c[0] = 0 /\ c[Len(groups)] = n
    /\ \A g \in 1 .. Len(groups) :
          /\ c[g - 1] < c[g] /\ Len(groups[g]) = c[g] - c[g - 1]
          /\ \A i \in 1 .. Len(groups[g]) :
                /\ groups[g][i] = rows[c[g - 1] + i]
                /\ RowExtent(p, m, groups[g][i]) = RowExtent(p, m, groups[g][1])
                /\ i < Len(groups[g]) => ~ RowNeedsSync(p, m, groups[g][i])

\* What fuse does to the sequence of groups, element by element.
Fused(p, m, groups, L, row, next) ==
    \/ /\ L # 0 /\ CanFuseStages(p, m, groups[L], row)
       /\ Len(next) = L /\ next[L] = Append(groups[L], row)
       /\ \A g \in 1 .. L - 1 : next[g] = groups[g]
    \/ /\ Len(next) = L + 1 /\ next[L + 1] = <<row>>
       /\ \A g \in 1 .. L : next[g] = groups[g]

LEMMA FuseStepIs ==
    ASSUME NEW R, NEW groups \in Seq(Seq(R)), NEW row \in R, NEW p, NEW m
    PROVE  /\ FuseStep(p, m, groups, row) \in Seq(Seq(R)) /\ Len(groups) \in Nat
           /\ Fused(p, m, groups, Len(groups), row, FuseStep(p, m, groups, row))
  <1> DEFINE L == Len(groups)
             next == FuseStep(p, m, groups, row)
  <1>1. L \in Nat /\ \A g \in 1 .. L : groups[g] \in Seq(R)
    OBVIOUS
  <1>2. CASE groups # <<>> /\ CanFuseStages(p, m, Last(groups), row)
    <2>1. L # 0 /\ L \in 1 .. L
      BY <1>1, <1>2
    <2> DEFINE front == SubSeq(groups, 1, L - 1)
               last == Append(groups[L], row)
    <2>2. last \in Seq(R)
      BY <1>1, <2>1
    <2>3. /\ front \in Seq(Seq(R)) /\ Len(front) = L - 1
          /\ \A g \in 1 .. L - 1 : front[g] = groups[g]
      <3> HIDE DEF L
      <3>1. \A g \in 1 .. L - 1 : groups[g] \in Seq(R)
        BY <1>1
      <3>2. /\ front \in Seq(Seq(R)) /\ Len(front) = IF 1 <= L - 1 THEN (L - 1) - 1 + 1 ELSE 0
            /\ \A g \in 1 .. (L - 1) - 1 + 1 : front[g] = groups[1 + g - 1]
        BY <1>1, <3>1, SubSeqProperties
      <3> HIDE DEF front
      <3> QED  BY <1>1, <2>1, <3>2
    <2>4. next = Append(front, last)
      BY <1>2 DEF FuseStep, Front, Last
    <2> HIDE DEF L, front, last, next
    <2>5. /\ next \in Seq(Seq(R)) /\ Len(next) = Len(front) + 1
          /\ \A g \in 1 .. Len(front) : next[g] = front[g]
          /\ next[Len(front) + 1] = last
      BY <2>2, <2>3, <2>4, AppendProperties
    <2>6. /\ next \in Seq(Seq(R)) /\ Len(next) = L /\ next[L] = last
          /\ \A g \in 1 .. L - 1 : next[g] = groups[g]
      BY <1>1, <2>1, <2>3, <2>5
    <2>7. CanFuseStages(p, m, groups[L], row)
      BY <1>2 DEF Last, L
    <2> QED  BY <1>1, <2>1, <2>6, <2>7 DEF L, next, last, Fused
  <1>3. CASE ~ (groups # <<>> /\ CanFuseStages(p, m, Last(groups), row))
    <2>1. next = Append(groups, <<row>>) /\ <<row>> \in Seq(R)
      BY <1>3 DEF FuseStep
    <2>2. /\ next \in Seq(Seq(R)) /\ Len(next) = L + 1
          /\ \A g \in 1 .. L : next[g] = groups[g]
          /\ next[L + 1] = <<row>>
      BY <2>1, AppendProperties
    <2> QED  BY <1>1, <2>2 DEF Fused
  <1> QED  BY <1>2, <1>3

LEMMA FuseStepKeeps ==
    ASSUME NEW rows, IsSeq(rows), NEW p, NEW m, NEW groups, NEW c,
           NEW n \in 0 .. Len(rows) - 1, Grouped(p, m, rows, groups, c, n)
    PROVE  \E d : Grouped(p, m, rows, FuseStep(p, m, groups, rows[n + 1]), d, n + 1)
  <1> DEFINE R == ToSet(rows)
             row == rows[n + 1]
             next == FuseStep(p, m, groups, row)
             L == Len(groups)
  <1>1. row \in R /\ groups \in Seq(Seq(R)) /\ n \in Nat /\ n + 1 \in 1 .. Len(rows)
    <2>1. Len(rows) \in Nat /\ DOMAIN rows = 1 .. Len(rows)
      BY SeqFacts
    <2>2. n \in Nat /\ n + 1 \in DOMAIN rows
      BY <2>1
    <2> QED  BY <2>1, <2>2 DEF Grouped, ToSet
  <1>2. /\ next \in Seq(Seq(R)) /\ L \in Nat
        /\ \/ /\ L # 0 /\ CanFuseStages(p, m, groups[L], row)
              /\ Len(next) = L /\ next[L] = Append(groups[L], row)
              /\ \A g \in 1 .. L - 1 : next[g] = groups[g]
           \/ /\ Len(next) = L + 1 /\ next[L + 1] = <<row>>
              /\ \A g \in 1 .. L : next[g] = groups[g]
    <2> HIDE DEF R, row
    <2> QED  BY <1>1, FuseStepIs DEF Fused
  <1>3. /\ c \in [0 .. L -> 0 .. n] /\ c[0] = 0 /\ c[L] = n
        /\ \A g \in 1 .. L :
              /\ c[g - 1] < c[g] /\ Len(groups[g]) = c[g] - c[g - 1]
              /\ \A i \in 1 .. Len(groups[g]) :
                    /\ groups[g][i] = rows[c[g - 1] + i]
                    /\ RowExtent(p, m, groups[g][i]) = RowExtent(p, m, groups[g][1])
                    /\ i < Len(groups[g]) => ~ RowNeedsSync(p, m, groups[g][i])
    BY DEF Grouped
  <1>4. \A g \in 1 .. L : groups[g] \in Seq(R)
    BY <1>1
  <1> DEFINE Good(g, d) ==
          /\ d[g - 1] < d[g] /\ Len(next[g]) = d[g] - d[g - 1]
          /\ \A i \in 1 .. Len(next[g]) :
                /\ next[g][i] = rows[d[g - 1] + i]
                /\ RowExtent(p, m, next[g][i]) = RowExtent(p, m, next[g][1])
                /\ i < Len(next[g]) => ~ RowNeedsSync(p, m, next[g][i])
  <1> HIDE DEF L, next, R
  <1>5. CASE /\ L # 0 /\ CanFuseStages(p, m, groups[L], row)
             /\ Len(next) = L /\ next[L] = Append(groups[L], row)
             /\ \A g \in 1 .. L - 1 : next[g] = groups[g]
    <2> DEFINE d == [g \in 0 .. L |-> IF g = L THEN n + 1 ELSE c[g]]
               last == groups[L]
               k == Len(last)
    <2>1. /\ d \in [0 .. L -> 0 .. n + 1] /\ d[0] = 0 /\ d[L] = n + 1
          /\ \A g \in 0 .. L - 1 : d[g] = c[g]
      BY <1>1, <1>2, <1>3, <1>5
    <2>2. ASSUME NEW g \in 1 .. L - 1 PROVE Good(g, d)
      <3>1. d[g] = c[g] /\ d[g - 1] = c[g - 1] /\ next[g] = groups[g] /\ g \in 1 .. L
        <4>1. g \in 0 .. L - 1 /\ g - 1 \in 0 .. L - 1 /\ g \in 1 .. L
          BY <1>2
        <4> QED  BY <1>5, <2>1, <4>1
      <3> HIDE DEF d
      <3> QED  BY <1>3, <3>1
    <2>3. Good(L, d)
      <3>0. L \in 1 .. L /\ L - 1 \in 0 .. L - 1 /\ last \in Seq(R)
        BY <1>2, <1>4, <1>5
      <3>1. /\ d[L - 1] = c[L - 1] /\ d[L] = n + 1 /\ c[L - 1] < n /\ k = n - c[L - 1] /\ c[L - 1] \in Nat
            /\ \A i \in 1 .. k :
                  /\ last[i] = rows[c[L - 1] + i]
                  /\ RowExtent(p, m, last[i]) = RowExtent(p, m, last[1])
        BY <1>3, <2>1, <3>0
      <3>2. /\ next[L] \in Seq(R) /\ Len(next[L]) = k + 1 /\ next[L][k + 1] = row
            /\ \A i \in 1 .. k : next[L][i] = last[i]
        BY <1>1, <1>5, <3>0, AppendProperties
      <3>3. k \in Nat \ {0} /\ 1 \in 1 .. k
        BY <1>1, <3>1
      <3>4. \A i \in 1 .. k : RowExtent(p, m, last[i]) = RowExtent(p, m, row) /\ ~ RowNeedsSync(p, m, last[i])
        <4>1. \A i \in 1 .. k : last[i] \in ToSet(last)
          BY <3>0 DEF ToSet
        <4> QED  BY <1>5, <4>1 DEF CanFuseStages
      <3> HIDE DEF k, last, d, row
      <3>5. ASSUME NEW i \in 1 .. k + 1
            PROVE  /\ next[L][i] = rows[d[L - 1] + i]
                   /\ RowExtent(p, m, next[L][i]) = RowExtent(p, m, next[L][1])
                   /\ i < k + 1 => ~ RowNeedsSync(p, m, next[L][i])
        <4>1. next[L][1] = last[1] /\ RowExtent(p, m, last[1]) = RowExtent(p, m, row)
          BY <3>2, <3>3, <3>4
        <4>2. CASE i = k + 1
          <5>1. d[L - 1] + i = n + 1
            BY <1>1, <3>1, <4>2
          <5>2. ~ i < k + 1
            BY <3>3, <4>2
          <5> QED  BY <3>2, <4>1, <4>2, <5>1, <5>2 DEF row
        <4>3. CASE i \in 1 .. k
          BY <3>1, <3>2, <3>4, <4>1, <4>3
        <4> QED  BY <3>3, <4>2, <4>3
      <3>6. d[L - 1] < d[L] /\ Len(next[L]) = d[L] - d[L - 1]
        BY <1>1, <3>1, <3>2
      <3> QED  BY <3>2, <3>5, <3>6
    <2>4. \A g \in 1 .. L : Good(g, d)
      <3> HIDE DEF Good
      <3>1. \A g \in 1 .. L : g = L \/ g \in 1 .. L - 1
        BY <1>2
      <3> QED  BY <2>2, <2>3, <3>1
    <2> HIDE DEF d
    <2>5. Grouped(p, m, rows, next, d, n + 1)
      BY <1>2, <1>5, <2>1, <2>4 DEF Grouped, R
    <2> QED  BY <2>5 DEF next
  <1>6. CASE /\ Len(next) = L + 1 /\ next[L + 1] = <<row>>
             /\ \A g \in 1 .. L : next[g] = groups[g]
    <2> DEFINE d == [g \in 0 .. L + 1 |-> IF g = L + 1 THEN n + 1 ELSE c[g]]
    <2>1. /\ d \in [0 .. L + 1 -> 0 .. n + 1] /\ d[0] = 0 /\ d[L + 1] = n + 1
          /\ \A g \in 0 .. L : d[g] = c[g]
      BY <1>1, <1>2, <1>3, <1>6
    <2>2. ASSUME NEW g \in 1 .. L PROVE Good(g, d)
      <3>1. d[g] = c[g] /\ d[g - 1] = c[g - 1] /\ next[g] = groups[g]
        <4>1. g \in 0 .. L /\ g - 1 \in 0 .. L
          BY <1>2
        <4> QED  BY <1>6, <2>1, <4>1
      <3> HIDE DEF d
      <3> QED  BY <1>3, <3>1
    <2>3. Good(L + 1, d)
      <3>1. d[(L + 1) - 1] = n /\ d[L + 1] = n + 1
        <4>1. (L + 1) - 1 = L /\ L \in 0 .. L
          BY <1>2
        <4> QED  BY <1>3, <2>1, <4>1
      <3>2. next[L + 1] = <<row>> /\ Len(<<row>>) = 1 /\ <<row>>[1] = row
        BY <1>6
      <3> HIDE DEF d
      <3>3. d[(L + 1) - 1] < d[L + 1] /\ Len(next[L + 1]) = d[L + 1] - d[(L + 1) - 1]
        BY <1>1, <3>1, <3>2
      <3>4. ASSUME NEW i \in 1 .. Len(next[L + 1])
            PROVE  /\ next[L + 1][i] = rows[d[(L + 1) - 1] + i]
                   /\ RowExtent(p, m, next[L + 1][i]) = RowExtent(p, m, next[L + 1][1])
                   /\ ~ i < Len(next[L + 1])
        <4>1. i = 1
          BY <3>2
        <4> QED  BY <3>1, <3>2, <4>1
      <3> QED  BY <3>3, <3>4
    <2>4. \A g \in 1 .. L + 1 : Good(g, d)
      <3> HIDE DEF Good
      <3>1. \A g \in 1 .. L + 1 : g = L + 1 \/ g \in 1 .. L
        BY <1>2
      <3> QED  BY <2>2, <2>3, <3>1
    <2> HIDE DEF d
    <2>5. Grouped(p, m, rows, next, d, n + 1)
      BY <1>2, <1>6, <2>1, <2>4 DEF Grouped, R
    <2> QED  BY <2>5 DEF next
  <1> QED  BY <1>2, <1>5, <1>6

(* The groups hold the rows of the multistage in their order, none twice and *)
(* none lost; the rows of a group have one extent; and a row that needs a    *)
(* barrier is the last of its group: nothing is fused behind it.             *)
THEOREM FusionKeeps ==
    ASSUME NEW rows, IsSeq(rows), NEW p, NEW m
    PROVE  \E c : Grouped(p, m, rows, FuseStageRows(p, m, rows), c, Len(rows))
  <1> DEFINE R == ToSet(rows)
             L == Len(rows)
             T == Seq(Seq(R))
             Term(f, n) == IF n = 0 THEN <<>> ELSE FuseStep(p, m, f[n - 1], rows[n])
             Eq(f) == f = [n \in 0 .. L |-> Term(f, n)]
             f0 == CHOOSE f : Eq(f)
             step == [a \in T \X (1 .. L) |-> FuseStep(p, m, a[1], rows[a[2]])]
  <1>1. L \in Nat /\ \A n \in 1 .. L : rows[n] \in R
    BY SeqFacts DEF ToSet
  <1> HIDE DEF L, R
  <1>2. step \in [T \X (1 .. L) -> T]
    <2>1. ASSUME NEW a \in T \X (1 .. L) PROVE FuseStep(p, m, a[1], rows[a[2]]) \in T
      <3>1. a[1] \in T /\ rows[a[2]] \in R
        BY <1>1
      <3> QED  BY <3>1, FuseStepIs
    <2> QED  BY <2>1
  <1>3. PICK f \in [0 .. L -> T] : f[0] = <<>> /\ \A n \in 1 .. L : f[n] = step[<<f[n - 1], n>>]
    <2>1. <<>> \in T /\ L \in Nat
      BY <1>1
    <2> HIDE DEF T, step
    <2>2. PICK f : Follows(f, T, <<>>, L, step)
      BY <1>2, <2>1, Iterate
    <2> QED  BY <2>2 DEF Follows
  <1>4. Eq(f)
    <2>1. \A n \in 1 .. L : f[n] = FuseStep(p, m, f[n - 1], rows[n])
      <3> SUFFICES ASSUME NEW n \in 1 .. L PROVE f[n] = FuseStep(p, m, f[n - 1], rows[n])
        OBVIOUS
      <3>1. f[n - 1] \in T
        BY <1>1, <1>3
      <3> QED  BY <1>3, <3>1
    <2>2. \A n \in 0 .. L : f[n] = Term(f, n)
      BY <1>3, <2>1
    <2> HIDE DEF Term
    <2> QED  BY <1>3, <2>2
  <1>5. Eq(f0)
    BY <1>4
  <1>6. FuseStageRows(p, m, rows) = f0[L]
    BY DEF FuseStageRows, L
  <1> HIDE DEF f0
  <1>7. \A n \in 0 .. L : f0[n] = Term(f0, n)
    <2> HIDE DEF Term
    <2> QED  BY <1>5
  <1> DEFINE X == {n \in Nat : n \in 0 .. L => \E c : Grouped(p, m, rows, f0[n], c, n)}
  <1>8. 0 \in X
    <2>1. f0[0] = <<>> /\ <<>> \in Seq(Seq(ToSet(rows))) /\ Len(<<>>) = 0
      BY <1>1, <1>7
    <2>2. Grouped(p, m, rows, f0[0], [g \in 0 .. 0 |-> 0], 0)
      BY <2>1 DEF Grouped
    <2> QED  BY <2>2
  <1>9. ASSUME NEW n \in Nat, n \in X PROVE n + 1 \in X
    <2> SUFFICES ASSUME n + 1 \in 0 .. L PROVE \E c : Grouped(p, m, rows, f0[n + 1], c, n + 1)
      OBVIOUS
    <2>1. n \in 0 .. L /\ n \in 0 .. Len(rows) - 1
      BY <1>1 DEF L
    <2>2. PICK c : Grouped(p, m, rows, f0[n], c, n)
      BY <1>9, <2>1
    <2>3. f0[n + 1] = FuseStep(p, m, f0[n], rows[n + 1])
      <3>1. n + 1 # 0 /\ (n + 1) - 1 = n
        OBVIOUS
      <3> QED  BY <1>7, <3>1
    <2> QED  BY <2>1, <2>2, <2>3, FuseStepKeeps
  <1> HIDE DEF X
  <1>10. L \in X
    BY <1>1, <1>8, <1>9, SetInduction
  <1> QED  BY <1>1, <1>6, <1>10 DEF X, L

(***************************************************************************)
(* The loop nests make sequences of items: what an item has for certain.   *)
(***************************************************************************)
\* Level h of a field is in the window that a fill or a flush copies at some level.
InWindow(x, h) ==
    \E m \in DOMAIN x.p.mss : \E f \in KCached(x.p, m) \ x.p.temps : \E policy \in x.p.mss[m].kc[f] :
        \E k \in x.p.intervals[m] :
            \E o \in SyncedOffsets(x.p, m, policy, f, x.p.intervals[m], x.axis, k) : h = k + o

CopiesReady(x, copies) ==
    \A c \in copies : \A loc \in {c.from, c.to} : loc[1] = "field" => InWindow(x, loc[4])

GoodItem(x, l, item) ==
    /\ item.phase \in Nat
    /\ Head(item.stamp) \in ToSet(x.launches[l])
    /\ item.writes # {} => <<item.stamp[1], item.stamp[2]>> \in StageIds(x.p)
    /\ CopiesReady(x, item.copies)

GoodSeq(x, l, s) == IsSeq(s) /\ \A item \in ToSet(s) : GoodItem(x, l, item)

LEMMA GoodLoop ==
    ASSUME NEW x, NEW l, NEW n \in Int, NEW f, f = [i \in 1 .. n |-> f[i]],
           \A i \in 1 .. n : GoodSeq(x, l, f[i])
    PROVE  GoodSeq(x, l, FlattenSeq(f))
  <1>1. \A i \in 1 .. n : IsSeq(f[i])
    BY DEF GoodSeq
  <1>2. IsSeq(FlattenSeq(f)) /\ ToSet(FlattenSeq(f)) = UNION {ToSet(f[i]) : i \in 1 .. n}
    BY <1>1, FlattenIsSeq
  <1> QED  BY <1>2 DEF GoodSeq

LEMMA GoodOne ==
    ASSUME NEW x, NEW l, NEW item
    PROVE  GoodSeq(x, l, <<>>) /\ (GoodItem(x, l, item) => GoodSeq(x, l, <<item>>))
  <1>1. IsSeq(<<>>) /\ ToSet(<<>>) = {}
    BY DEF IsSeq, ToSet
  <1>2. IsSeq(<<item>>) /\ ToSet(<<item>>) = {item}
    BY DEF IsSeq, ToSet
  <1> QED  BY <1>1, <1>2 DEF GoodSeq

\* A sequence one after another.
LEMMA ConcatIsSeq ==
    ASSUME NEW s, NEW t, IsSeq(s), IsSeq(t)
    PROVE  IsSeq(s \o t) /\ ToSet(s \o t) = ToSet(s) \cup ToSet(t)
  <1> DEFINE R == ToSet(s) \cup ToSet(t)
             a == Len(s)
             b == Len(t)
  <1>1. s \in Seq(R) /\ t \in Seq(R)
    <2>1. ToSet(s) \subseteq R /\ ToSet(t) \subseteq R
      OBVIOUS
    <2> HIDE DEF R
    <2> QED  BY <2>1, SeqMonotonic DEF IsSeq
  <1>2. /\ DOMAIN s = 1 .. a /\ DOMAIN t = 1 .. b /\ a \in Nat /\ b \in Nat
        /\ \A n \in 1 .. a : s[n] \in R
        /\ \A n \in 1 .. b : t[n] \in R
    BY SeqFacts DEF ToSet
  <1> HIDE DEF R, a, b
  <1>3. /\ s \o t \in Seq(R) /\ Len(s \o t) = a + b /\ DOMAIN (s \o t) = 1 .. a + b
        /\ \A n \in 1 .. a + b : (s \o t)[n] = IF n <= a THEN s[n] ELSE t[n - a]
    BY <1>1, <1>2, ConcatProperties, LenProperties DEF a, b
  <1>4. ToSet(s \o t) \subseteq R
    <2> SUFFICES ASSUME NEW n \in 1 .. a + b PROVE (s \o t)[n] \in R
      BY <1>3 DEF ToSet
    <2>1. CASE n <= a
      BY <1>2, <1>3, <2>1
    <2>2. CASE n > a
      <3>1. n - a \in 1 .. b
        BY <1>2, <2>2
      <3>2. (s \o t)[n] = t[n - a]
        BY <1>2, <1>3, <2>2
      <3> QED  BY <1>2, <3>1, <3>2
    <2> QED  BY <1>2, <2>1, <2>2
  <1>5. R \subseteq ToSet(s \o t)
    <2>1. ASSUME NEW n \in 1 .. a PROVE s[n] \in ToSet(s \o t)
      <3>1. n \in 1 .. a + b /\ (s \o t)[n] = s[n]
        BY <1>2, <1>3
      <3> QED  BY <1>3, <3>1 DEF ToSet
    <2>2. ASSUME NEW n \in 1 .. b PROVE t[n] \in ToSet(s \o t)
      <3>1. n + a \in 1 .. a + b /\ (s \o t)[n + a] = t[n]
        BY <1>2, <1>3
      <3> QED  BY <1>3, <3>1 DEF ToSet
    <2> QED  BY <1>2, <2>1, <2>2 DEF R, ToSet
  <1>6. IsSeq(s \o t)
    BY <1>3, IsSeqOf
  <1> QED  BY <1>4, <1>5, <1>6 DEF R

\* The rows of a cell are rows of its group.
LEMMA CellRowsFacts ==
    ASSUME NEW p, NEW m, NEW group, IsSeq(group), NEW k
    PROVE  IsSeq(CellRows(p, m, group, k)) /\ ToSet(CellRows(p, m, group, k)) \subseteq ToSet(group)
  <1> DEFINE n == Len(group)
             has(row) == row[1] = "stage" => k \in AppliesAt(StageOf(p, <<m, row[2]>>))
             f == [i \in 1 .. n |-> IF has(group[i]) THEN <<group[i]>> ELSE <<>>]
  <1>1. n \in Nat /\ DOMAIN group = 1 .. n /\ \A i \in 1 .. n : group[i] \in ToSet(group)
    BY SeqFacts DEF ToSet
  <1>2. CellRows(p, m, group, k) = FlattenSeq(f)
    BY <1>1 DEF CellRows, ForEach
  <1>3. f = [i \in 1 .. n |-> f[i]]
    OBVIOUS
  <1>4. ASSUME NEW i \in 1 .. n PROVE IsSeq(f[i]) /\ ToSet(f[i]) \subseteq ToSet(group)
    <2>1. IsSeq(<<>>) /\ ToSet(<<>>) = {}
      BY DEF IsSeq, ToSet
    <2>2. IsSeq(<<group[i]>>) /\ ToSet(<<group[i]>>) = {group[i]}
      BY DEF IsSeq, ToSet
    <2>3. f[i] = <<group[i]>> \/ f[i] = <<>>
      OBVIOUS
    <2> HIDE DEF f
    <2> QED  BY <1>1, <2>1, <2>2, <2>3
  <1> HIDE DEF f, n
  <1>5. IsSeq(FlattenSeq(f)) /\ ToSet(FlattenSeq(f)) = UNION {ToSet(f[i]) : i \in 1 .. n}
    <2>1. n \in Int /\ \A i \in 1 .. n : IsSeq(f[i])
      BY <1>1, <1>4
    <2> QED  BY <1>3, <2>1, FlattenIsSeq
  <1> QED  BY <1>2, <1>4, <1>5

\* What an executable has before its loops are laid out.
RowReady(p, m, row) ==
    IF row[1] = "stage" THEN <<m, row[2]>> \in StageIds(p)
    ELSE row[2] \in KCached(p, m) /\ row[1] \in p.mss[m].kc[row[2]]

GroupReady(x, m, group) ==
    /\ IsSeq(group) /\ group # <<>>
    /\ \A row \in ToSet(group) :
          /\ RowReady(x.p, m, row)
          /\ x.backend # "gpu" => row[1] = "stage" /\ RowExtent(x.p, m, row).lo \in Int
                                                   /\ RowExtent(x.p, m, row).hi \in Int

MultistageReady(x, m) ==
    /\ IsSeq(x.p.groups[m]) /\ \A group \in ToSet(x.p.groups[m]) : GroupReady(x, m, group)
    /\ Min(x.p.intervals[m]) \in Int /\ Max(x.p.intervals[m]) \in Int
    /\ \A k \in Min(x.p.intervals[m]) .. Max(x.p.intervals[m]) : k \in x.p.intervals[m]
    /\ x.backend # "gpu" => MssExtent(x.p, m).lo \in Int /\ MssExtent(x.p, m).hi \in Int

Ready(x) ==
    /\ IsSeq(x.p.mss) /\ 1 \in DOMAIN x.p.mss /\ \A m \in DOMAIN x.p.mss : MultistageReady(x, m)
    /\ IsSeq(x.launches) /\ \A l \in DOMAIN x.launches : /\ IsSeq(x.launches[l])
                                                         /\ ToSet(x.launches[l]) \subseteq DOMAIN x.p.mss
    /\ x.backend # "gpu" => x.launches = <<[m \in DOMAIN x.p.mss |-> m]>>
    /\ x.backend \in {"naive", "cpu_kfirst", "cpu_ifirst", "gpu", "gpu_horizontal"}
    /\ KSizeOf(x.axis) \in Int
    /\ x.isize \in Nat \ {0} /\ x.block \in Nat \ {0} /\ x.kblock \in Nat \ {0} /\ x.threads \in Nat \ {0}

LEMMA GoodLoopOver ==
    ASSUME NEW x, NEW l, NEW S, NEW n \in Int, S = 1 .. n, NEW f, f = [i \in S |-> f[i]],
           \A i \in S : GoodSeq(x, l, f[i])
    PROVE  GoodSeq(x, l, FlattenSeq(f))
  BY GoodLoop

LEMMA GoodStageItem ==
    ASSUME NEW x, NEW l, NEW m \in ToSet(x.launches[l]), NEW s, <<m, s>> \in StageIds(x.p),
           NEW at, NEW i, NEW k, NEW phase \in Nat
    PROVE  GoodItem(x, l, Item(x, at, <<m, s>>, i, k, phase))
  <1>1. /\ Item(x, at, <<m, s>>, i, k, phase).phase = phase
        /\ Item(x, at, <<m, s>>, i, k, phase).stamp = <<m, s, i, k>>
        /\ Item(x, at, <<m, s>>, i, k, phase).copies = {}
    BY DEF Item
  <1>2. Head(<<m, s, i, k>>) = m /\ <<m, s, i, k>>[1] = m /\ <<m, s, i, k>>[2] = s
    OBVIOUS
  <1> QED  BY <1>1, <1>2 DEF GoodItem, CopiesReady

LEMMA GoodCopyItem ==
    ASSUME NEW x, NEW l, NEW m \in ToSet(x.launches[l]), NEW copies, CopiesReady(x, copies), NEW phase \in Nat
    PROVE  GoodItem(x, l, CopyItem(m, copies, phase))
  <1>1. /\ CopyItem(m, copies, phase).phase = phase /\ CopyItem(m, copies, phase).writes = {}
        /\ CopyItem(m, copies, phase).stamp = <<m, 0>> /\ CopyItem(m, copies, phase).copies = copies
    BY DEF CopyItem
  <1>2. Head(<<m, 0>>) = m
    OBVIOUS
  <1> QED  BY <1>1, <1>2 DEF GoodItem

\* The extent of a group is that of its first row.
LEMMA GroupExtentFacts ==
    ASSUME NEW x, NEW m, NEW group, GroupReady(x, m, group), x.backend # "gpu"
    PROVE  GroupExtent(x.p, m, group).lo \in Int /\ GroupExtent(x.p, m, group).hi \in Int
  <1>1. 1 \in DOMAIN group /\ Head(group) = group[1]
    BY SeqFacts DEF GroupReady
  <1>2. Head(group) \in ToSet(group)
    BY <1>1 DEF ToSet
  <1> QED  BY <1>2 DEF GroupReady, GroupExtent

(* The CPU: one launch, and a view of its multistages group by group. *)
ViewReady(x, v) == v.m \in DOMAIN x.p.mss /\ GroupReady(x, v.m, v.group)

OnCpu(x) == Ready(x) /\ x.backend \in {"naive", "cpu_kfirst", "cpu_ifirst"}

LEMMA OneLaunch ==
    ASSUME NEW x, Ready(x), x.backend # "gpu", NEW m \in DOMAIN x.p.mss
    PROVE  x.launches[1] = [n \in DOMAIN x.p.mss |-> n] /\ DOMAIN x.launches = {1} /\ m \in ToSet(x.launches[1])
  BY DEF Ready, ToSet

LEMMA GoodCpuCell ==
    ASSUME NEW x, OnCpu(x), NEW v, ViewReady(x, v), NEW at, NEW i, NEW k
    PROVE  GoodSeq(x, 1, CpuCell(x, at, v, i, k))
  <1> DEFINE s == CellRows(x.p, v.m, v.group, k)
             f == [n \in DOMAIN s |-> <<Item(x, at, <<v.m, s[n][2]>>, i, k, 0)>>]
  <1>1. IsSeq(s) /\ ToSet(s) \subseteq ToSet(v.group)
    BY CellRowsFacts DEF ViewReady, GroupReady
  <1>2. DOMAIN s = 1 .. Len(s) /\ Len(s) \in Int
    BY <1>1, SeqFacts
  <1>3. CpuCell(x, at, v, i, k) = FlattenSeq(f)
    BY DEF CpuCell, ForEach
  <1>4. ASSUME NEW n \in DOMAIN s PROVE GoodSeq(x, 1, f[n])
    <2>1. s[n] \in ToSet(v.group)
      BY <1>1 DEF ToSet
    <2>2. <<v.m, s[n][2]>> \in StageIds(x.p)
      BY <2>1 DEF ViewReady, GroupReady, RowReady, OnCpu
    <2>3. v.m \in ToSet(x.launches[1])
      BY OneLaunch DEF OnCpu, ViewReady
    <2>4. GoodItem(x, 1, Item(x, at, <<v.m, s[n][2]>>, i, k, 0))
      BY <2>2, <2>3, GoodStageItem
    <2>5. GoodSeq(x, 1, <<Item(x, at, <<v.m, s[n][2]>>, i, k, 0)>>)
      BY <2>4, GoodOne
    <2> QED  BY <2>5
  <1>5. f = [n \in DOMAIN s |-> f[n]]
    OBVIOUS
  <1> HIDE DEF f, s
  <1> QED  BY <1>2, <1>3, <1>4, <1>5, GoodLoopOver

\* The loops over levels and columns.
LEMMA LevelSeqFacts ==
    ASSUME NEW exec, NEW lo \in Int, NEW hi \in Int
    PROVE  /\ IsSeq(LevelSeq(exec, lo, hi)) /\ DOMAIN LevelSeq(exec, lo, hi) = 1 .. (hi - lo + 1)
           /\ \A n \in DOMAIN LevelSeq(exec, lo, hi) : LevelSeq(exec, lo, hi)[n] \in lo .. hi
  <1> DEFINE s == LevelSeq(exec, lo, hi)
             n == IF hi - lo + 1 > 0 THEN hi - lo + 1 ELSE 0
  <1>1. n \in Nat /\ 1 .. n = 1 .. hi - lo + 1
    OBVIOUS
  <1>2. DOMAIN s = 1 .. n /\ s = [i \in 1 .. n |-> s[i]]
    BY <1>1 DEF LevelSeq
  <1>a. \A i \in 1 .. (hi - lo + 1) : s[i] \in lo .. hi
    BY DEF LevelSeq
  <1> HIDE DEF s, n
  <1>3. s \in [1 .. n -> ToSet(s)]
    BY <1>2 DEF ToSet
  <1>4. s \in Seq(ToSet(s))
    BY <1>1, <1>3, SeqDef
  <1> QED  BY <1>1, <1>2, <1>4, <1>a DEF IsSeq, s

LEMMA ExtendedFacts ==
    ASSUME NEW x, OnCpu(x), NEW v, ViewReady(x, v), NEW from, NEW size \in Int
    PROVE  \E n \in Int : DOMAIN Extended(x, v, from, size) = 1 .. n
  <1> DEFINE e == GroupExtent(x.p, v.m, v.group)
  <1>1. e.lo \in Int /\ e.hi \in Int
    BY GroupExtentFacts DEF OnCpu, ViewReady
  <1>2. DOMAIN Extended(x, v, from, size) = 1 .. size - e.lo + e.hi
    BY DEF Extended
  <1> HIDE DEF e
  <1>3. size - e.lo + e.hi \in Int
    BY <1>1
  <1> QED  BY <1>2, <1>3

LEMMA GoodKFirst ==
    ASSUME NEW x, OnCpu(x), NEW v, ViewReady(x, v), NEW at, NEW from, NEW size \in Int
    PROVE  GoodSeq(x, 1, KFirst(x, at, v, from, size))
  <1> DEFINE s == Extended(x, v, from, size)
             t == CpuLevels(x, v)
             g(i) == [j \in DOMAIN t |-> CpuCell(x, at, v, i, t[j])]
             f == [n \in DOMAIN s |-> FlattenSeq(g(s[n]))]
  <1>1. PICK n \in Int : DOMAIN s = 1 .. n
    BY ExtendedFacts
  <1>2. DOMAIN t = 1 .. (KSizeOf(x.axis) - 1 - 0 + 1) /\ KSizeOf(x.axis) - 1 - 0 + 1 \in Int
    BY LevelSeqFacts DEF CpuLevels, OnCpu, Ready
  <1>3. KFirst(x, at, v, from, size) = FlattenSeq(f)
    BY DEF KFirst, ForEach
  <1>4. ASSUME NEW i PROVE GoodSeq(x, 1, FlattenSeq(g(i)))
    <2>1. \A j \in DOMAIN t : GoodSeq(x, 1, g(i)[j])
      BY GoodCpuCell
    <2>2. g(i) = [j \in DOMAIN t |-> g(i)[j]]
      OBVIOUS
    <2> HIDE DEF g, t
    <2> QED  BY <1>2, <2>1, <2>2, GoodLoopOver
  <1> HIDE DEF g, s
  <1>5. f = [j \in DOMAIN s |-> f[j]] /\ \A j \in DOMAIN s : GoodSeq(x, 1, f[j])
    BY <1>4
  <1> HIDE DEF f
  <1> QED  BY <1>1, <1>3, <1>5, GoodLoopOver

LEMMA GoodIFirst ==
    ASSUME NEW x, OnCpu(x), NEW v, ViewReady(x, v), NEW at, NEW from, NEW size \in Int,
           NEW levels, NEW n \in Int, DOMAIN levels = 1 .. n
    PROVE  GoodSeq(x, 1, IFirst(x, at, v, from, size, levels))
  <1> DEFINE s == Extended(x, v, from, size)
             g(k) == [j \in DOMAIN s |-> CpuCell(x, at, v, s[j], k)]
             f == [j \in DOMAIN levels |-> FlattenSeq(g(levels[j]))]
  <1>1. PICK o \in Int : DOMAIN s = 1 .. o
    BY ExtendedFacts
  <1>3. IFirst(x, at, v, from, size, levels) = FlattenSeq(f)
    BY DEF IFirst, ForEach
  <1>4. ASSUME NEW k PROVE GoodSeq(x, 1, FlattenSeq(g(k)))
    <2>1. \A j \in DOMAIN s : GoodSeq(x, 1, g(k)[j])
      BY GoodCpuCell
    <2>2. g(k) = [j \in DOMAIN s |-> g(k)[j]]
      OBVIOUS
    <2> HIDE DEF g, s
    <2> QED  BY <1>1, <2>1, <2>2, GoodLoopOver
  <1> HIDE DEF g, s
  <1>5. f = [j \in DOMAIN levels |-> f[j]] /\ \A j \in DOMAIN levels : GoodSeq(x, 1, f[j])
    BY <1>4
  <1> HIDE DEF f
  <1> QED  BY <1>3, <1>5, GoodLoopOver

\* The last sequence of a sequence of sequences grows, or a new one follows it.
LEMMA GrowFacts ==
    ASSUME NEW R, NEW runs \in Seq(Seq(R)), NEW k \in R
    PROVE  /\ runs # <<>> => Append(Front(runs), Append(Last(runs), k)) \in Seq(Seq(R))
           /\ Append(runs, <<k>>) \in Seq(Seq(R))
  <1> DEFINE L == Len(runs)
  <1>1. L \in Nat /\ \A g \in 1 .. L : runs[g] \in Seq(R)
    OBVIOUS
  <1>2. ASSUME runs # <<>> PROVE Append(Front(runs), Append(Last(runs), k)) \in Seq(Seq(R))
    <2>1. L # 0 /\ L \in 1 .. L
      BY <1>1, <1>2
    <2>2. Append(runs[L], k) \in Seq(R)
      BY <1>1, <2>1
    <2>3. SubSeq(runs, 1, L - 1) \in Seq(Seq(R))
      <3> HIDE DEF L
      <3>1. \A g \in 1 .. L - 1 : runs[g] \in Seq(R)
        BY <1>1
      <3> QED  BY <1>1, <3>1, SubSeqProperties
    <2> QED  BY <2>2, <2>3 DEF Front, Last
  <1>3. <<k>> \in Seq(R)
    OBVIOUS
  <1> QED  BY <1>2, <1>3

LEMMA LevelRunsFacts ==
    ASSUME NEW x, OnCpu(x), NEW v
    PROVE  \E R : LevelRuns(x, v) \in Seq(Seq(R))
  <1> DEFINE levels == CpuLevels(x, v)
             L == Len(levels)
             R == ToSet(levels)
             T == Seq(Seq(R))
             same(k1, k2) == Overloads(x, v, k1) = Overloads(x, v, k2)
             grow(runs, k) == IF runs # <<>> /\ same(Last(Last(runs)), k)
                              THEN Append(Front(runs), Append(Last(runs), k))
                              ELSE Append(runs, <<k>>)
             Term(f, n) == IF n = 0 THEN <<>> ELSE grow(f[n - 1], levels[n])
             Eq(f) == f = [n \in 0 .. L |-> Term(f, n)]
             f0 == CHOOSE f : Eq(f)
             step == [a \in T \X (1 .. L) |-> grow(a[1], levels[a[2]])]
  <1>1. L \in Nat /\ \A n \in 1 .. L : levels[n] \in R
    <2>1. IsSeq(levels)
      BY LevelSeqFacts DEF CpuLevels, OnCpu, Ready
    <2> HIDE DEF levels
    <2> QED  BY <2>1, SeqFacts DEF ToSet
  <1>2. LevelRuns(x, v) = f0[L]
    BY DEF LevelRuns
  <1> HIDE DEF L, R, levels
  <1>3. ASSUME NEW runs \in T, NEW k \in R PROVE grow(runs, k) \in T
    BY GrowFacts
  <1>4. \A a \in T \X (1 .. L) : a[1] \in T /\ levels[a[2]] \in R
    BY <1>1
  <1> HIDE DEF grow
  <1>5. step \in [T \X (1 .. L) -> T]
    BY <1>3, <1>4
  <1>6. <<>> \in T
    OBVIOUS
  <1> HIDE DEF T
  <1>7. PICK f : Follows(f, T, <<>>, L, step)
    <2> HIDE DEF step
    <2> QED  BY <1>1, <1>5, <1>6, Iterate
  <1>8. f = [n \in 0 .. L |-> f[n]] /\ \A n \in 0 .. L : f[n] = Term(f, n)
    <2>1. f \in [0 .. L -> T] /\ f[0] = <<>>
      BY <1>7 DEF Follows
    <2>2. ASSUME NEW n \in 1 .. L PROVE f[n] = grow(f[n - 1], levels[n])
      <3>1. f[n - 1] \in T
        BY <1>1, <2>1
      <3>2. f[n] = step[<<f[n - 1], n>>]
        BY <1>7 DEF Follows
      <3> QED  BY <3>1, <3>2
    <2>3. \A n \in 0 .. L : n # 0 => n \in 1 .. L
      BY <1>1
    <2> QED  BY <2>1, <2>2, <2>3
  <1> HIDE DEF Term, step
  <1>9. Eq(f0)
    BY <1>8
  <1> HIDE DEF f0
  <1>10. \A n \in 0 .. L : f0[n] = Term(f0, n)
    BY <1>9
  <1> DEFINE X == {n \in Nat : n \in 0 .. L => f0[n] \in T}
  <1>11. 0 \in X
    BY <1>1, <1>6, <1>10 DEF Term
  <1>12. ASSUME NEW n \in Nat, n \in X PROVE n + 1 \in X
    <2> SUFFICES ASSUME n + 1 \in 0 .. L PROVE f0[n + 1] \in T
      OBVIOUS
    <2>1. n \in 0 .. L /\ n + 1 \in 1 .. L /\ n + 1 # 0 /\ (n + 1) - 1 = n
      BY <1>1
    <2>2. f0[n + 1] = grow(f0[n], levels[n + 1])
      BY <1>10, <2>1 DEF Term
    <2> QED  BY <1>1, <1>3, <1>12, <2>1, <2>2
  <1> HIDE DEF X
  <1>13. L \in X
    BY <1>1, <1>11, <1>12, SetInduction
  <1> QED  BY <1>1, <1>2, <1>13 DEF X, T

LEMMA GoodNaive ==
    ASSUME NEW x, OnCpu(x), NEW v, ViewReady(x, v), NEW at
    PROVE  GoodSeq(x, 1, Naive(x, at, v))
  <1> DEFINE s == Extended(x, v, 0, x.isize)
             runs == LevelRuns(x, v)
             h(run, i) == [j \in DOMAIN run |-> CpuCell(x, at, v, i, run[j])]
             g(run) == [j \in DOMAIN s |-> FlattenSeq(h(run, s[j]))]
             f == [j \in DOMAIN runs |-> FlattenSeq(g(runs[j]))]
  <1>1. PICK o \in Int : DOMAIN s = 1 .. o
    BY ExtendedFacts DEF OnCpu, Ready
  <1>2. PICK R : runs \in Seq(Seq(R))
    BY LevelRunsFacts
  <1>3. DOMAIN runs = 1 .. Len(runs) /\ Len(runs) \in Int /\ \A j \in DOMAIN runs : runs[j] \in Seq(R)
    <2> HIDE DEF runs
    <2> QED  BY <1>2
  <1>4. Naive(x, at, v) = FlattenSeq(f)
    BY DEF Naive, ForEach
  <1>5. ASSUME NEW run \in Seq(R), NEW i PROVE GoodSeq(x, 1, FlattenSeq(h(run, i)))
    <2>1. \A j \in DOMAIN run : GoodSeq(x, 1, h(run, i)[j])
      BY GoodCpuCell
    <2>2. h(run, i) = [j \in DOMAIN run |-> h(run, i)[j]]
      OBVIOUS
    <2>3. DOMAIN run = 1 .. Len(run) /\ Len(run) \in Int
      OBVIOUS
    <2> HIDE DEF h
    <2> QED  BY <2>1, <2>2, <2>3, GoodLoopOver
  <1> HIDE DEF h, s
  <1>6. ASSUME NEW run \in Seq(R) PROVE GoodSeq(x, 1, FlattenSeq(g(run)))
    <2>1. \A j \in DOMAIN s : GoodSeq(x, 1, g(run)[j])
      BY <1>5
    <2>2. g(run) = [j \in DOMAIN s |-> g(run)[j]]
      OBVIOUS
    <2> HIDE DEF g
    <2> QED  BY <1>1, <2>1, <2>2, GoodLoopOver
  <1> HIDE DEF g, runs
  <1>7. f = [j \in DOMAIN runs |-> f[j]] /\ \A j \in DOMAIN runs : GoodSeq(x, 1, f[j])
    BY <1>3, <1>6
  <1> HIDE DEF f
  <1> QED  BY <1>3, <1>4, <1>7, GoodLoopOver

LEMMA SplitViewFacts ==
    ASSUME NEW x, Ready(x)
    PROVE  IsSeq(SplitView(x.p)) /\ \A v \in ToSet(SplitView(x.p)) : ViewReady(x, v)
  <1> DEFINE n == Len(x.p.mss)
             group(m) == x.p.groups[m]
             g(m) == [j \in DOMAIN group(m) |-> <<[m |-> m, group |-> group(m)[j]]>>]
             f == [m \in 1 .. n |-> FlattenSeq(g(m))]
  <1>1. n \in Nat /\ DOMAIN x.p.mss = 1 .. n
    BY SeqFacts DEF Ready
  <1>2. SplitView(x.p) = FlattenSeq(f)
    BY <1>1 DEF SplitView, ForEach
  <1> HIDE DEF n
  <1>3. ASSUME NEW m \in 1 .. n
        PROVE  IsSeq(FlattenSeq(g(m))) /\ \A v \in ToSet(FlattenSeq(g(m))) : ViewReady(x, v)
    <2> DEFINE o == Len(group(m))
    <2>1. o \in Nat /\ DOMAIN group(m) = 1 .. o
      BY <1>1, SeqFacts DEF Ready, MultistageReady
    <2> HIDE DEF o
    <2>2. ASSUME NEW j \in 1 .. o
          PROVE  IsSeq(g(m)[j]) /\ \A v \in ToSet(g(m)[j]) : ViewReady(x, v)
      <3> DEFINE v == [m |-> m, group |-> group(m)[j]]
      <3>1. GroupReady(x, m, group(m)[j])
        <4>1. group(m)[j] \in ToSet(group(m))
          BY <2>1 DEF ToSet
        <4> QED  BY <1>1, <4>1 DEF Ready, MultistageReady
      <3>2. ViewReady(x, v)
        BY <1>1, <3>1 DEF ViewReady
      <3>3. g(m)[j] = <<v>>
        BY <2>1
      <3> HIDE DEF v
      <3>4. IsSeq(<<v>>) /\ ToSet(<<v>>) = {v}
        BY DEF IsSeq, ToSet
      <3> QED  BY <3>2, <3>3, <3>4
    <2>3. g(m) = [j \in 1 .. o |-> g(m)[j]]
      BY <2>1
    <2> HIDE DEF g
    <2>4. /\ IsSeq(FlattenSeq(g(m)))
          /\ ToSet(FlattenSeq(g(m))) = UNION {ToSet(g(m)[j]) : j \in 1 .. o}
      <3>1. o \in Int /\ \A j \in 1 .. o : IsSeq(g(m)[j])
        BY <2>1, <2>2
      <3> QED  BY <2>3, <3>1, FlattenIsSeq
    <2> QED  BY <2>2, <2>4
  <1> HIDE DEF g
  <1>4. \A m \in 1 .. n : IsSeq(f[m]) /\ \A v \in ToSet(f[m]) : ViewReady(x, v)
    BY <1>3
  <1>5. f = [m \in 1 .. n |-> f[m]]
    OBVIOUS
  <1> HIDE DEF f
  <1>6. IsSeq(FlattenSeq(f)) /\ ToSet(FlattenSeq(f)) = UNION {ToSet(f[m]) : m \in 1 .. n}
    <2>1. n \in Int /\ \A m \in 1 .. n : IsSeq(f[m])
      BY <1>1, <1>4
    <2> QED  BY <1>5, <2>1, FlattenIsSeq
  <1> QED  BY <1>2, <1>4, <1>6

LEMMA CeilDivFacts ==
    ASSUME NEW a \in Nat \ {0}, NEW b \in Nat \ {0}
    PROVE  CeilDiv(a, b) \in Nat \ {0}
  <1> DEFINE q == (a + b - 1) \div b
             r == (a + b - 1) % b
  <1>1. q \in Int /\ r \in 0 .. b - 1 /\ a + b - 1 = b * q + r
    OBVIOUS
  <1> HIDE DEF q, r
  <1>2. q >= 1
    <2> SUFFICES ASSUME q <= 0 PROVE FALSE
      BY <1>1
    <2>1. b * q <= 0
      BY <1>1
    <2> QED  BY <1>1, <2>1
  <1> QED  BY <1>1, <1>2 DEF CeilDiv, q

LEMMA CpuBlockFacts ==
    ASSUME NEW x, OnCpu(x)
    PROVE  CpuBlock(x) \in Nat \ {0} /\ CpuBlocks(x) \in Nat \ {0}
  <1>1. x.isize \in Nat \ {0} /\ x.block \in Nat \ {0} /\ x.threads \in Nat \ {0}
    BY DEF OnCpu, Ready
  <1>2. CpuBlock(x) = x.isize \/ CpuBlock(x) = x.block \/ CpuBlock(x) = CeilDiv(x.isize, x.threads)
    BY DEF CpuBlock, OnCpu
  <1>3. CpuBlock(x) \in Nat \ {0}
    BY <1>1, <1>2, CeilDivFacts
  <1> QED  BY <1>1, <1>3, CeilDivFacts DEF CpuBlocks

LEMMA GoodUnitItems ==
    ASSUME NEW x, OnCpu(x), NEW thread, NEW u, u.b \in Int
    PROVE  GoodSeq(x, 1, UnitItems(x, thread, u))
  <1> DEFINE from == u.b * CpuBlock(x)
             size == IF u.b + 1 = CpuBlocks(x) THEN x.isize - from ELSE CpuBlock(x)
             at   == [thread |-> thread, origin |-> from]
             s    == SplitView(x.p)
             items(v) ==
                CASE x.backend = "naive"      -> Naive(x, at, v)
                  [] x.backend = "cpu_kfirst" -> KFirst(x, at, v, from, size)
                  [] x.backend = "cpu_ifirst" ->
                         IFirst(x, at, v, from, size, IF x.fused THEN <<u.k>> ELSE CpuLevels(x, v))
             f == [n \in DOMAIN s |-> items(s[n])]
  <1>1. /\ IsSeq(s) /\ \A v \in ToSet(s) : ViewReady(x, v)
    BY SplitViewFacts DEF OnCpu
  <1>2. DOMAIN s = 1 .. Len(s) /\ Len(s) \in Int
    <2> HIDE DEF s
    <2> QED  BY <1>1, SeqFacts
  <1>3. UnitItems(x, thread, u) = FlattenSeq(f)
    BY DEF UnitItems, ForEach
  <1>4. from \in Int /\ size \in Int
    <2>1. CpuBlock(x) \in Int /\ x.isize \in Int
      BY CpuBlockFacts DEF OnCpu, Ready
    <2> QED  BY <2>1
  <1>5. ASSUME NEW v, ViewReady(x, v) PROVE GoodSeq(x, 1, items(v))
    <2> HIDE DEF from, size, at
    <2>1. CASE x.backend = "naive"
      <3>1. items(v) = Naive(x, at, v)
        BY <2>1
      <3> QED  BY <1>5, <3>1, GoodNaive
    <2>2. CASE x.backend = "cpu_kfirst"
      <3>1. items(v) = KFirst(x, at, v, from, size)
        BY <2>2
      <3> QED  BY <1>4, <1>5, <3>1, GoodKFirst
    <2>3. CASE x.backend = "cpu_ifirst"
      <3> DEFINE levels == IF x.fused THEN <<u.k>> ELSE CpuLevels(x, v)
      <3>1. items(v) = IFirst(x, at, v, from, size, levels)
        BY <2>3
      <3>2. \E n \in Int : DOMAIN levels = 1 .. n
        <4>1. KSizeOf(x.axis) - 1 - 0 + 1 \in Int /\ KSizeOf(x.axis) - 1 \in Int
          BY DEF OnCpu, Ready
        <4>2. DOMAIN CpuLevels(x, v) = 1 .. (KSizeOf(x.axis) - 1 - 0 + 1)
          BY <4>1, LevelSeqFacts DEF CpuLevels
        <4>3. DOMAIN <<u.k>> = 1 .. 1
          OBVIOUS
        <4>4. levels = <<u.k>> \/ levels = CpuLevels(x, v)
          OBVIOUS
        <4> HIDE DEF levels
        <4>5. CASE levels = <<u.k>>
          <5>1. DOMAIN levels = 1 .. 1 /\ 1 \in Int
            BY <4>3, <4>5
          <5> QED  BY <5>1
        <4>6. CASE levels = CpuLevels(x, v)
          <5>1. DOMAIN levels = 1 .. (KSizeOf(x.axis) - 1 - 0 + 1)
            BY <4>2, <4>6
          <5> QED  BY <4>1, <5>1
        <4> QED  BY <4>4, <4>5, <4>6
      <3> HIDE DEF levels
      <3> QED  BY <1>4, <1>5, <3>1, <3>2, GoodIFirst
    <2> QED  BY <2>1, <2>2, <2>3 DEF OnCpu
  <1> HIDE DEF items, s
  <1>6. f = [j \in DOMAIN s |-> f[j]] /\ \A j \in DOMAIN s : GoodSeq(x, 1, f[j])
    BY <1>1, <1>5 DEF ToSet
  <1> HIDE DEF f
  <1> QED  BY <1>2, <1>3, <1>6, GoodLoopOver

LEMMA GoodCpuItems ==
    ASSUME NEW x, OnCpu(x), NEW thread
    PROVE  GoodSeq(x, 1, CpuItems(x, thread))
  <1> DEFINE share == CeilDiv(Len(CpuUnits(x)), x.threads)
             units == CpuBlocks(x) * (IF x.fused THEN KSizeOf(x.axis) ELSE 1)
             s == CpuUnits(x)
             f == [n \in DOMAIN s |->
                      IF s[n].index \div share = thread THEN UnitItems(x, thread, s[n]) ELSE <<>>]
  <1>1. units \in Int /\ CpuBlocks(x) \in Nat \ {0}
    BY CpuBlockFacts DEF OnCpu, Ready
  <1>2. DOMAIN s = 1 .. units /\ \A n \in 1 .. units : s[n].b = (n - 1) % CpuBlocks(x)
    BY DEF CpuUnits
  <1>3. CpuItems(x, thread) = FlattenSeq(f)
    BY DEF CpuItems, ForEach
  <1> HIDE DEF units, share, s
  <1>4. ASSUME NEW n \in DOMAIN s PROVE GoodSeq(x, 1, f[n])
    <2>1. s[n].b \in Int
      BY <1>1, <1>2
    <2>2. GoodSeq(x, 1, UnitItems(x, thread, s[n]))
      BY <2>1, GoodUnitItems
    <2>3. GoodSeq(x, 1, <<>>)
      BY GoodOne
    <2> QED  BY <2>2, <2>3
  <1>5. f = [n \in DOMAIN s |-> f[n]]
    OBVIOUS
  <1> HIDE DEF f
  <1> QED  BY <1>1, <1>2, <1>3, <1>4, <1>5, GoodLoopOver

(* The GPU: the cells of a block, and what a thread does of them. *)
CellReady(x, l, cell) ==
    /\ cell.m \in ToSet(x.launches[l]) /\ cell.m \in DOMAIN x.p.mss /\ cell.k \in x.p.intervals[cell.m]
    /\ IsSeq(cell.rows)
    /\ \A row \in ToSet(cell.rows) : row[1] # "slide" => RowReady(x.p, cell.m, row)

CellSeq(x, l, s) == IsSeq(s) /\ \A cell \in ToSet(s) : CellReady(x, l, cell)

LEMMA CellLoop ==
    ASSUME NEW x, NEW l, NEW S, NEW n \in Int, S = 1 .. n, NEW f, f = [i \in S |-> f[i]],
           \A i \in S : CellSeq(x, l, f[i])
    PROVE  CellSeq(x, l, FlattenSeq(f))
  <1>1. \A i \in 1 .. n : IsSeq(f[i])
    BY DEF CellSeq
  <1>2. IsSeq(FlattenSeq(f)) /\ ToSet(FlattenSeq(f)) = UNION {ToSet(f[i]) : i \in 1 .. n}
    BY <1>1, FlattenIsSeq
  <1> QED  BY <1>2 DEF CellSeq

LEMMA CellOne ==
    ASSUME NEW x, NEW l, NEW cell
    PROVE  CellSeq(x, l, <<>>) /\ (CellReady(x, l, cell) => CellSeq(x, l, <<cell>>))
  <1>1. IsSeq(<<>>) /\ ToSet(<<>>) = {}
    BY DEF IsSeq, ToSet
  <1>2. IsSeq(<<cell>>) /\ ToSet(<<cell>>) = {cell}
    BY DEF IsSeq, ToSet
  <1> QED  BY <1>1, <1>2 DEF CellSeq

LEMMA CellsAtFacts ==
    ASSUME NEW x, Ready(x), NEW l, NEW m \in DOMAIN x.p.mss, m \in ToSet(x.launches[l]),
           NEW k \in x.p.intervals[m]
    PROVE  CellSeq(x, l, CellsAt(x, m, k)) /\ CellSeq(x, l, SlideAt(x, m, k))
  <1> DEFINE s == x.p.groups[m]
             rows(group) == CellRows(x.p, m, group, k)
             cell(group) == [m |-> m, k |-> k, rows |-> rows(group),
                             extent |-> GroupExtent(x.p, m, group), sync |-> GroupNeedsSync(x.p, m, group)]
             f == [n \in DOMAIN s |-> IF rows(s[n]) = <<>> THEN <<>> ELSE <<cell(s[n])>>]
  <1>1. /\ IsSeq(s) /\ \A group \in ToSet(s) : GroupReady(x, m, group)
    BY DEF Ready, MultistageReady
  <1>2. DOMAIN s = 1 .. Len(s) /\ Len(s) \in Int
    <2> HIDE DEF s
    <2> QED  BY <1>1, SeqFacts
  <1>3. CellsAt(x, m, k) = FlattenSeq(f)
    BY DEF CellsAt, ForEach
  <1> HIDE DEF s
  <1>4. ASSUME NEW group, GroupReady(x, m, group) PROVE CellReady(x, l, cell(group))
    <2>1. IsSeq(rows(group)) /\ ToSet(rows(group)) \subseteq ToSet(group)
      BY <1>4, CellRowsFacts DEF GroupReady
    <2> HIDE DEF rows
    <2> QED  BY <1>4, <2>1 DEF CellReady, GroupReady
  <1> HIDE DEF cell, rows
  <1>5. ASSUME NEW n \in DOMAIN s PROVE CellSeq(x, l, f[n])
    <2>1. GroupReady(x, m, s[n])
      BY <1>1 DEF ToSet
    <2>2. CellSeq(x, l, <<>>) /\ CellSeq(x, l, <<cell(s[n])>>)
      BY <1>4, <2>1, CellOne
    <2> QED  BY <2>2
  <1>6. f = [n \in DOMAIN s |-> f[n]]
    OBVIOUS
  <1> HIDE DEF f
  <1>7. CellSeq(x, l, CellsAt(x, m, k))
    BY <1>2, <1>3, <1>5, <1>6, CellLoop
  <1>8. CellSeq(x, l, SlideAt(x, m, k))
    <2> DEFINE slide == [m |-> m, k |-> k, rows |-> <<<<"slide">>>>, extent |-> MssExtent(x.p, m), sync |-> FALSE]
    <2>1. IsSeq(<<<<"slide">>>>) /\ ToSet(<<<<"slide">>>>) = {<<"slide">>}
      BY DEF IsSeq, ToSet
    <2>2. <<"slide">>[1] = "slide"
      OBVIOUS
    <2>3. CellReady(x, l, slide)
      BY <2>1, <2>2 DEF CellReady
    <2>4. SlideAt(x, m, k) = <<>> \/ SlideAt(x, m, k) = <<slide>>
      BY DEF SlideAt
    <2> HIDE DEF slide
    <2> QED  BY <2>3, <2>4, CellOne
  <1> QED  BY <1>7, <1>8

LEMMA GpuLevelsFacts ==
    ASSUME NEW x, Ready(x), NEW m \in DOMAIN x.p.mss, NEW z \in Nat
    PROVE  /\ \E n \in Int : DOMAIN GpuLevels(x, m, z) = 1 .. n
           /\ \A j \in DOMAIN GpuLevels(x, m, z) : GpuLevels(x, m, z)[j] \in x.p.intervals[m]
  <1> DEFINE I == x.p.intervals[m]
             start == Min(I) + z * x.kblock
             top == start + x.kblock - 1
             end == Min({Max(I), top})
  <1>1. Min(I) \in Int /\ Max(I) \in Int /\ x.kblock \in Nat /\ \A k \in Min(I) .. Max(I) : k \in I
    BY DEF Ready, MultistageReady
  <1>2. start \in Int /\ top \in Int /\ Min(I) <= start
    <2> DEFINE c == z * x.kblock
               a == Min(I)
    <2>1. c \in Nat /\ a \in Int /\ x.kblock \in Nat
      BY <1>1
    <2>2. start = a + c /\ top = start + x.kblock - 1
      OBVIOUS
    <2> HIDE DEF a, c, start, top
    <2>3. start \in Int /\ top \in Int /\ a <= start
      BY <2>1, <2>2
    <2> QED  BY <2>3 DEF a
  <1> HIDE DEF top, start, I
  <1>3. end \in Int /\ end <= Max(I)
    <2> DEFINE a == Max(I)
               S == {a, top}
    <2>1. a \in Int
      BY <1>1
    <2> HIDE DEF a
    <2>2. \E y \in S : \A q \in S : y <= q
      BY <1>2, <2>1
    <2>3. Min(S) \in S /\ Min(S) <= a
      BY <2>2 DEF Min
    <2> QED  BY <1>2, <2>1, <2>3 DEF a
  <1>4. \/ GpuLevels(x, m, z) = LevelSeq("parallel", start, end)
        \/ GpuLevels(x, m, z) = LevelSeq(x.p.mss[m].exec, Min(I), Max(I))
    BY DEF GpuLevels, start, top, I
  <1> DEFINE lo == Min(I)
             hi == Max(I)
  <1> HIDE DEF end, lo, hi
  <1>5. CASE GpuLevels(x, m, z) = LevelSeq("parallel", start, end)
    <2> DEFINE s == LevelSeq("parallel", start, end)
    <2>1. DOMAIN s = 1 .. (end - start + 1) /\ end - start + 1 \in Int /\ \A j \in DOMAIN s : s[j] \in start .. end
      BY <1>2, <1>3, LevelSeqFacts
    <2>2. ASSUME NEW j \in DOMAIN s PROVE s[j] \in I
      <3>1. s[j] \in start .. end
        BY <2>1
      <3> HIDE DEF s
      <3>2. lo \in Int /\ hi \in Int /\ lo <= start /\ end <= hi
        BY <1>1, <1>2, <1>3 DEF lo, hi
      <3>3. s[j] \in lo .. hi
        BY <1>2, <1>3, <3>1, <3>2
      <3> QED  BY <1>1, <3>3 DEF lo, hi
    <2> QED  BY <1>5, <2>1, <2>2 DEF I
  <1>6. CASE GpuLevels(x, m, z) = LevelSeq(x.p.mss[m].exec, Min(I), Max(I))
    <2>1. /\ DOMAIN GpuLevels(x, m, z) = 1 .. (Max(I) - Min(I) + 1) /\ Max(I) - Min(I) + 1 \in Int
          /\ \A j \in DOMAIN GpuLevels(x, m, z) : GpuLevels(x, m, z)[j] \in Min(I) .. Max(I)
      BY <1>1, <1>6, LevelSeqFacts
    <2> QED  BY <1>1, <2>1 DEF I
  <1> QED  BY <1>4, <1>5, <1>6

LEMMA GpuCellsFacts ==
    ASSUME NEW x, Ready(x), NEW l \in DOMAIN x.launches, NEW z \in Nat
    PROVE  CellSeq(x, l, GpuCells(x, x.launches[l], z))
  <1> DEFINE s == x.launches[l]
             t(m) == GpuLevels(x, m, z)
             at(m, k) == CellsAt(x, m, k) \o SlideAt(x, m, k)
             g(m) == [j \in DOMAIN t(m) |-> at(m, t(m)[j])]
             f == [n \in DOMAIN s |-> FlattenSeq(g(s[n]))]
  <1>1. IsSeq(s) /\ \A m \in ToSet(s) : m \in DOMAIN x.p.mss
    BY DEF Ready
  <1>2. DOMAIN s = 1 .. Len(s) /\ Len(s) \in Int /\ \A n \in DOMAIN s : s[n] \in ToSet(s)
    <2> HIDE DEF s
    <2> QED  BY <1>1, SeqFacts DEF ToSet
  <1>3. GpuCells(x, x.launches[l], z) = FlattenSeq(f)
    BY DEF GpuCells, ForEach
  <1>4. ASSUME NEW m \in ToSet(s) PROVE CellSeq(x, l, FlattenSeq(g(m)))
    <2>1. ASSUME NEW k \in x.p.intervals[m] PROVE CellSeq(x, l, at(m, k))
      <3>1. CellSeq(x, l, CellsAt(x, m, k)) /\ CellSeq(x, l, SlideAt(x, m, k))
        BY <1>1, CellsAtFacts
      <3>2. /\ IsSeq(at(m, k))
            /\ ToSet(at(m, k)) = ToSet(CellsAt(x, m, k)) \cup ToSet(SlideAt(x, m, k))
        BY <3>1, ConcatIsSeq DEF CellSeq
      <3> HIDE DEF at
      <3> QED  BY <3>1, <3>2 DEF CellSeq
    <2> HIDE DEF at
    <2>2. PICK n \in Int : DOMAIN t(m) = 1 .. n /\ \A j \in DOMAIN t(m) : t(m)[j] \in x.p.intervals[m]
      BY <1>1, GpuLevelsFacts
    <2> HIDE DEF t
    <2>3. g(m) = [j \in DOMAIN t(m) |-> g(m)[j]] /\ \A j \in DOMAIN t(m) : CellSeq(x, l, g(m)[j])
      BY <2>1, <2>2
    <2> HIDE DEF g
    <2> QED  BY <2>2, <2>3, CellLoop
  <1> HIDE DEF g, s
  <1>5. f = [n \in DOMAIN s |-> f[n]] /\ \A n \in DOMAIN s : CellSeq(x, l, f[n])
    BY <1>2, <1>4
  <1> HIDE DEF f
  <1> QED  BY <1>2, <1>3, <1>5, CellLoop

\* The window of a K cache is in registers; only what it fills and flushes is in a field.
LEMMA SyncCopies ==
    ASSUME NEW x, NEW m \in DOMAIN x.p.mss, NEW row, RowReady(x.p, m, row), row[1] # "stage",
           NEW at, NEW i, NEW k \in x.p.intervals[m], NEW phase
    PROVE  \E copies : SyncItem(x, at, m, row, i, k, phase) = CopyItem(m, copies, phase) /\ CopiesReady(x, copies)
  <1> DEFINE f == row[2]
             offsets == SyncedOffsets(x.p, m, row[1], f, x.p.intervals[m], x.axis, k)
             copy(o) == IF row[1] = "fill"
                        THEN [from |-> MainMemory(x, at, f, i, k + o), to |-> KRegister(at, m, f, i, o)]
                        ELSE [from |-> KRegister(at, m, f, i, o), to |-> MainMemory(x, at, f, i, k + o)]
             copies == {copy(o) : o \in offsets}
  <1>1. SyncItem(x, at, m, row, i, k, phase) = CopyItem(m, copies, phase)
    BY DEF SyncItem
  <1>2. f \in KCached(x.p, m) /\ row[1] \in x.p.mss[m].kc[f]
    BY DEF RowReady
  <1>3. ASSUME NEW o \in offsets, MainMemory(x, at, f, i, k + o)[1] = "field"
        PROVE  InWindow(x, MainMemory(x, at, f, i, k + o)[4])
    <2>1. f \notin x.p.temps
      BY <1>3 DEF MainMemory, BlockTemporary, ThreadTemporary
    <2>2. MainMemory(x, at, f, i, k + o) = <<"field", f, i, k + o>>
      BY <2>1 DEF MainMemory
    <2>3. MainMemory(x, at, f, i, k + o)[4] = k + o
      BY <2>2
    <2> QED  BY <1>2, <2>1, <2>3 DEF InWindow
  <1> HIDE DEF offsets
  <1>4. \A o \in offsets : KRegister(at, m, f, i, o)[1] # "field"
    BY DEF KRegister
  <1>5. ASSUME NEW o \in offsets, NEW loc \in {copy(o).from, copy(o).to}
        PROVE  loc = MainMemory(x, at, f, i, k + o) \/ loc = KRegister(at, m, f, i, o)
    BY <1>5
  <1>6. ASSUME NEW c \in copies, NEW loc \in {c.from, c.to}, loc[1] = "field" PROVE InWindow(x, loc[4])
    <2>1. PICK o \in offsets : c = copy(o)
      BY <1>6
    <2> HIDE DEF copy, copies, f
    <2> QED  BY <1>3, <1>4, <1>5, <1>6, <2>1
  <1> HIDE DEF copies
  <1> QED  BY <1>1, <1>6 DEF CopiesReady

LEMMA SlideCopies ==
    ASSUME NEW x, NEW at, NEW m, NEW i, NEW phase
    PROVE  \E copies : SlideItem(x, at, m, i, phase) = CopyItem(m, copies, phase) /\ CopiesReady(x, copies)
  <1> DEFINE step == SlideStep(x.p.mss[m].exec)
             slid(f) == {[from |-> KRegister(at, m, f, i, o + step), to |-> KRegister(at, m, f, i, o)] :
                            o \in SlidOffsets(x.p, m, f)}
             copies == UNION {slid(f) : f \in KCached(x.p, m)}
  <1>1. SlideItem(x, at, m, i, phase) = CopyItem(m, copies, phase)
    BY DEF SlideItem
  <1>2. ASSUME NEW f, NEW c \in slid(f), NEW loc \in {c.from, c.to} PROVE loc[1] # "field"
    BY <1>2 DEF KRegister
  <1> HIDE DEF slid
  <1>3. CopiesReady(x, copies)
    BY <1>2 DEF CopiesReady
  <1> HIDE DEF copies
  <1> QED  BY <1>1, <1>3

LEMMA GoodRowItem ==
    ASSUME NEW x, NEW l, NEW cell, CellReady(x, l, cell), NEW row \in ToSet(cell.rows),
           NEW at, NEW i, NEW phase \in Nat
    PROVE  GoodItem(x, l, RowItem(x, at, cell, row, i, phase))
  <1>1. /\ cell.m \in ToSet(x.launches[l]) /\ cell.m \in DOMAIN x.p.mss /\ cell.k \in x.p.intervals[cell.m]
        /\ row[1] # "slide" => RowReady(x.p, cell.m, row)
    BY DEF CellReady
  <1>2. CASE row[1] = "stage"
    <2>1. RowItem(x, at, cell, row, i, phase) = Item(x, at, <<cell.m, row[2]>>, i, cell.k, phase)
      BY <1>2 DEF RowItem
    <2>2. <<cell.m, row[2]>> \in StageIds(x.p)
      BY <1>1, <1>2 DEF RowReady
    <2> QED  BY <1>1, <2>1, <2>2, GoodStageItem
  <1>3. CASE row[1] = "slide"
    <2>1. RowItem(x, at, cell, row, i, phase) = SlideItem(x, at, cell.m, i, phase)
      BY <1>3 DEF RowItem
    <2>2. PICK copies : SlideItem(x, at, cell.m, i, phase) = CopyItem(cell.m, copies, phase) /\ CopiesReady(x, copies)
      BY SlideCopies
    <2> QED  BY <1>1, <2>1, <2>2, GoodCopyItem
  <1>4. CASE row[1] # "stage" /\ row[1] # "slide"
    <2>1. RowItem(x, at, cell, row, i, phase) = SyncItem(x, at, cell.m, row, i, cell.k, phase)
      BY <1>4 DEF RowItem
    <2>2. PICK copies : /\ SyncItem(x, at, cell.m, row, i, cell.k, phase) = CopyItem(cell.m, copies, phase)
                        /\ CopiesReady(x, copies)
      BY <1>1, <1>4, SyncCopies
    <2> QED  BY <1>1, <2>1, <2>2, GoodCopyItem
  <1> QED  BY <1>2, <1>3, <1>4

LEMMA GoodGpuItems ==
    ASSUME NEW x, NEW l, NEW cells, CellSeq(x, l, cells), NEW w
    PROVE  GoodSeq(x, l, GpuItems(x, cells, w))
  <1> DEFINE at == [b |-> w.b, z |-> w.z, origin |-> w.b * x.block]
             phase(n) == Cardinality({j \in 1 .. n : cells[j].sync})
             row(n, r) == RowItem(x, at, cells[n], r, at.origin + w.t, phase(n))
             g(n) == [j \in DOMAIN cells[n].rows |-> <<row(n, cells[n].rows[j])>>]
             rounds == [n \in DOMAIN cells |-> n]
             f == [n \in DOMAIN rounds |->
                      IF ~ InExtent(cells[rounds[n]].extent, w.t, BlockSizeAt(x, w.b)) THEN <<>>
                      ELSE FlattenSeq(g(rounds[n]))]
  <1>1. DOMAIN cells = 1 .. Len(cells) /\ Len(cells) \in Int /\ \A n \in DOMAIN cells : CellReady(x, l, cells[n])
    BY SeqFacts DEF CellSeq, ToSet
  <1>2. GpuItems(x, cells, w) = FlattenSeq(f)
    BY DEF GpuItems, ForEach
  <1>3. DOMAIN rounds = DOMAIN cells /\ \A n \in DOMAIN rounds : rounds[n] = n
    OBVIOUS
  <1> HIDE DEF rounds
  <1>4. ASSUME NEW n \in DOMAIN cells PROVE GoodSeq(x, l, FlattenSeq(g(n)))
    <2> DEFINE s == cells[n].rows
    <2>1. IsSeq(s)
      BY <1>1 DEF CellReady
    <2>2. DOMAIN s = 1 .. Len(s) /\ Len(s) \in Int /\ \A j \in DOMAIN s : s[j] \in ToSet(s)
      <3> HIDE DEF s
      <3> QED  BY <2>1, SeqFacts DEF ToSet
    <2>3. phase(n) \in Nat
      <3>1. IsFiniteSet(1 .. n) /\ {j \in 1 .. n : cells[j].sync} \subseteq 1 .. n
        BY <1>1, FS_Interval
      <3> QED  BY <3>1, FS_Subset, FS_CardinalityType
    <2> HIDE DEF phase, at
    <2>4. ASSUME NEW j \in DOMAIN s PROVE GoodSeq(x, l, <<row(n, s[j])>>)
      <3>1. GoodItem(x, l, row(n, s[j]))
        BY <1>1, <2>2, <2>3, GoodRowItem
      <3> HIDE DEF row
      <3> QED  BY <3>1, GoodOne
    <2> HIDE DEF row
    <2>5. g(n) = [j \in DOMAIN s |-> g(n)[j]] /\ \A j \in DOMAIN s : GoodSeq(x, l, g(n)[j])
      BY <2>4
    <2> HIDE DEF g, s
    <2> QED  BY <2>2, <2>5, GoodLoopOver
  <1> HIDE DEF g, phase, at, row
  <1>5. ASSUME NEW n \in DOMAIN rounds PROVE GoodSeq(x, l, f[n])
    <2>1. GoodSeq(x, l, <<>>) /\ GoodSeq(x, l, FlattenSeq(g(rounds[n])))
      BY <1>3, <1>4, GoodOne
    <2> QED  BY <2>1
  <1>6. f = [n \in DOMAIN rounds |-> f[n]]
    OBVIOUS
  <1> HIDE DEF f
  <1> QED  BY <1>1, <1>2, <1>3, <1>5, <1>6, GoodLoopOver

\* Apart from the slides, the rows of gpu_horizontal are stages.
LEMMA HorizontalRows ==
    ASSUME NEW x, Ready(x), x.backend # "gpu", NEW k \in x.p.intervals[1]
    PROVE  /\ IsSeq(CellsAt(x, 1, k))
           /\ \A cell \in ToSet(CellsAt(x, 1, k)) :
                 CellReady(x, 1, cell) /\ cell.m = 1 /\ \A row \in ToSet(cell.rows) : row[1] = "stage"
  <1> DEFINE s == x.p.groups[1]
             rows(group) == CellRows(x.p, 1, group, k)
             cell(group) == [m |-> 1, k |-> k, rows |-> rows(group),
                             extent |-> GroupExtent(x.p, 1, group), sync |-> GroupNeedsSync(x.p, 1, group)]
             f == [n \in DOMAIN s |-> IF rows(s[n]) = <<>> THEN <<>> ELSE <<cell(s[n])>>]
  <1>0. 1 \in DOMAIN x.p.mss /\ 1 \in ToSet(x.launches[1])
    BY OneLaunch DEF Ready
  <1>1. IsSeq(s) /\ \A group \in ToSet(s) : GroupReady(x, 1, group)
    BY <1>0 DEF Ready, MultistageReady
  <1>2. DOMAIN s = 1 .. Len(s) /\ Len(s) \in Int /\ \A n \in DOMAIN s : s[n] \in ToSet(s)
    <2> HIDE DEF s
    <2> QED  BY <1>1, SeqFacts DEF ToSet
  <1>3. CellsAt(x, 1, k) = FlattenSeq(f)
    BY DEF CellsAt, ForEach
  <1>4. CellSeq(x, 1, CellsAt(x, 1, k))
    BY <1>0, CellsAtFacts
  <1> HIDE DEF s
  <1>5. ASSUME NEW n \in DOMAIN s
        PROVE  IsSeq(f[n]) /\ \A c \in ToSet(f[n]) : c.m = 1 /\ \A row \in ToSet(c.rows) : row[1] = "stage"
    <2>1. GroupReady(x, 1, s[n])
      BY <1>1, <1>2
    <2>2. ToSet(rows(s[n])) \subseteq ToSet(s[n])
      BY <2>1, CellRowsFacts DEF GroupReady
    <2>3. cell(s[n]).m = 1 /\ cell(s[n]).rows = rows(s[n])
      OBVIOUS
    <2> HIDE DEF cell, rows
    <2>4. IsSeq(<<>>) /\ ToSet(<<>>) = {} /\ IsSeq(<<cell(s[n])>>) /\ ToSet(<<cell(s[n])>>) = {cell(s[n])}
      BY DEF IsSeq, ToSet
    <2>5. f[n] = <<>> \/ f[n] = <<cell(s[n])>>
      OBVIOUS
    <2> HIDE DEF f
    <2> QED  BY <2>1, <2>2, <2>3, <2>4, <2>5 DEF GroupReady
  <1>6. f = [n \in DOMAIN s |-> f[n]]
    OBVIOUS
  <1> HIDE DEF f
  <1>7. ToSet(FlattenSeq(f)) = UNION {ToSet(f[n]) : n \in DOMAIN s}
    <2>1. \A n \in DOMAIN s : IsSeq(f[n])
      BY <1>5
    <2> QED  BY <1>2, <1>6, <2>1, FlattenIsSeq
  <1> QED  BY <1>3, <1>4, <1>5, <1>7 DEF CellSeq

(* gpu_horizontal: the cells along a row. *)
LEMMA GoodJCells ==
    ASSUME NEW x, Ready(x), x.backend = "gpu_horizontal", NEW at, NEW j, NEW k \in x.p.intervals[1], NEW size
    PROVE  GoodSeq(x, 1, JCells(x, at, j, k, size))
  <1> DEFINE s == CellsAt(x, 1, k)
             item(cell, row) == Item(x, at, <<1, row[2]>>, at.j + cell.extent.hi, k, 0)
             g(cell) == [n \in DOMAIN cell.rows |-> <<item(cell, cell.rows[n])>>]
             f == [n \in DOMAIN s |->
                      IF ~ InExtent(s[n].extent, j + s[n].extent.hi, size) THEN <<>>
                      ELSE FlattenSeq(g(s[n]))]
  <1>0. 1 \in DOMAIN x.p.mss /\ 1 \in ToSet(x.launches[1])
    BY OneLaunch DEF Ready
  <1>1. IsSeq(s) /\ \A cell \in ToSet(s) : CellReady(x, 1, cell) /\ cell.m = 1 /\ \A row \in ToSet(cell.rows) : row[1] = "stage"
    BY HorizontalRows
  <1>2. DOMAIN s = 1 .. Len(s) /\ Len(s) \in Int /\ \A n \in DOMAIN s : s[n] \in ToSet(s)
    <2> HIDE DEF s
    <2> QED  BY <1>1, SeqFacts DEF ToSet
  <1>3. JCells(x, at, j, k, size) = FlattenSeq(f)
    BY DEF JCells, ForEach
  <1>4. ASSUME NEW cell \in ToSet(s) PROVE GoodSeq(x, 1, FlattenSeq(g(cell)))
    <2> DEFINE t == cell.rows
    <2>1. IsSeq(t)
      BY <1>1 DEF CellReady
    <2>2. DOMAIN t = 1 .. Len(t) /\ Len(t) \in Int /\ \A n \in DOMAIN t : t[n] \in ToSet(t)
      <3> HIDE DEF t
      <3> QED  BY <2>1, SeqFacts DEF ToSet
    <2>3. ASSUME NEW n \in DOMAIN t PROVE GoodSeq(x, 1, <<item(cell, t[n])>>)
      <3>1. <<1, t[n][2]>> \in StageIds(x.p)
        BY <1>1, <2>2 DEF CellReady, RowReady
      <3>2. GoodItem(x, 1, item(cell, t[n]))
        BY <1>0, <3>1, GoodStageItem
      <3> HIDE DEF item
      <3> QED  BY <3>2, GoodOne
    <2> HIDE DEF item
    <2>4. g(cell) = [n \in DOMAIN t |-> g(cell)[n]] /\ \A n \in DOMAIN t : GoodSeq(x, 1, g(cell)[n])
      BY <2>3
    <2> HIDE DEF g, t
    <2> QED  BY <2>2, <2>4, GoodLoopOver
  <1> HIDE DEF g, s, item
  <1>5. ASSUME NEW n \in DOMAIN s PROVE GoodSeq(x, 1, f[n])
    <2>1. GoodSeq(x, 1, <<>>) /\ GoodSeq(x, 1, FlattenSeq(g(s[n])))
      BY <1>2, <1>4, GoodOne
    <2> QED  BY <2>1
  <1>6. f = [n \in DOMAIN s |-> f[n]]
    OBVIOUS
  <1> HIDE DEF f
  <1> QED  BY <1>2, <1>3, <1>5, <1>6, GoodLoopOver

LEMMA GoodConcat ==
    ASSUME NEW x, NEW l, NEW s, NEW t, GoodSeq(x, l, s), GoodSeq(x, l, t)
    PROVE  GoodSeq(x, l, s \o t)
  <1>1. IsSeq(s \o t) /\ ToSet(s \o t) = ToSet(s) \cup ToSet(t)
    BY ConcatIsSeq DEF GoodSeq
  <1> QED  BY <1>1 DEF GoodSeq

LEMMA JSlideCopies ==
    ASSUME NEW x, NEW where, NEW k
    PROVE  \E copies : JSlide(x, where, k) = CopyItem(1, copies, 0) /\ CopiesReady(x, copies)
  <1> DEFINE at == where @@ [k |-> k]
             range(f) == LET e == PlhExtent(x.p, MssStages(x.p, 1), f) IN e.lo .. e.hi - 1
             slid(f) == {[from |-> JRegister(at, f, where.j + o + 1), to |-> JRegister(at, f, where.j + o)] :
                            o \in range(f)}
             copies == UNION {slid(f) : f \in x.p.temps}
  <1>1. JSlide(x, where, k) = CopyItem(1, copies, 0)
    BY DEF JSlide
  <1> HIDE DEF at, range
  <1>2. ASSUME NEW f, NEW c \in slid(f), NEW loc \in {c.from, c.to} PROVE loc[1] # "field"
    BY <1>2 DEF JRegister
  <1> HIDE DEF slid
  <1>3. CopiesReady(x, copies)
    BY <1>2 DEF CopiesReady
  <1> HIDE DEF copies
  <1> QED  BY <1>1, <1>3

LEMMA GoodHorizontal ==
    ASSUME NEW x, Ready(x), x.backend = "gpu_horizontal", NEW w, w.z \in Nat
    PROVE  GoodSeq(x, 1, HorizontalItems(x, w))
  <1> DEFINE start == JStart(MssExtent(x.p, 1))
             columns == [n \in 1 .. x.block - start |-> start + n - 1]
             at(j) == [b |-> w.b, j |-> w.b * x.block + j]
             round(j, k) == JCells(x, at(j), j, k, BlockSizeAt(x, w.b)) \o <<JSlide(x, at(j), k)>>
             g(k) == [n \in DOMAIN columns |-> round(columns[n], k)]
             t == GpuLevels(x, 1, w.z)
             f == [n \in DOMAIN t |-> FlattenSeq(g(t[n]))]
  <1>0. 1 \in DOMAIN x.p.mss /\ 1 \in ToSet(x.launches[1])
    BY OneLaunch DEF Ready
  <1>1. x.block - start \in Int /\ DOMAIN columns = 1 .. x.block - start
    <2>1. MssExtent(x.p, 1).lo \in Int /\ MssExtent(x.p, 1).hi \in Int /\ x.block \in Int
      BY <1>0 DEF Ready, MultistageReady
    <2> QED  BY <2>1 DEF JStart
  <1>2. (\E n \in Int : DOMAIN t = 1 .. n) /\ \A n \in DOMAIN t : t[n] \in x.p.intervals[1]
    BY <1>0, GpuLevelsFacts
  <1>3. HorizontalItems(x, w) = FlattenSeq(f)
    BY DEF HorizontalItems, JLoop, ForEach
  <1> HIDE DEF columns, t, start
  <1>4. ASSUME NEW j, NEW k \in x.p.intervals[1] PROVE GoodSeq(x, 1, round(j, k))
    <2> HIDE DEF at
    <2>1. GoodSeq(x, 1, JCells(x, at(j), j, k, BlockSizeAt(x, w.b)))
      BY GoodJCells
    <2>2. \E copies : JSlide(x, at(j), k) = CopyItem(1, copies, 0) /\ CopiesReady(x, copies)
      BY JSlideCopies
    <2>3. GoodItem(x, 1, JSlide(x, at(j), k))
      BY <1>0, <2>2, GoodCopyItem
    <2>4. GoodSeq(x, 1, <<JSlide(x, at(j), k)>>)
      BY <2>3, GoodOne
    <2> QED  BY <2>1, <2>4, GoodConcat
  <1> HIDE DEF round
  <1>5. ASSUME NEW k \in x.p.intervals[1] PROVE GoodSeq(x, 1, FlattenSeq(g(k)))
    <2>1. g(k) = [n \in DOMAIN columns |-> g(k)[n]] /\ \A n \in DOMAIN columns : GoodSeq(x, 1, g(k)[n])
      BY <1>4
    <2> HIDE DEF g
    <2> QED  BY <1>1, <2>1, GoodLoopOver
  <1> HIDE DEF g
  <1>6. f = [n \in DOMAIN t |-> f[n]] /\ \A n \in DOMAIN t : GoodSeq(x, 1, f[n])
    BY <1>2, <1>5
  <1> HIDE DEF f
  <1> QED  BY <1>2, <1>3, <1>6, GoodLoopOver

\* All of a launch's workers have sequences of items.
LEMMA GoodWork ==
    ASSUME NEW x, Ready(x), NEW l \in DOMAIN x.launches, NEW w \in DOMAIN WorkOf(x, l)
    PROVE  GoodSeq(x, l, WorkOf(x, l)[w])
  <1>1. CASE x.backend = "gpu"
    <2> DEFINE launch0 == x.launches[l]
               Z == {v.z : v \in GpuTeams(x, launch0)}
               cells == [z \in Z |-> GpuCells(x, launch0, z)]
    <2>1. WorkOf(x, l) = [v \in GpuWorkers(x, launch0) |-> GpuItems(x, cells[v.z], v)]
      BY <1>1 DEF WorkOf
    <2>2. w \in GpuWorkers(x, launch0) /\ WorkOf(x, l)[w] = GpuItems(x, cells[w.z], w)
      BY <2>1
    <2>3. w.z \in Z /\ w.z \in Nat
      <3>1. PICK team \in GpuTeams(x, launch0) : w.z = team.z
        BY <2>2 DEF GpuWorkers
      <3>2. team.z \in Nat
        BY DEF GpuTeams
      <3> QED  BY <3>1, <3>2
    <2>4. CellSeq(x, l, cells[w.z])
      BY <2>3, GpuCellsFacts
    <2> HIDE DEF cells
    <2> QED  BY <2>2, <2>4, GoodGpuItems
  <1>2. CASE x.backend = "gpu_horizontal"
    <2>1. l = 1
      BY <1>2, OneLaunch DEF Ready
    <2>2. /\ w \in {[b |-> team.b, z |-> team.z, t |-> 0] : team \in GpuTeams(x, x.launches[l])}
          /\ WorkOf(x, l)[w] = HorizontalItems(x, w)
      BY <1>2 DEF WorkOf
    <2>3. PICK team \in GpuTeams(x, x.launches[l]) : w = [b |-> team.b, z |-> team.z, t |-> 0]
      BY <2>2
    <2>4. w.z \in Nat
      BY <2>3 DEF GpuTeams
    <2> QED  BY <1>2, <2>1, <2>2, <2>4, GoodHorizontal
  <1>3. CASE x.backend \in {"naive", "cpu_kfirst", "cpu_ifirst"}
    <2>1. l = 1
      BY <1>3, OneLaunch DEF Ready
    <2>2. OnCpu(x)
      BY <1>3 DEF OnCpu
    <2>3. WorkOf(x, l)[w] = CpuItems(x, w.t)
      BY <1>3 DEF WorkOf
    <2> QED  BY <2>1, <2>2, <2>3, GoodCpuItems
  <1> QED  BY <1>1, <1>2, <1>3 DEF Ready

(***************************************************************************)
(* Extents are finitely many numbers.                                      *)
(***************************************************************************)
Extents == [lo : Int, hi : Int, klo : Int, khi : Int]

ExtentSets == {E \in SUBSET Extents : IsFiniteSet(E)}

LEMMA EnclosingFacts ==
    ASSUME NEW E \in ExtentSets
    PROVE  /\ EnclosingExtent(E) \in Extents
           /\ \A e \in E : /\ EnclosingExtent(E).lo <= e.lo /\ e.hi <= EnclosingExtent(E).hi
                           /\ EnclosingExtent(E).klo <= e.klo /\ e.khi <= EnclosingExtent(E).khi
  <1>1. IsFiniteSet(E) /\ \A e \in E : e \in Extents
    BY DEF ExtentSets
  <1>2. CASE E = {}
    BY <1>2 DEF EnclosingExtent, ZeroExtent, Extent, Extents
  <1>3. CASE E # {}
    <2> DEFINE A == {e.lo : e \in E}
               B == {e.hi : e \in E}
               C == {e.klo : e \in E}
               D == {e.khi : e \in E}
    <2>1. IsFiniteSet(A) /\ IsFiniteSet(B) /\ IsFiniteSet(C) /\ IsFiniteSet(D)
      <3> DEFINE a == [e \in E |-> e.lo]
                 b == [e \in E |-> e.hi]
                 c == [e \in E |-> e.klo]
                 d == [e \in E |-> e.khi]
      <3>1. A = {a[e] : e \in E} /\ B = {b[e] : e \in E} /\ C = {c[e] : e \in E} /\ D = {d[e] : e \in E}
        OBVIOUS
      <3> HIDE DEF A, B, C, D, a, b, c, d
      <3> QED  BY <1>1, <3>1, FiniteImage
    <2>2. A \in SUBSET Int /\ B \in SUBSET Int /\ C \in SUBSET Int /\ D \in SUBSET Int
      BY <1>1 DEF Extents
    <2>3. A # {} /\ B # {} /\ C # {} /\ D # {}
      BY <1>3
    <2>4. EnclosingExtent(E) = Extent(Min(A), Max(B), Min(C), Max(D))
      BY <1>3 DEF EnclosingExtent
    <2>5. \A e \in E : e.lo \in A /\ e.hi \in B /\ e.klo \in C /\ e.khi \in D
      OBVIOUS
    <2> HIDE DEF A, B, C, D
    <2>6. /\ Min(A) \in Int /\ \A y \in A : Min(A) <= y
          /\ Max(B) \in Int /\ \A y \in B : y <= Max(B)
          /\ Min(C) \in Int /\ \A y \in C : Min(C) <= y
          /\ Max(D) \in Int /\ \A y \in D : y <= Max(D)
      <3>1. Min(A) \in A /\ \A y \in A : Min(A) <= y
        BY <2>1, <2>2, <2>3, FiniteBounds
      <3>2. Max(B) \in B /\ \A y \in B : Max(B) >= y
        BY <2>1, <2>2, <2>3, FiniteBounds
      <3>3. Min(C) \in C /\ \A y \in C : Min(C) <= y
        BY <2>1, <2>2, <2>3, FiniteBounds
      <3>4. Max(D) \in D /\ \A y \in D : Max(D) >= y
        BY <2>1, <2>2, <2>3, FiniteBounds
      <3> QED  BY <2>2, <3>1, <3>2, <3>3, <3>4
    <2> DEFINE a == Min(A)
               b == Max(B)
               c == Min(C)
               d == Max(D)
    <2>7. a \in Int /\ b \in Int /\ c \in Int /\ d \in Int
      BY <2>6
    <2>8. \A e \in E : a <= e.lo /\ e.hi <= b /\ c <= e.klo /\ e.khi <= d
      BY <2>5, <2>6
    <2>9. EnclosingExtent(E) = Extent(a, b, c, d)
      BY <2>4
    <2> HIDE DEF a, b, c, d
    <2> QED  BY <2>7, <2>8, <2>9 DEF Extent, Extents
  <1> QED  BY <1>2, <1>3

LEMMA HorizontalIsExtent ==
    ASSUME NEW e \in Extents
    PROVE  /\ Horizontal(e) \in Extents /\ Horizontal(e).lo = e.lo /\ Horizontal(e).hi = e.hi
           /\ Horizontal(e).klo = 0 /\ Horizontal(e).khi = 0
           /\ ZeroExtent \in Extents
           /\ \A d \in Extents : SumExtent(d, e) \in Extents
  <1>1. /\ Horizontal(e) \in Extents /\ Horizontal(e).lo = e.lo /\ Horizontal(e).hi = e.hi
        /\ Horizontal(e).klo = 0 /\ Horizontal(e).khi = 0
    <2>1. /\ DOMAIN e = {"lo", "hi", "klo", "khi"}
          /\ e.lo \in Int /\ e.hi \in Int /\ e.klo \in Int /\ e.khi \in Int
      BY DEF Extents
    <2> DEFINE d == [e EXCEPT !.klo = 0]
    <2>2. DOMAIN d = {"lo", "hi", "klo", "khi"} /\ d.lo = e.lo /\ d.hi = e.hi /\ d.klo = 0
      BY <2>1
    <2> DEFINE h == [d EXCEPT !.khi = 0]
    <2> HIDE DEF d
    <2>3. /\ DOMAIN h = {"lo", "hi", "klo", "khi"}
          /\ h.lo = e.lo /\ h.hi = e.hi /\ h.klo = 0 /\ h.khi = 0
      BY <2>2
    <2>4. h = [lo |-> h.lo, hi |-> h.hi, klo |-> h.klo, khi |-> h.khi]
      BY <2>2
    <2>5. h = Horizontal(e)
      BY DEF Horizontal, d
    <2> HIDE DEF h
    <2> QED  BY <2>1, <2>3, <2>4, <2>5 DEF Extents
  <1>2. ZeroExtent \in Extents
    BY DEF Extents, ZeroExtent, Extent
  <1>3. ASSUME NEW d \in Extents PROVE SumExtent(d, e) \in Extents
    <2>1. /\ d.lo + e.lo \in Int /\ d.hi + e.hi \in Int
          /\ d.klo + e.klo \in Int /\ d.khi + e.khi \in Int
      BY DEF Extents
    <2> QED  BY <2>1 DEF Extents, SumExtent, Extent
  <1> QED  BY <1>1, <1>2, <1>3

LEMMA ParamFacts ==
    ASSUME NEW st, IsStage(st), NEW f
    PROVE  /\ ParamExtent(st, f) \in Extents
           /\ ParamExtent(st, f).lo <= 0 /\ 0 <= ParamExtent(st, f).hi
           /\ ParamExtent(st, f).klo <= 0 /\ 0 <= ParamExtent(st, f).khi
           /\ \A r \in Reads(st) : r[1] = f => ParamExtent(st, f).lo <= r[2] /\ r[2] <= ParamExtent(st, f).hi
  <1> DEFINE R == {q \in Reads(st) : q[1] = f}
             X == {Extent(r[2], r[2], r[3], r[3]) : r \in R}
             E == {ZeroExtent} \cup X
  <1>1. IsFiniteSet(Reads(st)) /\ \A r \in Reads(st) : r[2] \in Int /\ r[3] \in Int
    <2> DEFINE g == [k \in AppliesAt(st) |-> st.in[k]]
               S == {g[k] : k \in AppliesAt(st)}
    <2>1. IsFiniteSet(S)
      <3>1. IsFiniteSet(AppliesAt(st))
        BY DEF IsStage
      <3> HIDE DEF g
      <3> QED  BY <3>1, FiniteImage
    <2>2. \A T \in S : IsFiniteSet(T)
      BY DEF IsStage
    <2>3. Reads(st) = UNION S
      BY DEF Reads
    <2> HIDE DEF S
    <2>4. IsFiniteSet(Reads(st))
      BY <2>1, <2>2, <2>3, FS_UNION
    <2> QED  BY <2>4 DEF Reads, IsStage
  <1>2. IsFiniteSet(R)
    BY <1>1, FS_Subset
  <1>3. IsFiniteSet(X)
    <2> DEFINE g == [r \in R |-> Extent(r[2], r[2], r[3], r[3])]
    <2>1. X = {g[r] : r \in R}
      OBVIOUS
    <2> HIDE DEF g, X
    <2> QED  BY <1>2, <2>1, FiniteImage
  <1>4. X \subseteq Extents
    BY <1>1 DEF Extent, Extents
  <1>5. E \in ExtentSets
    <2>1. ZeroExtent \in Extents
      BY DEF ZeroExtent, Extent, Extents
    <2> HIDE DEF X
    <2>2. IsFiniteSet({ZeroExtent} \cup X)
      <3>1. IsFiniteSet(X \cup {ZeroExtent})
        BY <1>3, FS_AddElement
      <3>2. X \cup {ZeroExtent} = {ZeroExtent} \cup X
        OBVIOUS
      <3> QED  BY <3>1, <3>2
    <2> QED  BY <1>4, <2>1, <2>2 DEF ExtentSets
  <1>6. ParamExtent(st, f) = EnclosingExtent(E)
    BY DEF ParamExtent
  <1>7. /\ ZeroExtent \in E /\ ZeroExtent.lo = 0 /\ ZeroExtent.hi = 0
        /\ ZeroExtent.klo = 0 /\ ZeroExtent.khi = 0
        /\ \A r \in R : Extent(r[2], r[2], r[3], r[3]) \in E
        /\ \A r \in R : Extent(r[2], r[2], r[3], r[3]).lo = r[2] /\ Extent(r[2], r[2], r[3], r[3]).hi = r[2]
    BY DEF ZeroExtent, Extent
  <1>8. \A r \in Reads(st) : r[1] = f => r \in R
    OBVIOUS
  <1> HIDE DEF E, R
  <1>9. /\ EnclosingExtent(E) \in Extents
        /\ \A e \in E : EnclosingExtent(E).lo <= e.lo /\ e.hi <= EnclosingExtent(E).hi
        /\ \A e \in E : EnclosingExtent(E).klo <= e.klo /\ e.khi <= EnclosingExtent(E).khi
    BY <1>5, EnclosingFacts
  <1> QED  BY <1>6, <1>7, <1>8, <1>9

(* The extent map, stage by stage from the last one. *)
LEMMA StageFacts ==
    ASSUME NEW p, IsComputation(p), NEW y \in StageIds(p)
    PROVE  /\ y = <<y[1], y[2]>> /\ y[1] \in DOMAIN p.mss /\ y[2] \in DOMAIN p.mss[y[1]].stages
           /\ IsStage(StageOf(p, y)) /\ Args(StageOf(p, y)) \subseteq Fields(p)
           /\ StageOf(p, y).out \subseteq Args(StageOf(p, y))
  <1>1. PICK m \in DOMAIN p.mss : y \in {m} \X DOMAIN p.mss[m].stages
    BY DEF StageIds
  <1>2. y = <<y[1], y[2]>> /\ y[1] = m /\ y[2] \in DOMAIN p.mss[m].stages
    BY <1>1
  <1>3. StageOf(p, y) = StageOf(p, <<m, y[2]>>)
    BY <1>2
  <1>4. IsStage(StageOf(p, <<m, y[2]>>))
    BY <1>2 DEF IsComputation
  <1> QED  BY <1>2, <1>3, <1>4 DEF Fields, Args

LEMMA FlatFacts ==
    ASSUME NEW p, IsComputation(p)
    PROVE  IsSeq(FlatStages(p)) /\ ToSet(FlatStages(p)) = StageIds(p)
  <1> DEFINE n == Len(p.mss)
             f == [m \in DOMAIN p.mss |-> [s \in DOMAIN p.mss[m].stages |-> <<m, s>>]]
  <1>1. n \in Nat /\ DOMAIN p.mss = 1 .. n
    BY SeqFacts DEF IsComputation, IsSeq
  <1>2. ASSUME NEW m \in 1 .. n
        PROVE  IsSeq(f[m]) /\ ToSet(f[m]) = {m} \X DOMAIN p.mss[m].stages
    <2> DEFINE st == p.mss[m].stages
               L == Len(st)
    <2>1. L \in Nat /\ DOMAIN st = 1 .. L
      BY <1>1, SeqFacts DEF IsComputation, IsSeq
    <2>2. f[m] = [s \in DOMAIN st |-> <<m, s>>]
      BY <1>1
    <2> HIDE DEF st, L, f
    <2>3. f[m] \in [1 .. L -> ToSet(f[m])] /\ ToSet(f[m]) = {m} \X DOMAIN st
      BY <2>1, <2>2 DEF ToSet
    <2>4. IsSeq(f[m])
      BY <2>1, <2>3, SeqDef DEF IsSeq
    <2> QED  BY <2>3, <2>4 DEF st
  <1>3. f = [m \in 1 .. n |-> f[m]] /\ FlatStages(p) = FlattenSeq(f)
    BY <1>1 DEF FlatStages
  <1> HIDE DEF f
  <1>4. IsSeq(FlattenSeq(f)) /\ ToSet(FlattenSeq(f)) = UNION {ToSet(f[m]) : m \in 1 .. n}
    <2>1. n \in Int /\ \A m \in 1 .. n : IsSeq(f[m])
      BY <1>1, <1>2
    <2> QED  BY <1>3, <2>1, FlattenIsSeq
  <1>5. UNION {ToSet(f[m]) : m \in 1 .. n} = StageIds(p)
    BY <1>1, <1>2 DEF StageIds
  <1> QED  BY <1>3, <1>4, <1>5

LEMMA EsfFacts ==
    ASSUME NEW F, NEW map \in [F -> ExtentSets], NEW st, IsStage(st), st.out \subseteq F
    PROVE  /\ EsfExtent(st, map) \in Extents
           /\ \A f \in st.out : \A e \in map[f] : /\ EsfExtent(st, map).lo <= e.lo
                                                  /\ e.hi <= EsfExtent(st, map).hi
  <1> DEFINE g == [f \in st.out |-> EnclosingExtent(map[f])]
             E == {g[f] : f \in st.out}
  <1>1. \A f \in st.out : /\ g[f] \in Extents
                          /\ \A e \in map[f] : g[f].lo <= e.lo /\ e.hi <= g[f].hi
    BY EnclosingFacts
  <1>2. EsfExtent(st, map) = EnclosingExtent(E)
    BY DEF EsfExtent
  <1> HIDE DEF g
  <1>3. E \in ExtentSets
    <2>1. IsFiniteSet(st.out)
      BY DEF IsStage
    <2>2. IsFiniteSet(E)
      BY <2>1, FiniteImage
    <2> QED  BY <1>1, <2>2 DEF ExtentSets
  <1>4. \A f \in st.out : g[f] \in E
    OBVIOUS
  <1> HIDE DEF E
  <1>5. /\ EnclosingExtent(E) \in Extents
        /\ \A e \in E : EnclosingExtent(E).lo <= e.lo /\ e.hi <= EnclosingExtent(E).hi
    BY <1>3, EnclosingFacts
  <1>6. ASSUME NEW f \in st.out, NEW e \in map[f]
        PROVE  EnclosingExtent(E).lo <= e.lo /\ e.hi <= EnclosingExtent(E).hi
    <2>1. g[f] \in Extents /\ g[f].lo <= e.lo /\ e.hi <= g[f].hi
      BY <1>1
    <2>2. EnclosingExtent(E).lo <= g[f].lo /\ g[f].hi <= EnclosingExtent(E).hi
      BY <1>4, <1>5
    <2>3. e \in Extents
      BY DEF ExtentSets
    <2> DEFINE d == EnclosingExtent(E)
    <2> HIDE DEF d
    <2>4. /\ d.lo \in Int /\ d.hi \in Int /\ g[f].lo \in Int /\ g[f].hi \in Int /\ e.lo \in Int /\ e.hi \in Int
      BY <1>5, <2>1, <2>3 DEF d, Extents
    <2> QED  BY <2>1, <2>2, <2>4 DEF d
  <1> QED  BY <1>2, <1>5, <1>6

\* The map after n stages.
Maps(p, map) ==
    LET L == Len(FlatStages(p)) IN
    /\ map \in [0 .. L -> [Fields(p) -> ExtentSets]] /\ map[0] = [f \in Fields(p) |-> {}]
    /\ \A n \in 1 .. L : map[n] = ProcessEsf(StageOf(p, FlatStages(p)[L + 1 - n]), map[n - 1])
    /\ ExtentMap(p) = map[L]

LEMMA ProcessFacts ==
    ASSUME NEW F, NEW map \in [F -> ExtentSets], NEW st, IsStage(st), st.out \subseteq F
    PROVE  /\ ProcessEsf(st, map) \in [F -> ExtentSets]
           /\ \A f \in F : map[f] \subseteq ProcessEsf(st, map)[f]
           /\ \A f \in F \ Args(st) : map[f] = ProcessEsf(st, map)[f]
           /\ \A f \in F \cap Args(st) : SumExtent(EsfExtent(st, map), ParamExtent(st, f)) \in ProcessEsf(st, map)[f]
  <1>1. ASSUME NEW f \in F
        PROVE  map[f] \cup {SumExtent(EsfExtent(st, map), ParamExtent(st, f))} \in ExtentSets
    <2> DEFINE e == SumExtent(EsfExtent(st, map), ParamExtent(st, f))
    <2>1. e \in Extents
      BY EsfFacts, ParamFacts, HorizontalIsExtent
    <2> HIDE DEF e
    <2>2. IsFiniteSet(map[f] \cup {e})
      BY FS_AddElement DEF ExtentSets
    <2>3. map[f] \cup {e} \in ExtentSets
      BY <2>1, <2>2 DEF ExtentSets
    <2> QED  BY <2>3 DEF e
  <1>2. DOMAIN map = F
    OBVIOUS
  <1> QED  BY <1>1, <1>2 DEF ProcessEsf

LEMMA MapsExists ==
    ASSUME NEW p, IsComputation(p)
    PROVE  \E map : Maps(p, map)
  <1> DEFINE s == FlatStages(p)
             L == Len(s)
             F == Fields(p)
             T == [F -> ExtentSets]
             base == [f \in F |-> {}]
             next(map, n) == ProcessEsf(StageOf(p, s[L + 1 - n]), map)
             Term(f, n) == IF n = 0 THEN base ELSE next(f[n - 1], n)
             Eq(f) == f = [n \in 0 .. L |-> Term(f, n)]
             f0 == CHOOSE f : Eq(f)
             step == [a \in T \X (1 .. L) |-> next(a[1], a[2])]
  <1>1. L \in Nat /\ \A n \in 1 .. L : s[n] \in StageIds(p)
    <2>1. IsSeq(s) /\ ToSet(s) = StageIds(p)
      BY FlatFacts
    <2> HIDE DEF s
    <2> QED  BY <2>1, SeqFacts DEF ToSet
  <1>2. ExtentMap(p) = f0[L]
    BY DEF ExtentMap
  <1> HIDE DEF L, s
  <1>3. ASSUME NEW map \in T, NEW n \in 1 .. L PROVE next(map, n) \in T
    <2>1. L + 1 - n \in 1 .. L
      BY <1>1
    <2>2. s[L + 1 - n] \in StageIds(p)
      BY <1>1, <2>1
    <2>3. IsStage(StageOf(p, s[L + 1 - n])) /\ StageOf(p, s[L + 1 - n]).out \subseteq F
      BY <2>2, StageFacts
    <2> QED  BY <2>3, ProcessFacts
  <1>4. base \in T
    <2>1. {} \in ExtentSets
      BY FS_EmptySet DEF ExtentSets
    <2> QED  BY <2>1
  <1> HIDE DEF next, base
  <1>5. step \in [T \X (1 .. L) -> T]
    <2>1. \A a \in T \X (1 .. L) : a[1] \in T /\ a[2] \in 1 .. L
      OBVIOUS
    <2> HIDE DEF T
    <2> QED  BY <1>3, <2>1
  <1> HIDE DEF T
  <1>6. PICK f : Follows(f, T, base, L, step)
    <2> HIDE DEF step
    <2> QED  BY <1>1, <1>4, <1>5, Iterate
  <1>7. f = [n \in 0 .. L |-> f[n]] /\ \A n \in 0 .. L : f[n] = Term(f, n)
    <2>1. f \in [0 .. L -> T] /\ f[0] = base
      BY <1>6 DEF Follows
    <2>2. ASSUME NEW n \in 1 .. L PROVE f[n] = next(f[n - 1], n)
      <3>1. f[n - 1] \in T
        BY <1>1, <2>1
      <3>2. f[n] = step[<<f[n - 1], n>>]
        BY <1>6 DEF Follows
      <3> QED  BY <3>1, <3>2
    <2>3. \A n \in 0 .. L : n # 0 => n \in 1 .. L
      BY <1>1
    <2> QED  BY <2>1, <2>2, <2>3
  <1> HIDE DEF Term, step
  <1>8. Eq(f0)
    BY <1>7
  <1> HIDE DEF f0
  <1>9. f0 = [n \in 0 .. L |-> f0[n]] /\ \A n \in 0 .. L : f0[n] = Term(f0, n)
    BY <1>8
  <1> DEFINE X == {n \in Nat : n \in 0 .. L => f0[n] \in T}
  <1>10. 0 \in X
    BY <1>1, <1>4, <1>9 DEF Term
  <1>11. ASSUME NEW n \in Nat, n \in X PROVE n + 1 \in X
    <2> SUFFICES ASSUME n + 1 \in 0 .. L PROVE f0[n + 1] \in T
      OBVIOUS
    <2>1. n \in 0 .. L /\ n + 1 \in 1 .. L /\ n + 1 # 0 /\ (n + 1) - 1 = n
      BY <1>1
    <2>2. f0[n + 1] = next(f0[n], n + 1)
      BY <1>9, <2>1 DEF Term
    <2> QED  BY <1>3, <1>11, <2>1, <2>2
  <1>12. \A n \in Nat : n \in X
    <2> HIDE DEF X
    <2> QED  BY <1>10, <1>11, SetInduction
  <1>13. f0 \in [0 .. L -> T]
    <2>1. \A n \in 0 .. L : f0[n] \in T
      BY <1>1, <1>12
    <2> HIDE DEF X, Eq
    <2> QED  BY <1>9, <2>1
  <1>14. f0[0] = base /\ \A n \in 1 .. L : f0[n] = next(f0[n - 1], n)
    <2>1. 0 \in 0 .. L /\ \A n \in 1 .. L : n \in 0 .. L /\ n # 0
      BY <1>1
    <2> HIDE DEF X, Eq
    <2> QED  BY <1>9, <2>1 DEF Term
  <1> QED  BY <1>2, <1>13, <1>14 DEF Maps, L, s, T, base, next

LEMMA StageExtentFacts ==
    ASSUME NEW p, IsComputation(p), NEW y \in StageIds(p)
    PROVE  StageExtent(p, y) \in Extents /\ StageExtent(p, y).klo = 0 /\ StageExtent(p, y).khi = 0
  <1>1. PICK map : Maps(p, map)
    BY MapsExists
  <1>2. ExtentMap(p) \in [Fields(p) -> ExtentSets]
    <2> DEFINE L == Len(FlatStages(p))
    <2>1. L \in Nat
      BY FlatFacts, SeqFacts
    <2>2. map \in [0 .. L -> [Fields(p) -> ExtentSets]] /\ ExtentMap(p) = map[L]
      BY <1>1 DEF Maps
    <2> HIDE DEF L
    <2> QED  BY <2>1, <2>2
  <1>3. IsStage(StageOf(p, y)) /\ StageOf(p, y).out \subseteq Fields(p)
    BY StageFacts
  <1>4. EsfExtent(StageOf(p, y), ExtentMap(p)) \in Extents
    BY <1>2, <1>3, EsfFacts
  <1> QED  BY <1>4, HorizontalIsExtent DEF StageExtent

\* The largest extent of a multistage.
LEMMA FiniteStages ==
    ASSUME NEW p, IsComputation(p)
    PROVE  IsFiniteSet(StageIds(p))
  <1>1. IsSeq(FlatStages(p)) /\ ToSet(FlatStages(p)) = StageIds(p)
    BY FlatFacts
  <1> DEFINE s == FlatStages(p)
  <1>2. Len(s) \in Nat /\ DOMAIN s = 1 .. Len(s)
    BY <1>1, SeqFacts
  <1>3. IsFiniteSet(DOMAIN s)
    BY <1>2, FS_Interval
  <1> HIDE DEF s
  <1>4. IsFiniteSet({s[n] : n \in DOMAIN s})
    BY <1>3, FiniteImage
  <1> QED  BY <1>1, <1>4 DEF ToSet, s

LEMMA MssExtentFacts ==
    ASSUME NEW p, IsFiniteSet(StageIds(p)), \A y \in StageIds(p) : p.ext[y] \in Extents, NEW m
    PROVE  /\ MssExtent(p, m) \in Extents
           /\ \A y \in MssStages(p, m) : MssExtent(p, m).lo <= p.ext[y].lo /\ p.ext[y].hi <= MssExtent(p, m).hi
  <1> DEFINE S == MssStages(p, m)
             g == p.ext
             E == {g[y] : y \in S}
  <1>1. S \subseteq StageIds(p) /\ IsFiniteSet(S)
    BY FS_Subset DEF MssStages
  <1>2. E \in ExtentSets
    <2>1. IsFiniteSet(E)
      <3> HIDE DEF g
      <3> QED  BY <1>1, FiniteImage
    <2> QED  BY <1>1, <2>1 DEF ExtentSets
  <1>3. MssExtent(p, m) = EnclosingExtent(E)
    BY DEF MssExtent
  <1>4. \A y \in S : p.ext[y] \in E
    OBVIOUS
  <1> HIDE DEF E
  <1> QED  BY <1>2, <1>3, <1>4, EnclosingFacts

\* The window of a cache holds the level of the loop.
LEMMA WindowFacts ==
    ASSUME NEW p, IsFiniteSet(StageIds(p)),
           \A y \in StageIds(p) : /\ p.ext[y] \in Extents /\ p.ext[y].klo = 0 /\ p.ext[y].khi = 0
                                  /\ IsStage(StageOf(p, y)),
           NEW m, NEW f
    PROVE  LET e == PlhExtent(p, MssStages(p, m), f) IN
           e.klo \in Int /\ e.khi \in Int /\ e.klo <= 0 /\ 0 <= e.khi
  <1> DEFINE S == {y \in MssStages(p, m) : f \in Args(StageOf(p, y))}
             g == [y \in S |-> SumExtent(p.ext[y], ParamExtent(StageOf(p, y), f))]
             E == {g[y] : y \in S}
  <1>1. S \subseteq StageIds(p) /\ IsFiniteSet(S)
    BY FS_Subset DEF MssStages
  <1>2. PlhExtent(p, MssStages(p, m), f) = EnclosingExtent(E)
    <2>1. E = {SumExtent(p.ext[y], ParamExtent(StageOf(p, y), f)) : y \in S}
      OBVIOUS
    <2> QED  BY <2>1 DEF PlhExtent
  <1>3. ASSUME NEW y \in S PROVE g[y] \in Extents /\ g[y].klo <= 0 /\ 0 <= g[y].khi
    <2> DEFINE d == p.ext[y]
               e == ParamExtent(StageOf(p, y), f)
    <2>1. d \in Extents /\ d.klo = 0 /\ d.khi = 0 /\ e \in Extents /\ e.klo <= 0 /\ 0 <= e.khi
      BY <1>1, ParamFacts
    <2>2. g[y] = SumExtent(d, e)
      OBVIOUS
    <2> HIDE DEF d, e, g, S
    <2>3. SumExtent(d, e) \in Extents
      BY <2>1, HorizontalIsExtent
    <2>4. SumExtent(d, e).klo = d.klo + e.klo /\ SumExtent(d, e).khi = d.khi + e.khi
      BY DEF SumExtent, Extent
    <2>5. e.klo \in Int /\ e.khi \in Int
      BY <2>1 DEF Extents
    <2> QED  BY <2>1, <2>2, <2>3, <2>4, <2>5
  <1> HIDE DEF g, S
  <1>4. E \in ExtentSets
    <2>1. IsFiniteSet(E)
      BY <1>1, FiniteImage
    <2> QED  BY <1>3, <2>1 DEF ExtentSets
  <1>5. /\ EnclosingExtent(E) \in Extents
        /\ \A e \in E : EnclosingExtent(E).klo <= e.klo /\ e.khi <= EnclosingExtent(E).khi
    <2> HIDE DEF E
    <2> QED  BY <1>4, EnclosingFacts
  <1>6. \A e \in E : e.klo \in Int /\ e.khi \in Int /\ e.klo <= 0 /\ 0 <= e.khi
    BY <1>3 DEF Extents
  <1>7. E = {} => EnclosingExtent(E).klo = 0 /\ EnclosingExtent(E).khi = 0
    BY DEF EnclosingExtent, ZeroExtent, Extent
  <1> HIDE DEF E
  <1>8. EnclosingExtent(E).klo \in Int /\ EnclosingExtent(E).khi \in Int
    BY <1>5 DEF Extents
  <1>9. CASE E = {}
    BY <1>2, <1>7, <1>9
  <1>10. CASE E # {}
    <2>1. PICK e \in E : TRUE
      BY <1>10
    <2> DEFINE lo == EnclosingExtent(E).klo
               hi == EnclosingExtent(E).khi
    <2>2. lo <= e.klo /\ e.khi <= hi /\ e.klo <= 0 /\ 0 <= e.khi /\ e.klo \in Int /\ e.khi \in Int
          /\ lo \in Int /\ hi \in Int
      BY <1>5, <1>6, <1>8
    <2> HIDE DEF lo, hi
    <2>3. lo <= 0 /\ 0 <= hi
      BY <2>2
    <2> QED  BY <1>2, <1>8, <2>3 DEF lo, hi
  <1> QED  BY <1>9, <1>10

(***************************************************************************)
(* The vertical axis: its intervals follow each other, and every level is  *)
(* in one of them.                                                         *)
(***************************************************************************)
IsAxis(axis) == axis.sizes \in Seq(Nat) /\ axis.sizes # <<>> /\ axis.limit \in Nat \ {0}

OffsetsOf(axis) == {o \in - axis.limit .. axis.limit : o # 0}

\* The levels of the full interval that can be named, in order.
Names(axis) ==
    {a \in (0 .. Len(axis.sizes)) \X OffsetsOf(axis) :
        (a[1] = 0 => a[2] > 0) /\ (a[1] = Len(axis.sizes) => a[2] < 0)}

NamedBefore(a, b) == a[1] < b[1] \/ (a[1] = b[1] /\ a[2] < b[2])

NextName(axis, a) ==
    IF a[2] = axis.limit THEN <<a[1] + 1, - axis.limit>>
    ELSE <<a[1], IF a[2] = -1 THEN 1 ELSE a[2] + 1>>

\* The interval that ends at a level.
Ending(axis, a) == Interval(IF a[2] = - axis.limit THEN <<a[1] - 1, axis.limit>> ELSE a, a)

LEMMA Digits ==
    ASSUME NEW D \in Nat \ {0}, NEW s \in Int, NEW r \in 0 .. D - 1
    PROVE  (D * s + r) \div D = s /\ (D * s + r) % D = r
  <1> DEFINE i == D * s + r
             q == i \div D
             u == i % D
  <1>1. i \in Int
    OBVIOUS
  <1>2. q \in Int /\ u \in 0 .. D - 1 /\ i = D * q + u
    <2> HIDE DEF i
    <2> QED  BY <1>1
  <1>3. D * s + r = D * q + u
    BY <1>2
  <1> HIDE DEF i, q, u
  <1>4. s = q
    <2>1. CASE s > q
      <3>1. D * (s - q) = u - r /\ s - q >= 1
        BY <1>2, <1>3, <2>1
      <3>2. D * (s - q) >= D
        BY <1>2, <3>1
      <3> QED  BY <1>2, <3>1, <3>2
    <2>2. CASE s < q
      <3>1. D * (q - s) = r - u /\ q - s >= 1
        BY <1>2, <1>3, <2>2
      <3>2. D * (q - s) >= D
        BY <1>2, <3>1
      <3> QED  BY <1>2, <3>1, <3>2
    <2> QED  BY <1>2, <2>1, <2>2
  <1>5. r = u
    BY <1>2, <1>3, <1>4
  <1> QED  BY <1>4, <1>5 DEF i, q, u

\* The index of a level has its name, and the next one that of the next level.
LEMMA NameOfIndex ==
    ASSUME NEW axis, IsAxis(axis), NEW s \in Int, NEW o \in OffsetsOf(axis)
    PROVE  /\ LevelIndex(axis, <<s, o>>) \in Int
           /\ IndexLevel(axis, LevelIndex(axis, <<s, o>>)) = <<s, o>>
           /\ LevelIndex(axis, NextName(axis, <<s, o>>)) = LevelIndex(axis, <<s, o>>) + 1
           /\ NextName(axis, <<s, o>>)[1] \in Int /\ NextName(axis, <<s, o>>)[2] \in OffsetsOf(axis)
  <1> DEFINE L == axis.limit
             D == 2 * L
             r == L + o - (IF o >= 0 THEN 1 ELSE 0)
             index == LevelIndex(axis, <<s, o>>)
  <1>1. L \in Nat \ {0} /\ o \in Int /\ o # 0 /\ - L <= o /\ o <= L
    BY DEF IsAxis, OffsetsOf
  <1>2. D \in Nat \ {0} /\ r \in 0 .. D - 1
    BY <1>1
  <1>3. index = D * s + r
    <2>1. index = L * (2 * s + 1) + o - (IF o >= 0 THEN 1 ELSE 0)
      BY DEF LevelIndex
    <2>2. L * (2 * s + 1) = D * s + L
      BY <1>1
    <2>3. D * s \in Int
      BY <1>1
    <2> HIDE DEF index, D, L
    <2> QED  BY <1>1, <2>1, <2>2, <2>3
  <1>4. index \div D = s /\ index % D = r
    BY <1>2, <1>3, Digits
  <1>5. IndexLevel(axis, index) = <<s, o>>
    <2>1. IndexLevel(axis, index) = <<index \div D, IF (index % D) - L >= 0 THEN (index % D) - L + 1 ELSE (index % D) - L>>
      BY DEF IndexLevel
    <2> HIDE DEF index, D
    <2> QED  BY <1>1, <1>4, <2>1
  <1>6. LevelIndex(axis, NextName(axis, <<s, o>>)) = index + 1
    <2>1. CASE o = L
      <3>1. NextName(axis, <<s, o>>) = <<s + 1, - L>>
        BY <2>1 DEF NextName
      <3>2. LevelIndex(axis, <<s + 1, - L>>) = L * (2 * (s + 1) + 1) + (- L) - (IF - L >= 0 THEN 1 ELSE 0)
        BY DEF LevelIndex
      <3>3. L * (2 * (s + 1) + 1) = D * s + D + L
        BY <1>1
      <3>4. D * s \in Int /\ ~ (- L >= 0) /\ D = 2 * L
        BY <1>1
      <3> HIDE DEF index, D, L
      <3> QED  BY <1>1, <1>3, <2>1, <3>1, <3>2, <3>3, <3>4 DEF r
    <2>2. CASE o # L
      <3> DEFINE p == IF o = -1 THEN 1 ELSE o + 1
      <3>1. NextName(axis, <<s, o>>) = <<s, p>>
        BY <2>2 DEF NextName
      <3>2. LevelIndex(axis, <<s, p>>) = L * (2 * s + 1) + p - (IF p >= 0 THEN 1 ELSE 0)
        BY DEF LevelIndex
      <3>3. L * (2 * s + 1) = D * s + L /\ D * s \in Int
        BY <1>1
      <3> HIDE DEF index, D, L
      <3> QED  BY <1>1, <1>3, <2>2, <3>1, <3>2, <3>3 DEF r
    <2> QED  BY <2>1, <2>2
  <1>7. NextName(axis, <<s, o>>)[1] \in Int /\ NextName(axis, <<s, o>>)[2] \in OffsetsOf(axis)
    BY <1>1 DEF NextName, OffsetsOf
  <1>8. index \in Int
    <2>1. D * s \in Int
      BY <1>1
    <2> HIDE DEF D, index
    <2> QED  BY <1>1, <1>3, <2>1
  <1> QED  BY <1>5, <1>6, <1>7, <1>8

LEMMA AppendFacts ==
    ASSUME NEW R, NEW t \in Seq(R), NEW e \in R
    PROVE  /\ Append(t, e) \in Seq(R) /\ Append(t, e) # <<>>
           /\ Last(Append(t, e)) = e /\ Front(Append(t, e)) = t
           /\ ToSet(Append(t, e)) = ToSet(t) \cup {e}
           /\ t # <<>> => Front(t) \in Seq(R) /\ Last(t) \in R /\ ToSet(t) = ToSet(Front(t)) \cup {Last(t)}
  <1> DEFINE n == Len(t)
             s == Append(t, e)
  <1>1. /\ n \in Nat /\ DOMAIN t = 1 .. n /\ \A i \in 1 .. n : t[i] \in R
        /\ t = <<>> <=> n = 0
    BY LenProperties, EmptySeq
  <1>2. /\ s \in Seq(R) /\ s # <<>> /\ Len(s) = n + 1 /\ DOMAIN s = 1 .. n + 1
        /\ s[n + 1] = e /\ \A i \in 1 .. n : s[i] = t[i]
    BY AppendProperties, LenProperties
  <1>3. Last(s) = e
    BY <1>2 DEF Last
  <1>4. Front(s) = t
    <2> HIDE DEF s
    <2>1. Front(s) = SubSeq(s, 1, n)
      <3>1. Len(s) - 1 = n
        BY <1>1, <1>2
      <3> QED  BY <3>1 DEF Front
    <2> HIDE DEF n
    <2>2. \A i \in 1 .. n : s[i] \in R
      BY <1>1, <1>2
    <2>3. /\ SubSeq(s, 1, n) \in Seq(R) /\ Len(SubSeq(s, 1, n)) = n
          /\ \A i \in 1 .. n : SubSeq(s, 1, n)[i] = s[i]
      BY <1>1, <1>2, <2>2, SubSeqProperties
    <2>4. SubSeq(s, 1, n) = t
      BY <1>1, <1>2, <2>3, SeqEqual DEF n
    <2> QED  BY <2>1, <2>4
  <1>5. ToSet(s) = ToSet(t) \cup {e}
    <2>1. ToSet(s) = {s[i] : i \in 1 .. n + 1} /\ ToSet(t) = {t[i] : i \in 1 .. n}
      BY <1>1, <1>2 DEF ToSet
    <2> HIDE DEF s, n
    <2>2. \A i \in 1 .. n + 1 : i \in 1 .. n \/ i = n + 1
      BY <1>1
    <2>3. n + 1 \in 1 .. n + 1 /\ \A i \in 1 .. n : i \in 1 .. n + 1
      BY <1>1
    <2>4. \A i \in 1 .. n + 1 : s[i] \in ToSet(t) \cup {e}
      BY <1>2, <2>1, <2>2
    <2>5. \A y \in ToSet(t) \cup {e} : \E i \in 1 .. n + 1 : y = s[i]
      BY <1>2, <2>1, <2>3
    <2> QED  BY <2>1, <2>4, <2>5
  <1>6. ASSUME t # <<>> PROVE Front(t) \in Seq(R) /\ Last(t) \in R /\ ToSet(t) = ToSet(Front(t)) \cup {Last(t)}
    <2> DEFINE f == SubSeq(t, 1, n - 1)
    <2>1. n \in 1 .. n /\ n - 1 \in Nat
      BY <1>1, <1>6
    <2>2. Front(t) = f /\ Last(t) = t[n] /\ Last(t) \in R
      BY <1>1, <2>1 DEF Front, Last
    <2> HIDE DEF n
    <2>3. f \in Seq(R) /\ Len(f) = n - 1 /\ \A i \in 1 .. n - 1 : f[i] = t[i]
      <3>1. \A i \in 1 .. n - 1 : t[i] \in R
        BY <1>1
      <3> QED  BY <1>1, <2>1, <3>1, SubSeqProperties
    <2> HIDE DEF f
    <2>4. DOMAIN f = 1 .. n - 1
      BY <2>3, LenProperties
    <2>5. ToSet(f) = {t[i] : i \in 1 .. n - 1} /\ ToSet(t) = {t[i] : i \in 1 .. n}
      BY <1>1, <2>3, <2>4 DEF ToSet
    <2>6. 1 .. n = (1 .. n - 1) \cup {n}
      BY <2>1
    <2>7. ToSet(t) = ToSet(f) \cup {t[n]}
      <3>1. \A y \in ToSet(t) : y \in ToSet(f) \cup {t[n]}
        BY <2>5, <2>6
      <3>2. \A y \in ToSet(f) \cup {t[n]} : y \in ToSet(t)
        BY <2>5, <2>6
      <3> QED  BY <3>1, <3>2
    <2> QED  BY <2>2, <2>3, <2>7
  <1> QED  BY <1>2, <1>3, <1>4, <1>5, <1>6

\* The intervals that end before a level.
Endings(axis, a) ==
    {Ending(axis, q) : q \in {b \in Names(axis) : b[2] # axis.limit /\ NamedBefore(b, a)}}

Pieces == [first : Int \X Int, last : Int \X Int]

\* What is left of the levels up to a.
Joined(axis, t, a) ==
    /\ t \in Seq(Pieces) /\ t # <<>>
    /\ Last(t) = Ending(axis, a) /\ ToSet(Front(t)) = Endings(axis, a)

LEMMA NamesAreLevels ==
    ASSUME NEW axis, IsAxis(axis), NEW a \in Names(axis)
    PROVE  /\ a = <<a[1], a[2]>> /\ a[1] \in 0 .. Len(axis.sizes) /\ a[2] \in OffsetsOf(axis) /\ a[2] \in Int
           /\ a \in Int \X Int /\ Interval(a, a) \in Pieces /\ Ending(axis, a) \in Pieces
           /\ a # <<Len(axis.sizes), -1>> => NextName(axis, a) \in Names(axis)
  <1> DEFINE n == Len(axis.sizes)
             L == axis.limit
             s == a[1]
             o == a[2]
  <1>1. n \in Nat /\ n # 0 /\ L \in Nat \ {0}
    BY DEF IsAxis
  <1>2. a = <<s, o>> /\ s \in 0 .. n /\ o \in - L .. L /\ o # 0 /\ (s = 0 => o > 0) /\ (s = n => o < 0)
    BY DEF Names, OffsetsOf
  <1>3. \A p \in 0 .. n, q \in - L .. L :
            q # 0 /\ (p = 0 => q > 0) /\ (p = n => q < 0) => <<p, q>> \in Names(axis)
    BY DEF Names, OffsetsOf
  <1>4. NextName(axis, a) = IF o = L THEN <<s + 1, - L>> ELSE <<s, IF o = -1 THEN 1 ELSE o + 1>>
    BY DEF NextName
  <1>5. s \in Int /\ o \in Int /\ o \in OffsetsOf(axis)
    BY <1>1, <1>2 DEF OffsetsOf
  <1>6. a \in Int \X Int /\ <<s - 1, L>> \in Int \X Int
    BY <1>1, <1>2, <1>5
  <1>7. Interval(a, a) \in Pieces /\ Ending(axis, a) \in Pieces
    BY <1>6 DEF Interval, Ending, Pieces
  <1> HIDE DEF n, L, s, o
  <1>8. ASSUME a # <<n, -1>> PROVE NextName(axis, a) \in Names(axis)
    <2>1. CASE o = L
      <3>1. s + 1 \in 0 .. n /\ - L \in - L .. L /\ - L # 0 /\ s + 1 # 0 /\ - L < 0
        BY <1>1, <1>2, <2>1
      <3>2. <<s + 1, - L>> \in Names(axis)
        BY <1>3, <3>1
      <3> QED  BY <1>4, <2>1, <3>2
    <2>2. CASE o # L
      <3> DEFINE p == IF o = -1 THEN 1 ELSE o + 1
      <3>1. p \in - L .. L /\ p # 0 /\ (s = 0 => p > 0) /\ (s = n => p < 0)
        BY <1>1, <1>2, <1>8, <2>2
      <3> HIDE DEF p
      <3>2. <<s, p>> \in Names(axis)
        BY <1>2, <1>3, <3>1
      <3> QED  BY <1>4, <2>2, <3>2 DEF p
    <2> QED  BY <2>1, <2>2
  <1> QED  BY <1>2, <1>5, <1>6, <1>7, <1>8 DEF n, s, o

LEMMA NextEndings ==
    ASSUME NEW axis, IsAxis(axis), NEW a \in Names(axis)
    PROVE  Endings(axis, NextName(axis, a))
             = IF a[2] = axis.limit THEN Endings(axis, a) ELSE Endings(axis, a) \cup {Ending(axis, a)}
  <1> DEFINE next == NextName(axis, a)
             Before(c) == {b \in Names(axis) : b[2] # axis.limit /\ NamedBefore(b, c)}
  <1>1. ASSUME NEW b \in Names(axis) PROVE NamedBefore(b, next) <=> NamedBefore(b, a) \/ b = a
    <2> DEFINE L == axis.limit
               s == a[1]
               o == a[2]
               p == b[1]
               q == b[2]
    <2>1. /\ a = <<s, o>> /\ s \in Int /\ o \in - L .. L /\ o # 0
          /\ b = <<p, q>> /\ p \in Int /\ q \in - L .. L /\ q # 0 /\ L \in Nat
      BY NamesAreLevels DEF OffsetsOf, IsAxis
    <2>2. next = IF o = L THEN <<s + 1, - L>> ELSE <<s, IF o = -1 THEN 1 ELSE o + 1>>
      BY DEF NextName
    <2>3. NamedBefore(b, a) <=> p < s \/ (p = s /\ q < o)
      BY DEF NamedBefore
    <2>4. b = a <=> p = s /\ q = o
      BY <2>1
    <2> HIDE DEF L, s, o, p, q, next
    <2>5. CASE o = L
      <3>1. next[1] = s + 1 /\ next[2] = - L
        BY <2>2, <2>5
      <3>2. NamedBefore(b, next) <=> p < s + 1 \/ (p = s + 1 /\ q < - L)
        BY <3>1 DEF NamedBefore, p, q
      <3> QED  BY <2>1, <2>3, <2>4, <2>5, <3>2
    <2>6. CASE o # L
      <3>1. next[1] = s /\ next[2] = IF o = -1 THEN 1 ELSE o + 1
        BY <2>2, <2>6
      <3>2. NamedBefore(b, next) <=> p < s \/ (p = s /\ q < IF o = -1 THEN 1 ELSE o + 1)
        BY <3>1 DEF NamedBefore, p, q
      <3> QED  BY <2>1, <2>3, <2>4, <2>6, <3>2
    <2> QED  BY <2>5, <2>6
  <1>2. Before(next) = IF a[2] = axis.limit THEN Before(a) ELSE Before(a) \cup {a}
    BY <1>1
  <1>3. Endings(axis, next) = {Ending(axis, q) : q \in Before(next)} /\ Endings(axis, a) = {Ending(axis, q) : q \in Before(a)}
    BY DEF Endings
  <1> HIDE DEF Before, next
  <1>4. CASE a[2] = axis.limit
    BY <1>2, <1>3, <1>4 DEF next
  <1>5. CASE a[2] # axis.limit
    <2>1. Before(next) = Before(a) \cup {a}
      BY <1>2, <1>5
    <2>2. {Ending(axis, q) : q \in Before(a) \cup {a}} = {Ending(axis, q) : q \in Before(a)} \cup {Ending(axis, a)}
      OBVIOUS
    <2> QED  BY <1>3, <1>5, <2>1, <2>2 DEF next
  <1> QED  BY <1>4, <1>5

LEMMA JoinsNext ==
    ASSUME NEW axis, IsAxis(axis), NEW a \in Names(axis), a # <<Len(axis.sizes), -1>>,
           NEW t, Joined(axis, t, a)
    PROVE  Joined(axis, AddLevel(axis, t, NextName(axis, a)), NextName(axis, a))
  <1> DEFINE L == axis.limit
             next == NextName(axis, a)
             last == Last(t)
  <1>1. /\ t \in Seq(Pieces) /\ t # <<>> /\ last = Ending(axis, a)
        /\ ToSet(Front(t)) = Endings(axis, a) /\ L \in Nat \ {0}
    BY DEF Joined, IsAxis
  <1>2. /\ a = <<a[1], a[2]>> /\ a[1] \in Int /\ a[2] \in Int /\ a[2] # 0 /\ next \in Names(axis)
        /\ Ending(axis, next) \in Pieces /\ Interval(next, next) \in Pieces /\ Interval(a, a) \in Pieces
    BY NamesAreLevels DEF OffsetsOf
  <1>3. last.last = a /\ last.first = IF a[2] = - L THEN <<a[1] - 1, L>> ELSE a
    BY <1>1 DEF Ending, Interval
  <1>4. Front(t) \in Seq(Pieces) /\ ToSet(t) = ToSet(Front(t)) \cup {last}
    BY <1>1, <1>2, AppendFacts
  <1>5. CASE a[2] = L
    <2>1. next = <<a[1] + 1, - L>> /\ last.first = a
      BY <1>1, <1>3, <1>5 DEF NextName
    <2>2. AddLevel(axis, t, next) = Append(Front(t), Interval(a, next))
      BY <1>1, <1>3, <1>5, <2>1 DEF AddLevel
    <2>3. Ending(axis, next) = Interval(a, next)
      <3>1. next[1] = a[1] + 1 /\ next[2] = - L /\ (a[1] + 1) - 1 = a[1]
        BY <1>2, <2>1
      <3> HIDE DEF next
      <3> QED  BY <1>2, <1>5, <3>1 DEF Ending
    <2>4. Endings(axis, next) = Endings(axis, a)
      BY <1>5, NextEndings
    <2> HIDE DEF next, last
    <2> DEFINE e == Interval(a, next)
               u == Front(t)
    <2>5. e \in Pieces
      BY <1>2, <2>3
    <2> HIDE DEF e, u
    <2>6. Append(u, e) \in Seq(Pieces) /\ Append(u, e) # <<>> /\ Last(Append(u, e)) = e /\ Front(Append(u, e)) = u
      BY <1>4, <2>5, AppendFacts DEF u
    <2> QED  BY <1>1, <2>2, <2>3, <2>4, <2>6 DEF Joined, e, u, next
  <1>6. CASE a[2] # L
    <2>1. AddLevel(axis, t, next) = Append(t, Interval(next, next))
      BY <1>3, <1>6 DEF AddLevel
    <2>2. next[2] # - L
      <3>1. next = <<a[1], IF a[2] = -1 THEN 1 ELSE a[2] + 1>>
        BY <1>6 DEF NextName
      <3>2. next[2] = IF a[2] = -1 THEN 1 ELSE a[2] + 1
        BY <3>1
      <3>3. a[2] >= - L
        BY <1>1, NamesAreLevels DEF OffsetsOf
      <3> DEFINE o == a[2]
                 q == next[2]
      <3>4. o \in Int /\ q = (IF o = -1 THEN 1 ELSE o + 1) /\ o >= - L
        BY <1>2, <3>2, <3>3
      <3> HIDE DEF o, q
      <3>5. q # - L
        BY <1>1, <3>4
      <3> QED  BY <3>5 DEF q
    <2>3. Ending(axis, next) = Interval(next, next)
      BY <2>2 DEF Ending
    <2>4. Endings(axis, next) = Endings(axis, a) \cup {Ending(axis, a)}
      BY <1>6, NextEndings
    <2> HIDE DEF next, last
    <2> DEFINE e == Interval(next, next)
    <2>5. e \in Pieces
      BY <1>2
    <2> HIDE DEF e
    <2>6. Append(t, e) \in Seq(Pieces) /\ Append(t, e) # <<>> /\ Last(Append(t, e)) = e /\ Front(Append(t, e)) = t
      BY <1>1, <2>5, AppendFacts
    <2>7. ToSet(t) = Endings(axis, next)
      BY <1>1, <1>4, <2>4
    <2> QED  BY <2>1, <2>3, <2>6, <2>7 DEF Joined, e, next
  <1> QED  BY <1>5, <1>6

\* The intervals of an axis, each at the level it ends at.
LEMMA IntervalsAre ==
    ASSUME NEW axis, IsAxis(axis)
    PROVE  Intervals(axis) = {Ending(axis, a) : a \in {b \in Names(axis) : b[2] # axis.limit}}
  <1> DEFINE full == FullInterval(axis)
             from == LevelIndex(axis, full.first)
             to == LevelIndex(axis, full.last)
             count == to - from + 1
             N == Len(axis.sizes)
             L == axis.limit
             T == Seq(Pieces)
             Term(f, n) == IF n = 0 THEN <<>> ELSE AddLevel(axis, f[n - 1], IndexLevel(axis, from + n - 1))
             Eq(f) == f = [n \in 0 .. count |-> Term(f, n)]
             f0 == CHOOSE f : Eq(f)
             name(n) == IndexLevel(axis, from + n - 1)
             step == [a \in T \X (1 .. count) |-> AddLevel(axis, a[1], name(a[2]))]
  <1>1. N \in Nat /\ N >= 1 /\ L \in Nat /\ L >= 1
    <2>1. N \in Nat /\ N # 0 /\ L \in Nat \ {0}
      BY EmptySeq DEF IsAxis
    <2> QED  BY <2>1
  <1>2. from = L /\ to = L * (2 * N + 1) - 1 /\ from \in Int /\ to \in Int
    <2>1. full.first = <<0, 1>> /\ full.last = <<N, -1>>
      BY DEF FullInterval, Interval
    <2>2. from = L * (2 * 0 + 1) + 1 - 1 /\ to = L * (2 * N + 1) + (-1) - 0
      BY <2>1 DEF LevelIndex
    <2> QED  BY <1>1, <2>2
  <1>3. count \in Nat /\ count >= 1
    <2>1. L * N >= L /\ L * N \in Int
      BY <1>1
    <2>2. L * (2 * N + 1) = 2 * (L * N) + L
      BY <1>1
    <2> HIDE DEF N, L
    <2> QED  BY <1>1, <1>2, <2>1, <2>2
  <1>4. SplitInterval(axis, full) = f0[count]
    BY DEF SplitInterval
  <1>5. <<0, 1>> \in Names(axis) /\ <<N, -1>> \in Names(axis)
    BY <1>1 DEF Names, OffsetsOf
  <1>6. from = LevelIndex(axis, <<0, 1>>) /\ to = LevelIndex(axis, <<N, -1>>)
    BY DEF FullInterval, Interval
  <1> HIDE DEF full, from, to, N
  <1>7. ASSUME NEW t \in T, NEW a \in Int \X Int PROVE AddLevel(axis, t, a) \in T
    <2>1. Interval(a, a) \in Pieces
      BY DEF Interval, Pieces
    <2>2. CASE t # <<>> /\ Last(t).first[2] = L /\ Last(t).last[2] = L
      <3>1. Front(t) \in T /\ Last(t) \in Pieces
        BY <2>1, <2>2, AppendFacts
      <3>2. Interval(Last(t).first, a) \in Pieces
        BY <3>1 DEF Interval, Pieces
      <3>3. AddLevel(axis, t, a) = Append(Front(t), Interval(Last(t).first, a))
        BY <2>2 DEF AddLevel
      <3> QED  BY <3>1, <3>2, <3>3
    <2>3. CASE ~ (t # <<>> /\ Last(t).first[2] = L /\ Last(t).last[2] = L)
      <3>1. AddLevel(axis, t, a) = Append(t, Interval(a, a))
        BY <2>3 DEF AddLevel
      <3> QED  BY <2>1, <3>1
    <2> QED  BY <2>2, <2>3
  <1>8. \A n \in 1 .. count : name(n) \in Int \X Int
    <2> SUFFICES ASSUME NEW n \in 1 .. count PROVE name(n) \in Int \X Int
      OBVIOUS
    <2> DEFINE i == from + n - 1
               D == 2 * L
    <2>1. i \in Int /\ D \in Nat \ {0}
      BY <1>1, <1>2
    <2> HIDE DEF i, D
    <2>2. i \div D \in Int /\ i % D \in Int
      BY <2>1
    <2>3. IndexLevel(axis, i) = <<i \div D, IF (i % D) - L >= 0 THEN (i % D) - L + 1 ELSE (i % D) - L>>
      BY DEF IndexLevel, D
    <2>4. IndexLevel(axis, i) \in Int \X Int
      BY <1>1, <2>2, <2>3
    <2> QED  BY <2>4 DEF i
  <1> HIDE DEF name, T, L
  <1>9. step \in [T \X (1 .. count) -> T]
    <2>1. \A a \in T \X (1 .. count) : a[1] \in T /\ name(a[2]) \in Int \X Int
      BY <1>8
    <2> QED  BY <1>7, <2>1
  <1>10. <<>> \in T
    BY DEF T
  <1> HIDE DEF count
  <1>11. PICK f : Follows(f, T, <<>>, count, step)
    <2> HIDE DEF step
    <2> QED  BY <1>3, <1>9, <1>10, Iterate
  <1>12. f = [n \in 0 .. count |-> f[n]] /\ \A n \in 0 .. count : f[n] = Term(f, n)
    <2>1. f \in [0 .. count -> T] /\ f[0] = <<>>
      BY <1>11 DEF Follows
    <2>2. ASSUME NEW n \in 1 .. count PROVE f[n] = AddLevel(axis, f[n - 1], name(n))
      <3>1. f[n - 1] \in T
        BY <1>3, <2>1
      <3>2. f[n] = step[<<f[n - 1], n>>]
        BY <1>11 DEF Follows
      <3> QED  BY <3>1, <3>2
    <2>3. \A n \in 0 .. count : n # 0 => n \in 1 .. count
      BY <1>3
    <2> QED  BY <2>1, <2>2, <2>3 DEF name
  <1> HIDE DEF Term, step
  <1>13. Eq(f0)
    BY <1>12
  <1> HIDE DEF f0
  <1>14. f0[0] = <<>> /\ \A n \in 0 .. count - 1 : f0[n + 1] = AddLevel(axis, f0[n], IndexLevel(axis, from + n))
    <2>1. \A n \in 0 .. count : f0[n] = Term(f0, n)
      BY <1>13
    <2>2. ASSUME NEW n \in 0 .. count - 1 PROVE f0[n + 1] = AddLevel(axis, f0[n], IndexLevel(axis, from + n))
      <3>1. n + 1 \in 0 .. count /\ n + 1 # 0 /\ (n + 1) - 1 = n /\ from + (n + 1) - 1 = from + n
        BY <1>2, <1>3
      <3>2. f0[n + 1] = Term(f0, n + 1)
        BY <2>1, <3>1
      <3>3. Term(f0, n + 1) = AddLevel(axis, f0[(n + 1) - 1], IndexLevel(axis, from + (n + 1) - 1))
        BY <3>1 DEF Term
      <3> QED  BY <3>1, <3>2, <3>3
    <2> QED  BY <1>3, <2>1, <2>2 DEF Term
  <1> DEFINE At(n, a) == a \in Names(axis) /\ LevelIndex(axis, a) = from + n /\ Joined(axis, f0[n + 1], a)
             X == {n \in Nat : n + 1 <= count => \E a : At(n, a)}
  <1>15. 0 \in X
    <2> DEFINE a == <<0, 1>>
    <2>1. f0[1] = AddLevel(axis, <<>>, IndexLevel(axis, from))
      <3>1. 0 \in 0 .. count - 1 /\ from + 0 = from
        BY <1>2, <1>3
      <3> QED  BY <1>14, <3>1
    <2>2. IndexLevel(axis, from) = a
      <3>1. 1 \in OffsetsOf(axis) /\ 0 \in Int
        BY <1>1 DEF OffsetsOf, L
      <3> QED  BY <1>6, <3>1, NameOfIndex
    <2>3. f0[1] = <<Interval(a, a)>>
      <3>1. AddLevel(axis, <<>>, a) = <<Interval(a, a)>>
        BY DEF AddLevel
      <3> QED  BY <2>1, <2>2, <3>1
    <2>4. Ending(axis, a) = Interval(a, a)
      <3>1. a[2] # - axis.limit
        BY <1>1 DEF L
      <3> QED  BY <3>1 DEF Ending
    <2>5. Endings(axis, a) = {}
      <3>1. ASSUME NEW b \in Names(axis), NamedBefore(b, a) PROVE FALSE
        <4>1. b[1] \in 0 .. Len(axis.sizes) /\ b[2] \in Int /\ (b[1] = 0 => b[2] > 0)
          BY NamesAreLevels DEF Names
        <4>2. b[1] < 0 \/ (b[1] = 0 /\ b[2] < 1)
          BY <3>1 DEF NamedBefore
        <4> QED  BY <4>1, <4>2
      <3> QED  BY <3>1 DEF Endings
    <2>6. Interval(a, a) \in Pieces
      BY <1>5, NamesAreLevels
    <2> DEFINE e == Interval(a, a)
    <2>7. Front(<<e>>) = <<>> /\ Last(<<e>>) = e /\ <<e>> \in Seq(Pieces) /\ <<e>> # <<>>
      <3> HIDE DEF e
      <3>1. <<>> \in Seq(Pieces) /\ Append(<<>>, e) = <<e>>
        OBVIOUS
      <3>2. e \in Pieces
        BY <2>6 DEF e
      <3> DEFINE none == <<>>
      <3> HIDE DEF none
      <3>3. none \in Seq(Pieces)
        BY <3>1 DEF none
      <3>4. /\ Front(Append(none, e)) = none /\ Last(Append(none, e)) = e
            /\ Append(none, e) \in Seq(Pieces) /\ Append(none, e) # <<>>
        BY <3>2, <3>3, AppendFacts
      <3>5. Append(none, e) = <<e>> /\ none = <<>>
        BY <3>1 DEF none
      <3> QED  BY <3>4, <3>5
    <2>8. ToSet(<<>>) = {}
      BY DEF ToSet
    <2>9. Joined(axis, f0[1], a)
      BY <2>3, <2>4, <2>5, <2>7, <2>8 DEF Joined
    <2>10. LevelIndex(axis, a) = from + 0
      BY <1>2, <1>6
    <2>11. At(0, a)
      <3>1. 0 + 1 = 1
        OBVIOUS
      <3> QED  BY <1>5, <2>9, <2>10, <3>1
    <2> QED  BY <2>11
  <1>16. ASSUME NEW n \in Nat, n \in X PROVE n + 1 \in X
    <2> SUFFICES ASSUME (n + 1) + 1 <= count PROVE \E a : At(n + 1, a)
      OBVIOUS
    <2>1. n + 1 <= count
      BY <1>3
    <2>2. PICK a : At(n, a)
      BY <1>16, <2>1
    <2>3. a # <<N, -1>>
      <3> SUFFICES ASSUME a = <<N, -1>> PROVE FALSE
        OBVIOUS
      <3>1. to = from + n
        BY <1>6, <2>2
      <3> QED  BY <1>2, <3>1 DEF count
    <2> DEFINE next == NextName(axis, a)
    <2>4. a = <<a[1], a[2]>> /\ a[1] \in Int /\ a[2] \in OffsetsOf(axis) /\ next \in Names(axis)
      BY <2>2, <2>3, NamesAreLevels DEF N
    <2>5. LevelIndex(axis, next) = LevelIndex(axis, a) + 1
      BY <2>4, NameOfIndex
    <2>6. next[1] \in Int /\ next[2] \in OffsetsOf(axis) /\ next = <<next[1], next[2]>>
      <3> HIDE DEF next
      <3> QED  BY <2>4, NamesAreLevels
    <2>7. IndexLevel(axis, LevelIndex(axis, next)) = next
      <3> HIDE DEF next
      <3> QED  BY <2>6, NameOfIndex
    <2>8. LevelIndex(axis, next) = from + (n + 1)
      BY <1>2, <2>2, <2>5
    <2>9. f0[(n + 1) + 1] = AddLevel(axis, f0[n + 1], next)
      <3>1. n + 1 \in 0 .. count - 1
        BY <1>3
      <3> QED  BY <1>14, <2>7, <2>8, <3>1
    <2>10. Joined(axis, AddLevel(axis, f0[n + 1], next), next)
      BY <2>2, <2>3, JoinsNext DEF N
    <2> HIDE DEF next
    <2>11. At(n + 1, next)
      BY <2>4, <2>8, <2>9, <2>10
    <2> QED  BY <2>11
  <1> HIDE DEF X
  <1>17. count - 1 \in X
    <2>1. count - 1 \in Nat
      BY <1>3
    <2> QED  BY <1>15, <1>16, <2>1, SetInduction
  <1>18. PICK a : At(count - 1, a)
    <2>1. (count - 1) + 1 <= count
      BY <1>3
    <2> QED  BY <1>17, <2>1 DEF X
  <1>19. a = <<N, -1>>
    <2>1. LevelIndex(axis, a) = to
      BY <1>2, <1>18 DEF count
    <2>2. a = <<a[1], a[2]>> /\ a[1] \in Int /\ a[2] \in OffsetsOf(axis)
      BY <1>18, NamesAreLevels
    <2>3. IndexLevel(axis, to) = a
      BY <2>1, <2>2, NameOfIndex
    <2>4. -1 \in OffsetsOf(axis) /\ N \in Int
      BY <1>1 DEF OffsetsOf, L
    <2>5. IndexLevel(axis, to) = <<N, -1>>
      BY <1>6, <2>4, NameOfIndex
    <2> QED  BY <2>3, <2>5
  <1>20. Joined(axis, f0[count], a)
    <2>1. (count - 1) + 1 = count
      BY <1>3
    <2> QED  BY <1>18, <2>1
  <1>21. ToSet(f0[count]) = Endings(axis, a) \cup {Ending(axis, a)}
    <2>1. /\ f0[count] \in Seq(Pieces) /\ f0[count] # <<>> /\ Last(f0[count]) = Ending(axis, a)
          /\ ToSet(Front(f0[count])) = Endings(axis, a)
      BY <1>20 DEF Joined
    <2>2. Ending(axis, a) \in Pieces
      BY <1>18, NamesAreLevels
    <2> QED  BY <2>1, <2>2, AppendFacts
  <1>22. {b \in Names(axis) : b[2] # axis.limit} = {b \in Names(axis) : b[2] # axis.limit /\ NamedBefore(b, a)} \cup {a}
    <2>1. ASSUME NEW b \in Names(axis), b # a PROVE NamedBefore(b, a)
      <3>1. /\ b = <<b[1], b[2]>> /\ b[1] \in 0 .. N /\ b[2] \in Int /\ b[2] # 0 /\ (b[1] = N => b[2] < 0)
        BY NamesAreLevels DEF Names, OffsetsOf, N
      <3>2. a[1] = N /\ a[2] = -1 /\ (b[1] # N \/ b[2] # -1)
        BY <1>19, <2>1, <3>1
      <3> DEFINE s == b[1]
                 o == b[2]
      <3>3. s \in 0 .. N /\ o \in Int /\ o # 0 /\ (s = N => o < 0) /\ (s # N \/ o # -1)
        BY <3>1, <3>2
      <3> HIDE DEF s, o
      <3>4. s < N \/ (s = N /\ o < -1)
        BY <1>1, <3>3
      <3> QED  BY <3>2, <3>4 DEF NamedBefore, s, o
    <2>2. a[2] # axis.limit
      BY <1>1, <1>19 DEF L
    <2> QED  BY <1>18, <2>1, <2>2
  <1>23. Intervals(axis) = ToSet(f0[count])
    BY <1>4 DEF Intervals, full
  <1> QED  BY <1>21, <1>22, <1>23 DEF Endings

\* The values of the splitters, from the sizes between them.
Table(axis, f, n) ==
    /\ f \in [0 .. n -> Nat] /\ f[0] = 0
    /\ \A i \in 1 .. n : f[i] = f[i - 1] + axis.sizes[i]

LEMMA SplitterTable ==
    ASSUME NEW axis, axis.sizes \in Seq(Nat), NEW L \in 0 .. Len(axis.sizes)
    PROVE  \E f : Table(axis, f, L) /\ SplitterValue(axis, L) = f[L]
  <1> DEFINE s == axis.sizes
             Term(f, n) == IF n = 0 THEN 0 ELSE f[n - 1] + s[n]
             Eq(f) == f = [n \in 0 .. L |-> Term(f, n)]
             f0 == CHOOSE f : Eq(f)
             step == [a \in Nat \X (1 .. L) |-> a[1] + s[a[2]]]
  <1>1. L \in Nat /\ \A n \in 1 .. L : s[n] \in Nat
    OBVIOUS
  <1>2. SplitterValue(axis, L) = f0[L]
    BY DEF SplitterValue
  <1> HIDE DEF s
  <1>3. step \in [Nat \X (1 .. L) -> Nat]
    <2>1. \A a \in Nat \X (1 .. L) : a[1] \in Nat /\ s[a[2]] \in Nat
      BY <1>1
    <2> QED  BY <2>1
  <1>4. PICK f : Follows(f, Nat, 0, L, step)
    <2> HIDE DEF step
    <2> QED  BY <1>1, <1>3, Iterate
  <1>5. f = [n \in 0 .. L |-> f[n]] /\ \A n \in 0 .. L : f[n] = Term(f, n)
    <2>1. f \in [0 .. L -> Nat] /\ f[0] = 0
      BY <1>4 DEF Follows
    <2>2. ASSUME NEW n \in 1 .. L PROVE f[n] = f[n - 1] + s[n]
      <3>1. f[n - 1] \in Nat
        BY <1>1, <2>1
      <3>2. f[n] = step[<<f[n - 1], n>>]
        BY <1>4 DEF Follows
      <3> QED  BY <3>1, <3>2
    <2>3. \A n \in 0 .. L : n # 0 => n \in 1 .. L
      BY <1>1
    <2> QED  BY <2>1, <2>2, <2>3
  <1> HIDE DEF Term, step
  <1>6. Eq(f0)
    BY <1>5
  <1> HIDE DEF f0
  <1>7. \A n \in 0 .. L : f0[n] = Term(f0, n)
    BY <1>6
  <1>8. f0[0] = 0
    BY <1>1, <1>7 DEF Term
  <1>9. ASSUME NEW n \in 1 .. L PROVE f0[n] = f0[n - 1] + s[n]
    <2>1. n \in 0 .. L /\ n # 0
      BY <1>1
    <2> QED  BY <1>7, <2>1 DEF Term
  <1> DEFINE X == {n \in Nat : n \in 0 .. L => f0[n] \in Nat}
  <1>10. 0 \in X
    BY <1>8
  <1>11. ASSUME NEW n \in Nat, n \in X PROVE n + 1 \in X
    <2> SUFFICES ASSUME n + 1 \in 0 .. L PROVE f0[n + 1] \in Nat
      OBVIOUS
    <2>1. n \in 0 .. L /\ n + 1 \in 1 .. L /\ (n + 1) - 1 = n
      BY <1>1
    <2>2. f0[n + 1] = f0[n] + s[n + 1]
      BY <1>9, <2>1
    <2> QED  BY <1>1, <1>11, <2>1, <2>2
  <1> HIDE DEF X
  <1>12. \A n \in 0 .. L : f0[n] \in Nat
    <2> SUFFICES ASSUME NEW n \in 0 .. L PROVE f0[n] \in Nat
      OBVIOUS
    <2>1. n \in Nat
      BY <1>1
    <2>2. n \in X
      BY <1>10, <1>11, <2>1, SetInduction
    <2> QED  BY <2>2 DEF X
  <1>13. f0 \in [0 .. L -> Nat]
    BY <1>6, <1>12
  <1>14. Table(axis, f0, L)
    BY <1>8, <1>9, <1>13 DEF Table, s
  <1> QED  BY <1>2, <1>14

LEMMA Splitters ==
    ASSUME NEW axis, axis.sizes \in Seq(Nat)
    PROVE  /\ SplitterValue(axis, 0) = 0
           /\ \A s \in 0 .. Len(axis.sizes) : SplitterValue(axis, s) \in Nat
           /\ \A s \in 1 .. Len(axis.sizes) : /\ axis.sizes[s] \in Nat
                                              /\ SplitterValue(axis, s) = SplitterValue(axis, s - 1) + axis.sizes[s]
  <1> DEFINE N == Len(axis.sizes)
             V(s) == SplitterValue(axis, s)
  <1>1. N \in Nat /\ \A s \in 1 .. N : axis.sizes[s] \in Nat
    OBVIOUS
  <1> HIDE DEF N, V
  <1>2. ASSUME NEW s \in 0 .. N PROVE \E f : Table(axis, f, s) /\ V(s) = f[s]
    BY SplitterTable DEF N, V
  <1>3. ASSUME NEW s \in 0 .. N PROVE V(s) \in Nat
    <2>1. PICK f : Table(axis, f, s) /\ V(s) = f[s]
      BY <1>2
    <2>2. s \in 0 .. s
      BY <1>1
    <2> QED  BY <2>1, <2>2 DEF Table
  <1>4. V(0) = 0
    <2>1. 0 \in 0 .. N
      BY <1>1
    <2> QED  BY <1>2, <2>1 DEF Table
  <1>5. ASSUME NEW s \in 1 .. N PROVE V(s) = V(s - 1) + axis.sizes[s]
    <2>1. s \in 0 .. N /\ s - 1 \in 0 .. N /\ s \in Nat /\ s - 1 \in Nat
      BY <1>1
    <2>2. PICK f : Table(axis, f, s) /\ V(s) = f[s]
      BY <1>2, <2>1
    <2>3. PICK g : Table(axis, g, s - 1) /\ V(s - 1) = g[s - 1]
      BY <1>2, <2>1
    <2> DEFINE X == {n \in Nat : n <= s - 1 => f[n] = g[n]}
    <2>4. 0 \in X
      BY <2>2, <2>3 DEF Table
    <2>5. ASSUME NEW n \in Nat, n \in X PROVE n + 1 \in X
      <3> SUFFICES ASSUME n + 1 <= s - 1 PROVE f[n + 1] = g[n + 1]
        OBVIOUS
      <3>1. n <= s - 1 /\ n + 1 \in 1 .. s /\ n + 1 \in 1 .. s - 1 /\ (n + 1) - 1 = n
        BY <2>1
      <3>2. f[n + 1] = f[n] + axis.sizes[n + 1]
        BY <2>2, <3>1 DEF Table
      <3>3. g[n + 1] = g[n] + axis.sizes[n + 1]
        BY <2>3, <3>1 DEF Table
      <3> QED  BY <2>5, <3>1, <3>2, <3>3
    <2> HIDE DEF X
    <2>6. s - 1 \in X
      BY <2>1, <2>4, <2>5, SetInduction
    <2>7. f[s - 1] = g[s - 1]
      BY <2>1, <2>6 DEF X
    <2>8. f[s] = f[s - 1] + axis.sizes[s]
      <3>1. s \in 1 .. s
        BY <2>1
      <3> QED  BY <2>2, <3>1 DEF Table
    <2> QED  BY <2>2, <2>3, <2>7, <2>8
  <1> QED  BY <1>1, <1>3, <1>4, <1>5 DEF N, V

\* A splitter is at least as high as the upper end of the part below it.
LEMMA SplittersAscend ==
    ASSUME NEW axis, axis.sizes \in Seq(Nat), NEW s \in 1 .. Len(axis.sizes), NEW t \in s .. Len(axis.sizes)
    PROVE  SplitterValue(axis, s) <= SplitterValue(axis, t)
  <1> DEFINE N == Len(axis.sizes)
             V(n) == SplitterValue(axis, n)
             X == {n \in Nat : s + n <= N => V(s) <= V(s + n)}
  <1>1. N \in Nat /\ s \in Nat /\ s <= t /\ t <= N /\ t - s \in Nat
    OBVIOUS
  <1>2. \A n \in 0 .. N : V(n) \in Nat
    BY Splitters
  <1>3. \A n \in 1 .. N : axis.sizes[n] \in Nat /\ V(n) = V(n - 1) + axis.sizes[n]
    BY Splitters
  <1> HIDE DEF N, V
  <1>4. 0 \in X
    <2>1. s + 0 = s /\ s \in 0 .. N
      BY <1>1
    <2>2. V(s) \in Nat
      BY <1>2, <2>1
    <2> QED  BY <2>1, <2>2
  <1>5. ASSUME NEW n \in Nat, n \in X PROVE n + 1 \in X
    <2> SUFFICES ASSUME s + (n + 1) <= N PROVE V(s) <= V(s + (n + 1))
      OBVIOUS
    <2>1. s + n \in 0 .. N /\ s + (n + 1) \in 1 .. N /\ (s + (n + 1)) - 1 = s + n /\ s \in 0 .. N
      BY <1>1
    <2>2. V(s) <= V(s + n)
      BY <1>5, <2>1
    <2>3. axis.sizes[s + (n + 1)] \in Nat /\ V(s + (n + 1)) = V(s + n) + axis.sizes[s + (n + 1)]
      BY <1>3, <2>1
    <2>4. V(s) \in Nat /\ V(s + n) \in Nat
      BY <1>2, <2>1
    <2> QED  BY <2>2, <2>3, <2>4
  <1> HIDE DEF X
  <1>6. t - s \in X
    BY <1>1, <1>4, <1>5, SetInduction
  <1>7. s + (t - s) = t
    BY <1>1
  <1>8. V(s) <= V(t)
    BY <1>1, <1>6, <1>7 DEF X
  <1> QED  BY <1>8 DEF V

\* Every level is between two splitters.
LEMMA PartOf ==
    ASSUME NEW axis, axis.sizes \in Seq(Nat), NEW k \in Nat, k < SplitterValue(axis, Len(axis.sizes))
    PROVE  \E s \in 0 .. Len(axis.sizes) - 1 : SplitterValue(axis, s) <= k /\ k < SplitterValue(axis, s + 1)
  <1> DEFINE N == Len(axis.sizes)
             V(n) == SplitterValue(axis, n)
             Part(s) == s \in 0 .. N - 1 /\ V(s) <= k /\ k < V(s + 1)
             X == {n \in Nat : n <= N => (k < V(n) => \E s : Part(s))}
  <1>1. N \in Nat
    OBVIOUS
  <1>2. V(0) = 0 /\ \A n \in 0 .. N : V(n) \in Nat
    BY Splitters
  <1> HIDE DEF N, V
  <1>3. 0 \in X
    BY <1>2
  <1>4. ASSUME NEW n \in Nat, n \in X PROVE n + 1 \in X
    <2> SUFFICES ASSUME n + 1 <= N, k < V(n + 1) PROVE \E s : Part(s)
      OBVIOUS
    <2>1. n \in 0 .. N - 1 /\ n \in 0 .. N /\ n <= N
      BY <1>1
    <2>2. CASE k < V(n)
      BY <1>4, <2>1, <2>2
    <2>3. CASE V(n) <= k
      <3>1. Part(n)
        BY <2>1, <2>3
      <3> QED  BY <3>1
    <2>4. V(n) \in Nat
      BY <1>2, <2>1
    <2> QED  BY <2>2, <2>3, <2>4
  <1> HIDE DEF X
  <1>5. N \in X
    BY <1>1, <1>3, <1>4, SetInduction
  <1>6. \E s : Part(s)
    <2>1. k < V(N)
      BY DEF N, V
    <2> QED  BY <1>1, <1>5, <2>1 DEF X
  <1> QED  BY <1>6 DEF N, V

\* Where an interval is that has level k, between splitters s and s + 1.
Above(axis, i, k, s) ==
    \E o \in 1 .. axis.limit - 1 :
        i = Interval(<<s, o>>, <<s, o>>) /\ k = SplitterValue(axis, s) + o - 1

Below(axis, i, k, s) ==
    \E o \in 1 .. axis.limit - 1 :
        i = Interval(<<s + 1, - o>>, <<s + 1, - o>>) /\ k = SplitterValue(axis, s + 1) - o

Between(axis, i, k, s) ==
    /\ i = Interval(<<s, axis.limit>>, <<s + 1, - axis.limit>>)
    /\ SplitterValue(axis, s) + axis.limit - 1 <= k /\ k <= SplitterValue(axis, s + 1) - axis.limit

Place(axis, i, k, s) ==
    s \in 0 .. Len(axis.sizes) - 1 /\ (Above(axis, i, k, s) \/ Below(axis, i, k, s) \/ Between(axis, i, k, s))

LEMMA PieceLevels ==
    ASSUME NEW axis, NEW s, NEW o \in Int, NEW p, NEW u \in Int,
           SplitterValue(axis, s) \in Int, SplitterValue(axis, p) \in Int
    PROVE  LET i == Interval(<<s, o>>, <<p, u>>)
               lo == SplitterValue(axis, s) + (IF o > 0 THEN o - 1 ELSE o)
               hi == SplitterValue(axis, p) + (IF u > 0 THEN u - 1 ELSE u)
           IN KSize(axis, i) = 1 + hi - lo /\ LevelsIn(axis, i) = lo .. hi
  <1> DEFINE i == Interval(<<s, o>>, <<p, u>>)
             a == SplitterValue(axis, s)
             b == SplitterValue(axis, p)
             ro == RealOffset(o)
             ru == RealOffset(u)
  <1>1. KStart(axis, i) = a + ro /\ KSize(axis, i) = 1 + (b - a) + ru - ro
    BY DEF KStart, KSize, ValueAt, Interval
  <1>2. ro = (IF o > 0 THEN o - 1 ELSE o) /\ ru = (IF u > 0 THEN u - 1 ELSE u) /\ ro \in Int /\ ru \in Int
    BY DEF RealOffset
  <1>3. LevelsIn(axis, i) = KStart(axis, i) .. KStart(axis, i) + KSize(axis, i) - 1
    BY DEF LevelsIn
  <1>4. a \in Int /\ b \in Int
    OBVIOUS
  <1> HIDE DEF a, b, ro, ru
  <1>5. (a + ro) + (1 + (b - a) + ru - ro) - 1 = b + ru /\ 1 + (b - a) + ru - ro = 1 + (b + ru) - (a + ro)
    BY <1>2, <1>4
  <1>6. LevelsIn(axis, i) = a + ro .. b + ru /\ KSize(axis, i) = 1 + (b + ru) - (a + ro)
    BY <1>1, <1>3, <1>5
  <1> QED  BY <1>2, <1>6 DEF a, b

LEMMA PlaceOf ==
    ASSUME NEW axis, IsAxis(axis), NEW i, NEW k \in Int, NEW s, Place(axis, i, k, s)
    PROVE  i \in Intervals(axis) /\ k \in LevelsIn(axis, i)
  <1> DEFINE L == axis.limit
             N == Len(axis.sizes)
             V(n) == SplitterValue(axis, n)
  <1>1. /\ L \in Nat \ {0} /\ N \in Nat /\ s \in 0 .. N - 1 /\ s + 1 \in 0 .. N /\ s \in 0 .. N
        /\ s + 1 # 0 /\ (s + 1) - 1 = s /\ s # N
    BY DEF IsAxis, Place
  <1>2. V(s) \in Nat /\ V(s + 1) \in Nat
    BY <1>1, Splitters DEF IsAxis
  <1>3. \A q \in Names(axis) : q[2] # L => Ending(axis, q) \in Intervals(axis)
    BY IntervalsAre
  <1>4. \A p \in 0 .. N, o \in - L .. L :
            o # 0 /\ (p = 0 => o > 0) /\ (p = N => o < 0) => <<p, o>> \in Names(axis)
    BY <1>1 DEF Names, OffsetsOf
  <1>5. CASE Above(axis, i, k, s)
    <2>1. PICK o \in 1 .. L - 1 : i = Interval(<<s, o>>, <<s, o>>) /\ k = V(s) + o - 1
      BY <1>5 DEF Above
    <2>2. o \in - L .. L /\ o # 0 /\ o > 0 /\ o # L /\ o # - L
      BY <1>1
    <2>3. <<s, o>> \in Names(axis)
      BY <1>1, <1>4, <2>2
    <2>4. Ending(axis, <<s, o>>) = i
      BY <2>1, <2>2 DEF Ending
    <2>5. LevelsIn(axis, i) = V(s) + (o - 1) .. V(s) + (o - 1)
      BY <1>2, <2>1, <2>2, PieceLevels
    <2> HIDE DEF V, L
    <2>6. k = V(s) + (o - 1)
      BY <1>2, <2>1
    <2>7. k \in V(s) + (o - 1) .. V(s) + (o - 1)
      BY <2>6
    <2> QED  BY <1>3, <2>2, <2>3, <2>4, <2>5, <2>7
  <1>6. CASE Below(axis, i, k, s)
    <2>1. PICK o \in 1 .. L - 1 : i = Interval(<<s + 1, - o>>, <<s + 1, - o>>) /\ k = V(s + 1) - o
      BY <1>6 DEF Below
    <2>2. - o \in - L .. L /\ - o # 0 /\ - o < 0 /\ - o # L /\ - o # - L /\ - o \in Int /\ ~ (- o > 0)
      BY <1>1
    <2>3. <<s + 1, - o>> \in Names(axis)
      BY <1>1, <1>4, <2>2
    <2>4. Ending(axis, <<s + 1, - o>>) = i
      BY <2>1, <2>2 DEF Ending
    <2>5. LevelsIn(axis, i) = V(s + 1) + (- o) .. V(s + 1) + (- o)
      BY <1>2, <2>1, <2>2, PieceLevels
    <2> HIDE DEF V, L
    <2>6. k = V(s + 1) + (- o)
      BY <1>2, <2>1
    <2>7. k \in V(s + 1) + (- o) .. V(s + 1) + (- o)
      BY <2>6
    <2> QED  BY <1>3, <2>2, <2>3, <2>4, <2>5, <2>7
  <1>7. CASE Between(axis, i, k, s)
    <2>1. i = Interval(<<s, L>>, <<s + 1, - L>>) /\ V(s) + L - 1 <= k /\ k <= V(s + 1) - L
      BY <1>7 DEF Between
    <2>2. - L \in - L .. L /\ - L # 0 /\ - L < 0 /\ - L # L /\ L > 0 /\ ~ (- L > 0) /\ - L \in Int
      BY <1>1
    <2>3. <<s + 1, - L>> \in Names(axis)
      BY <1>1, <1>4, <2>2
    <2>4. Ending(axis, <<s + 1, - L>>) = i
      BY <1>1, <2>1 DEF Ending
    <2>5. LevelsIn(axis, i) = V(s) + (L - 1) .. V(s + 1) + (- L)
      BY <1>1, <1>2, <2>1, <2>2, PieceLevels
    <2> HIDE DEF V, L
    <2>6. k \in V(s) + (L - 1) .. V(s + 1) + (- L)
      BY <1>1, <1>2, <2>1
    <2> QED  BY <1>3, <2>2, <2>3, <2>4, <2>5, <2>6
  <1> QED  BY <1>5, <1>6, <1>7 DEF Place

\* Every interval is in one of the three places, and has no negative size.
LEMMA Places ==
    ASSUME NEW axis, IsAxis(axis), LargeEnough(axis), NEW i \in Intervals(axis)
    PROVE  /\ KSize(axis, i) \in Nat
           /\ \A k \in LevelsIn(axis, i) : \E s : Place(axis, i, k, s)
  <1> DEFINE L == axis.limit
             N == Len(axis.sizes)
             V(n) == SplitterValue(axis, n)
  <1>1. PICK q \in Names(axis) : q[2] # L /\ i = Ending(axis, q)
    BY IntervalsAre
  <1> DEFINE p == q[1]
             o == q[2]
  <1>2. /\ q = <<p, o>> /\ p \in 0 .. N /\ o \in - L .. L /\ o # 0 /\ o # L /\ o \in Int /\ p \in Nat
        /\ (p = 0 => o > 0) /\ (p = N => o < 0) /\ L \in Nat \ {0} /\ N \in Nat
    BY <1>1, NamesAreLevels DEF Names, OffsetsOf, IsAxis
  <1>3. V(p) \in Nat
    BY <1>2, Splitters DEF IsAxis
  <1>4. CASE o > 0
    <2>1. i = Interval(<<p, o>>, <<p, o>>)
      BY <1>1, <1>2, <1>4 DEF Ending
    <2>2. KSize(axis, i) = 1 + (V(p) + (o - 1)) - (V(p) + (o - 1)) /\ LevelsIn(axis, i) = V(p) + (o - 1) .. V(p) + (o - 1)
      BY <1>2, <1>3, <1>4, <2>1, PieceLevels
    <2>3. o \in 1 .. L - 1 /\ p \in 0 .. N - 1
      <3> HIDE DEF p, o, L, N
      <3> QED  BY <1>2, <1>4
    <2>4. KSize(axis, i) \in Nat
      <3> HIDE DEF V, p, o
      <3> QED  BY <1>2, <1>3, <2>2
    <2>5. ASSUME NEW k \in LevelsIn(axis, i) PROVE Place(axis, i, k, p)
      <3>1. k = V(p) + o - 1
        <4> HIDE DEF V, p, o
        <4> QED  BY <1>2, <1>3, <2>2, <2>5
      <3>2. Above(axis, i, k, p)
        BY <2>1, <2>3, <3>1 DEF Above
      <3> QED  BY <2>3, <3>2 DEF Place
    <2> QED  BY <2>4, <2>5
  <1>5. CASE o < 0 /\ o # - L
    <2>1. i = Interval(<<p, o>>, <<p, o>>)
      BY <1>1, <1>2, <1>5 DEF Ending
    <2>2. KSize(axis, i) = 1 + (V(p) + o) - (V(p) + o) /\ LevelsIn(axis, i) = V(p) + o .. V(p) + o
      BY <1>2, <1>3, <1>5, <2>1, PieceLevels
    <2>3. - o \in 1 .. L - 1 /\ p - 1 \in 0 .. N - 1 /\ - (- o) = o /\ (p - 1) + 1 = p
      <3> HIDE DEF p, o, L, N
      <3> QED  BY <1>2, <1>5
    <2>4. KSize(axis, i) \in Nat
      <3> HIDE DEF V, p, o
      <3> QED  BY <1>2, <1>3, <2>2
    <2>5. ASSUME NEW k \in LevelsIn(axis, i) PROVE Place(axis, i, k, p - 1)
      <3>1. k = V(p) - (- o)
        <4> HIDE DEF V, p, o
        <4> QED  BY <1>2, <1>3, <2>2, <2>5
      <3>2. Below(axis, i, k, p - 1)
        BY <2>1, <2>3, <3>1 DEF Below
      <3> QED  BY <2>3, <3>2 DEF Place
    <2> QED  BY <2>4, <2>5
  <1>6. CASE o = - L
    <2>1. i = Interval(<<p - 1, L>>, <<p, - L>>)
      BY <1>1, <1>2, <1>6 DEF Ending
    <2>2. p - 1 \in 0 .. N - 1 /\ p - 1 \in 0 .. N /\ p \in 1 .. N /\ (p - 1) + 1 = p
      <3> HIDE DEF p, o, L, N
      <3> QED  BY <1>2, <1>6
    <2>3. V(p - 1) \in Nat /\ V(p) = V(p - 1) + axis.sizes[p] /\ axis.sizes[p] \in Nat
      BY <2>2, Splitters DEF IsAxis
    <2>4. KSize(axis, i) = 1 + (V(p) + (- L)) - (V(p - 1) + (L - 1)) /\ LevelsIn(axis, i) = V(p - 1) + (L - 1) .. V(p) + (- L)
      <3>1. L > 0 /\ ~ (- L > 0) /\ - L \in Int /\ L \in Int
        BY <1>2
      <3> DEFINE a == p - 1
                 u == - L
      <3>2. i = Interval(<<a, L>>, <<p, u>>) /\ SplitterValue(axis, a) \in Int /\ SplitterValue(axis, p) \in Int
            /\ L \in Int /\ u \in Int /\ L > 0 /\ ~ (u > 0)
        BY <1>3, <2>1, <2>3, <3>1
      <3> HIDE DEF p, a, u, L
      <3>3. KSize(axis, i) = 1 + (V(p) + u) - (V(a) + (L - 1)) /\ LevelsIn(axis, i) = V(a) + (L - 1) .. V(p) + u
        BY <3>2, PieceLevels
      <3> QED  BY <3>3 DEF a, u
    <2>5. axis.sizes[p] >= 2 * (L - 1)
      <3>1. p \in DOMAIN axis.sizes
        BY <2>2 DEF IsAxis
      <3> QED  BY <3>1 DEF LargeEnough
    <2>6. KSize(axis, i) \in Nat
      <3> DEFINE z == axis.sizes[p]
                 a == V(p - 1)
                 b == V(p)
      <3>1. z \in Nat /\ a \in Nat /\ b = a + z /\ z >= 2 * (L - 1) /\ KSize(axis, i) = 1 + (b + (- L)) - (a + (L - 1))
        BY <2>3, <2>4, <2>5
      <3> HIDE DEF z, a, b, L
      <3> QED  BY <1>2, <3>1
    <2>7. ASSUME NEW k \in LevelsIn(axis, i) PROVE Place(axis, i, k, p - 1)
      <3>1. V(p - 1) + L - 1 <= k /\ k <= V(p) - L
        <4> HIDE DEF V, p, L
        <4> QED  BY <1>2, <1>3, <2>3, <2>4, <2>7
      <3>2. Between(axis, i, k, p - 1)
        BY <2>1, <2>2, <3>1 DEF Between
      <3> QED  BY <2>2, <3>2 DEF Place
    <2> QED  BY <2>6, <2>7
  <1> QED  BY <1>2, <1>4, <1>5, <1>6

\* Every level has a place.
LEMMA PlaceExists ==
    ASSUME NEW axis, IsAxis(axis), LargeEnough(axis), NEW k \in Nat, k < SplitterValue(axis, Len(axis.sizes))
    PROVE  \E i, s : Place(axis, i, k, s)
  <1> DEFINE L == axis.limit
             V(n) == SplitterValue(axis, n)
  <1>1. PICK s \in 0 .. Len(axis.sizes) - 1 : V(s) <= k /\ k < V(s + 1)
    BY PartOf DEF IsAxis
  <1>2. L \in Nat /\ L >= 1 /\ s \in Nat /\ s + 1 \in 0 .. Len(axis.sizes) /\ s \in 0 .. Len(axis.sizes)
    <2>1. Len(axis.sizes) \in Nat /\ L \in Nat \ {0}
      BY DEF IsAxis
    <2> QED  BY <2>1
  <1>3. V(s) \in Nat /\ V(s + 1) \in Nat
    BY <1>2, Splitters DEF IsAxis
  <1> DEFINE o == k - V(s) + 1
             u == V(s + 1) - k
  <1>4. o \in Int /\ u \in Int /\ o >= 1 /\ u >= 1 /\ k = V(s) + o - 1 /\ k = V(s + 1) - u
    BY <1>1, <1>3
  <1> HIDE DEF o, u
  <1>5. CASE o <= L - 1
    <2>1. o \in 1 .. L - 1
      BY <1>2, <1>4, <1>5
    <2>2. Above(axis, Interval(<<s, o>>, <<s, o>>), k, s)
      BY <1>4, <2>1 DEF Above
    <2> QED  BY <2>2 DEF Place
  <1>6. CASE u <= L - 1
    <2>1. u \in 1 .. L - 1
      BY <1>2, <1>4, <1>6
    <2>2. Below(axis, Interval(<<s + 1, - u>>, <<s + 1, - u>>), k, s)
      BY <1>4, <2>1 DEF Below
    <2> QED  BY <2>2 DEF Place
  <1>7. CASE o > L - 1 /\ u > L - 1
    <2>1. V(s) + L - 1 <= k /\ k <= V(s + 1) - L
      <3> HIDE DEF V, L
      <3> QED  BY <1>2, <1>3, <1>4, <1>7
    <2>2. Between(axis, Interval(<<s, L>>, <<s + 1, - L>>), k, s)
      BY <2>1 DEF Between
    <2> QED  BY <2>2 DEF Place
  <1> QED  BY <1>2, <1>4, <1>5, <1>6, <1>7

\* A place is between its splitters, each at its own distance from them.
LEMMA PlaceBounds ==
    ASSUME NEW axis, IsAxis(axis), LargeEnough(axis), NEW i, NEW k \in Int, NEW s, Place(axis, i, k, s)
    PROVE  /\ s \in Nat /\ s + 1 \in 1 .. Len(axis.sizes) /\ axis.limit \in Nat /\ axis.limit >= 1
           /\ SplitterValue(axis, s) \in Nat /\ SplitterValue(axis, s + 1) \in Nat
           /\ SplitterValue(axis, s + 1) - SplitterValue(axis, s) >= 2 * (axis.limit - 1)
           /\ SplitterValue(axis, s) <= k /\ k < SplitterValue(axis, s + 1)
           /\ Above(axis, i, k, s) => k - SplitterValue(axis, s) < axis.limit - 1
           /\ Below(axis, i, k, s) => SplitterValue(axis, s + 1) - k <= axis.limit - 1
           /\ Between(axis, i, k, s) => /\ k - SplitterValue(axis, s) >= axis.limit - 1
                                        /\ SplitterValue(axis, s + 1) - k > axis.limit - 1
  <1> DEFINE L == axis.limit
             a == SplitterValue(axis, s)
             b == SplitterValue(axis, s + 1)
             z == axis.sizes[s + 1]
  <1>1. /\ L \in Nat /\ L >= 1 /\ s \in Nat /\ s + 1 \in 1 .. Len(axis.sizes) /\ s \in 0 .. Len(axis.sizes)
        /\ s + 1 \in 0 .. Len(axis.sizes) /\ (s + 1) - 1 = s
    <2>1. Len(axis.sizes) \in Nat /\ L \in Nat \ {0} /\ s \in 0 .. Len(axis.sizes) - 1
      BY DEF IsAxis, Place
    <2> QED  BY <2>1
  <1>2. a \in Nat /\ b \in Nat /\ z \in Nat /\ b = a + z
    BY <1>1, Splitters DEF IsAxis
  <1>3. z >= 2 * (L - 1)
    <2>1. s + 1 \in DOMAIN axis.sizes
      BY <1>1 DEF IsAxis
    <2> QED  BY <2>1 DEF LargeEnough
  <1>4. ASSUME Above(axis, i, k, s) PROVE \E o \in 1 .. L - 1 : k = a + o - 1
    BY <1>4 DEF Above
  <1>5. ASSUME Below(axis, i, k, s) PROVE \E o \in 1 .. L - 1 : k = b - o
    BY <1>5 DEF Below
  <1>6. ASSUME Between(axis, i, k, s) PROVE a + L - 1 <= k /\ k <= b - L
    BY <1>6 DEF Between
  <1>7. Above(axis, i, k, s) \/ Below(axis, i, k, s) \/ Between(axis, i, k, s)
    BY DEF Place
  <1> HIDE DEF L, a, b, z
  <1>8. Above(axis, i, k, s) => k - a < L - 1 /\ a <= k /\ k < b
    BY <1>1, <1>2, <1>3, <1>4
  <1>9. Below(axis, i, k, s) => b - k <= L - 1 /\ a <= k /\ k < b
    BY <1>1, <1>2, <1>3, <1>5
  <1>10. Between(axis, i, k, s) => k - a >= L - 1 /\ b - k > L - 1 /\ a <= k /\ k < b
    BY <1>1, <1>2, <1>3, <1>6
  <1>11. b - a >= 2 * (L - 1)
    BY <1>1, <1>2, <1>3
  <1> QED  BY <1>1, <1>2, <1>7, <1>8, <1>9, <1>10, <1>11 DEF L, a, b, z

\* A level has one place only.
LEMMA PlacesAreOne ==
    ASSUME NEW axis, IsAxis(axis), LargeEnough(axis), NEW k \in Int,
           NEW i, NEW s, Place(axis, i, k, s), NEW j, NEW t, Place(axis, j, k, t)
    PROVE  i = j /\ s = t
  <1> DEFINE L == axis.limit
             V(n) == SplitterValue(axis, n)
  <1>1. /\ s \in Nat /\ s + 1 \in 1 .. Len(axis.sizes) /\ V(s) \in Nat /\ V(s + 1) \in Nat
        /\ V(s) <= k /\ k < V(s + 1) /\ V(s + 1) - V(s) >= 2 * (L - 1)
        /\ t \in Nat /\ t + 1 \in 1 .. Len(axis.sizes) /\ V(t) \in Nat /\ V(t + 1) \in Nat
        /\ V(t) <= k /\ k < V(t + 1)
        /\ L \in Nat /\ L >= 1
    BY PlaceBounds
  <1>2. s = t
    <2>1. CASE s < t
      <3>1. t \in s + 1 .. Len(axis.sizes)
        BY <1>1, <2>1
      <3>2. V(s + 1) <= V(t)
        BY <1>1, <3>1, SplittersAscend DEF IsAxis
      <3> HIDE DEF V
      <3> QED  BY <1>1, <3>2
    <2>2. CASE t < s
      <3>1. s \in t + 1 .. Len(axis.sizes)
        BY <1>1, <2>2
      <3>2. V(t + 1) <= V(s)
        BY <1>1, <3>1, SplittersAscend DEF IsAxis
      <3> HIDE DEF V
      <3> QED  BY <1>1, <3>2
    <2> QED  BY <1>1, <2>1, <2>2
  <1>3. /\ Above(axis, i, k, s) => k - V(s) < L - 1
        /\ Below(axis, i, k, s) => V(s + 1) - k <= L - 1
        /\ Between(axis, i, k, s) => k - V(s) >= L - 1 /\ V(s + 1) - k > L - 1
        /\ Above(axis, j, k, s) => k - V(s) < L - 1
        /\ Below(axis, j, k, s) => V(s + 1) - k <= L - 1
        /\ Between(axis, j, k, s) => k - V(s) >= L - 1 /\ V(s + 1) - k > L - 1
    BY <1>2, PlaceBounds
  <1>4. /\ Above(axis, i, k, s) \/ Below(axis, i, k, s) \/ Between(axis, i, k, s)
        /\ Above(axis, j, k, s) \/ Below(axis, j, k, s) \/ Between(axis, j, k, s)
    BY <1>2 DEF Place
  <1>5. ASSUME Above(axis, i, k, s), Above(axis, j, k, s) PROVE i = j
    <2>1. PICK o \in 1 .. L - 1 : i = Interval(<<s, o>>, <<s, o>>) /\ k = V(s) + o - 1
      BY <1>5 DEF Above
    <2>2. PICK u \in 1 .. L - 1 : j = Interval(<<s, u>>, <<s, u>>) /\ k = V(s) + u - 1
      BY <1>5 DEF Above
    <2> HIDE DEF V, L
    <2>3. o = u
      BY <1>1, <2>1, <2>2
    <2> QED  BY <2>1, <2>2, <2>3
  <1>6. ASSUME Below(axis, i, k, s), Below(axis, j, k, s) PROVE i = j
    <2>1. PICK o \in 1 .. L - 1 : i = Interval(<<s + 1, - o>>, <<s + 1, - o>>) /\ k = V(s + 1) - o
      BY <1>6 DEF Below
    <2>2. PICK u \in 1 .. L - 1 : j = Interval(<<s + 1, - u>>, <<s + 1, - u>>) /\ k = V(s + 1) - u
      BY <1>6 DEF Below
    <2> HIDE DEF V, L
    <2>3. o = u
      BY <1>1, <2>1, <2>2
    <2> QED  BY <2>1, <2>2, <2>3
  <1>7. ASSUME Between(axis, i, k, s), Between(axis, j, k, s) PROVE i = j
    BY <1>7 DEF Between
  <1> DEFINE d == k - V(s)
             e == V(s + 1) - k
  <1>8. d \in Int /\ e \in Int /\ d + e >= 2 * (L - 1)
    <2> HIDE DEF V, L
    <2> QED  BY <1>1
  <1> HIDE DEF d, e
  <1>9. /\ Above(axis, i, k, s) => d < L - 1
        /\ Below(axis, i, k, s) => e <= L - 1
        /\ Between(axis, i, k, s) => d >= L - 1 /\ e > L - 1
        /\ Above(axis, j, k, s) => d < L - 1
        /\ Below(axis, j, k, s) => e <= L - 1
        /\ Between(axis, j, k, s) => d >= L - 1 /\ e > L - 1
    BY <1>3 DEF d, e
  <1> HIDE DEF V, L
  <1> QED  BY <1>1, <1>2, <1>4, <1>5, <1>6, <1>7, <1>8, <1>9

LEMMA KSizeIs ==
    ASSUME NEW axis, IsAxis(axis)
    PROVE  /\ KSizeOf(axis) = SplitterValue(axis, Len(axis.sizes)) /\ KSizeOf(axis) \in Nat
           /\ LevelsIn(axis, FullInterval(axis)) = 0 .. KSizeOf(axis) - 1
  <1> DEFINE N == Len(axis.sizes)
             b == SplitterValue(axis, N)
             i == FullInterval(axis)
  <1>1. N \in 0 .. N /\ 0 \in 0 .. N
    BY DEF IsAxis
  <1>2. b \in Nat /\ SplitterValue(axis, 0) = 0
    BY <1>1, Splitters DEF IsAxis
  <1>3. i = Interval(<<0, 1>>, <<N, -1>>)
    BY DEF FullInterval
  <1> HIDE DEF N, i
  <1>4. KSize(axis, i) = 1 + (b + (-1)) - (0 + (1 - 1)) /\ LevelsIn(axis, i) = 0 + (1 - 1) .. b + (-1)
    <2>1. 1 > 0 /\ ~ (-1 > 0) /\ 1 \in Int /\ -1 \in Int /\ SplitterValue(axis, 0) \in Int /\ b \in Int
      BY <1>2
    <2> DEFINE u == -1
    <2>2. u \in Int /\ ~ (u > 0) /\ i = Interval(<<0, 1>>, <<N, u>>)
      BY <1>3
    <2> HIDE DEF u
    <2>3. KSize(axis, i) = 1 + (b + u) - (SplitterValue(axis, 0) + (1 - 1)) /\ LevelsIn(axis, i) = SplitterValue(axis, 0) + (1 - 1) .. b + u
      BY <2>1, <2>2, PieceLevels
    <2> QED  BY <1>2, <2>3 DEF u
  <1> HIDE DEF b
  <1>5. 1 + (b + (-1)) - (0 + (1 - 1)) = b /\ b + (-1) = b - 1 /\ 0 + (1 - 1) = 0
    BY <1>2
  <1> QED  BY <1>2, <1>4, <1>5 DEF KSizeOf, b, N, i

(* An axis with one name for each level is covered by its intervals: none   *)
(* has a negative size, and every level is in exactly one of them.           *)
THEOREM AxesAreTiled ==
    ASSUME NEW axis, IsAxis(axis), LargeEnough(axis)
    PROVE  Tiled(axis)
  <1>1. ASSUME NEW i \in Intervals(axis) PROVE KSize(axis, i) >= 0
    <2>1. KSize(axis, i) \in Nat
      BY Places
    <2> QED  BY <2>1
  <1>2. ASSUME NEW k \in LevelsIn(axis, FullInterval(axis))
        PROVE  \E i \in Intervals(axis) : /\ k \in LevelsIn(axis, i)
                                          /\ \A j \in Intervals(axis) : k \in LevelsIn(axis, j) => j = i
    <2>1. k \in Nat /\ k < SplitterValue(axis, Len(axis.sizes)) /\ k \in Int
      BY KSizeIs
    <2>2. PICK i, s : Place(axis, i, k, s)
      BY <2>1, PlaceExists
    <2>3. i \in Intervals(axis) /\ k \in LevelsIn(axis, i)
      BY <2>1, <2>2, PlaceOf
    <2>4. ASSUME NEW j \in Intervals(axis), k \in LevelsIn(axis, j) PROVE j = i
      <3>1. PICK t : Place(axis, j, k, t)
        BY <2>4, Places
      <3> QED  BY <2>1, <2>2, <3>1, PlacesAreOne
    <2> QED  BY <2>3, <2>4
  <1> QED  BY <1>1, <1>2 DEF Tiled

\* The interval that serves a level is in the level's place.
LEMMA IntervalAtFacts ==
    ASSUME NEW axis, IsAxis(axis), LargeEnough(axis), NEW k \in 0 .. KSizeOf(axis) - 1
    PROVE  \E s : Place(axis, IntervalAt(axis, k), k, s)
  <1>1. k \in Nat /\ k \in Int /\ k < SplitterValue(axis, Len(axis.sizes))
    BY KSizeIs
  <1>2. \E i \in Intervals(axis) : k \in LevelsIn(axis, i)
    BY <1>1, PlaceExists, PlaceOf
  <1>3. IntervalAt(axis, k) \in Intervals(axis) /\ k \in LevelsIn(axis, IntervalAt(axis, k))
    BY <1>2 DEF IntervalAt
  <1> QED  BY <1>3, Places

\* A splitter with something below it is as high as the limit allows.
LEMMA SplitterHeights ==
    ASSUME NEW axis, IsAxis(axis), LargeEnough(axis), axis.limit >= 2
    PROVE  /\ \A s \in 0 .. Len(axis.sizes) :
                 s > 0 => SplitterValue(axis, s) >= 2 * (axis.limit - 1)
           /\ \A s \in 0 .. Len(axis.sizes) :
                 s < Len(axis.sizes) => KSizeOf(axis) - SplitterValue(axis, s) >= 2 * (axis.limit - 1)
  <1> DEFINE N == Len(axis.sizes)
             L == axis.limit
             V(n) == SplitterValue(axis, n)
  <1>1. N \in Nat /\ L \in Nat /\ KSizeOf(axis) = V(N) /\ V(N) \in Nat
    BY KSizeIs DEF IsAxis
  <1>2. ASSUME NEW s \in 1 .. N PROVE V(s) \in Nat /\ V(s - 1) \in Nat /\ V(s) - V(s - 1) >= 2 * (L - 1)
    <2>1. s \in DOMAIN axis.sizes /\ s \in 0 .. N /\ s - 1 \in 0 .. N
      BY DEF IsAxis
    <2>2. V(s) \in Nat /\ V(s - 1) \in Nat /\ V(s) = V(s - 1) + axis.sizes[s] /\ axis.sizes[s] \in Nat
      BY <2>1, Splitters DEF IsAxis
    <2>3. axis.sizes[s] >= 2 * (L - 1)
      BY <2>1 DEF LargeEnough
    <2> HIDE DEF V
    <2> QED  BY <2>2, <2>3
  <1>3. ASSUME NEW s \in 0 .. N, s > 0 PROVE V(s) >= 2 * (L - 1)
    <2>1. s \in 1 .. N
      BY <1>3
    <2>2. V(s) \in Nat /\ V(s - 1) \in Nat /\ V(s) - V(s - 1) >= 2 * (L - 1)
      BY <1>2, <2>1
    <2> HIDE DEF V
    <2> QED  BY <1>1, <2>2
  <1>4. ASSUME NEW s \in 0 .. N, s < N PROVE V(N) - V(s) >= 2 * (L - 1)
    <2>1. s + 1 \in 1 .. N /\ N \in s + 1 .. N /\ (s + 1) - 1 = s
      BY <1>1, <1>4
    <2>2. V(s + 1) \in Nat /\ V(s) \in Nat /\ V(s + 1) - V(s) >= 2 * (L - 1)
      BY <1>2, <2>1
    <2>3. V(s + 1) <= V(N)
      BY <2>1, SplittersAscend DEF IsAxis
    <2> HIDE DEF V
    <2> QED  BY <1>1, <2>2, <2>3
  <1> QED  BY <1>1, <1>3, <1>4

\* The first and the last level of a column.
LEMMA ColumnEnds ==
    ASSUME NEW axis, IsAxis(axis), LargeEnough(axis), KSizeOf(axis) > 0
    PROVE  /\ \E s \in 0 .. Len(axis.sizes) : /\ SplitterValue(axis, s) = 0
                                               /\ IntervalAt(axis, 0).first = <<s, 1>>
           /\ \E s \in 0 .. Len(axis.sizes) : /\ SplitterValue(axis, s) = KSizeOf(axis)
                                               /\ IntervalAt(axis, KSizeOf(axis) - 1).last = <<s, -1>>
  <1> DEFINE H == KSizeOf(axis)
             N == Len(axis.sizes)
             L == axis.limit
  <1>1. H \in Nat /\ H = SplitterValue(axis, N) /\ N \in Nat
    BY KSizeIs DEF IsAxis
  <1>2. 0 \in 0 .. H - 1 /\ H - 1 \in 0 .. H - 1 /\ 0 \in Int /\ H - 1 \in Int
    BY <1>1
  <1>3. \E s \in 0 .. N : SplitterValue(axis, s) = 0 /\ IntervalAt(axis, 0).first = <<s, 1>>
    <2> DEFINE i == IntervalAt(axis, 0)
    <2>1. PICK s : Place(axis, i, 0, s)
      BY <1>2, IntervalAtFacts
    <2> DEFINE a == SplitterValue(axis, s)
               b == SplitterValue(axis, s + 1)
    <2>2. /\ s \in Nat /\ s + 1 \in 1 .. N /\ L \in Nat /\ L >= 1 /\ a \in Nat /\ b \in Nat /\ b - a >= 2 * (L - 1)
          /\ a <= 0 /\ 0 < b
          /\ Below(axis, i, 0, s) => b - 0 <= L - 1
          /\ Between(axis, i, 0, s) => 0 - a >= L - 1
      BY <1>2, <2>1, PlaceBounds
    <2>3. Above(axis, i, 0, s) \/ Below(axis, i, 0, s) \/ Between(axis, i, 0, s)
      BY <2>1 DEF Place
    <2>4. ASSUME Above(axis, i, 0, s) PROVE i.first = <<s, 1>>
      <3>1. PICK o \in 1 .. L - 1 : i = Interval(<<s, o>>, <<s, o>>) /\ 0 = a + o - 1
        BY <2>4 DEF Above
      <3>2. i.first = <<s, o>>
        BY <3>1 DEF Interval
      <3> HIDE DEF a, b, L, i
      <3>3. o = 1
        BY <2>2, <3>1
      <3> QED  BY <3>2, <3>3
    <2>5. ASSUME Between(axis, i, 0, s) PROVE i.first = <<s, 1>>
      <3>1. i.first = <<s, L>>
        BY <2>5 DEF Between, Interval
      <3>2. 0 - a >= L - 1
        BY <2>2, <2>5
      <3> HIDE DEF a, b, L, i
      <3>3. L = 1
        BY <2>2, <3>2
      <3> QED  BY <3>1, <3>3
    <2> HIDE DEF a, b, L, i
    <2>6. ~ Below(axis, i, 0, s)
      BY <2>2
    <2>7. a = 0 /\ s \in 0 .. N
      BY <1>1, <2>2
    <2> QED  BY <2>3, <2>4, <2>5, <2>6, <2>7 DEF a, i
  <1>4. \E s \in 0 .. N : SplitterValue(axis, s) = H /\ IntervalAt(axis, H - 1).last = <<s, -1>>
    <2> DEFINE k == H - 1
               i == IntervalAt(axis, k)
    <2>1. PICK s : Place(axis, i, k, s)
      BY <1>2, IntervalAtFacts
    <2> DEFINE a == SplitterValue(axis, s)
               b == SplitterValue(axis, s + 1)
    <2>2. /\ s \in Nat /\ s + 1 \in 1 .. N /\ L \in Nat /\ L >= 1 /\ a \in Nat /\ b \in Nat /\ b - a >= 2 * (L - 1)
          /\ a <= k /\ k < b
          /\ Above(axis, i, k, s) => k - a < L - 1
          /\ Between(axis, i, k, s) => b - k > L - 1
      BY <1>2, <2>1, PlaceBounds
    <2>3. Above(axis, i, k, s) \/ Below(axis, i, k, s) \/ Between(axis, i, k, s)
      BY <2>1 DEF Place
    <2>4. b <= H
      <3>1. N \in s + 1 .. N
        BY <1>1, <2>2
      <3> QED  BY <1>1, <2>2, <3>1, SplittersAscend DEF IsAxis
    <2>5. b = H
      <3> HIDE DEF a, b, L, H, i
      <3> QED  BY <1>1, <2>2, <2>4
    <2>6. ASSUME Below(axis, i, k, s) PROVE i.last = <<s + 1, -1>>
      <3>1. PICK o \in 1 .. L - 1 : i = Interval(<<s + 1, - o>>, <<s + 1, - o>>) /\ k = b - o
        BY <2>6 DEF Below
      <3>2. i.last = <<s + 1, - o>>
        BY <3>1 DEF Interval
      <3> HIDE DEF a, b, L, H, i
      <3>3. o = 1
        BY <1>1, <2>2, <2>5, <3>1
      <3> QED  BY <3>2, <3>3
    <2>7. ASSUME Between(axis, i, k, s) PROVE i.last = <<s + 1, -1>>
      <3>1. i.last = <<s + 1, - L>>
        BY <2>7 DEF Between, Interval
      <3>2. b - k > L - 1
        BY <2>2, <2>7
      <3> HIDE DEF a, b, L, H, i
      <3>3. L = 1
        BY <1>1, <2>2, <2>5, <3>2
      <3> QED  BY <3>1, <3>3
    <2>8. ~ Above(axis, i, k, s)
      <3> HIDE DEF a, b, L, H, i
      <3> QED  BY <1>1, <2>2, <2>5
    <2>9. s + 1 \in 0 .. N
      BY <1>1, <2>2
    <2> HIDE DEF a, L, H, i
    <2> QED  BY <2>3, <2>5, <2>6, <2>7, <2>8, <2>9 DEF i
  <1> QED  BY <1>3, <1>4

\* Near the start of a column, where a window reaches over it, the lower bound is checked.
LEMMA StartIsChecked ==
    ASSUME NEW axis, IsAxis(axis), LargeEnough(axis), NEW k \in 0 .. KSizeOf(axis) - 1,
           NEW d \in Int, d <= axis.limit - 1, k < d
    PROVE  LevelsAreClose(IntervalAt(axis, 0).first, IntervalAt(axis, k).last, d)
  <1> DEFINE H == KSizeOf(axis)
             N == Len(axis.sizes)
             L == axis.limit
             V(n) == SplitterValue(axis, n)
             i == IntervalAt(axis, k)
  <1>1. H \in Nat /\ L \in Nat /\ N \in Nat /\ k \in Nat /\ k \in Int /\ L >= 2 /\ H > 0
    BY KSizeIs DEF IsAxis
  <1>2. \A s \in 0 .. N : V(s) \in Nat /\ (s > 0 => V(s) >= 2 * (L - 1))
    BY <1>1, SplitterHeights, Splitters DEF IsAxis
  <1>3. PICK s : Place(axis, i, k, s)
    BY IntervalAtFacts
  <1>4. PICK s0 \in 0 .. N : V(s0) = 0 /\ IntervalAt(axis, 0).first = <<s0, 1>>
    BY <1>1, ColumnEnds
  <1>5. /\ s \in Nat /\ s + 1 \in 1 .. N /\ V(s) \in Nat /\ V(s + 1) \in Nat
        /\ V(s + 1) - V(s) >= 2 * (L - 1) /\ V(s) <= k
        /\ Below(axis, i, k, s) => V(s + 1) - k <= L - 1
        /\ Between(axis, i, k, s) => k - V(s) >= L - 1
    BY <1>1, <1>3, PlaceBounds
  <1>6. Above(axis, i, k, s) \/ Below(axis, i, k, s) \/ Between(axis, i, k, s)
    BY <1>3 DEF Place
  <1>7. V(0) = 0
    BY Splitters DEF IsAxis
  <1>8. s \in 0 .. N /\ k < L - 1
    BY <1>1, <1>5
  <1>9. s = 0 /\ s0 = 0
    <2>1. s > 0 => V(s) >= 2 * (L - 1)
      BY <1>2, <1>8
    <2>2. s0 > 0 => V(s0) >= 2 * (L - 1)
      BY <1>2
    <2> HIDE DEF V, H, N, L
    <2> QED  BY <1>1, <1>4, <1>5, <1>8, <2>1, <2>2
  <1>10. Above(axis, i, k, 0)
    <2>1. V(s) = 0
      BY <1>7, <1>9
    <2>2. Above(axis, i, k, s)
      <3> HIDE DEF V, H, N, L, i
      <3> QED  BY <1>1, <1>5, <1>6, <1>8, <2>1
    <2> QED  BY <1>9, <2>2
  <1>11. PICK o \in 1 .. L - 1 : i = Interval(<<0, o>>, <<0, o>>) /\ k = V(0) + o - 1
    BY <1>10 DEF Above
  <1>12. i.last = <<0, o>> /\ o > 0 /\ o \in Int /\ k = o - 1
    BY <1>7, <1>11 DEF Interval
  <1>13. RealOffset(o) = o - 1 /\ RealOffset(1) = 0
    BY <1>12 DEF RealOffset
  <1> HIDE DEF V, H, N, L, i
  <1>14. LevelsAreClose(<<0, 1>>, <<0, o>>, d)
    BY <1>12, <1>13 DEF LevelsAreClose
  <1>15. IntervalAt(axis, 0).first = <<0, 1>>
    BY <1>4, <1>9
  <1> QED  BY <1>12, <1>14, <1>15 DEF i

\* Near the end of a column, where a window reaches over it, the upper bound is checked.
LEMMA EndIsChecked ==
    ASSUME NEW axis, IsAxis(axis), LargeEnough(axis), NEW k \in 0 .. KSizeOf(axis) - 1,
           NEW d \in Int, d <= axis.limit - 1, k + d >= KSizeOf(axis), NEW c
    PROVE  /\ LevelsAreClose(IntervalAt(axis, k).first, IntervalAt(axis, KSizeOf(axis) - 1).last, d)
           /\ ~ LevelsAreClose(IntervalAt(axis, 0).first, IntervalAt(axis, k).last, c)
  <1> DEFINE H == KSizeOf(axis)
             N == Len(axis.sizes)
             L == axis.limit
             V(n) == SplitterValue(axis, n)
             i == IntervalAt(axis, k)
  <1>1. /\ H \in Nat /\ L \in Nat /\ N \in Nat /\ k \in Nat /\ k \in Int /\ L >= 2 /\ H > 0
        /\ H = V(N) /\ H - k >= 1 /\ H - k <= L - 1
    BY KSizeIs DEF IsAxis
  <1>2. \A s \in 0 .. N : /\ V(s) \in Nat
                          /\ s > 0 => V(s) >= 2 * (L - 1)
                          /\ s < N => H - V(s) >= 2 * (L - 1)
    BY <1>1, SplitterHeights, Splitters DEF IsAxis
  <1>3. PICK s : Place(axis, i, k, s)
    BY IntervalAtFacts
  <1>4. PICK s0 \in 0 .. N : V(s0) = 0 /\ IntervalAt(axis, 0).first = <<s0, 1>>
    BY <1>1, ColumnEnds
  <1>5. PICK s1 \in 0 .. N : V(s1) = H /\ IntervalAt(axis, H - 1).last = <<s1, -1>>
    BY <1>1, ColumnEnds
  <1>6. /\ s \in Nat /\ s + 1 \in 1 .. N /\ V(s) \in Nat /\ V(s + 1) \in Nat
        /\ V(s + 1) - V(s) >= 2 * (L - 1) /\ k < V(s + 1)
        /\ Above(axis, i, k, s) => k - V(s) < L - 1
        /\ Between(axis, i, k, s) => V(s + 1) - k > L - 1
    BY <1>1, <1>3, PlaceBounds
  <1>7. Above(axis, i, k, s) \/ Below(axis, i, k, s) \/ Between(axis, i, k, s)
    BY <1>3 DEF Place
  <1>8. s + 1 = N /\ s0 = 0 /\ s1 = N
    <2>1. s0 > 0 => V(s0) >= 2 * (L - 1)
      BY <1>2
    <2>2. s1 < N => H - V(s1) >= 2 * (L - 1)
      BY <1>2
    <2>3. s + 1 \in 0 .. N /\ (s + 1 < N => H - V(s + 1) >= 2 * (L - 1))
      BY <1>2, <1>6
    <2> HIDE DEF V, H, N, L
    <2> QED  BY <1>1, <1>4, <1>5, <1>6, <2>1, <2>2, <2>3
  <1>9. Below(axis, i, k, s) /\ V(s + 1) = H
    <2>1. V(s + 1) = H
      BY <1>1, <1>8
    <2> HIDE DEF V, H, N, L, i
    <2> QED  BY <1>1, <1>6, <1>7, <2>1
  <1>10. PICK o \in 1 .. L - 1 : i = Interval(<<s + 1, - o>>, <<s + 1, - o>>) /\ k = V(s + 1) - o
    BY <1>9 DEF Below
  <1>11. /\ i.first = <<N, - o>> /\ i.last = <<N, - o>> /\ o \in Int /\ ~ (- o > 0)
         /\ ~ (-1 > 0) /\ k = H - o /\ N # 0
    BY <1>6, <1>8, <1>9, <1>10 DEF Interval
  <1>12. RealOffset(- o) = - o /\ RealOffset(-1) = -1
    BY <1>11 DEF RealOffset
  <1>13. IntervalAt(axis, 0).first = <<0, 1>> /\ IntervalAt(axis, H - 1).last = <<N, -1>>
    BY <1>4, <1>5, <1>8
  <1> HIDE DEF V, H, N, L, i
  <1>14. -1 - (- o) < d
    BY <1>1, <1>11 DEF H
  <1>15. LevelsAreClose(<<N, - o>>, <<N, -1>>, d)
    BY <1>12, <1>14 DEF LevelsAreClose
  <1>16. ~ LevelsAreClose(<<0, 1>>, <<N, - o>>, c)
    BY <1>11 DEF LevelsAreClose
  <1> QED  BY <1>11, <1>13, <1>15, <1>16 DEF i, H

LEMMA ColumnBounds ==
    ASSUME NEW H \in Nat \ {0}
    PROVE  Min(0 .. H - 1) = 0 /\ Max(0 .. H - 1) = H - 1
  <1>1. IsFiniteSet(0 .. H - 1)
    <2>1. 0 \in Int /\ H - 1 \in Int
      OBVIOUS
    <2> QED  BY <2>1, FS_Interval
  <1>2. 0 .. H - 1 \in SUBSET Int /\ 0 .. H - 1 # {} /\ 0 \in 0 .. H - 1 /\ H - 1 \in 0 .. H - 1
    OBVIOUS
  <1>3. /\ Min(0 .. H - 1) \in 0 .. H - 1 /\ Min(0 .. H - 1) <= 0
        /\ Max(0 .. H - 1) \in 0 .. H - 1 /\ Max(0 .. H - 1) >= H - 1
    BY <1>1, <1>2, FiniteBounds
  <1> DEFINE a == Min(0 .. H - 1)
             b == Max(0 .. H - 1)
  <1>4. a \in 0 .. H - 1 /\ a <= 0 /\ b \in 0 .. H - 1 /\ b >= H - 1
    BY <1>3
  <1> HIDE DEF a, b
  <1>5. a = 0 /\ b = H - 1
    BY <1>4
  <1> QED  BY <1>5 DEF a, b

\* What is above and below the levels that are not checked is within the limit.
LEMMA InnerLevels ==
    ASSUME NEW axis, IsAxis(axis), LargeEnough(axis), KSizeOf(axis) > 0,
           NEW levels, levels = 0 .. KSizeOf(axis) - 1
    PROVE  /\ KStart(axis, InnerInterval(axis, levels)) = axis.limit - 1
           /\ KStart(axis, InnerInterval(axis, levels)) + KSize(axis, InnerInterval(axis, levels))
                  = KSizeOf(axis) - axis.limit + 1
  <1> DEFINE H == KSizeOf(axis)
             L == axis.limit
             inner == InnerInterval(axis, levels)
  <1>1. H \in Nat \ {0} /\ L \in Nat \ {0}
    BY KSizeIs DEF IsAxis
  <1>2. Min(levels) = 0 /\ Max(levels) = H - 1
    BY <1>1, ColumnBounds
  <1>3. PICK s \in 0 .. Len(axis.sizes) : SplitterValue(axis, s) = 0 /\ IntervalAt(axis, 0).first = <<s, 1>>
    BY ColumnEnds
  <1>4. PICK t \in 0 .. Len(axis.sizes) : SplitterValue(axis, t) = H /\ IntervalAt(axis, H - 1).last = <<t, -1>>
    BY ColumnEnds
  <1>5. inner = Interval(<<s, L>>, <<t, - L>>)
    BY <1>2, <1>3, <1>4 DEF InnerInterval
  <1>6. /\ L \in Int /\ - L \in Int /\ SplitterValue(axis, s) \in Int /\ SplitterValue(axis, t) \in Int
        /\ L > 0 /\ ~ (- L > 0)
    BY <1>1, <1>3, <1>4
  <1> HIDE DEF H, L, inner
  <1>7. KSize(axis, inner) = 1 + (SplitterValue(axis, t) + (- L)) - (SplitterValue(axis, s) + (L - 1))
    BY <1>5, <1>6, PieceLevels
  <1>8. KStart(axis, inner) = SplitterValue(axis, s) + (L - 1)
    BY <1>5, <1>6 DEF KStart, ValueAt, RealOffset, Interval
  <1>9. KStart(axis, inner) = L - 1 /\ KStart(axis, inner) + KSize(axis, inner) = H - L + 1
    BY <1>1, <1>3, <1>4, <1>7, <1>8
  <1> QED  BY <1>9 DEF H, L, inner

\* A level that is an interval of its own shares it with no other one.
LEMMA SinglesAreLevels ==
    ASSUME NEW axis, IsAxis(axis), LargeEnough(axis), NEW a \in 0 .. KSizeOf(axis) - 1, NEW b \in 0 .. KSizeOf(axis) - 1,
           IntervalAt(axis, a) = IntervalAt(axis, b), IntervalAt(axis, a).first = IntervalAt(axis, a).last
    PROVE  a = b /\ axis.limit >= 2 /\ KSizeOf(axis) >= 2 * (axis.limit - 1)
  <1> DEFINE L == axis.limit
             i == IntervalAt(axis, a)
             V(n) == SplitterValue(axis, n)
  <1>1. PICK s : Place(axis, i, a, s)
    BY IntervalAtFacts
  <1>2. PICK t : Place(axis, i, b, t)
    BY IntervalAtFacts
  <1>3. L \in Nat /\ Len(axis.sizes) \in Nat /\ s \in Nat /\ t \in Nat /\ s < Len(axis.sizes)
    BY <1>1, <1>2 DEF IsAxis, Place
  <1>4. ASSUME NEW k, NEW p, Place(axis, i, k, p), p \in Nat
        PROVE  Above(axis, i, k, p) \/ Below(axis, i, k, p)
    <2>1. p # p + 1
      BY <1>4
    <2>2. Between(axis, i, k, p) => i.first = <<p, L>> /\ i.last = <<p + 1, - L>>
      BY DEF Between, Interval
    <2>3. ~ Between(axis, i, k, p)
      BY <2>1, <2>2
    <2> QED  BY <1>4, <2>3 DEF Place
  <1>5. ASSUME NEW k, NEW p, p \in Nat, Place(axis, i, k, p)
        PROVE  \E q \in Nat : \E o \in Int :
                   i.first = <<q, o>> /\ k = V(q) + (IF o > 0 THEN o - 1 ELSE o) /\ L >= 2
    <2>1. CASE Above(axis, i, k, p)
      <3>1. PICK o \in 1 .. L - 1 : i = Interval(<<p, o>>, <<p, o>>) /\ k = V(p) + o - 1
        BY <2>1 DEF Above
      <3>2. p \in Nat /\ o \in Int /\ o > 0 /\ L >= 2 /\ V(p) + o - 1 = V(p) + (o - 1)
        <4>1. V(p) \in Nat
          BY <1>5, Splitters DEF IsAxis, Place
        <4> HIDE DEF V, L
        <4> QED  BY <1>3, <1>5, <4>1
      <3>3. i.first = <<p, o>>
        BY <3>1 DEF Interval
      <3> HIDE DEF V, L, i
      <3> QED  BY <3>1, <3>2, <3>3
    <2>2. CASE Below(axis, i, k, p)
      <3>1. PICK o \in 1 .. L - 1 : i = Interval(<<p + 1, - o>>, <<p + 1, - o>>) /\ k = V(p + 1) - o
        BY <2>2 DEF Below
      <3>2. p + 1 \in Nat /\ - o \in Int /\ ~ (- o > 0) /\ L >= 2 /\ V(p + 1) - o = V(p + 1) + (- o)
        <4>1. p + 1 \in 0 .. Len(axis.sizes)
          BY <1>5 DEF IsAxis, Place
        <4>2. V(p + 1) \in Nat
          BY <4>1, Splitters DEF IsAxis
        <4> HIDE DEF V, L
        <4> QED  BY <1>3, <1>5, <4>2
      <3>3. i.first = <<p + 1, - o>>
        BY <3>1 DEF Interval
      <3> HIDE DEF V, L, i
      <3> QED  BY <3>1, <3>2, <3>3
    <2> QED  BY <1>4, <1>5, <2>1, <2>2
  <1>6. a = b /\ L >= 2
    <2>1. PICK q \in Nat, o \in Int : i.first = <<q, o>> /\ a = V(q) + (IF o > 0 THEN o - 1 ELSE o) /\ L >= 2
      BY <1>1, <1>3, <1>5
    <2>2. PICK r \in Nat, u \in Int : i.first = <<r, u>> /\ b = V(r) + (IF u > 0 THEN u - 1 ELSE u)
      BY <1>2, <1>3, <1>5
    <2>3. q = r /\ o = u
      BY <2>1, <2>2
    <2> QED  BY <2>1, <2>2, <2>3
  <1>7. KSizeOf(axis) >= 2 * (L - 1)
    <2>1. 0 \in 0 .. Len(axis.sizes) /\ 0 < Len(axis.sizes)
      BY <1>3
    <2>2. KSizeOf(axis) - V(0) >= 2 * (L - 1)
      BY <1>6, <2>1, SplitterHeights
    <2>3. V(0) = 0 /\ KSizeOf(axis) \in Nat
      BY Splitters, KSizeIs DEF IsAxis
    <2> HIDE DEF V, L
    <2> QED  BY <2>2, <2>3
  <1> QED  BY <1>6, <1>7

\* The level a copy of a K cache touches is one of the data, at every level of a column.
LEMMA WindowInside ==
    ASSUME NEW axis, IsAxis(axis), LargeEnough(axis), KSizeOf(axis) > 0,
           NEW levels, levels = 0 .. KSizeOf(axis) - 1,
           NEW e, e.klo \in Int, e.khi \in Int, e.klo <= 0, 0 <= e.khi,
           NEW exec, NEW policy, NEW k \in levels,
           LET inner == InnerInterval(axis, levels) IN
           IF SyncsAbove(exec, policy) THEN KSizeOf(axis) >= KStart(axis, inner) + KSize(axis, inner) + e.khi
           ELSE 0 <= KStart(axis, inner) + e.klo,
           SyncAll(exec, policy, levels, axis, k) => IntervalAt(axis, k).first = IntervalAt(axis, k).last,
           NEW o \in SyncOffsets(exec, policy, e, levels, axis, k),
           IsKValid(SyncCheck(FALSE, e, levels, axis, k), axis, k + o)
    PROVE  k + o \in levels
  <1> DEFINE H == KSizeOf(axis)
             L == axis.limit
             cur == IntervalAt(axis, k)
             low == IntervalAt(axis, 0).first
             high == IntervalAt(axis, H - 1).last
             up == SyncsAbove(exec, policy)
             check == SyncCheck(FALSE, e, levels, axis, k)
             lo == e.klo
             hi == e.khi
  <1>1. /\ H \in Nat \ {0} /\ L \in Nat \ {0} /\ k \in 0 .. H - 1 /\ k \in Nat
        /\ Min(levels) = 0 /\ Max(levels) = H - 1 /\ lo \in Int /\ hi \in Int /\ lo <= 0 /\ 0 <= hi
    <2>1. H \in Nat \ {0} /\ L \in Nat \ {0}
      BY KSizeIs DEF IsAxis
    <2>2. Min(levels) = 0 /\ Max(levels) = H - 1
      BY <2>1, ColumnBounds
    <2> QED  BY <2>1, <2>2
  <1>2. (up => hi <= L - 1) /\ (~ up => - lo <= L - 1)
    <2>1. /\ KStart(axis, InnerInterval(axis, levels)) = L - 1
          /\ KStart(axis, InnerInterval(axis, levels)) + KSize(axis, InnerInterval(axis, levels)) = H - L + 1
      BY InnerLevels
    <2>2. up => H >= (H - L + 1) + hi
      BY <2>1
    <2>3. ~ up => 0 <= (L - 1) + lo
      BY <2>1
    <2> HIDE DEF up, H, L, lo, hi
    <2> QED  BY <1>1, <2>2, <2>3
  <1>3. check = IF lo = hi THEN "none" ELSE IF LevelsAreClose(low, cur.last, - lo) THEN "lo"
                ELSE IF LevelsAreClose(cur.first, high, hi) THEN "hi" ELSE "none"
    BY <1>1 DEF SyncCheck
  <1>4. (check = "lo" => k + o >= 0) /\ (check = "hi" => k + o < H)
    BY DEF IsKValid
  <1>5. o = lo \/ o = hi \/ o \in lo .. hi
    BY DEF SyncOffsets
  <1>6. o \in Int /\ lo <= o /\ o <= hi
    <2> HIDE DEF lo, hi
    <2> QED  BY <1>1, <1>5
  \* Where the windows reach over the ends, and how far, the bounds are checked.
  <1>7. ASSUME - lo <= L - 1, k + lo < 0, k + o < 0 PROVE FALSE
    <2> DEFINE d == - lo
    <2>1. d \in Int /\ d <= axis.limit - 1 /\ k < d /\ k \in 0 .. KSizeOf(axis) - 1
      BY <1>1, <1>7
    <2>2. LevelsAreClose(IntervalAt(axis, 0).first, IntervalAt(axis, k).last, d)
      <3> HIDE DEF d, H, L, cur, low, high, up, check, lo, hi
      <3> QED  BY <2>1, StartIsChecked
    <2>3. lo # hi
      BY <1>1, <1>7
    <2>4. check = "lo"
      BY <1>3, <2>2, <2>3
    <2> HIDE DEF d, H, L, cur, low, high, up, check, lo, hi
    <2> QED  BY <1>1, <1>4, <1>6, <1>7, <2>4
  <1>8. ASSUME hi <= L - 1, k + o > H - 1 PROVE FALSE
    <2>1. hi \in Int /\ hi <= axis.limit - 1 /\ k + hi >= KSizeOf(axis) /\ k \in 0 .. KSizeOf(axis) - 1
      BY <1>1, <1>6, <1>8
    <2>2. LevelsAreClose(IntervalAt(axis, k).first, IntervalAt(axis, KSizeOf(axis) - 1).last, hi)
      <3> HIDE DEF H, L, cur, low, high, up, check, lo, hi
      <3> QED  BY <2>1, EndIsChecked
    <2>3. ~ LevelsAreClose(IntervalAt(axis, 0).first, IntervalAt(axis, k).last, - lo)
      <3> DEFINE c == - lo
      <3> HIDE DEF H, L, cur, low, high, up, check, lo, hi, c
      <3>1. ~ LevelsAreClose(IntervalAt(axis, 0).first, IntervalAt(axis, k).last, c)
        BY <2>1, EndIsChecked
      <3> QED  BY <3>1 DEF c
    <2>4. lo # hi
      BY <1>1, <2>1
    <2>5. check = "hi"
      BY <1>3, <2>2, <2>3, <2>4
    <2> HIDE DEF H, L, cur, low, high, up, check, lo, hi
    <2> QED  BY <1>1, <1>4, <1>6, <1>8, <2>5
  <1>9. CASE lo = hi
    <2>1. o = 0
      <3> HIDE DEF lo, hi
      <3> QED  BY <1>1, <1>6, <1>9
    <2> QED  BY <1>1, <2>1
  <1>10. CASE lo # hi /\ SyncAll(exec, policy, levels, axis, k)
    <2>1. cur.first = cur.last
      BY <1>10
    <2>2. RealOffset(low[2]) - RealOffset(low[2]) = 0 /\ RealOffset(high[2]) - RealOffset(high[2]) = 0
      BY ColumnEnds DEF RealOffset
    <2>3. CASE up
      <3>1. cur = IntervalAt(axis, 0)
        BY <1>1, <1>10, <2>3 DEF SyncAll
      <3>2. k = 0 /\ L >= 2 /\ H >= 2 * (L - 1)
        <4>1. 0 \in 0 .. KSizeOf(axis) - 1 /\ k \in 0 .. KSizeOf(axis) - 1
          BY <1>1
        <4>2. k = 0 /\ axis.limit >= 2 /\ KSizeOf(axis) >= 2 * (axis.limit - 1)
          BY <2>1, <3>1, <4>1, SinglesAreLevels
        <4> QED  BY <4>2
      <3>3. lo < 0 => check = "lo"
        <4> SUFFICES ASSUME lo < 0 PROVE check = "lo"
          OBVIOUS
        <4>1. cur.last = low /\ 0 < - lo
          BY <1>1, <2>1, <3>1
        <4> HIDE DEF low, cur, lo
        <4>2. LevelsAreClose(low, cur.last, - lo)
          BY <2>2, <4>1 DEF LevelsAreClose
        <4> HIDE DEF check, high, hi
        <4> QED  BY <1>3, <1>10, <4>2
      <3> HIDE DEF H, L, cur, low, high, up, check, lo, hi
      <3>4. k + o >= 0 /\ k + o <= H - 1
        BY <1>1, <1>2, <1>4, <1>6, <2>3, <3>2, <3>3
      <3> QED  BY <1>1, <1>6, <3>4 DEF H
    <2>4. CASE ~ up
      <3>1. cur = IntervalAt(axis, H - 1)
        BY <1>1, <1>10, <2>4 DEF SyncAll
      <3>2. k = H - 1 /\ L >= 2 /\ H >= 2 * (L - 1)
        <4> DEFINE q == H - 1
        <4>1. q \in 0 .. KSizeOf(axis) - 1 /\ k \in 0 .. KSizeOf(axis) - 1
          BY <1>1
        <4> HIDE DEF q
        <4>2. IntervalAt(axis, k) = IntervalAt(axis, q)
          BY <3>1 DEF q
        <4>3. k = q /\ axis.limit >= 2 /\ KSizeOf(axis) >= 2 * (axis.limit - 1)
          BY <2>1, <4>1, <4>2, SinglesAreLevels
        <4> QED  BY <4>3 DEF q
      <3>3. hi > 0 => check = "hi"
        <4> SUFFICES ASSUME hi > 0 PROVE check = "hi"
          OBVIOUS
        <4>1. cur.first = high /\ cur.last = high /\ 0 < hi
          BY <2>1, <3>1
        <4>2. low[1] # high[1]
          <5>1. PICK s \in 0 .. Len(axis.sizes) : SplitterValue(axis, s) = 0 /\ low = <<s, 1>>
            BY ColumnEnds
          <5>2. PICK t \in 0 .. Len(axis.sizes) : SplitterValue(axis, t) = H /\ high = <<t, -1>>
            BY ColumnEnds
          <5>3. H # 0
            BY <1>1
          <5> QED  BY <5>1, <5>2, <5>3
        <4> HIDE DEF low, high, cur, lo, hi
        <4>3. LevelsAreClose(cur.first, high, hi) /\ ~ LevelsAreClose(low, cur.last, - lo)
          BY <2>2, <4>1, <4>2 DEF LevelsAreClose
        <4> HIDE DEF check
        <4> QED  BY <1>3, <1>10, <4>3
      <3> HIDE DEF H, L, cur, low, high, up, check, lo, hi
      <3>4. k + o >= 0 /\ k + o <= H - 1
        BY <1>1, <1>2, <1>4, <1>6, <2>4, <3>2, <3>3
      <3> QED  BY <1>1, <1>6, <3>4 DEF H
    <2> QED  BY <2>3, <2>4
  <1>11. CASE lo # hi /\ ~ SyncAll(exec, policy, levels, axis, k)
    <2>1. o = IF up THEN hi ELSE lo
      BY <1>11 DEF SyncOffsets
    <2>2. CASE up
      <3>1. o = hi /\ hi <= L - 1
        BY <1>2, <2>1, <2>2
      <3>2. ~ (k + o > H - 1)
        BY <1>8, <3>1
      <3> HIDE DEF H, L, cur, low, high, up, check, lo, hi
      <3> QED  BY <1>1, <1>6, <3>1, <3>2 DEF H
    <2>3. CASE ~ up
      <3>1. o = lo /\ - lo <= L - 1
        BY <1>2, <2>1, <2>3
      <3>2. ~ (k + o < 0)
        BY <1>7, <3>1
      <3> HIDE DEF H, L, cur, low, high, up, check, lo, hi
      <3> QED  BY <1>1, <1>6, <3>1, <3>2 DEF H
    <2> QED  BY <2>2, <2>3
  <1> QED  BY <1>9, <1>10, <1>11

(***************************************************************************)
(* The launches, rows and intervals of an executable.                      *)
(***************************************************************************)
LEMMA LaunchesFacts ==
    ASSUME NEW p, IsSeq(p.mss)
    PROVE  Launches(p) \in Seq(Seq(DOMAIN p.mss))
  <1> DEFINE L == Len(p.mss)
             R == DOMAIN p.mss
             T == Seq(Seq(R))
             Term(f, m) == IF m = 0 THEN <<>> ELSE LaunchStep(p, f[m - 1], m)
             Eq(f) == f = [m \in 0 .. L |-> Term(f, m)]
             f0 == CHOOSE f : Eq(f)
             step == [a \in T \X (1 .. L) |-> LaunchStep(p, a[1], a[2])]
  <1>1. L \in Nat /\ R = 1 .. L
    BY SeqFacts
  <1>2. Launches(p) = f0[L]
    BY DEF Launches
  <1> HIDE DEF L, R
  <1>3. ASSUME NEW launches \in T, NEW m \in R PROVE LaunchStep(p, launches, m) \in T
    BY GrowFacts DEF LaunchStep
  <1>4. \A a \in T \X (1 .. L) : a[1] \in T /\ a[2] \in R
    BY <1>1
  <1>5. step \in [T \X (1 .. L) -> T]
    BY <1>3, <1>4
  <1>6. <<>> \in T
    OBVIOUS
  <1> HIDE DEF T
  <1>7. PICK f : Follows(f, T, <<>>, L, step)
    <2> HIDE DEF step
    <2> QED  BY <1>1, <1>5, <1>6, Iterate
  <1>8. f = [m \in 0 .. L |-> f[m]] /\ \A m \in 0 .. L : f[m] = Term(f, m)
    <2>1. f \in [0 .. L -> T] /\ f[0] = <<>>
      BY <1>7 DEF Follows
    <2>2. ASSUME NEW m \in 1 .. L PROVE f[m] = LaunchStep(p, f[m - 1], m)
      <3>1. f[m - 1] \in T
        BY <1>1, <2>1
      <3>2. f[m] = step[<<f[m - 1], m>>]
        BY <1>7 DEF Follows
      <3> QED  BY <3>1, <3>2
    <2>3. \A m \in 0 .. L : m # 0 => m \in 1 .. L
      BY <1>1
    <2> QED  BY <2>1, <2>2, <2>3
  <1> HIDE DEF Term, step
  <1>9. Eq(f0)
    BY <1>8
  <1> HIDE DEF f0
  <1>10. \A m \in 0 .. L : f0[m] = Term(f0, m)
    BY <1>9
  <1> DEFINE X == {n \in Nat : n \in 0 .. L => f0[n] \in T}
  <1>11. 0 \in X
    BY <1>1, <1>6, <1>10 DEF Term
  <1>12. ASSUME NEW n \in Nat, n \in X PROVE n + 1 \in X
    <2> SUFFICES ASSUME n + 1 \in 0 .. L PROVE f0[n + 1] \in T
      OBVIOUS
    <2>1. n \in 0 .. L /\ n + 1 \in R /\ n + 1 # 0 /\ (n + 1) - 1 = n
      BY <1>1
    <2>2. f0[n + 1] = LaunchStep(p, f0[n], n + 1)
      BY <1>10, <2>1 DEF Term
    <2> QED  BY <1>3, <1>12, <2>1, <2>2
  <1> HIDE DEF X
  <1>13. L \in X
    BY <1>1, <1>11, <1>12, SetInduction
  <1> QED  BY <1>1, <1>2, <1>13 DEF X, T, R

\* A finite set as a sequence.
LEMMA SetToSeqFacts ==
    ASSUME NEW S, IsFiniteSet(S)
    PROVE  IsSeq(SetToSeq(S)) /\ ToSet(SetToSeq(S)) \subseteq S
  <1> DEFINE n == Cardinality(S)
             s == SetToSeq(S)
  <1>1. n \in Nat /\ ExistsBijection(1 .. n, S)
    BY FS_CardinalityType
  <1>2. PICK f \in Bijection(1 .. n, S) : TRUE
    BY <1>1 DEF ExistsBijection
  <1>3. f \in [1 .. n -> S] /\ IsInjective(f)
    BY <1>2 DEF Bijection, Injection, IsInjective
  <1>4. s \in [1 .. n -> S]
    BY <1>3 DEF SetToSeq
  <1> HIDE DEF n, s
  <1>5. s \in Seq(S)
    BY <1>1, <1>4, SeqDef
  <1> QED  BY <1>4, <1>5, IsSeqOf DEF ToSet, s

LEMMA MatrixFacts ==
    ASSUME NEW p, NEW backend, NEW m \in DOMAIN p.mss, IsSeq(p.mss[m].stages), p.mss[m].stages # <<>>,
           IsFiniteSet(DOMAIN p.mss[m].kc)
    PROVE  /\ IsSeq(MatrixRows(p, backend, m))
           /\ \A row \in ToSet(MatrixRows(p, backend, m)) :
                 /\ RowReady(p, m, row) /\ row[1] # "slide"
                 /\ backend # "gpu" => row[1] = "stage"
  <1> DEFINE st == p.mss[m].stages
             rows == StageRows(p, m)
             fields(policy) == {g \in KCached(p, m) : HasPolicy(p, m, g, policy)}
             sync(policy) == {<<policy, f>> : f \in fields(policy)}
  <1>1. IsSeq(rows) /\ \A row \in ToSet(rows) : row[1] = "stage" /\ <<m, row[2]>> \in StageIds(p)
    <2> DEFINE L == Len(st)
    <2>1. L \in Nat /\ DOMAIN st = 1 .. L
      BY SeqFacts
    <2>2. rows = [s \in DOMAIN st |-> <<"stage", s>>]
      BY DEF StageRows
    <2>3. \A s \in DOMAIN st : <<m, s>> \in StageIds(p)
      BY DEF StageIds
    <2> HIDE DEF L, st, rows
    <2>4. rows \in [1 .. L -> ToSet(rows)] /\ \A row \in ToSet(rows) : \E s \in DOMAIN st : row = <<"stage", s>>
      BY <2>1, <2>2 DEF ToSet
    <2>5. IsSeq(rows)
      BY <2>1, <2>4, SeqDef DEF IsSeq
    <2> QED  BY <2>3, <2>4, <2>5
  <1>2. ASSUME NEW policy, policy # "stage", policy # "slide"
        PROVE  /\ IsSeq(SetToSeq(sync(policy)))
               /\ \A row \in ToSet(SetToSeq(sync(policy))) : RowReady(p, m, row) /\ row[1] # "slide"
    <2>1. IsFiniteSet(fields(policy))
      BY FS_Subset DEF KCached
    <2>2. IsFiniteSet(sync(policy))
      <3> DEFINE g == [f \in fields(policy) |-> <<policy, f>>]
      <3>1. sync(policy) = {g[f] : f \in fields(policy)}
        OBVIOUS
      <3> HIDE DEF g, fields, sync
      <3> QED  BY <2>1, <3>1, FiniteImage
    <2>3. \A row \in sync(policy) : RowReady(p, m, row) /\ row[1] # "slide"
      BY <1>2 DEF RowReady, HasPolicy
    <2> HIDE DEF sync
    <2> QED  BY <1>2, <2>2, <2>3, SetToSeqFacts
  <1>3. TransformMatrix(p, m) = SetToSeq(sync("fill")) \o rows \o SetToSeq(sync("flush"))
    BY DEF TransformMatrix
  <1> HIDE DEF sync, rows
  <1>4. /\ IsSeq(SetToSeq(sync("fill")))
        /\ \A row \in ToSet(SetToSeq(sync("fill"))) : RowReady(p, m, row) /\ row[1] # "slide"
        /\ IsSeq(SetToSeq(sync("flush")))
        /\ \A row \in ToSet(SetToSeq(sync("flush"))) : RowReady(p, m, row) /\ row[1] # "slide"
    BY <1>2
  <1> DEFINE a == SetToSeq(sync("fill"))
             b == SetToSeq(sync("flush"))
  <1> HIDE DEF a, b
  <1>5. /\ IsSeq(a \o rows \o b)
        /\ ToSet(a \o rows \o b) = (ToSet(a) \cup ToSet(rows)) \cup ToSet(b)
    <2>1. IsSeq(a \o rows) /\ ToSet(a \o rows) = ToSet(a) \cup ToSet(rows)
      BY <1>1, <1>4, ConcatIsSeq DEF a
    <2>2. IsSeq((a \o rows) \o b) /\ ToSet((a \o rows) \o b) = ToSet(a \o rows) \cup ToSet(b)
      BY <1>4, <2>1, ConcatIsSeq DEF b
    <2> QED  BY <2>1, <2>2
  <1>6. TransformMatrix(p, m) = a \o rows \o b
    BY <1>3 DEF a, b
  <1>7. CASE backend = "gpu"
    <2>1. MatrixRows(p, backend, m) = a \o rows \o b
      BY <1>6, <1>7 DEF MatrixRows
    <2>2. /\ \A row \in ToSet(a) : RowReady(p, m, row) /\ row[1] # "slide"
          /\ \A row \in ToSet(b) : RowReady(p, m, row) /\ row[1] # "slide"
      BY <1>4 DEF a, b
    <2>3. \A row \in ToSet(rows) : RowReady(p, m, row) /\ row[1] # "slide"
      BY <1>1 DEF RowReady
    <2> QED  BY <1>1, <1>5, <1>7, <2>1, <2>2, <2>3
  <1>8. CASE backend # "gpu"
    <2>1. MatrixRows(p, backend, m) = rows
      BY <1>8 DEF MatrixRows, rows
    <2> QED  BY <1>1, <2>1 DEF RowReady
  <1> QED  BY <1>7, <1>8

\* The rows of a group are rows of the multistage.
LEMMA GroupRows ==
    ASSUME NEW rows, IsSeq(rows), NEW p, NEW m
    PROVE  /\ IsSeq(FuseStageRows(p, m, rows))
           /\ \A group \in ToSet(FuseStageRows(p, m, rows)) :
                 IsSeq(group) /\ group # <<>> /\ ToSet(group) \subseteq ToSet(rows)
  <1> DEFINE groups == FuseStageRows(p, m, rows)
             R == ToSet(rows)
  <1>1. PICK c : Grouped(p, m, rows, groups, c, Len(rows))
    BY FusionKeeps
  <1>2. groups \in Seq(Seq(R)) /\ Len(rows) \in Nat
    BY <1>1, SeqFacts DEF Grouped
  <1>3. DOMAIN groups = 1 .. Len(groups) /\ \A g \in 1 .. Len(groups) : groups[g] \in Seq(R)
    <2> HIDE DEF groups
    <2> QED  BY <1>2
  <1>4. ASSUME NEW g \in 1 .. Len(groups)
        PROVE  IsSeq(groups[g]) /\ groups[g] # <<>> /\ ToSet(groups[g]) \subseteq R
    <2>1. groups[g] \in Seq(R)
      BY <1>3
    <2>2. c[g] \in Int /\ c[g - 1] \in Int /\ c[g - 1] < c[g] /\ Len(groups[g]) = c[g] - c[g - 1]
      <3>1. c \in [0 .. Len(groups) -> 0 .. Len(rows)]
        BY <1>1 DEF Grouped
      <3>2. Len(groups) \in Nat
        BY <1>2
      <3>3. g \in 0 .. Len(groups) /\ g - 1 \in 0 .. Len(groups)
        BY <3>2
      <3>4. c[g - 1] < c[g] /\ Len(groups[g]) = c[g] - c[g - 1]
        BY <1>1 DEF Grouped
      <3> HIDE DEF groups
      <3> QED  BY <3>1, <3>3, <3>4
    <2> DEFINE group == groups[g]
               k == Len(group)
    <2>3. k # 0
      <3> DEFINE u == c[g]
                 v == c[g - 1]
      <3>1. u \in Int /\ v \in Int /\ v < u /\ k = u - v
        BY <2>2
      <3> HIDE DEF k, u, v
      <3> QED  BY <3>1
    <2> HIDE DEF group
    <2>4. group \in Seq(R)
      BY <2>1 DEF group
    <2>5. IsSeq(group) /\ group # <<>> /\ ToSet(group) \subseteq R
      <3>1. ToSet(group) \subseteq R
        BY <2>4 DEF ToSet
      <3> QED  BY <2>3, <2>4, <3>1, IsSeqOf
    <2> QED  BY <2>5 DEF group
  <1>5. IsSeq(groups)
    BY <1>2, IsSeqOf
  <1> HIDE DEF groups
  <1>6. \A group \in ToSet(groups) : \E g \in 1 .. Len(groups) : group = groups[g]
    BY <1>3 DEF ToSet
  <1> QED  BY <1>4, <1>5, <1>6 DEF groups

LEMMA KSizeFacts ==
    ASSUME NEW axis, axis.sizes \in Seq(Nat)
    PROVE  KSizeOf(axis) \in Int
  <1> DEFINE L == Len(axis.sizes)
             a == SplitterValue(axis, L)
             b == SplitterValue(axis, 0)
  <1>1. L \in 0 .. L /\ 0 \in 0 .. L
    OBVIOUS
  <1>2. a \in Nat /\ b \in Nat
    BY <1>1, Splitters
  <1> HIDE DEF L
  <1>3. KSizeOf(axis) = 1 + (a - b) + RealOffset(-1) - RealOffset(1)
    BY DEF KSizeOf, KSize, FullInterval, Interval, L
  <1>4. RealOffset(-1) = -1 /\ RealOffset(1) = 0
    BY DEF RealOffset
  <1> HIDE DEF a, b
  <1> QED  BY <1>2, <1>3, <1>4

LEMMA IntervalFacts ==
    ASSUME NEW x, IsInstance(x), NEW m \in DOMAIN x.p.mss
    PROVE  /\ Min(MssInterval(x, m)) \in Int /\ Max(MssInterval(x, m)) \in Int
           /\ \A k \in Min(MssInterval(x, m)) .. Max(MssInterval(x, m)) : k \in MssInterval(x, m)
  <1> DEFINE K == Levels(x) \cap UNION {AppliesAt(StageOf(x.p, y)) : y \in MssStages(x.p, m)}
             lo == Min(K)
             hi == Max(K)
  <1>1. KSizeOf(x.axis) \in Int
    BY KSizeFacts DEF IsInstance
  <1>2. Levels(x) \in SUBSET Int /\ IsFiniteSet(Levels(x))
    <2>1. KSizeOf(x.axis) - 1 \in Int
      BY <1>1
    <2> QED  BY <2>1, FS_Interval DEF Levels
  <1>3. K \in SUBSET Int /\ IsFiniteSet(K)
    BY <1>2, FS_Subset
  <1>4. K # {}
    <2>1. PICK s \in DOMAIN x.p.mss[m].stages : AppliesAt(StageOf(x.p, <<m, s>>)) \cap Levels(x) # {}
      BY DEF IsInstance
    <2>2. <<m, s>> \in MssStages(x.p, m)
      BY DEF MssStages, StageIds
    <2> QED  BY <2>1, <2>2
  <1> HIDE DEF K
  <1>5. lo \in Int /\ hi \in Int /\ lo <= hi
    <2>1. lo \in K /\ \A y \in K : lo <= y
      BY <1>3, <1>4, FiniteBounds
    <2>2. hi \in K
      BY <1>3, <1>4, FiniteBounds
    <2> QED  BY <1>3, <2>1, <2>2
  <1>6. MssInterval(x, m) = lo .. hi
    BY DEF MssInterval, K
  <1> HIDE DEF lo, hi
  <1> DEFINE I == lo .. hi
  <1>7. I \in SUBSET Int /\ IsFiniteSet(I) /\ I # {}
    <2>1. lo \in I /\ I \subseteq Int
      BY <1>5
    <2>2. IsFiniteSet(I)
      BY <1>5, FS_Interval
    <2> QED  BY <2>1, <2>2
  <1> DEFINE u == Min(I)
             v == Max(I)
  <1> HIDE DEF I
  <1>8. u \in I /\ v \in I
    BY <1>7, FiniteBounds
  <1> HIDE DEF u, v
  <1>9. u \in Int /\ v \in Int /\ \A k \in u .. v : k \in I
    BY <1>5, <1>8 DEF I
  <1> QED  BY <1>6, <1>9 DEF I, u, v

\* What a program has of the instance, and what it adds.
LEMMA ExecutableFields ==
    ASSUME NEW x
    PROVE  LET e == Executable(x)
               p == Annotated(x.p)
           IN /\ e.backend = x.backend /\ e.isize = x.isize /\ e.axis = x.axis /\ e.block = x.block
              /\ e.kblock = x.kblock /\ e.threads = x.threads
              /\ e.p.mss = x.p.mss /\ e.p.temps = x.p.temps /\ e.p.ext = p.ext /\ e.p.sync = p.sync
              /\ e.p.groups = [m \in DOMAIN p.mss |-> FuseStageRows(p, m, MatrixRows(p, x.backend, m))]
              /\ e.p.intervals = [m \in DOMAIN p.mss |-> MssInterval(x, m)]
              /\ e.launches = (IF x.backend = "gpu" THEN Launches(p) ELSE <<[m \in DOMAIN p.mss |-> m]>>)
              /\ p.mss = x.p.mss
  BY DEF Executable, Compiled, Annotated

LEMMA ProgramFields ==
    ASSUME NEW x
    PROVE  LET e == Executable(x)
               q == Program(x)
           IN /\ q.p = e.p /\ q.launches = e.launches /\ q.backend = e.backend /\ q.isize = e.isize
              /\ q.axis = e.axis /\ q.work = [l \in DOMAIN e.launches |-> WorkOf(e, l)]
  <1> DEFINE e == Executable(x)
             w == [l \in DOMAIN e.launches |-> WorkOf(e, l)]
  <1>1. DOMAIN e = {"p", "backend", "isize", "axis", "block", "kblock", "threads", "launches", "fused", "work"}
    BY DEF Executable
  <1>2. Program(x) = [e EXCEPT !.work = w]
    BY DEF Program
  <1> HIDE DEF e, w
  <1>3. /\ Program(x).p = e.p /\ Program(x).launches = e.launches /\ Program(x).backend = e.backend
        /\ Program(x).isize = e.isize /\ Program(x).axis = e.axis /\ Program(x).work = w
    BY <1>1, <1>2
  <1> QED  BY <1>3 DEF e, w

\* The compiler leaves what the loop nests are made of.
LEMMA ExecutableIsReady ==
    ASSUME NEW x, IsInstance(x)
    PROVE  Ready(Executable(x)) /\ Executable(x).p.mss = x.p.mss
  <1> DEFINE e == Executable(x)
             p == Annotated(x.p)
  <1>1. /\ e.backend = x.backend /\ e.isize = x.isize /\ e.axis = x.axis /\ e.block = x.block
        /\ e.kblock = x.kblock /\ e.threads = x.threads
        /\ e.p.mss = x.p.mss /\ e.p.ext = p.ext
        /\ e.p.groups = [m \in DOMAIN p.mss |-> FuseStageRows(p, m, MatrixRows(p, x.backend, m))]
        /\ e.p.intervals = [m \in DOMAIN p.mss |-> MssInterval(x, m)]
        /\ e.launches = (IF x.backend = "gpu" THEN Launches(p) ELSE <<[m \in DOMAIN p.mss |-> m]>>)
        /\ p.mss = x.p.mss
    BY ExecutableFields
  <1>2. p.ext = [y \in StageIds(x.p) |-> StageExtent(x.p, y)]
    BY DEF Annotated
  <1> HIDE DEF e, p
  <1>3. IsComputation(x.p) /\ IsSeq(e.p.mss) /\ e.p.mss # <<>>
    BY <1>1 DEF IsInstance, IsComputation, IsSeq
  <1>4. 1 \in DOMAIN e.p.mss
    BY <1>3, SeqFacts
  <1>5. StageIds(e.p) = StageIds(x.p) /\ StageIds(p) = StageIds(x.p)
    BY <1>1 DEF StageIds
  <1>6. \A y \in StageIds(e.p) : e.p.ext[y] \in Extents
    BY <1>1, <1>2, <1>3, <1>5, StageExtentFacts
  <1>7. KSizeOf(e.axis) \in Int
    BY <1>1, KSizeFacts DEF IsInstance
  <1>8. /\ e.backend \in {"naive", "cpu_kfirst", "cpu_ifirst", "gpu", "gpu_horizontal"}
        /\ e.isize \in Nat \ {0} /\ e.block \in Nat \ {0} /\ e.kblock \in Nat \ {0} /\ e.threads \in Nat \ {0}
    BY <1>1 DEF IsInstance
  <1>9. ASSUME NEW m \in DOMAIN e.p.mss PROVE MultistageReady(e, m)
    <2> DEFINE rows == MatrixRows(p, x.backend, m)
               groups == FuseStageRows(p, m, rows)
    <2>1. /\ IsSeq(p.mss[m].stages) /\ p.mss[m].stages # <<>> /\ IsFiniteSet(DOMAIN p.mss[m].kc)
          /\ m \in DOMAIN p.mss
      BY <1>1, <1>3 DEF IsComputation, IsSeq
    <2>2. /\ IsSeq(rows)
          /\ \A row \in ToSet(rows) : /\ RowReady(p, m, row) /\ row[1] # "slide"
                                      /\ x.backend # "gpu" => row[1] = "stage"
      BY <2>1, MatrixFacts
    <2>3. e.p.groups[m] = groups /\ e.p.intervals[m] = MssInterval(x, m)
      BY <1>1, <2>1
    <2> HIDE DEF rows
    <2>4. IsSeq(groups) /\ \A group \in ToSet(groups) : IsSeq(group) /\ group # <<>> /\ ToSet(group) \subseteq ToSet(rows)
      BY <2>2, GroupRows
    <2>5. /\ Min(e.p.intervals[m]) \in Int /\ Max(e.p.intervals[m]) \in Int
          /\ \A k \in Min(e.p.intervals[m]) .. Max(e.p.intervals[m]) : k \in e.p.intervals[m]
      BY <1>1, <2>3, IntervalFacts
    <2>6. MssExtent(e.p, m).lo \in Int /\ MssExtent(e.p, m).hi \in Int
      <3>1. IsFiniteSet(StageIds(e.p))
        BY <1>3, <1>5, FiniteStages
      <3>2. MssExtent(e.p, m) \in Extents
        BY <1>6, <3>1, MssExtentFacts
      <3> QED  BY <3>2 DEF Extents
    <2> HIDE DEF groups
    <2>7. ASSUME NEW group \in ToSet(groups) PROVE GroupReady(e, m, group)
      <3>1. IsSeq(group) /\ group # <<>>
        BY <2>4
      <3>2. ASSUME NEW row \in ToSet(group)
            PROVE  /\ RowReady(e.p, m, row)
                   /\ e.backend # "gpu" => row[1] = "stage" /\ RowExtent(e.p, m, row).lo \in Int
                                                            /\ RowExtent(e.p, m, row).hi \in Int
        <4>1. /\ RowReady(e.p, m, row)
              /\ e.backend # "gpu" => row[1] = "stage"
          BY <1>1, <1>5, <2>2, <2>4 DEF RowReady, KCached
        <4>2. row[1] = "stage" => RowExtent(e.p, m, row) \in Extents
          BY <1>6, <4>1 DEF RowExtent, RowReady
        <4> QED  BY <4>1, <4>2 DEF Extents
      <3> QED  BY <3>1, <3>2 DEF GroupReady
    <2> QED  BY <2>3, <2>4, <2>5, <2>6, <2>7 DEF MultistageReady
  <1>10. IsSeq(e.launches) /\ \A l \in DOMAIN e.launches : /\ IsSeq(e.launches[l])
                                                            /\ ToSet(e.launches[l]) \subseteq DOMAIN e.p.mss
    <2> DEFINE R == DOMAIN e.p.mss
    <2>1. e.launches \in Seq(Seq(R))
      <3>1. CASE x.backend = "gpu"
        <4>1. IsSeq(p.mss)
          BY <1>1, <1>3
        <4> QED  BY <1>1, <3>1, <4>1, LaunchesFacts
      <3>2. CASE x.backend # "gpu"
        <4> DEFINE all == [m \in R |-> m]
                   L == Len(e.p.mss)
        <4>1. L \in Nat /\ R = 1 .. L
          BY <1>3, SeqFacts
        <4> HIDE DEF L, R
        <4>2. all \in [1 .. L -> R]
          BY <4>1
        <4>3. all \in Seq(R)
          BY <4>1, <4>2, SeqDef
        <4>4. e.launches = <<all>>
          BY <1>1, <3>2 DEF R
        <4> HIDE DEF all
        <4>5. <<all>> \in Seq(Seq(R))
          BY <4>3
        <4> QED  BY <4>4, <4>5
      <3> QED  BY <3>1, <3>2
    <2> HIDE DEF R
    <2>2. IsSeq(e.launches)
      BY <2>1, IsSeqOf
    <2>3. ASSUME NEW l \in DOMAIN e.launches PROVE IsSeq(e.launches[l]) /\ ToSet(e.launches[l]) \subseteq R
      <3>1. e.launches[l] \in Seq(R)
        BY <2>1
      <3>2. ToSet(e.launches[l]) \subseteq R
        <4> DEFINE launch0 == e.launches[l]
        <4> HIDE DEF launch0
        <4>1. launch0 \in Seq(R)
          BY <3>1 DEF launch0
        <4>2. ToSet(launch0) \subseteq R
          BY <4>1 DEF ToSet
        <4> QED  BY <4>2 DEF launch0
      <3> QED  BY <3>1, <3>2, IsSeqOf
    <2> QED  BY <2>2, <2>3 DEF R
  <1>11. e.backend # "gpu" => e.launches = <<[m \in DOMAIN e.p.mss |-> m]>>
    BY <1>1
  <1>12. Ready(e)
    BY <1>3, <1>4, <1>7, <1>8, <1>9, <1>10, <1>11 DEF Ready
  <1> QED  BY <1>1, <1>12 DEF e

(***************************************************************************)
(* Every program's work is made of sequences of good items, one per worker *)
(* and launch.                                                             *)
(***************************************************************************)
LEMMA ProgramItems ==
    ASSUME NEW x \in Instances, NEW q, q = Program(x)
    PROVE  /\ IsSeq(q.launches) /\ DOMAIN q.work = DOMAIN q.launches
           /\ \A l \in DOMAIN q.work : \A w \in DOMAIN q.work[l] : GoodSeq(q, l, q.work[l][w])
  <1> DEFINE e == Executable(x)
  <1>1. Ready(e)
    BY InstancesAssumption, ExecutableIsReady
  <1>2. /\ q.p = e.p /\ q.axis = e.axis /\ q.launches = e.launches
        /\ q.work = [l \in DOMAIN e.launches |-> WorkOf(e, l)]
    BY ProgramFields
  <1> HIDE DEF e
  <1>3. IsSeq(e.launches)
    BY <1>1 DEF Ready
  <1>4. ASSUME NEW l \in DOMAIN q.work, NEW w \in DOMAIN q.work[l]
        PROVE  GoodSeq(q, l, q.work[l][w])
    <2>1. l \in DOMAIN e.launches /\ q.work[l] = WorkOf(e, l)
      BY <1>2
    <2>2. GoodSeq(e, l, q.work[l][w])
      BY <1>1, <2>1, GoodWork
    <2>3. \A copies : CopiesReady(e, copies) => CopiesReady(q, copies)
      BY <1>2 DEF CopiesReady, InWindow
    <2> QED  BY <1>2, <2>2, <2>3 DEF GoodSeq, GoodItem
  <1> QED  BY <1>2, <1>3, <1>4

LEMMA ProgramsWellFormed ==
    ASSUME NEW x \in Instances
    PROVE  WellFormed(Program(x))
  <1>1. PICK q : q = Program(x)
    OBVIOUS
  <1>2. /\ IsSeq(q.launches) /\ DOMAIN q.work = DOMAIN q.launches
        /\ \A l \in DOMAIN q.work : \A w \in DOMAIN q.work[l] : GoodSeq(q, l, q.work[l][w])
    BY <1>1, ProgramItems
  <1>3. Len(q.launches) \in Nat /\ DOMAIN q.launches = 1 .. Len(q.launches)
    BY <1>2, SeqFacts
  <1>4. ASSUME NEW l \in DOMAIN q.work, NEW w \in DOMAIN q.work[l]
        PROVE  /\ IsSeq(q.work[l][w])
               /\ \A n \in DOMAIN q.work[l][w] : q.work[l][w][n].phase \in Nat
    <2>1. /\ IsSeq(q.work[l][w])
          /\ \A item \in ToSet(q.work[l][w]) : GoodItem(q, l, item)
      BY <1>2 DEF GoodSeq
    <2>2. \A n \in DOMAIN q.work[l][w] : q.work[l][w][n] \in ToSet(q.work[l][w])
      BY <2>1, SeqFacts
    <2> QED  BY <2>1, <2>2 DEF GoodItem
  <1>5. WellFormed(q)
    BY <1>2, <1>3, <1>4 DEF WellFormed
  <1> QED  BY <1>1, <1>5

(***************************************************************************)
(* What holds of every computation in every state.                         *)
(***************************************************************************)
Running(x) == WellFormed(x) /\ exe = x /\ Progress(x)

Behaved(x) == RaceFree(x) => InOrderDone(x) /\ Memory(x, Left(x))

LEMMA RunningStarts ==
    ASSUME Init
    PROVE  \E x \in Instances : exe = Program(x) /\ Progress(exe) /\ Behaved(exe)
  <1>1. PICK x \in Instances : exe = Program(x)
    BY DEF Init
  <1>w. WellFormed(exe)
    BY <1>1, ProgramsWellFormed
  <1>2. launch = 0 /\ work = <<>> /\ mem = <<>> /\ DOMAIN mem = {}
    BY DEF Init
  <1>3. Progress(exe)
    BY <1>2, <1>w DEF Progress, WellFormed
  <1>4. \A a \in ItemIds(exe) : ~ Done(exe, a)
    <2> SUFFICES ASSUME NEW a \in ItemIds(exe) PROVE ~ Done(exe, a)
      OBVIOUS
    <2>1. a[1] \in 1 .. Len(exe.launches) /\ Len(exe.launches) \in Nat
      BY <1>w, ItemIdFacts DEF WellFormed
    <2> QED  BY <1>2, <2>1 DEF Done
  <1>5. InOrderDone(exe)
    BY <1>4 DEF InOrderDone
  <1>6. Memory(exe, Left(exe))
    BY <1>2, <1>4 DEF Memory, Written, Writers
  <1> QED  BY <1>1, <1>3, <1>5, <1>6 DEF Behaved

LEMMA RunningGoesOn ==
    ASSUME NEW x, Running(x), Behaved(x), [Next]_vars
    PROVE  Running(x)' /\ Behaved(x)'
  <1>1. PICK left : left = Left(x)
    OBVIOUS
  <1>2. CASE StartLaunch
    <2>1. /\ Progress(x)' /\ exe' = x
          /\ InOrderDone(x) => InOrderDone(x)'
          /\ Memory(x, left) => Memory(x, left)'
      BY <1>2, StartsNext DEF Running
    <2>2. RaceFree(x) => InOrderDone(x)' /\ Memory(x, left)'
      BY <1>1, <2>1 DEF Behaved
    <2> QED  BY <1>1, <2>1, <2>2 DEF Running, Behaved
  <1>3. ASSUME NEW w \in Workers, RunItem(w) PROVE Running(x)' /\ Behaved(x)'
    <2>1. Progress(x)' /\ exe' = x
      BY <1>3, RunsOne DEF Running
    <2>2. ASSUME RaceFree(x) PROVE InOrderDone(x)' /\ Memory(x, left)'
      <3>1. PhasesAscend(x) /\ CopiesOrdered(x, left)
        BY <1>1, <2>2 DEF RaceFree
      <3> QED  BY <1>1, <1>3, <2>2, <3>1, RunKeepsMemory DEF Running, Behaved
    <2> QED  BY <1>1, <2>1, <2>2 DEF Running, Behaved
  <1>4. CASE UNCHANGED vars
    <2>1. Progress(x)' /\ exe' = x
      BY <1>4 DEF Running, Progress, HasDone, vars
    <2>2. \A a : Done(x, a)' <=> Done(x, a)
      BY <1>4 DEF Done, HasDone, vars
    <2>3. InOrderDone(x) => InOrderDone(x)'
      BY <2>2 DEF InOrderDone
    <2>4. Memory(x, left) => Memory(x, left)'
      BY <1>4, <2>2 DEF Memory, LastLeft, Written, vars
    <2> QED  BY <1>1, <2>1, <2>3, <2>4 DEF Running, Behaved
  <1> QED  BY <1>2, <1>3, <1>4 DEF Next

\* In every state a program of the instances runs.
RunningInv == (\E x \in Instances : exe = Program(x)) /\ Progress(exe) /\ Behaved(exe)

LEMMA RunningFacts ==
    ASSUME RunningInv
    PROVE  \E x : x = exe /\ Running(x) /\ Behaved(x) /\ \E y \in Instances : x = Program(y)
  BY ProgramsWellFormed DEF RunningInv, Running

LEMMA AlwaysRunning == Spec => []RunningInv
  <1>1. Init => RunningInv
    BY RunningStarts DEF RunningInv
  <1>2. RunningInv /\ [Next]_vars => RunningInv'
    <2> SUFFICES ASSUME RunningInv, [Next]_vars PROVE RunningInv'
      OBVIOUS
    <2>1. PICK x : x = exe /\ Running(x) /\ Behaved(x) /\ \E y \in Instances : x = Program(y)
      BY RunningFacts
    <2>2. Running(x)' /\ Behaved(x)'
      BY <2>1, RunningGoesOn
    <2>3. exe' = x /\ Progress(exe)' /\ Behaved(exe)'
      BY <2>2 DEF Running
    <2> QED  BY <2>1, <2>3 DEF RunningInv
  <1> QED  BY <1>1, <1>2, PTL DEF Spec

(* If the order of a program's items settles what each of them finds, then   *)
(* under every interleaving of its threads a stage reads what the manual     *)
(* promises, whenever it may run.                                            *)
THEOREM OrderSuffices == Spec => [](RaceFree(exe) => ReadsAsPromised)
  <1>1. RunningInv => (RaceFree(exe) => ReadsAsPromised)
    <2> SUFFICES ASSUME RunningInv, RaceFree(exe), NEW w \in Workers, CanRun(w),
                        NEW r \in Head(work[w]).reads
                 PROVE  Read(r.from) = r.want
      BY DEF ReadsAsPromised
    <2>1. PICK x : x = exe /\ Running(x) /\ Behaved(x)
      BY RunningFacts
    <2> DEFINE left == Left(x)
    <2>2. PhasesAscend(x) /\ ReadsOrdered(x, left) /\ InOrderDone(x) /\ Memory(x, left)
      BY <2>1 DEF RaceFree, Behaved
    <2>3. WellFormed(x) /\ Progress(x)
      BY <2>1 DEF Running
    <2>4. NextItem(x, w) \in ItemIds(x) /\ ItemOf(x, NextItem(x, w)) = Head(work[w])
      BY <2>3, NextItemFacts DEF CanRun
    <2>5. Finds(x, left, NextItem(x, w), r.from, r.want)
      BY <2>2, <2>4 DEF ReadsOrdered
    <2> HIDE DEF left
    <2> QED  BY <2>1, <2>2, <2>3, <2>5, FindsIt
  <1> QED  BY <1>1, AlwaysRunning, PTL

\* When the computation has returned, every item has been run.
LEMMA FinishedIsDone ==
    ASSUME NEW x, Running(x), Finished, NEW a \in ItemIds(x)
    PROVE  Done(x, a)
  <1>1. /\ a[1] \in 1 .. Len(x.launches) /\ a[2] \in DOMAIN x.work[a[1]]
        /\ a[3] \in 1 .. Len(x.work[a[1]][a[2]]) /\ Len(x.work[a[1]][a[2]]) \in Nat
    BY ItemIdFacts DEF Running
  <1>2. launch = Len(x.launches) /\ Len(x.launches) \in Nat
    BY DEF Finished, Running, WellFormed
  <1>3. CASE a[1] = launch
    <2>1. a[2] \in Workers /\ IsSeq(work[a[2]])
      BY <1>1, <1>2, <1>3 DEF Running, Progress, Workers
    <2>2. Len(work[a[2]]) = 0
      BY <2>1, SeqFacts DEF Finished, Idle
    <2>3. HasDone(x, a[2]) = Len(x.work[a[1]][a[2]])
      BY <1>1, <1>3, <2>2 DEF HasDone
    <2> QED  BY <1>1, <1>3, <2>3 DEF Done
  <1>4. CASE a[1] # launch
    BY <1>1, <1>2, <1>4 DEF Done
  <1> QED  BY <1>3, <1>4

\* The caller then finds what no later writer has replaced.
LEMMA KeepsIt ==
    ASSUME NEW x, NEW left, Running(x), Memory(x, left), Finished,
           NEW loc, Survives(loc), NEW v, Keeps(x, left, loc, v)
    PROVE  Read(loc) = v
  <1>1. \A a \in Writers(x, loc) : Done(x, a)
    BY FinishedIsDone DEF Writers
  <1>2. CASE loc \in DOMAIN mem
    <2>1. PICK a \in Writers(x, loc) :
              mem[loc] = left[a][loc] /\ \A c \in Writers(x, loc) : ~ OrderedBefore(x, a, c)
      BY <1>1, <1>2 DEF Memory, LastLeft
    <2>2. left[a][loc] = v
      BY <2>1 DEF Keeps
    <2> QED  BY <1>2, <2>1, <2>2 DEF Read
  <1>3. CASE loc \notin DOMAIN mem
    <2>1. Writers(x, loc) = {}
      BY <1>1, <1>3 DEF Memory, Written
    <2> QED  BY <1>3, <2>1 DEF Keeps, Read
  <1> QED  BY <1>2, <1>3

(* If the order of a program's items settles what is left in the fields of   *)
(* the caller, then however the threads interleave the results are complete  *)
(* when the computation returns: nothing is lost at a seam or overwritten.   *)
THEOREM OrderCompletes == Spec => [](RaceFree(exe) => ResultsComplete)
  <1>1. RunningInv => (RaceFree(exe) => ResultsComplete)
    <2> SUFFICES ASSUME RunningInv, RaceFree(exe), Finished,
                        NEW f \in Fields(exe.p) \ exe.p.temps, NEW i \in 0 .. exe.isize - 1, NEW k \in Levels(exe)
                 PROVE  Read(<<"field", f, i, k>>) = Stamp(FinalWriter(exe.p, f, k), f, i, k)
      BY DEF ResultsComplete
    <2>1. PICK x : x = exe /\ Running(x) /\ Behaved(x)
      BY RunningFacts
    <2> DEFINE left == Left(x)
               loc == <<"field", f, i, k>>
               v == Stamp(FinalWriter(exe.p, f, k), f, i, k)
    <2>2. ResultsOrdered(x, left) /\ Memory(x, left)
      BY <2>1 DEF RaceFree, Behaved
    <2>3. Keeps(x, left, loc, v)
      BY <2>1, <2>2 DEF ResultsOrdered
    <2>4. Survives(loc)
      BY DEF Survives
    <2> HIDE DEF left, loc, v
    <2>5. Read(loc) = v
      BY <2>1, <2>2, <2>3, <2>4, KeepsIt
    <2> QED  BY <2>5 DEF loc, v
  <1> QED  BY <1>1, AlwaysRunning, PTL

LEMMA ItemsAreGood ==
    ASSUME NEW x, \E y \in Instances : x = Program(y), WellFormed(x), NEW a \in ItemIds(x)
    PROVE  GoodItem(x, a[1], ItemOf(x, a))
  <1>1. /\ a[1] \in DOMAIN x.work /\ a[2] \in DOMAIN x.work[a[1]] /\ a[3] \in 1 .. Len(x.work[a[1]][a[2]])
    BY ItemIdFacts
  <1>2. GoodSeq(x, a[1], x.work[a[1]][a[2]])
    BY <1>1, ProgramItems
  <1>3. a[3] \in DOMAIN x.work[a[1]][a[2]]
    BY <1>1, <1>2, SeqFacts DEF GoodSeq
  <1> QED  BY <1>2, <1>3 DEF GoodSeq, ToSet, ItemOf

(***************************************************************************)
(* Types: the running launch's work are items of its multistages, and what *)
(* is in memory a stage has written, or it was never written.              *)
(***************************************************************************)
LEMMA StagesOnly ==
    Spec => [](\A loc \in DOMAIN mem : <<mem[loc][1], mem[loc][2]>> \in StageIds(exe.p) \cup {Caller})
  <1> DEFINE MayHold(v) == <<v[1], v[2]>> \in StageIds(exe.p) \cup {Caller}
             Held == \A loc \in DOMAIN mem : MayHold(mem[loc])
  <1>1. Init => Held
    BY DEF Init
  <1>2. RunningInv /\ Held /\ [Next]_vars => Held'
    <2> SUFFICES ASSUME RunningInv, Held, [Next]_vars PROVE Held'
      OBVIOUS
    <2>1. PICK x : x = exe /\ Running(x) /\ Behaved(x) /\ \E y \in Instances : x = Program(y)
      BY RunningFacts
    <2>2. CASE StartLaunch
      <3>1. exe' = exe /\ \A loc \in DOMAIN mem' : loc \in DOMAIN mem /\ mem'[loc] = mem[loc]
        BY <2>2 DEF StartLaunch
      <3> QED  BY <3>1
    <2>3. ASSUME NEW w \in Workers, RunItem(w) PROVE Held'
      <3>1. PICK item : item = Head(work[w])
        OBVIOUS
      <3>2. exe' = exe /\ mem' = [loc \in DOMAIN mem \cup Targets(item) |-> ValueAfter(item, loc)]
        BY <2>3, <3>1 DEF RunItem
      <3>3. GoodItem(x, launch, item)
        <4>1. /\ NextItem(x, w) \in ItemIds(x) /\ ItemOf(x, NextItem(x, w)) = item
          BY <2>1, <2>3, <3>1, NextItemFacts DEF RunItem, CanRun, Running
        <4>2. NextItem(x, w)[1] = launch
          BY DEF NextItem
        <4>3. WellFormed(x) /\ \E y \in Instances : x = Program(y)
          BY <2>1 DEF Running
        <4>4. GoodItem(x, NextItem(x, w)[1], ItemOf(x, NextItem(x, w)))
          BY <4>1, <4>3, ItemsAreGood
        <4> QED  BY <4>1, <4>2, <4>4
      <3>4. ASSUME NEW loc \in DOMAIN mem' PROVE MayHold(ValueAfter(item, loc))
        <4>1. CASE loc \in item.writes
          <5>1. <<item.stamp[1], item.stamp[2]>> \in StageIds(x.p)
            BY <3>3, <4>1 DEF GoodItem
          <5> QED  BY <2>1, <4>1, <5>1 DEF ValueAfter
        <4>2. CASE loc \notin item.writes /\ loc \in Targets(item)
          <5>1. PICK from : from = CopiedFrom(item, loc)
            OBVIOUS
          <5>2. ValueAfter(item, loc) = Read(from)
            BY <4>2, <5>1 DEF ValueAfter
          <5>3. MayHold(Read(from))
            BY DEF Read, Untouched, Caller
          <5> QED  BY <5>2, <5>3
        <4>3. CASE loc \notin Targets(item)
          <5>1. loc \in DOMAIN mem /\ ValueAfter(item, loc) = mem[loc]
            BY <3>2, <4>3 DEF ValueAfter, Targets
          <5> QED  BY <5>1
        <4> QED  BY <4>1, <4>2, <4>3
      <3>5. \A loc \in DOMAIN mem' : mem'[loc] = ValueAfter(item, loc)
        BY <3>2
      <3> QED  BY <3>2, <3>4, <3>5
    <2>4. CASE UNCHANGED vars
      BY <2>4 DEF vars
    <2> QED  BY <2>2, <2>3, <2>4 DEF Next
  <1> QED  BY <1>1, <1>2, AlwaysRunning, PTL DEF Spec

(* In every state of every program the work left belongs to multistages of   *)
(* the running launch, and memory holds what stages of the computation have  *)
(* left there, or copies of memory nobody has written.                       *)
THEOREM TypeCorrect == Spec => []TypeOK
  <1> DEFINE Held == \A loc \in DOMAIN mem : <<mem[loc][1], mem[loc][2]>> \in StageIds(exe.p) \cup {Caller}
  <1>1. RunningInv /\ Held => TypeOK
    <2> SUFFICES ASSUME RunningInv PROVE /\ launch \in 0 .. Len(exe.launches)
                                         /\ \A w \in Workers : \A n \in DOMAIN work[w] :
                                               Head(work[w][n].stamp) \in ToSet(exe.launches[launch])
      BY DEF TypeOK
    <2>1. PICK x : x = exe /\ Running(x) /\ Behaved(x) /\ \E y \in Instances : x = Program(y)
      BY RunningFacts
    <2>2. launch \in 0 .. Len(exe.launches)
      BY <2>1 DEF Running, Progress
    <2>3. ASSUME NEW w \in Workers, NEW n \in DOMAIN work[w]
          PROVE  Head(work[w][n].stamp) \in ToSet(exe.launches[launch])
      <3>1. launch # 0
        BY <2>1 DEF Running, Progress, Workers
      <3>2. /\ w \in DOMAIN x.work[launch] /\ IsSeq(work[w]) /\ Len(work[w]) <= Len(x.work[launch][w])
            /\ \A k \in 1 .. Len(work[w]) : work[w][k] = x.work[launch][w][HasDone(x, w) + k]
        BY <2>1, <3>1 DEF Running, Progress, Workers
      <3>3. launch \in DOMAIN x.work /\ IsSeq(x.work[launch][w])
        BY <2>1, <2>2, <3>1, <3>2 DEF Running, WellFormed
      <3>4. /\ Len(work[w]) \in Nat /\ DOMAIN work[w] = 1 .. Len(work[w])
            /\ Len(x.work[launch][w]) \in Nat /\ DOMAIN x.work[launch][w] = 1 .. Len(x.work[launch][w])
        BY <3>2, <3>3, SeqFacts
      <3>5. HasDone(x, w) + n \in DOMAIN x.work[launch][w]
        <4> DEFINE all == Len(x.work[launch][w])
                   rest == Len(work[w])
        <4>1. HasDone(x, w) = all - rest /\ n \in 1 .. rest /\ rest <= all /\ all \in Nat /\ rest \in Nat
          BY <3>2, <3>4 DEF HasDone
        <4>2. DOMAIN x.work[launch][w] = 1 .. all
          BY <3>4
        <4> HIDE DEF all, rest
        <4> QED  BY <4>1, <4>2
      <3>6. GoodSeq(x, launch, x.work[launch][w])
        BY <2>1, <3>2, <3>3, ProgramItems
      <3>7. GoodItem(x, launch, x.work[launch][w][HasDone(x, w) + n])
        BY <3>5, <3>6 DEF GoodSeq, ToSet
      <3> QED  BY <2>1, <3>2, <3>4, <3>7 DEF GoodItem
    <2> QED  BY <2>2, <2>3
  <1> QED  BY <1>1, AlwaysRunning, StagesOnly, PTL

(* What the run checks before a program starts is therefore enough: from the *)
(* initial states, where no thread has moved yet, to every later one.        *)
THEOREM OrderDecides == Spec /\ []OrderSettles => [](ReadsAsPromised /\ ResultsComplete)
  <1>1. Init /\ OrderSettles => RaceFree(exe)
    BY DEF Init, OrderSettles
  <1>2. RaceFree(exe) /\ [Next]_vars => RaceFree(exe)'
    <2> SUFFICES ASSUME RaceFree(exe), [Next]_vars PROVE RaceFree(exe)'
      OBVIOUS
    <2>1. exe' = exe
      BY DEF Next, StartLaunch, RunItem, vars
    <2>2. PICK x : x = exe
      OBVIOUS
    <2>3. RaceFree(x)
      BY <2>2
    <2>4. x = exe'
      BY <2>1, <2>2
    <2> QED  BY <2>3, <2>4
  <1> QED  BY <1>1, <1>2, OrderSuffices, OrderCompletes, PTL DEF Spec

(***************************************************************************)
(* K caches of multistages that go through whole columns, which pass the   *)
(* assertions of the library, of an axis whose levels have one name each.  *)
(***************************************************************************)
WholeColumns(x) ==
    /\ IsAxis(x.axis) /\ LargeEnough(x.axis)
    /\ \A m \in DOMAIN x.p.mss : \A f \in KCached(x.p, m) \ x.p.temps :
          /\ x.p.intervals[m] = Levels(x)
          /\ ValidateKBounds(x.p, m, x.p.intervals[m], x.axis)
          /\ SyncsAllAtOneLevel(x.p, m, f, x.p.intervals[m], x.axis)

\* What a program has of its stages and their extents.
LEMMA ProgramExtents ==
    ASSUME NEW y \in Instances, NEW x, x = Program(y), NEW m, NEW f
    PROVE  LET e == PlhExtent(x.p, MssStages(x.p, m), f) IN
           e.klo \in Int /\ e.khi \in Int /\ e.klo <= 0 /\ 0 <= e.khi
  <1>1. IsComputation(y.p)
    BY InstancesAssumption DEF IsInstance
  <1>2. x.p.mss = y.p.mss /\ x.p.ext = [s \in StageIds(y.p) |-> StageExtent(y.p, s)]
    <2>1. x.p = Executable(y).p
      BY ProgramFields
    <2>2. Executable(y).p.mss = y.p.mss /\ Executable(y).p.ext = Annotated(y.p).ext
      BY ExecutableFields
    <2>3. Annotated(y.p).ext = [s \in StageIds(y.p) |-> StageExtent(y.p, s)]
      BY DEF Annotated
    <2> QED  BY <2>1, <2>2, <2>3
  <1>3. StageIds(x.p) = StageIds(y.p) /\ \A s : StageOf(x.p, s) = StageOf(y.p, s)
    BY <1>2 DEF StageIds, StageOf
  <1>4. IsFiniteSet(StageIds(x.p))
    BY <1>1, <1>3, FiniteStages
  <1>5. ASSUME NEW s \in StageIds(x.p)
        PROVE  /\ x.p.ext[s] \in Extents /\ x.p.ext[s].klo = 0 /\ x.p.ext[s].khi = 0
               /\ IsStage(StageOf(x.p, s))
    <2>1. x.p.ext[s] = StageExtent(y.p, s)
      BY <1>2, <1>3
    <2> QED  BY <1>1, <1>3, <2>1, StageExtentFacts, StageFacts
  <1> QED  BY <1>4, <1>5, WindowFacts

(* Where multistages with K caches go through whole columns and pass the     *)
(* assertions of the library, no fill and no flush ever touches the fields   *)
(* of the caller outside of their levels, whatever the axis, the limit of    *)
(* its offsets and the window.                                               *)
THEOREM WindowsStayInside == Spec => [](WholeColumns(exe) => CopiesStayInBounds)
  <1>1. RunningInv => (WholeColumns(exe) => CopiesStayInBounds)
    <2> SUFFICES ASSUME RunningInv, WholeColumns(exe), NEW w \in Workers, CanRun(w),
                        NEW c \in Head(work[w]).copies, NEW loc \in {c.from, c.to}, loc[1] = "field"
                 PROVE  loc[4] \in Levels(exe)
      BY DEF CopiesStayInBounds
    <2>1. PICK x : x = exe /\ Running(x) /\ \E y \in Instances : x = Program(y)
      BY RunningFacts
    <2>2. /\ NextItem(x, w) \in ItemIds(x) /\ ItemOf(x, NextItem(x, w)) = Head(work[w])
      BY <2>1, NextItemFacts DEF CanRun, Running
    <2>3. InWindow(x, loc[4])
      <3>1. WellFormed(x) /\ \E y \in Instances : x = Program(y)
        BY <2>1 DEF Running
      <3>2. GoodItem(x, NextItem(x, w)[1], Head(work[w]))
        BY <2>2, <3>1, ItemsAreGood
      <3> QED  BY <3>2 DEF GoodItem, CopiesReady
    <2>a. PICK m \in DOMAIN x.p.mss : \E f \in KCached(x.p, m) \ x.p.temps : \E policy \in x.p.mss[m].kc[f] :
              \E k \in x.p.intervals[m] :
                  \E o \in SyncedOffsets(x.p, m, policy, f, x.p.intervals[m], x.axis, k) : loc[4] = k + o
      BY <2>3 DEF InWindow
    <2>b. PICK f \in KCached(x.p, m) \ x.p.temps : \E policy \in x.p.mss[m].kc[f] : \E k \in x.p.intervals[m] :
              \E o \in SyncedOffsets(x.p, m, policy, f, x.p.intervals[m], x.axis, k) : loc[4] = k + o
      BY <2>a
    <2>4. PICK policy \in x.p.mss[m].kc[f], k \in x.p.intervals[m] :
              \E o \in SyncedOffsets(x.p, m, policy, f, x.p.intervals[m], x.axis, k) : loc[4] = k + o
      BY <2>b
    <2>c. PICK o \in SyncedOffsets(x.p, m, policy, f, x.p.intervals[m], x.axis, k) : loc[4] = k + o
      BY <2>4
    <2>5. /\ IsAxis(x.axis) /\ LargeEnough(x.axis) /\ x.p.intervals[m] = Levels(x)
          /\ ValidateKBounds(x.p, m, x.p.intervals[m], x.axis)
          /\ SyncsAllAtOneLevel(x.p, m, f, x.p.intervals[m], x.axis)
      BY <2>1, <2>4 DEF WholeColumns
    <2> DEFINE axis == x.axis
               levels == x.p.intervals[m]
               e == PlhExtent(x.p, MssStages(x.p, m), f)
               exec == x.p.mss[m].exec
    <2>6. e.klo \in Int /\ e.khi \in Int /\ e.klo <= 0 /\ 0 <= e.khi
      BY <2>1, ProgramExtents
    <2>7. levels = 0 .. KSizeOf(axis) - 1 /\ KSizeOf(axis) > 0
      <3>1. levels = 0 .. KSizeOf(axis) - 1
        BY <2>5 DEF Levels
      <3>2. KSizeOf(axis) \in Nat
        BY <2>5, KSizeIs
      <3> HIDE DEF axis
      <3> QED  BY <3>1, <3>2
    <2>8. LET inner == InnerInterval(axis, levels) IN
          IF SyncsAbove(exec, policy) THEN KSizeOf(axis) >= KStart(axis, inner) + KSize(axis, inner) + e.khi
          ELSE 0 <= KStart(axis, inner) + e.klo
      BY <2>4, <2>5 DEF ValidateKBounds
    <2>9. SyncAll(exec, policy, levels, axis, k) => IntervalAt(axis, k).first = IntervalAt(axis, k).last
      BY <2>4, <2>5 DEF SyncsAllAtOneLevel
    <2>10. /\ o \in SyncOffsets(exec, policy, e, levels, axis, k)
           /\ IsKValid(SyncCheck(FALSE, e, levels, axis, k), axis, k + o)
      <3>1. (f \in x.p.temps) = FALSE
        OBVIOUS
      <3> QED  BY <3>1 DEF SyncedOffsets
    <2>11. IsAxis(axis) /\ LargeEnough(axis) /\ k \in levels
      BY <2>4, <2>5
    <2> HIDE DEF axis, levels, e, exec
    <2>12. k + o \in levels
      BY <2>6, <2>7, <2>8, <2>9, <2>10, <2>11, WindowInside
    <2> QED  BY <2>1, <2>5, <2>c, <2>12 DEF levels
  <1> QED  BY <1>1, AlwaysRunning, PTL
=============================================================================
