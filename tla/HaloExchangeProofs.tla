-------------------------- MODULE HaloExchangeProofs --------------------------
(* That the halo exchange keeps its invariant and what follows from it, for  *)
(* every grid of processes, layout, halo widths and number of fields.        *)
EXTENDS HaloExchange, ProcGridProofs

-----------------------------------------------------------------------------
(* Directions, sides and sizes.                                              *)

LEMMA LayoutOnto == \A x \in Axes : \E a \in Axes : Layout[a] = x
  <1>1. /\ Layout[1] \in 1..3 /\ Layout[2] \in 1..3 /\ Layout[3] \in 1..3
        /\ Layout[1] # Layout[2] /\ Layout[1] # Layout[3] /\ Layout[2] # Layout[3]
    BY ExchangeAssumption DEF Axes
  <1> QED  BY <1>1 DEF Axes

LEMMA ProcDirFacts ==
    ASSUME NEW d \in Dirs
    PROVE  /\ ProcDir[d] \in Dirs
           /\ ProcDir[Neg(d)] = Neg(ProcDir[d])
           /\ \A e \in Dirs : ProcDir[d] = ProcDir[e] => d = e
  <1>1. Layout \in [Axes -> Axes]
    BY ExchangeAssumption
  <1>2. d \in [Axes -> Offsets] /\ ProcDir[d] = [a \in Axes |-> d[Layout[a]]]
    BY DEF ProcDir, Dirs
  <1>3. ProcDir[d] \in Dirs
    <2>1. ProcDir[d] \in [Axes -> Offsets]
      BY <1>1, <1>2
    <2>2. PICK x \in Axes : d[x] # 0
      <3> SUFFICES ASSUME \A x \in Axes : d[x] = 0 PROVE d = Here
        BY DEF Dirs
      <3> QED  BY <1>2 DEF Here
    <2>3. PICK a \in Axes : Layout[a] = x
      BY LayoutOnto
    <2>4. ProcDir[d][a] # 0
      BY <1>2, <2>2, <2>3
    <2> QED  BY <2>1, <2>4 DEF Dirs, Here
  <1>4. ProcDir[Neg(d)] = Neg(ProcDir[d])
    <2>1. ProcDir[Neg(d)] = [a \in Axes |-> Neg(d)[Layout[a]]]
      BY DirFacts DEF ProcDir
    <2>2. \A a \in Axes : Neg(d)[Layout[a]] = -ProcDir[d][a]
      BY <1>1, <1>2, DirFacts
    <2> QED  BY <2>1, <2>2 DEF Neg
  <1>5. ASSUME NEW e \in Dirs, ProcDir[d] = ProcDir[e] PROVE d = e
    <2>1. e \in [Axes -> Offsets] /\ ProcDir[e] = [a \in Axes |-> e[Layout[a]]]
      BY DEF ProcDir, Dirs
    <2>2. ASSUME NEW x \in Axes PROVE d[x] = e[x]
      <3>1. PICK a \in Axes : Layout[a] = x
        BY LayoutOnto
      <3> QED  BY <1>2, <1>5, <2>1, <3>1
    <2> QED  BY <1>2, <2>1, <2>2
  <1> QED  BY <1>3, <1>4, <1>5

\* A receive and the send of the other side agree on their slot, and so on the
\* tag, and no two directions share one.
LEMMA SlotFacts ==
    ASSUME NEW d \in Dirs
    PROVE  /\ SendSlot(d) \in Dirs /\ RecvSlot(d) \in Dirs
           /\ RecvSlot(Neg(d)) = SendSlot(d)
           /\ Tag(SendSlot(d)) \in 0..26
           /\ \A e \in Dirs : SendSlot(d) = SendSlot(e) => d = e
           /\ \A e \in Dirs : RecvSlot(d) = RecvSlot(e) => d = e
           /\ \A e \in Dirs : Tag(RecvSlot(e)) = Tag(SendSlot(d)) => e = Neg(d)
  <1>1. \A e \in Dirs : /\ RecvSlot(e) = ProcDir[Neg(e)] /\ SendSlot(e) = ProcDir[e]
                        /\ ProcDir[e] \in Dirs /\ Neg(e) \in Dirs /\ Neg(Neg(e)) = e
    BY ProcDirFacts, DirFacts DEF RecvSlot, SendSlot
  <1>2. SendSlot(d) \in Dirs /\ RecvSlot(d) \in Dirs /\ RecvSlot(Neg(d)) = SendSlot(d)
    BY <1>1
  <1>3. Tag(SendSlot(d)) \in 0..26
    BY <1>2, DirNumbers
  <1>4. ASSUME NEW e \in Dirs, SendSlot(d) = SendSlot(e) PROVE d = e
    BY <1>1, <1>4, ProcDirFacts
  <1>5. ASSUME NEW e \in Dirs, RecvSlot(d) = RecvSlot(e) PROVE d = e
    <2>1. Neg(d) = Neg(e)
      BY <1>1, <1>5, ProcDirFacts
    <2> QED  BY <1>1, <2>1
  <1>6. ASSUME NEW e \in Dirs, Tag(RecvSlot(e)) = Tag(SendSlot(d)) PROVE e = Neg(d)
    <2>1. RecvSlot(e) = SendSlot(d)
      BY <1>1, <1>6, DirNumbers
    <2>2. Neg(e) = d
      BY <1>1, <2>1, ProcDirFacts
    <2> QED  BY <1>1, <2>2
  <1> QED  BY <1>2, <1>3, <1>4, <1>5, <1>6

LEMMA SideFacts ==
    ASSUME NEW p \in Procs, NEW d \in Sides[p]
    PROVE  /\ d \in Dirs
           /\ Neighbour[p][d] \in Procs
           /\ Neg(d) \in Sides[Neighbour[p][d]]
           /\ Neighbour[Neighbour[p][d]][Neg(d)] = p
  <1>1. d \in Dirs /\ HasNbr(p, ProcDir[d])
    BY DEF Sides
  <1>2. ProcDir[d] \in Dirs /\ Neg(d) \in Dirs /\ ProcDir[Neg(d)] = Neg(ProcDir[d])
    BY <1>1, ProcDirFacts, DirFacts
  <1>3. \A q \in Procs, e \in Dirs : Neighbour[q][e] = NbrCoords(q, ProcDir[e])
    BY DEF Neighbour
  <1>4. /\ Neighbour[p][d] \in Procs
        /\ HasNbr(Neighbour[p][d], ProcDir[Neg(d)])
        /\ NbrCoords(Neighbour[p][d], ProcDir[Neg(d)]) = p
    BY <1>1, <1>2, <1>3, NeighbourBack
  <1> QED  BY <1>1, <1>2, <1>3, <1>4 DEF Sides

LEMMA SizeFacts ==
    ASSUME NEW d \in Dirs
    PROVE  SendSize(d) \in Nat /\ RecvSize(d) \in Nat /\ SendSize(d) = RecvSize(Neg(d))
  <1>1. \A a \in Axes : IsHalo(Halos[a])
    BY ExchangeAssumption
  <1>2. \A a \in Axes : d[a] \in Offsets /\ Neg(d)[a] = -d[a]
    BY DirFacts
  <1>3. \A a \in Axes : /\ SLength(Halos[a], d[a]) \in Nat /\ RLength(Halos[a], d[a]) \in Nat
                        /\ SLength(Halos[a], d[a]) = RLength(Halos[a], Neg(d)[a])
    <2> SUFFICES ASSUME NEW a \in Axes
                 PROVE  /\ SLength(Halos[a], d[a]) \in Nat /\ RLength(Halos[a], d[a]) \in Nat
                        /\ SLength(Halos[a], d[a]) = RLength(Halos[a], -d[a])
      BY <1>2
    <2>1. d[a] = 0 \/ d[a] = 1 \/ d[a] = -1
      BY <1>2 DEF Offsets
    <2> QED  BY <1>1, <2>1 DEF SLength, RLength, Length, IsHalo
  <1>4. \A x, y, z \in Nat : x * y * z \in Nat
    OBVIOUS
  <1> QED  BY <1>3, <1>4 DEF SendSize, RecvSize, Axes

LEMMA IntervalSize ==
    ASSUME NEW x \in Int, NEW y \in Int, NEW n \in Nat, y - x + 1 = n
    PROVE  Cardinality(x .. y) = n
  <1>1. Cardinality(x .. y) = IF x > y THEN 0 ELSE y - x + 1
    BY FS_Interval, Zenon
  <1> QED  BY <1>1

(* Along every axis pack writes, and unpack reads, exactly the elements the   *)
(* buffer of the direction was sized for, all of them inside the field; what *)
(* is received lands outside what the process computes on.                   *)
THEOREM RegionSizes ==
    ASSUME NEW h, IsHalo(h), NEW i \in Offsets
    PROVE  /\ Cardinality(Inside(h, i)) = SLength(h, i)
           /\ Cardinality(Outside(h, i)) = RLength(h, i)
           /\ Outside(h, i) \subseteq 0 .. (h.total - 1)
           /\ i # 0 => Outside(h, i) \cap (h.begin .. h.end) = {}
           /\ h.minus <= Length(h) /\ h.plus <= Length(h) => Inside(h, i) \subseteq h.begin .. h.end
  <1>1. /\ h.minus \in Nat /\ h.plus \in Nat /\ h.begin \in Nat /\ h.end \in Nat /\ h.total \in Nat
        /\ h.begin <= h.end /\ h.plus <= h.total - h.end - 1 /\ h.begin >= h.minus
    BY DEF IsHalo
  <1>3. i = 0 \/ i = 1 \/ i = -1
    BY DEF Offsets
  <1>2. /\ Cardinality(h.begin .. h.end) = h.end - h.begin + 1
        /\ Cardinality((h.end - h.minus + 1) .. h.end) = h.minus
        /\ Cardinality((h.end + 1) .. (h.end + h.plus)) = h.plus
        /\ Cardinality(h.begin .. (h.begin + h.plus - 1)) = h.plus
        /\ Cardinality((h.begin - h.minus) .. (h.begin - 1)) = h.minus
    <2>1. /\ h.begin \in Int /\ h.end \in Int /\ h.end - h.minus + 1 \in Int /\ h.end + 1 \in Int
          /\ h.end + h.plus \in Int /\ h.begin + h.plus - 1 \in Int
          /\ h.begin - h.minus \in Int /\ h.begin - 1 \in Int /\ h.end - h.begin + 1 \in Nat
      BY <1>1
    <2>2. /\ h.end - (h.end - h.minus + 1) + 1 = h.minus
          /\ (h.end + h.plus) - (h.end + 1) + 1 = h.plus
          /\ (h.begin + h.plus - 1) - h.begin + 1 = h.plus
          /\ (h.begin - 1) - (h.begin - h.minus) + 1 = h.minus
      BY <1>1
    <2>3. Cardinality(h.begin .. h.end) = h.end - h.begin + 1
      BY <2>1, IntervalSize, Zenon
    <2>4. Cardinality((h.end - h.minus + 1) .. h.end) = h.minus
      BY <1>1, <2>1, <2>2, IntervalSize, Zenon
    <2>5. Cardinality((h.end + 1) .. (h.end + h.plus)) = h.plus
      BY <1>1, <2>1, <2>2, IntervalSize, Zenon
    <2>6. Cardinality(h.begin .. (h.begin + h.plus - 1)) = h.plus
      BY <1>1, <2>1, <2>2, IntervalSize, Zenon
    <2>7. Cardinality((h.begin - h.minus) .. (h.begin - 1)) = h.minus
      BY <1>1, <2>1, <2>2, IntervalSize, Zenon
    <2> QED  BY <2>3, <2>4, <2>5, <2>6, <2>7
  <1>4. Cardinality(Inside(h, i)) = SLength(h, i)
    <2>1. CASE i = 0
      BY <1>2, <2>1 DEF Inside, SLength, Length
    <2>2. CASE i = 1
      BY <1>2, <2>2 DEF Inside, SLength
    <2>3. CASE i = -1
      BY <1>2, <2>3 DEF Inside, SLength
    <2> QED  BY <1>3, <2>1, <2>2, <2>3
  <1>5. Cardinality(Outside(h, i)) = RLength(h, i)
    <2>1. CASE i = 0
      BY <1>2, <2>1 DEF Outside, RLength, Length
    <2>2. CASE i = 1
      BY <1>2, <2>2 DEF Outside, RLength
    <2>3. CASE i = -1
      BY <1>2, <2>3 DEF Outside, RLength
    <2> QED  BY <1>3, <2>1, <2>2, <2>3
  <1>6. /\ Outside(h, i) \subseteq 0 .. (h.total - 1)
        /\ i # 0 => Outside(h, i) \cap (h.begin .. h.end) = {}
    BY <1>1, <1>3 DEF Outside
  <1>7. h.minus <= Length(h) /\ h.plus <= Length(h) => Inside(h, i) \subseteq h.begin .. h.end
    BY <1>1, <1>3 DEF Inside, Length
  <1> QED  BY <1>4, <1>5, <1>6, <1>7

LEMMA SidesReceiving ==
    ASSUME NEW p \in Procs, NEW d \in Receives[p]
    PROVE  /\ d \in Sides[p] /\ d \in Dirs /\ RecvSize(d) # 0
           /\ Neighbour[p][d] \in Procs
           /\ Neg(d) \in Sides[Neighbour[p][d]] /\ Neg(d) \in Dirs /\ Neg(Neg(d)) = d
           /\ Neighbour[Neighbour[p][d]][Neg(d)] = p
           /\ SendSize(Neg(d)) = RecvSize(d)
  <1>1. d \in Sides[p] /\ RecvSize(d) # 0
    BY DEF Receives
  <1>2. d \in Dirs /\ Neg(d) \in Dirs /\ Neg(Neg(d)) = d
    BY <1>1, SideFacts, DirFacts
  <1> QED  BY <1>1, <1>2, SideFacts, SizeFacts

LEMMA BorderFacts ==
    /\ Empty \in Contents /\ NotCopied \in Contents
    /\ \A p \in Procs, d \in Dirs, n \in Nat :
          Border(p, d, n) \in Contents /\ Border(p, d, n) # NotCopied
  <1>1. Here \in Procs
    BY GridAssumption DEF Here, Procs, Coords
  <1>2. Here \notin Dirs
    BY DEF Dirs
  <1> QED  BY <1>1, <1>2 DEF Empty, NotCopied, Border, Contents

-----------------------------------------------------------------------------
(* The initial states.                                                       *)

LEMMA InitInv == Init => IndInv
  <1> SUFFICES ASSUME Init PROVE IndInv
    OBVIOUS
  <1> USE DEF Init
  <1>0. MaxStep \in Nat /\ MaxFields \in Nat /\ (MaxStep > 0 => MaxFields > 0)
    BY ExchangeAssumption
  <1>1. TypeOK
    <2>1. \A p \in Procs : [d \in Sides[p] |-> Empty] \in [Sides[p] -> Contents]
      BY BorderFacts
    <2> QED  BY <1>0, <2>1 DEF TypeOK, Pcs
  <1>2. ASSUME NEW p \in Procs PROVE ProcessOK(p)
    BY <1>0 DEF ProcessOK, StepOK, FieldsOK, SendBufOK, PendingOK, ActiveOK, RecvBufOK, HaloOK, During
  <1>3. NoneLost /\ NotAhead
    <2> SUFFICES ASSUME NEW q \in Procs, NEW d \in Receives[q]
                 PROVE  Got(q, d) = 0 /\ Sent(Neighbour[q][d]) = 0
      BY DEF NoneLost, NotAhead, Underway
    <2> QED  BY SidesReceiving DEF Got, Sent, Before
  <1> QED  BY <1>1, <1>2, <1>3 DEF IndInv, Unique

-----------------------------------------------------------------------------
(* What a step leaves alone.                                                 *)

LEMMA ProcessFrame ==
    ASSUME NEW q \in Procs, ProcessOK(q),
           pc'[q] = pc[q], step'[q] = step[q], fields'[q] = fields[q], posted'[q] = posted[q],
           sendbuf'[q] = sendbuf[q], recvbuf'[q] = recvbuf[q], halo'[q] = halo[q],
           pending'[q] = pending[q], active'[q] = active[q]
    PROVE  ProcessOK(q)'
  BY DEF ProcessOK, StepOK, FieldsOK, SendBufOK, PendingOK, ActiveOK, RecvBufOK, HaloOK

LEMMA NetFrame ==
    ASSUME IndInv, net' = net,
           \A q \in Procs : Sent(q)' = Sent(q),
           \A q \in Procs : \A d \in Receives[q] : Got(q, d)' = Got(q, d)
    PROVE  (\A m \in net : MessageOK(m))' /\ Unique' /\ NoneLost' /\ NotAhead'
  <1>1. ASSUME NEW m \in net PROVE MessageOK(m)'
    <2>1. MessageOK(m) /\ m.src \in Procs
      BY DEF IndInv, TypeOK, Messages
    <2>2. m.dst \in Procs /\ Neg(m.buffer) \in Receives[m.dst]
      BY <2>1, SideFacts, SizeFacts DEF MessageOK, Receives
    <2> QED  BY <2>1, <2>2 DEF MessageOK
  <1>2. Unique'
    BY DEF IndInv, Unique
  <1>3. NoneLost' /\ NotAhead'
    BY SidesReceiving DEF IndInv, NoneLost, NotAhead, Underway
  <1> QED  BY <1>1, <1>2, <1>3

\* A step of one process that sends nothing and completes no receive.
LEMMA LocalStep ==
    ASSUME IndInv, NEW p \in Procs, net' = net,
           \A q \in Procs \ {p} :
              /\ pc'[q] = pc[q] /\ step'[q] = step[q] /\ fields'[q] = fields[q]
              /\ posted'[q] = posted[q] /\ sendbuf'[q] = sendbuf[q] /\ recvbuf'[q] = recvbuf[q]
              /\ halo'[q] = halo[q] /\ pending'[q] = pending[q] /\ active'[q] = active[q],
           pc[p] # "started" \/ active[p] = {},
           Sent(p)' = Sent(p), \A d \in Receives[p] : Got(p, d)' = Got(p, d),
           TypeOK', ProcessOK(p)'
    PROVE  IndInv'
  <1>1. ASSUME NEW q \in Procs PROVE ProcessOK(q)'
    BY <1>1, ProcessFrame DEF IndInv
  <1>2. \A q \in Procs : Sent(q)' = Sent(q)
    BY DEF Sent
  <1>3. \A q \in Procs : \A d \in Receives[q] : Got(q, d)' = Got(q, d)
    BY DEF Got
  <1>4. ASSUME NEW m \in net PROVE DataOK(m)'
    <2>1. DataOK(m) /\ m.src \in Procs
      BY DEF IndInv, TypeOK, Messages
    <2>2. CASE m.data = NotCopied
      BY <2>1, <2>2 DEF DataOK
    <2>3. CASE m.data # NotCopied
      BY <2>1, <2>3 DEF DataOK
    <2> QED  BY <2>2, <2>3
  <1> QED  BY <1>1, <1>2, <1>3, <1>4, NetFrame DEF IndInv

-----------------------------------------------------------------------------
(* The steps of a process.                                                   *)

LEMMA ComputeKeeps == ASSUME IndInv, NEW p \in Procs, Compute(p) PROVE IndInv'
  <1> USE DEF Compute
  <1>1. TypeOK /\ ProcessOK(p) /\ MaxStep \in Nat
    BY ExchangeAssumption DEF IndInv
  <1>2. TypeOK'
    BY <1>1 DEF TypeOK, Pcs
  <1>3. pc'[p] = "ready" /\ step'[p] = step[p] + 1 /\ step[p] \in Nat
    BY <1>1 DEF TypeOK
  <1>4. pending[p] = {} /\ active[p] = {}
    BY <1>1 DEF ProcessOK, PendingOK, ActiveOK, During
  <1>5. ProcessOK(p)'
    BY <1>1, <1>3, <1>4
       DEF ProcessOK, StepOK, FieldsOK, SendBufOK, PendingOK, ActiveOK, RecvBufOK, HaloOK, During
  <1>6. Sent(p)' = Sent(p)
    BY <1>3 DEF Sent
  <1>7. \A d \in Receives[p] : Got(p, d)' = Got(p, d)
    BY <1>3, <1>4 DEF Got, Before
  <1>8. \A q \in Procs \ {p} : pc'[q] = pc[q] /\ step'[q] = step[q]
    BY <1>1 DEF TypeOK
  <1> QED  BY <1>2, <1>4, <1>5, <1>6, <1>7, <1>8, LocalStep

LEMMA PackKeeps == ASSUME IndInv, NEW p \in Procs, Pack(p) PROVE IndInv'
  <1> USE DEF Pack
  <1>1. TypeOK /\ ProcessOK(p) /\ MaxFields \in Nat
    BY ExchangeAssumption DEF IndInv
  <1>2. /\ step[p] \in 1..MaxStep
        /\ FieldsOf[step[p]] \in 1..MaxFields
    BY <1>1, ExchangeAssumption DEF TypeOK, ProcessOK, StepOK
  <1>3. /\ (pc[p] = "ready" /\ pc'[p] = "packed") \/ (pc[p] = "posted" /\ pc'[p] = "prepared")
        /\ sendbuf'[p] = [d \in Sides[p] |-> Border(p, d, step[p])]
        /\ fields'[p] = FieldsOf[step[p]]
        /\ \A q \in Procs \ {p} : pc'[q] = pc[q] /\ sendbuf'[q] = sendbuf[q] /\ fields'[q] = fields[q]
    <2>1. p \in DOMAIN pc /\ p \in DOMAIN sendbuf /\ p \in DOMAIN fields
      BY <1>1 DEF TypeOK
    <2>2. sendbuf'[p] = [d \in Sides[p] |-> Border(p, d, step[p])]
      BY <2>1
    <2>3. fields'[p] = FieldsOf[step[p]]
      BY <2>1
    <2>4. (pc[p] = "ready" /\ pc'[p] = "packed") \/ (pc[p] = "posted" /\ pc'[p] = "prepared")
      BY <2>1
    <2>5. \A q \in Procs \ {p} : pc'[q] = pc[q] /\ sendbuf'[q] = sendbuf[q] /\ fields'[q] = fields[q]
      BY <1>1 DEF TypeOK
    <2> QED  BY <2>2, <2>3, <2>4, <2>5
  <1>4. TypeOK'
    <2>1. /\ pc' \in [Procs -> Pcs] /\ fields' \in [Procs -> 0..MaxFields]
          /\ DOMAIN sendbuf' = Procs
      BY <1>1, <1>2 DEF TypeOK, Pcs
    <2>2. ASSUME NEW q \in Procs PROVE sendbuf'[q] \in [Sides[q] -> Contents]
      <3>1. \A d \in Sides[p] : Border(p, d, step[p]) \in Contents
        BY <1>2, SideFacts, BorderFacts, ExchangeAssumption
      <3> QED  BY <1>1, <1>3, <3>1 DEF TypeOK
    <2> QED  BY <1>1, <2>1, <2>2 DEF TypeOK
  <1>5. ProcessOK(p)'
    BY <1>1, <1>2, <1>3
       DEF ProcessOK, StepOK, FieldsOK, SendBufOK, PendingOK, ActiveOK, RecvBufOK, HaloOK, During
  <1>6. Sent(p)' = Sent(p)
    BY <1>3 DEF Sent
  <1>7. \A d \in Receives[p] : Got(p, d)' = Got(p, d)
    BY <1>3 DEF Got, Before
  <1> QED  BY <1>3, <1>4, <1>5, <1>6, <1>7, LocalStep

LEMMA ReceivingAll ==
    ASSUME TypeOK, NEW p \in Procs, ProcessOK(p), step[p] > 0
    PROVE  RecvSides(p) = Receives[p]
  <1>1. fields[p] \in Nat \ {0}
    BY ExchangeAssumption DEF TypeOK, ProcessOK, FieldsOK
  <1>2. \A d \in Sides[p] : RecvSize(d) \in Nat
    BY SideFacts, SizeFacts
  <1>3. \A x \in Nat, y \in Nat \ {0} : x * y # 0 <=> x # 0
    OBVIOUS
  <1> QED  BY <1>1, <1>2, <1>3 DEF RecvSides, Receives

LEMMA PostReceivesKeeps == ASSUME IndInv, NEW p \in Procs, PostReceives(p) PROVE IndInv'
  <1> USE DEF PostReceives
  <1>1. TypeOK /\ ProcessOK(p) /\ step[p] > 0
    BY DEF IndInv, ProcessOK, StepOK
  <1>2. RecvSides(p) = Receives[p]
    BY <1>1, ReceivingAll
  <1>3. /\ (pc[p] = "packed" /\ pc'[p] = "prepared") \/ (pc[p] = "ready" /\ pc'[p] = "posted")
        /\ posted'[p] = fields[p]
        /\ pending'[p] = { RecvSlot(d) : d \in Receives[p] }
        /\ \A q \in Procs \ {p} : pc'[q] = pc[q] /\ posted'[q] = posted[q] /\ pending'[q] = pending[q]
    <2>1. pending[p] = {}
      BY <1>1 DEF ProcessOK, PendingOK, During
    <2>2. pending'[p] = {} \cup { RecvSlot(d) : d \in RecvSides(p) }
      BY <1>1, <2>1 DEF TypeOK
    <2>3. pending'[p] = { RecvSlot(d) : d \in Receives[p] }
      BY <1>2, <2>2
    <2>4. (pc[p] = "packed" /\ pc'[p] = "prepared") \/ (pc[p] = "ready" /\ pc'[p] = "posted")
      BY <1>1 DEF TypeOK
    <2>5. posted'[p] = fields[p]
      BY <1>1 DEF TypeOK
    <2>6. \A q \in Procs \ {p} : pc'[q] = pc[q] /\ posted'[q] = posted[q] /\ pending'[q] = pending[q]
      BY <1>1 DEF TypeOK
    <2> QED  BY <2>3, <2>4, <2>5, <2>6
  <1>4. TypeOK'
    <2>1. \A d \in Receives[p] : RecvSlot(d) \in Dirs
      BY SidesReceiving, SlotFacts
    <2> QED  BY <1>1, <1>2, <2>1 DEF TypeOK, Pcs
  <1>5. fields[p] >= FieldsOf[step[p]]
    BY <1>1, ExchangeAssumption DEF TypeOK, ProcessOK, FieldsOK
  <1>6. ProcessOK(p)'
    BY <1>1, <1>3, <1>5
       DEF ProcessOK, StepOK, FieldsOK, SendBufOK, PendingOK, ActiveOK, RecvBufOK, HaloOK, During
  <1>7. Sent(p)' = Sent(p)
    BY <1>3 DEF Sent
  <1>8. \A d \in Receives[p] : Got(p, d)' = Got(p, d)
    BY <1>3 DEF Got, Before
  <1> QED  BY <1>3, <1>4, <1>6, <1>7, <1>8, LocalStep

LEMMA WaitForSendsKeeps == ASSUME IndInv, NEW p \in Procs, WaitForSends(p) PROVE IndInv'
  <1> USE DEF WaitForSends
  <1>1. TypeOK /\ ProcessOK(p)
    BY DEF IndInv
  <1>2. TypeOK'
    BY <1>1 DEF TypeOK, Pcs
  <1>3. pc'[p] = "sent" /\ \A q \in Procs \ {p} : pc'[q] = pc[q]
    BY <1>1 DEF TypeOK
  <1>4. ProcessOK(p)'
    BY <1>1, <1>3
       DEF ProcessOK, StepOK, FieldsOK, SendBufOK, PendingOK, ActiveOK, RecvBufOK, HaloOK, During
  <1>5. Sent(p)' = Sent(p) /\ \A d \in Receives[p] : Got(p, d)' = Got(p, d)
    BY <1>3 DEF Sent, Got, Before
  <1> QED  BY <1>2, <1>3, <1>4, <1>5, LocalStep

LEMMA WaitForReceivesKeeps == ASSUME IndInv, NEW p \in Procs, WaitForReceives(p) PROVE IndInv'
  <1> USE DEF WaitForReceives
  <1>1. TypeOK /\ ProcessOK(p) /\ step[p] > 0
    BY DEF IndInv, ProcessOK, StepOK
  <1>2. TypeOK'
    BY <1>1 DEF TypeOK, Pcs
  <1>3. pending[p] = {}
    BY <1>1, ReceivingAll DEF ProcessOK, PendingOK
  <1>4. pc'[p] = "received" /\ \A q \in Procs \ {p} : pc'[q] = pc[q]
    BY <1>1 DEF TypeOK
  <1>5. ProcessOK(p)'
    BY <1>1, <1>3, <1>4
       DEF ProcessOK, StepOK, FieldsOK, SendBufOK, PendingOK, ActiveOK, RecvBufOK, HaloOK, During
  <1>6. Sent(p)' = Sent(p) /\ \A d \in Receives[p] : Got(p, d)' = Got(p, d)
    BY <1>4 DEF Sent, Got, Before
  <1> QED  BY <1>2, <1>4, <1>5, <1>6, LocalStep

LEMMA UnpackKeeps == ASSUME IndInv, NEW p \in Procs, Unpack(p) PROVE IndInv'
  <1> USE DEF Unpack
  <1>1. TypeOK /\ ProcessOK(p) /\ step[p] > 0
    BY DEF IndInv, ProcessOK, StepOK
  <1>2. RecvSides(p) = Receives[p]
    BY <1>1, ReceivingAll
  <1>3. /\ pc'[p] = "computing"
        /\ \A d \in Receives[p] : halo'[p][d] = recvbuf[p][d]
        /\ \A q \in Procs \ {p} : pc'[q] = pc[q] /\ halo'[q] = halo[q]
    BY <1>1, <1>2, SidesReceiving DEF TypeOK
  <1>4. pending[p] = {}
    BY <1>1 DEF ProcessOK, PendingOK, During
  <1>5. TypeOK'
    <2>1. /\ pc' \in [Procs -> Pcs] /\ DOMAIN halo' = Procs
          /\ halo'[p] \in [Sides[p] -> Contents]
      BY <1>1 DEF TypeOK, Pcs
    <2> QED  BY <1>1, <1>3, <2>1 DEF TypeOK
  <1>6. ProcessOK(p)'
    BY <1>1, <1>3, <1>4
       DEF ProcessOK, StepOK, FieldsOK, SendBufOK, PendingOK, ActiveOK, RecvBufOK, HaloOK, During
  <1>7. Sent(p)' = Sent(p) /\ \A d \in Receives[p] : Got(p, d)' = Got(p, d)
    BY <1>3, <1>4 DEF Sent, Got, Before
  <1> QED  BY <1>3, <1>5, <1>6, <1>7, LocalStep

\* What is known of a message: its way back is a side with a halo.
LEMMA MessageFacts ==
    ASSUME IndInv, NEW m \in net
    PROVE  /\ m \in Messages /\ MessageOK(m) /\ DataOK(m)
           /\ m.src \in Procs /\ m.dst \in Procs /\ m.step \in Nat
           /\ m.buffer \in Dirs /\ m.buffer \in Sides[m.src]
           /\ Neg(m.buffer) \in Receives[m.dst]
           /\ Neighbour[m.dst][Neg(m.buffer)] = m.src
  <1>1. /\ m \in Messages /\ MessageOK(m) /\ DataOK(m)
        /\ m.src \in Procs /\ m.dst \in Procs /\ m.step \in Nat
    BY DEF IndInv, TypeOK, Messages
  <1> QED  BY <1>1, SideFacts, SizeFacts DEF MessageOK, Receives

LEMMA DoSendsKeeps == ASSUME IndInv, NEW p \in Procs, DoSends(p) PROVE IndInv'
  <1>1. /\ TypeOK /\ ProcessOK(p) /\ pc[p] = "prepared"
        /\ step[p] \in 1..MaxStep /\ MaxStep \in Nat
    BY ExchangeAssumption DEF IndInv, ProcessOK, StepOK, DoSends, TypeOK
  <1>2. fields[p] = FieldsOf[step[p]] /\ fields[p] \in Nat \ {0} /\ active[p] = {}
    BY <1>1, ExchangeAssumption DEF ProcessOK, FieldsOK, ActiveOK
  <1>3. SendSides(p) = { d \in Sides[p] : SendSize(d) # 0 }
    <2>1. \A d \in Sides[p] : SendSize(d) \in Nat
      BY SideFacts, SizeFacts
    <2>2. \A x \in Nat, y \in Nat \ {0} : x * y # 0 <=> x # 0
      OBVIOUS
    <2> QED  BY <1>2, <2>1, <2>2 DEF SendSides
  <1>4. /\ pc'[p] = "started" /\ \A q \in Procs \ {p} : pc'[q] = pc[q]
        /\ net' = net \cup { Message(p, d) : d \in SendSides(p) }
        /\ UNCHANGED <<step, fields, posted, sendbuf, recvbuf, pending, halo>>
        /\ \A q \in Procs \ {p} : active'[q] = active[q]
        /\ \A d \in SendSides(p) : SendSlot(d) \in active'[p]
    <2>1. active'[p] = active[p] \cup { SendSlot(d) : d \in SendSides(p) }
      BY <1>1 DEF DoSends, TypeOK
    <2> QED  BY <1>1, <2>1 DEF DoSends, TypeOK
  <1>5. /\ \A q \in Procs : Sent(q)' = IF q = p THEN step[p] ELSE Sent(q)
        /\ Sent(p) = step[p] - 1
        /\ \A q \in Procs : Sent(q) \in Int
    BY <1>1, <1>4 DEF Sent, TypeOK
  <1>6. \A q \in Procs, d \in Dirs : Got(q, d)' = Got(q, d)
    BY <1>1, <1>4 DEF Got, Before
  <1>7. ASSUME NEW m \in net', m \notin net
        PROVE  \E d \in Sides[p] : SendSize(d) # 0 /\ m = Message(p, d)
    BY <1>3, <1>4, <1>7
  <1>8. TypeOK'
    <2>1. ASSUME NEW d \in Sides[p] PROVE Message(p, d) \in Messages /\ SendSlot(d) \in Dirs
      <3>1. NotCopied \in Contents /\ Neighbour[p][d] \in Procs /\ d \in Dirs
        BY SideFacts, BorderFacts
      <3>2. Tag(SendSlot(d)) \in 0..26 /\ SendSlot(d) \in Dirs
        BY <3>1, SlotFacts
      <3> QED  BY <1>1, <1>2, <3>1, <3>2 DEF Message, Messages
    <2>2. net' \subseteq Messages
      BY <1>1, <1>7, <2>1 DEF TypeOK
    <2>3. active' \in [Procs -> SUBSET Dirs] /\ pc' \in [Procs -> Pcs]
      BY <1>1, <1>3, <2>1 DEF DoSends, TypeOK, Pcs
    <2> QED  BY <1>1, <1>4, <2>2, <2>3 DEF TypeOK
  <1>9. ASSUME NEW q \in Procs PROVE ProcessOK(q)'
    <2>1. CASE q = p
      BY <1>1, <1>4, <2>1
         DEF ProcessOK, StepOK, FieldsOK, SendBufOK, PendingOK, ActiveOK, RecvBufOK, HaloOK, During
    <2>2. CASE q # p
      BY <1>4, <2>2, ProcessFrame DEF IndInv
    <2> QED  BY <2>1, <2>2
  <1>10. ASSUME NEW m \in net' PROVE MessageOK(m)' /\ DataOK(m)'
    <2>1. CASE m \in net
      <3>1. /\ MessageOK(m) /\ m.src \in Procs /\ m.dst \in Procs /\ m.step \in Nat
            /\ Neg(m.buffer) \in Dirs
        BY <2>1, MessageFacts, DirFacts
      <3>2. Sent(m.src)' >= Sent(m.src)
        BY <1>1, <1>5, <3>1
      <3>3. m.step <= Sent(m.src)'
        BY <1>1, <1>5, <3>1, <3>2 DEF MessageOK
      <3>4. m.step > Got(m.dst, Neg(m.buffer))'
        BY <1>6, <3>1 DEF MessageOK
      <3>5. MessageOK(m)'
        BY <3>1, <3>3, <3>4 DEF MessageOK
      <3>6. DataOK(m)'
        BY <1>1, <1>4, <2>1, MessageFacts DEF DataOK
      <3> QED  BY <3>5, <3>6
    <2>2. CASE m \notin net
      <3>1. PICK d \in Sides[p] : SendSize(d) # 0 /\ m = Message(p, d)
        BY <1>7, <2>2
      <3>2. /\ m.src = p /\ m.buffer = d /\ m.dst = Neighbour[p][d] /\ m.step = step[p]
            /\ m.tag = Tag(SendSlot(d)) /\ m.fields = fields[p] /\ m.data = NotCopied
        BY <3>1 DEF Message
      <3>3. /\ d \in Dirs /\ Neighbour[p][d] \in Procs
            /\ Neg(d) \in Receives[Neighbour[p][d]] /\ Neighbour[Neighbour[p][d]][Neg(d)] = p
            /\ Neg(d) \in Dirs
        BY <3>1, SideFacts, SizeFacts, DirFacts DEF Receives
      <3>4. Got(Neighbour[p][d], Neg(d))' < step[p]
        <4>1. Got(Neighbour[p][d], Neg(d)) <= step[p] - 1
          BY <1>5, <3>3 DEF IndInv, NotAhead
        <4>2. Got(Neighbour[p][d], Neg(d)) \in Int
          BY <1>1, <3>3 DEF Got, TypeOK
        <4> QED  BY <1>1, <1>6, <3>3, <4>1, <4>2
      <3>5. MessageOK(m)'
        BY <1>1, <1>2, <1>4, <1>5, <3>1, <3>2, <3>4 DEF MessageOK
      <3>6. DataOK(m)'
        BY <1>3, <1>4, <3>1, <3>2 DEF DataOK
      <3> QED  BY <3>5, <3>6
    <2> QED  BY <2>1, <2>2
  <1>11. Unique'
    <2> SUFFICES ASSUME NEW m \in net', NEW n \in net',
                        m.src = n.src, m.buffer = n.buffer, m.step = n.step
                 PROVE  m = n
      BY DEF Unique
    <2>1. CASE m \in net /\ n \in net
      BY <2>1 DEF IndInv, Unique
    <2>2. ASSUME NEW o \in net, o.src = p PROVE o.step # step[p]
      BY <1>1, <1>5, <2>2, MessageFacts DEF MessageOK
    <2>3. ASSUME NEW o \in net', o \notin net
          PROVE  o.src = p /\ o.step = step[p] /\ o = Message(p, o.buffer)
      BY <1>7, <2>3 DEF Message
    <2> QED  BY <2>1, <2>2, <2>3
  <1>12. NoneLost'
    <2> SUFFICES ASSUME NEW q \in Procs, NEW d \in Receives[q], NEW k \in Underway(q, d)'
                 PROVE  \E m \in net' : m.src = Neighbour[q][d] /\ m.buffer = Neg(d) /\ m.step = k
      BY DEF NoneLost
    <2>1. /\ d \in Dirs /\ Neighbour[q][d] \in Procs
          /\ Neg(d) \in Sides[Neighbour[q][d]] /\ SendSize(Neg(d)) # 0
      BY SidesReceiving
    <2>2. CASE k \in Underway(q, d)
      BY <1>4, <2>2 DEF IndInv, NoneLost
    <2>3. CASE k \notin Underway(q, d)
      <3>1. k \in (Got(q, d) + 1) .. Sent(Neighbour[q][d])'
        BY <1>6, <2>1 DEF Underway
      <3>2. Neighbour[q][d] = p
        BY <1>5, <2>1, <2>3, <3>1 DEF Underway
      <3>3. k = step[p]
        BY <1>1, <1>5, <2>3, <3>1, <3>2 DEF Underway
      <3>4. Message(p, Neg(d)) \in net'
        BY <1>3, <1>4, <2>1, <3>2
      <3> QED  BY <3>2, <3>3, <3>4 DEF Message
    <2> QED  BY <2>2, <2>3
  <1>13. NotAhead'
    <2> SUFFICES ASSUME NEW q \in Procs, NEW d \in Receives[q]
                 PROVE  Got(q, d)' <= Sent(Neighbour[q][d])'
      BY DEF NotAhead
    <2>1. d \in Dirs /\ Neighbour[q][d] \in Procs
      BY SidesReceiving
    <2>2. Got(q, d) <= Sent(Neighbour[q][d]) /\ Got(q, d) \in Int
      BY <1>1 DEF IndInv, NotAhead, Got, TypeOK
    <2> QED  BY <1>1, <1>5, <1>6, <2>1, <2>2
  <1> QED  BY <1>8, <1>9, <1>10, <1>11, <1>12, <1>13 DEF IndInv

-----------------------------------------------------------------------------
(* The steps of MPI.                                                         *)

\* Whether copied or not, a message carries the border of its step.
LEMMA BytesFacts ==
    ASSUME IndInv, NEW m \in net
    PROVE  Bytes(m) = Border(m.src, m.buffer, m.step) /\ Bytes(m) \in Contents /\ Bytes(m) # NotCopied
  <1>1. Bytes(m) = Border(m.src, m.buffer, m.step)
    <2>1. DataOK(m) /\ m.buffer \in Sides[m.src] /\ ProcessOK(m.src)
      BY MessageFacts DEF IndInv
    <2> QED  BY <2>1 DEF Bytes, DataOK, ProcessOK, SendBufOK
  <1> QED  BY <1>1, MessageFacts, BorderFacts

LEMMA SendDoneFacts ==
    ASSUME IndInv, NEW m \in net, SendDone(m)
    PROVE  /\ active' \in [Procs -> SUBSET Dirs]
           /\ \A q \in Procs : active'[q] \subseteq active[q]
           /\ \A n \in net \ {m} : n.data = NotCopied => SendSlot(n.buffer) \in active'[n.src]
  <1>1. active \in [Procs -> SUBSET Dirs] /\ m.src \in Procs
    BY MessageFacts DEF IndInv, TypeOK
  <1>2. CASE m.data # NotCopied
    BY <1>1, <1>2, MessageFacts DEF SendDone, DataOK
  <1>3. CASE m.data = NotCopied
    <2>1. active' = [active EXCEPT ![m.src] = @ \ {SendSlot(m.buffer)}]
      BY <1>3 DEF SendDone
    <2>2. ASSUME NEW n \in net \ {m}, n.data = NotCopied
          PROVE  SendSlot(n.buffer) \in active'[n.src]
      <3>1. /\ n.src \in Procs /\ n.step = step[n.src] /\ SendSlot(n.buffer) \in active[n.src]
            /\ m.step = step[m.src]
            /\ n.buffer \in Dirs /\ m.buffer \in Dirs
        BY <1>3, <2>2, MessageFacts DEF DataOK
      <3>2. n.src = m.src => n.buffer # m.buffer
        BY <2>2, <3>1 DEF IndInv, Unique
      <3>3. n.src = m.src => SendSlot(n.buffer) # SendSlot(m.buffer)
        BY <3>1, <3>2, SlotFacts
      <3> QED  BY <1>1, <2>1, <3>1, <3>3
    <2> QED  BY <1>1, <2>1, <2>2
  <1> QED  BY <1>2, <1>3

LEMMA CopyKeeps == ASSUME IndInv, NEW m \in net, Copy(m) PROVE IndInv'
  <1> DEFINE c == [m EXCEPT !.data = Bytes(m)]
  <1>1. /\ net' = (net \ {m}) \cup {c}
        /\ UNCHANGED <<pc, step, fields, posted, sendbuf, recvbuf, pending, halo>>
        /\ SendDone(m) /\ m.data = NotCopied
    BY DEF Copy
  <1>2. /\ c \in Messages
        /\ c.src = m.src /\ c.dst = m.dst /\ c.tag = m.tag /\ c.buffer = m.buffer
        /\ c.step = m.step /\ c.fields = m.fields
        /\ c.data = Border(m.src, m.buffer, m.step) /\ c.data # NotCopied
    BY MessageFacts, BytesFacts DEF Messages
  <1> HIDE DEF c
  <1>3. TypeOK'
    BY <1>1, <1>2, SendDoneFacts DEF IndInv, TypeOK
  <1>4. ASSUME NEW q \in Procs PROVE ProcessOK(q)'
    <2>1. ProcessOK(q) /\ active'[q] \subseteq active[q]
      BY <1>1, SendDoneFacts DEF IndInv
    <2> QED  BY <1>1, <2>1
             DEF ProcessOK, StepOK, FieldsOK, SendBufOK, PendingOK, ActiveOK, RecvBufOK, HaloOK
  <1>5. /\ \A q \in Procs : Sent(q)' = Sent(q)
        /\ \A q \in Procs, d \in Dirs : Got(q, d)' = Got(q, d)
    BY <1>1 DEF Sent, Got
  <1>6. ASSUME NEW n \in net' PROVE MessageOK(n)' /\ DataOK(n)'
    <2>1. PICK o \in net : /\ o.src = n.src /\ o.dst = n.dst /\ o.tag = n.tag /\ o.fields = n.fields
                           /\ o.buffer = n.buffer /\ o.step = n.step
      BY <1>1, <1>2
    <2>2. MessageOK(o) /\ o.src \in Procs /\ o.dst \in Procs /\ Neg(o.buffer) \in Dirs
      BY MessageFacts, DirFacts
    <2>3. MessageOK(n)'
      BY <1>5, <2>1, <2>2 DEF MessageOK
    <2>4. CASE n = c
      BY <1>2, <2>3, <2>4 DEF DataOK
    <2>5. CASE n \in net \ {m}
      BY <1>1, <2>3, <2>5, SendDoneFacts, MessageFacts DEF DataOK
    <2> QED  BY <1>1, <2>4, <2>5
  <1>7. Unique'
    <2> SUFFICES ASSUME NEW x \in net', NEW y \in net',
                        x.src = y.src, x.buffer = y.buffer, x.step = y.step
                 PROVE  x = y
      BY DEF Unique
    <2>1. m.src = x.src /\ m.buffer = x.buffer /\ m.step = x.step =>
             \A z \in net : z.src = x.src /\ z.buffer = x.buffer /\ z.step = x.step => z = m
      BY DEF IndInv, Unique
    <2>2. CASE x = c \/ y = c
      BY <1>1, <1>2, <2>1, <2>2
    <2>3. CASE x \in net /\ y \in net
      BY <2>3 DEF IndInv, Unique
    <2> QED  BY <1>1, <2>2, <2>3
  <1>8. NoneLost'
    <2> SUFFICES ASSUME NEW q \in Procs, NEW d \in Receives[q], NEW k \in Underway(q, d)'
                 PROVE  \E n \in net' : n.src = Neighbour[q][d] /\ n.buffer = Neg(d) /\ n.step = k
      BY DEF NoneLost
    <2>1. k \in Underway(q, d)
      BY <1>5, SidesReceiving DEF Underway
    <2>2. PICK o \in net : o.src = Neighbour[q][d] /\ o.buffer = Neg(d) /\ o.step = k
      BY <2>1 DEF IndInv, NoneLost
    <2> QED  BY <1>1, <1>2, <2>2
  <1>9. NotAhead'
    BY <1>5, SidesReceiving DEF IndInv, NotAhead
  <1> QED  BY <1>3, <1>4, <1>6, <1>7, <1>8, <1>9 DEF IndInv

\* A message that can be received is the one the receiver is waiting for.
LEMMA MatchFacts ==
    ASSUME IndInv, NEW m \in net, NEW d \in Sides[m.dst], First(m), Matches(m, d)
    PROVE  /\ d \in Dirs /\ d = Neg(m.buffer) /\ m.buffer = Neg(d) /\ d \in Receives[m.dst]
           /\ m.src = Neighbour[m.dst][d]
           /\ m.step = step[m.dst] /\ pc[m.dst] \in During
  <1>1. /\ MessageOK(m) /\ m.buffer \in Dirs /\ m.src \in Procs /\ m.dst \in Procs /\ m.step \in Nat
        /\ Neg(m.buffer) \in Receives[m.dst] /\ Neighbour[m.dst][Neg(m.buffer)] = m.src
    BY MessageFacts
  <1>2. d \in Dirs /\ Neg(d) \in Dirs /\ Neg(Neg(d)) = d
    BY <1>1, SideFacts, DirFacts
  <1>3. d = Neg(m.buffer) /\ m.buffer = Neg(d)
    <2>1. Tag(RecvSlot(d)) = Tag(SendSlot(m.buffer))
      BY <1>1 DEF Matches, MessageOK
    <2> QED  BY <1>1, <1>2, <2>1, SlotFacts, DirFacts
  <1>4. pc[m.dst] \in During /\ step[m.dst] \in Nat
    <2>1. RecvSlot(d) \in pending[m.dst] /\ ProcessOK(m.dst) /\ TypeOK
      BY <1>1 DEF Matches, IndInv
    <2> QED  BY <1>1, <2>1, ExchangeAssumption DEF ProcessOK, PendingOK, TypeOK
  <1>5. Got(m.dst, d) = step[m.dst] - 1
    BY DEF Matches, Got
  <1>6. m.step >= step[m.dst] /\ m.step <= Sent(m.src)
    BY <1>1, <1>3, <1>4, <1>5 DEF MessageOK
  <1>7. m.step <= step[m.dst]
    <2>1. Sent(m.src) \in Int
      BY <1>1, ExchangeAssumption DEF IndInv, TypeOK, Sent
    <2>2. step[m.dst] \in Underway(m.dst, d)
      BY <1>1, <1>3, <1>4, <1>5, <1>6, <2>1 DEF Underway
    <2>3. PICK n \in net : n.src = m.src /\ n.buffer = m.buffer /\ n.step = step[m.dst]
      BY <1>1, <1>3, <2>2 DEF IndInv, NoneLost
    <2>4. n.dst = m.dst /\ n.tag = m.tag
      BY <1>1, <2>3, MessageFacts DEF MessageOK
    <2> QED  BY <2>3, <2>4 DEF First
  <1>8. m.step = step[m.dst]
    BY <1>1, <1>4, <1>6, <1>7
  <1> QED  BY <1>1, <1>2, <1>3, <1>4, <1>8

LEMMA DeliverKeeps ==
    ASSUME IndInv, NEW m \in net, NEW d \in Sides[m.dst], Deliver(m, d)
    PROVE  IndInv'
  <1> DEFINE p == m.dst
  <1>1. /\ First(m) /\ Matches(m, d) /\ SendDone(m) /\ net' = net \ {m}
        /\ recvbuf' = [recvbuf EXCEPT ![p] = [@ EXCEPT ![d] = Bytes(m)]]
        /\ pending' = [pending EXCEPT ![p] = @ \ {RecvSlot(d)}]
        /\ UNCHANGED <<pc, step, fields, posted, sendbuf, halo>>
    BY DEF Deliver
  <1>2. /\ p \in Procs /\ d \in Dirs /\ d = Neg(m.buffer) /\ m.buffer = Neg(d) /\ d \in Receives[p]
        /\ m.src = Neighbour[p][d] /\ m.step = step[p] /\ pc[p] \in During
        /\ RecvSlot(d) \in pending[p]
    BY <1>1, MatchFacts, MessageFacts DEF Matches
  <1>3. Bytes(m) = Border(Neighbour[p][d], Neg(d), step[p]) /\ Bytes(m) \in Contents
    BY <1>2, BytesFacts
  <1>4. TypeOK /\ step[p] \in Nat
    BY <1>2, ExchangeAssumption DEF IndInv, TypeOK
  <1>5. /\ recvbuf'[p][d] = Bytes(m)
        /\ \A e \in Sides[p] \ {d} : recvbuf'[p][e] = recvbuf[p][e]
        /\ pending'[p] = pending[p] \ {RecvSlot(d)}
        /\ \A q \in Procs \ {p} : recvbuf'[q] = recvbuf[q] /\ pending'[q] = pending[q]
    BY <1>1, <1>2, <1>4 DEF TypeOK
  <1> HIDE DEF p
  <1>6. TypeOK'
    <2>1. pending' \in [Procs -> SUBSET Dirs] /\ DOMAIN recvbuf' = Procs
      BY <1>1, <1>2, <1>4 DEF TypeOK
    <2>2. recvbuf'[p] \in [Sides[p] -> Contents]
      BY <1>1, <1>2, <1>3, <1>4 DEF TypeOK
    <2>3. \A q \in Procs : recvbuf'[q] \in [Sides[q] -> Contents]
      BY <1>4, <1>5, <2>2 DEF TypeOK
    <2> QED  BY <1>1, <1>4, <2>1, <2>3, SendDoneFacts DEF TypeOK
  <1>7. ASSUME NEW q \in Procs PROVE ProcessOK(q)'
    <2>1. ProcessOK(q) /\ active'[q] \subseteq active[q] /\ pending'[q] \subseteq pending[q]
      BY <1>1, <1>5, SendDoneFacts DEF IndInv
    <2>2. RecvBufOK(q)'
      <3>1. CASE q # p
        BY <1>1, <1>5, <2>1, <3>1 DEF ProcessOK, RecvBufOK
      <3>2. CASE q = p
        <4> SUFFICES ASSUME NEW e \in Receives[p], RecvSlot(e) \notin pending'[p]
                     PROVE  recvbuf'[p][e] = Border(Neighbour[p][e], Neg(e), step[p])
          BY <1>1, <3>2 DEF RecvBufOK
        <4>1. CASE e = d
          BY <1>3, <1>5, <4>1
        <4>2. CASE e # d
          <5>1. e \in Sides[p] /\ e \in Dirs
            BY <1>2, SidesReceiving
          <5>2. RecvSlot(e) \notin pending[p]
            BY <1>2, <1>5, <4>2, <5>1, SlotFacts
          <5> QED  BY <1>2, <1>5, <2>1, <3>2, <4>2, <5>1, <5>2 DEF ProcessOK, RecvBufOK
        <4> QED  BY <4>1, <4>2
      <3> QED  BY <3>1, <3>2
    <2> QED  BY <1>1, <2>1, <2>2
             DEF ProcessOK, StepOK, FieldsOK, SendBufOK, PendingOK, ActiveOK, HaloOK
  <1>8. \A q \in Procs : Sent(q)' = Sent(q)
    BY <1>1 DEF Sent
  <1>9. /\ Got(p, d) = step[p] - 1
        /\ Got(p, d)' = step[p]
        /\ \A q \in Procs, e \in Dirs : q # p \/ e # d => Got(q, e)' = Got(q, e)
    <2>1. Got(p, d) = step[p] - 1 /\ Got(p, d)' = step[p]
      BY <1>1, <1>2, <1>5 DEF Got, Before, During
    <2>2. \A e \in Dirs : e # d => (RecvSlot(e) \in pending'[p] <=> RecvSlot(e) \in pending[p])
      BY <1>2, <1>5, SlotFacts
    <2> QED  BY <1>1, <1>5, <2>1, <2>2 DEF Got
  <1>10. ASSUME NEW n \in net' PROVE MessageOK(n)' /\ DataOK(n)'
    <2>1. /\ n \in net \ {m} /\ MessageOK(n) /\ DataOK(n)
          /\ n.src \in Procs /\ n.dst \in Procs /\ n.step \in Nat /\ n.buffer \in Dirs
          /\ Neg(n.buffer) \in Dirs /\ Neighbour[n.dst][Neg(n.buffer)] = n.src
          /\ Neg(Neg(n.buffer)) = n.buffer
      BY <1>1, MessageFacts, DirFacts
    <2>2. n.step > Got(n.dst, Neg(n.buffer))'
      <3>1. CASE n.dst # p \/ Neg(n.buffer) # d
        BY <1>9, <2>1, <3>1 DEF MessageOK
      <3>2. CASE n.dst = p /\ Neg(n.buffer) = d
        <4>1. n.src = m.src /\ n.buffer = m.buffer
          BY <1>2, <2>1, <3>2
        <4>2. n.step # step[p]
          BY <1>2, <2>1, <4>1 DEF IndInv, Unique
        <4>3. n.step > step[p] - 1
          BY <1>9, <2>1, <3>2 DEF MessageOK
        <4> QED  BY <1>4, <1>9, <2>1, <3>2, <4>2, <4>3
      <3> QED  BY <3>1, <3>2
    <2>3. MessageOK(n)'
      BY <1>8, <2>1, <2>2 DEF MessageOK
    <2>4. DataOK(n)'
      BY <1>1, <2>1, SendDoneFacts DEF DataOK
    <2> QED  BY <2>3, <2>4
  <1>11. Unique'
    BY <1>1 DEF IndInv, Unique
  <1>12. NoneLost'
    <2> SUFFICES ASSUME NEW q \in Procs, NEW e \in Receives[q], NEW k \in Underway(q, e)'
                 PROVE  \E n \in net' : n.src = Neighbour[q][e] /\ n.buffer = Neg(e) /\ n.step = k
      BY DEF NoneLost
    <2>1. /\ e \in Dirs /\ Neighbour[q][e] \in Procs /\ Neg(e) \in Dirs /\ Neg(Neg(e)) = e
          /\ Neighbour[Neighbour[q][e]][Neg(e)] = q
      BY SidesReceiving
    <2>2. k \in (Got(q, e)' + 1) .. Sent(Neighbour[q][e])
      BY <1>8, <2>1 DEF Underway
    <2>3. Got(q, e) \in Int /\ Got(q, e)' >= Got(q, e) /\ Got(q, e)' \in Int
      <3>1. Got(q, e) \in Int
        BY <1>4, ExchangeAssumption DEF Got, TypeOK
      <3> QED  BY <1>4, <1>9, <2>1, <3>1
    <2>4. k \in Underway(q, e)
      BY <2>2, <2>3 DEF Underway
    <2>5. PICK n \in net : n.src = Neighbour[q][e] /\ n.buffer = Neg(e) /\ n.step = k
      BY <2>4 DEF IndInv, NoneLost
    <2>6. n # m
      <3> SUFFICES ASSUME n = m PROVE FALSE
        OBVIOUS
      <3>1. e = d
        BY <1>2, <2>1, <2>5
      <3>2. m.dst = q
        BY <2>1, <2>5, MessageFacts DEF MessageOK
      <3> QED  BY <1>2, <1>4, <1>9, <2>2, <2>3, <2>5, <3>1, <3>2 DEF p
    <2> QED  BY <1>1, <2>5, <2>6
  <1>13. NotAhead'
    <2>1. step[p] <= Sent(Neighbour[p][d])
      BY <1>2, MessageFacts DEF MessageOK
    <2> QED  BY <1>8, <1>9, <2>1, SidesReceiving DEF IndInv, NotAhead
  <1> QED  BY <1>6, <1>7, <1>10, <1>11, <1>12, <1>13 DEF IndInv

-----------------------------------------------------------------------------
(* The invariant, and what follows from it.                                  *)

LEMMA NextKeeps == IndInv /\ [Next]_vars => IndInv'
  <1> SUFFICES ASSUME IndInv, [Next]_vars PROVE IndInv'
    OBVIOUS
  <1>1. ASSUME NEW p \in Procs, Run(p) PROVE IndInv'
    BY <1>1, ComputeKeeps, PackKeeps, PostReceivesKeeps, DoSendsKeeps, WaitForSendsKeeps,
       WaitForReceivesKeeps, UnpackKeeps DEF Run
  <1>2. ASSUME NEW p \in Procs, DeliverTo(p) PROVE IndInv'
    BY <1>2, DeliverKeeps DEF DeliverTo
  <1>3. ASSUME NEW m \in net, Copy(m) PROVE IndInv'
    BY <1>3, CopyKeeps
  <1>4. CASE UNCHANGED vars
    <2>1. /\ UNCHANGED <<pc, step, fields, posted, sendbuf, recvbuf, pending, active, net, halo>>
      BY <1>4 DEF vars
    <2>2. /\ \A q \in Procs : Sent(q)' = Sent(q)
          /\ \A q \in Procs : \A d \in Receives[q] : Got(q, d)' = Got(q, d)
      BY <2>1 DEF Sent, Got
    <2>3. \A q \in Procs : ProcessOK(q)'
      BY <2>1, ProcessFrame DEF IndInv
    <2>4. (\A m \in net : MessageOK(m) /\ DataOK(m))' /\ Unique' /\ NoneLost' /\ NotAhead'
      BY <2>1, <2>2, NetFrame DEF IndInv, DataOK
    <2> QED  BY <2>1, <2>3, <2>4 DEF IndInv, TypeOK
  <1> QED  BY <1>1, <1>2, <1>3, <1>4 DEF Next, Terminate

(* The invariant holds in every state the exchange can reach: the messages   *)
(* between two processes are exactly the borders one has sent and the other  *)
(* has not received, each of them once.                                      *)
THEOREM Invariance == Spec => []IndInv
  BY InitInv, NextKeeps, PTL DEF Spec

(* Every variable keeps its type; no process outside the grid is addressed.  *)
THEOREM TypeCorrect == Spec => []TypeOK
  BY Invariance, PTL DEF IndInv

(* A process computes with the borders its neighbours packed after the same  *)
(* number of steps, on every grid and for every pattern of delivery.         *)
THEOREM HalosAreCurrent == Spec => []HalosCurrent
  <1>1. IndInv => HalosCurrent
    <2> SUFFICES ASSUME IndInv, NEW p \in Procs, pc[p] = "computing", step[p] > 0,
                        NEW d \in RecvSides(p)
                 PROVE  halo[p][d] = Border(Neighbour[p][d], Neg(d), step[p])
      BY DEF HalosCurrent
    <2> QED  BY ReceivingAll DEF IndInv, ProcessOK, HaloOK
  <1> QED  BY <1>1, Invariance, PTL

(* No message is longer than the receive it meets, although the two sides    *)
(* compute its length each from their own halos and number of fields.        *)
THEOREM NothingTruncated == Spec => []NoTruncation
  <1>1. IndInv => NoTruncation
    <2> SUFFICES ASSUME IndInv, NEW m \in net, NEW d \in Sides[m.dst], First(m), Matches(m, d)
                 PROVE  SendSize(m.buffer) * m.fields <= RecvSize(d) * posted[m.dst]
      BY DEF NoTruncation
    <2>1. /\ d \in Dirs /\ m.buffer = Neg(d) /\ d \in Receives[m.dst] /\ m.dst \in Procs
          /\ m.step = step[m.dst] /\ pc[m.dst] \in During /\ MessageOK(m)
      BY MatchFacts, MessageFacts
    <2>2. SendSize(m.buffer) = RecvSize(d) /\ RecvSize(d) \in Nat
      BY <2>1, SidesReceiving, SizeFacts
    <2>3. m.fields <= posted[m.dst] /\ m.fields \in Nat /\ posted[m.dst] \in Nat
      <3>1. m.fields = FieldsOf[step[m.dst]] /\ step[m.dst] \in 1..MaxStep
        BY <2>1, ExchangeAssumption DEF MessageOK, IndInv, TypeOK, ProcessOK, StepOK, During
      <3> QED  BY <2>1, <3>1, ExchangeAssumption DEF IndInv, TypeOK, ProcessOK, PendingOK
    <2>4. \A x, y, z \in Nat : y <= z => x * y <= x * z
      OBVIOUS
    <2> QED  BY <2>2, <2>3, <2>4
  <1> QED  BY <1>1, Invariance, PTL

(* No request is open and no buffer in use by MPI between two exchanges.     *)
THEOREM QuietBetween == Spec => []QuietBetweenExchanges
  <1>1. IndInv => QuietBetweenExchanges
    BY MessageFacts DEF IndInv, QuietBetweenExchanges, ProcessOK, PendingOK, ActiveOK, DataOK, During
  <1> QED  BY <1>1, Invariance, PTL

(* No process runs more than one step ahead of a neighbour it hears from.    *)
THEOREM InStep == Spec => []NeighboursInStep
  <1>1. IndInv => NeighboursInStep
    <2> SUFFICES ASSUME IndInv, NEW p \in Procs, NEW d \in Receives[p]
                 PROVE  step[p] <= step[Neighbour[p][d]] + 1
      BY DEF NeighboursInStep
    <2>1. Neighbour[p][d] \in Procs /\ Got(p, d) <= Sent(Neighbour[p][d])
      BY SidesReceiving DEF IndInv, NotAhead
    <2> QED  BY <2>1, ExchangeAssumption DEF IndInv, TypeOK, Got, Sent
  <1> QED  BY <1>1, Invariance, PTL

(* No step overwrites a border MPI still has to copy, nor one received and   *)
(* not yet unpacked.                                                         *)
THEOREM BuffersAreKept == Spec => AlwaysBuffersKept
  <1>1. IndInv /\ [Next]_vars => [BuffersKept]_vars
    <2> SUFFICES ASSUME IndInv, Next PROVE BuffersKept
      OBVIOUS
    <2>1. ASSUME NEW m \in net, m.data = NotCopied
          PROVE  sendbuf'[m.src][m.buffer] = sendbuf[m.src][m.buffer]
      <3>1. pc[m.src] = "started" /\ m.src \in Procs
        BY <2>1, MessageFacts DEF DataOK
      <3>2. ASSUME NEW p \in Procs, Pack(p) PROVE sendbuf'[m.src] = sendbuf[m.src]
        BY <3>1, <3>2 DEF Pack, IndInv, TypeOK
      <3> QED  BY <3>2 DEF Next, Run, DeliverTo, Terminate, vars, Compute, PostReceives, DoSends,
                       WaitForSends, WaitForReceives, Unpack, Copy, Deliver
    <2>2. ASSUME NEW p \in Procs, pc[p] = "received" PROVE recvbuf'[p] = recvbuf[p]
      <3>1. ASSUME NEW m \in net, NEW d \in Sides[m.dst], Deliver(m, d)
            PROVE  recvbuf'[p] = recvbuf[p]
        <4>1. pc[m.dst] \in During
          BY <3>1, MatchFacts DEF Deliver
        <4> QED  BY <2>2, <3>1, <4>1 DEF Deliver, During, IndInv, TypeOK
      <3> QED  BY <3>1 DEF Next, Run, DeliverTo, Terminate, vars, Compute, Pack, PostReceives, DoSends,
                       WaitForSends, WaitForReceives, Unpack, Copy
    <2> QED  BY <2>1, <2>2 DEF BuffersKept
  <1> QED  BY <1>1, Invariance, PTL DEF Spec, AlwaysBuffersKept

-----------------------------------------------------------------------------
(* The refinement: DoSends makes a border available, Unpack gets on with the *)
(* ones received, and every other step is invisible to NeighbourSync.        *)

LEMMA SyncUnchanged ==
    ASSUME \A p \in Procs : /\ Sent(p)' = Sent(p) /\ halo'[p] = halo[p]
                            /\ pc'[p] \in {"started", "sent", "received"} <=>
                               pc[p] \in {"started", "sent", "received"}
    PROVE  UNCHANGED Sync!vars
  BY DEF Sync!vars

LEMMA SyncInit == Init => Sync!Init
  <1> SUFFICES ASSUME Init PROVE Sync!Init
    OBVIOUS
  <1>1. \A p \in Procs : Sent(p) = 0
    BY DEF Init, Sent
  <1>2. \A p \in Procs : \A d \in Receives[p] : halo[p][d].step = 0
    BY SidesReceiving DEF Init, Empty, Border
  <1>3. [p \in Procs |-> Sent(p)] = [p \in Procs |-> 0]
    BY <1>1
  <1>4. { p \in Procs : pc[p] \in {"started", "sent", "received"} } = {}
    BY DEF Init
  <1>5. [p \in Procs |-> [d \in Receives[p] |-> halo[p][d].step]] =
        [p \in Procs |-> [d \in Receives[p] |-> 0]]
    BY <1>2
  <1> QED  BY <1>3, <1>4, <1>5 DEF Sync!Init

LEMMA SyncPublish ==
    ASSUME IndInv, NEW p \in Procs, DoSends(p)
    PROVE  Sync!Publish(p)
  <1>1. /\ pc[p] = "prepared" /\ pc' = [pc EXCEPT ![p] = "started"]
        /\ UNCHANGED <<step, halo>> /\ TypeOK /\ MaxStep \in Nat /\ step[p] \in 0..MaxStep
    BY ExchangeAssumption DEF DoSends, IndInv, TypeOK
  <1>2. \A q \in Procs : pc'[q] = IF q = p THEN "started" ELSE pc[q]
    BY <1>1 DEF TypeOK
  <1>3. \A q \in Procs : Sent(q)' = IF q = p THEN Sent(p) + 1 ELSE Sent(q)
    BY <1>1, <1>2 DEF Sent
  <1>4. Sent(p) < MaxStep
    BY <1>1 DEF Sent
  <1>5. [q \in Procs |-> Sent(q)'] = [[q \in Procs |-> Sent(q)] EXCEPT ![p] = @ + 1]
    BY <1>3
  <1>6. /\ p \notin { q \in Procs : pc[q] \in {"started", "sent", "received"} }
        /\ { q \in Procs : pc'[q] \in {"started", "sent", "received"} } =
           { q \in Procs : pc[q] \in {"started", "sent", "received"} } \cup {p}
    BY <1>1, <1>2
  <1> QED  BY <1>1, <1>4, <1>5, <1>6 DEF Sync!Publish

LEMMA SyncFinish ==
    ASSUME IndInv, NEW p \in Procs, Unpack(p)
    PROVE  Sync!Finish(p)
  <1>1. /\ pc[p] = "received" /\ pc' = [pc EXCEPT ![p] = "computing"] /\ step' = step
        /\ TypeOK /\ ProcessOK(p) /\ step[p] > 0
    BY DEF Unpack, IndInv, ProcessOK, StepOK
  <1>2. \A q \in Procs : pc'[q] = IF q = p THEN "computing" ELSE pc[q]
    BY <1>1 DEF TypeOK
  <1>3. Sent(p) = step[p] /\ \A q \in Procs : Sent(q)' = Sent(q)
    BY <1>1, <1>2 DEF Sent
  <1>4. pending[p] = {}
    BY <1>1 DEF ProcessOK, PendingOK, During
  <1>5. \A d \in Receives[p] : Sent(Neighbour[p][d]) >= Sent(p)
    <2> SUFFICES ASSUME NEW d \in Receives[p] PROVE Sent(Neighbour[p][d]) >= Sent(p)
      OBVIOUS
    <2>1. Got(p, d) = step[p] /\ Neighbour[p][d] \in Procs
      BY <1>1, <1>4, SidesReceiving DEF Got, Before
    <2>2. step[p] <= Sent(Neighbour[p][d])
      BY <2>1 DEF IndInv, NotAhead
    <2>3. step[p] \in Int /\ Sent(Neighbour[p][d]) \in Int
      BY <1>1, <2>1, ExchangeAssumption DEF TypeOK, Sent
    <2> QED  BY <1>3, <2>2, <2>3
  <1>6. /\ \A d \in Receives[p] : halo'[p][d].step = step[p]
        /\ \A q \in Procs \ {p} : halo'[q] = halo[q]
    <2>1. RecvSides(p) = Receives[p]
      BY <1>1, ReceivingAll
    <2>2. /\ \A d \in Receives[p] : halo'[p][d] = recvbuf[p][d]
          /\ \A q \in Procs \ {p} : halo'[q] = halo[q]
      BY <1>1, <2>1, SidesReceiving DEF Unpack, TypeOK
    <2>3. \A d \in Receives[p] : recvbuf[p][d].step = step[p]
      <3>0. \A q, d, n : Border(q, d, n).step = n
        BY DEF Border
      <3>1. \A d \in Receives[p] : recvbuf[p][d] = Border(Neighbour[p][d], Neg(d), step[p])
        BY <1>1, <1>4 DEF ProcessOK, RecvBufOK
      <3> QED  BY <3>0, <3>1
    <2> QED  BY <2>2, <2>3
  <1>7. [q \in Procs |-> [d \in Receives[q] |-> halo'[q][d].step]] =
        [[q \in Procs |-> [d \in Receives[q] |-> halo[q][d].step]]
            EXCEPT ![p] = [d \in Receives[p] |-> Sent(p)]]
    BY <1>3, <1>6
  <1>8. { q \in Procs : pc'[q] \in {"started", "sent", "received"} } =
        { q \in Procs : pc[q] \in {"started", "sent", "received"} } \ {p}
    BY <1>2
  <1>9. [q \in Procs |-> Sent(q)'] = [q \in Procs |-> Sent(q)]
    BY <1>3
  <1>10. p \in { q \in Procs : pc[q] \in {"started", "sent", "received"} }
    BY <1>1
  <1>11. \A d \in Receives[p] : [q \in Procs |-> Sent(q)][Neighbour[p][d]] >= [q \in Procs |-> Sent(q)][p]
    BY <1>5, SidesReceiving
  <1>12. [d \in Receives[p] |-> [q \in Procs |-> Sent(q)][p]] = [d \in Receives[p] |-> Sent(p)]
    OBVIOUS
  <1> QED  BY <1>7, <1>8, <1>9, <1>10, <1>11, <1>12 DEF Sync!Finish

(* Every behaviour of the exchange is one of NeighbourSync: a process waits  *)
(* for the neighbours it receives from, and gets exactly their borders.      *)
THEOREM Synchronises == Spec => Sync!Spec
  <1>1. IndInv /\ [Next]_vars => [Sync!Next]_(Sync!vars)
    <2> SUFFICES ASSUME IndInv, [Next]_vars, ~ UNCHANGED Sync!vars PROVE Sync!Next
      OBVIOUS
    <2>1. TypeOK /\ \A p \in Procs : ProcessOK(p)
      BY DEF IndInv
    <2>2. ASSUME NEW p \in Procs,
                 Compute(p) \/ Pack(p) \/ PostReceives(p) \/ WaitForSends(p) \/ WaitForReceives(p)
          PROVE  UNCHANGED Sync!vars
      <3>1. ASSUME NEW q \in Procs
            PROVE  /\ Sent(q)' = Sent(q) /\ halo'[q] = halo[q]
                   /\ pc'[q] \in {"started", "sent", "received"} <=>
                      pc[q] \in {"started", "sent", "received"}
        BY <2>1, <2>2, ExchangeAssumption
           DEF Compute, Pack, PostReceives, WaitForSends, WaitForReceives, TypeOK, Sent
      <3> QED  BY <3>1, SyncUnchanged
    <2>3. ASSUME UNCHANGED <<pc, step, halo>> PROVE UNCHANGED Sync!vars
      BY <2>3, SyncUnchanged DEF Sent
    <2>4. ASSUME NEW p \in Procs, Run(p) PROVE Sync!Next
      BY <2>2, <2>4, SyncPublish, SyncFinish DEF Run, Sync!Next
    <2> QED  BY <2>3, <2>4 DEF Next, DeliverTo, Deliver, Copy, Terminate, vars
  <1> QED  BY <1>1, SyncInit, Invariance, PTL DEF Spec, Sync!Spec
=============================================================================
