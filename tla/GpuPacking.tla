----------------------------- MODULE GpuPacking -----------------------------
(* The halo exchange of one process whose fields are in the memory of a GPU: *)
(* hndlr_dynamic_ut<..., gpu> (gcl/high_level/descriptors_manual_gpu.hpp)    *)
(* and hndlr_generic<..., gpu> (descriptor_generic_manual.hpp).              *)
(*                                                                           *)
(* The host enqueues kernels and goes on.  The GPU runs one kernel after the *)
(* other (they are all launched on the default stream), but the blocks of a  *)
(* kernel in any order.  pack waits for the GPU before it returns, unpack    *)
(* does not.  Then, and only then, the messages are exchanged.               *)
(*                                                                           *)
(* The neighbours are represented by what they send: the messages the CPU    *)
(* handlers pack, to which those of this process are compared.  An element   *)
(* is represented by whose it is, where it is, and after which compute step  *)
(* it was computed.                                                          *)
EXTENDS GpuKernels, Sequences, FiniteSets, SequencesExt

CONSTANTS Layout,       \* the data axis behind each grid axis
          HaloExample,  \* the halos setup() is called with
          FieldHalos,   \* the halos of each field in the generic exchange
          MaxStep       \* bound: how many steps the process makes

HaloTypes == [Axes -> [minus : Nat, plus : Nat, begin : Nat, end : Nat, total : Nat]]

ASSUME PackingAssumption ==
    /\ Layout \in [Axes -> Axes]
    /\ \A a, b \in Axes : Layout[a] = Layout[b] => a = b
    /\ HaloExample \in HaloTypes /\ FieldHalos \in Seq(HaloTypes)
    /\ \A a \in Axes : /\ IsHalo(HaloExample[a])
                       /\ \A f \in DOMAIN FieldHalos : IsHalo(FieldHalos[f][a])
    /\ MaxStep \in Nat

VARIABLES proc,      \* the process
          generic,   \* whether its exchange is the generic one
          pc,        \* what its host does next
          step,      \* how many times it has computed
          queue,     \* the kernels launched and not yet finished
          left,      \* the blocks of the first of them that have not run
          fields,    \* the elements of each field
          sendbuf,   \* d_send_buffer, by direction of the data
          recvbuf    \* d_recv_buffer, by direction of the data

vars == <<proc, generic, pc, step, queue, left, fields, sendbuf, recvbuf>>

-----------------------------------------------------------------------------
(* Sizes and places.                                                         *)
Own == DOMAIN FieldHalos
HalosOf(f) == IF generic THEN FieldHalos[f] ELSE HaloExample

Side(d) == HasNbr(proc, [a \in Axes |-> d[Layout[a]]])
Sides   == { d \in Dirs : Side(d) }

Towards(a, i) == [Here EXCEPT ![a] = i]

\* send_buffer_size and recv_buffer_size.
Size(packs, hs, d) ==
    LET n(a) == IF packs THEN SLength(hs[a], d[a]) ELSE RLength(hs[a], d[a])
    IN  n(1) * n(2) * n(3)

\* send_size and recv_size.
SetupSize(packs, d) == IF Side(d) THEN Size(packs, HaloExample, d) ELSE 0

\* Mutant: the borders of a side without neighbour stay switched on.
TrimmedNot(packs, hs) == hs

\* dangeroushalo and dangeroushalo_r: a border is switched off where there is
\* no neighbour to send it to, or to receive it from.
Trimmed(packs, hs) ==
    [a \in Axes |-> [hs[a] EXCEPT
        !.minus = IF Side(Towards(a, IF packs THEN 1 ELSE -1)) THEN @ ELSE 0,
        !.plus  = IF Side(Towards(a, IF packs THEN -1 ELSE 1)) THEN @ ELSE 0]]

\* Mutant: the parts of two fields overlap in the generic exchange.
PlaceWithoutPrefix(packs, f, d) == (f - 1) * SetupSize(packs, d)

\* prefix_send_size and prefix_recv_size: what the first f fields need.
Prefix(packs, d) ==
    LET upTo[f \in 0..Len(FieldHalos)] ==
            IF f = 0 THEN 0 ELSE upTo[f - 1] + Size(packs, Trimmed(packs, FieldHalos[f]), d)
    IN  upTo

\* Where the part of field f begins in the message of direction d.
Place(packs, f, d) == IF generic THEN Prefix(packs, d)[f - 1] ELSE (f - 1) * SetupSize(packs, d)

-----------------------------------------------------------------------------
(* The reference: the loops of the CPU (empty_field_no_dt::pack).            *)
Element(whose, at, n) == [from |-> whose, at |-> at, step |-> n]

\* The i-th element that the loops over a box of indices visit.
Visited(lo, size, i) ==
    << lo[1] + (i % size[1]), lo[2] + ((i \div size[1]) % size[2]), lo[3] + (i \div (size[1] * size[2])) >>

\* The elements of a field that are sent in direction d, in order.
Border(hs, d) ==
    LET size == [a \in Axes |-> SLength(hs[a], d[a])]
        lo   == [a \in Axes |-> IF d[a] = 1 THEN hs[a].end - hs[a].minus + 1 ELSE hs[a].begin]
    IN  [i \in 1..Size(TRUE, hs, d) |-> Visited(lo, size, i - 1)]

\* The message a process on the CPU sends in direction d after step n.
CpuMessage(whose, d, n) ==
    FlattenSeq([f \in Own |-> [i \in DOMAIN Border(HalosOf(f), d) |-> Element(whose, Border(HalosOf(f), d)[i], n)]])

-----------------------------------------------------------------------------
(* Launches.                                                                 *)
DynamicPacking   == <<m_packZL, m_packZU, m_packYL, m_packYU, m_packXL, m_packXU>>
DynamicUnpacking == <<m_unpackZL, m_unpackZU, m_unpackYL, m_unpackYU, m_unpackXL, m_unpackXU>>

\* hndlr_generic: pack and unpack trim the halos of every field (Trimmed), add up the
\* sizes in front of each (Place), and launch these for all fields at once.
GenericPacking   == <<m_packZL_generic, m_packZU_generic, m_packYL_generic,
                      m_packYU_generic, m_packXL_generic, m_packXU_generic>>
GenericUnpacking == <<m_unpackZL_generic, m_unpackZU_generic, m_unpackYL_generic,
                      m_unpackYU_generic, m_unpackXL_generic, m_unpackXU_generic>>

Launch(k, f) == [kernel |-> k, field |-> f]

\* Mutant: a launch without blocks is not left out.
LaunchesWithoutBlocks(kernels) ==
    LET Wanted(k) == SetupSize(k.packs, Towards(k.axis, k.side)) # 0
    IN  FlattenSeq([i \in DOMAIN kernels |->
                      IF Wanted(kernels[i]) THEN [f \in Own |-> Launch(kernels[i], f)] ELSE <<>>])

\* A face is left out if nothing is exchanged across it, a launch if it has
\* no blocks.
Launches(kernels) ==
    LET Wanted(k) == SetupSize(k.packs, Towards(k.axis, k.side)) # 0
        Each(k)   == FlattenSeq([f \in Own |->
                        IF Blocks(k, Trimmed(k.packs, HalosOf(f))) # {} THEN <<Launch(k, f)>> ELSE <<>>])
    IN  FlattenSeq([i \in DOMAIN kernels |-> IF Wanted(kernels[i]) THEN Each(kernels[i]) ELSE <<>>])

\* The program's own kernel, in one block.
Computation == Launch([axis |-> 0], 0)
Computes(l) == l.field = 0

BlocksOf(q) == IF q = <<>> THEN {}
               ELSE IF Computes(Head(q)) THEN { <<0, 0, 0>> }
               ELSE Blocks(Head(q).kernel, Trimmed(Head(q).kernel.packs, HalosOf(Head(q).field)))

\* Kernels are added to the end of the stream.
Enqueue(ls) == /\ queue' = queue \o ls
               /\ left' = IF queue = <<>> THEN BlocksOf(ls) ELSE left

Idle == queue = <<>>

-----------------------------------------------------------------------------
(* The host.                                                                 *)
Box(hs) == (0 .. hs[1].total - 1) \X (0 .. hs[2].total - 1) \X (0 .. hs[3].total - 1)

Inner(hs) == { x \in Box(hs) : \A a \in Axes : x[a] \in Inside(hs[a], 0) }

Buffers(packs) == [d \in Sides |-> [i \in 1..(Len(FieldHalos) * SetupSize(packs, d)) |-> Element(Here, Here, 0)]]

Init == /\ proc \in Procs
        /\ generic \in BOOLEAN
        /\ pc = "computing"
        /\ step = 0
        /\ queue = <<>>
        /\ left = {}
        /\ fields = [f \in Own |-> [x \in Box(HalosOf(f)) |-> Element(Here, x, 0)]]
        /\ sendbuf = Buffers(TRUE)
        /\ recvbuf = Buffers(FALSE)

Compute == /\ pc = "computing"
           /\ step < MaxStep
           /\ pc' = "ready"
           /\ step' = step + 1
           /\ Enqueue(<<Computation>>)
           /\ UNCHANGED <<proc, generic, fields, sendbuf, recvbuf>>

Pack == /\ pc = "ready"
        /\ pc' = "packing"
        /\ Enqueue(Launches(IF generic THEN GenericPacking ELSE DynamicPacking))
        /\ UNCHANGED <<proc, generic, step, fields, sendbuf, recvbuf>>

\* Mutant: pack returns at once.
DoNotSynchronize == /\ pc = "packing"
                    /\ pc' = "packed"
                    /\ UNCHANGED <<proc, generic, step, queue, left, fields, sendbuf, recvbuf>>

\* cudaDeviceSynchronize at the end of pack.
Synchronize == /\ pc = "packing"
               /\ Idle
               /\ pc' = "packed"
               /\ UNCHANGED <<proc, generic, step, queue, left, fields, sendbuf, recvbuf>>

\* start_exchange and wait, with what the neighbours send.  Nothing runs on the
\* GPU, so that it does not matter when each of the messages arrives.
Exchange ==
    /\ pc = "packed"
    /\ pc' = "exchanged"
    /\ recvbuf' = [d \in Sides |-> LET m == CpuMessage(d, Neg(d), step)
                                   IN  [i \in DOMAIN recvbuf[d] |-> IF i \in DOMAIN m THEN m[i] ELSE recvbuf[d][i]]]
    /\ UNCHANGED <<proc, generic, step, queue, left, fields, sendbuf>>

Unpack == /\ pc = "exchanged"
          /\ pc' = "computing"
          /\ Enqueue(Launches(IF generic THEN GenericUnpacking ELSE DynamicUnpacking))
          /\ UNCHANGED <<proc, generic, step, fields, sendbuf, recvbuf>>

-----------------------------------------------------------------------------
(* The GPU.                                                                  *)

\* What a thread accesses, with the position in the whole message.
AccessOf(l, t) ==
    LET x == Access(l.kernel, Trimmed(l.kernel.packs, HalosOf(l.field)), t)
    IN  [x EXCEPT !.slot = 1 + @ + (IF x.dir \in Sides THEN Place(l.kernel.packs, l.field, x.dir) ELSE 0)]

ThreadsOf(l, block) == Threads(l.kernel, Trimmed(l.kernel.packs, HalosOf(l.field)), block)

Accesses(l, block) == { AccessOf(l, t) : t \in ThreadsOf(l, block) }

ThreadsDone(block) ==
    /\ left' = IF left = {block} THEN BlocksOf(Tail(queue)) ELSE left \ {block}
    /\ queue' = IF left = {block} THEN Tail(queue) ELSE queue
    /\ UNCHANGED <<proc, generic, pc, step, recvbuf>>

RunPacking(block) ==
    LET l == Head(queue)
        A == Accesses(l, block)
    IN  /\ ~Computes(l) /\ l.kernel.packs
        /\ sendbuf' = [d \in Sides |->
              LET Written == { x \in A : x.dir = d }
              IN  [i \in DOMAIN sendbuf[d] |->
                     IF \E x \in Written : x.slot = i
                     THEN fields[l.field][(CHOOSE x \in Written : x.slot = i).at]
                     ELSE sendbuf[d][i]]]
        /\ UNCHANGED fields

RunUnpacking(block) ==
    LET l == Head(queue)
        A == Accesses(l, block)
    IN  /\ ~Computes(l) /\ ~l.kernel.packs
        /\ fields' = [fields EXCEPT ![l.field] =
              [at \in DOMAIN @ |-> IF \E x \in A : x.at = at
                                   THEN LET x == CHOOSE x \in A : x.at = at IN recvbuf[x.dir][x.slot]
                                   ELSE @[at]]]
        /\ UNCHANGED sendbuf

\* The program's kernel computes the elements inside for the next step.
StepOf(f) == fields[f][ [a \in Axes |-> HalosOf(f)[a].begin] ].step

RunComputation ==
    /\ Computes(Head(queue))
    /\ fields' = [f \in Own |-> [x \in DOMAIN fields[f] |->
                      IF x \in Inner(HalosOf(f)) THEN Element(Here, x, StepOf(f) + 1) ELSE fields[f][x]]]
    /\ UNCHANGED sendbuf

RunBlock(block) == /\ RunPacking(block) \/ RunUnpacking(block) \/ RunComputation
                   /\ ThreadsDone(block)

-----------------------------------------------------------------------------
Terminate == Idle /\ pc = "computing" /\ step = MaxStep /\ UNCHANGED vars

Host == Compute \/ Pack \/ Synchronize \/ Exchange \/ Unpack

Next == Host \/ (\E block \in left : RunBlock(block)) \/ Terminate

Spec == Init /\ [][Next]_vars

-----------------------------------------------------------------------------
\* What can be in the stream: the program's kernel, and those for a face, whose
\* blocks are one thread thick across it.
KernelTypes == { k \in [packs : BOOLEAN, generic : BOOLEAN, axis : Axes, side : {-1, 1},
                        threads : [Axes -> Nat \ {0}]] : k.threads[k.axis] = 1 }
LaunchTypes == {Computation} \cup [kernel : KernelTypes, field : Own]

(* Every variable keeps its type, the buffers their sizes, and a kernel has  *)
(* blocks left to run as long as it is under way.                            *)
TypeOK == /\ proc \in Procs /\ generic \in BOOLEAN
          /\ pc \in {"computing", "ready", "packing", "packed", "exchanged"}
          /\ step \in 0..MaxStep
          /\ queue \in Seq(LaunchTypes)
          /\ left \subseteq BlocksOf(queue)
          /\ queue # <<>> => left # {}
          /\ DOMAIN sendbuf = Sides /\ DOMAIN recvbuf = Sides
          /\ \A d \in Sides : /\ DOMAIN sendbuf[d] = 1..(Len(FieldHalos) * SetupSize(TRUE, d))
                              /\ DOMAIN recvbuf[d] = 1..(Len(FieldHalos) * SetupSize(FALSE, d))
          /\ DOMAIN fields = Own
          /\ \A f \in Own : DOMAIN fields[f] = Box(HalosOf(f))

(* What is sent is, element for element, what the loops of the CPU would     *)
(* have packed after the same step: a neighbour need not know where its      *)
(* neighbour packs (m_pack*, against empty_field_no_dt::pack).               *)
SentAsFromTheCpu ==
    pc = "packed" => \A d \in Sides : LET m == CpuMessage(Here, d, step)
                                      IN  SubSeq(sendbuf[d], 1, Len(m)) = m

\* The elements of a field after n steps and exchanges: those of the neighbours
\* in the halos that face them, and its own, unchanged, everywhere else.
Expected(f, n) ==
    LET hs == HalosOf(f)
        Facing(x) == { d \in Sides : \A a \in Axes : x[a] \in Outside(hs[a], d[a]) }
    IN  [x \in Box(hs) |->
           IF x \in Inner(hs) THEN Element(Here, x, n)
           ELSE IF n = 0 \/ Facing(x) = {} THEN Element(Here, x, 0)
           ELSE LET d == CHOOSE d \in Facing(x) : TRUE
                IN  Element(d, [a \in Axes |-> x[a] - d[a] * Length(hs[a])], n)]

(* Whenever the program's kernel is about to run, the halos hold what the    *)
(* neighbours computed in the step before, each element at its place, and    *)
(* nothing else has been written: although unpack does not wait.             *)
HalosAsExpected ==
    /\ queue # <<>> /\ Computes(Head(queue)) => \A f \in Own : fields[f] = Expected(f, step - 1)
    /\ Idle /\ pc = "computing" => \A f \in Own : fields[f] = Expected(f, step)

(* No thread of a kernel accesses a message that does not exist, or anything *)
(* beyond the end of one or of a field: also not in the corners, where two   *)
(* of three neighbours may be missing.                                       *)
WithinBuffers ==
    queue # <<>> /\ ~Computes(Head(queue)) =>
        LET l == Head(queue)
            buffers == IF l.kernel.packs THEN sendbuf ELSE recvbuf
        IN  \A block \in left : \A x \in Accesses(l, block) :
               /\ x.dir \in Sides
               /\ x.slot \in DOMAIN buffers[x.dir]
               /\ x.at \in DOMAIN fields[l.field]

(* No two threads of a kernel, in whatever blocks, write the same place: the *)
(* order of the blocks makes no difference.                                  *)
ThreadsApart ==
    queue # <<>> /\ ~Computes(Head(queue)) =>
        LET l == Head(queue)
            Written(x) == IF l.kernel.packs THEN <<x.dir, x.slot>> ELSE x.at
            All == UNION { ThreadsOf(l, block) : block \in BlocksOf(queue) }
        IN  Cardinality({ Written(AccessOf(l, t)) : t \in All }) = Cardinality(All)
-----------------------------------------------------------------------------
(* The inductive invariant behind TypeOK, WithinBuffers and ThreadsApart: no *)
(* kernel without blocks is launched, for none of its blocks would end it.   *)
LaunchesOK == \A n \in DOMAIN queue : BlocksOf(<<queue[n]>>) # {}
IndInv     == TypeOK /\ LaunchesOK

(* The inductive invariant behind SentAsFromTheCpu and HalosAsExpected, by   *)
(* what the threads that have not run yet will still write.                  *)
\* The threads of the n-th kernel of the stream that have not run.
Waiting(n) == UNION { ThreadsOf(queue[n], block) : block \in IF n = 1 THEN left ELSE BlocksOf(<<queue[n]>>) }

\* In which order the kernels of one turn of the program are in the stream.
Order(l) == IF Computes(l) THEN 1 ELSE IF l.kernel.packs THEN 2 ELSE 0

\* Still to be written: an element of a halo, and one of a message.
Unwritten(f, x) == \E n \in DOMAIN queue : /\ Order(queue[n]) = 0 /\ queue[n].field = f
                                           /\ \E t \in Waiting(n) : AccessOf(queue[n], t).at = x
Unsent(d, slot) == \E n \in DOMAIN queue : /\ Order(queue[n]) = 2
                                           /\ \E t \in Waiting(n) : /\ AccessOf(queue[n], t).dir = d
                                                                   /\ AccessOf(queue[n], t).slot = slot

\* The step up to which the elements inside are computed, the halos unpacked (or
\* about to be), and the messages received.
Computed  == IF \E n \in DOMAIN queue : Computes(queue[n]) THEN step - 1 ELSE step
Unpacked  == IF pc = "computing" THEN step ELSE step - 1
Exchanged == IF pc \in {"computing", "exchanged"} THEN step ELSE step - 1

InOrder == /\ \A m, n \in DOMAIN queue : m < n => \/ Order(queue[m]) < Order(queue[n])
                                                  \/ Order(queue[m]) = Order(queue[n]) /\ Order(queue[n]) # 1
           /\ pc \in {"packed", "exchanged"} => queue = <<>>
           /\ pc = "computing" => \A n \in DOMAIN queue : Order(queue[n]) = 0
           /\ pc = "ready" => \A n \in DOMAIN queue : Order(queue[n]) # 2
           /\ pc # "computing" => step > 0
           /\ (\E n \in DOMAIN queue : Order(queue[n]) = 0) => Exchanged > 0

InsideOK == \A f \in Own : \A x \in Inner(HalosOf(f)) : fields[f][x] = Element(Here, x, Computed)

OutsideOK == \A f \in Own : \A x \in Box(HalosOf(f)) \ Inner(HalosOf(f)) :
                fields[f][x] = Expected(f, Unpacked)[x] \/ Unwritten(f, x)

SentOK == pc \in {"packing", "packed"} =>
    \A d \in Sides, f \in Own : \A i \in DOMAIN Border(HalosOf(f), d) :
        \/ sendbuf[d][Place(TRUE, f, d) + i] = Element(Here, Border(HalosOf(f), d)[i], step)
        \/ Unsent(d, Place(TRUE, f, d) + i)

ReceivedOK == Exchanged > 0 =>
    \A d \in Sides, f \in Own : \A i \in DOMAIN Border(HalosOf(f), Neg(d)) :
        recvbuf[d][Place(FALSE, f, d) + i] = Element(d, Border(HalosOf(f), Neg(d))[i], Exchanged)

FieldsOK == \A f \in Own : fields[f] = [x \in DOMAIN fields[f] |-> fields[f][x]]

\* What HalosAsExpected needs; SentAsFromTheCpu needs SentOK as well.
HalosInv == IndInv /\ InOrder /\ InsideOK /\ OutsideOK /\ ReceivedOK /\ FieldsOK
=============================================================================
