---------------------------- MODULE HaloExchange ----------------------------
(* The halo exchange of gcl/: hndlr_dynamic_ut (high_level/descriptors.hpp)  *)
(* packs the borders of a process's fields into one buffer per direction,    *)
(* Halo_Exchange_3D (low_level/Halo_Exchange_3D.hpp) sends them to the up to *)
(* 26 neighbours and receives theirs with non-blocking MPI calls, and the    *)
(* handler unpacks what came into the halos.  Every process repeats          *)
(*                                                                           *)
(*    compute, pack, post_receives, do_sends, wait, unpack                   *)
(*                                                                           *)
(* where post_receives may also come before pack (split-phase use), and      *)
(* start_exchange and exchange are post_receives; do_sends and these         *)
(* followed by wait.                                                         *)
(*                                                                           *)
(* MPI is external.  A message stays in `net` from the send to its delivery. *)
(* The library may copy it at any time (eager protocol), which completes the *)
(* send early, or leave it in the sender's buffer until a receive has been   *)
(* posted (rendezvous).  Messages of one source and tag do not overtake each *)
(* other; all others do.                                                     *)
(*                                                                           *)
(* The contents of a border are abstracted to whose it is, which one it is   *)
(* and after which compute step it was packed.                               *)
EXTENDS ProcGrid, HaloDescriptor

CONSTANTS Layout,    \* layout2proc_map: the data axis behind each grid axis
          Halos,     \* the halo_descriptor of each data axis, on every process
          FieldsOf,  \* how many fields the exchange after each step moves
          MaxFields, \* the argument of setup()
          MaxStep    \* bound: how many steps a process makes

ASSUME ExchangeAssumption ==
    /\ Layout \in [Axes -> Axes]
    /\ \A a, b \in Axes : Layout[a] = Layout[b] => a = b
    /\ \A a \in Axes : IsHalo(Halos[a])
    /\ MaxStep \in Nat
    /\ MaxFields \in Nat
    /\ FieldsOf \in [1..MaxStep -> 1..MaxFields]

VARIABLES pc,        \* what each process does next
          step,      \* how many times it has computed
          fields,    \* the number of fields its buffer sizes are set for
          posted,    \* the number of fields its receives were posted for
          sendbuf,   \* send_buffer, by direction of the data
          recvbuf,   \* recv_buffer, by direction of the data
          pending,   \* the receives posted and not complete: the slots of
                     \* Halo_Exchange_3D::request, by direction of the grid
          active,    \* the sends marked and not complete: the slots of
                     \* Halo_Exchange_3D::send_request, likewise
          net,       \* messages sent and not yet delivered
          halo       \* the halo regions of the fields, by direction of the data

vars == <<pc, step, fields, posted, sendbuf, recvbuf, pending, active, net, halo>>

Border(p, d, n) == [from |-> p, dir |-> d, step |-> n]
Empty           == Border(Here, Here, 0)      \* what no process has packed
NotCopied       == Border(Here, Here, 1)      \* still in the sender's buffer

Contents == [from : Procs, dir : Dirs \cup {Here}, step : Nat]

-----------------------------------------------------------------------------
(* Directions and sizes.                                                     *)

\* nth<layout2proc_map>: the direction on the grid of a direction of the data.
ProcDir == [d \in Dirs |-> [a \in Axes |-> d[Layout[a]]]]

Neighbour == [p \in Procs |-> [d \in Dirs |-> NbrCoords(p, ProcDir[d])]]
Sides     == [p \in Procs |-> { d \in Dirs : HasNbr(p, ProcDir[d]) }]

\* The slot of a send, and of a receive (indexed by the sender's direction).
SendSlot(d) == ProcDir[d]
RecvSlot(d) == Neg(ProcDir[d])

\* send_buffer_size and recv_buffer_size: elements of one field.
SendSize(d) == SLength(Halos[1], d[1]) * SLength(Halos[2], d[2]) * SLength(Halos[3], d[3])
RecvSize(d) == RLength(Halos[1], d[1]) * RLength(Halos[2], d[2]) * RLength(Halos[3], d[3])

\* The sides with a halo.
Receives == [p \in Procs |-> { d \in Sides[p] : RecvSize(d) # 0 }]

\* The directions in which p has something to send, and to receive.
SendSides(p) == { d \in Sides[p] : SendSize(d) * fields[p] # 0 }
RecvSides(p) == { d \in Sides[p] : RecvSize(d) * fields[p] # 0 }

-----------------------------------------------------------------------------
(* The processes.                                                            *)
Init == /\ pc = [p \in Procs |-> "computing"]
        /\ step = [p \in Procs |-> 0]
        /\ fields = [p \in Procs |-> MaxFields]
        /\ posted = [p \in Procs |-> 0]
        /\ sendbuf = [p \in Procs |-> [d \in Sides[p] |-> Empty]]
        /\ recvbuf = [p \in Procs |-> [d \in Sides[p] |-> Empty]]
        /\ pending = [p \in Procs |-> {}]
        /\ active = [p \in Procs |-> {}]
        /\ net = {}
        /\ halo = [p \in Procs |-> [d \in Sides[p] |-> Empty]]

\* The program's own step: it reads its halos and changes its fields.
Compute(p) == /\ pc[p] = "computing"
              /\ step[p] < MaxStep
              /\ step' = [step EXCEPT ![p] = @ + 1]
              /\ pc' = [pc EXCEPT ![p] = "ready"]
              /\ UNCHANGED <<fields, posted, sendbuf, recvbuf, pending, active, net, halo>>

Pack(p) == /\ \/ pc[p] = "ready" /\ pc' = [pc EXCEPT ![p] = "packed"]
              \/ pc[p] = "posted" /\ pc' = [pc EXCEPT ![p] = "prepared"]
           /\ sendbuf' = [sendbuf EXCEPT ![p] = [d \in Sides[p] |-> Border(p, d, step[p])]]
           /\ fields' = [fields EXCEPT ![p] = FieldsOf[step[p]]]
           /\ UNCHANGED <<step, posted, recvbuf, pending, active, net, halo>>

\* Mutant: receives are posted in the first exchange only.
PostReceivesOnce(p) ==
    /\ \/ pc[p] = "packed" /\ pc' = [pc EXCEPT ![p] = "prepared"]
       \/ /\ pc[p] = "ready" /\ pc' = [pc EXCEPT ![p] = "posted"]
          /\ fields[p] >= FieldsOf[step[p]]
    /\ posted' = [posted EXCEPT ![p] = fields[p]]
    /\ pending' = [pending EXCEPT ![p] = IF posted[p] # 0 THEN @ ELSE { RecvSlot(d) : d \in RecvSides(p) }]
    /\ UNCHANGED <<step, fields, sendbuf, recvbuf, active, net, halo>>

\* Before pack the sizes are those of the exchange before, or of setup(), and
\* the caller knows that they are not too small for the one to come.
PostReceives(p) ==
    /\ \/ pc[p] = "packed" /\ pc' = [pc EXCEPT ![p] = "prepared"]
       \/ /\ pc[p] = "ready" /\ pc' = [pc EXCEPT ![p] = "posted"]
          /\ fields[p] >= FieldsOf[step[p]]
    /\ posted' = [posted EXCEPT ![p] = fields[p]]
    /\ pending' = [pending EXCEPT ![p] = @ \cup { RecvSlot(d) : d \in RecvSides(p) }]
    /\ UNCHANGED <<step, fields, sendbuf, recvbuf, active, net, halo>>

Message(p, d) == [src |-> p, dst |-> Neighbour[p][d], tag |-> Tag(SendSlot(d)),
                  buffer |-> d, step |-> step[p], fields |-> fields[p], data |-> NotCopied]

DoSends(p) ==
    /\ pc[p] = "prepared"
    /\ pc' = [pc EXCEPT ![p] = "started"]
    /\ net' = net \cup { Message(p, d) : d \in SendSides(p) }
    /\ active' = [active EXCEPT ![p] = @ \cup { SendSlot(d) : d \in SendSides(p) }]
    /\ UNCHANGED <<step, fields, posted, sendbuf, recvbuf, pending, halo>>

\* Mutants: wait() leaves one of its halves out.
SkipWaitForSends(p) ==
    /\ pc[p] = "started"
    /\ pc' = [pc EXCEPT ![p] = "sent"]
    /\ UNCHANGED <<step, fields, posted, sendbuf, recvbuf, pending, active, net, halo>>

SkipWaitForReceives(p) ==
    /\ pc[p] = "sent"
    /\ pc' = [pc EXCEPT ![p] = "received"]
    /\ UNCHANGED <<step, fields, posted, sendbuf, recvbuf, pending, active, net, halo>>

WaitForSends(p) == /\ pc[p] = "started"
                   /\ active[p] = {}
                   /\ pc' = [pc EXCEPT ![p] = "sent"]
                   /\ UNCHANGED <<step, fields, posted, sendbuf, recvbuf, pending, active, net, halo>>

WaitForReceives(p) ==
    /\ pc[p] = "sent"
    /\ \A d \in RecvSides(p) : RecvSlot(d) \notin pending[p]
    /\ pc' = [pc EXCEPT ![p] = "received"]
    /\ UNCHANGED <<step, fields, posted, sendbuf, recvbuf, pending, active, net, halo>>

\* A border of size zero is unpacked too, by loops that do nothing.
Unpack(p) == /\ pc[p] = "received"
             /\ pc' = [pc EXCEPT ![p] = "computing"]
             /\ halo' = [halo EXCEPT ![p] =
                           [d \in Sides[p] |-> IF d \in RecvSides(p) THEN recvbuf[p][d] ELSE @[d]]]
             /\ UNCHANGED <<step, fields, posted, sendbuf, recvbuf, pending, active, net>>

-----------------------------------------------------------------------------
(* MPI.                                                                      *)
Bytes(m) == IF m.data = NotCopied THEN sendbuf[m.src][m.buffer] ELSE m.data

\* The send is complete once its buffer is not needed any more.
SendDone(m) == active' = IF m.data = NotCopied
                            THEN [active EXCEPT ![m.src] = @ \ {SendSlot(m.buffer)}]
                            ELSE active

Copy(m) == /\ m.data = NotCopied
           /\ net' = (net \ {m}) \cup {[m EXCEPT !.data = Bytes(m)]}
           /\ SendDone(m)
           /\ UNCHANGED <<pc, step, fields, posted, sendbuf, recvbuf, pending, halo>>

\* A message can be received when it is the first of its source and tag.
First(m) == \A n \in net : n.src = m.src /\ n.dst = m.dst /\ n.tag = m.tag => m.step <= n.step

\* The destination has posted receive d for this source and tag.
Matches(m, d) == /\ RecvSlot(d) \in pending[m.dst]
                 /\ Neighbour[m.dst][d] = m.src
                 /\ Tag(RecvSlot(d)) = m.tag

Deliver(m, d) == /\ First(m)
                 /\ Matches(m, d)
                 /\ recvbuf' = [recvbuf EXCEPT ![m.dst][d] = Bytes(m)]
                 /\ pending' = [pending EXCEPT ![m.dst] = @ \ {RecvSlot(d)}]
                 /\ SendDone(m)
                 /\ net' = net \ {m}
                 /\ UNCHANGED <<pc, step, fields, posted, sendbuf, halo>>

-----------------------------------------------------------------------------
Run(p) == \/ Compute(p) \/ Pack(p) \/ PostReceives(p) \/ DoSends(p)
          \/ WaitForSends(p) \/ WaitForReceives(p) \/ Unpack(p)

DeliverTo(p) == \E m \in net, d \in Sides[p] : m.dst = p /\ Deliver(m, d)

\* The program ends when every process has made its steps.
Finished == \A p \in Procs : pc[p] = "computing" /\ step[p] = MaxStep
Terminate == Finished /\ UNCHANGED vars

Next == \/ \E p \in Procs : Run(p) \/ DeliverTo(p)
        \/ \E m \in net : Copy(m)
        \/ Terminate

\* A process that can go on does, and MPI delivers what can be delivered.  MPI
\* need not copy: a program that relies on it to be buffered may deadlock.
Fairness == \A p \in Procs : WF_vars(Run(p)) /\ WF_vars(DeliverTo(p))

Spec     == Init /\ [][Next]_vars
FairSpec == Spec /\ Fairness

-----------------------------------------------------------------------------
Pcs == {"computing", "ready", "posted", "packed", "prepared", "started", "sent", "received"}

Messages == [src : Procs, dst : Procs, tag : 0..26, buffer : Dirs,
             step : Nat, fields : Nat, data : Contents]

TypeOK == /\ pc \in [Procs -> Pcs]
          /\ step \in [Procs -> 0..MaxStep]
          /\ fields \in [Procs -> 0..MaxFields]
          /\ posted \in [Procs -> 0..MaxFields]
          /\ DOMAIN sendbuf = Procs /\ DOMAIN recvbuf = Procs /\ DOMAIN halo = Procs
          /\ \A p \in Procs : /\ sendbuf[p] \in [Sides[p] -> Contents]
                              /\ recvbuf[p] \in [Sides[p] -> Contents]
                              /\ halo[p] \in [Sides[p] -> Contents]
          /\ pending \in [Procs -> SUBSET Dirs]
          /\ active \in [Procs -> SUBSET Dirs]
          /\ net \subseteq Messages

(* When a process computes, each of its halos holds the border its neighbour *)
(* packed after as many steps as it has made itself, from the side facing    *)
(* it: whatever overtook what, and also where one process is a neighbour     *)
(* more than once, as in a periodic grid one or two processes wide.          *)
HalosCurrent ==
    \A p \in Procs : pc[p] = "computing" /\ step[p] > 0 =>
        \A d \in RecvSides(p) : halo[p][d] = Border(Neighbour[p][d], Neg(d), step[p])

(* No message is longer than the receive it is matched with (MPI would end   *)
(* the program): both sides compute the length on their own.                 *)
NoTruncation ==
    \A m \in net : \A d \in Sides[m.dst] :
        First(m) /\ Matches(m, d) =>
            SendSize(m.buffer) * m.fields <= RecvSize(d) * posted[m.dst]

(* Between its exchanges a process has no request open and no buffer that    *)
(* MPI still reads: a request that is posted again was completed before.     *)
QuietBetweenExchanges ==
    \A p \in Procs :
        /\ pc[p] \in {"computing", "ready", "packed"} => pending[p] = {}
        /\ pc[p] # "started" => /\ active[p] = {}
                               /\ \A m \in net : m.src = p => m.data # NotCopied

(* A process is never more than one step ahead of a neighbour it receives    *)
(* from; two that receive from each other are never further apart.           *)
NeighboursInStep == \A p \in Procs : \A d \in Receives[p] : step[p] <= step[Neighbour[p][d]] + 1

(* A border that MPI has not copied is not packed again, and a received one  *)
(* is not overwritten before it has been unpacked.                           *)
BuffersKept ==
    /\ \A m \in net \cap net' :
          m.data = NotCopied => sendbuf'[m.src][m.buffer] = sendbuf[m.src][m.buffer]
    /\ \A p \in Procs : pc[p] = "received" => recvbuf'[p] = recvbuf[p]
AlwaysBuffersKept == [][BuffersKept]_vars

(* Every process makes all its steps: the exchange never deadlocks, although *)
(* no message need be copied by MPI before it is received.                   *)
EveryProcessFinishes == <>Finished

(* The exchange synchronises a process with the neighbours it receives from, *)
(* step by step, and with no one else, and always gets on.                   *)
\* The last step whose borders a process has handed to MPI.
Sent(p) == IF pc[p] \in {"ready", "posted", "packed", "prepared"} THEN step[p] - 1 ELSE step[p]

Sync == INSTANCE NeighbourSync WITH
    Source <- Neighbour,
    sent   <- [p \in Procs |-> Sent(p)],
    busy   <- { p \in Procs : pc[p] \in {"started", "sent", "received"} },
    seen   <- [p \in Procs |-> [d \in Receives[p] |-> halo[p][d].step]]
ImplementsNeighbourSync == Sync!FairSpec

-----------------------------------------------------------------------------
(* The inductive invariant behind these properties: first what holds of each *)
(* process, then of the messages.                                            *)
Before == {"ready", "packed"}                            \* receives not posted
During == {"posted", "prepared", "started", "sent"}      \* receives may be open

\* The last step whose border q has received from direction d.
Got(q, d) == IF pc[q] \in Before \/ RecvSlot(d) \in pending[q] THEN step[q] - 1 ELSE step[q]

\* Each process by itself.
StepOK(p) == pc[p] # "computing" => step[p] > 0

FieldsOK(p) == /\ MaxStep > 0 => fields[p] > 0
               /\ pc[p] \in {"packed", "prepared", "started"} => fields[p] = FieldsOf[step[p]]

SendBufOK(p) == pc[p] \in {"packed", "prepared", "started"} =>
                   \A d \in Sides[p] : sendbuf[p][d] = Border(p, d, step[p])

PendingOK(p) == /\ pending[p] \subseteq { RecvSlot(d) : d \in Receives[p] }
                /\ pc[p] \notin During => pending[p] = {}
                /\ pc[p] \in During => posted[p] >= FieldsOf[step[p]]

ActiveOK(p) == pc[p] # "started" => active[p] = {}

RecvBufOK(p) == pc[p] \in During \cup {"received"} =>
                   \A d \in Receives[p] : RecvSlot(d) \notin pending[p] =>
                       recvbuf[p][d] = Border(Neighbour[p][d], Neg(d), step[p])

HaloOK(p) == pc[p] = "computing" /\ step[p] > 0 =>
                \A d \in Receives[p] : halo[p][d] = Border(Neighbour[p][d], Neg(d), step[p])

ProcessOK(p) == /\ StepOK(p) /\ FieldsOK(p) /\ SendBufOK(p) /\ PendingOK(p)
                /\ ActiveOK(p) /\ RecvBufOK(p) /\ HaloOK(p)

-----------------------------------------------------------------------------
(* The messages between a process and each neighbour: those of the steps the *)
(* one has sent and the other has not received, one of each.                 *)
MessageOK(m) == /\ m.buffer \in Sides[m.src]
                /\ m.dst = Neighbour[m.src][m.buffer]
                /\ m.tag = Tag(SendSlot(m.buffer))
                /\ SendSize(m.buffer) # 0
                /\ m.step > 0 /\ m.step <= Sent(m.src)
                /\ m.step > Got(m.dst, Neg(m.buffer))
                /\ m.fields = FieldsOf[m.step]

\* A message MPI has not copied is of the exchange its sender is in.
DataOK(m) == IF m.data = NotCopied
                THEN /\ pc[m.src] = "started"
                     /\ m.step = step[m.src]
                     /\ SendSlot(m.buffer) \in active[m.src]
                ELSE m.data = Border(m.src, m.buffer, m.step)

Unique == \A m, n \in net :
             m.src = n.src /\ m.buffer = n.buffer /\ m.step = n.step => m = n

Underway(q, d) == (Got(q, d) + 1) .. Sent(Neighbour[q][d])

NoneLost == \A q \in Procs : \A d \in Receives[q] : \A k \in Underway(q, d) :
               \E m \in net : m.src = Neighbour[q][d] /\ m.buffer = Neg(d) /\ m.step = k

NotAhead == \A q \in Procs : \A d \in Receives[q] : Got(q, d) <= Sent(Neighbour[q][d])

IndInv == /\ TypeOK
          /\ \A p \in Procs : ProcessOK(p)
          /\ \A m \in net : MessageOK(m) /\ DataOK(m)
          /\ Unique
          /\ NoneLost
          /\ NotAhead
=============================================================================
