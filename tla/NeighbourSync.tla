--------------------------- MODULE NeighbourSync ---------------------------
(* What a halo exchange promises: processes synchronise with the neighbours  *)
(* they receive from, and with no one else.  A process makes its border of a *)
(* step available and may go on once those neighbours have made theirs of    *)
(* the same step available; it then has exactly these.                       *)
EXTENDS Naturals

CONSTANTS Procs,     \* the processes
          Receives,  \* the directions each of them receives from
          Source,    \* the process behind a direction
          MaxStep    \* bound on the number of steps

VARIABLES sent,      \* the last step a process has made available
          busy,      \* the processes that are waiting for their neighbours
          seen       \* the step of the border it has in each halo

vars == <<sent, busy, seen>>

Init == /\ sent = [p \in Procs |-> 0]
        /\ busy = {}
        /\ seen = [p \in Procs |-> [d \in Receives[p] |-> 0]]

Publish(p) == /\ p \notin busy
              /\ sent[p] < MaxStep
              /\ sent' = [sent EXCEPT ![p] = @ + 1]
              /\ busy' = busy \cup {p}
              /\ UNCHANGED seen

Finish(p) == /\ p \in busy
             /\ \A d \in Receives[p] : sent[Source[p][d]] >= sent[p]
             /\ busy' = busy \ {p}
             /\ seen' = [seen EXCEPT ![p] = [d \in Receives[p] |-> sent[p]]]
             /\ UNCHANGED sent

Next == \E p \in Procs : Publish(p) \/ Finish(p)

Spec     == Init /\ [][Next]_vars
FairSpec == Spec /\ \A p \in Procs : WF_vars(Publish(p)) /\ WF_vars(Finish(p))
=============================================================================
