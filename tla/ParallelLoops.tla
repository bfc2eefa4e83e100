--------------------------- MODULE ParallelLoops ---------------------------
(***************************************************************************)
(* Memory that threads read and write.  A launch gives every thread a      *)
(* sequence of statements; launches run one after the other, as kernels of *)
(* a stream and loops of a program do, and within a launch threads         *)
(* interleave, but for barriers.                                           *)
(*                                                                         *)
(* A thread is <<team, number>>: a GPU block and a warp of it, whose lanes *)
(* do one thing at the same time, or the OpenMP team and a thread.  A      *)
(* statement has a phase, the number of barriers before it, and stores; a  *)
(* store puts into an address the combination of what is at the addresses  *)
(* it is computed from, and of numbers of its own.                         *)
(*                                                                         *)
(* A value is the bag of the numbers that were combined to it: two values  *)
(* are equal if every commutative and associative operation says so.       *)
(***************************************************************************)
EXTENDS Integers, Sequences, FiniteSets, Functions, Bags, TLC

VARIABLES mem,      \* what is at the addresses written so far
          queue     \* the launches, the first of them running

\* What is at an address nobody has written.
Junk == SetToBag({-1})

\* Addresses from here on are registers and shared memory, gone after the launch.
Temporary == 10000000
Shared(block, n) == Temporary + 100 * block + n
Private(thread) == Temporary + thread

Store(to, from, plus) == [to |-> to, from |-> from, plus |-> plus]
Copy(to, from) == Store(to, <<from>>, EmptyBag)
Do(stores, phase) == [stores |-> stores, phase |-> phase]

ReadAt(a) == IF a \in DOMAIN mem THEN mem[a] ELSE Junk

Combined(from, plus) ==
  LET sum[n \in 0..Len(from)] == IF n = 0 THEN plus ELSE sum[n - 1] (+) ReadAt(from[n])
  IN  sum[Len(from)]

Running == queue # <<>>
Threads == IF Running THEN DOMAIN queue[1] ELSE {}
Waits(t) == queue[1][t] # <<>>
Now(t) == queue[1][t][1]

\* __syncthreads: nobody of the team is left before a barrier that t has passed.
CanRun(t) ==
  /\ Waits(t)
  /\ \A u \in Threads : u[1] = t[1] /\ Waits(u) => Now(t).phase <= Now(u).phase

Written(t) == { s.to : s \in Now(t).stores }
ReadBy(t) == UNION { Range(s.from) : s \in Now(t).stores }

\* Thread t does its next statement; the launch ends with the last one.
Execute(t) ==
  /\ CanRun(t)
  /\ LET left  == [queue[1] EXCEPT ![t] = Tail(@)]
         ended == \A u \in Threads : left[u] = <<>>
         new   == [a \in Written(t) |->
                     LET s == CHOOSE x \in Now(t).stores : x.to = a IN Combined(s.from, s.plus)] @@ mem
     IN  /\ queue' = IF ended THEN Tail(queue) ELSE <<left>> \o Tail(queue)
         /\ mem' = IF ended THEN [a \in { x \in DOMAIN new : x < Temporary } |-> new[a]] ELSE new

\* The statements of all threads of a launch, and of a program that is not parallel.
Sequential(stores) == [t \in { <<0, 0>> } |-> <<Do(stores, 0)>>]

\* Launches with nothing to do are not launched.
Launches(ls) == SelectSeq(ls, LAMBDA l : \E t \in DOMAIN l : l[t] # <<>>)

(***************************************************************************)
(* #pragma omp parallel for over n iterations: the threads take as many    *)
(* of them each, in order.                                                 *)
(***************************************************************************)
StaticShare(n, threads, t) ==
  LET each == (n + threads - 1) \div threads
  IN  { i \in 0..n-1 : i \div each = t }

(***************************************************************************)
(* No two threads are about to use the same address, one of them to write. *)
(* Whatever the other threads have done before.                            *)
(***************************************************************************)
RaceFree ==
  \A t, u \in Threads :
    t # u /\ CanRun(t) /\ CanRun(u) => Written(t) \cap (Written(u) \cup ReadBy(u)) = {}
=============================================================================
