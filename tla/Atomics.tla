------------------------------ MODULE Atomics ------------------------------
(***************************************************************************)
(* common/atomic_functions.hpp, atomic_host.hpp and atomic_cuda.hpp: one   *)
(* variable and the workers, OpenMP threads or GPU threads, that apply     *)
(* atomic operations to it.                                                *)
(*                                                                         *)
(* An operation is a record: op, its value, and how it is implemented:     *)
(* "direct" by one instruction, "cas" by a loop around compare-and-swap,   *)
(* "compare" by such a loop that ends when there is nothing to improve, or *)
(* "critical" in an OpenMP critical section named for op.                  *)
(***************************************************************************)
EXTENDS Integers, Sequences

CONSTANT Workers

VARIABLES cell,      \* the value of the variable
          todo,      \* the operations each worker has left
          returned,  \* what the last operation of a worker returned
          phase,     \* where a worker is within its operation
          old        \* its local variable of that name
atomicVars == <<cell, todo, returned, phase, old>>

\* GT_DECLARE_ATOMIC chooses the class, its specialisation for the type the function.
HowFor(platform, type, op) ==
  IF platform = "openmp" /\ op \in {"add", "sub", "exch"} THEN "direct"
  ELSE IF platform \in {"openmp", "openmp 3.0"} THEN "critical"
  ELSE IF type \in {"float", "double"} /\ op \in {"min", "max"} THEN "compare"
  ELSE IF type = "double" THEN "cas" ELSE "direct"

Operation(platform, type, op, val) ==
  [op |-> op, val |-> val, how |-> HowFor(platform, type, op)]

Ops == {"add", "sub", "exch", "min", "max"}
Hows == {"direct", "cas", "compare", "critical"}
Operations == { o \in [op : Ops, val : Int, how : Hows] : o.how = "compare" => o.op \in {"min", "max"} }

\* Critical sections exclude those of the same name only: whoever uses one on the
\* variable uses nothing else.
MayMix(td) ==
  \A u, v \in Workers : \A m \in 1..Len(td[u]), n \in 1..Len(td[v]) :
    td[u][m].how = "critical" => td[v][n].how = "critical" /\ td[v][n].op = td[u][m].op

Reference == INSTANCE AtomicRegister
Apply(op, was, val) == Reference!Apply(op, was, val)

\* old <= val of atomic_min, old >= val of atomic_max.
NothingToDo(o, was) == IF o.op = "min" THEN was <= o.val ELSE was >= o.val

Current(w) == todo[w][1]
Busy(w) == todo[w] # <<>>
NoneBusy == \A w \in Workers : ~Busy(w)

AtomicInit ==
  /\ cell = 0
  /\ todo = [w \in Workers |-> <<>>]
  /\ returned = [w \in Workers |-> 0]
  /\ phase = [w \in Workers |-> "before"]
  /\ old = [w \in Workers |-> 0]

Return(w, value) ==
  /\ returned' = [returned EXCEPT ![w] = value]
  /\ todo' = [todo EXCEPT ![w] = Tail(@)]
  /\ phase' = [phase EXCEPT ![w] = "before"]
  /\ UNCHANGED old

-----------------------------------------------------------------------------
\* A kernel or a parallel region begins.
Begin(value, td) ==
  /\ NoneBusy
  /\ cell' = value
  /\ todo' = td
  /\ UNCHANGED <<returned, phase, old>>

\* atomicAdd and its like, and omp atomic capture.
Direct(w) ==
  /\ Busy(w) /\ Current(w).how = "direct"
  /\ cell' = Apply(Current(w).op, cell, Current(w).val)
  /\ Return(w, cell)

\* old = var in front of a loop.
Load(w) ==
  /\ Busy(w) /\ Current(w).how \in {"cas", "compare"} /\ phase[w] = "before"
  /\ ~(Current(w).how = "compare" /\ NothingToDo(Current(w), cell))
  /\ old' = [old EXCEPT ![w] = cell]
  /\ phase' = [phase EXCEPT ![w] = "loop"]
  /\ UNCHANGED <<cell, todo, returned>>

\* There is nothing to improve.
LoadAndReturn(w) ==
  /\ Busy(w) /\ Current(w).how = "compare" /\ phase[w] = "before"
  /\ NothingToDo(Current(w), cell)
  /\ Return(w, cell)
  /\ UNCHANGED cell

\* Mutant: atomicCAS is taken to have succeeded.
SwapUnchecked(w) ==
  /\ Busy(w) /\ phase[w] = "loop"
  /\ cell' = IF Current(w).how = "compare" THEN Current(w).val
             ELSE Apply(Current(w).op, old[w], Current(w).val)
  /\ Return(w, old[w])

\* atomicCAS succeeds: old == assumed.  Minimum and maximum put their value.
Swap(w) ==
  /\ Busy(w) /\ phase[w] = "loop" /\ cell = old[w]
  /\ cell' = IF Current(w).how = "compare" THEN Current(w).val
             ELSE Apply(Current(w).op, old[w], Current(w).val)
  /\ Return(w, old[w])

\* Mutant: the loop goes on with the value it had.
SwapFailsAgain(w) ==
  /\ Busy(w) /\ phase[w] = "loop" /\ cell # old[w]
  /\ ~(Current(w).how = "compare" /\ NothingToDo(Current(w), cell))
  /\ UNCHANGED <<cell, todo, returned, phase, old>>

\* atomicCAS fails, and the loop goes on with what was there instead ...
SwapFails(w) ==
  /\ Busy(w) /\ phase[w] = "loop" /\ cell # old[w]
  /\ ~(Current(w).how = "compare" /\ NothingToDo(Current(w), cell))
  /\ old' = [old EXCEPT ![w] = cell]
  /\ UNCHANGED <<cell, todo, returned, phase>>

\* ... or has nothing to do anymore.
SwapNeedless(w) ==
  /\ Busy(w) /\ phase[w] = "loop" /\ cell # old[w]
  /\ Current(w).how = "compare" /\ NothingToDo(Current(w), cell)
  /\ Return(w, cell)
  /\ UNCHANGED cell

\* omp critical(op): nobody is in a section of that name; old = var.
Enter(w) ==
  /\ Busy(w) /\ Current(w).how = "critical" /\ phase[w] = "before"
  /\ \A u \in Workers : phase[u] = "inside" => Current(u).op # Current(w).op
  /\ old' = [old EXCEPT ![w] = cell]
  /\ phase' = [phase EXCEPT ![w] = "inside"]
  /\ UNCHANGED <<cell, todo, returned>>

\* var op= val, and the end of the section.
Leave(w) ==
  /\ Busy(w) /\ phase[w] = "inside"
  /\ cell' = Apply(Current(w).op, cell, Current(w).val)
  /\ Return(w, old[w])

WorkerStep(w) ==
  \/ Direct(w) \/ Load(w) \/ LoadAndReturn(w) \/ Swap(w) \/ SwapFails(w) \/ SwapNeedless(w)
  \/ Enter(w) \/ Leave(w)

AtomicNext ==
  \/ \E value \in Int : \E td \in [Workers -> Seq(Operations)] : MayMix(td) /\ Begin(value, td)
  \/ \E w \in Workers : WorkerStep(w)

AtomicSpec == AtomicInit /\ [][AtomicNext]_atomicVars

-----------------------------------------------------------------------------
(* Every operation takes effect at once and returns the value before it, in   *)
(* between of the steps that loops and critical sections take.                *)
ImplementsRegister == Reference!Spec
=============================================================================
