--------------------------- MODULE AtomicRegister ---------------------------
(* What common/atomic_functions.hpp promises: a variable that workers add to, *)
(* take from, exchange and lower or raise, each operation at once, and        *)
(* returning the value before it.                                             *)
EXTENDS Integers, Sequences

CONSTANT Workers

VARIABLES cell,     \* the value of the variable
          todo,     \* the operations each worker has left
          returned  \* what the last operation of a worker returned
vars == <<cell, todo, returned>>

\* "add", "sub", "exch", "min" and "max".
Apply(op, old, val) ==
  CASE op = "add" -> old + val
    [] op = "sub" -> old - val
    [] op = "exch" -> val
    [] op = "min" -> IF val < old THEN val ELSE old
    [] OTHER -> IF val > old THEN val ELSE old

Init == cell \in Int

Perform(w) ==
  /\ todo[w] # <<>>
  /\ cell' = Apply(todo[w][1].op, cell, todo[w][1].val)
  /\ returned' = [returned EXCEPT ![w] = cell]
  /\ todo' = [todo EXCEPT ![w] = Tail(@)]

\* The workers get operations once they are all done.
Start ==
  /\ \A w \in Workers : todo[w] = <<>>
  /\ cell' \in Int
  /\ UNCHANGED returned

Next == Start \/ \E w \in Workers : Perform(w)

Spec == Init /\ [][Next]_vars
=============================================================================
