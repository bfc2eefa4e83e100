---------------------------- MODULE ArrayProgram ----------------------------
(***************************************************************************)
(* What a program with storages, stencils, transformations and reductions  *)
(* means: arrays of values under names, and calls that take effect in the  *)
(* order they are made.  Nothing is said of layouts, padding, alignment,   *)
(* allocators, blocks, threads and kernels.                                *)
(*                                                                         *)
(* A call may return before it is carried out; a reduction does not.  In   *)
(* between, elements it is to set have their old or their new values.      *)
(***************************************************************************)
EXTENDS Integers, Sequences, FiniteSets, Functions, Bags

VARIABLES program,   \* the calls
          next,      \* the number of the call made next
          pending,   \* the numbers of those made and not carried out
          arrays,    \* name -> index -> value
          results    \* of the reductions
vars == <<program, next, pending, arrays, results>>

Call(n) == program.calls[n]

SumOf(bags) == FoldFunction((+), EmptyBag, bags)

(***************************************************************************)
(* The value of every point of the stages of a stencil: a point reads its  *)
(* operands, which are points of the same or of earlier stages, positions, *)
(* parameters, and elements of arrays.                                     *)
(***************************************************************************)
RECURSIVE PointValue(_, _, _, _)
PointValue(call, s, name, at) ==
  LET stages == call.sweep.stages
      by == { x \in 1..s : stages[x].sets = name }
      arg == call.args[name]
  IN  IF by # {}
        THEN LET x == CHOOSE y \in by : \A z \in by : z <= y
                 reads == stages[x].rule[at[2]]
             IN  SumOf([r \in DOMAIN reads |->
                   PointValue(call, x, reads[r][1], [d \in 0..2 |-> at[d] + reads[r][2][d]])])
      ELSE IF arg.what = "positional" THEN SetToBag({at[arg.dim] + call.sweep.origin[arg.dim]})
      ELSE IF arg.what = "parameter" THEN SetToBag({arg.value})
      ELSE LET a == arrays[arg.name]
               dims == IF arg.what = "renamed" THEN arg.names ELSE <<0, 1, 2>>
           IN  a[[n \in 0..Len(dims)-1 |-> at[dims[n + 1]] + call.sweep.origin[dims[n + 1]]]]

Points(call) == { p \in [0..2 -> 0..4] : p[0] < call.sweep.grid.i /\ p[1] < call.sweep.grid.j
                                         /\ p[2] < call.sweep.grid.k }

\* What a call sets: a function from names to functions from indices to values.
Meaning(call) ==
  CASE call.op \in {"build", "array"} -> IF call.first = <<>> THEN <<>> ELSE [n \in {call.name} |-> call.first]
    [] call.op = "assign" -> [n \in {call.name} |-> call.values]
    [] call.op = "transform" -> [n \in {call.to} |-> arrays[call.from]]
    [] call.op = "sweep" ->
         [n \in { call.args[x].name : x \in call.sweep.sets } |->
            LET key == CHOOSE x \in call.sweep.sets : call.args[x].name = n
                shifted(p) == [d \in 0..2 |-> p[d] + call.sweep.origin[d]]
            IN  [is \in { shifted(p) : p \in Points(call) } |->
                   PointValue(call, Len(call.sweep.stages), key,
                              [d \in 0..2 |-> is[d] - call.sweep.origin[d]])]]
    [] OTHER -> <<>>

NothingToSet(call) == call.op # "reduce" /\ Meaning(call) = <<>>

\* What may be in an array that is built, as opposed to what is set.
Undefined(call) == IF call.op \in {"build", "array", "reducible"} THEN {call.name} ELSE {}

Init ==
  /\ next = 1 /\ pending = <<>> /\ results = <<>>
  /\ arrays = <<>>

Named(call) == CASE call.op \in {"build", "array", "reducible"} -> DOMAIN arrays \cup {call.name}
                 [] call.op = "drop" -> DOMAIN arrays \ {call.name}
                 [] OTHER -> DOMAIN arrays

\* A call is made: nothing happens but to the array it builds or drops.
Make ==
  /\ next <= Len(program.calls)
  /\ next' = next + 1
  /\ \/ pending' = Append(pending, next)
     \/ NothingToSet(Call(next)) /\ UNCHANGED pending
  /\ DOMAIN arrays' = Named(Call(next))
  /\ \A n \in DOMAIN arrays' \ Undefined(Call(next)) : arrays'[n] = arrays[n]
  /\ UNCHANGED <<program, results>>

\* Elements that the first pending call is to set may be set.
Carry(call, done) ==
  /\ DOMAIN arrays' = DOMAIN arrays
  /\ \A n \in DOMAIN arrays :
       IF call.op = "reducible" /\ n = call.name THEN TRUE
       ELSE \A is \in DOMAIN arrays[n] :
              LET meaning == Meaning(call)
              IN  IF n \in DOMAIN meaning /\ is \in DOMAIN meaning[n]
                    THEN arrays'[n][is] \in {meaning[n][is]} \cup (IF done THEN {} ELSE {arrays[n][is]})
                    ELSE arrays'[n][is] = arrays[n][is]

Proceed ==
  /\ pending # <<>>
  /\ Carry(Call(pending[1]), FALSE)
  /\ UNCHANGED <<program, next, pending, results>>

\* Everything is set; a reduction has the combination of all elements.
Finish ==
  /\ pending # <<>>
  /\ LET call == Call(pending[1])
     IN  /\ Carry(call, TRUE)
         /\ results' = IF call.op = "reduce" THEN Append(results, SumOf(arrays[call.name])) ELSE results
  /\ pending' = Tail(pending)
  /\ UNCHANGED <<program, next>>

Next == Make \/ Proceed \/ Finish

Spec == Init /\ [][Next]_vars
=============================================================================
