---------------------------- MODULE BoundaryApply ----------------------------
(* boundaries/apply.hpp: a boundary functor is applied to every element of   *)
(* the halo regions whose direction the predicate accepts, one direction     *)
(* after the other.  `written` counts how often each element is written.     *)
EXTENDS HaloDescriptor, Sequences, FiniteSets

CONSTANTS Fields,   \* the halo descriptors a field may have: one for each axis
          Accepted  \* the sets of directions the predicate may accept

Axes == 1..3
Dirs == [Axes -> {-1, 0, 1}] \ {[a \in Axes |-> 0]}

ASSUME ApplyAssumption == /\ \A f \in Fields : \A a \in Axes : IsHalo(f[a])
                          /\ \A A \in Accepted : A \subseteq Dirs

VARIABLES halos,    \* halo_descriptors
          accepted, \* the directions for which the predicate is true
          next,     \* the number of the direction that is next, up to 26
          written

vars == <<halos, accepted, next, written>>

\* The direction<I, J, K> of the nth call in apply(), the last axis first; the
\* 13th would be the centre.
Nth(n) == [a \in Axes |-> IF a = 1 THEN (n \div 9) - 1
                          ELSE IF a = 2 THEN ((n \div 3) % 3) - 1 ELSE (n % 3) - 1]
Centre == 13

Points(f) == (0 .. f[1].total - 1) \X (0 .. f[2].total - 1) \X (0 .. f[3].total - 1)
Region(f, d) == { x \in Points(f) : \A a \in Axes : x[a] \in Outside(f[a], d[a]) }

Init == /\ halos \in Fields
        /\ accepted \in Accepted
        /\ next = 0
        /\ written = [x \in Points(halos) |-> 0]

Loop(d) == written' = [x \in DOMAIN written |->
    IF x \in Region(halos, d) THEN written[x] + 1 ELSE written[x]]

Apply == /\ next < 27
         /\ next' = next + 1
         /\ IF next # Centre /\ Nth(next) \in accepted THEN Loop(Nth(next)) ELSE UNCHANGED written
         /\ UNCHANGED <<halos, accepted>>

Next == Apply
Spec == Init /\ [][Next]_vars

-----------------------------------------------------------------------------
TypeOK == /\ halos \in Fields /\ accepted \in Accepted /\ next \in 0..27
          /\ DOMAIN written = Points(halos) /\ \A x \in Points(halos) : written[x] \in Nat

(* At every point of the loops, exactly the accepted regions among the       *)
(* directions so far have been written, and no element twice.                *)
OnceSoFar == \A x \in Points(halos) :
    written[x] = IF \E n \in 0..next - 1 : /\ n # Centre /\ Nth(n) \in accepted
                                           /\ x \in Region(halos, Nth(n)) THEN 1 ELSE 0

(* After apply every element of an accepted halo region has been written     *)
(* once, corners included, and nothing else: neither the interior nor the    *)
(* padding beyond the halos.                                                 *)
EachOnce == next = 27 =>
    \A x \in Points(halos) :
        written[x] = IF \E d \in accepted : x \in Region(halos, d) THEN 1 ELSE 0
=============================================================================
