------------------------------ MODULE LayoutMap ------------------------------
(* common/layout_map.hpp: a layout_map<Args...> gives each dimension its     *)
(* place in the order of the strides, the largest place having stride 1; a   *)
(* negative value masks a dimension.  Dimensions are numbered from 0.        *)
EXTENDS Integers, FiniteSets

\* The layouts of n dimensions: the places in use have no holes.
Layouts(n) == { l \in [0..n-1 -> -1..n-1] :
                  LET used == { i \in 0..n-1 : l[i] >= 0 }
                  IN  { l[i] : i \in used } = 0..Cardinality(used) - 1 }

Unmasked(n) == { l \in Layouts(n) : \A i \in 0..n-1 : l[i] >= 0 }

At(l, i) == l[i]

\* The dimension at a place, or the number of dimensions.
Find(l, i) == IF \E d \in DOMAIN l : l[d] = i THEN CHOOSE d \in DOMAIN l : l[d] = i
                                              ELSE Cardinality(DOMAIN l)

\* Mutant: nothing is reversed.
ReverseNot(l) == l

Reverse(l) == LET max == Cardinality({ i \in DOMAIN l : l[i] >= 0 }) - 1
              IN  [i \in DOMAIN l |-> IF l[i] < 0 THEN l[i] ELSE max - l[i]]

Transform(l, m) == [i \in DOMAIN m |-> At(l, At(m, i))]
=============================================================================
