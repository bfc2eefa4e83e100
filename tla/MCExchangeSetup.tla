--------------------------- MODULE MCExchangeSetup ---------------------------
(* Maps from data to process grid for model checking ExchangeSetup.          *)
EXTENDS ExchangeSetup

\* Those that exchange two axes, or none, and those that turn all three.
Swaps     == { l \in Unmasked(3) : \A i \in D : l[l[i]] = i }
Rotations == Unmasked(3) \ Swaps

Lengths232 == [u \in D |-> IF u = 1 THEN 3 ELSE 2]
=============================================================================
