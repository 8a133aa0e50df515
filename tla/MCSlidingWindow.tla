--------------------------- MODULE MCSlidingWindow ---------------------------
(* Instances of SlidingWindow for TLC: a window for each endpoint, and a     *)
(* shorter one for the user.                                                 *)
EXTENDS SlidingWindow, TLC

CONSTANTS r1, r2, r3, e1, e2

TwoEndpoints == [r \in Requests |-> IF r = r3 THEN e2 ELSE e1]
Lengths == <<2, 1>>
Limits == [k \in 1..2 |-> [s \in Scopes |-> 1]]

Symmetry == Permutations({r1, r2})
==============================================================================
