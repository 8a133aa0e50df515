------------------------- MODULE MCConcurrencyLimiter -------------------------
(* Instances of ConcurrencyLimiter for TLC.                                 *)
EXTENDS ConcurrencyLimiter, TLC

Symmetry == Permutations(Workers) \cup Permutations(Requests)
==============================================================================
