--------------------------- MODULE MCGatewayLimiter ---------------------------
(* Instances of GatewayLimiter for TLC.                                     *)
EXTENDS GatewayLimiter, TLC

\* A minute of two moments, with two burst windows.
Windows == ("burst" :> 1) @@ ("minute" :> 2)

\* Limits that both bind.
BothBind == ("burst" :> 1) @@ ("minute" :> 2)

Symmetry == Permutations(Requests)
==============================================================================
