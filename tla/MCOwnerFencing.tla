--------------------------- MODULE MCOwnerFencing ---------------------------
(* Two nodes of the operator's chain and one that only the identity         *)
(* election can seat.                                                       *)
EXTENDS OwnerFencing

CONSTANTS a, b, c

MCNode == {a, b, c}
MCChain == <<a, b>>
MCIdentity == <<c, b, a>>
=============================================================================
