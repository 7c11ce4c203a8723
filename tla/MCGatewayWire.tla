--------------------------- MODULE MCGatewayWire ---------------------------
(***************************************************************************)
(* Instances of GatewayWire for TLC: bytes of two values, a word and a     *)
(* double word.                                                            *)
(***************************************************************************)
EXTENDS GatewayWire, TLC

CONSTANTS word, long

WordAndLong == (word :> 2) @@ (long :> 4)

\* Inside and outside the ranges of one, two and four bytes.
BoundaryValues == {-8, -1, 1, 15}
=============================================================================
