-------------------------- MODULE MCPackagedMoves --------------------------
(***************************************************************************)
(* Instances of PackagedMoves for TLC.                                     *)
(***************************************************************************)
EXTENDS PackagedMoves, TLC

CONSTANTS a, b

TwoCallers == {a, b}
Everything == {"move", "home", "stop", "reset"}
EndsAndBeyond == {0, 2, 3}
=============================================================================
