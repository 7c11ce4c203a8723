------------------------------ MODULE MCCiA402 ------------------------------
(* Small sets for TLC. *)
EXTENDS CiA402, TLC

CONSTANTS u1, u2

TwoCallers == {u1, u2}
AllOperations == {"enable", "reset", "stop", "quickStop", "disable", "turn"}
Resetting == {"reset"}

CallersSymmetry == Permutations(TwoCallers)
=============================================================================
