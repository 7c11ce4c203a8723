-------------------------- MODULE MCMotionFacade ---------------------------
(***************************************************************************)
(* Instances of MotionFacade for TLC.                                      *)
(***************************************************************************)
EXTENDS MotionFacade, TLC

CONSTANTS a, b

TwoCallers == {a, b}

Moves == {"move", "home", "stop"}
Everything == {"move", "home", "stop", "jog", "jogStop"}
EndAndBeyond == {2, 3}
Alike == Permutations(TwoCallers)

\* Bound: one mishap, a failing access or a fault of the drive.
OneMishap == faults + upsets <= 1
=============================================================================
