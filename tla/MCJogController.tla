-------------------------- MODULE MCJogController --------------------------
(***************************************************************************)
(* Instances of JogController for TLC.                                     *)
(***************************************************************************)
EXTENDS JogController, TLC

CONSTANTS u1, u2, u3, d1, d2

TwoUsers == {u1, u2}
ThreeUsers == {u1, u2, u3}
TwoDogs == {d1, d2}


Hold == {"start", "update", "release"}
HoldAndClose == {"start", "update", "release", "close"}
HoldAndStop == {"start", "update", "release", "stop"}
Everything == {"start", "update", "release", "stop", "move", "close"}
HoldAndMove == {"start", "update", "move"}
=============================================================================
