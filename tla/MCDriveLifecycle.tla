------------------------- MODULE MCDriveLifecycle --------------------------
(***************************************************************************)
(* Instances of DriveLifecycle for TLC.                                    *)
(***************************************************************************)
EXTENDS DriveLifecycle, TLC

CONSTANTS a, b

TwoCallers == {a, b}
=============================================================================
