-------------------------- MODULE MCModbusSession --------------------------
(***************************************************************************)
(* Instances of ModbusSession for TLC.                                     *)
(***************************************************************************)
EXTENDS ModbusSession, TLC

CONSTANTS t1, t2, k1, k2

TwoCallers == {t1, t2}
OneBeater == {k1}
TwoBeaters == {k1, k2}
OneIndex == {StatusIndex}

CallerSymmetry == Permutations(TwoCallers)
ThreadSymmetry == Permutations(TwoCallers) \cup Permutations(TwoBeaters)
=============================================================================
