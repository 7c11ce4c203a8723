\* The operations of the state machine keep their words.
SPECIFICATION Spec
CONSTANTS
  u1 = u1
  u2 = u2
  Callers <- TwoCallers
  Operations <- AllOperations
  MaxPos = 0
  ObeysDisable = TRUE
  MaxCalls = 2
  MaxFaults = 2
  MaxUpsets = 1
SYMMETRY CallersSymmetry
INVARIANTS TypeOK EnableKeepsItsWord ResetKeepsItsWord StopKeepsItsWord
