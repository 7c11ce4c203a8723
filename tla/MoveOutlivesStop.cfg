\* Violated: a stop between the abort clear and the set-point.
SPECIFICATION Spec
CONSTANTS
  a = a
  b = b
  None = None
  Callers <- TwoCallers
  Operations <- Moves
  Targets = {2}
  Window = 1
  VerifyMode = FALSE
  MaxPos = 2
  ObeysDisable = TRUE
  MaxCalls = 2
  MaxFaults = 0
  MaxUpsets = 0
INVARIANT AbortedMoveIsOver
