\* Moves, homing, stop and fault reset of the packages overlap.
SPECIFICATION Spec
CONSTANTS
  a = a
  b = b
  None = None
  Callers <- TwoCallers
  Operations <- Everything
  Targets <- EndsAndBeyond
  Window = 1
  VerifyMode = TRUE
  MaxPos = 2
  ObeysDisable = TRUE
  MaxCalls = 2
  MaxFaults = 1
  MaxUpsets = 1
INVARIANT TypeOK

  
  
