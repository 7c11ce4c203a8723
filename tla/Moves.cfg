\* Moves, homing and stop overlap with each other and with the idle shutdown.
SPECIFICATION Spec
CONSTANTS
  a = a
  b = b
  None = None
  Callers <- TwoCallers
  Operations <- Everything
  Targets <- EndAndBeyond
  Window = 1
  VerifyMode = FALSE
  MaxPos = 2
  ObeysDisable = TRUE
  MaxCalls = 2
  MaxFaults = 1
  MaxUpsets = 1
CONSTRAINT OneMishap
SYMMETRY Alike
INVARIANTS
  TypeOK
  SetPointReleased
  HaltIsFinal
  ProfileIsOwn
  IdleFollowsMotion
PROPERTIES
  ReachedMeansThere
  IdleSparesMoves
  AttainedMeansHomed
