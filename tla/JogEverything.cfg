\* All operations overlap and an access fails.
SPECIFICATION FairSpec
CONSTANTS
  u1 = u1
  u2 = u2
  u3 = u3
  d1 = d1
  d2 = d2
  NoTask = NoTask
  Velocities = {1}
  Users <- TwoUsers
  Dogs <- TwoDogs
  Operations <- Everything
  MaxCalls = 3
  MaxFaults = 1
INVARIANTS
  TypeOK
PROPERTIES
  StaleAbortSparesNewJog
  AbortEndsJog
