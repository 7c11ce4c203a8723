\* Violated: a failed abort ends the watchdog, not the jog.
SPECIFICATION FairSpec
CONSTANTS
  u1 = u1
  u2 = u2
  u3 = u3
  d1 = d1
  d2 = d2
  NoTask = NoTask
  Velocities = {1, 2}
  Users <- TwoUsers
  Dogs <- TwoDogs
  Operations <- HoldAndStop
  MaxCalls = 2
  MaxFaults = 1
PROPERTY TtlStops
