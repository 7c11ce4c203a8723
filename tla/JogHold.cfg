\* Hold-to-move with failing accesses, late writes and close(), no stop().
SPECIFICATION FairSpec
CONSTANTS
  u1 = u1
  u2 = u2
  u3 = u3
  d1 = d1
  d2 = d2
  NoTask = NoTask
  Velocities = {1, 2}
  Users <- TwoUsers
  Dogs <- TwoDogs
  Operations <- HoldAndClose
  MaxCalls = 3
  MaxFaults = 1
INVARIANTS
  WatchdogGuards
  OneWatchdog
  MotionIsAccounted
PROPERTY
  DeadlineStops
