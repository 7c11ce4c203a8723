\* connect, close and the reconnect stop overlap; accesses and connects fail.
SPECIFICATION FairSpec
CONSTANTS
  a = a
  b = b
  Callers <- TwoCallers
  MaxCalls = 3
  MaxFaults = 1
  MaxSignals = 2
  MaxMotions = 2
INVARIANTS
  TypeOK
  NothingLeaks
  CloseReleasesAll
  
PROPERTY
  CloseEnds
