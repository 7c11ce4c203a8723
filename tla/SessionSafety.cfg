\* Strict transaction ids, two callers against the keepalive.
SPECIFICATION Spec
CONSTANTS
  t1 = t1
  t2 = t2
  k1 = k1
  k2 = k2
  Opener = opener
  NoThread = NoThread
  StatusIndex = statusword
  Callers <- TwoCallers
  Beaters <- OneBeater
  Indexes <- OneIndex
  MaxTid = 3
  MaxAttempts = 2
  Tolerant = FALSE
  MayClose = FALSE
  MaxRequests = 3
  MaxConns = 2
  MaxBeats = 1
SYMMETRY CallerSymmetry
INVARIANTS
  TypeOK
  SerializedIo
  OwnAnswer
  LeftoversAreDoomed
  ReconnectAnnounced
PROPERTY ImplementsDriveCalls
