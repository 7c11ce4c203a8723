\* Violated: a call under way reopens the session after close().
SPECIFICATION Spec
CONSTANTS
  t1 = t1
  t2 = t2
  k1 = k1
  k2 = k2
  Opener = opener
  NoThread = NoThread
  StatusIndex = statusword
  Callers <- TwoCallers
  Beaters <- TwoBeaters
  Indexes <- OneIndex
  MaxTid = 4
  MaxAttempts = 2
  Tolerant = FALSE
  MayClose = TRUE
  MaxRequests = 1
  MaxConns = 3
  MaxBeats = 0
INVARIANT ClosedStaysClosed
