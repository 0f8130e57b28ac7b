SPECIFICATION FairSpec
CONSTANTS
  r1 = r1  r2 = r2  r3 = r3  r4 = r4  s1 = s1  s2 = s2
  Requests <- FourRequests
  Sessions <- TwoSessions
  SessionOf <- ThreeAndOne
  None = None
INVARIANTS OneAtATimeInOrder
PROPERTIES EveryRequestRuns
\* Each request is made once.
CHECK_DEADLOCK FALSE
