SPECIFICATION Spec
CONSTANTS
  w1 = w1  w2 = w2  a = a  b = b
  Workers <- OneWorker
  Calls <- TwoCalls
  Batches <- OneByOneOrBoth
  Keyed <- Both
  Asking <- OnlyA
  NoCall = NoCall
  MaxTurns = 2
  MaxSeq = 14
  MaxQueries = 1
  MaxResumes = 1
  MaxCrashes = 1
  MaxRejections = 0
INVARIANTS SuspensionDecidable
\* Workers stop when the bounds on queries and resumes are used up.
CHECK_DEADLOCK FALSE
