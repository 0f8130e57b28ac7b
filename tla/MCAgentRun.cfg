SPECIFICATION FairSpec
CONSTANTS
  w1 = w1  w2 = w2  a = a  b = b
  Workers <- OneWorker
  Calls <- TwoCalls
  Batches <- OneByOneOrBoth
  Keyed <- OnlyA
  Asking <- OnlyA
  NoCall = NoCall
  MaxTurns = 2
  MaxSeq = 11
  MaxQueries = 1
  MaxResumes = 2
  MaxCrashes = 1
  MaxRejections = 1
INVARIANTS ApprovedBeforeActing SuccessAnswersAll
           IntegrityGuarantee DecidableUndisturbed
PROPERTIES KeepsPromise RunEnds
\* Workers stop when the bounds on queries and resumes are used up.
CHECK_DEADLOCK FALSE
