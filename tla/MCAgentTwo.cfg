SPECIFICATION Spec
CONSTANTS
  w1 = w1  w2 = w2  a = a  b = b
  Workers <- TwoWorkers
  Calls <- TwoCalls
  Batches <- TogetherOnly
  Keyed <- Both
  Asking <- OnlyA
  NoCall = NoCall
  MaxTurns = 2
  MaxSeq = 16
  MaxQueries = 1
  MaxResumes = 2
  MaxCrashes = 0
  MaxRejections = 1
INVARIANTS AnsweredOnce WholeView
\* Workers stop when the bounds on queries and resumes are used up.
CHECK_DEADLOCK FALSE
