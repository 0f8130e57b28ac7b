SPECIFICATION FairSpec
CONSTANTS
  w1 = w1  w2 = w2  w3 = w3  p1 = p1  p2 = p2  NoWorker = NoWorker
  Procs <- TwoProcs
  Workers <- ThreeWorkers
  ProcOf <- Placement
  Body <- GateStepGate
  Lease = 2
  MaxClock = 3
  MaxFaults = 1
INVARIANTS LeaseExclusive GatesDecidedOnce SavedStepsStay
PROPERTIES ResumeReturns TakenOver
\* Nothing is left to do when every call has returned.
CHECK_DEADLOCK FALSE
