SPECIFICATION FairSpec
CONSTANTS
  r1 = r1  r2 = r2  r3 = r3  k1 = k1  k2 = k2
  Runs <- ThreeRuns
  Keys <- TwoKeys
  KeyOf <- KeyOfThree
  HardRuns = 1
  MaxAge = 2
  Timely = TRUE
  MaxClock = 4
  MaxResets = 1
CHECK_DEADLOCK FALSE
INVARIANTS ReservedIsHeld HardCeiling
PROPERTIES LostSlotReturns
