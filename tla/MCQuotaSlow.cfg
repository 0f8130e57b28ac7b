SPECIFICATION Spec
CONSTANTS
  r1 = r1  r2 = r2  r3 = r3  k1 = k1  k2 = k2
  Runs <- ThreeRuns
  Keys <- OneKey
  KeyOf <- KeyOfOne
  HardRuns = 2
  MaxAge = 2
  Timely = FALSE
  MaxClock = 4
  MaxResets = 0
CHECK_DEADLOCK FALSE
INVARIANTS HardCeiling
