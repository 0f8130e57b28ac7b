SPECIFICATION Spec
CONSTANTS
  Scenes = {"blocks"}
  Sessions = {s1, s2, s3}
  Stores = {"pool"}
  Limit = 1
  MaxEdits = 3
  Writers = {w1, w2}
  Objects = {a, b}
  NoObject = NoObject
  MaxTime = 2
  MaxFacts = 3
  MaxAttempts = 3
  Procs = {p1, p2, p3}
  Inodes = {1, 2, 3, 4}
  MaxSaves = 3
  MaxCrashes = 1
  Engines = {"libsql", "convex", "pool"}
  Rows = {"e1", "e2", "k"}
  Calls = {"appendBoth", "appendLast", "claimX", "claimY",
           "complete", "releaseX", "erase"}
  Job <- SevenCalls
  MaxCalls = 3
  Undisturbed = TRUE
INVARIANTS EveryEditLands
\* The bound on edits ends every behaviour.
CHECK_DEADLOCK FALSE
