SPECIFICATION Spec
CONSTANTS
  Scenes = {"blocks", "facts", "files", "calls"}
  Sessions = {s1, s2}
  Stores = {"batch", "mutex"}
  Limit = 1
  MaxEdits = 4
  Writers = {w1, w2}
  Objects = {a, b}
  NoObject = NoObject
  MaxTime = 2
  MaxFacts = 3
  MaxAttempts = 2
  Procs = {p1, p2, p3}
  Inodes = {1, 2, 3, 4}
  MaxSaves = 2
  MaxCrashes = 1
  Engines = {"libsql", "convex", "pool"}
  Rows = {"e1", "e2", "k"}
  Calls = {"appendBoth", "appendLast", "claimX", "claimY",
           "complete", "releaseX", "erase"}
  Job <- SevenCalls
  MaxCalls = 3
  Undisturbed = TRUE
SYMMETRY Interchangeable
INVARIANTS EveryEditLands SavesStay
PROPERTIES FactsKeepContract StoreKeepsContract
\* The bounds on edits, facts and rewrites end every behaviour.
CHECK_DEADLOCK FALSE
