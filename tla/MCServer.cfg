SPECIFICATION FairSpec
CONSTANTS
  Scenes = {"runs", "tasks", "batch", "passes", "replay"}
  Requests = {"r1", "r2", "r3"}
  MaxRuns = 2
  Ids = {"digest", "report"}
  Cron = {"report"}
  Period = 2
  MaxAdds = 3
  Lanes = {1, 2, 3}
  Count = 4
  Scopes = {"s1"}
  MaxPasses = 3
  Bodies <- AlignedBodies
  Names = {"a", "b", "c"}
  MaxExecutions = 3
  MaxFailures = 1
INVARIANTS TypeOK NoOverlap SlotsReturnOnce ReplayFaithful
PROPERTIES OutcomeStays EverythingIsServed
\* Requests and registrations are bounded, and a batch ends.
CHECK_DEADLOCK FALSE
