SPECIFICATION FairSpec
CONSTANTS
  Scenes = {"context", "strategy", "memory", "archive", "stream", "prompts", "skills",
            "a2a", "oauth", "tracer", "cache", "poll", "sandbox", "chain", "gate"}
  MaxTokens = 6  KeepRecent = 2  MaxResult = 10  ToolResults <- SixResults
  Short = 3  Marker = 1  Line = 1  MaxWidth = 2  MaxMessages = 9
  MaxRevisions = 2  MaxSteps = 3  ReplanEvery = 2  MaxCost = 5  PlanLengths = {0, 1, 3, 4}
  Scopes = {"anon", "user"}  Ids = {1}  WithMetadata = {1}  MaxEntries = 1
  Workers = {"w1", "w2"}  MaxCalls = 3
  Passages = {1, 2, 3, 4}  Passes = {1}  MaxMerges = 2  MaxStarts = 3
  Requests = {1, 2, 3}  MaxRetries = 1  Resends = FALSE
  Processes = {"p1", "p2"}  Names = {"a"}  Bodies = {"x", "y"}  Tags = {"stable"}
  Transacts = TRUE  MaxMutations = 4
  Callers = {1, 2}  RequireSigned = TRUE  MaxVersions = 2
  Users = {"u", "v"}  Contexts = {"c", "d"}  MaxRuns = 2  MaxTasks = 2
  SavesInTime = TRUE  MaxIssued = 5
  Spans = {1, 2, 3, 4}  FlushAt = 2  MaxBuffer = 3  Answers = {"ok", "network"}
  Redactor = "none"  MaxPending = 3
  Calls = {1}  Keys = {1, 2}  Ttl = 2  HasStore = TRUE  MaxTime = 5
  HasLimit = FALSE
  MaxModels = 3  MaxDeltas = 2
  Policies <- ThreePolicies  ToolBatches <- ThreeBatches  NewModes = {"plan", "ask"}
INVARIANTS WindowHolds MemoryHolds RegistriesHold OneVoice
           ToolsAreGated BoundsHold
PROPERTIES ResultDecides AllComesToAnEnd
\* Every part has its bound, and most parts come to an end.
CHECK_DEADLOCK FALSE
