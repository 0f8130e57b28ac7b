------------------------------ MODULE MCServices ------------------------------
(***************************************************************************)
(* Parts that share no state: what the loop does to its context and to its *)
(* strategies, memory, registries of prompts and skills, the agent-to-     *)
(* agent server, hooks of the browser, and what stands before a model, an  *)
(* endpoint, a tool or a sandbox.  A behaviour is one of them at work (scene).     *)
(***************************************************************************)
EXTENDS Integers, Sequences

CONSTANTS
  Scenes,
  MaxTokens, KeepRecent, MaxResult, ToolResults, Short, Marker, Line, MaxWidth, MaxMessages,
  MaxRevisions, MaxSteps, ReplanEvery, MaxCost, PlanLengths,
  Scopes, Ids, WithMetadata, MaxEntries, Workers, MaxCalls,
  Passages, Passes, MaxMerges, MaxStarts,
  Requests, MaxRetries, Resends,
  Processes, Names, Bodies, Tags, Transacts, MaxMutations,
  Callers, RequireSigned, MaxVersions,
  Users, Contexts, MaxRuns, MaxTasks,
  SavesInTime, MaxIssued,
  Spans, FlushAt, MaxBuffer, Answers, Redactor, MaxPending,
  Calls, Keys, Ttl, HasStore, MaxTime,
  HasLimit,
  MaxModels, MaxDeltas,
  Policies, ToolBatches, NewModes

VARIABLES
  scene,
  window, made, before,
  strategy, schema, pc, pass, remaining, last, budget, total, first, spent,
  billed, emitted,
  store, vector, metadata, times, scoped, seen, call, calls, clean, moved,
  rows, archive, dedup, starts,
  status, suspension, abort, mounted, request, replayed,
  state, worker, acked, mutations,
  record, version, doing, inHand, approved, signed, ran,
  sent, run, released, handler, active, taskStore, owners,
  tokens, stored, expired, refreshing, rotates, accepted, issued, adrift, unsaved, lost,
  ended, buffer, batch, pending, broken, stopped, delivered, dropped,
  lru, outer, lookup, now, late,
  current, newest, at, aborted, armed, shown, isPolling, pollMounted,
  create, phase, winner, boundary, cancelled, killed,
  streams, mode, model, deltas, out, outcome, refused,
  configured, agent, policy, skill, gatePhase, toolBatch, answered, stage, granted,
  lastUse, found, runs

Context == INSTANCE Compaction
Strategy == INSTANCE Strategies
Memory == INSTANCE MemoryScopes
Archive == INSTANCE ArchivalDedup WITH index <- archive, pass <- dedup
Stream == INSTANCE StreamHook
Prompts == INSTANCE PromptRegistry
Skills == INSTANCE SkillBank
A2A == INSTANCE TaskServer
OAuth == INSTANCE OAuthRefresh WITH call <- refreshing
Tracer == INSTANCE SpanBuffer
Cache == INSTANCE AnswerCache WITH call <- lookup
Poll == INSTANCE AsyncRunHook WITH mounted <- pollMounted
Sandbox == INSTANCE SandboxRun WITH aborted <- cancelled
Chain == INSTANCE FallbackChain WITH index <- model, seen <- deltas,
                                     cancelled <- refused
Gate == INSTANCE ToolGate WITH phase <- gatePhase, batch <- toolBatch

windowVars == <<window, made, before>>
strategyVars == <<strategy, schema, pc, pass, remaining, last, budget, total, first,
                  spent, billed, emitted>>
memoryVars == <<store, vector, metadata, times, scoped, seen, call, calls, clean, moved>>
archiveVars == <<rows, archive, dedup, starts>>
streamVars == <<status, suspension, abort, mounted, request, replayed>>
promptVars == <<state, worker, acked, mutations>>
skillVars == <<record, version, doing, inHand, approved, signed, ran>>
taskVars == <<sent, run, released, handler, active, taskStore, owners>>
oauthVars == <<tokens, stored, expired, refreshing, rotates, accepted, issued, adrift,
               unsaved, lost>>
spanVars == <<ended, buffer, batch, pending, broken, stopped, delivered, dropped>>
cacheVars == <<lru, outer, lookup, now, late>>
pollVars == <<current, newest, at, aborted, armed, shown, isPolling, pollMounted>>
sandboxVars == <<create, phase, winner, boundary, cancelled, killed>>
chainVars == <<streams, mode, model, deltas, out, outcome, refused>>
gateVars == <<configured, agent, policy, skill, gatePhase, toolBatch, answered, stage,
              granted, lastUse, found, runs>>

-----------------------------------------------------------------------------
\* Permissions and answers of the model for ToolGate: no configuration; plan mode
\* with an allowed tool; a denied tool and denied arguments under bypass.
Look(a) == [tool |-> "look", arg |-> a]
Edit(a) == [tool |-> "edit", arg |-> a]
UseSkill(a) == [tool |-> "skill_use", arg |-> a]
Unconfigured == [mode |-> "default", deny |-> {}, denyArgs |-> {}, allow |-> {},
                 ask |-> {}, default |-> "none"]
ThreePolicies ==
  {Unconfigured,
   [Unconfigured EXCEPT !.mode = "plan", !.allow = {"edit"}, !.ask = {"look"}],
   [Unconfigured EXCEPT !.mode = "bypass", !.deny = {"look"}, !.denyArgs = {"edit"}]}
ThreeBatches ==
  {<<Look("plain"), Edit("risky"), Edit("plain")>>,
   <<UseSkill("editing"), Look("plain"), Edit("plain")>>,
   <<Look("risky"), UseSkill("any")>>}

\* ToolResults for Compaction: short ones; one that its pointer leaves above the limit;
\* long ones, of which one is binary; failures that are short and long.
ResultOf(size, pointer) ==
  [size |-> size, pointer |-> pointer, binary |-> FALSE, failed |-> FALSE]
Failing(r) == [r EXCEPT !.failed = TRUE]
SixResults ==
  {ResultOf(4, 1), Failing(ResultOf(4, 1)), ResultOf(11, 4), ResultOf(11, 1),
   Failing(ResultOf(20, 1)), [ResultOf(20, 1) EXCEPT !.binary = TRUE]}

-----------------------------------------------------------------------------
\* Where a part is not at work, its choices are fixed.
Init ==
  /\ scene \in Scenes
  /\ Context!Init /\ Strategy!Init /\ Memory!Init /\ Archive!Init /\ Stream!Init
  /\ Prompts!Init /\ Skills!Init /\ A2A!Init /\ OAuth!Init /\ Tracer!Init
  /\ Cache!Init /\ Poll!Init /\ Sandbox!Init /\ Chain!Init
  /\ Gate!Init
  /\ scene # "strategy" => strategy = "plan" /\ schema
  /\ scene # "oauth" => rotates
  /\ scene # "chain" => streams = <<TRUE>> /\ mode = "stream"
  /\ scene # "gate" => configured = CHOOSE p \in Policies : TRUE

OnContext ==
  /\ scene = "context" /\ Context!Next
  /\ UNCHANGED <<scene, strategyVars, memoryVars, archiveVars, streamVars,
                 promptVars, skillVars, taskVars, oauthVars, spanVars,
                 cacheVars, pollVars, sandboxVars, chainVars, gateVars>>

OnStrategy ==
  /\ scene = "strategy" /\ Strategy!Next
  /\ UNCHANGED <<scene, windowVars, memoryVars, archiveVars, streamVars,
                 promptVars, skillVars, taskVars, oauthVars, spanVars,
                 cacheVars, pollVars, sandboxVars, chainVars, gateVars>>

OnMemory ==
  /\ scene = "memory" /\ Memory!Next
  /\ UNCHANGED <<scene, windowVars, strategyVars, archiveVars, streamVars,
                 promptVars, skillVars, taskVars, oauthVars, spanVars,
                 cacheVars, pollVars, sandboxVars, chainVars, gateVars>>

OnArchive ==
  /\ scene = "archive" /\ Archive!Next
  /\ UNCHANGED <<scene, windowVars, strategyVars, memoryVars, streamVars,
                 promptVars, skillVars, taskVars, oauthVars, spanVars,
                 cacheVars, pollVars, sandboxVars, chainVars, gateVars>>

OnStream ==
  /\ scene = "stream" /\ Stream!Next
  /\ UNCHANGED <<scene, windowVars, strategyVars, memoryVars, archiveVars,
                 promptVars, skillVars, taskVars, oauthVars, spanVars,
                 cacheVars, pollVars, sandboxVars, chainVars, gateVars>>

OnPrompts ==
  /\ scene = "prompts" /\ Prompts!Next
  /\ UNCHANGED <<scene, windowVars, strategyVars, memoryVars, archiveVars,
                 streamVars, skillVars, taskVars, oauthVars, spanVars,
                 cacheVars, pollVars, sandboxVars, chainVars, gateVars>>

OnSkills ==
  /\ scene = "skills" /\ Skills!Next
  /\ UNCHANGED <<scene, windowVars, strategyVars, memoryVars, archiveVars,
                 streamVars, promptVars, taskVars, oauthVars, spanVars,
                 cacheVars, pollVars, sandboxVars, chainVars, gateVars>>

OnA2A ==
  /\ scene = "a2a" /\ A2A!Next
  /\ UNCHANGED <<scene, windowVars, strategyVars, memoryVars, archiveVars,
                 streamVars, promptVars, skillVars, oauthVars, spanVars,
                 cacheVars, pollVars, sandboxVars, chainVars, gateVars>>

OnOAuth ==
  /\ scene = "oauth" /\ OAuth!Next
  /\ UNCHANGED <<scene, windowVars, strategyVars, memoryVars, archiveVars,
                 streamVars, promptVars, skillVars, taskVars, spanVars,
                 cacheVars, pollVars, sandboxVars, chainVars, gateVars>>

OnTracer ==
  /\ scene = "tracer" /\ Tracer!Next
  /\ UNCHANGED <<scene, windowVars, strategyVars, memoryVars, archiveVars,
                 streamVars, promptVars, skillVars, taskVars, oauthVars,
                 cacheVars, pollVars, sandboxVars, chainVars, gateVars>>

OnCache ==
  /\ scene = "cache" /\ Cache!Next
  /\ UNCHANGED <<scene, windowVars, strategyVars, memoryVars, archiveVars,
                 streamVars, promptVars, skillVars, taskVars, oauthVars,
                 spanVars, pollVars, sandboxVars, chainVars, gateVars>>

OnPoll ==
  /\ scene = "poll" /\ Poll!Next
  /\ UNCHANGED <<scene, windowVars, strategyVars, memoryVars, archiveVars,
                 streamVars, promptVars, skillVars, taskVars, oauthVars,
                 spanVars, cacheVars, sandboxVars, chainVars, gateVars>>

OnSandbox ==
  /\ scene = "sandbox" /\ Sandbox!Next
  /\ UNCHANGED <<scene, windowVars, strategyVars, memoryVars, archiveVars,
                 streamVars, promptVars, skillVars, taskVars, oauthVars,
                 spanVars, cacheVars, pollVars, chainVars, gateVars>>

OnChain ==
  /\ scene = "chain" /\ Chain!Next
  /\ UNCHANGED <<scene, windowVars, strategyVars, memoryVars, archiveVars,
                 streamVars, promptVars, skillVars, taskVars, oauthVars,
                 spanVars, cacheVars, pollVars, sandboxVars, gateVars>>

OnGate ==
  /\ scene = "gate" /\ Gate!Next
  /\ UNCHANGED <<scene, windowVars, strategyVars, memoryVars, archiveVars,
                 streamVars, promptVars, skillVars, taskVars, oauthVars,
                 spanVars, cacheVars, pollVars, sandboxVars, chainVars>>

Next ==
  \/ OnContext \/ OnStrategy \/ OnMemory \/ OnArchive \/ OnStream
  \/ OnPrompts \/ OnSkills \/ OnA2A \/ OnOAuth \/ OnTracer
  \/ OnCache \/ OnPoll \/ OnSandbox \/ OnChain \/ OnGate

allVars == <<scene, windowVars, strategyVars, memoryVars, archiveVars, streamVars,
             promptVars, skillVars, taskVars, oauthVars, spanVars, cacheVars,
             pollVars, sandboxVars, chainVars, gateVars>>

\* A stream and a tracer that are not at work have no fair action enabled; a
\* strategy has one from its start.
Fairness == WF_allVars(OnStrategy) /\ Stream!Fairness /\ Tracer!Fairness

Spec == Init /\ [][Next]_allVars
FairSpec == Spec /\ Fairness

-----------------------------------------------------------------------------
\* Every variable of the part at work has its type.
TypeOK ==
  /\ scene = "strategy" => Strategy!TypeOK
  /\ scene = "memory" => Memory!TypeOK
  /\ scene = "archive" => Archive!TypeOK
  /\ scene = "stream" => Stream!TypeOK
  /\ scene = "prompts" => Prompts!TypeOK
  /\ scene = "skills" => Skills!TypeOK
  /\ scene = "a2a" => A2A!TypeOK
  /\ scene = "oauth" => OAuth!TypeOK
  /\ scene = "tracer" => Tracer!TypeOK
  /\ scene = "cache" => Cache!TypeOK
  /\ scene = "poll" => Poll!TypeOK
  /\ scene = "sandbox" => Sandbox!TypeOK
  /\ scene = "chain" => Chain!TypeOK
  /\ scene = "gate" => Gate!TypeOK

\* A compaction keeps the order of the window that the model gets, the system
\* prompt, what users said, the recent turns and the failures that still show (a
\* long result, recent or failed, is condensed before), and drops what it must.
WindowHolds ==
  scene = "context" => Context!TypeOK /\ Context!DropsWhatItMust

\* What an erase that ran alone and succeeded has removed is gone, what a merge of
\* scopes has found at its source it does not lose, and no text is lost by the
\* deduplication of the archive.
MemoryHolds ==
  /\ scene = "memory" => Memory!ErasedIsGone /\ Memory!MergeKeeps
  /\ scene = "archive" => Archive!NothingForgotten

\* A registry never takes back what it answered, explains what it holds, and runs
\* only what was tested, approved and signed as it is.
RegistriesHold ==
  /\ scene = "prompts" => Prompts!HistoryExplains /\ Prompts!AnsweredStays
  /\ scene = "skills" => Skills!RunsAreEarned /\ Skills!NewestStays

\* A hook has one stream or run that it shows, and never posts a turn again of
\* which it has seen an answer; a chain of models speaks with one voice.
OneVoice ==
  /\ scene = "stream" => Stream!OneStream /\ Stream!SafeReplay
  /\ scene = "poll" => Poll!ShowsNewest
  /\ scene = "chain" => Chain!OneVoice

\* A tool runs only if the policy of the run, the hook or human it asks, and the
\* skill that is active allow it, a mutating one alone; a resumed run goes on under
\* the skill that the log shows.
ToolsAreGated ==
  scene = "gate" => /\ Gate!DenyIsFinal /\ Gate!MutatesAlone
                    /\ Gate!SkillObeyed /\ Gate!SkillRemembered

\* What is limited, counted or borrowed stays so: the budget of a strategy and its
\* one result, runs and tasks of the agent-to-agent server, spans of the tracer,
\* answers of the cache, sandboxes, and the refresh tokens of a connection,
\* unless an answer, a save or the process was lost when they were replaced.  (And
\* every variable has its type, whose bounds the code keeps.)
BoundsHold ==
  /\ TypeOK
  /\ scene = "strategy" =>
       Strategy!OneResult /\ Strategy!BudgetIsSpent /\ Strategy!SuccessEarned
  /\ scene = "a2a" => A2A!RunsAreBounded /\ A2A!OwnersFollowTasks
  /\ scene = "tracer" => Tracer!SpansAccountedFor
  /\ scene = "cache" => Cache!ServedInTime
  /\ scene = "sandbox" => Sandbox!NoSandboxLeaks
  /\ scene = "oauth" => OAuth!StaysLoggedIn

\* The result event of a stream decides what the hook shows.
ResultDecides == Stream!ResultDecides

\* A strategy, a stream that was stopped and the shutdown of the tracer come to
\* their end.
AllComesToAnEnd ==
  /\ scene = "strategy" => Strategy!StrategyEnds
  /\ Stream!StoppedEnds
  /\ Tracer!ShutdownFlushes
=============================================================================
