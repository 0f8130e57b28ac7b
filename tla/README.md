# Verification of eidentic

TLA+ specifications of the parts of eidentic that meet concurrency, crashes, retries or limits:
the durable run of an agent and what stands before its tools, the lock of a session, the server's
quota, asynchronous runs, tasks and batches, the workflow engine, the stores and the memory above
them, and the services around a run. Each module is written from the code and checked by TLC on
small instances; all safety properties but one, and the refinements, are also proved with TLAPS for
every value of the constants. `PROJECT.json`
maps each definition to the lines it stands for, and lists for each property a mutant of the code
that breaks it.

Paths below are relative to `src/packages/`.

## The system

eidentic is a TypeScript SDK for AI agents. Its packages fall into these parts.

| Part | State it keeps | Operations | Who it interacts with | What is hard |
|---|---|---|---|---|
| Agent and run loop (`core/src/agent.ts`, `loop.ts`, `session.ts`, `replay-hash.ts`) | per run: cache of the event log, next seq, rolling hash, turn, pending tool calls | `query`, `resume`, `eraseScope`; `runTurn`, `resumeTurn`, `runLoop` | appends events and checkpoints to a durable store, calls the model, dispatches tools | a crash or a failed store call between any two awaits; two processes on one session; suspension for a human decision |
| Tool dispatch (`core/src/tool.ts`) | none of its own | `dispatch`, `runOne`, `execOne`, `ctx.suspend` | idempotency ledger and decisions of the store | side effects at most once, whatever races, dies and retries |
| Permissions and skills of a run (`core/src/permission.ts`, `skill-tools.ts`, `agent.ts`) | the agent's policy, the policy of a run, the list of the active skill | `evaluatePermission`, `setPermissionMode`, `skill_use` | hooks and humans that are asked, the log | lists read before an await and changed during it, restored by a resume |
| Context and strategies (`core/src/compaction.ts`, `strategies.ts`) | the window of messages; budget, pass and terminal of a strategy | `compactMessages`; `reflection`, `planAndExecute` | run loop, critic, planner | what must stay together; one budget over many sub-runs |
| Session lock (`core/src/agent.ts`) | map from session to a promise | `acquireSession`, its release | every query and resume of a process | release and wake-up are different moments |
| Durable stores (`sqlite`, `libsql`, `postgres`, `convex`, `types/src/testing.ts`) | events, checkpoints, idempotency keys, decisions, blocks, facts | `appendEvents`, `claimIntent`, `recordCompletion`, `eraseScope`, `upsertBlock`, `assertFact`, ... | agents of any process | uniqueness constraints and transactions are the only arbiters between processes |
| Server (`server/src`) | usage and reservations of a key; registry of async runs; task table; lanes of a batch | `check`, `record`, `release`, sweep, `reset`; start, poll, cancel, timeout, `drain`; `add`, `remove`, tick; `run` | agent, quota, webhooks | reserve first and settle later; timeout against success; overlap; callbacks that throw |
| Workflow (`workflow/src`) | run records in a registry per process and in a shared file; replay cache; lease of a resume | run, suspend, `resumeWorkflow`, heartbeat, `claimResume`, `renewResume`, `finishResume`; combinators | file store under a lock file, steps with side effects | leases that expire, two processes that resume one run, replay of a body with branches |
| Memory (`memory/src`) | blocks, facts, entries and their index, maps beside them, passes in flight | edit, ingest, erase, merge, deduplicate, consolidate | stores, vector stores, model | calls that interleave at each await, two indexes without a transaction |
| Prompts and skills (`prompts/src`, `skills/src`) | versions, tags and history; the lock of a skill | `register`, `tag`; `register`, `approve`, `use` | file or memory store, tests, signatures | read, change and write back by several processes; what runs is what was approved |
| Models and services (`model/src`, `a2a/src`, `mcp/src/oauth.ts`, `langfuse/src`, `e2b/src`) | LRU; tasks and owners; tokens; spans; a sandbox | complete, stream; message/send; refresh; flush; run | providers, endpoints | failover after the first delta, timers against late answers, bounded buffers |
| Browser hooks (`react/src`) | status, suspension, controller | send, resume, stop, start, unmount | server | a component that stops, retries and starts again |
| Model adapters, vector stores, tools, rag, eval, CLI, studio, integrations | little | translations and I/O | external services | no state that several actors share |

What makes each part correct: an effect is performed at most once and never without the approval
that was asked for; a run has one final outcome, which every later report repeats; the log has one
order and one answer for each tool call; no tool runs that the run's policy or skill forbids; a
session is used by one run of a process at a time, in the order of the calls; what is limited stays
so and no slot is lost; a workflow gate is decided once and a persisted step does not run again; a
replay gives each branch its own results; concurrent edits are kept; what was erased is gone and
what was not is never lost; and everything that begins comes to an end. The hazards in
`PROJECT.json` say for each place in the code where this could go wrong, and which property would
notice.

## The modules

Each action is one stretch of the code between two awaits; `\E` over a small set stands for what a
caller, a model or a human may answer; a step that may fail has its failure as a disjunct or an
action. Definitions called faulty variants are what a mutant puts in place of the code; a property
that has several conjuncts has one mutant in `PROJECT.json`, and further variants to try by hand.

### ToolDispatch: the ledger of tool calls

`ToolDispatch.tla` is `ToolRegistry.runOne` for the calls of one session, run by any number of
executors (processes). `ledger`, `legacy` and `decisions` are tables of the store; `exec` is where
each executor stands in `runOne`. Each awaited store call is an action: `Lookup` (getIdempotency,
tool.ts:402), `Claim` (claimIntent), `Reread` (the claim was lost), `Ask` (`ctx.suspend`), `Act`
(`execOne`), `Complete` (recordCompletion), `Release` (releaseIntent after a suspension). `Dispatch`
stands for everything that may refuse a call before the ledger is read, which ToolGate has in
detail. `Crash` is the death of a process or a store call that rejects; since a call may commit
and still reject, a crash before or after the step covers both. `EraseScope` comes at any time
because the code takes no lock for it.

Run `dispatch` has two executors and four calls: two with one key and the same arguments, one with
other arguments, one without a key; two of them ask a human; one erasure. That is the least that
lets a winner, a loser, a collision and a call outside the ledger meet.

### AgentRun and DurableRun: the durable run

`AgentRun.tla` is `Agent.query` and `Agent.resume` down to every append. `log`, `checkpoint`,
`ledger` and `decisions` are what the store holds of one session; `seen`, `next` and `hash` are
`Session._cache`, `Session._seq` and the rolling hash, where a hash is the set of seqs folded into
it; `at` and `job` are the program counter and locals of the loop. `Place` and `Refused` are the two
outcomes of an append: the insert under UNIQUE (session_id, seq), or a seq that is taken or a store
call that fails before or after it committed. Actions follow the control flow of `runTurn` (`Query`,
`Start`, `User`, `Checkpoint`), `runLoop` (`Stop`, `ModelFails`, `Interrupted`, `Model`,
`AppendAssistant`, `Called`, `Look`, `Execute`, `Complete`, `Results`, `Suspend`, `Finish`, `Close`)
and `resumeTurn` (`Resume`, `Decide`, `Open`, which continues the run or ends it when a guardrail
now blocks its input). `Look` to `Complete` are ToolDispatch in fewer steps, because the store calls
of one key are what ToolDispatch checks, and the order of a batch is what matters here.

`DurableRun.tla` is the abstract promise: a run is open or suspended until it is reported with one
final outcome, and a keyed call acts once and only while a run is unfinished. AgentRun implements
it under the mapping in `KeepsPromise`: the outcome of a run is what its last terminal event in the
log says.

Two calls, one of which asks, answered one by one or as a batch, and two turns, are enough for a
batch that is interrupted between its calls, for a suspension with calls before it, and for a
ceiling on turns. `MaxSeq` is larger than what the instance's queries and resumes append in the
behaviours of interest; behaviours that would need more events end there. `WholeView` is the
optimistic concurrency of the log; it holds as long as no append is rejected by the store for
another reason than a taken seq, because the seq of a failed append stays free (session.ts:128) and
a process with an older view may fill it.

### ToolGate: what stands before a tool

`ToolGate.tla` follows a batch through `dispatch()` and `runOne` up to the effect: `Turn` is the
order (in sequence with a `skill_use`, else reads side by side and then the others one by one),
`Evaluate` the rules of a policy, `HookAnswers` and `HumanAnswers` the two awaits of the gate,
`Returns` the tool with what `skill_use` activates. `Start` builds the registry of a query or
resume, with the policy of the moment, and restores the skill from the log; `SetPermissionMode` may
come at any time and must not reach a run in progress. A glob is the set of tools it matches. A
batch has up to three calls so that a read, a mutating call and a change of skill meet.

### SessionLock

`SessionLock.tla` is `acquireSession`: `tails` is the map, `previous` the promise a request awaits,
`settled` the promises that have resolved. `Release` (the finally block) and `Settle` (the microtask
that resolves the tail) are separate, which is the interesting part: a request may arrive in
between. Four requests, three of them for one session, allow a queue of three and a second session
that must not be disturbed.

### Quota

`Quota.tla` is `InMemoryQuota` and the two handlers that use it. Its methods are synchronous, so
each is one action; requests interleave between `Check` and `Record` or `Release`. `Lose` is a
request whose replay of events throws before the try block that settles. USD and token ceilings
are `Refuse`, which may happen at any check. `Timely` says whether every run is settled before its
reservation is `MaxAge` old: `quota` assumes it and `quota_slow` does not. Three requests on two
keys and a clock of twice the age cover a sweep before and after a reset.

### WorkflowResume

`WorkflowResume.tla` is `resumeWorkflow` over the registry of each process and the file they share.
`store` and `mem` hold the record of one run; `queue` holds the store operations a process has yet
to serve, in order. A registry method checks and queues in one synchronous stretch
(`StartClaim`, `StartRenewal`, `Heartbeat`, `StartFinish`); the operation under the file lock and
its continuation are one step (`ServeClaim`, `ServeRenewal`, `ServeFinish`), which may fail before
or after the file was replaced. The body is a sequence of steps and gates; `Open` is what the
replay finds neither memoized nor decided. The heartbeat is modelled when a third of the lease is
over; one that fires sooner after the renewal of a step renews to the same time.

Run `workflow_resume` has three calls in two processes, a body gate, step, gate, a lease of two
ticks in a clock of three, and one fault (a crash or a failed operation). So a lease can expire, be
taken over and expire again, and the second resume meets the step of the first.

### MCStorage: data that several processes write

Four systems that share nothing; a behaviour is one of them at work (`scene`), so that one run
checks them all without multiplying their states.

- `BlockEditing.tla`: the compare-and-swap loop of `BlockEditor` over stores that write in one step
  ("batch"), in transactions of one connection ("mutex") or of a pool ("pool"). A value is the
  sequence of the edits it is made of, so that a lost edit is visible. Two sessions, four edits.
- `FactContract.tla` is the in-memory store of `types/src/testing.ts`, one step per operation;
  `FactWrites.tla` is PostgreSQL with its advisory lock, its snapshot taken before the lock is
  granted, its unique index and its retries, and the corroboration of consolidate.ts. The second
  implements the first (`FactsKeepContract`), whose facts form one timeline.
- `LockFile.tla`: `withExclusiveFileLock`, with its four looks at a stale lock before the unlink.
  `Undisturbed` says that nothing happens between the last look and the unlink; three processes,
  one crash.
- `StoreContract.tla` and `StoreCalls.tla`: events, idempotency keys and erasure as atomic calls,
  and as the statements that libSQL, Convex and PostgreSQL make of them, with statements that fail
  and answers to COMMIT that are lost. The second implements the first (`StoreKeepsContract`) for
  the engines of the run. `Job` says what each call is; the run has seven calls on three rows
  (`SevenCalls`), of which three may be made.

The theorems about all four are in MCStorage itself, each with the invariant of its system.

### MCServer: what runs inside a server process

- `AsyncRuns.tla`: the handler of an async run, its background job, timer and cancellation, the
  registry at its limit (two entries for three runs) and `drain`.
- `TaskScheduler.tla`: `Scheduler` with an interval and a cron task; of the clock only the time left
  until a task is due is kept.
- `BatchRuns.tla`: four items in three lanes, with failures, cancellation and a callback that throws.
- `Consolidation.tla`: passes of a scope, coalesced.
- `WorkflowReplay.tla`: the body of a workflow under `ctx.all`, `map()` or `parallel()`, executed up
  to three times; what an earlier execution left in flight goes on beside the next one. `Faithful`
  compares each result with the operation at its place. The bodies are those whose branches do not
  share a step name after an asynchronous wait; see the findings for the others.

### MCServices: the loop's context, memory, registries and services

| Module | Source | Its part of the properties |
|---|---|---|
| `Compaction.tla` | `core/src/compaction.ts`, `loop.ts` | a compaction keeps the system prompt, the first turn and the most recent whole turns, and drops no more than it has to |
| `Strategies.tla` | `core/src/strategies.ts` | one result with the sum of all usage, the budget within the policy, success only if earned, an end |
| `ToolGate.tla` | see above | `ToolsAreGated` |
| `MemoryScopes.tla` | `memory/src/memory.ts` (ingest, eraseScope, mergeScopes) | what was erased is gone; a merge loses nothing that it read |
| `ArchivalDedup.tla` | `memory/src/memory.ts` (deduplicateArchival) | no text is lost wherever a pass breaks off |
| `PromptRegistry.tla` | `prompts/src` | the history explains versions and tags; an answer is never taken back |
| `SkillBank.tla` | `skills/src/bank.ts` | what runs was tested, approved and signed as it is; no older version returns |
| `StreamHook.tla`, `AsyncRunHook.tla` | `react/src` | one stream, no turn posted twice, the result decides; the newest run is shown |
| `FallbackChain.tla`, `AnswerCache.tla` | `model/src` | an answer has one voice; no answer that was stored more than twice its time ago, no key twice |
| `TaskServer.tla` | `a2a/src/server.ts` | runs stay bounded although handlers give up; owners follow stored tasks |
| `OAuthRefresh.tla` | `mcp/src/oauth.ts` | the connection and its store keep a refresh token that works, whatever fails, unless the newest one was lost on its way or never saved |
| `SpanBuffer.tla` | `langfuse/src/index.ts` | each span is buffered, sent or counted once; shutdown flushes |
| `SandboxRun.tla` | `e2b/src/index.ts` | no sandbox outlives its run, however late it was created |

Bounds: every buffer, limit or counter is two or three, and one more actor or item than it admits is
there to exceed it; two workers, processes or callers interleave. `AnswerCache` has one caller and
two keys, since the ages alone make its states; `MemoryScopes` has one id, two scopes and two
workers with three calls. Compaction counts characters, at four to a token as the code does, scaled
down: a result may have ten of them, a marker and a line of the pointer one each. The six results of
the instance are within the limit, just beyond it and far beyond it, with short and long pointers,
some of them failures or binary. In `OAuthRefresh` two callers refresh at once, and any answer may
be lost, any save fail, and the process die at any moment.

## The runs

| Run | Instance | What it checks |
|---|---|---|
| `dispatch` | two executors, four calls, one erasure | `EffectBound`: an effect happens once per key, plus once for each erasure. `AnswersGenuine`: an answer belongs to an execution with that key and those arguments. `NoLeakedIntent`, `AbandonedStaysClosed`: what a row becomes after a suspension and after a crash. |
| `agent_run` | one process, a query, two resumes, one crash, one failing append | `ApprovedBeforeActing`, `SuccessAnswersAll`, `IntegrityGuarantee` (the hash of a resumed run), `DecidableUndisturbed` (a decision reaches the call that was reported as suspended, unless a crash or a refused append came in between), `KeepsPromise` (DurableRun), `RunEnds` |
| `agent_two_resumes` | two processes, a query and two resumes, one failing append | `AnsweredOnce`, `WholeView` |
| `agent_lost_suspension` | one process, one crash; expects a violation | `SuspensionDecidable` |
| `session_lock` | four requests, two sessions | `OneAtATimeInOrder`, `EveryRequestRuns` |
| `quota` | three requests, two keys, one reset, runs that are settled in time | `ReservedIsHeld`, `HardCeiling`, `LostSlotReturns` |
| `quota_slow` | runs that outlive their reservation; expects a violation | `HardCeiling` |
| `workflow_resume` | three resumes, two processes, one fault | `LeaseExclusive`, `GatesDecidedOnce`, `SavedStepsStay`, `ResumeReturns`, `TakenOver` |
| `storage` | blocks, facts, files, calls | `EveryEditLands`, `SavesStay`, `FactsKeepContract`, `StoreKeepsContract` |
| `postgres_blocks` | three sessions over a pool; expects a violation | `EveryEditLands` |
| `server` | async runs, tasks, batch, passes, replay | `TypeOK`, `NoOverlap`, `SlotsReturnOnce`, `ReplayFaithful`, `OutcomeStays`, `EverythingIsServed` |
| `services` | the fifteen parts of MCServices | `WindowHolds` (what a compaction leaves), `MemoryHolds`, `RegistriesHold`, `OneVoice`, `ToolsAreGated`, `BoundsHold` (with the types), `ResultDecides`, `AllComesToAnEnd` |

Deadlock is not checked where bounds end every behaviour; that a run, a request, a resume, a
strategy or a stream comes to its end is a liveness property instead. In `storage` connections and
objects are symmetric; there is no liveness property in that run.

## Fairness

- AgentRun: weak fairness of every step of a worker. A process that has not crashed runs the
  continuations of its promises; store and model calls return or fail. Queries, resumes and
  crashes are never obliged to happen.
- SessionLock: weak fairness of `Enter`, `Release` and `Settle`. Microtasks run, and whoever
  iterates over a run drains or returns the iterator; a caller that abandons it without either
  holds the session for ever, in the code as well.
- Quota: the clock and the timer of the sweep go on, and every run ends (`RunEnds` of AgentRun).
- WorkflowResume: steps return or throw, the file lock is granted, processes are restarted, the
  clock goes on, and a human who is told of a conflict has the resume tried again. The heartbeat
  gets no fairness: nothing depends on its being on time except not losing the lease.
- MCServer: a query ends and `quota.record` comes back; time and the timer of the scheduler go on
  and callbacks end; a pass that began reads its source and returns.
- MCServices: a strategy goes on (its sub-runs end, `RunEnds`); an abort settles the fetch, the read
  or the wait it finds, and nothing is assumed of a stream that was not stopped; flushes run and the
  network answers or fails.

## What is proved

| Theorem | Statement | Argument |
|---|---|---|
| `TypeInvariance` (ToolDispatchProofs) | `Spec => []TypeOK` | inductive as it stands |
| `AtMostOnce` | `Spec => []EffectBound` | `Budget`: for each key, effects so far, executors entitled to act, and one if the key is unoccupied, together are at most 1 + erasures. A claim turns the free place into an entitlement, `Act` turns it into an effect, `Release` gives it back, an erasure adds one. |
| `IntentsAreOwned`, `AbandonedIsFinal` | `Spec => []NoLeakedIntent`, `Spec => AbandonedStaysClosed` | `IntentOwned`: until an erasure, a row that is an intent has an executor that holds it, or one that died with it. |
| `AnswersAreGenuine` | `Spec => []AnswersGenuine` | until an erasure, a key has one holder (`SoleHolder`), what it stored is what it did (`StoredOutcome`), and whoever reads an answer reads it after that (`FinishedFirst`, `Genuine`) |
| `NoBlindAppend` (AgentRunProofs) | `Spec => []WholeView` | While no append was rejected by the store, the log has no gap (`NoGap`) and everything below the next seq of an active worker is taken (`Below`), so nobody can append behind another's back. |
| `ApprovalFirst` | `Spec => []ApprovedBeforeActing` | `AInv`: a decision on record that says approved was given by a human for that call, whichever later decision replaces it; the tool looks at the record in the step in which it acts. |
| `RunTypes` | `Spec => []TypeOK` | `TInv`: every stage of a worker fits the call, batch and run it works on (`HasRun`), and what is logged is about calls of the model. |
| `AnsweredSingly`, `SuccessIsComplete` | `Spec => [](Orderly => AnsweredOnce)`, `Spec => [](Orderly => SuccessAnswersAll)` | `Sound`: the calls that a worker still has to answer, with those it has answered but not logged, are exactly those that the log below its next seq asks for and does not answer, and each of them once. A resume finds them again with `Pending`, which selects the open calls of the batch in their order (`PendingOK`). |
| `KeyedCallsActOnce` | `Spec => [](\A c \in Keyed : effects[c] <= 1)` | `LInv`: a keyed call without a row in the ledger has no effect, one worker at most carries its intent, and the one that is about to execute carries it before any effect. |
| `AlonePromiseKept` | `ASSUME Alone PROVE Spec => KeepsPromise` | step by step, under the invariants above and `RInv` (a worker in a run drives one that has no final end, and no run has two of them): each action maps to `Begin`, `Act` or `Report` of DurableRun, or to a stutter. |
| `ResumedHashIsWhole` | `Spec => [](Alone /\ OneRun => IntegrityGuarantee)` | `VInv`: what a worker has read and folded, and what a checkpoint holds up to its seq, is the whole log, until an append is refused or the run is over. |
| `UndisturbedDecidable` | `Spec => [](Alone /\ AskOnce => DecidableUndisturbed)` | `DInv`: where nothing crashed and nothing was refused, a worker rests with its runs concluded, and a suspended run has the suspension event of the one call that waits. |
| `LockTypes`, `FirstComeFirstServed` (SessionLock) | `Spec => []TypeOK`, `Spec => []OneAtATimeInOrder` | A request awaits the one right before it (`Chain`), a tail resolves only after its request and all earlier ones have released (`SettledOK`), and a request that found the map empty comes after released ones only (`TailOK`, `ReadyOK`). |
| `CounterIsExact`, `CeilingKept` (QuotaProofs) | under `Timely`: `Spec => []ReservedIsHeld`, `Spec => []HardCeiling` | The tokens that may still free a slot are exactly those in the set (`ActiveIsCurrent`, `CurrentIsActive`), because the sweep meets no live run (`LiveIsYoung`). |
| `ResumeTypes`, `LeasesExclude`, `DecidedOnce`, `SavedStay` (WorkflowResumeProofs) | `Spec => []P` for the types, `LeaseExclusive`, `GatesDecidedOnce`, `SavedStepsStay` | The file is the arbiter: `LeaseOK` says that a lease which is not over is the one in the file, `StoreOK` that the file keeps what was saved and stands at a gate after all that are settled, `ReplayOK` that what a holder replays from is no older than the file as long as it owns it, `QueueOK` what the queued operations of a registry may still write, `EndingOK` that the record an owner ends with goes beyond the gate of the file. A holder whose lease is over can do no harm because every write is refused to whoever is not the owner. |
| `EditsLand` (MCStorage) | under `BlockConstants`: `Spec => []EveryEditLands` | `BInv`: the version of a row counts the edits before it, and who writes in a transaction has the row as it is. |
| `SavesAreKept` | under `FileConstants`: `Spec => []SavesStay` | `FilesInv`: the file has one owner; a waiter is about to remove a lock only if its owner died, and who has read the file is the owner, so that its draft holds all that was saved. |
| `FactsAreOneHistory` | under `FactConstants`: `Spec => FactsKeepContract` | `FactsInv`: a row that is closed stays closed (`SnapsAreOld`), and whoever holds the advisory lock and passed its checks has the open rows as they are (`WriterKnows`). Each commit then is `Assert` of FactContract, each UPDATE one of its other operations, and the rest stutters. |
| `CallsActAtOnce` | under `CallConstants`: `Spec => StoreKeepsContract` | `CallsInv`: a row that a transaction wrote is written by no other until it ends (`LocksOK`), what it wrote is what its statements make of the table (`TransactionsOK`: one predicate each for append, complete and erase), and what it passed over was gone or came after it began (`SeenOK`, `RowsOwned`). A batch, a mutation, a single statement and a COMMIT are `Act`, a ROLLBACK is a refusing `Act` or `Throw`, and BEGIN and the other statements stutter. |
| `ServerTypes`, `NothingOverlaps`, `SlotsComeBack`, `OutcomesStay`, `ReplaysAreFaithful` (ServerProofs) | under `ServerConstants`: `FairSpec => []P` for `TypeOK`, `NoOverlap`, `SlotsReturnOnce`, `ReplayFaithful`, and `FairSpec => OutcomeStays` | One invariant for each system. `RunsInv`: a job that goes on has its entry and no slot returned. `TasksInv`: a firing in flight marks the task it was made for. `PassesInv`: a scope has one pass. `BatchInv`: each index that was drawn is reported or with one lane. `ExecInv`: the counter of a name is the number of steps of it that were done, so that what a key holds is the step at one place; `ReplayInv`: where nothing runs side by side in `map`, an execution finds what the one before it saved, and invokes nothing that one had received. |
| `ToolsStayGated`, with `DeniedNeverRuns`, `MutationIsAlone`, `SkillIsObeyed` (ServicesProofs) | under `GateConstants` (and `SkillsExist`): `Spec => []P` for `ToolsAreGated` and its parts | A turn that has come is not taken back while the batch is dispatched (`InTurn`), so a call that is neither read-only nor free of a `skill_use` beside it is alone (`ActiveReads`); the policy of a run does not change under it (`Gated`), the list of the skill only by a call that is alone (`Allowed`), and the last skill of the log is the one that is active (`SkillTracks`). |
| `ResultIsFinal` | under `StreamConstants`: `Spec => ResultDecides` | a request that has its result neither retries nor reads on |
| `VoicesAreOne` | under `StreamConstants`, `PollConstants`, `ChainConstants`: `Spec => []OneVoice` | one request of a mounted component is live (`StreamInv`); a poll that is not aborted is that of the newest run (`PollInv`); what a chain has sent comes from the model it is at (`ChainInv`) |
| `RegistriesStayTrue` | under `PromptConstants`, `SkillConstants`: `Spec => []RegistriesHold` | `PromptInv`: the file, and the copy each process works on, are explained by their histories (`SoundPrompts`); what was answered is at the head of the file's history, and one process at a time works on a copy, which continues it. `SkillInv`: the record of the bank is its newest version and was admitted (`Admitted`); a caller tests only what is admissible, and a signature that verifies was made. |
| `MemoryStays` | under `MemoryConstants`, `ArchiveConstants`: `Spec => []MemoryHolds` | `MemoryInv`: an erasure that is alone in its scope finds nothing left in what its stages have cleared (`AloneInv`, `CleanInv`), and a merge holds what it read until it has copied it (`MovedInv`); the theorem says nothing of what arrives in the source after the read, which is lost (`ErasesWhatItCopied`). `ArchiveInv`: each text is in a row (`Covered`), and what a row says is in the entry that the pass goes by, the one it merges included (`Listed`). |
| `BoundsAreKept` | under the constants of the parts: `Spec => []BoundsHold` | One invariant for each part. `StrategyInv`: until its result a strategy has emitted its start alone, what it has billed is what its runs have used, and the stage it is in says which budget of passes is left. `CacheInv`: no key is twice in the LRU, and an entry is good for at most one life of the store on top of its own (`Lifetimes`). `OAuthInv`: unless it was lost with an answer or a process, the newest pair that was issued is the connection's or in the answer on its way to a caller, and the store's too if its save did not fail (`Newest`). `SpanInv`: a span that ended is in the buffer, in the batch, delivered, or one of those counted as dropped, in one place only. `TaskInv`: `active` counts the runs that went on and were not released, and a context belongs to the user of its last stored task (`Belongs`). The types of the other parts follow from their own invariants. |
| `NoLeak` | `Spec => []Sandbox!NoSandboxLeaks`, a part of `BoundsHold` | once a boundary has tripped, whoever comes late finds it (`SandboxInv`) |

The properties themselves are not inductive. `EffectBound`, for instance, does not exclude a state
with one effect done and an executor about to act; `Budget` does. The proofs rest on the named
assumptions on the constants in each module (`DispatchAssumption`, `AgentRunAssumption`,
`SessionLockAssumption`, `QuotaAssumption`, ...), which TLC evaluates for every instance, or on the
hypothesis of the theorem, and hold for any number of executors, workers, calls, requests, sessions,
processes, steps and keys. The instances of the runs that are expected to pass satisfy every
hypothesis below.

Most hypotheses are about the shape of a constant: bounds are natural numbers, policies are
policies, and the name that stands for "none" is no scope, tag, writer or call. The others exclude
what the code does not promise, or a finding below:

- `Orderly`: one worker drives the session (`Alone`), or the store has refused no append other than
  a taken seq. With two workers a refused append leaves a gap in the log, through which one worker
  answers a call that the other has read as unanswered; `NoBlindAppend` says what survives that.
- `Alone` in `AlonePromiseKept`: two workers that drive one run may each report an end for it.
- `OneRun`: the checkpoints of a second query cover that query only (loop.ts:1943).
- `AskOnce`: of two asking calls in one answer the second cannot be decided (loop.ts:1051).
- `BlockConstants`: no pool of connections (run `postgres_blocks`).
- `FileConstants`: `Undisturbed`, nothing comes between the last look at a stale lock and its removal.
- `CallConstants`: no single connection, on which statements go into a transaction of another call;
  an append names each row once, and rows of events are not those of keys.
- `ReplayConstants`: the branches of a body run its steps once and share no name across a wait
  (`AlignedBody`).
- `PromptConstants`: a store with `transact`; without it two processes overwrite each other.
- `PollConstants`: no `maxPollMs`, whose timeout reports on a run that may not be the newest.
- `SpanConstants`: a redactor that does not throw, and an endpoint that accepts a batch or cannot be
  reached: a batch that it refuses is not counted (findings below).
- `OAuthConstants`: `SavesInTime`, no access token expires while it is being saved. Otherwise two saves
  overlap, and the older pair may be the one that stays in the store.
- `ArchiveConstants`: one deduplication at a time; two of them may delete both copies.
- `SkillsExist`: a `skill_use` of a skill that does not exist is in the log and activates nothing.

Only model-checked:

- liveness (`RunEnds`, `EveryRequestRuns`, `LostSlotReturns`, `ResumeReturns`, `TakenOver`,
  `EverythingIsServed`, `AllComesToAnEnd`), since the prover does not handle fairness and ENABLED;
- `WindowHolds`: what a compaction keeps is computed by folds and filters over sequences, about which one can say something only by
  induction over them, which is beyond the provers installed.

## Findings

Three runs expect the violation they find:

1. `agent_lost_suspension`: a process dies between the suspension of a call and the append of its
   suspension event. The resume suspends again without an event, because the code assumes there is
   one (loop.ts:1053). The caller is told which call waits for it, but a decision is refused.
2. `quota_slow`: a run that outlives `reservationMaxAgeMs` is swept and then settled; its slot is
   freed twice and the ceiling is exceeded.
3. `postgres_blocks`: over a pool, two transactions of READ COMMITTED read a block, and the second
   overwrites the edit of the first.

The others are in `PROJECT.json` with the line and the quotation. Those that a module can show:

| Where | What | How to see it |
|---|---|---|
| core/src/loop.ts:1051 | of two asking calls in one answer the second cannot be decided | `SuspensionDecidable` with `MaxCrashes = 0` and `Asking <- Both` in MCAgentLostSuspension.cfg |
| core/src/loop.ts:1943 | the hash of a second query does not cover the log | `IntegrityGuarantee` with `MaxQueries = 2` in MCAgentRun.cfg |
| postgres/src/index.ts:821 | single statements enter whatever transaction is open on the one connection | `Engines = {"single"}` in MCStorage.cfg |
| workflow/src/file-store.ts:432 | a live lock is taken for the stale one and removed | `Undisturbed = FALSE` in MCStorage.cfg |
| workflow/src/step.ts:41 | a retried step is looked up under another key; branches swap results | `Bodies <- RetriedBodies` in MCServer.cfg; a "map" body of two lanes whose items have two steps of one name each |
| core/src/agent.ts:966 | a skill that does not exist forbids every tool after a resume | a batch `<<UseSkill("missing")>>` in MCServices |
| core/src/compaction.ts:277, 96 | a result without its call; a failure that is dropped | `PairsTogether`, `FailuresStay` of Compaction |
| core/src/compaction.ts:117, 277 | a pointer may make a result longer than what it replaces; a message is dropped although what survived and the rest fit, as two sums are rounded apart | `NeverGrows`, `RestStays` of Compaction |
| memory/src/memory.ts:1107 | a merge erases what was ingested into its source after it had read it | `ErasesWhatItCopied` of MemoryScopes |
| mcp/src/oauth.ts:449 | a save that fails leaves a revoked token for the next process | `NextProcessLoggedIn` of OAuthRefresh; `SavesInTime = FALSE` for `StaysLoggedIn` |
| core/src/strategies.ts:737 | a plan that ends in an error reports a success or spreads the error | `PlanSuccessEarned` of Strategies |
| memory/src/memory.ts:795, 1120 | metadata outlives an erasure; a failed ingest counts as seen | `MapsErased` with `Ids = {1, 2}`, `SeenIsWritten` of MemoryScopes |
| memory/src/memory.ts:1397 | two passes lose a text | `Passes = {1, 2}` |
| react/src/useEidenticStream.ts:580, 437 | a resume forgets its result; stop() loses a stream | `ResumeDecides`; `Resends = TRUE` with the condition on it taken out of `OneStream` |
| react/src/useAsyncRun.ts:198 | a new run is shown as timed out | `HasLimit = TRUE` |
| mcp/src/oauth.ts:442 | a refresh is refused although a token is at hand | `RefusedForAReason` of OAuthRefresh |
| langfuse/src/index.ts:359 | a redactor that throws ends all flushes | `Redactor = "throws"` |
| model/src/cache.ts:173 | an answer is served for twice its time | `ValidForTtl` of AnswerCache |

By reading alone: strategies.ts:616 and 424, combinators.ts:120 and 221, server/src/index.ts:1959,
memory.ts:1085, langfuse/src/index.ts:366, loop.ts:1959.

## Not modelled

- In AgentRun: memory, output schemas and their retries, logs written by earlier releases, erasure
  during a run, and the usage of earlier runs that counts against a ceiling (a ceiling may stop a
  run at any turn instead). Compaction and the gate before the tools have modules of their own.
- In ToolGate: calls nested in `skill_run` (skill-tools.ts:89), the effects themselves and suspensions (ToolDispatch), secrets, the sandbox of a
  tool, and `onPostToolUse`, whose failure changes nothing.
- In Quota: amounts of USD and tokens, `reset()` of all keys, and a stream that throws after its
  terminal result, which releases its slot first and records its spend a moment later.
- In WorkflowResume: eviction from the registry, finished runs and their recording in the
  background, clock skew between processes, stores without compare-and-swap. Branches that run side
  by side are in WorkflowReplay, the lock file in LockFile.
- In WorkflowReplay: loops, `branch()`, `fallback()`, `withTimeout()`, nested agent steps.
- In the stores: vectors, memories and migrations. In Memory: retrieval and scoring, which are
  rankings over embeddings, export, consent and expiry.
- The remaining packages, with the reason for each, are in `PROJECT.json`: most translate formats
  or call external services and keep no state that several actors share. They are most of the
  repository's lines, so that the map covers about an eighth of them: the adapters of models, vector
  stores and protocols, the command line and the studio, tools for files and processes, retrieval,
  evaluation, and the validation of options and requests everywhere.

## Plan

Done, in this order: ToolDispatch and its proofs, AgentRun over it with DurableRun above it,
SessionLock, Quota, WorkflowResume and its proofs; the storage modules with their contracts; the
server's modules; the services; ToolGate and its proofs; the proofs of the storage modules, with
both refinements, of the server's modules and of the services.

Next:

1. `useWorkflow` and the expiry of facts and memories.
2. The model adapters and the MCP client, as far as they keep state between calls.
