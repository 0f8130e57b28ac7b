------------------------------ MODULE AgentRun ------------------------------
(***************************************************************************)
(* The durable run of packages/core: Agent.query and Agent.resume          *)
(* (agent.ts), Session (session.ts) and runTurn, resumeTurn and runLoop    *)
(* (loop.ts), over the event log, the checkpoints, the ledger and the      *)
(* decisions of one session in a durable store.                            *)
(*                                                                         *)
(* Workers are processes.  The session lock is per process, so a worker    *)
(* drives one query or resume at a time and two workers may drive the      *)
(* session at once.  Every awaited store call is a step of its own; a      *)
(* worker may crash between any two (a store or memory call that throws    *)
(* outside safeAppend has the same effect: the run ends with no terminal). *)
(* The agent has no compaction, memory or output schema configured.        *)
(***************************************************************************)
EXTENDS Integers, Sequences, FiniteSetsExt

CONSTANTS
  Workers,
  Calls,          \* tool calls the model may emit, with unique callIds
  Batches,        \* distinct tool uses of one model answer; << >> is a final one
  Keyed,          \* calls of a tool with an idempotencyKey, each its own key
  Asking,         \* calls that ask ctx.suspend before they act
  NoCall,
  MaxTurns,       \* config.maxTurns
  MaxSeq,         \* bound on the log
  MaxQueries, MaxResumes, MaxCrashes,
  MaxRejections   \* bound on appends that the store rejects by itself

ASSUME AgentRunAssumption ==
  /\ Batches \subseteq Seq(Calls) /\ << >> \in Batches
  /\ \A b \in Batches : \A i, k \in DOMAIN b : b[i] = b[k] => i = k
  /\ Keyed \subseteq Calls /\ Asking \subseteq Calls
  /\ NoCall \notin Calls
  /\ MaxTurns \in Nat \ {0} /\ MaxSeq \in Nat
  /\ {MaxQueries, MaxResumes, MaxCrashes, MaxRejections} \subseteq Nat

VARIABLES
  log,            \* table events of the session, by seq
  checkpoint,     \* the checkpoint with the highest seq
  ledger,         \* status of each call's ledger row
  decisions,      \* recorded human decisions, by callId
  at, seen, next, hash, job,   \* what each worker does: see TypeOK
  effects,        \* history: side effects of each call
  approved,       \* history: calls a human approved
  budget          \* what is left of each Max bound

store == <<log, checkpoint, ledger, decisions>>
worker == <<at, seen, next, hash, job>>
history == <<effects, approved>>
vars == <<store, worker, history, budget>>

Seqs == 0..MaxSeq
NoRun == -1
Subtypes == {"success", "error", "aborted", "ceiling", "guardrail", "suspended"}

Event == [kind : {"none", "run_started", "user", "assistant", "tool_result",
                  "suspension", "terminal_result"},
          calls : Batches, call : Calls \cup {NoCall},
          run : Seqs \cup {NoRun}, outcome : Subtypes \cup {"none", "ok"}]

Plain(kind) == [kind |-> kind, calls |-> << >>, call |-> NoCall, run |-> NoRun,
                outcome |-> "none"]
NoEvent == Plain("none")
Assistant(b) == [Plain("assistant") EXCEPT !.calls = b]
ToolResult(r) == [Plain("tool_result") EXCEPT !.call = r.call, !.outcome = r.outcome]
Suspension(c) == [Plain("suspension") EXCEPT !.call = c]
Terminal(r, s, c) ==
  [Plain("terminal_result") EXCEPT !.run = r, !.outcome = s, !.call = c]

Logged == {s \in Seqs : log[s] # NoEvent}
NextSeq == IF Logged = {} THEN 0 ELSE Max(Logged) + 1
Of(S, kind) == {s \in S : log[s].kind = kind}
Latest(S, kind) == Max(Of(S, kind))

Points == {"idle", "start", "user", "checkpoint", "top", "assistant", "called",
           "dispatch", "execute", "complete", "suspend", "results", "terminal",
           "closing", "decide", "open"}
NoJob == [run |-> NoRun, todo |-> << >>, done |-> << >>, resumed |-> FALSE,
          turn |-> 0, call |-> NoCall, then |-> "idle", ends |-> "error",
          decision |-> "none"]

\* A worker holds Session._cache (as the set of seqs it has read), _seq, the
\* rolling hash (as the set of seqs folded into it, always in seq order), and
\* the locals of runLoop.
JobOK(j) ==
  /\ j.run \in Seqs \cup {NoRun}
  /\ j.todo \in Seq(Calls)
  /\ j.done \in Seq([call : Calls, outcome : {"ok", "error"}])
  /\ j.resumed \in BOOLEAN
  /\ j.turn \in 0..MaxTurns
  /\ j.call \in Calls \cup {NoCall}
  /\ j.then \in Points
  /\ j.ends \in Subtypes
  /\ j.decision \in {"none", "approved", "declined"}

\* Every variable has its type.
TypeOK ==
  /\ log \in [Seqs -> Event]
  /\ checkpoint \in [seq : 0..(MaxSeq + 1), hash : SUBSET Seqs]
  /\ ledger \in [Calls -> {"absent", "intent", "applied"}]
  /\ decisions \in [Calls -> {"none", "approved", "declined"}]
  /\ at \in [Workers -> Points]
  /\ seen \in [Workers -> SUBSET Seqs]
  /\ next \in [Workers -> 0..(MaxSeq + 1)]
  /\ hash \in [Workers -> SUBSET Seqs]
  /\ \A w \in Workers : JobOK(job[w])
  /\ effects \in [Calls -> Nat]
  /\ approved \subseteq Calls
  /\ budget \in [queries : 0..MaxQueries, resumes : 0..MaxResumes,
                 crashes : 0..MaxCrashes, rejections : 0..MaxRejections]

Init ==
  /\ log = [s \in Seqs |-> NoEvent]
  /\ checkpoint = [seq |-> 0, hash |-> {}]
  /\ ledger = [c \in Calls |-> "absent"]
  /\ decisions = [c \in Calls |-> "none"]
  /\ at = [w \in Workers |-> "idle"]
  /\ seen = [w \in Workers |-> {}]
  /\ next = [w \in Workers |-> 0]
  /\ hash = [w \in Workers |-> {}]
  /\ job = [w \in Workers |-> NoJob]
  /\ effects = [c \in Calls |-> 0]
  /\ approved = {}
  /\ budget = [queries |-> MaxQueries, resumes |-> MaxResumes,
               crashes |-> MaxCrashes, rejections |-> MaxRejections]

-----------------------------------------------------------------------------
(* Session.append and the store it writes to. *)

\* The faulty variant replaces the event another process stored at this seq.
PlaceAnyway(w, ev) ==
  /\ next[w] \in Seqs
  /\ log' = [log EXCEPT ![next[w]] = ev]
  /\ seen' = [seen EXCEPT ![w] = @ \cup {next[w]}]
  /\ next' = [next EXCEPT ![w] = @ + 1]

\* INSERT under UNIQUE (session_id, seq); the cache grows after it succeeded.
Place(w, ev) ==
  /\ next[w] \in Seqs /\ log[next[w]] = NoEvent
  /\ log' = [log EXCEPT ![next[w]] = ev]
  /\ seen' = [seen EXCEPT ![w] = @ \cup {next[w]}]
  /\ next' = [next EXCEPT ![w] = @ + 1]

\* The seq is taken, or the store call fails, before or after it committed.
Refused(w, ev) ==
  /\ next[w] \in Seqs
  /\ \/ log[next[w]] # NoEvent /\ UNCHANGED <<log, budget>>
     \/ /\ log[next[w]] = NoEvent /\ budget.rejections > 0
        /\ budget' = [budget EXCEPT !.rejections = @ - 1]
        /\ log' \in {log, [log EXCEPT ![next[w]] = ev]}

Goto(w, point, j) ==
  /\ at' = [at EXCEPT ![w] = point]
  /\ job' = [job EXCEPT ![w] = j]

\* The run is over for this worker: nothing of it outlives the generator.
Rest(w) ==
  /\ Goto(w, "idle", NoJob)
  /\ seen' = [seen EXCEPT ![w] = {}]
  /\ next' = [next EXCEPT ![w] = 0]
  /\ hash' = [hash EXCEPT ![w] = {}]

CheckpointThen(w, point, j) == Goto(w, "checkpoint", [j EXCEPT !.then = point])
End(w, outcome) == Goto(w, "terminal", [job[w] EXCEPT !.ends = outcome])
Fold(w) == hash' = [hash EXCEPT ![w] = @ \cup {next[w]}]

\* Faulty variant: a refused append is tried again at the next seq.
AppendAgain(w, ev, Then) ==
  \/ Place(w, ev) /\ Fold(w) /\ Then /\ UNCHANGED budget
  \/ /\ Refused(w, ev)
     /\ next' = [next EXCEPT ![w] = @ + 1]
     /\ UNCHANGED <<seen, hash, at, job>>

\* safeAppend inside runLoop: a refused append becomes the run's error result
\* (its seq is spent, _seq++ comes before the call); otherwise the event is
\* folded into the rolling hash and Then follows.
AppendInLoop(w, ev, Then) ==
  \/ Place(w, ev) /\ Fold(w) /\ Then /\ UNCHANGED budget
  \/ /\ Refused(w, ev) /\ End(w, "error")
     /\ next' = [next EXCEPT ![w] = @ + 1]
     /\ UNCHANGED <<seen, hash>>

PutCheckpoint(seq, folded) ==
  checkpoint' = IF seq >= checkpoint.seq THEN [seq |-> seq, hash |-> folded]
                                         ELSE checkpoint

-----------------------------------------------------------------------------
(* runTurn. *)

Query(w) ==
  /\ at[w] = "idle" /\ budget.queries > 0
  /\ budget' = [budget EXCEPT !.queries = @ - 1]
  /\ seen' = [seen EXCEPT ![w] = Logged]
  /\ next' = [next EXCEPT ![w] = NextSeq]
  /\ Goto(w, "start", NoJob)
  /\ UNCHANGED <<store, hash, history>>

\* A refused append here is reported without a terminal result.
Start(w) ==
  /\ at[w] = "start"
  /\ \/ /\ Place(w, Plain("run_started"))
        /\ Goto(w, "user", [job[w] EXCEPT !.run = next[w]])
        /\ hash' = [hash EXCEPT ![w] = {next[w]}]
        /\ UNCHANGED budget
     \/ Refused(w, Plain("run_started")) /\ Rest(w)
  /\ UNCHANGED <<checkpoint, ledger, decisions, history>>

User(w) ==
  /\ at[w] = "user"
  /\ \/ /\ End(w, "guardrail")
        /\ UNCHANGED <<log, seen, next, hash, budget>>
     \/ /\ Place(w, Plain("user"))
        /\ Fold(w)
        /\ CheckpointThen(w, "top", job[w])
        /\ UNCHANGED budget
     \/ Refused(w, Plain("user")) /\ Rest(w)
  /\ UNCHANGED <<checkpoint, ledger, decisions, history>>

\* Faulty variant: every checkpoint is followed by another turn.
CheckpointAndLoop(w) ==
  /\ at[w] = "checkpoint"
  /\ PutCheckpoint(next[w], hash[w])
  /\ Goto(w, "top", job[w])
  /\ UNCHANGED <<log, ledger, decisions, seen, next, hash, history, budget>>

Checkpoint(w) ==
  /\ at[w] = "checkpoint"
  /\ PutCheckpoint(next[w], hash[w])
  /\ Goto(w, job[w].then, job[w])
  /\ UNCHANGED <<log, ledger, decisions, seen, next, hash, history, budget>>

-----------------------------------------------------------------------------
(* runLoop. *)

\* An abort, or a ceiling of the cost policy.
Stop(w) ==
  /\ at[w] = "top"
  /\ \/ CheckpointThen(w, "terminal", [job[w] EXCEPT !.ends = "aborted"])
     \/ End(w, "ceiling")
  /\ UNCHANGED <<store, seen, next, hash, history, budget>>

\* Every model of the chain fails, after its retries, before it gave any text.
ModelFails(w) ==
  /\ at[w] = "top" /\ job[w].turn < MaxTurns
  /\ End(w, "error")
  /\ UNCHANGED <<store, seen, next, hash, history, budget>>

\* A stream breaks off or is aborted after its first text: no other model is
\* asked, and what came is logged as an answer without calls.
Interrupted(w) ==
  /\ at[w] = "top" /\ job[w].turn < MaxTurns
  /\ AppendInLoop(w, Assistant(<< >>),
       \/ End(w, "error")
       \/ CheckpointThen(w, "terminal", [job[w] EXCEPT !.ends = "aborted"]))
  /\ UNCHANGED <<checkpoint, ledger, decisions, history>>

Used(c) ==
  \/ \E s \in Logged : \E i \in DOMAIN log[s].calls : log[s].calls[i] = c
  \/ \E w \in Workers : \E i \in DOMAIN job[w].todo : job[w].todo[i] = c

\* The model answers.  An abort drops the answer; an output guardrail may
\* block a final one.
Model(w) ==
  /\ at[w] = "top" /\ job[w].turn < MaxTurns
  /\ \E b \in Batches :
       LET j == [job[w] EXCEPT !.turn = @ + 1, !.todo = b, !.resumed = FALSE] IN
       /\ \A i \in DOMAIN b : ~Used(b[i])
       /\ \/ Goto(w, "assistant", j)
          \/ CheckpointThen(w, "terminal", [j EXCEPT !.ends = "aborted", !.todo = << >>])
          \/ b = << >> /\ Goto(w, "terminal", [j EXCEPT !.ends = "guardrail"])
  /\ UNCHANGED <<store, seen, next, hash, history, budget>>

AppendAssistant(w) ==
  /\ at[w] = "assistant"
  /\ AppendInLoop(w, Assistant(job[w].todo), CheckpointThen(w, "called", job[w]))
  /\ UNCHANGED <<checkpoint, ledger, decisions, history>>

\* The ceilings are checked again once the answer is in the log.
Called(w) ==
  /\ at[w] = "called"
  /\ \/ End(w, "ceiling")
     \/ job[w].turn < MaxTurns /\ job[w].todo = << >> /\ End(w, "success")
     \/ job[w].turn < MaxTurns /\ job[w].todo # << >> /\ Goto(w, "dispatch", job[w])
  /\ UNCHANGED <<store, seen, next, hash, history, budget>>

\* The next mutating call of the batch has an outcome.
Settle(w, outcome) ==
  LET done == Append(job[w].done, [call |-> Head(job[w].todo), outcome |-> outcome])
      j == [job[w] EXCEPT !.done = done, !.todo = Tail(@)]
  IN Goto(w, IF j.todo = << >> THEN "results" ELSE "dispatch", j)

\* Faulty variant: a pending intent is claimed again.
LookAgain(w) ==
  /\ at[w] = "dispatch"
  /\ LET c == Head(job[w].todo) IN
       /\ ledger' = [ledger EXCEPT ![c] = "intent"]
       /\ Goto(w, "execute", job[w])
  /\ UNCHANGED <<log, checkpoint, decisions, seen, next, hash, history, budget>>

\* Unknown tool, policy, permission or arguments refuse the call; else the
\* ledger answers it, or the call is claimed.  ToolDispatch has the detail.
Look(w) ==
  /\ at[w] = "dispatch"
  /\ LET c == Head(job[w].todo) IN
       \/ Settle(w, "error") /\ UNCHANGED ledger
       \/ /\ c \in Keyed /\ ledger[c] = "applied"
          /\ Settle(w, "ok") /\ UNCHANGED ledger
       \/ /\ c \in Keyed => ledger[c] = "absent"
          /\ ledger' = IF c \in Keyed THEN [ledger EXCEPT ![c] = "intent"] ELSE ledger
          /\ Goto(w, "execute", job[w])
  /\ UNCHANGED <<log, checkpoint, decisions, seen, next, hash, history, budget>>

\* Faulty variant: any recorded decision lets the call act.
MayActDecided(c) == c \in Asking => decisions[c] # "none"
MayAct(c) == c \in Asking => decisions[c] = "approved"

\* A SuspendSignal unwinds the whole batch: the calls after it are not run and
\* the results before it are dropped.  In a batch dispatched again the code
\* takes the suspension event for logged and goes to the terminal at once.
Unwind(w, c) ==
  Goto(w, IF job[w].resumed THEN "terminal" ELSE "suspend",
       [job[w] EXCEPT !.call = c, !.ends = "suspended",
                      !.todo = << >>, !.done = << >>])

\* tool.execute; ctx.suspend answers with the decision, or throws for want of
\* one, and then the claim is released.
Execute(w) ==
  /\ at[w] = "execute"
  /\ LET c == Head(job[w].todo) IN
       \/ /\ MayAct(c) /\ effects' = [effects EXCEPT ![c] = @ + 1]
          /\ Goto(w, "complete", job[w])
          /\ UNCHANGED ledger
       \/ /\ MayAct(c) /\ effects' \in {effects, [effects EXCEPT ![c] = @ + 1]}
          /\ Settle(w, "error")
          /\ UNCHANGED ledger
       \/ /\ c \in Asking /\ decisions[c] = "declined"
          /\ Goto(w, "complete", job[w])
          /\ UNCHANGED <<effects, ledger>>
       \/ /\ c \in Asking /\ decisions[c] = "none"
          /\ ledger' = IF c \in Keyed THEN [ledger EXCEPT ![c] = "absent"] ELSE ledger
          /\ Unwind(w, c)
          /\ UNCHANGED effects
  /\ UNCHANGED <<log, checkpoint, decisions, seen, next, hash, approved, budget>>

Complete(w) ==
  /\ at[w] = "complete"
  /\ LET c == Head(job[w].todo) IN
       ledger' = IF c \in Keyed THEN [ledger EXCEPT ![c] = "applied"] ELSE ledger
  /\ Settle(w, "ok")
  /\ UNCHANGED <<log, checkpoint, decisions, seen, next, hash, history, budget>>

Results(w) ==
  /\ at[w] = "results"
  /\ LET j == [job[w] EXCEPT !.done = Tail(@)] IN
       AppendInLoop(w, ToolResult(Head(job[w].done)),
                    IF j.done = << >> THEN CheckpointThen(w, "top", j)
                                      ELSE Goto(w, "results", j))
  /\ UNCHANGED <<checkpoint, ledger, decisions, history>>

\* Faulty variants: the suspension is not logged, or not folded.
SuspendUnlogged(w) ==
  /\ at[w] = "suspend"
  /\ Goto(w, "terminal", job[w])
  /\ UNCHANGED <<store, seen, next, hash, history, budget>>
SuspendUnfolded(w) ==
  /\ at[w] = "suspend"
  /\ Place(w, Suspension(job[w].call))
  /\ CheckpointThen(w, "terminal", job[w])
  /\ UNCHANGED <<checkpoint, ledger, decisions, hash, history, budget>>

Suspend(w) ==
  /\ at[w] = "suspend"
  /\ AppendInLoop(w, Suspension(job[w].call), CheckpointThen(w, "terminal", job[w]))
  /\ UNCHANGED <<checkpoint, ledger, decisions, history>>

Verdict(w) == Terminal(job[w].run, job[w].ends, job[w].call)

\* persistAndYieldTerminal: the terminal event, then a checkpoint that hashes
\* the whole cache again.
Finish(w) ==
  /\ at[w] = "terminal"
  /\ \/ /\ Place(w, Verdict(w))
        /\ Goto(w, "closing", job[w])
        /\ UNCHANGED <<hash, budget>>
     \/ Refused(w, Verdict(w)) /\ Rest(w)
  /\ UNCHANGED <<checkpoint, ledger, decisions, history>>

Close(w) ==
  /\ at[w] = "closing"
  /\ PutCheckpoint(next[w], seen[w])
  /\ Rest(w)
  /\ UNCHANGED <<log, ledger, decisions, history, budget>>

-----------------------------------------------------------------------------
(* Agent.resume and resumeTurn. *)

\* The session must exist; a decision needs a suspension in its log.
Resume(w) ==
  /\ at[w] = "idle" /\ budget.resumes > 0 /\ Logged # {}
  /\ budget' = [budget EXCEPT !.resumes = @ - 1]
  /\ \/ Goto(w, "open", NoJob)
     \/ /\ Of(Logged, "suspension") # {}
        /\ \E d \in {"approved", "declined"} :
             Goto(w, "decide",
                  [NoJob EXCEPT !.decision = d,
                                !.call = log[Latest(Logged, "suspension")].call])
  /\ UNCHANGED <<store, seen, next, hash, history>>

\* recordDecision, an upsert.
Decide(w) ==
  /\ at[w] = "decide"
  /\ decisions' = [decisions EXCEPT ![job[w].call] = job[w].decision]
  /\ approved' = IF job[w].decision = "approved" THEN approved \cup {job[w].call}
                                                 ELSE approved
  /\ Goto(w, "open", NoJob)
  /\ UNCHANGED <<log, checkpoint, ledger, seen, next, hash, effects, budget>>

\* The outcome of the latest run of the log, by its last terminal result.
RunOf(S) == Latest(S, "run_started")
Ends(S, r) == {s \in Of(S, "terminal_result") : log[s].run = r}
Outcome(S, r) == IF Ends(S, r) = {} THEN "none" ELSE log[Max(Ends(S, r))].outcome

Answered(S) == {log[s].call : s \in Of(S, "tool_result")}
\* Faulty variant: only a batch that is the last event of the log is pending.
PendingLast(S) ==
  IF log[Max(S)].kind # "assistant" THEN << >> ELSE log[Max(S)].calls
\* A finite set of positions, in order.
InOrder(I) ==
  CHOOSE p \in [1..Cardinality(I) -> I] : \A i, k \in DOMAIN p : i < k => p[i] < p[k]
\* The calls of the last assistant event that no tool result answers.
Pending(S) ==
  IF Of(S, "assistant") = {} THEN << >>
  ELSE LET batch == log[Latest(S, "assistant")].calls
           open == InOrder({i \in DOMAIN batch : batch[i] \notin Answered(S)})
       IN [k \in DOMAIN open |-> batch[open[k]]]

\* The log is read again before the run goes on.
Reopen(w) ==
  /\ seen' = [seen EXCEPT ![w] = Logged]
  /\ next' = [next EXCEPT ![w] = NextSeq]

\* An interrupted batch is dispatched before the model is called again.
Continue(w) ==
  /\ LET todo == Pending(Logged) IN
       Goto(w, IF todo = << >> THEN "top" ELSE "dispatch",
            [NoJob EXCEPT !.run = RunOf(Logged), !.todo = todo, !.resumed = TRUE])
  /\ hash' = [hash EXCEPT ![w] = checkpoint.hash \cup
                                  {s \in Logged : s >= checkpoint.seq}]

\* The input guardrails judge the last user text again, before the hash is
\* seeded; the calls of an interrupted batch then stay without an answer.
Blocked(w) ==
  /\ Of(Logged, "user") # {}
  /\ Goto(w, "terminal", [NoJob EXCEPT !.run = RunOf(Logged), !.resumed = TRUE,
                                      !.ends = "guardrail"])
  /\ UNCHANGED hash

\* Session.open and the checkpoint read.  The run's persisted terminal is
\* emitted again, unless it is a suspension.
Open(w) ==
  /\ at[w] = "open"
  /\ IF Outcome(Logged, RunOf(Logged)) \in {"none", "suspended"}
     THEN Reopen(w) /\ (Continue(w) \/ Blocked(w))
     ELSE Rest(w)
  /\ UNCHANGED <<store, history, budget>>

-----------------------------------------------------------------------------
Crash(w) ==
  /\ at[w] # "idle" /\ budget.crashes > 0
  /\ budget' = [budget EXCEPT !.crashes = @ - 1]
  /\ Rest(w)
  /\ UNCHANGED <<store, history>>

Step(w) ==
  \/ Start(w) \/ User(w) \/ Checkpoint(w)
  \/ Stop(w) \/ ModelFails(w) \/ Interrupted(w) \/ Model(w)
  \/ AppendAssistant(w) \/ Called(w) \/ Look(w) \/ Execute(w) \/ Complete(w)
  \/ Results(w) \/ Suspend(w) \/ Finish(w) \/ Close(w) \/ Decide(w) \/ Open(w)

Next == \E w \in Workers : Query(w) \/ Resume(w) \/ Step(w) \/ Crash(w)

\* The event loop of a process that does not crash runs every promise it is
\* waiting for.
Fairness == \A w \in Workers : WF_vars(Step(w))
Spec == Init /\ [][Next]_vars
FairSpec == Spec /\ Fairness

-----------------------------------------------------------------------------
(* Properties. *)

Active(w) == at[w] \notin {"idle", "decide", "open"}
Following(w) == Active(w) /\ at[w] \notin {"terminal", "closing"}

\* A call that asks for approval acts only if a human approved this very call.
ApprovedBeforeActing == \A c \in Asking : effects[c] > 0 => c \in approved

\* No tool call is answered twice in the log, although an interrupted batch is
\* dispatched again on every resume.
AnsweredOnce ==
  \A s, t \in Of(Logged, "tool_result") : log[s].call = log[t].call => s = t

\* A run that reports success has answered every tool call its model made.
SuccessAnswersAll ==
  \A t \in Of(Logged, "terminal_result") : log[t].outcome = "success" =>
    \A s \in Of(Logged, "assistant") : log[t].run < s /\ s < t =>
      \A i \in DOMAIN log[s].calls :
        log[s].calls[i] \in Answered({x \in Logged : x < t})

\* A run that reports a suspension can be decided: Agent.resume records the
\* decision for the latest suspension of the log, which is the one reported.
SuspensionDecidable ==
  \A t \in Of(Logged, "terminal_result") : log[t].outcome = "suspended" =>
    LET before == {x \in Of(Logged, "suspension") : x < t} IN
      before # {} /\ log[Max(before)].call = log[t].call

\* The same while nothing has crashed and no append was refused.
DecidableUndisturbed ==
  budget.crashes = MaxCrashes /\ budget.rejections = MaxRejections =>
    SuspensionDecidable

\* INTEGRITY GUARANTEE of resumeTurn: the hash seeded from the checkpoint and
\* the events after it is the hash of the whole log.
IntegrityGuarantee ==
  \A w \in Workers :
    at[w] \in {"top", "dispatch"} /\ job[w].resumed => hash[w] = seen[w]

\* Optimistic concurrency of the log: until an append of it is refused, a
\* worker has read every event below the seq it writes next, so what it
\* appends follows from the whole log before it.  A rejected append leaves a
\* gap that another worker may fill behind a third one's back.
WholeView ==
  budget.rejections = MaxRejections =>
    \A w \in Workers :
      Following(w) => seen[w] = {s \in Logged : s < next[w]}

\* For a single worker, the runs and keyed calls of the session behave as
\* DurableRun promises: a persisted terminal result is authoritative, so no
\* crash, refused append or resume changes what the run reports.
Observed(r) ==
  IF Ends(Logged, r) = {} THEN "open" ELSE Outcome(Logged, r)
Promise == INSTANCE DurableRun WITH
  Runs <- Seqs, Calls <- Keyed, Finals <- Subtypes \ {"suspended"},
  outcome <- [r \in Of(Logged, "run_started") |-> Observed(r)],
  acted <- [c \in Keyed |-> effects[c]]
KeepsPromise == Promise!Spec

\* Every query and every resume comes to an end.
RunEnds == \A w \in Workers : at[w] # "idle" ~> at[w] = "idle"
=============================================================================
