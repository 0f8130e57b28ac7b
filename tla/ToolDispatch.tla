---------------------------- MODULE ToolDispatch ----------------------------
(***************************************************************************)
(* ToolRegistry.runOne of packages/core/src/tool.ts over the idempotency   *)
(* ledger of a DurablePort (packages/sqlite/src/index.ts), for the calls   *)
(* of one durable session.                                                 *)
(*                                                                         *)
(* Executors are processes that may dispatch calls of the session at the   *)
(* same time: the session lock of Agent is per process, so two processes   *)
(* that resume one session run in parallel.  Each await of runOne that     *)
(* reads or writes the store is a step of its own; a crash (or a store     *)
(* call that rejects, before or after it committed) may come between any   *)
(* two of them.                                                            *)
(***************************************************************************)
EXTENDS Naturals, FiniteSets

CONSTANTS
  Executors,    \* processes able to run tools of the session
  Calls,        \* tool calls, one per callId
  Keys,         \* ledger keys, idempotencyLedgerKey(sessionId, toolKey)
  Args,         \* hashes of arguments, stableArgsHash(input)
  NoKey,        \* KeyOf of a call whose tool has no idempotencyKey
  NoArgs,       \* the empty args_hash
  NoCall,       \* no call / no stored result
  Legacy,       \* a result stored by a release that used bare keys
  KeyOf,        \* [Calls -> Keys \cup {NoKey}]
  ArgsOf,       \* [Calls -> Args]
  Asking,       \* the calls whose tool asks ctx.suspend before it acts
  MaxErasures   \* bound on eraseScope

ASSUME DispatchAssumption ==
  /\ IsFiniteSet(Executors)
  /\ NoKey \notin Keys /\ NoArgs \notin Args
  /\ NoCall \notin Calls /\ Legacy \notin Calls /\ Legacy # NoCall
  /\ KeyOf \in [Calls -> Keys \cup {NoKey}]
  /\ ArgsOf \in [Calls -> Args]
  /\ Asking \subseteq Calls
  /\ MaxErasures \in Nat

VARIABLES
  ledger,      \* table idempotency_keys, by key
  legacy,      \* args of the applied row a previous release left for a key
  decisions,   \* table suspension_decisions, by call
  suspended,   \* the calls a suspension was reported for
  exec,        \* what each executor is doing
  effects,     \* history: side effects performed under each key
  finished,    \* history: calls whose tool.execute returned
  abandoned,   \* history: keys whose executor gave up after it claimed
  erasures     \* history: number of erasures

vars == <<ledger, legacy, decisions, suspended, exec, effects, finished,
          abandoned, erasures>>
history == <<effects, finished, abandoned, erasures>>

Results == Calls \cup {NoCall, Legacy}
Row == [args : Args \cup {NoArgs}, status : {"absent", "intent", "applied"},
        result : Results]
NoRow == [args |-> NoArgs, status |-> "absent", result |-> NoCall]

Stages == {"idle", "lookup", "claim", "reread", "execute", "act", "release",
           "complete", "ok", "error", "suspended"}
LedgerStages == {"lookup", "claim", "reread", "release", "complete"}
Idle == [at |-> "idle", call |-> NoCall, result |-> NoCall]

\* What an executor may be doing; the ledger is only used for keyed calls.
ExecOK ==
  /\ exec \in [Executors -> [at : Stages, call : Calls \cup {NoCall}, result : Results]]
  /\ \A e \in Executors :
        /\ exec[e].at # "idle" => exec[e].call \in Calls
        /\ exec[e].at \in LedgerStages => KeyOf[exec[e].call] \in Keys

\* Every variable has its type.
TypeOK ==
  /\ ExecOK
  /\ ledger \in [Keys -> Row]
  /\ legacy \in [Keys -> Args \cup {NoArgs}]
  /\ decisions \in [Calls -> {"none", "approved", "declined"}]
  /\ suspended \subseteq Calls
  /\ effects \in [Keys -> Nat]
  /\ finished \subseteq Calls
  /\ abandoned \subseteq Keys
  /\ erasures \in 0..MaxErasures

Init ==
  /\ ledger = [k \in Keys |-> NoRow]
  /\ legacy \in [Keys -> Args \cup {NoArgs}]
  /\ decisions = [c \in Calls |-> "none"]
  /\ suspended = {}
  /\ exec = [e \in Executors |-> Idle]
  /\ effects = [k \in Keys |-> IF legacy[k] = NoArgs THEN 0 ELSE 1]
  /\ finished = {}
  /\ abandoned = {}
  /\ erasures = 0

-----------------------------------------------------------------------------
(* The ledger operations of the DurablePort. *)

ClaimIntent(k, h) ==
  ledger' = [ledger EXCEPT ![k] = [args |-> h, status |-> "intent", result |-> NoCall]]

\* DELETE ... WHERE key = k AND args_hash = h AND status = 'intent'
Releasable(k, h) == ledger[k].args = h /\ ledger[k].status = "intent"

\* Faulty variant: the claim of a suspended call is kept.
ReleaseNothing(k) == UNCHANGED ledger

ReleaseIntent(k) == ledger' = [ledger EXCEPT ![k] = NoRow]

\* INSERT OR IGNORE with an empty args_hash, then UPDATE ... SET 'applied'
RecordCompletion(k, r) ==
  ledger' = [ledger EXCEPT ![k] = [args |-> @.args, status |-> "applied", result |-> r]]

-----------------------------------------------------------------------------
(* runOne. *)

Call(e) == exec[e].call
Key(e) == KeyOf[Call(e)]
Hash(e) == ArgsOf[Call(e)]
At(e, stage) == exec[e].at = stage
Answer(e, stage, r) ==
  exec' = [exec EXCEPT ![e] = [at |-> stage, call |-> Call(e), result |-> r]]
Goto(e, stage) == Answer(e, stage, NoCall)
Between(e) == exec[e].at \in {"idle", "ok", "error", "suspended"}

\* Unknown tool, skill gate, input parsing and the permission gate may each
\* refuse the call; what they read is outside the ledger.
Dispatch(e, c) ==
  /\ Between(e)
  /\ \E stage \in {"error", "lookup", "execute"} :
     /\ stage = "lookup" => KeyOf[c] # NoKey
     /\ stage = "execute" => KeyOf[c] = NoKey
     /\ exec' = [exec EXCEPT ![e] = [at |-> stage, call |-> c, result |-> NoCall]]
  /\ UNCHANGED <<ledger, legacy, decisions, suspended, history>>

\* existingResult: other arguments, still an intent, or the stored result.
\* Secrets declared by the tool may fail to resolve before the result is used.
\* Faulty variant: the arguments are not compared.
ExistingAnyArgs(e, args, status, r) ==
  \/ status = "intent" /\ Answer(e, "error", NoCall)
  \/ status = "applied" /\ Answer(e, "ok", r)

Existing(e, args, status, r) ==
  \/ /\ args # Hash(e) \/ status = "intent"
     /\ Answer(e, "error", NoCall)
  \/ /\ args = Hash(e) /\ status = "applied"
     /\ \/ Answer(e, "ok", r)
        \/ Answer(e, "error", NoCall)

Lookup(e) ==
  /\ At(e, "lookup")
  /\ LET k == Key(e) IN
       \/ /\ ledger[k] # NoRow
          /\ Existing(e, ledger[k].args, ledger[k].status, ledger[k].result)
       \/ /\ ledger[k] = NoRow /\ legacy[k] # NoArgs
          /\ Existing(e, legacy[k], "applied", Legacy)
       \/ /\ ledger[k] = NoRow /\ legacy[k] = NoArgs
          /\ Goto(e, "claim")
  /\ UNCHANGED <<ledger, legacy, decisions, suspended, history>>

\* Faulty variant: recordIntent (insert or ignore), whose caller goes on
\* whether or not the row was inserted.
ClaimUnchecked(e) ==
  /\ At(e, "claim")
  /\ IF ledger[Key(e)] = NoRow THEN ClaimIntent(Key(e), Hash(e)) ELSE UNCHANGED ledger
  /\ Goto(e, "execute")
  /\ UNCHANGED <<legacy, decisions, suspended, history>>

\* Faulty variant: the claim takes over the row of a failed or running call.
ClaimTakeover(e) ==
  /\ At(e, "claim")
  /\ ClaimIntent(Key(e), Hash(e))
  /\ Goto(e, "execute")
  /\ UNCHANGED <<legacy, decisions, suspended, history>>

Claim(e) ==
  /\ At(e, "claim")
  /\ \/ /\ ledger[Key(e)] = NoRow
        /\ ClaimIntent(Key(e), Hash(e))
        /\ Goto(e, "execute")
     \/ /\ ledger[Key(e)] # NoRow
        /\ Goto(e, "reread")
        /\ UNCHANGED ledger
  /\ UNCHANGED <<legacy, decisions, suspended, history>>

\* The claim was lost: answer from the winner's row, or deny if it is gone.
Reread(e) ==
  /\ At(e, "reread")
  /\ LET row == ledger[Key(e)] IN
       \/ row # NoRow /\ Existing(e, row.args, row.status, row.result)
       \/ row = NoRow /\ Answer(e, "error", NoCall)
  /\ UNCHANGED <<ledger, legacy, decisions, suspended, history>>

\* tool.execute up to the answer of ctx.suspend.  No decision yet throws the
\* SuspendSignal; a decline returns without acting.
Ask(e) ==
  /\ At(e, "execute")
  /\ \/ /\ Call(e) \notin Asking \/ decisions[Call(e)] = "approved"
        /\ Goto(e, "act")
        /\ UNCHANGED <<suspended, finished>>
     \/ /\ Call(e) \in Asking /\ decisions[Call(e)] = "declined"
        /\ finished' = finished \cup {Call(e)}
        /\ IF Key(e) = NoKey THEN Answer(e, "ok", Call(e)) ELSE Goto(e, "complete")
        /\ UNCHANGED suspended
     \/ /\ Call(e) \in Asking /\ decisions[Call(e)] = "none"
        /\ IF Key(e) = NoKey
             THEN Answer(e, "suspended", NoCall) /\ suspended' = suspended \cup {Call(e)}
             ELSE Goto(e, "release") /\ UNCHANGED suspended
        /\ UNCHANGED finished
  /\ UNCHANGED <<ledger, legacy, decisions, effects, abandoned, erasures>>

\* tool.execute performs the effect and returns, or throws with the effect
\* performed or not; execOne turns the throw into an error result, and the
\* intent stays in the ledger.
Act(e) ==
  /\ At(e, "act")
  /\ \E performed \in BOOLEAN, returns \in BOOLEAN :
       /\ returns => performed
       /\ effects' = IF performed /\ Key(e) # NoKey
                       THEN [effects EXCEPT ![Key(e)] = @ + 1] ELSE effects
       /\ finished' = IF returns THEN finished \cup {Call(e)} ELSE finished
       /\ abandoned' = IF returns \/ Key(e) = NoKey THEN abandoned
                                                    ELSE abandoned \cup {Key(e)}
       /\ CASE ~returns -> Answer(e, "error", NoCall)
            [] returns /\ Key(e) = NoKey -> Answer(e, "ok", Call(e))
            [] returns /\ Key(e) # NoKey -> Goto(e, "complete")
  /\ UNCHANGED <<ledger, legacy, decisions, suspended, erasures>>

Complete(e) ==
  /\ At(e, "complete")
  /\ RecordCompletion(Key(e), Call(e))
  /\ Answer(e, "ok", Call(e))
  /\ UNCHANGED <<legacy, decisions, suspended, history>>

\* The suspended call gives its claim back; if the row is no longer its own
\* pending one, runOne throws and the dispatch ends without an answer.
Release(e) ==
  /\ At(e, "release")
  /\ \/ /\ Releasable(Key(e), Hash(e))
        /\ ReleaseIntent(Key(e))
        /\ Answer(e, "suspended", NoCall)
        /\ suspended' = suspended \cup {Call(e)}
     \/ /\ ~Releasable(Key(e), Hash(e))
        /\ exec' = [exec EXCEPT ![e] = Idle]
        /\ UNCHANGED <<ledger, suspended>>
  /\ UNCHANGED <<legacy, decisions, history>>

-----------------------------------------------------------------------------
(* The environment. *)

Claimed(e) == exec[e].at \in {"execute", "act", "release", "complete"} /\ Key(e) # NoKey

\* The process dies, or a store call of it rejects.
Crash(e) ==
  /\ ~Between(e)
  /\ exec' = [exec EXCEPT ![e] = Idle]
  /\ abandoned' = IF Claimed(e) THEN abandoned \cup {Key(e)} ELSE abandoned
  /\ UNCHANGED <<ledger, legacy, decisions, suspended, effects, finished, erasures>>

\* recordDecision, from Agent.resume(sessionId, { decision }): an upsert.
Decide(c) ==
  /\ c \in suspended
  /\ \E d \in {"approved", "declined"} : decisions' = [decisions EXCEPT ![c] = d]
  /\ UNCHANGED <<ledger, legacy, suspended, exec, history>>

\* Agent.eraseScope: one transaction over the session's rows, taken without
\* the session lock.
EraseScope ==
  /\ erasures < MaxErasures
  /\ ledger' = [k \in Keys |-> NoRow]
  /\ legacy' = [k \in Keys |-> NoArgs]
  /\ decisions' = [c \in Calls |-> "none"]
  /\ suspended' = {}
  /\ erasures' = erasures + 1
  /\ UNCHANGED <<exec, effects, finished, abandoned>>

Step(e) ==
  \/ Lookup(e) \/ Claim(e) \/ Reread(e) \/ Ask(e) \/ Act(e) \/ Complete(e)
  \/ Release(e)

Next ==
  \/ \E e \in Executors : \/ \E c \in Calls : Dispatch(e, c)
                          \/ Step(e)
                          \/ Crash(e)
  \/ \E c \in Calls : Decide(c)
  \/ EraseScope

Spec == Init /\ [][Next]_vars

-----------------------------------------------------------------------------
(* Properties. *)

Holders(k) == {e \in Executors : Claimed(e) /\ Key(e) = k}

\* A keyed side effect happens at most once, however many executors race,
\* crash and retry; each erasure of the scope allows one more, because it
\* forgets the claim of a run that it does not wait for.
EffectBound == \A k \in Keys : effects[k] <= 1 + erasures

\* A successful answer to a keyed call, computed or read back from the ledger,
\* is the outcome of an execution that finished under the same key with the
\* same arguments (or of the previous release), as long as nothing was erased.
AnswersGenuine ==
  erasures = 0 => \A e \in Executors :
    At(e, "ok") /\ Key(e) # NoKey =>
      LET r == exec[e].result IN
        \/ r = Legacy /\ legacy[Key(e)] = Hash(e)
        \/ r \in finished /\ KeyOf[r] = Key(e) /\ ArgsOf[r] = Hash(e)

\* A pending intent belongs to a running executor or to one that gave up
\* between its claim and its completion: a suspension never leaves one behind,
\* so the decided call can claim its key again.
NoLeakedIntent ==
  \A k \in Keys :
    ledger[k].status = "intent" => Holders(k) # {} \/ k \in abandoned

\* The intent of an executor that gave up blocks its key for good: no later
\* call performs the effect again, whose outcome is unknown.  Only an erasure
\* removes it.
AbandonedStaysClosed ==
  [][\A k \in Keys :
       ledger[k].status = "intent" /\ Holders(k) = {} =>
         /\ effects'[k] = effects[k]
         /\ ledger'[k] = ledger[k] \/ erasures' # erasures]_vars

=============================================================================
