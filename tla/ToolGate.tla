------------------------------ MODULE ToolGate ------------------------------
(***************************************************************************)
(* What stands before a tool call (packages/core): the registry that a run *)
(* builds from the agent's permissions (agent.ts), the decision on a call  *)
(* by policy, hook and human (permission.ts, tool.ts), the order in which  *)
(* dispatch() runs a batch, and the allow-list of the prompt skill that is *)
(* active, which a later run restores from the log (skill-tools.ts).       *)
(*                                                                         *)
(* The batch is the last one in the log; its first results (answered) are  *)
(* in the log, too.  Effects and the ledger are in ToolDispatch.           *)
(***************************************************************************)
EXTENDS Integers, Sequences

CONSTANTS
  Policies,      \* what an agent may be configured with
  ToolBatches,   \* the tool uses of one answer of the model
  NewModes,      \* modes that are set while the agent lives
  MaxRuns

VARIABLES
  configured, agent,   \* config.permissions, and _effectivePermissions now
  policy,              \* the policy the run's registry was built with
  skill,               \* allowedTools of the active skill
  phase, batch, answered, stage,
  granted,             \* calls of the batch that a hook or a human allowed
  lastUse, found,      \* of the log: see LogResult
  runs

gvars == <<configured, agent, policy, skill, phase, batch, answered, stage, granted,
           lastUse, found, runs>>

Tools == {"look", "edit", "skill_use"}
ReadOnly == {"look", "skill_use"}
Modes == {"default", "plan", "ask", "acceptEdits", "bypass"}
Decisions == {"allow", "deny", "ask"}

\* The tools that an entry of each list matches; denyArgs are the entries with
\* an argument glob, which matches the risky calls of the tool.
Policy == [mode : Modes, deny : SUBSET Tools, denyArgs : SUBSET Tools,
           allow : SUBSET Tools, ask : SUBSET Tools,
           default : Decisions \cup {"none"}]

\* skill_use asks for a skill that allows "edit", for one that is not narrow, or
\* for one that does not exist.
Call == [tool : {"look", "edit"}, arg : {"plain", "risky"}]
          \cup [tool : {"skill_use"}, arg : {"editing", "any", "missing"}]
AllTools == Tools
AllowedOf(name) == IF name = "editing" THEN {"edit"} ELSE AllTools

Settled == {"ok", "error", "denied"}
Stages == Settled \cup {"waiting", "hook", "human", "running"}

\* Every variable has its type.
TypeOK ==
  /\ {configured, agent, policy} \subseteq Policy
  /\ {skill, lastUse, found} \subseteq SUBSET Tools
  /\ phase \in {"rest", "model", "dispatch"}
  /\ batch \in Seq(Call) /\ answered \in 0..Len(batch)
  /\ stage \in [DOMAIN batch -> Stages] /\ granted \subseteq DOMAIN batch
  /\ runs \in 0..MaxRuns

Init ==
  /\ configured \in Policies /\ agent = configured /\ policy = configured
  /\ skill = AllTools /\ lastUse = AllTools /\ found = AllTools
  /\ phase = "rest" /\ batch = << >> /\ answered = 0
  /\ stage = << >> /\ granted = {}
  /\ runs = 0

-----------------------------------------------------------------------------
(* evaluatePermission and the lists beside it. *)

Evaluate(p, tool) ==
  IF tool \in p.deny THEN "deny"
  ELSE IF p.mode = "plan" /\ tool \notin ReadOnly THEN "deny"
  ELSE IF tool \in p.allow THEN "allow"
  ELSE IF tool \in p.ask \/ p.mode = "ask" THEN "ask"
  ELSE IF p.mode \in {"bypass", "acceptEdits"} THEN "allow"
  ELSE IF p.default # "none" THEN p.default
  ELSE IF tool \in ReadOnly THEN "allow" ELSE "ask"

\* filterToolsForSchema: the registry does not know a tool that is denied.
Known(tool) == Evaluate(policy, tool) # "deny"
ArgDenied(c) == c.tool \in policy.denyArgs /\ c.arg = "risky"
SkillAllows(tool) == tool = "skill_use" \/ tool \in skill

-----------------------------------------------------------------------------
(* The order of dispatch(). *)

Done(i) == stage[i] \in Settled
Pending == {i \in DOMAIN batch : i > answered}
Reads(i) == Known(batch[i].tool) /\ batch[i].tool \in ReadOnly

\* Faulty variant: a call of skill_use is a read like any other.
TurnByEffect(i) ==
  ~ Reads(i) => \A j \in Pending : Reads(j) \/ j < i => Done(j)

\* With a skill_use the batch runs in its order; else the reads run side by
\* side, and then the other calls one after the other.
Turn(i) ==
  IF \E j \in Pending : batch[j].tool = "skill_use"
    THEN \A j \in Pending : j < i => Done(j)
    ELSE ~ Reads(i) => \A j \in Pending : Reads(j) \/ j < i => Done(j)

Goto(i, s) == stage' = [stage EXCEPT ![i] = s]
dispatching == <<configured, agent, policy, phase, batch, answered, lastUse, found,
                 runs>>

\* runOne up to its first await: unknown tools, the skill's list, bad input and
\* denied arguments.
Begin(i) ==
  /\ phase = "dispatch" /\ i \in Pending /\ stage[i] = "waiting" /\ Turn(i)
  /\ IF ~ Known(batch[i].tool) THEN Goto(i, "error")
     ELSE IF ~ SkillAllows(batch[i].tool) THEN Goto(i, "denied")
     ELSE \/ Goto(i, "error")
          \/ Goto(i, IF ArgDenied(batch[i]) THEN "denied" ELSE "hook")
  /\ UNCHANGED <<dispatching, skill, granted>>

\* onPreToolUse denies or throws, allows, or says nothing (or is not there).
HookAnswers(i) ==
  /\ phase = "dispatch" /\ i \in Pending /\ stage[i] = "hook"
  /\ \/ Goto(i, "denied") /\ UNCHANGED granted
     \/ Goto(i, "running") /\ granted' = granted \cup {i}
     \/ /\ Goto(i, IF Evaluate(policy, batch[i].tool) = "ask" THEN "human" ELSE "running")
        /\ UNCHANGED granted
  /\ UNCHANGED <<dispatching, skill>>

\* onPermissionRequest, whose absence or failure is a denial.
HumanAnswers(i) ==
  /\ phase = "dispatch" /\ i \in Pending /\ stage[i] = "human"
  /\ \/ Goto(i, "denied") /\ UNCHANGED granted
     \/ Goto(i, "running") /\ granted' = granted \cup {i}
  /\ UNCHANGED <<dispatching, skill>>

\* The tool returns or throws.  skill_use of a skill that is not there returns
\* an error as its output, and leaves the active skill alone.
Returns(i) ==
  /\ phase = "dispatch" /\ i \in Pending /\ stage[i] = "running"
  /\ \/ Goto(i, "error") /\ UNCHANGED skill
     \/ /\ Goto(i, "ok")
        /\ skill' = IF batch[i].tool = "skill_use" /\ batch[i].arg # "missing"
                      THEN AllowedOf(batch[i].arg) ELSE skill
  /\ UNCHANGED <<dispatching, granted>>

-----------------------------------------------------------------------------
(* The run. *)

\* setPermissionMode: a policy of its own for the runs to come.
SetPermissionMode ==
  /\ \E m \in NewModes : agent' = [agent EXCEPT !.mode = m]
  /\ UNCHANGED <<configured, policy, skill, phase, batch, answered, stage, granted,
                 lastUse, found, runs>>

\* query() and resume() build a registry, with the agent's policy or the one that
\* permissionsFor has for the principal, and restore the skill from the log;
\* resume dispatches the calls that have no result.
Start ==
  /\ phase = "rest" /\ runs < MaxRuns /\ runs' = runs + 1
  /\ policy' \in {agent} \cup Policies /\ skill' = lastUse
  /\ stage' = [i \in DOMAIN batch |-> IF i > answered THEN "waiting" ELSE "ok"]
  /\ granted' = {}
  /\ phase' \in IF Pending = {} THEN {"model"} ELSE {"model", "dispatch"}
  /\ UNCHANGED <<configured, agent, batch, answered, lastUse, found>>

Model ==
  /\ phase = "model"
  /\ \E b \in ToolBatches : batch' = b /\ stage' = [i \in DOMAIN b |-> "waiting"]
  /\ answered' = 0 /\ granted' = {} /\ phase' = "dispatch"
  /\ UNCHANGED <<configured, agent, policy, skill, lastUse, found, runs>>

\* When the whole batch has settled its results are logged in order.  lastUse is
\* what restorePromptSkillPolicy reads from the last skill_use without isError:
\* no list in its output counts as an empty one.  found is the last skill that
\* was loaded.
LogResult ==
  /\ phase = "dispatch" /\ \A i \in Pending : Done(i)
  /\ answered' = answered + 1
  /\ phase' = IF answered' = Len(batch) THEN "model" ELSE phase
  /\ LET c == batch[answered']
         used == c.tool = "skill_use" /\ stage[answered'] = "ok" IN
       /\ lastUse' = IF ~ used THEN lastUse
                     ELSE IF c.arg = "missing" THEN {} ELSE AllowedOf(c.arg)
       /\ found' = IF used /\ c.arg # "missing" THEN AllowedOf(c.arg) ELSE found
  /\ UNCHANGED <<configured, agent, policy, skill, batch, stage, granted, runs>>

\* The run ends: with its answer, or by a crash, with which the mode that was
\* set is gone, too.
End ==
  /\ phase # "rest" /\ phase' = "rest"
  /\ agent' \in {agent, configured}
  /\ UNCHANGED <<configured, policy, skill, batch, answered, stage, granted, lastUse,
                 found, runs>>

CallStep(i) == Begin(i) \/ HookAnswers(i) \/ HumanAnswers(i) \/ Returns(i)
Next ==
  \/ \E i \in DOMAIN batch : CallStep(i)
  \/ SetPermissionMode \/ Start \/ Model \/ LogResult \/ End

Spec == Init /\ [][Next]_gvars

-----------------------------------------------------------------------------
(* Properties. *)

Running(i) == phase = "dispatch" /\ stage[i] = "running"

\* Whatever hooks say and whatever mode is set meanwhile, a tool runs only if the
\* policy of the run does not deny it or its arguments, and if that policy asks,
\* only with a consent that was given to this call.
DenyIsFinal ==
  \A i \in DOMAIN batch : Running(i) =>
    LET c == batch[i] IN
    /\ Evaluate(policy, c.tool) # "deny" /\ ~ ArgDenied(c)
    /\ policy.mode = "plan" => c.tool \in ReadOnly
    /\ Evaluate(policy, c.tool) = "ask" => i \in granted

\* "Read-only calls run concurrently; mutating calls run serially."
MutatesAlone ==
  \A i \in DOMAIN batch : Running(i) /\ batch[i].tool \notin ReadOnly =>
    \A j \in DOMAIN batch \ {i} : ~ Running(j)

\* A tool runs only if the skill that is active now allows it, although the list
\* was read before the gate was awaited.
SkillObeyed ==
  \A i \in DOMAIN batch : Running(i) => SkillAllows(batch[i].tool)

\* Between two answers of the model the active skill is the last one that the log
\* shows as loaded, in a run that goes on and in one that was resumed.  (Not so
\* when a skill was asked for that does not exist.)
SkillRemembered == phase = "model" => skill = found
=============================================================================
