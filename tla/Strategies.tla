----------------------------- MODULE Strategies -----------------------------
(***************************************************************************)
(* reflection and planAndExecute (packages/core/src/strategies.ts): runs   *)
(* of the base loop between calls of a critic or a planner, under one      *)
(* budget and with one terminal result.  A sub-run is one step: it ends    *)
(* with a subtype and a cost, the loop's preflight keeps it within what    *)
(* the shared budget has left.                                             *)
(***************************************************************************)
EXTENDS Integers, Sequences

CONSTANTS
  MaxRevisions,
  MaxSteps,
  ReplanEvery,
  MaxCost,       \* policy.maxCostUsd
  PlanLengths    \* numbers of steps a planner may answer with, 0 for no plan

VARIABLES
  strategy,      \* "reflection" or "plan"
  schema,        \* opts.outputSchema is there
  pc,
  pass,          \* revisions begun, or steps run
  remaining,     \* steps the plan has left
  last,          \* how the last sub-run ended
  budget,        \* sharedBudget.usd
  total,         \* totalUsage, summed for the terminal
  first,         \* isFirstSubRun
  spent,         \* what the sub-runs and the agents they spawned really cost
  billed,        \* what the calls of this strategy really used
  emitted        \* session.init and result events of the caller's stream

svars == <<strategy, schema, pc, pass, remaining, last, budget, total, first,
           spent, billed, emitted>>

Subtypes == {"success", "error", "aborted", "suspended"}

Init ==
  /\ strategy \in {"reflection", "plan"}
  /\ schema \in BOOLEAN
  /\ pc = IF strategy = "reflection" THEN "draft" ELSE "plan"
  /\ pass = 0 /\ remaining = 0
  /\ last = "none"
  /\ budget = 0 /\ total = 0 /\ first = TRUE
  /\ spent = 0 /\ billed = 0
  /\ emitted = <<>>

-----------------------------------------------------------------------------
\* The faulty variants fold against the budget before the sub-run, and nothing.
FoldOnTop(own, spawned) == budget + 2 * spawned + own
FoldSpawned(own, spawned) == budget + spawned

\* A spawned agent adds to the budget while the sub-run is going on; the cost of
\* the terminal is the budget at its end with the sub-run's own on top.
Fold(own, spawned) ==
  LET after == budget + spawned
      cost == after + own
  IN after + (IF cost > after THEN cost - after ELSE 0)

\* One run of the base loop, under the budget.
SubRun(end) ==
  \E own \in 0..MaxCost, spawned \in 0..1 :
    /\ budget + own + spawned <= MaxCost
    /\ end = "success" => own > 0
    /\ budget' = Fold(own, spawned)
    /\ spent' = spent + own + spawned
    /\ billed' = billed + own
    /\ total' = total + own
    /\ last' = end

\* drainReact forwards the first session.init only.
Forward(result) ==
  /\ emitted' = emitted \o (IF first THEN <<[type |-> "init"]>> ELSE <<>>) \o result
  /\ first' = FALSE

Result(subtype, usage) == <<[type |-> "result", subtype |-> subtype, usage |-> usage]>>

\* A call of the critic or the planner: its tokens are folded, its price is not.
\* One that fails has used nothing.
Aux ==
  \E used \in {0, 1} : billed' = billed + used /\ total' = total + used

-----------------------------------------------------------------------------
\* Reflection.
Draft ==
  /\ pc = "draft"
  /\ pass' = pass + 1
  /\ \E end \in Subtypes :
       /\ SubRun(end)
       /\ Forward(IF end = "success" THEN <<>> ELSE Result(end, total'))
       /\ pc' = IF end # "success" THEN "done"
                ELSE IF pass = MaxRevisions THEN "accept" ELSE "critique"
  /\ UNCHANGED <<strategy, schema, remaining>>

\* An unsatisfactory draft is revised; a critic that fails or answers something
\* else accepts it.
Critique ==
  /\ pc = "critique"
  /\ Aux
  /\ pc' \in {"draft", "accept"}
  /\ (pc' = "draft" => total' > total)
  /\ UNCHANGED <<strategy, schema, pass, remaining, last, budget, first, spent, emitted>>

\* finishAccepted and the end of planAndExecute.
Accept ==
  /\ pc = "accept" /\ ~ schema
  /\ pc' = "done"
  /\ emitted' = emitted \o Result("success", total)
  /\ UNCHANGED <<strategy, schema, pass, remaining, last, budget, total, first, spent, billed>>

\* The faulty variant synthesizes a success whatever the final pass came to.
FormatSucceeds(end) == Result("success", total')

\* The final pass carries the schema, and its failure is the caller's.
FormatResult(end) == Result(end, total')

Format ==
  /\ pc = "accept" /\ schema
  /\ pc' = "done"
  /\ \E end \in Subtypes : SubRun(end) /\ Forward(FormatResult(end))
  /\ UNCHANGED <<strategy, schema, pass, remaining>>

-----------------------------------------------------------------------------
\* Plan and execute.
FirstPlan ==
  /\ pc = "plan"
  /\ Aux
  /\ \E n \in PlanLengths :
       /\ n > 0 => total' > total
       /\ remaining' = IF n < MaxSteps THEN n ELSE MaxSteps
       /\ pc' = IF n = 0 THEN "fallback" ELSE "step"
  /\ UNCHANGED <<strategy, schema, pass, last, budget, first, spent, emitted>>

\* Without a plan the sub-run's stream is the caller's, its terminal included.
Fallback ==
  /\ pc = "fallback"
  /\ pc' = "done"
  /\ \E end \in Subtypes : SubRun(end) /\ Forward(Result(end, total' - total))
  /\ UNCHANGED <<strategy, schema, pass, remaining>>

\* The faulty variant replans for ever.
MayReplanAlways(steps) == TRUE

MayReplan(steps) == steps < MaxSteps

Step ==
  /\ pc = "step"
  /\ pass' = pass + 1
  /\ remaining' = remaining - 1
  /\ \E end \in Subtypes :
       /\ SubRun(end)
       /\ LET wants == \/ end # "success"
                       \/ ReplanEvery > 0 /\ (pass + 1) % ReplanEvery = 0 /\ remaining > 1
          IN pc' = CASE wants /\ MayReplan(pass + 1) -> "replan"
                     [] end # "success" -> "accept"
                     [] remaining > 1 /\ MayReplan(pass + 1) -> "step"
                     [] OTHER -> "accept"
  /\ Forward(<<>>)
  /\ UNCHANGED <<strategy, schema>>

Replan ==
  /\ pc = "replan"
  /\ Aux
  /\ \E n \in PlanLengths :
       /\ n > 0 => total' > total
       /\ remaining' = IF n < MaxSteps - pass THEN n ELSE MaxSteps - pass
       /\ pc' = IF n = 0 THEN "accept" ELSE "step"
  /\ UNCHANGED <<strategy, schema, pass, last, budget, first, spent, emitted>>

Next ==
  \/ Draft \/ Critique \/ Accept \/ Format
  \/ FirstPlan \/ Fallback \/ Step \/ Replan

Fairness == WF_svars(Next)
FairSpec == Init /\ [][Next]_svars /\ Fairness

-----------------------------------------------------------------------------
\* Every variable has its type.
TypeOK ==
  /\ pc \in {"draft", "critique", "accept", "plan", "fallback", "step", "replan", "done"}
  /\ last \in Subtypes \cup {"none"}
  /\ pass \in 0..(MaxRevisions + 1) \cup 0..MaxSteps
  /\ remaining \in 0..MaxSteps

Results == {i \in DOMAIN emitted : emitted[i].type = "result"}

\* The caller sees one session.init, then exactly one result when the strategy
\* ends, and the result's usage is what all calls used (a fallback reports its
\* own run only).
OneResult ==
  /\ Results = (IF pc = "done" THEN {2} ELSE {})
  /\ pc = "done" => /\ Len(emitted) = 2 /\ emitted[1].type = "init"
                    /\ (strategy = "plan" /\ pass = 0) \/ emitted[2].usage = billed

\* The budget that the next preflight reads is what the sub-runs and the agents
\* they spawned have cost, and that stays within the policy.
BudgetIsSpent == budget = spent /\ spent <= MaxCost

\* A reflection succeeds only with a draft, formatted if a schema asks for it,
\* that a run of the loop succeeded with.
SuccessEarned ==
  strategy = "reflection" /\ pc = "done" => emitted[2].subtype = last

\* strategies.ts: "`subtype` is always "success" (callers only reach this on
\* success)."
PlanSuccessEarned ==
  strategy = "plan" /\ pc = "done" => emitted[2].subtype = last

\* A strategy comes to an end.
StrategyEnds == <>(pc = "done")
=============================================================================
