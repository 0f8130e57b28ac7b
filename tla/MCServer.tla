------------------------------- MODULE MCServer -------------------------------
(***************************************************************************)
(* What runs in one process without a store of its own: asynchronous runs, *)
(* scheduled tasks, batches, maintenance passes and the body of a workflow *)
(* are systems that share nothing, and a behaviour is one of them at work  *)
(* (scene).                                                                *)
(***************************************************************************)
EXTENDS Integers, Sequences

CONSTANTS
  Scenes,
  Requests, MaxRuns,
  Ids, Cron, Period, MaxAdds,
  Lanes, Count,
  Scopes, MaxPasses,
  Bodies, Names, MaxExecutions, MaxFailures

VARIABLES
  scene,
  request, slots, entry, order, job, timer, signal, drain,
  started, tasks, phase, flying, fires, adds,
  collect, nextIndex, lane, results, inline, reported, aborted, cancelled,
  outcome, aggregate,
  registered, queued, passes, owed,
  body, status, token, executions, failures

Runs == INSTANCE AsyncRuns
Tasks == INSTANCE TaskScheduler
Batch == INSTANCE BatchRuns
Passes == INSTANCE Consolidation
Replay == INSTANCE WorkflowReplay

rvars == <<request, slots, entry, order, job, timer, signal, drain>>
tvars == <<started, tasks, phase, flying, fires, adds>>
nvars == <<collect, nextIndex, lane, results, inline, reported, aborted,
           cancelled, outcome, aggregate>>
cvars == <<registered, queued, passes, owed>>
wvars == <<body, status, token, executions, failures>>

-----------------------------------------------------------------------------
\* Bodies of workflows.
Step(n) == [kind |-> "step", name |-> n]
Gate(n) == [kind |-> "gate", name |-> n]
Body(form, lanes, attempts, ops) ==
  [form |-> form, lanes |-> lanes, attempts |-> attempts, ops |-> ops]

\* Names are distinct where branches reach their steps in any order.
AlignedBodies ==
  { Body("all", 2, 1, << <<Step("a"), Gate("g")>>, <<Step("b"), Step("c")>> >>),
    Body("all", 3, 1, << <<Gate("g")>>, <<Step("a"), Gate("h")>>, <<Step("b")>> >>),
    Body("map", 2, 1, << <<Step("a"), Gate("g")>>, <<Step("a")>>, <<Step("a")>> >>),
    Body("map", 1, 1, << <<Step("a"), Step("b"), Gate("g")>>,
                         <<Step("a"), Step("b")>> >>),
    Body("parallel", 2, 1, << <<Step("a"), Gate("g")>>, <<Step("b")>> >>) }

\* retry(step("a")).
RetriedBodies == { Body("all", 1, 2, << <<Step("a")>> >>) }

-----------------------------------------------------------------------------
Init ==
  /\ scene \in Scenes
  /\ Runs!Init /\ Tasks!Init /\ Batch!Init /\ Passes!Init
  /\ IF scene = "replay" THEN Replay!Init
     ELSE body = {} /\ status = "off" /\ token = "none" /\ failures = 0
          /\ executions = <<>>
  /\ scene # "batch" => collect /\ ~ aborted
  /\ scene # "tasks" => phase = 0

OnRuns == scene = "runs" /\ Runs!Next /\ UNCHANGED <<scene, tvars, nvars, cvars, wvars>>
OnTasks == scene = "tasks" /\ Tasks!Next /\ UNCHANGED <<scene, rvars, nvars, cvars, wvars>>
OnBatch == scene = "batch" /\ Batch!Next /\ UNCHANGED <<scene, rvars, tvars, cvars, wvars>>
OnPasses == scene = "passes" /\ Passes!Next /\ UNCHANGED <<scene, rvars, tvars, nvars, wvars>>
OnReplay == scene = "replay" /\ Replay!Next /\ UNCHANGED <<scene, rvars, tvars, nvars, cvars>>

Next == OnRuns \/ OnTasks \/ OnBatch \/ OnPasses \/ OnReplay

\* What is not at work has no fair action enabled.
Fairness == Runs!Fairness /\ Tasks!Fairness /\ Passes!Fairness

FairSpec == Init /\ [][Next]_<<scene, rvars, tvars, nvars, cvars, wvars>> /\ Fairness

-----------------------------------------------------------------------------
\* Every variable of the system at work has its type.
TypeOK ==
  /\ scene = "runs" => Runs!TypeOK
  /\ scene = "tasks" => Tasks!TypeOK
  /\ scene = "batch" => Batch!TypeOK
  /\ scene = "passes" => Passes!TypeOK
  /\ scene = "replay" => Replay!TypeOK

\* A task and a maintenance pass do not overlap with themselves.
NoOverlap ==
  /\ scene = "tasks" => Tasks!NoOverlap
  /\ scene = "passes" => Passes!SingleFlight

\* What a poll has reported as the outcome of a run stays its outcome.
OutcomeStays == Runs!OutcomeStays

\* What is handed out comes back once: the quota reservation of a run is settled
\* exactly once, and a batch has an account of every item it handed to a lane.
SlotsReturnOnce ==
  /\ scene = "runs" => Runs!SlotsReturnOnce
  /\ scene = "batch" => Batch!Accounts

\* Accepted runs settle, registered tasks fire again and again, and what was
\* scheduled for consolidation is seen by a later pass.
EverythingIsServed ==
  Runs!RunsSettle /\ Tasks!EveryTaskFires /\ Passes!ScheduledIsServed

\* A branch of a workflow receives what its own operations produced, a step that
\* has its result is not invoked by a resume, and a suspension leaves ctx.all and
\* map() as one.
ReplayFaithful ==
  scene = "replay" =>
    Replay!Faithful /\ Replay!NotReinvoked /\ Replay!SuspensionSurvives
=============================================================================
