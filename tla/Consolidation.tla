---------------------------- MODULE Consolidation ----------------------------
(***************************************************************************)
(* ConsolidationScheduler (packages/memory/src/scheduler.ts): maintenance  *)
(* passes over the memory of a scope, one scheduled pass at a time, calls  *)
(* that come during a pass coalesced into one follow-up.                   *)
(***************************************************************************)
EXTENDS Integers, Sequences, SequencesExt

CONSTANTS Scopes, MaxPasses   \* bound on the passes in progress at once

VARIABLES
  registered,  \* keys of the map running
  queued,
  passes,      \* passes in progress of each scope, oldest first
  owed         \* history: something was scheduled and no pass began since

cvars == <<registered, queued, passes, owed>>

Stages == {"source", "distill", "sweep", "dedupe", "over"}
Pass(kind) == [kind |-> kind, stage |-> "source"]

Init ==
  /\ registered = {} /\ queued = {}
  /\ passes = [s \in Scopes |-> << >>]
  /\ owed = [s \in Scopes |-> FALSE]

\* runNow up to its first await.
Begin(s, rest, kind) ==
  /\ Len(rest) < MaxPasses
  /\ passes' = [passes EXCEPT ![s] = Append(rest, Pass(kind))]

\* schedule: join the pass in flight, or start one.
Schedule(s) ==
  /\ IF s \in registered
     THEN queued' = queued \cup {s} /\ UNCHANGED <<registered, passes>>
     ELSE /\ Begin(s, passes[s], "scheduled")
          /\ registered' = registered \cup {s} /\ UNCHANGED queued
  /\ owed' = [owed EXCEPT ![s] = TRUE]

\* runNow bypasses the single flight.
RunNow(s) ==
  /\ Begin(s, passes[s], "manual")
  /\ UNCHANGED <<registered, queued, owed>>

After(stage) ==
  CASE stage = "source" -> "distill" [] stage = "distill" -> "sweep"
    [] stage = "sweep" -> "dedupe" [] stage = "dedupe" -> "over"

\* One await of runNow: it returns, or it throws and the pass is over.  The
\* pass reads its source when it asks for it.
Advance(s) ==
  \E i \in DOMAIN passes[s] :
    LET stage == passes[s][i].stage IN
    /\ stage # "over"
    /\ \E next \in {After(stage), "over"} :
         passes' = [passes EXCEPT ![s][i].stage = next]
    /\ owed' = [owed EXCEPT ![s] = @ /\ stage # "source"]
    /\ UNCHANGED <<registered, queued>>

\* The faulty variant leaves the follow-up to the next call.
FollowUpLater(s, rest) ==
  /\ registered' = registered \ {s}
  /\ passes' = [passes EXCEPT ![s] = rest]
  /\ queued' = queued

\* The finally block: give the key back, then the one follow-up.
FollowUp(s, rest) ==
  /\ queued' = queued \ {s}
  /\ IF s \in queued
     THEN Begin(s, rest, "scheduled") /\ UNCHANGED registered
     ELSE /\ registered' = registered \ {s}
          /\ passes' = [passes EXCEPT ![s] = rest]

Return(s) ==
  \E i \in DOMAIN passes[s] :
    LET rest == RemoveAt(passes[s], i) IN
    /\ passes[s][i].stage = "over"
    /\ IF passes[s][i].kind = "scheduled"
       THEN FollowUp(s, rest)
       ELSE passes' = [passes EXCEPT ![s] = rest] /\ UNCHANGED <<registered, queued>>
    /\ UNCHANGED owed

Next == \E s \in Scopes : Schedule(s) \/ RunNow(s) \/ Advance(s) \/ Return(s)

Fairness == \A s \in Scopes : WF_cvars(Advance(s)) /\ WF_cvars(Return(s))

FairSpec == Init /\ [][Next]_cvars /\ Fairness

-----------------------------------------------------------------------------
\* Every variable has its type.
TypeOK ==
  /\ registered \subseteq Scopes /\ queued \subseteq Scopes
  /\ \A s \in Scopes : passes[s] \in Seq([kind : {"scheduled", "manual"}, stage : Stages])
  /\ owed \in [Scopes -> BOOLEAN]

\* A scope has one scheduled pass at a time.
SingleFlight ==
  \A s \in Scopes : \A i, j \in DOMAIN passes[s] :
    passes[s][i].kind = "scheduled" /\ passes[s][j].kind = "scheduled" => i = j

\* Whatever is scheduled is seen by a pass that reads its source afterwards,
\* also when the pass in flight had read its source already, or fails.
ScheduledIsServed == \A s \in Scopes : owed[s] ~> ~ owed[s]
=============================================================================
