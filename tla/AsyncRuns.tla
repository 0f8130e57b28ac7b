------------------------------ MODULE AsyncRuns ------------------------------
(***************************************************************************)
(* Asynchronous runs of the server (packages/server/src/index.ts): the     *)
(* handler that accepts one, the background job that settles it, its       *)
(* timer, the bounded registry that polls read, and the drain of           *)
(* serveNode.  The quota is seen as one reservation for each request.      *)
(***************************************************************************)
EXTENDS Integers, FiniteSets

CONSTANTS Requests, MaxRuns   \* maxAsyncRuns

VARIABLES
  request,     \* where the handler of each request is
  slots,       \* history: how often each reservation was taken back
  entry,       \* entry of each run in the registry
  order,       \* how many runs were accepted before it (createdAt)
  job,         \* where the background job of each run is
  timer,       \* "armed", "fired", "off"
  signal,      \* runController of each run was aborted
  drain        \* drain() of serveNode

rvars == <<request, slots, entry, order, job, timer, signal, drain>>

NoEntry == "none"
Terminals == {"completed", "failed", "aborted", "suspended"}
Statuses == Terminals \cup {"running", "timed_out"}

Init ==
  /\ request = [r \in Requests |-> "unsent"]
  /\ slots = [r \in Requests |-> 0]
  /\ entry = [r \in Requests |-> NoEntry]
  /\ order = [r \in Requests |-> 0]
  /\ job = [r \in Requests |-> "none"]
  /\ timer = [r \in Requests |-> "off"]
  /\ signal = [r \in Requests |-> FALSE]
  /\ drain = "off"

Registered == {r \in Requests : entry[r] # NoEntry}
Running == {r \in Requests : entry[r] = "running"}
Goes(r, there) == request' = [request EXCEPT ![r] = there]

-----------------------------------------------------------------------------
(* POST /v1/agents/:agentId/runs *)

\* The middleware lets the request pass, unless the server is draining.
Arrive(r) ==
  /\ request[r] = "unsent"
  /\ Goes(r, IF drain = "off" THEN "checking" ELSE "refused")
  /\ UNCHANGED <<slots, entry, order, job, timer, signal, drain>>

\* Authentication, limits, validation and quota, each with an answer of its own.
Check(r) ==
  /\ request[r] = "checking"
  /\ Goes(r, "reserved") \/ Goes(r, "refused")
  /\ UNCHANGED <<slots, entry, order, job, timer, signal, drain>>

Oldest(S) == {r \in S : \A q \in S : order[r] <= order[q]}

\* The faulty variant evicts the oldest run whatever it is doing.
EvictableAny == Oldest(Registered)

Evictable == Oldest(Registered \ Running)

\* AsyncRunRegistry.set and the start of the job, or 503.
Register(r) ==
  /\ request[r] = "reserved"
  /\ \/ /\ Cardinality(Registered) < MaxRuns
        /\ entry' = [entry EXCEPT ![r] = "running"]
        /\ Goes(r, "accepted")
     \/ /\ Cardinality(Registered) = MaxRuns
        /\ \E old \in Evictable : entry' = [entry EXCEPT ![old] = NoEntry, ![r] = "running"]
        /\ Goes(r, "accepted")
     \/ /\ Cardinality(Registered) = MaxRuns /\ Evictable = {}
        /\ Goes(r, "refused") /\ UNCHANGED entry
  /\ IF request'[r] = "accepted"
     THEN /\ order' = [order EXCEPT ![r] =
                         Cardinality({q \in Requests : request[q] = "accepted"}) + 1]
          /\ job' = [job EXCEPT ![r] = "querying"]
          /\ timer' = [timer EXCEPT ![r] = "armed"]
          /\ UNCHANGED slots
     ELSE slots' = [slots EXCEPT ![r] = @ + 1] /\ UNCHANGED <<order, job, timer>>
  /\ UNCHANGED <<signal, drain>>

-----------------------------------------------------------------------------
(* The background job. *)

\* asyncRuns.settle, webhook, clearTimeout.
Settle(r, status) ==
  /\ entry' = [entry EXCEPT ![r] = IF @ = NoEntry THEN @ ELSE status]
  /\ job' = [job EXCEPT ![r] = "over"]
  /\ timer' = [timer EXCEPT ![r] = IF @ = "armed" THEN "off" ELSE @]
  /\ UNCHANGED <<request, order, signal, drain>>

FinalStatus(r, status) == IF timer[r] = "fired" THEN "timed_out" ELSE status

\* The query ends with a terminal result, whose spend is then recorded.
Terminal(r) ==
  /\ job[r] = "querying"
  /\ \E status \in Terminals : job' = [job EXCEPT ![r] = status]
  /\ UNCHANGED <<request, slots, entry, order, timer, signal, drain>>

\* await quota.record, which settles the reservation.
Record(r) ==
  /\ job[r] \in Terminals
  /\ slots' = [slots EXCEPT ![r] = @ + 1]
  /\ Settle(r, FinalStatus(r, job[r]))

\* The faulty variant keeps localReservation, which finally releases again.
ReleaseTwice(r) == slots' = [slots EXCEPT ![r] = @ + 2]

\* quota.release in the catch block, or in finally when no result came.
Release(r) == slots' = [slots EXCEPT ![r] = @ + 1]

\* The query throws, or ends without a result, or quota.record throws.
Fail(r) ==
  /\ job[r] \in Terminals \cup {"querying"}
  /\ Release(r)
  /\ Settle(r, FinalStatus(r, "failed"))

Timeout(r) ==
  /\ timer[r] = "armed"
  /\ timer' = [timer EXCEPT ![r] = "fired"]
  /\ signal' = [signal EXCEPT ![r] = TRUE]
  /\ UNCHANGED <<request, slots, entry, order, job, drain>>

-----------------------------------------------------------------------------
(* drain() *)

StartDrain ==
  /\ drain = "off" /\ drain' = "waiting"
  /\ UNCHANGED <<request, slots, entry, order, job, timer, signal>>

\* The loop ends when nothing is running or at its deadline; what is running
\* then is aborted.
StopWaiting ==
  /\ drain = "waiting" /\ drain' = "closing"
  /\ signal' = [r \in Requests |-> signal[r] \/ r \in Running]
  /\ UNCHANGED <<request, slots, entry, order, job, timer>>

Next ==
  \/ StartDrain \/ StopWaiting
  \/ \E r \in Requests : \/ Arrive(r) \/ Check(r) \/ Register(r)
                         \/ Terminal(r) \/ Record(r) \/ Fail(r) \/ Timeout(r)

\* A query ends, as RunEnds of AgentRun has it, and quota.record comes back.
Fairness == \A r \in Requests : WF_rvars(Terminal(r) \/ Fail(r)) /\ WF_rvars(Record(r))

FairSpec == Init /\ [][Next]_rvars /\ Fairness

-----------------------------------------------------------------------------
\* Every variable has its type.
TypeOK ==
  /\ request \in [Requests -> {"unsent", "checking", "reserved", "accepted", "refused"}]
  /\ entry \in [Requests -> Statuses \cup {NoEntry}]
  /\ job \in [Requests -> Terminals \cup {"none", "querying", "over"}]
  /\ timer \in [Requests -> {"off", "armed", "fired"}]
  /\ signal \in [Requests -> BOOLEAN]
  /\ slots \in [Requests -> Nat]
  /\ drain \in {"off", "waiting", "closing"}

\* A run in progress stays visible, the registry at its limit included; what a
\* poll has reported as the outcome stays the outcome until it is evicted.
OutcomeStays ==
  [][\A r \in Registered :
       \/ entry'[r] = entry[r]
       \/ entry[r] = "running" /\ entry'[r] \in Terminals \cup {"timed_out"}
       \/ entry[r] # "running" /\ entry'[r] = NoEntry]_rvars

\* The reservation of a request is taken back once: when the registry turned
\* it away, or when its run was recorded, failed or timed out, or both of the
\* last two.
SlotsReturnOnce ==
  \A r \in Requests :
    /\ slots[r] <= 1
    /\ job[r] = "over" => slots[r] = 1
    /\ job[r] \in Terminals \cup {"querying"} => slots[r] = 0

\* Every accepted run is settled.
RunsSettle ==
  \A r \in Requests : request[r] = "accepted" ~> (job[r] = "over" /\ r \notin Running)
=============================================================================
