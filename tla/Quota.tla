------------------------------- MODULE Quota -------------------------------
(***************************************************************************)
(* InMemoryQuota of packages/server (quota.ts) and the handlers of the     *)
(* server that reserve a run with check, and settle it with record or      *)
(* release (index.ts: runAgentStream and the async runs).                  *)
(*                                                                         *)
(* Every method is synchronous, so it is one step; requests interleave     *)
(* between check and settlement.  Only the ceiling on runs is counted; the *)
(* USD and token ceilings are a refusal that may happen at any check.      *)
(***************************************************************************)
EXTENDS Integers, FiniteSets

CONSTANTS
  Keys,
  Runs,          \* requests, each of which makes one check
  KeyOf,         \* the ledger key of each request
  HardRuns,      \* limits.hardRuns
  MaxAge,        \* reservationMaxAgeMs
  Timely,        \* whether every run is settled before its reservation is MaxAge old
  MaxClock,      \* bound on time
  MaxResets      \* bound on reset(key)

ASSUME QuotaAssumption ==
  /\ KeyOf \in [Runs -> Keys]
  /\ HardRuns \in Nat /\ MaxAge \in Nat \ {0} /\ MaxClock \in Nat
  /\ MaxResets \in Nat /\ Timely \in BOOLEAN

VARIABLES
  usage,         \* committed runs of each key (ledger)
  reserved,      \* in-flight runs of each key
  generation,    \* generation of each key
  active,        \* activeReservations: requests whose token is in the set
  token,         \* the reservation each admitted request holds
  status,        \* what each request is doing
  clock, resets

NoToken == [generation |-> 0, createdAt |-> 0]

vars == <<usage, reserved, generation, active, token, status, clock, resets>>

\* Every variable has its type.
TypeOK ==
  /\ usage \in [Keys -> Nat] /\ reserved \in [Keys -> Nat]
  /\ generation \in [Keys -> Nat]
  /\ active \subseteq Runs
  /\ token \in [Runs -> [generation : Nat, createdAt : Nat]]
  /\ status \in [Runs -> {"new", "live", "lost", "settled", "refused"}]
  /\ clock \in 0..MaxClock /\ resets \in 0..MaxResets

Init ==
  /\ usage = [k \in Keys |-> 0] /\ reserved = [k \in Keys |-> 0]
  /\ generation = [k \in Keys |-> 0]
  /\ active = {}
  /\ token = [r \in Runs |-> NoToken]
  /\ status = [r \in Runs |-> "new"]
  /\ clock = 0 /\ resets = 0

Valid(r) == token[r].generation = generation[KeyOf[r]]
Decrement(n) == IF n > 0 THEN n - 1 ELSE n

\* Faulty variant: the in-flight runs of others are not counted.
CheckCommitted(r) ==
  /\ status[r] = "new"
  /\ usage[KeyOf[r]] < HardRuns
  /\ reserved' = [reserved EXCEPT ![KeyOf[r]] = @ + 1]
  /\ active' = active \cup {r}
  /\ token' = [token EXCEPT ![r] =
                 [generation |-> generation[KeyOf[r]], createdAt |-> clock]]
  /\ status' = [status EXCEPT ![r] = "live"]
  /\ UNCHANGED <<usage, generation, clock, resets>>

Check(r) ==
  /\ status[r] = "new"
  /\ usage[KeyOf[r]] + reserved[KeyOf[r]] < HardRuns
  /\ reserved' = [reserved EXCEPT ![KeyOf[r]] = @ + 1]
  /\ active' = active \cup {r}
  /\ token' = [token EXCEPT ![r] =
                 [generation |-> generation[KeyOf[r]], createdAt |-> clock]]
  /\ status' = [status EXCEPT ![r] = "live"]
  /\ UNCHANGED <<usage, generation, clock, resets>>

\* A ceiling refuses the request: the one on runs, or another one.
Refuse(r) ==
  /\ status[r] = "new"
  /\ status' = [status EXCEPT ![r] = "refused"]
  /\ UNCHANGED <<usage, reserved, generation, active, token, clock,
                 resets>>

\* The token leaves the set; its slot is freed if no reset came in between.
Free(r) ==
  /\ active' = active \ {r}
  /\ reserved' = IF Valid(r) THEN [reserved EXCEPT ![KeyOf[r]] = Decrement(@)]
                             ELSE reserved

\* The run ended with a terminal result.
Record(r) ==
  /\ status[r] = "live"
  /\ Free(r)
  /\ usage' = [usage EXCEPT ![KeyOf[r]] = @ + 1]
  /\ status' = [status EXCEPT ![r] = "settled"]
  /\ token' = [token EXCEPT ![r] = NoToken]
  /\ UNCHANGED <<generation, clock, resets>>

\* The run threw, was aborted, or replayed a persisted terminal.
Release(r) ==
  /\ status[r] = "live"
  /\ Free(r)
  /\ status' = [status EXCEPT ![r] = "settled"]
  /\ token' = [token EXCEPT ![r] = NoToken]
  /\ UNCHANGED <<usage, generation, clock, resets>>

\* The stream callback throws before its try block (the event read of a
\* replay fails): the reservation is never settled.
Lose(r) ==
  /\ status[r] = "live"
  /\ status' = [status EXCEPT ![r] = "lost"]
  /\ UNCHANGED <<usage, reserved, generation, active, token, clock,
                 resets>>

Stale == {r \in active : clock - token[r].createdAt >= MaxAge}

\* Faulty variant: the swept tokens stay in the set and are swept again.
SweepAgain ==
  /\ Stale # {}
  /\ reserved' = [k \in Keys |->
       LET freed == Cardinality({r \in Stale : KeyOf[r] = k /\ Valid(r)}) IN
         IF freed > reserved[k] THEN 0 ELSE reserved[k] - freed]
  /\ UNCHANGED <<usage, generation, active, token, status, clock,
                 resets>>

\* sweepStaleReservations: one decrement per swept token, never below zero.
Sweep ==
  /\ Stale # {}
  /\ active' = active \ Stale
  /\ reserved' = [k \in Keys |->
       LET freed == Cardinality({r \in Stale : KeyOf[r] = k /\ Valid(r)}) IN
         IF freed > reserved[k] THEN 0 ELSE reserved[k] - freed]
  /\ UNCHANGED <<usage, generation, token, status, clock, resets>>

\* reset(key).
Reset(k) ==
  /\ resets < MaxResets /\ resets' = resets + 1
  /\ usage' = [usage EXCEPT ![k] = 0]
  /\ reserved' = [reserved EXCEPT ![k] = 0]
  /\ generation' = [generation EXCEPT ![k] = @ + 1]
  /\ active' = {r \in active : KeyOf[r] # k}
  /\ UNCHANGED <<token, status, clock>>

Tick ==
  /\ clock < MaxClock
  /\ Timely => \A r \in Runs : status[r] = "live" =>
                                 clock + 1 - token[r].createdAt < MaxAge
  /\ clock' = clock + 1
  /\ UNCHANGED <<usage, reserved, generation, active, token, status,
                 resets>>

\* The front of a request, and how its run is settled: by a stream, or in the
\* background, where a full registry of runs settles the slot at once.
Admit(r) == Check(r) \/ Refuse(r)
Settle(r) == Record(r) \/ Release(r)
Request(r) == Admit(r) \/ Settle(r) \/ Lose(r)
Base == (\E r \in Runs : Request(r)) \/ Sweep \/ Tick
Next == Base \/ \E k \in Keys : Reset(k)

\* The timer of the sweep keeps running, and so does the clock; every run
\* comes to an end (RunEnds of AgentRun).
Fairness ==
  /\ WF_vars(Sweep) /\ WF_vars(Tick)
  /\ \A r \in Runs : WF_vars(Settle(r) \/ Lose(r))
Spec == Init /\ [][Next]_vars
FairSpec == Spec /\ Fairness

-----------------------------------------------------------------------------
(* Properties. *)

Held(k) == {r \in active : KeyOf[r] = k}

\* The in-flight counter of a key is the number of its unsettled reservations,
\* whatever runs are settled, lost, swept or reset in the meantime.
ReservedIsHeld == \A k \in Keys : reserved[k] = Cardinality(Held(k))

\* Committed runs and runs whose reservation is still held never exceed the
\* hard ceiling, however many requests race.  A reset starts a new count to
\* which runs of the old one may still be added.
HardCeiling ==
  resets = 0 => \A k \in Keys : usage[k] + Cardinality(Held(k)) <= HardRuns

\* A slot whose run was lost is free again in the end.
LostSlotReturns ==
  \A r \in Runs : status[r] = "lost" /\ clock + MaxAge <= MaxClock ~> r \notin active
=============================================================================
