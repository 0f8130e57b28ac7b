------------------------------ MODULE FactWrites ------------------------------
(***************************************************************************)
(* Facts of one (scope, subject, predicate) in PostgreSQL, written by      *)
(* several connections (packages/postgres/src/index.ts), by callers that   *)
(* assert and by consolidations (packages/memory/src/consolidate.ts).      *)
(*                                                                         *)
(* assertFact runs in a SERIALIZABLE transaction whose first statement     *)
(* takes an advisory lock: the snapshot is that of the statement, taken    *)
(* before the lock is granted.  A row that a later commit has changed      *)
(* fails the transaction (40001), and so does a second current row         *)
(* (23505 on idx_facts_one_current); either is retried.  expireFacts,      *)
(* sweepExpired and corroborate are single UPDATE statements.              *)
(***************************************************************************)
EXTENDS Integers, Sequences, FiniteSets

CONSTANTS
  Writers,
  Objects,
  NoObject,
  MaxTime,      \* bound on the clock
  MaxFacts,     \* bound on the table, pending rows included
  MaxAttempts   \* maxAttempts of withFactTransaction

VARIABLES
  facts,        \* the committed rows
  clock,
  lock,         \* holder of the advisory lock
  at, goal,     \* what each writer does and asserts
  snap,         \* rows each transaction sees
  attempt

vars == <<facts, clock, lock, at, goal, snap, attempt>>

Contract == INSTANCE FactContract WITH Times <- 1..(MaxTime + 1)

Free == "none"
NoGoal == [object |-> NoObject, from |-> 1, expires |-> Contract!Nothing]

Init ==
  /\ facts = << >>
  /\ clock = 1
  /\ lock = Free
  /\ at = [w \in Writers |-> "idle"]
  /\ goal = [w \in Writers |-> NoGoal]
  /\ snap = [w \in Writers |-> << >>]
  /\ attempt = [w \in Writers |-> 0]

Tick ==
  /\ clock < MaxTime /\ clock' = clock + 1
  /\ UNCHANGED <<facts, lock, at, goal, snap, attempt>>

-----------------------------------------------------------------------------
(* assertFact. *)

\* The locals of a call end with it.
Idle(w) ==
  /\ at' = [at EXCEPT ![w] = "idle"]
  /\ goal' = [goal EXCEPT ![w] = NoGoal]
  /\ snap' = [snap EXCEPT ![w] = << >>]
  /\ attempt' = [attempt EXCEPT ![w] = 0]

\* BEGIN ISOLATION LEVEL SERIALIZABLE; SELECT pg_advisory_xact_lock(..).
Begin(w) ==
  /\ snap' = [snap EXCEPT ![w] = facts]
  /\ at' = [at EXCEPT ![w] = "waiting"]

\* validFrom is the caller's, or the time of the call; a ttl makes it expire.
Call(w) ==
  /\ at[w] \in {"idle", "distilled"}
  /\ Len(facts) + Cardinality({x \in Writers : attempt[x] > 0}) < MaxFacts
  /\ \E o \in Objects, from \in 1..clock, ttl \in {0, 1} :
       /\ at[w] = "distilled" => o = goal[w].object /\ from = clock
       /\ ttl = 1 => at[w] = "idle" /\ from = clock
       /\ goal' = [goal EXCEPT ![w] =
                     [object |-> o, from |-> from,
                      expires |-> IF ttl = 0 THEN Contract!Nothing ELSE from + ttl]]
  /\ attempt' = [attempt EXCEPT ![w] = 1]
  /\ Begin(w)
  /\ UNCHANGED <<facts, clock, lock>>

Locked(w) ==
  /\ at[w] = "waiting" /\ lock = Free /\ lock' = w
  /\ at' = [at EXCEPT ![w] = "locked"]
  /\ UNCHANGED <<facts, clock, goal, snap, attempt>>

\* The faulty variant locks the rows as they are now, at READ COMMITTED.
SelectedAnyway(w) == at[w] = "locked"

\* SELECT .. FOR UPDATE finds the rows that are current in the snapshot, and
\* fails if one of them was updated since.
SelectedIntact(w) ==
  /\ at[w] = "locked"
  /\ \A i \in Contract!Current(snap[w]) : facts[i] = snap[w][i]

Repeats(w) == Contract!Known(snap[w], goal[w].object)
OutOfOrder(w) == ~ Contract!InOrder(snap[w], goal[w].from)

Selected(w) ==
  /\ SelectedIntact(w) /\ ~ Repeats(w) /\ ~ OutOfOrder(w)
  /\ at' = [at EXCEPT ![w] = "writing"]
  /\ UNCHANGED <<facts, clock, lock, goal, snap, attempt>>

\* The fact is already current (COMMIT), or it precedes the current one
\* (temporal order violation, ROLLBACK).
Return(w) ==
  /\ SelectedIntact(w) /\ (Repeats(w) \/ OutOfOrder(w))
  /\ lock' = Free
  /\ Idle(w)
  /\ UNCHANGED <<facts, clock>>

\* A current row that the snapshot does not show.
Appeared(w) == Contract!Current(facts) \ DOMAIN snap[w] # {}

\* UPDATE the selected rows, INSERT, COMMIT.
Commit(w) ==
  /\ at[w] = "writing" /\ ~ Appeared(w)
  /\ facts' = Append(Contract!Close(facts, Contract!Current(snap[w]), goal[w].from),
                     Contract!New(snap[w], goal[w].object, goal[w].from, goal[w].expires))
  /\ lock' = Free
  /\ Idle(w)
  /\ UNCHANGED clock

\* The faulty variant counts the retries, not the attempts.
AttemptLeftOver(w) == attempt[w] <= MaxAttempts

AttemptLeft(w) == attempt[w] < MaxAttempts

\* ROLLBACK after 40001 or 23505, and the next attempt if there is one left.
Conflict(w) ==
  /\ \/ at[w] = "locked" /\ ~ SelectedIntact(w)
     \/ at[w] = "writing" /\ Appeared(w)
  /\ lock' = Free
  /\ IF AttemptLeft(w)
     THEN attempt' = [attempt EXCEPT ![w] = @ + 1] /\ Begin(w) /\ UNCHANGED goal
     ELSE Idle(w)
  /\ UNCHANGED <<facts, clock>>

-----------------------------------------------------------------------------
(* The other operations; an UPDATE waits for the locks of the rows that a  *)
(* transaction has selected.                                               *)

RowLocks ==
  UNION {Contract!Current(snap[w]) : w \in {x \in Writers : at[x] = "writing"}}

Maintain ==
  /\ \/ \E i \in DOMAIN facts \ RowLocks : Contract!ExpireFacts({i}, clock)
     \/ /\ Contract!Stale(facts, clock) \cap RowLocks = {}
        /\ Contract!SweepExpired(clock)
  /\ UNCHANGED <<clock, lock, at, goal, snap, attempt>>

\* Consolidation asks whether a fact is current before it asserts it.
Distill(w) ==
  /\ at[w] = "idle"
  /\ \E o \in Objects :
       /\ goal' = [goal EXCEPT ![w] = [NoGoal EXCEPT !.object = o]]
       /\ at' = [at EXCEPT ![w] = IF Contract!Known(facts, o) THEN "known" ELSE "distilled"]
  /\ snap' = [snap EXCEPT ![w] = facts]
  /\ UNCHANGED <<facts, clock, lock, attempt>>

\* corroborate is an UPDATE that may find the row closed by now; the fact is
\* reported as corroborated either way.
Corroborated(w) ==
  /\ at[w] = "known"
  /\ \E i \in Contract!Current(snap[w]) \ RowLocks :
       /\ snap[w][i].object = goal[w].object
       /\ facts' = IF i \in Contract!Current(facts)
                   THEN [facts EXCEPT ![i].confirmed = TRUE] ELSE facts
  /\ Idle(w)
  /\ UNCHANGED <<clock, lock>>

Next ==
  \/ Tick \/ Maintain
  \/ \E w \in Writers : \/ Call(w) \/ Locked(w) \/ Selected(w) \/ Return(w) \/ Commit(w)
                        \/ Conflict(w) \/ Distill(w) \/ Corroborated(w)

Spec == Init /\ [][Next]_vars

-----------------------------------------------------------------------------
\* Every variable has its type.
TypeOK ==
  LET Row == [object : Objects, from : 1..MaxTime, until : 0..MaxTime,
              supersedes : 0..MaxFacts, expires : 0..(MaxTime + 1),
              confirmed : BOOLEAN] IN
  /\ facts \in Seq(Row)
  /\ clock \in 1..MaxTime
  /\ lock \in Writers \cup {Free}
  /\ at \in [Writers -> {"idle", "waiting", "locked", "writing",
                        "known", "distilled"}]
  /\ \A w \in Writers : snap[w] \in Seq(Row)
  /\ attempt \in [Writers -> 0..MaxAttempts]

\* Each connection's transactions and updates are together one history of the
\* in-memory store: no assertion is lost, none closes a fact it did not see.  Its
\* facts form one timeline.
FactsKeepContract == Contract!Spec /\ []Contract!OneTimeline
=============================================================================
