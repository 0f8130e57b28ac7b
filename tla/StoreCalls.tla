------------------------------ MODULE StoreCalls ------------------------------
(***************************************************************************)
(* The same calls as the databases see them.  libsql sends a call as one   *)
(* batch, Convex runs it as one mutation.  PostgreSQL runs appendEvents,   *)
(* recordCompletion and eraseScope statement by statement between BEGIN    *)
(* and COMMIT and the rest as single statements: over a pool, where each   *)
(* transaction has a connection of its own and the rows it has written are *)
(* locked, or over one connection (PGlite, pg.Client), where transactions  *)
(* queue and every other statement of the process goes to the same         *)
(* connection, whatever is open there.                                     *)
(***************************************************************************)
EXTENDS Naturals, Sequences, FiniteSets

CONSTANTS Rows, Calls, Job, MaxCalls, Engines

VARIABLES
  engine,
  table, answer, seen, removals,  \* as in the contract; table is what is stored
  stage,     \* next statement of each transaction, 0 before BEGIN
  writes,    \* pool: what each transaction has written, row -> content
  before     \* one connection: the table at BEGIN, or nothing is open

Contract == INSTANCE StoreContract

hist == <<seen, removals>>
vars == <<engine, table, answer, hist, stage, writes, before>>

Absent == Contract!Absent
Kind(c) == Job[c].kind
Key(c) == Job[c].rows[1]
Closed == <<>>
NoWrites == <<>>

Init ==
  /\ Contract!Init
  /\ engine \in Engines
  /\ stage = [c \in Calls |-> 0]
  /\ writes = [c \in Calls |-> NoWrites]
  /\ before = Closed

Answer(c, a) == answer' = [answer EXCEPT ![c] = a]
Store(new) ==
  /\ table' = new
  /\ removals' = IF Contract!Removes(new) THEN removals + 1 ELSE removals

Begin(c) ==
  /\ Contract!Begin(c)
  /\ UNCHANGED <<engine, stage, writes, before>>

-----------------------------------------------------------------------------
(* libsql and Convex: the whole call in one step. *)

\* client.batch of INSERTs; UNIQUE (session_id, seq) fails all of it.
BatchAppend(c) ==
  IF \E i \in DOMAIN Job[c].rows : table[Job[c].rows[i]] # Absent
  THEN <<table, "refused">>
  ELSE <<Contract!Put(table, Contract!RowsOf(c), Contract!RowOf(c, "event")), "ok">>

\* INSERT OR IGNORE: rowsAffected says who won.
BatchClaim(c) ==
  IF table[Key(c)] # Absent THEN <<table, "refused">>
  ELSE <<[table EXCEPT ![Key(c)] = Contract!RowOf(c, "intent")], "ok">>

\* DELETE .. WHERE key = ? AND args_hash = ? AND status = 'intent'.
BatchRelease(c) ==
  IF table[Key(c)].status = "intent" /\ table[Key(c)].args = Job[c].args
  THEN <<[table EXCEPT ![Key(c)] = Absent], "ok">>
  ELSE <<table, "refused">>

\* INSERT OR IGNORE, then UPDATE .. status = 'applied'.
BatchComplete(c) ==
  LET ensured == IF table[Key(c)] = Absent
                 THEN [table EXCEPT ![Key(c)] = Contract!RowOf(c, "intent")]
                 ELSE table
  IN <<[ensured EXCEPT ![Key(c)].status = "applied"], "ok">>

\* DELETEs of all tables.
BatchErase(c) == <<Contract!Remove(table, Contract!RowsOf(c)), "ok">>

Batch(c) ==
  CASE Kind(c) = "append" -> BatchAppend(c) [] Kind(c) = "claim" -> BatchClaim(c)
    [] Kind(c) = "release" -> BatchRelease(c) [] Kind(c) = "complete" -> BatchComplete(c)
    [] Kind(c) = "erase" -> BatchErase(c)

\* The mutations of Convex look for the rows first and then write.
MutationAppend(c) ==
  LET found == {r \in Contract!RowsOf(c) : table[r] # Absent}
  IN IF found # {} THEN <<table, "refused">>
     ELSE <<[r \in Rows |-> IF r \in Contract!RowsOf(c)
                            THEN Contract!RowOf(c, "event") ELSE table[r]], "ok">>

MutationClaim(c) ==
  LET existing == table[Key(c)]
  IN IF existing # Absent THEN <<table, "refused">>
     ELSE <<[table EXCEPT ![Key(c)] = Contract!RowOf(c, "intent")], "ok">>

MutationRelease(c) ==
  LET existing == table[Key(c)]
  IN IF existing = Absent \/ existing.status # "intent" \/ existing.args # Job[c].args
     THEN <<table, "refused">>
     ELSE <<[table EXCEPT ![Key(c)] = Absent], "ok">>

MutationComplete(c) ==
  <<[table EXCEPT ![Key(c)] = IF @ # Absent THEN [@ EXCEPT !.status = "applied"]
                              ELSE Contract!RowOf(c, "applied")], "ok">>

MutationErase(c) ==
  <<[r \in Rows |-> IF r \in Contract!RowsOf(c) THEN Absent ELSE table[r]], "ok">>

Mutation(c) ==
  CASE Kind(c) = "append" -> MutationAppend(c) [] Kind(c) = "claim" -> MutationClaim(c)
    [] Kind(c) = "release" -> MutationRelease(c) [] Kind(c) = "complete" -> MutationComplete(c)
    [] Kind(c) = "erase" -> MutationErase(c)

Whole(c) ==
  /\ engine \in {"libsql", "convex"}
  /\ Contract!Begun(c)
  /\ LET done == IF engine = "libsql" THEN Batch(c) ELSE Mutation(c)
     IN Store(done[1]) /\ \E a \in {done[2], "error"} : Answer(c, a)
  /\ UNCHANGED <<engine, seen, stage, writes, before>>

-----------------------------------------------------------------------------
(* PostgreSQL. *)

Single(c) == Kind(c) \in {"claim", "release"}
Last(c) == CASE Kind(c) = "append" -> Len(Job[c].rows) [] OTHER -> 2

\* The rows that statement n of c writes where a table t is visible.  An INSERT
\* that does nothing on conflict writes no row, and neither does an UPDATE or
\* DELETE that finds none.
Writes(c, n, t) ==
  CASE Kind(c) = "append" -> {Job[c].rows[n]}
    [] Kind(c) = "complete" ->
         {r \in {Key(c)} : IF n = 1 THEN t[r] = Absent ELSE t[r] # Absent}
    [] Kind(c) = "erase" ->
         {r \in Contract!RowsOf(c) :
            t[r] # Absent /\ (t[r].status = "event" <=> n = 2)}
    [] OTHER -> {Key(c)}

\* The content it gives to a row.
Content(c, n, old) ==
  CASE Kind(c) = "append" -> Contract!RowOf(c, "event")
    [] Kind(c) = "complete" ->
         IF n = 1 THEN Contract!RowOf(c, "intent") ELSE [old EXCEPT !.status = "applied"]
    [] Kind(c) = "erase" -> Absent

Fails(c, n, t) == Kind(c) = "append" /\ t[Job[c].rows[n]] # Absent

Overlay(w) == [r \in Rows |-> IF r \in DOMAIN w THEN w[r] ELSE table[r]]
Visible(c) == IF engine = "pool" THEN Overlay(writes[c]) ELSE table

\* Another transaction has written the row and not ended.
Locked(c, r) == \E d \in Calls \ {c} : r \in DOMAIN writes[d]
Waits(c, n) ==
  \E r \in Contract!RowsOf(c) :
    /\ Locked(c, r)
    /\ IF Kind(c) = "append" THEN r = Job[c].rows[n]
       ELSE Kind(c) # "erase" \/ r \in Writes(c, n, Visible(c))

InTransaction(c) == stage[c] > 0 /\ answer[c] = "none"
Busy == \E c \in Calls : InTransaction(c)

\* BEGIN, on a connection of its own or when the queue of transactions allows.
Open(c) ==
  /\ engine \in {"pool", "single"}
  /\ Contract!Begun(c) /\ ~ Single(c) /\ stage[c] = 0
  /\ engine = "single" => ~ Busy
  /\ stage' = [stage EXCEPT ![c] = 1]
  /\ before' = IF engine = "single" THEN table ELSE before
  /\ UNCHANGED <<engine, table, answer, hist, writes>>

\* Where a written row goes: with Pool.query it would be another connection.
KeepAnywhere(c, rows, n) ==
  /\ table' = [r \in Rows |-> IF r \in rows THEN Content(c, n, table[r]) ELSE table[r]]
  /\ UNCHANGED writes
Keep(c, rows, n) ==
  IF engine = "pool"
  THEN /\ writes' = [writes EXCEPT ![c] =
            [r \in DOMAIN @ \cup rows |->
               IF r \in rows THEN Content(c, n, Visible(c)[r]) ELSE @[r]]]
       /\ UNCHANGED table
  ELSE KeepAnywhere(c, rows, n)

Statement(c) ==
  /\ InTransaction(c) /\ stage[c] <= Last(c)
  /\ ~ Waits(c, stage[c]) /\ ~ Fails(c, stage[c], Visible(c))
  /\ Keep(c, Writes(c, stage[c], Visible(c)), stage[c])
  /\ stage' = [stage EXCEPT ![c] = @ + 1]
  /\ UNCHANGED <<engine, answer, hist, before>>

Commit(c) ==
  /\ InTransaction(c) /\ stage[c] > Last(c)
  /\ IF engine = "pool" THEN Store(Overlay(writes[c])) ELSE UNCHANGED <<table, removals>>
  /\ \E a \in {"ok", "error"} : Answer(c, a)
  /\ writes' = [writes EXCEPT ![c] = NoWrites]
  /\ before' = Closed
  /\ UNCHANGED <<engine, seen, stage>>

\* A unique violation, or any other error: ROLLBACK.
Rollback(c) ==
  /\ InTransaction(c) /\ stage[c] <= Last(c) /\ ~ Waits(c, stage[c])
  /\ Answer(c, IF Fails(c, stage[c], Visible(c)) THEN "refused" ELSE "error")
  /\ writes' = [writes EXCEPT ![c] = NoWrites]
  /\ table' = IF engine = "single" THEN before ELSE table
  /\ before' = Closed
  /\ UNCHANGED <<engine, hist, stage>>

\* claimIntent and releaseIntent, outside any transaction of their own.
Alone(c) ==
  /\ engine \in {"pool", "single"}
  /\ Contract!Begun(c) /\ Single(c) /\ ~ Waits(c, 1)
  /\ LET done == IF Kind(c) = "claim" THEN BatchClaim(c) ELSE BatchRelease(c)
     IN Store(done[1]) /\ \E a \in {done[2], "error"} : Answer(c, a)
  /\ UNCHANGED <<engine, seen, stage, writes, before>>

Next == \E c \in Calls : \/ Begin(c) \/ Whole(c) \/ Open(c) \/ Statement(c)
                         \/ Commit(c) \/ Rollback(c) \/ Alone(c)

Spec == Init /\ [][Next]_vars

-----------------------------------------------------------------------------
\* Every variable has its type.
TypeOK ==
  /\ engine \in Engines
  /\ \A r \in Rows : table[r].by \in Calls \cup {"none"}
  /\ answer \in [Calls -> {"none", "ok", "refused", "error"}]
  /\ \A c \in Calls : stage[c] \in 0..(Last(c) + 1) /\ DOMAIN writes[c] \subseteq Rows

\* The calls of every engine are calls of the contract: atomic, and truthful
\* about what they did (the conformance suite of every adapter).
StoreKeepsContract == Contract!Spec
=============================================================================
