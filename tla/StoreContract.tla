----------------------------- MODULE StoreContract -----------------------------
(***************************************************************************)
(* What a durable store promises of its calls, as the in-memory store of   *)
(* packages/types/src/testing.ts performs them: each acts at one moment    *)
(* between its beginning and its return, entirely or not at all, and       *)
(* returns what it did.  A call that throws may have acted.                *)
(*                                                                         *)
(* A row of the table is an event of a session (session_id, seq) or an     *)
(* idempotency key of it.  The call that inserted a row owns it.           *)
(***************************************************************************)
EXTENDS Naturals, FiniteSets

CONSTANTS
  Rows,
  Calls,
  Job,     \* [Calls -> [kind, rows, args]]
  MaxCalls \* bound: calls that are made

VARIABLES
  table,     \* row -> its content
  answer,    \* what each call returned
  seen,      \* history: what each call found when it began
  removals   \* history: removals of rows so far

vars == <<table, answer, seen, removals>>

Absent == [by |-> "none", status |-> "none", args |-> "none"]
RowOf(c, status) == [by |-> c, status |-> status, args |-> Job[c].args]
Kind(c) == Job[c].kind
Key(c) == Job[c].rows[1]
RowsOf(c) == {Job[c].rows[i] : i \in DOMAIN Job[c].rows}

Put(t, rs, row) == [r \in Rows |-> IF r \in rs THEN row ELSE t[r]]
Remove(t, rs) == Put(t, rs, Absent)
Present(t, rs) == {r \in rs : t[r] # Absent}

Unseen == [rows |-> {}, removals |-> 0]

Init ==
  /\ table = [r \in Rows |-> Absent]
  /\ answer = [c \in Calls |-> "none"]
  /\ seen = [c \in Calls |-> Unseen]
  /\ removals = 0

\* History of a call that begins: the rows there are, with their owners.
Seeing(c) ==
  seen' = [seen EXCEPT ![c] =
    [rows |-> {<<r, table[r].by>> : r \in Present(table, Rows)},
     removals |-> removals + 1]]

Begun(c) == seen[c] # Unseen /\ answer[c] = "none"

Begin(c) ==
  /\ seen[c] = Unseen /\ Seeing(c)
  /\ Cardinality({d \in Calls : seen[d] # Unseen}) < MaxCalls
  /\ UNCHANGED <<table, answer, removals>>

-----------------------------------------------------------------------------
\* What a call may make of the table, and what it then returns.
Append(c) ==
  IF Present(table, RowsOf(c)) = {}
  THEN {<<Put(table, RowsOf(c), RowOf(c, "event")), "ok">>}
  ELSE {<<table, "refused">>}

Claim(c) ==
  IF table[Key(c)] = Absent
  THEN {<<Put(table, {Key(c)}, RowOf(c, "intent")), "ok">>}
  ELSE {<<table, "refused">>}

Release(c) ==
  IF table[Key(c)].status = "intent" /\ table[Key(c)].args = Job[c].args
  THEN {<<Remove(table, {Key(c)}), "ok">>}
  ELSE {<<table, "refused">>}

\* A completion that found its row may lose it to a removal before its update.
Complete(c) ==
  {<<[table EXCEPT ![Key(c)] = IF @ = Absent THEN RowOf(c, "applied")
                               ELSE [@ EXCEPT !.status = "applied"]], "ok">>}
  \cup (IF removals >= seen[c].removals THEN {<<table, "ok">>} ELSE {})

\* All that was there when the erasure began goes; what came since may.
Erase(c) ==
  LET due == {r \in Rows : <<r, table[r].by>> \in seen[c].rows}
  IN {<<Remove(table, due \cup more), "ok">> : more \in SUBSET Rows}

Outcomes(c) ==
  CASE Kind(c) = "append" -> Append(c)
    [] Kind(c) = "claim" -> Claim(c)
    [] Kind(c) = "release" -> Release(c)
    [] Kind(c) = "complete" -> Complete(c)
    [] Kind(c) = "erase" -> Erase(c)

Removes(new) == \E r \in Rows : table[r] # Absent /\ new[r] = Absent

Act(c) ==
  /\ Begun(c)
  /\ \E o \in Outcomes(c), thrown \in BOOLEAN :
       /\ table' = o[1]
       /\ answer' = [answer EXCEPT ![c] = IF thrown THEN "error" ELSE o[2]]
       /\ removals' = IF Removes(o[1]) THEN removals + 1 ELSE removals
  /\ UNCHANGED seen

Throw(c) ==
  /\ Begun(c)
  /\ answer' = [answer EXCEPT ![c] = "error"]
  /\ UNCHANGED <<table, seen, removals>>

Next == \E c \in Calls : Begin(c) \/ Act(c) \/ Throw(c)

Spec == Init /\ [][Next]_vars
=============================================================================
