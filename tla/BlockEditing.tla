----------------------------- MODULE BlockEditing -----------------------------
(***************************************************************************)
(* Memory blocks: BlockEditor (packages/memory/src/blocks.ts) used by the  *)
(* sessions of one scope on one block, over the stores that keep it.       *)
(*                                                                         *)
(* A store runs upsertBlock and appendBlock in one of three ways:          *)
(*   "batch"  one indivisible write (libsql's batch; SQLite, Convex and    *)
(*            the in-memory store alike),                                  *)
(*   "mutex"  PostgresStore over a single connection: SELECT and INSERT    *)
(*            inside a transaction, one transaction at a time,             *)
(*   "pool"   PostgresStore over a pg.Pool: each transaction has its own   *)
(*            connection, under READ COMMITTED and without FOR UPDATE.     *)
(* A value is the sequence of the edits it is made of; the seeded value of *)
(* the block is empty.                                                     *)
(***************************************************************************)
EXTENDS Integers, Sequences, FiniteSets, Functions

CONSTANTS
  Sessions,
  Stores,      \* the kinds of store a behaviour may run on
  Limit,       \* BlockSpec.limit, in edits
  MaxEdits     \* bound on the edits attempted

VARIABLES
  store,       \* the kind of store of this behaviour
  block,       \* the committed row of blocks
  trail,       \* block_history: the value of each version, from 0
  gate,        \* who holds the single connection ("none")
  at, op,      \* what each session is doing
  known,       \* version each session was last shown
  base,        \* row each open transaction has selected
  edits,       \* history: edits attempted
  acked        \* history: edits reported as { ok: true }

vars == <<store, block, trail, gate, at, op, known, base, edits, acked>>

\* version -1: the row does not exist.
Absent == [version |-> -1, value |-> << >>]
NoOp == [kind |-> "seed", value |-> << >>, mark |-> 0, expect |-> -1]
Free == "none"

Init ==
  /\ store \in Stores
  /\ block = Absent
  /\ trail = << >>
  /\ gate = Free
  /\ at = [s \in Sessions |-> "idle"]
  /\ op = [s \in Sessions |-> NoOp]
  /\ known = [s \in Sessions |-> -1]
  /\ base = [s \in Sessions |-> Absent]
  /\ edits = 0
  /\ acked = {}

-----------------------------------------------------------------------------
(* BlockEditor. *)

Ask(s, o) ==
  /\ op' = [op EXCEPT ![s] = o]
  /\ at' = [at EXCEPT ![s] = "store"]

\* getAlwaysInContext shows the block to the model, and seeds a configured
\* block that it did not find, with no expected version.
Show(s) ==
  /\ at[s] = "idle"
  /\ IF block = Absent
     THEN Ask(s, NoOp) /\ UNCHANGED known
     ELSE known' = [known EXCEPT ![s] = block.version] /\ UNCHANGED <<op, at>>
  /\ UNCHANGED <<store, block, trail, gate, base, edits, acked>>

NewEdit == edits < MaxEdits /\ edits' = edits + 1

\* append: the limit is checked against a value read before the write.
Append1(s) ==
  /\ at[s] = "idle" /\ NewEdit
  /\ Len(block.value) + 1 <= Limit
  /\ Ask(s, [kind |-> "append", value |-> << >>, mark |-> edits + 1, expect |-> -1])
  /\ UNCHANGED <<store, block, trail, gate, known, base, acked>>

Cas(s, value) ==
  /\ Len(value) <= Limit
  /\ Ask(s, [kind |-> "cas", value |-> value, mark |-> edits + 1, expect |-> known[s]])
  /\ UNCHANGED <<store, block, trail, gate, known, base, acked>>

\* replace computes the new value from the block it reads now, and writes it
\* against the version the model was shown.
Replace(s) ==
  /\ at[s] = "idle" /\ known[s] >= 0 /\ NewEdit
  /\ \E i \in DOMAIN block.value : Cas(s, [block.value EXCEPT ![i] = edits + 1])

Rewrite(s) ==
  /\ at[s] = "idle" /\ known[s] >= 0 /\ NewEdit
  /\ Cas(s, <<edits + 1>>)

\* casWrite re-reads the block after a StoreConflictError.
Reread(s) ==
  /\ at[s] = "conflict"
  /\ known' = [known EXCEPT ![s] = block.version]
  /\ at' = [at EXCEPT ![s] = "idle"]
  /\ UNCHANGED <<store, block, trail, gate, op, base, edits, acked>>

-----------------------------------------------------------------------------
(* The stores. *)

Refused(o, row) == o.kind = "cas" /\ row.version # o.expect

NewRow(o, row) ==
  [version |-> row.version + 1,
   value |-> IF o.kind = "append" THEN Append(row.value, o.mark) ELSE o.value]

\* block_history: INSERT .. ON CONFLICT DO UPDATE on the version.
Record(row) ==
  trail' = IF row.version + 1 \in DOMAIN trail
           THEN [trail EXCEPT ![row.version + 1] = row.value]
           ELSE Append(trail, row.value)

Written(s, row) ==
  /\ block' = row
  /\ Record(row)
  /\ acked' = IF op[s].kind = "seed" THEN acked ELSE acked \cup {op[s].mark}
  /\ known' = [known EXCEPT ![s] = row.version]
  /\ at' = [at EXCEPT ![s] = "idle"]

\* The whole operation is one write of the database.
Batch(s) ==
  /\ store = "batch" /\ at[s] = "store"
  /\ IF Refused(op[s], block)
     THEN at' = [at EXCEPT ![s] = "conflict"] /\ UNCHANGED <<block, trail, acked, known>>
     ELSE Written(s, NewRow(op[s], block))
  /\ UNCHANGED <<store, gate, op, base, edits>>

\* The faulty variant does not wait for the open transaction.
EnterAnyway(s) == store # "batch" /\ gate' = s

\* withTransaction: a checked-out connection of its own, or the only one.
Enter(s) ==
  /\ store # "batch"
  /\ IF store = "mutex" THEN gate = Free /\ gate' = s ELSE UNCHANGED gate

Leave(s) == gate' = IF gate = s THEN Free ELSE gate

\* BEGIN and SELECT.
Select(s) ==
  /\ at[s] = "store" /\ Enter(s)
  /\ base' = [base EXCEPT ![s] = block]
  /\ at' = [at EXCEPT ![s] = IF Refused(op[s], block) THEN "rollback" ELSE "write"]
  /\ UNCHANGED <<store, block, trail, op, known, edits, acked>>

Rollback(s) ==
  /\ at[s] = "rollback" /\ Leave(s)
  /\ at' = [at EXCEPT ![s] = "conflict"]
  /\ UNCHANGED <<store, block, trail, op, known, base, edits, acked>>

\* writeBlock and COMMIT: the INSERT waits for the row lock of another
\* transaction, then overwrites the row with what was computed from base.
Write(s) ==
  /\ at[s] = "write" /\ Leave(s)
  /\ Written(s, NewRow(op[s], base[s]))
  /\ UNCHANGED <<store, op, base, edits>>

Next ==
  \E s \in Sessions :
    \/ Show(s) \/ Append1(s) \/ Replace(s) \/ Rewrite(s) \/ Reread(s)
    \/ Batch(s) \/ Select(s) \/ Rollback(s) \/ Write(s)

Spec == Init /\ [][Next]_vars

-----------------------------------------------------------------------------
Row == [version : Int, value : Seq(1..MaxEdits)]

\* Every variable has its type.
TypeOK ==
  /\ store \in Stores
  /\ block \in Row
  /\ trail \in Seq(Seq(1..MaxEdits))
  /\ gate \in Sessions \cup {Free}
  /\ at \in [Sessions -> {"idle", "store", "write", "rollback", "conflict"}]
  /\ op \in [Sessions -> [kind : {"seed", "append", "cas"}, value : Seq(1..MaxEdits),
                          mark : 0..MaxEdits, expect : Int]]
  /\ known \in [Sessions -> Int]
  /\ base \in [Sessions -> Row]
  /\ edits \in 0..MaxEdits
  /\ acked \subseteq 1..MaxEdits

\* Concurrent edits are not lost: whatever was reported to the model as done
\* is part of some version of the block.
EveryEditLands == \A m \in acked : \E v \in DOMAIN trail : m \in Range(trail[v])
=============================================================================
