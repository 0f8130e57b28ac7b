------------------------------ MODULE MCStorage ------------------------------
(***************************************************************************)
(* Data that several processes write: the memory blocks, the facts, the    *)
(* file behind a lock file and the rows of a run are four systems that     *)
(* share nothing, and a behaviour is one of them at work (scene).          *)
(***************************************************************************)
EXTENDS Integers, Sequences, TLC, TLAPS

CONSTANTS
  Scenes,
  Sessions, Stores, Limit, MaxEdits,
  Writers, Objects, NoObject, MaxTime, MaxFacts, MaxAttempts,
  Procs, Inodes, MaxSaves, MaxCrashes, Undisturbed,
  Engines, Rows, Calls, Job, MaxCalls

VARIABLES
  scene,
  store, block, trail, gate, at, op, known, base, edits, acked,
  facts, clock, lock, step, goal, snap, attempt,
  lockfile, doc, pc, mine, inode, draft, saved, saves, crashes,
  engine, table, answer, seen, removals, stage, writes, before

\* The calls, and the rows each writes: events e1 and e2, idempotency key k.
Call(kind, rows, args) == [kind |-> kind, rows |-> rows, args |-> args]
SevenCalls ==
  "appendBoth" :> Call("append", <<"e1", "e2">>, "none") @@
  "appendLast" :> Call("append", <<"e2">>, "none") @@
  "claimX" :> Call("claim", <<"k">>, "x") @@
  "claimY" :> Call("claim", <<"k">>, "y") @@
  "complete" :> Call("complete", <<"k">>, "none") @@
  "releaseX" :> Call("release", <<"k">>, "x") @@
  "erase" :> Call("erase", <<"k", "e1", "e2">>, "none")

Blocks == INSTANCE BlockEditing
Facts == INSTANCE FactWrites WITH at <- step
Files == INSTANCE LockFile
Durable == INSTANCE StoreCalls

\* Connections and objects are interchangeable.
Interchangeable ==
  UNION {Permutations(S) : S \in {Writers, Objects}}

bvars == <<store, block, trail, gate, at, op, known, base, edits, acked>>
fvars == <<facts, clock, lock, step, goal, snap, attempt>>
lvars == <<lockfile, doc, pc, mine, inode, draft, saved, saves, crashes>>
dvars == <<engine, table, answer, seen, removals, stage, writes, before>>

Init ==
  /\ scene \in Scenes
  /\ Blocks!Init /\ Facts!Init /\ Files!Init /\ Durable!Init
  /\ scene # "blocks" => store = CHOOSE s \in Stores : TRUE
  /\ scene # "calls" => engine = CHOOSE e \in Engines : TRUE

OnBlocks ==
  scene = "blocks" /\ Blocks!Next /\ UNCHANGED <<scene, fvars, lvars, dvars>>
OnFacts ==
  scene = "facts" /\ Facts!Next /\ UNCHANGED <<scene, bvars, lvars, dvars>>
OnFiles ==
  scene = "files" /\ Files!Next /\ UNCHANGED <<scene, bvars, fvars, dvars>>
OnCalls ==
  scene = "calls" /\ Durable!Next /\ UNCHANGED <<scene, bvars, fvars, lvars>>

Next == OnBlocks \/ OnFacts \/ OnFiles \/ OnCalls

Spec == Init /\ [][Next]_<<scene, bvars, fvars, lvars, dvars>>

-----------------------------------------------------------------------------
\* Every variable of the system at work has its type.
TypeOK ==
  /\ scene = "blocks" => Blocks!TypeOK
  /\ scene = "facts" => Facts!TypeOK
  /\ scene = "files" => Files!TypeOK
  /\ scene = "calls" => Durable!TypeOK

\* Concurrent edits of a block are not lost.
EveryEditLands == scene = "blocks" => Blocks!EveryEditLands

\* The facts written by several connections are one history of the contract.
FactsKeepContract == Facts!FactsKeepContract

\* A rewrite of a file stays in it, whoever crashed or cleared a stale lock.
SavesStay == scene = "files" => Files!SavesStay

\* The calls on events and idempotency keys act at one moment, whole or not at
\* all, and return what they did, on every database.
StoreKeepsContract == Durable!StoreKeepsContract

-----------------------------------------------------------------------------
(***************************************************************************)
(* What holds of the blocks and of the file for any number of sessions,    *)
(* processes and edits.  An edit is a row of which the version counts the  *)
(* edits before it, so that a write whose base is no longer the row is     *)
(* refused (BInv).  The file has one owner: a waiter removes a lock only   *)
(* after a look at which nobody owned it (FilesInv).                       *)
(***************************************************************************)

\* The row has one version per edit of its trail.
BlocksOK ==
  /\ store \in {"batch", "mutex"}
  /\ block \in Blocks!Row /\ base \in [Sessions -> Blocks!Row]
  /\ trail \in Seq(Seq(1..MaxEdits)) /\ Len(trail) = block.version + 1
  /\ at \in [Sessions -> {"idle", "store", "write", "rollback", "conflict"}]
  /\ op \in [Sessions -> [kind : {"seed", "append", "cas"}, value : Seq(1..MaxEdits),
                          mark : 0..MaxEdits, expect : Int]]
  /\ edits \in 0..MaxEdits

\* What a session is about to write holds its edit, and who writes in a transaction
\* has the row as it is.
BInv ==
  /\ BlocksOK
  /\ Blocks!EveryEditLands
  /\ \A s \in Sessions : at[s] \in {"store", "write"} =>
       /\ op[s].kind # "seed" => op[s].mark \in 1..MaxEdits
       /\ op[s].kind = "cas" => op[s].mark \in Blocks!Range(op[s].value)
  /\ \A s \in Sessions : at[s] = "write" => store # "batch" /\ gate = s /\ base[s] = block

\* Stores that edit a block in one write or in one transaction at a time.
BlockConstants ==
  /\ Stores \subseteq {"batch", "mutex"}
  /\ MaxEdits \in Nat /\ Limit \in Nat
  /\ "none" \notin Sessions

LEMMA AppendRange ==
  ASSUME NEW S, NEW q \in Seq(S), NEW x \in S
  PROVE  /\ Append(q, x) \in Seq(S)
         /\ \A i \in DOMAIN q : i \in DOMAIN Append(q, x) /\ Append(q, x)[i] = q[i]
         /\ Len(q) + 1 \in DOMAIN Append(q, x) /\ Append(q, x)[Len(q) + 1] = x
         /\ Len(Append(q, x)) = Len(q) + 1
         /\ Len(q) + 1 \notin DOMAIN q
  OBVIOUS

LEMMA WrittenKeeps ==
  ASSUME BInv, MaxEdits \in Nat, NEW s \in Sessions, at[s] \in {"store", "write"},
         Blocks!Written(s, Blocks!NewRow(op[s], block)), UNCHANGED <<store, op, base, edits>>,
         at[s] = "store" => store = "batch" 
  PROVE  BlocksOK' /\ Blocks!EveryEditLands'
<1> DEFINE row == Blocks!NewRow(op[s], block)
           o == op[s]
<1>1. /\ block.version \in Int /\ block.value \in Seq(1..MaxEdits)
      /\ o.value \in Seq(1..MaxEdits) /\ o.kind \in {"seed", "append", "cas"}
      /\ o.mark \in 0..MaxEdits /\ Len(trail) = block.version + 1
      /\ trail \in Seq(Seq(1..MaxEdits))
  BY DEF BInv, BlocksOK, Blocks!Row
<1>2. o.kind = "append" => Append(block.value, o.mark) \in Seq(1..MaxEdits)
  BY <1>1 DEF BInv
<1>3. /\ row.version = block.version + 1
      /\ row.value = IF o.kind = "append" THEN Append(block.value, o.mark) ELSE o.value
  BY DEF Blocks!NewRow
<1>4. ASSUME row.value \in Seq(1..MaxEdits) PROVE row \in Blocks!Row
  <2> DEFINE v == row.version
             x == row.value
  <2>1. row = [version |-> v, value |-> x]
    BY DEF Blocks!NewRow
  <2>2. v \in Int /\ x \in Seq(1..MaxEdits)
    BY <1>1, <1>3, <1>4
  <2> HIDE DEF v, x
  <2> QED
    BY <2>1, <2>2 DEF Blocks!Row
<1> HIDE DEF row
<1>5. row \in Blocks!Row /\ (o.kind # "seed" => o.mark \in Blocks!Range(row.value))
  <2>1. CASE o.kind = "append"
    <3>1. row.value \in Seq(1..MaxEdits)
      BY <1>1, <1>2, <1>3, <2>1
    <3>2. o.mark \in 1..MaxEdits
      BY <2>1 DEF BInv
    <3>3. Len(block.value) + 1 \in DOMAIN row.value /\ row.value[Len(block.value) + 1] = o.mark
      BY <1>1, <1>3, <2>1, <3>2, AppendRange
    <3> QED
      BY <1>4, <3>1, <3>3 DEF Blocks!Range
  <2>2. CASE o.kind # "append"
    <3>1. row.value = o.value /\ row.value \in Seq(1..MaxEdits)
      BY <1>1, <1>3, <2>2
    <3>2. o.kind # "seed" => o.mark \in Blocks!Range(row.value)
      BY <1>1, <2>2, <3>1 DEF BInv
    <3> QED
      BY <1>4, <3>1, <3>2
  <2> QED
    BY <2>1, <2>2
<1>6. row.value \in Seq(1..MaxEdits) /\ Len(trail) = row.version
  BY <1>1, <1>3, <1>5 DEF Blocks!Row
<1>7. trail' = Append(trail, row.value)
  BY <1>6, <1>1, AppendRange DEF Blocks!Written, Blocks!Record, row
<1>8. /\ trail' \in Seq(Seq(1..MaxEdits)) /\ Len(trail') = Len(trail) + 1
      /\ \A i \in DOMAIN trail : i \in DOMAIN trail' /\ trail'[i] = trail[i]
      /\ Len(trail) + 1 \in DOMAIN trail' /\ trail'[Len(trail) + 1] = row.value
  BY <1>1, <1>6, <1>7, AppendRange
<1>9. /\ block' = row /\ at' = [at EXCEPT ![s] = "idle"]
      /\ acked' = IF o.kind = "seed" THEN acked ELSE acked \cup {o.mark}
  BY DEF Blocks!Written, row
<1>10. BlocksOK'
  BY <1>1, <1>3, <1>5, <1>6, <1>8, <1>9 DEF BInv, BlocksOK
<1>11. Blocks!EveryEditLands'
  BY <1>5, <1>8, <1>9 DEF BInv, Blocks!EveryEditLands
<1> QED
  BY <1>10, <1>11

\* An edit that was asked for is one that the model counts, and holds its mark.
LEMMA AskKeeps ==
  ASSUME BInv, MaxEdits \in Nat, NEW s \in Sessions, NEW o, at[s] = "idle",
         o \in [kind : {"seed", "append", "cas"}, value : Seq(1..MaxEdits),
                mark : 0..MaxEdits, expect : Int],
         o.kind # "seed" => o.mark \in 1..MaxEdits,
         o.kind = "cas" => o.mark \in Blocks!Range(o.value),
         Blocks!Ask(s, o), UNCHANGED <<store, block, trail, gate, base, acked>>,
         edits' \in 0..MaxEdits
  PROVE  BInv'
<1>1. /\ op' = [op EXCEPT ![s] = o] /\ at' = [at EXCEPT ![s] = "store"]
      /\ UNCHANGED <<store, block, trail, gate, base, acked>>
  BY DEF Blocks!Ask
<1>2. BlocksOK'
  BY <1>1 DEF BInv, BlocksOK
<1>3. Blocks!EveryEditLands'
  BY <1>1 DEF BInv, Blocks!EveryEditLands
<1> QED
  BY <1>1, <1>2, <1>3 DEF BInv, BlocksOK

LEMMA CasKeeps ==
  ASSUME BInv, MaxEdits \in Nat, NEW s \in Sessions, NEW value \in Seq(1..MaxEdits),
         at[s] = "idle", known \in [Sessions -> Int],
         edits < MaxEdits, edits' = edits + 1, edits + 1 \in Blocks!Range(value),
         Blocks!Cas(s, value)
  PROVE  BInv'
<1> DEFINE o == [kind |-> "cas", value |-> value, mark |-> edits + 1, expect |-> known[s]]
<1>1. edits \in Nat /\ known[s] \in Int
  BY DEF BInv, BlocksOK
<1>2. /\ Blocks!Ask(s, o) /\ UNCHANGED <<store, block, trail, gate, base, acked>>
      /\ edits' \in 0..MaxEdits /\ edits + 1 \in 1..MaxEdits
  BY <1>1 DEF Blocks!Cas
<1>3. /\ o \in [kind : {"seed", "append", "cas"}, value : Seq(1..MaxEdits),
                mark : 0..MaxEdits, expect : Int]
      /\ o.kind = "cas" /\ o.mark = edits + 1 /\ o.value = value
  BY <1>1, <1>2
<1> HIDE DEF o
<1> QED
  BY <1>2, <1>3, AskKeeps

LEMMA KnownStays ==
  ASSUME BInv, known \in [Sessions -> Int], NEW s \in Sessions,
         Blocks!Written(s, Blocks!NewRow(op[s], block))
  PROVE  known' \in [Sessions -> Int]
<1>1. Blocks!NewRow(op[s], block).version = block.version + 1
  BY DEF Blocks!NewRow
<1> QED
  BY <1>1 DEF Blocks!Written, BInv, BlocksOK, Blocks!Row

LEMMA BlocksStep ==
  ASSUME BInv, known \in [Sessions -> Int], BlockConstants, Blocks!Next
  PROVE  BInv' /\ known' \in [Sessions -> Int]
<1>0. MaxEdits \in Nat /\ edits \in 0..MaxEdits /\ block \in Blocks!Row /\ store \in {"batch", "mutex"}
  BY DEF BInv, BlocksOK, BlockConstants
<1>1. PICK s \in Sessions :
        \/ Blocks!Show(s) \/ Blocks!Append1(s) \/ Blocks!Replace(s) \/ Blocks!Rewrite(s)
        \/ Blocks!Reread(s) \/ Blocks!Batch(s) \/ Blocks!Select(s) \/ Blocks!Rollback(s)
        \/ Blocks!Write(s)
  BY DEF Blocks!Next
<1>2. CASE Blocks!Show(s)
  <2>1. CASE Blocks!Ask(s, Blocks!NoOp) /\ UNCHANGED known
    <3>1. /\ Blocks!NoOp \in [kind : {"seed", "append", "cas"}, value : Seq(1..MaxEdits),
                mark : 0..MaxEdits, expect : Int]
          /\ Blocks!NoOp.kind = "seed"
      BY <1>0 DEF Blocks!NoOp
    <3> QED
      BY <1>0, <1>2, <2>1, <3>1, AskKeeps DEF Blocks!Show
  <2>2. CASE known' = [known EXCEPT ![s] = block.version] /\ UNCHANGED <<op, at>>
    <3>1. UNCHANGED <<store, block, trail, gate, at, op, base, edits, acked>>
      BY <1>2, <2>2 DEF Blocks!Show
    <3>2. BInv'
      BY <3>1 DEF BInv, BlocksOK, Blocks!EveryEditLands
    <3> QED
      BY <1>0, <2>2, <3>2 DEF Blocks!Row
  <2> QED
    BY <1>2, <2>1, <2>2 DEF Blocks!Show
<1>3. CASE Blocks!Append1(s)
  <2> DEFINE o == [kind |-> "append", value |-> << >>, mark |-> edits + 1, expect |-> -1]
  <2>1. /\ at[s] = "idle" /\ Blocks!Ask(s, o) /\ UNCHANGED <<store, block, trail, gate, known, base, acked>>
        /\ edits' \in 0..MaxEdits /\ edits + 1 \in 1..MaxEdits
    BY <1>0, <1>3 DEF Blocks!Append1, Blocks!NewEdit
  <2>2. /\ o \in [kind : {"seed", "append", "cas"}, value : Seq(1..MaxEdits),
                mark : 0..MaxEdits, expect : Int]
        /\ o.kind = "append" /\ o.mark = edits + 1
    BY <2>1
  <2> HIDE DEF o
  <2> QED
    BY <1>0, <2>1, <2>2, AskKeeps
<1>4. CASE Blocks!Replace(s)
  <2>1. PICK i \in DOMAIN block.value : Blocks!Cas(s, [block.value EXCEPT ![i] = edits + 1])
    BY <1>4 DEF Blocks!Replace
  <2> DEFINE value == [block.value EXCEPT ![i] = edits + 1]
  <2>2. block.value \in Seq(1..MaxEdits) /\ edits + 1 \in 1..MaxEdits /\ edits < MaxEdits
        /\ edits' = edits + 1 /\ at[s] = "idle"
    BY <1>0, <1>4 DEF Blocks!Replace, Blocks!NewEdit, Blocks!Row
  <2>3. value \in Seq(1..MaxEdits) /\ i \in DOMAIN value /\ value[i] = edits + 1
    BY <2>2
  <2> HIDE DEF value
  <2>4. edits + 1 \in Blocks!Range(value)
    BY <2>3 DEF Blocks!Range
  <2>5. Blocks!Cas(s, value) /\ UNCHANGED known
    BY <2>1 DEF value, Blocks!Cas
  <2> QED
    BY <1>0, <2>2, <2>3, <2>4, <2>5, CasKeeps
<1>5. CASE Blocks!Rewrite(s)
  <2> DEFINE value == <<edits + 1>>
  <2>1. Blocks!Cas(s, value) /\ UNCHANGED known /\ edits + 1 \in 1..MaxEdits /\ edits < MaxEdits
        /\ edits' = edits + 1 /\ at[s] = "idle"
    BY <1>0, <1>5 DEF Blocks!Rewrite, Blocks!NewEdit, Blocks!Cas
  <2>2. value \in Seq(1..MaxEdits) /\ 1 \in DOMAIN value /\ value[1] = edits + 1
    BY <2>1
  <2> HIDE DEF value
  <2>3. edits + 1 \in Blocks!Range(value)
    BY <2>2 DEF Blocks!Range
  <2> QED
    BY <1>0, <2>1, <2>2, <2>3, CasKeeps
<1>6. CASE Blocks!Reread(s)
  <2>1. UNCHANGED <<store, block, trail, gate, op, base, edits, acked>>
        /\ known' = [known EXCEPT ![s] = block.version] /\ at' = [at EXCEPT ![s] = "idle"]
    BY <1>6 DEF Blocks!Reread
  <2>2. BInv'
    BY <2>1 DEF BInv, BlocksOK, Blocks!EveryEditLands
  <2> QED
    BY <1>0, <2>1, <2>2 DEF Blocks!Row
<1>7. CASE Blocks!Batch(s)
  <2>1. store = "batch" /\ at[s] = "store" /\ UNCHANGED <<store, gate, op, base, edits>>
    BY <1>7 DEF Blocks!Batch
  <2>2. CASE at' = [at EXCEPT ![s] = "conflict"] /\ UNCHANGED <<block, trail, acked, known>>
    BY <2>1, <2>2 DEF BInv, BlocksOK, Blocks!EveryEditLands
  <2>3. CASE Blocks!Written(s, Blocks!NewRow(op[s], block))
    <3>1. BlocksOK' /\ Blocks!EveryEditLands' /\ at' = [at EXCEPT ![s] = "idle"]
      BY <1>0, <2>1, <2>3, WrittenKeeps DEF Blocks!Written
    <3>2. known' \in [Sessions -> Int]
      BY <2>3, KnownStays
    <3>3. \A u \in Sessions : at[u] # "write"
      BY <2>1 DEF BInv
    <3> QED
      BY <2>1, <3>1, <3>2, <3>3 DEF BInv, BlocksOK
  <2> QED
    BY <1>7, <2>2, <2>3 DEF Blocks!Batch
<1>8. CASE Blocks!Select(s)
  <2>1. /\ at[s] = "store" /\ store = "mutex" /\ gate = "none" /\ gate' = s
        /\ base' = [base EXCEPT ![s] = block]
        /\ at' = [at EXCEPT ![s] = IF Blocks!Refused(op[s], block) THEN "rollback" ELSE "write"]
        /\ UNCHANGED <<store, block, trail, op, known, edits, acked>>
    BY <1>0, <1>8 DEF Blocks!Select, Blocks!Enter, Blocks!Free
  <2>2. BlocksOK' /\ Blocks!EveryEditLands'
    BY <1>0, <2>1 DEF BInv, BlocksOK, Blocks!EveryEditLands
  <2>3. \A u \in Sessions : at[u] # "write"
    BY <2>1 DEF BInv, BlockConstants
  <2> QED
    BY <2>1, <2>2, <2>3 DEF BInv, BlocksOK
<1>9. CASE Blocks!Rollback(s)
  <2>1. /\ at[s] = "rollback" /\ gate' = IF gate = s THEN "none" ELSE gate
        /\ at' = [at EXCEPT ![s] = "conflict"]
        /\ UNCHANGED <<store, block, trail, op, known, base, edits, acked>>
    BY <1>9 DEF Blocks!Rollback, Blocks!Leave, Blocks!Free
  <2>2. BlocksOK' /\ Blocks!EveryEditLands'
    BY <2>1 DEF BInv, BlocksOK, Blocks!EveryEditLands
  <2> QED
    BY <2>1, <2>2 DEF BInv, BlocksOK
<1>10. CASE Blocks!Write(s)
  <2>1. /\ at[s] = "write" /\ gate' = IF gate = s THEN "none" ELSE gate
        /\ Blocks!Written(s, Blocks!NewRow(op[s], block))
        /\ UNCHANGED <<store, op, base, edits>>
    BY <1>10 DEF Blocks!Write, Blocks!Leave, Blocks!Free, BInv
  <2>2. BlocksOK' /\ Blocks!EveryEditLands' /\ at' = [at EXCEPT ![s] = "idle"]
    BY <1>0, <2>1, WrittenKeeps DEF Blocks!Written
  <2>3. known' \in [Sessions -> Int]
    BY <2>1, KnownStays
  <2>4. \A u \in Sessions : at[u] = "write" => u = s
    BY <2>1 DEF BInv
  <2> QED
    BY <2>1, <2>2, <2>3, <2>4 DEF BInv, BlocksOK
<1> QED
  BY <1>1, <1>2, <1>3, <1>4, <1>5, <1>6, <1>7, <1>8, <1>9, <1>10

-----------------------------------------------------------------------------
\* The stages in which a process has the lock at the path, from its creation to
\* its removal, and those in which it knows who it is.
Owning == {"created", "holding", "loaded", "releasing", "mine", "unlinking"}
Owner(p) == pc[p] \in Owning

LockTypes ==
  /\ Files!TypeOK
  /\ lockfile.ino = 0 <=> lockfile = Files!NoFile
  /\ \A p \in Procs : pc[p] # "idle" => mine[p] # 0

\* The one who owns the lock is alone, its lock names it or nobody, and is young
\* while it names nobody.
OneOwner ==
  /\ \A p, q \in Procs : Owner(p) /\ Owner(q) => p = q
  /\ \A p \in Procs : Owner(p) =>
       /\ lockfile.ino = inode[p] /\ inode[p] # 0
       /\ pc[p] = "created" => lockfile.owner = "unnamed"
       /\ pc[p] \in {"holding", "loaded", "releasing"} => lockfile.owner = p
       /\ lockfile.owner \in {p, "unnamed"}
       /\ lockfile.owner = "unnamed" => ~ lockfile.old

\* A waiter that remembers the lock at the path has found it old, and then
\* without an owner.
Waiters ==
  \A p \in Procs :
    /\ pc[p] \in {"inspecting", "stale", "reaping"} => inode[p] # 0
    /\ pc[p] = "inspecting" /\ lockfile.ino = inode[p] => lockfile.old
    /\ pc[p] = "stale" /\ lockfile.ino = inode[p] => \A q \in Procs : ~ Owner(q)
    /\ pc[p] = "reaping" => \A q \in Procs : ~ Owner(q)

\* What is going to be written is the file and the change to it.
Drafts ==
  /\ saved = doc
  /\ \A p \in Procs : pc[p] = "loaded" => draft[p] = doc \cup {mine[p]}

FilesInv == LockTypes /\ OneOwner /\ Waiters /\ Drafts

\* Waiters are not overtaken between their last look at a stale lock and its removal.
FileConstants ==
  /\ Undisturbed
  /\ 0 \notin Inodes
  /\ Procs \cap {"none", "unnamed", "dead"} = {}
  /\ MaxSaves \in Nat /\ MaxCrashes \in Nat

\* The lock file, and what happens to it when it is written and when its owner dies.
Lock == [ino : Inodes \cup {0}, owner : Procs \cup {"none", "unnamed", "dead"},
         old : BOOLEAN]
Named(l, p) == [l EXCEPT !.owner = p, !.old = FALSE]
Orphaned(l) == [l EXCEPT !.owner = "dead"]
LEMMA Locks ==
  ASSUME NEW l \in Lock, NEW p \in Procs
  PROVE  /\ Named(l, p) \in Lock /\ Named(l, p).ino = l.ino
         /\ Orphaned(l) \in Lock /\ Orphaned(l).ino = l.ino /\ Orphaned(l).owner = "dead"
  BY DEF Lock, Named, Orphaned

LEMMA FilesStep == ASSUME FilesInv, FileConstants, Files!Next PROVE FilesInv'
<1> USE DEF FileConstants, FilesInv
<1>1. ASSUME NEW p \in Procs, Files!Unlink(p) PROVE FilesInv'
  <2>1. /\ lockfile' = Files!NoFile /\ pc[p] \in {"reaping", "unlinking"}
        /\ \/ Files!Goto(p, "wanting") \/ Files!Return(p)
        /\ UNCHANGED <<doc, saved, saves, crashes>>
    BY <1>1 DEF Files!Unlink
  <2>2. \A q \in Procs : q # p => ~ Owner(q)
    BY <2>1 DEF OneOwner, Waiters, Owner, Owning
  <2>3. LockTypes'
    BY <2>1 DEF LockTypes, Files!TypeOK, Files!NoFile, Files!Goto, Files!Return
  <2>4. \A q \in Procs : pc'[q] = IF q = p THEN pc'[p] ELSE pc[q]
    BY <2>1 DEF LockTypes, Files!TypeOK, Files!Goto, Files!Return
  <2>5. pc'[p] \in {"wanting", "idle"} /\ \A q \in Procs \ {p} : inode'[q] = inode[q] /\ draft'[q] = draft[q] /\ mine'[q] = mine[q]
    BY <2>1 DEF LockTypes, Files!TypeOK, Files!Goto, Files!Return
  <2>6. \A q \in Procs : ~ Owner(q)'
    BY <2>2, <2>4, <2>5 DEF Owner, Owning
  <2>7. lockfile'.ino = 0
    BY <2>1 DEF Files!NoFile
  <2> QED
    BY <2>1, <2>3, <2>4, <2>5, <2>6, <2>7 DEF OneOwner, Waiters, Drafts, Owner, Owning
<1>2. ASSUME NEW p \in Procs, Files!Save(p), \A q \in Procs : pc[q] # "reaping" PROVE FilesInv'
  <2>0. Files!Save(p)
    BY <1>2
  <2>1. LockTypes'
    BY <2>0 DEF Files!Save, LockTypes, Files!TypeOK, Files!NoFile, Files!Goto, Files!Return, Files!FreeInodes, Files!DeclaredDead, Files!Owns
  <2>2. OneOwner'
    BY <1>2 DEF Files!Save, LockTypes, Files!TypeOK, OneOwner, Waiters, Owner, Owning, Files!NoFile, Files!Goto, Files!Return, Files!FreeInodes, Files!DeclaredDead, Files!Dead, Files!Unnamed, Files!Owns
  <2>3. Waiters'
    BY <1>2 DEF Files!Save, LockTypes, Files!TypeOK, OneOwner, Waiters, Owner, Owning, Files!NoFile, Files!Goto, Files!Return, Files!FreeInodes, Files!DeclaredDead, Files!Dead, Files!Unnamed, Files!Owns
  <2>4. Drafts'
    BY <1>2 DEF Files!Save, LockTypes, Files!TypeOK, OneOwner, Drafts, Owner, Owning, Files!Goto, Files!Return
  <2> QED
    BY <2>1, <2>2, <2>3, <2>4
<1>3. ASSUME NEW p \in Procs, Files!Create(p), \A q \in Procs : pc[q] # "reaping" PROVE FilesInv'
  <2>0. Files!Create(p)
    BY <1>3
  <2>1. LockTypes'
    BY <2>0 DEF Files!Create, LockTypes, Files!TypeOK, Files!NoFile, Files!Goto, Files!Return, Files!FreeInodes, Files!DeclaredDead, Files!Owns
  <2>2. OneOwner'
    BY <1>3 DEF Files!Create, LockTypes, Files!TypeOK, OneOwner, Waiters, Owner, Owning, Files!NoFile, Files!Goto, Files!Return, Files!FreeInodes, Files!DeclaredDead, Files!Dead, Files!Unnamed, Files!Owns
  <2>3. Waiters'
    BY <1>3 DEF Files!Create, LockTypes, Files!TypeOK, OneOwner, Waiters, Owner, Owning, Files!NoFile, Files!Goto, Files!Return, Files!FreeInodes, Files!DeclaredDead, Files!Dead, Files!Unnamed, Files!Owns
  <2>4. Drafts'
    BY <1>3 DEF Files!Create, LockTypes, Files!TypeOK, OneOwner, Drafts, Owner, Owning, Files!Goto, Files!Return
  <2> QED
    BY <2>1, <2>2, <2>3, <2>4
<1>4. ASSUME NEW p \in Procs, Files!Name(p), \A q \in Procs : pc[q] # "reaping" PROVE FilesInv'
  <2>0. Files!Name(p)
    BY <1>4
  <2>a. /\ lockfile \in Lock /\ lockfile' = Named(lockfile, p) /\ pc[p] = "created"
        /\ lockfile.ino # 0 /\ UNCHANGED <<doc, saved, saves, crashes>> /\ Files!Goto(p, "holding")
    BY <2>0 DEF Files!Name, LockTypes, Files!TypeOK, Lock, OneOwner, Owner, Owning, Files!Unnamed, Files!Dead, Named
  <2>b. lockfile' \in Lock /\ lockfile'.ino # 0
    BY <2>a, Locks
  <2>1. LockTypes'
    BY <2>a, <2>b DEF LockTypes, Files!TypeOK, Files!NoFile, Files!Goto, Lock, Files!Unnamed, Files!Dead
  <2>2. OneOwner'
    BY <1>4 DEF Files!Name, LockTypes, Files!TypeOK, OneOwner, Waiters, Owner, Owning, Files!NoFile, Files!Goto, Files!Return, Files!FreeInodes, Files!DeclaredDead, Files!Dead, Files!Unnamed, Files!Owns
  <2>3. Waiters'
    BY <1>4 DEF Files!Name, LockTypes, Files!TypeOK, OneOwner, Waiters, Owner, Owning, Files!NoFile, Files!Goto, Files!Return, Files!FreeInodes, Files!DeclaredDead, Files!Dead, Files!Unnamed, Files!Owns
  <2>4. Drafts'
    BY <1>4 DEF Files!Name, LockTypes, Files!TypeOK, OneOwner, Drafts, Owner, Owning, Files!Goto, Files!Return
  <2> QED
    BY <2>1, <2>2, <2>3, <2>4
<1>5. ASSUME NEW p \in Procs, Files!NameFails(p), \A q \in Procs : pc[q] # "reaping" PROVE FilesInv'
  <2>0. Files!NameFails(p)
    BY <1>5
  <2>1. LockTypes'
    BY <2>0 DEF Files!NameFails, LockTypes, Files!TypeOK, Files!NoFile, Files!Goto, Files!Return, Files!FreeInodes, Files!DeclaredDead, Files!Owns
  <2>2. OneOwner'
    BY <1>5 DEF Files!NameFails, LockTypes, Files!TypeOK, OneOwner, Waiters, Owner, Owning, Files!NoFile, Files!Goto, Files!Return, Files!FreeInodes, Files!DeclaredDead, Files!Dead, Files!Unnamed, Files!Owns
  <2>3. Waiters'
    BY <1>5 DEF Files!NameFails, LockTypes, Files!TypeOK, OneOwner, Waiters, Owner, Owning, Files!NoFile, Files!Goto, Files!Return, Files!FreeInodes, Files!DeclaredDead, Files!Dead, Files!Unnamed, Files!Owns
  <2>4. Drafts'
    BY <1>5 DEF Files!NameFails, LockTypes, Files!TypeOK, OneOwner, Drafts, Owner, Owning, Files!Goto, Files!Return
  <2> QED
    BY <2>1, <2>2, <2>3, <2>4
<1>6. ASSUME NEW p \in Procs, Files!Load(p), \A q \in Procs : pc[q] # "reaping" PROVE FilesInv'
  <2>0. Files!Load(p)
    BY <1>6
  <2>a. mine[p] \in 1..MaxSaves /\ doc \subseteq 1..MaxSaves
    BY <2>0 DEF Files!Load, LockTypes, Files!TypeOK
  <2>1. LockTypes'
    BY <2>0, <2>a DEF Files!Load, LockTypes, Files!TypeOK, Files!NoFile
  <2>2. OneOwner'
    BY <1>6 DEF Files!Load, LockTypes, Files!TypeOK, OneOwner, Waiters, Owner, Owning, Files!NoFile, Files!Goto, Files!Return, Files!FreeInodes, Files!DeclaredDead, Files!Dead, Files!Unnamed, Files!Owns
  <2>3. Waiters'
    BY <1>6 DEF Files!Load, LockTypes, Files!TypeOK, OneOwner, Waiters, Owner, Owning, Files!NoFile, Files!Goto, Files!Return, Files!FreeInodes, Files!DeclaredDead, Files!Dead, Files!Unnamed, Files!Owns
  <2>4. Drafts'
    BY <1>6 DEF Files!Load, LockTypes, Files!TypeOK, OneOwner, Drafts, Owner, Owning, Files!Goto, Files!Return
  <2> QED
    BY <2>1, <2>2, <2>3, <2>4
<1>7. ASSUME NEW p \in Procs, Files!Replace(p), \A q \in Procs : pc[q] # "reaping" PROVE FilesInv'
  <2>0. Files!Replace(p)
    BY <1>7
  <2>a. mine[p] \in 1..MaxSaves /\ doc \subseteq 1..MaxSaves /\ draft[p] \subseteq 1..MaxSaves
    BY <2>0 DEF Files!Replace, LockTypes, Files!TypeOK
  <2>1. LockTypes'
    BY <2>0, <2>a DEF Files!Replace, LockTypes, Files!TypeOK, Files!NoFile, Files!Goto
  <2>2. OneOwner'
    BY <1>7 DEF Files!Replace, LockTypes, Files!TypeOK, OneOwner, Waiters, Owner, Owning, Files!NoFile, Files!Goto, Files!Return, Files!FreeInodes, Files!DeclaredDead, Files!Dead, Files!Unnamed, Files!Owns
  <2>3. Waiters'
    BY <1>7 DEF Files!Replace, LockTypes, Files!TypeOK, OneOwner, Waiters, Owner, Owning, Files!NoFile, Files!Goto, Files!Return, Files!FreeInodes, Files!DeclaredDead, Files!Dead, Files!Unnamed, Files!Owns
  <2>4. Drafts'
    BY <1>7 DEF Files!Replace, LockTypes, Files!TypeOK, OneOwner, Drafts, Owner, Owning, Files!Goto, Files!Return
  <2> QED
    BY <2>1, <2>2, <2>3, <2>4
<1>8. ASSUME NEW p \in Procs, Files!Abort(p), \A q \in Procs : pc[q] # "reaping" PROVE FilesInv'
  <2>0. Files!Abort(p)
    BY <1>8
  <2>1. LockTypes'
    BY <2>0 DEF Files!Abort, LockTypes, Files!TypeOK, Files!NoFile, Files!Goto, Files!Return, Files!FreeInodes, Files!DeclaredDead, Files!Owns
  <2>2. OneOwner'
    BY <1>8 DEF Files!Abort, LockTypes, Files!TypeOK, OneOwner, Waiters, Owner, Owning, Files!NoFile, Files!Goto, Files!Return, Files!FreeInodes, Files!DeclaredDead, Files!Dead, Files!Unnamed, Files!Owns
  <2>3. Waiters'
    BY <1>8 DEF Files!Abort, LockTypes, Files!TypeOK, OneOwner, Waiters, Owner, Owning, Files!NoFile, Files!Goto, Files!Return, Files!FreeInodes, Files!DeclaredDead, Files!Dead, Files!Unnamed, Files!Owns
  <2>4. Drafts'
    BY <1>8 DEF Files!Abort, LockTypes, Files!TypeOK, OneOwner, Drafts, Owner, Owning, Files!Goto, Files!Return
  <2> QED
    BY <2>1, <2>2, <2>3, <2>4
<1>9. ASSUME NEW p \in Procs, Files!Confirm(p), \A q \in Procs : pc[q] # "reaping" PROVE FilesInv'
  <2>0. Files!Confirm(p)
    BY <1>9
  <2>1. LockTypes'
    BY <2>0 DEF Files!Confirm, LockTypes, Files!TypeOK, Files!NoFile, Files!Goto, Files!Return, Files!FreeInodes, Files!DeclaredDead, Files!Owns
  <2>2. OneOwner'
    BY <1>9 DEF Files!Confirm, LockTypes, Files!TypeOK, OneOwner, Waiters, Owner, Owning, Files!NoFile, Files!Goto, Files!Return, Files!FreeInodes, Files!DeclaredDead, Files!Dead, Files!Unnamed, Files!Owns
  <2>3. Waiters'
    BY <1>9 DEF Files!Confirm, LockTypes, Files!TypeOK, OneOwner, Waiters, Owner, Owning, Files!NoFile, Files!Goto, Files!Return, Files!FreeInodes, Files!DeclaredDead, Files!Dead, Files!Unnamed, Files!Owns
  <2>4. Drafts'
    BY <1>9 DEF Files!Confirm, LockTypes, Files!TypeOK, OneOwner, Drafts, Owner, Owning, Files!Goto, Files!Return
  <2> QED
    BY <2>1, <2>2, <2>3, <2>4
<1>10. ASSUME NEW p \in Procs, Files!Inspect(p), \A q \in Procs : pc[q] # "reaping" PROVE FilesInv'
  <2>0. Files!Inspect(p)
    BY <1>10
  <2>1. LockTypes'
    BY <2>0 DEF Files!Inspect, LockTypes, Files!TypeOK, Files!NoFile, Files!Goto, Files!Return, Files!FreeInodes, Files!DeclaredDead, Files!Owns
  <2>2. OneOwner'
    BY <1>10 DEF Files!Inspect, LockTypes, Files!TypeOK, OneOwner, Waiters, Owner, Owning, Files!NoFile, Files!Goto, Files!Return, Files!FreeInodes, Files!DeclaredDead, Files!Dead, Files!Unnamed, Files!Owns
  <2>3. Waiters'
    BY <1>10 DEF Files!Inspect, LockTypes, Files!TypeOK, OneOwner, Waiters, Owner, Owning, Files!NoFile, Files!Goto, Files!Return, Files!FreeInodes, Files!DeclaredDead, Files!Dead, Files!Unnamed, Files!Owns
  <2>4. Drafts'
    BY <1>10 DEF Files!Inspect, LockTypes, Files!TypeOK, OneOwner, Drafts, Owner, Owning, Files!Goto, Files!Return
  <2> QED
    BY <2>1, <2>2, <2>3, <2>4
<1>11. ASSUME NEW p \in Procs, Files!Suspect(p), \A q \in Procs : pc[q] # "reaping" PROVE FilesInv'
  <2>0. Files!Suspect(p)
    BY <1>11
  <2>1. LockTypes'
    BY <2>0 DEF Files!Suspect, LockTypes, Files!TypeOK, Files!NoFile, Files!Goto, Files!Return, Files!FreeInodes, Files!DeclaredDead, Files!Owns
  <2>2. OneOwner'
    BY <1>11 DEF Files!Suspect, LockTypes, Files!TypeOK, OneOwner, Waiters, Owner, Owning, Files!NoFile, Files!Goto, Files!Return, Files!FreeInodes, Files!DeclaredDead, Files!Dead, Files!Unnamed, Files!Owns
  <2>3. Waiters'
    BY <1>11 DEF Files!Suspect, LockTypes, Files!TypeOK, OneOwner, Waiters, Owner, Owning, Files!NoFile, Files!Goto, Files!Return, Files!FreeInodes, Files!DeclaredDead, Files!Dead, Files!Unnamed, Files!Owns
  <2>4. Drafts'
    BY <1>11 DEF Files!Suspect, LockTypes, Files!TypeOK, OneOwner, Drafts, Owner, Owning, Files!Goto, Files!Return
  <2> QED
    BY <2>1, <2>2, <2>3, <2>4
<1>12. ASSUME NEW p \in Procs, Files!Timeout(p), \A q \in Procs : pc[q] # "reaping" PROVE FilesInv'
  <2>0. Files!Timeout(p)
    BY <1>12
  <2>1. LockTypes'
    BY <2>0 DEF Files!Timeout, LockTypes, Files!TypeOK, Files!NoFile, Files!Goto, Files!Return, Files!FreeInodes, Files!DeclaredDead, Files!Owns
  <2>2. OneOwner'
    BY <1>12 DEF Files!Timeout, LockTypes, Files!TypeOK, OneOwner, Waiters, Owner, Owning, Files!NoFile, Files!Goto, Files!Return, Files!FreeInodes, Files!DeclaredDead, Files!Dead, Files!Unnamed, Files!Owns
  <2>3. Waiters'
    BY <1>12 DEF Files!Timeout, LockTypes, Files!TypeOK, OneOwner, Waiters, Owner, Owning, Files!NoFile, Files!Goto, Files!Return, Files!FreeInodes, Files!DeclaredDead, Files!Dead, Files!Unnamed, Files!Owns
  <2>4. Drafts'
    BY <1>12 DEF Files!Timeout, LockTypes, Files!TypeOK, OneOwner, Drafts, Owner, Owning, Files!Goto, Files!Return
  <2> QED
    BY <2>1, <2>2, <2>3, <2>4
<1>13. ASSUME NEW p \in Procs, Files!Match(p), \A q \in Procs : pc[q] # "reaping" PROVE FilesInv'
  <2>0. Files!Match(p)
    BY <1>13
  <2>1. LockTypes'
    BY <2>0 DEF Files!Match, LockTypes, Files!TypeOK, Files!NoFile, Files!Goto, Files!Return, Files!FreeInodes, Files!DeclaredDead, Files!Owns
  <2>2. OneOwner'
    BY <1>13 DEF Files!Match, LockTypes, Files!TypeOK, OneOwner, Waiters, Owner, Owning, Files!NoFile, Files!Goto, Files!Return, Files!FreeInodes, Files!DeclaredDead, Files!Dead, Files!Unnamed, Files!Owns
  <2>3. Waiters'
    BY <1>13 DEF Files!Match, LockTypes, Files!TypeOK, OneOwner, Waiters, Owner, Owning, Files!NoFile, Files!Goto, Files!Return, Files!FreeInodes, Files!DeclaredDead, Files!Dead, Files!Unnamed, Files!Owns
  <2>4. Drafts'
    BY <1>13 DEF Files!Match, LockTypes, Files!TypeOK, OneOwner, Drafts, Owner, Owning, Files!Goto, Files!Return
  <2> QED
    BY <2>1, <2>2, <2>3, <2>4
<1>14. ASSUME NEW p \in Procs, Files!Crash(p), \A q \in Procs : pc[q] # "reaping" PROVE FilesInv'
  <2>0. Files!Crash(p)
    BY <1>14
  <2>a. lockfile \in Lock 
    BY DEF LockTypes, Files!TypeOK, Lock, Files!Unnamed, Files!Dead
  <2>b. lockfile' \in Lock /\ (lockfile'.ino = 0 <=> lockfile' = Files!NoFile)
    <3>1. CASE lockfile.owner = p
      <4>1. lockfile' = Orphaned(lockfile) /\ lockfile # Files!NoFile
        BY <2>0, <3>1 DEF Files!Crash, Files!Dead, Files!NoFile, Orphaned
      <4>2. lockfile' \in Lock /\ lockfile'.ino = lockfile.ino /\ lockfile'.owner = "dead"
        BY <2>a, <4>1, Locks
      <4> QED
        BY <4>1, <4>2 DEF LockTypes, Files!NoFile
    <3>2. CASE lockfile.owner # p
      BY <2>0, <2>a, <3>2 DEF Files!Crash, LockTypes
    <3> QED
      BY <3>1, <3>2
  <2>1. LockTypes'
    BY <2>0, <2>b DEF Files!Crash, LockTypes, Files!TypeOK, Files!Return, Lock, Files!Unnamed, Files!Dead
  <2>2. OneOwner'
    BY <1>14 DEF Files!Crash, LockTypes, Files!TypeOK, OneOwner, Waiters, Owner, Owning, Files!NoFile, Files!Goto, Files!Return, Files!FreeInodes, Files!DeclaredDead, Files!Dead, Files!Unnamed, Files!Owns
  <2>3. Waiters'
    BY <1>14 DEF Files!Crash, LockTypes, Files!TypeOK, OneOwner, Waiters, Owner, Owning, Files!NoFile, Files!Goto, Files!Return, Files!FreeInodes, Files!DeclaredDead, Files!Dead, Files!Unnamed, Files!Owns
  <2>4. Drafts'
    BY <1>14 DEF Files!Crash, LockTypes, Files!TypeOK, OneOwner, Drafts, Owner, Owning, Files!Goto, Files!Return
  <2> QED
    BY <2>1, <2>2, <2>3, <2>4
<1>15. ASSUME Files!Age PROVE FilesInv'
  <2>1. LockTypes'
    BY <1>15 DEF Files!Age, LockTypes, Files!TypeOK, Files!NoFile
  <2>2. OneOwner'
    BY <1>15 DEF Files!Age, LockTypes, Files!TypeOK, OneOwner, Owner, Owning, Files!Unnamed, Files!NoFile
  <2>3. Waiters' /\ Drafts'
    BY <1>15 DEF Files!Age, LockTypes, Files!TypeOK, Waiters, Drafts, Owner, Owning
  <2> QED
    BY <2>1, <2>2, <2>3
<1> QED
  BY <1>1, <1>2, <1>3, <1>4, <1>5, <1>6, <1>7, <1>8, <1>9, <1>10, <1>11, <1>12, <1>13, <1>14, <1>15 DEF Files!Next, Files!Proceed, Files!AboutToReap

-----------------------------------------------------------------------------
LEMMA BlocksStutter == ASSUME BInv, UNCHANGED bvars PROVE BInv'
BY DEF BInv, BlocksOK, Blocks!EveryEditLands, bvars

LEMMA FilesStutter == ASSUME FilesInv, UNCHANGED lvars PROVE FilesInv'
BY DEF FilesInv, LockTypes, Files!TypeOK, OneOwner, Waiters, Drafts, Owner, lvars

\* Edits that several sessions make of one memory block, and that were reported to
\* the model as done, are not lost.
THEOREM EditsLand == ASSUME BlockConstants PROVE Spec => []EveryEditLands
<1> DEFINE I == BInv /\ known \in [Sessions -> Int]
<1>1. Init => I
  <2> SUFFICES ASSUME Init PROVE I
    OBVIOUS
  <2>1. << >> \in Seq(1..MaxEdits) /\ << >> \in Seq(Seq(1..MaxEdits)) /\ Len(<< >>) = 0
    OBVIOUS
  <2>2. BlocksOK
    BY <2>1 DEF Init, Blocks!Init, Blocks!Absent, Blocks!NoOp, BlocksOK, Blocks!Row, BlockConstants
  <2> QED
    BY <2>2 DEF Init, Blocks!Init, BInv, Blocks!EveryEditLands
<1>2. I /\ [Next]_<<scene, bvars, fvars, lvars, dvars>> => I'
  <2> SUFFICES ASSUME I, [Next]_<<scene, bvars, fvars, lvars, dvars>> PROVE I'
    OBVIOUS
  <2>1. Blocks!Next \/ UNCHANGED bvars
    BY DEF Next, OnBlocks, OnFacts, OnFiles, OnCalls
  <2> QED
    BY <2>1, BlocksStep, BlocksStutter DEF bvars
<1>3. I => EveryEditLands
  BY DEF BInv, EveryEditLands
<1> QED
  BY <1>1, <1>2, <1>3, PTL DEF Spec

\* What a process has written to the file stays in it, although the lock of one
\* that died is removed by those who wait for it.
THEOREM SavesAreKept == ASSUME FileConstants PROVE Spec => []SavesStay
<1>1. Init => FilesInv
  BY DEF Init, Files!Init, Files!NoFile, FilesInv, LockTypes, Files!TypeOK, OneOwner,
         Waiters, Drafts, Owner, Owning, FileConstants
<1>2. FilesInv /\ [Next]_<<scene, bvars, fvars, lvars, dvars>> => FilesInv'
  <2> SUFFICES ASSUME FilesInv, [Next]_<<scene, bvars, fvars, lvars, dvars>>
               PROVE  FilesInv'
    OBVIOUS
  <2>1. Files!Next \/ UNCHANGED lvars
    BY DEF Next, OnBlocks, OnFacts, OnFiles, OnCalls
  <2> QED
    BY <2>1, FilesStep, FilesStutter
<1>3. FilesInv => SavesStay
  BY DEF FilesInv, Drafts, SavesStay, Files!SavesStay
<1> QED
  BY <1>1, <1>2, <1>3, PTL DEF Spec

-----------------------------------------------------------------------------
(***************************************************************************)
(* The facts: a row that is closed stays closed, so that a writer whose    *)
(* selected rows are the same as in its snapshot, and whom no other row    *)
(* stopped, adds to the table what an assertion of the contract adds to it *)
(* (FactsInv).                                                             *)
(***************************************************************************)

\* The name of the free lock is no writer's.
FactConstants == MaxTime \in Nat \ {0} /\ "none" \notin Writers

FactRow == [object : Objects, from : 1..(MaxTime + 1), until : 0..(MaxTime + 1), supersedes : Nat,
            expires : 0..(MaxTime + 1), confirmed : BOOLEAN]

FactGoal == [object : Objects \cup {NoObject}, from : 1..MaxTime, expires : 0..(MaxTime + 1)]

FactTypes ==
  /\ facts \in Seq(FactRow)
  /\ clock \in 1..MaxTime
  /\ step \in [Writers -> {"idle", "waiting", "locked", "writing", "known", "distilled"}]
  /\ goal \in [Writers -> FactGoal]
  /\ snap \in [Writers -> Seq(FactRow)]
  /\ \A w \in Writers : step[w] \in {"waiting", "locked", "writing", "known", "distilled"}
                          => goal[w].object \in Objects

\* A snapshot shows rows of the table, and what it shows as closed is closed.
SnapsAreOld ==
  \A w \in Writers : \A i \in DOMAIN snap[w] :
    /\ i \in DOMAIN facts
    /\ facts[i].until = 0 => snap[w][i].until = 0

\* Who has the advisory lock writes what follows from the rows as they are.
WriterKnows ==
  \A w \in Writers :
    /\ step[w] \in {"locked", "writing"} => lock = w
    /\ step[w] = "writing" =>
         /\ \A i \in DOMAIN snap[w] : snap[w][i].until = 0 => facts[i] = snap[w][i]
         /\ ~ Facts!Repeats(w) /\ ~ Facts!OutOfOrder(w)

FactsInv == FactTypes /\ SnapsAreOld /\ WriterKnows /\ Facts!Contract!OneTimeline

-----------------------------------------------------------------------------
LEMMA RowsAsSequence ==
  ASSUME NEW S, NEW n \in Nat, NEW f \in [1..n -> S]
  PROVE  f \in Seq(S) /\ Len(f) = n
OBVIOUS

\* What closing some rows makes of a table.
LEMMA CloseRows ==
  ASSUME NEW rows \in Seq(FactRow), NEW S, NEW t \in 1..(MaxTime + 1), FactConstants
  PROVE  LET new == Facts!Contract!Close(rows, S, t)
         IN /\ new \in Seq(FactRow) /\ DOMAIN new = DOMAIN rows /\ Len(new) = Len(rows)
            /\ \A i \in DOMAIN rows :
                 /\ i \in S /\ rows[i].until = 0 => new[i].until = t
                 /\ ~ (i \in S /\ rows[i].until = 0) => new[i] = rows[i]
                 /\ new[i].from = rows[i].from /\ new[i].supersedes = rows[i].supersedes
<1> DEFINE new == Facts!Contract!Close(rows, S, t)
           n == Len(rows)
<1>1. n \in Nat /\ DOMAIN rows = 1..n /\ \A i \in 1..n : rows[i] \in FactRow
  OBVIOUS
<1>2. new = [i \in 1..n |-> IF i \in S /\ rows[i].until = 0
                            THEN [rows[i] EXCEPT !.until = t, !.confirmed = FALSE] ELSE rows[i]]
  BY <1>1 DEF Facts!Contract!Close, Facts!Contract!Current, Facts!Contract!Open
<1>3. \A r \in FactRow : [r EXCEPT !.until = t, !.confirmed = FALSE] \in FactRow
  <2>1. t \in 0..(MaxTime + 1)
    BY DEF FactConstants
  <2>2. SUFFICES ASSUME NEW r \in FactRow
                 PROVE  [r EXCEPT !.until = t, !.confirmed = FALSE] \in FactRow
    OBVIOUS
  <2> DEFINE u == [r EXCEPT !.until = t]
  <2>3. u \in FactRow
    BY <2>1 DEF FactRow
  <2> HIDE DEF u
  <2>4. [u EXCEPT !.confirmed = FALSE] \in FactRow
    BY <2>3 DEF FactRow
  <2>5. [r EXCEPT !.until = t, !.confirmed = FALSE] = [u EXCEPT !.confirmed = FALSE]
    BY DEF u
  <2>6. QED
    BY <2>4, <2>5
<1>4. new \in [1..n -> FactRow]
  BY <1>1, <1>2, <1>3
<1>5. new \in Seq(FactRow) /\ DOMAIN new = 1..n /\ Len(new) = n
  BY <1>1, <1>4
<1> HIDE DEF new
<1>6. ASSUME NEW i \in DOMAIN rows
      PROVE  /\ i \in S /\ rows[i].until = 0 => new[i].until = t
             /\ ~ (i \in S /\ rows[i].until = 0) => new[i] = rows[i]
             /\ new[i].from = rows[i].from /\ new[i].supersedes = rows[i].supersedes
  BY <1>1, <1>2, <1>6 DEF FactRow
<1>7. QED
  BY <1>1, <1>5, <1>6 DEF new

\* A table of which every current row keeps its time of beginning, and whose closed
\* rows stay as they are, remains one timeline.
LEMMA TimelineStays ==
  ASSUME NEW old \in Seq(FactRow), NEW new \in Seq(FactRow), DOMAIN new = DOMAIN old,
         \A i, j \in DOMAIN old : old[i].until = 0 /\ old[j].until = 0 => i = j,
         \A i \in DOMAIN old : old[i].supersedes # 0 =>
            /\ old[i].supersedes \in 1..(i - 1)
            /\ old[old[i].supersedes].until = old[i].from,
         \A i \in DOMAIN old : /\ new[i].from = old[i].from
                               /\ new[i].supersedes = old[i].supersedes
                               /\ old[i].until # 0 => new[i].until = old[i].until
  PROVE  /\ \A i, j \in DOMAIN new : new[i].until = 0 /\ new[j].until = 0 => i = j
         /\ \A i \in DOMAIN new : new[i].supersedes # 0 =>
               /\ new[i].supersedes \in 1..(i - 1)
               /\ new[new[i].supersedes].until = new[i].from
<1>1. \A i \in DOMAIN old : old[i].from # 0
  <2>1. \A i \in DOMAIN old : old[i] \in FactRow
    OBVIOUS
  <2>2. QED
    BY <2>1 DEF FactRow
<1>2. \A i \in DOMAIN old : 1..(i - 1) \subseteq DOMAIN old
  OBVIOUS
<1>3. QED
  BY <1>1, <1>2

-----------------------------------------------------------------------------
\* What is current in a snapshot whose current rows are as they were, and that
\* misses no current row, is what is current.
LEMMA WriterSeesAll ==
  ASSUME FactConstants, FactsInv, NEW w \in Writers, step[w] = "writing", ~ Facts!Appeared(w)
  PROVE  /\ Facts!Contract!Current(snap[w]) = Facts!Contract!Current(facts)
         /\ ~ Facts!Contract!Known(facts, goal[w].object)
         /\ Facts!Contract!InOrder(facts, goal[w].from)
<1>1. \A i \in DOMAIN snap[w] : i \in DOMAIN facts /\ (facts[i].until = 0 => snap[w][i].until = 0)
                                /\ (snap[w][i].until = 0 => facts[i] = snap[w][i])
  BY DEF FactsInv, SnapsAreOld, WriterKnows
<1>2. \A i \in DOMAIN facts : facts[i].until = 0 => i \in DOMAIN snap[w]
  BY DEF Facts!Appeared, Facts!Contract!Current, Facts!Contract!Open
<1>3. Facts!Contract!Current(snap[w]) = Facts!Contract!Current(facts)
  BY <1>1, <1>2 DEF Facts!Contract!Current, Facts!Contract!Open
<1>4. \A i \in Facts!Contract!Current(snap[w]) : facts[i] = snap[w][i]
  BY <1>1 DEF Facts!Contract!Current, Facts!Contract!Open
<1>5. ~ Facts!Repeats(w) /\ ~ Facts!OutOfOrder(w)
  BY DEF FactsInv, WriterKnows
<1>6. QED
  BY <1>3, <1>4, <1>5 DEF Facts!Repeats, Facts!OutOfOrder, Facts!Contract!Known, Facts!Contract!InOrder

\* The commit of a writer is an assertion of the contract.
LEMMA CommitAsserts ==
  ASSUME FactConstants, FactsInv, NEW w \in Writers, Facts!Commit(w)
  PROVE  LET g == goal[w]
         IN /\ g.object \in Objects /\ g.from \in 1..(MaxTime + 1)
            /\ g.expires \in 1..(MaxTime + 1) \cup {0}
            /\ Facts!Contract!AssertFact(g.object, g.from, g.expires)
<1>1. step[w] = "writing" /\ ~ Facts!Appeared(w)
      /\ facts' = Append(Facts!Contract!Close(facts, Facts!Contract!Current(snap[w]), goal[w].from),
                         Facts!Contract!New(snap[w], goal[w].object, goal[w].from, goal[w].expires))
  BY DEF Facts!Commit
<1>2. /\ Facts!Contract!Current(snap[w]) = Facts!Contract!Current(facts)
      /\ ~ Facts!Contract!Known(facts, goal[w].object)
      /\ Facts!Contract!InOrder(facts, goal[w].from)
  BY <1>1, WriterSeesAll
<1>3. Facts!Contract!Superseded(snap[w]) = Facts!Contract!Superseded(facts)
  BY <1>2 DEF Facts!Contract!Superseded
<1>4. Facts!Contract!New(snap[w], goal[w].object, goal[w].from, goal[w].expires)
        = Facts!Contract!New(facts, goal[w].object, goal[w].from, goal[w].expires)
  BY <1>3 DEF Facts!Contract!New
<1>5. goal[w] \in FactGoal /\ goal[w].object \in Objects
  BY <1>1 DEF FactsInv, FactTypes
<1>6. /\ goal[w].from \in 1..(MaxTime + 1) /\ goal[w].expires \in 1..(MaxTime + 1) \cup {0}
  BY <1>5 DEF FactGoal, FactConstants
<1>7. Facts!Contract!AssertFact(goal[w].object, goal[w].from, goal[w].expires)
  BY <1>1, <1>2, <1>4 DEF Facts!Contract!AssertFact, Facts!Contract!Transition
<1>8. QED
  BY <1>5, <1>6, <1>7

\* An assertion appends one row and closes the one that was current.
LEMMA AssertedRows ==
  ASSUME FactConstants, facts \in Seq(FactRow), NEW o \in Objects, NEW t \in 1..(MaxTime + 1),
         NEW e \in 1..(MaxTime + 1) \cup {0}, Facts!Contract!OneTimeline,
         Facts!Contract!AssertFact(o, t, e)
  PROVE  /\ facts' \in Seq(FactRow) /\ Facts!Contract!OneTimeline'
         /\ \A i \in DOMAIN facts : /\ i \in DOMAIN facts' 
                                    /\ facts[i].until # 0 => facts'[i] = facts[i]
<1> DEFINE S == Facts!Contract!Current(facts)
           closed == Facts!Contract!Close(facts, S, t)
           row == Facts!Contract!New(facts, o, t, e)
           n == Len(facts)
<1>1. facts' = Append(closed, row)
  BY DEF Facts!Contract!AssertFact, Facts!Contract!Transition
<1>2. /\ n \in Nat /\ DOMAIN facts = 1..n /\ closed \in Seq(FactRow) /\ DOMAIN closed = 1..n
      /\ \A i \in 1..n : /\ i \in S => closed[i].until = t
                         /\ i \notin S => closed[i] = facts[i]
                         /\ closed[i].from = facts[i].from
                         /\ closed[i].supersedes = facts[i].supersedes
  BY CloseRows DEF Facts!Contract!Current, Facts!Contract!Open
<1>3. \A i, j \in S : i = j
  BY DEF Facts!Contract!OneTimeline
<1>4. \/ S = {} /\ Facts!Contract!Superseded(facts) = 0
      \/ \E i \in S : S = {i} /\ Facts!Contract!Superseded(facts) = i
  <2>1. CASE S = {}
    BY <2>1 DEF Facts!Contract!Superseded, Facts!Contract!Nothing
  <2>2. CASE S # {}
    <3>1. PICK i \in S : TRUE
      BY <2>2
    <3>2. S = {i}
      BY <1>3, <3>1
    <3>3. QED
      BY <3>1, <3>2 DEF Facts!Contract!Superseded
  <2>3. QED
    BY <2>1, <2>2
<1>5. S \subseteq 1..n /\ \A i \in 1..n : i \in S <=> facts[i].until = 0
  BY <1>2 DEF Facts!Contract!Current, Facts!Contract!Open
<1> HIDE DEF closed, S
<1>6. /\ row \in FactRow /\ row.from = t /\ row.until = 0
      /\ row.supersedes = Facts!Contract!Superseded(facts)
  BY <1>2, <1>4, <1>5 DEF Facts!Contract!New, FactRow, FactConstants, Facts!Contract!Open
<1> HIDE DEF row
<1>7. /\ facts' \in Seq(FactRow) /\ DOMAIN facts' = 1..(n + 1) /\ facts'[n + 1] = row
      /\ \A i \in 1..n : facts'[i] = closed[i]
  BY <1>1, <1>2, <1>6
<1>8. ASSUME NEW i \in 1..n
      PROVE  /\ facts'[i].until # 0 /\ facts'[i].from = facts[i].from
             /\ facts'[i].supersedes = facts[i].supersedes
             /\ facts[i].until # 0 => facts'[i] = facts[i]
             /\ i \in S => facts'[i].until = t
  BY <1>2, <1>5, <1>7, <1>8
<1>9. \A i, j \in DOMAIN facts' : facts'[i].until = 0 /\ facts'[j].until = 0 => i = j
  BY <1>2, <1>7, <1>8
<1>10. ASSUME NEW i \in DOMAIN facts', facts'[i].supersedes # 0
       PROVE  /\ facts'[i].supersedes \in 1..(i - 1)
              /\ facts'[facts'[i].supersedes].until = facts'[i].from
  <2>1. CASE i \in 1..n
    <3> DEFINE j == facts[i].supersedes
    <3>1. j # 0 /\ facts'[i].supersedes = j /\ facts'[i].from = facts[i].from
      BY <1>8, <1>10, <2>1
    <3>2. j \in 1..(i - 1) /\ facts[j].until = facts[i].from
      BY <1>2, <2>1, <3>1 DEF Facts!Contract!OneTimeline, Facts!Contract!Nothing
    <3>3. facts[i] \in FactRow
      BY <1>2, <2>1
    <3>4. facts[j].until # 0
      BY <3>2, <3>3 DEF FactRow
    <3>5. j \in 1..n
      BY <1>2, <2>1, <3>2
    <3>6. QED
      BY <1>8, <3>1, <3>2, <3>4, <3>5
  <2>2. CASE i = n + 1
    BY <1>2, <1>4, <1>5, <1>6, <1>7, <1>8, <1>10, <2>2
  <2>3. QED
    BY <1>2, <1>7, <2>1, <2>2
<1>11. Facts!Contract!OneTimeline'
  BY <1>9, <1>10 DEF Facts!Contract!OneTimeline, Facts!Contract!Current, Facts!Contract!Open,
                     Facts!Contract!Nothing
<1>12. QED
  BY <1>2, <1>7, <1>8, <1>11

\* The table moves on, and no writer does: closed rows stay closed, and the rows that
\* a writer has selected stay as they are.
LEMMA TableMoves ==
  ASSUME FactConstants, FactsInv, UNCHANGED <<lock, step, goal, snap>>, clock' \in 1..MaxTime,
         facts' \in Seq(FactRow), Facts!Contract!OneTimeline',
         \A i \in DOMAIN facts : /\ i \in DOMAIN facts'
                                 /\ facts[i].until # 0 => facts'[i].until # 0
                                 /\ i \in Facts!RowLocks => facts'[i] = facts[i]
  PROVE  FactsInv'
<1>1. FactTypes'
  BY DEF FactsInv, FactTypes
<1>2. SnapsAreOld'
  BY DEF FactsInv, SnapsAreOld
<1>3. \A w \in Writers : step[w] = "writing" =>
        \A i \in DOMAIN snap[w] : snap[w][i].until = 0 => i \in Facts!RowLocks
  BY DEF Facts!RowLocks, Facts!Contract!Current, Facts!Contract!Open
<1>4. WriterKnows'
  BY <1>3 DEF FactsInv, SnapsAreOld, WriterKnows, Facts!Repeats, Facts!OutOfOrder
<1>5. QED
  BY <1>1, <1>2, <1>4 DEF FactsInv

\* Rows that nobody has selected are closed.
LEMMA ClosingKeeps ==
  ASSUME FactConstants, FactsInv, UNCHANGED <<clock, lock, step, goal, snap>>,
         NEW S, S \cap Facts!RowLocks = {}, facts' = Facts!Contract!Close(facts, S, clock)
  PROVE  FactsInv'
<1>1. clock \in 1..(MaxTime + 1) /\ facts \in Seq(FactRow) /\ clock # 0
  BY DEF FactsInv, FactTypes, FactConstants
<1>2. /\ facts' \in Seq(FactRow) /\ DOMAIN facts' = DOMAIN facts
      /\ \A i \in DOMAIN facts :
           /\ i \in S /\ facts[i].until = 0 => facts'[i].until = clock
           /\ ~ (i \in S /\ facts[i].until = 0) => facts'[i] = facts[i]
           /\ facts'[i].from = facts[i].from /\ facts'[i].supersedes = facts[i].supersedes
  BY <1>1, CloseRows
<1>3. \A i \in DOMAIN facts : /\ facts[i].until # 0 => facts'[i] = facts[i]
                              /\ i \in Facts!RowLocks => facts'[i] = facts[i]
  BY <1>2
<1>4. Facts!Contract!OneTimeline'
  <2>1. /\ \A i, j \in DOMAIN facts : facts[i].until = 0 /\ facts[j].until = 0 => i = j
        /\ \A i \in DOMAIN facts : facts[i].supersedes # 0 =>
              /\ facts[i].supersedes \in 1..(i - 1)
              /\ facts[facts[i].supersedes].until = facts[i].from
    BY DEF FactsInv, Facts!Contract!OneTimeline, Facts!Contract!Current, Facts!Contract!Open,
           Facts!Contract!Nothing
  <2>2. /\ \A i, j \in DOMAIN facts' : facts'[i].until = 0 /\ facts'[j].until = 0 => i = j
        /\ \A i \in DOMAIN facts' : facts'[i].supersedes # 0 =>
              /\ facts'[i].supersedes \in 1..(i - 1)
              /\ facts'[facts'[i].supersedes].until = facts'[i].from
    BY <1>1, <1>2, <1>3, <2>1, TimelineStays
  <2>3. QED
    BY <2>2 DEF Facts!Contract!OneTimeline, Facts!Contract!Current, Facts!Contract!Open,
                Facts!Contract!Nothing
<1>5. clock' \in 1..MaxTime
  BY DEF FactsInv, FactTypes
<1>6. QED
  BY <1>2, <1>3, <1>4, <1>5, TableMoves

\* A corroboration moves no time.
LEMMA CorroborationKeeps ==
  ASSUME FactConstants, FactsInv, NEW i \in Facts!Contract!Current(facts),
         facts' = [facts EXCEPT ![i].confirmed = TRUE]
  PROVE  /\ facts' \in Seq(FactRow) /\ DOMAIN facts' = DOMAIN facts
         /\ \A j \in DOMAIN facts : facts'[j].until = facts[j].until /\ (j # i => facts'[j] = facts[j])
         /\ Facts!Contract!OneTimeline'
<1>1. /\ facts \in Seq(FactRow) /\ i \in DOMAIN facts /\ DOMAIN facts = 1..Len(facts)
      /\ \A j \in DOMAIN facts : facts[j] \in FactRow
  BY DEF FactsInv, FactTypes, Facts!Contract!Current
<1> DEFINE row == [facts[i] EXCEPT !.confirmed = TRUE]
<1>2. /\ row \in FactRow /\ row.until = facts[i].until /\ row.from = facts[i].from
      /\ row.supersedes = facts[i].supersedes
  BY <1>1 DEF FactRow
<1>3. facts' = [facts EXCEPT ![i] = row]
  OBVIOUS
<1> HIDE DEF row
<1>4. facts' \in Seq(FactRow) /\ DOMAIN facts' = DOMAIN facts
  <2> DEFINE n == Len(facts)
  <2>1. n \in Nat /\ DOMAIN facts = 1..n
    BY <1>1
  <2>2. facts' = [j \in 1..n |-> IF j = i THEN row ELSE facts[j]]
    BY <1>1, <1>3, <2>1
  <2>3. facts' \in [1..n -> FactRow]
    BY <1>1, <1>2, <2>1, <2>2
  <2> HIDE DEF n
  <2>4. DOMAIN facts' = 1..n
    BY <2>3
  <2>5. facts' \in Seq(FactRow)
    BY <2>1, <2>3, RowsAsSequence
  <2>6. QED
    BY <2>1, <2>4, <2>5
<1>5. \A j \in DOMAIN facts :
        /\ facts'[j].until = facts[j].until /\ facts'[j].from = facts[j].from
        /\ facts'[j].supersedes = facts[j].supersedes /\ (j # i => facts'[j] = facts[j])
  BY <1>1, <1>2, <1>3
<1>6. Facts!Contract!OneTimeline'
  <2>1. \A j \in DOMAIN facts : facts[j].supersedes # 0 => facts[j].supersedes \in DOMAIN facts
    BY <1>1 DEF FactsInv, Facts!Contract!OneTimeline, Facts!Contract!Nothing
  <2>2. QED
    BY <1>1, <1>4, <1>5, <2>1 DEF FactsInv, Facts!Contract!OneTimeline, Facts!Contract!Current,
                           Facts!Contract!Open, Facts!Contract!Nothing
<1>7. QED
  BY <1>4, <1>5, <1>6

\* One writer moves on, and the table stays.
LEMMA WriterMoves ==
  ASSUME FactConstants, FactsInv, NEW w \in Writers, UNCHANGED <<facts, clock>>,
         NEW s \in {"idle", "waiting", "locked", "writing", "known", "distilled"},
         NEW g \in FactGoal, NEW rows \in Seq(FactRow),
         step' = [step EXCEPT ![w] = s], goal' = [goal EXCEPT ![w] = g],
         snap' = [snap EXCEPT ![w] = rows],
         s # "idle" => g.object \in Objects,
         \/ rows = facts \/ rows = << >> \/ rows = snap[w],
         \A v \in Writers \ {w} : step[v] \in {"locked", "writing"} => lock' = v,
         s \in {"locked", "writing"} => lock' = w,
         s = "writing" => /\ \A i \in DOMAIN rows : rows[i].until = 0 => facts[i] = rows[i]
                          /\ ~ Facts!Contract!Known(rows, g.object)
                          /\ Facts!Contract!InOrder(rows, g.from)
  PROVE  FactsInv'
<1>1. FactTypes'
  BY DEF FactsInv, FactTypes
<1>2. /\ step'[w] = s /\ goal'[w] = g /\ snap'[w] = rows
      /\ \A v \in Writers \ {w} : step'[v] = step[v] /\ goal'[v] = goal[v] /\ snap'[v] = snap[v]
  BY DEF FactsInv, FactTypes
<1>3. SnapsAreOld'
  BY <1>2 DEF FactsInv, SnapsAreOld
<1>4. ASSUME NEW v \in Writers
      PROVE  /\ step'[v] \in {"locked", "writing"} => lock' = v
             /\ step'[v] = "writing" =>
                  /\ \A i \in DOMAIN snap'[v] : snap'[v][i].until = 0 => facts'[i] = snap'[v][i]
                  /\ ~ Facts!Repeats(v)' /\ ~ Facts!OutOfOrder(v)'
  <2>1. CASE v = w
    BY <1>2, <2>1 DEF Facts!Repeats, Facts!OutOfOrder
  <2>2. CASE v # w
    BY <1>2, <2>2 DEF FactsInv, WriterKnows, Facts!Repeats, Facts!OutOfOrder
  <2>3. QED
    BY <2>1, <2>2
<1>5. WriterKnows'
  BY <1>4 DEF WriterKnows
<1>6. Facts!Contract!OneTimeline'
  BY DEF FactsInv, Facts!Contract!OneTimeline, Facts!Contract!Current, Facts!Contract!Open,
         Facts!Contract!Nothing
<1>7. QED
  BY <1>1, <1>3, <1>5, <1>6 DEF FactsInv

-----------------------------------------------------------------------------
LEMMA FactsInit == ASSUME FactConstants, Facts!Init PROVE FactsInv /\ Facts!Contract!Init
<1>1. << >> \in Seq(FactRow) /\ DOMAIN << >> = {} /\ Len(<< >>) = 0
  OBVIOUS
<1>2. Facts!NoGoal \in FactGoal
  BY DEF FactConstants, Facts!NoGoal, FactGoal, Facts!Contract!Nothing
<1>3. facts = << >> /\ snap = [w \in Writers |-> << >>]
  BY DEF Facts!Init
<1>4. FactTypes
  BY <1>1, <1>2 DEF Facts!Init, FactTypes, FactConstants
<1>5. SnapsAreOld
  BY <1>1, <1>3 DEF SnapsAreOld
<1>6. WriterKnows
  BY DEF Facts!Init, WriterKnows
<1>7. Facts!Contract!OneTimeline
  BY <1>1, <1>3 DEF Facts!Contract!OneTimeline, Facts!Contract!Current
<1>8. QED
  BY <1>3, <1>4, <1>5, <1>6, <1>7 DEF FactsInv, Facts!Contract!Init

\* A call ends, and its locals with it.
LEMMA IdleKeeps ==
  ASSUME FactConstants, FactsInv, NEW w \in Writers, Facts!Idle(w), UNCHANGED <<facts, clock>>,
         \A v \in Writers \ {w} : step[v] \in {"locked", "writing"} => lock' = v
  PROVE  FactsInv'
<1>1. Facts!NoGoal \in FactGoal
  BY DEF FactConstants, Facts!NoGoal, FactGoal, Facts!Contract!Nothing
<1>2. << >> \in Seq(FactRow)
  OBVIOUS
<1> HIDE DEF FactConstants
<1>3. QED
  BY <1>1, <1>2, WriterMoves DEF Facts!Idle

\* Every step keeps the invariant and is a step of the contract.
LEMMA FactsStep ==
  ASSUME FactConstants, FactsInv, Facts!Next
  PROVE  FactsInv' /\ [Facts!Contract!Next]_facts
<1>1. CASE Facts!Tick
  <2>1. clock' \in 1..MaxTime /\ UNCHANGED <<facts, lock, step, goal, snap>>
    BY <1>1 DEF Facts!Tick, FactsInv, FactTypes, FactConstants
  <2>2. facts' \in Seq(FactRow) /\ Facts!Contract!OneTimeline'
    BY <2>1 DEF FactsInv, FactTypes, Facts!Contract!OneTimeline, Facts!Contract!Current,
                Facts!Contract!Open, Facts!Contract!Nothing
  <2>3. QED
    BY <2>1, <2>2, TableMoves
<1>2. CASE Facts!Maintain
  <2>0. UNCHANGED <<clock, lock, step, goal, snap>>
    BY <1>2 DEF Facts!Maintain
  <2>1. clock \in 1..(MaxTime + 1)
    BY DEF FactsInv, FactTypes, FactConstants
  <2>2. ASSUME NEW i \in DOMAIN facts \ Facts!RowLocks, Facts!Contract!ExpireFacts({i}, clock)
        PROVE  FactsInv' /\ Facts!Contract!Next
    <3>1. {i} \cap Facts!RowLocks = {} /\ {i} \in SUBSET DOMAIN facts
      OBVIOUS
    <3>2. facts' = Facts!Contract!Close(facts, {i}, clock)
      BY <2>2 DEF Facts!Contract!ExpireFacts
    <3>3. QED
      BY <2>0, <2>1, <2>2, <3>1, <3>2, ClosingKeeps DEF Facts!Contract!Next
  <2>3. ASSUME Facts!Contract!Stale(facts, clock) \cap Facts!RowLocks = {},
               Facts!Contract!SweepExpired(clock)
        PROVE  FactsInv' /\ Facts!Contract!Next
    <3>1. facts' = Facts!Contract!Close(facts, Facts!Contract!Stale(facts, clock), clock)
      BY <2>3 DEF Facts!Contract!SweepExpired
    <3>2. QED
      BY <2>0, <2>1, <2>3, <3>1, ClosingKeeps DEF Facts!Contract!Next
  <2>4. QED
    BY <1>2, <2>2, <2>3 DEF Facts!Maintain
<1>3. ASSUME NEW w \in Writers, Facts!Call(w)
      PROVE  FactsInv' /\ UNCHANGED facts
  <2>1. PICK o \in Objects, from \in 1..clock, ttl \in {0, 1} :
          goal' = [goal EXCEPT ![w] = [object |-> o, from |-> from,
                     expires |-> IF ttl = 0 THEN Facts!Contract!Nothing ELSE from + ttl]]
    BY <1>3 DEF Facts!Call
  <2> DEFINE g == [object |-> o, from |-> from,
                   expires |-> IF ttl = 0 THEN Facts!Contract!Nothing ELSE from + ttl]
  <2>2. g \in FactGoal /\ g.object \in Objects
    BY DEF FactsInv, FactTypes, FactGoal, FactConstants, Facts!Contract!Nothing
  <2> HIDE DEF g
  <2>3. /\ UNCHANGED <<facts, clock, lock>> /\ goal' = [goal EXCEPT ![w] = g]
        /\ step' = [step EXCEPT ![w] = "waiting"] /\ snap' = [snap EXCEPT ![w] = facts]
    BY <1>3, <2>1 DEF Facts!Call, Facts!Begin, g
  <2>4. \A v \in Writers \ {w} : step[v] \in {"locked", "writing"} => lock' = v
    BY <2>3 DEF FactsInv, WriterKnows
  <2>5. facts \in Seq(FactRow)
    BY DEF FactsInv, FactTypes
  <2>6. QED
    BY <2>2, <2>3, <2>4, <2>5, WriterMoves
<1>4. ASSUME NEW w \in Writers, Facts!Locked(w)
      PROVE  FactsInv' /\ UNCHANGED facts
  <2>1. /\ goal[w] \in FactGoal /\ snap[w] \in Seq(FactRow) /\ goal[w].object \in Objects
        /\ goal = [goal EXCEPT ![w] = goal[w]] /\ snap = [snap EXCEPT ![w] = snap[w]]
    BY <1>4 DEF Facts!Locked, FactsInv, FactTypes
  <2>2. \A v \in Writers \ {w} : step[v] \notin {"locked", "writing"}
    BY <1>4 DEF Facts!Locked, FactsInv, WriterKnows, Facts!Free, FactConstants
  <2>3. /\ UNCHANGED <<facts, clock, goal, snap>> /\ lock' = w
        /\ step' = [step EXCEPT ![w] = "locked"]
    BY <1>4 DEF Facts!Locked
  <2>4. QED
    BY <2>1, <2>2, <2>3, WriterMoves
<1>5. ASSUME NEW w \in Writers, Facts!Selected(w)
      PROVE  FactsInv' /\ UNCHANGED facts
  <2>1. /\ goal[w] \in FactGoal /\ snap[w] \in Seq(FactRow) /\ goal[w].object \in Objects
        /\ goal = [goal EXCEPT ![w] = goal[w]] /\ snap = [snap EXCEPT ![w] = snap[w]]
    BY <1>5 DEF Facts!Selected, Facts!SelectedIntact, FactsInv, FactTypes
  <2>2. lock = w /\ \A v \in Writers \ {w} : step[v] \in {"locked", "writing"} => lock = v
    BY <1>5 DEF Facts!Selected, Facts!SelectedIntact, FactsInv, WriterKnows
  <2>3. /\ \A i \in DOMAIN snap[w] : snap[w][i].until = 0 => facts[i] = snap[w][i]
        /\ ~ Facts!Contract!Known(snap[w], goal[w].object)
        /\ Facts!Contract!InOrder(snap[w], goal[w].from)
    BY <1>5 DEF Facts!Selected, Facts!SelectedIntact, Facts!Repeats, Facts!OutOfOrder,
                Facts!Contract!Current, Facts!Contract!Open
  <2>4. UNCHANGED <<facts, clock, lock, goal, snap>> /\ step' = [step EXCEPT ![w] = "writing"]
    BY <1>5 DEF Facts!Selected
  <2>5. QED
    BY <2>1, <2>2, <2>3, <2>4, WriterMoves
<1>6. ASSUME NEW w \in Writers, Facts!Return(w)
      PROVE  FactsInv' /\ UNCHANGED facts
  <2>1. \A v \in Writers \ {w} : step[v] \notin {"locked", "writing"}
    BY <1>6 DEF Facts!Return, Facts!SelectedIntact, FactsInv, WriterKnows
  <2>2. QED
    BY <1>6, <2>1, IdleKeeps DEF Facts!Return
<1>7. ASSUME NEW w \in Writers, Facts!Commit(w)
      PROVE  FactsInv' /\ Facts!Contract!Next
  <2> DEFINE g == goal[w]
  <2>1. /\ g.object \in Objects /\ g.from \in 1..(MaxTime + 1)
        /\ g.expires \in 1..(MaxTime + 1) \cup {0}
        /\ Facts!Contract!AssertFact(g.object, g.from, g.expires)
    BY <1>7, CommitAsserts
  <2> HIDE DEF g
  <2>2. /\ facts' \in Seq(FactRow) /\ Facts!Contract!OneTimeline'
        /\ \A i \in DOMAIN facts : i \in DOMAIN facts' /\ (facts[i].until # 0 => facts'[i] = facts[i])
    BY <2>1, AssertedRows DEF FactsInv, FactTypes
  <2>3. \A v \in Writers \ {w} : step[v] \notin {"locked", "writing"}
    BY <1>7 DEF Facts!Commit, FactsInv, WriterKnows
  <2>4. /\ step' = [step EXCEPT ![w] = "idle"] /\ goal' = [goal EXCEPT ![w] = Facts!NoGoal]
        /\ snap' = [snap EXCEPT ![w] = << >>] /\ UNCHANGED clock
    BY <1>7 DEF Facts!Commit, Facts!Idle
  <2>5. FactTypes'
    <3>1. << >> \in Seq(FactRow)
      OBVIOUS
    <3>2. Facts!NoGoal \in FactGoal
      BY DEF FactConstants, Facts!NoGoal, FactGoal, Facts!Contract!Nothing
    <3>3. QED
      BY <2>2, <2>4, <3>1, <3>2 DEF FactsInv, FactTypes
  <2>6. SnapsAreOld'
    <3>1. snap'[w] = << >> /\ \A v \in Writers \ {w} : snap'[v] = snap[v]
      BY <2>4 DEF FactsInv, FactTypes
    <3>2. QED
      BY <2>2, <3>1 DEF FactsInv, SnapsAreOld
  <2>7. WriterKnows'
    <3>1. \A v \in Writers : step'[v] \notin {"locked", "writing"}
      BY <2>3, <2>4 DEF FactsInv, FactTypes
    <3>2. QED
      BY <3>1 DEF WriterKnows
  <2>8. Facts!Contract!Next
    BY <2>1 DEF Facts!Contract!Next, Facts!Contract!Nothing
  <2>9. QED
    BY <2>2, <2>5, <2>6, <2>7, <2>8 DEF FactsInv
<1>8. ASSUME NEW w \in Writers, Facts!Conflict(w)
      PROVE  FactsInv' /\ UNCHANGED facts
  <2>1. /\ \A v \in Writers \ {w} : step[v] \notin {"locked", "writing"}
        /\ step[w] \in {"locked", "writing"} /\ UNCHANGED <<facts, clock>>
    BY <1>8 DEF Facts!Conflict, Facts!SelectedIntact, FactsInv, WriterKnows
  <2>2. CASE Facts!Idle(w)
    BY <2>1, <2>2, IdleKeeps
  <2>3. CASE Facts!Begin(w) /\ UNCHANGED goal
    <3>1. /\ goal[w] \in FactGoal /\ goal[w].object \in Objects /\ facts \in Seq(FactRow)
          /\ goal = [goal EXCEPT ![w] = goal[w]]
      BY <2>1 DEF FactsInv, FactTypes
    <3>2. QED
      BY <2>1, <2>3, <3>1, WriterMoves DEF Facts!Begin
  <2>4. QED
    BY <1>8, <2>1, <2>2, <2>3 DEF Facts!Conflict
<1>9. ASSUME NEW w \in Writers, Facts!Distill(w)
      PROVE  FactsInv' /\ UNCHANGED facts
  <2>1. PICK o \in Objects :
          /\ goal' = [goal EXCEPT ![w] = [Facts!NoGoal EXCEPT !.object = o]]
          /\ step' = [step EXCEPT ![w] = IF Facts!Contract!Known(facts, o) THEN "known"
                                         ELSE "distilled"]
    BY <1>9 DEF Facts!Distill
  <2> DEFINE g == [Facts!NoGoal EXCEPT !.object = o]
             s == IF Facts!Contract!Known(facts, o) THEN "known" ELSE "distilled"
  <2>2. g \in FactGoal /\ g.object \in Objects
    BY DEF Facts!NoGoal, FactGoal, FactConstants, Facts!Contract!Nothing
  <2>3. s \in {"known", "distilled"}
    OBVIOUS
  <2> HIDE DEF g, s
  <2>4. /\ UNCHANGED <<facts, clock, lock>> /\ goal' = [goal EXCEPT ![w] = g]
        /\ step' = [step EXCEPT ![w] = s] /\ snap' = [snap EXCEPT ![w] = facts]
    BY <1>9, <2>1 DEF Facts!Distill, g, s
  <2>5. \A v \in Writers \ {w} : step[v] \in {"locked", "writing"} => lock' = v
    BY <2>4 DEF FactsInv, WriterKnows
  <2>6. facts \in Seq(FactRow)
    BY DEF FactsInv, FactTypes
  <2>7. QED
    BY <2>2, <2>3, <2>4, <2>5, <2>6, WriterMoves
<1>10. ASSUME NEW w \in Writers, Facts!Corroborated(w)
       PROVE  FactsInv' /\ [Facts!Contract!Next]_facts
  <2>1. PICK i \in Facts!Contract!Current(snap[w]) \ Facts!RowLocks :
          facts' = IF i \in Facts!Contract!Current(facts)
                   THEN [facts EXCEPT ![i].confirmed = TRUE] ELSE facts
    BY <1>10 DEF Facts!Corroborated
  <2>2. /\ step' = [step EXCEPT ![w] = "idle"] /\ goal' = [goal EXCEPT ![w] = Facts!NoGoal]
        /\ snap' = [snap EXCEPT ![w] = << >>] /\ UNCHANGED <<clock, lock>> /\ step[w] = "known"
    BY <1>10 DEF Facts!Corroborated, Facts!Idle
  <2>3. CASE i \notin Facts!Contract!Current(facts)
    <3>1. facts' = facts
      BY <2>1, <2>3
    <3>2. \A v \in Writers \ {w} : step[v] \in {"locked", "writing"} => lock' = v
      BY <2>2 DEF FactsInv, WriterKnows
    <3>3. QED
      BY <1>10, <2>2, <3>1, <3>2, IdleKeeps DEF Facts!Corroborated
  <2>4. CASE i \in Facts!Contract!Current(facts)
    <3>1. facts' = [facts EXCEPT ![i].confirmed = TRUE]
      BY <2>1, <2>4
    <3>2. /\ facts' \in Seq(FactRow) /\ DOMAIN facts' = DOMAIN facts
          /\ \A j \in DOMAIN facts : facts'[j].until = facts[j].until
                                     /\ (j # i => facts'[j] = facts[j])
          /\ Facts!Contract!OneTimeline'
      BY <2>4, <3>1, CorroborationKeeps
    <3>3. FactTypes'
      <4>1. << >> \in Seq(FactRow)
        OBVIOUS
      <4>2. Facts!NoGoal \in FactGoal
        BY DEF FactConstants, Facts!NoGoal, FactGoal, Facts!Contract!Nothing
      <4>3. QED
        BY <2>2, <3>2, <4>1, <4>2 DEF FactsInv, FactTypes
    <3>4. /\ snap'[w] = << >> /\ step'[w] = "idle"
          /\ \A v \in Writers \ {w} : snap'[v] = snap[v] /\ step'[v] = step[v] /\ goal'[v] = goal[v]
      BY <2>2 DEF FactsInv, FactTypes
    <3>5. SnapsAreOld'
      BY <3>2, <3>4 DEF FactsInv, SnapsAreOld
    <3>6. ASSUME NEW v \in Writers, step'[v] = "writing"
          PROVE  /\ \A j \in DOMAIN snap'[v] : snap'[v][j].until = 0 => facts'[j] = snap'[v][j]
                 /\ ~ Facts!Repeats(v)' /\ ~ Facts!OutOfOrder(v)'
      <4>1. v # w /\ step[v] = "writing" /\ snap'[v] = snap[v] /\ goal'[v] = goal[v]
        BY <3>4, <3>6
      <4>2. \A j \in DOMAIN snap[v] : snap[v][j].until = 0 =>
              j \in Facts!RowLocks /\ j \in DOMAIN facts /\ facts[j] = snap[v][j]
        BY <4>1 DEF FactsInv, SnapsAreOld, WriterKnows, Facts!RowLocks, Facts!Contract!Current,
                    Facts!Contract!Open
      <4>3. \A j \in Facts!RowLocks : j # i
        OBVIOUS
      <4>4. QED
        BY <3>2, <4>1, <4>2, <4>3 DEF FactsInv, WriterKnows, Facts!Repeats, Facts!OutOfOrder
    <3>7. WriterKnows'
      BY <2>2, <3>4, <3>6 DEF FactsInv, WriterKnows
    <3>8. Facts!Contract!Next
      BY <2>4, <3>1 DEF Facts!Contract!Next, Facts!Contract!Corroborate, Facts!Contract!Current
    <3>9. QED
      BY <3>2, <3>3, <3>5, <3>7, <3>8 DEF FactsInv
  <2>5. QED
    BY <2>3, <2>4
<1>11. QED
  BY <1>1, <1>2, <1>3, <1>4, <1>5, <1>6, <1>7, <1>8, <1>9, <1>10 DEF Facts!Next

LEMMA FactsStutter == ASSUME FactsInv, UNCHANGED fvars PROVE FactsInv'
BY DEF FactsInv, FactTypes, SnapsAreOld, WriterKnows, fvars, Facts!Repeats, Facts!OutOfOrder,
       Facts!Contract!OneTimeline, Facts!Contract!Current, Facts!Contract!Open,
       Facts!Contract!Nothing

\* The transactions and updates of any number of connections are together one history
\* of the in-memory store, and the facts they leave are one timeline.
THEOREM FactsAreOneHistory == ASSUME FactConstants PROVE Spec => FactsKeepContract
<1>1. Init => FactsInv /\ Facts!Contract!Init
  BY FactsInit DEF Init
<1>2. FactsInv /\ [Next]_<<scene, bvars, fvars, lvars, dvars>>
        => FactsInv' /\ [Facts!Contract!Next]_facts
  <2> SUFFICES ASSUME FactsInv, [Next]_<<scene, bvars, fvars, lvars, dvars>>
               PROVE  FactsInv' /\ [Facts!Contract!Next]_facts
    OBVIOUS
  <2>1. Facts!Next \/ UNCHANGED fvars
    BY DEF Next, OnBlocks, OnFacts, OnFiles, OnCalls
  <2>2. QED
    BY <2>1, FactsStep, FactsStutter DEF fvars
<1>3. FactsInv => Facts!Contract!OneTimeline
  BY DEF FactsInv
<1>4. QED
  BY <1>1, <1>2, <1>3, PTL DEF Spec, FactsKeepContract, Facts!FactsKeepContract,
                               Facts!Contract!Spec

-----------------------------------------------------------------------------
(***************************************************************************)
(* The calls: a call acts when its batch, its single statement or its      *)
(* COMMIT does.  What a transaction has written until then stands for what *)
(* its statements found, since nobody else can write those rows, and what  *)
(* it did not write it did not find (CallsInv).                            *)
(***************************************************************************)

\* The rows of events.
RowsAppended == UNION {Durable!Contract!RowsOf(c) : c \in {d \in Calls : Job[d].kind = "append"}}

\* Databases that send a call as one batch or have a connection for each transaction;
\* an append names each row once, the other calls but the erasure have one row, which
\* is no event, and the erasure has all.
CallConstants ==
  /\ Engines \subseteq {"libsql", "convex", "pool"}
  /\ "none" \notin Calls
  /\ \A c \in Calls :
       /\ Job[c].kind \in {"append", "claim", "release", "complete", "erase"}
       /\ Job[c].rows \in Seq(Rows) /\ Len(Job[c].rows) > 0
       /\ Job[c].kind = "append" =>
            \A i, j \in DOMAIN Job[c].rows : Job[c].rows[i] = Job[c].rows[j] => i = j
       /\ Job[c].kind = "erase" => Durable!Contract!RowsOf(c) = Rows
       /\ Job[c].kind \in {"claim", "release", "complete"} =>
            Len(Job[c].rows) = 1 /\ Job[c].rows[1] \notin RowsAppended

StoredRow == [by : Calls \cup {"none"}, status : {"none", "event", "intent", "applied"},
              args : {Job[c].args : c \in Calls} \cup {"none"}]

InTx(c) == stage[c] > 0 /\ answer[c] = "none"

CallTypes ==
  /\ engine \in {"libsql", "convex", "pool"}
  /\ table \in [Rows -> StoredRow]
  /\ answer \in [Calls -> {"none", "ok", "refused", "error"}]
  /\ seen \in [Calls -> [rows : SUBSET (Rows \X Calls), removals : Nat]]
  /\ removals \in Nat
  /\ stage \in [Calls -> Nat]
  /\ DOMAIN writes = Calls
  /\ \A c \in Calls : DOMAIN writes[c] \subseteq Rows /\ \A r \in DOMAIN writes[c] : writes[c][r] \in StoredRow

\* A row is there as long as it has an owner, who has returned; only an append makes
\* events.
RowsOwned ==
  \A r \in Rows :
    /\ table[r] # Durable!Absent <=> table[r].by \in Calls
    /\ table[r].by \in Calls => answer[table[r].by] # "none"
    /\ table[r].status = "event" => r \in RowsAppended

\* What a call saw was there when it began.
SeenOK ==
  \A c \in Calls :
    /\ seen[c].removals <= removals + 1
    /\ \A k \in seen[c].rows : answer[k[2]] # "none"
    /\ stage[c] > 0 => /\ engine = "pool" /\ seen[c] # Durable!Contract!Unseen
                       /\ Job[c].kind \in {"append", "complete", "erase"}

\* A row is written by one transaction at a time, while that is open.
LocksOK ==
  /\ \A c \in Calls : DOMAIN writes[c] # {} => InTx(c)
  /\ \A c, d \in Calls : c # d => DOMAIN writes[c] \cap DOMAIN writes[d] = {}

AppendOK(c) ==
  /\ stage[c] <= Len(Job[c].rows) + 1
  /\ \A i \in 1..(stage[c] - 1) : Job[c].rows[i] \in DOMAIN writes[c]
  /\ \A r \in DOMAIN writes[c] : /\ \E i \in 1..(stage[c] - 1) : Job[c].rows[i] = r
                                 /\ writes[c][r] = Durable!Contract!RowOf(c, "event")
                                 /\ table[r] = Durable!Absent

CompleteOK(c) ==
  LET r == Job[c].rows[1] IN
  /\ stage[c] \in {1, 2, 3}
  /\ DOMAIN writes[c] \subseteq {r}
  /\ stage[c] = 1 => r \notin DOMAIN writes[c]
  /\ stage[c] = 2 /\ r \notin DOMAIN writes[c] =>
       table[r] # Durable!Absent \/ removals >= seen[c].removals
  /\ stage[c] = 2 /\ r \in DOMAIN writes[c] =>
       table[r] = Durable!Absent /\ writes[c][r] = Durable!Contract!RowOf(c, "intent")
  /\ stage[c] = 3 /\ r \notin DOMAIN writes[c] => removals >= seen[c].removals
  /\ stage[c] = 3 /\ r \in DOMAIN writes[c] =>
       writes[c][r] = IF table[r] = Durable!Absent THEN Durable!Contract!RowOf(c, "applied")
                      ELSE [table[r] EXCEPT !.status = "applied"]

EraseOK(c) ==
  /\ stage[c] \in {1, 2, 3}
  /\ \A r \in DOMAIN writes[c] : writes[c][r] = Durable!Absent
  /\ \A r \in Rows : <<r, table[r].by>> \in seen[c].rows =>
       /\ stage[c] >= 2 /\ table[r].status # "event" => r \in DOMAIN writes[c]
       /\ stage[c] = 3 => r \in DOMAIN writes[c]

TransactionsOK ==
  \A c \in Calls : InTx(c) =>
    /\ Job[c].kind = "append" => AppendOK(c)
    /\ Job[c].kind = "complete" => CompleteOK(c)
    /\ Job[c].kind = "erase" => EraseOK(c)

CallsInv == CallTypes /\ RowsOwned /\ SeenOK /\ LocksOK /\ TransactionsOK

-----------------------------------------------------------------------------
\* What call e may make of row r.
Changes(e, r, new) ==
  \/ new = table[r]
  \/ new = Durable!Absent
  \/ table[r] = Durable!Absent /\ new.by = e /\ (new.status = "event" => r \in RowsAppended)
  \/ table[r] # Durable!Absent /\ new.by = table[r].by /\ new.status = "applied"
     /\ r \notin RowsAppended

LEMMA AbsentRow ==
  /\ Durable!Absent \in StoredRow /\ Durable!Absent.by = "none" /\ Durable!Absent.status = "none"
  /\ \A c \in Calls, s \in {"event", "intent", "applied"} :
       LET row == Durable!Contract!RowOf(c, s)
       IN row \in StoredRow /\ row.by = c /\ row.status = s /\ row.args = Job[c].args
  /\ Durable!Contract!Absent = Durable!Absent
BY DEF Durable!Absent, Durable!Contract!Absent, Durable!Contract!RowOf, StoredRow

LEMMA JobRows ==
  ASSUME CallConstants, NEW c \in Calls
  PROVE  /\ Durable!Contract!RowsOf(c) \subseteq Rows /\ DOMAIN Job[c].rows = 1..Len(Job[c].rows)
         /\ Durable!Contract!Key(c) = Job[c].rows[1] /\ Job[c].rows[1] \in Rows
         /\ Job[c].rows[1] \in Durable!Contract!RowsOf(c)
         /\ Durable!Key(c) = Job[c].rows[1]
         /\ Job[c].kind \in {"claim", "release", "complete"} =>
              Durable!Contract!RowsOf(c) = {Job[c].rows[1]}
         /\ Durable!Contract!Kind(c) = Job[c].kind /\ Durable!Kind(c) = Job[c].kind
BY DEF CallConstants, Durable!Contract!RowsOf, Durable!Contract!Key, Durable!Key,
       Durable!Contract!Kind, Durable!Kind

\* What the contract lets a call do to each row.
LEMMA OutcomeChanges ==
  ASSUME CallConstants, CallTypes, RowsOwned, NEW e \in Calls, NEW o \in Durable!Contract!Outcomes(e)
  PROVE  /\ o[1] \in [Rows -> StoredRow] /\ o[2] \in {"ok", "refused"}
         /\ \A r \in Rows : Changes(e, r, o[1][r])
<1> USE JobRows, AbsentRow
<1> DEFINE k == Job[e].rows[1]
<1>0. table \in [Rows -> StoredRow]
  BY DEF CallTypes
<1>1. CASE Job[e].kind = "append"
  <2>1. \/ o = <<table, "refused">>
        \/ /\ Durable!Contract!Present(table, Durable!Contract!RowsOf(e)) = {}
           /\ o = <<Durable!Contract!Put(table, Durable!Contract!RowsOf(e),
                                         Durable!Contract!RowOf(e, "event")), "ok">>
    BY <1>1 DEF Durable!Contract!Outcomes, Durable!Contract!Append
  <2>2. Durable!Contract!RowsOf(e) \subseteq RowsAppended
    BY <1>1 DEF RowsAppended
  <2>3. QED
    BY <1>0, <2>1, <2>2 DEF Durable!Contract!Put, Durable!Contract!Present, Changes
<1>2. CASE Job[e].kind = "claim"
  <2>1. \/ o = <<table, "refused">>
        \/ /\ table[k] = Durable!Absent
           /\ o = <<Durable!Contract!Put(table, {k}, Durable!Contract!RowOf(e, "intent")), "ok">>
    BY <1>2 DEF Durable!Contract!Outcomes, Durable!Contract!Claim
  <2>2. QED
    BY <1>0, <2>1 DEF Durable!Contract!Put, Changes
<1>3. CASE Job[e].kind = "release"
  <2>1. \/ o = <<table, "refused">>
        \/ o = <<Durable!Contract!Remove(table, {k}), "ok">>
    BY <1>3 DEF Durable!Contract!Outcomes, Durable!Contract!Release
  <2>2. QED
    BY <1>0, <2>1 DEF Durable!Contract!Remove, Durable!Contract!Put, Changes
<1>4. CASE Job[e].kind = "complete"
  <2> DEFINE row == IF table[k] = Durable!Absent THEN Durable!Contract!RowOf(e, "applied")
                    ELSE [table[k] EXCEPT !.status = "applied"]
  <2>1. \/ o = <<table, "ok">>
        \/ o = <<[table EXCEPT ![k] = row], "ok">>
    BY <1>0, <1>4 DEF Durable!Contract!Outcomes, Durable!Contract!Complete
  <2>2. row \in StoredRow /\ Changes(e, k, row)
    <3>1. k \notin RowsAppended
      BY <1>4 DEF CallConstants
    <3>2. CASE table[k] = Durable!Absent
      BY <3>2 DEF Changes
    <3>3. CASE table[k] # Durable!Absent
      BY <1>0, <3>1, <3>3 DEF Changes, StoredRow
    <3>4. QED
      BY <3>2, <3>3
  <2> HIDE DEF row
  <2>3. QED
    BY <1>0, <2>1, <2>2 DEF Changes
<1>5. CASE Job[e].kind = "erase"
  <2> DEFINE due == {r \in Rows : <<r, table[r].by>> \in seen[e].rows}
  <2>0. Durable!Contract!Outcomes(e) =
          {<<Durable!Contract!Remove(table, due \cup more), "ok">> : more \in SUBSET Rows}
    BY <1>5 DEF Durable!Contract!Outcomes, Durable!Contract!Erase
  <2> HIDE DEF due
  <2>1. PICK more \in SUBSET Rows : o = <<Durable!Contract!Remove(table, due \cup more), "ok">>
    BY <2>0
  <2>2. QED
    BY <1>0, <2>1 DEF Durable!Contract!Remove, Durable!Contract!Put, Changes
<1>6. QED
  BY <1>1, <1>2, <1>3, <1>4, <1>5 DEF CallConstants

\* A call returns what it did to the table: the rows of the others stay as they are.
LEMMA ActKeeps ==
  ASSUME CallConstants, CallsInv, NEW e \in Calls, Durable!Contract!Begun(e),
         NEW a \in {"ok", "refused", "error"}, answer' = [answer EXCEPT ![e] = a],
         table' \in [Rows -> StoredRow], \A r \in Rows : Changes(e, r, table'[r]),
         removals' = IF Durable!Contract!Removes(table') THEN removals + 1 ELSE removals,
         UNCHANGED <<engine, seen, stage>>,
         DOMAIN writes' = Calls, DOMAIN writes'[e] = {},
         \A c \in Calls \ {e} : writes'[c] = writes[c],
         \A c \in Calls \ {e} : \A r \in DOMAIN writes[c] : table'[r] = table[r]
  PROVE  CallsInv'
<1> USE AbsentRow
<1>1. /\ answer[e] = "none" /\ answer'[e] = a /\ a # "none"
      /\ \A c \in Calls \ {e} : answer'[c] = answer[c]
      /\ \A c \in Calls : answer[c] # "none" => answer'[c] # "none"
  BY DEF CallsInv, CallTypes, Durable!Contract!Begun
<1>2. /\ removals' \in Nat /\ removals' >= removals
      /\ \A r \in Rows : table[r] # Durable!Absent /\ table'[r] = Durable!Absent
                           => removals' = removals + 1
  BY DEF CallsInv, CallTypes, Durable!Contract!Removes
<1>3. /\ DOMAIN writes' = Calls /\ DOMAIN writes'[e] = {}
      /\ \A c \in Calls \ {e} : writes'[c] = writes[c]
  OBVIOUS
<1>4. CallTypes'
  BY <1>1, <1>2, <1>3 DEF CallsInv, CallTypes
<1>5. RowsOwned'
  <2> SUFFICES ASSUME NEW r \in Rows
               PROVE  /\ table'[r] # Durable!Absent <=> table'[r].by \in Calls
                      /\ table'[r].by \in Calls => answer'[table'[r].by] # "none"
                      /\ table'[r].status = "event" => r \in RowsAppended
    BY DEF RowsOwned
  <2>1. Changes(e, r, table'[r]) /\ "none" \notin Calls
    BY DEF CallConstants
  <2>2. /\ table[r] # Durable!Absent <=> table[r].by \in Calls
        /\ table[r].by \in Calls => answer[table[r].by] # "none"
        /\ table[r].status = "event" => r \in RowsAppended
    BY DEF CallsInv, RowsOwned
  <2>3. QED
    BY <1>1, <2>1, <2>2 DEF Changes
<1>6. SeenOK'
  BY <1>1, <1>2 DEF CallsInv, SeenOK, CallTypes
<1>7. LocksOK'
  BY <1>1, <1>3 DEF CallsInv, LocksOK, InTx
<1>8. ASSUME NEW c \in Calls, InTx(c)'
      PROVE  /\ c # e /\ InTx(c) /\ writes'[c] = writes[c] /\ stage'[c] = stage[c]
             /\ \A r \in DOMAIN writes[c] : table'[r] = table[r]
  BY <1>1, <1>3, <1>8 DEF InTx
<1>9. ASSUME NEW c \in Calls, InTx(c)', Job[c].kind = "append"
      PROVE  AppendOK(c)'
  BY <1>8, <1>9 DEF CallsInv, TransactionsOK, AppendOK
<1>10. ASSUME NEW c \in Calls, InTx(c)', Job[c].kind = "complete"
       PROVE  CompleteOK(c)'
  <2>1. CompleteOK(c) /\ seen[c].removals <= removals + 1 /\ seen[c].removals \in Nat
    BY <1>8, <1>10 DEF CallsInv, TransactionsOK, SeenOK, CallTypes
  <2>2. Job[c].rows[1] \in Rows
    BY JobRows
  <2> DEFINE r == Job[c].rows[1]
  <2>3. /\ stage'[c] = stage[c] /\ writes'[c] = writes[c] /\ seen'[c] = seen[c]
        /\ r \in DOMAIN writes[c] => table'[r] = table[r]
    BY <1>8, <1>10
  <2>4. /\ removals \in Nat /\ removals' >= removals
        /\ table[r] # Durable!Absent /\ table'[r] = Durable!Absent => removals' >= seen[c].removals
        /\ removals >= seen[c].removals => removals' >= seen[c].removals
    BY <1>2, <2>1, <2>2 DEF CallsInv, CallTypes
  <2> HIDE DEF r
  <2>5. stage'[c] = 2 /\ r \notin DOMAIN writes'[c] =>
          table'[r] # Durable!Absent \/ removals' >= seen'[c].removals
    BY <2>1, <2>3, <2>4 DEF CompleteOK, r
  <2>6. stage'[c] = 3 /\ r \notin DOMAIN writes'[c] => removals' >= seen'[c].removals
    BY <2>1, <2>3, <2>4 DEF CompleteOK, r
  <2>7. /\ stage'[c] = 2 /\ r \in DOMAIN writes'[c] =>
             table'[r] = Durable!Absent /\ writes'[c][r] = Durable!Contract!RowOf(c, "intent")
        /\ stage'[c] = 3 /\ r \in DOMAIN writes'[c] =>
             writes'[c][r] = IF table'[r] = Durable!Absent
                             THEN Durable!Contract!RowOf(c, "applied")
                             ELSE [table'[r] EXCEPT !.status = "applied"]
    BY <2>1, <2>3 DEF CompleteOK, r
  <2>8. /\ stage'[c] \in {1, 2, 3} /\ DOMAIN writes'[c] \subseteq {r}
        /\ stage'[c] = 1 => r \notin DOMAIN writes'[c]
    BY <2>1, <2>3 DEF CompleteOK, r
  <2>9. QED
    BY <2>5, <2>6, <2>7, <2>8 DEF CompleteOK, r
<1>11. ASSUME NEW c \in Calls, InTx(c)', Job[c].kind = "erase"
       PROVE  EraseOK(c)'
  <2>1. EraseOK(c) /\ c # e /\ writes'[c] = writes[c] /\ stage'[c] = stage[c] /\ seen' = seen
    BY <1>8, <1>11 DEF CallsInv, TransactionsOK
  <2>2. ASSUME NEW r \in Rows, <<r, table'[r].by>> \in seen[c].rows
        PROVE  /\ <<r, table[r].by>> \in seen[c].rows
               /\ table'[r].status # "event" => table[r].status # "event"
    <3>1. table'[r].by \in Calls /\ answer[table'[r].by] # "none"
      BY <2>2 DEF CallsInv, SeenOK, CallTypes
    <3>2. table'[r].by # e /\ table'[r] # Durable!Absent
      BY <1>1, <3>1 DEF CallConstants
    <3>3. table'[r] = table[r] \/ (table'[r].by = table[r].by /\ r \notin RowsAppended)
      BY <3>2 DEF Changes
    <3>4. table[r].status = "event" => r \in RowsAppended
      BY DEF CallsInv, RowsOwned
    <3>5. QED
      BY <2>2, <3>3, <3>4
  <2>3. /\ stage'[c] \in {1, 2, 3}
        /\ \A r \in DOMAIN writes'[c] : writes'[c][r] = Durable!Absent
    BY <2>1 DEF EraseOK
  <2>4. ASSUME NEW r \in Rows, <<r, table'[r].by>> \in seen'[c].rows
        PROVE  /\ stage'[c] >= 2 /\ table'[r].status # "event" => r \in DOMAIN writes'[c]
               /\ stage'[c] = 3 => r \in DOMAIN writes'[c]
    <3>1. <<r, table[r].by>> \in seen[c].rows /\ (table'[r].status # "event" => table[r].status # "event")
      BY <2>1, <2>2, <2>4
    <3>2. QED
      BY <2>1, <3>1 DEF EraseOK
  <2>5. QED
    BY <2>3, <2>4 DEF EraseOK
<1>12. QED
  BY <1>4, <1>5, <1>6, <1>7, <1>9, <1>10, <1>11 DEF CallsInv, TransactionsOK

\* A call that does what the contract lets it do is an act of the contract.
LEMMA ActOfContract ==
  ASSUME CallConstants, CallsInv, NEW e \in Calls, Durable!Contract!Begun(e),
         NEW o \in Durable!Contract!Outcomes(e), NEW a \in {o[2], "error"},
         answer' = [answer EXCEPT ![e] = a], table' = o[1],
         removals' = IF Durable!Contract!Removes(o[1]) THEN removals + 1 ELSE removals,
         UNCHANGED <<engine, seen, stage>>,
         DOMAIN writes' = Calls, DOMAIN writes'[e] = {},
         \A c \in Calls \ {e} : writes'[c] = writes[c],
         \A c \in Calls \ {e} : \A r \in DOMAIN writes[c] : o[1][r] = table[r]
  PROVE  CallsInv' /\ Durable!Contract!Next
<1>1. /\ o[1] \in [Rows -> StoredRow] /\ o[2] \in {"ok", "refused"}
      /\ \A r \in Rows : Changes(e, r, o[1][r])
  BY OutcomeChanges DEF CallsInv
<1>2. Durable!Contract!Act(e)
  BY DEF Durable!Contract!Act
<1>3. CallsInv'
  BY <1>1, ActKeeps
<1>4. QED
  BY <1>2, <1>3 DEF Durable!Contract!Next

\* The completion of a row, whether it was there or not.
Completed(e, k) ==
  [table EXCEPT ![k] = IF table[k] = Durable!Absent THEN Durable!Contract!RowOf(e, "applied")
                       ELSE [table[k] EXCEPT !.status = "applied"]]

LEMMA CompleteOutcome ==
  ASSUME CallConstants, CallTypes, NEW e \in Calls, Job[e].kind = "complete"
  PROVE  /\ <<Completed(e, Job[e].rows[1]), "ok">> \in Durable!Contract!Outcomes(e)
         /\ removals >= seen[e].removals => <<table, "ok">> \in Durable!Contract!Outcomes(e)
BY JobRows, AbsentRow DEF Durable!Contract!Outcomes, Durable!Contract!Complete, Completed, CallTypes

LEMMA EraseOutcome ==
  ASSUME CallConstants, CallTypes, NEW e \in Calls, Job[e].kind = "erase", NEW S \in SUBSET Rows,
         \A r \in Rows : <<r, table[r].by>> \in seen[e].rows => r \in S \/ table[r] = Durable!Absent
  PROVE  <<Durable!Contract!Remove(table, S), "ok">> \in Durable!Contract!Outcomes(e)
<1> DEFINE due == {r \in Rows : <<r, table[r].by>> \in seen[e].rows}
<1>1. Durable!Contract!Outcomes(e) =
        {<<Durable!Contract!Remove(table, due \cup more), "ok">> : more \in SUBSET Rows}
  BY JobRows DEF Durable!Contract!Outcomes, Durable!Contract!Erase
<1>2. \A r \in Rows : r \in due => r \in S \/ table[r] = Durable!Absent
  OBVIOUS
<1> HIDE DEF due
<1>3. Durable!Contract!Remove(table, due \cup S) = Durable!Contract!Remove(table, S)
  BY <1>2, AbsentRow DEF Durable!Contract!Remove, Durable!Contract!Put
<1>4. QED
  BY <1>1, <1>3

LEMMA ClaimOutcome ==
  ASSUME CallConstants, CallTypes, NEW e \in Calls, Job[e].kind = "claim"
  PROVE  Durable!BatchClaim(e) \in Durable!Contract!Outcomes(e)
<1> DEFINE k == Job[e].rows[1]
<1>1. table \in [Rows -> StoredRow] /\ k \in Rows
  BY JobRows DEF CallTypes
<1>2. [table EXCEPT ![k] = Durable!Contract!RowOf(e, "intent")]
        = Durable!Contract!Put(table, {k}, Durable!Contract!RowOf(e, "intent"))
  BY <1>1 DEF Durable!Contract!Put
<1> DEFINE new == Durable!Contract!Put(table, {k}, Durable!Contract!RowOf(e, "intent"))
<1>3. Durable!BatchClaim(e) = IF table[k] # Durable!Absent THEN <<table, "refused">> ELSE <<new, "ok">>
  BY <1>2, JobRows DEF Durable!BatchClaim
<1>4. Durable!Contract!Outcomes(e) =
        IF table[k] = Durable!Absent THEN {<<new, "ok">>} ELSE {<<table, "refused">>}
  BY JobRows, AbsentRow DEF Durable!Contract!Outcomes, Durable!Contract!Claim
<1> HIDE DEF new, k
<1>5. QED
  BY <1>3, <1>4

LEMMA ReleaseOutcome ==
  ASSUME CallConstants, CallTypes, NEW e \in Calls, Job[e].kind = "release"
  PROVE  Durable!BatchRelease(e) \in Durable!Contract!Outcomes(e)
<1> DEFINE k == Job[e].rows[1]
<1>1. table \in [Rows -> StoredRow] /\ k \in Rows
  BY JobRows DEF CallTypes
<1>2. [table EXCEPT ![k] = Durable!Absent] = Durable!Contract!Remove(table, {k})
  BY <1>1, AbsentRow DEF Durable!Contract!Remove, Durable!Contract!Put
<1> DEFINE new == Durable!Contract!Remove(table, {k})
           held == table[k].status = "intent" /\ table[k].args = Job[e].args
<1>3. Durable!BatchRelease(e) = IF held THEN <<new, "ok">> ELSE <<table, "refused">>
  BY <1>2, JobRows DEF Durable!BatchRelease
<1>4. Durable!Contract!Outcomes(e) = IF held THEN {<<new, "ok">>} ELSE {<<table, "refused">>}
  BY JobRows DEF Durable!Contract!Outcomes, Durable!Contract!Release
<1> HIDE DEF new, k, held
<1>5. QED
  BY <1>3, <1>4

\* The batch of libsql.
LEMMA BatchOutcome ==
  ASSUME CallConstants, CallTypes, NEW e \in Calls
  PROVE  Durable!Batch(e) \in Durable!Contract!Outcomes(e)
<1> DEFINE k == Job[e].rows[1]
<1>0. table \in [Rows -> StoredRow] /\ k \in Rows
  BY JobRows DEF CallTypes
<1>1. CASE Job[e].kind = "append"
  <2>1. (\E i \in DOMAIN Job[e].rows : table[Job[e].rows[i]] # Durable!Absent)
          <=> Durable!Contract!Present(table, Durable!Contract!RowsOf(e)) # {}
    BY AbsentRow DEF Durable!Contract!Present, Durable!Contract!RowsOf
  <2>2. Durable!Batch(e) = Durable!BatchAppend(e)
    BY <1>1, JobRows DEF Durable!Batch
  <2> DEFINE new == Durable!Contract!Put(table, Durable!Contract!RowsOf(e),
                                         Durable!Contract!RowOf(e, "event"))
             there == Durable!Contract!Present(table, Durable!Contract!RowsOf(e))
  <2>3. Durable!Batch(e) = IF there # {} THEN <<table, "refused">> ELSE <<new, "ok">>
    BY <2>1, <2>2 DEF Durable!BatchAppend
  <2>4. Durable!Contract!Outcomes(e) =
          IF there = {} THEN {<<new, "ok">>} ELSE {<<table, "refused">>}
    BY <1>1, JobRows DEF Durable!Contract!Outcomes, Durable!Contract!Append
  <2> HIDE DEF new, there
  <2>5. QED
    BY <2>3, <2>4
<1>2. CASE Job[e].kind = "claim"
  BY <1>2, ClaimOutcome, JobRows DEF Durable!Batch
<1>3. CASE Job[e].kind = "release"
  BY <1>3, ReleaseOutcome, JobRows DEF Durable!Batch
<1>4. CASE Job[e].kind = "complete"
  <2> DEFINE ensured == IF table[k] = Durable!Absent
                        THEN [table EXCEPT ![k] = Durable!Contract!RowOf(e, "intent")]
                        ELSE table
  <2>1. Durable!Batch(e) = <<[ensured EXCEPT ![k].status = "applied"], "ok">>
    BY <1>4, JobRows DEF Durable!Batch, Durable!BatchComplete
  <2>2. [Durable!Contract!RowOf(e, "intent") EXCEPT !.status = "applied"]
          = Durable!Contract!RowOf(e, "applied")
    BY DEF Durable!Contract!RowOf
  <2>3. [ensured EXCEPT ![k].status = "applied"] = Completed(e, k)
    BY <1>0, <2>2 DEF Completed
  <2>4. Durable!Batch(e) = <<Completed(e, k), "ok">>
    BY <2>1, <2>3
  <2> HIDE DEF ensured
  <2>5. QED
    BY <1>4, <2>4, CompleteOutcome
<1>5. CASE Job[e].kind = "erase"
  <2>1. Durable!Batch(e) = <<Durable!Contract!Remove(table, Rows), "ok">>
    BY <1>5, JobRows DEF Durable!Batch, Durable!BatchErase, CallConstants
  <2>2. QED
    BY <1>5, <2>1, EraseOutcome
<1>6. QED
  BY <1>1, <1>2, <1>3, <1>4, <1>5 DEF CallConstants

\* The mutation of Convex is no other than the batch.
LEMMA MutationOutcome ==
  ASSUME CallConstants, CallTypes, NEW e \in Calls
  PROVE  Durable!Mutation(e) \in Durable!Contract!Outcomes(e)
<1> DEFINE k == Job[e].rows[1]
<1>0. table \in [Rows -> StoredRow] /\ k \in Rows
  BY JobRows DEF CallTypes
<1>1. CASE Job[e].kind = "append"
  <2> DEFINE found == {r \in Durable!Contract!RowsOf(e) : table[r] # Durable!Absent}
  <2>1. found = Durable!Contract!Present(table, Durable!Contract!RowsOf(e))
    BY AbsentRow DEF Durable!Contract!Present
  <2>2. Durable!Mutation(e) = IF found # {} THEN <<table, "refused">>
          ELSE <<Durable!Contract!Put(table, Durable!Contract!RowsOf(e),
                                      Durable!Contract!RowOf(e, "event")), "ok">>
    BY <1>1, JobRows DEF Durable!Mutation, Durable!MutationAppend, Durable!Contract!Put
  <2> HIDE DEF found
  <2>3. QED
    BY <1>1, <2>1, <2>2, JobRows DEF Durable!Contract!Outcomes, Durable!Contract!Append
<1>2. CASE Job[e].kind = "claim"
  <2>1. Durable!Mutation(e) = Durable!BatchClaim(e)
    BY <1>2, JobRows DEF Durable!Mutation, Durable!MutationClaim, Durable!BatchClaim
  <2>2. QED
    BY <1>2, <2>1, ClaimOutcome
<1>3. CASE Job[e].kind = "release"
  <2>1. Durable!Mutation(e) = Durable!BatchRelease(e)
    BY <1>3, JobRows, AbsentRow DEF Durable!Mutation, Durable!MutationRelease, Durable!BatchRelease
  <2>2. QED
    BY <1>3, <2>1, ReleaseOutcome
<1>4. CASE Job[e].kind = "complete"
  <2>1. Durable!Mutation(e) = <<Completed(e, k), "ok">>
    BY <1>0, <1>4, JobRows DEF Durable!Mutation, Durable!MutationComplete, Completed
  <2>2. QED
    BY <1>4, <2>1, CompleteOutcome
<1>5. CASE Job[e].kind = "erase"
  <2>1. Durable!Mutation(e) = <<Durable!Contract!Remove(table, Rows), "ok">>
    BY <1>5, JobRows, AbsentRow DEF Durable!Mutation, Durable!MutationErase, CallConstants,
                                    Durable!Contract!Remove, Durable!Contract!Put
  <2>2. QED
    BY <1>5, <2>1, EraseOutcome
<1>6. QED
  BY <1>1, <1>2, <1>3, <1>4, <1>5 DEF CallConstants

-----------------------------------------------------------------------------
\* One call on a database that takes it as a whole.
LEMMA WholeKeeps ==
  ASSUME CallConstants, CallsInv, NEW e \in Calls, Durable!Whole(e)
  PROVE  CallsInv' /\ Durable!Contract!Next
<1> DEFINE o == IF engine = "libsql" THEN Durable!Batch(e) ELSE Durable!Mutation(e)
<1>1. o \in Durable!Contract!Outcomes(e)
  BY BatchOutcome, MutationOutcome DEF CallsInv
<1>2. /\ Durable!Contract!Begun(e) /\ table' = o[1]
      /\ removals' = IF Durable!Contract!Removes(o[1]) THEN removals + 1 ELSE removals
      /\ UNCHANGED <<engine, seen, stage, writes>>
  BY DEF Durable!Whole, Durable!Store
<1>3. PICK a \in {o[2], "error"} : answer' = [answer EXCEPT ![e] = a]
  BY DEF Durable!Whole, Durable!Answer
<1>4. engine # "pool"
  BY DEF Durable!Whole
<1> HIDE DEF o
<1>5. \A c \in Calls : DOMAIN writes[c] = {}
  BY <1>4 DEF CallsInv, LocksOK, SeenOK, InTx
<1>6. DOMAIN writes = Calls
  BY DEF CallsInv, CallTypes
<1>7. QED
  BY <1>1, <1>2, <1>3, <1>5, <1>6, ActOfContract

\* A single statement waits for the row it is about.
LEMMA AloneKeeps ==
  ASSUME CallConstants, CallsInv, NEW e \in Calls, Durable!Alone(e)
  PROVE  CallsInv' /\ Durable!Contract!Next
<1> DEFINE o == IF Job[e].kind = "claim" THEN Durable!BatchClaim(e) ELSE Durable!BatchRelease(e)
           k == Job[e].rows[1]
<1>1. /\ Durable!Contract!Begun(e) /\ Job[e].kind \in {"claim", "release"} /\ ~ Durable!Waits(e, 1)
      /\ table' = o[1]
      /\ removals' = IF Durable!Contract!Removes(o[1]) THEN removals + 1 ELSE removals
      /\ UNCHANGED <<engine, seen, stage, writes>>
  BY JobRows DEF Durable!Alone, Durable!Store, Durable!Single
<1>2. PICK a \in {o[2], "error"} : answer' = [answer EXCEPT ![e] = a]
  BY JobRows DEF Durable!Alone, Durable!Answer
<1>3. o \in Durable!Contract!Outcomes(e)
  BY <1>1, ClaimOutcome, ReleaseOutcome DEF CallsInv
<1>4. k \in Rows /\ \A r \in Rows \ {k} : o[1][r] = table[r]
  BY <1>1, JobRows DEF Durable!BatchClaim, Durable!BatchRelease, CallsInv, CallTypes
<1>5. \A c \in Calls \ {e} : k \notin DOMAIN writes[c]
  BY <1>1, JobRows DEF Durable!Waits, Durable!Locked
<1>6. DOMAIN writes = Calls /\ DOMAIN writes[e] = {}
  BY <1>1 DEF CallsInv, CallTypes, LocksOK, InTx, SeenOK
<1> HIDE DEF o
<1>7. \A c \in Calls \ {e} : \A r \in DOMAIN writes[c] : o[1][r] = table[r]
  BY <1>4, <1>5 DEF CallsInv, CallTypes
<1>8. QED
  BY <1>1, <1>2, <1>3, <1>6, <1>7, ActOfContract

\* What a transaction commits is an outcome of its call.
LEMMA CommitOutcome ==
  ASSUME CallConstants, CallsInv, NEW e \in Calls, InTx(e), stage[e] > Durable!Last(e)
  PROVE  <<Durable!Overlay(writes[e]), "ok">> \in Durable!Contract!Outcomes(e)
<1> DEFINE new == Durable!Overlay(writes[e])
           k == Job[e].rows[1]
<1>0. /\ table \in [Rows -> StoredRow] /\ k \in Rows /\ DOMAIN writes[e] \subseteq Rows
      /\ stage[e] \in Nat /\ removals \in Nat /\ seen[e].removals \in Nat
  BY JobRows DEF CallsInv, CallTypes
<1>1. CASE Job[e].kind = "append"
  <2>1. AppendOK(e) /\ stage[e] = Len(Job[e].rows) + 1 /\ DOMAIN Job[e].rows = 1..Len(Job[e].rows)
        /\ Len(Job[e].rows) \in Nat
    BY <1>0, <1>1, JobRows DEF CallsInv, TransactionsOK, AppendOK, Durable!Last, CallConstants
  <2>2. DOMAIN writes[e] = Durable!Contract!RowsOf(e)
    BY <2>1 DEF AppendOK, Durable!Contract!RowsOf
  <2>3. /\ \A r \in DOMAIN writes[e] : /\ table[r] = Durable!Absent
                                       /\ writes[e][r] = Durable!Contract!RowOf(e, "event")
    BY <2>1 DEF AppendOK
  <2>4. Durable!Contract!Present(table, Durable!Contract!RowsOf(e)) = {}
    BY <2>2, <2>3, AbsentRow DEF Durable!Contract!Present
  <2>5. new = Durable!Contract!Put(table, Durable!Contract!RowsOf(e),
                                   Durable!Contract!RowOf(e, "event"))
    BY <2>2, <2>3 DEF Durable!Overlay, Durable!Contract!Put
  <2>6. QED
    BY <1>1, <2>4, <2>5, JobRows DEF Durable!Contract!Outcomes, Durable!Contract!Append
<1>2. CASE Job[e].kind = "complete"
  <2>1. CompleteOK(e) /\ stage[e] = 3
    BY <1>0, <1>2, JobRows DEF CallsInv, TransactionsOK, CompleteOK, Durable!Last
  <2>2. CASE k \in DOMAIN writes[e]
    <3>1. DOMAIN writes[e] = {k}
      BY <2>1, <2>2 DEF CompleteOK
    <3>2. writes[e][k] = IF table[k] = Durable!Absent THEN Durable!Contract!RowOf(e, "applied")
                         ELSE [table[k] EXCEPT !.status = "applied"]
      BY <2>1, <2>2 DEF CompleteOK
    <3>3. new = Completed(e, k)
      BY <1>0, <3>1, <3>2 DEF Durable!Overlay, Completed
    <3>4. QED
      BY <1>2, <3>3, CompleteOutcome DEF CallsInv
  <2>3. CASE k \notin DOMAIN writes[e]
    <3>1. DOMAIN writes[e] = {} /\ removals >= seen[e].removals
      BY <2>1, <2>3 DEF CompleteOK
    <3>2. new = table
      BY <1>0, <3>1 DEF Durable!Overlay
    <3>3. QED
      BY <1>2, <3>1, <3>2, CompleteOutcome DEF CallsInv
  <2>4. QED
    BY <2>2, <2>3
<1>3. CASE Job[e].kind = "erase"
  <2>1. EraseOK(e) /\ stage[e] = 3
    BY <1>0, <1>3, JobRows DEF CallsInv, TransactionsOK, EraseOK, Durable!Last
  <2>2. new = Durable!Contract!Remove(table, DOMAIN writes[e])
    BY <1>0, <2>1, AbsentRow DEF EraseOK, Durable!Overlay, Durable!Contract!Remove,
                                 Durable!Contract!Put
  <2>3. \A r \in Rows : <<r, table[r].by>> \in seen[e].rows => r \in DOMAIN writes[e]
    BY <2>1 DEF EraseOK
  <2>4. QED
    BY <1>0, <1>3, <2>2, <2>3, EraseOutcome DEF CallsInv
<1>4. QED
  BY <1>1, <1>2, <1>3 DEF CallsInv, SeenOK, InTx

LEMMA CommitKeeps ==
  ASSUME CallConstants, CallsInv, NEW e \in Calls, Durable!Commit(e)
  PROVE  CallsInv' /\ Durable!Contract!Next
<1> DEFINE o == <<Durable!Overlay(writes[e]), "ok">>
<1>1. InTx(e) /\ stage[e] > Durable!Last(e) /\ engine = "pool"
  BY DEF Durable!Commit, Durable!InTransaction, InTx, CallsInv, SeenOK
<1>2. o \in Durable!Contract!Outcomes(e)
  BY <1>1, CommitOutcome
<1>3. /\ table' = o[1] /\ removals' = IF Durable!Contract!Removes(o[1]) THEN removals + 1 ELSE removals
      /\ UNCHANGED <<engine, seen, stage>> /\ writes' = [writes EXCEPT ![e] = << >>]
  BY <1>1 DEF Durable!Commit, Durable!Store, Durable!NoWrites
<1>4. PICK a \in {o[2], "error"} : answer' = [answer EXCEPT ![e] = a]
  BY DEF Durable!Commit, Durable!Answer
<1>5. Durable!Contract!Begun(e)
  BY <1>1 DEF CallsInv, SeenOK, InTx, Durable!Contract!Begun
<1>6. /\ DOMAIN writes' = Calls /\ DOMAIN writes'[e] = {}
      /\ \A c \in Calls \ {e} : writes'[c] = writes[c]
  <2>1. DOMAIN << >> = {}
    OBVIOUS
  <2>2. QED
    BY <1>3, <2>1 DEF CallsInv, CallTypes
<1>7. ASSUME NEW c \in Calls \ {e}, NEW r \in DOMAIN writes[c]
      PROVE  o[1][r] = table[r]
  <2>1. r \in Rows /\ r \notin DOMAIN writes[e]
    BY DEF CallsInv, CallTypes, LocksOK
  <2>2. QED
    BY <2>1 DEF Durable!Overlay
<1> HIDE DEF o
<1>8. \A c \in Calls \ {e} : \A r \in DOMAIN writes[c] : o[1][r] = table[r]
  BY <1>7
<1>9. /\ table' = o[1] /\ removals' = IF Durable!Contract!Removes(o[1]) THEN removals + 1 ELSE removals
      /\ UNCHANGED <<engine, seen, stage>>
  BY <1>3
<1>10. QED
  BY <1>2, <1>4, <1>5, <1>6, <1>8, <1>9, ActOfContract

\* A transaction that ends without a commit has refused or thrown.
LEMMA RollbackKeeps ==
  ASSUME CallConstants, CallsInv, NEW e \in Calls, Durable!Rollback(e)
  PROVE  CallsInv' /\ Durable!Contract!Next
<1>1. InTx(e) /\ stage[e] <= Durable!Last(e) /\ engine = "pool"
  BY DEF Durable!Rollback, Durable!InTransaction, InTx, CallsInv, SeenOK
<1>2. /\ UNCHANGED <<table, engine, seen, removals, stage>>
      /\ writes' = [writes EXCEPT ![e] = << >>]
  BY <1>1 DEF Durable!Rollback, Durable!NoWrites, Durable!hist
<1>3. Durable!Contract!Begun(e)
  BY <1>1 DEF CallsInv, SeenOK, InTx, Durable!Contract!Begun
<1>4. /\ DOMAIN writes' = Calls /\ DOMAIN writes'[e] = {}
      /\ \A c \in Calls \ {e} : writes'[c] = writes[c]
  <2>1. DOMAIN << >> = {}
    OBVIOUS
  <2>2. QED
    BY <1>2, <2>1 DEF CallsInv, CallTypes
<1>5. ASSUME NEW a \in {"refused", "error"}, answer' = [answer EXCEPT ![e] = a]
      PROVE  CallsInv'
  <2>1. /\ table' \in [Rows -> StoredRow] /\ \A r \in Rows : Changes(e, r, table'[r])
        /\ ~ Durable!Contract!Removes(table')
    BY <1>2, AbsentRow DEF CallsInv, CallTypes, Changes, Durable!Contract!Removes
  <2>2. QED
    BY <1>2, <1>3, <1>4, <1>5, <2>1, ActKeeps
<1>6. CASE Durable!Fails(e, stage[e], Durable!Visible(e))
  <2> DEFINE n == stage[e]
             r == Job[e].rows[n]
  <2>1. answer' = [answer EXCEPT ![e] = "refused"]
    BY <1>6 DEF Durable!Rollback, Durable!Answer
  <2>2. Job[e].kind = "append" /\ n \in DOMAIN Job[e].rows /\ Durable!Overlay(writes[e])[r] # Durable!Absent
    <3>1. Job[e].kind = "append" /\ Durable!Overlay(writes[e])[r] # Durable!Absent
      BY <1>1, <1>6, JobRows DEF Durable!Fails, Durable!Visible
    <3>2. n \in Nat /\ n > 0 /\ n <= Len(Job[e].rows) /\ Len(Job[e].rows) \in Nat
      BY <1>1, <3>1, JobRows DEF InTx, Durable!Last, CallsInv, CallTypes, CallConstants
    <3>3. QED
      BY <3>1, <3>2, JobRows
  <2>3. r \in Rows /\ r \in Durable!Contract!RowsOf(e)
    BY <2>2, JobRows DEF Durable!Contract!RowsOf
  <2>4. r \notin DOMAIN writes[e]
    <3>1. n \in Nat /\ \A s \in DOMAIN writes[e] : \E i \in 1..(n - 1) : Job[e].rows[i] = s
      BY <1>1, <2>2 DEF CallsInv, CallTypes, TransactionsOK, AppendOK
    <3>2. \A i, j \in DOMAIN Job[e].rows : Job[e].rows[i] = Job[e].rows[j] => i = j
      BY <2>2 DEF CallConstants
    <3>3. ASSUME NEW i \in 1..(n - 1) PROVE i \in DOMAIN Job[e].rows /\ i # n
      BY <2>2, <3>1, <3>3, JobRows DEF CallConstants
    <3>4. QED
      BY <2>2, <3>1, <3>2, <3>3
  <2>5. table[r] # Durable!Absent
    BY <2>2, <2>3, <2>4 DEF Durable!Overlay
  <2>6. <<table, "refused">> \in Durable!Contract!Outcomes(e)
    BY <2>2, <2>3, <2>5, JobRows, AbsentRow DEF Durable!Contract!Outcomes, Durable!Contract!Append,
                                                Durable!Contract!Present
  <2>7. Durable!Contract!Act(e)
    <3> DEFINE o == <<table, "refused">>
    <3>1. /\ table' = o[1] /\ answer' = [answer EXCEPT ![e] = IF FALSE THEN "error" ELSE o[2]]
          /\ removals' = IF Durable!Contract!Removes(o[1]) THEN removals + 1 ELSE removals
      BY <1>2, <2>1, AbsentRow DEF Durable!Contract!Removes
    <3> HIDE DEF o
    <3>2. o \in Durable!Contract!Outcomes(e)
      BY <2>6 DEF o
    <3>3. QED
      BY <1>2, <1>3, <3>1, <3>2 DEF Durable!Contract!Act
  <2>8. QED
    BY <1>5, <2>1, <2>7 DEF Durable!Contract!Next
<1>7. CASE ~ Durable!Fails(e, stage[e], Durable!Visible(e))
  <2>1. answer' = [answer EXCEPT ![e] = "error"]
    BY <1>7 DEF Durable!Rollback, Durable!Answer
  <2>2. Durable!Contract!Throw(e)
    BY <1>2, <1>3, <2>1 DEF Durable!Contract!Throw
  <2>3. QED
    BY <1>5, <2>1, <2>2 DEF Durable!Contract!Next
<1>8. QED
  BY <1>6, <1>7

\* A call that begins finds the rows there are.
LEMMA BeginKeeps ==
  ASSUME CallConstants, CallsInv, NEW e \in Calls, Durable!Begin(e)
  PROVE  CallsInv' /\ Durable!Contract!Next
<1> DEFINE found == [rows |-> {<<r, table[r].by>> : r \in Durable!Contract!Present(table, Rows)},
                     removals |-> removals + 1]
<1>1. /\ seen[e] = Durable!Contract!Unseen /\ seen' = [seen EXCEPT ![e] = found]
      /\ UNCHANGED <<engine, table, answer, removals, stage, writes>>
  BY DEF Durable!Begin, Durable!Contract!Begin, Durable!Contract!Seeing
<1>2. /\ found \in [rows : SUBSET (Rows \X Calls), removals : Nat]
      /\ found.removals = removals + 1
      /\ \A k \in found.rows : answer[k[2]] # "none"
  BY AbsentRow DEF CallsInv, CallTypes, RowsOwned, Durable!Contract!Present
<1> HIDE DEF found
<1>3. /\ seen'[e] = found /\ stage[e] = 0
      /\ \A c \in Calls \ {e} : seen'[c] = seen[c]
      /\ seen' \in [Calls -> [rows : SUBSET (Rows \X Calls), removals : Nat]]
  BY <1>1, <1>2 DEF CallsInv, CallTypes, SeenOK
<1>4. CallTypes' /\ RowsOwned' /\ LocksOK'
  BY <1>1, <1>3 DEF CallsInv, CallTypes, RowsOwned, LocksOK, InTx
<1>5. SeenOK'
  <2>1. removals \in Nat
    BY DEF CallsInv, CallTypes
  <2>2. QED
    BY <1>1, <1>2, <1>3, <2>1 DEF CallsInv, SeenOK
<1>6. TransactionsOK'
  <2> SUFFICES ASSUME NEW c \in Calls, InTx(c)'
               PROVE  /\ Job[c].kind = "append" => AppendOK(c)'
                      /\ Job[c].kind = "complete" => CompleteOK(c)'
                      /\ Job[c].kind = "erase" => EraseOK(c)'
    BY DEF TransactionsOK
  <2>1. InTx(c) /\ seen'[c] = seen[c]
    BY <1>1, <1>3 DEF InTx
  <2>2. QED
    BY <1>1, <2>1 DEF CallsInv, TransactionsOK, AppendOK, CompleteOK, EraseOK
<1>7. Durable!Contract!Next
  BY DEF Durable!Begin, Durable!Contract!Next
<1>8. QED
  BY <1>4, <1>5, <1>6, <1>7 DEF CallsInv

\* What the open transactions need stays true of those that do nothing.
LEMMA OthersKeep ==
  ASSUME CallsInv, NEW c \in Calls, InTx(c), UNCHANGED <<table, removals, seen>>,
         stage'[c] = stage[c], writes'[c] = writes[c]
  PROVE  /\ Job[c].kind = "append" => AppendOK(c)'
         /\ Job[c].kind = "complete" => CompleteOK(c)'
         /\ Job[c].kind = "erase" => EraseOK(c)'
BY DEF CallsInv, TransactionsOK, AppendOK, CompleteOK, EraseOK

LEMMA OpenKeeps ==
  ASSUME CallConstants, CallsInv, NEW e \in Calls, Durable!Open(e)
  PROVE  CallsInv' /\ UNCHANGED <<table, answer, seen, removals>>
<1>1. /\ engine = "pool" /\ stage[e] = 0 /\ answer[e] = "none"
      /\ seen[e] # Durable!Contract!Unseen
      /\ UNCHANGED <<engine, table, answer, seen, removals, writes>>
      /\ stage' = [stage EXCEPT ![e] = 1]
  BY DEF Durable!Open, Durable!hist, CallsInv, CallTypes, Durable!Contract!Begun
<1>2. Job[e].kind \in {"append", "complete", "erase"}
  BY JobRows DEF Durable!Open, Durable!Single, CallConstants
<1>3. /\ stage' \in [Calls -> Nat] /\ stage'[e] = 1
      /\ \A c \in Calls \ {e} : stage'[c] = stage[c]
  BY <1>1 DEF CallsInv, CallTypes
<1>4. DOMAIN writes[e] = {}
  BY <1>1 DEF CallsInv, LocksOK, InTx
<1>5. CallTypes' /\ RowsOwned' /\ SeenOK'
  BY <1>1, <1>2, <1>3 DEF CallsInv, CallTypes, RowsOwned, SeenOK
<1>6. LocksOK'
  BY <1>1, <1>3, <1>4 DEF CallsInv, LocksOK, InTx
<1>7. TransactionsOK'
  <2> SUFFICES ASSUME NEW c \in Calls, InTx(c)'
               PROVE  /\ Job[c].kind = "append" => AppendOK(c)'
                      /\ Job[c].kind = "complete" => CompleteOK(c)'
                      /\ Job[c].kind = "erase" => EraseOK(c)'
    BY DEF TransactionsOK
  <2>1. CASE c # e
    <3>1. InTx(c) /\ stage'[c] = stage[c] /\ writes'[c] = writes[c]
      BY <1>1, <1>3, <2>1 DEF InTx
    <3>2. QED
      BY <1>1, <3>1, OthersKeep
  <2>2. CASE c = e
    <3>1. stage'[c] = 1 /\ DOMAIN writes'[c] = {}
      BY <1>1, <1>3, <1>4, <2>2
    <3>2. Len(Job[c].rows) \in Nat
      BY DEF CallConstants
    <3>3. Job[c].kind = "append" => AppendOK(c)'
      BY <3>1, <3>2 DEF AppendOK
    <3>4. Job[c].kind = "complete" => CompleteOK(c)'
      BY <3>1 DEF CompleteOK
    <3>5. Job[c].kind = "erase" => EraseOK(c)'
      BY <3>1 DEF EraseOK
    <3>6. QED
      BY <3>3, <3>4, <3>5
  <2>3. QED
    BY <2>1, <2>2
<1>8. QED
  BY <1>1, <1>5, <1>6, <1>7 DEF CallsInv

\* A statement writes rows that no other open transaction has written.
LEMMA StatementWrites ==
  ASSUME CallConstants, CallsInv, NEW e \in Calls, Durable!Statement(e)
  PROVE  LET n == stage[e]
             view == Durable!Overlay(writes[e])
             rows == Durable!Writes(e, n, view)
         IN /\ InTx(e) /\ engine = "pool" /\ n \in Nat /\ n > 0 /\ n <= Durable!Last(e)
            /\ ~ Durable!Fails(e, n, view)
            /\ rows \subseteq Rows /\ \A r \in rows : ~ Durable!Locked(e, r)
            /\ view \in [Rows -> StoredRow]
            /\ DOMAIN writes' = Calls /\ DOMAIN writes'[e] = DOMAIN writes[e] \cup rows
            /\ \A r \in rows : writes'[e][r] = Durable!Content(e, n, view[r])
            /\ \A r \in DOMAIN writes[e] \ rows : writes'[e][r] = writes[e][r]
            /\ \A c \in Calls \ {e} : writes'[c] = writes[c]
            /\ UNCHANGED <<engine, table, answer, seen, removals>>
            /\ stage' = [stage EXCEPT ![e] = n + 1]
<1> DEFINE n == stage[e]
           view == Durable!Overlay(writes[e])
           rows == Durable!Writes(e, n, view)
<1>1. InTx(e) /\ engine = "pool" /\ n \in Nat /\ n > 0 /\ n <= Durable!Last(e)
  BY DEF Durable!Statement, Durable!InTransaction, InTx, CallsInv, SeenOK, CallTypes
<1>2. Durable!Visible(e) = view
  BY <1>1 DEF Durable!Visible
<1>3. /\ ~ Durable!Fails(e, n, view) /\ ~ Durable!Waits(e, n)
      /\ stage' = [stage EXCEPT ![e] = n + 1]
      /\ UNCHANGED <<engine, answer, seen, removals>>
  BY <1>2 DEF Durable!Statement, Durable!hist
<1>4. /\ UNCHANGED table
      /\ writes' = [writes EXCEPT ![e] =
           [r \in DOMAIN writes[e] \cup rows |->
              IF r \in rows THEN Durable!Content(e, n, view[r]) ELSE writes[e][r]]]
  BY <1>1, <1>2 DEF Durable!Statement, Durable!Keep, CallsInv, CallTypes
<1>5. view \in [Rows -> StoredRow]
  BY DEF Durable!Overlay, CallsInv, CallTypes
<1>6. rows \subseteq Durable!Contract!RowsOf(e)
  <2>1. CASE Job[e].kind = "append"
    <3>1. n \in DOMAIN Job[e].rows
      BY <1>1, <2>1, JobRows DEF Durable!Last, CallConstants
    <3>2. QED
      BY <2>1, <3>1, JobRows DEF Durable!Writes, Durable!Contract!RowsOf
  <2>2. CASE Job[e].kind # "append"
    BY <2>2, JobRows DEF Durable!Writes
  <2>3. QED
    BY <2>1, <2>2
<1>7. ASSUME NEW r \in rows PROVE ~ Durable!Locked(e, r)
  <2>1. CASE Job[e].kind = "append"
    <3>1. r = Job[e].rows[n]
      BY <2>1, JobRows DEF Durable!Writes
    <3>2. QED
      BY <1>3, <1>6, <2>1, <3>1, JobRows DEF Durable!Waits
  <2>2. CASE Job[e].kind # "append"
    BY <1>2, <1>3, <1>6, <2>2, JobRows DEF Durable!Waits
  <2>3. QED
    BY <2>1, <2>2
<1> HIDE DEF n, view, rows
<1>8. /\ DOMAIN writes' = Calls /\ DOMAIN writes'[e] = DOMAIN writes[e] \cup rows
      /\ \A r \in rows : writes'[e][r] = Durable!Content(e, n, view[r])
      /\ \A r \in DOMAIN writes[e] \ rows : writes'[e][r] = writes[e][r]
      /\ \A c \in Calls \ {e} : writes'[c] = writes[c]
  BY <1>4 DEF CallsInv, CallTypes
<1>9. rows \subseteq Rows
  BY <1>6, JobRows
<1>10. /\ InTx(e) /\ engine = "pool" /\ n \in Nat /\ n > 0 /\ n <= Durable!Last(e)
       /\ ~ Durable!Fails(e, n, view)
       /\ rows \subseteq Rows /\ \A r \in rows : ~ Durable!Locked(e, r)
       /\ view \in [Rows -> StoredRow]
       /\ UNCHANGED <<engine, table, answer, seen, removals>>
       /\ stage' = [stage EXCEPT ![e] = n + 1]
  BY <1>1, <1>3, <1>4, <1>5, <1>7, <1>9
<1>11. QED
  BY <1>8, <1>10 DEF n, view, rows

\* Each statement takes its own transaction a step further.
LEMMA StatementOfAppend ==
  ASSUME CallConstants, CallsInv, NEW e \in Calls, Durable!Statement(e), Job[e].kind = "append"
  PROVE  AppendOK(e)'
<1> DEFINE n == stage[e]
           k == Job[e].rows[n]
           view == Durable!Overlay(writes[e])
           event == Durable!Contract!RowOf(e, "event")
<1>1. /\ AppendOK(e) /\ n \in Nat /\ n > 0 /\ n <= Len(Job[e].rows) /\ UNCHANGED table
      /\ ~ Durable!Fails(e, n, view)
      /\ Durable!Writes(e, n, view) = {k}
      /\ stage'[e] = n + 1
  BY StatementWrites, JobRows DEF Durable!Last, Durable!Writes, CallsInv, CallTypes, TransactionsOK
<1>2. /\ DOMAIN writes'[e] = DOMAIN writes[e] \cup {k}
      /\ writes'[e][k] = event
      /\ \A r \in DOMAIN writes[e] : r # k => writes'[e][r] = writes[e][r]
  BY <1>1, StatementWrites, JobRows DEF Durable!Content
<1>3. k \in Rows /\ Len(Job[e].rows) \in Nat
  BY <1>1, JobRows DEF CallConstants
<1>4. view[k] = Durable!Absent
  BY <1>1, JobRows DEF Durable!Fails
<1>5. k \notin DOMAIN writes[e] /\ table[k] = Durable!Absent
  <2>1. event # Durable!Absent
    BY AbsentRow
  <2>2. k \in DOMAIN writes[e] => view[k] = event
    BY <1>1, <1>3 DEF AppendOK, Durable!Overlay
  <2>3. QED
    BY <1>3, <1>4, <2>1, <2>2 DEF Durable!Overlay
<1>6. \A i \in 1..n : Job[e].rows[i] \in DOMAIN writes'[e]
  BY <1>1, <1>2 DEF AppendOK
<1>7. ASSUME NEW r \in DOMAIN writes'[e]
      PROVE  /\ \E i \in 1..n : Job[e].rows[i] = r
             /\ writes'[e][r] = event /\ table[r] = Durable!Absent
  <2>1. CASE r = k
    BY <1>1, <1>2, <1>5, <2>1
  <2>2. CASE r # k
    <3>1. /\ r \in DOMAIN writes[e] /\ writes'[e][r] = writes[e][r]
      BY <1>2, <2>2
    <3>2. QED
      BY <1>1, <3>1 DEF AppendOK
  <2>3. QED
    BY <2>1, <2>2
<1>8. (n + 1) - 1 = n /\ n + 1 <= Len(Job[e].rows) + 1
  BY <1>1, <1>3
<1> HIDE DEF n, k, view, event
<1>9. QED
  BY <1>1, <1>6, <1>7, <1>8 DEF AppendOK, event

LEMMA StatementOfComplete ==
  ASSUME CallConstants, CallsInv, NEW e \in Calls, Durable!Statement(e), Job[e].kind = "complete"
  PROVE  CompleteOK(e)'
<1> DEFINE n == stage[e]
           k == Job[e].rows[1]
           view == Durable!Overlay(writes[e])
           rows == Durable!Writes(e, n, view)
<1>1. /\ CompleteOK(e) /\ n \in {1, 2} /\ UNCHANGED <<table, seen, removals>>
      /\ stage'[e] = n + 1
  BY StatementWrites, JobRows DEF Durable!Last, CallsInv, CallTypes, TransactionsOK
<1>2. /\ DOMAIN writes'[e] = DOMAIN writes[e] \cup rows
      /\ \A r \in rows : writes'[e][r] = Durable!Content(e, n, view[r])
      /\ \A r \in DOMAIN writes[e] \ rows : writes'[e][r] = writes[e][r]
  BY StatementWrites
<1>3. k \in Rows /\ DOMAIN writes[e] \subseteq {k}
  BY <1>1, JobRows DEF CompleteOK
<1>4. rows = {r \in {k} : IF n = 1 THEN view[r] = Durable!Absent ELSE view[r] # Durable!Absent}
  BY JobRows DEF Durable!Writes
<1>5. \A r : Durable!Content(e, n, r) = IF n = 1 THEN Durable!Contract!RowOf(e, "intent")
                                        ELSE [r EXCEPT !.status = "applied"]
  BY JobRows DEF Durable!Content
<1>6. view[k] = IF k \in DOMAIN writes[e] THEN writes[e][k] ELSE table[k]
  BY <1>3 DEF Durable!Overlay
<1> HIDE DEF k, view, rows
<1>7. CASE n = 1
  <2>1. k \notin DOMAIN writes[e] /\ view[k] = table[k]
    BY <1>1, <1>6, <1>7 DEF CompleteOK, k
  <2>2. /\ k \in DOMAIN writes'[e] <=> table[k] = Durable!Absent
        /\ DOMAIN writes'[e] \subseteq {k}
        /\ k \in DOMAIN writes'[e] => writes'[e][k] = Durable!Contract!RowOf(e, "intent")
    BY <1>2, <1>3, <1>4, <1>5, <1>7, <2>1
  <2>3. stage'[e] = 2
    BY <1>1, <1>7
  <2>4. QED
    BY <1>1, <2>2, <2>3 DEF CompleteOK, k
<1>8. CASE n = 2
  <2>1. [Durable!Contract!RowOf(e, "intent") EXCEPT !.status = "applied"]
          = Durable!Contract!RowOf(e, "applied")
    BY DEF Durable!Contract!RowOf
  <2>2. Durable!Contract!RowOf(e, "intent") # Durable!Absent
    BY AbsentRow
  <2>3. stage'[e] = 3
    BY <1>1, <1>8
  <2>4. CASE k \in DOMAIN writes[e]
    <3>1. table[k] = Durable!Absent /\ view[k] = Durable!Contract!RowOf(e, "intent")
      BY <1>1, <1>6, <1>8, <2>4 DEF CompleteOK, k
    <3>2. /\ DOMAIN writes'[e] = {k}
          /\ writes'[e][k] = Durable!Contract!RowOf(e, "applied")
      BY <1>2, <1>3, <1>4, <1>5, <1>8, <2>1, <2>2, <3>1
    <3>3. QED
      BY <1>1, <2>3, <3>1, <3>2 DEF CompleteOK, k
  <2>5. CASE k \notin DOMAIN writes[e] /\ table[k] # Durable!Absent
    <3>1. /\ DOMAIN writes'[e] = {k}
          /\ writes'[e][k] = [table[k] EXCEPT !.status = "applied"]
      <4>1. view[k] = table[k] /\ rows = {k}
        BY <1>4, <1>6, <1>8, <2>5
      <4>2. Durable!Content(e, n, view[k]) = [table[k] EXCEPT !.status = "applied"]
        BY <1>5, <1>8, <4>1
      <4>3. DOMAIN writes'[e] = {k} /\ writes'[e][k] = Durable!Content(e, n, view[k])
        BY <1>2, <1>3, <4>1
      <4>4. QED
        BY <4>2, <4>3
    <3>2. QED
      BY <1>1, <2>3, <2>5, <3>1 DEF CompleteOK, k
  <2>6. CASE k \notin DOMAIN writes[e] /\ table[k] = Durable!Absent
    <3>1. DOMAIN writes'[e] = {}
      BY <1>2, <1>3, <1>4, <1>6, <1>8, <2>6
    <3>2. removals >= seen[e].removals
      BY <1>1, <1>8, <2>6 DEF CompleteOK, k
    <3>3. QED
      BY <1>1, <2>3, <3>1, <3>2 DEF CompleteOK, k
  <2>7. QED
    BY <2>4, <2>5, <2>6
<1>9. QED
  BY <1>1, <1>7, <1>8

LEMMA StatementOfErase ==
  ASSUME CallConstants, CallsInv, NEW e \in Calls, Durable!Statement(e), Job[e].kind = "erase"
  PROVE  EraseOK(e)'
<1> DEFINE n == stage[e]
           view == Durable!Overlay(writes[e])
           rows == Durable!Writes(e, n, view)
<1>1. /\ EraseOK(e) /\ n \in {1, 2} /\ UNCHANGED <<table, seen, removals>>
      /\ stage'[e] = n + 1
  BY StatementWrites, JobRows DEF Durable!Last, CallsInv, CallTypes, TransactionsOK
<1>2. /\ DOMAIN writes'[e] = DOMAIN writes[e] \cup rows
      /\ \A r \in rows : writes'[e][r] = Durable!Absent
      /\ \A r \in DOMAIN writes[e] \ rows : writes'[e][r] = writes[e][r]
  BY StatementWrites, JobRows DEF Durable!Content
<1>3. rows = {r \in Rows : view[r] # Durable!Absent /\ (view[r].status = "event" <=> n = 2)}
  BY JobRows DEF Durable!Writes, CallConstants
<1>4. \A r \in Rows : r \notin DOMAIN writes[e] => view[r] = table[r]
  BY DEF Durable!Overlay
<1>5. \A r \in Rows : <<r, table[r].by>> \in seen[e].rows => table[r] # Durable!Absent
  BY AbsentRow DEF CallsInv, CallTypes, CallConstants
<1> HIDE DEF n, view, rows
<1>6. \A r \in DOMAIN writes'[e] : writes'[e][r] = Durable!Absent
  BY <1>1, <1>2 DEF EraseOK
<1>7. ASSUME NEW r \in Rows, <<r, table[r].by>> \in seen[e].rows
      PROVE  /\ table[r].status # "event" => r \in DOMAIN writes'[e]
             /\ n = 2 => r \in DOMAIN writes'[e]
  <2>1. r \notin DOMAIN writes[e] => view[r] = table[r] /\ table[r] # Durable!Absent
    BY <1>4, <1>5, <1>7
  <2>2. n = 2 /\ table[r].status # "event" => r \in DOMAIN writes[e]
    BY <1>1, <1>7 DEF EraseOK, n
  <2>3. QED
    BY <1>1, <1>2, <1>3, <2>1, <2>2
<1>8. QED
  BY <1>1, <1>6, <1>7 DEF EraseOK

LEMMA ContentTypes ==
  ASSUME CallConstants, NEW e \in Calls, NEW n \in Nat, NEW old \in StoredRow,
         Job[e].kind \in {"append", "complete", "erase"}
  PROVE  Durable!Content(e, n, old) \in StoredRow
<1>1. [old EXCEPT !.status = "applied"] \in StoredRow
  BY DEF StoredRow
<1>2. QED
  BY <1>1, AbsentRow, JobRows DEF Durable!Content

LEMMA StatementKeeps ==
  ASSUME CallConstants, CallsInv, NEW e \in Calls, Durable!Statement(e)
  PROVE  CallsInv' /\ UNCHANGED <<table, answer, seen, removals>>
<1> DEFINE n == stage[e]
           view == Durable!Overlay(writes[e])
           rows == Durable!Writes(e, n, view)
<1>1. /\ InTx(e) /\ engine = "pool" /\ n \in Nat /\ n > 0
      /\ rows \subseteq Rows /\ \A r \in rows : ~ Durable!Locked(e, r)
      /\ view \in [Rows -> StoredRow]
      /\ UNCHANGED <<engine, table, answer, seen, removals>>
  BY StatementWrites
<1>2. /\ DOMAIN writes' = Calls /\ DOMAIN writes'[e] = DOMAIN writes[e] \cup rows
      /\ \A r \in rows : writes'[e][r] = Durable!Content(e, n, view[r])
      /\ \A r \in DOMAIN writes[e] \ rows : writes'[e][r] = writes[e][r]
      /\ \A c \in Calls \ {e} : writes'[c] = writes[c]
  BY StatementWrites
<1>3. /\ stage' \in [Calls -> Nat] /\ stage'[e] = n + 1
      /\ \A c \in Calls \ {e} : stage'[c] = stage[c]
  BY StatementWrites DEF CallsInv, CallTypes
<1>4. Job[e].kind \in {"append", "complete", "erase"} /\ seen[e] # Durable!Contract!Unseen
  BY <1>1 DEF CallsInv, SeenOK
<1> HIDE DEF n, view, rows
<1>5. \A r \in DOMAIN writes'[e] : r \in Rows /\ writes'[e][r] \in StoredRow
  BY <1>1, <1>2, <1>4, ContentTypes DEF CallsInv, CallTypes
<1>6. CallTypes'
  BY <1>1, <1>2, <1>3, <1>5 DEF CallsInv, CallTypes
<1>7. RowsOwned' /\ SeenOK'
  BY <1>1, <1>3, <1>4 DEF CallsInv, RowsOwned, SeenOK
<1>8. LocksOK'
  <2>1. \A c \in Calls \ {e} : DOMAIN writes[c] \cap rows = {}
    BY <1>1 DEF Durable!Locked
  <2>2. \A c \in Calls : InTx(c) => InTx(c)'
    BY <1>1, <1>3 DEF InTx, CallsInv, CallTypes
  <2>3. QED
    BY <1>1, <1>2, <2>1, <2>2 DEF CallsInv, LocksOK
<1>9. TransactionsOK'
  <2> SUFFICES ASSUME NEW c \in Calls, InTx(c)'
               PROVE  /\ Job[c].kind = "append" => AppendOK(c)'
                      /\ Job[c].kind = "complete" => CompleteOK(c)'
                      /\ Job[c].kind = "erase" => EraseOK(c)'
    BY DEF TransactionsOK
  <2>1. CASE c # e
    <3>1. InTx(c) /\ stage'[c] = stage[c] /\ writes'[c] = writes[c]
      BY <1>1, <1>2, <1>3, <2>1 DEF InTx
    <3>2. QED
      BY <1>1, <3>1, OthersKeep
  <2>2. CASE c = e
    BY <2>2, StatementOfAppend, StatementOfComplete, StatementOfErase
  <2>3. QED
    BY <2>1, <2>2
<1>10. QED
  BY <1>1, <1>6, <1>7, <1>8, <1>9 DEF CallsInv

-----------------------------------------------------------------------------
LEMMA CallsInit == ASSUME CallConstants, Durable!Init PROVE CallsInv /\ Durable!Contract!Init
<1>1. /\ Durable!Contract!Init /\ engine \in Engines
      /\ stage = [c \in Calls |-> 0] /\ writes = [c \in Calls |-> << >>]
  BY DEF Durable!Init, Durable!NoWrites
<1>2. /\ table = [r \in Rows |-> Durable!Absent] /\ answer = [c \in Calls |-> "none"]
      /\ seen = [c \in Calls |-> [rows |-> {}, removals |-> 0]] /\ removals = 0
  BY <1>1, AbsentRow DEF Durable!Contract!Init, Durable!Contract!Unseen
<1>3. \A c \in Calls : DOMAIN writes[c] = {}
  <2>1. DOMAIN << >> = {}
    OBVIOUS
  <2>2. QED
    BY <1>1, <2>1
<1>4. CallTypes
  BY <1>1, <1>2, <1>3, AbsentRow DEF CallTypes, CallConstants
<1>5. RowsOwned
  BY <1>2, AbsentRow DEF RowsOwned, CallConstants
<1>6. SeenOK /\ LocksOK /\ TransactionsOK
  BY <1>1, <1>2, <1>3 DEF SeenOK, LocksOK, TransactionsOK, InTx
<1>7. QED
  BY <1>1, <1>4, <1>5, <1>6 DEF CallsInv

LEMMA CallsStep ==
  ASSUME CallConstants, CallsInv, Durable!Next
  PROVE  CallsInv' /\ [Durable!Contract!Next]_<<table, answer, seen, removals>>
<1>1. PICK c \in Calls : \/ Durable!Begin(c) \/ Durable!Whole(c) \/ Durable!Open(c)
                         \/ Durable!Statement(c) \/ Durable!Commit(c) \/ Durable!Rollback(c)
                         \/ Durable!Alone(c)
  BY DEF Durable!Next
<1>2. CASE Durable!Open(c) \/ Durable!Statement(c)
  BY <1>2, OpenKeeps, StatementKeeps
<1>3. CASE ~ (Durable!Open(c) \/ Durable!Statement(c))
  BY <1>1, <1>3, BeginKeeps, WholeKeeps, CommitKeeps, RollbackKeeps, AloneKeeps
<1>4. QED
  BY <1>2, <1>3

LEMMA CallsStutter == ASSUME CallsInv, UNCHANGED dvars PROVE CallsInv'
BY DEF CallsInv, CallTypes, RowsOwned, SeenOK, LocksOK, TransactionsOK, AppendOK, CompleteOK,
       EraseOK, InTx, dvars

\* On every database that batches a call or locks what a transaction wrote, the calls of
\* any number of processes are calls of the contract: atomic, and truthful about what
\* they did.
THEOREM CallsActAtOnce == ASSUME CallConstants PROVE Spec => StoreKeepsContract
<1>1. Init => CallsInv /\ Durable!Contract!Init
  BY CallsInit DEF Init
<1>2. CallsInv /\ [Next]_<<scene, bvars, fvars, lvars, dvars>>
        => CallsInv' /\ [Durable!Contract!Next]_(Durable!Contract!vars)
  <2> SUFFICES ASSUME CallsInv, [Next]_<<scene, bvars, fvars, lvars, dvars>>
               PROVE  CallsInv' /\ [Durable!Contract!Next]_<<table, answer, seen, removals>>
    BY DEF Durable!Contract!vars
  <2>1. Durable!Next \/ UNCHANGED dvars
    BY DEF Next, OnBlocks, OnFacts, OnFiles, OnCalls
  <2>2. QED
    BY <2>1, CallsStep, CallsStutter DEF dvars
<1>3. QED
  BY <1>1, <1>2, PTL DEF Spec, StoreKeepsContract, Durable!StoreKeepsContract,
                         Durable!Contract!Spec
=============================================================================
