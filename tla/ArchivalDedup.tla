---------------------------- MODULE ArchivalDedup ----------------------------
(***************************************************************************)
(* deduplicateArchival (packages/memory/src/memory.ts): near duplicates of *)
(* a scope's passages are merged pairwise, in the vector index first and   *)
(* in the lexical store then.  The text of a passage is the set of the     *)
(* original passages that it is made from.                                 *)
(***************************************************************************)
EXTENDS Integers

CONSTANTS
  Passages,      \* ids, integers
  Passes,        \* passes that may be going on at once
  MaxMerges,     \* maxMerges
  MaxStarts      \* bound on the passes of a session

VARIABLES
  rows,          \* text of each id in the store, empty if there is none
  index,         \* text of each id in the vector index
  pass,          \* state of each pass
  starts

dvars == <<rows, index, pass, starts>>

Off == [at |-> "off", entries |-> [p \in Passages |-> {}], a |-> 0, b |-> 0,
        done |-> {}, merges |-> 0]

Init ==
  /\ rows = [p \in Passages |-> {p}]
  /\ index = rows
  /\ pass = [n \in Passes |-> Off]
  /\ starts = 0

Start(n) ==
  /\ pass[n] = Off /\ starts < MaxStarts
  /\ starts' = starts + 1
  /\ pass' = [pass EXCEPT ![n] = [Off EXCEPT !.at = "compare", !.entries = index]]
  /\ UNCHANGED <<rows, index>>

\* The pairs of the list in its order, those merged away left out.
Open(n, a, b) ==
  /\ a < b
  /\ pass[n].entries[a] # {} /\ pass[n].entries[b] # {}
  /\ <<a, b>> \notin pass[n].done

Before(p, q) == p[1] < q[1] \/ (p[1] = q[1] /\ p[2] < q[2])

Compare(n) ==
  /\ pass[n].at = "compare" /\ pass[n].merges < MaxMerges
  /\ \E a, b \in Passages :
       /\ Open(n, a, b)
       /\ \A c, d \in Passages : Open(n, c, d) => ~ Before(<<c, d>>, <<a, b>>)
       /\ \/ pass' = [pass EXCEPT ![n].at = "unindex", ![n].a = a, ![n].b = b,
                                  ![n].done = @ \cup {<<a, b>>}]
          \/ pass' = [pass EXCEPT ![n].done = @ \cup {<<a, b>>}]
  /\ UNCHANGED <<rows, index, starts>>

Finish(n) ==
  /\ pass[n].at = "compare"
  /\ \/ pass[n].merges = MaxMerges
     \/ \A a, b \in Passages : ~ Open(n, a, b)
  /\ pass' = [pass EXCEPT ![n] = Off]
  /\ UNCHANGED <<rows, index, starts>>

-----------------------------------------------------------------------------
Canonical(n) == pass[n].entries[pass[n].a] \cup pass[n].entries[pass[n].b]

\* The faulty order deletes the duplicate before its content is anywhere else.
DeleteFirst(at) ==
  CASE at = "unindex" -> "delete" [] at = "delete" -> "reindex"
    [] at = "reindex" -> "write" [] at = "write" -> "compare"

Following(at) ==
  CASE at = "unindex" -> "reindex" [] at = "reindex" -> "write"
    [] at = "write" -> "delete" [] at = "delete" -> "compare"

\* A merged pair goes on with the text that was put together.
Advance(n) ==
  LET me == pass[n]
      merged == [me.entries EXCEPT ![me.a] = Canonical(n), ![me.b] = {}]
  IN pass' = [pass EXCEPT ![n] =
       IF Following(me.at) # "compare" THEN [me EXCEPT !.at = Following(me.at)]
       ELSE [me EXCEPT !.at = "compare", !.merges = me.merges + 1, !.entries = merged]]

Merge(n) ==
  /\ pass[n].at \in {"unindex", "reindex", "write", "delete"}
  /\ LET at == pass[n].at
         a == pass[n].a
         b == pass[n].b
     IN /\ index' = CASE at = "unindex" -> [index EXCEPT ![b] = {}]
                      [] at = "reindex" -> [index EXCEPT ![a] = Canonical(n)]
                      [] OTHER -> index
        /\ rows' = CASE at = "write" -> [rows EXCEPT ![a] = Canonical(n)]
                     [] at = "delete" -> [rows EXCEPT ![b] = {}]
                     [] OTHER -> rows
  /\ Advance(n)
  /\ UNCHANGED starts

\* A call that throws, a signal or a crash ends the pass where it is.
Break(n) ==
  /\ pass[n].at # "off"
  /\ pass' = [pass EXCEPT ![n] = Off]
  /\ UNCHANGED <<rows, index, starts>>

Next ==
  \E n \in Passes : Start(n) \/ Compare(n) \/ Finish(n) \/ Merge(n) \/ Break(n)

Spec == Init /\ [][Next]_dvars

-----------------------------------------------------------------------------
\* Every variable has its type.
TypeOK ==
  /\ rows \in [Passages -> SUBSET Passages] /\ index \in [Passages -> SUBSET Passages]
  /\ starts \in 0..MaxStarts

\* Wherever a pass breaks off and another begins, what any passage said is still
\* in a row of the store.
NothingForgotten == UNION {rows[p] : p \in Passages} = Passages
=============================================================================
