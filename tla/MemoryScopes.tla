---------------------------- MODULE MemoryScopes ----------------------------
(***************************************************************************)
(* Memory (packages/memory/src/memory.ts): the entries of a scope in the   *)
(* lexical store and in the vector index, and the maps beside them, under  *)
(* ingest, eraseScope and mergeScopes.  Calls interleave at every await,   *)
(* and an await may fail.  The text of an event is its id.                 *)
(***************************************************************************)
EXTENDS Integers, Sequences, FiniteSets, Functions

CONSTANTS
  Scopes,
  Ids,           \* events, each with a text of its own
  WithMetadata,  \* ids of the events that carry metadata
  MaxEntries,    \* maxInMemoryEntries
  Workers,       \* callers
  MaxCalls       \* bound on the calls of a session

VARIABLES
  store,         \* rows of the lexical store
  vector,        \* entries of the vector index
  metadata,      \* keys of metadataStore, oldest first
  times,         \* keys of ingestedAtStore, oldest first
  scoped,        \* keys that scopedIds lists
  seen,          \* seenNormTexts
  call,          \* what each worker is at
  calls,         \* calls so far
  clean,         \* scopes erased since anything was written there
  moved          \* source, target and id of what a merge found that began alone

mvars == <<store, vector, metadata, times, scoped, seen, call, calls, clean, moved>>

EntryKeys == Scopes \X Ids
Of(s) == {s} \X Ids
Idle == [op |-> "idle", at |-> "none", scope |-> "none", to |-> "none",
         ids |-> {}, failed |-> FALSE, alone |-> FALSE]

Init ==
  /\ store = {} /\ vector = {} /\ scoped = {} /\ seen = {}
  /\ metadata = <<>> /\ times = <<>>
  /\ call = [w \in Workers |-> Idle]
  /\ calls = 0 /\ clean = {} /\ moved = {}

Ended(w) == [call EXCEPT ![w] = Idle]
At(w, op, step) == call[w].op = op /\ call[w].at = step

\* An erase of s is no longer alone.
Beside(v, s) == IF call[v].scope = s THEN [call[v] EXCEPT !.alone = FALSE] ELSE call[v]

-----------------------------------------------------------------------------
\* A Map keeps a key at its place when it is set again.
Put(map, keys) ==
  LET new == keys \ Range(map)
  IN map \o (CHOOSE order \in [1..Cardinality(new) -> new] : IsInjective(order))
Drop(map, keys) == SelectSeq(map, LAMBDA k : k \notin keys)

\* The keys over the cap, oldest first.
Excess(map) ==
  IF Len(map) > MaxEntries THEN Range(SubSeq(map, 1, Len(map) - MaxEntries)) ELSE {}

\* The synchronous beginning of ingest: what is new is marked as seen and put
\* into the maps, which are cut to their cap.
Ingest(w, s, ids) ==
  /\ call[w] = Idle /\ calls < MaxCalls
  /\ LET new == {i \in ids : <<s, i>> \notin seen}
         keys == {s} \X new
         meta == Put(metadata, {k \in keys : k[2] \in WithMetadata})
         aged == Put(times, keys)
     IN /\ seen' = seen \cup keys
        /\ metadata' = Drop(meta, Excess(meta))
        /\ times' = Drop(aged, Excess(aged))
        /\ scoped' = (scoped \cup keys) \ (Excess(meta) \cup Excess(aged))
        /\ call' = [v \in Workers |->
              IF v = w /\ new # {}
              THEN [Idle EXCEPT !.op = "ingest", !.at = "store", !.scope = s, !.ids = new]
              ELSE Beside(v, s)]
  /\ calls' = calls + 1
  /\ clean' = clean \ {s}
  /\ UNCHANGED <<store, vector, moved>>

IngestStore(w) ==
  /\ At(w, "ingest", "store")
  /\ \/ /\ store' = store \cup ({call[w].scope} \X call[w].ids)
        /\ call' = [call EXCEPT ![w].at = "vector"]
     \/ UNCHANGED store /\ call' = Ended(w)
  /\ UNCHANGED <<vector, metadata, times, scoped, seen, calls, clean, moved>>

\* The upserts run side by side: a failure leaves some of them.
IngestVector(w) ==
  /\ At(w, "ingest", "vector")
  /\ \E some \in SUBSET call[w].ids : vector' = vector \cup ({call[w].scope} \X some)
  /\ call' = Ended(w)
  /\ UNCHANGED <<store, metadata, times, scoped, seen, calls, clean, moved>>

-----------------------------------------------------------------------------
\* What one eraseScope does in its three stages; a store or an index that throws
\* keeps what it has, and the others are still attempted.
Busy(s, w) == \E v \in Workers \ {w} : call[v].scope = s \/ call[v].to = s

Erase(w, s) ==
  /\ call[w] = Idle /\ calls < MaxCalls
  /\ calls' = calls + 1
  /\ call' = [call EXCEPT ![w] = [Idle EXCEPT !.op = "erase", !.at = "store",
                                    !.scope = s, !.alone = ~ Busy(s, w)]]
  /\ UNCHANGED <<store, vector, metadata, times, scoped, seen, clean, moved>>

\* An erase of its source or target disturbs a merge, unless it is its own.
Untouched(m, c) ==
  \/ c.scope \notin {m[1][1], m[1][2]}
  \/ c.op = "merge" /\ m[1] = <<c.scope, c.to>> /\ m[2] \in c.ids

Erasing(w) == call[w].op \in {"erase", "merge"}

EraseStore(w) ==
  /\ Erasing(w) /\ call[w].at = "store"
  /\ \E ok \in BOOLEAN :
       /\ store' = IF ok THEN store \ Of(call[w].scope) ELSE store
       /\ call' = [call EXCEPT ![w].at = "vector", ![w].failed = ~ ok]
       /\ moved' = IF ok THEN {m \in moved : Untouched(m, call[w])} ELSE moved
  /\ UNCHANGED <<vector, metadata, times, scoped, seen, calls, clean>>

EraseVector(w) ==
  /\ Erasing(w) /\ call[w].at = "vector"
  /\ \E ok \in BOOLEAN :
       /\ vector' = IF ok THEN vector \ Of(call[w].scope) ELSE vector
       /\ call' = [call EXCEPT ![w].at = "maps", ![w].failed = @ \/ ~ ok]
  /\ UNCHANGED <<store, metadata, times, scoped, seen, calls, clean, moved>>

\* The faulty variants keep the texts seen, and take a failure for a success.
SeenKept(s) == seen
SeenAfter(s) == seen \ Of(s)

NeverComplains(w) == FALSE
Complains(w) == call[w].failed

\* The maps are cleared by the list of ids, whatever failed before.
EraseMaps(w) ==
  /\ Erasing(w) /\ call[w].at = "maps"
  /\ LET s == call[w].scope
         listed == scoped \cap Of(s)
     IN /\ metadata' = Drop(metadata, listed)
        /\ times' = Drop(times, listed)
        /\ scoped' = scoped \ listed
        /\ seen' = SeenAfter(s)
        /\ clean' = IF call[w].alone /\ ~ Complains(w) THEN clean \cup {s} ELSE clean
  /\ call' = Ended(w)
  /\ UNCHANGED <<store, vector, calls, moved>>

-----------------------------------------------------------------------------
\* mergeScopes reads its source, copies, and erases the source.
Merge(w, s, t) ==
  /\ call[w] = Idle /\ calls < MaxCalls /\ s # t
  /\ calls' = calls + 1
  /\ call' = [v \in Workers |->
        IF v = w THEN [Idle EXCEPT !.op = "merge", !.at = "read", !.scope = s, !.to = t]
        ELSE Beside(v, t)]
  /\ UNCHANGED <<store, vector, metadata, times, scoped, seen, clean, moved>>

MergeRead(w) ==
  /\ At(w, "merge", "read")
  /\ call' = [call EXCEPT ![w].at = "copy", ![w].ids = {k[2] : k \in store \cap Of(call[w].scope)}]
  /\ moved' = IF \E v \in Workers \ {w} : Erasing(v) THEN moved
              ELSE moved \cup ({<<call[w].scope, call[w].to>>} \X call'[w].ids)
  /\ UNCHANGED <<store, vector, metadata, times, scoped, seen, calls, clean>>

\* The faulty variant goes on to erase when the copy has failed.
AfterFailedCopyErase(w) == [call EXCEPT ![w].at = "store"]
AfterFailedCopy(w) == Ended(w)

MergeCopy(w) ==
  /\ At(w, "merge", "copy")
  /\ LET keys == {call[w].to} \X call[w].ids
     IN \/ /\ store' = store \cup keys
           /\ scoped' = scoped \cup keys
           /\ times' = Put(times, keys)
           /\ metadata' = Put(metadata, keys)
           /\ call' = [call EXCEPT ![w].at = "index"]
        \/ call' = AfterFailedCopy(w) /\ UNCHANGED <<store, scoped, times, metadata>>
  /\ clean' = clean \ {call[w].to}
  /\ UNCHANGED <<vector, seen, calls, moved>>

MergeIndex(w) ==
  /\ At(w, "merge", "index")
  /\ \E some \in SUBSET call[w].ids :
       /\ vector' = vector \cup ({call[w].to} \X some)
       /\ \/ some = call[w].ids
             /\ call' = [call EXCEPT ![w].at = "store",
                                     ![w].alone = ~ Busy(call[w].scope, w)]
          \/ call' = Ended(w)
  /\ UNCHANGED <<store, metadata, times, scoped, seen, calls, clean, moved>>

Next ==
  \E w \in Workers :
    \/ \E s \in Scopes, ids \in SUBSET Ids : ids # {} /\ Ingest(w, s, ids)
    \/ IngestStore(w) \/ IngestVector(w)
    \/ \E s \in Scopes : Erase(w, s)
    \/ EraseStore(w) \/ EraseVector(w) \/ EraseMaps(w)
    \/ \E s, t \in Scopes : Merge(w, s, t)
    \/ MergeRead(w) \/ MergeCopy(w) \/ MergeIndex(w)

Spec == Init /\ [][Next]_mvars

-----------------------------------------------------------------------------
\* Every variable has its type.
TypeOK ==
  /\ store \subseteq EntryKeys /\ vector \subseteq EntryKeys
  /\ scoped \subseteq EntryKeys /\ seen \subseteq EntryKeys
  /\ clean \subseteq Scopes /\ moved \subseteq (Scopes \X Scopes) \X Ids

\* An eraseScope that reports success, and that no other call for the scope ran
\* beside, has left nothing of it in the store, in the index and in what dedupes
\* writes, until something is written there.
ErasedIsGone ==
  \A s \in clean : (store \cup vector \cup seen \cup scoped) \cap Of(s) = {}

\* What a merge finds at its source, with no other erase or merge under way, is
\* there or at its target at every moment and whatever fails, until another call
\* erases one of the two scopes: the copy is made before the source is erased.  Of
\* what is ingested after the merge has read its source this says nothing.
MergeKeeps ==
  \A m \in moved : {<<m[1][1], m[2]>>, <<m[1][2], m[2]>>} \cap store # {}

\* memory.ts, of mergeScopes: "Copies all memory data from `from` into `to`, then
\* erases `from`."
ErasesWhatItCopied ==
  [][\A w \in Workers : At(w, "merge", "store") /\ call'[w].at = "vector" =>
       (store \ store') \cap Of(call[w].scope) \subseteq {call[w].scope} \X call[w].ids]_mvars

\* memory.ts: "In-memory maps are ALWAYS cleared for the erased scope [...] so
\* they never leak after partial failure."
MapsErased ==
  \A s \in clean : (Range(metadata) \cup Range(times)) \cap Of(s) = {}

\* memory.ts: "tracks `scopeKey + "\0" + normalizedText` for every event
\* successfully written."
SeenIsWritten ==
  \A k \in seen : \/ k \in store
                  \/ \E w \in Workers : call[w].scope = k[1]
=============================================================================
