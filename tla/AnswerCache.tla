---------------------------- MODULE AnswerCache ----------------------------
(***************************************************************************)
(* cachedModel (packages/model/src/cache.ts): calls of complete() that     *)
(* overlap look a key up in an LRU and in the store behind it, ask the     *)
(* model on a miss, and write its answer to both.                          *)
(***************************************************************************)
EXTENDS Integers, Sequences, Functions

CONSTANTS
  Calls, Keys,
  Ttl, MaxEntries,
  HasStore,   \* the option store
  MaxTime     \* bound on the clock

VARIABLES
  lru,      \* entries of the LRU, the least recently used first
  outer,    \* for each key, when the store took its entry, and 0
  call,     \* what each call awaits
  now,
  late      \* how many times ttlMs the oldest answer served was kept

hvars == <<lru, outer, call, now, late>>

Idle == [at |-> "idle", key |-> 0, born |-> 0, seen |-> 0]

\* An entry: its key, since when its answer is kept, here or in the store that it
\* came from, and when it is stale.
Entry(k, born, until) == [key |-> k, born |-> born, until |-> until]

Init ==
  /\ lru = <<>>
  /\ outer = [k \in Keys |-> 0]
  /\ call = [c \in Calls |-> Idle]
  /\ now = 1 /\ late = 0

-----------------------------------------------------------------------------
Holds(k) == \E i \in DOMAIN lru : lru[i].key = k
Place(k) == CHOOSE i \in DOMAIN lru : lru[i].key = k
Without(k) ==
  IF Holds(k) THEN SubSeq(lru, 1, Place(k) - 1) \o SubSeq(lru, Place(k) + 1, Len(lru))
  ELSE lru

\* The least recently used entry goes when there are too many.
Evicted(entries) == IF Len(entries) > MaxEntries THEN Tail(entries) ELSE entries

\* set() of the LRU.
With(e) == Evicted(Append(Without(e.key), e))

\* The faulty variant serves what it finds.
StillGood(e) == TRUE

Fresh(e) == e.until > now

Served(born) == late' = IF (now - born) \div Ttl > late THEN (now - born) \div Ttl ELSE late

\* get() makes the entry the most recently used one, stale or not.
LookUp(c, k) ==
  /\ call[c].at = "idle"
  /\ lru' = IF Holds(k) THEN Append(Without(k), lru[Place(k)]) ELSE lru
  /\ IF Holds(k) /\ Fresh(lru[Place(k)])
     THEN /\ Served(lru[Place(k)].born)
          /\ UNCHANGED call
     ELSE /\ call' = [call EXCEPT ![c] =
                        [at |-> IF HasStore THEN "store" ELSE "model",
                         key |-> k, born |-> 0, seen |-> now]]
          /\ UNCHANGED late
  /\ UNCHANGED <<outer, now>>

\* The store drops what is older than ttlMs; what it finds goes into the LRU,
\* with a time to live counted from the lookup.
LookFurther(c) ==
  LET k == call[c].key
      born == outer[k]
  IN /\ call[c].at = "store"
     /\ IF born # 0 /\ born + Ttl > now
        THEN /\ lru' = With(Entry(k, born, call[c].seen + Ttl))
             /\ Served(born)
             /\ call' = [call EXCEPT ![c] = Idle]
        ELSE /\ call' = [call EXCEPT ![c].at = "model"]
             /\ UNCHANGED <<lru, late>>
     /\ UNCHANGED <<outer, now>>

\* The model answers, and the answer goes into the LRU first.
Model(c) ==
  /\ call[c].at = "model"
  /\ lru' = With(Entry(call[c].key, now, now + Ttl))
  /\ call' = [call EXCEPT ![c] = IF HasStore
                THEN [at |-> "save", key |-> call[c].key, born |-> now, seen |-> 0]
                ELSE Idle]
  /\ UNCHANGED <<outer, now, late>>

\* A model that fails leaves no entry.
ModelFails(c) ==
  /\ call[c].at = "model"
  /\ call' = [call EXCEPT ![c] = Idle]
  /\ UNCHANGED <<lru, outer, now, late>>

\* The store is written last, and takes its time, or fails, and then the call fails
\* with it: the life of the store's entry begins when it is written.
Save(c) ==
  /\ call[c].at = "save"
  /\ \E written \in BOOLEAN :
       outer' = IF written THEN [outer EXCEPT ![call[c].key] = now] ELSE outer
  /\ call' = [call EXCEPT ![c] = Idle]
  /\ UNCHANGED <<lru, now, late>>

Tick ==
  /\ now < MaxTime
  /\ now' = now + 1
  /\ UNCHANGED <<lru, outer, call, late>>

Next ==
  \/ \E c \in Calls :
       \/ \E k \in Keys : LookUp(c, k)
       \/ LookFurther(c) \/ Model(c) \/ ModelFails(c) \/ Save(c)
  \/ Tick

Spec == Init /\ [][Next]_hvars

-----------------------------------------------------------------------------
\* Every variable has its type.
TypeOK ==
  /\ Len(lru) <= MaxEntries
  /\ now \in 1..MaxTime /\ late \in 0..MaxTime

\* The LRU holds a key once and no more keys than it may, and no answer is served
\* that was put into the LRU ttlMs ago, or where there is a store, that the LRU or
\* the store took twice ttlMs ago.  (What the store took to write comes on top of
\* the answer's age.)
ServedInTime ==
  /\ Len(lru) <= MaxEntries
  /\ IsInjective([i \in DOMAIN lru |-> lru[i].key])
  /\ late < (IF HasStore THEN 2 ELSE 1)

\* ttlMs is "how long a cached response is valid".
ValidForTtl == late = 0
=============================================================================
