--------------------------- MODULE PromptRegistry ---------------------------
(***************************************************************************)
(* createPromptRegistry (packages/prompts/src/registry.ts) over the stores *)
(* of its package: processes register bodies and move tags in one state,   *)
(* which a mutation reads, changes and writes back.  A file store does so  *)
(* under its lock file (LockFile), a store without transact() under        *)
(* nothing but the chain of one registry.                                  *)
(***************************************************************************)
EXTENDS Integers, Sequences, FiniteSetsExt

CONSTANTS
  Processes,
  Names, Bodies, Tags,
  Transacts,     \* the store has transact()
  MaxMutations   \* bound on the mutations of a session

VARIABLES
  state,         \* what the store holds: versions, tags, history
  worker,        \* the mutation each process is in
  acked,         \* events of the mutations that were answered
  mutations      \* mutations so far

pvars == <<state, worker, acked, mutations>>

Empty == [versions |-> [n \in Names |-> <<>>],
          tags |-> [n \in Names |-> [t \in Tags |-> 0]],
          history |-> <<>>]
Free == [at |-> "free", working |-> Empty]

Init ==
  /\ state = Empty
  /\ worker = [p \in Processes |-> Free]
  /\ acked = <<>>
  /\ mutations = 0

-----------------------------------------------------------------------------
\* Events of the history.
Registered(n, v) == [kind |-> "version_registered", name |-> n, tag |-> "none", to |-> v]
Moved(n, t, v) == [kind |-> "tag_moved", name |-> n, tag |-> t, to |-> v]
Removed(n, t) == [kind |-> "tag_removed", name |-> n, tag |-> t, to |-> 0]

Recorded(s, event) == [s EXCEPT !.history = Append(@, event)]

\* A body that the name already has is that version.
Register(s, n, b) ==
  IF b \in Range(s.versions[n]) THEN s
  ELSE Recorded([s EXCEPT !.versions[n] = Append(@, b)],
                Registered(n, Len(s.versions[n]) + 1))

Tag(s, n, v, t) ==
  Recorded([s EXCEPT !.tags[n][t] = v], Moved(n, t, v))

\* The faulty variant keeps no record.
UntagSilently(s, n, t) == [s EXCEPT !.tags[n][t] = 0]

Untag(s, n, t) == Recorded([s EXCEPT !.tags[n][t] = 0], Removed(n, t))

\* What a mutation may make of the state it reads; a call that throws makes
\* nothing of it.
Registering(s) == {Register(s, n, b) : n \in Names, b \in Bodies}
Tagging(s) ==
  UNION {{Tag(s, n, v, t) : v \in 1..Len(s.versions[n]), t \in Tags} : n \in Names}
Untagging(s) ==
  UNION {{Untag(s, n, t) : t \in {u \in Tags : s.tags[n][u] # 0}} : n \in Names}
Outcomes(s) == Registering(s) \cup Tagging(s) \cup Untagging(s)

\* The faulty variant takes no lock.
NoLock(p) == TRUE

\* The lock of the file, which one process holds.
Locked(p) == Transacts => \A q \in Processes \ {p} : worker[q].at = "free"

\* A mutation of the chain has its turn: it reads the state and changes its copy.
Begin(p) ==
  /\ worker[p].at = "free" /\ mutations < MaxMutations
  /\ Locked(p)
  /\ mutations' = mutations + 1
  /\ \E s \in Outcomes(state) :
       worker' = [worker EXCEPT ![p] = [at |-> "write", working |-> s]]
  /\ UNCHANGED <<state, acked>>

\* The rename replaces the whole file.
Write(p) ==
  /\ worker[p].at = "write"
  /\ state' = worker[p].working
  /\ worker' = [worker EXCEPT ![p].at = "answer"]
  /\ UNCHANGED <<acked, mutations>>

Answer(p) ==
  /\ worker[p].at = "answer"
  /\ acked' = worker[p].working.history
  /\ worker' = [worker EXCEPT ![p] = Free]
  /\ UNCHANGED <<state, mutations>>

\* A crash, or a write that fails, before or after the rename.
Fail(p) ==
  /\ worker[p].at # "free"
  /\ worker' = [worker EXCEPT ![p] = Free]
  /\ UNCHANGED <<state, acked, mutations>>

Next == \E p \in Processes : Begin(p) \/ Write(p) \/ Answer(p) \/ Fail(p)

Spec == Init /\ [][Next]_pvars

-----------------------------------------------------------------------------
\* Every variable has its type.
TypeOK ==
  /\ \A n \in Names : Range(state.versions[n]) \subseteq Bodies
  /\ mutations \in 0..MaxMutations

\* What the history of a state says the tag points to.
Moves(s, n, t) == {i \in DOMAIN s.history : s.history[i].name = n /\ s.history[i].tag = t}
LastOf(s, n, t) ==
  IF Moves(s, n, t) = {} THEN 0 ELSE s.history[Max(Moves(s, n, t))].to

Registrations(s, n) ==
  {i \in DOMAIN s.history : s.history[i].kind = "version_registered" /\ s.history[i].name = n}

Explains(s) ==
  \A n \in Names :
    /\ IsInjective(s.versions[n])
    /\ Cardinality(Registrations(s, n)) = Len(s.versions[n])
    /\ \A t \in Tags : /\ s.tags[n][t] = LastOf(s, n, t)
                       /\ s.tags[n][t] <= Len(s.versions[n])

\* The history explains the versions and the tags, a body has one version, and a
\* tag names a version that is there.
HistoryExplains == Explains(state)

\* What was answered is never taken back, by no process.
AnsweredStays ==
  /\ Len(acked) <= Len(state.history)
  /\ \A i \in DOMAIN acked : state.history[i] = acked[i]
=============================================================================
