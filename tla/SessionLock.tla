---------------------------- MODULE SessionLock ----------------------------
(***************************************************************************)
(* Agent.acquireSession of packages/core/src/agent.ts: the lock of one     *)
(* process that queries and resumes of a session pass through, built from  *)
(* a chain of promises.  A request waits for the tail of the request       *)
(* before it; its own tail resolves when that one has and its gate is      *)
(* open.  The map from session to tail is cleaned up by the last request.  *)
(***************************************************************************)
EXTENDS Naturals, TLAPS

CONSTANTS
  Requests,   \* calls of query and resume
  Sessions,
  SessionOf,  \* [Requests -> Sessions]
  None        \* no tail: Promise.resolve()

ASSUME SessionLockAssumption ==
  /\ SessionOf \in [Requests -> Sessions]
  /\ None \notin Requests

VARIABLES
  tails,      \* STORE_SESSION_TAILS of the store: session -> tail
  previous,   \* the tail each request awaits
  state,      \* of each request
  settled,    \* the requests whose tail promise is resolved
  turn,       \* history: position of each request in the order of the calls
  calls       \* history: number of calls so far

vars == <<tails, previous, state, settled, turn, calls>>

States == {"new", "waiting", "holding", "released"}

\* Every variable has its type.
TypeOK ==
  /\ tails \in [Sessions -> Requests \cup {None}]
  /\ previous \in [Requests -> Requests \cup {None}]
  /\ state \in [Requests -> States]
  /\ settled \subseteq Requests
  /\ turn \in [Requests -> Nat]
  /\ calls \in Nat

Init ==
  /\ tails = [s \in Sessions |-> None]
  /\ previous = [r \in Requests |-> None]
  /\ state = [r \in Requests |-> "new"]
  /\ settled = {}
  /\ turn = [r \in Requests |-> 0]
  /\ calls = 0

Resolved(r) == r = None \/ r \in settled

Acquire(r) ==
  /\ state[r] = "new"
  /\ previous' = [previous EXCEPT ![r] = tails[SessionOf[r]]]
  /\ tails' = [tails EXCEPT ![SessionOf[r]] = r]
  /\ state' = [state EXCEPT ![r] = "waiting"]
  /\ turn' = [turn EXCEPT ![r] = calls]
  /\ calls' = calls + 1
  /\ UNCHANGED settled

\* The await returns: the request runs.
Enter(r) ==
  /\ state[r] = "waiting"
  /\ Resolved(previous[r])
  /\ state' = [state EXCEPT ![r] = "holding"]
  /\ UNCHANGED <<tails, previous, settled, turn, calls>>

\* Faulty variant: the map entry is deleted whoever owns it.
ReleaseAny(r) ==
  /\ state[r] = "holding"
  /\ state' = [state EXCEPT ![r] = "released"]
  /\ tails' = [tails EXCEPT ![SessionOf[r]] = None]
  /\ UNCHANGED <<previous, settled, turn, calls>>

\* The finally block of query and resume: the gate opens, and the map entry
\* goes if no later request replaced it.
Release(r) ==
  /\ state[r] = "holding"
  /\ state' = [state EXCEPT ![r] = "released"]
  /\ tails' = [s \in Sessions |-> IF s = SessionOf[r] /\ tails[s] = r THEN None
                                                                    ELSE tails[s]]
  /\ UNCHANGED <<previous, settled, turn, calls>>

\* Faulty variant: a rejected tail is not caught and never resolves.
SettleNever(r) == r \in settled /\ UNCHANGED vars

\* The tail of r resolves, in a microtask that anything may come before.
Settle(r) ==
  /\ state[r] = "released" /\ r \notin settled
  /\ Resolved(previous[r])
  /\ settled' = settled \cup {r}
  /\ UNCHANGED <<tails, previous, state, turn, calls>>

Next == \E r \in Requests : Acquire(r) \/ Enter(r) \/ Release(r) \/ Settle(r)

\* Microtasks run, and whoever iterates over a run drains it or returns it.
Fairness ==
  \A r \in Requests : WF_vars(Enter(r)) /\ WF_vars(Release(r)) /\ WF_vars(Settle(r))
Spec == Init /\ [][Next]_vars
FairSpec == Spec /\ Fairness

-----------------------------------------------------------------------------
Before(q, r) == /\ SessionOf[q] = SessionOf[r]
                /\ state[q] # "new" /\ state[r] # "new" /\ turn[q] < turn[r]

\* Queries and resumes of one session run one at a time, in the order of the
\* calls: while one runs, every earlier one has released the session.
OneAtATimeInOrder ==
  \A q, r \in Requests : Before(q, r) /\ state[r] = "holding" => state[q] = "released"

\* No query or resume waits for ever.
EveryRequestRuns == \A r \in Requests : state[r] = "waiting" ~> state[r] = "holding"

-----------------------------------------------------------------------------
(***************************************************************************)
(* The session lock is a first-come first-served mutex, for any number of  *)
(* requests and sessions.                                                  *)
(*                                                                         *)
(* The argument follows the chain of promises.  A request that awaits the  *)
(* tail of p awaits the request right before it (Chain), and a tail        *)
(* resolves only after its request and every earlier one have released     *)
(* (SettledOK).  A request with nothing to await found the map empty, when *)
(* every earlier one had released (TailOK, ReadyOK).                       *)
(***************************************************************************)

\* Positions are distinct and below the number of calls.
TurnOK ==
  /\ \A r \in Requests : state[r] # "new" => turn[r] < calls
  /\ \A q, r \in Requests :
       state[q] # "new" /\ state[r] # "new" /\ turn[q] = turn[r] => q = r

\* The tail in the map is that of the last request of the session, and without
\* one nobody holds or awaits the session.
TailOK ==
  \A s \in Sessions :
    /\ tails[s] # None => SessionOf[tails[s]] = s /\ state[tails[s]] # "new"
    /\ \A r \in Requests : SessionOf[r] = s /\ state[r] # "new" =>
          /\ tails[s] = None => state[r] = "released"
          /\ tails[s] # None => turn[r] <= turn[tails[s]]

\* Every request awaits the one right before it.
Chain ==
  \A r \in Requests : state[r] # "new" /\ previous[r] # None =>
    /\ Before(previous[r], r)
    /\ \A q \in Requests : Before(q, r) => turn[q] <= turn[previous[r]]

\* A request that has nothing left to await comes after released ones only.
ReadyOK ==
  \A q, r \in Requests : Before(q, r) /\ Resolved(previous[r]) => state[q] = "released"

SettledOK == \A r \in settled : state[r] = "released" /\ Resolved(previous[r])

HoldingOK ==
  \A r \in Requests : state[r] \in {"holding", "released"} => Resolved(previous[r])

IInv == TypeOK /\ TurnOK /\ TailOK /\ Chain /\ ReadyOK /\ SettledOK /\ HoldingOK

LEMMA InitIInv == Init => IInv
<1> SUFFICES ASSUME Init PROVE IInv
  OBVIOUS
<1> USE DEF Init
<1>1. TypeOK
  BY DEF TypeOK, States
<1>2. TurnOK /\ TailOK
  BY DEF TurnOK, TailOK
<1>3. Chain /\ ReadyOK
  BY DEF Chain, ReadyOK, Before
<1>4. SettledOK /\ HoldingOK
  BY DEF SettledOK, HoldingOK
<1> QED
  BY <1>1, <1>2, <1>3, <1>4 DEF IInv

\* Type correctness of one step.
LEMMA TypeStep == TypeOK /\ [Next]_vars => TypeOK'
<1> SUFFICES ASSUME TypeOK, [Next]_vars PROVE TypeOK'
  OBVIOUS
<1> USE SessionLockAssumption DEF TypeOK, States
<1>1. ASSUME NEW r \in Requests, Acquire(r) PROVE TypeOK'
  BY <1>1 DEF Acquire
<1>2. ASSUME NEW r \in Requests, Enter(r) PROVE TypeOK'
  BY <1>2 DEF Enter
<1>3. ASSUME NEW r \in Requests, Release(r) PROVE TypeOK'
  BY <1>3 DEF Release
<1>4. ASSUME NEW r \in Requests, Settle(r) PROVE TypeOK'
  BY <1>4 DEF Settle
<1>5. ASSUME UNCHANGED vars PROVE TypeOK'
  BY <1>5 DEF vars
<1> QED
  BY <1>1, <1>2, <1>3, <1>4, <1>5 DEF Next

LEMMA AcquireStep ==
  ASSUME IInv, NEW r \in Requests, Acquire(r)
  PROVE  (TurnOK /\ TailOK /\ Chain /\ ReadyOK /\ SettledOK /\ HoldingOK)'
<1> USE SessionLockAssumption DEF IInv, TypeOK, Acquire
<1> DEFINE s == SessionOf[r]
<1>1. \A q \in Requests : q # r =>
        state'[q] = state[q] /\ turn'[q] = turn[q] /\ previous'[q] = previous[q]
  OBVIOUS
<1>2. state'[r] = "waiting" /\ turn'[r] = calls /\ previous'[r] = tails[s]
      /\ settled' = settled /\ calls' = calls + 1 /\ state[r] = "new"
  OBVIOUS
<1>3. TurnOK'
  BY <1>1, <1>2 DEF TurnOK
<1>4. TailOK'
  <2>0. ASSUME NEW z \in Sessions, tails'[z] # None
        PROVE  SessionOf[tails'[z]] = z /\ state'[tails'[z]] # "new"
    BY <1>1, <2>0 DEF TailOK
  <2> SUFFICES ASSUME NEW z \in Sessions, NEW q \in Requests,
                      SessionOf[q] = z, state'[q] # "new"
               PROVE  /\ tails'[z] = None => state'[q] = "released"
                      /\ tails'[z] # None => turn'[q] <= turn'[tails'[z]]
    BY <2>0 DEF TailOK
  <2>1. CASE z = s
    BY <1>1, <1>2, <2>1 DEF TurnOK
  <2>2. CASE z # s
    BY <1>1, <1>2, <2>2 DEF TailOK
  <2> QED
    BY <2>1, <2>2
<1>5. \A p, q \in Requests : q # r =>
        (Before(p, q)' <=> p # r /\ Before(p, q))
  BY <1>1, <1>2 DEF Before, TurnOK
<1>6. \A p \in Requests : Before(p, r)' => p # r /\ SessionOf[p] = s /\ state[p] # "new"
  BY <1>1, <1>2 DEF Before
<1>7. Chain'
  <2> SUFFICES ASSUME NEW q \in Requests, state'[q] # "new", previous'[q] # None
               PROVE  /\ Before(previous[q], q)'
                      /\ \A p \in Requests : Before(p, q)' => turn'[p] <= turn'[previous'[q]]
    BY DEF Chain, Before
  <2>1. CASE q = r
    <3>1. tails[s] \in Requests /\ tails[s] # None
      BY <1>2, <2>1
    <3>2. PICK t \in Requests : t = tails[s]
      BY <3>1
    <3>3. SessionOf[t] = s /\ state[t] # "new" /\ t # r /\ turn[t] < calls
      <4>1. SessionOf[t] = s /\ state[t] # "new"
        BY <3>1, <3>2 DEF TailOK
      <4> QED
        BY <1>2, <4>1 DEF TurnOK
    <3>4. Before(previous[q], q)' /\ turn'[previous'[q]] = turn[t]
      BY <1>1, <1>2, <2>1, <3>2, <3>3 DEF Before
    <3>5. ASSUME NEW p \in Requests, Before(p, q)' PROVE turn'[p] <= turn[t]
      <4>1. p # r /\ SessionOf[p] = s /\ state[p] # "new"
        BY <1>6, <2>1, <3>5
      <4> QED
        BY <1>1, <3>1, <3>2, <4>1 DEF TailOK
    <3> QED
      BY <3>4, <3>5
  <2>2. CASE q # r
    <3>1. /\ previous[q] \in Requests /\ previous[q] # None
          /\ state[q] # "new" /\ previous'[q] = previous[q]
      BY <1>1, <2>2
    <3>2. Before(previous[q], q)
      BY <2>2, <3>1 DEF Chain
    <3>3. previous[q] # r
      BY <1>2, <3>2 DEF Before
    <3>4. Before(previous[q], q)' /\ turn'[previous[q]] = turn[previous[q]]
      BY <1>1, <1>5, <2>2, <3>1, <3>2, <3>3
    <3>5. ASSUME NEW p \in Requests, Before(p, q)' PROVE turn'[p] <= turn[previous[q]]
      BY <1>1, <1>5, <2>2, <3>1, <3>5 DEF Chain
    <3> QED
      BY <3>1, <3>4, <3>5
  <2> QED
    BY <2>1, <2>2
<1>8. ReadyOK'
  <2> SUFFICES ASSUME NEW p \in Requests, NEW q \in Requests,
                      Before(p, q)', Resolved(previous[q])'
               PROVE  state'[p] = "released"
    BY DEF ReadyOK
  <2>1. CASE q = r
    <3>1. p # r /\ SessionOf[p] = s /\ state[p] # "new"
      BY <1>6, <2>1
    <3>2. CASE tails[s] = None
      BY <1>1, <3>1, <3>2 DEF TailOK
    <3>3. CASE tails[s] # None
      <4>1. PICK t \in Requests : t = tails[s]
        BY <3>3
      <4>2. t \in settled
        BY <1>2, <2>1, <3>3, <4>1 DEF Resolved
      <4>3. state[t] = "released" /\ Resolved(previous[t])
        BY <4>2 DEF SettledOK
      <4>4. SessionOf[t] = s /\ turn[p] <= turn[t]
        BY <3>1, <3>3, <4>1 DEF TailOK
      <4>5. p = t \/ Before(p, t)
        BY <3>1, <4>3, <4>4 DEF Before, TurnOK
      <4>6. state[p] = "released"
        BY <4>3, <4>5 DEF ReadyOK
      <4> QED
        BY <1>1, <3>1, <4>6
    <3> QED
      BY <3>2, <3>3
  <2>2. CASE q # r
    BY <1>1, <1>2, <1>5, <2>2 DEF ReadyOK, Resolved
  <2> QED
    BY <2>1, <2>2
<1>9. SettledOK' /\ HoldingOK'
  BY <1>1, <1>2 DEF SettledOK, HoldingOK, Resolved
<1> QED
  BY <1>3, <1>4, <1>7, <1>8, <1>9

LEMMA EnterStep ==
  ASSUME IInv, NEW r \in Requests, Enter(r)
  PROVE  (TurnOK /\ TailOK /\ Chain /\ ReadyOK /\ SettledOK /\ HoldingOK)'
<1> USE DEF IInv, TypeOK, Enter
<1>1. \A q \in Requests : /\ q # r => state'[q] = state[q]
                          /\ state'[q] = "new" <=> state[q] = "new"
                          /\ state[q] = "released" => state'[q] = "released"
  OBVIOUS
<1>2. \A p, q : p \in Requests /\ q \in Requests => (Before(p, q)' <=> Before(p, q))
  BY <1>1 DEF Before
<1>3. TurnOK'
  BY <1>1 DEF TurnOK
<1>4. TailOK'
  BY <1>1 DEF TailOK
<1>5. Chain'
  BY <1>1, <1>2 DEF Chain
<1>6. ReadyOK'
  BY <1>1, <1>2 DEF ReadyOK, Resolved
<1>7. SettledOK' /\ HoldingOK'
  BY <1>1 DEF SettledOK, HoldingOK, Resolved
<1> QED
  BY <1>3, <1>4, <1>5, <1>6, <1>7

LEMMA ReleaseStep ==
  ASSUME IInv, NEW r \in Requests, Release(r)
  PROVE  (TurnOK /\ TailOK /\ Chain /\ ReadyOK /\ SettledOK /\ HoldingOK)'
<1> USE SessionLockAssumption DEF IInv, TypeOK, Release
<1>1. \A q \in Requests : /\ q # r => state'[q] = state[q]
                          /\ state'[q] = "new" <=> state[q] = "new"
                          /\ state[q] = "released" => state'[q] = "released"
  OBVIOUS
<1>2. \A p, q : p \in Requests /\ q \in Requests => (Before(p, q)' <=> Before(p, q))
  BY <1>1 DEF Before
<1>3. TurnOK'
  BY <1>1 DEF TurnOK
<1>4. TailOK'
  <2>0. ASSUME NEW z \in Sessions, tails'[z] # None
        PROVE  SessionOf[tails'[z]] = z /\ state'[tails'[z]] # "new"
    BY <1>1, <2>0 DEF TailOK
  <2> SUFFICES ASSUME NEW z \in Sessions, NEW q \in Requests,
                      SessionOf[q] = z, state'[q] # "new"
               PROVE  /\ tails'[z] = None => state'[q] = "released"
                      /\ tails'[z] # None => turn'[q] <= turn'[tails'[z]]
    BY <2>0 DEF TailOK
  <2>1. CASE z = SessionOf[r] /\ tails[z] = r
    <3>1. state[q] # "new" /\ SessionOf[q] = SessionOf[r] /\ turn[q] <= turn[r]
      BY <1>1, <2>1 DEF TailOK
    <3>4. q = r \/ Before(q, r)
      BY <3>1 DEF TurnOK, Before
    <3>2. Resolved(previous[r])
      BY DEF HoldingOK
    <3>3. state'[q] = "released"
      BY <1>1, <3>4, <3>2 DEF ReadyOK
    <3> QED
      BY <2>1, <3>3
  <2>2. CASE ~(z = SessionOf[r] /\ tails[z] = r)
    <3>1. tails'[z] = tails[z]
      BY <2>2
    <3> QED
      BY <1>1, <3>1 DEF TailOK
  <2> QED
    BY <2>1, <2>2
<1>5. Chain'
  BY <1>1, <1>2 DEF Chain
<1>6. ReadyOK'
  BY <1>1, <1>2 DEF ReadyOK, Resolved
<1>7. SettledOK' /\ HoldingOK'
  BY <1>1 DEF SettledOK, HoldingOK, Resolved
<1> QED
  BY <1>3, <1>4, <1>5, <1>6, <1>7

LEMMA SettleStep ==
  ASSUME IInv, NEW r \in Requests, Settle(r)
  PROVE  (TurnOK /\ TailOK /\ Chain /\ ReadyOK /\ SettledOK /\ HoldingOK)'
<1> USE DEF IInv, TypeOK, Settle
<1>1. TurnOK' /\ TailOK' /\ Chain'
  BY DEF TurnOK, TailOK, Chain, Before
<1>2. ReadyOK'
  <2> SUFFICES ASSUME NEW p \in Requests, NEW q \in Requests,
                      Before(p, q)', Resolved(previous[q])'
               PROVE  state[p] = "released"
    BY DEF ReadyOK
  <2>1. Before(p, q)
    BY DEF Before
  <2>2. CASE previous[q] # r
    BY <2>1, <2>2 DEF ReadyOK, Resolved
  <2>3. CASE previous[q] = r
    <3>1. turn[p] <= turn[r] /\ Before(r, q)
      BY SessionLockAssumption, <2>1, <2>3 DEF Chain, Before
    <3>2. p = r \/ Before(p, r)
      BY <2>1, <3>1 DEF Before, TurnOK
    <3> QED
      BY <3>2 DEF ReadyOK
  <2> QED
    BY <2>2, <2>3
<1>3. SettledOK' /\ HoldingOK'
  BY DEF SettledOK, HoldingOK, Resolved
<1> QED
  BY <1>1, <1>2, <1>3

LEMMA StepIInv == IInv /\ [Next]_vars => IInv'
<1> SUFFICES ASSUME IInv, [Next]_vars PROVE IInv'
  OBVIOUS
<1>1. TypeOK'
  BY TypeStep DEF IInv
<1>2. CASE UNCHANGED vars
  BY <1>2 DEF IInv, TypeOK, TurnOK, TailOK, Chain, ReadyOK, SettledOK, HoldingOK,
              Before, Resolved, vars
<1>3. CASE Next
  <2>1. PICK r \in Requests : Acquire(r) \/ Enter(r) \/ Release(r) \/ Settle(r)
    BY <1>3 DEF Next
  <2> QED
    BY <1>1, <2>1, AcquireStep, EnterStep, ReleaseStep, SettleStep DEF IInv
<1> QED
  BY <1>2, <1>3

\* The variables of the lock keep their types.
THEOREM LockTypes == Spec => []TypeOK
<1>1. Init => TypeOK
  BY InitIInv DEF IInv
<1> QED
  BY <1>1, TypeStep, PTL DEF Spec

\* Queries and resumes of one session run one at a time, in the order in which
\* they were called, for any number of requests and sessions.
THEOREM FirstComeFirstServed == Spec => []OneAtATimeInOrder
<1>1. IInv => OneAtATimeInOrder
  BY DEF IInv, HoldingOK, ReadyOK, OneAtATimeInOrder
<1> QED
  BY <1>1, InitIInv, StepIInv, PTL DEF Spec
=============================================================================
