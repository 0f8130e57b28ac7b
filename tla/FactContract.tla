----------------------------- MODULE FactContract -----------------------------
(***************************************************************************)
(* What GraphPort promises about the facts of one (scope, subject,         *)
(* predicate): the in-memory store of packages/types/src/testing.ts, where *)
(* every operation is one step.  A fact is never deleted and never moved:  *)
(* a fact that contradicts the current one closes it at its own start.     *)
(***************************************************************************)
EXTENDS Integers, Sequences

CONSTANTS Objects, Times

VARIABLE facts   \* rows in the order they were asserted

Open == 0        \* validUntil undefined
Nothing == 0     \* no supersedes link, no expiresAt

Current(rows) == {i \in DOMAIN rows : rows[i].until = Open}

\* The one fact that is closed by a transition, when there is exactly one.
Superseded(rows) ==
  IF \E i \in Current(rows) : Current(rows) = {i}
  THEN CHOOSE i \in Current(rows) : TRUE ELSE Nothing

New(rows, object, from, expires) ==
  [object |-> object, from |-> from, until |-> Open,
   supersedes |-> Superseded(rows), expires |-> expires, confirmed |-> FALSE]

Known(rows, object) == \E i \in Current(rows) : rows[i].object = object
InOrder(rows, from) == \A i \in Current(rows) : rows[i].from <= from

Close(rows, S, at) ==
  [i \in DOMAIN rows |-> IF i \in S \cap Current(rows)
                         THEN [rows[i] EXCEPT !.until = at, !.confirmed = FALSE]
                         ELSE rows[i]]

\* The rows after an assertion that neither repeats the current fact nor
\* precedes it.
Transition(rows, object, from, expires) ==
  Append(Close(rows, Current(rows), from), New(rows, object, from, expires))

Init == facts = << >>

AssertFact(object, from, expires) ==
  /\ ~ Known(facts, object) /\ InOrder(facts, from)
  /\ facts' = Transition(facts, object, from, expires)

ExpireFacts(S, at) == facts' = Close(facts, S, at)

Stale(rows, now) ==
  {i \in Current(rows) : rows[i].expires # Nothing /\ rows[i].expires <= now}

SweepExpired(now) == facts' = Close(facts, Stale(facts, now), now)

\* lastCorroboratedAt moves; that it moved while the fact was current is all
\* the model keeps of it.
Corroborate(i) ==
  /\ i \in Current(facts)
  /\ facts' = [facts EXCEPT ![i].confirmed = TRUE]

\* An operation that finds nothing to do, and every read.
NothingToDo == UNCHANGED facts

Next ==
  \/ NothingToDo
  \/ \E o \in Objects, t \in Times, e \in Times \cup {Nothing} : AssertFact(o, t, e)
  \/ \E S \in SUBSET DOMAIN facts, t \in Times : ExpireFacts(S, t)
  \/ \E t \in Times : SweepExpired(t)
  \/ \E i \in DOMAIN facts : Corroborate(i)

Spec == Init /\ [][Next]_facts

\* The facts of a (subject, predicate) form one timeline: one is current, and a
\* fact that supersedes another starts where the other ends, so that a question
\* about a date finds neither two answers nor a gap.
OneTimeline ==
  /\ \A i, j \in Current(facts) : i = j
  /\ \A i \in DOMAIN facts :
       LET j == facts[i].supersedes IN
         j # Nothing => j \in 1..(i - 1) /\ facts[j].until = facts[i].from
=============================================================================
