----------------------------- MODULE ServerProofs -----------------------------
(***************************************************************************)
(* What holds of the systems inside a server process for any values of     *)
(* their constants.  Each has an inductive invariant of its own: an entry  *)
(* of a run is kept while its job lives (RunsInv), a task, a scope and a   *)
(* lane have at most one callback, pass and item at work (TasksInv,        *)
(* PassesInv, BatchInv), and an execution of a workflow body counts the    *)
(* steps it begins in the order of the body, so that the key it computes   *)
(* for a step is the same in every execution (ExecInv, ReplayInv).         *)
(***************************************************************************)
EXTENDS MCServer, FiniteSetTheorems, SequenceTheorems, WellFoundedInduction, TLAPS

-----------------------------------------------------------------------------
(* Asynchronous runs. *)

Live == Runs!Terminals \cup {"querying"}

\* A request that was not accepted has neither run nor job; a job that is not over
\* keeps its entry, and its reservation.
RunsInv ==
  /\ Runs!TypeOK
  /\ \A r \in Requests :
       /\ slots[r] <= 1
       /\ request[r] # "accepted" => entry[r] = "none" /\ job[r] = "none"
       /\ request[r] = "accepted" => job[r] \in Live \cup {"over"}
       /\ request[r] \in {"unsent", "checking", "reserved"} => slots[r] = 0
       /\ job[r] = "over" => slots[r] = 1
       /\ job[r] \in Live => slots[r] = 0 /\ entry[r] = "running"

\* What a step may do to the entry of a run.
Kept(r) == entry'[r] = entry[r]
Left(r) == entry[r] = "running" /\ entry'[r] \in Runs!Terminals \cup {"timed_out"}
Evicted(r) == entry[r] # "running" /\ entry'[r] = "none"

LEMMA RunsStep ==
  ASSUME RunsInv, Runs!Next
  PROVE  /\ RunsInv'
         /\ \A r \in Runs!Registered : Kept(r) \/ Left(r) \/ Evicted(r)
<1> USE DEF RunsInv, Runs!TypeOK, Runs!Terminals, Live, Runs!NoEntry, Runs!Statuses,
            Kept, Left, Evicted
<1>1. CASE Runs!StartDrain \/ Runs!StopWaiting
  <2>1. /\ drain' \in {"waiting", "closing"} /\ UNCHANGED <<request, slots, entry, order, job, timer>>
        /\ signal' = signal \/ signal' = [r \in Requests |-> signal[r] \/ r \in Runs!Running]
    BY <1>1 DEF Runs!StartDrain, Runs!StopWaiting
  <2>2. signal' \in [Requests -> BOOLEAN]
    <3> DEFINE S(r) == signal[r] \/ r \in Runs!Running
    <3>1. \A r \in Requests : S(r) \in BOOLEAN
      OBVIOUS
    <3>2. signal' = signal \/ signal' = [r \in Requests |-> S(r)]
      BY <2>1
    <3> HIDE DEF S
    <3> QED
      BY <3>1, <3>2
  <2> HIDE DEF Live
  <2> QED
    BY <2>1, <2>2
<1>2. ASSUME NEW r \in Requests, Runs!Arrive(r) \/ Runs!Check(r) PROVE RunsInv' /\ UNCHANGED entry
  BY <1>2 DEF Runs!Arrive, Runs!Check, Runs!Goes
<1>3. ASSUME NEW r \in Requests, Runs!Terminal(r) \/ Runs!Timeout(r) PROVE RunsInv' /\ UNCHANGED entry
  <2>1. CASE Runs!Terminal(r)
    <3>1. PICK end \in {"completed", "failed", "aborted", "suspended"} : job' = [job EXCEPT ![r] = end]
      BY <2>1 DEF Runs!Terminal
    <3> QED
      BY <2>1, <3>1 DEF Runs!Terminal
  <2>2. CASE Runs!Timeout(r)
    BY <2>2 DEF Runs!Timeout
  <2> QED
    BY <1>3, <2>1, <2>2
<1>4. ASSUME NEW r \in Requests, Runs!Record(r) \/ Runs!Fail(r)
      PROVE  /\ RunsInv'
             /\ \A q \in Requests : Kept(q) \/ Left(q)
  <2>1. PICK end \in Runs!Terminals \cup {"timed_out"} :
          Runs!Settle(r, end) /\ slots' = [slots EXCEPT ![r] = slots[r] + 1] /\ job[r] \in Live
    BY <1>4 DEF Runs!Record, Runs!Fail, Runs!FinalStatus, Runs!Release
  <2> QED
    BY <2>1 DEF Runs!Settle
<1>5. ASSUME NEW r \in Requests, Runs!Register(r)
      PROVE  /\ RunsInv'
             /\ \A q \in Runs!Registered : Kept(q) \/ Evicted(q)
  <2>1. request[r] = "reserved" /\ entry[r] = "none" /\ job[r] = "none" /\ slots[r] = 0
        /\ UNCHANGED <<signal, drain>>
    BY <1>5 DEF Runs!Register
  <2>2. CASE /\ request' = [request EXCEPT ![r] = "refused"] /\ UNCHANGED <<entry, order, job, timer>>
             /\ slots' = [slots EXCEPT ![r] = slots[r] + 1]
    BY <2>1, <2>2
  <2>3. CASE /\ request' = [request EXCEPT ![r] = "accepted"]
             /\ job' = [job EXCEPT ![r] = "querying"] /\ timer' = [timer EXCEPT ![r] = "armed"]
             /\ UNCHANGED slots
             /\ \/ entry' = [entry EXCEPT ![r] = "running"]
                \/ \E old \in Runs!Evictable : entry' = [entry EXCEPT ![old] = "none", ![r] = "running"]
    <3>1. Runs!Evictable \subseteq {q \in Requests : entry[q] \notin {"none", "running"}}
      BY DEF Runs!Evictable, Runs!Oldest, Runs!Registered, Runs!Running
    <3>2. CASE entry' = [entry EXCEPT ![r] = "running"]
      BY <2>1, <2>3, <3>2 DEF Runs!Registered
    <3>3. CASE \E old \in Runs!Evictable : entry' = [entry EXCEPT ![old] = "none", ![r] = "running"]
      <4>1. PICK old \in Requests : entry[old] \notin {"none", "running"}
                     /\ entry' = [entry EXCEPT ![old] = "none", ![r] = "running"]
        BY <3>1, <3>3
      <4> QED
        BY <2>1, <2>3, <4>1 DEF Runs!Registered
    <3> QED
      BY <2>3, <3>2, <3>3
  <2> QED
    BY <1>5, <2>1, <2>2, <2>3 DEF Runs!Register, Runs!Goes
<1> QED
  BY <1>1, <1>2, <1>3, <1>4, <1>5 DEF Runs!Next, Runs!Registered, Runs!StartDrain, Runs!StopWaiting

-----------------------------------------------------------------------------
(* Scheduled tasks. *)

\* A callback of the registration that is in force has left its mark on it, and no
\* registration comes twice.
TasksInv ==
  /\ Tasks!TypeOK /\ Tasks!NoOverlap
  /\ fires \in {0, 1}
  /\ \A f \in flying : f.reg <= adds /\ (tasks[f.id].reg = f.reg => tasks[f.id].inFlight)
  /\ \A i \in Ids : tasks[i].reg <= adds

TaskConstants == Period \in Nat \ {0} /\ MaxAdds \in Nat

LEMMA TasksStep == ASSUME TasksInv, TaskConstants, Tasks!Next PROVE TasksInv'
<1> USE DEF TasksInv, Tasks!TypeOK, Tasks!NoOverlap, TaskConstants
<1>1. CASE Tasks!Start \/ Tasks!Stop
  BY <1>1 DEF Tasks!Start, Tasks!Stop
<1>2. CASE Tasks!Wait
  <2>1. /\ phase' = (phase + 1) % Period
        /\ tasks' = [i \in Ids |-> IF tasks[i].left > 0
                                   THEN [tasks[i] EXCEPT !.left = tasks[i].left - 1] ELSE tasks[i]]
        /\ UNCHANGED <<started, flying, fires, adds>>
    BY <1>2 DEF Tasks!Wait
  <2>2. phase' \in 0..(Period - 1)
    BY <2>1
  <2>3. \A i \in Ids : /\ tasks'[i] \in [reg : 0..MaxAdds, left : 0..Period, inFlight : BOOLEAN]
                       /\ tasks'[i].reg = tasks[i].reg /\ tasks'[i].inFlight = tasks[i].inFlight
    BY <2>1
  <2>4. tasks' \in [Ids -> [reg : 0..MaxAdds, left : 0..Period, inFlight : BOOLEAN]]
    BY <2>1, <2>3
  <2> QED
    BY <2>1, <2>2, <2>3, <2>4
<1>3. CASE Tasks!Tick
  <2> DEFINE F == {i \in Ids : Tasks!MayFire(i)}
  <2>1. /\ tasks' = [i \in Ids |->
             IF i \in F THEN [tasks[i] EXCEPT !.left = Tasks!UntilNext(i), !.inFlight = TRUE] ELSE tasks[i]]
        /\ flying' = flying \cup {[id |-> i, reg |-> tasks[i].reg, fire |-> fires] : i \in F}
        /\ fires' = 1 - fires /\ UNCHANGED <<started, phase, adds>>
    BY <1>3 DEF Tasks!Tick
  <2>2. \A i \in F : tasks[i].reg \in 1..MaxAdds /\ ~ tasks[i].inFlight /\ tasks[i].reg <= adds
    BY DEF Tasks!MayFire, Tasks!IsDue, Tasks!Registered, Tasks!Absent
  <2>3. \A i \in Ids : Tasks!UntilNext(i) \in 0..Period
    BY DEF Tasks!UntilNext
  <2> HIDE DEF F
  <2>4. \A i \in Ids : /\ tasks'[i] \in [reg : 0..MaxAdds, left : 0..Period, inFlight : BOOLEAN]
                       /\ tasks'[i].reg = tasks[i].reg
                       /\ tasks'[i].inFlight = IF i \in F THEN TRUE ELSE tasks[i].inFlight
    BY <2>1, <2>3
  <2>5. \A f \in flying' : \/ f \in flying
                           \/ f.id \in F /\ f = [id |-> f.id, reg |-> tasks[f.id].reg, fire |-> fires]
    <3> SUFFICES ASSUME NEW f \in flying', f \notin flying
                 PROVE  f.id \in F /\ f = [id |-> f.id, reg |-> tasks[f.id].reg, fire |-> fires]
      OBVIOUS
    <3>1. PICK i \in F : f = [id |-> i, reg |-> tasks[i].reg, fire |-> fires]
      BY <2>1
    <3> QED
      BY <3>1
  <2>6. \A f \in flying : f.id \in F => f.reg # tasks[f.id].reg
    BY <2>2
  <2>7. F \subseteq Ids
    BY DEF F
  <2>8. Tasks!TypeOK' /\ fires' \in {0, 1}
    <3>1. tasks' \in [Ids -> [reg : 0..MaxAdds, left : 0..Period, inFlight : BOOLEAN]]
      BY <2>1, <2>4
    <3>2. ASSUME NEW f \in flying' PROVE f \in [id : Ids, reg : 1..MaxAdds, fire : {0, 1}]
      BY <2>2, <2>5, <2>7
    <3>3. fires' \in {0, 1}
      <4>1. (fires = 0 \/ fires = 1) /\ fires' = 1 - fires
        BY <2>1
      <4> QED
        BY ONLY <4>1
    <3>4. UNCHANGED <<started, phase, adds>>
      BY <2>1
    <3> QED
      BY <3>1, <3>2, <3>3, <3>4
  <2>9. Tasks!NoOverlap'
    BY <2>5, <2>6
  <2> QED
    <3>1. ASSUME NEW f \in flying'
          PROVE  f.reg <= adds /\ (tasks'[f.id].reg = f.reg => tasks'[f.id].inFlight)
      <4>1. CASE f \in flying
        BY <2>4, <4>1
      <4>2. CASE f.id \in F /\ f.reg = tasks[f.id].reg
        BY <2>2, <2>4, <2>7, <4>2
      <4> QED
        BY <2>5, <4>1, <4>2
    <3>2. \A i \in Ids : tasks'[i].reg <= adds'
      BY <2>1, <2>4
    <3>3. adds' = adds
      BY <2>1
    <3> QED
      BY <2>8, <2>9, <3>1, <3>2, <3>3
<1>4. ASSUME NEW i \in Ids, Tasks!Add(i) PROVE TasksInv'
  BY <1>4 DEF Tasks!Add, Tasks!UntilNext
<1>5. ASSUME NEW i \in Ids, Tasks!Remove(i) PROVE TasksInv'
  BY <1>5 DEF Tasks!Remove, Tasks!Absent
<1>6. ASSUME NEW f \in flying, Tasks!Finish(f) PROVE TasksInv'
  <2>1. /\ flying' = flying \ {f} /\ UNCHANGED <<started, phase, fires, adds>>
        /\ tasks' = IF tasks[f.id].reg = f.reg THEN [tasks EXCEPT ![f.id].inFlight = FALSE] ELSE tasks
    BY <1>6 DEF Tasks!Finish, Tasks!Free
  <2>2. \A i \in Ids : /\ tasks'[i] \in [reg : 0..MaxAdds, left : 0..Period, inFlight : BOOLEAN]
                       /\ tasks'[i].reg = tasks[i].reg
                       /\ i # f.id \/ tasks[i].reg # f.reg => tasks'[i].inFlight = tasks[i].inFlight
    BY <2>1
  <2>3. Tasks!TypeOK'
    BY <2>1, <2>2
  <2> QED
    BY <2>1, <2>2, <2>3
<1> QED
  BY <1>1, <1>2, <1>3, <1>4, <1>5, <1>6 DEF Tasks!Next

-----------------------------------------------------------------------------
(* Maintenance passes. *)

PassOf == [kind : {"scheduled", "manual"}, stage : Passes!Stages]

\* The scheduled pass of a scope, of which there is one at most, holds its key.
PassesInv ==
  /\ Passes!TypeOK /\ Passes!SingleFlight
  /\ passes \in [Scopes -> Seq(PassOf)]
  /\ \A s \in Scopes : \A i \in DOMAIN passes[s] :
       passes[s][i].kind = "scheduled" => s \in registered

\* Of a sequence without its i-th element, every element was there before.
LEMMA Removed ==
  ASSUME NEW S, NEW q \in Seq(S), NEW i \in DOMAIN q
  PROVE  /\ Passes!RemoveAt(q, i) \in Seq(S)
         /\ Len(Passes!RemoveAt(q, i)) = Len(q) - 1
         /\ \A k \in 1..(Len(q) - 1) :
              /\ k < i => Passes!RemoveAt(q, i)[k] = q[k]
              /\ ~ k < i => Passes!RemoveAt(q, i)[k] = q[k + 1]
<1> DEFINE a == SubSeq(q, 1, i - 1)
           b == SubSeq(q, i + 1, Len(q))
<1>1. a \in Seq(S) /\ Len(a) = i - 1 /\ \A k \in 1..(i - 1) : a[k] = q[k]
  OBVIOUS
<1>2. b \in Seq(S) /\ Len(b) = Len(q) - i /\ \A k \in 1..(Len(q) - i) : b[k] = q[k + i]
  OBVIOUS
<1>3. Passes!RemoveAt(q, i) = a \o b
  BY DEF Passes!RemoveAt
<1> HIDE DEF a, b
<1>4. a \o b \in Seq(S) /\ Len(a \o b) = Len(q) - 1
  BY <1>1, <1>2
<1>5. ASSUME NEW k \in 1..(Len(q) - 1), k < i PROVE (a \o b)[k] = q[k]
  BY <1>1, <1>2, <1>5
<1>6. ASSUME NEW k \in 1..(Len(q) - 1), ~ k < i PROVE (a \o b)[k] = q[k + 1]
  <2>1. (a \o b)[k] = b[k - Len(a)] /\ k - Len(a) = k - i + 1
    BY <1>1, <1>2, <1>6
  <2> QED
    BY <1>2, <1>6, <2>1
<1> QED
  BY <1>3, <1>4, <1>5, <1>6

LEMMA Appended ==
  ASSUME NEW S, NEW q \in Seq(S), NEW x \in S
  PROVE  /\ Append(q, x) \in Seq(S) /\ Len(Append(q, x)) = Len(q) + 1
         /\ DOMAIN Append(q, x) = DOMAIN q \cup {Len(q) + 1} /\ Len(q) + 1 \notin DOMAIN q
         /\ \A k \in DOMAIN q : Append(q, x)[k] = q[k]
         /\ Append(q, x)[Len(q) + 1] = x
OBVIOUS

\* A scheduled pass begins where there is none, a manual one anywhere.
LEMMA BeginKeeps ==
  ASSUME PassesInv, NEW s \in Scopes, NEW rest \in Seq(PassOf), NEW kind \in {"scheduled", "manual"},
         \A i, j \in DOMAIN rest : rest[i].kind = "scheduled" /\ rest[j].kind = "scheduled" => i = j,
         \A i \in DOMAIN rest : rest[i].kind = "scheduled" => kind = "manual" /\ s \in registered,
         Passes!Begin(s, rest, kind), s \in registered' \/ kind = "manual",
         registered \subseteq registered', registered' \subseteq Scopes, queued' \subseteq Scopes,
         owed' \in [Scopes -> BOOLEAN]
  PROVE  PassesInv'
<1> DEFINE p == Passes!Pass(kind)
           new == Append(rest, p)
<1>1. p \in PassOf /\ p.kind = kind
  BY DEF Passes!Pass, PassOf, Passes!Stages
<1>2. passes' = [passes EXCEPT ![s] = new]
  BY DEF Passes!Begin
<1> HIDE DEF p
<1>3. /\ new \in Seq(PassOf)
      /\ DOMAIN new = DOMAIN rest \cup {Len(rest) + 1} /\ Len(rest) + 1 \notin DOMAIN rest
      /\ \A k \in DOMAIN rest : new[k] = rest[k]
      /\ new[Len(rest) + 1] = p
  BY <1>1, Appended
<1> HIDE DEF new
<1>4. passes' \in [Scopes -> Seq(PassOf)] /\ passes'[s] = new
      /\ \A x \in Scopes : x # s => passes'[x] = passes[x]
  BY <1>2, <1>3 DEF PassesInv
<1>5. Passes!TypeOK'
  BY <1>4 DEF Passes!TypeOK, PassOf
<1>6. ASSUME NEW x \in Scopes, NEW i \in DOMAIN passes'[x], passes'[x][i].kind = "scheduled"
      PROVE  /\ x \in registered'
             /\ \A j \in DOMAIN passes'[x] : passes'[x][j].kind = "scheduled" => i = j
  <2>1. CASE x # s
    BY <1>4, <1>6, <2>1 DEF PassesInv, Passes!SingleFlight
  <2>2. CASE x = s
    BY <1>1, <1>3, <1>4, <1>6, <2>2
  <2> QED
    BY <2>1, <2>2
<1> QED
  BY <1>4, <1>5, <1>6 DEF PassesInv, Passes!SingleFlight

\* A scope's passes are fewer, or in other stages; its key goes with the scheduled one.
LEMMA FewerKeeps ==
  ASSUME PassesInv, NEW s \in Scopes, NEW rest \in Seq(PassOf),
         passes' = [passes EXCEPT ![s] = rest],
         \A i, j \in DOMAIN rest : rest[i].kind = "scheduled" /\ rest[j].kind = "scheduled" => i = j,
         \A i \in DOMAIN rest : rest[i].kind = "scheduled" => s \in registered',
         registered' \subseteq registered, registered \ {s} \subseteq registered',
         queued' \subseteq Scopes, owed' \in [Scopes -> BOOLEAN]
  PROVE  PassesInv'
<1>1. passes' \in [Scopes -> Seq(PassOf)] /\ passes'[s] = rest
      /\ \A x \in Scopes : x # s => passes'[x] = passes[x]
  BY DEF PassesInv
<1>2. Passes!TypeOK'
  BY <1>1 DEF PassesInv, Passes!TypeOK, PassOf
<1>3. ASSUME NEW x \in Scopes, NEW i \in DOMAIN passes'[x], passes'[x][i].kind = "scheduled"
      PROVE  /\ x \in registered'
             /\ \A j \in DOMAIN passes'[x] : passes'[x][j].kind = "scheduled" => i = j
  BY <1>1, <1>3 DEF PassesInv, Passes!SingleFlight
<1> QED
  BY <1>1, <1>2, <1>3 DEF PassesInv, Passes!SingleFlight

LEMMA PassesStep == ASSUME PassesInv, Passes!Next PROVE PassesInv'
<1>1. PICK s \in Scopes : Passes!Schedule(s) \/ Passes!RunNow(s) \/ Passes!Advance(s) \/ Passes!Return(s)
  BY DEF Passes!Next
<1>2. /\ passes[s] \in Seq(PassOf) /\ passes \in [Scopes -> Seq(PassOf)]
      /\ registered \subseteq Scopes /\ queued \subseteq Scopes /\ owed \in [Scopes -> BOOLEAN]
      /\ \A i, j \in DOMAIN passes[s] :
           passes[s][i].kind = "scheduled" /\ passes[s][j].kind = "scheduled" => i = j
      /\ \A i \in DOMAIN passes[s] : passes[s][i].kind = "scheduled" => s \in registered
  BY DEF PassesInv, Passes!TypeOK, Passes!SingleFlight
<1>3. CASE Passes!Schedule(s)
  <2>1. owed' \in [Scopes -> BOOLEAN]
    BY <1>2, <1>3 DEF Passes!Schedule
  <2>2. CASE s \in registered
    <3>1. UNCHANGED <<registered, passes>> /\ queued' \subseteq Scopes
      BY <1>2, <1>3, <2>2 DEF Passes!Schedule
    <3> QED
      BY <2>1, <3>1 DEF PassesInv, Passes!TypeOK, Passes!SingleFlight
  <2>3. CASE s \notin registered
    <3>1. /\ Passes!Begin(s, passes[s], "scheduled")
          /\ registered' = registered \cup {s} /\ UNCHANGED queued
      BY <1>3, <2>3 DEF Passes!Schedule
    <3> QED
      BY <1>2, <2>1, <2>3, <3>1, BeginKeeps
  <2> QED
    BY <2>2, <2>3
<1>4. CASE Passes!RunNow(s)
  <2>1. Passes!Begin(s, passes[s], "manual") /\ UNCHANGED <<registered, queued, owed>>
    BY <1>4 DEF Passes!RunNow
  <2> QED
    BY <1>2, <2>1, BeginKeeps
<1>5. CASE Passes!Advance(s)
  <2>1. PICK i \in DOMAIN passes[s], next \in Passes!Stages :
          /\ passes' = [passes EXCEPT ![s] = [passes[s] EXCEPT ![i].stage = next]]
          /\ owed' \in [Scopes -> BOOLEAN] /\ UNCHANGED <<registered, queued>>
    <3>1. PICK i \in DOMAIN passes[s] :
            LET stage == passes[s][i].stage IN
            /\ stage # "over"
            /\ \E next \in {Passes!After(stage), "over"} :
                 passes' = [passes EXCEPT ![s][i].stage = next]
            /\ owed' = [owed EXCEPT ![s] = @ /\ stage # "source"]
            /\ UNCHANGED <<registered, queued>>
      BY <1>5 DEF Passes!Advance
    <3>2. passes[s][i].stage \in Passes!Stages
      <4>1. passes[s][i] \in PassOf
        BY <1>2
      <4> QED
        BY <4>1 DEF PassOf
    <3>3. Passes!After(passes[s][i].stage) \in Passes!Stages
      BY <3>1, <3>2 DEF Passes!After, Passes!Stages
    <3>4. owed' \in [Scopes -> BOOLEAN]
      BY <1>2, <3>1
    <3> QED
      BY <3>1, <3>3, <3>4 DEF Passes!Stages
  <2> DEFINE rest == [passes[s] EXCEPT ![i].stage = next]
  <2>2. /\ rest \in Seq(PassOf) /\ DOMAIN rest = DOMAIN passes[s]
        /\ \A k \in DOMAIN rest : rest[k].kind = passes[s][k].kind
    <3>1. ASSUME NEW x \in PassOf
          PROVE  [x EXCEPT !.stage = next] \in PassOf /\ [x EXCEPT !.stage = next].kind = x.kind
      BY <2>1 DEF PassOf
    <3> DEFINE y == [passes[s][i] EXCEPT !.stage = next]
    <3>2. y \in PassOf /\ y.kind = passes[s][i].kind /\ rest = [passes[s] EXCEPT ![i] = y]
      BY <1>2, <3>1
    <3> HIDE DEF rest, y
    <3> QED
      BY <1>2, <3>2
  <2>3. passes' = [passes EXCEPT ![s] = rest]
    BY <2>1
  <2> HIDE DEF rest
  <2>4. /\ \A k, l \in DOMAIN rest : rest[k].kind = "scheduled" /\ rest[l].kind = "scheduled" => k = l
        /\ \A k \in DOMAIN rest : rest[k].kind = "scheduled" => s \in registered'
    BY <1>2, <2>1, <2>2
  <2>5. registered' = registered /\ queued' \subseteq Scopes
    BY <1>2, <2>1
  <2> QED
    BY <2>1, <2>2, <2>3, <2>4, <2>5, FewerKeeps
<1>6. CASE Passes!Return(s)
  <2>1. PICK i \in DOMAIN passes[s] :
          /\ passes[s][i].stage = "over"
          /\ IF passes[s][i].kind = "scheduled"
             THEN Passes!FollowUp(s, Passes!RemoveAt(passes[s], i))
             ELSE passes' = [passes EXCEPT ![s] = Passes!RemoveAt(passes[s], i)]
                  /\ UNCHANGED <<registered, queued>>
          /\ UNCHANGED owed
    BY <1>6 DEF Passes!Return
  <2> DEFINE rest == Passes!RemoveAt(passes[s], i)
  <2>2. /\ rest \in Seq(PassOf)
        /\ Len(rest) = Len(passes[s]) - 1
        /\ \A k \in 1..(Len(passes[s]) - 1) :
              /\ k < i => rest[k] = passes[s][k]
              /\ ~ k < i => rest[k] = passes[s][k + 1]
    BY <1>2, Removed
  <2> HIDE DEF rest
  <2> DEFINE m(k) == IF k < i THEN k ELSE k + 1
  <2>a. ASSUME NEW k \in DOMAIN rest
        PROVE  m(k) \in DOMAIN passes[s] /\ m(k) # i /\ rest[k] = passes[s][m(k)]
    <3>1. k \in 1..(Len(passes[s]) - 1) /\ i \in 1..Len(passes[s]) /\ Len(passes[s]) \in Nat
      BY <1>2, <2>2
    <3> QED
      BY <2>2, <3>1
  <2>b. \A k, l \in DOMAIN rest : m(k) = m(l) => k = l
    <3>1. DOMAIN rest \subseteq Int /\ i \in Int
      BY <1>2, <2>2
    <3> QED
      BY <3>1
  <2> HIDE DEF m
  <2>3. /\ \A k, l \in DOMAIN rest : rest[k].kind = "scheduled" /\ rest[l].kind = "scheduled" => k = l
        /\ \A k \in DOMAIN rest : rest[k].kind = "scheduled" =>
             s \in registered /\ passes[s][i].kind # "scheduled"
    BY <1>2, <2>a, <2>b
  <2>4. CASE passes[s][i].kind # "scheduled"
    <3>1. passes' = [passes EXCEPT ![s] = rest] /\ UNCHANGED <<registered, queued>>
      BY <2>1, <2>4 DEF rest
    <3> QED
      BY <1>2, <2>1, <2>2, <2>3, <3>1, FewerKeeps
  <2>5. CASE passes[s][i].kind = "scheduled"
    <3>1. Passes!FollowUp(s, rest) /\ s \in registered /\ \A k \in DOMAIN rest : rest[k].kind # "scheduled"
      BY <1>2, <2>1, <2>3, <2>5 DEF rest
    <3>2. CASE s \in queued
      <4>1. Passes!Begin(s, rest, "scheduled") /\ UNCHANGED registered /\ queued' \subseteq Scopes
        BY <1>2, <3>1, <3>2 DEF Passes!FollowUp
      <4> QED
        BY <1>2, <2>1, <2>2, <2>3, <3>1, <4>1, BeginKeeps
    <3>3. CASE s \notin queued
      <4>1. passes' = [passes EXCEPT ![s] = rest] /\ registered' = registered \ {s} /\ queued' \subseteq Scopes
        BY <1>2, <3>1, <3>3 DEF Passes!FollowUp
      <4> QED
        BY <1>2, <2>1, <2>2, <2>3, <3>1, <4>1, FewerKeeps
    <3> QED
      BY <3>2, <3>3
  <2> QED
    BY <2>4, <2>5
<1> QED
  BY <1>1, <1>3, <1>4, <1>5, <1>6

-----------------------------------------------------------------------------
(* Batches. *)

ItemResult == [item : 1..Count, status : {"success", "error"}]
LaneState == [is : {"ready", "busy", "ended", "threw"}, item : 0..Count]

BusyWith(l, k) == lane[l].is = "busy" /\ lane[l].item = k

\* What the batch has counted so far.
Tally == inline.success + inline.error

\* Every item that was handed out is at one lane or has been reported, once, and
\* what was reported has been counted.
BatchInv ==
  /\ Batch!TypeOK
  /\ lane \in [Lanes -> LaneState]
  /\ reported \in Seq(1..Count)
  /\ inline \in [success : Nat, error : Nat]
  /\ \A l \in Lanes, k \in 0..Count : BusyWith(l, k) =>
       /\ k \in 1..nextIndex
       /\ \A i \in DOMAIN reported : reported[i] # k
       /\ \A m \in Lanes : BusyWith(m, k) => m = l
  /\ \A k \in 1..nextIndex :
       (\E i \in DOMAIN reported : reported[i] = k) \/ \E l \in Lanes : BusyWith(l, k)
  /\ \A i \in DOMAIN reported : reported[i] <= nextIndex
  /\ \A i, j \in DOMAIN reported : reported[i] = reported[j] => i = j
  /\ collect => Len(results) = Len(reported)
  /\ ~ collect => Tally = Len(reported)
  /\ (\E l \in Lanes : lane[l] = Batch!Ended) => cancelled \/ nextIndex = Count
  /\ outcome = "resolved" => /\ Batch!AllEnded
                            /\ aggregate.success + aggregate.error = nextIndex

BatchConstants == Count \in Nat /\ Lanes # {}

LEMMA SameCardinality == \A S : Batch!Cardinality(S) = Cardinality(S)
BY DEF Batch!Cardinality, Cardinality

\* The successes and the errors are all.
LEMMA AllCounted ==
  ASSUME NEW q \in Seq(ItemResult)
  PROVE  Batch!Totals(q).success + Batch!Totals(q).error = Len(q)
<1> DEFINE S == {i \in DOMAIN q : q[i].status = "success"}
           E == {i \in DOMAIN q : q[i].status = "error"}
<1>0. Len(q) \in Int /\ Len(q) >= 0 /\ 1 \in Int
  OBVIOUS
<1>1. IsFiniteSet(1..Len(q)) /\ Cardinality(1..Len(q)) = Len(q)
  BY <1>0, FS_Interval
<1>2. S \subseteq 1..Len(q) /\ E \subseteq 1..Len(q) /\ S \cap E = {} /\ S \cup E = 1..Len(q)
  <2>1. \A i \in DOMAIN q : q[i] \in ItemResult
    OBVIOUS
  <2> QED
    BY <2>1 DEF ItemResult
<1>3. IsFiniteSet(S) /\ IsFiniteSet(E)
  BY <1>1, <1>2, FS_Subset
<1>4. Cardinality(S) \in Nat /\ Cardinality(E) \in Nat
  BY <1>3, FS_CardinalityType
<1>5. Cardinality(S \cup E) = Cardinality(S) + Cardinality(E) - Cardinality(S \cap E)
  BY <1>3, FS_Union
<1>6. Cardinality(S \cap E) = 0
  BY <1>2, FS_EmptySet
<1>7. Batch!Totals(q) = [success |-> Cardinality(S), error |-> Cardinality(E)]
  BY SameCardinality DEF Batch!Totals
<1>8. Cardinality(S) + Cardinality(E) = Len(q)
  <2>1. Cardinality(S \cup E) = Len(q)
    BY <1>1, <1>2
  <2> DEFINE a == Cardinality(S)  b == Cardinality(E)  c == Cardinality(S \cup E)
             d == Cardinality(S \cap E)
  <2>2. a \in Nat /\ b \in Nat /\ c = a + b - d /\ d = 0 /\ c = Len(q)
    BY <1>4, <1>5, <1>6, <2>1
  <2> HIDE DEF a, b, c, d
  <2>3. a + b = Len(q)
    BY <2>2
  <2> QED
    BY <2>3 DEF a, b
<1>9. Batch!Totals(q).success = Cardinality(S) /\ Batch!Totals(q).error = Cardinality(E)
  BY <1>7
<1> HIDE DEF S, E
<1> QED
  BY <1>8, <1>9

\* A sequence that lists 1..n without repetition has n elements.
LEMMA Listed ==
  ASSUME NEW n \in Nat, NEW q \in Seq(1..n),
         \A i, j \in DOMAIN q : q[i] = q[j] => i = j,
         \A k \in 1..n : \E i \in DOMAIN q : q[i] = k
  PROVE  Len(q) = n
<1>1. q \in Bijection(1..Len(q), 1..n)
  <2>1. q \in [1..Len(q) -> 1..n]
    OBVIOUS
  <2> QED
    BY <2>1 DEF Bijection, Injection, Surjection, IsInjective
<1>2. /\ IsFiniteSet(1..Len(q)) /\ Cardinality(1..Len(q)) = Len(q)
      /\ Cardinality(1..n) = n
  <2>1. 1 \in Int /\ n \in Int /\ n >= 0 /\ Len(q) \in Int /\ Len(q) >= 0
    OBVIOUS
  <2>2. IsFiniteSet(1..Len(q)) /\ Cardinality(1..Len(q)) = Len(q)
    <3> DEFINE m == Len(q)
    <3>1. m \in Int /\ m >= 0 /\ 1 \in Int
      BY <2>1
    <3> HIDE DEF m
    <3>2. IsFiniteSet(1..m) /\ Cardinality(1..m) = m
      BY <3>1, FS_Interval
    <3> QED
      BY <3>2 DEF m
  <2>3. Cardinality(1..n) = n
    BY <2>1, FS_Interval
  <2> QED
    BY <2>2, <2>3
<1>3. Cardinality(1..n) = Cardinality(1..Len(q))
  BY <1>1, <1>2, FS_Bijection DEF ExistsBijection
<1> QED
  BY <1>2, <1>3

\* What a lane that is about to claim, the others and the reports q account for.
Rest(l, q) ==
  /\ q \in Seq(1..Count)
  /\ \A m \in Lanes \ {l}, k \in 0..Count : BusyWith(m, k) =>
       /\ k \in 1..nextIndex
       /\ \A i \in DOMAIN q : q[i] # k
       /\ \A j \in Lanes \ {l} : BusyWith(j, k) => j = m
  /\ \A k \in 1..nextIndex :
       (\E i \in DOMAIN q : q[i] = k) \/ \E m \in Lanes \ {l} : BusyWith(m, k)
  /\ \A i \in DOMAIN q : q[i] <= nextIndex
  /\ (\E m \in Lanes : lane[m] = Batch!Ended) => cancelled \/ nextIndex = Count

\* The account when lane is ln, next index is n and cancelled is c.
Whole(q, ln, n, c) ==
  /\ n \in 0..Count
  /\ ln \in [Lanes -> LaneState]
  /\ \A m \in Lanes, k \in 0..Count : ln[m].is = "busy" /\ ln[m].item = k =>
       /\ k \in 1..n
       /\ \A i \in DOMAIN q : q[i] # k
       /\ \A j \in Lanes : ln[j].is = "busy" /\ ln[j].item = k => j = m
  /\ \A k \in 1..n :
       (\E i \in DOMAIN q : q[i] = k) \/ \E m \in Lanes : ln[m].is = "busy" /\ ln[m].item = k
  /\ \A i \in DOMAIN q : q[i] <= n
  /\ (\E m \in Lanes : ln[m] = Batch!Ended) => c \/ n = Count

\* A lane that gives up, or claims the next item, leaves the account whole.
LEMMA ClaimKeeps ==
  ASSUME BatchConstants, nextIndex \in 0..Count, lane \in [Lanes -> LaneState],
         NEW l \in Lanes, Batch!Claim(l, lane), NEW q, Rest(l, q)
  PROVE  Whole(q, lane', nextIndex', cancelled')
<1> USE DEF BusyWith
<1> USE DEF Rest
<1>0. Count \in Nat /\ nextIndex \in Nat /\ nextIndex <= Count /\ \A i \in DOMAIN q : q[i] \in Int
  BY DEF BatchConstants
<1>1. CASE nextIndex' = nextIndex /\ lane' = [lane EXCEPT ![l] = Batch!Ended]
           /\ (cancelled' \/ (cancelled' = cancelled /\ nextIndex = Count))
  <2>1. Batch!Ended \in LaneState /\ Batch!Ended.is # "busy"
    BY <1>0 DEF Batch!Ended, LaneState
  <2>2. lane' \in [Lanes -> LaneState] /\ lane'[l].is # "busy"
        /\ \A m \in Lanes \ {l} : lane'[m] = lane[m]
    BY <1>1, <2>1
  <2>3. \A m \in Lanes, k \in 0..Count : BusyWith(m, k)' => m # l /\ BusyWith(m, k)
    BY <2>2
  <2>4. \A m \in Lanes \ {l}, k \in 0..Count : BusyWith(m, k) => BusyWith(m, k)'
    BY <2>2
  <2>5. \A k \in 1..nextIndex : k \in 0..Count
    BY <1>0
  <2> HIDE DEF BusyWith
  <2>6. /\ \A m \in Lanes, k \in 0..Count : BusyWith(m, k)' =>
             /\ k \in 1..nextIndex'
             /\ \A i \in DOMAIN q : q[i] # k
             /\ \A j \in Lanes : BusyWith(j, k)' => j = m
        /\ \A k \in 1..nextIndex' :
             (\E i \in DOMAIN q : q[i] = k) \/ \E m \in Lanes : BusyWith(m, k)'
        /\ \A i \in DOMAIN q : q[i] <= nextIndex'
        /\ (\E m \in Lanes : lane'[m] = Batch!Ended) => cancelled' \/ nextIndex' = Count
    BY <1>0, <1>1, <2>2, <2>3, <2>4, <2>5
  <2> HIDE DEF Rest
  <2> QED
    BY <1>0, <1>1, <2>2, <2>6 DEF Whole, BusyWith
<1>2. CASE nextIndex < Count /\ nextIndex' = nextIndex + 1 /\ cancelled' = cancelled
           /\ lane' = [lane EXCEPT ![l] = Batch!Busy(nextIndex + 1)]
  <2>1. Batch!Busy(nextIndex + 1) \in LaneState /\ Batch!Busy(nextIndex + 1).is = "busy"
        /\ Batch!Busy(nextIndex + 1).item = nextIndex + 1
        /\ Batch!Busy(nextIndex + 1) # Batch!Ended
    BY <1>0, <1>2 DEF Batch!Busy, Batch!Ended, LaneState
  <2>2. lane' \in [Lanes -> LaneState] /\ lane'[l] = Batch!Busy(nextIndex + 1)
        /\ \A m \in Lanes \ {l} : lane'[m] = lane[m]
    BY <1>2, <2>1
  <2>3. \A m \in Lanes, k \in 0..Count : BusyWith(m, k)' =>
          (m = l /\ k = nextIndex + 1) \/ (m # l /\ BusyWith(m, k))
    BY <2>1, <2>2
  <2>4. \A m \in Lanes \ {l}, k \in 0..Count : BusyWith(m, k) => BusyWith(m, k)'
    BY <2>2
  <2>5. \A k \in 0..Count : k = nextIndex + 1 => BusyWith(l, k)'
    BY <2>1, <2>2
  <2>6. (\E m \in Lanes : lane'[m] = Batch!Ended) => \E m \in Lanes : lane[m] = Batch!Ended
    BY <2>1, <2>2
  <2>7. nextIndex + 1 \notin 1..nextIndex /\ \A i \in DOMAIN q : q[i] # nextIndex + 1
    BY <1>0
  <2>8. \A k \in 1..nextIndex' : k \in 0..Count /\ (k \in 1..nextIndex \/ k = nextIndex + 1)
    BY <1>0, <1>2
  <2>9. \A k \in 1..nextIndex : k \in 1..nextIndex'
    BY <1>0, <1>2
  <2>10. nextIndex + 1 \in 1..nextIndex' /\ nextIndex' \in 0..Count
    BY <1>0, <1>2
  <2>11. \A i \in DOMAIN q : q[i] <= nextIndex'
    BY <1>0, <1>2
  <2>12. ~ \E m \in Lanes : lane[m] = Batch!Ended /\ ~ cancelled
    BY <1>0, <1>2
  <2> HIDE DEF BusyWith
  <2>13. ASSUME NEW m \in Lanes, NEW k \in 0..Count, BusyWith(m, k)'
         PROVE  /\ k \in 1..nextIndex'
                /\ \A i \in DOMAIN q : q[i] # k
                /\ \A j \in Lanes : BusyWith(j, k)' => j = m
    BY <2>3, <2>7, <2>9, <2>10, <2>13
  <2>14. \A k \in 1..nextIndex' :
           (\E i \in DOMAIN q : q[i] = k) \/ \E m \in Lanes : BusyWith(m, k)'
    BY <2>4, <2>5, <2>8
  <2>15. (\E m \in Lanes : lane'[m] = Batch!Ended) => cancelled'
    BY <1>2, <2>6, <2>12
  <2> HIDE DEF Rest
  <2> QED
    BY <2>2, <2>10, <2>11, <2>13, <2>14, <2>15 DEF Whole, BusyWith
<1>3. \/ nextIndex' = nextIndex /\ lane' = [lane EXCEPT ![l] = Batch!Ended]
         /\ (cancelled' \/ (cancelled' = cancelled /\ nextIndex = Count))
      \/ nextIndex < Count /\ nextIndex' = nextIndex + 1 /\ cancelled' = cancelled
         /\ lane' = [lane EXCEPT ![l] = Batch!Busy(nextIndex + 1)]
  BY <1>0 DEF Batch!Claim
<1> HIDE DEF BusyWith
<1> QED
  BY <1>1, <1>2, <1>3

LEMMA BatchStep == ASSUME BatchInv, BatchConstants, Batch!Next PROVE BatchInv'
<1>1. /\ nextIndex \in 0..Count /\ lane \in [Lanes -> LaneState] /\ results \in Seq(ItemResult)
      /\ outcome \in {"pending", "resolved", "rejected"}
      /\ reported \in Seq(1..Count) /\ inline \in [success : Nat, error : Nat]
  BY DEF BatchInv, Batch!TypeOK, ItemResult
<1>2. Count \in Nat /\ nextIndex \in Nat /\ nextIndex <= Count /\ Len(reported) \in Nat
  BY <1>1 DEF BatchConstants
<1>3. CASE Batch!Abort
  BY <1>3 DEF Batch!Abort, BatchInv, Batch!TypeOK, BusyWith, Tally, Batch!AllEnded
<1>4. CASE Batch!Settle
  <2>1. /\ outcome = "pending" /\ outcome' = "resolved" /\ Batch!AllEnded
        /\ UNCHANGED <<collect, nextIndex, lane, results, inline, reported>>
        /\ (cancelled => cancelled')
        /\ aggregate' = IF collect THEN Batch!Totals(results) ELSE inline
    BY <1>4 DEF Batch!Settle
  <2>2. \A l \in Lanes, k \in 0..Count : ~ BusyWith(l, k)
    BY <2>1 DEF Batch!AllEnded, Batch!Ended, BusyWith
  <2>3. \A k \in 1..nextIndex : \E i \in DOMAIN reported : reported[i] = k
    <3>1. \A k \in 1..nextIndex : k \in 0..Count
      BY <1>2
    <3> QED
      BY <2>2, <3>1 DEF BatchInv
  <2>4. reported \in Seq(1..nextIndex)
    <3>0. \A i \in DOMAIN reported : reported[i] <= nextIndex
      BY DEF BatchInv
    <3>1. ASSUME NEW i \in DOMAIN reported PROVE reported[i] \in 1..Count /\ reported[i] <= nextIndex
      <4>1. reported \in Seq(1..Count) /\ i \in 1..Len(reported)
        BY <1>1
      <4>2. reported[i] \in 1..Count
        BY <4>1, ElementOfSeq
      <4> QED
        BY <3>0, <4>2
    <3>2. \A i \in DOMAIN reported : reported[i] \in 1..nextIndex
      BY <1>2, <3>1
    <3>3. reported = [i \in 1..Len(reported) |-> reported[i]]
      BY <1>1
    <3> QED
      BY <1>1, <3>2, <3>3
  <2>5. Len(reported) = nextIndex
    <3>1. \A i, j \in DOMAIN reported : reported[i] = reported[j] => i = j
      BY DEF BatchInv
    <3> QED
      BY <1>2, <2>3, <2>4, <3>1, Listed
  <2>6. aggregate'.success + aggregate'.error = nextIndex
    <3>1. CASE collect
      <4>1. aggregate' = Batch!Totals(results) /\ Len(results) = Len(reported)
        BY <2>1, <3>1 DEF BatchInv
      <4>2. Batch!Totals(results).success + Batch!Totals(results).error = Len(results)
        BY <1>1, AllCounted
      <4> QED
        BY <2>5, <4>1, <4>2
    <3>2. CASE ~ collect
      BY <2>1, <2>5, <3>2 DEF BatchInv, Tally
    <3> QED
      BY <3>1, <3>2
  <2>7. Batch!AllEnded'
    BY <2>1 DEF Batch!AllEnded
  <2>8. Batch!TypeOK'
    BY <2>1 DEF BatchInv, Batch!TypeOK
  <2> QED
    BY <2>1, <2>6, <2>7, <2>8 DEF BatchInv, BusyWith, Tally
<1>5. ASSUME NEW l \in Lanes, Batch!Launch(l) PROVE BatchInv'
  <2>1. /\ lane[l] = Batch!Ready /\ Batch!Claim(l, lane)
        /\ UNCHANGED <<collect, results, inline, reported, aborted, outcome, aggregate>>
    BY <1>5 DEF Batch!Launch
  <2>2. \A k \in 0..Count : ~ BusyWith(l, k)
    BY <2>1 DEF Batch!Ready, BusyWith
  <2>3. \A k \in 1..nextIndex : k \in 0..Count
    BY <1>2
  <2>4. Rest(l, reported)
    BY <1>1, <2>2, <2>3 DEF BatchInv, Rest
  <2>5. outcome # "resolved"
    BY <2>1 DEF BatchInv, Batch!AllEnded, Batch!Ended, Batch!Ready
  <2>6. reported' = reported
    BY <2>1
  <2>7. Whole(reported, lane', nextIndex', cancelled')
    BY <1>1, <2>1, <2>4, ClaimKeeps
  <2>8. Batch!TypeOK'
    BY <1>1, <2>1, <2>7 DEF Batch!TypeOK, LaneState, ItemResult, Whole
  <2>9. outcome' # "resolved"
    BY <2>1, <2>5
  <2>10. /\ UNCHANGED <<collect, results, inline>>
    BY <2>1
  <2> QED
    BY <2>6, <2>7, <2>8, <2>9, <2>10 DEF BatchInv, Tally, Whole, BusyWith
<1>6. ASSUME NEW l \in Lanes, Batch!Done(l) PROVE BatchInv'
  <2> DEFINE item == lane[l].item
             q == Append(reported, item)
  <2>1. /\ lane[l].is = "busy" /\ reported' = q
        /\ UNCHANGED <<collect, aborted, aggregate>>
        /\ \/ Batch!Claim(l, lane) /\ UNCHANGED outcome
           \/ /\ lane' = [lane EXCEPT ![l].is = "threw"]
              /\ outcome' = IF outcome = "pending" THEN "rejected" ELSE outcome
              /\ UNCHANGED <<nextIndex, cancelled>>
    BY <1>6 DEF Batch!Done
  <2>2. BusyWith(l, item) /\ item \in 0..Count /\ \A k \in 0..Count : BusyWith(l, k) => k = item
    BY <1>1, <2>1 DEF BusyWith, LaneState
  <2>3. /\ item \in 1..nextIndex
        /\ \A i \in DOMAIN reported : reported[i] # item
        /\ \A m \in Lanes : BusyWith(m, item) => m = l
    BY <2>2 DEF BatchInv
  <2>4. item \in 1..Count
    BY <1>2, <2>3
  <2> HIDE DEF item
  <2>5. /\ q \in Seq(1..Count) /\ Len(q) = Len(reported) + 1
        /\ q[Len(reported) + 1] = item
        /\ \A i \in DOMAIN reported : i \in DOMAIN q /\ q[i] = reported[i]
        /\ \A i \in DOMAIN q : i \in DOMAIN reported \/ i = Len(reported) + 1
        /\ Len(reported) + 1 \in DOMAIN q
    BY <1>1, <2>4
  <2> HIDE DEF q
  <2>6. \A i, j \in DOMAIN q : q[i] = q[j] => i = j
    BY <2>3, <2>5 DEF BatchInv
  <2>7. /\ \A m \in Lanes \ {l}, k \in 0..Count : BusyWith(m, k) =>
             /\ k \in 1..nextIndex
             /\ \A i \in DOMAIN q : q[i] # k
             /\ \A j \in Lanes \ {l} : BusyWith(j, k) => j = m
        /\ \A i \in DOMAIN q : q[i] <= nextIndex
    <3>1. item <= nextIndex
      BY <1>2, <2>3
    <3>2. \A i \in DOMAIN q : q[i] <= nextIndex
      BY <2>5, <3>1 DEF BatchInv
    <3>3. ASSUME NEW m \in Lanes \ {l}, NEW k \in 0..Count, BusyWith(m, k)
          PROVE  /\ k \in 1..nextIndex
                 /\ \A i \in DOMAIN q : q[i] # k
                 /\ \A j \in Lanes \ {l} : BusyWith(j, k) => j = m
      <4>1. k # item
        BY <2>3, <3>3
      <4> QED
        BY <2>5, <3>3, <4>1 DEF BatchInv
    <3> QED
      BY <3>2, <3>3
  <2>8. \A k \in 1..nextIndex :
           (\E i \in DOMAIN q : q[i] = k) \/ \E m \in Lanes \ {l} : BusyWith(m, k)
    <3>1. ASSUME NEW k \in 1..nextIndex
          PROVE  (\E i \in DOMAIN q : q[i] = k) \/ \E m \in Lanes \ {l} : BusyWith(m, k)
      <4>1. k \in 0..Count
        BY <1>2
      <4>2. (\E i \in DOMAIN reported : reported[i] = k) \/ \E m \in Lanes : BusyWith(m, k)
        BY DEF BatchInv
      <4> QED
        BY <2>2, <2>5, <4>1, <4>2
    <3> QED
      BY <3>1
  <2>9. (\E m \in Lanes : lane[m] = Batch!Ended) => cancelled \/ nextIndex = Count
    BY DEF BatchInv
  <2>10. outcome # "resolved"
    BY <2>1 DEF BatchInv, Batch!AllEnded, Batch!Ended
  <2>11. Whole(q, lane', nextIndex', cancelled')
    <3>1. CASE Batch!Claim(l, lane)
      <4>1. Rest(l, q)
        BY <2>5, <2>7, <2>8, <2>9 DEF Rest
      <4> QED
        BY <1>1, <3>1, <4>1, ClaimKeeps
    <3>2. CASE lane' = [lane EXCEPT ![l].is = "threw"] /\ UNCHANGED <<nextIndex, cancelled>>
      <4>1. lane' \in [Lanes -> LaneState] /\ lane'[l].is = "threw" /\ lane'[l] # Batch!Ended
            /\ \A m \in Lanes \ {l} : lane'[m] = lane[m]
        BY <1>1, <3>2 DEF LaneState, Batch!Ended
      <4>2. \A m \in Lanes, k \in 0..Count : BusyWith(m, k)' <=> m # l /\ BusyWith(m, k)
        BY <4>1 DEF BusyWith
      <4>3. \A k \in 1..nextIndex : k \in 0..Count
        BY <1>2
      <4> QED
        BY <1>1, <2>7, <2>8, <2>9, <3>2, <4>1, <4>2, <4>3 DEF Whole, BusyWith
    <3> QED
      BY <2>1, <3>1, <3>2
  <2>12. /\ results' \in Seq(ItemResult)
         /\ inline' \in [success : Nat, error : Nat]
         /\ collect' => Len(results') = Len(reported')
         /\ ~ collect' => inline'.success + inline'.error = Len(reported')
    <3>1. PICK st \in {"success", "error"} : Batch!Keep(item, st)
      BY <1>6 DEF Batch!Done, item
    <3>2. CASE collect
      <4>1. results' = Append(results, [item |-> item, status |-> st]) /\ UNCHANGED inline
        BY <3>1, <3>2 DEF Batch!Keep
      <4>2. [item |-> item, status |-> st] \in ItemResult
        BY <2>4 DEF ItemResult
      <4>3. Len(results) = Len(reported)
        BY <3>2 DEF BatchInv
      <4> QED
        BY <1>1, <2>1, <2>5, <3>2, <4>1, <4>2, <4>3
    <3>3. CASE ~ collect
      <4>1. inline' = [inline EXCEPT ![st] = @ + 1] /\ UNCHANGED results
        BY <3>1, <3>3 DEF Batch!Keep, Batch!Count1
      <4>2. inline.success + inline.error = Len(reported)
        BY <3>3 DEF BatchInv, Tally
      <4>3. inline.success \in Nat /\ inline.error \in Nat
        BY <1>1
      <4>4. inline' \in [success : Nat, error : Nat]
            /\ inline'.success + inline'.error = inline.success + inline.error + 1
        <5>1. CASE st = "success"
          <6>1. inline' = [inline EXCEPT !.success = @ + 1]
            BY <4>1, <5>1
          <6> QED
            BY <1>1, <4>3, <6>1
        <5>2. CASE st = "error"
          <6>1. inline' = [inline EXCEPT !.error = @ + 1]
            BY <4>1, <5>2
          <6> QED
            BY <1>1, <4>3, <6>1
        <5> QED
          BY <5>1, <5>2
      <4> QED
        BY <1>1, <2>1, <2>5, <3>3, <4>1, <4>2, <4>4
    <3> QED
      BY <3>2, <3>3
  <2>13. outcome' \in {"pending", "resolved", "rejected"} /\ outcome' # "resolved"
    BY <1>1, <2>1, <2>10
  <2>14. Batch!TypeOK'
    BY <2>11, <2>12, <2>13 DEF Batch!TypeOK, LaneState, ItemResult, Whole
  <2>15. /\ \A m \in Lanes, k \in 0..Count : BusyWith(m, k)' =>
              /\ k \in 1..nextIndex'
              /\ \A i \in DOMAIN q : q[i] # k
              /\ \A j \in Lanes : BusyWith(j, k)' => j = m
         /\ \A k \in 1..nextIndex' :
              (\E i \in DOMAIN q : q[i] = k) \/ \E m \in Lanes : BusyWith(m, k)'
    BY <2>11 DEF Whole, BusyWith
  <2>16. /\ lane' \in [Lanes -> LaneState]
         /\ \A i \in DOMAIN q : q[i] <= nextIndex'
         /\ (\E m \in Lanes : lane'[m] = Batch!Ended) => cancelled' \/ nextIndex' = Count
    BY <2>11 DEF Whole
  <2>17. reported' = q /\ q \in Seq(1..Count)
    BY <2>1, <2>5
  <2>18. ~ collect' => Tally' = Len(reported')
    BY <2>12 DEF Tally
  <2> HIDE DEF BusyWith, Tally
  <2>19. \A i \in DOMAIN reported' : reported'[i] <= nextIndex'
    BY <2>16, <2>17
  <2>20. \A i, j \in DOMAIN reported' : reported'[i] = reported'[j] => i = j
    BY <2>6, <2>17
  <2>21. /\ \A m \in Lanes, k \in 0..Count : BusyWith(m, k)' =>
              /\ k \in 1..nextIndex'
              /\ \A i \in DOMAIN reported' : reported'[i] # k
              /\ \A j \in Lanes : BusyWith(j, k)' => j = m
         /\ \A k \in 1..nextIndex' :
              (\E i \in DOMAIN reported' : reported'[i] = k) \/ \E m \in Lanes : BusyWith(m, k)'
    BY <2>15, <2>17
  <2> QED
    BY <2>12, <2>13, <2>14, <2>16, <2>17, <2>18, <2>19, <2>20, <2>21 DEF BatchInv
<1> QED
  BY <1>3, <1>4, <1>5, <1>6 DEF Batch!Next

LEMMA BatchAccounts == ASSUME BatchInv, BatchConstants PROVE Batch!Accounts
<1>1. /\ nextIndex \in 0..Count /\ reported \in Seq(1..Count)
  BY DEF BatchInv, Batch!TypeOK
<1>2. Batch!IsInjective(reported)
  BY DEF BatchInv, Batch!IsInjective
<1>3. ASSUME outcome = "resolved"
      PROVE  /\ aggregate.success + aggregate.error = nextIndex
             /\ Batch!ToSet(reported) = 1..nextIndex
             /\ ~ cancelled => nextIndex = Count
  <2>1. Batch!AllEnded /\ aggregate.success + aggregate.error = nextIndex
    BY <1>3 DEF BatchInv
  <2>2. \A l \in Lanes, k \in 0..Count : ~ BusyWith(l, k)
    BY <2>1 DEF Batch!AllEnded, Batch!Ended, BusyWith
  <2>3. \A k \in 1..nextIndex : \E i \in DOMAIN reported : reported[i] = k
    <3>1. \A k \in 1..nextIndex : k \in 0..Count
      BY <1>1 DEF BatchConstants
    <3> QED
      BY <2>2, <3>1 DEF BatchInv
  <2>4. \A i \in DOMAIN reported : reported[i] \in 1..nextIndex
    <3>0. \A i \in DOMAIN reported : reported[i] <= nextIndex
      BY DEF BatchInv
    <3>1. ASSUME NEW i \in DOMAIN reported PROVE reported[i] \in 1..Count /\ reported[i] <= nextIndex
      <4>1. reported \in Seq(1..Count) /\ i \in 1..Len(reported)
        BY <1>1
      <4>2. reported[i] \in 1..Count
        BY <4>1, ElementOfSeq
      <4> QED
        BY <3>0, <4>2
    <3> QED
      BY <1>1, <3>1 DEF BatchConstants
  <2>5. \E l \in Lanes : lane[l] = Batch!Ended
    BY <2>1 DEF BatchConstants, Batch!AllEnded
  <2> QED
    BY <2>1, <2>3, <2>4, <2>5 DEF BatchInv, Batch!ToSet
<1> QED
  BY <1>2, <1>3 DEF Batch!Accounts

-----------------------------------------------------------------------------
(* The body of a workflow.                                                   *)

\* The names of all operations, and those that no body gives.
Tokens ==
  {"none", "approve"} \cup
    UNION {UNION {{ops[i].name : i \in DOMAIN ops} :
             ops \in {bd.ops[b] : b \in DOMAIN bd.ops}} : bd \in Bodies}

OpOf == [kind : {"step"}, name : Names] \cup [kind : {"gate"}, name : Tokens \ {"none"}]

\* The items of map() one after the other.
OneByOne(bd) == bd.form = "map" /\ bd.lanes = 1

\* The branches reach the steps of one name in one order: a name belongs to one
\* branch, or to the first steps of several, or the branches take turns.
InOneOrder(bd) ==
  OneByOne(bd) \/
    \A b, c \in DOMAIN bd.ops : b # c =>
      \A i \in DOMAIN bd.ops[b], j \in DOMAIN bd.ops[c] :
        /\ bd.ops[b][i].kind = "step" /\ bd.ops[c][j].kind = "step"
        /\ bd.ops[b][i].name = bd.ops[c][j].name
        => i = 1 /\ j = 1

AlignedBody(bd) ==
  /\ bd.form \in {"all", "map", "parallel"}
  /\ bd.lanes \in Nat /\ bd.attempts = 1
  /\ bd.ops \in Seq(Seq(OpOf))
  /\ InOneOrder(bd)

ReplayConstants ==
  /\ \A bd \in Bodies : AlignedBody(bd)
  /\ MaxExecutions \in Nat \ {0} /\ MaxFailures \in Nat

-----------------------------------------------------------------------------
(* The steps of a body and their keys. A place is a branch and a position.   *)

Ops(b) == body.ops[b]

IsStep(x) ==
  /\ x[1] \in Replay!Branches /\ x[2] \in DOMAIN Ops(x[1])
  /\ Ops(x[1])[x[2]].kind = "step"

NameOf(x) == Ops(x[1])[x[2]].name

StepsOf(n) == {x \in Nat \X Nat : IsStep(x) /\ NameOf(x) = n}

Precedes(x, y) == x[1] < y[1] \/ (x[1] = y[1] /\ x[2] < y[2])

Earlier(x) == {y \in StepsOf(NameOf(x)) : Precedes(y, x)}

KeyAt(x) == <<NameOf(x), Cardinality(Earlier(x))>>

BodyTyped == body.ops \in Seq(Seq(OpOf))

LEMMA FinitelyMany == ASSUME BodyTyped, NEW n PROVE IsFiniteSet(StepsOf(n))
<1> DEFINE B == 1..Len(body.ops)
           Row(b) == {b} \X (1..Len(Ops(b)))
           row == [b \in B |-> Row(b)]
           Rows == {row[b] : b \in B}
<1>1. Len(body.ops) \in Nat /\ \A b \in B : Len(Ops(b)) \in Nat
  BY DEF BodyTyped, Ops
<1>2. IsFiniteSet(B)
  <2> DEFINE m == Len(body.ops)
  <2>1. m \in Int /\ 1 \in Int
    BY <1>1
  <2> HIDE DEF m
  <2>2. IsFiniteSet(1..m)
    BY <2>1, FS_Interval
  <2> QED
    BY <2>2 DEF m
<1>3. ASSUME NEW b \in B PROVE IsFiniteSet(Row(b))
  <2> DEFINE m == Len(Ops(b))
  <2>1. m \in Int /\ 1 \in Int
    BY <1>1
  <2> HIDE DEF m
  <2>2. IsFiniteSet(1..m)
    BY <2>1, FS_Interval
  <2>3. IsFiniteSet({b})
    BY FS_Singleton
  <2>4. IsFiniteSet({b} \X (1..m))
    BY <2>2, <2>3, FS_Product
  <2> QED
    BY <2>4 DEF m
<1>4. IsFiniteSet(Rows)
  <2>1. row \in Surjection(B, Rows)
    BY DEF Surjection
  <2> HIDE DEF row, Rows, B
  <2> QED
    BY <1>2, <2>1, FS_Surjection
<1>5. \A T \in Rows : IsFiniteSet(T)
  BY <1>3
<1>6. IsFiniteSet(UNION Rows)
  <2> HIDE DEF Rows
  <2> QED
    BY <1>4, <1>5, FS_UNION
<1>7. StepsOf(n) \subseteq UNION Rows
  <2>1. ASSUME NEW x \in StepsOf(n) PROVE x \in UNION Rows
    <3>1. x \in Nat \X Nat /\ x[1] \in B /\ x[2] \in 1..Len(Ops(x[1]))
      BY DEF StepsOf, IsStep, Replay!Branches, BodyTyped, Ops
    <3>2. x = <<x[1], x[2]>>
      BY <3>1
    <3>3. x \in row[x[1]]
      BY <3>1, <3>2
    <3> QED
      BY <3>1, <3>3
  <2> QED
    BY <2>1
<1> HIDE DEF Rows
<1> QED
  BY <1>6, <1>7, FS_Subset

\* No two steps have the same key.
LEMMA KeysDiffer ==
  ASSUME BodyTyped, NEW x \in Nat \X Nat, NEW y \in Nat \X Nat, IsStep(x), IsStep(y),
         KeyAt(x) = KeyAt(y)
  PROVE  x = y
<1> DEFINE n == NameOf(x)
<1>1. NameOf(y) = n /\ Cardinality(Earlier(x)) = Cardinality(Earlier(y))
  BY DEF KeyAt
<1>2. x \in StepsOf(n) /\ y \in StepsOf(n)
  BY <1>1 DEF StepsOf
<1>3. IsFiniteSet(StepsOf(n))
  BY FinitelyMany
<1>4. ASSUME NEW u \in StepsOf(n), NEW v \in StepsOf(n), NameOf(u) = n, NameOf(v) = n,
             Precedes(u, v)
      PROVE  Cardinality(Earlier(u)) < Cardinality(Earlier(v))
  <2>1. Earlier(u) \subseteq StepsOf(n) /\ Earlier(v) \subseteq StepsOf(n)
    BY <1>4 DEF Earlier
  <2>2. IsFiniteSet(Earlier(u)) /\ IsFiniteSet(Earlier(v))
    BY <1>3, <2>1, FS_Subset
  <2>3. u \notin Earlier(u) /\ Earlier(u) \cup {u} \subseteq Earlier(v)
    <3>1. \A w \in StepsOf(n) : w[1] \in Nat /\ w[2] \in Nat
      BY DEF StepsOf
    <3> QED
      BY <1>4, <3>1 DEF Earlier, Precedes
  <2>4. IsFiniteSet(Earlier(u) \cup {u})
        /\ Cardinality(Earlier(u) \cup {u}) = Cardinality(Earlier(u)) + 1
    BY <2>2, <2>3, FS_AddElement
  <2>5. Cardinality(Earlier(u) \cup {u}) <= Cardinality(Earlier(v))
    BY <2>2, <2>3, FS_Subset
  <2>6. Cardinality(Earlier(u)) \in Nat /\ Cardinality(Earlier(v)) \in Nat
    BY <2>2, FS_CardinalityType
  <2> QED
    BY <2>4, <2>5, <2>6
<1>5. Cardinality(Earlier(x)) \in Nat
  <2>1. Earlier(x) \subseteq StepsOf(n)
    BY DEF Earlier
  <2> QED
    BY <1>3, <2>1, FS_Subset, FS_CardinalityType
<1>6. ~ Precedes(x, y) /\ ~ Precedes(y, x)
  <2> HIDE DEF n
  <2>1. NameOf(x) = n
    BY DEF n
  <2> QED
    BY <1>1, <1>2, <1>4, <1>5, <2>1
<1>7. x[1] = y[1] /\ x[2] = y[2]
  BY <1>6 DEF Precedes
<1> QED
  BY <1>7

-----------------------------------------------------------------------------
(* One execution.                                                            *)

Places == Nat \X Nat
Ats == {"waiting", "going", "flying", "done", "failed", "suspended"}

BranchOf ==
  [at : Ats, pc : Nat \ {0}, key : {<<>>} \cup (Names \X Nat), got : Seq(Places),
   tries : Nat \ {0}]

Memos == UNION {[K -> Places] : K \in SUBSET (Names \X Nat)}

Exec ==
  [steps : Memos, decided : SUBSET Tokens, counter : [Names -> Nat],
   branch : [Replay!Branches -> BranchOf]]

\* A branch has received what its own operations produced.
BranchInv(b, br) ==
  /\ br.pc <= Len(Ops(b)) + 1
  /\ Len(br.got) = br.pc - 1
  /\ \A i \in 1..(br.pc - 1) : br.got[i] = <<b, i>>
  /\ br.at = "waiting" => br.pc = 1
  /\ br.at = "going" => br.pc >= 2
  /\ br.at = "done" => br.pc = Len(Ops(b)) + 1
  /\ br.at \in {"flying", "failed"} => IsStep(<<b, br.pc>>)
  /\ br.at = "suspended" => br.pc <= Len(Ops(b)) /\ ~ IsStep(<<b, br.pc>>)
  /\ br.at = "flying" => br.key = KeyAt(<<b, br.pc>>)

\* The branches start in order, and with one lane they take turns.
Ordered(at) ==
  \A b, c \in Replay!Branches : b < c =>
    /\ at[b] = "waiting" => at[c] = "waiting"
    /\ body.lanes = 1 /\ at[c] # "waiting" => at[b] \in {"done", "failed"}
    /\ OneByOne(body) /\ at[c] # "waiting" => at[b] = "done"

\* The step at x was begun.
BegunBy(br, j) == j < br.pc \/ (j = br.pc /\ br.at \in {"flying", "failed"})
Began(e, x) == BegunBy(e.branch[x[1]], x[2])

Did(e, n) == {x \in StepsOf(n) : Began(e, x)}

At(e) == [b \in Replay!Branches |-> e.branch[b].at]

\* The counters count, the memo holds results of steps under their keys, and it
\* holds those of every step that a branch has left.
ExecInv(e) ==
  /\ e \in Exec
  /\ \A b \in Replay!Branches : BranchInv(b, e.branch[b])
  /\ Ordered(At(e))
  /\ \A n \in Names : e.counter[n] = Cardinality(Did(e, n))
  /\ \A k \in DOMAIN e.steps :
       \E x \in Places : IsStep(x) /\ k = KeyAt(x) /\ e.steps[k] = x
  /\ \A x \in Places : IsStep(x) /\ x[2] < e.branch[x[1]].pc => KeyAt(x) \in DOMAIN e.steps

\* The branch may perform its next operation.
Turn(e, b) ==
  \/ e.branch[b].at = "going"
  \/ /\ e.branch[b].at = "waiting"
     /\ \A c \in Replay!Branches : c < b =>
          /\ e.branch[c].at # "waiting"
          /\ body.lanes = 1 => e.branch[c].at \in {"done", "failed"}
          /\ OneByOne(body) => e.branch[c].at = "done"

\* e after a step of branch b.
After(e, b, nb, C, S) ==
  [steps |-> S, decided |-> e.decided, counter |-> C,
   branch |-> [e.branch EXCEPT ![b] = nb]]

LEMMA AfterFields ==
  ASSUME NEW e \in Exec, NEW b \in Replay!Branches, NEW nb \in BranchOf,
         NEW C \in [Names -> Nat], NEW S \in Memos
  PROVE  /\ After(e, b, nb, C, S) \in Exec
         /\ After(e, b, nb, C, S).steps = S
         /\ After(e, b, nb, C, S).decided = e.decided
         /\ After(e, b, nb, C, S).counter = C
         /\ After(e, b, nb, C, S).branch[b] = nb
         /\ \A c \in Replay!Branches \ {b} : After(e, b, nb, C, S).branch[c] = e.branch[c]
BY DEF After, Exec

LEMMA OrderKept ==
  ASSUME ReplayConstants, BodyTyped, NEW e, ExecInv(e), NEW b \in Replay!Branches,
         Turn(e, b) \/ e.branch[b].at = "flying",
         NEW f, \A c \in Replay!Branches \ {b} : f.branch[c] = e.branch[c],
         f.branch[b].at # "waiting"
  PROVE  Ordered(At(f))
<1>1. Replay!Branches \subseteq Nat
  BY DEF BodyTyped, Replay!Branches
<1>2. /\ \A c \in Replay!Branches : At(e)[c] = e.branch[c].at
      /\ \A c \in Replay!Branches : At(f)[c] = f.branch[c].at
  BY DEF At
<1>3. \A c \in Replay!Branches \ {b} : At(f)[c] = At(e)[c]
  BY <1>2
<1>4. Ordered(At(e))
  BY DEF ExecInv
<1>5. \/ At(e)[b] \in {"going", "flying"}
      \/ /\ At(e)[b] = "waiting"
         /\ \A c \in Replay!Branches : c < b =>
              /\ At(e)[c] # "waiting"
              /\ body.lanes = 1 => At(e)[c] \in {"done", "failed"}
              /\ OneByOne(body) => At(e)[c] = "done"
  BY <1>2 DEF Turn
<1>6. At(f)[b] # "waiting"
  BY <1>2
<1>7. ASSUME NEW c \in Replay!Branches, NEW d \in Replay!Branches, c < d
      PROVE  /\ At(f)[c] = "waiting" => At(f)[d] = "waiting"
             /\ body.lanes = 1 /\ At(f)[d] # "waiting" => At(f)[c] \in {"done", "failed"}
             /\ OneByOne(body) /\ At(f)[d] # "waiting" => At(f)[c] = "done"
  <2>1. CASE d = b
    <3>1. c # b /\ At(f)[c] = At(e)[c]
      BY <1>1, <1>3, <1>7, <2>1
    <3> QED
      BY <1>4, <1>5, <1>6, <1>7, <2>1, <3>1 DEF Ordered
  <2>2. CASE d # b /\ c = b
    BY <1>3, <1>4, <1>5, <1>6, <1>7, <2>2 DEF Ordered
  <2>3. CASE d # b /\ c # b
    BY <1>3, <1>4, <1>7, <2>3 DEF Ordered
  <2> QED
    BY <2>1, <2>2, <2>3
<1> QED
  BY <1>7 DEF Ordered

\* When a branch has its turn, the steps of its name that were begun are the
\* earlier ones.
LEMMA BegunAreEarlier ==
  ASSUME AlignedBody(body), NEW e, ExecInv(e), NEW b \in Replay!Branches, Turn(e, b),
         IsStep(<<b, e.branch[b].pc>>)
  PROVE  Did(e, NameOf(<<b, e.branch[b].pc>>)) = Earlier(<<b, e.branch[b].pc>>)
<1> DEFINE i == e.branch[b].pc
           n == NameOf(<<b, i>>)
<1>1. Replay!Branches \subseteq Nat /\ BodyTyped
  BY DEF AlignedBody, BodyTyped, Replay!Branches
<1>2. \A c \in Replay!Branches : Len(Ops(c)) \in Nat /\ DOMAIN Ops(c) = 1..Len(Ops(c))
  BY DEF AlignedBody, Replay!Branches, Ops
<1>3. \A c \in Replay!Branches :
        /\ e.branch[c] \in BranchOf /\ BranchInv(c, e.branch[c])
        /\ e.branch[c].pc \in Nat \ {0} /\ e.branch[c].at \in Ats
  BY DEF ExecInv, Exec, BranchOf
<1>4. e.branch[b].at \in {"going", "waiting"} /\ i \in Nat \ {0}
  BY <1>3 DEF Turn
<1>5. ASSUME NEW x \in StepsOf(n) PROVE Began(e, x) <=> Precedes(x, <<b, i>>)
  <2> DEFINE c == x[1]  j == x[2]
  <2>1. c \in Replay!Branches /\ j \in DOMAIN Ops(c) /\ c \in Nat /\ j \in Nat /\ IsStep(x) /\ NameOf(x) = n
        /\ j >= 1
    BY <1>2, <1>5 DEF StepsOf, IsStep
  <2>2. CASE c = b
    BY <1>4, <2>1, <2>2 DEF Began, BegunBy, Precedes
  <2>3. CASE c # b
    <3>1. Precedes(x, <<b, i>>) <=> c < b
      BY <2>1, <2>3 DEF Precedes
    <3>2. b \in Nat /\ c \in Nat
      BY <1>1, <2>1
    <3> DEFINE br == e.branch[c]
    <3>a. /\ br.pc \in Nat \ {0} /\ br.at \in Ats
          /\ br.at = "waiting" => br.pc = 1
          /\ br.at = "going" => br.pc >= 2
          /\ br.at = "done" => br.pc = Len(Ops(c)) + 1
          /\ Len(Ops(c)) \in Nat /\ j <= Len(Ops(c))
      <4>1. br.pc \in Nat \ {0} /\ br.at \in Ats /\ BranchInv(c, br)
        BY <1>3, <2>1
      <4>2. Len(Ops(c)) \in Nat /\ j <= Len(Ops(c))
        BY <1>2, <2>1
      <4> HIDE DEF br
      <4> QED
        BY <4>1, <4>2 DEF BranchInv
    <3>b. Began(e, x) <=> j < br.pc \/ (j = br.pc /\ br.at \in {"flying", "failed"})
      BY DEF Began, BegunBy
    <3> HIDE DEF br
    <3>3. CASE OneByOne(body)
      <4>1. c < b => e.branch[c].at = "done"
        <5>1. CASE e.branch[b].at = "waiting"
          BY <2>1, <3>3, <5>1 DEF Turn
        <5>2. CASE e.branch[b].at = "going"
          BY <2>1, <3>3, <5>2 DEF ExecInv, Ordered, At
        <5> QED
          BY <1>4, <5>1, <5>2
      <4>2. c < b => Began(e, x)
        BY <2>1, <3>a, <3>b, <4>1 DEF br
      <4>3. c > b => e.branch[c].at = "waiting"
        <5>1. e.branch[b].at # "done"
          BY <1>4
        <5> QED
          BY <2>1, <3>3, <5>1 DEF ExecInv, Ordered, At
      <4>4. c > b => ~ Began(e, x)
        BY <2>1, <3>a, <3>b, <4>3 DEF br
      <4> QED
        BY <2>3, <3>1, <3>2, <4>2, <4>4
    <3>4. CASE ~ OneByOne(body)
      <4>1. i = 1 /\ j = 1
        BY <2>1, <2>3, <3>4 DEF AlignedBody, InOneOrder, IsStep, NameOf, Ops, Replay!Branches
      <4>2. e.branch[b].at = "waiting"
        BY <1>3, <1>4, <4>1 DEF BranchInv
      <4>3. c < b => Began(e, x)
        <5>1. c < b => e.branch[c].at # "waiting"
          BY <2>1, <4>2 DEF Turn
        <5>2. x = <<c, j>>
          BY <1>5 DEF StepsOf
        <5>3. e.branch[c].at = "suspended" => ~ (e.branch[c].pc = 1)
          BY <1>3, <2>1, <4>1, <5>2 DEF BranchInv
        <5>4. e.branch[c].at \in {"done", "going"} => e.branch[c].pc > 1
          BY <2>1, <3>a, <4>1 DEF br
        <5> QED
          BY <2>1, <3>a, <3>b, <4>1, <5>1, <5>3, <5>4 DEF br, Ats
      <4>4. c > b => ~ Began(e, x)
        <5>1. c > b => e.branch[c].at = "waiting"
          BY <2>1, <4>2 DEF ExecInv, Ordered, At
        <5> QED
          BY <2>1, <3>a, <3>b, <5>1 DEF br
      <4> QED
        BY <2>3, <3>1, <3>2, <4>3, <4>4
    <3> QED
      BY <3>3, <3>4
  <2> QED
    BY <2>2, <2>3
<1> QED
  BY <1>5 DEF Did, Earlier

LEMMA DidSame ==
  ASSUME NEW e, NEW f, NEW b \in Replay!Branches,
         \A c \in Replay!Branches \ {b} : f.branch[c] = e.branch[c],
         \A j \in Nat : IsStep(<<b, j>>) =>
           (BegunBy(f.branch[b], j) <=> BegunBy(e.branch[b], j))
  PROVE  \A n : Did(f, n) = Did(e, n)
<1>1. ASSUME NEW n, NEW x \in StepsOf(n) PROVE Began(f, x) <=> Began(e, x)
  <2>1. x[1] \in Replay!Branches /\ x[2] \in Nat /\ IsStep(x) /\ x = <<x[1], x[2]>>
    BY <1>1 DEF StepsOf, IsStep
  <2>2. CASE x[1] = b
    BY <2>1, <2>2 DEF Began
  <2>3. CASE x[1] # b
    BY <2>1, <2>3 DEF Began
  <2> QED
    BY <2>2, <2>3
<1> QED
  BY <1>1 DEF Did

LEMMA DidMore ==
  ASSUME NEW e, NEW f, NEW b \in Replay!Branches, NEW i \in Nat, b \in Nat,
         \A c \in Replay!Branches \ {b} : f.branch[c] = e.branch[c],
         IsStep(<<b, i>>), ~ BegunBy(e.branch[b], i),
         \A j \in Nat : IsStep(<<b, j>>) =>
           (BegunBy(f.branch[b], j) <=> BegunBy(e.branch[b], j) \/ j = i)
  PROVE  /\ \A n : n # NameOf(<<b, i>>) => Did(f, n) = Did(e, n)
         /\ Did(f, NameOf(<<b, i>>)) = Did(e, NameOf(<<b, i>>)) \cup {<<b, i>>}
         /\ <<b, i>> \notin Did(e, NameOf(<<b, i>>))
<1>1. ASSUME NEW n, NEW x \in StepsOf(n) PROVE Began(f, x) <=> Began(e, x) \/ x = <<b, i>>
  <2>1. x[1] \in Replay!Branches /\ x[2] \in Nat /\ IsStep(x) /\ x = <<x[1], x[2]>>
    BY <1>1 DEF StepsOf, IsStep
  <2>2. CASE x[1] = b
    <3>1. x = <<b, i>> <=> x[2] = i
      BY <2>1, <2>2
    <3> QED
      BY <2>1, <2>2, <3>1 DEF Began
  <2>3. CASE x[1] # b
    BY <2>1, <2>3 DEF Began
  <2> QED
    BY <2>2, <2>3
<1>2. \A n : <<b, i>> \in StepsOf(n) <=> n = NameOf(<<b, i>>)
  BY DEF StepsOf
<1>3. ~ Began(e, <<b, i>>)
  BY DEF Began
<1> QED
  BY <1>1, <1>2, <1>3 DEF Did

\* What holds of a body and of one of its steps.
LEMMA StepTyped ==
  ASSUME AlignedBody(body), NEW b \in Replay!Branches
  PROVE  /\ BodyTyped /\ b \in Nat /\ Len(Ops(b)) \in Nat /\ DOMAIN Ops(b) = 1..Len(Ops(b))
         /\ \A i \in Nat : IsStep(<<b, i>>) <=> i \in 1..Len(Ops(b)) /\ Ops(b)[i].kind = "step"
         /\ \A i \in Nat : IsStep(<<b, i>>) => NameOf(<<b, i>>) \in Names
         /\ \A i \in 1..Len(Ops(b)) : Ops(b)[i] \in OpOf
<1>1. BodyTyped /\ body.ops[b] \in Seq(OpOf) /\ b \in Nat
  BY DEF AlignedBody, BodyTyped, Replay!Branches
<1>2. \A i \in 1..Len(Ops(b)) : Ops(b)[i] \in OpOf
  BY <1>1, ElementOfSeq DEF Ops
<1>3. Len(Ops(b)) \in Nat /\ DOMAIN Ops(b) = 1..Len(Ops(b))
  BY <1>1 DEF Ops
<1>4. \A i \in Nat : IsStep(<<b, i>>) <=> i \in 1..Len(Ops(b)) /\ Ops(b)[i].kind = "step"
  BY <1>3 DEF IsStep
<1>5. \A i \in Nat : IsStep(<<b, i>>) => NameOf(<<b, i>>) \in Names
  BY <1>2, <1>4 DEF NameOf, OpOf
<1> QED
  BY <1>1, <1>2, <1>3, <1>4, <1>5

\* A branch passes a gate, waits at one, or is through.
LEMMA GateKeeps ==
  ASSUME ReplayConstants, AlignedBody(body), NEW e, ExecInv(e), NEW b \in Replay!Branches,
         Turn(e, b), NEW nb \in BranchOf, BranchInv(b, nb),
         ~ IsStep(<<b, e.branch[b].pc>>),
         \/ nb.at = "going" /\ nb.pc = e.branch[b].pc + 1
         \/ nb.at \in {"suspended", "done"} /\ nb.pc = e.branch[b].pc
  PROVE  ExecInv(After(e, b, nb, e.counter, e.steps))
<1> DEFINE f == After(e, b, nb, e.counter, e.steps)
           i == e.branch[b].pc
<1>1. e \in Exec /\ e.counter \in [Names -> Nat] /\ e.steps \in Memos /\ e.branch[b] \in BranchOf
  BY DEF ExecInv, Exec
<1>2. /\ f \in Exec /\ f.steps = e.steps /\ f.counter = e.counter /\ f.branch[b] = nb
      /\ \A c \in Replay!Branches \ {b} : f.branch[c] = e.branch[c]
  BY <1>1, AfterFields
<1> HIDE DEF f
<1>3. i \in Nat /\ nb.pc \in Nat /\ e.branch[b].at \in {"waiting", "going"}
  BY <1>1 DEF BranchOf, Turn
<1>4. Ordered(At(f))
  BY <1>2, StepTyped, OrderKept
<1>5. \A n : Did(f, n) = Did(e, n)
  <2>1. \A j \in Nat : IsStep(<<b, j>>) => (BegunBy(nb, j) <=> BegunBy(e.branch[b], j))
    <3>1. ASSUME NEW j \in Nat, IsStep(<<b, j>>) PROVE BegunBy(nb, j) <=> BegunBy(e.branch[b], j)
      <4>1. j # i
        BY <3>1
      <4> QED
        BY <1>3, <4>1 DEF BegunBy
    <3> QED
      BY <3>1
  <2> QED
    BY <1>2, <2>1, DidSame
<1>6. ASSUME NEW x \in Places, IsStep(x), x[2] < f.branch[x[1]].pc PROVE KeyAt(x) \in DOMAIN e.steps
  <2>1. x[1] \in Replay!Branches /\ x = <<x[1], x[2]>> /\ x[2] \in Nat
    BY <1>6 DEF IsStep, Places
  <2>2. x[2] < e.branch[x[1]].pc
    <3>1. CASE x[1] = b
      <4>1. x[2] < nb.pc /\ x[2] # i
        BY <1>2, <1>6, <2>1, <3>1
      <4> QED
        BY <1>3, <2>1, <3>1, <4>1
    <3>2. CASE x[1] # b
      BY <1>2, <1>6, <2>1, <3>2
    <3> QED
      BY <3>1, <3>2
  <2> QED
    BY <1>6, <2>2 DEF ExecInv
<1>7. \A c \in Replay!Branches : BranchInv(c, f.branch[c])
  BY <1>2 DEF ExecInv
<1> QED
  BY <1>2, <1>4, <1>5, <1>6, <1>7 DEF ExecInv, f

\* The key a branch computes for a step is that of the step in the body.
LEMMA KeyIsAt ==
  ASSUME AlignedBody(body), NEW e, ExecInv(e), NEW b \in Replay!Branches, Turn(e, b),
         IsStep(<<b, e.branch[b].pc>>)
  PROVE  KeyAt(<<b, e.branch[b].pc>>) =
           <<NameOf(<<b, e.branch[b].pc>>), e.counter[NameOf(<<b, e.branch[b].pc>>)]>>
<1> DEFINE x == <<b, e.branch[b].pc>>
<1>1. e.branch[b].pc \in Nat
  BY DEF ExecInv, Exec, BranchOf
<1>2. NameOf(x) \in Names
  BY <1>1, StepTyped
<1>3. Did(e, NameOf(x)) = Earlier(x)
  BY BegunAreEarlier
<1>4. e.counter[NameOf(x)] = Cardinality(Did(e, NameOf(x)))
  BY <1>2 DEF ExecInv
<1> QED
  BY <1>3, <1>4 DEF KeyAt

\* A branch begins a step: it receives a result that is memoized under the key, or
\* invokes it, or fails at the fence.
LEMMA BeginKeepsExec ==
  ASSUME ReplayConstants, AlignedBody(body), NEW e, ExecInv(e), NEW b \in Replay!Branches,
         Turn(e, b), NEW nb \in BranchOf, BranchInv(b, nb),
         IsStep(<<b, e.branch[b].pc>>),
         \/ nb.at = "going" /\ nb.pc = e.branch[b].pc + 1
            /\ KeyAt(<<b, e.branch[b].pc>>) \in DOMAIN e.steps
         \/ nb.at \in {"flying", "failed"} /\ nb.pc = e.branch[b].pc,
         NEW C, C = [e.counter EXCEPT ![NameOf(<<b, e.branch[b].pc>>)] = @ + 1]
  PROVE  ExecInv(After(e, b, nb, C, e.steps))
<1> DEFINE f == After(e, b, nb, C, e.steps)
           i == e.branch[b].pc
           n == NameOf(<<b, i>>)
<1>1. e \in Exec /\ e.counter \in [Names -> Nat] /\ e.steps \in Memos /\ e.branch[b] \in BranchOf
  BY DEF ExecInv, Exec
<1>2. i \in Nat /\ nb.pc \in Nat /\ e.branch[b].at \in {"waiting", "going"}
  BY <1>1 DEF BranchOf, Turn
<1>3. BodyTyped /\ b \in Nat /\ n \in Names
  BY <1>2, StepTyped
<1>4. C \in [Names -> Nat] /\ C[n] = e.counter[n] + 1 /\ \A m \in Names \ {n} : C[m] = e.counter[m]
  <2> HIDE DEF n
  <2>1. C = [e.counter EXCEPT ![n] = @ + 1]
    BY DEF n
  <2> QED
    BY <1>1, <1>3, <2>1
<1>5. /\ f \in Exec /\ f.steps = e.steps /\ f.counter = C /\ f.branch[b] = nb
      /\ \A c \in Replay!Branches \ {b} : f.branch[c] = e.branch[c]
  BY <1>1, <1>4, AfterFields
<1> HIDE DEF f
<1>6. Ordered(At(f))
  BY <1>3, <1>5, OrderKept
<1>7. /\ \A m : m # n => Did(f, m) = Did(e, m)
      /\ Did(f, n) = Did(e, n) \cup {<<b, i>>}
      /\ <<b, i>> \notin Did(e, n)
  <2>1. ~ BegunBy(e.branch[b], i)
    BY <1>2 DEF BegunBy
  <2>2. \A j \in Nat : BegunBy(nb, j) <=> BegunBy(e.branch[b], j) \/ j = i
    BY <1>2 DEF BegunBy
  <2>3. IsStep(<<b, i>>) /\ b \in Nat /\ i \in Nat
    BY <1>2, <1>3
  <2>4. \A j \in Nat : IsStep(<<b, j>>) =>
          (BegunBy(f.branch[b], j) <=> BegunBy(e.branch[b], j) \/ j = i)
    BY <1>5, <2>2
  <2> HIDE DEF i
  <2> QED
    BY <1>5, <2>1, <2>3, <2>4, DidMore
<1>8. \A m \in Names : C[m] = Cardinality(Did(f, m))
  <2> HIDE DEF n
  <2>1. IsFiniteSet(Did(e, n))
    <3>1. IsFiniteSet(StepsOf(n)) /\ Did(e, n) \subseteq StepsOf(n)
      BY <1>3, FinitelyMany DEF Did
    <3> QED
      BY <3>1, FS_Subset
  <2>2. Cardinality(Did(f, n)) = Cardinality(Did(e, n)) + 1
    <3> DEFINE D == Did(e, n)  x == <<b, i>>
    <3>1. IsFiniteSet(D) /\ x \notin D /\ Did(f, n) = D \cup {x}
      BY <1>7, <2>1
    <3> HIDE DEF D, x
    <3>2. Cardinality(D \cup {x}) = Cardinality(D) + 1
      BY <3>1, FS_AddElement
    <3> QED
      BY <3>1, <3>2 DEF D
  <2>3. \A m \in Names : e.counter[m] = Cardinality(Did(e, m))
    BY DEF ExecInv
  <2> QED
    BY <1>3, <1>4, <1>7, <2>2, <2>3
<1>9. ASSUME NEW x \in Places, IsStep(x), x[2] < f.branch[x[1]].pc PROVE KeyAt(x) \in DOMAIN e.steps
  <2>1. x[1] \in Replay!Branches /\ x = <<x[1], x[2]>> /\ x[2] \in Nat
    BY <1>9 DEF IsStep, Places
  <2>2. CASE x[2] < e.branch[x[1]].pc
    BY <1>9, <2>2 DEF ExecInv
  <2>3. CASE ~ (x[2] < e.branch[x[1]].pc)
    <3>1. x[1] = b
      BY <1>5, <1>9, <2>1, <2>3
    <3>2. x[2] = i /\ nb.pc = i + 1
      BY <1>2, <1>5, <1>9, <2>1, <2>3, <3>1
    <3>3. x = <<b, i>> /\ nb.pc # i
      BY <1>2, <2>1, <3>1, <3>2
    <3> QED
      BY <3>3
  <2> QED
    BY <2>2, <2>3
<1>10. \A c \in Replay!Branches : BranchInv(c, f.branch[c])
  BY <1>5 DEF ExecInv
<1>11. \A k \in DOMAIN e.steps : \E x \in Places : IsStep(x) /\ k = KeyAt(x) /\ e.steps[k] = x
  BY DEF ExecInv
<1> HIDE DEF n, i
<1>12. ExecInv(f)
  BY <1>5, <1>6, <1>8, <1>9, <1>10, <1>11 DEF ExecInv
<1> QED
  BY <1>12 DEF f

\* An invocation fails, for good.
LEMMA ThrowKeeps ==
  ASSUME ReplayConstants, AlignedBody(body), NEW e, ExecInv(e), NEW b \in Replay!Branches,
         e.branch[b].at = "flying", NEW nb \in BranchOf, BranchInv(b, nb),
         nb.at = "failed", nb.pc = e.branch[b].pc
  PROVE  ExecInv(After(e, b, nb, e.counter, e.steps))
<1> DEFINE f == After(e, b, nb, e.counter, e.steps)
<1>1. e \in Exec /\ e.counter \in [Names -> Nat] /\ e.steps \in Memos
  BY DEF ExecInv, Exec
<1>2. /\ f \in Exec /\ f.steps = e.steps /\ f.counter = e.counter /\ f.branch[b] = nb
      /\ \A c \in Replay!Branches \ {b} : f.branch[c] = e.branch[c]
  BY <1>1, AfterFields
<1> HIDE DEF f
<1>3. Ordered(At(f))
  BY <1>2, StepTyped, OrderKept
<1>4. \A n : Did(f, n) = Did(e, n)
  <2>1. \A j \in Nat : BegunBy(nb, j) <=> BegunBy(e.branch[b], j)
    BY DEF BegunBy
  <2> QED
    BY <1>2, <2>1, DidSame
<1>5. \A c \in Replay!Branches : f.branch[c].pc = e.branch[c].pc
  BY <1>2
<1>6. \A x \in Places : IsStep(x) /\ x[2] < f.branch[x[1]].pc => KeyAt(x) \in DOMAIN e.steps
  BY <1>5 DEF ExecInv, IsStep
<1>7. \A c \in Replay!Branches : BranchInv(c, f.branch[c])
  BY <1>2 DEF ExecInv
<1> QED
  BY <1>2, <1>3, <1>4, <1>6, <1>7 DEF ExecInv, f

\* The fn of a step returns, and its result is memoized under the key.
LEMMA ReturnKeeps ==
  ASSUME ReplayConstants, AlignedBody(body), NEW e, ExecInv(e), NEW b \in Replay!Branches,
         e.branch[b].at = "flying", NEW nb \in BranchOf, BranchInv(b, nb),
         nb.at = "going", nb.pc = e.branch[b].pc + 1,
         NEW S \in Memos, DOMAIN S = DOMAIN e.steps \cup {e.branch[b].key},
         S[e.branch[b].key] = <<b, e.branch[b].pc>>,
         \A k \in DOMAIN e.steps : k # e.branch[b].key => S[k] = e.steps[k]
  PROVE  ExecInv(After(e, b, nb, e.counter, S))
<1> DEFINE f == After(e, b, nb, e.counter, S)
           i == e.branch[b].pc
<1>1. e \in Exec /\ e.counter \in [Names -> Nat] /\ e.branch[b] \in BranchOf
  BY DEF ExecInv, Exec
<1>2. /\ f \in Exec /\ f.steps = S /\ f.counter = e.counter /\ f.branch[b] = nb
      /\ \A c \in Replay!Branches \ {b} : f.branch[c] = e.branch[c]
  BY <1>1, AfterFields
<1> HIDE DEF f
<1>3. i \in Nat /\ nb.pc \in Nat /\ b \in Nat
  BY <1>1, StepTyped DEF BranchOf
<1>4. Ordered(At(f))
  BY <1>2, StepTyped, OrderKept
<1>5. \A n : Did(f, n) = Did(e, n)
  <2>1. \A j \in Nat : BegunBy(nb, j) <=> BegunBy(e.branch[b], j)
    BY <1>3 DEF BegunBy
  <2>2. \A j \in Nat : IsStep(<<b, j>>) =>
          (BegunBy(f.branch[b], j) <=> BegunBy(e.branch[b], j))
    BY <1>2, <2>1
  <2>3. \A c \in Replay!Branches \ {b} : f.branch[c] = e.branch[c]
    BY <1>2
  <2> QED
    BY <2>2, <2>3, DidSame, Zenon
<1>6. IsStep(<<b, i>>) /\ e.branch[b].key = KeyAt(<<b, i>>) /\ <<b, i>> \in Places
  BY <1>3 DEF ExecInv, BranchInv, Places
<1>7. ASSUME NEW x \in Places, IsStep(x), x[2] < f.branch[x[1]].pc PROVE KeyAt(x) \in DOMAIN S
  <2>1. x[1] \in Replay!Branches /\ x = <<x[1], x[2]>> /\ x[2] \in Nat
    BY <1>7 DEF IsStep, Places
  <2>2. CASE x[2] < e.branch[x[1]].pc
    BY <1>7, <2>2 DEF ExecInv
  <2>3. CASE ~ (x[2] < e.branch[x[1]].pc)
    <3>1. x[1] = b
      BY <1>2, <1>7, <2>1, <2>3
    <3>2. x[2] = i
      BY <1>2, <1>3, <1>7, <2>1, <2>3, <3>1
    <3>3. x = <<b, i>>
      BY <2>1, <3>1, <3>2
    <3> QED
      BY <1>6, <3>3
  <2> QED
    BY <2>2, <2>3
<1>8. ASSUME NEW k \in DOMAIN S PROVE \E x \in Places : IsStep(x) /\ k = KeyAt(x) /\ S[k] = x
  <2>1. CASE k = e.branch[b].key
    BY <1>6, <2>1
  <2>2. CASE k # e.branch[b].key
    <3>1. k \in DOMAIN e.steps /\ S[k] = e.steps[k]
      BY <2>2
    <3> QED
      BY <3>1 DEF ExecInv
  <2> QED
    BY <2>1, <2>2
<1>9. \A c \in Replay!Branches : BranchInv(c, f.branch[c])
  BY <1>2 DEF ExecInv
<1>10. \A n \in Names : f.counter[n] = Cardinality(Did(f, n))
  BY <1>2, <1>5 DEF ExecInv
<1> QED
  BY <1>2, <1>4, <1>7, <1>8, <1>9, <1>10 DEF ExecInv, f

-----------------------------------------------------------------------------
(* All executions.                                                           *)

\* The body stays, and with it what is said of its steps and executions.
LEMMA ExecStays == ASSUME NEW e, body' = body PROVE ExecInv(e)' <=> ExecInv(e)
<1>1. \A x : IsStep(x)' <=> IsStep(x)
  BY DEF IsStep, Ops, Replay!Branches
<1>2. \A x : NameOf(x)' = NameOf(x)
  BY DEF NameOf, Ops
<1>3. \A n : StepsOf(n)' = StepsOf(n)
  BY <1>1, <1>2 DEF StepsOf
<1>4. \A x : Earlier(x)' = Earlier(x)
  BY <1>2, <1>3 DEF Earlier
<1>5. \A x : KeyAt(x)' = KeyAt(x)
  BY <1>2, <1>4 DEF KeyAt
<1>6. \A b, br : BranchInv(b, br)' <=> BranchInv(b, br)
  BY <1>1, <1>5 DEF BranchInv, Ops
<1>7. At(e)' = At(e)
  BY DEF At, Replay!Branches
<1>8. \A at : Ordered(at)' <=> Ordered(at)
  BY DEF Ordered, Replay!Branches
<1>9. \A n : Did(e, n)' = Did(e, n)
  BY <1>3 DEF Did
<1>10. Exec' = Exec
  BY DEF Exec, Replay!Branches
<1> QED
  BY <1>1, <1>5, <1>6, <1>7, <1>8, <1>9, <1>10 DEF ExecInv, Replay!Branches

\* A suspension ends an execution.
Orderly == body.form # "map" \/ body.lanes = 1

\* What a resume relies on: the execution before is over, its results are there,
\* and what it had received is not invoked.
Follows(e, d) ==
  /\ DOMAIN d.steps \subseteq DOMAIN e.steps
  /\ \A b \in Replay!Branches :
       e.branch[b].at = "flying" => e.branch[b].pc > Len(d.branch[b].got)

ReplayInv ==
  /\ body \in Bodies
  /\ status \in {"running", "suspended", "completed", "error"}
  /\ token \in Tokens /\ (status = "suspended" <=> token # "none")
  /\ failures \in 0..MaxFailures
  /\ executions \in Seq(Exec) /\ Len(executions) \in 1..MaxExecutions
  /\ \A p \in 1..Len(executions) : ExecInv(executions[p])
  /\ Orderly => \A p \in 1..(Len(executions) - 1) :
       Replay!Quiet(p) /\ Follows(executions[p + 1], executions[p])
  /\ Orderly /\ status = "suspended" => Replay!Quiet(Len(executions))
  /\ status = "error" /\ body.form # "parallel" =>
       /\ Replay!Quiet(Len(executions))
       /\ Replay!In(Len(executions), {"suspended"}) = {}

LEMMA QuietStays ==
  ASSUME body' = body, NEW p, executions'[p] = executions[p]
  PROVE  /\ Replay!Quiet(p)' <=> Replay!Quiet(p)
         /\ Replay!In(p, {"suspended"})' = Replay!In(p, {"suspended"})
<1>1. \A S : Replay!In(p, S)' = Replay!In(p, S)
  BY DEF Replay!In, Replay!Branches
<1>2. Replay!Startable(p)' <=> Replay!Startable(p)
  BY <1>1 DEF Replay!Startable
<1> QED
  BY <1>1, <1>2 DEF Replay!Quiet

\* A step of an execution that is not quiet keeps the invariant, if the execution
\* keeps its own.
LEMMA WorkKeeps ==
  ASSUME ReplayInv, ReplayConstants, NEW p \in 1..Len(executions), ~ Replay!Quiet(p),
         NEW f, ExecInv(f), executions' = [executions EXCEPT ![p] = f],
         DOMAIN executions[p].steps \subseteq DOMAIN f.steps,
         Orderly /\ p > 1 => \A b \in Replay!Branches :
           f.branch[b].at = "flying" => f.branch[b].pc > Len(executions[p - 1].branch[b].got),
         UNCHANGED <<body, status, token>>, failures' \in 0..MaxFailures
  PROVE  ReplayInv'
<1> DEFINE n == Len(executions)
<1>1. /\ executions \in Seq(Exec) /\ n \in Nat /\ n >= 1 /\ n <= MaxExecutions
      /\ f \in Exec
  BY DEF ReplayInv, ExecInv, ReplayConstants
<1>2. /\ executions' \in Seq(Exec) /\ Len(executions') = n /\ executions'[p] = f
      /\ \A q \in 1..n : q # p => executions'[q] = executions[q]
  BY <1>1
<1>3. Exec' = Exec
  BY DEF Exec, Replay!Branches
<1>4. \A q \in 1..n : ExecInv(executions[q])'
  <2>1. \A q \in 1..n : ExecInv(executions'[q])
    BY <1>2 DEF ReplayInv
  <2> QED
    BY <2>1, ExecStays
<1>5. Orderly => p = n /\ status # "suspended"
  BY <1>1 DEF ReplayInv
<1>6. Orderly' <=> Orderly
  BY DEF Orderly
<1>7. ASSUME Orderly, NEW q \in 1..(n - 1)
      PROVE  Replay!Quiet(q)' /\ Follows(executions[q + 1], executions[q])'
  <2>1. q \in 1..n /\ q # p /\ q + 1 \in 1..n /\ executions'[q] = executions[q]
    BY <1>1, <1>2, <1>5, <1>7
  <2>2. Replay!Quiet(q) /\ Follows(executions[q + 1], executions[q])
    BY <1>7 DEF ReplayInv
  <2>3. Follows(executions'[q + 1], executions[q])
    <3>1. CASE q + 1 = p
      <4>1. p > 1 /\ q = p - 1
        BY <1>1, <3>1
      <4> QED
        BY <1>2, <1>7, <2>2, <3>1, <4>1 DEF Follows
    <3>2. CASE q + 1 # p
      BY <1>2, <2>1, <2>2, <3>2
    <3> QED
      BY <3>1, <3>2
  <2>4. Replay!Quiet(q)'
    BY <2>1, <2>2, QuietStays
  <2> QED
    BY <2>1, <2>3, <2>4 DEF Follows, Replay!Branches
<1>8. ASSUME status = "error", body.form # "parallel"
      PROVE  Replay!Quiet(n)' /\ Replay!In(n, {"suspended"})' = {}
  <2>1. Replay!Quiet(n) /\ Replay!In(n, {"suspended"}) = {}
    BY <1>8 DEF ReplayInv
  <2>2. n # p /\ n \in 1..n
    BY <1>1, <2>1
  <2>3. executions'[n] = executions[n]
    BY <1>2, <2>2
  <2>4. n' = n
    BY <1>2
  <2>5. \A q : executions'[q] = executions[q] =>
          /\ Replay!Quiet(q)' <=> Replay!Quiet(q)
          /\ Replay!In(q, {"suspended"})' = Replay!In(q, {"suspended"})
    BY QuietStays
  <2> HIDE DEF n
  <2> QED
    BY <2>1, <2>3, <2>4, <2>5
<1>9. n' = n
  BY <1>2
<1>10. /\ body' \in Bodies /\ status' \in {"running", "suspended", "completed", "error"}
       /\ token' \in Tokens /\ (status' = "suspended" <=> token' # "none")
  BY DEF ReplayInv
<1>11. Len(executions') \in 1..MaxExecutions
  BY <1>2 DEF ReplayInv
<1> QED
  BY <1>2, <1>3, <1>4, <1>5, <1>6, <1>7, <1>8, <1>9, <1>10, <1>11 DEF ReplayInv

\* Writing a branch, a counter or the memo of e gives an After.
LEMMA Writes ==
  ASSUME NEW e \in Exec, NEW b \in Replay!Branches
  PROVE  /\ \A nb : [e EXCEPT !.branch = [e.branch EXCEPT ![b] = nb]]
                      = After(e, b, nb, e.counter, e.steps)
         /\ \A nb, C : [[e EXCEPT !.branch = [e.branch EXCEPT ![b] = nb]] EXCEPT !.counter = C]
                         = After(e, b, nb, C, e.steps)
         /\ \A nb, S : [[e EXCEPT !.steps = S] EXCEPT !.branch = [e.branch EXCEPT ![b] = nb]]
                         = After(e, b, nb, e.counter, S)
<1>1. e = [steps |-> e.steps, decided |-> e.decided, counter |-> e.counter, branch |-> e.branch]
  BY DEF Exec
<1> DEFINE g(X) == [e EXCEPT !.branch = X]
           h(S) == [e EXCEPT !.steps = S]
<1>2. ASSUME NEW X
      PROVE  g(X) = [steps |-> e.steps, decided |-> e.decided, counter |-> e.counter, branch |-> X]
  BY <1>1
<1>3. ASSUME NEW X, NEW C
      PROVE  [g(X) EXCEPT !.counter = C]
               = [steps |-> e.steps, decided |-> e.decided, counter |-> C, branch |-> X]
  <2> HIDE DEF g
  <2> QED
    BY <1>2
<1>4. ASSUME NEW S
      PROVE  h(S) = [steps |-> S, decided |-> e.decided, counter |-> e.counter, branch |-> e.branch]
  BY <1>1
<1>5. ASSUME NEW X, NEW S
      PROVE  [h(S) EXCEPT !.branch = X]
               = [steps |-> S, decided |-> e.decided, counter |-> e.counter, branch |-> X]
  <2> HIDE DEF h
  <2> QED
    BY <1>4
<1>6. ASSUME NEW nb
      PROVE  [e EXCEPT !.branch = [e.branch EXCEPT ![b] = nb]] = After(e, b, nb, e.counter, e.steps)
  BY <1>2 DEF After
<1>7. ASSUME NEW nb, NEW C
      PROVE  [[e EXCEPT !.branch = [e.branch EXCEPT ![b] = nb]] EXCEPT !.counter = C]
               = After(e, b, nb, C, e.steps)
  BY <1>3 DEF After
<1>8. ASSUME NEW nb, NEW S
      PROVE  [[e EXCEPT !.steps = S] EXCEPT !.branch = [e.branch EXCEPT ![b] = nb]]
               = After(e, b, nb, e.counter, S)
  BY <1>5 DEF After
<1> QED
  BY <1>6, <1>7, <1>8

\* What is known of a branch that has its turn.
LEMMA InReplay ==
  ASSUME ReplayInv, ReplayConstants, NEW p \in 1..Len(executions)
  PROVE  /\ AlignedBody(body) /\ ExecInv(executions[p]) /\ executions[p] \in Exec
         /\ executions \in Seq(Exec)
         /\ Orderly /\ p > 1 => Follows(executions[p], executions[p - 1])
         /\ p > 1 => ExecInv(executions[p - 1])
<1>1. AlignedBody(body) /\ ExecInv(executions[p]) /\ executions[p] \in Exec /\ executions \in Seq(Exec)
  BY DEF ReplayInv, ReplayConstants, ExecInv
<1>2. p > 1 => p - 1 \in 1..Len(executions) /\ p - 1 \in 1..(Len(executions) - 1) /\ (p - 1) + 1 = p
  BY <1>1
<1>3. Orderly /\ p > 1 => Follows(executions[p], executions[p - 1])
  <2> DEFINE q == p - 1
  <2>1. ASSUME Orderly, p > 1 PROVE Follows(executions[q + 1], executions[q])
    BY <1>2, <2>1 DEF ReplayInv
  <2> QED
    BY <1>2, <2>1
<1> QED
  BY <1>1, <1>2, <1>3 DEF ReplayInv

\* A step that was received before the suspension is in the memo.
LEMMA Remembered ==
  ASSUME NEW e, NEW d, ExecInv(d), Follows(e, d), NEW b \in Replay!Branches, NEW i \in Nat,
         b \in Nat, IsStep(<<b, i>>), KeyAt(<<b, i>>) \notin DOMAIN e.steps
  PROVE  i > Len(d.branch[b].got)
<1>1. d.branch[b].pc \in Nat /\ Len(d.branch[b].got) = d.branch[b].pc - 1
  BY DEF ExecInv, Exec, BranchOf, BranchInv
<1>2. <<b, i>> \in Places
  BY DEF Places
<1>3. KeyAt(<<b, i>>) \notin DOMAIN d.steps
  BY DEF Follows
<1>4. ~ (i < d.branch[b].pc)
  <2> DEFINE x == <<b, i>>
  <2>1. x[1] = b /\ x[2] = i
    OBVIOUS
  <2>2. IsStep(x) /\ x[2] < d.branch[x[1]].pc => KeyAt(x) \in DOMAIN d.steps
    BY <1>2 DEF ExecInv
  <2> QED
    BY <1>3, <2>1, <2>2
<1> QED
  BY <1>1, <1>4

LEMMA WriteBranch ==
  ASSUME executions \in Seq(Exec), NEW p \in 1..Len(executions), NEW b \in Replay!Branches,
         NEW nb, executions' = [executions EXCEPT ![p].branch[b] = nb]
  PROVE  executions' = [executions EXCEPT ![p] =
           After(executions[p], b, nb, executions[p].counter, executions[p].steps)]
<1> DEFINE e == executions[p]
<1>1. e \in Exec
  OBVIOUS
<1>2. [e EXCEPT !.branch = [e.branch EXCEPT ![b] = nb]] = After(e, b, nb, e.counter, e.steps)
  BY <1>1, Writes
<1> QED
  BY <1>2

LEMMA WriteOne ==
  ASSUME NEW e \in Exec
  PROVE  /\ \A X : [e EXCEPT !.branch = X].counter = e.counter
         /\ \A S : [e EXCEPT !.steps = S].branch = e.branch
BY DEF Exec

Counting(T, p, b, nb, n) == [T EXCEPT ![p].branch[b] = nb, ![p].counter[n] = @ + 1]
Memoizing(T, p, b, nb, S) == [T EXCEPT ![p].steps = S, ![p].branch[b] = nb]

LEMMA WriteCounter ==
  ASSUME executions \in Seq(Exec), NEW p \in 1..Len(executions), NEW b \in Replay!Branches,
         NEW nb, NEW n,
         executions' = Counting(executions, p, b, nb, n)
  PROVE  executions' = [executions EXCEPT ![p] =
           After(executions[p], b, nb, [executions[p].counter EXCEPT ![n] = @ + 1],
                 executions[p].steps)]
<1> DEFINE g == [executions[p] EXCEPT !.branch = [executions[p].branch EXCEPT ![b] = nb]]
           U == [executions EXCEPT ![p] = g]
<1>1. executions[p] \in Exec
  OBVIOUS
<1>2. \A C : [g EXCEPT !.counter = C] = After(executions[p], b, nb, C, executions[p].steps)
  BY <1>1, Writes
<1>3. U[p] = g /\ g.counter = executions[p].counter
  <2>1. g.counter = executions[p].counter
    BY <1>1, WriteOne
  <2> HIDE DEF g
  <2> QED
    BY <2>1
<1>4. \A x : [U EXCEPT ![p] = x] = [executions EXCEPT ![p] = x]
  <2> HIDE DEF g
  <2> QED
    OBVIOUS
<1>5. executions' = [U EXCEPT ![p] = [U[p] EXCEPT !.counter = [U[p].counter EXCEPT ![n] = U[p].counter[n] + 1]]]
  BY DEF Counting
<1> HIDE DEF g, U
<1> QED
  BY <1>2, <1>3, <1>4, <1>5

LEMMA WriteSteps ==
  ASSUME executions \in Seq(Exec), NEW p \in 1..Len(executions), NEW b \in Replay!Branches,
         NEW nb, NEW S,
         executions' = Memoizing(executions, p, b, nb, S)
  PROVE  executions' = [executions EXCEPT ![p] =
           After(executions[p], b, nb, executions[p].counter, S)]
<1> DEFINE g == [executions[p] EXCEPT !.steps = S]
           U == [executions EXCEPT ![p] = g]
<1>1. executions[p] \in Exec
  OBVIOUS
<1>2. [g EXCEPT !.branch = [executions[p].branch EXCEPT ![b] = nb]]
        = After(executions[p], b, nb, executions[p].counter, S)
  <2> DEFINE e == executions[p]
  <2>1. e \in Exec
    BY <1>1
  <2> HIDE DEF e
  <2>2. \A x, X : [[e EXCEPT !.steps = X] EXCEPT !.branch = [e.branch EXCEPT ![b] = x]]
                   = After(e, b, x, e.counter, X)
    BY <2>1, Writes
  <2> QED
    BY <2>2 DEF e
<1>3. U[p] = g /\ g.branch = executions[p].branch
  <2>1. g.branch = executions[p].branch
    BY <1>1, WriteOne
  <2> HIDE DEF g
  <2> QED
    BY <2>1
<1>4. \A x : [U EXCEPT ![p] = x] = [executions EXCEPT ![p] = x]
  <2> HIDE DEF g
  <2> QED
    OBVIOUS
<1>5. executions' = [U EXCEPT ![p] = [U[p] EXCEPT !.branch = [U[p].branch EXCEPT ![b] = nb]]]
  BY DEF Memoizing
<1> HIDE DEF g, U
<1> QED
  BY <1>2, <1>3, <1>4, <1>5

\* A branch receives a value and goes on.
LEMMA Received ==
  ASSUME NEW br \in BranchOf, NEW v \in Places, NEW nb,
         nb = [br EXCEPT !.at = "going", !.pc = @ + 1, !.got = Append(@, v)]
  PROVE  nb \in BranchOf /\ nb.at = "going" /\ nb.pc = br.pc + 1 /\ nb.got = Append(br.got, v)
<1>1. nb = [at |-> "going", pc |-> br.pc + 1, key |-> br.key, got |-> Append(br.got, v),
            tries |-> br.tries]
  BY DEF BranchOf
<1>2. br.pc + 1 \in Nat \ {0} /\ Append(br.got, v) \in Seq(Places)
      /\ br.key \in {<<>>} \cup (Names \X Nat) /\ br.tries \in Nat \ {0}
  BY DEF BranchOf
<1> QED
  BY <1>1, <1>2 DEF BranchOf, Ats

LEMMA PerformKeeps ==
  ASSUME ReplayInv, ReplayConstants, NEW p \in 1..Len(executions), ~ Replay!Quiet(p),
         NEW b \in Replay!Branches, Turn(executions[p], b), Replay!Perform(p, b),
         UNCHANGED <<body, status, token, failures>>
  PROVE  ReplayInv'
<1> DEFINE e == executions[p]
           br == e.branch[b]
           i == br.pc
           x == <<b, i>>
           d == executions[p - 1]
<1>1. /\ AlignedBody(body) /\ ExecInv(e) /\ e \in Exec /\ executions \in Seq(Exec)
      /\ Orderly /\ p > 1 => Follows(e, d)
      /\ p > 1 => ExecInv(d)
  BY InReplay
<1>2. /\ br \in BranchOf /\ BranchInv(b, br) /\ i \in Nat \ {0} /\ br.got \in Seq(Places)
      /\ e.counter \in [Names -> Nat] /\ e.steps \in Memos
  BY <1>1 DEF ExecInv, Exec, BranchOf
<1>3. /\ b \in Nat /\ Len(Ops(b)) \in Nat
      /\ IsStep(x) <=> i \in 1..Len(Ops(b)) /\ Ops(b)[i].kind = "step"
      /\ IsStep(x) => NameOf(x) \in Names
      /\ i \in 1..Len(Ops(b)) => Ops(b)[i] \in OpOf
  BY <1>1, <1>2, StepTyped
<1>4. br.at \in {"going", "waiting"}
  BY DEF Turn
<1>5. failures' \in 0..MaxFailures
  BY DEF ReplayInv
<1> HIDE DEF e, br, i, x, d
<1>6. ASSUME NEW nb, NEW C, nb \in BranchOf, C \in [Names -> Nat],
             ExecInv(After(e, b, nb, C, e.steps)),
             executions' = [executions EXCEPT ![p] = After(e, b, nb, C, e.steps)],
             Orderly /\ p > 1 /\ nb.at = "flying" => nb.pc > Len(d.branch[b].got)
      PROVE  ReplayInv'
  <2> DEFINE f == After(e, b, nb, C, e.steps)
  <2>1. /\ f.steps = e.steps /\ f.branch[b] = nb
        /\ \A c \in Replay!Branches \ {b} : f.branch[c] = e.branch[c]
    BY <1>1, <1>2, <1>6, AfterFields
  <2>2. ExecInv(f) /\ executions' = [executions EXCEPT ![p] = f]
    BY <1>6
  <2> HIDE DEF f
  <2>3. DOMAIN executions[p].steps \subseteq DOMAIN f.steps
    BY <2>1 DEF e
  <2>4. Orderly /\ p > 1 => \A c \in Replay!Branches :
           f.branch[c].at = "flying" => f.branch[c].pc > Len(executions[p - 1].branch[c].got)
    <3>1. ASSUME Orderly, p > 1, NEW c \in Replay!Branches, f.branch[c].at = "flying"
          PROVE  f.branch[c].pc > Len(executions[p - 1].branch[c].got)
      <4>1. CASE c = b
        BY <1>6, <2>1, <3>1, <4>1 DEF d
      <4>2. CASE c # b
        BY <1>1, <2>1, <3>1, <4>2 DEF Follows, d
      <4> QED
        BY <4>1, <4>2
    <3> QED
      BY <3>1
  <2> QED
    BY <1>5, <2>2, <2>3, <2>4, WorkKeeps
<1>7. CASE i > Len(Ops(b))
  <2> DEFINE nb == [br EXCEPT !.at = "done"]
  <2>1. executions' = [executions EXCEPT ![p].branch[b].at = "done"]
    BY <1>7 DEF Replay!Perform, Ops, br, e, i
  <2>2. executions' = [executions EXCEPT ![p].branch[b] = nb]
    BY <2>1 DEF br, e
  <2>3. executions' = [executions EXCEPT ![p] = After(e, b, nb, e.counter, e.steps)]
    BY <1>1, <2>2, WriteBranch DEF e
  <2>4. nb \in BranchOf /\ nb.at = "done" /\ nb.pc = i /\ nb.got = br.got
    BY <1>2 DEF BranchOf, Ats, i
  <2> HIDE DEF nb
  <2>5. BranchInv(b, nb)
    BY <1>2, <1>3, <1>7, <2>4 DEF BranchInv, i
  <2>6. ~ IsStep(x)
    BY <1>2, <1>3, <1>7
  <2>7. ExecInv(After(e, b, nb, e.counter, e.steps))
    BY <1>1, <2>4, <2>5, <2>6, GateKeeps DEF x, i, br, e
  <2> QED
    BY <1>2, <1>6, <2>3, <2>4, <2>7
<1>8. CASE i <= Len(Ops(b)) /\ Ops(b)[i].kind = "gate"
  <2> DEFINE nb == Replay!GateOf(p, b, br, Ops(b)[i].name)
  <2>1. executions' = [executions EXCEPT ![p].branch[b] = nb]
    BY <1>2, <1>3, <1>8 DEF Replay!Perform, Ops, br, e, i
  <2>2. executions' = [executions EXCEPT ![p] = After(e, b, nb, e.counter, e.steps)]
    BY <1>1, <2>1, WriteBranch DEF e
  <2>3. ~ IsStep(x)
    BY <1>3, <1>8
  <2>4. \/ nb = [br EXCEPT !.at = "going", !.pc = @ + 1, !.got = Append(@, <<b, br.pc>>)]
        \/ nb = [br EXCEPT !.at = "suspended"]
    BY DEF Replay!GateOf
  <2> HIDE DEF nb
  <2>5. CASE nb = [br EXCEPT !.at = "going", !.pc = @ + 1, !.got = Append(@, <<b, br.pc>>)]
    <3>1. x \in Places
      BY <1>2, <1>3 DEF x, Places
    <3>2. nb \in BranchOf /\ nb.at = "going" /\ nb.pc = i + 1 /\ nb.got = Append(br.got, x)
      BY <1>2, <2>5, <3>1, Received DEF i, x
    <3>3. Len(br.got) = i - 1 /\ \A j \in 1..(i - 1) : br.got[j] = <<b, j>>
      BY <1>2 DEF BranchInv, i
    <3>4. Len(nb.got) = i /\ \A j \in 1..i : nb.got[j] = <<b, j>>
      BY <1>2, <3>2, <3>3 DEF x
    <3>5. BranchInv(b, nb)
      BY <1>2, <1>3, <1>8, <3>2, <3>4 DEF BranchInv
    <3>6. ExecInv(After(e, b, nb, e.counter, e.steps))
      BY <1>1, <2>3, <3>2, <3>5, GateKeeps DEF x, i, br, e
    <3> QED
      BY <1>2, <1>6, <2>2, <3>2, <3>6
  <2>6. CASE nb = [br EXCEPT !.at = "suspended"]
    <3>1. nb \in BranchOf /\ nb.at = "suspended" /\ nb.pc = i /\ nb.got = br.got
      BY <1>2, <2>6 DEF BranchOf, Ats, i
    <3>2. BranchInv(b, nb)
      BY <1>2, <1>3, <1>8, <2>3, <3>1 DEF BranchInv, i, x
    <3>3. ExecInv(After(e, b, nb, e.counter, e.steps))
      BY <1>1, <2>3, <3>1, <3>2, GateKeeps DEF x, i, br, e
    <3> QED
      BY <1>2, <1>6, <2>2, <3>1, <3>3
  <2> QED
    BY <2>4, <2>5, <2>6
<1>9. CASE i <= Len(Ops(b)) /\ Ops(b)[i].kind # "gate"
  <2> DEFINE n == body.ops[b][i].name
             k == Replay!KeyOf(p, n)
             nb == Replay!StepOf(p, br, k)
             C == [e.counter EXCEPT ![n] = @ + 1]
  <2>2. n = NameOf(x)
    BY DEF NameOf, x, Ops
  <2>1. IsStep(x) /\ n \in Names
    BY <1>2, <1>3, <1>9, <2>2 DEF OpOf
  <2>3. executions' = Counting(executions, p, b, nb, n)
    <3>1. ~ (executions[p].branch[b].pc > Len(body.ops[b]))
          /\ body.ops[b][executions[p].branch[b].pc].kind # "gate"
      BY <1>2, <1>3, <1>9 DEF Ops, br, e, i
    <3> QED
      BY <3>1, Zenon DEF Replay!Perform, br, e, i, Counting
  <2>4. executions' = [executions EXCEPT ![p] = After(e, b, nb, C, e.steps)]
    <3> HIDE DEF n, nb
    <3>1. executions \in Seq(Exec)
      BY <1>1
    <3>2. executions' = [executions EXCEPT ![p] =
            After(executions[p], b, nb, [executions[p].counter EXCEPT ![n] = @ + 1],
                  executions[p].steps)]
      BY <2>3, <3>1, WriteCounter, Zenon
    <3> QED
      BY <3>2 DEF e
  <2>5. k = KeyAt(x)
    BY <1>1, <2>1, <2>2, KeyIsAt DEF x, i, br, e, Replay!KeyOf
  <2>6. C \in [Names -> Nat]
    <3> HIDE DEF n
    <3> QED
      BY <1>2, <2>1
  <2>7. k \in Names \X Nat
    BY <1>2, <2>1 DEF Replay!KeyOf, e
  <2>8. \/ k \in DOMAIN e.steps /\ nb = [br EXCEPT !.at = "going", !.pc = @ + 1,
                                             !.got = Append(@, e.steps[k])]
        \/ k \notin DOMAIN e.steps /\ nb = [br EXCEPT !.at = "failed"]
        \/ k \notin DOMAIN e.steps /\ nb = [br EXCEPT !.at = "flying", !.key = k]
    BY DEF Replay!StepOf, e
  <2> HIDE DEF k, nb
  <2>9. ASSUME nb \in BranchOf, BranchInv(b, nb),
               \/ nb.at = "going" /\ nb.pc = i + 1 /\ k \in DOMAIN e.steps
               \/ nb.at \in {"flying", "failed"} /\ nb.pc = i /\ k \notin DOMAIN e.steps
        PROVE  ReplayInv'
    <3>1. ExecInv(After(e, b, nb, C, e.steps))
      BY <1>1, <2>1, <2>2, <2>5, <2>9, BeginKeepsExec DEF x, i, br, e
    <3>2. Orderly /\ p > 1 /\ nb.at = "flying" => nb.pc > Len(d.branch[b].got)
      <4>1. ASSUME Orderly, p > 1, nb.at = "flying" PROVE i > Len(d.branch[b].got)
        <5>1. ExecInv(d) /\ Follows(e, d) /\ IsStep(<<b, i>>) /\ KeyAt(<<b, i>>) \notin DOMAIN e.steps
          BY <1>1, <2>1, <2>5, <2>9, <4>1 DEF x
        <5> QED
          BY <1>2, <1>3, <5>1, Remembered
      <4> QED
        BY <2>9, <4>1
    <3> QED
      BY <1>6, <2>4, <2>6, <2>9, <3>1, <3>2
  <2>10. CASE k \in DOMAIN e.steps /\ nb = [br EXCEPT !.at = "going", !.pc = @ + 1,
                                                     !.got = Append(@, e.steps[k])]
    <3>1. e.steps[k] = x
      <4>1. PICK y \in Places : IsStep(y) /\ k = KeyAt(y) /\ e.steps[k] = y
        BY <1>1, <2>10 DEF ExecInv
      <4>2. x \in Nat \X Nat /\ BodyTyped
        BY <1>1, <1>2, <1>3, StepTyped DEF x
      <4> QED
        BY <2>1, <2>5, <4>1, <4>2, KeysDiffer DEF Places
    <3>2. x \in Places
      BY <1>2, <1>3 DEF x, Places
    <3>3. nb \in BranchOf /\ nb.at = "going" /\ nb.pc = i + 1 /\ nb.got = Append(br.got, x)
      BY <1>2, <2>10, <3>1, <3>2, Received DEF i
    <3>4. Len(br.got) = i - 1 /\ \A j \in 1..(i - 1) : br.got[j] = <<b, j>>
      BY <1>2 DEF BranchInv, i
    <3>5. Len(nb.got) = i /\ \A j \in 1..i : nb.got[j] = <<b, j>>
      BY <1>2, <3>3, <3>4 DEF x
    <3>6. BranchInv(b, nb)
      BY <1>2, <1>3, <1>9, <3>3, <3>5 DEF BranchInv
    <3> QED
      BY <2>9, <2>10, <3>3, <3>6
  <2>11. CASE k \notin DOMAIN e.steps /\ nb = [br EXCEPT !.at = "failed"]
    <3>1. nb \in BranchOf /\ nb.at = "failed" /\ nb.pc = i /\ nb.got = br.got
      BY <1>2, <2>11 DEF BranchOf, Ats, i
    <3>2. BranchInv(b, nb)
      BY <1>2, <1>3, <1>9, <2>1, <3>1 DEF BranchInv, i, x
    <3> QED
      BY <2>9, <2>11, <3>1, <3>2
  <2>12. CASE k \notin DOMAIN e.steps /\ nb = [br EXCEPT !.at = "flying", !.key = k]
    <3>1. nb \in BranchOf /\ nb.at = "flying" /\ nb.pc = i /\ nb.got = br.got /\ nb.key = k
      BY <1>2, <2>7, <2>12 DEF BranchOf, Ats, i
    <3>2. BranchInv(b, nb)
      BY <1>2, <1>3, <1>9, <2>1, <2>5, <3>1 DEF BranchInv, i, x
    <3> QED
      BY <2>9, <2>12, <3>1, <3>2
  <2> QED
    BY <2>8, <2>10, <2>11, <2>12
<1> QED
  BY <1>2, <1>3, <1>7, <1>8, <1>9

LEMMA ReplayCardinality == \A S : Replay!Cardinality(S) = Cardinality(S)
BY DEF Replay!Cardinality, Cardinality

\* A set of branches that counts less than one is empty.
LEMMA NoBranch ==
  ASSUME BodyTyped, NEW S \in SUBSET Replay!Branches
  PROVE  /\ IsFiniteSet(S) /\ Replay!Cardinality(S) \in Nat
         /\ Replay!Cardinality(S) = 0 <=> S = {}
<1>1. IsFiniteSet(Replay!Branches)
  <2> DEFINE m == Len(body.ops)
  <2>1. m \in Int /\ 1 \in Int /\ Replay!Branches = 1..m
    BY DEF BodyTyped, Replay!Branches
  <2> HIDE DEF m
  <2>2. IsFiniteSet(1..m)
    BY <2>1, FS_Interval
  <2> QED
    BY <2>1, <2>2
<1>2. IsFiniteSet(S)
  BY <1>1, FS_Subset
<1>3. Cardinality(S) \in Nat /\ (Cardinality(S) = 0 <=> S = {})
  BY <1>2, FS_CardinalityType, FS_EmptySet
<1> QED
  BY <1>2, <1>3, ReplayCardinality

LEMMA StartKeeps ==
  ASSUME ReplayInv, ReplayConstants, NEW p \in 1..Len(executions), Replay!Start(p)
  PROVE  ReplayInv'
<1> DEFINE e == executions[p]
           W == Replay!In(p, {"waiting"})
           b == CHOOSE x \in W : \A y \in W : x <= y
<1>1. /\ AlignedBody(body) /\ ExecInv(e) /\ e \in Exec /\ BodyTyped
  BY InReplay DEF AlignedBody, BodyTyped
<1>2. Replay!Startable(p) /\ Replay!Perform(p, b) /\ UNCHANGED <<body, status, token, failures>>
  BY DEF Replay!Start
<1>3. Replay!Branches \subseteq Nat
  BY <1>1 DEF BodyTyped, Replay!Branches
<1>4. W \subseteq Replay!Branches /\ W # {} /\ \A c \in Replay!Branches : c \in W <=> e.branch[c].at = "waiting"
  BY <1>2 DEF Replay!Startable, Replay!In
<1>5. b \in W /\ \A y \in W : b <= y
  <2> HIDE DEF W
  <2>1. \E x \in W : \A y \in W : x <= y
    <3>1. W \subseteq Nat /\ W # {}
      BY <1>3, <1>4
    <3>2. PICK x \in W : \A y \in W : ~ (<<y, x>> \in OpToRel(<, Nat))
      BY <3>1, NatLessThanWellFounded, WFMin
    <3>3. \A y \in W : ~ (y < x)
      BY <3>1, <3>2 DEF OpToRel
    <3> QED
      BY <3>1, <3>3
  <2> QED
    BY <2>1
<1> HIDE DEF b
<1>6. \A c \in Replay!Branches : c < b => e.branch[c].at # "waiting"
  <2> HIDE DEF W
  <2> QED
    BY <1>3, <1>4, <1>5
<1>7. \A c \in Replay!Branches : e.branch[c].at \in Ats
  BY <1>1 DEF ExecInv, Exec, BranchOf
<1>8. ASSUME body.lanes = 1
      PROVE  \A c \in Replay!Branches : e.branch[c].at \notin {"going", "flying", "suspended"}
  <2> DEFINE A == Replay!In(p, {"going", "flying", "suspended"})
  <2>1. A \subseteq Replay!Branches /\ Replay!Cardinality(A) < 1
    BY <1>2, <1>8 DEF Replay!In, Replay!Startable
  <2> HIDE DEF A
  <2>2. A = {}
    BY <1>1, <2>1, NoBranch
  <2> QED
    BY <2>2 DEF A, Replay!In
<1>9. ASSUME body.form = "map" PROVE \A c \in Replay!Branches : e.branch[c].at # "failed"
  BY <1>2, <1>9 DEF Replay!Startable, Replay!In
<1>10. Turn(e, b)
  BY <1>4, <1>5, <1>6, <1>7, <1>8, <1>9 DEF Turn, OneByOne, Ats
<1>11. ~ Replay!Quiet(p)
  BY <1>2 DEF Replay!Quiet
<1> QED
  BY <1>2, <1>4, <1>5, <1>10, <1>11, PerformKeeps

LEMMA ProceedKeeps ==
  ASSUME ReplayInv, ReplayConstants, NEW p \in 1..Len(executions),
         NEW b \in Replay!Branches, Replay!Proceed(p, b)
  PROVE  ReplayInv'
<1>1. b \in Replay!In(p, {"going"}) /\ Replay!Perform(p, b) /\ UNCHANGED <<body, status, token, failures>>
  BY DEF Replay!Proceed
<1>2. ~ Replay!Quiet(p) /\ Turn(executions[p], b)
  BY <1>1 DEF Replay!Quiet, Replay!In, Turn
<1> QED
  BY <1>1, <1>2, PerformKeeps

LEMMA ReturnStepKeeps ==
  ASSUME ReplayInv, ReplayConstants, NEW p \in 1..Len(executions),
         NEW b \in Replay!Branches, Replay!Return(p, b)
  PROVE  ReplayInv'
<1> DEFINE e == executions[p]
           br == e.branch[b]
           i == br.pc
           x == <<b, i>>
           nb == [br EXCEPT !.at = "going", !.pc = @ + 1, !.got = Append(@, <<b, br.pc>>)]
           S == [k \in DOMAIN e.steps \cup {br.key} |-> IF k = br.key THEN <<b, br.pc>> ELSE e.steps[k]]
           f == After(e, b, nb, e.counter, S)
<1>1. /\ AlignedBody(body) /\ ExecInv(e) /\ e \in Exec /\ executions \in Seq(Exec)
      /\ Orderly /\ p > 1 => Follows(e, executions[p - 1])
  BY InReplay
<1>2. /\ br \in BranchOf /\ BranchInv(b, br) /\ i \in Nat \ {0} /\ br.got \in Seq(Places)
      /\ e.counter \in [Names -> Nat] /\ e.steps \in Memos
  BY <1>1 DEF ExecInv, Exec, BranchOf
<1>3. b \in Nat /\ IsStep(x) => NameOf(x) \in Names
  BY <1>1, <1>2, StepTyped
<1>4. br.at = "flying" /\ ~ Replay!Quiet(p)
  BY DEF Replay!Return, Replay!In, Replay!Quiet
<1>5. executions' = Memoizing(executions, p, b, nb, S) /\ UNCHANGED <<body, status, token, failures>>
  BY Zenon DEF Replay!Return, Memoizing
<1>6. IsStep(x) /\ br.key = KeyAt(x) /\ i <= Len(Ops(b))
  <2>1. IsStep(x) /\ br.key = KeyAt(x)
    BY <1>2, <1>4 DEF BranchInv
  <2>2. Len(Ops(b)) \in Nat /\ (IsStep(<<b, i>>) => i \in 1..Len(Ops(b)))
    BY <1>1, <1>2, StepTyped
  <2> QED
    BY <1>2, <2>1, <2>2
<1>7. x \in Places
  BY <1>2, <1>1, StepTyped DEF Places
<1> HIDE DEF e, br, i
<1>8. S \in Memos
  <2>1. PICK K \in SUBSET (Names \X Nat) : e.steps \in [K -> Places]
    BY <1>2 DEF Memos
  <2>2. br.key \in Names \X Nat
    <3>1. Cardinality(Earlier(x)) \in Nat
      <4>1. BodyTyped
        BY <1>1 DEF AlignedBody, BodyTyped
      <4>2. IsFiniteSet(StepsOf(NameOf(x))) /\ Earlier(x) \subseteq StepsOf(NameOf(x))
        BY <4>1, FinitelyMany DEF Earlier
      <4>3. IsFiniteSet(Earlier(x))
        BY <4>2, FS_Subset
      <4> QED
        BY <4>3, FS_CardinalityType
    <3>2. NameOf(x) \in Names
      BY <1>1, <1>2, <1>6, StepTyped
    <3> HIDE DEF x
    <3> QED
      BY <1>6, <3>1, <3>2 DEF KeyAt
  <2> DEFINE L == K \cup {br.key}
  <2>3. L \in SUBSET (Names \X Nat)
    BY <2>1, <2>2
  <2>4. S \in [L -> Places]
    BY <1>7, <2>1 DEF i
  <2> QED
    BY <2>3, <2>4 DEF Memos
<1>9. executions' = [executions EXCEPT ![p] = f]
  <2> HIDE DEF nb, S
  <2> QED
    BY <1>1, <1>5, WriteSteps DEF e
<1>10. nb \in BranchOf /\ nb.at = "going" /\ nb.pc = i + 1 /\ nb.got = Append(br.got, x)
  BY <1>2, <1>7, Received DEF i
<1>11. Len(nb.got) = i /\ \A j \in 1..i : nb.got[j] = <<b, j>>
  <2>1. Len(br.got) = i - 1 /\ \A j \in 1..(i - 1) : br.got[j] = <<b, j>>
    BY <1>2 DEF BranchInv, i
  <2> QED
    BY <1>2, <1>10, <2>1
<1>12. BranchInv(b, nb)
  <2> HIDE DEF nb
  <2>1. Len(Ops(b)) \in Nat
    BY <1>1, StepTyped
  <2> QED
    BY <1>2, <1>6, <1>10, <1>11, <2>1 DEF BranchInv
<1>13. /\ DOMAIN S = DOMAIN e.steps \cup {br.key} /\ S[br.key] = x
       /\ \A k \in DOMAIN e.steps : k # br.key => S[k] = e.steps[k]
  BY DEF i
<1> HIDE DEF nb, S
<1>14. ExecInv(f)
  BY <1>1, <1>4, <1>8, <1>10, <1>12, <1>13, ReturnKeeps DEF br, i
<1>15. f.steps = S /\ f.branch[b] = nb /\ \A c \in Replay!Branches \ {b} : f.branch[c] = e.branch[c]
  <2>1. e \in Exec /\ nb \in BranchOf /\ e.counter \in [Names -> Nat] /\ S \in Memos
    BY <1>1, <1>2, <1>8, <1>10
  <2> QED
    BY <2>1, AfterFields
<1> HIDE DEF f
<1>16. DOMAIN e.steps \subseteq DOMAIN f.steps
  BY <1>13, <1>15
<1>17. Orderly /\ p > 1 => \A c \in Replay!Branches :
          f.branch[c].at = "flying" => f.branch[c].pc > Len(executions[p - 1].branch[c].got)
  BY <1>1, <1>10, <1>15 DEF Follows
<1>18. failures' \in 0..MaxFailures
  BY <1>5 DEF ReplayInv
<1> QED
  BY <1>4, <1>5, <1>9, <1>14, <1>16, <1>17, <1>18, WorkKeeps DEF e

LEMMA ThrowStepKeeps ==
  ASSUME ReplayInv, ReplayConstants, NEW p \in 1..Len(executions),
         NEW b \in Replay!Branches, Replay!Throw(p, b)
  PROVE  ReplayInv'
<1> DEFINE e == executions[p]
           br == e.branch[b]
           nb == [br EXCEPT !.at = "failed"]
           f == After(e, b, nb, e.counter, e.steps)
<1>1. /\ AlignedBody(body) /\ ExecInv(e) /\ e \in Exec /\ executions \in Seq(Exec)
      /\ Orderly /\ p > 1 => Follows(e, executions[p - 1])
  BY InReplay
<1>2. /\ br \in BranchOf /\ BranchInv(b, br) /\ br.tries \in Nat \ {0}
      /\ e.counter \in [Names -> Nat] /\ e.steps \in Memos
  BY <1>1 DEF ExecInv, Exec, BranchOf
<1>3. ~ (br.tries < body.attempts)
  BY <1>1, <1>2 DEF AlignedBody
<1>4. br.at = "flying" /\ ~ Replay!Quiet(p)
  BY DEF Replay!Throw, Replay!In, Replay!Quiet
<1>5. executions' = [executions EXCEPT ![p].branch[b] = nb] /\ UNCHANGED <<body, status, token>>
  BY <1>3, Zenon DEF Replay!Throw
<1>6. failures' \in 0..MaxFailures
  BY DEF Replay!Throw, ReplayInv, ReplayConstants
<1>7. executions' = [executions EXCEPT ![p] = f]
  <2> HIDE DEF nb
  <2> QED
    BY <1>1, <1>5, WriteBranch
<1>8. nb \in BranchOf /\ nb.at = "failed" /\ nb.pc = br.pc /\ nb.got = br.got
  BY <1>2 DEF BranchOf, Ats
<1> HIDE DEF e, br, nb
<1>9. BranchInv(b, nb)
  BY <1>2, <1>4, <1>8 DEF BranchInv
<1>10. ExecInv(f)
  BY <1>1, <1>4, <1>8, <1>9, ThrowKeeps DEF br
<1>11. f.steps = e.steps /\ f.branch[b] = nb /\ \A c \in Replay!Branches \ {b} : f.branch[c] = e.branch[c]
  BY <1>1, <1>2, <1>8, AfterFields
<1> HIDE DEF f
<1>12. Orderly /\ p > 1 => \A c \in Replay!Branches :
          f.branch[c].at = "flying" => f.branch[c].pc > Len(executions[p - 1].branch[c].got)
  BY <1>1, <1>8, <1>11 DEF Follows
<1> QED
  BY <1>4, <1>5, <1>6, <1>7, <1>10, <1>11, <1>12, WorkKeeps DEF e

\* An execution that begins with the memo of another.
LEMMA FreshHolds ==
  ASSUME AlignedBody(body), NEW S \in Memos, NEW D \in SUBSET Tokens,
         \A k \in DOMAIN S : \E x \in Places : IsStep(x) /\ k = KeyAt(x) /\ S[k] = x
  PROVE  /\ ExecInv(Replay!Fresh(body.ops, S, D))
         /\ Replay!Fresh(body.ops, S, D).steps = S
         /\ \A b \in Replay!Branches : Replay!Fresh(body.ops, S, D).branch[b].at = "waiting"
<1> DEFINE e == Replay!Fresh(body.ops, S, D)
           w == Replay!Waiting
<1>1. w \in BranchOf /\ w.at = "waiting" /\ w.pc = 1 /\ w.got = <<>>
  <2>1. <<>> \in Seq(Places)
    OBVIOUS
  <2> QED
    BY <2>1 DEF Replay!Waiting, BranchOf, Ats
<1>2. /\ e.steps = S /\ e.decided = D /\ e.counter = [n \in Names |-> 0]
      /\ e.branch = [b \in Replay!Branches |-> w]
      /\ e = [steps |-> S, decided |-> D, counter |-> [n \in Names |-> 0],
              branch |-> [b \in Replay!Branches |-> w]]
  BY DEF Replay!Fresh, Replay!Branches
<1> HIDE DEF w
<1>3. e \in Exec
  BY <1>1, <1>2 DEF Exec
<1> HIDE DEF e
<1>4. \A b \in Replay!Branches : e.branch[b] = w
  BY <1>2
<1>5. \A b \in Replay!Branches : BranchInv(b, w)
  <2>1. ASSUME NEW b \in Replay!Branches PROVE BranchInv(b, w)
    <3>1. Len(Ops(b)) \in Nat
      BY StepTyped
    <3> QED
      BY <1>1, <3>1 DEF BranchInv
  <2> QED
    BY <2>1
<1>6. Ordered(At(e))
  BY <1>1, <1>4 DEF Ordered, At
<1>7. \A n \in Names : e.counter[n] = Cardinality(Did(e, n))
  <2>1. ASSUME NEW n, NEW x \in StepsOf(n) PROVE ~ Began(e, x)
    <3>1. x[1] \in Replay!Branches /\ x[2] \in Nat /\ x[2] \in DOMAIN Ops(x[1])
      BY <2>1 DEF StepsOf, IsStep
    <3>2. x[2] >= 1
      BY <3>1, StepTyped
    <3> QED
      BY <1>1, <1>4, <3>1, <3>2 DEF Began, BegunBy
  <2>2. \A n : Did(e, n) = {}
    BY <2>1 DEF Did
  <2> QED
    BY <1>2, <2>2, FS_EmptySet
<1>8. ASSUME NEW x \in Places, IsStep(x) PROVE ~ (x[2] < e.branch[x[1]].pc)
  <2>1. x[1] \in Replay!Branches /\ x[2] \in Nat /\ x[2] \in DOMAIN Ops(x[1])
    BY <1>8 DEF Places, IsStep
  <2>2. x[2] >= 1
    BY <2>1, StepTyped
  <2> QED
    BY <1>1, <1>4, <2>1, <2>2
<1>9. ExecInv(e)
  BY <1>2, <1>3, <1>4, <1>5, <1>6, <1>7, <1>8 DEF ExecInv
<1> QED
  BY <1>1, <1>2, <1>4, <1>9 DEF e

LEMMA ReplayStarts == ASSUME ReplayConstants, Replay!Init PROVE ReplayInv
<1> DEFINE e == Replay!Fresh(body.ops, <<>>, {})
<1>1. AlignedBody(body)
  BY DEF ReplayConstants, Replay!Init
<1>2. <<>> \in Memos
  <2> DEFINE K == {}
  <2>1. K \in SUBSET (Names \X Nat) /\ <<>> \in [K -> Places]
    OBVIOUS
  <2> QED
    BY <2>1 DEF Memos
<1>3. ExecInv(e)
  BY <1>1, <1>2, FreshHolds
<1>4. executions = <<e>> /\ e \in Exec
  BY <1>3 DEF Replay!Init, ExecInv
<1> HIDE DEF e
<1>5. executions \in Seq(Exec) /\ Len(executions) = 1 /\ executions[1] = e
  BY <1>4
<1>6. /\ body \in Bodies /\ status = "running" /\ token = "none" /\ failures = 0
      /\ MaxExecutions \in Nat \ {0} /\ MaxFailures \in Nat
  BY DEF Replay!Init, ReplayConstants
<1>7. token \in Tokens
  BY <1>6 DEF Tokens
<1>8. 1 \in 1..MaxExecutions /\ 0 \in 0..MaxFailures
  BY <1>6
<1>9. \A p \in 1..Len(executions) : ExecInv(executions[p])
  BY <1>3, <1>5
<1>10. ~ \E p \in 1..(Len(executions) - 1) : TRUE
  BY <1>5
<1> QED
  BY <1>5, <1>6, <1>7, <1>8, <1>9, <1>10 DEF ReplayInv

\* The name of a gate is not "none".
LEMMA GateNamed ==
  ASSUME AlignedBody(body), NEW e, ExecInv(e), NEW b \in Replay!Branches,
         e.branch[b].at = "suspended"
  PROVE  body.ops[b][e.branch[b].pc].name \in Tokens \ {"none"}
<1> DEFINE i == e.branch[b].pc
<1>1. i \in Nat \ {0} /\ i <= Len(Ops(b)) /\ ~ IsStep(<<b, i>>)
  BY DEF ExecInv, Exec, BranchOf, BranchInv
<1>2. i \in 1..Len(Ops(b)) /\ Ops(b)[i] \in OpOf /\ Ops(b)[i].kind # "step"
  BY <1>1, StepTyped
<1> QED
  BY <1>2 DEF OpOf, Ops

LEMMA SuspendKeeps == ASSUME ReplayInv, ReplayConstants, Replay!Suspend PROVE ReplayInv'
<1> DEFINE n == Len(executions)
           e == executions[n]
<1>1. /\ status' = "suspended" /\ UNCHANGED <<body, executions, failures>>
      /\ token' \in IF Replay!Through(n) /\ Replay!Approval \notin e.decided
                    THEN {Replay!Approval} ELSE Replay!Thrown(n)
  BY DEF Replay!Suspend, Replay!Now
<1>2. n \in 1..n
  BY DEF ReplayInv
<1>3. /\ AlignedBody(body) /\ ExecInv(e) /\ e \in Exec /\ executions \in Seq(Exec) /\ BodyTyped
  BY <1>2, InReplay DEF AlignedBody, BodyTyped
<1>4. token' \in Tokens \ {"none"} /\ (Orderly => Replay!Quiet(n))
  <2>1. CASE Replay!Through(n) /\ token' = "approve"
    <3>1. \A b \in Replay!Branches : e.branch[b].at = "done"
      BY <2>1 DEF Replay!Through, Replay!In
    <3>2. Replay!Quiet(n)
      BY <3>1 DEF Replay!Quiet, Replay!Startable, Replay!In
    <3>3. "approve" \in Tokens \ {"none"}
      BY DEF Tokens
    <3> HIDE DEF n
    <3> QED
      BY <2>1, <3>2, <3>3
  <2>2. CASE token' \in Replay!Thrown(n)
    <3> DEFINE held == Replay!In(n, {"suspended"})
               gate(b) == body.ops[b][e.branch[b].pc].name
               first == CHOOSE b \in held : \A c \in held : b <= c
    <3>1. \A b \in held : b \in Replay!Branches /\ gate(b) \in Tokens \ {"none"}
      BY <1>3, GateNamed DEF Replay!In
    <3>2. CASE body.form = "all" /\ Replay!Quiet(n) /\ held # {}
      <4>1. token' = gate(first)
        BY <2>2, <3>2 DEF Replay!Thrown
      <4>2. first \in held
        <5> HIDE DEF held
        <5>1. held \subseteq Nat /\ held # {}
          BY <1>3, <3>1, <3>2 DEF BodyTyped, Replay!Branches
        <5>2. PICK x \in held : \A y \in held : ~ (<<y, x>> \in OpToRel(<, Nat))
          BY <5>1, NatLessThanWellFounded, WFMin
        <5>3. \A y \in held : ~ (y < x)
          BY <5>1, <5>2 DEF OpToRel
        <5>4. \A y \in held : x <= y
          BY <5>1, <5>3
        <5> QED
          BY <5>4
      <4> HIDE DEF held, first, gate
      <4> QED
        BY <3>1, <3>2, <4>1, <4>2
    <3>3. CASE body.form = "map"
      <4>1. PICK b \in held : token' = gate(b)
        BY <2>2, <3>3 DEF Replay!Thrown
      <4>2. ASSUME Orderly PROVE Replay!Quiet(n)
        <5>1. body.lanes = 1 /\ b \in Replay!Branches /\ e.branch[b].at = "suspended"
          BY <3>3, <4>2 DEF Orderly, Replay!In
        <5>2. \A c \in Replay!Branches : e.branch[c].at \notin {"going", "flying"}
          <6>1. ASSUME NEW c \in Replay!Branches, e.branch[c].at \in {"going", "flying"} PROVE FALSE
            <7>1. c \in Nat /\ b \in Nat /\ c # b
              BY <1>3, <5>1, <6>1 DEF BodyTyped, Replay!Branches
            <7>2. At(e)[b] = "suspended" /\ At(e)[c] \in {"going", "flying"}
              BY <5>1, <6>1 DEF At
            <7> QED
              BY <1>3, <5>1, <7>1, <7>2 DEF ExecInv, Ordered
          <6> QED
            BY <6>1
        <5>3. ~ Replay!Startable(n)
          <6> DEFINE A == Replay!In(n, {"going", "flying", "suspended"})
          <6>1. A \subseteq Replay!Branches /\ b \in A
            BY <5>1 DEF Replay!In
          <6> HIDE DEF A
          <6>2. ~ (Replay!Cardinality(A) < 1)
            BY <1>3, <6>1, NoBranch
          <6> QED
            BY <5>1, <6>2 DEF Replay!Startable, A
        <5> QED
          BY <5>2, <5>3 DEF Replay!Quiet, Replay!In
      <4> QED
        BY <3>1, <4>1, <4>2
    <3>4. CASE ~ (body.form = "all" /\ Replay!Quiet(n) /\ held # {}) /\ body.form # "map"
      BY <2>2, <3>4 DEF Replay!Thrown
    <3> QED
      BY <3>2, <3>3, <3>4
  <2> QED
    BY <1>1, <2>1, <2>2 DEF Replay!Approval
<1>5. \A p : Replay!Quiet(p)' <=> Replay!Quiet(p)
  BY <1>1, QuietStays
<1>6. \A p \in 1..n : ExecInv(executions[p])'
  BY <1>1, ExecStays DEF ReplayInv
<1>7. Exec' = Exec /\ (Orderly' <=> Orderly)
  BY <1>1 DEF Exec, Replay!Branches, Orderly
<1>8. Orderly => \A p \in 1..(n - 1) : Replay!Quiet(p)' /\ Follows(executions[p + 1], executions[p])'
  BY <1>1, <1>5 DEF ReplayInv, Follows, Replay!Branches
<1> QED
  BY <1>1, <1>4, <1>5, <1>6, <1>7, <1>8 DEF ReplayInv

LEMMA FinishKeeps == ASSUME ReplayInv, ReplayConstants, Replay!Finish PROVE ReplayInv'
<1> DEFINE n == Len(executions)
<1>1. /\ status = "running" /\ UNCHANGED <<body, token, executions, failures>>
      /\ \/ status' = "completed"
         \/ status' = "error" /\ Replay!Errs(n)
  BY DEF Replay!Finish, Replay!Now
<1>2. status' = "error" /\ body.form # "parallel" =>
        Replay!Quiet(n) /\ Replay!In(n, {"suspended"}) = {}
  BY <1>1 DEF Replay!Errs
<1>3. \A p : /\ Replay!Quiet(p)' <=> Replay!Quiet(p)
             /\ Replay!In(p, {"suspended"})' = Replay!In(p, {"suspended"})
  BY <1>1, QuietStays
<1>4. \A p \in 1..n : ExecInv(executions[p])'
  BY <1>1, ExecStays DEF ReplayInv
<1>5. Exec' = Exec /\ (Orderly' <=> Orderly)
  BY <1>1 DEF Exec, Replay!Branches, Orderly
<1>6. Orderly => \A p \in 1..(n - 1) : Replay!Quiet(p)' /\ Follows(executions[p + 1], executions[p])'
  BY <1>1, <1>3 DEF ReplayInv, Follows, Replay!Branches
<1> QED
  BY <1>1, <1>2, <1>3, <1>4, <1>5, <1>6 DEF ReplayInv

LEMMA ResumeKeeps == ASSUME ReplayInv, ReplayConstants, Replay!Resume PROVE ReplayInv'
<1> DEFINE n == Len(executions)
           e == executions[n]
           D == e.decided \cup {token}
           f == Replay!Fresh(body.ops, e.steps, D)
<1>1. /\ status = "suspended" /\ n < MaxExecutions /\ status' = "running" /\ token' = "none"
      /\ executions' = Append(executions, f) /\ UNCHANGED <<body, failures>>
  BY DEF Replay!Resume, Replay!Now
<1>2. n \in 1..n /\ n \in Nat /\ n >= 1 /\ MaxExecutions \in Nat
  BY DEF ReplayInv, ReplayConstants
<1>3. /\ AlignedBody(body) /\ ExecInv(e) /\ e \in Exec /\ executions \in Seq(Exec)
  BY <1>2, InReplay
<1>4. e.steps \in Memos /\ D \in SUBSET Tokens
  BY <1>3 DEF Exec, ReplayInv
<1>5. \A k \in DOMAIN e.steps : \E x \in Places : IsStep(x) /\ k = KeyAt(x) /\ e.steps[k] = x
  BY <1>3 DEF ExecInv
<1>6. /\ ExecInv(f) /\ f.steps = e.steps
      /\ \A b \in Replay!Branches : f.branch[b].at = "waiting"
  <2> HIDE DEF D
  <2>1. D \in SUBSET Tokens /\ e.steps \in Memos
    BY <1>4
  <2> QED
    BY <1>3, <1>5, <2>1, FreshHolds
<1> HIDE DEF f
<1>7. f \in Exec
  BY <1>6 DEF ExecInv
<1>8. /\ executions' \in Seq(Exec) /\ Len(executions') = n + 1 /\ executions'[n + 1] = f
      /\ \A p \in 1..n : executions'[p] = executions[p]
  BY <1>1, <1>3, <1>7
<1>9. \A p \in 1..(n + 1) : p \in 1..n \/ p = n + 1
  BY <1>2
<1>10. \A p \in 1..(n + 1) : ExecInv(executions[p])'
  <2>1. \A p \in 1..(n + 1) : ExecInv(executions'[p])
    BY <1>6, <1>8, <1>9 DEF ReplayInv
  <2> QED
    BY <1>1, <2>1, ExecStays
<1>11. \A p \in 1..n : Replay!Quiet(p)' <=> Replay!Quiet(p)
  BY <1>1, <1>8, QuietStays
<1>12. Exec' = Exec /\ (Orderly' <=> Orderly)
  BY <1>1 DEF Exec, Replay!Branches, Orderly
<1>13. ASSUME Orderly, NEW p \in 1..n
       PROVE  Replay!Quiet(p)' /\ Follows(executions[p + 1], executions[p])'
  <2>1. CASE p = n
    <3>1. Replay!Quiet(n)
      BY <1>1, <1>13 DEF ReplayInv
    <3>2. Replay!Quiet(p)'
      BY <1>2, <1>11, <2>1, <3>1
    <3>3. Follows(f, e)
      BY <1>6 DEF Follows
    <3>4. executions'[p + 1] = f /\ executions'[p] = e
      BY <1>2, <1>8, <2>1
    <3>5. Follows(executions'[p + 1], executions'[p])
      BY <3>3, <3>4
    <3> QED
      BY <1>1, <3>2, <3>5 DEF Follows, Replay!Branches
  <2>2. CASE p # n
    <3>1. p \in 1..(n - 1) /\ p + 1 \in 1..n
      BY <1>2, <2>2
    <3>2. Replay!Quiet(p) /\ Follows(executions[p + 1], executions[p])
      BY <1>13, <3>1 DEF ReplayInv
    <3>3. Follows(executions'[p + 1], executions'[p])
      BY <1>8, <3>1, <3>2
    <3> QED
      BY <1>1, <1>11, <3>2, <3>3 DEF Follows, Replay!Branches
  <2> QED
    BY <2>1, <2>2
<1>14. Len(executions') \in 1..MaxExecutions /\ Len(executions') - 1 = n
  BY <1>1, <1>2, <1>8
<1>15. "none" \in Tokens
  BY DEF Tokens
<1>16. /\ body' \in Bodies /\ failures' \in 0..MaxFailures
  BY <1>1 DEF ReplayInv
<1> HIDE DEF n, e
<1> QED
  BY <1>1, <1>8, <1>10, <1>12, <1>13, <1>14, <1>15, <1>16 DEF ReplayInv

LEMMA ReplayStep == ASSUME ReplayInv, ReplayConstants, Replay!Next PROVE ReplayInv'
<1>1. DOMAIN executions = 1..Len(executions)
  BY DEF ReplayInv
<1> QED
  BY <1>1, StartKeeps, ProceedKeeps, ReturnStepKeeps, ThrowStepKeeps, SuspendKeeps, FinishKeeps,
     ResumeKeeps DEF Replay!Next

LEMMA ReplayHolds ==
  ASSUME ReplayInv, ReplayConstants
  PROVE  /\ Replay!TypeOK
         /\ Replay!Faithful /\ Replay!NotReinvoked /\ Replay!SuspensionSurvives
<1>1. DOMAIN executions = 1..Len(executions) /\ Len(executions) \in Nat /\ Replay!Now = Len(executions)
  BY DEF ReplayInv, Replay!Now
<1>2. \A p \in 1..Len(executions) : \A b \in Replay!Branches :
        /\ executions[p].branch[b] \in BranchOf
        /\ BranchInv(b, executions[p].branch[b])
  BY DEF ReplayInv, ExecInv, Exec
<1>3. \A p \in 1..Len(executions) : \A b \in Replay!Branches :
        /\ executions[p].branch[b].at \in Ats /\ executions[p].branch[b].pc \in Nat
        /\ executions[p].branch[b].got \in Seq(Places)
        /\ Len(executions[p].branch[b].got) = executions[p].branch[b].pc - 1
        /\ \A i \in 1..(executions[p].branch[b].pc - 1) : executions[p].branch[b].got[i] = <<b, i>>
  <2> TAKE p \in 1..Len(executions)
  <2> TAKE b \in Replay!Branches
  <2> DEFINE br == executions[p].branch[b]
  <2>1. br \in BranchOf /\ BranchInv(b, br)
    BY <1>2
  <2> HIDE DEF br
  <2>2. /\ br.at \in Ats /\ br.pc \in Nat /\ br.got \in Seq(Places)
        /\ Len(br.got) = br.pc - 1 /\ \A i \in 1..(br.pc - 1) : br.got[i] = <<b, i>>
    BY <2>1 DEF BranchOf, BranchInv
  <2> QED
    BY <2>2 DEF br
<1>4. Replay!TypeOK
  BY <1>1, <1>3 DEF ReplayInv, Replay!TypeOK, Ats
<1>5. Replay!Faithful
  <2> SUFFICES ASSUME NEW p \in 1..Len(executions), NEW b \in Replay!Branches,
                      NEW i \in DOMAIN executions[p].branch[b].got
               PROVE  executions[p].branch[b].got[i] = <<b, i>>
    BY <1>1 DEF Replay!Faithful
  <2> DEFINE br == executions[p].branch[b]
  <2>1. /\ br.pc \in Nat /\ br.got \in Seq(Places) /\ Len(br.got) = br.pc - 1
        /\ \A j \in 1..(br.pc - 1) : br.got[j] = <<b, j>>
    BY <1>3
  <2> HIDE DEF br
  <2>2. DOMAIN br.got = 1..(br.pc - 1)
    BY <2>1
  <2> QED
    BY <2>1, <2>2 DEF br
<1>6. Replay!NotReinvoked
  <2> SUFFICES ASSUME Orderly, NEW p \in 2..Len(executions), NEW b \in Replay!Branches,
                      executions[p].branch[b].at = "flying"
               PROVE  executions[p].branch[b].pc > Len(executions[p - 1].branch[b].got)
    BY <1>1 DEF Replay!NotReinvoked, Orderly
  <2>1. p \in 1..Len(executions) /\ p > 1
    BY <1>1
  <2>2. Follows(executions[p], executions[p - 1])
    BY <2>1, InReplay
  <2> QED
    BY <2>2 DEF Follows
<1>7. Replay!SuspensionSurvives
  BY <1>1 DEF ReplayInv, Replay!SuspensionSurvives
<1> QED
  BY <1>4, <1>5, <1>6, <1>7

-----------------------------------------------------------------------------
(* The server.                                                               *)

ServerConstants == TaskConstants /\ BatchConstants /\ ReplayConstants

\* What holds of the system at work.
ServerInv ==
  /\ scene = "runs" => RunsInv
  /\ scene = "tasks" => TasksInv
  /\ scene = "batch" => BatchInv
  /\ scene = "passes" => PassesInv
  /\ scene = "replay" => ReplayInv

LEMMA ServerStarts == ASSUME ServerConstants, Init PROVE ServerInv
<1>1. Runs!Init /\ Tasks!Init /\ Batch!Init /\ Passes!Init
      /\ (scene = "replay" => Replay!Init)
  BY DEF Init
<1>2. RunsInv
  BY <1>1 DEF Runs!Init, RunsInv, Runs!TypeOK, Runs!NoEntry, Runs!Statuses, Runs!Terminals, Live
<1>3. TasksInv
  <2>1. Tasks!Absent \in [reg : 0..MaxAdds, left : 0..Period, inFlight : BOOLEAN]
        /\ Tasks!Absent.reg = 0
    BY DEF Tasks!Absent, ServerConstants, TaskConstants
  <2>2. \A i \in Ids : tasks[i] = Tasks!Absent
    BY <1>1 DEF Tasks!Init
  <2>3. /\ tasks \in [Ids -> [reg : 0..MaxAdds, left : 0..Period, inFlight : BOOLEAN]]
        /\ started = FALSE /\ phase \in 0..(Period - 1) /\ flying = {} /\ fires = 0 /\ adds = 0
    BY <1>1, <2>1 DEF Tasks!Init
  <2>4. adds \in 0..MaxAdds
    BY <2>3 DEF ServerConstants, TaskConstants
  <2>5. flying \subseteq [id : Ids, reg : 1..MaxAdds, fire : {0, 1}] /\ started \in BOOLEAN
    BY <2>3
  <2>6. Tasks!TypeOK
    BY <2>3, <2>4, <2>5 DEF Tasks!TypeOK
  <2>7. \A i \in Ids : tasks[i].reg <= adds
    BY <2>1, <2>2, <2>3
  <2>8. fires \in {0, 1} /\ ~ \E f \in flying : TRUE
    BY <2>3
  <2> QED
    BY <2>6, <2>7, <2>8 DEF TasksInv, Tasks!NoOverlap
<1>4. BatchInv
  <2>1. Batch!Ready \in LaneState /\ Batch!Ready.is # "busy" /\ Batch!Ready # Batch!Ended
    BY DEF Batch!Ready, Batch!Ended, LaneState, ServerConstants, BatchConstants
  <2>2. /\ lane \in [Lanes -> LaneState] /\ \A l \in Lanes : lane[l] = Batch!Ready
        /\ nextIndex = 0 /\ results = <<>> /\ reported = <<>> /\ inline = Batch!Zero
        /\ outcome = "pending" /\ Count \in Nat
    BY <1>1, <2>1 DEF Batch!Init, ServerConstants, BatchConstants
  <2>3. results \in Seq(ItemResult) /\ reported \in Seq(1..Count) /\ Len(results) = 0
        /\ Len(reported) = 0
    BY <2>2
  <2>4. inline \in [success : Nat, error : Nat] /\ Tally = 0
    BY <2>2 DEF Batch!Zero, Tally
  <2>5. Batch!TypeOK
    BY <2>2, <2>3 DEF Batch!TypeOK, LaneState, ItemResult
  <2>6. \A l \in Lanes, k \in 0..Count : ~ BusyWith(l, k)
    BY <2>1, <2>2 DEF BusyWith
  <2>7. ~ \E k \in 1..nextIndex : TRUE
    BY <2>2
  <2>8. ~ \E i \in DOMAIN reported : TRUE
    BY <2>2
  <2>9. ~ \E l \in Lanes : lane[l] = Batch!Ended
    BY <2>1, <2>2
  <2> QED
    BY <2>2, <2>3, <2>4, <2>5, <2>6, <2>7, <2>8, <2>9 DEF BatchInv
<1>5. PassesInv
  BY <1>1 DEF Passes!Init, PassesInv, Passes!TypeOK, Passes!SingleFlight
<1> QED
  BY <1>1, <1>2, <1>3, <1>4, <1>5, ReplayStarts DEF ServerInv, ServerConstants

LEMMA ServerStutters ==
  ASSUME ServerInv, UNCHANGED <<scene, rvars, tvars, nvars, cvars, wvars>>
  PROVE  ServerInv'
<1>1. RunsInv => RunsInv'
  BY DEF rvars, RunsInv, Runs!TypeOK
<1>2. TasksInv => TasksInv'
  BY DEF tvars, TasksInv, Tasks!TypeOK, Tasks!NoOverlap
<1>3. BatchInv => BatchInv'
  BY DEF nvars, BatchInv, Batch!TypeOK, BusyWith, Tally, Batch!AllEnded
<1>4. PassesInv => PassesInv'
  BY DEF cvars, PassesInv, Passes!TypeOK, Passes!SingleFlight
<1>5. ASSUME ReplayInv PROVE ReplayInv'
  <2>1. UNCHANGED <<body, status, token, executions, failures>>
    BY DEF wvars
  <2>2. \A p : /\ Replay!Quiet(p)' <=> Replay!Quiet(p)
               /\ Replay!In(p, {"suspended"})' = Replay!In(p, {"suspended"})
    BY <2>1, QuietStays
  <2>3. \A p \in 1..Len(executions) : ExecInv(executions[p])'
    BY <1>5, <2>1, ExecStays DEF ReplayInv
  <2>4. Exec' = Exec /\ (Orderly' <=> Orderly)
    BY <2>1 DEF Exec, Replay!Branches, Orderly
  <2>5. Orderly => \A p \in 1..(Len(executions) - 1) :
           Replay!Quiet(p)' /\ Follows(executions[p + 1], executions[p])'
    BY <1>5, <2>1, <2>2 DEF ReplayInv, Follows, Replay!Branches
  <2> QED
    BY <1>5, <2>1, <2>2, <2>3, <2>4, <2>5 DEF ReplayInv
<1> QED
  BY <1>1, <1>2, <1>3, <1>4, <1>5 DEF ServerInv

LEMMA ServerStep ==
  ASSUME ServerInv, ServerConstants, [Next]_<<scene, rvars, tvars, nvars, cvars, wvars>>
  PROVE  ServerInv'
<1>1. CASE UNCHANGED <<scene, rvars, tvars, nvars, cvars, wvars>>
  BY <1>1, ServerStutters
<1>2. CASE OnRuns
  BY <1>2, RunsStep DEF OnRuns, ServerInv
<1>3. CASE OnTasks
  BY <1>3, TasksStep DEF OnTasks, ServerInv, ServerConstants
<1>4. CASE OnBatch
  BY <1>4, BatchStep DEF OnBatch, ServerInv, ServerConstants
<1>5. CASE OnPasses
  BY <1>5, PassesStep DEF OnPasses, ServerInv
<1>6. CASE OnReplay
  BY <1>6, ReplayStep DEF OnReplay, ServerInv, ServerConstants
<1> QED
  BY <1>1, <1>2, <1>3, <1>4, <1>5, <1>6 DEF Next

LEMMA ServerAlways == ASSUME ServerConstants PROVE FairSpec => []ServerInv
<1>1. Init => ServerInv
  BY ServerStarts
<1>2. ServerInv /\ [Next]_<<scene, rvars, tvars, nvars, cvars, wvars>> => ServerInv'
  BY ServerStep
<1> QED
  BY <1>1, <1>2, PTL DEF FairSpec

\* Every variable of the system at work has its type, whatever the requests, the
\* tasks, the lanes, the scopes and the aligned bodies are.
THEOREM ServerTypes == ASSUME ServerConstants PROVE FairSpec => []TypeOK
<1>1. ServerInv => TypeOK
  BY ReplayHolds DEF ServerInv, ServerConstants, TypeOK, RunsInv, TasksInv, BatchInv, PassesInv
<1> QED
  BY <1>1, ServerAlways, PTL

\* A task (TaskScheduler.addTask, the loop of the scheduler) has one callback in
\* flight per registration, and a scope one scheduled maintenance pass
\* (ConsolidationScheduler.schedule).
THEOREM NothingOverlaps == ASSUME ServerConstants PROVE FairSpec => []NoOverlap
<1>1. ServerInv => NoOverlap
  BY DEF ServerInv, NoOverlap, TasksInv, PassesInv
<1> QED
  BY <1>1, ServerAlways, PTL

\* The reservation of an asynchronous run is settled exactly once, and a batch
\* that resolves has an account of every item it handed to a lane.
THEOREM SlotsComeBack == ASSUME ServerConstants PROVE FairSpec => []SlotsReturnOnce
<1>1. ServerInv => SlotsReturnOnce
  <2>1. RunsInv => Runs!SlotsReturnOnce
    BY DEF RunsInv, Runs!TypeOK, Runs!SlotsReturnOnce, Live
  <2> QED
    BY <2>1, BatchAccounts DEF ServerInv, ServerConstants, SlotsReturnOnce
<1> QED
  BY <1>1, ServerAlways, PTL

\* A run that is visible to polls stays so, and the outcome that a poll has seen
\* stays its outcome until it is evicted.
THEOREM OutcomesStay == ASSUME ServerConstants PROVE FairSpec => OutcomeStays
<1>1. ServerInv /\ [Next]_<<scene, rvars, tvars, nvars, cvars, wvars>> =>
        [\A r \in Runs!Registered :
           \/ entry'[r] = entry[r]
           \/ entry[r] = "running" /\ entry'[r] \in Runs!Terminals \cup {"timed_out"}
           \/ entry[r] # "running" /\ entry'[r] = Runs!NoEntry]_rvars
  <2> SUFFICES ASSUME ServerInv, [Next]_<<scene, rvars, tvars, nvars, cvars, wvars>>, rvars' # rvars
               PROVE  \A r \in Runs!Registered :
                        \/ entry'[r] = entry[r]
                        \/ entry[r] = "running" /\ entry'[r] \in Runs!Terminals \cup {"timed_out"}
                        \/ entry[r] # "running" /\ entry'[r] = Runs!NoEntry
    OBVIOUS
  <2>1. OnRuns
    BY DEF Next, OnTasks, OnBatch, OnPasses, OnReplay
  <2> QED
    BY <2>1, RunsStep DEF OnRuns, ServerInv, Kept, Left, Evicted, Runs!NoEntry
<1> QED
  BY <1>1, ServerAlways, PTL DEF FairSpec, OutcomeStays, Runs!OutcomeStays, Runs!rvars, rvars

\* When the branches of a body reach the steps of one name in one order and
\* nothing is retried, a replay hands every branch its own results, a resume
\* invokes nothing that had its result, and a suspension is not lost to an error
\* (ReplayController, createAll, map).
THEOREM ReplaysAreFaithful == ASSUME ServerConstants PROVE FairSpec => []ReplayFaithful
<1>1. ServerInv => ReplayFaithful
  BY ReplayHolds DEF ServerInv, ServerConstants, ReplayFaithful
<1> QED
  BY <1>1, ServerAlways, PTL
=============================================================================
