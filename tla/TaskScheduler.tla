---------------------------- MODULE TaskScheduler ----------------------------
(***************************************************************************)
(* Scheduler (packages/server/src/scheduler.ts): callbacks fired by a      *)
(* periodic tick, at an interval or by a cron expression.  Of the clock    *)
(* only the time left until a task is due is kept, and the phase of the    *)
(* cron expression.                                                        *)
(***************************************************************************)
EXTENDS Integers, FiniteSets

CONSTANTS
  Ids,
  Cron,        \* ids with a cron schedule, the others have an interval
  Period,      \* length of every interval and cron period
  MaxAdds      \* bound on registrations

VARIABLES
  started,     \* the tick loop is on
  tasks,       \* TaskState of each registered id
  phase,       \* time since the last minute that the cron expression names
  flying,      \* callbacks executing
  fires,       \* fires so far, modulo 2: tells two callbacks apart
  adds         \* registrations so far

tvars == <<started, tasks, phase, flying, fires, adds>>

Absent == [reg |-> 0, left |-> 0, inFlight |-> FALSE]
Registered == {i \in Ids : tasks[i] # Absent}

Init ==
  /\ started = FALSE
  /\ tasks = [i \in Ids |-> Absent]
  /\ phase \in 0..(Period - 1)
  /\ flying = {}
  /\ fires = 0
  /\ adds = 0

Start == ~ started /\ started' = TRUE /\ UNCHANGED <<tasks, phase, flying, fires, adds>>
Stop == started /\ started' = FALSE /\ UNCHANGED <<tasks, phase, flying, fires, adds>>

\* The faulty variant counts from the minute after.
UntilNextLate(i) == IF i \in Cron THEN Period + 1 - phase ELSE Period

\* lastFiredAt + everyMs, or the next time that the expression names.
UntilNext(i) == IF i \in Cron THEN Period - phase ELSE Period

\* add replaces the state of a task with the same id.
Add(i) ==
  /\ adds < MaxAdds /\ adds' = adds + 1
  /\ tasks' = [tasks EXCEPT ![i] =
                 [reg |-> adds + 1, left |-> UntilNext(i), inFlight |-> FALSE]]
  /\ UNCHANGED <<started, phase, flying, fires>>

Remove(i) ==
  /\ i \in Registered
  /\ tasks' = [tasks EXCEPT ![i] = Absent]
  /\ UNCHANGED <<started, phase, flying, fires, adds>>

\* Time passes, from the first registration on.
Wait ==
  /\ adds > 0
  /\ phase' = (phase + 1) % Period
  /\ tasks' = [i \in Ids |-> IF tasks[i].left > 0
                             THEN [tasks[i] EXCEPT !.left = @ - 1] ELSE tasks[i]]
  /\ UNCHANGED <<started, flying, fires, adds>>

IsDue(i) == i \in Registered /\ tasks[i].left = 0

\* The faulty variant takes no notice of the previous run.
MayFireAnyway(i) == IsDue(i)

MayFire(i) == IsDue(i) /\ ~ tasks[i].inFlight

Tick ==
  /\ started
  /\ \E i \in Ids : MayFire(i)
  /\ tasks' = [i \in Ids |->
                 IF MayFire(i) THEN [tasks[i] EXCEPT !.left = UntilNext(i), !.inFlight = TRUE]
                 ELSE tasks[i]]
  /\ flying' = flying \cup {[id |-> i, reg |-> tasks[i].reg, fire |-> fires] :
                            i \in {j \in Ids : MayFire(j)}}
  /\ fires' = 1 - fires
  /\ UNCHANGED <<started, phase, adds>>

\* The finally block frees the state the callback was fired from.
Free(f, fails) == tasks[f.id].reg = f.reg

Finish(f) ==
  /\ \E fails \in BOOLEAN :
       tasks' = IF Free(f, fails) THEN [tasks EXCEPT ![f.id].inFlight = FALSE] ELSE tasks
  /\ flying' = flying \ {f}
  /\ UNCHANGED <<started, phase, fires, adds>>

Next ==
  \/ Start \/ Stop \/ Wait \/ Tick
  \/ \E i \in Ids : Add(i) \/ Remove(i)
  \/ \E f \in flying : Finish(f)

\* Time goes on, the timer of the loop fires, callbacks come to an end.
Ends(i) == \E f \in {g \in flying : g.id = i} : Finish(f)
Fairness == WF_tvars(Wait) /\ WF_tvars(Tick) /\ \A i \in Ids : WF_tvars(Ends(i))

FairSpec == Init /\ [][Next]_tvars /\ Fairness

-----------------------------------------------------------------------------
\* Every variable has its type.
TypeOK ==
  /\ started \in BOOLEAN
  /\ tasks \in [Ids -> [reg : 0..MaxAdds, left : 0..Period, inFlight : BOOLEAN]]
  /\ phase \in 0..(Period - 1)
  /\ flying \subseteq [id : Ids, reg : 1..MaxAdds, fire : {0, 1}]
  /\ adds \in 0..MaxAdds

\* A callback does not overlap with itself: two runs of one id belong to two
\* registrations.
NoOverlap ==
  \A f, g \in flying : f.id = g.id /\ f.reg = g.reg => f = g

\* As long as a task stays registered and the loop is on, it fires.
Stays(i, n) == started /\ tasks[i].reg = n
EveryTaskFires ==
  \A i \in Ids, n \in 1..MaxAdds :
    Stays(i, n) ~> (~ Stays(i, n) \/ \E f \in flying : f.id = i /\ f.reg = n)
=============================================================================
