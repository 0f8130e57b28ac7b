----------------------------- MODULE TaskServer -----------------------------
(***************************************************************************)
(* message/send of the agent-to-agent server (packages/a2a/src/server.ts): *)
(* a request runs the agent while at most MaxRuns runs are in progress,    *)
(* waits no longer than the timer, and stores its task among the last      *)
(* MaxTasks, with the caller that its context belongs to.                  *)
(***************************************************************************)
EXTENDS Integers, Sequences, FiniteSets, Functions

CONSTANTS
  Requests,  \* requests, numbered as they are sent
  Users, Contexts,
  MaxRuns, MaxTasks

VARIABLES
  sent,       \* what each request that has no answer asked
  run,        \* its run of the agent
  released,   \* the runs whose place was given back
  handler,    \* the handler that waits for the run or for the timer
  active,     \* the runs that are counted
  taskStore,  \* the stored tasks, oldest first
  owners      \* contextOwners

avars == <<sent, run, released, handler, active, taskStore, owners>>

Nobody == "nobody"
Unknown == [user |-> Nobody, context |-> Nobody]

Init ==
  /\ sent = [r \in Requests |-> Unknown]
  /\ run = [r \in Requests |-> "none"]
  /\ handler = [r \in Requests |-> "none"]
  /\ released = {}
  /\ active = 0
  /\ taskStore = <<>>
  /\ owners = [c \in Contexts |-> Nobody]

-----------------------------------------------------------------------------
\* A context that belongs to somebody else is not found.
MayUse(u, c) == owners[c] \in {Nobody, u}

Send(r) ==
  /\ handler[r] = "none" /\ \A q \in Requests : q < r => handler[q] # "none"
  /\ \E u \in Users, c \in Contexts :
       /\ MayUse(u, c)
       /\ sent' = [sent EXCEPT ![r] = [user |-> u, context |-> c]]
  /\ active < MaxRuns
  /\ active' = active + 1
  /\ run' = [run EXCEPT ![r] = "going"]
  /\ handler' = [handler EXCEPT ![r] = "waiting"]
  /\ UNCHANGED <<released, taskStore, owners>>

\* The run of the agent settles, in time or long after its handler has left.
Settle(r) ==
  /\ run[r] = "going"
  /\ \E end \in {"done", "failed"} : run' = [run EXCEPT ![r] = end]
  /\ UNCHANGED <<sent, released, handler, active, taskStore, owners>>

\* The faulty variant gives the place back when the handler has answered.
HandlerLeft(r) == handler[r] = "answered"

RunSettled(r) == run[r] \in {"done", "failed"}

\* finally() of the run gives its place back.
Release(r) ==
  /\ RunSettled(r) /\ r \notin released
  /\ released' = released \cup {r}
  /\ active' = active - 1
  /\ UNCHANGED <<sent, run, handler, taskStore, owners>>

\* The timer answers for a run that goes on.
Expire(r) ==
  /\ handler[r] = "waiting" /\ run[r] = "going"
  /\ handler' = [handler EXCEPT ![r] = "answered"]
  /\ sent' = [sent EXCEPT ![r] = Unknown]
  /\ UNCHANGED <<run, released, active, taskStore, owners>>

-----------------------------------------------------------------------------
\* The faulty variant forgets the context with any of its tasks.
DroppedOwner(c, tasks) == [owners EXCEPT ![c] = Nobody]

\* A context without a task belongs to nobody.
OwnerAfter(c, tasks) ==
  IF \E i \in DOMAIN tasks : tasks[i].context = c THEN owners
  ELSE [owners EXCEPT ![c] = Nobody]

\* Every stored task is a completed one, so the oldest goes.
Room == IF Len(taskStore) < MaxTasks THEN taskStore ELSE Tail(taskStore)
OwnersWithRoom ==
  IF Len(taskStore) < MaxTasks THEN owners
  ELSE OwnerAfter(Head(taskStore).context, Room)

\* The handler comes back with the outcome, before or after the place was
\* given back.
Answer(r) ==
  /\ handler[r] = "waiting" /\ run[r] \in {"done", "failed"}
  /\ handler' = [handler EXCEPT ![r] = "answered"]
  /\ sent' = [sent EXCEPT ![r] = Unknown]
  /\ IF run[r] = "done"
     THEN /\ taskStore' = Append(Room, sent[r])
          /\ owners' = [OwnersWithRoom EXCEPT ![sent[r].context] = sent[r].user]
     ELSE UNCHANGED <<taskStore, owners>>
  /\ UNCHANGED <<run, released, active>>

Next ==
  \E r \in Requests : Send(r) \/ Settle(r) \/ Release(r) \/ Expire(r) \/ Answer(r)

Spec == Init /\ [][Next]_avars

-----------------------------------------------------------------------------
\* Every variable has its type.
TypeOK ==
  /\ active \in 0..MaxRuns
  /\ Len(taskStore) <= MaxTasks
  /\ owners \in [Contexts -> Users \cup {Nobody}]

\* However many handlers have given up, no more runs of the agent are in
\* progress than the option says.
RunsAreBounded == Cardinality({r \in Requests : run[r] = "going"}) <= MaxRuns

\* A context belongs to somebody as long as one of its tasks is stored, to one
\* of those whose task it is, and to nobody afterwards.
OwnersFollowTasks ==
  \A c \in Contexts :
    LET users == {t.user : t \in {x \in Range(taskStore) : x.context = c}}
    IN IF users = {} THEN owners[c] = Nobody ELSE owners[c] \in users
=============================================================================
