---------------------------- MODULE AsyncRunHook ----------------------------
(***************************************************************************)
(* useAsyncRun (packages/react/src/useAsyncRun.ts): start() aborts the run *)
(* before it, creates a run and polls its status until it is terminal, the *)
(* signal is aborted or maxPollMs has passed.                              *)
(***************************************************************************)
EXTENDS Integers

CONSTANTS
  MaxStarts,  \* bound on calls of start()
  HasLimit    \* maxPollMs is given

VARIABLES
  current,    \* the start whose controller pollAbortRef holds, and 0
  newest,     \* the last start
  at,         \* where each start is
  aborted,    \* its signal
  armed,      \* its maxPollMs timer
  shown,      \* the status, and the start it was set for
  isPolling,
  mounted

uvars == <<current, newest, at, aborted, armed, shown, isPolling, mounted>>

Starts == 1..MaxStarts
Terminal == {"completed", "failed", "aborted"}

Init ==
  /\ current = 0 /\ newest = 0
  /\ at = [s \in Starts |-> "none"]
  /\ aborted = [s \in Starts |-> FALSE]
  /\ armed = [s \in Starts |-> FALSE]
  /\ shown = [status |-> "idle", by |-> 0]
  /\ isPolling = FALSE /\ mounted = TRUE

-----------------------------------------------------------------------------
\* The faulty variant lets the run before go on.
LetGo == aborted

\* Whatever runs is told to stop.
Abort == [s \in Starts |-> aborted[s] \/ s = current]

Start ==
  /\ mounted /\ newest < MaxStarts
  /\ newest' = newest + 1 /\ current' = newest + 1
  /\ aborted' = Abort
  /\ at' = [at EXCEPT ![newest + 1] = "creating"]
  /\ shown' = [status |-> "running", by |-> newest + 1]
  /\ isPolling' = FALSE
  /\ UNCHANGED <<armed, mounted>>

\* An abort rejects what awaits the signal before anything else arrives.
Pending(s) == aborted[s] /\ at[s] \in {"creating", "asking", "sleeping"}
Arrives(s) == \A t \in Starts : ~ Pending(t)

\* The run is created: polling begins, and the timer is armed only now.
Created(s) ==
  /\ at[s] = "creating" /\ Arrives(s)
  /\ at' = [at EXCEPT ![s] = "asking"]
  /\ armed' = [armed EXCEPT ![s] = HasLimit]
  /\ isPolling' = TRUE
  /\ UNCHANGED <<current, newest, aborted, shown, mounted>>

\* start() throws, and the status is left as it is.
NotCreated(s) ==
  /\ at[s] = "creating"
  /\ at' = [at EXCEPT ![s] = "gone"]
  /\ UNCHANGED <<current, newest, aborted, armed, shown, isPolling, mounted>>

\* A status arrives, is shown, and ends the polling if it is terminal.
Status(s) ==
  /\ at[s] = "asking" /\ Arrives(s)
  /\ \E status \in Terminal \cup {"running"} :
       /\ shown' = [status |-> status, by |-> s]
       /\ at' = [at EXCEPT ![s] = IF status \in Terminal THEN "gone" ELSE "sleeping"]
       /\ IF status \in Terminal
          THEN /\ armed' = [armed EXCEPT ![s] = FALSE]
               /\ isPolling' = FALSE
               /\ current' = 0
          ELSE UNCHANGED <<armed, isPolling, current>>
  /\ UNCHANGED <<newest, aborted, mounted>>

\* The request fails, and the run counts as failed.
StatusFails(s) ==
  /\ at[s] = "asking" /\ Arrives(s)
  /\ at' = [at EXCEPT ![s] = "gone"]
  /\ armed' = [armed EXCEPT ![s] = FALSE]
  /\ shown' = [status |-> "failed", by |-> s]
  /\ isPolling' = FALSE
  /\ UNCHANGED <<current, newest, aborted, mounted>>

Wake(s) ==
  /\ at[s] = "sleeping" /\ Arrives(s)
  /\ at' = [at EXCEPT ![s] = "asking"]
  /\ UNCHANGED <<current, newest, aborted, armed, shown, isPolling, mounted>>

TimeOut(s) ==
  /\ armed[s] /\ Arrives(s)
  /\ armed' = [armed EXCEPT ![s] = FALSE]
  /\ aborted' = [aborted EXCEPT ![s] = TRUE]
  /\ UNCHANGED <<current, newest, at, shown, isPolling, mounted>>

\* The polling ends without a terminal status: a run that is over its limit, and
\* any other abort where a limit is given.
Stopped(s) ==
  /\ at[s] \in {"asking", "sleeping"} /\ aborted[s]
  /\ at' = [at EXCEPT ![s] = "gone"]
  /\ armed' = [armed EXCEPT ![s] = FALSE]
  /\ shown' = IF HasLimit THEN [status |-> "failed", by |-> s] ELSE shown
  /\ isPolling' = FALSE
  /\ UNCHANGED <<current, newest, aborted, mounted>>

Unmount ==
  /\ mounted
  /\ mounted' = FALSE
  /\ aborted' = Abort
  /\ UNCHANGED <<current, newest, at, armed, shown, isPolling>>

Next ==
  \/ Start \/ Unmount
  \/ \E s \in Starts :
       \/ Created(s) \/ NotCreated(s) \/ Status(s) \/ StatusFails(s)
       \/ Wake(s) \/ TimeOut(s) \/ Stopped(s)

Fairness == \A s \in Starts : WF_uvars(Stopped(s))
FairSpec == Init /\ [][Next]_uvars /\ Fairness

-----------------------------------------------------------------------------
\* Every variable has its type.
TypeOK ==
  /\ newest \in 0..MaxStarts /\ current \in {0, newest}
  /\ at \in [Starts -> {"none", "creating", "asking", "sleeping", "gone"}]
  /\ shown.by \in 0..newest

\* What is shown is about the run that was started last, and the hook says that it
\* is polling exactly while it polls for that run.
ShowsNewest ==
  /\ shown.by = newest
  /\ isPolling => newest # 0 /\ at[newest] \in {"asking", "sleeping"}
  /\ \A s \in Starts :
       at[s] \in {"asking", "sleeping"} /\ ~ aborted[s] => s = newest /\ isPolling
=============================================================================
