----------------------------- MODULE SandboxRun -----------------------------
(***************************************************************************)
(* run() of the E2B sandbox (packages/e2b/src/index.ts): the creation of a *)
(* microVM and the code in it each race a timer and the caller's signal,   *)
(* and the loser of a race goes on.                                        *)
(***************************************************************************)

VARIABLES
  create,    \* the creation of the sandbox
  phase,     \* where run() is
  winner,    \* what settled the race that run() awaits
  boundary,  \* boundaryTripped: the timer or the signal fired
  aborted,   \* the signal
  killed     \* sandboxKilled

xvars == <<create, phase, winner, boundary, aborted, killed>>

Init ==
  /\ create = "pending" /\ phase = "creating" /\ winner = "none"
  /\ boundary = FALSE /\ aborted = FALSE /\ killed = FALSE

-----------------------------------------------------------------------------
\* A race is settled once.
First(by) == IF winner = "none" THEN by ELSE winner

\* killSandbox() does nothing before there is a handle.
KilledNow == killed \/ create = "ready"

\* The faulty variant leaves a sandbox that comes late to itself.
NeverLate == FALSE

\* Nobody waits for the sandbox any more.
TooLate == boundary \/ aborted

Ready ==
  /\ create = "pending"
  /\ create' = "ready"
  /\ killed' = (killed \/ TooLate)
  /\ winner' = IF phase = "creating" THEN First("ready") ELSE winner
  /\ UNCHANGED <<phase, boundary, aborted>>

CreateFails ==
  /\ create = "pending"
  /\ create' = "failed"
  /\ winner' = IF phase = "creating" THEN First("failed") ELSE winner
  /\ UNCHANGED <<phase, boundary, aborted, killed>>

\* The timer, which run() clears when it leaves.
TimeOut ==
  /\ phase # "left" /\ ~ boundary
  /\ boundary' = TRUE
  /\ killed' = KilledNow
  /\ winner' = First("boundary")
  /\ UNCHANGED <<create, phase, aborted>>

\* The listener, which is removed when run() leaves.
Abort ==
  /\ ~ aborted
  /\ aborted' = TRUE
  /\ IF phase = "left" THEN UNCHANGED <<boundary, killed, winner>>
     ELSE /\ boundary' = TRUE
          /\ killed' = KilledNow
          /\ winner' = First("boundary")
  /\ UNCHANGED <<create, phase>>

\* run() goes on with the sandbox, and a boundary that tripped settles the next
\* race as it begins.
Execute ==
  /\ phase = "creating" /\ winner = "ready"
  /\ IF aborted
     THEN phase' = "leaving" /\ killed' = TRUE /\ UNCHANGED winner
     ELSE /\ phase' = "executing"
          /\ winner' = IF boundary THEN "boundary" ELSE "none"
          /\ UNCHANGED killed
  /\ UNCHANGED <<create, boundary, aborted>>

CodeEnds ==
  /\ phase = "executing"
  /\ winner' = First("ended")
  /\ UNCHANGED <<create, phase, boundary, aborted, killed>>

GiveUp ==
  /\ \/ phase = "creating" /\ winner \in {"failed", "boundary"}
     \/ phase = "executing" /\ winner # "none"
  /\ phase' = "leaving"
  /\ UNCHANGED <<create, winner, boundary, aborted, killed>>

\* The finally block.
Leave ==
  /\ phase = "leaving"
  /\ phase' = "left"
  /\ killed' = KilledNow
  /\ UNCHANGED <<create, winner, boundary, aborted>>

Next == Ready \/ CreateFails \/ TimeOut \/ Abort \/ Execute \/ CodeEnds \/ GiveUp \/ Leave

Spec == Init /\ [][Next]_xvars

-----------------------------------------------------------------------------
\* Every variable has its type.
TypeOK ==
  /\ create \in {"pending", "ready", "failed"}
  /\ phase \in {"creating", "executing", "leaving", "left"}
  /\ winner \in {"none", "ready", "failed", "boundary", "ended"}
  /\ {boundary, aborted, killed} \subseteq BOOLEAN

\* No sandbox outlives its run, however late it was created, and none is killed
\* under code that nobody stopped.
NoSandboxLeaks ==
  /\ phase = "left" /\ create = "ready" => killed
  /\ killed => create = "ready" /\ (boundary \/ phase = "left")
=============================================================================
