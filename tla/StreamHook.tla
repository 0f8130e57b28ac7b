----------------------------- MODULE StreamHook -----------------------------
(***************************************************************************)
(* useEidenticStream (packages/react/src/useEidenticStream.ts): the state  *)
(* of a chat component while requests stream their answers.  A request is  *)
(* a send or a resume with its attempts; the component may stop it or      *)
(* unmount at any await.                                                   *)
(***************************************************************************)
EXTENDS Integers, FiniteSets

CONSTANTS
  Requests,      \* requests of a session, integers from 1
  MaxRetries,    \* retryOnError.attempts under allowUnsafePostRetry, else 0
  Resends        \* whether onError may call send

VARIABLES
  status,        \* statusRef
  suspension,    \* an approval card is shown
  abort,         \* request whose controller abortRef holds, 0 for none
  mounted,
  request,       \* state of each request
  replayed       \* requests posted again after some byte of their answer

hvars == <<status, suspension, abort, mounted, request, replayed>>

Unused == [at |-> "unused", kind |-> "none", attempt |-> 0, bytes |-> FALSE,
           event |-> FALSE, result |-> "none", aborted |-> FALSE]
Running == {n \in Requests : request[n].at \in {"posting", "reading", "backoff"}}
Fresh(n) == request[n] = Unused /\ \A m \in Requests : m < n => request[m] # Unused

Init ==
  /\ status = "idle" /\ suspension = FALSE /\ abort = 0 /\ mounted = TRUE
  /\ request = [n \in Requests |-> Unused]
  /\ replayed = {}

-----------------------------------------------------------------------------
\* The faulty variant reads the status of the last render.
MaySendStale == TRUE

MaySend == status # "streaming"

Send(n) ==
  /\ mounted /\ Fresh(n) /\ MaySend
  /\ status' = "streaming" /\ suspension' = FALSE /\ abort' = n
  /\ request' = [request EXCEPT ![n] = [Unused EXCEPT !.at = "posting", !.kind = "send"]]
  /\ UNCHANGED <<mounted, replayed>>

Resume(n) ==
  /\ mounted /\ Fresh(n) /\ status = "suspended"
  /\ status' = "streaming" /\ abort' = n
  /\ request' = [request EXCEPT ![n] = [Unused EXCEPT !.at = "posting", !.kind = "resume"]]
  /\ UNCHANGED <<suspension, mounted, replayed>>

\* An append-only session does not replay a turn: regenerate reports an error.
Regenerate ==
  /\ mounted /\ status # "streaming"
  /\ \E n \in Requests : request[n].kind = "send"
  /\ status' = "error"
  /\ UNCHANGED <<suspension, abort, mounted, request, replayed>>

Aborted(n) == [request EXCEPT ![n].aborted = TRUE]

Stop ==
  /\ mounted /\ abort # 0
  /\ request' = Aborted(abort)
  /\ UNCHANGED <<status, suspension, abort, mounted, replayed>>

Unmount ==
  /\ mounted /\ mounted' = FALSE
  /\ request' = IF abort # 0 THEN Aborted(abort) ELSE request
  /\ UNCHANGED <<status, suspension, abort, replayed>>

-----------------------------------------------------------------------------
\* The end of a request, and of its finally block; nothing is set after unmount.
Ended(n) == [request EXCEPT ![n].at = "ended"]

EndAs(n, final) ==
  IF mounted
  THEN /\ status' = final /\ abort' = 0 /\ request' = Ended(n)
  ELSE /\ request' = Ended(n) /\ UNCHANGED <<status, abort>>

\* An error is reported before the finally block; the callback may send again.
EndWithError(n) ==
  \/ EndAs(n, "error") /\ UNCHANGED suspension
  \/ /\ Resends /\ mounted
     /\ \E m \in Requests :
          /\ Fresh(m)
          /\ request' = [Ended(n) EXCEPT ![m] =
                           [Unused EXCEPT !.at = "posting", !.kind = "send"]]
     /\ status' = "streaming" /\ suspension' = FALSE /\ abort' = 0

\* The faulty variant tries again whatever has arrived.
RetriesAnyway(n) == request[n].kind = "send" /\ request[n].attempt < MaxRetries

\* What has arrived makes a failure final.
Retries(n) ==
  /\ request[n].kind = "send" /\ request[n].attempt < MaxRetries
  /\ ~ request[n].bytes /\ ~ request[n].event

\* A failure that is no abort.
Fail(n) ==
  \/ Retries(n) /\ request' = [request EXCEPT ![n].at = "backoff"]
     /\ UNCHANGED <<status, suspension, abort>>
  \/ ~ Retries(n) /\ EndWithError(n)

Post(n) ==
  /\ request[n].at = "posting"
  /\ \/ request[n].aborted /\ EndAs(n, "idle") /\ UNCHANGED suspension
     \/ ~ request[n].aborted /\ request' = [request EXCEPT ![n].at = "reading"]
        /\ UNCHANGED <<status, suspension, abort>>
     \/ ~ request[n].aborted /\ Fail(n)
  /\ UNCHANGED <<mounted, replayed>>

\* After the wait the component may be gone; an aborted wait posts once more, and
\* that fetch rejects.
Wake(n) ==
  /\ request[n].at = "backoff"
  /\ IF mounted
     THEN /\ request' = [request EXCEPT ![n].at = "posting", ![n].attempt = @ + 1]
          /\ replayed' = IF request[n].bytes \/ request[n].event
                         THEN replayed \cup {n} ELSE replayed
     ELSE request' = Ended(n) /\ UNCHANGED replayed
  /\ UNCHANGED <<status, suspension, abort, mounted>>

Open(n) == request[n].at = "reading" /\ request[n].result = "none"

Bytes(n) ==
  /\ Open(n) /\ ~ request[n].aborted
  /\ request' = [request EXCEPT ![n].bytes = TRUE]
  /\ UNCHANGED <<status, suspension, abort, mounted, replayed>>

\* An event, which may be the result; an unmounted component takes none.
Event(n) ==
  /\ Open(n) /\ ~ request[n].aborted /\ mounted
  /\ \E result \in {"none", "done", "suspended"} :
       /\ request' = [request EXCEPT ![n].bytes = TRUE, ![n].event = TRUE,
                                     ![n].result = result]
       /\ suspension' = CASE result = "suspended" -> TRUE
                          [] result = "done" /\ request[n].kind = "resume" -> FALSE
                          [] OTHER -> suspension
  /\ UNCHANGED <<status, abort, mounted, replayed>>

\* The faulty variant has no such rule.
AuthoritativeNever(n) == FALSE

\* The result counts even if the connection breaks after it.
Authoritative(n) == request[n].kind = "send" /\ request[n].result # "none"

\* The stream breaks off, by the network or by the abort.
Break(n) ==
  /\ request[n].at = "reading"
  /\ LET got == request[n].bytes \/ request[n].event
     IN CASE Authoritative(n) -> EndAs(n, request[n].result) /\ UNCHANGED suspension
          [] ~ Authoritative(n) /\ request[n].aborted
               /\ (request[n].kind = "resume" \/ ~ got) ->
                    EndAs(n, "idle") /\ UNCHANGED suspension
          [] OTHER -> Fail(n)
  /\ UNCHANGED <<mounted, replayed>>

\* The stream ends as streams do.
Eof(n) ==
  /\ request[n].at = "reading" /\ ~ request[n].aborted
  /\ \/ request[n].result # "none" /\ EndAs(n, request[n].result) /\ UNCHANGED suspension
     \/ request[n].result = "none" /\ Fail(n)
  /\ UNCHANGED <<mounted, replayed>>

Next ==
  \/ Regenerate \/ Stop \/ Unmount
  \/ \E n \in Requests :
       \/ Send(n) \/ Resume(n) \/ Post(n) \/ Wake(n)
       \/ Bytes(n) \/ Event(n) \/ Break(n) \/ Eof(n)

\* An abort settles the fetch, the read or the wait it finds.
Settles(n) == request[n].aborted /\ (Post(n) \/ Wake(n) \/ Break(n))
Fairness == \A n \in Requests : WF_hvars(Settles(n))

FairSpec == Init /\ [][Next]_hvars /\ Fairness

-----------------------------------------------------------------------------
\* Every variable has its type.
TypeOK ==
  /\ status \in {"idle", "streaming", "done", "error", "suspended"}
  /\ suspension \in BOOLEAN /\ mounted \in BOOLEAN
  /\ abort \in Requests \cup {0} /\ replayed \subseteq Requests

\* A component has one stream open at a time, the status says so, and stop()
\* reaches it (unless onError sends again, which ends with a stream that stop()
\* has lost).
OneStream ==
  /\ Cardinality(Running) <= 1
  /\ mounted => (status = "streaming" <=> Running # {})
  /\ mounted /\ ~ Resends => \A n \in Running : abort = n

\* No request is posted again once a byte of its answer has arrived.
SafeReplay == replayed = {}

\* The result of a send decides the status the component is left with; when an
\* approval is pending, its card is shown.
ResultDecides ==
  [][\A n \in Requests :
       mounted /\ request[n].kind = "send" /\ request[n].result # "none"
         /\ request[n].at = "reading" /\ request'[n].at = "ended" =>
           /\ status' = request[n].result
           /\ status' = "suspended" => suspension']_hvars

\* A stream that was stopped, by the user or by the unmount, comes to its end.
StoppedEnds == \A n \in Requests : request[n].aborted ~> request[n].at = "ended"

\* The same for a resume, whose connection may break after the result.
ResumeDecides ==
  [][\A n \in Requests :
       mounted /\ request[n].kind = "resume" /\ request[n].result # "none"
         /\ request[n].at = "reading" /\ request'[n].at = "ended" =>
           status' = request[n].result]_hvars
=============================================================================
