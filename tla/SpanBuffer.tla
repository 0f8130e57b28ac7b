----------------------------- MODULE SpanBuffer -----------------------------
(***************************************************************************)
(* The tracer of packages/langfuse/src/index.ts: spans that end are        *)
(* buffered, dropping the oldest of a full buffer, and flushes follow one  *)
(* another on one promise chain, each sending all that is buffered then.   *)
(***************************************************************************)
EXTENDS Integers, Sequences, FiniteSets, Functions

CONSTANTS
  Spans,
  FlushAt, MaxBuffer,
  Answers,     \* how the endpoint may end a request: "ok", "status", "network"
  Redactor,    \* what redactAttributes does: "none", "throws"
  MaxPending   \* bound on flushes that wait in the chain

VARIABLES
  ended,     \* spans that ended before the shutdown
  buffer,    \* spans not yet taken by a flush
  batch,     \* spans that a flush is sending
  pending,   \* flushes that wait for their turn
  broken,    \* the chain is a rejected promise
  stopped,   \* shutdown() was called
  delivered, \* spans that the endpoint took
  dropped    \* droppedSpans

fvars == <<ended, buffer, batch, pending, broken, stopped, delivered, dropped>>

Init ==
  /\ ended = {} /\ buffer = <<>> /\ batch = <<>>
  /\ pending = 0 /\ broken = FALSE /\ stopped = FALSE
  /\ delivered = {} /\ dropped = 0

-----------------------------------------------------------------------------
\* The faulty variant forgets to count.
DropQuietly == dropped

\* A full buffer gives up its oldest span.
DropOldest == IF Len(buffer) >= MaxBuffer THEN dropped + 1 ELSE dropped

\* A span ends once; after the shutdown it is ignored.
End(s) ==
  /\ s \notin ended /\ ~ stopped /\ pending < MaxPending
  /\ ended' = ended \cup {s}
  /\ dropped' = DropOldest
  /\ buffer' = Append(IF Len(buffer) >= MaxBuffer THEN Tail(buffer) ELSE buffer, s)
  /\ pending' = IF Len(buffer') >= FlushAt THEN pending + 1 ELSE pending
  /\ UNCHANGED <<batch, broken, stopped, delivered>>

\* The timer, which shutdown() clears.
Tick ==
  /\ ~ stopped /\ buffer # <<>> /\ pending < MaxPending
  /\ pending' = pending + 1
  /\ UNCHANGED <<ended, buffer, batch, broken, stopped, delivered, dropped>>

\* The faulty variant clears the timer and sends nothing.
ShutdownQuietly ==
  /\ ~ stopped
  /\ stopped' = TRUE
  /\ UNCHANGED <<pending, ended, buffer, batch, broken, delivered, dropped>>

Shutdown ==
  /\ ~ stopped
  /\ stopped' = TRUE
  /\ pending' = pending + 1
  /\ UNCHANGED <<ended, buffer, batch, broken, delivered, dropped>>

\* The faulty variant does not wait for the flush before it.
AnyTurn == pending > 0

\* A flush has its turn when the one before it has settled.
HasTurn == pending > 0 /\ batch = <<>>

\* A flush takes all that is buffered; a redactor that throws takes the chain
\* with it, and then() of a rejected promise does nothing.
Flush ==
  /\ HasTurn
  /\ pending' = pending - 1
  /\ IF broken \/ buffer = <<>> THEN UNCHANGED <<buffer, batch, broken>>
     ELSE /\ buffer' = <<>>
          /\ broken' = (Redactor = "throws")
          /\ batch' = IF Redactor = "throws" THEN batch ELSE buffer
  /\ UNCHANGED <<ended, stopped, delivered, dropped>>

\* Only a request that throws counts as a failure.
Sent ==
  /\ batch # <<>>
  /\ batch' = <<>>
  /\ \E a \in Answers :
       /\ delivered' = IF a = "ok" THEN delivered \cup Range(batch) ELSE delivered
       /\ dropped' = IF a = "network" THEN dropped + Len(batch) ELSE dropped
  /\ UNCHANGED <<ended, buffer, pending, broken, stopped>>

Next == (\E s \in Spans : End(s)) \/ Tick \/ Shutdown \/ Flush \/ Sent

Fairness == WF_fvars(Flush) /\ WF_fvars(Sent)
FairSpec == Init /\ [][Next]_fvars /\ Fairness

-----------------------------------------------------------------------------
\* Every variable has its type.
TypeOK ==
  /\ ended \subseteq Spans /\ delivered \subseteq ended
  /\ Len(buffer) <= MaxBuffer
  /\ dropped \in 0..Cardinality(Spans) /\ pending \in 0..(MaxPending + 1)

\* Every span that ended is in the buffer, on its way, delivered, or counted as
\* dropped, and no span is counted twice.
SpansAccountedFor ==
  /\ Cardinality(ended) = Len(buffer) + Len(batch) + Cardinality(delivered) + dropped
  /\ IsInjective(buffer \o batch)
  /\ delivered \cap Range(buffer \o batch) = {}

\* After shutdown() nothing stays behind in the buffer.
ShutdownFlushes == stopped ~> buffer = <<>> /\ batch = <<>>
=============================================================================
