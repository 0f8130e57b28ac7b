---------------------------- MODULE FallbackChain ----------------------------
(***************************************************************************)
(* withFallback (packages/model/src/fallback.ts): a request goes to the    *)
(* first model of a chain, and to the next when it fails, by complete() or *)
(* by stream(), which every model of the chain must have for the chain to  *)
(* have it.                                                                *)
(***************************************************************************)
EXTENDS Integers, Sequences, Functions

CONSTANTS
  MaxModels,  \* bound on the length of the chain
  MaxDeltas   \* bound on the deltas of a stream

VARIABLES
  streams,   \* for each model of the chain, whether it has stream()
  mode,      \* what the caller uses: "stream" or "complete"
  index,     \* the model at work
  seen,      \* deltas of this model
  out,       \* what the caller got: the models of deltas and answers
  outcome,   \* "open", "answered", "thrown"
  cancelled  \* an AbortError was thrown

nvars == <<streams, mode, index, seen, out, outcome, cancelled>>

Part(type, model) == [type |-> type, model |-> model]

ChainStreams == \A i \in DOMAIN streams : streams[i]

Init ==
  /\ streams \in UNION {[1..n -> BOOLEAN] : n \in 1..MaxModels}
  /\ mode \in {"stream", "complete"} /\ (mode = "stream" => ChainStreams)
  /\ index = 1 /\ seen = 0 /\ out = <<>>
  /\ outcome = "open" /\ cancelled = FALSE

-----------------------------------------------------------------------------
\* A delta reaches the caller at once.
Delta ==
  /\ outcome = "open" /\ mode = "stream" /\ seen < MaxDeltas
  /\ seen' = seen + 1
  /\ out' = Append(out, Part("delta", index))
  /\ UNCHANGED <<streams, mode, index, outcome, cancelled>>

\* The final part, with the identity of the model that made it; a stream may
\* still fail after it.
Final ==
  /\ outcome = "open" /\ mode = "stream"
  /\ \A i \in DOMAIN out : out[i] # Part("final", index)
  /\ out' = Append(out, Part("final", index))
  /\ UNCHANGED <<streams, mode, index, seen, outcome, cancelled>>

\* The stream ends, or complete() returns.
Answer ==
  /\ outcome = "open"
  /\ IF mode = "stream"
     THEN Part("final", index) \in Range(out) /\ UNCHANGED out
     ELSE out' = Append(out, Part("final", index))
  /\ outcome' = "answered"
  /\ UNCHANGED <<streams, mode, index, seen, cancelled>>

\* The faulty variant switches in the middle of a text.
AnyTime == TRUE

NothingSaid == seen = 0

\* The model fails.  The caller's cancellation is never answered by another
\* model, and shouldFallback may refuse any error.
Fail ==
  /\ outcome = "open"
  /\ \E abort \in BOOLEAN, should \in BOOLEAN :
       /\ cancelled' = abort
       /\ IF NothingSaid /\ index < Len(streams) /\ ~ abort /\ should
          THEN index' = index + 1 /\ UNCHANGED outcome
          ELSE outcome' = "thrown" /\ UNCHANGED index
  /\ seen' = 0
  /\ UNCHANGED <<streams, mode, out>>

Next == Delta \/ Final \/ Answer \/ Fail

Spec == Init /\ [][Next]_nvars

-----------------------------------------------------------------------------
\* Every variable has its type.
TypeOK ==
  /\ index \in 1..Len(streams) /\ seen \in 0..MaxDeltas
  /\ outcome \in {"open", "answered", "thrown"}

\* The text that a caller reads is one model's, the answer that ends it is the
\* same model's, and no model is asked after a cancellation.
OneVoice ==
  /\ \A i, j \in DOMAIN out :
       out[i].type = "delta" /\ out[j].type = "delta" => out[i].model = out[j].model
  /\ outcome = "answered" =>
       /\ Part("final", index) \in Range(out)
       /\ \A d \in Range(out) : d.type = "delta" => d.model = index
  /\ cancelled => outcome = "thrown"
=============================================================================
