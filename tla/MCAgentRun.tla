----------------------------- MODULE MCAgentRun -----------------------------
(***************************************************************************)
(* Instances of AgentRun for TLC: two calls, answered by the model one at  *)
(* a time or as one batch.                                                 *)
(***************************************************************************)
EXTENDS AgentRun

CONSTANTS w1, w2, a, b

OneWorker == {w1}
TwoWorkers == {w1, w2}
TwoCalls == {a, b}
OneByOneOrBoth == {<< >>, <<a>>, <<b>>, <<b, a>>}
TogetherOnly == {<< >>, <<b, a>>}
OnlyA == {a}
Both == {a, b}
=============================================================================
