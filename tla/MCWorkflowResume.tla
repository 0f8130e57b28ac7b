-------------------------- MODULE MCWorkflowResume --------------------------
(***************************************************************************)
(* Instances of WorkflowResume for TLC: two processes, one of which makes  *)
(* two calls, and a body of two gates with a step in between.               *)
(***************************************************************************)
EXTENDS WorkflowResume, TLC

CONSTANTS w1, w2, w3, p1, p2

TwoProcs == {p1, p2}
ThreeWorkers == {w1, w2, w3}
Placement == w1 :> p1 @@ w2 :> p1 @@ w3 :> p2
GateStepGate == <<"gate", "step", "gate">>
=============================================================================
