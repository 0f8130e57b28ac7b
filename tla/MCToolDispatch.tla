--------------------------- MODULE MCToolDispatch ---------------------------
(***************************************************************************)
(* Instances of ToolDispatch for TLC: two executors; two calls under one   *)
(* key with the same arguments, one with other arguments, one without key. *)
(***************************************************************************)
EXTENDS ToolDispatch, TLC

CONSTANTS e1, e2, c1, c2, c3, c4, k1, a1, a2

TwoExecutors == {e1, e2}
FourCalls == {c1, c2, c3, c4}
OneKey == {k1}
TwoArgs == {a1, a2}

KeyOfFour == c1 :> k1 @@ c2 :> k1 @@ c3 :> k1 @@ c4 :> NoKey
ArgsOfFour == c1 :> a1 @@ c2 :> a1 @@ c3 :> a2 @@ c4 :> a1
AskingFour == {c1, c4}
=============================================================================
