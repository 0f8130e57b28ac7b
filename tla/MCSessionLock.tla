--------------------------- MODULE MCSessionLock ---------------------------
(* Four requests, three of them for one session. *)
EXTENDS SessionLock, TLC

CONSTANTS r1, r2, r3, r4, s1, s2

FourRequests == {r1, r2, r3, r4}
TwoSessions == {s1, s2}
ThreeAndOne == r1 :> s1 @@ r2 :> s1 @@ r3 :> s1 @@ r4 :> s2
=============================================================================
