----------------------------- MODULE DurableRun -----------------------------
(***************************************************************************)
(* What Agent.query and Agent.resume promise about the runs of one durable *)
(* session, whatever crashes: a run is reported with one final outcome,    *)
(* that a suspension may precede and nothing may follow, and a keyed tool  *)
(* call acts at most once, while a run is unfinished.                      *)
(***************************************************************************)
CONSTANTS Runs, Calls, Finals

VARIABLES outcome, acted

\* outcome is a function on the runs that have begun; acted counts the times
\* a keyed call acted.
Init ==
  /\ outcome = << >>
  /\ acted = [c \in Calls |-> 0]

Begin(r) ==
  /\ outcome' = [x \in DOMAIN outcome \cup {r} |-> IF x = r THEN "open" ELSE outcome[x]]
  /\ UNCHANGED acted

Unfinished(r) == outcome[r] \in {"open", "suspended"}

Act(c) ==
  /\ \E r \in DOMAIN outcome : Unfinished(r)
  /\ acted[c] = 0
  /\ acted' = [acted EXCEPT ![c] = 1]
  /\ UNCHANGED outcome

Report(r, final) ==
  /\ Unfinished(r)
  /\ outcome' = [outcome EXCEPT ![r] = final]
  /\ UNCHANGED acted

Next ==
  /\ outcome' # outcome \/ acted' # acted
  /\ \/ \E r \in Runs \ DOMAIN outcome : Begin(r)
     \/ \E r \in DOMAIN outcome, final \in Finals \cup {"suspended"} : Report(r, final)
     \/ \E c \in Calls : Act(c)

Spec == Init /\ [][Next]_<<outcome, acted>>
=============================================================================
