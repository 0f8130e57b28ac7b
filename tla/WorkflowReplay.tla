---------------------------- MODULE WorkflowReplay ----------------------------
(***************************************************************************)
(* One body of a workflow, executed and replayed (executeBody): branches   *)
(* of steps and gates run side by side under a combinator, and a final     *)
(* gate follows.  A step is memoized under its name and the number of      *)
(* steps of that name which began before it in this execution, whoever     *)
(* began them.  An execution that ends at a gate is resumed by another,    *)
(* which starts from the memoized results; what the earlier one left in    *)
(* flight goes on beside it.                                               *)
(***************************************************************************)
EXTENDS Integers, Sequences, FiniteSets

CONSTANTS
  Bodies,        \* [form, lanes, attempts, ops]: one of them is executed
  Names,         \* names of steps
  MaxExecutions, \* bound: executions of the body
  MaxFailures    \* bound: attempts of a step that throw

VARIABLES
  body,
  status,        \* of the run
  token,         \* the gate a suspended run waits at
  executions,    \* <<state of each execution>>
  failures

vars == <<body, status, token, executions, failures>>

Branches == DOMAIN body.ops
Now == Len(executions)

Waiting == [at |-> "waiting", pc |-> 1, key |-> <<>>, got |-> <<>>, tries |-> 1]

\* Faulty variant: the resume starts from the decisions alone.
FreshForgetful(ops, steps, decided) ==
  [steps |-> <<>>, decided |-> decided, counter |-> [n \in Names |-> 0],
   branch |-> [b \in DOMAIN ops |-> Waiting]]

\* A new execution: fresh counters, the results and decisions so far.
Fresh(ops, steps, decided) ==
  [steps |-> steps, decided |-> decided, counter |-> [n \in Names |-> 0],
   branch |-> [b \in DOMAIN ops |-> Waiting]]

Init ==
  /\ body \in Bodies
  /\ status = "running" /\ token = "none" /\ failures = 0
  /\ executions = <<Fresh(body.ops, <<>>, {})>>

In(p, states) == {b \in Branches : executions[p].branch[b].at \in states}

-----------------------------------------------------------------------------
\* An uncached effect of a resumed execution first renews the lease, which
\* fails once that execution is over.  The first one has no lease.
Fenced(p) == p > 1 /\ ~ (p = Now /\ status = "running")

\* A gate whose token is decided returns, any other throws the suspension.
GateOf(p, b, br, t) ==
  IF t \in executions[p].decided
  THEN [br EXCEPT !.at = "going", !.pc = @ + 1, !.got = Append(@, <<b, br.pc>>)]
  ELSE [br EXCEPT !.at = "suspended"]

\* Faulty variant: the name alone.
KeyOfName(p, name) == <<name, 0>>

\* The key is the name and its occurrence in this execution.
KeyOf(p, name) == <<name, executions[p].counter[name]>>

StepOf(p, br, key) ==
  IF key \in DOMAIN executions[p].steps
  THEN [br EXCEPT !.at = "going", !.pc = @ + 1,
                  !.got = Append(@, executions[p].steps[key])]
  ELSE IF Fenced(p) THEN [br EXCEPT !.at = "failed"]
  ELSE [br EXCEPT !.at = "flying", !.key = key]

\* The branch performs its next operation, up to the first thing it awaits.
Perform(p, b) ==
  LET br == executions[p].branch[b]
      op == body.ops[b][br.pc]
  IN IF br.pc > Len(body.ops[b])
     THEN executions' = [executions EXCEPT ![p].branch[b].at = "done"]
     ELSE IF op.kind = "gate"
     THEN executions' =
            [executions EXCEPT ![p].branch[b] = GateOf(p, b, br, op.name)]
     ELSE executions' = [executions EXCEPT
            ![p].branch[b] = StepOf(p, br, KeyOf(p, op.name)),
            ![p].counter[op.name] = @ + 1]

-----------------------------------------------------------------------------
\* map() takes items in order, in as many lanes as it may, until one fails; a
\* lane whose item threw a suspension is gone.  The others start all at once.
Startable(p) ==
  /\ In(p, {"waiting"}) # {}
  /\ Cardinality(In(p, {"going", "flying", "suspended"})) < body.lanes
  /\ body.form = "map" => In(p, {"failed"}) = {}

Start(p) ==
  /\ Startable(p)
  /\ LET b == CHOOSE x \in In(p, {"waiting"}) :
                \A y \in In(p, {"waiting"}) : x <= y
     IN Perform(p, b)
  /\ UNCHANGED <<body, status, token, failures>>

Proceed(p, b) ==
  /\ ~ Startable(p)
  /\ b \in In(p, {"going"})
  /\ Perform(p, b)
  /\ UNCHANGED <<body, status, token, failures>>

\* The fn of a step returns: its result is memoized and handed to the branch.
Return(p, b) ==
  /\ ~ Startable(p)
  /\ b \in In(p, {"flying"})
  /\ LET br == executions[p].branch[b]
     IN executions' = [executions EXCEPT
          ![p].steps = [k \in DOMAIN @ \cup {br.key} |->
                          IF k = br.key THEN <<b, br.pc>> ELSE @[k]],
          ![p].branch[b] = [br EXCEPT !.at = "going", !.pc = @ + 1,
                                      !.got = Append(@, <<b, br.pc>>)]]
  /\ UNCHANGED <<body, status, token, failures>>

\* retry() begins its inner step again as long as it has attempts; the counters
\* of the occurrences go on.
Throw(p, b) ==
  /\ ~ Startable(p)
  /\ b \in In(p, {"flying"})
  /\ failures < MaxFailures /\ failures' = failures + 1
  /\ LET br == executions[p].branch[b]
     IN executions' = [executions EXCEPT ![p].branch[b] =
          IF br.tries < body.attempts
          THEN [Waiting EXCEPT !.at = "going", !.tries = br.tries + 1]
          ELSE [br EXCEPT !.at = "failed"]]
  /\ UNCHANGED <<body, status, token>>

-----------------------------------------------------------------------------
\* Nothing is in flight and nothing more begins.
Quiet(p) == ~ Startable(p) /\ In(p, {"going", "flying"}) = {}

\* The tokens with which a suspension leaves the combinator: ctx.all waits for
\* every branch and throws the first suspension; map() rejects with whichever
\* comes, and the other lanes go on; parallel() throws none.
Thrown(p) ==
  LET held == In(p, {"suspended"})
      gate(b) == body.ops[b][executions[p].branch[b].pc].name
  IN CASE body.form = "all" /\ Quiet(p) /\ held # {} ->
            {gate(CHOOSE b \in held : \A c \in held : b <= c)}
       [] body.form = "map" -> {gate(b) : b \in held}
       [] OTHER -> {}

\* Faulty variant: an error goes before a suspension.
ErrsFirst(p) == Quiet(p) /\ In(p, {"failed"}) # {}

\* The combinator throws an error.  For parallel() a suspension is one.
Errs(p) ==
  /\ Quiet(p)
  /\ IF body.form = "parallel" THEN In(p, {"failed", "suspended"}) # {}
     ELSE In(p, {"failed"}) # {} /\ In(p, {"suspended"}) = {}

\* The final gate, after the combinator.
Approval == "approve"
Through(p) == In(p, {"done"}) = Branches

Suspend ==
  /\ status = "running"
  /\ status' = "suspended"
  /\ token' \in IF Through(Now) /\ Approval \notin executions[Now].decided
                THEN {Approval} ELSE Thrown(Now)
  /\ UNCHANGED <<body, executions, failures>>

Finish ==
  /\ status = "running"
  /\ \/ /\ Through(Now) /\ Approval \in executions[Now].decided
        /\ status' = "completed"
     \/ Errs(Now) /\ status' = "error"
  /\ UNCHANGED <<body, token, executions, failures>>

\* The resume copies what is memoized and adds the decision of the gate.
Resume ==
  /\ status = "suspended" /\ Now < MaxExecutions
  /\ status' = "running" /\ token' = "none"
  /\ executions' = Append(executions, Fresh(body.ops, executions[Now].steps,
                                    executions[Now].decided \cup {token}))
  /\ UNCHANGED <<body, failures>>

Next ==
  \/ \E p \in DOMAIN executions :
       \/ Start(p)
       \/ \E b \in Branches : Proceed(p, b) \/ Return(p, b) \/ Throw(p, b)
  \/ Suspend \/ Finish \/ Resume

Spec == Init /\ [][Next]_vars

-----------------------------------------------------------------------------
\* Every variable has its type.
TypeOK ==
  /\ body \in Bodies
  /\ status \in {"running", "suspended", "completed", "error"}
  /\ (status = "suspended") <=> (token # "none")
  /\ Now \in 1..MaxExecutions /\ failures \in 0..MaxFailures
  /\ \A p \in DOMAIN executions : \A b \in Branches :
       /\ executions[p].branch[b].at \in
            {"waiting", "going", "flying", "done", "failed", "suspended"}
       /\ Len(executions[p].branch[b].got) = executions[p].branch[b].pc - 1

\* What a branch receives is what its own operation at that place produced, in
\* this execution or in an earlier one (step, ReplayController).
Faithful ==
  \A p \in DOMAIN executions : \A b \in Branches :
    \A i \in DOMAIN executions[p].branch[b].got :
      executions[p].branch[b].got[i] = <<b, i>>

\* A step whose result a branch had when the run was suspended is not invoked
\* by the resume.  Lanes of map() that outlive its rejection are left out.
NotReinvoked ==
  body.form # "map" \/ body.lanes = 1 =>
    \A p \in 2..Now : \A b \in Branches :
      executions[p].branch[b].at = "flying" =>
        executions[p].branch[b].pc > Len(executions[p - 1].branch[b].got)

\* ctx.all and map() let a suspension through, even if another branch failed.
SuspensionSurvives ==
  status = "error" /\ body.form # "parallel" => In(Now, {"suspended"}) = {}
=============================================================================
