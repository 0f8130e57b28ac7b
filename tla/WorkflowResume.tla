--------------------------- MODULE WorkflowResume ---------------------------
(***************************************************************************)
(* Resuming a suspended workflow run (packages/workflow): resumeWorkflow   *)
(* (resume.ts) and the body it replays (workflow-internal.ts, step.ts),    *)
(* over the run registry of each process (registry.ts) and the file store  *)
(* that the processes share (file-store.ts).                               *)
(*                                                                         *)
(* A registry method checks its record and queues a store operation in one *)
(* synchronous stretch.  A process serves its queue in order, and under    *)
(* the file lock an operation with its continuation is one step.  The body *)
(* is a sequence of steps and gates; no branches run side by side.         *)
(***************************************************************************)
EXTENDS Integers, Sequences, FiniteSetsExt

CONSTANTS
  Procs,
  Workers,       \* calls of resumeWorkflow, whose names stand for claim ids
  ProcOf,        \* the process that makes each call
  Body,          \* the kinds, "step" or "gate", of what the body awaits
  Lease,         \* resumeLeaseMs
  NoWorker,
  MaxClock,
  MaxFaults      \* bound on crashes and failed store operations

ASSUME ResumeAssumption ==
  /\ ProcOf \in [Workers -> Procs] /\ NoWorker \notin Workers
  /\ Body \in Seq({"step", "gate"}) /\ \E i \in DOMAIN Body : Body[i] = "gate"
  /\ Lease \in Nat \ {0}
  /\ {MaxClock, MaxFaults} \subseteq Nat

VARIABLES
  store,         \* the run's record in the file
  mem,           \* the run's record in each registry
  queue,         \* store operations each process has yet to serve
  up,            \* processes that run
  at, local, lease, lost, beat,   \* what each call does: see TypeOK
  settled,       \* history: the gates left for good, each with the call that did it
  saved,         \* history: steps whose result a finished resume persisted
  clock, faults

call == <<at, local, lease, lost, beat>>
vars == <<store, mem, queue, up, call, settled, saved, clock, faults>>

Steps == {i \in DOMAIN Body : Body[i] = "step"}
Gates == {i \in DOMAIN Body : Body[i] = "gate"}
NoGate == 0
Times == 0..(MaxClock + Lease)

Record == [status : {"absent", "suspended", "resuming", "completed", "error"},
           gate : Gates \cup {NoGate}, cache : SUBSET Steps, decided : SUBSET Gates,
           claim : Workers \cup {NoWorker}, expires : Times]
Ended(status) == [status |-> status, gate |-> NoGate, cache |-> {}, decided |-> {},
                  claim |-> NoWorker, expires |-> 0]
Absent == Ended("absent")
SuspendedAt(g, cache, decided) ==
  [Ended("suspended") EXCEPT !.gate = g, !.cache = cache, !.decided = decided]

Operation == [op : {"claim", "renew", "beat", "finish"}, by : Workers,
              now : 0..MaxClock, rec : Record]
Working == {"claimed", "first", "body", "renewing", "cleared", "acting"}
Points == Working \cup {"idle", "claiming", "failed", "finishing", "done", "refused", "dead"}

\* Every variable has its type.
TypeOK ==
  /\ store \in Record /\ mem \in [Procs -> Record]
  /\ queue \in [Procs -> Seq(Operation)] /\ up \subseteq Procs
  /\ at \in [Workers -> Points] /\ local \in [Workers -> Record]
  /\ lease \in [Workers -> Times] /\ lost \in [Workers -> BOOLEAN]
  /\ beat \in [Workers -> {"waiting", "queued"}]
  /\ settled \in Seq(Gates \X Workers) /\ saved \subseteq Steps
  /\ clock \in 0..MaxClock /\ faults \in 0..MaxFaults

Init ==
  LET g == Min(Gates) IN
  /\ store = SuspendedAt(g, {i \in Steps : i < g}, {})
  /\ mem = [p \in Procs |-> store]
  /\ queue = [p \in Procs |-> << >>] /\ up = Procs
  /\ at = [w \in Workers |-> "idle"] /\ local = [w \in Workers |-> Absent]
  /\ lease = [w \in Workers |-> 0] /\ lost = [w \in Workers |-> FALSE]
  /\ beat = [w \in Workers |-> "waiting"]
  /\ settled = << >> /\ saved = store.cache /\ clock = 0 /\ faults = 0

-----------------------------------------------------------------------------
(* What a call of resumeWorkflow does in its process. *)

Mine(w) == mem[ProcOf[w]]
Enqueue(w, op, rec) ==
  queue' = [queue EXCEPT ![ProcOf[w]] =
              Append(@, [op |-> op, by |-> w, now |-> clock, rec |-> rec])]
Goto(w, point) == at' = [at EXCEPT ![w] = point]

\* Faulty variants: a claim is never over, or never respected.
ClaimableOnce(rec, now) == rec.status = "suspended"
ClaimableAlways(rec, now) == rec.status \in {"suspended", "resuming"}

\* A record that may be claimed at time now.
Claimable(rec, now) ==
  \/ rec.status = "suspended"
  \/ rec.status = "resuming" /\ rec.expires <= now

\* Faulty variant: the memoized results do not survive the claim.
ClaimedForgetful(rec, w, now) ==
  [rec EXCEPT !.status = "resuming", !.claim = w, !.expires = now + Lease, !.cache = {}]
Claimed(rec, w, now) ==
  [rec EXCEPT !.status = "resuming", !.claim = w, !.expires = now + Lease]

\* Faulty variant: a run may be ended by whoever finds it.
OwnedByAny(rec, w) == rec.status # "absent"
Owned(rec, w) == rec.status = "resuming" /\ rec.claim = w
Renewable(rec, w, now) == Owned(rec, w) /\ rec.expires > now

\* claimResume of the registry: the claim is published before it is stored.
StartClaim(w) ==
  /\ at[w] = "idle" /\ ProcOf[w] \in up
  /\ Mine(w).status \in {"suspended", "resuming"} /\ Claimable(Mine(w), clock)
  /\ mem' = [mem EXCEPT ![ProcOf[w]] = Claimed(@, w, clock)]
  /\ Enqueue(w, "claim", Mine(w))
  /\ Goto(w, "claiming")
  /\ UNCHANGED <<store, up, local, lease, lost, beat, settled, saved, clock, faults>>

\* Where the replay of the body stops: what is neither memoized nor decided.
Open(rec) == {i \in DOMAIN Body : i \notin rec.cache \cup rec.decided}
Here(w) == Min(Open(local[w]))
AtStep(w) == Open(local[w]) # {} /\ Here(w) \in Steps

\* beforeEffect: once before the body, and before each step that is not
\* memoized.  A call whose renewal failed before is aborted.
StartRenewal(w) ==
  /\ at[w] = "claimed" \/ (at[w] = "body" /\ AtStep(w))
  /\ IF ~ lost[w] /\ Renewable(Mine(w), w, clock)
       THEN /\ Enqueue(w, "renew", Absent)
            /\ Goto(w, IF at[w] = "claimed" THEN "first" ELSE "renewing")
            /\ UNCHANGED lost
       ELSE /\ lost' = [lost EXCEPT ![w] = TRUE]
            /\ Goto(w, "failed")
            /\ UNCHANGED queue
  /\ UNCHANGED <<store, mem, up, local, lease, beat, settled, saved, clock, faults>>

\* Faulty variant: a renewal that is refused at once leaves its promise pending.
HeartbeatPending(w) ==
  /\ at[w] \in Working /\ beat[w] = "waiting" /\ ~ lost[w]
  /\ 3 * (lease[w] - clock) <= 2 * Lease
  /\ beat' = [beat EXCEPT ![w] = "queued"]
  /\ IF Renewable(Mine(w), w, clock)
       THEN Enqueue(w, "beat", Absent) /\ UNCHANGED lost
       ELSE lost' = [lost EXCEPT ![w] = TRUE] /\ UNCHANGED queue
  /\ UNCHANGED <<store, mem, up, at, local, lease, settled, saved, clock, faults>>

\* The timer of the heartbeat fires when a third of the lease is over.  (One
\* that fires soon after a renewal for a step would renew to the same time.)
Heartbeat(w) ==
  /\ at[w] \in Working /\ beat[w] = "waiting" /\ ~ lost[w]
  /\ 3 * (lease[w] - clock) <= 2 * Lease
  /\ IF Renewable(Mine(w), w, clock)
       THEN /\ Enqueue(w, "beat", Absent)
            /\ beat' = [beat EXCEPT ![w] = "queued"]
            /\ UNCHANGED lost
       ELSE /\ lost' = [lost EXCEPT ![w] = TRUE]
            /\ UNCHANGED <<queue, beat>>
  /\ UNCHANGED <<store, mem, up, at, local, lease, settled, saved, clock, faults>>

\* The step begins, unless the signal was aborted since the renewal.
Act(w) ==
  /\ at[w] = "cleared"
  /\ Goto(w, IF lost[w] THEN "failed" ELSE "acting")
  /\ UNCHANGED <<store, mem, queue, up, local, lease, lost, beat, settled, saved,
                 clock, faults>>

\* Its result is memoized in the cache of this replay.
StepReturns(w) ==
  /\ at[w] = "acting"
  /\ local' = [local EXCEPT ![w].cache = @ \cup {Here(w)}]
  /\ Goto(w, "body")
  /\ UNCHANGED <<store, mem, queue, up, lease, lost, beat, settled, saved, clock, faults>>

\* The body throws: its step, its own code, or on the caller's abort.
BodyThrows(w) ==
  /\ at[w] \in {"body", "cleared", "acting"}
  /\ Goto(w, "failed")
  /\ UNCHANGED <<store, mem, queue, up, local, lease, lost, beat, settled, saved,
                 clock, faults>>

\* The record of the outcome: the body threw, met a gate that is not decided,
\* or returned.  (A body that catches what a failed step threw returns, and is
\* recorded as an error in the end, too: both are terminal.)
OutcomeOf(w) ==
  IF at[w] = "failed" THEN Ended("error")
  ELSE IF Open(local[w]) # {}
         THEN SuspendedAt(Here(w), local[w].cache, local[w].decided)
         ELSE Ended("completed")

\* finishResume of the registry, once the heartbeat in flight has returned.
StartFinish(w) ==
  /\ at[w] = "failed" \/ (at[w] = "body" /\ ~ AtStep(w))
  /\ beat[w] = "waiting"
  /\ IF Owned(Mine(w), w)
       THEN Enqueue(w, "finish", OutcomeOf(w)) /\ Goto(w, "finishing")
       ELSE Goto(w, "refused") /\ UNCHANGED queue
  /\ UNCHANGED <<store, mem, up, local, lease, lost, beat, settled, saved, clock, faults>>

-----------------------------------------------------------------------------
(* What a process does in the file, and the continuation in its registry.  *)
(* An operation may fail before or after the file was replaced.            *)

Faults == {"none", "before", "after"}
Waiting(p, ops) == p \in up /\ queue[p] # << >> /\ Head(queue[p]).op \in ops
Serving(p, allowed, fault) ==
  /\ queue' = [queue EXCEPT ![p] = Tail(@)]
  /\ IF fault = "none" THEN UNCHANGED faults
     ELSE allowed /\ faults < MaxFaults /\ faults' = faults + 1
Write(rec, allowed, fault) ==
  store' = IF allowed /\ fault # "before" THEN rec ELSE store
\* The call is over: nothing of its state matters any more.
Over(w, point) ==
  /\ Goto(w, point)
  /\ local' = [local EXCEPT ![w] = Absent]
  /\ lease' = [lease EXCEPT ![w] = 0]
  /\ lost' = [lost EXCEPT ![w] = FALSE]

ServeClaim(p, fault) ==
  /\ Waiting(p, {"claim"})
  /\ LET o == Head(queue[p])
         w == o.by
         allowed == Claimable(store, o.now) /\ store.gate = o.rec.gate IN
       /\ Serving(p, allowed, fault)
       /\ Write(Claimed(store, w, o.now), allowed, fault)
       /\ IF allowed /\ fault = "none"
            THEN /\ mem' = [mem EXCEPT ![p] = store']
                 /\ local' = [local EXCEPT ![w] = [store' EXCEPT !.decided = @ \cup {store.gate}]]
                 /\ lease' = [lease EXCEPT ![w] = o.now + Lease]
                 /\ Goto(w, "claimed")
                 /\ UNCHANGED lost
            ELSE /\ mem' = [mem EXCEPT ![p] = IF @.claim = w THEN o.rec ELSE @]
                 /\ Over(w, "refused")
       /\ UNCHANGED <<up, beat, settled, saved, clock>>

ServeRenewal(p, fault) ==
  /\ Waiting(p, {"renew", "beat"})
  /\ LET o == Head(queue[p])
         w == o.by
         allowed == Renewable(store, w, clock)
         done == allowed /\ fault = "none" IN
       /\ Serving(p, allowed, fault)
       /\ Write([store EXCEPT !.expires = o.now + Lease], allowed, fault)
       /\ mem' = IF done THEN [mem EXCEPT ![p] = store'] ELSE mem
       /\ lease' = IF done THEN [lease EXCEPT ![w] = o.now + Lease] ELSE lease
       /\ lost' = [lost EXCEPT ![w] = @ \/ ~ done]
       /\ IF o.op = "beat"
            THEN beat' = [beat EXCEPT ![w] = "waiting"] /\ UNCHANGED at
            ELSE /\ Goto(w, IF ~ done THEN "failed"
                            ELSE IF at[w] = "first" THEN "body" ELSE "cleared")
                 /\ UNCHANGED beat
       /\ UNCHANGED <<up, local, settled, saved, clock>>

ServeFinish(p, fault) ==
  /\ Waiting(p, {"finish"})
  /\ LET o == Head(queue[p])
         w == o.by
         allowed == Owned(store, w) IN
       /\ Serving(p, allowed, fault)
       /\ Write(o.rec, allowed, fault)
       /\ settled' = IF allowed /\ fault # "before" THEN Append(settled, <<store.gate, w>>)
                                                    ELSE settled
       /\ saved' = saved \cup store'.cache
       /\ IF allowed /\ fault = "none"
            THEN mem' = [mem EXCEPT ![p] = o.rec] /\ Over(w, "done")
            ELSE UNCHANGED mem /\ Over(w, "refused")
       /\ UNCHANGED <<up, beat, clock>>

-----------------------------------------------------------------------------
(* The environment. *)

Crash(p) ==
  /\ p \in up /\ faults < MaxFaults /\ faults' = faults + 1
  /\ up' = up \ {p}
  /\ mem' = [mem EXCEPT ![p] = Absent]
  /\ queue' = [queue EXCEPT ![p] = << >>]
  /\ LET died == {w \in Workers : ProcOf[w] = p /\ at[w] \notin {"idle", "done", "refused"}} IN
       /\ at' = [w \in Workers |-> IF w \in died THEN "dead" ELSE at[w]]
       /\ local' = [w \in Workers |-> IF w \in died THEN Absent ELSE local[w]]
       /\ lease' = [w \in Workers |-> IF w \in died THEN 0 ELSE lease[w]]
       /\ lost' = [w \in Workers |-> lost[w] /\ w \notin died]
       /\ beat' = [w \in Workers |-> IF w \in died THEN "waiting" ELSE beat[w]]
  /\ UNCHANGED <<store, settled, saved, clock>>

\* A new process hydrates its registry from the file.
Restart(p) ==
  /\ p \notin up
  /\ up' = up \cup {p}
  /\ mem' = [mem EXCEPT ![p] = store]
  /\ UNCHANGED <<store, queue, call, settled, saved, clock, faults>>

Tick ==
  /\ clock < MaxClock /\ clock' = clock + 1
  /\ UNCHANGED <<store, mem, queue, up, call, settled, saved, faults>>

Progress(w) == StartRenewal(w) \/ Act(w) \/ StepReturns(w) \/ BodyThrows(w) \/ StartFinish(w)
Serve(p) == \E fault \in Faults :
              ServeClaim(p, fault) \/ ServeRenewal(p, fault) \/ ServeFinish(p, fault)
Next ==
  \/ \E w \in Workers : StartClaim(w) \/ Progress(w) \/ Heartbeat(w)
  \/ \E p \in Procs : Serve(p) \/ Crash(p) \/ Restart(p)
  \/ Tick

\* The event loop runs, steps return or throw, the file lock is granted, time
\* passes, and a human who is told of a conflict has the resume tried again.
Fairness ==
  /\ \A w \in Workers : WF_vars(Progress(w)) /\ WF_vars(StartClaim(w))
  /\ \A p \in Procs : WF_vars(Serve(p)) /\ WF_vars(Restart(p))
  /\ WF_vars(Tick)
Spec == Init /\ [][Next]_vars
FairSpec == Spec /\ Fairness

-----------------------------------------------------------------------------
(* Properties. *)

Holding(w) == at[w] \in Working \cup {"failed", "finishing"}

\* Of two calls that both were granted the run, one knows that its lease is
\* over: a call that trusts its clock replays the body alone.
LeaseExclusive ==
  \A v, w \in Workers :
    v # w /\ Holding(v) /\ Holding(w) => lease[v] <= clock \/ lease[w] <= clock

\* Every gate is left by one call, and the gates are left in the order of the
\* body: whatever crashes, expires or fails, a decision is applied once.
GatesDecidedOnce ==
  \A i, j \in DOMAIN settled : i < j => settled[i][1] < settled[j][1]

\* "Replaying memoized results: their fns are NOT re-invoked."  A step whose
\* result a finished resume has persisted runs again only in a call that has
\* outlived its lease between the renewal and the effect.
SavedStepsStay ==
  \A w \in Workers :
    at[w] \in {"cleared", "acting"} /\ Here(w) \in saved => lease[w] <= clock

\* Every call of resumeWorkflow returns or throws, if its process lives.
ResumeReturns == <>[](\A w \in Workers : at[w] \in {"idle", "done", "refused", "dead"})

\* A run whose resume died or failed is taken over once its lease is over, if
\* there is another call, in a registry that knows the gate.
Orphaned(w) ==
  /\ store.claim = w /\ at[w] \in {"dead", "refused"} /\ store.expires <= clock
  /\ \E v \in Workers : /\ at[v] = "idle" /\ ProcOf[v] \in up
                        /\ Mine(v).gate = store.gate /\ Mine(v).expires <= clock
TakenOver == <>[](\A w \in Workers : ~ Orphaned(w))
=============================================================================
