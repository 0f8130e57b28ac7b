------------------------ MODULE WorkflowResumeProofs ------------------------
(***************************************************************************)
(* Resumes of a workflow run, for any number of processes, calls, gates    *)
(* and steps, any lease, and any number of crashes and failed store        *)
(* operations: of two calls that were granted the run one knows that its   *)
(* lease is over (LeaseExclusive), gates are decided once and in order     *)
(* (GatesDecidedOnce), and what a finished resume saved is not executed    *)
(* again within a lease (SavedStepsStay).                                  *)
(*                                                                         *)
(* The file is the arbiter.  A call whose lease is not over owns the       *)
(* record in the file, with at least that lease (LeaseOK), and a call that *)
(* owns it has replayed more than the file holds, its gate included        *)
(* (ReplayOK); what it will write at the end therefore lies after the gate *)
(* of the file (EndingOK).  The rest says what may wait in the queue of a  *)
(* process (QueueOK, Ordered).                                             *)
(***************************************************************************)
EXTENDS WorkflowResume, SequenceTheorems, WellFoundedInduction, TLAPS

Ops(p) == {queue[p][i] : i \in DOMAIN queue[p]}

\* The order of a queue: by time, and a call has one operation besides its
\* heartbeat.
Before(o, r) == o.now <= r.now /\ (o.by = r.by => o.op = "beat" \/ r.op = "beat")
Ordered ==
  \A p \in Procs : \A i, j \in DOMAIN queue[p] :
    i < j => Before(queue[p][i], queue[p][j])

OpOK(p, o) ==
  /\ ProcOf[o.by] = p /\ o.now <= clock /\ lease[o.by] <= o.now + Lease
  /\ o.op = "claim" => at[o.by] = "claiming"
  /\ o.op = "finish" => at[o.by] = "finishing"
  /\ o.op = "renew" => at[o.by] \in {"first", "renewing"}
QueueOK == \A p \in Procs : \A o \in Ops(p) : OpOK(p, o)

LeaseOK ==
  \A w \in Workers :
    /\ lease[w] <= clock + Lease
    /\ Holding(w) /\ lease[w] > clock => Owned(store, w) /\ store.expires >= lease[w]

Live(rec) == rec.status \in {"suspended", "resuming"}
\* The replay has passed all that comes before i.
Passed(rec, i) == \A j \in DOMAIN Body : j < i => j \in rec.cache \cup rec.decided
RecordOK(rec) == Live(rec) => rec.gate \in Gates /\ Passed(rec, rec.gate)

StoreOK ==
  /\ RecordOK(store)
  /\ Live(store) => /\ saved \subseteq store.cache
                    /\ \A i \in DOMAIN settled : settled[i][1] < store.gate

ReplayOK ==
  \A w \in Workers : Holding(w) =>
    /\ at[w] \in {"renewing", "cleared", "acting"} => AtStep(w)
    /\ Owned(store, w) => /\ store.cache \subseteq local[w].cache
                          /\ Passed(local[w], store.gate + 1)

\* What waits to be written at the end of a resume.
Ending(o) ==
  o.op = "finish" =>
    /\ o.rec.status # "resuming" /\ RecordOK(o.rec)
    /\ Live(o.rec) /\ Owned(store, o.by) =>
         store.cache \subseteq o.rec.cache /\ store.gate < o.rec.gate
EndingOK == \A p \in Procs : \A o \in Ops(p) : Ending(o)

IInv ==
  /\ TypeOK /\ Ordered /\ QueueOK /\ LeaseOK /\ StoreOK /\ ReplayOK /\ EndingOK
  /\ GatesDecidedOnce

-----------------------------------------------------------------------------
LEMMA BodyFacts ==
  /\ \A i \in DOMAIN Body : i \in Nat /\ i # NoGate
  /\ \A i \in DOMAIN Body : i \in Steps \/ i \in Gates
  /\ Steps \subseteq DOMAIN Body /\ Gates \subseteq DOMAIN Body /\ Steps \cap Gates = {}
  /\ Gates # {} /\ Lease \in Nat /\ Lease > 0 /\ MaxClock \in Nat /\ MaxFaults \in Nat
<1>1. DOMAIN Body = 1..Len(Body) /\ Len(Body) \in Nat
      /\ \A i \in DOMAIN Body : Body[i] \in {"step", "gate"}
  BY ResumeAssumption, LenProperties
<1> QED BY <1>1, ResumeAssumption DEF Steps, Gates, NoGate

LEMMA MinOfBody ==
  ASSUME NEW S \in SUBSET DOMAIN Body, S # {}
  PROVE  Min(S) \in S /\ \A s \in S : Min(S) <= s
<1>1. S \subseteq Nat
  BY BodyFacts
<1>2. PICK x \in S : \A y \in S : ~ (<<y, x>> \in OpToRel(<, Nat))
  BY <1>1, NatLessThanWellFounded, WFMin
<1>3. \A y \in S : ~ (y < x)
  BY <1>1, <1>2 DEF OpToRel
<1>4. \A y \in S : x =< y
  BY <1>1, <1>3
<1> QED BY <1>4, Zenon DEF Min

\* Where the replay stands.
LEMMA HereFacts ==
  ASSUME NEW w \in Workers, Open(local[w]) # {}
  PROVE  /\ Here(w) \in DOMAIN Body /\ Here(w) \notin local[w].cache
         /\ Here(w) \notin local[w].decided
         /\ Passed(local[w], Here(w))
         /\ \A i : Passed(local[w], i) /\ i \in Nat => i <= Here(w)
<1>1. Here(w) \in Open(local[w]) /\ \A i \in Open(local[w]) : Here(w) <= i
  BY MinOfBody DEF Here, Open
<1>2. Here(w) \in DOMAIN Body /\ Here(w) \notin local[w].cache \cup local[w].decided
  BY <1>1 DEF Open
<1>3. Passed(local[w], Here(w))
  <2> SUFFICES ASSUME NEW j \in DOMAIN Body, j < Here(w)
               PROVE  j \in local[w].cache \cup local[w].decided
    BY DEF Passed
  <2> QED BY <1>1, <1>2, BodyFacts DEF Open
<1>4. ASSUME NEW i, Passed(local[w], i), i \in Nat PROVE i <= Here(w)
  BY <1>2, <1>4, BodyFacts DEF Passed
<1> QED BY <1>2, <1>3, <1>4

LEMMA AppendFacts ==
  ASSUME NEW S, NEW q \in Seq(S), NEW x \in S
  PROVE  /\ Append(q, x) \in Seq(S)
         /\ \A i \in DOMAIN Append(q, x) :
              \/ i \in DOMAIN q /\ Append(q, x)[i] = q[i]
              \/ i = Len(q) + 1 /\ Append(q, x)[i] = x
         /\ \A i \in DOMAIN q : i \in Nat /\ i < Len(q) + 1
BY AppendProperties, LenProperties

LEMMA TailFacts ==
  ASSUME NEW S, NEW q \in Seq(S), q # << >>
  PROVE  /\ Tail(q) \in Seq(S) /\ Head(q) \in S /\ Head(q) = q[1] /\ 1 \in DOMAIN q
         /\ \A i \in DOMAIN Tail(q) :
              i \in Nat /\ i + 1 \in DOMAIN q /\ 1 < i + 1 /\ Tail(q)[i] = q[i + 1]
<1>1. Len(q) \in Nat /\ Len(q) > 0 /\ DOMAIN q = 1..Len(q)
  BY LenProperties, EmptySeq
<1>2. /\ Tail(q) \in Seq(S) /\ Head(q) \in S /\ Len(Tail(q)) = Len(q) - 1
      /\ \A i \in 1..Len(Tail(q)) : Tail(q)[i] = q[i + 1]
  BY HeadTailProperties
<1>3. DOMAIN Tail(q) = 1..Len(Tail(q))
  BY <1>2, LenProperties
<1>4. Head(q) = q[1]
  OBVIOUS
<1> QED BY <1>1, <1>2, <1>3, <1>4

\* An operation is put at the end of a queue.
LEMMA Enqueued ==
  ASSUME queue \in [Procs -> Seq(Operation)], Ordered, NEW p \in Procs,
         NEW o \in Operation, \A r \in Ops(p) : Before(r, o),
         queue' = [queue EXCEPT ![p] = Append(@, o)]
  PROVE  /\ queue' \in [Procs -> Seq(Operation)] /\ Ordered'
         /\ \A q \in Procs : \A r \in Ops(q)' : r \in Ops(q) \/ (q = p /\ r = o)
<1>1. queue[p] \in Seq(Operation) /\ queue'[p] = Append(queue[p], o)
  OBVIOUS
<1>2. \A q \in Procs : q # p => queue'[q] = queue[q]
  OBVIOUS
<1>3. queue' \in [Procs -> Seq(Operation)]
  BY <1>1, AppendFacts
<1>4. ASSUME NEW i \in DOMAIN queue'[p]
      PROVE  \/ i \in DOMAIN queue[p] /\ queue'[p][i] = queue[p][i]
             \/ i = Len(queue[p]) + 1 /\ queue'[p][i] = o
  BY <1>1, <1>4, AppendFacts
<1>5. ASSUME NEW q \in Procs, NEW i \in DOMAIN queue'[q], NEW j \in DOMAIN queue'[q], i < j
      PROVE  Before(queue'[q][i], queue'[q][j])
  <2>1. CASE q # p
    BY <1>2, <1>5, <2>1 DEF Ordered
  <2>2. CASE q = p
    <3>1. \A k \in DOMAIN queue[p] : k \in Nat /\ k < Len(queue[p]) + 1
      BY <1>1, AppendFacts
    <3>2. i \in DOMAIN queue[p] /\ queue'[p][i] = queue[p][i]
      <4>1. Len(queue[p]) \in Nat
        BY <1>1, LenProperties
      <4> QED BY <1>4, <1>5, <2>2, <3>1, <4>1
    <3>3. queue[p][i] \in Ops(p)
      BY <3>2 DEF Ops
    <3> QED BY <1>4, <1>5, <2>2, <3>2, <3>3 DEF Ordered
  <2> QED BY <2>1, <2>2
<1>6. ASSUME NEW q \in Procs, NEW r \in Ops(q)' PROVE r \in Ops(q) \/ (q = p /\ r = o)
  <2>1. PICK i \in DOMAIN queue'[q] : r = queue'[q][i]
    BY <1>6 DEF Ops
  <2> QED BY <1>2, <1>4, <2>1 DEF Ops
<1> QED BY <1>3, <1>5, <1>6 DEF Ordered

\* The first operation of a queue is served.
LEMMA Dequeued ==
  ASSUME queue \in [Procs -> Seq(Operation)], Ordered, NEW p \in Procs,
         queue[p] # << >>, queue' = [queue EXCEPT ![p] = Tail(@)]
  PROVE  /\ queue' \in [Procs -> Seq(Operation)] /\ Ordered'
         /\ Head(queue[p]) \in Ops(p) /\ Head(queue[p]) \in Operation
         /\ \A q \in Procs : Ops(q)' \subseteq Ops(q)
         /\ \A r \in Ops(p)' : Before(Head(queue[p]), r)
<1>1. queue[p] \in Seq(Operation) /\ queue'[p] = Tail(queue[p])
  OBVIOUS
<1>2. \A q \in Procs : q # p => queue'[q] = queue[q]
  OBVIOUS
<1>3. /\ Tail(queue[p]) \in Seq(Operation) /\ Head(queue[p]) \in Operation
      /\ Head(queue[p]) = queue[p][1] /\ 1 \in DOMAIN queue[p]
      /\ \A i \in DOMAIN queue'[p] :
           i \in Nat /\ i + 1 \in DOMAIN queue[p] /\ 1 < i + 1 /\ queue'[p][i] = queue[p][i + 1]
  BY <1>1, TailFacts
<1>4. queue' \in [Procs -> Seq(Operation)]
  BY <1>3
<1>5. Ordered'
  <2> SUFFICES ASSUME NEW q \in Procs, NEW i \in DOMAIN queue'[q],
                      NEW j \in DOMAIN queue'[q], i < j
               PROVE  Before(queue'[q][i], queue'[q][j])
    BY DEF Ordered
  <2>1. CASE q # p
    BY <1>2, <2>1 DEF Ordered
  <2>2. CASE q = p
    <3>1. i + 1 \in DOMAIN queue[p] /\ j + 1 \in DOMAIN queue[p] /\ i + 1 < j + 1
      BY <1>3, <2>2
    <3> QED BY <1>3, <2>2, <3>1 DEF Ordered
  <2> QED BY <2>1, <2>2
<1>6. \A q \in Procs : Ops(q)' \subseteq Ops(q)
  <2> SUFFICES ASSUME NEW q \in Procs, NEW i \in DOMAIN queue'[q]
               PROVE  queue'[q][i] \in Ops(q)
    BY DEF Ops
  <2> QED BY <1>2, <1>3 DEF Ops
<1>7. ASSUME NEW r \in Ops(p)' PROVE Before(Head(queue[p]), r)
  <2>1. PICK i \in DOMAIN queue'[p] : r = queue'[p][i]
    BY <1>7 DEF Ops
  <2> QED BY <1>3, <2>1 DEF Ordered
<1> QED BY <1>3, <1>4, <1>5, <1>6, <1>7 DEF Ops

LEMMA InitOK == Init => IInv
<1> SUFFICES ASSUME Init PROVE IInv
  OBVIOUS
<1> DEFINE g == Min(Gates)
<1>1. g \in Gates /\ \A i \in Gates : g <= i
  BY MinOfBody, BodyFacts
<1> HIDE DEF g
<1>2. store = SuspendedAt(g, {i \in Steps : i < g}, {})
  BY DEF Init, g
<1>3. /\ store.status = "suspended" /\ store.gate = g /\ store.decided = {}
      /\ store.cache = {i \in Steps : i < g} /\ store.claim = NoWorker /\ store.expires = 0
  BY <1>2 DEF SuspendedAt, Ended
<1>4. store \in Record
  <2>1. /\ store.gate \in Gates \cup {NoGate} /\ store.cache \in SUBSET Steps
        /\ store.decided \in SUBSET Gates /\ store.expires \in Times
    BY <1>1, <1>3, BodyFacts DEF Times
  <2>2. store = [status |-> "suspended", gate |-> g, cache |-> {i \in Steps : i < g},
                 decided |-> {}, claim |-> NoWorker, expires |-> 0]
    BY <1>2 DEF SuspendedAt, Ended
  <2> QED BY <1>1, <1>3, <2>1, <2>2 DEF Record
<1>5. Absent \in Record
  BY BodyFacts DEF Absent, Ended, Record, Times
<1>6. TypeOK
  <2>1. << >> \in Seq(Operation) /\ << >> \in Seq(Gates \X Workers)
    BY EmptySeq
  <2>2. 0 \in Times /\ 0 \in 0..MaxClock /\ 0 \in 0..MaxFaults
    BY BodyFacts DEF Times
  <2>3. saved \subseteq Steps
    BY <1>3 DEF Init
  <2> QED BY <1>4, <1>5, <2>1, <2>2, <2>3, ResumeAssumption DEF Init, TypeOK, Points
<1>7. \A p \in Procs : Ops(p) = {} /\ DOMAIN queue[p] = {}
  <2>1. DOMAIN << >> = {}
    OBVIOUS
  <2> QED BY <2>1 DEF Init, Ops
<1>8. Ordered /\ QueueOK /\ EndingOK
  BY <1>7 DEF Ordered, QueueOK, EndingOK
<1>9. \A w \in Workers : ~ Holding(w) /\ lease[w] = 0 /\ clock = 0
  BY DEF Init, Holding, Working
<1>10. LeaseOK /\ ReplayOK
  BY <1>9, BodyFacts DEF LeaseOK, ReplayOK
<1>11. settled = << >> /\ saved = store.cache
  BY DEF Init
<1>12. StoreOK /\ GatesDecidedOnce
  <2>1. DOMAIN settled = {}
    BY <1>11
  <2>2. Passed(store, store.gate)
    BY <1>1, <1>3, BodyFacts DEF Passed
  <2> QED BY <1>1, <1>3, <1>11, <2>1, <2>2 DEF StoreOK, RecordOK, Live, GatesDecidedOnce
<1> QED BY <1>6, <1>8, <1>10, <1>12 DEF IInv

-----------------------------------------------------------------------------
\* A call works on in its process: what the file holds and says stays.
LEMMA WorkerStep ==
  ASSUME IInv, TypeOK', Ordered', QueueOK', EndingOK', NEW w \in Workers,
         UNCHANGED <<store, lease, settled, saved, clock>>,
         \A v \in Workers : Holding(v)' => Holding(v),
         \A v \in Workers : v # w => at'[v] = at[v] /\ local'[v] = local[v],
         Holding(w)' =>
           /\ local[w].cache \subseteq local'[w].cache /\ local'[w].decided = local[w].decided
           /\ at'[w] \in {"renewing", "cleared", "acting"} => AtStep(w)'
  PROVE  IInv'
<1>1. LeaseOK'
  BY DEF IInv, LeaseOK, Owned
<1>2. StoreOK' /\ GatesDecidedOnce'
  BY DEF IInv, StoreOK, RecordOK, Live, Passed, GatesDecidedOnce
<1>3. ReplayOK'
  <2> SUFFICES ASSUME NEW v \in Workers, Holding(v)'
               PROVE  /\ at'[v] \in {"renewing", "cleared", "acting"} => AtStep(v)'
                      /\ Owned(store, v) => /\ store.cache \subseteq local'[v].cache
                                            /\ Passed(local'[v], store.gate + 1)
    BY DEF ReplayOK, Owned
  <2>1. /\ at[v] \in {"renewing", "cleared", "acting"} => AtStep(v)
        /\ Owned(store, v) => /\ store.cache \subseteq local[v].cache
                              /\ Passed(local[v], store.gate + 1)
    BY DEF IInv, ReplayOK
  <2>2. CASE v # w
    BY <2>1, <2>2 DEF AtStep, Here, Open
  <2>3. CASE v = w
    BY <2>1, <2>3 DEF Passed
  <2> QED BY <2>2, <2>3
<1> QED BY <1>1, <1>2, <1>3 DEF IInv

\* A record that waits to be written does not depend on what the file's lease is.
LEMMA EndingKept ==
  ASSUME NEW o \in Operation, Ending(o),
         Owned(store', o.by) => Owned(store, o.by) /\ store'.cache = store.cache
                                /\ store'.gate = store.gate
  PROVE  Ending(o)'
BY DEF Ending, RecordOK, Live, Passed

\* A call without an operation of its own but the heartbeat.
LEMMA FreeOf ==
  ASSUME IInv, NEW w \in Workers,
         at[w] \notin {"claiming", "first", "renewing", "finishing"},
         NEW p \in Procs, NEW r \in Ops(p), r.by = w
  PROVE  r.op = "beat"
<1>1. r \in Operation
  BY DEF IInv, TypeOK, Ops
<1>2. OpOK(p, r)
  BY DEF IInv, QueueOK
<1> QED BY <1>1, <1>2 DEF OpOK, Operation

LEMMA OpTypes ==
  ASSUME TypeOK, NEW p \in Procs, NEW r \in Ops(p)
  PROVE  /\ r \in Operation /\ r.by \in Workers /\ r.now \in 0..MaxClock /\ r.now \in Nat
         /\ r.rec \in Record /\ r.op \in {"claim", "renew", "beat", "finish"}
<1>1. r \in Operation
  BY DEF TypeOK, Ops
<1> QED BY <1>1, BodyFacts DEF Operation

\* A call hands an operation to its process.
LEMMA Handed ==
  ASSUME IInv, NEW w \in Workers, NEW op \in {"claim", "renew", "beat", "finish"},
         NEW rec \in Record,
         at[w] \notin {"claiming", "first", "renewing", "finishing"} \/ op = "beat",
         Enqueue(w, op, rec), UNCHANGED <<store, lease, clock>>,
         \A v \in Workers : v # w => at'[v] = at[v],
         op = "beat" => at'[w] = at[w],
         op = "claim" => at'[w] = "claiming",
         op = "finish" => at'[w] = "finishing",
         op = "renew" => at'[w] \in {"first", "renewing"},
         op = "finish" => Ending([op |-> op, by |-> w, now |-> clock, rec |-> rec])
  PROVE  queue' \in [Procs -> Seq(Operation)] /\ Ordered' /\ QueueOK' /\ EndingOK'
<1>p. PICK p : p = ProcOf[w]
  OBVIOUS
<1>o. PICK o : o = [op |-> op, by |-> w, now |-> clock, rec |-> rec]
  OBVIOUS
<1>1. p \in Procs
  BY <1>p, ResumeAssumption
<1>2. o \in Operation
  BY <1>o DEF Operation, IInv, TypeOK
<1>3. queue' = [queue EXCEPT ![p] = Append(@, o)]
  BY <1>p, <1>o DEF Enqueue
<1>4. ASSUME NEW r \in Ops(p) PROVE Before(r, o)
  <2>1. OpOK(p, r)
    BY <1>1 DEF IInv, QueueOK
  <2>2. r.by = w => r.op = "beat" \/ op = "beat"
    BY <1>1, FreeOf
  <2> QED BY <1>o, <2>1, <2>2 DEF Before, OpOK
<1>5. o.op = op /\ o.by = w /\ o.now = clock
  BY <1>o
<1>6. /\ queue' \in [Procs -> Seq(Operation)] /\ Ordered'
      /\ \A q \in Procs : \A r \in Ops(q)' : r \in Ops(q) \/ (q = p /\ r = o)
  BY <1>1, <1>2, <1>3, <1>4, Enqueued DEF IInv, TypeOK
<1>7. OpOK(p, o)'
  <2>1. clock \in Nat /\ lease[w] <= clock + Lease
    BY BodyFacts DEF IInv, TypeOK, LeaseOK
  <2> QED BY <1>5, <1>p, <2>1 DEF OpOK
<1>8. ASSUME NEW q \in Procs, NEW r \in Ops(q) PROVE OpOK(q, r)'
  <2>1. OpOK(q, r)
    BY DEF IInv, QueueOK
  <2>2. r.by \in Workers
    BY OpTypes DEF IInv
  <2>3. CASE r.by # w \/ op = "beat"
    BY <2>1, <2>2, <2>3 DEF OpOK
  <2>4. CASE r.by = w /\ op # "beat"
    <3>1. r.op = "beat"
      BY <2>4, FreeOf
    <3> QED BY <2>1, <3>1 DEF OpOK
  <2> QED BY <2>3, <2>4
<1>9. ASSUME NEW q \in Procs, NEW r \in Ops(q) PROVE Ending(r)'
  BY OpTypes, EndingKept DEF IInv, EndingOK
<1>10. Ending(o)'
  <2>1. Ending(o)
    BY <1>5, <1>o DEF Ending
  <2> QED BY <2>1, <1>2, EndingKept DEF Owned
<1>11. QueueOK'
  BY <1>6, <1>7, <1>8 DEF QueueOK
<1>12. EndingOK'
  BY <1>6, <1>9, <1>10 DEF EndingOK
<1> QED BY <1>6, <1>11, <1>12

\* A call moves on without an operation.
LEMMA Moved ==
  ASSUME IInv, NEW w \in Workers, UNCHANGED <<queue, store, lease, clock>>,
         at[w] \notin {"claiming", "first", "renewing", "finishing"},
         \A v \in Workers : v # w => at'[v] = at[v]
  PROVE  queue' \in [Procs -> Seq(Operation)] /\ Ordered' /\ QueueOK' /\ EndingOK'
<1>1. queue' \in [Procs -> Seq(Operation)] /\ Ordered' /\ \A q : Ops(q)' = Ops(q)
  BY DEF IInv, TypeOK, Ordered, Ops
<1>2. ASSUME NEW q \in Procs, NEW r \in Ops(q) PROVE OpOK(q, r)'
  <2>1. OpOK(q, r)
    BY DEF IInv, QueueOK
  <2>2. r.by \in Workers
    BY OpTypes DEF IInv
  <2>3. CASE r.by # w
    BY <2>1, <2>2, <2>3 DEF OpOK
  <2>4. CASE r.by = w
    <3>1. r.op = "beat"
      BY <2>4, FreeOf
    <3> QED BY <2>1, <3>1 DEF OpOK
  <2> QED BY <2>3, <2>4
<1>3. ASSUME NEW q \in Procs, NEW r \in Ops(q) PROVE Ending(r)'
  BY OpTypes, EndingKept DEF IInv, EndingOK
<1>4. QueueOK'
  BY <1>1, <1>2 DEF QueueOK
<1>5. EndingOK'
  BY <1>1, <1>3 DEF EndingOK
<1> QED BY <1>1, <1>4, <1>5

-----------------------------------------------------------------------------
(* What a call does in its process. *)

LEMMA RecordTypes ==
  ASSUME TypeOK
  PROVE  /\ \A p \in Procs : mem[p] \in Record
         /\ store \in Record /\ Absent \in Record
         /\ \A w \in Workers : local[w] \in Record /\ ProcOf[w] \in Procs
         /\ \A r \in Record : /\ r.cache \subseteq Steps /\ r.decided \subseteq Gates
                              /\ r.expires \in Nat /\ r.gate \in Gates \cup {NoGate}
         /\ clock \in Nat /\ clock <= MaxClock
<1>1. Absent \in Record
  BY BodyFacts DEF Absent, Ended, Record, Times
<1>2. Times \subseteq Nat
  BY BodyFacts DEF Times
<1>3. clock \in Nat /\ clock <= MaxClock
  BY BodyFacts DEF TypeOK
<1>4. \A r \in Record : /\ r.cache \subseteq Steps /\ r.decided \subseteq Gates
                       /\ r.expires \in Nat /\ r.gate \in Gates \cup {NoGate}
  BY <1>2 DEF Record
<1>5. \A p \in Procs : mem[p] \in Record
  BY DEF TypeOK
<1>6. \A w \in Workers : local[w] \in Record /\ ProcOf[w] \in Procs
  BY ResumeAssumption DEF TypeOK
<1> QED BY <1>1, <1>3, <1>4, <1>5, <1>6 DEF TypeOK

LEMMA ClaimedOK ==
  ASSUME NEW rec \in Record, NEW w \in Workers, NEW now \in 0..MaxClock
  PROVE  Claimed(rec, w, now) \in Record
<1>1. now + Lease \in Times
  BY BodyFacts DEF Times
<1> QED BY <1>1 DEF Claimed, Record

\* A call that works does not wait for its claim or its end.
LEMMA StartClaimOK ==
  ASSUME IInv, NEW w \in Workers, StartClaim(w) PROVE IInv'
<1>1. at' = [at EXCEPT ![w] = "claiming"] /\ at[w] = "idle"
  BY DEF StartClaim, Goto
<1>2. UNCHANGED <<store, up, local, lease, lost, beat, settled, saved, clock, faults>>
  BY DEF StartClaim
<1>3. Mine(w) \in Record
  BY RecordTypes DEF IInv, Mine
<1>4. at'[w] = "claiming" /\ \A v \in Workers : v # w => at'[v] = at[v]
  BY <1>1 DEF IInv, TypeOK
<1>5. queue' \in [Procs -> Seq(Operation)] /\ Ordered' /\ QueueOK' /\ EndingOK'
  <2>1. Enqueue(w, "claim", Mine(w))
    BY DEF StartClaim
  <2> QED BY <2>1, <1>1, <1>2, <1>3, <1>4, Handed
<1>6. mem' \in [Procs -> Record]
  <2>1. mem' = [mem EXCEPT ![ProcOf[w]] = Claimed(@, w, clock)]
    BY DEF StartClaim
  <2>2. ProcOf[w] \in Procs /\ clock \in 0..MaxClock /\ mem[ProcOf[w]] \in Record
    BY RecordTypes DEF IInv, TypeOK
  <2> QED BY <2>1, <2>2, ClaimedOK DEF IInv, TypeOK
<1>7. TypeOK'
  <2>1. at' \in [Workers -> Points]
    BY <1>1 DEF IInv, TypeOK, Points
  <2> QED BY <1>2, <1>5, <1>6, <2>1 DEF IInv, TypeOK
<1>8. \A v \in Workers : Holding(v)' => Holding(v) /\ v # w
  BY <1>4 DEF Holding, Working
<1> QED BY <1>2, <1>4, <1>5, <1>7, <1>8, WorkerStep

LEMMA StartRenewalOK ==
  ASSUME IInv, NEW w \in Workers, StartRenewal(w) PROVE IInv'
<1>1. /\ at[w] \in {"claimed", "body"} /\ (at[w] = "body" => AtStep(w))
      /\ UNCHANGED <<store, mem, up, local, lease, beat, settled, saved, clock, faults>>
  BY DEF StartRenewal
<1>2. PICK x : /\ at' = [at EXCEPT ![w] = x]
               /\ x = (IF at[w] = "claimed" THEN "first" ELSE "renewing") \/ x = "failed"
  BY DEF StartRenewal, Goto
<1>3. at'[w] = x /\ \A v \in Workers : v # w => at'[v] = at[v]
  BY <1>2 DEF IInv, TypeOK
<1>4. queue' \in [Procs -> Seq(Operation)] /\ Ordered' /\ QueueOK' /\ EndingOK'
  <2>1. CASE ~ lost[w] /\ Renewable(Mine(w), w, clock)
    <3>1. Enqueue(w, "renew", Absent) /\ at'[w] \in {"first", "renewing"}
      BY <2>1, <1>1 DEF StartRenewal, Goto, IInv, TypeOK
    <3>2. Absent \in Record
      BY RecordTypes DEF IInv
    <3> QED BY <3>1, <3>2, <1>1, <1>3, Handed
  <2>2. CASE ~ (~ lost[w] /\ Renewable(Mine(w), w, clock))
    <3>1. UNCHANGED queue
      BY <2>2 DEF StartRenewal
    <3> QED BY <3>1, <1>1, <1>3, Moved
  <2> QED BY <2>1, <2>2
<1>5. TypeOK'
  <2>1. at' \in [Workers -> Points]
    BY <1>2 DEF IInv, TypeOK, Points, Working
  <2>2. lost' \in [Workers -> BOOLEAN]
    BY DEF StartRenewal, IInv, TypeOK
  <2> QED BY <1>1, <1>4, <2>1, <2>2 DEF IInv, TypeOK
<1>6. \A v \in Workers : Holding(v)' => Holding(v)
  BY <1>1, <1>3 DEF Holding, Working
<1>7. at'[w] \in {"renewing", "cleared", "acting"} => AtStep(w)'
  <2>1. AtStep(w)' <=> AtStep(w)
    BY <1>1 DEF AtStep, Here, Open
  <2> QED BY <2>1, <1>1, <1>2, <1>3
<1> QED BY <1>1, <1>3, <1>4, <1>5, <1>6, <1>7, WorkerStep

LEMMA HeartbeatOK ==
  ASSUME IInv, NEW w \in Workers, Heartbeat(w) PROVE IInv'
<1>1. UNCHANGED <<store, mem, up, at, local, lease, settled, saved, clock, faults>>
  BY DEF Heartbeat
<1>2. queue' \in [Procs -> Seq(Operation)] /\ Ordered' /\ QueueOK' /\ EndingOK'
  <2>1. CASE Renewable(Mine(w), w, clock)
    <3>1. Enqueue(w, "beat", Absent)
      BY <2>1 DEF Heartbeat
    <3>2. Absent \in Record
      BY RecordTypes DEF IInv
    <3> QED BY <3>1, <3>2, <1>1, Handed
  <2>2. CASE ~ Renewable(Mine(w), w, clock)
    <3>1. UNCHANGED queue
      BY <2>2 DEF Heartbeat
    <3>2. UNCHANGED <<at, clock, lease, store>> /\ \A q : Ops(q)' = Ops(q)
      BY <1>1, <3>1 DEF Ops
    <3>3. QueueOK' /\ Ordered'
      BY <3>1, <3>2 DEF IInv, QueueOK, OpOK, Ordered
    <3>4. EndingOK'
      BY <3>2 DEF IInv, EndingOK, Ending, RecordOK, Live, Passed, Owned
    <3> QED BY <3>1, <3>3, <3>4 DEF IInv, TypeOK
  <2> QED BY <2>1, <2>2
<1>3. TypeOK'
  <2>1. lost' \in [Workers -> BOOLEAN] /\ beat' \in [Workers -> {"waiting", "queued"}]
    BY DEF Heartbeat, IInv, TypeOK
  <2> QED BY <1>1, <1>2, <2>1 DEF IInv, TypeOK
<1>4. \A v \in Workers : Holding(v)' = Holding(v)
  BY <1>1 DEF Holding
<1>5. Holding(w) /\ at[w] \in {"renewing", "cleared", "acting"} => AtStep(w)'
  BY <1>1 DEF IInv, ReplayOK, AtStep, Here, Open
<1> QED BY <1>1, <1>2, <1>3, <1>4, <1>5, WorkerStep

\* A call that moves on within the body.
LEMMA InBodyOK ==
  ASSUME IInv, NEW w \in Workers, Act(w) \/ StepReturns(w) \/ BodyThrows(w) PROVE IInv'
<1>1. /\ UNCHANGED <<store, mem, queue, up, lease, lost, beat, settled, saved, clock, faults>>
      /\ at[w] \in {"body", "cleared", "acting"}
  BY DEF Act, StepReturns, BodyThrows
<1>2. PICK x \in {"failed", "acting", "body"} :
        /\ at' = [at EXCEPT ![w] = x]
        /\ x = "acting" => at[w] = "cleared" /\ UNCHANGED local
  BY DEF Act, StepReturns, BodyThrows, Goto
<1>3. at'[w] = x /\ \A v \in Workers : v # w => at'[v] = at[v]
  BY <1>2 DEF IInv, TypeOK
<1>4. queue' \in [Procs -> Seq(Operation)] /\ Ordered' /\ QueueOK' /\ EndingOK'
  BY <1>1, <1>3, Moved
<1>5. AtStep(w) \/ at[w] = "body"
  BY <1>1 DEF IInv, ReplayOK, Holding, Working
<1>6. /\ local' \in [Workers -> Record]
      /\ \A v \in Workers : v # w => local'[v] = local[v]
      /\ local[w].cache \subseteq local'[w].cache /\ local'[w].decided = local[w].decided
  <2>1. CASE StepReturns(w)
    <3>1. local' = [local EXCEPT ![w].cache = @ \cup {Here(w)}]
      BY <2>1 DEF StepReturns
    <3>2. Here(w) \in Steps
      BY <2>1, <1>5 DEF StepReturns, AtStep
    <3>3. local[w] \in Record /\ local[w].cache \subseteq Steps
      BY RecordTypes DEF IInv
    <3>4. local'[w] = [local[w] EXCEPT !.cache = @ \cup {Here(w)}]
      BY <3>1 DEF IInv, TypeOK
    <3>5. /\ local'[w] \in Record /\ local[w].cache \subseteq local'[w].cache
          /\ local'[w].decided = local[w].decided
      BY <3>2, <3>3, <3>4 DEF Record
    <3> QED BY <3>1, <3>5 DEF IInv, TypeOK
  <2>2. CASE Act(w) \/ BodyThrows(w)
    BY <2>2 DEF Act, BodyThrows, IInv, TypeOK
  <2> QED BY <2>1, <2>2
<1>7. TypeOK'
  <2>1. at' \in [Workers -> Points]
    BY <1>2 DEF IInv, TypeOK, Points, Working
  <2> QED BY <1>1, <1>6, <2>1 DEF IInv, TypeOK
<1>8. \A v \in Workers : Holding(v)' => Holding(v)
  BY <1>1, <1>3 DEF Holding, Working
<1>9. at'[w] \in {"renewing", "cleared", "acting"} => AtStep(w)'
  BY <1>1, <1>2, <1>3, <1>5 DEF AtStep, Here, Open
<1> QED BY <1>1, <1>3, <1>4, <1>6, <1>7, <1>8, <1>9, WorkerStep

LEMMA StartFinishOK ==
  ASSUME IInv, NEW w \in Workers, StartFinish(w) PROVE IInv'
<1>1. /\ UNCHANGED <<store, mem, up, local, lease, lost, beat, settled, saved, clock, faults>>
      /\ at[w] = "failed" \/ (at[w] = "body" /\ ~ AtStep(w))
  BY DEF StartFinish
<1>2. PICK x \in {"finishing", "refused"} : at' = [at EXCEPT ![w] = x]
  BY DEF StartFinish, Goto
<1>3. at'[w] = x /\ \A v \in Workers : v # w => at'[v] = at[v]
  BY <1>2 DEF IInv, TypeOK
<1>r. local[w] \in Record /\ local[w].cache \subseteq Steps /\ local[w].decided \subseteq Gates
      /\ store \in Record /\ store.gate \in Gates \cup {NoGate}
  BY RecordTypes DEF IInv
<1>4. OutcomeOf(w) \in Record /\ RecordOK(OutcomeOf(w)) /\ OutcomeOf(w).status # "resuming"
      /\ (Live(OutcomeOf(w)) /\ Owned(store, w) =>
            store.cache \subseteq OutcomeOf(w).cache /\ store.gate < OutcomeOf(w).gate)
  <2>0. 0 \in Times
    BY BodyFacts DEF Times
  <2>1. CASE at[w] = "failed" \/ Open(local[w]) = {}
    <3>1. PICK s \in {"error", "completed"} : OutcomeOf(w) = Ended(s)
      BY <2>1 DEF OutcomeOf
    <3> QED BY <2>0, <3>1 DEF Ended, RecordOK, Live, Record
  <2>2. CASE at[w] = "body" /\ Open(local[w]) # {}
    <3>1. /\ Here(w) \in Gates /\ Here(w) \in Nat /\ Passed(local[w], Here(w))
          /\ \A i : Passed(local[w], i) /\ i \in Nat => i <= Here(w)
      BY <2>2, <1>1, HereFacts, BodyFacts DEF AtStep
    <3>2. OutcomeOf(w) = [status |-> "suspended", gate |-> Here(w), cache |-> local[w].cache,
                          decided |-> local[w].decided, claim |-> NoWorker, expires |-> 0]
      BY <2>2 DEF OutcomeOf, SuspendedAt, Ended
    <3>3. Owned(store, w) => store.cache \subseteq local[w].cache
                             /\ Passed(local[w], store.gate + 1)
      BY <2>2 DEF IInv, ReplayOK, Holding, Working
    <3>4. store.gate + 1 \in Nat /\ store.gate \in Nat
      BY <1>r, BodyFacts DEF NoGate
    <3>5. Owned(store, w) => store.gate < Here(w)
      BY <3>1, <3>3, <3>4
    <3>6. OutcomeOf(w) \in Record
      BY <2>0, <3>1, <3>2, <1>r DEF Record
    <3>7. Passed(OutcomeOf(w), Here(w))
      BY <3>1, <3>2 DEF Passed
    <3> QED BY <3>1, <3>2, <3>3, <3>5, <3>6, <3>7 DEF RecordOK
  <2> QED BY <2>1, <2>2, <1>1
<1>5. queue' \in [Procs -> Seq(Operation)] /\ Ordered' /\ QueueOK' /\ EndingOK'
  <2>1. CASE Owned(Mine(w), w)
    <3>1. Enqueue(w, "finish", OutcomeOf(w)) /\ at'[w] = "finishing"
      BY <2>1 DEF StartFinish, Goto, IInv, TypeOK
    <3> DEFINE o == [op |-> "finish", by |-> w, now |-> clock, rec |-> OutcomeOf(w)]
    <3>2. o.op = "finish" /\ o.by = w /\ o.rec = OutcomeOf(w)
      OBVIOUS
    <3>3. Ending(o)
      <4> HIDE DEF o
      <4> QED BY <3>2, <1>4 DEF Ending
    <3> QED BY <3>1, <3>3, <1>1, <1>3, <1>4, Handed
  <2>2. CASE ~ Owned(Mine(w), w)
    <3>1. UNCHANGED queue
      BY <2>2 DEF StartFinish
    <3> QED BY <3>1, <1>1, <1>3, Moved
  <2> QED BY <2>1, <2>2
<1>6. TypeOK'
  <2>1. at' \in [Workers -> Points]
    BY <1>2 DEF IInv, TypeOK, Points, Working
  <2> QED BY <1>1, <1>5, <2>1 DEF IInv, TypeOK
<1>7. \A v \in Workers : Holding(v)' => Holding(v)
  BY <1>1, <1>3 DEF Holding, Working
<1> QED BY <1>1, <1>2, <1>3, <1>5, <1>6, <1>7, WorkerStep

-----------------------------------------------------------------------------
(* The environment. *)

LEMMA TickOK == ASSUME IInv, Tick PROVE IInv'
<1>1. /\ clock' = clock + 1 /\ clock \in Nat /\ clock' \in 0..MaxClock
      /\ UNCHANGED <<store, mem, queue, up, call, settled, saved, faults>>
  BY BodyFacts DEF Tick, IInv, TypeOK
<1>2. TypeOK'
  BY <1>1 DEF IInv, TypeOK, call
<1>3. Ordered' /\ StoreOK' /\ EndingOK' /\ GatesDecidedOnce'
  BY <1>1 DEF IInv, Ordered, StoreOK, RecordOK, Live, Passed, EndingOK, Ops, Ending, Owned,
              GatesDecidedOnce
<1>4. QueueOK'
  <2> SUFFICES ASSUME NEW p \in Procs, NEW o \in Ops(p) PROVE OpOK(p, o)'
    BY <1>1 DEF QueueOK, Ops
  <2>1. OpOK(p, o) /\ o.now \in Nat
    BY OpTypes DEF IInv, QueueOK
  <2> QED BY <1>1, <2>1 DEF OpOK, call
<1>5. LeaseOK'
  <2> SUFFICES ASSUME NEW w \in Workers
               PROVE  /\ lease[w] <= clock' + Lease
                      /\ Holding(w) /\ lease[w] > clock' =>
                           Owned(store, w) /\ store.expires >= lease[w]
    BY <1>1 DEF LeaseOK, call, Holding, Owned
  <2>1. lease[w] \in Nat
    BY BodyFacts DEF IInv, TypeOK, Times
  <2> QED BY <1>1, <2>1, BodyFacts DEF IInv, LeaseOK
<1>6. ReplayOK'
  BY <1>1 DEF IInv, ReplayOK, call, Holding, AtStep, Here, Open, Owned, Passed
<1> QED BY <1>2, <1>3, <1>4, <1>5, <1>6 DEF IInv

LEMMA RestartOK == ASSUME IInv, NEW p \in Procs, Restart(p) PROVE IInv'
<1>1. UNCHANGED <<store, queue, at, local, lease, lost, beat, settled, saved, clock, faults>>
  BY DEF Restart, call
<1>2. TypeOK'
  BY <1>1 DEF Restart, IInv, TypeOK
<1>3. Ordered' /\ StoreOK' /\ EndingOK' /\ GatesDecidedOnce'
  BY <1>1 DEF IInv, Ordered, StoreOK, RecordOK, Live, Passed, EndingOK, Ops, Ending, Owned,
              GatesDecidedOnce
<1>4. QueueOK' /\ LeaseOK' /\ ReplayOK'
  BY <1>1 DEF IInv, QueueOK, Ops, OpOK, LeaseOK, ReplayOK, Holding, AtStep, Here, Open,
              Owned, Passed
<1> QED BY <1>2, <1>3, <1>4 DEF IInv

LEMMA CrashOK == ASSUME IInv, NEW p \in Procs, Crash(p) PROVE IInv'
<1> DEFINE died == {w \in Workers : ProcOf[w] = p /\ at[w] \notin {"idle", "done", "refused"}}
<1>1. /\ UNCHANGED <<store, settled, saved, clock>>
      /\ queue' = [queue EXCEPT ![p] = << >>] /\ up' = up \ {p}
      /\ mem' = [mem EXCEPT ![p] = Absent]
      /\ faults < MaxFaults /\ faults' = faults + 1
      /\ at' = [w \in Workers |-> IF w \in died THEN "dead" ELSE at[w]]
      /\ local' = [w \in Workers |-> IF w \in died THEN Absent ELSE local[w]]
      /\ lease' = [w \in Workers |-> IF w \in died THEN 0 ELSE lease[w]]
      /\ lost' = [w \in Workers |-> lost[w] /\ w \notin died]
      /\ beat' = [w \in Workers |-> IF w \in died THEN "waiting" ELSE beat[w]]
  BY DEF Crash
<1>2. died \subseteq Workers /\ \A w \in died : ProcOf[w] = p
  OBVIOUS
<1> HIDE DEF died
<1>3. \A w \in Workers : \/ w \in died /\ at'[w] = "dead" /\ lease'[w] = 0
                         \/ w \notin died /\ at'[w] = at[w] /\ lease'[w] = lease[w]
                            /\ local'[w] = local[w]
  BY <1>1
<1>4. queue'[p] = << >> /\ \A q \in Procs : q # p => queue'[q] = queue[q]
  BY <1>1 DEF IInv, TypeOK
<1>5. TypeOK'
  <2>1. queue' \in [Procs -> Seq(Operation)]
    BY <1>1, EmptySeq DEF IInv, TypeOK
  <2>2. mem' \in [Procs -> Record] /\ local' \in [Workers -> Record]
    BY <1>1, RecordTypes DEF IInv, TypeOK
  <2>3. at' \in [Workers -> Points] /\ lease' \in [Workers -> Times]
    BY <1>1, BodyFacts DEF IInv, TypeOK, Points, Times
  <2>4. lost' \in [Workers -> BOOLEAN] /\ beat' \in [Workers -> {"waiting", "queued"}]
    BY <1>1 DEF IInv, TypeOK
  <2>5. faults' \in 0..MaxFaults
    BY <1>1, BodyFacts DEF IInv, TypeOK
  <2> QED BY <1>1, <2>1, <2>2, <2>3, <2>4, <2>5 DEF IInv, TypeOK
<1>6. Ordered'
  <2>1. DOMAIN << >> = {}
    OBVIOUS
  <2> QED BY <1>4, <2>1 DEF IInv, Ordered
<1>7. \A q \in Procs : \A r \in Ops(q)' : r \in Ops(q) /\ q # p /\ r.by \in Workers \ died
  <2>1. DOMAIN << >> = {}
    OBVIOUS
  <2>2. \A q \in Procs : \A r \in Ops(q)' : r \in Ops(q) /\ q # p
    BY <1>4, <2>1 DEF Ops
  <2>3. \A q \in Procs : \A r \in Ops(q) : r.by \in Workers /\ ProcOf[r.by] = q
    BY OpTypes DEF IInv, QueueOK, OpOK
  <2> QED BY <1>2, <2>2, <2>3
<1>8. QueueOK'
  <2> SUFFICES ASSUME NEW q \in Procs, NEW r \in Ops(q)' PROVE OpOK(q, r)'
    BY DEF QueueOK
  <2>1. OpOK(q, r) /\ r.by \in Workers \ died
    BY <1>7 DEF IInv, QueueOK
  <2> QED BY <1>1, <1>3, <2>1 DEF OpOK
<1>9. EndingOK'
  <2> SUFFICES ASSUME NEW q \in Procs, NEW r \in Ops(q)' PROVE Ending(r)'
    BY DEF EndingOK
  <2>1. Ending(r) /\ r \in Operation
    BY <1>7, OpTypes DEF IInv, EndingOK
  <2> QED BY <1>1, <2>1, EndingKept DEF Owned
<1>10. LeaseOK'
  <2> SUFFICES ASSUME NEW w \in Workers
               PROVE  /\ lease'[w] <= clock + Lease
                      /\ Holding(w)' /\ lease'[w] > clock =>
                           Owned(store, w) /\ store.expires >= lease'[w]
    BY <1>1 DEF LeaseOK, Owned
  <2>1. CASE w \in died
    BY <2>1, <1>3, RecordTypes, BodyFacts DEF IInv, Holding, Working
  <2>2. CASE w \notin died
    BY <2>2, <1>3 DEF IInv, LeaseOK, Holding
  <2> QED BY <2>1, <2>2
<1>11. StoreOK' /\ GatesDecidedOnce'
  BY <1>1 DEF IInv, StoreOK, RecordOK, Live, Passed, GatesDecidedOnce
<1>12. ReplayOK'
  <2> SUFFICES ASSUME NEW w \in Workers, Holding(w)'
               PROVE  /\ at'[w] \in {"renewing", "cleared", "acting"} => AtStep(w)'
                      /\ Owned(store, w) => /\ store.cache \subseteq local'[w].cache
                                            /\ Passed(local'[w], store.gate + 1)
    BY <1>1 DEF ReplayOK, Owned
  <2>1. w \notin died /\ Holding(w) /\ at'[w] = at[w] /\ local'[w] = local[w]
    BY <1>3 DEF Holding, Working
  <2> QED BY <2>1 DEF IInv, ReplayOK, AtStep, Here, Open
<1> QED BY <1>5, <1>6, <1>8, <1>9, <1>10, <1>11, <1>12 DEF IInv

-----------------------------------------------------------------------------
(* What a process does in the file. *)

\* The first operation of a queue, and what is known of it.
LEMMA Heads ==
  ASSUME IInv, NEW p \in Procs, queue[p] # << >>, NEW o, o = Head(queue[p])
  PROVE  /\ o \in Ops(p) /\ o \in Operation /\ o.by \in Workers /\ o.now \in 0..MaxClock
         /\ o.now \in Nat /\ o.rec \in Record /\ o.op \in {"claim", "renew", "beat", "finish"}
         /\ OpOK(p, o) /\ Ending(o)
<1>1. queue[p] \in Seq(Operation)
  BY DEF IInv, TypeOK
<1>2. o = queue[p][1] /\ 1 \in DOMAIN queue[p]
  BY <1>1, TailFacts
<1>3. o \in Ops(p)
  BY <1>2 DEF Ops
<1> QED BY <1>3, OpTypes DEF IInv, QueueOK, EndingOK

\* What waits behind an operation that was served.
LEMMA Served ==
  ASSUME IInv, NEW p \in Procs, queue[p] # << >>, NEW o, o = Head(queue[p]),
         queue' = [queue EXCEPT ![p] = Tail(@)], UNCHANGED clock,
         \A v \in Workers : v # o.by => at'[v] = at[v] /\ lease'[v] = lease[v],
         o.op = "beat" => at'[o.by] = at[o.by],
         lease'[o.by] \in {lease[o.by], o.now + Lease, 0}
  PROVE  /\ queue' \in [Procs -> Seq(Operation)] /\ Ordered' /\ QueueOK'
         /\ \A q \in Procs : Ops(q)' \subseteq Ops(q)
         /\ \A q \in Procs : \A r \in Ops(q)' :
              r.by = o.by => r.op = "beat" \/ o.op = "beat"
<1>1. /\ queue' \in [Procs -> Seq(Operation)] /\ Ordered'
      /\ \A q \in Procs : Ops(q)' \subseteq Ops(q)
      /\ \A r \in Ops(p)' : Before(o, r)
  BY Dequeued DEF IInv, TypeOK
<1>2. o.by \in Workers /\ o.now \in Nat /\ OpOK(p, o)
  BY Heads
<1>3. ASSUME NEW q \in Procs, NEW r \in Ops(q)'
      PROVE  /\ OpOK(q, r) /\ r.by \in Workers /\ r.now \in Nat
             /\ r.by = o.by => q = p /\ o.now <= r.now /\ (r.op = "beat" \/ o.op = "beat")
  <2>1. r \in Ops(q)
    BY <1>1
  <2>2. OpOK(q, r) /\ r.by \in Workers /\ r.now \in Nat
    BY <2>1, OpTypes DEF IInv, QueueOK
  <2>3. ASSUME r.by = o.by PROVE q = p /\ Before(o, r)
    <3>1. q = p
      BY <1>2, <2>2, <2>3 DEF OpOK
    <3> QED BY <3>1, <1>1
  <2> QED BY <2>2, <2>3 DEF Before
<1>4. QueueOK'
  <2> SUFFICES ASSUME NEW q \in Procs, NEW r \in Ops(q)' PROVE OpOK(q, r)'
    BY DEF QueueOK
  <2>1. CASE r.by # o.by
    BY <1>3, <2>1 DEF OpOK
  <2>2. CASE r.by = o.by
    <3>1. lease'[r.by] <= r.now + Lease
      BY <1>2, <1>3, <2>2, BodyFacts DEF OpOK
    <3>2. /\ r.op = "claim" => at'[r.by] = "claiming"
          /\ r.op = "finish" => at'[r.by] = "finishing"
          /\ r.op = "renew" => at'[r.by] \in {"first", "renewing"}
      BY <1>3, <2>2 DEF OpOK
    <3> QED BY <1>3, <3>1, <3>2 DEF OpOK
  <2> QED BY <2>1, <2>2
<1> QED BY <1>1, <1>3, <1>4

\* A step that leaves the file as it is, and what the others do.
LEMMA FileKept ==
  ASSUME IInv, NEW w \in Workers, UNCHANGED <<store, clock>>,
         \A v \in Workers : v # w => /\ at'[v] = at[v] /\ lease'[v] = lease[v]
                                     /\ local'[v] = local[v],
         ~ Holding(w)' \/ (Holding(w) /\ UNCHANGED local),
         lease'[w] \in {lease[w], 0},
         at'[w] \in {"renewing", "cleared", "acting"} => at'[w] = at[w]
  PROVE  LeaseOK' /\ ReplayOK'
<1>1. clock \in Nat /\ Lease \in Nat /\ lease[w] <= clock + Lease
  BY BodyFacts, RecordTypes DEF IInv, LeaseOK
<1>2. LeaseOK'
  <2> SUFFICES ASSUME NEW v \in Workers
               PROVE  /\ lease'[v] <= clock + Lease
                      /\ Holding(v)' /\ lease'[v] > clock =>
                           Owned(store, v) /\ store.expires >= lease'[v]
    BY DEF LeaseOK, Owned
  <2>1. CASE v # w
    BY <2>1 DEF IInv, LeaseOK, Holding
  <2>2. CASE v = w
    BY <1>1, <2>2 DEF IInv, LeaseOK
  <2> QED BY <2>1, <2>2
<1>3. ReplayOK'
  <2> SUFFICES ASSUME NEW v \in Workers, Holding(v)'
               PROVE  /\ at'[v] \in {"renewing", "cleared", "acting"} => AtStep(v)'
                      /\ Owned(store, v) => /\ store.cache \subseteq local'[v].cache
                                            /\ Passed(local'[v], store.gate + 1)
    BY DEF ReplayOK, Owned
  <2>1. local'[v] = local[v] /\ Holding(v)
    BY DEF Holding
  <2>2. AtStep(v)' <=> AtStep(v)
    BY <2>1 DEF AtStep, Here, Open
  <2> QED BY <2>1, <2>2 DEF IInv, ReplayOK
<1> QED BY <1>2, <1>3

LEMMA ServeClaimOK ==
  ASSUME IInv, NEW p \in Procs, NEW fault \in Faults, ServeClaim(p, fault) PROVE IInv'
<1>o. PICK o : o = Head(queue[p])
  OBVIOUS
<1>w. PICK w : w = o.by
  OBVIOUS
<1> DEFINE allowed == Claimable(store, o.now) /\ store.gate = o.rec.gate
<1>1. /\ queue[p] # << >> /\ o.op = "claim"
      /\ queue' = [queue EXCEPT ![p] = Tail(@)]
      /\ UNCHANGED <<up, beat, settled, saved, clock>>
      /\ store' = IF allowed /\ fault # "before" THEN Claimed(store, w, o.now) ELSE store
      /\ fault = "none" => UNCHANGED faults
      /\ fault # "none" => faults < MaxFaults /\ faults' = faults + 1
  BY <1>o, <1>w DEF ServeClaim, Waiting, Serving, Write
<1>2. IF allowed /\ fault = "none"
      THEN /\ mem' = [mem EXCEPT ![p] = store']
           /\ local' = [local EXCEPT ![w] = [store' EXCEPT !.decided = @ \cup {store.gate}]]
           /\ lease' = [lease EXCEPT ![w] = o.now + Lease]
           /\ at' = [at EXCEPT ![w] = "claimed"]
           /\ UNCHANGED lost
      ELSE /\ mem' = [mem EXCEPT ![p] = IF @.claim = w THEN o.rec ELSE @]
           /\ at' = [at EXCEPT ![w] = "refused"]
           /\ local' = [local EXCEPT ![w] = Absent]
           /\ lease' = [lease EXCEPT ![w] = 0]
           /\ lost' = [lost EXCEPT ![w] = FALSE]
  BY <1>o, <1>w DEF ServeClaim, Goto, Over
<1>3. /\ w \in Workers /\ o.now \in 0..MaxClock /\ o.now \in Nat /\ o.rec \in Record
      /\ at[w] = "claiming" /\ o.now <= clock
  BY <1>1, <1>o, <1>w, Heads DEF OpOK
<1>r. store \in Record /\ Absent \in Record /\ clock \in Nat /\ Lease \in Nat /\ Lease > 0
  BY RecordTypes, BodyFacts DEF IInv
<1>4. ASSUME NEW v \in Workers, v # w
      PROVE  at'[v] = at[v] /\ lease'[v] = lease[v] /\ local'[v] = local[v]
  BY <1>2, <1>4 DEF IInv, TypeOK
<1>5. \/ allowed /\ fault = "none" /\ at'[w] = "claimed" /\ lease'[w] = o.now + Lease
         /\ local'[w] = [store' EXCEPT !.decided = @ \cup {store.gate}]
      \/ ~ (allowed /\ fault = "none") /\ at'[w] = "refused" /\ lease'[w] = 0
  BY <1>2, <1>3 DEF IInv, TypeOK
<1>6. allowed => /\ Live(store) /\ store.gate \in Gates /\ Passed(store, store.gate)
                 /\ (store.status = "resuming" => store.expires <= o.now)
  BY DEF Claimable, IInv, StoreOK, RecordOK, Live
<1>7. /\ store' \in Record /\ store'.gate = store.gate /\ store'.cache = store.cache
      /\ store'.decided = store.decided
      /\ \/ store' = store
         \/ allowed /\ store'.status = "resuming" /\ store'.claim = w
            /\ store'.expires = o.now + Lease
      /\ (allowed /\ fault = "none" => store'.status = "resuming" /\ store'.claim = w
            /\ store'.expires = o.now + Lease)
  <2>1. Claimed(store, w, o.now) \in Record
    BY <1>3, <1>r, ClaimedOK
  <2>2. /\ Claimed(store, w, o.now).status = "resuming"
        /\ Claimed(store, w, o.now).claim = w
        /\ Claimed(store, w, o.now).expires = o.now + Lease
        /\ Claimed(store, w, o.now).gate = store.gate
        /\ Claimed(store, w, o.now).cache = store.cache
        /\ Claimed(store, w, o.now).decided = store.decided
    BY <1>r DEF Claimed, Record
  <2> QED BY <1>1, <1>r, <2>1, <2>2
<1>8. /\ queue' \in [Procs -> Seq(Operation)] /\ Ordered' /\ QueueOK'
      /\ \A q \in Procs : Ops(q)' \subseteq Ops(q)
      /\ \A q \in Procs : \A r \in Ops(q)' : r.by = w => r.op = "beat"
  <2>1. lease'[o.by] \in {lease[o.by], o.now + Lease, 0}
    BY <1>5, <1>w
  <2>2. \A v \in Workers : v # o.by => at'[v] = at[v] /\ lease'[v] = lease[v]
    BY <1>4, <1>w
  <2> HIDE DEF allowed
  <2> QED BY <1>1, <1>o, <1>w, <2>1, <2>2, Served
<1> HIDE DEF allowed
<1>9. TypeOK'
  <2>1. mem' \in [Procs -> Record]
    <3>1. mem \in [Procs -> Record] /\ \A q \in Procs : mem[q] \in Record
      BY DEF IInv, TypeOK
    <3>2. CASE allowed /\ fault = "none"
      BY <1>2, <1>7, <3>1, <3>2
    <3>3. CASE ~ (allowed /\ fault = "none")
      <4>1. mem' = [mem EXCEPT ![p] = IF @.claim = w THEN o.rec ELSE @]
        BY <1>2, <3>3
      <4> QED BY <1>3, <3>1, <4>1
    <3> QED BY <3>2, <3>3
  <2>2. local' \in [Workers -> Record]
    <3>1. allowed => [store' EXCEPT !.decided = @ \cup {store.gate}] \in Record
      BY <1>6, <1>7 DEF Record
    <3> QED BY <1>2, <1>r, <3>1 DEF IInv, TypeOK
  <2>3. lease' \in [Workers -> Times]
    <3>1. o.now + Lease \in Times /\ 0 \in Times
      BY <1>3, BodyFacts DEF Times
    <3> QED BY <1>2, <3>1 DEF IInv, TypeOK
  <2>4. at' \in [Workers -> Points] /\ lost' \in [Workers -> BOOLEAN]
    BY <1>2 DEF IInv, TypeOK, Points, Working
  <2>5. faults' \in 0..MaxFaults
    BY <1>1, BodyFacts DEF IInv, TypeOK
  <2> QED BY <1>1, <1>7, <1>8, <2>1, <2>2, <2>3, <2>4, <2>5 DEF IInv, TypeOK
<1>10. StoreOK' /\ GatesDecidedOnce'
  <2>1. Live(store') => Live(store)
    BY <1>6, <1>7
  <2>2. StoreOK'
    BY <1>1, <1>7, <2>1 DEF IInv, StoreOK, RecordOK, Live, Passed
  <2> QED BY <1>1, <2>2 DEF IInv, GatesDecidedOnce
<1>11. EndingOK'
  <2> SUFFICES ASSUME NEW q \in Procs, NEW r \in Ops(q)' PROVE Ending(r)'
    BY DEF EndingOK
  <2>1. Ending(r) /\ r \in Operation
    BY <1>8, OpTypes DEF IInv, EndingOK
  <2>2. CASE r.by = w
    BY <1>8, <2>2 DEF Ending
  <2>3. CASE r.by # w
    <3>1. Owned(store', r.by) => Owned(store, r.by)
      BY <1>7, <2>3 DEF Owned
    <3> QED BY <2>1, <3>1, <1>7, EndingKept
  <2> QED BY <2>2, <2>3
<1>12. LeaseOK'
  <2> SUFFICES ASSUME NEW v \in Workers
               PROVE  /\ lease'[v] <= clock + Lease
                      /\ Holding(v)' /\ lease'[v] > clock =>
                           Owned(store', v) /\ store'.expires >= lease'[v]
    BY <1>1 DEF LeaseOK, Owned
  <2>1. CASE v = w
    BY <1>3, <1>5, <1>7, <1>r, <2>1 DEF Owned, Holding, Working
  <2>2. CASE v # w
    <3>1. /\ lease[v] <= clock + Lease
          /\ Holding(v)' /\ lease[v] > clock => Owned(store, v) /\ store.expires >= lease[v]
      BY <1>4, <2>2 DEF IInv, LeaseOK, Holding
    <3>2. ASSUME Holding(v)', lease[v] > clock PROVE store' = store
      <4>1. store.status = "resuming" /\ store.expires > o.now
        <5>1. lease[v] \in Nat /\ store.expires \in Nat
          BY <1>r, BodyFacts, RecordTypes DEF IInv, TypeOK, Times
        <5> QED BY <3>1, <3>2, <5>1, <1>3, <1>r DEF Owned
      <4>2. ~ allowed
        <5>1. store.expires \in Nat
          BY RecordTypes, <1>r DEF IInv
        <5> QED BY <4>1, <5>1, <1>6, <1>3
      <4> QED BY <4>2, <1>7
    <3> QED BY <3>1, <3>2, <1>4, <2>2
  <2> QED BY <2>1, <2>2
<1>13. ReplayOK'
  <2> SUFFICES ASSUME NEW v \in Workers, Holding(v)'
               PROVE  /\ at'[v] \in {"renewing", "cleared", "acting"} => AtStep(v)'
                      /\ Owned(store', v) => /\ store'.cache \subseteq local'[v].cache
                                             /\ Passed(local'[v], store'.gate + 1)
    BY DEF ReplayOK, Owned
  <2>1. CASE v = w
    <3>1. allowed /\ at'[w] = "claimed"
          /\ local'[w] = [store' EXCEPT !.decided = @ \cup {store.gate}]
      BY <1>5, <2>1 DEF Holding, Working
    <3>2. local'[w].cache = store.cache /\ local'[w].decided = store.decided \cup {store.gate}
      BY <3>1, <1>7 DEF Record
    <3>3. Passed(local'[w], store.gate + 1)
      BY <3>1, <3>2, <1>6, BodyFacts DEF Passed
    <3> QED BY <2>1, <3>1, <3>2, <3>3, <1>7
  <2>2. CASE v # w
    <3>1. Holding(v) /\ (AtStep(v)' <=> AtStep(v))
      BY <1>4, <2>2 DEF Holding, AtStep, Here, Open
    <3>2. Owned(store', v) => Owned(store, v)
      BY <1>7, <2>2 DEF Owned
    <3> QED BY <3>1, <3>2, <1>4, <1>7, <2>2 DEF IInv, ReplayOK
  <2> QED BY <2>1, <2>2
<1> QED BY <1>8, <1>9, <1>10, <1>11, <1>12, <1>13 DEF IInv

LEMMA ServeRenewalOK ==
  ASSUME IInv, NEW p \in Procs, NEW fault \in Faults, ServeRenewal(p, fault) PROVE IInv'
<1>o. PICK o : o = Head(queue[p])
  OBVIOUS
<1>w. PICK w : w = o.by
  OBVIOUS
<1> DEFINE allowed == Renewable(store, w, clock)
           done == allowed /\ fault = "none"
           next == IF ~ done THEN "failed" ELSE IF at[w] = "first" THEN "body" ELSE "cleared"
<1>1. /\ queue[p] # << >> /\ o.op \in {"renew", "beat"}
      /\ queue' = [queue EXCEPT ![p] = Tail(@)]
      /\ UNCHANGED <<up, local, settled, saved, clock>>
      /\ store' = IF allowed /\ fault # "before"
                    THEN [store EXCEPT !.expires = o.now + Lease] ELSE store
      /\ fault = "none" => UNCHANGED faults
      /\ fault # "none" => faults < MaxFaults /\ faults' = faults + 1
      /\ mem' = IF done THEN [mem EXCEPT ![p] = store'] ELSE mem
      /\ lease' = IF done THEN [lease EXCEPT ![w] = o.now + Lease] ELSE lease
      /\ lost' = [lost EXCEPT ![w] = @ \/ ~ done]
      /\ \/ o.op = "beat" /\ beat' = [beat EXCEPT ![w] = "waiting"] /\ UNCHANGED at
         \/ o.op = "renew" /\ at' = [at EXCEPT ![w] = next] /\ UNCHANGED beat
  BY <1>o, <1>w DEF ServeRenewal, Waiting, Serving, Write, Goto
<1>3. /\ w \in Workers /\ o.now \in 0..MaxClock /\ o.now \in Nat /\ OpOK(p, o)
      /\ o.op = "renew" => at[w] \in {"first", "renewing"}
      /\ o.now <= clock /\ lease[w] <= o.now + Lease
  BY <1>1, <1>o, <1>w, Heads DEF OpOK
<1>r. store \in Record /\ store.expires \in Nat /\ clock \in Nat /\ Lease \in Nat /\ Lease > 0
      /\ o.now + Lease \in Times /\ \A v \in Workers : lease[v] \in Nat
  BY <1>3, RecordTypes, BodyFacts DEF IInv, TypeOK, Times
<1> HIDE DEF done, next
<1>4. ASSUME NEW v \in Workers, v # w
      PROVE  at'[v] = at[v] /\ lease'[v] = lease[v]
  BY <1>1, <1>4 DEF IInv, TypeOK
<1>5. /\ done => lease'[w] = o.now + Lease
      /\ ~ done => lease'[w] = lease[w]
      /\ o.op = "beat" => at'[w] = at[w]
      /\ o.op = "renew" => at'[w] = next
  BY <1>1, <1>3 DEF IInv, TypeOK
<1>6. /\ store' \in Record /\ store'.gate = store.gate /\ store'.cache = store.cache
      /\ store'.decided = store.decided /\ store'.status = store.status
      /\ store'.claim = store.claim
      /\ store' = store \/ (Owned(store, w) /\ store'.expires = o.now + Lease)
      /\ done => Owned(store, w) /\ store'.expires = o.now + Lease
  BY <1>1, <1>r DEF Record, Renewable, done
<1>7. \A v \in Workers : Owned(store', v) <=> Owned(store, v)
  BY <1>6 DEF Owned
<1> HIDE DEF allowed
<1>8. /\ queue' \in [Procs -> Seq(Operation)] /\ Ordered' /\ QueueOK'
      /\ \A q \in Procs : Ops(q)' \subseteq Ops(q)
  <2>1. lease'[o.by] \in {lease[o.by], o.now + Lease, 0}
    BY <1>5, <1>w
  <2>2. \A v \in Workers : v # o.by => at'[v] = at[v] /\ lease'[v] = lease[v]
    BY <1>4, <1>w
  <2>3. o.op = "beat" => at'[o.by] = at[o.by]
    BY <1>5, <1>w
  <2>4. queue[p] # << >> /\ queue' = [queue EXCEPT ![p] = Tail(@)] /\ clock' = clock
    BY <1>1
  <2> QED BY <1>o, <2>1, <2>2, <2>3, <2>4, Served
<1>9. TypeOK'
  <2>1. mem' \in [Procs -> Record] /\ lease' \in [Workers -> Times]
    BY <1>1, <1>r, <1>6 DEF IInv, TypeOK
  <2>2. lost' \in [Workers -> BOOLEAN] /\ beat' \in [Workers -> {"waiting", "queued"}]
    BY <1>1 DEF IInv, TypeOK
  <2>3. at' \in [Workers -> Points]
    BY <1>1 DEF next, IInv, TypeOK, Points, Working
  <2>4. faults' \in 0..MaxFaults
    BY <1>1, BodyFacts DEF IInv, TypeOK
  <2> QED BY <1>1, <1>6, <1>8, <2>1, <2>2, <2>3, <2>4 DEF IInv, TypeOK
<1>10. StoreOK' /\ GatesDecidedOnce'
  BY <1>1, <1>6 DEF IInv, StoreOK, RecordOK, Live, Passed, GatesDecidedOnce
<1>11. EndingOK'
  <2> SUFFICES ASSUME NEW q \in Procs, NEW r \in Ops(q)' PROVE Ending(r)'
    BY DEF EndingOK
  <2>1. Ending(r) /\ r \in Operation /\ r.by \in Workers
    BY <1>8, OpTypes DEF IInv, EndingOK
  <2> QED BY <2>1, <1>6, <1>7, EndingKept
<1>12. ASSUME NEW v \in Workers, Holding(v)'
       PROVE  /\ Holding(v)
              /\ at'[v] \in {"renewing", "cleared", "acting"} =>
                   at[v] \in {"renewing", "cleared", "acting"}
  BY <1>1, <1>3, <1>4, <1>5, <1>12 DEF next, Holding, Working
<1>13. LeaseOK'
  <2> SUFFICES ASSUME NEW v \in Workers
               PROVE  /\ lease'[v] <= clock + Lease
                      /\ Holding(v)' /\ lease'[v] > clock =>
                           Owned(store', v) /\ store'.expires >= lease'[v]
    BY <1>1 DEF LeaseOK, Owned
  <2>0. /\ lease[v] <= clock + Lease
        /\ Holding(v)' /\ lease[v] > clock => Owned(store, v) /\ store.expires >= lease[v]
    BY <1>12 DEF IInv, LeaseOK
  <2>1. CASE v = w
    BY <2>0, <2>1, <1>3, <1>5, <1>6, <1>7, <1>r
  <2>2. CASE v # w
    <3>1. ASSUME Holding(v)', lease[v] > clock PROVE store' = store
      BY <2>0, <2>2, <3>1, <1>6 DEF Owned
    <3> QED BY <2>0, <2>2, <3>1, <1>4, <1>7
  <2> QED BY <2>1, <2>2
<1>14. ReplayOK'
  <2> SUFFICES ASSUME NEW v \in Workers, Holding(v)'
               PROVE  /\ at'[v] \in {"renewing", "cleared", "acting"} => AtStep(v)'
                      /\ Owned(store', v) => /\ store'.cache \subseteq local'[v].cache
                                             /\ Passed(local'[v], store'.gate + 1)
    BY DEF ReplayOK, Owned
  <2>1. Holding(v) /\ (AtStep(v)' <=> AtStep(v))
    BY <1>1, <1>12 DEF AtStep, Here, Open
  <2> QED BY <2>1, <1>1, <1>6, <1>7, <1>12 DEF IInv, ReplayOK
<1> QED BY <1>8, <1>9, <1>10, <1>11, <1>13, <1>14 DEF IInv

LEMMA ServeFinishOK ==
  ASSUME IInv, NEW p \in Procs, NEW fault \in Faults, ServeFinish(p, fault) PROVE IInv'
<1>o. PICK o : o = Head(queue[p])
  OBVIOUS
<1>w. PICK w : w = o.by
  OBVIOUS
<1> DEFINE allowed == Owned(store, w)
           written == allowed /\ fault # "before"
<1>1. /\ queue[p] # << >> /\ o.op = "finish"
      /\ queue' = [queue EXCEPT ![p] = Tail(@)]
      /\ UNCHANGED <<up, beat, clock>>
      /\ store' = IF written THEN o.rec ELSE store
      /\ settled' = IF written THEN Append(settled, <<store.gate, w>>) ELSE settled
      /\ saved' = saved \cup store'.cache
      /\ fault = "none" => UNCHANGED faults
      /\ fault # "none" => faults < MaxFaults /\ faults' = faults + 1
      /\ mem' = [mem EXCEPT ![p] = o.rec] \/ mem' = mem
  BY <1>o, <1>w DEF ServeFinish, Waiting, Serving, Write
<1>2. PICK x \in {"done", "refused"} :
        /\ at' = [at EXCEPT ![w] = x]
        /\ local' = [local EXCEPT ![w] = Absent]
        /\ lease' = [lease EXCEPT ![w] = 0]
        /\ lost' = [lost EXCEPT ![w] = FALSE]
  BY <1>o, <1>w DEF ServeFinish, Goto, Over
<1>3. /\ w \in Workers /\ o.now \in Nat /\ o.rec \in Record /\ OpOK(p, o) /\ Ending(o)
      /\ o \in Operation
  BY <1>1, <1>o, <1>w, Heads
<1>r. store \in Record /\ Absent \in Record /\ clock \in Nat /\ Lease \in Nat /\ Lease > 0
      /\ store.cache \subseteq Steps /\ o.rec.cache \subseteq Steps
  BY <1>3, RecordTypes, BodyFacts DEF IInv
<1>4. ASSUME NEW v \in Workers, v # w
      PROVE  at'[v] = at[v] /\ lease'[v] = lease[v] /\ local'[v] = local[v]
  BY <1>2, <1>4 DEF IInv, TypeOK
<1>5. at'[w] = x /\ lease'[w] = 0
  BY <1>2, <1>3 DEF IInv, TypeOK
<1>6. written => /\ Owned(store, w) /\ Live(store) /\ store' = o.rec
                 /\ o.rec.status # "resuming" /\ RecordOK(o.rec)
                 /\ Live(o.rec) => store.cache \subseteq o.rec.cache /\ store.gate < o.rec.gate
                 /\ store.gate \in Gates
  BY <1>1, <1>3, <1>w DEF Ending, Owned, Live, IInv, StoreOK, RecordOK
<1>7. \A v \in Workers : Owned(store', v) => ~ written /\ store' = store
  BY <1>1, <1>6 DEF Owned
<1>8. /\ queue' \in [Procs -> Seq(Operation)] /\ Ordered' /\ QueueOK'
      /\ \A q \in Procs : Ops(q)' \subseteq Ops(q)
  <2>1. lease'[o.by] \in {lease[o.by], o.now + Lease, 0}
    BY <1>5, <1>w
  <2>2. \A v \in Workers : v # o.by => at'[v] = at[v] /\ lease'[v] = lease[v]
    BY <1>4, <1>w
  <2> HIDE DEF written
  <2> QED BY <1>1, <1>o, <2>1, <2>2, Served
<1> HIDE DEF allowed, written
<1>s. settled \in Seq(Gates \X Workers) /\ saved \subseteq Steps
      /\ \A i \in DOMAIN settled : i \in Nat /\ i < Len(settled) + 1
                                   /\ settled[i] \in Gates \X Workers
      /\ \A g \in Gates : g \in Nat
  BY AppendFacts, LenProperties, ElementOfSeq, BodyFacts DEF IInv, TypeOK
<1>9. written =>
        /\ settled' \in Seq(Gates \X Workers)
        /\ \A i \in DOMAIN settled' :
             \/ i \in DOMAIN settled /\ settled'[i] = settled[i]
             \/ i = Len(settled) + 1 /\ settled'[i] = <<store.gate, w>>
  <2> SUFFICES ASSUME written
               PROVE  /\ settled' \in Seq(Gates \X Workers)
                      /\ \A i \in DOMAIN settled' :
                           \/ i \in DOMAIN settled /\ settled'[i] = settled[i]
                           \/ i = Len(settled) + 1 /\ settled'[i] = <<store.gate, w>>
    OBVIOUS
  <2>1. <<store.gate, w>> \in Gates \X Workers
    BY <1>3, <1>6
  <2>2. settled' = Append(settled, <<store.gate, w>>)
    BY <1>1
  <2> QED BY <1>s, <2>1, <2>2, AppendFacts
<1>10. store' \in Record /\ saved' \subseteq Steps
  BY <1>1, <1>3, <1>r, <1>s
<1>11. TypeOK'
  <2>1. mem' \in [Procs -> Record] /\ local' \in [Workers -> Record]
    BY <1>1, <1>2, <1>3, <1>r DEF IInv, TypeOK
  <2>2. lease' \in [Workers -> Times]
    <3>1. 0 \in Times
      BY BodyFacts DEF Times
    <3> QED BY <1>2, <3>1 DEF IInv, TypeOK
  <2>3. at' \in [Workers -> Points] /\ lost' \in [Workers -> BOOLEAN]
    BY <1>2 DEF IInv, TypeOK, Points
  <2>4. faults' \in 0..MaxFaults
    BY <1>1, BodyFacts DEF IInv, TypeOK
  <2>5. settled' \in Seq(Gates \X Workers)
    BY <1>1, <1>9, <1>s
  <2> QED BY <1>1, <1>8, <1>10, <2>1, <2>2, <2>3, <2>4, <2>5 DEF IInv, TypeOK
<1>12. GatesDecidedOnce'
  <2>1. CASE ~ written
    BY <1>1, <2>1 DEF IInv, GatesDecidedOnce
  <2>2. CASE written
    <3> SUFFICES ASSUME NEW i \in DOMAIN settled', NEW j \in DOMAIN settled', i < j
                 PROVE  settled'[i][1] < settled'[j][1]
      BY DEF GatesDecidedOnce
    <3>1. Len(settled) \in Nat
      BY <1>s, LenProperties
    <3>2. i \in DOMAIN settled /\ settled'[i] = settled[i]
      BY <1>9, <1>s, <2>2, <3>1
    <3>3. settled[i][1] < store.gate
      BY <3>2, <2>2, <1>6 DEF IInv, StoreOK
    <3>4. CASE j \in DOMAIN settled /\ settled'[j] = settled[j]
      BY <3>2, <3>4 DEF IInv, GatesDecidedOnce
    <3>5. CASE settled'[j] = <<store.gate, w>>
      BY <3>2, <3>3, <3>5
    <3> QED BY <1>9, <2>2, <3>4, <3>5
  <2> QED BY <2>1, <2>2
<1>13. StoreOK'
  <2>1. CASE ~ written
    BY <1>1, <2>1 DEF IInv, StoreOK, RecordOK, Live, Passed
  <2>2. CASE written
    <3>1. RecordOK(store')
      BY <2>2, <1>6
    <3> SUFFICES ASSUME Live(store')
                 PROVE  /\ saved' \subseteq store'.cache
                        /\ \A i \in DOMAIN settled' : settled'[i][1] < store'.gate
      BY <3>1 DEF StoreOK, RecordOK, Live, Passed
    <3>2. /\ store.cache \subseteq store'.cache /\ store.gate < store'.gate
          /\ saved \subseteq store.cache /\ store.gate \in Nat /\ store'.gate \in Nat
          /\ \A i \in DOMAIN settled : settled[i][1] < store.gate /\ settled[i][1] \in Nat
      <4>1. ASSUME NEW i \in DOMAIN settled PROVE settled[i][1] \in Gates
        <5>1. settled[i] \in Gates \X Workers
          BY <1>s
        <5> QED BY <5>1
      <4>2. /\ Live(o.rec) /\ store.cache \subseteq o.rec.cache /\ store.gate < o.rec.gate
            /\ Live(store) /\ store.gate \in Gates /\ store' = o.rec
        BY <2>2, <1>6
      <4>3. o.rec.gate \in Gates
        BY <4>2, <1>6, <2>2 DEF RecordOK
      <4>4. /\ saved \subseteq store.cache
            /\ \A i \in DOMAIN settled : settled[i][1] < store.gate
        BY <4>2 DEF IInv, StoreOK
      <4>5. \A g \in Gates : g \in Nat
        BY BodyFacts
      <4>6. \A i \in DOMAIN settled : settled[i][1] < store.gate /\ settled[i][1] \in Nat
        BY <4>1, <4>4, <4>5
      <4>7. store.gate \in Nat /\ store'.gate \in Nat
        BY <4>2, <4>3, <4>5
      <4> QED BY <4>2, <4>4, <4>6, <4>7
    <3>3. saved' \subseteq store'.cache
      BY <1>1, <3>2
    <3>4. ASSUME NEW i \in DOMAIN settled' PROVE settled'[i][1] < store'.gate
      <4>1. CASE i \in DOMAIN settled /\ settled'[i] = settled[i]
        BY <3>2, <4>1
      <4>2. CASE settled'[i] = <<store.gate, w>>
        BY <3>2, <4>2
      <4> QED BY <1>9, <2>2, <4>1, <4>2
    <3> QED BY <3>3, <3>4
  <2> QED BY <2>1, <2>2
<1>14. EndingOK'
  <2> SUFFICES ASSUME NEW q \in Procs, NEW r \in Ops(q)' PROVE Ending(r)'
    BY DEF EndingOK
  <2>1. Ending(r) /\ r \in Operation /\ r.by \in Workers
    BY <1>8, OpTypes DEF IInv, EndingOK
  <2> QED BY <2>1, <1>7, EndingKept
<1>15. LeaseOK' /\ ReplayOK'
  <2>1. CASE ~ written
    <3>1. store' = store /\ ~ Holding(w)'
      BY <1>1, <1>5, <2>1 DEF Holding, Working
    <3>2. at'[w] \in {"renewing", "cleared", "acting"} => at'[w] = at[w]
      BY <1>5
    <3> QED BY <1>1, <1>3, <1>4, <1>5, <3>1, <3>2, FileKept
  <2>2. CASE written
    <3>1. \A v \in Workers : ~ Owned(store', v)
      BY <1>7, <2>2
    <3>2. ASSUME NEW v \in Workers, Holding(v)'
          PROVE  v # w /\ Holding(v) /\ lease'[v] <= clock
                 /\ (at'[v] \in {"renewing", "cleared", "acting"} => AtStep(v)')
      <4>1. v # w
        BY <1>5, <3>2 DEF Holding, Working
      <4>2. Holding(v) /\ (AtStep(v)' <=> AtStep(v))
        BY <1>4, <3>2, <4>1 DEF Holding, AtStep, Here, Open
      <4>3. ~ (lease[v] > clock)
        BY <1>6, <2>2, <4>1, <4>2 DEF IInv, LeaseOK, Owned
      <4>4. lease[v] \in Nat
        BY BodyFacts DEF IInv, TypeOK, Times
      <4> QED BY <1>4, <1>r, <4>1, <4>2, <4>3, <4>4 DEF IInv, ReplayOK
    <3>3. ReplayOK'
      BY <3>1, <3>2 DEF ReplayOK, Owned
    <3>4. ASSUME NEW v \in Workers PROVE lease'[v] <= clock + Lease
      BY <1>4, <1>5, <1>r DEF IInv, LeaseOK
    <3>5. LeaseOK'
      <4> SUFFICES ASSUME NEW v \in Workers
                   PROVE  /\ lease'[v] <= clock + Lease
                          /\ ~ (Holding(v)' /\ lease'[v] > clock)
        BY <1>1 DEF LeaseOK
      <4>1. lease'[v] \in Nat
        BY <1>11, BodyFacts DEF TypeOK, Times
      <4> QED BY <1>r, <3>2, <3>4, <4>1
    <3> QED BY <3>3, <3>5
  <2> QED BY <2>1, <2>2
<1> QED BY <1>8, <1>11, <1>12, <1>13, <1>14, <1>15 DEF IInv

-----------------------------------------------------------------------------
LEMMA Inductive == ASSUME IInv, [Next]_vars PROVE IInv'
<1>1. CASE UNCHANGED vars
  <2>1. UNCHANGED <<store, mem, queue, up, at, local, lease, lost, beat, settled, saved,
                    clock, faults>>
    BY <1>1 DEF vars, call
  <2>2. TypeOK' /\ Ordered' /\ QueueOK'
    BY <2>1 DEF IInv, TypeOK, Ordered, QueueOK, Ops, OpOK
  <2>3. LeaseOK' /\ StoreOK' /\ GatesDecidedOnce'
    BY <2>1 DEF IInv, LeaseOK, Holding, Owned, StoreOK, RecordOK, Live, Passed,
                GatesDecidedOnce
  <2>4. ReplayOK'
    BY <2>1 DEF IInv, ReplayOK, Holding, AtStep, Here, Open, Owned, Passed
  <2>5. EndingOK'
    BY <2>1 DEF IInv, EndingOK, Ops, Ending, RecordOK, Live, Passed, Owned
  <2> QED BY <2>2, <2>3, <2>4, <2>5 DEF IInv
<1>2. CASE \E w \in Workers : StartClaim(w) \/ Progress(w) \/ Heartbeat(w)
  BY <1>2, StartClaimOK, StartRenewalOK, InBodyOK, StartFinishOK, HeartbeatOK DEF Progress
<1>3. CASE \E p \in Procs : Serve(p) \/ Crash(p) \/ Restart(p)
  BY <1>3, ServeClaimOK, ServeRenewalOK, ServeFinishOK, CrashOK, RestartOK DEF Serve
<1>4. CASE Tick
  BY <1>4, TickOK
<1> QED BY <1>1, <1>2, <1>3, <1>4 DEF Next

LEMMA Invariance == Spec => []IInv
BY InitOK, Inductive, PTL DEF Spec

\* Every variable keeps its type: no queue, record or time leaves its bounds,
\* whichever operations fail and whichever processes die.
THEOREM ResumeTypes == Spec => []TypeOK
<1>1. IInv => TypeOK
  BY DEF IInv
<1> QED BY <1>1, Invariance, PTL

\* Of two calls that both were granted the run (claimResume returned a claim to
\* both), one has outlived its lease: the file belongs to one of them only.
THEOREM LeasesExclude == Spec => []LeaseExclusive
<1>1. IInv => LeaseExclusive
  <2> SUFFICES ASSUME IInv, NEW v \in Workers, NEW w \in Workers, v # w,
                      Holding(v), Holding(w), ~ (lease[v] <= clock), ~ (lease[w] <= clock)
               PROVE  FALSE
    BY DEF LeaseExclusive
  <2>1. lease[v] \in Nat /\ lease[w] \in Nat /\ clock \in Nat
    BY BodyFacts, RecordTypes DEF IInv, TypeOK, Times
  <2>2. Owned(store, v) /\ Owned(store, w)
    BY <2>1 DEF IInv, LeaseOK
  <2> QED BY <2>2 DEF Owned
<1> QED BY <1>1, Invariance, PTL

\* The gates of the body are left one after the other, each by one finishResume
\* that the file accepted: no decision is applied twice.
THEOREM DecidedOnce == Spec => []GatesDecidedOnce
<1>1. IInv => GatesDecidedOnce
  BY DEF IInv
<1> QED BY <1>1, Invariance, PTL

\* A call within its lease does not execute a step whose result is in the file:
\* what it replays contains all that the resumes before it have saved.
THEOREM SavedStay == Spec => []SavedStepsStay
<1>1. IInv => SavedStepsStay
  <2> SUFFICES ASSUME IInv, NEW w \in Workers, at[w] \in {"cleared", "acting"},
                      Here(w) \in saved, ~ (lease[w] <= clock)
               PROVE  FALSE
    BY DEF SavedStepsStay
  <2>1. Holding(w) /\ AtStep(w)
    BY DEF IInv, ReplayOK, Holding, Working
  <2>2. lease[w] \in Nat /\ clock \in Nat
    BY BodyFacts, RecordTypes DEF IInv, TypeOK, Times
  <2>3. Owned(store, w)
    BY <2>1, <2>2 DEF IInv, LeaseOK
  <2>4. saved \subseteq local[w].cache
    BY <2>1, <2>3 DEF IInv, ReplayOK, StoreOK, Owned, Live
  <2> QED BY <2>1, <2>4, HereFacts DEF AtStep
<1> QED BY <1>1, Invariance, PTL
=============================================================================
