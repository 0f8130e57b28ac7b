--------------------------- MODULE AgentRunProofs ---------------------------
(***************************************************************************)
(* What holds of the durable run for every number of workers, calls and    *)
(* runs, and any crashes, resumes and refused appends within the bounds.   *)
(* The proofs rest on these inductive invariants, each on the ones before: *)
(*                                                                         *)
(*  - IInv, optimistic concurrency of the log: as long as no append was    *)
(*    rejected for another reason than a taken seq, the log has no gap and *)
(*    every seq below the next one of an active worker is taken, so that a *)
(*    new event leaves complete what the others have read.                 *)
(*  - AInv, the human decisions.                                           *)
(*  - TInv, the types, with what a worker must have at hand for its next   *)
(*    step (FitFor), and HasRun: a log that is not empty holds a run.      *)
(*  - Sound, the tool calls and their answers, for a worker that is alone  *)
(*    or any number of them while no append was rejected (Orderly).        *)
(*  - RInv, the runs and their terminal results, for a worker alone.       *)
(*  - LInv, the ledger, for any number of workers.                         *)
(*  - VInv, the checkpoints and the hash, while the log holds one run.     *)
(*  - DInv, the suspensions, while nothing is disturbed.                   *)
(*                                                                         *)
(* RInv and LInv together give the refinement of DurableRun.               *)
(***************************************************************************)
EXTENDS AgentRun, WellFoundedInduction, FiniteSetTheorems, TLAPS

Taken(l) == {s \in Seqs : l[s] # NoEvent}

\* The part of the types the argument needs.
FrameOK ==
  /\ DOMAIN log = Seqs
  /\ DOMAIN at = Workers
  /\ seen \in [Workers -> SUBSET Seqs]
  /\ next \in [Workers -> Nat]
  /\ budget \in [queries : Int, resumes : Int, crashes : Int, rejections : Int]
  /\ budget.rejections <= MaxRejections

NoGap == \A s \in Seqs : \A t \in Seqs : s \in Taken(log) /\ t < s => t \in Taken(log)

Below == \A w \in Workers : Active(w) => \A t \in Seqs : t < next[w] => t \in Taken(log)

Whole == \A w \in Workers : Following(w) => seen[w] = {s \in Taken(log) : s < next[w]}

IInv == FrameOK /\ (budget.rejections = MaxRejections => NoGap /\ Below /\ Whole)

LEMMA LoggedTaken == Logged = Taken(log)
  BY DEF Logged, Taken

\* Max is the greatest element of a set of seqs.
LEMMA MaxOfSeqs ==
  ASSUME NEW S \in SUBSET Seqs, S # {}
  PROVE  Max(S) \in S /\ \A s \in S : s <= Max(S)
<1> DEFINE T == {MaxSeq - s : s \in S}
<1>0. MaxSeq \in Nat /\ \A s \in S : s \in Int /\ 0 <= s /\ s <= MaxSeq
  BY AgentRunAssumption DEF Seqs
<1>1. T \subseteq Nat
  BY <1>0
<1>2. T # {}
  OBVIOUS
<1>3. PICK x \in T : \A y \in T : ~ (<<y, x>> \in OpToRel(<, Nat))
  <2> HIDE DEF T
  <2> QED
    BY <1>1, <1>2, NatLessThanWellFounded, WFMin
<1>4. \A y \in T : ~ (y < x)
  BY <1>1, <1>3 DEF OpToRel
<1>5. PICK s \in S : x = MaxSeq - s
  OBVIOUS
<1>6. ASSUME NEW t \in S PROVE s >= t
  <2>1. MaxSeq - t \in T
    OBVIOUS
  <2>2. ~ (MaxSeq - t < MaxSeq - s)
    BY <1>4, <1>5, <2>1
  <2>3. s \in Int /\ t \in Int /\ MaxSeq \in Int
    BY <1>0
  <2> QED
    BY <2>2, <2>3
<1>7. \E m \in S : \A t \in S : m >= t
  BY <1>6
<1>8. Max(S) \in S /\ \A t \in S : Max(S) >= t
  BY <1>7, Zenon DEF Max
<1>9. \A t \in S : Max(S) \in Int /\ t \in Int
  BY <1>0, <1>8
<1> QED
  BY <1>8, <1>9

LEMMA NextSeqOK ==
  ASSUME IInv
  PROVE  /\ NextSeq \in Nat
         /\ \A s \in Taken(log) : s < NextSeq
         /\ budget.rejections = MaxRejections =>
              \A t \in Seqs : t < NextSeq => t \in Taken(log)
<1> USE AgentRunAssumption DEF Seqs
<1>1. CASE Logged = {}
  BY <1>1, LoggedTaken DEF NextSeq
<1>2. CASE Logged # {}
  <2>1. Max(Logged) \in Logged /\ \A s \in Logged : s <= Max(Logged)
    BY <1>2, MaxOfSeqs DEF Logged
  <2>2. NextSeq = Max(Logged) + 1 /\ Max(Logged) \in 0..MaxSeq
    BY <1>2, <2>1 DEF NextSeq, Logged
  <2>3. \A t \in Seqs : t < NextSeq => t = Max(Logged) \/ t < Max(Logged)
    BY <2>2
  <2>4. NextSeq \in Nat /\ \A s \in Taken(log) : s < NextSeq
    <3>1. \A s \in Taken(log) : s \in Int /\ s <= Max(Logged)
      BY <2>1, LoggedTaken DEF Taken
    <3> QED
      BY <2>2, <3>1
  <2>5. ASSUME budget.rejections = MaxRejections, NEW t \in Seqs, t < NextSeq
        PROVE  t \in Taken(log)
    <3>1. Max(Logged) \in Seqs /\ Max(Logged) \in Taken(log)
      BY <2>1, <2>2, LoggedTaken
    <3> QED
      BY <2>3, <2>5, <3>1 DEF IInv, NoGap
  <2> QED
    BY <2>4, <2>5
<1> QED
  BY <1>1, <1>2

LEMMA InitIInv == Init => IInv
<1> SUFFICES ASSUME Init PROVE IInv
  OBVIOUS
<1> USE AgentRunAssumption DEF Init
<1>1. FrameOK
  BY DEF FrameOK, Seqs
<1>2. NoGap
  BY DEF NoGap, Taken
<1>3. Below /\ Whole
  BY DEF Below, Whole, Active, Following
<1> QED
  BY <1>1, <1>2, <1>3 DEF IInv

-----------------------------------------------------------------------------
(* The steps of the log protocol: what a worker may do to at, seen, next and *)
(* the log.                                                                  *)

ActiveAt(p) == p \notin {"idle", "decide", "open"}
FollowingAt(p) == ActiveAt(p) /\ p \notin {"terminal", "closing"}

\* A worker moves on, with the view and the next seq it has or takes.
LEMMA MoveOK ==
  ASSUME IInv, NEW w \in Workers, NEW p, NEW view \in SUBSET Seqs, NEW n \in Nat,
         log' = log,
         at' = [at EXCEPT ![w] = p],
         seen' = [seen EXCEPT ![w] = view],
         next' = [next EXCEPT ![w] = n],
         budget' \in [queries : Int, resumes : Int, crashes : Int, rejections : Int],
         budget'.rejections = budget.rejections,
         budget.rejections = MaxRejections =>
           /\ ActiveAt(p) => \A t \in Seqs : t < n => t \in Taken(log)
           /\ FollowingAt(p) => view = {s \in Taken(log) : s < n}
  PROVE  IInv'
<1>1. FrameOK'
  BY DEF IInv, FrameOK
<1>2. ASSUME budget.rejections = MaxRejections PROVE (NoGap /\ Below /\ Whole)'
  <2>1. NoGap'
    BY <1>2 DEF IInv, NoGap, Taken
  <2>2. ASSUME NEW u \in Workers
        PROVE  /\ Active(u)' => \A t \in Seqs : t < next'[u] => t \in Taken(log')
               /\ Following(u)' => seen'[u] = {s \in Taken(log') : s < next'[u]}
    <3>1. CASE u = w
      <4>1. at'[u] = p /\ next'[u] = n /\ seen'[u] = view
        BY <3>1 DEF IInv, FrameOK
      <4> QED
        BY <1>2, <4>1 DEF Active, Following, ActiveAt, FollowingAt
    <3>2. CASE u # w
      <4>1. at'[u] = at[u] /\ next'[u] = next[u] /\ seen'[u] = seen[u]
        BY <3>2 DEF IInv, FrameOK
      <4> QED
        BY <1>2, <4>1 DEF Active, Following, IInv, Below, Whole
    <3> QED
      BY <3>1, <3>2
  <2> QED
    BY <2>1, <2>2 DEF Below, Whole
<1> QED
  BY <1>1, <1>2 DEF IInv

\* A worker that follows the log goes on without touching it.
LEMMA StayOK ==
  ASSUME IInv, NEW w \in Workers, NEW p, Following(w) \/ ~ ActiveAt(p),
         at' = [at EXCEPT ![w] = p], UNCHANGED <<log, seen, next>>,
         budget' \in [queries : Int, resumes : Int, crashes : Int, rejections : Int],
         budget'.rejections = budget.rejections
  PROVE  IInv'
<1>1. /\ seen' = [seen EXCEPT ![w] = seen[w]]
      /\ next' = [next EXCEPT ![w] = next[w]]
      /\ seen[w] \in SUBSET Seqs /\ next[w] \in Nat
      /\ log' = log
  BY DEF IInv, FrameOK
<1>2. budget.rejections = MaxRejections =>
        /\ ActiveAt(p) => \A t \in Seqs : t < next[w] => t \in Taken(log)
        /\ FollowingAt(p) => seen[w] = {s \in Taken(log) : s < next[w]}
  <2> SUFFICES ASSUME budget.rejections = MaxRejections, ActiveAt(p)
               PROVE  /\ \A t \in Seqs : t < next[w] => t \in Taken(log)
                      /\ seen[w] = {s \in Taken(log) : s < next[w]}
    BY DEF FollowingAt
  <2>1. Active(w) /\ Following(w)
    BY DEF Following
  <2> QED
    BY <2>1 DEF IInv, Below, Whole
<1> DEFINE view == seen[w]
           n == next[w]
<1>3. /\ view \in SUBSET Seqs /\ n \in Nat
      /\ seen' = [seen EXCEPT ![w] = view] /\ next' = [next EXCEPT ![w] = n]
      /\ budget.rejections = MaxRejections =>
           /\ ActiveAt(p) => \A t \in Seqs : t < n => t \in Taken(log)
           /\ FollowingAt(p) => view = {s \in Taken(log) : s < n}
  BY <1>1, <1>2
<1> HIDE DEF view, n
<1> QED
  BY <1>1, <1>3, MoveOK

\* A run that is over has no view.
LEMMA RestOK ==
  ASSUME IInv, NEW w \in Workers, Rest(w), log' = log,
         budget' \in [queries : Int, resumes : Int, crashes : Int, rejections : Int],
         budget'.rejections = budget.rejections
  PROVE  IInv'
<1>1. /\ at' = [at EXCEPT ![w] = "idle"]
      /\ seen' = [seen EXCEPT ![w] = {}]
      /\ next' = [next EXCEPT ![w] = 0]
  BY DEF Rest, Goto
<1>2. ~ ActiveAt("idle") /\ ~ FollowingAt("idle")
  BY DEF ActiveAt, FollowingAt
<1> QED
  BY <1>1, <1>2, MoveOK

\* A worker reads the whole log and continues behind it.
LEMMA ReadOK ==
  ASSUME IInv, NEW w \in Workers, NEW p, log' = log,
         at' = [at EXCEPT ![w] = p],
         seen' = [seen EXCEPT ![w] = Logged],
         next' = [next EXCEPT ![w] = NextSeq],
         budget' \in [queries : Int, resumes : Int, crashes : Int, rejections : Int],
         budget'.rejections = budget.rejections
  PROVE  IInv'
<1>1. Logged \in SUBSET Seqs /\ NextSeq \in Nat
  BY NextSeqOK DEF Logged
<1>2. Logged = {s \in Taken(log) : s < NextSeq}
  BY NextSeqOK, LoggedTaken
<1> QED
  BY <1>1, <1>2, NextSeqOK, MoveOK

\* An append takes the first free seq, which lies at or above the next seq of
\* every other worker.
LEMMA PlaceOK ==
  ASSUME IInv, NEW w \in Workers, NEW p, NEW ev, ev # NoEvent, Place(w, ev),
         Active(w), FollowingAt(p) => Following(w),
         at' = [at EXCEPT ![w] = p], budget' = budget
  PROVE  IInv'
<1> USE AgentRunAssumption
<1>0. /\ next[w] \in Seqs /\ next[w] \notin Taken(log)
      /\ log' = [log EXCEPT ![next[w]] = ev]
      /\ seen' = [seen EXCEPT ![w] = @ \cup {next[w]}]
      /\ next' = [next EXCEPT ![w] = @ + 1]
  BY DEF Place, Taken
<1>1. FrameOK'
  <2>1. DOMAIN log' = Seqs /\ DOMAIN at' = Workers
    BY <1>0 DEF IInv, FrameOK
  <2>2. seen' \in [Workers -> SUBSET Seqs] /\ next' \in [Workers -> Nat]
    BY <1>0 DEF IInv, FrameOK
  <2> QED
    BY <2>1, <2>2 DEF IInv, FrameOK
<1>2. Taken(log') = Taken(log) \cup {next[w]}
  BY <1>0 DEF Taken, IInv, FrameOK
<1>3. ASSUME budget.rejections = MaxRejections PROVE (NoGap /\ Below /\ Whole)'
  <2>0. \A t \in Seqs : t < next[w] => t \in Taken(log)
    BY <1>3 DEF IInv, Below
  <2>1. \A t \in Taken(log) : t < next[w]
    <3>1. \A t \in Taken(log) : t \in Int
      BY DEF Taken, Seqs
    <3>2. \A t \in Taken(log) : ~ (next[w] < t)
      BY <1>0, <1>3 DEF IInv, NoGap, Taken
    <3> QED
      BY <1>0, <3>1, <3>2 DEF Seqs
  <2>2. NoGap'
    <3> SUFFICES ASSUME NEW s \in Seqs, NEW t \in Seqs, s \in Taken(log'), t < s
                 PROVE  t \in Taken(log')
      BY DEF NoGap
    <3>1. CASE s \in Taken(log)
      BY <1>2, <1>3, <3>1 DEF IInv, NoGap
    <3>2. CASE s = next[w]
      BY <1>2, <2>0, <3>2
    <3> QED
      BY <1>2, <3>1, <3>2
  <2>3. ASSUME NEW u \in Workers
        PROVE  /\ Active(u)' => \A t \in Seqs : t < next'[u] => t \in Taken(log')
               /\ Following(u)' => seen'[u] = {s \in Taken(log') : s < next'[u]}
    <3>1. CASE u = w
      <4>1. at'[u] = p /\ next'[u] = next[w] + 1 /\ seen'[u] = seen[w] \cup {next[w]}
        BY <1>0, <3>1 DEF IInv, FrameOK
      <4>2. \A t \in Seqs : t < next[w] + 1 => t \in Taken(log')
        <5>1. \A t \in Seqs : t < next[w] + 1 => t < next[w] \/ t = next[w]
          BY <1>0 DEF Seqs
        <5> QED
          BY <1>2, <2>0, <5>1
      <4>3. \A s \in Taken(log') : s < next[w] + 1
        <5>1. \A t \in Taken(log) : t \in Int
          BY DEF Taken, Seqs
        <5> QED
          BY <1>0, <1>2, <2>1, <5>1 DEF Seqs
      <4>4. FollowingAt(p) => seen[w] = Taken(log)
        BY <1>3, <2>1 DEF IInv, Whole
      <4>5. Following(u)' => FollowingAt(p)
        BY <4>1 DEF Following, Active, FollowingAt, ActiveAt
      <4> QED
        BY <1>2, <4>1, <4>2, <4>3, <4>4, <4>5
    <3>2. CASE u # w
      <4>1. at'[u] = at[u] /\ next'[u] = next[u] /\ seen'[u] = seen[u]
        BY <1>0, <3>2 DEF IInv, FrameOK
      <4>2. (Active(u)' <=> Active(u)) /\ (Following(u)' <=> Following(u))
        BY <4>1 DEF Active, Following
      <4>3. Active(u) => \A t \in Seqs : t < next[u] => t \in Taken(log)
        BY <1>3 DEF IInv, Below
      <4>4. Active(u) => ~ (next[w] < next[u])
        BY <1>0, <4>3
      <4>5. Following(u) => Active(u)
        BY DEF Following
      <4>6. Following(u) => seen[u] = {s \in Taken(log) : s < next[u]}
        BY <1>3 DEF IInv, Whole
      <4> QED
        BY <1>2, <4>1, <4>2, <4>3, <4>4, <4>5, <4>6
    <3> QED
      BY <3>1, <3>2
  <2> QED
    BY <2>2, <2>3 DEF Below, Whole
<1> QED
  BY <1>1, <1>3 DEF IInv

\* A refused append costs the worker its view: because the seq was taken, or
\* because an append was rejected.
LEMMA RefusedOK ==
  ASSUME IInv, NEW w \in Workers, NEW p, NEW view \in SUBSET Seqs, NEW n \in Nat,
         NEW ev, Refused(w, ev), ~ FollowingAt(p),
         (Active(w) /\ n = next[w] + 1) \/ ~ ActiveAt(p),
         at' = [at EXCEPT ![w] = p],
         seen' = [seen EXCEPT ![w] = view],
         next' = [next EXCEPT ![w] = n]
  PROVE  IInv'
<1> USE AgentRunAssumption
<1>1. CASE log[next[w]] # NoEvent /\ UNCHANGED <<log, budget>>
  <2>1. budget.rejections = MaxRejections =>
          /\ ActiveAt(p) => \A t \in Seqs : t < n => t \in Taken(log)
          /\ FollowingAt(p) => view = {s \in Taken(log) : s < n}
    <3> SUFFICES ASSUME budget.rejections = MaxRejections, ActiveAt(p),
                        NEW t \in Seqs, t < n
                 PROVE  t \in Taken(log)
      OBVIOUS
    <3>1. next[w] \in Seqs /\ next[w] \in Taken(log)
      BY <1>1 DEF Refused, Taken
    <3>2. n = next[w] + 1 /\ (t < next[w] \/ t = next[w])
      BY <3>1 DEF Seqs
    <3>3. t < next[w] => t \in Taken(log)
      BY DEF IInv, Below
    <3> QED
      BY <3>1, <3>2, <3>3
  <2>2. budget' \in [queries : Int, resumes : Int, crashes : Int, rejections : Int]
    BY <1>1 DEF IInv, FrameOK
  <2> QED
    BY <1>1, <2>1, <2>2, MoveOK
<1>2. CASE /\ budget' = [budget EXCEPT !.rejections = @ - 1]
           /\ log' \in {log, [log EXCEPT ![next[w]] = ev]}
  <2>1. budget' \in [queries : Int, resumes : Int, crashes : Int, rejections : Int]
        /\ budget'.rejections = budget.rejections - 1
    <3>1. budget = [queries |-> budget.queries, resumes |-> budget.resumes,
                    crashes |-> budget.crashes, rejections |-> budget.rejections]
          /\ budget.rejections \in Int
      BY DEF IInv, FrameOK
    <3>2. budget' = [queries |-> budget.queries, resumes |-> budget.resumes,
                     crashes |-> budget.crashes,
                     rejections |-> budget.rejections - 1]
      BY <1>2, <3>1
    <3>3. budget.queries \in Int /\ budget.resumes \in Int /\ budget.crashes \in Int
      BY DEF IInv, FrameOK
    <3> QED
      BY <3>1, <3>2, <3>3
  <2>2. budget.rejections \in Int /\ budget.rejections <= MaxRejections
        /\ MaxRejections \in Nat
    BY DEF IInv, FrameOK
  <2>3. budget'.rejections < MaxRejections
    BY <2>1, <2>2
  <2>4. DOMAIN log' = Seqs /\ DOMAIN at' = Workers
    BY <1>2 DEF IInv, FrameOK
  <2>5. seen' \in [Workers -> SUBSET Seqs] /\ next' \in [Workers -> Nat]
    BY DEF IInv, FrameOK
  <2>6. FrameOK'
    BY <2>1, <2>3, <2>2, <2>4, <2>5 DEF FrameOK
  <2> QED
    BY <2>2, <2>1, <2>3, <2>6 DEF IInv
<1> QED
  BY <1>1, <1>2 DEF Refused

-----------------------------------------------------------------------------
(* The actions. *)

LEMMA BudgetOK ==
  ASSUME IInv, \/ budget' = budget
               \/ budget' = [budget EXCEPT !.queries = @ - 1]
               \/ budget' = [budget EXCEPT !.resumes = @ - 1]
               \/ budget' = [budget EXCEPT !.crashes = @ - 1]
  PROVE  /\ budget' \in [queries : Int, resumes : Int, crashes : Int, rejections : Int]
         /\ budget'.rejections = budget.rejections
<1>1. /\ budget = [queries |-> budget.queries, resumes |-> budget.resumes,
                   crashes |-> budget.crashes, rejections |-> budget.rejections]
      /\ budget.queries \in Int /\ budget.resumes \in Int
      /\ budget.crashes \in Int /\ budget.rejections \in Int
  BY DEF IInv, FrameOK
<1>2. PICK q \in Int, r \in Int, c \in Int :
        budget' = [queries |-> q, resumes |-> r, crashes |-> c,
                   rejections |-> budget.rejections]
  BY <1>1
<1> QED
  BY <1>1, <1>2

\* Every event that is appended differs from the empty row.
LEMMA EventKinds ==
  /\ Plain("run_started") # NoEvent /\ Plain("user") # NoEvent
  /\ \A b : Assistant(b) # NoEvent
  /\ \A r : ToolResult(r) # NoEvent
  /\ \A c : Suspension(c) # NoEvent
  /\ \A r, o, c : Terminal(r, o, c) # NoEvent
<1>1. NoEvent.kind = "none"
  BY DEF NoEvent, Plain
<1>2. Plain("run_started").kind = "run_started" /\ Plain("user").kind = "user"
  BY DEF Plain
<1>3. \A b : Assistant(b).kind = "assistant"
  BY DEF Assistant, Plain
<1>4. \A r : ToolResult(r).kind = "tool_result"
  BY DEF ToolResult, Plain
<1>5. \A c : Suspension(c).kind = "suspension"
  BY DEF Suspension, Plain
<1>6. \A r, o, c : Terminal(r, o, c).kind = "terminal_result"
  BY DEF Terminal, Plain
<1> QED
  BY <1>1, <1>2, <1>3, <1>4, <1>5, <1>6

\* The steps that leave the log and the view of the worker alone.
LEMMA QuietOK ==
  ASSUME IInv, NEW w \in Workers,
         \/ Checkpoint(w) \/ Stop(w) \/ ModelFails(w) \/ Model(w) \/ Called(w)
         \/ Look(w) \/ Execute(w) \/ Complete(w) \/ Decide(w)
  PROVE  IInv'
<1>1. UNCHANGED <<log, seen, next, budget>>
  BY DEF Checkpoint, Stop, ModelFails, Model, Called, Look, Execute, Complete,
         Decide, store
<1>2. PICK p : at' = [at EXCEPT ![w] = p] /\ (Following(w) \/ ~ ActiveAt(p))
  <2>1. CASE Checkpoint(w)
    BY <2>1 DEF Checkpoint, Goto, Following, Active
  <2>2. CASE Stop(w)
    BY <2>2 DEF Stop, CheckpointThen, End, Goto, Following, Active
  <2>3. CASE Model(w)
    BY <2>3 DEF Model, CheckpointThen, Goto, Following, Active
  <2>4. CASE Called(w)
    BY <2>4 DEF Called, End, Goto, Following, Active
  <2>5. CASE Look(w)
    BY <2>5 DEF Look, Settle, Goto, Following, Active
  <2>6. CASE Execute(w)
    BY <2>6 DEF Execute, Unwind, Settle, Goto, Following, Active
  <2>7. CASE Complete(w)
    BY <2>7 DEF Complete, Settle, Goto, Following, Active
  <2>8. CASE Decide(w)
    BY <2>8 DEF Decide, Goto, ActiveAt
  <2>9. CASE ModelFails(w)
    BY <2>9 DEF ModelFails, End, Goto, Following, Active
  <2> QED
    BY <2>1, <2>2, <2>3, <2>4, <2>5, <2>6, <2>7, <2>8, <2>9
<1>3. UNCHANGED <<log, seen, next>> /\ budget' = budget
  BY <1>1
<1> QED
  BY <1>2, <1>3, BudgetOK, StayOK

\* A refused append that ends the run, with or without a terminal result.
LEMMA RefusedEnd ==
  ASSUME IInv, NEW w \in Workers, NEW ev, Active(w), Refused(w, ev),
         \/ Rest(w)
         \/ /\ at' = [at EXCEPT ![w] = "terminal"]
            /\ next' = [next EXCEPT ![w] = @ + 1]
            /\ seen' = seen
  PROVE  IInv'
<1>1. CASE Rest(w)
  <2>1. /\ at' = [at EXCEPT ![w] = "idle"]
        /\ seen' = [seen EXCEPT ![w] = {}]
        /\ next' = [next EXCEPT ![w] = 0]
    BY <1>1 DEF Rest, Goto
  <2>2. ~ ActiveAt("idle") /\ ~ FollowingAt("idle")
    BY DEF ActiveAt, FollowingAt
  <2> QED
    BY <2>1, <2>2, RefusedOK
<1>2. CASE /\ at' = [at EXCEPT ![w] = "terminal"]
           /\ next' = [next EXCEPT ![w] = @ + 1]
           /\ seen' = seen
  <2> DEFINE view == seen[w]
             n == next[w] + 1
  <2>1. /\ view \in SUBSET Seqs /\ n \in Nat /\ n = next[w] + 1
        /\ seen' = [seen EXCEPT ![w] = view] /\ next' = [next EXCEPT ![w] = n]
    BY <1>2 DEF IInv, FrameOK
  <2>2. ~ FollowingAt("terminal")
    BY DEF FollowingAt
  <2> HIDE DEF view, n
  <2> QED
    BY <1>2, <2>1, <2>2, RefusedOK
<1> QED
  BY <1>1, <1>2

\* The appends of runLoop.
LEMMA LoopAppendOK ==
  ASSUME IInv, NEW w \in Workers,
         Interrupted(w) \/ AppendAssistant(w) \/ Results(w) \/ Suspend(w)
  PROVE  IInv'
<1>1. Active(w) /\ Following(w)
  BY DEF Interrupted, AppendAssistant, Results, Suspend, Active, Following
<1>2. PICK ev : /\ ev # NoEvent
                /\ \/ /\ Place(w, ev) /\ budget' = budget
                      /\ \E p : at' = [at EXCEPT ![w] = p]
                   \/ /\ Refused(w, ev)
                      /\ at' = [at EXCEPT ![w] = "terminal"]
                      /\ next' = [next EXCEPT ![w] = @ + 1]
                      /\ seen' = seen
  <2>1. CASE AppendAssistant(w)
    BY <2>1, EventKinds DEF AppendAssistant, AppendInLoop, CheckpointThen, End, Goto
  <2>2. CASE Results(w)
    BY <2>2, EventKinds DEF Results, AppendInLoop, CheckpointThen, End, Goto
  <2>3. CASE Suspend(w)
    BY <2>3, EventKinds DEF Suspend, AppendInLoop, CheckpointThen, End, Goto
  <2>4. CASE Interrupted(w)
    BY <2>4, EventKinds DEF Interrupted, AppendInLoop, CheckpointThen, End, Goto
  <2> QED
    BY <2>1, <2>2, <2>3, <2>4
<1>3. CASE Place(w, ev) /\ budget' = budget /\ \E p : at' = [at EXCEPT ![w] = p]
  BY <1>1, <1>2, <1>3, PlaceOK
<1>4. CASE /\ Refused(w, ev)
           /\ at' = [at EXCEPT ![w] = "terminal"]
           /\ next' = [next EXCEPT ![w] = @ + 1]
           /\ seen' = seen
  BY <1>1, <1>4, RefusedEnd
<1> QED
  BY <1>2, <1>3, <1>4

\* The appends outside runLoop, whose refusal ends the query at once.
LEMMA EdgeAppendOK ==
  ASSUME IInv, NEW w \in Workers, Start(w) \/ User(w) \/ Finish(w)
  PROVE  IInv'
<1>1. CASE Start(w)
  <2>1. Active(w) /\ Following(w)
    BY <1>1 DEF Start, Active, Following
  <2>2. CASE Place(w, Plain("run_started")) /\ budget' = budget
             /\ at' = [at EXCEPT ![w] = "user"]
    BY <2>1, <2>2, EventKinds, PlaceOK
  <2>3. CASE Refused(w, Plain("run_started")) /\ Rest(w)
    BY <2>1, <2>3, RefusedEnd
  <2> QED
    BY <1>1, <2>2, <2>3 DEF Start, Goto
<1>2. CASE User(w)
  <2>1. Active(w) /\ Following(w)
    BY <1>2 DEF User, Active, Following
  <2>2. CASE UNCHANGED <<log, seen, next>> /\ budget' = budget
             /\ at' = [at EXCEPT ![w] = "terminal"]
    BY <2>1, <2>2, BudgetOK, StayOK
  <2>3. CASE Place(w, Plain("user")) /\ budget' = budget
             /\ at' = [at EXCEPT ![w] = "checkpoint"]
    BY <2>1, <2>3, EventKinds, PlaceOK
  <2>4. CASE Refused(w, Plain("user")) /\ Rest(w)
    BY <2>1, <2>4, RefusedEnd
  <2> QED
    BY <1>2, <2>2, <2>3, <2>4 DEF User, End, CheckpointThen, Goto
<1>3. CASE Finish(w)
  <2>1. Active(w) /\ ~ FollowingAt("closing") /\ Verdict(w) # NoEvent
    BY <1>3, EventKinds DEF Finish, Active, FollowingAt, Verdict
  <2>2. CASE Place(w, Verdict(w)) /\ budget' = budget
             /\ at' = [at EXCEPT ![w] = "closing"]
    BY <2>1, <2>2, PlaceOK
  <2>3. CASE Refused(w, Verdict(w)) /\ Rest(w)
    BY <2>1, <2>3, RefusedEnd
  <2> QED
    BY <1>3, <2>2, <2>3 DEF Finish, Goto
<1> QED
  BY <1>1, <1>2, <1>3

\* The steps that take up a session or let go of it.
LEMMA SessionOK ==
  ASSUME IInv, NEW w \in Workers,
         Query(w) \/ Resume(w) \/ Open(w) \/ Close(w) \/ Crash(w)
  PROVE  IInv'
<1>1. CASE Query(w)
  <2>1. /\ log' = log /\ at' = [at EXCEPT ![w] = "start"]
        /\ seen' = [seen EXCEPT ![w] = Logged] /\ next' = [next EXCEPT ![w] = NextSeq]
        /\ budget' = [budget EXCEPT !.queries = @ - 1]
    BY <1>1 DEF Query, Goto, store
  <2> QED
    BY <2>1, BudgetOK, ReadOK
<1>2. CASE Resume(w)
  <2>1. PICK p \in {"open", "decide"} : at' = [at EXCEPT ![w] = p]
    BY <1>2 DEF Resume, Goto
  <2>2. UNCHANGED <<log, seen, next>> /\ budget' = [budget EXCEPT !.resumes = @ - 1]
    BY <1>2 DEF Resume, store
  <2>3. ~ ActiveAt(p)
    BY DEF ActiveAt
  <2> QED
    BY <2>1, <2>2, <2>3, BudgetOK, StayOK
<1>3. CASE Open(w)
  <2>1. log' = log /\ budget' = budget
    BY <1>3 DEF Open, store
  <2>2. CASE Rest(w)
    BY <2>1, <2>2, BudgetOK, RestOK
  <2>3. CASE /\ \E p : at' = [at EXCEPT ![w] = p]
             /\ seen' = [seen EXCEPT ![w] = Logged]
             /\ next' = [next EXCEPT ![w] = NextSeq]
    BY <2>1, <2>3, BudgetOK, ReadOK
  <2> QED
    BY <1>3, <2>2, <2>3 DEF Open, Reopen, Continue, Blocked, Goto
<1>4. CASE Close(w)
  BY <1>4, BudgetOK, RestOK DEF Close
<1>5. CASE Crash(w)
  <2>1. Rest(w) /\ log' = log /\ budget' = [budget EXCEPT !.crashes = @ - 1]
    BY <1>5 DEF Crash, store
  <2> QED
    BY <2>1, BudgetOK, RestOK
<1> QED
  BY <1>1, <1>2, <1>3, <1>4, <1>5

LEMMA NextIInv == IInv /\ [Next]_vars => IInv'
<1> SUFFICES ASSUME IInv, [Next]_vars PROVE IInv'
  OBVIOUS
<1>1. CASE UNCHANGED vars
  <2>1. UNCHANGED <<log, at, seen, next, budget>>
    BY <1>1 DEF vars, store, worker
  <2> QED
    BY <2>1 DEF IInv, FrameOK, NoGap, Below, Whole, Taken, Active, Following
<1>2. CASE Next
  <2>1. PICK w \in Workers : Query(w) \/ Resume(w) \/ Step(w) \/ Crash(w)
    BY <1>2 DEF Next
  <2>2. CASE Step(w)
    BY <2>2, QuietOK, LoopAppendOK, EdgeAppendOK, SessionOK DEF Step
  <2> QED
    BY <2>1, <2>2, SessionOK
<1> QED
  BY <1>1, <1>2

\* Optimistic concurrency of the event log, for every set of workers, every
\* model and every bound: a worker whose appends were all accepted has read
\* every event below the seq it writes next, so whatever it appends was
\* computed from the whole log before it.
THEOREM NoBlindAppend == Spec => []WholeView
<1>1. IInv => WholeView
  BY LoggedTaken DEF IInv, Whole, WholeView
<1> QED
  BY InitIInv, NextIInv, <1>1, PTL DEF Spec

-----------------------------------------------------------------------------
(* Human approval.  The invariant: a decision on record that says approved   *)
(* was given by a human, and what asks has acted only with such a decision.  *)

AInv ==
  /\ DOMAIN decisions = Calls /\ DOMAIN effects = Calls
  /\ \A c \in Calls : decisions[c] = "approved" => c \in approved
  /\ ApprovedBeforeActing

\* A tool acts, or it does not.
LEMMA ExecuteApproved ==
  ASSUME AInv, NEW w \in Workers, Execute(w) PROVE AInv'
<1> DEFINE c == Head(job[w].todo)
<1>1. UNCHANGED <<decisions, approved>>
  BY DEF Execute
<1>2. \/ effects' = effects
      \/ MayAct(c) /\ effects' = [effects EXCEPT ![c] = @ + 1]
  BY DEF Execute
<1> HIDE DEF c
<1>3. ASSUME NEW d \in Asking, effects'[d] > 0 PROVE d \in approved
  <2>1. d \in Calls
    BY AgentRunAssumption
  <2>2. CASE effects'[d] = effects[d]
    BY <1>3, <2>2 DEF AInv, ApprovedBeforeActing
  <2>3. CASE d = c /\ MayAct(c)
    BY <2>1, <2>3 DEF MayAct, AInv
  <2> QED BY <1>2, <2>1, <2>2, <2>3 DEF AInv
<1> QED BY <1>1, <1>2, <1>3 DEF AInv, ApprovedBeforeActing

\* Agent.resume records what the human decided.
LEMMA DecideApproved ==
  ASSUME AInv, NEW w \in Workers, Decide(w) PROVE AInv'
<1>1. /\ decisions' = [decisions EXCEPT ![job[w].call] = job[w].decision]
      /\ approved' = IF job[w].decision = "approved" THEN approved \cup {job[w].call}
                                                     ELSE approved
      /\ effects' = effects
  BY DEF Decide
<1> QED BY <1>1 DEF AInv, ApprovedBeforeActing

\* A tool that asks for approval acts only after a human approved that very call,
\* for any number of workers, resumes, crashes and refused appends: no decision
\* is mistaken for another's, and a decline is never read as a consent.
THEOREM ApprovalFirst == Spec => []ApprovedBeforeActing
<1>1. Init => AInv
  BY AgentRunAssumption DEF Init, AInv, ApprovedBeforeActing
<1>2. AInv /\ [Next]_vars => AInv'
  <2> SUFFICES ASSUME AInv, [Next]_vars PROVE AInv'
    OBVIOUS
  <2>1. CASE UNCHANGED <<decisions, effects, approved>>
    BY <2>1 DEF AInv, ApprovedBeforeActing
  <2>2. CASE UNCHANGED vars
    BY <2>1, <2>2 DEF vars, store, history
  <2>3. CASE Next
    <3>1. PICK w \in Workers : Query(w) \/ Resume(w) \/ Step(w) \/ Crash(w)
      BY <2>3 DEF Next
    <3>2. CASE Query(w) \/ Resume(w) \/ Crash(w)
      BY <2>1, <3>2 DEF Query, Resume, Crash, store, history
    <3>3. CASE Step(w)
      <4>1. CASE Execute(w) \/ Decide(w)
        BY <4>1, ExecuteApproved, DecideApproved
      <4>2. CASE Start(w) \/ User(w) \/ Checkpoint(w) \/ Stop(w) \/ ModelFails(w)
                   \/ Interrupted(w) \/ Model(w)
        BY <2>1, <4>2 DEF Start, User, Checkpoint, Stop, ModelFails, Interrupted, Model,
                          store, history
      <4>3. CASE AppendAssistant(w) \/ Called(w) \/ Look(w) \/ Complete(w) \/ Results(w)
                   \/ Suspend(w) \/ Finish(w) \/ Close(w) \/ Open(w)
        BY <2>1, <4>3 DEF AppendAssistant, Called, Look, Complete, Results, Suspend,
                          Finish, Close, Open, store, history
      <4> QED BY <3>3, <4>1, <4>2, <4>3 DEF Step
    <3> QED BY <3>1, <3>2, <3>3
  <2> QED BY <2>2, <2>3
<1>3. AInv => ApprovedBeforeActing
  BY DEF AInv
<1> QED BY <1>1, <1>2, <1>3, PTL DEF Spec
-----------------------------------------------------------------------------
(* Types.                                                                    *)

Decisions == {"none", "approved", "declined"}
Outcomes == [call : Calls, outcome : {"ok", "error"}]
Jobs == [run : Seqs \cup {NoRun}, todo : Seq(Calls), done : Seq(Outcomes),
         resumed : BOOLEAN, turn : 0..MaxTurns, call : Calls \cup {NoCall},
         then : Points, ends : Subtypes, decision : Decisions]
Budgets == [queries : 0..MaxQueries, resumes : 0..MaxResumes,
            crashes : 0..MaxCrashes, rejections : 0..MaxRejections]

\* What a worker must have at hand for the step it is about to take.
FitFor(p, j) ==
  /\ p = "checkpoint" => j.then \in {"top", "called", "terminal"}
  /\ p = "assistant" => j.todo \in Batches
  /\ p \in {"dispatch", "execute", "complete"} => j.todo # << >>
  /\ p = "results" => j.done # << >>
  /\ p = "suspend" => j.call \in Calls
  /\ p = "decide" => j.call \in Calls /\ j.decision # "none"

TInv ==
  /\ log \in [Seqs -> Event]
  /\ checkpoint \in [seq : 0..(MaxSeq + 1), hash : SUBSET Seqs]
  /\ ledger \in [Calls -> {"absent", "intent", "applied"}]
  /\ decisions \in [Calls -> Decisions]
  /\ at \in [Workers -> Points]
  /\ seen \in [Workers -> SUBSET Seqs]
  /\ next \in [Workers -> 0..(MaxSeq + 1)]
  /\ hash \in [Workers -> SUBSET Seqs]
  /\ job \in [Workers -> Jobs]
  /\ effects \in [Calls -> Nat]
  /\ approved \subseteq Calls
  /\ budget \in Budgets
  /\ \A w \in Workers : FitFor(at[w], job[w])
  /\ \A s \in Seqs : log[s].kind = "suspension" => log[s].call \in Calls
-----------------------------------------------------------------------------
(* The calls of the model and their answers.                                 *)

Alone == \A u, w \in Workers : u = w
\* No worker can write behind another one's back.
Orderly == Alone \/ budget.rejections = MaxRejections

\* Below seq n of log l, call c is answered, or asked for.
Answers(l, n, c) ==
  \E s \in Seqs : s < n /\ l[s].kind = "tool_result" /\ l[s].call = c
Asks(l, n, c) ==
  \E s \in Seqs : /\ s < n /\ l[s].kind = "assistant"
                  /\ \E i \in DOMAIN l[s].calls : l[s].calls[i] = c
AllAnswered(l, s, n) == \A i \in DOMAIN l[s].calls : Answers(l, n, l[s].calls[i])

\* An answer follows its call, and there is one; a model that is asked again, or
\* that ends its run well, has seen its calls answered.
LogSound(l) ==
  /\ \A c : Answers(l, MaxSeq + 1, c) => Asks(l, MaxSeq + 1, c)
  /\ \A s, t \in Seqs :
       l[s].kind = "tool_result" /\ l[t].kind = "tool_result" /\ l[s].call = l[t].call
         => s = t
  /\ \A s, t \in Seqs :
       /\ s < t /\ l[s].kind = "assistant" /\ l[t].kind = "assistant"
       /\ \A r \in Seqs : s < r /\ r < t => l[r].kind # "run_started"
       => AllAnswered(l, s, t)
  /\ \A s, t \in Seqs :
       /\ l[t].kind = "terminal_result" /\ l[t].outcome = "success"
       /\ l[t].run < s /\ s < t /\ l[s].kind = "assistant"
       => AllAnswered(l, s, t)

\* Run r is the last one that began below n.
LastRun(l, n, r) ==
  /\ r \in Seqs /\ r < n /\ l[r].kind = "run_started"
  /\ \A s \in Seqs : s < n /\ l[s].kind = "run_started" => s <= r

Todo(j, c) == \E i \in DOMAIN j.todo : j.todo[i] = c
Done(j, c) == \E i \in DOMAIN j.done : j.done[i].call = c
Apart(j) ==
  /\ \A i, k \in DOMAIN j.todo : j.todo[i] = j.todo[k] => i = k
  /\ \A i, k \in DOMAIN j.done : j.done[i].call = j.done[k].call => i = k
  /\ \A i \in DOMAIN j.todo : ~ Done(j, j.todo[i])

\* Where a worker is, once its checkpoint is written.
PhaseOf(p, j) == IF p = "checkpoint" THEN j.then ELSE p
Serving == {"called", "dispatch", "execute", "complete", "results"}
Asking1 == {"top", "assistant"} \cup Serving

\* A worker in phase p with job j, whose next seq is n: the calls that it has to
\* answer have no answer yet, and all others of its run have one.
WorkSound(l, p, n, j) ==
  /\ p \in {"start", "user", "top"} => j.todo = << >> /\ j.done = << >>
  /\ p \in {"user"} \cup Asking1 => LastRun(l, n, j.run)
  /\ p = "terminal" /\ j.ends = "success" => LastRun(l, n, j.run)
  /\ p \in {"assistant", "called"} => j.done = << >>
  /\ p = "results" => j.todo = << >>
  /\ p = "user" => j.run + 1 = n
  /\ p = "suspend" => j.ends = "suspended"
  /\ p \in Asking1 =>
       /\ Apart(j)
       /\ \A c : Todo(j, c) \/ Done(j, c) => ~ Answers(l, n, c)
  /\ p \in Serving => \A c : Todo(j, c) \/ Done(j, c) => Asks(l, n, c)
  /\ p \in Asking1 =>
       \A s \in Seqs : j.run < s /\ s < n /\ l[s].kind = "assistant" =>
         \A i \in DOMAIN l[s].calls :
           \/ Answers(l, n, l[s].calls[i])
           \/ p \in Serving /\ (Todo(j, l[s].calls[i]) \/ Done(j, l[s].calls[i]))
  /\ p = "terminal" /\ j.ends = "success" =>
       \A s \in Seqs : j.run < s /\ s < n /\ l[s].kind = "assistant" => AllAnswered(l, s, n)

\* A log that is not empty holds the start of a run, and is what is resumed.
Begun == \E r \in Seqs : log[r].kind = "run_started"
HasRun ==
  /\ (\E s \in Seqs : log[s] # NoEvent) => Begun
  /\ \A w \in Workers : at[w] \notin {"idle", "start"} => Begun

\* All that is in the log lies below the next seq of a worker that is alone.
InFront == Alone => \A w \in Workers : Active(w) =>
             \A s \in Seqs : log[s] # NoEvent => s < next[w]

Base == TInv /\ IInv /\ HasRun
Sound ==
  /\ InFront
  /\ Orderly => /\ LogSound(log)
                /\ \A w \in Workers : WorkSound(log, PhaseOf(at[w], job[w]), next[w], job[w])
SInv == Base /\ Sound

LEMMA NoJobOK == NoJob \in Jobs
<1>1. << >> \in Seq(Calls) /\ << >> \in Seq(Outcomes)
  OBVIOUS
<1>2. /\ NoRun \in Seqs \cup {NoRun} /\ 0 \in 0..MaxTurns /\ "idle" \in Points
      /\ "error" \in Subtypes /\ "none" \in Decisions
  BY AgentRunAssumption DEF Points, Subtypes, Decisions
<1> QED
  BY <1>1, <1>2 DEF NoJob, Jobs

\* What the steps of runLoop make of a job is a job.
LEMMA JobOps ==
  ASSUME NEW j \in Jobs
  PROVE  /\ \A p \in Points : [j EXCEPT !.then = p] \in Jobs
         /\ \A o \in Subtypes : [j EXCEPT !.ends = o] \in Jobs
         /\ \A r \in Seqs : [j EXCEPT !.run = r] \in Jobs
         /\ \A q \in Seq(Calls), p \in Points, o \in Subtypes :
              [j EXCEPT !.then = p, !.ends = o, !.todo = q] \in Jobs
         /\ \A p \in Points, o \in Subtypes :
              [[j EXCEPT !.ends = o] EXCEPT !.then = p] \in Jobs
         /\ \A c \in Calls \cup {NoCall}, o \in Subtypes :
              [j EXCEPT !.call = c, !.ends = o, !.todo = << >>, !.done = << >>] \in Jobs
         /\ \A q \in Seq(Calls), d \in Seq(Outcomes) :
              [j EXCEPT !.done = d, !.todo = q] \in Jobs
         /\ \A d \in Seq(Outcomes) : [j EXCEPT !.done = d] \in Jobs
<1>1. << >> \in Seq(Calls) /\ << >> \in Seq(Outcomes)
  OBVIOUS
<1> QED
  BY <1>1 DEF Jobs

\* The events that are appended.
LEMMA EventTypes ==
  /\ Plain("run_started") \in Event /\ Plain("user") \in Event /\ NoEvent \in Event
  /\ \A b \in Batches : Assistant(b) \in Event
  /\ \A r \in Outcomes : ToolResult(r) \in Event
  /\ \A c \in Calls : Suspension(c) \in Event
  /\ \A r \in Seqs \cup {NoRun}, o \in Subtypes, c \in Calls \cup {NoCall} :
       Terminal(r, o, c) \in Event
<1> USE AgentRunAssumption DEF Plain, Event
<1>1. Plain("run_started") \in Event /\ Plain("user") \in Event /\ NoEvent \in Event
  BY DEF NoEvent
<1>2. \A b \in Batches : Assistant(b) \in Event
  BY DEF Assistant
<1>3. \A r \in Outcomes : ToolResult(r) \in Event
  BY DEF ToolResult, Outcomes, Subtypes
<1>4. \A c \in Calls : Suspension(c) \in Event
  BY DEF Suspension
<1>5. \A r \in Seqs \cup {NoRun}, o \in Subtypes, c \in Calls \cup {NoCall} :
        Terminal(r, o, c) \in Event
  BY DEF Terminal, Subtypes
<1> QED
  BY <1>1, <1>2, <1>3, <1>4, <1>5

\* The fields of the events that are appended.
LEMMA EventFields ==
  /\ Plain("run_started").kind = "run_started" /\ Plain("user").kind = "user"
  /\ NoEvent.kind = "none"
  /\ \A b : Assistant(b).kind = "assistant" /\ Assistant(b).calls = b
  /\ \A r : ToolResult(r).kind = "tool_result" /\ ToolResult(r).call = r.call
  /\ \A c : Suspension(c).kind = "suspension" /\ Suspension(c).call = c
  /\ \A r, o, c : /\ Terminal(r, o, c).kind = "terminal_result"
                  /\ Terminal(r, o, c).run = r /\ Terminal(r, o, c).outcome = o
                  /\ Terminal(r, o, c).call = c
<1> USE DEF Plain
<1>1. /\ Plain("run_started").kind = "run_started" /\ Plain("user").kind = "user"
      /\ NoEvent.kind = "none"
  BY DEF NoEvent
<1>2. \A b : Assistant(b).kind = "assistant" /\ Assistant(b).calls = b
  BY DEF Assistant
<1>3. \A r : ToolResult(r).kind = "tool_result" /\ ToolResult(r).call = r.call
  BY DEF ToolResult
<1>4. \A c : Suspension(c).kind = "suspension" /\ Suspension(c).call = c
  BY DEF Suspension
<1>5. \A r, o, c : /\ Terminal(r, o, c).kind = "terminal_result"
                   /\ Terminal(r, o, c).run = r /\ Terminal(r, o, c).outcome = o
                   /\ Terminal(r, o, c).call = c
  BY DEF Terminal
<1> QED
  BY <1>1, <1>2, <1>3, <1>4, <1>5

\* The types of what one worker has.
WorkerTypes(p, v, n, h, j) ==
  /\ p \in Points /\ v \in SUBSET Seqs /\ n \in 0..(MaxSeq + 1)
  /\ h \in SUBSET Seqs /\ j \in Jobs /\ FitFor(p, j)

StoreTypes ==
  /\ log \in [Seqs -> Event]
  /\ checkpoint \in [seq : 0..(MaxSeq + 1), hash : SUBSET Seqs]
  /\ ledger \in [Calls -> {"absent", "intent", "applied"}]
  /\ decisions \in [Calls -> Decisions]
  /\ effects \in [Calls -> Nat]
  /\ approved \subseteq Calls
  /\ budget \in Budgets
  /\ \A s \in Seqs : log[s].kind = "suspension" => log[s].call \in Calls

\* A step of one worker keeps the types if what it makes of itself is well-typed.
LEMMA StepTypes ==
  ASSUME TInv, NEW w \in Workers, NEW p, NEW v, NEW n, NEW h, NEW j,
         WorkerTypes(p, v, n, h, j), StoreTypes',
         at' = [at EXCEPT ![w] = p], seen' = [seen EXCEPT ![w] = v],
         next' = [next EXCEPT ![w] = n], hash' = [hash EXCEPT ![w] = h],
         job' = [job EXCEPT ![w] = j]
  PROVE  TInv'
<1>1. /\ at' \in [Workers -> Points] /\ seen' \in [Workers -> SUBSET Seqs]
      /\ next' \in [Workers -> 0..(MaxSeq + 1)] /\ hash' \in [Workers -> SUBSET Seqs]
      /\ job' \in [Workers -> Jobs]
  BY DEF TInv, WorkerTypes
<1>2. ASSUME NEW u \in Workers PROVE FitFor(at'[u], job'[u])
  <2>1. CASE u = w
    BY <2>1 DEF TInv, WorkerTypes
  <2>2. CASE u # w
    BY <2>2 DEF TInv
  <2> QED
    BY <2>1, <2>2
<1> QED
  BY <1>1, <1>2 DEF TInv, StoreTypes

\* The same, where the worker changes only some of what it has.
LEMMA MoveTypes ==
  ASSUME TInv, NEW w \in Workers, NEW p \in Points, NEW j \in Jobs, FitFor(p, j),
         Goto(w, p, j), StoreTypes', UNCHANGED <<seen, next>>,
         hash' = hash \/ \E h \in SUBSET Seqs : hash' = [hash EXCEPT ![w] = h]
  PROVE  TInv'
<1>1. PICK h \in SUBSET Seqs : hash' = [hash EXCEPT ![w] = h]
  <2>1. hash[w] \in SUBSET Seqs /\ hash = [hash EXCEPT ![w] = hash[w]]
    BY DEF TInv
  <2> QED
    BY <2>1
<1>2. \E v, n : /\ seen' = [seen EXCEPT ![w] = v] /\ next' = [next EXCEPT ![w] = n]
                /\ v \in SUBSET Seqs /\ n \in 0..(MaxSeq + 1)
  <2>1. /\ seen' = [seen EXCEPT ![w] = seen[w]] /\ next' = [next EXCEPT ![w] = next[w]]
        /\ seen[w] \in SUBSET Seqs /\ next[w] \in 0..(MaxSeq + 1)
    BY DEF TInv
  <2> QED
    BY <2>1
<1> QED
  BY <1>1, <1>2, StepTypes DEF WorkerTypes, Goto

LEMMA TInvParts == TInv => StoreTypes /\ \A w \in Workers :
                     WorkerTypes(at[w], seen[w], next[w], hash[w], job[w])
  BY DEF TInv, StoreTypes, WorkerTypes

\* What is left of a bound shrinks.
LEMMA BudgetTypes ==
  ASSUME NEW b \in Budgets
  PROVE  /\ b.queries > 0 => [b EXCEPT !.queries = @ - 1] \in Budgets
         /\ b.resumes > 0 => [b EXCEPT !.resumes = @ - 1] \in Budgets
         /\ b.crashes > 0 => [b EXCEPT !.crashes = @ - 1] \in Budgets
         /\ b.rejections > 0 => [b EXCEPT !.rejections = @ - 1] \in Budgets
<1>1. /\ MaxQueries \in Nat /\ MaxResumes \in Nat /\ MaxCrashes \in Nat
      /\ MaxRejections \in Nat
  BY AgentRunAssumption
<1>2. \A m \in Nat : \A i \in 0..m : i > 0 => i - 1 \in 0..m
  OBVIOUS
<1>3. /\ b.queries \in 0..MaxQueries /\ b.resumes \in 0..MaxResumes
      /\ b.crashes \in 0..MaxCrashes /\ b.rejections \in 0..MaxRejections
  BY DEF Budgets
<1>4. /\ b.queries > 0 => b.queries - 1 \in 0..MaxQueries
      /\ b.resumes > 0 => b.resumes - 1 \in 0..MaxResumes
      /\ b.crashes > 0 => b.crashes - 1 \in 0..MaxCrashes
      /\ b.rejections > 0 => b.rejections - 1 \in 0..MaxRejections
  BY <1>1, <1>2, <1>3
<1>5. /\ \A x \in 0..MaxQueries : [b EXCEPT !.queries = x] \in Budgets
      /\ \A x \in 0..MaxResumes : [b EXCEPT !.resumes = x] \in Budgets
      /\ \A x \in 0..MaxCrashes : [b EXCEPT !.crashes = x] \in Budgets
      /\ \A x \in 0..MaxRejections : [b EXCEPT !.rejections = x] \in Budgets
  BY DEF Budgets
<1> QED
  BY <1>4, <1>5

\* An append, accepted or refused, keeps the types of the store.
LEMMA AppendTypes ==
  ASSUME TInv, NEW w \in Workers, NEW ev \in Event,
         ev.kind = "suspension" => ev.call \in Calls,
         (Place(w, ev) /\ budget' = budget) \/ Refused(w, ev),
         UNCHANGED <<checkpoint, ledger, decisions, history>>
  PROVE  StoreTypes' /\ next[w] \in Seqs /\ next[w] + 1 \in 0..(MaxSeq + 1)
<1>1. next[w] \in Seqs /\ next[w] + 1 \in 0..(MaxSeq + 1)
  BY AgentRunAssumption DEF Place, Refused, Seqs
<1>2. log' = log \/ log' = [log EXCEPT ![next[w]] = ev]
  BY DEF Place, Refused
<1>3. log' \in [Seqs -> Event]
  BY <1>2 DEF TInv
<1>4. \A s \in Seqs : log'[s].kind = "suspension" => log'[s].call \in Calls
  BY <1>2 DEF TInv
<1>5. budget' \in Budgets
  BY BudgetTypes DEF Place, Refused, TInv
<1> QED
  BY <1>1, <1>3, <1>4, <1>5 DEF StoreTypes, TInv, history

LEMMA RestTypes ==
  ASSUME TInv, NEW w \in Workers, Rest(w), StoreTypes' PROVE TInv'
<1>1. WorkerTypes("idle", {}, 0, {}, NoJob)
  BY NoJobOK, AgentRunAssumption DEF WorkerTypes, FitFor, Points
<1> QED
  BY <1>1, StepTypes DEF Rest, Goto

\* The appends of runLoop.
LEMMA LoopAppendTypes ==
  ASSUME TInv, NEW w \in Workers, NEW ev \in Event,
         ev.kind = "suspension" => ev.call \in Calls,
         NEW p \in Points, NEW j \in Jobs, FitFor(p, j),
         AppendInLoop(w, ev, Goto(w, p, j)),
         UNCHANGED <<checkpoint, ledger, decisions, history>>
  PROVE  TInv'
<1>1. CASE Place(w, ev) /\ Fold(w) /\ Goto(w, p, j) /\ budget' = budget
  <2>1. StoreTypes' /\ next[w] \in Seqs /\ next[w] + 1 \in 0..(MaxSeq + 1)
    BY <1>1, AppendTypes
  <2>2. WorkerTypes(p, seen[w] \cup {next[w]}, next[w] + 1, hash[w] \cup {next[w]}, j)
    BY <2>1 DEF WorkerTypes, TInv
  <2>3. /\ seen' = [seen EXCEPT ![w] = seen[w] \cup {next[w]}]
        /\ next' = [next EXCEPT ![w] = next[w] + 1]
        /\ hash' = [hash EXCEPT ![w] = hash[w] \cup {next[w]}]
        /\ at' = [at EXCEPT ![w] = p] /\ job' = [job EXCEPT ![w] = j]
    BY <1>1 DEF Place, Fold, Goto
  <2> QED
    BY <2>1, <2>2, <2>3, StepTypes
<1>2. CASE /\ Refused(w, ev) /\ End(w, "error")
           /\ next' = [next EXCEPT ![w] = @ + 1] /\ UNCHANGED <<seen, hash>>
  <2>1. StoreTypes' /\ next[w] \in Seqs /\ next[w] + 1 \in 0..(MaxSeq + 1)
    BY <1>2, AppendTypes
  <2> DEFINE k == [job[w] EXCEPT !.ends = "error"]
  <2>2. WorkerTypes("terminal", seen[w], next[w] + 1, hash[w], k)
    <3>1. job[w] \in Jobs /\ "error" \in Subtypes
      BY DEF TInv, Subtypes
    <3>2. k \in Jobs
      BY <3>1, JobOps
    <3> QED
      BY <2>1, <3>2 DEF WorkerTypes, FitFor, Points, TInv
  <2>3. /\ seen' = [seen EXCEPT ![w] = seen[w]]
        /\ next' = [next EXCEPT ![w] = next[w] + 1]
        /\ hash' = [hash EXCEPT ![w] = hash[w]]
        /\ at' = [at EXCEPT ![w] = "terminal"] /\ job' = [job EXCEPT ![w] = k]
    BY <1>2 DEF End, Goto, TInv
  <2> HIDE DEF k
  <2> QED
    BY <2>1, <2>2, <2>3, StepTypes
<1> QED
  BY <1>1, <1>2 DEF AppendInLoop

LEMMA InitTypes == Init => TInv
<1> SUFFICES ASSUME Init PROVE TInv
  OBVIOUS
<1>1. job \in [Workers -> Jobs]
  BY NoJobOK DEF Init
<1>2. log \in [Seqs -> Event] /\ \A s \in Seqs : log[s].kind # "suspension"
  BY EventTypes, EventFields DEF Init
<1>3. \A w \in Workers : FitFor(at[w], job[w])
  BY DEF Init, FitFor
<1>4. budget \in Budgets
  BY AgentRunAssumption DEF Init, Budgets
<1>5. checkpoint \in [seq : 0..(MaxSeq + 1), hash : SUBSET Seqs]
  BY AgentRunAssumption DEF Init
<1>6. next \in [Workers -> 0..(MaxSeq + 1)]
  BY AgentRunAssumption DEF Init
<1> QED
  BY <1>1, <1>2, <1>3, <1>4, <1>5, <1>6 DEF Init, TInv, Points, Decisions

\* Every append, and every step that leaves the log alone.
LEMMA StillTypes ==
  ASSUME TInv, UNCHANGED <<store, history, budget>> PROVE StoreTypes'
  BY DEF TInv, StoreTypes, store, history

LEMMA QueryTypes == ASSUME TInv, NEW w \in Workers, Query(w) PROVE TInv'
<1>1. Logged \in SUBSET Seqs /\ NextSeq \in 0..(MaxSeq + 1)
  <2>1. CASE Logged = {}
    BY <2>1, AgentRunAssumption DEF NextSeq
  <2>2. CASE Logged # {}
    <3>1. Max(Logged) \in Seqs
      BY <2>2, MaxOfSeqs DEF Logged
    <3> QED
      BY <2>2, <3>1, AgentRunAssumption DEF NextSeq, Seqs, Logged
  <2> QED
    BY <2>1, <2>2 DEF Logged
<1>2. StoreTypes'
  BY BudgetTypes DEF Query, TInv, StoreTypes, store, history
<1>3. WorkerTypes("start", Logged, NextSeq, hash[w], NoJob)
  BY <1>1, NoJobOK DEF WorkerTypes, TInv, FitFor, Points
<1>4. hash' = [hash EXCEPT ![w] = hash[w]]
  BY DEF Query, TInv
<1> QED
  BY <1>2, <1>3, <1>4, StepTypes DEF Query, Goto

LEMMA StartTypes == ASSUME TInv, NEW w \in Workers, Start(w) PROVE TInv'
<1> DEFINE ev == Plain("run_started")
<1>1. ev \in Event /\ ev.kind # "suspension"
  BY EventTypes, EventFields
<1>2. UNCHANGED <<checkpoint, ledger, decisions, history>>
  BY DEF Start
<1>3. CASE /\ Place(w, ev) /\ Goto(w, "user", [job[w] EXCEPT !.run = next[w]])
           /\ hash' = [hash EXCEPT ![w] = {next[w]}] /\ budget' = budget
  <2>1. StoreTypes' /\ next[w] \in Seqs /\ next[w] + 1 \in 0..(MaxSeq + 1)
    BY <1>1, <1>2, <1>3, AppendTypes
  <2>2. [job[w] EXCEPT !.run = next[w]] \in Jobs
    BY <2>1, JobOps DEF TInv
  <2>3. WorkerTypes("user", seen[w] \cup {next[w]}, next[w] + 1, {next[w]},
                    [job[w] EXCEPT !.run = next[w]])
    BY <2>1, <2>2 DEF WorkerTypes, TInv, FitFor, Points
  <2> QED
    BY <1>3, <2>1, <2>3, StepTypes DEF Place, Goto
<1>4. CASE Refused(w, ev) /\ Rest(w)
  BY <1>1, <1>2, <1>4, AppendTypes, RestTypes
<1> QED
  BY <1>3, <1>4 DEF Start

LEMMA UserTypes == ASSUME TInv, NEW w \in Workers, User(w) PROVE TInv'
<1> DEFINE ev == Plain("user")
<1>1. ev \in Event /\ ev.kind # "suspension"
  BY EventTypes, EventFields
<1>2. UNCHANGED <<checkpoint, ledger, decisions, history>> /\ job[w] \in Jobs
  BY DEF User, TInv
<1>3. CASE End(w, "guardrail") /\ UNCHANGED <<log, seen, next, hash, budget>>
  <2>1. StoreTypes'
    BY <1>2, <1>3, StillTypes DEF store
  <2>2. [job[w] EXCEPT !.ends = "guardrail"] \in Jobs
    BY <1>2, JobOps DEF Subtypes
  <2>3. FitFor("terminal", [job[w] EXCEPT !.ends = "guardrail"]) /\ "terminal" \in Points
    BY DEF FitFor, Points
  <2> QED
    BY <1>3, <2>1, <2>2, <2>3, MoveTypes DEF End
<1>4. CASE /\ Place(w, ev) /\ Fold(w) /\ CheckpointThen(w, "top", job[w])
           /\ budget' = budget
  <2> DEFINE k == [job[w] EXCEPT !.then = "top"]
  <2>1. k \in Jobs
    BY <1>2, JobOps DEF Points
  <2>2. FitFor("checkpoint", k) /\ "checkpoint" \in Points
    BY <1>2 DEF FitFor, Points, Jobs
  <2>3. AppendInLoop(w, ev, Goto(w, "checkpoint", k))
    BY <1>4 DEF AppendInLoop, CheckpointThen
  <2> QED
    BY <1>1, <1>2, <2>1, <2>2, <2>3, LoopAppendTypes
<1>5. CASE Refused(w, ev) /\ Rest(w)
  BY <1>1, <1>2, <1>5, AppendTypes, RestTypes
<1> QED
  BY <1>3, <1>4, <1>5 DEF User

\* PutCheckpoint keeps the type of the checkpoint.
LEMMA PutTypes ==
  ASSUME TInv, NEW n \in 0..(MaxSeq + 1), NEW h \in SUBSET Seqs, PutCheckpoint(n, h),
         UNCHANGED <<log, ledger, decisions, history, budget>>
  PROVE  StoreTypes'
  BY DEF TInv, StoreTypes, PutCheckpoint, history

LEMMA CheckpointTypes == ASSUME TInv, NEW w \in Workers, Checkpoint(w) PROVE TInv'
<1>1. StoreTypes'
  BY PutTypes DEF Checkpoint, TInv
<1>2. job[w] \in Jobs /\ job[w].then \in {"top", "called", "terminal"}
  BY DEF Checkpoint, TInv, FitFor
<1>3. FitFor(job[w].then, job[w]) /\ job[w].then \in Points
  BY <1>2 DEF FitFor, Points
<1> QED
  BY <1>1, <1>2, <1>3, MoveTypes DEF Checkpoint

LEMMA CloseTypes == ASSUME TInv, NEW w \in Workers, Close(w) PROVE TInv'
  BY PutTypes, RestTypes DEF Close, TInv

-----------------------------------------------------------------------------
(* The calls of a batch without an answer.                                   *)

Increasing(I, p) ==
  /\ p \in [1..Cardinality(I) -> I]
  /\ \A i, k \in DOMAIN p : i < k => p[i] < p[k]

\* A finite set of positions can be put in order.
LEMMA OrderExists ==
  ASSUME NEW n \in Nat, NEW I \in SUBSET (1..n) PROVE \E p : Increasing(I, p)
<1> DEFINE Bad == {m \in Nat : \E J \in SUBSET (1..m) : ~ \E p : Increasing(J, p)}
<1>1. SUFFICES ASSUME Bad # {} PROVE FALSE
  OBVIOUS
<1>2. PICK m \in Bad : \A y \in Bad : ~ (<<y, m>> \in OpToRel(<, Nat))
  <2>1. Bad \subseteq Nat
    OBVIOUS
  <2> HIDE DEF Bad
  <2> QED
    BY <1>1, <2>1, NatLessThanWellFounded, WFMin
<1>3. m \in Nat /\ \A k \in Nat : k < m => k \notin Bad
  BY <1>2 DEF OpToRel
<1>4. PICK J \in SUBSET (1..m) : ~ \E p : Increasing(J, p)
  BY <1>2
<1>5. IsFiniteSet(J) /\ Cardinality(J) \in Nat
  <2>1. IsFiniteSet(1..m)
    BY <1>3, FS_Interval
  <2>2. IsFiniteSet(J)
    BY <2>1, FS_Subset
  <2> QED
    BY <2>2, FS_CardinalityType
<1>6. m # 0
  <2> SUFFICES ASSUME m = 0 PROVE FALSE
    OBVIOUS
  <2>0. J = {}
    OBVIOUS
  <2>1. J = {} /\ Cardinality(J) = 0
    BY <2>0, FS_EmptySet
  <2>2. Increasing(J, [i \in 1..0 |-> i])
    BY <2>1 DEF Increasing
  <2> QED
    BY <1>4, <2>2
<1>7. \A K \in SUBSET (1..(m - 1)) : \E p : Increasing(K, p)
  <2>1. m - 1 \in Nat /\ m - 1 < m
    BY <1>3, <1>6
  <2>2. m - 1 \notin Bad
    BY <1>3, <2>1
  <2> QED
    BY <2>1, <2>2
<1>8. m \in J
  <2> SUFFICES ASSUME m \notin J PROVE FALSE
    OBVIOUS
  <2>1. J \in SUBSET (1..(m - 1))
    BY <1>3, <1>6
  <2> QED
    BY <1>4, <1>7, <2>1
<1> DEFINE K == J \ {m}
           c == Cardinality(J)
<1>9. PICK q : Increasing(K, q)
  <2>1. K \in SUBSET (1..(m - 1))
    BY <1>3, <1>6
  <2> QED
    BY <1>7, <2>1
<1>10. Cardinality(K) = c - 1 /\ c \in Nat
  BY <1>5, <1>8, FS_RemoveElement
<1>11. q \in [1..(c - 1) -> K] /\ \A i, k \in 1..(c - 1) : i < k => q[i] < q[k]
  BY <1>9, <1>10 DEF Increasing
<1>12. \A x \in K : x \in Int /\ x < m
  BY <1>3
<1> DEFINE p == [k \in 1..c |-> IF k = c THEN m ELSE q[k]]
<1> HIDE DEF K, c
<1>13. p \in [1..c -> J]
  <2>1. \A k \in 1..c : k # c => k \in 1..(c - 1)
    BY <1>10
  <2>2. K \subseteq J
    BY DEF K
  <2> QED
    BY <1>8, <1>11, <2>1, <2>2
<1>14. ASSUME NEW i \in 1..c, NEW k \in 1..c, i < k PROVE p[i] < p[k]
  <2>1. i \in 1..(c - 1) /\ p[i] = q[i] /\ q[i] \in K
    BY <1>10, <1>11, <1>14
  <2>2. CASE k = c
    BY <1>12, <2>1, <2>2
  <2>3. CASE k # c
    BY <1>10, <1>11, <1>14, <2>1, <2>3
  <2> QED
    BY <2>2, <2>3
<1>15. Increasing(J, p)
  <2>1. DOMAIN p = 1..c
    OBVIOUS
  <2> HIDE DEF p
  <2> QED
    BY <1>13, <1>14, <2>1 DEF Increasing, c
<1> QED
  BY <1>4, <1>15

\* InOrder visits every position once.
LEMMA InOrderOK ==
  ASSUME NEW n \in Nat, NEW I \in SUBSET (1..n)
  PROVE  /\ Cardinality(I) \in Nat
         /\ Cardinality(I) = 0 <=> I = {}
         /\ InOrder(I) \in [1..Cardinality(I) -> I]
         /\ \A i, k \in 1..Cardinality(I) : InOrder(I)[i] = InOrder(I)[k] => i = k
         /\ \A x \in I : \E k \in 1..Cardinality(I) : InOrder(I)[k] = x
<1> DEFINE c == Cardinality(I)
           p == InOrder(I)
<1>1. IsFiniteSet(I) /\ c \in Nat /\ (c = 0 <=> I = {})
  <2>1. IsFiniteSet(1..n)
    BY FS_Interval
  <2>2. IsFiniteSet(I)
    BY <2>1, FS_Subset
  <2> QED
    BY <2>2, FS_CardinalityType, FS_EmptySet
<1>2. p \in [1..c -> I] /\ \A i, k \in DOMAIN p : i < k => p[i] < p[k]
  <2>1. \E q : q \in [1..c -> I] /\ \A i, k \in DOMAIN q : i < k => q[i] < q[k]
    BY OrderExists DEF Increasing
  <2> QED
    BY <2>1, Zenon DEF InOrder
<1> HIDE DEF p, c
<1>3. \A i, k \in 1..c : p[i] = p[k] => i = k
  <2> SUFFICES ASSUME NEW i \in 1..c, NEW k \in 1..c, p[i] = p[k], i < k PROVE FALSE
    OBVIOUS
  <2>1. p[i] < p[k]
    BY <1>2
  <2>2. p[i] \in 1..n
    BY <1>2
  <2> QED
    BY <2>1, <2>2
<1>4. p \in Injection(1..c, I)
  BY <1>2, <1>3 DEF Injection, IsInjective
<1>5. p \in Surjection(1..c, I)
  <2>1. Cardinality(1..c) = c
    BY <1>1, FS_Interval
  <2> QED
    BY <1>1, <1>4, <2>1, FS_Injection DEF c
<1>6. \A x \in I : \E k \in 1..c : p[k] = x
  BY <1>5 DEF Surjection
<1> QED
  BY <1>1, <1>2, <1>3, <1>6 DEF p, c

\* What is pending are the calls of the last answer of the model that have no
\* result, each once.
LEMMA PendingOK ==
  ASSUME TInv
  PROVE  /\ Pending(Logged) \in Seq(Calls)
         /\ \A i, k \in DOMAIN Pending(Logged) :
              Pending(Logged)[i] = Pending(Logged)[k] => i = k
         /\ \A s \in Of(Logged, "assistant") :
              \E t \in Of(Logged, "assistant") :
                /\ \A x \in Of(Logged, "assistant") : x <= t
                /\ \A i \in DOMAIN log[t].calls :
                     log[t].calls[i] \notin Answered(Logged) =>
                       \E k \in DOMAIN Pending(Logged) : Pending(Logged)[k] = log[t].calls[i]
         /\ \A k \in DOMAIN Pending(Logged) :
              /\ Pending(Logged)[k] \notin Answered(Logged)
              /\ \E t \in Of(Logged, "assistant") : 
                   /\ \A x \in Of(Logged, "assistant") : x <= t
                   /\ \E i \in DOMAIN log[t].calls : log[t].calls[i] = Pending(Logged)[k]
<1> DEFINE P == Pending(Logged)
           A == Of(Logged, "assistant")
<1>1. CASE A = {}
  <2>1. P = << >> /\ DOMAIN P = {}
    BY <1>1 DEF Pending
  <2> HIDE DEF P, A
  <2> QED
    BY <1>1, <2>1 DEF P, A
<1>2. CASE A # {}
  <2> DEFINE t == Latest(Logged, "assistant")
             batch == log[t].calls
             I == {i \in DOMAIN batch : batch[i] \notin Answered(Logged)}
             o == InOrder(I)
  <2>1. t \in A /\ \A x \in A : x <= t
    BY <1>2, MaxOfSeqs DEF Latest, Of, Logged
  <2>2. batch \in Batches
    BY <2>1 DEF TInv, Event, Of, Logged
  <2>3. batch \in Seq(Calls) /\ \A i, k \in DOMAIN batch : batch[i] = batch[k] => i = k
    BY <2>2, AgentRunAssumption
  <2>4. Len(batch) \in Nat /\ I \in SUBSET (1..Len(batch)) /\ DOMAIN batch = 1..Len(batch)
    BY <2>3
  <2>5. P = [k \in DOMAIN o |-> batch[o[k]]]
    BY <1>2, Zenon DEF Pending
  <2> DEFINE c == Cardinality(I)
  <2>6. /\ c \in Nat /\ o \in [1..c -> I]
        /\ \A i, k \in 1..c : o[i] = o[k] => i = k
        /\ \A x \in I : \E k \in 1..c : o[k] = x
    <3>1. Len(batch) \in Nat /\ I \in SUBSET (1..Len(batch))
      BY <2>4
    <3> HIDE DEF I, batch
    <3> QED
      BY <3>1, InOrderOK DEF o, c
  <2>7. \A x \in I : x \in DOMAIN batch /\ batch[x] \in Calls /\ batch[x] \notin Answered(Logged)
    BY <2>3
  <2>8. \A x \in DOMAIN batch : batch[x] \notin Answered(Logged) => x \in I
    OBVIOUS
  <2> HIDE DEF o, I, c, P, A, t, batch
  <2>9. DOMAIN P = 1..c /\ \A k \in 1..c : P[k] = batch[o[k]] /\ o[k] \in I
    BY <2>5, <2>6
  <2>10. P \in Seq(Calls)
    <3>1. P \in [1..c -> Calls]
      BY <2>5, <2>6, <2>7
    <3> QED
      BY <2>6, <3>1
  <2>11. \A i, k \in DOMAIN P : P[i] = P[k] => i = k
    BY <2>3, <2>6, <2>7, <2>9
  <2>12. \A i \in DOMAIN batch : batch[i] \notin Answered(Logged) =>
           \E k \in DOMAIN P : P[k] = batch[i]
    BY <2>6, <2>8, <2>9
  <2>13. \A k \in DOMAIN P : /\ P[k] \notin Answered(Logged)
                             /\ \E i \in DOMAIN batch : batch[i] = P[k]
    BY <2>7, <2>9
  <2> QED
    BY <2>1, <2>10, <2>11, <2>12, <2>13 DEF P, A, batch
<1> QED
  BY <1>1, <1>2

\* A worker of runLoop goes on to point p with job j, and leaves the log alone.
LEMMA QuietTypes ==
  ASSUME TInv, NEW w \in Workers, NEW p \in Points, NEW j \in Jobs, FitFor(p, j),
         Goto(w, p, j), UNCHANGED <<log, checkpoint, decisions, seen, next, hash>>,
         ledger' \in [Calls -> {"absent", "intent", "applied"}],
         effects' \in [Calls -> Nat], UNCHANGED <<approved, budget>>
  PROVE  TInv'
<1>1. StoreTypes'
  BY DEF TInv, StoreTypes
<1> QED
  BY <1>1, MoveTypes

LEMMA EndTypes ==
  ASSUME TInv, NEW w \in Workers, NEW o \in Subtypes
  PROVE  /\ [job[w] EXCEPT !.ends = o] \in Jobs
         /\ FitFor("terminal", [job[w] EXCEPT !.ends = o])
         /\ "terminal" \in Points
<1>1. job[w] \in Jobs
  BY DEF TInv
<1> QED
  BY <1>1, JobOps DEF FitFor, Points

\* A run ends with outcome o; an answer of the model is taken up, or dropped.
Ended(j, o) == [j EXCEPT !.ends = o]
Given(j, b) == [j EXCEPT !.turn = @ + 1, !.todo = b, !.resumed = FALSE]
Dropped(j) == [j EXCEPT !.ends = "aborted", !.todo = << >>]

LEMMA EndedOK ==
  ASSUME NEW j \in Jobs, NEW o \in Subtypes
  PROVE  /\ Ended(j, o) \in Jobs /\ Ended(j, o).ends = o
         /\ Ended(j, o).run = j.run /\ Ended(j, o).todo = j.todo
         /\ Ended(j, o).done = j.done /\ Ended(j, o).then = j.then
         /\ Ended(j, o).resumed = j.resumed /\ Ended(j, o).call = j.call
  BY DEF Jobs, Ended

LEMMA GivenOK ==
  ASSUME NEW j \in Jobs, j.turn < MaxTurns, NEW b \in Batches
  PROVE  /\ Given(j, b) \in Jobs
         /\ Given(j, b).todo = b /\ Given(j, b).resumed = FALSE
         /\ Given(j, b).run = j.run /\ Given(j, b).done = j.done
         /\ Given(j, b).then = j.then /\ Given(j, b).ends = j.ends
<1>1. b \in Seq(Calls) /\ j.turn + 1 \in 0..MaxTurns
  BY AgentRunAssumption DEF Jobs
<1> QED
  BY <1>1 DEF Jobs, Given

LEMMA DroppedOK ==
  ASSUME NEW j \in Jobs
  PROVE  Dropped(j) \in Jobs /\ Dropped(j).ends = "aborted" /\ Dropped(j).run = j.run
<1>1. << >> \in Seq(Calls) /\ "aborted" \in Subtypes
  BY DEF Subtypes
<1> QED
  BY <1>1 DEF Jobs, Dropped

\* A checkpoint is written before the worker goes on to p.
Before(j, p) == [j EXCEPT !.then = p]

LEMMA ThenTypes ==
  ASSUME NEW j \in Jobs, NEW p \in {"top", "called", "terminal"}
  PROVE  /\ Before(j, p) \in Jobs /\ FitFor("checkpoint", Before(j, p))
         /\ "checkpoint" \in Points
         /\ Before(j, p).then = p /\ Before(j, p).run = j.run
         /\ Before(j, p).todo = j.todo /\ Before(j, p).done = j.done
         /\ Before(j, p).ends = j.ends /\ Before(j, p).call = j.call
         /\ Before(j, p).resumed = j.resumed
<1>1. "checkpoint" \in Points /\ p \in Points
  BY DEF Points
<1>2. Before(j, p) \in Jobs /\ Before(j, p).then = p
  BY <1>1 DEF Jobs, Before
<1>3. /\ Before(j, p).run = j.run
      /\ Before(j, p).todo = j.todo /\ Before(j, p).done = j.done
      /\ Before(j, p).ends = j.ends /\ Before(j, p).call = j.call
      /\ Before(j, p).resumed = j.resumed
  BY DEF Jobs, Before
<1> QED
  BY <1>1, <1>2, <1>3 DEF FitFor

LEMMA StopTypes ==
  ASSUME TInv, NEW w \in Workers, Stop(w) \/ ModelFails(w) PROVE TInv'
<1>0. job[w] \in Jobs /\ {"ceiling", "error", "aborted"} \subseteq Subtypes
  BY DEF TInv, Subtypes
<1>1. /\ ledger' \in [Calls -> {"absent", "intent", "applied"}] /\ effects' \in [Calls -> Nat]
      /\ UNCHANGED <<log, checkpoint, decisions, seen, next, hash>>
      /\ UNCHANGED <<approved, budget>>
  BY DEF Stop, ModelFails, TInv, store, history
<1>2. CASE End(w, "ceiling") \/ End(w, "error")
  <2>1. PICK o \in Subtypes : Goto(w, "terminal", [job[w] EXCEPT !.ends = o])
    BY <1>0, <1>2 DEF End
  <2> QED
    BY <1>1, <2>1, EndTypes, QuietTypes
<1>3. CASE CheckpointThen(w, "terminal", [job[w] EXCEPT !.ends = "aborted"])
  <2> DEFINE k == Ended(job[w], "aborted")
             j == Before(k, "terminal")
  <2>1. k \in Jobs
    BY <1>0, EndedOK
  <2>2. Goto(w, "checkpoint", j)
    BY <1>3 DEF CheckpointThen, Before, Ended
  <2> HIDE DEF k
  <2>3. j \in Jobs /\ FitFor("checkpoint", j) /\ "checkpoint" \in Points
    BY <2>1, ThenTypes
  <2> HIDE DEF j
  <2> QED
    BY <1>1, <2>2, <2>3, QuietTypes
<1> QED
  BY <1>2, <1>3 DEF Stop, ModelFails

LEMMA InterruptedTypes ==
  ASSUME TInv, NEW w \in Workers, Interrupted(w) PROVE TInv'
<1> DEFINE ev == Assistant(<< >>)
           k == Ended(job[w], "error")
           m == Ended(job[w], "aborted")
           j == Before(m, "terminal")
<1>0. job[w] \in Jobs /\ "error" \in Subtypes /\ "aborted" \in Subtypes
  BY DEF TInv, Subtypes
<1>1. ev \in Event /\ ev.kind # "suspension"
  BY EventTypes, EventFields, AgentRunAssumption
<1>2. k \in Jobs /\ FitFor("terminal", k) /\ "terminal" \in Points /\ m \in Jobs
  BY <1>0, EndedOK DEF FitFor, Points
<1>4. UNCHANGED <<checkpoint, ledger, decisions, history>>
  BY DEF Interrupted
<1>5. \/ AppendInLoop(w, ev, Goto(w, "terminal", k))
      \/ AppendInLoop(w, ev, Goto(w, "checkpoint", j))
  BY DEF Interrupted, AppendInLoop, End, CheckpointThen, Before, Ended
<1> HIDE DEF ev, k, m
<1>3. j \in Jobs /\ FitFor("checkpoint", j) /\ "checkpoint" \in Points
  BY <1>2, ThenTypes
<1> HIDE DEF j
<1> QED
  BY <1>1, <1>2, <1>3, <1>4, <1>5, LoopAppendTypes

LEMMA ModelTypes == ASSUME TInv, NEW w \in Workers, Model(w) PROVE TInv'
<1>0. job[w] \in Jobs /\ job[w].turn < MaxTurns /\ "guardrail" \in Subtypes
  BY DEF TInv, Model, Subtypes
<1>1. /\ ledger' \in [Calls -> {"absent", "intent", "applied"}] /\ effects' \in [Calls -> Nat]
      /\ UNCHANGED <<log, checkpoint, decisions, seen, next, hash>>
      /\ UNCHANGED <<approved, budget>>
  BY DEF Model, TInv, store, history
<1>2. PICK b \in Batches :
          \/ Goto(w, "assistant", Given(job[w], b))
          \/ Goto(w, "checkpoint", Before(Dropped(Given(job[w], b)), "terminal"))
          \/ Goto(w, "terminal", Ended(Given(job[w], b), "guardrail"))
  BY DEF Model, CheckpointThen, Given, Dropped, Ended, Before
<1> DEFINE j == Given(job[w], b)
           k == Ended(j, "guardrail")
           m == Dropped(j)
           q == Before(m, "terminal")
<1>3. j \in Jobs /\ j.todo = b
  BY <1>0, GivenOK
<1> HIDE DEF j
<1>4. FitFor("assistant", j) /\ "assistant" \in Points
  BY <1>3 DEF FitFor, Points
<1>5. k \in Jobs /\ FitFor("terminal", k) /\ "terminal" \in Points
  BY <1>0, <1>3, EndedOK DEF FitFor, Points
<1>6. m \in Jobs
  BY <1>3, DroppedOK
<1>7. Goto(w, "assistant", j) \/ Goto(w, "checkpoint", q) \/ Goto(w, "terminal", k)
  BY <1>2 DEF j
<1> HIDE DEF m
<1>8. q \in Jobs /\ FitFor("checkpoint", q) /\ "checkpoint" \in Points
  BY <1>6, ThenTypes
<1> HIDE DEF k, q
<1> QED
  BY <1>1, <1>3, <1>4, <1>5, <1>7, <1>8, QuietTypes

LEMMA AppendAssistantTypes ==
  ASSUME TInv, NEW w \in Workers, AppendAssistant(w) PROVE TInv'
<1> DEFINE ev == Assistant(job[w].todo)
           j == Before(job[w], "called")
<1>1. ev \in Event /\ ev.kind # "suspension"
  BY EventTypes, EventFields DEF AppendAssistant, TInv, FitFor
<1>2. j \in Jobs /\ FitFor("checkpoint", j) /\ "checkpoint" \in Points
  <2>1. job[w] \in Jobs
    BY DEF TInv
  <2> QED
    BY <2>1, ThenTypes
<1>3. AppendInLoop(w, ev, Goto(w, "checkpoint", j))
  BY DEF AppendAssistant, CheckpointThen, Before
<1>4. UNCHANGED <<checkpoint, ledger, decisions, history>>
  BY DEF AppendAssistant
<1> HIDE DEF ev, j
<1> QED
  BY <1>1, <1>2, <1>3, <1>4, LoopAppendTypes

LEMMA CalledTypes == ASSUME TInv, NEW w \in Workers, Called(w) PROVE TInv'
<1>0. job[w] \in Jobs /\ "ceiling" \in Subtypes /\ "success" \in Subtypes
  BY DEF TInv, Subtypes
<1>1. /\ ledger' \in [Calls -> {"absent", "intent", "applied"}] /\ effects' \in [Calls -> Nat]
      /\ UNCHANGED <<log, checkpoint, decisions, seen, next, hash>>
      /\ UNCHANGED <<approved, budget>>
  BY DEF Called, TInv, store, history
<1>2. CASE End(w, "ceiling") \/ End(w, "success")
  <2>1. PICK o \in Subtypes : Goto(w, "terminal", [job[w] EXCEPT !.ends = o])
    BY <1>0, <1>2 DEF End
  <2> QED
    BY <1>1, <2>1, EndTypes, QuietTypes
<1>3. CASE Goto(w, "dispatch", job[w]) /\ job[w].todo # << >>
  <2>1. FitFor("dispatch", job[w]) /\ "dispatch" \in Points
    BY <1>3 DEF FitFor, Points
  <2> QED
    BY <1>0, <1>1, <1>3, <2>1, QuietTypes
<1> QED
  BY <1>2, <1>3 DEF Called

\* A call has an outcome.
Settled(j, o) ==
  [j EXCEPT !.done = Append(j.done, [call |-> Head(j.todo), outcome |-> o]),
            !.todo = Tail(@)]

LEMMA SettledOK ==
  ASSUME NEW j \in Jobs, j.todo # << >>, NEW o \in {"ok", "error"}
  PROVE  /\ Settled(j, o) \in Jobs
         /\ Settled(j, o).todo = Tail(j.todo)
         /\ Settled(j, o).done = Append(j.done, [call |-> Head(j.todo), outcome |-> o])
         /\ Settled(j, o).done # << >>
         /\ Settled(j, o).run = j.run /\ Settled(j, o).ends = j.ends
         /\ Settled(j, o).resumed = j.resumed
         /\ Head(j.todo) \in Calls
<1>1. /\ j.todo \in Seq(Calls) /\ j.done \in Seq(Outcomes)
  BY DEF Jobs
<1>2. Head(j.todo) \in Calls /\ Tail(j.todo) \in Seq(Calls)
  BY <1>1
<1>3. [call |-> Head(j.todo), outcome |-> o] \in Outcomes
  BY <1>2 DEF Outcomes
<1>4. /\ Append(j.done, [call |-> Head(j.todo), outcome |-> o]) \in Seq(Outcomes)
      /\ Append(j.done, [call |-> Head(j.todo), outcome |-> o]) # << >>
  BY <1>1, <1>3
<1> QED
  BY <1>2, <1>4 DEF Settled, Jobs

LEMMA SettleTypes ==
  ASSUME TInv, NEW w \in Workers, job[w].todo # << >>, NEW o \in {"ok", "error"},
         Settle(w, o), UNCHANGED <<log, checkpoint, decisions, seen, next, hash>>,
         ledger' \in [Calls -> {"absent", "intent", "applied"}],
         effects' \in [Calls -> Nat], UNCHANGED <<approved, budget>>
  PROVE  TInv'
<1> DEFINE j == Settled(job[w], o)
           p == IF j.todo = << >> THEN "results" ELSE "dispatch"
<1>1. j \in Jobs /\ j.done # << >>
  BY SettledOK DEF TInv
<1>2. p \in Points /\ FitFor(p, j)
  BY <1>1 DEF Points, FitFor
<1>3. Goto(w, p, j)
  BY DEF Settle, Settled
<1> HIDE DEF p, j
<1> QED
  BY <1>1, <1>2, <1>3, QuietTypes

LEMMA LookTypes == ASSUME TInv, NEW w \in Workers, Look(w) PROVE TInv'
<1>1. /\ UNCHANGED <<log, checkpoint, decisions, seen, next, hash>>
      /\ UNCHANGED <<approved, budget>>
      /\ effects' \in [Calls -> Nat]
  BY DEF Look, TInv, history
<1>2. job[w] \in Jobs /\ job[w].todo # << >>
  BY DEF Look, TInv, FitFor
<1>3. ledger' \in [Calls -> {"absent", "intent", "applied"}]
  BY DEF Look, TInv
<1>4. CASE Settle(w, "error") \/ Settle(w, "ok")
  BY <1>1, <1>2, <1>3, <1>4, SettleTypes
<1>5. CASE Goto(w, "execute", job[w])
  <2>1. "execute" \in Points /\ FitFor("execute", job[w])
    BY <1>2 DEF Points, FitFor
  <2> QED
    BY <1>1, <1>2, <1>3, <1>5, <2>1, QuietTypes
<1> QED
  BY <1>4, <1>5 DEF Look

\* A suspension has unwound the batch.
Unwound(j, c) ==
  [j EXCEPT !.call = c, !.ends = "suspended", !.todo = << >>, !.done = << >>]

LEMMA ExecuteTypes == ASSUME TInv, NEW w \in Workers, Execute(w) PROVE TInv'
<1> DEFINE c == Head(job[w].todo)
<1>1. /\ UNCHANGED <<log, checkpoint, decisions, seen, next, hash>>
      /\ UNCHANGED <<approved, budget>>
  BY DEF Execute
<1>2. job[w] \in Jobs /\ job[w].todo # << >> /\ c \in Calls
  <2>1. job[w] \in Jobs /\ job[w].todo # << >>
    BY DEF Execute, TInv, FitFor
  <2>2. job[w].todo \in Seq(Calls)
    BY <2>1 DEF Jobs
  <2> QED
    BY <2>1, <2>2
<1>3. ledger' \in [Calls -> {"absent", "intent", "applied"}]
  BY DEF Execute, TInv
<1>4. effects' \in [Calls -> Nat]
  <2>1. [effects EXCEPT ![c] = @ + 1] \in [Calls -> Nat]
    BY <1>2 DEF TInv
  <2> QED
    BY <2>1 DEF Execute, TInv
<1>5. CASE Settle(w, "error")
  BY <1>1, <1>2, <1>3, <1>4, <1>5, SettleTypes
<1>6. CASE Goto(w, "complete", job[w])
  <2>1. "complete" \in Points /\ FitFor("complete", job[w])
    BY <1>2 DEF Points, FitFor
  <2> QED
    BY <1>1, <1>2, <1>3, <1>4, <1>6, <2>1, QuietTypes
<1>7. CASE Unwind(w, c)
  <2> DEFINE j == Unwound(job[w], c)
             p == IF job[w].resumed THEN "terminal" ELSE "suspend"
  <2>1. j \in Jobs /\ j.call = c
    <3>1. "suspended" \in Subtypes /\ c \in Calls \cup {NoCall} /\ job[w] \in Jobs
      BY <1>2 DEF Subtypes
    <3>2. j \in Jobs
      BY <3>1, JobOps DEF Unwound
    <3> HIDE DEF c
    <3>3. j.call = c
      BY <3>1 DEF Unwound, Jobs
    <3> QED
      BY <3>2, <3>3
  <2>2. p \in Points /\ FitFor(p, j)
    BY <1>2, <2>1 DEF Points, FitFor
  <2>3. Goto(w, p, j)
    BY <1>7 DEF Unwind, Unwound
  <2> HIDE DEF j, p
  <2> QED
    BY <1>1, <1>3, <1>4, <2>1, <2>2, <2>3, QuietTypes
<1> QED
  BY <1>5, <1>6, <1>7 DEF Execute

LEMMA CompleteTypes == ASSUME TInv, NEW w \in Workers, Complete(w) PROVE TInv'
<1>1. /\ UNCHANGED <<log, checkpoint, decisions, seen, next, hash>>
      /\ UNCHANGED <<approved, budget>> /\ effects' \in [Calls -> Nat]
  BY DEF Complete, TInv, history
<1>2. job[w].todo # << >> /\ ledger' \in [Calls -> {"absent", "intent", "applied"}]
  BY DEF Complete, TInv, FitFor
<1> QED
  BY <1>1, <1>2, SettleTypes DEF Complete

\* A result is in the log.
Reported(j) == [j EXCEPT !.done = Tail(@)]

LEMMA ReportedOK ==
  ASSUME NEW j \in Jobs, j.done # << >>
  PROVE  /\ Reported(j) \in Jobs /\ Reported(j).done = Tail(j.done)
         /\ Reported(j).run = j.run /\ Reported(j).todo = j.todo
         /\ Reported(j).ends = j.ends /\ Reported(j).resumed = j.resumed
         /\ Head(j.done) \in Outcomes
<1>1. j.done \in Seq(Outcomes)
  BY DEF Jobs
<1>2. Tail(j.done) \in Seq(Outcomes) /\ Head(j.done) \in Outcomes
  BY <1>1
<1> QED
  BY <1>2 DEF Jobs, Reported

LEMMA ResultsTypes == ASSUME TInv, NEW w \in Workers, Results(w) PROVE TInv'
<1> DEFINE j == Reported(job[w])
           k == Before(j, "top")
           ev == ToolResult(Head(job[w].done))
<1>1. job[w] \in Jobs /\ job[w].done # << >>
  BY DEF Results, TInv, FitFor
<1>2. j \in Jobs /\ Head(job[w].done) \in Outcomes
  BY <1>1, ReportedOK
<1>3. ev \in Event /\ ev.kind # "suspension"
  BY <1>2, EventTypes, EventFields
<1>6. j.done # << >> => FitFor("results", j) /\ "results" \in Points
  BY DEF FitFor, Points
<1>7. \/ AppendInLoop(w, ev, Goto(w, "checkpoint", k))
      \/ j.done # << >> /\ AppendInLoop(w, ev, Goto(w, "results", j))
  BY DEF Results, CheckpointThen, AppendInLoop, Before, Reported
<1>8. UNCHANGED <<checkpoint, ledger, decisions, history>>
  BY DEF Results
<1> HIDE DEF ev, j
<1>5. k \in Jobs /\ FitFor("checkpoint", k) /\ "checkpoint" \in Points
  BY <1>2, ThenTypes
<1> HIDE DEF k
<1> QED
  BY <1>2, <1>3, <1>5, <1>6, <1>7, <1>8, LoopAppendTypes

LEMMA SuspendTypes == ASSUME TInv, NEW w \in Workers, Suspend(w) PROVE TInv'
<1> DEFINE ev == Suspension(job[w].call)
           j == Before(job[w], "terminal")
<1>1. job[w] \in Jobs /\ job[w].call \in Calls
  BY DEF Suspend, TInv, FitFor
<1>2. ev \in Event /\ ev.call \in Calls
  BY <1>1, EventTypes, EventFields
<1>3. j \in Jobs /\ FitFor("checkpoint", j) /\ "checkpoint" \in Points
  BY <1>1, ThenTypes
<1>4. AppendInLoop(w, ev, Goto(w, "checkpoint", j))
  BY DEF Suspend, CheckpointThen, Before
<1>5. UNCHANGED <<checkpoint, ledger, decisions, history>>
  BY DEF Suspend
<1> HIDE DEF ev, j
<1> QED
  BY <1>2, <1>3, <1>4, <1>5, LoopAppendTypes

LEMMA FinishTypes == ASSUME TInv, NEW w \in Workers, Finish(w) PROVE TInv'
<1>1. Verdict(w) \in Event /\ Verdict(w).kind # "suspension"
  BY EventTypes, EventFields DEF Verdict, TInv, Jobs
<1>2. UNCHANGED <<checkpoint, ledger, decisions, history>> /\ job[w] \in Jobs
  BY DEF Finish, TInv
<1>3. CASE Place(w, Verdict(w)) /\ Goto(w, "closing", job[w]) /\ UNCHANGED <<hash, budget>>
  <2>1. StoreTypes' /\ next[w] \in Seqs /\ next[w] + 1 \in 0..(MaxSeq + 1)
    BY <1>1, <1>2, <1>3, AppendTypes
  <2>2. WorkerTypes("closing", seen[w] \cup {next[w]}, next[w] + 1, hash[w], job[w])
    BY <1>2, <2>1 DEF WorkerTypes, TInv, FitFor, Points
  <2>3. /\ seen' = [seen EXCEPT ![w] = seen[w] \cup {next[w]}]
        /\ next' = [next EXCEPT ![w] = next[w] + 1]
        /\ hash' = [hash EXCEPT ![w] = hash[w]]
        /\ at' = [at EXCEPT ![w] = "closing"] /\ job' = [job EXCEPT ![w] = job[w]]
    BY <1>3 DEF Place, Goto, TInv
  <2> QED
    BY <2>1, <2>2, <2>3, StepTypes
<1>4. CASE Refused(w, Verdict(w)) /\ Rest(w)
  BY <1>1, <1>2, <1>4, AppendTypes, RestTypes
<1> QED
  BY <1>3, <1>4 DEF Finish

LEMMA ResumeTypes == ASSUME TInv, NEW w \in Workers, Resume(w) PROVE TInv'
<1>1. StoreTypes'
  BY BudgetTypes DEF Resume, TInv, StoreTypes, store, history
<1>2. UNCHANGED <<seen, next, hash>>
  BY DEF Resume
<1>3. CASE Goto(w, "open", NoJob)
  <2>1. "open" \in Points /\ FitFor("open", NoJob)
    BY DEF Points, FitFor
  <2> QED
    BY <1>1, <1>2, <1>3, <2>1, NoJobOK, MoveTypes
<1>4. CASE Of(Logged, "suspension") # {} /\ \E d \in {"approved", "declined"} :
             Goto(w, "decide",
                  [NoJob EXCEPT !.decision = d,
                                !.call = log[Latest(Logged, "suspension")].call])
  <2> DEFINE s == Latest(Logged, "suspension")
             c == log[s].call
  <2>1. PICK d \in {"approved", "declined"} :
               Goto(w, "decide", [NoJob EXCEPT !.decision = d, !.call = c])
    BY <1>4
  <2>2. s \in Seqs /\ log[s].kind = "suspension"
    BY <1>4, MaxOfSeqs DEF Latest, Of, Logged
  <2>3. c \in Calls
    BY <2>2 DEF TInv
  <2> HIDE DEF c, s
  <2> DEFINE j == [NoJob EXCEPT !.decision = d, !.call = c]
  <2>4. j \in Jobs /\ j.call = c /\ j.decision = d
    BY <2>3, NoJobOK DEF Jobs, Decisions
  <2>5. FitFor("decide", j) /\ "decide" \in Points
    BY <2>3, <2>4 DEF FitFor, Points
  <2> HIDE DEF j
  <2> QED
    BY <1>1, <1>2, <2>1, <2>4, <2>5, MoveTypes DEF j
<1> QED
  BY <1>3, <1>4 DEF Resume

LEMMA DecideTypes == ASSUME TInv, NEW w \in Workers, Decide(w) PROVE TInv'
<1>1. job[w].call \in Calls /\ job[w].decision \in Decisions
  BY DEF Decide, TInv, FitFor, Jobs
<1>2. decisions' \in [Calls -> Decisions] /\ approved' \subseteq Calls
  BY <1>1 DEF Decide, TInv
<1>3. StoreTypes'
  BY <1>2 DEF Decide, TInv, StoreTypes
<1>4. "open" \in Points /\ FitFor("open", NoJob)
  BY DEF Points, FitFor
<1> QED
  BY <1>3, <1>4, NoJobOK, MoveTypes DEF Decide

LEMMA NextSeqType ==
  TInv => Logged \in SUBSET Seqs /\ NextSeq \in 0..(MaxSeq + 1)
<1> SUFFICES ASSUME TInv PROVE Logged \in SUBSET Seqs /\ NextSeq \in 0..(MaxSeq + 1)
  OBVIOUS
<1>1. CASE Logged = {}
  BY <1>1, AgentRunAssumption DEF NextSeq
<1>2. CASE Logged # {}
  <2>1. Max(Logged) \in Seqs
    BY <1>2, MaxOfSeqs DEF Logged
  <2> QED
    BY <1>2, <2>1, AgentRunAssumption DEF NextSeq, Seqs, Logged
<1> QED
  BY <1>1, <1>2 DEF Logged

\* A resumed job: its run is the last of the log.
Resumed(todo) == [NoJob EXCEPT !.run = RunOf(Logged), !.todo = todo, !.resumed = TRUE]
BlockedJob == [NoJob EXCEPT !.run = RunOf(Logged), !.resumed = TRUE, !.ends = "guardrail"]

LEMMA ResumedOK ==
  ASSUME TInv, Begun
  PROVE  /\ RunOf(Logged) \in Of(Logged, "run_started") /\ RunOf(Logged) \in Seqs
         /\ \A r \in Of(Logged, "run_started") : r <= RunOf(Logged)
         /\ \A q \in Seq(Calls) : /\ Resumed(q) \in Jobs /\ Resumed(q).todo = q
                                  /\ Resumed(q).run = RunOf(Logged)
                                  /\ Resumed(q).done = << >> /\ Resumed(q).resumed
         /\ BlockedJob \in Jobs /\ BlockedJob.ends = "guardrail"
         /\ BlockedJob.run = RunOf(Logged)
<1>1. Of(Logged, "run_started") # {}
  BY EventFields DEF Begun, Of, Logged
<1>2. /\ RunOf(Logged) \in Of(Logged, "run_started")
      /\ \A r \in Of(Logged, "run_started") : r <= RunOf(Logged)
  BY <1>1, MaxOfSeqs DEF RunOf, Latest, Of, Logged
<1>3. RunOf(Logged) \in Seqs
  BY <1>2 DEF Of, Logged
<1>4. NoJob \in Jobs /\ NoJob.done = << >>
  BY NoJobOK DEF NoJob
<1> HIDE DEF NoJob
<1>5. \A q \in Seq(Calls), r \in Seqs :
        LET j == [NoJob EXCEPT !.run = r, !.todo = q, !.resumed = TRUE] IN
          j \in Jobs /\ j.todo = q /\ j.run = r /\ j.done = << >> /\ j.resumed
  BY <1>4 DEF Jobs
<1>6. \A r \in Seqs :
        LET j == [NoJob EXCEPT !.run = r, !.resumed = TRUE, !.ends = "guardrail"] IN
          j \in Jobs /\ j.ends = "guardrail" /\ j.run = r
  BY <1>4 DEF Jobs, Subtypes
<1> QED
  BY <1>2, <1>3, <1>5, <1>6 DEF Resumed, BlockedJob

LEMMA OpenTypes == ASSUME TInv, NEW w \in Workers, Begun, Open(w) PROVE TInv'
<1>1. StoreTypes' /\ UNCHANGED <<store, history, budget>>
  BY StillTypes DEF Open
<1>2. CASE Rest(w)
  BY <1>1, <1>2, RestTypes
<1>3. CASE Reopen(w) /\ Continue(w)
  <2> DEFINE todo == Pending(Logged)
             j == Resumed(todo)
             p == IF todo = << >> THEN "top" ELSE "dispatch"
             h == checkpoint.hash \cup {s \in Logged : s >= checkpoint.seq}
  <2>1. j \in Jobs /\ j.todo = todo
    BY PendingOK, ResumedOK
  <2>2. p \in Points /\ FitFor(p, j)
    BY <2>1 DEF Points, FitFor
  <2>3. h \in SUBSET Seqs
    BY NextSeqType DEF TInv
  <2>4. WorkerTypes(p, Logged, NextSeq, h, j)
    BY <2>1, <2>2, <2>3, NextSeqType DEF WorkerTypes
  <2>5. Goto(w, p, j) /\ hash' = [hash EXCEPT ![w] = h]
    BY <1>3 DEF Continue, Resumed
  <2> HIDE DEF j, p, h
  <2> QED
    BY <1>1, <1>3, <2>4, <2>5, StepTypes DEF Reopen, Goto
<1>4. CASE Reopen(w) /\ Blocked(w)
  <2>1. BlockedJob \in Jobs /\ "terminal" \in Points /\ FitFor("terminal", BlockedJob)
    BY ResumedOK DEF Points, FitFor
  <2>2. WorkerTypes("terminal", Logged, NextSeq, hash[w], BlockedJob)
    BY <2>1, NextSeqType DEF WorkerTypes, TInv
  <2>3. Goto(w, "terminal", BlockedJob) /\ hash' = [hash EXCEPT ![w] = hash[w]]
    BY <1>4 DEF Blocked, BlockedJob, TInv
  <2> QED
    BY <1>1, <1>4, <2>2, <2>3, StepTypes DEF Reopen, Goto
<1> QED
  BY <1>2, <1>3, <1>4 DEF Open

LEMMA CrashTypes == ASSUME TInv, NEW w \in Workers, Crash(w) PROVE TInv'
<1>1. StoreTypes'
  BY BudgetTypes DEF Crash, TInv, StoreTypes, store, history
<1> QED
  BY <1>1, RestTypes DEF Crash

-----------------------------------------------------------------------------
(* What is in the log stays, at most one event is added.                     *)

LEMMA LogGrows ==
  ASSUME TInv, NEW w \in Workers, Query(w) \/ Resume(w) \/ Step(w) \/ Crash(w)
  PROVE  /\ \A s \in Seqs : log[s] # NoEvent => log'[s] = log[s]
         /\ log' = log \/ at[w] \notin {"idle", "decide", "open"}
<1>2. CASE Query(w) \/ Resume(w) \/ Crash(w) \/ Checkpoint(w) \/ Stop(w)
             \/ ModelFails(w) \/ Model(w) \/ Called(w) \/ Look(w) \/ Execute(w)
             \/ Complete(w) \/ Close(w) \/ Decide(w) \/ Open(w)
  BY <1>2 DEF Query, Resume, Crash, Checkpoint, Stop, ModelFails, Model, Called, Look,
                    Execute, Complete, Close, Decide, Open, store
<1>3. ASSUME NEW ev, Place(w, ev) \/ Refused(w, ev)
      PROVE  \A s \in Seqs : log[s] # NoEvent => log'[s] = log[s]
  <2>1. \/ log' = log
        \/ /\ next[w] \in Seqs /\ log[next[w]] = NoEvent
           /\ log' = [log EXCEPT ![next[w]] = ev]
    BY <1>3 DEF Place, Refused
  <2> QED
    BY <2>1 DEF TInv
<1>4. CASE Start(w) \/ User(w) \/ Interrupted(w) \/ AppendAssistant(w) \/ Results(w)
             \/ Suspend(w) \/ Finish(w)
  <2>1. at[w] \notin {"idle", "decide", "open"}
    BY <1>4 DEF Start, User, Interrupted, AppendAssistant, Results, Suspend, Finish
  <2>2. \/ UNCHANGED log
        \/ \E ev : Place(w, ev) \/ Refused(w, ev)
    BY <1>4 DEF Start, User, Interrupted, AppendAssistant, Results, Suspend, Finish,
                AppendInLoop
  <2> QED
    BY <1>3, <2>1, <2>2
<1> QED
  BY <1>2, <1>4 DEF Step

\* The log of a worker that has begun holds the start of a run.
LEMMA HasRunStep ==
  ASSUME TInv, HasRun, NEW w \in Workers, Query(w) \/ Resume(w) \/ Step(w) \/ Crash(w)
  PROVE  HasRun'
<1>1. Begun => Begun'
  BY LogGrows, EventFields DEF Begun
<1>2. \A u \in Workers : u # w => at'[u] = at[u]
  BY DEF TInv, Query, Resume, Step, Crash, Start, User, Checkpoint, Stop, ModelFails,
         Interrupted, Model, AppendAssistant, Called, Look, Execute, Complete, Results,
         Suspend, Finish, Close, Decide, Open, Rest, Goto, AppendInLoop, CheckpointThen,
         End, Settle, Unwind, Continue, Blocked
<1>3. CASE at[w] \notin {"idle", "start"}
  BY <1>1, <1>3 DEF HasRun
<1>4. CASE Query(w)
  <2>1. at' = [at EXCEPT ![w] = "start"] /\ log' = log
    BY <1>4 DEF Query, Goto, store
  <2> QED
    BY <1>1, <1>2, <2>1 DEF HasRun, TInv
<1>5. CASE Resume(w)
  <2>1. log' = log /\ \E s \in Seqs : log[s] # NoEvent
    BY <1>5 DEF Resume, store, Logged
  <2> QED
    BY <1>1, <2>1 DEF HasRun
<1>6. CASE Start(w)
  <2>1. CASE Place(w, Plain("run_started"))
    <3>1. next[w] \in Seqs /\ log'[next[w]].kind = "run_started"
      BY <2>1, EventFields DEF Place, TInv
    <3> QED
      BY <3>1 DEF HasRun, Begun
  <2>2. CASE Refused(w, Plain("run_started")) /\ Rest(w)
    <3>1. at'[w] = "idle"
      BY <2>2 DEF Rest, Goto, TInv
    <3>2. CASE log' = log
      BY <1>1, <1>2, <3>1, <3>2 DEF HasRun
    <3>3. CASE next[w] \in Seqs /\ log'[next[w]].kind = "run_started"
      BY <3>3 DEF HasRun, Begun
    <3> QED
      BY <2>2, <3>2, <3>3, EventFields DEF Refused, TInv
  <2> QED
    BY <1>6, <2>1, <2>2 DEF Start
<1>7. CASE Crash(w)
  <2>1. log' = log /\ at'[w] = "idle"
    BY <1>7 DEF Crash, Rest, Goto, store, TInv
  <2> QED
    BY <1>1, <1>2, <2>1 DEF HasRun
<1> QED
  BY <1>3, <1>4, <1>5, <1>6, <1>7 DEF Step, User, Checkpoint, Stop, ModelFails,
     Interrupted, Model, AppendAssistant, Called, Look, Execute, Complete, Results,
     Suspend, Finish, Close, Decide, Open

TInv1 == TInv /\ HasRun

LEMMA InitTypes1 == Init => TInv1
<1> SUFFICES ASSUME Init PROVE HasRun
  BY InitTypes DEF TInv1
<1> QED
  BY DEF Init, HasRun

LEMMA StepTypes1 ==
  ASSUME TInv1, NEW w \in Workers, Query(w) \/ Resume(w) \/ Step(w) \/ Crash(w)
  PROVE  TInv1'
<1>1. TInv /\ HasRun
  BY DEF TInv1
<1>2. Open(w) => Begun
  BY <1>1 DEF Open, HasRun
<1>3. TInv'
  BY <1>1, <1>2, QueryTypes, ResumeTypes, CrashTypes, StartTypes, UserTypes,
     CheckpointTypes, StopTypes, InterruptedTypes, ModelTypes, AppendAssistantTypes,
     CalledTypes, LookTypes, ExecuteTypes, CompleteTypes, ResultsTypes, SuspendTypes,
     FinishTypes, CloseTypes, DecideTypes, OpenTypes DEF Step
<1> QED
  BY <1>1, <1>3, HasRunStep DEF TInv1

LEMMA NextTypes == TInv1 /\ [Next]_vars => TInv1'
<1> SUFFICES ASSUME TInv1, [Next]_vars PROVE TInv1'
  OBVIOUS
<1>1. CASE UNCHANGED vars
  BY <1>1 DEF vars, store, worker, history, TInv1, TInv, HasRun, Begun
<1>2. CASE Next
  BY <1>2, StepTypes1 DEF Next
<1> QED
  BY <1>1, <1>2

\* Every variable of the run keeps its type, for any number of workers and any
\* batches of calls: in particular a worker that dispatches, executes or logs has a
\* call at hand, and a decision is only ever recorded for a call of the model.
THEOREM RunTypes == Spec => []TypeOK
<1>1. TInv1 => TypeOK
  <2> SUFFICES ASSUME TInv PROVE TypeOK
    BY DEF TInv1
  <2>1. \A w \in Workers : JobOK(job[w])
    BY DEF TInv, JobOK, Jobs, Outcomes, Decisions
  <2> QED
    BY <2>1 DEF TInv, TypeOK, Budgets, Decisions
<1> QED
  BY InitTypes1, NextTypes, <1>1, PTL DEF Spec

-----------------------------------------------------------------------------
(* The calls of the model and their answers, step by step.                   *)

\* Event ev is added at n.
With(l, n, ev) == [l EXCEPT ![n] = ev]
Empty(l, n) == \A s \in Seqs : l[s] # NoEvent => s < n

\* What is read below n depends on the log below n alone.
LEMMA ReadBelow ==
  ASSUME NEW l \in [Seqs -> Event], NEW m \in [Seqs -> Event], NEW n \in Int,
         \A s \in Seqs : s < n => l[s] = m[s]
  PROVE  /\ \A c : Answers(l, n, c) <=> Answers(m, n, c)
         /\ \A c : Asks(l, n, c) <=> Asks(m, n, c)
         /\ \A r : LastRun(l, n, r) <=> LastRun(m, n, r)
         /\ \A s \in Seqs : s < n => (AllAnswered(l, s, n) <=> AllAnswered(m, s, n))
<1>1. \A c : Answers(l, n, c) <=> Answers(m, n, c)
  BY DEF Answers
<1>2. \A c : Asks(l, n, c) <=> Asks(m, n, c)
  BY DEF Asks
<1>3. \A r : LastRun(l, n, r) <=> LastRun(m, n, r)
  BY DEF LastRun
<1>4. \A s \in Seqs : s < n => (AllAnswered(l, s, n) <=> AllAnswered(m, s, n))
  BY <1>1 DEF AllAnswered
<1> QED
  BY <1>1, <1>2, <1>3, <1>4

LEMMA WorkBelow ==
  ASSUME NEW l \in [Seqs -> Event], NEW m \in [Seqs -> Event], NEW n \in Int,
         \A s \in Seqs : s < n => l[s] = m[s], NEW p, NEW j, WorkSound(l, p, n, j)
  PROVE  WorkSound(m, p, n, j)
<1>1. /\ \A c : Answers(l, n, c) <=> Answers(m, n, c)
      /\ \A c : Asks(l, n, c) <=> Asks(m, n, c)
      /\ \A r : LastRun(l, n, r) <=> LastRun(m, n, r)
      /\ \A s \in Seqs : s < n => (AllAnswered(l, s, n) <=> AllAnswered(m, s, n))
  BY ReadBelow
<1> QED
  BY <1>1 DEF WorkSound

LEMMA WithOK ==
  ASSUME NEW l \in [Seqs -> Event], NEW n \in Seqs, NEW ev \in Event, Empty(l, n)
  PROVE  /\ With(l, n, ev) \in [Seqs -> Event]
         /\ With(l, n, ev)[n] = ev
         /\ \A s \in Seqs : s # n => With(l, n, ev)[s] = l[s]
         /\ \A s \in Seqs : s < n => With(l, n, ev)[s] = l[s]
         /\ \A s \in Seqs : With(l, n, ev)[s].kind # "none" => s < n \/ s = n
         /\ \A s \in Seqs : l[s].kind # "none" => s < n
<1>1. \A s \in Seqs : l[s].kind # "none" => s < n
  BY EventFields DEF Empty
<1>2. With(l, n, ev) \in [Seqs -> Event]
  BY DEF With
<1>3. With(l, n, ev)[n] = ev /\ \A s \in Seqs : s # n => With(l, n, ev)[s] = l[s]
  BY DEF With
<1>4. \A s \in Seqs : s < n => s # n
  BY DEF Seqs
<1> QED
  BY <1>1, <1>2, <1>3, <1>4

\* The answers and the calls of a log with one more event.
LEMMA WithAnswers ==
  ASSUME NEW l \in [Seqs -> Event], NEW n \in Seqs, NEW ev \in Event, Empty(l, n),
         NEW t \in Int, n < t
  PROVE  /\ \A c : Answers(With(l, n, ev), t, c) <=>
                     Answers(l, n, c) \/ (ev.kind = "tool_result" /\ ev.call = c)
         /\ \A c : Asks(With(l, n, ev), t, c) <=>
                     \/ Asks(l, n, c)
                     \/ ev.kind = "assistant" /\ \E i \in DOMAIN ev.calls : ev.calls[i] = c
         /\ \A c : Answers(l, t, c) <=> Answers(l, n, c)
         /\ \A c : Asks(l, t, c) <=> Asks(l, n, c)
<1> DEFINE m == With(l, n, ev)
<1>1. /\ m[n] = ev
      /\ \A s \in Seqs : s < n => m[s] = l[s]
      /\ \A s \in Seqs : m[s].kind # "none" => s < n \/ s = n
      /\ \A s \in Seqs : l[s].kind # "none" => s < n
  BY WithOK
<1>2. \A s \in Seqs : s \in Int
  BY DEF Seqs
<1> HIDE DEF m
<1>3. \A c : Answers(m, t, c) <=> Answers(l, n, c) \/ (ev.kind = "tool_result" /\ ev.call = c)
  BY <1>1, <1>2 DEF Answers
<1>4. \A c : Asks(m, t, c) <=>
               \/ Asks(l, n, c)
               \/ ev.kind = "assistant" /\ \E i \in DOMAIN ev.calls : ev.calls[i] = c
  BY <1>1, <1>2 DEF Asks
<1>5. \A c : Answers(l, t, c) <=> Answers(l, n, c)
  BY <1>1, <1>2 DEF Answers
<1>6. \A c : Asks(l, t, c) <=> Asks(l, n, c)
  BY <1>1, <1>2 DEF Asks
<1> QED
  BY <1>3, <1>4, <1>5, <1>6 DEF m

\* No run begins between an answer of the model and n.
SameRun(l, s, n) == \A r \in Seqs : s < r /\ r < n => l[r].kind # "run_started"

\* What an event has to respect to be added at n.
Fits(l, n, ev) ==
  /\ ev.kind = "tool_result" => Asks(l, n, ev.call) /\ ~ Answers(l, n, ev.call)
  /\ ev.kind = "assistant" =>
       \A s \in Seqs : s < n /\ l[s].kind = "assistant" /\ SameRun(l, s, n)
                         => AllAnswered(l, s, n)
  /\ ev.kind = "terminal_result" /\ ev.outcome = "success" =>
       \A s \in Seqs : ev.run < s /\ s < n /\ l[s].kind = "assistant" => AllAnswered(l, s, n)

LEMMA AddSound ==
  ASSUME NEW l \in [Seqs -> Event], NEW n \in Seqs, NEW ev \in Event, Empty(l, n),
         LogSound(l), Fits(l, n, ev)
  PROVE  LogSound(With(l, n, ev))
<1> DEFINE m == With(l, n, ev)
<1>1. /\ m[n] = ev /\ m \in [Seqs -> Event]
      /\ \A s \in Seqs : s < n => m[s] = l[s]
      /\ \A s \in Seqs : m[s].kind # "none" => s < n \/ s = n
      /\ \A s \in Seqs : l[s].kind # "none" => s < n
  BY WithOK
<1>2. \A s \in Seqs : s \in Int
  BY DEF Seqs
<1>3. MaxSeq + 1 \in Int /\ n < MaxSeq + 1
  BY AgentRunAssumption DEF Seqs
<1>4. /\ \A c : Answers(m, MaxSeq + 1, c) <=>
                  Answers(l, n, c) \/ (ev.kind = "tool_result" /\ ev.call = c)
      /\ \A c : Asks(l, n, c) => Asks(m, MaxSeq + 1, c)
      /\ \A c : Answers(l, MaxSeq + 1, c) <=> Answers(l, n, c)
      /\ \A c : Asks(l, MaxSeq + 1, c) <=> Asks(l, n, c)
  BY <1>3, WithAnswers
<1>5. \A s, t \in Seqs : s < t /\ t <= n => (AllAnswered(m, s, t) <=> AllAnswered(l, s, t))
  <2> SUFFICES ASSUME NEW s \in Seqs, NEW t \in Seqs, s < t, t <= n
               PROVE  AllAnswered(m, s, t) <=> AllAnswered(l, s, t)
    OBVIOUS
  <2>1. \A x \in Seqs : x < t => l[x] = m[x]
    BY <1>1, <1>2
  <2>2. t \in Int
    BY <1>2
  <2> HIDE DEF m
  <2> QED
    BY <1>1, <2>1, <2>2, ReadBelow
<1> HIDE DEF m
<1>6. \A c : Answers(m, MaxSeq + 1, c) => Asks(m, MaxSeq + 1, c)
  BY <1>4 DEF LogSound, Fits
<1>7. ASSUME NEW s \in Seqs, NEW t \in Seqs, m[s].kind = "tool_result",
             m[t].kind = "tool_result", m[s].call = m[t].call
      PROVE  s = t
  <2>1. CASE s < n /\ t < n
    BY <1>1, <1>7, <2>1 DEF LogSound
  <2>2. CASE s = n /\ t < n
    BY <1>1, <1>7, <2>2 DEF Fits, Answers
  <2>3. CASE s < n /\ t = n
    BY <1>1, <1>7, <2>3 DEF Fits, Answers
  <2> QED
    BY <1>1, <1>7, <2>1, <2>2, <2>3
<1>8. ASSUME NEW s \in Seqs, NEW t \in Seqs, s < t, m[s].kind = "assistant",
             m[t].kind = "assistant",
             \A r \in Seqs : s < r /\ r < t => m[r].kind # "run_started"
      PROVE  AllAnswered(m, s, t)
  <2>0. s < n /\ t <= n
    BY <1>1, <1>2, <1>8
  <2>1. \A r \in Seqs : s < r /\ r < t => l[r].kind # "run_started"
    BY <1>1, <1>2, <1>8, <2>0
  <2>2. CASE t = n
    BY <1>1, <1>5, <1>8, <2>0, <2>1, <2>2 DEF Fits, SameRun
  <2>3. CASE t < n
    BY <1>1, <1>5, <1>8, <2>0, <2>1, <2>3 DEF LogSound
  <2> QED
    BY <1>2, <2>0, <2>2, <2>3
<1>9. ASSUME NEW s \in Seqs, NEW t \in Seqs, m[t].kind = "terminal_result",
             m[t].outcome = "success", m[t].run < s, s < t, m[s].kind = "assistant"
      PROVE  AllAnswered(m, s, t)
  <2>0. s < n /\ t <= n
    BY <1>1, <1>2, <1>9
  <2>1. CASE t = n
    BY <1>1, <1>5, <1>9, <2>0, <2>1 DEF Fits
  <2>2. CASE t < n
    BY <1>1, <1>5, <1>9, <2>0, <2>2 DEF LogSound
  <2> QED
    BY <1>2, <2>0, <2>1, <2>2
<1> QED
  BY <1>6, <1>7, <1>8, <1>9 DEF LogSound, m

\* The regime in which no worker writes behind another one's back is the one the
\* session was in before.
LEMMA StillOrderly ==
  ASSUME SInv, TInv', Orderly', budget'.rejections <= budget.rejections
  PROVE  Orderly
<1>1. /\ budget.rejections \in 0..MaxRejections /\ budget'.rejections \in 0..MaxRejections
      /\ MaxRejections \in Nat
  BY AgentRunAssumption DEF SInv, Base, TInv, Budgets
<1> QED
  BY <1>1 DEF Orderly

\* The seq a worker writes next, when it is free, lies above all of the log.
LEMMA Front ==
  ASSUME SInv, Orderly, NEW w \in Workers, Active(w), next[w] \in Seqs,
         log[next[w]] = NoEvent
  PROVE  Empty(log, next[w])
<1>1. CASE Alone
  BY <1>1 DEF SInv, Sound, InFront, Empty
<1>2. CASE budget.rejections = MaxRejections
  <2>1. NoGap
    BY <1>2 DEF SInv, Base, IInv
  <2>2. \A s \in Seqs : s \in Int
    BY DEF Seqs
  <2>3. \A s \in Seqs : log[s] # NoEvent => ~ (next[w] < s) /\ next[w] # s
    BY <2>1 DEF NoGap, Taken
  <2> QED
    BY <2>2, <2>3 DEF Empty
<1> QED
  BY <1>1, <1>2 DEF Orderly

\* What another worker relies on lies below its next seq, and stays.
LEMMA OthersSound ==
  ASSUME SInv, Orderly, TInv', NEW w \in Workers, Active(w), NEW u \in Workers, u # w,
         NEW ev, next[w] \in Seqs, log[next[w]] = NoEvent,
         log' = [log EXCEPT ![next[w]] = ev],
         at'[u] = at[u], next'[u] = next[u], job'[u] = job[u]
  PROVE  WorkSound(log', PhaseOf(at'[u], job'[u]), next'[u], job'[u])
<1>1. WorkSound(log, PhaseOf(at[u], job[u]), next[u], job[u])
  BY DEF SInv, Sound
<1>2. CASE Active(u)
  <2>1. budget.rejections = MaxRejections
    BY DEF Orderly, Alone
  <2>2. \A t \in Seqs : t < next[u] => t \in Taken(log)
    BY <1>2, <2>1 DEF SInv, Base, IInv, Below
  <2>3. ~ (next[w] < next[u])
    BY <2>2 DEF Taken
  <2>4. \A s \in Seqs : s < next[u] => log[s] = log'[s]
    BY <2>3 DEF SInv, Base, TInv
  <2>5. next[u] \in Int /\ log \in [Seqs -> Event] /\ log' \in [Seqs -> Event]
    BY DEF SInv, Base, TInv
  <2>6. WorkSound(log', PhaseOf(at[u], job[u]), next[u], job[u])
    <3> DEFINE l == log
               m == log'
               n == next[u]
               p == PhaseOf(at[u], job[u])
    <3>1. /\ l \in [Seqs -> Event] /\ m \in [Seqs -> Event] /\ n \in Int
          /\ \A s \in Seqs : s < n => l[s] = m[s]
          /\ WorkSound(l, p, n, job[u])
      BY <1>1, <2>4, <2>5
    <3> HIDE DEF l, m, n, p
    <3>2. WorkSound(m, p, n, job[u])
      BY <3>1, WorkBelow
    <3> QED
      BY <3>2 DEF m, n, p
  <2> QED
    BY <2>6
<1>3. CASE ~ Active(u)
  <2>1. PhaseOf(at'[u], job'[u]) \in {"idle", "decide", "open"}
    BY <1>3 DEF Active, PhaseOf
  <2> QED
    BY <2>1 DEF WorkSound, Asking1, Serving
<1> QED
  BY <1>2, <1>3

\* A worker for which nothing is left to answer: its run is over, or was not good.
Over(p, j) ==
  \/ PhaseOf(p, j) \in {"idle", "decide", "open", "closing"}
  \/ PhaseOf(p, j) = "terminal" /\ j.ends # "success"

LEMMA OverSound ==
  ASSUME NEW p, NEW j, Over(p, j), NEW l, NEW n PROVE WorkSound(l, PhaseOf(p, j), n, j)
  BY DEF Over, WorkSound, Asking1, Serving

\* A worker goes on and leaves the log alone.
LEMMA SoundQuiet ==
  ASSUME SInv, Base', NEW w \in Workers, NEW p, NEW n, NEW j, log' = log,
         at' = [at EXCEPT ![w] = p], next' = [next EXCEPT ![w] = n],
         job' = [job EXCEPT ![w] = j], budget'.rejections = budget.rejections,
         ActiveAt(p) => (Active(w) /\ n = next[w]) \/ Empty(log, n),
         Orderly => WorkSound(log, PhaseOf(p, j), n, j)
  PROVE  Sound'
<1>0. \A u \in Workers : u # w => at'[u] = at[u] /\ next'[u] = next[u] /\ job'[u] = job[u]
  BY DEF SInv, Base, TInv
<1>1. at'[w] = p /\ next'[w] = n /\ job'[w] = j
  BY DEF SInv, Base, TInv
<1>2. InFront'
  <2> SUFFICES ASSUME Alone, NEW u \in Workers, ActiveAt(at'[u]), NEW s \in Seqs,
                      log[s] # NoEvent
               PROVE  s < next'[u]
    BY DEF InFront, Active, ActiveAt
  <2>1. u = w
    BY DEF Alone
  <2> QED
    BY <1>1, <2>1 DEF SInv, Sound, InFront, Empty
<1>3. ASSUME Orderly' PROVE LogSound(log') /\ \A u \in Workers :
        WorkSound(log', PhaseOf(at'[u], job'[u]), next'[u], job'[u])
  <2>1. Orderly
    BY <1>3 DEF Orderly
  <2>2. ASSUME NEW u \in Workers, u # w
        PROVE  WorkSound(log', PhaseOf(at'[u], job'[u]), next'[u], job'[u])
    BY <1>0, <2>1, <2>2 DEF SInv, Sound
  <2>3. WorkSound(log', PhaseOf(at'[w], job'[w]), next'[w], job'[w])
    BY <1>1, <2>1
  <2> QED
    BY <2>1, <2>2, <2>3 DEF SInv, Sound
<1> QED
  BY <1>2, <1>3 DEF Sound

\* An append succeeds.
LEMMA SoundPlace ==
  ASSUME SInv, Base', NEW w \in Workers, NEW p, NEW j, NEW ev \in Event,
         Place(w, ev), budget' = budget, Active(w),
         at' = [at EXCEPT ![w] = p], job' = [job EXCEPT ![w] = j],
         Orderly => Fits(log, next[w], ev),
         Orderly /\ Empty(log, next[w]) =>
           WorkSound(With(log, next[w], ev), PhaseOf(p, j), next[w] + 1, j)
  PROVE  Sound'
<1>0. /\ next[w] \in Seqs /\ log[next[w]] = NoEvent /\ log \in [Seqs -> Event]
      /\ log' = [log EXCEPT ![next[w]] = ev] /\ log' = With(log, next[w], ev)
  BY DEF Place, SInv, Base, TInv, With
<1>1. \A u \in Workers : u # w => at'[u] = at[u] /\ next'[u] = next[u] /\ job'[u] = job[u]
  BY DEF SInv, Base, TInv, Place
<1>2. at'[w] = p /\ next'[w] = next[w] + 1 /\ job'[w] = j
  BY DEF SInv, Base, TInv, Place
<1>3. InFront'
  <2> SUFFICES ASSUME Alone, NEW u \in Workers, NEW s \in Seqs, log'[s] # NoEvent
               PROVE  s < next'[u]
    BY DEF InFront
  <2>1. u = w
    BY DEF Alone
  <2>2. s < next[w] \/ s = next[w]
    BY <1>0 DEF SInv, Sound, InFront
  <2> QED
    BY <1>0, <1>2, <2>1, <2>2 DEF Seqs
<1>4. ASSUME Orderly' PROVE LogSound(log') /\ \A u \in Workers :
        WorkSound(log', PhaseOf(at'[u], job'[u]), next'[u], job'[u])
  <2>1. Orderly /\ TInv'
    BY <1>4 DEF Orderly, Base
  <2>2. Empty(log, next[w])
    BY <1>0, <2>1, Front
  <2>3. LogSound(log')
    <3>1. LogSound(log) /\ Fits(log, next[w], ev)
      BY <2>1 DEF SInv, Sound
    <3>2. next[w] \in Seqs /\ log \in [Seqs -> Event]
      BY <1>0
    <3>3. LogSound(With(log, next[w], ev))
      BY <2>2, <3>1, <3>2, AddSound
    <3> QED
      BY <1>0, <3>3
  <2>4. ASSUME NEW u \in Workers, u # w
        PROVE  WorkSound(log', PhaseOf(at'[u], job'[u]), next'[u], job'[u])
    BY <1>0, <1>1, <2>1, <2>4, OthersSound
  <2>5. WorkSound(log', PhaseOf(at'[w], job'[w]), next'[w], job'[w])
    BY <1>0, <1>2, <2>1, <2>2
  <2> QED
    BY <2>3, <2>4, <2>5
<1> QED
  BY <1>3, <1>4 DEF Sound

\* An append is refused, and the run ends here or with an error.
LEMMA SoundRefused ==
  ASSUME SInv, Base', NEW w \in Workers, NEW p, NEW n, NEW j, NEW ev \in Event,
         Refused(w, ev), Active(w), Over(p, j), ActiveAt(p) => n = next[w] + 1,
         at' = [at EXCEPT ![w] = p], next' = [next EXCEPT ![w] = n],
         job' = [job EXCEPT ![w] = j], Orderly => Fits(log, next[w], ev)
  PROVE  Sound'
<1>0. next[w] \in Seqs /\ log \in [Seqs -> Event] /\ TInv' /\ next[w] \in Int
  BY DEF Refused, SInv, Base, TInv, Seqs
<1>1. \A u \in Workers : u # w => at'[u] = at[u] /\ next'[u] = next[u] /\ job'[u] = job[u]
  BY DEF SInv, Base, TInv
<1>2. at'[w] = p /\ next'[w] = n /\ job'[w] = j
  BY DEF SInv, Base, TInv
<1>3. \/ log' = log
      \/ log[next[w]] = NoEvent /\ log' = [log EXCEPT ![next[w]] = ev]
  BY DEF Refused
<1>4. InFront'
  <2> SUFFICES ASSUME Alone, NEW u \in Workers, ActiveAt(at'[u]), NEW s \in Seqs,
                      log'[s] # NoEvent
               PROVE  s < next'[u]
    BY DEF InFront, Active, ActiveAt
  <2>1. u = w
    BY DEF Alone
  <2>2. s < next[w] \/ s = next[w]
    BY <1>0, <1>3 DEF SInv, Sound, InFront
  <2>3. n = next[w] + 1 /\ s \in Int
    BY <1>2, <2>1 DEF Seqs
  <2> QED
    BY <1>0, <1>2, <2>1, <2>2, <2>3
<1>5. ASSUME Orderly' PROVE LogSound(log') /\ \A u \in Workers :
        WorkSound(log', PhaseOf(at'[u], job'[u]), next'[u], job'[u])
  <2>0. budget'.rejections <= budget.rejections
    BY DEF Refused, SInv, Base, TInv, Budgets
  <2>1. Orderly
    BY <1>0, <1>5, <2>0, StillOrderly
  <2>2. CASE log' = log
    <3>1. ASSUME NEW u \in Workers, u # w
          PROVE  WorkSound(log', PhaseOf(at'[u], job'[u]), next'[u], job'[u])
      BY <1>1, <2>1, <2>2, <3>1 DEF SInv, Sound
    <3>2. WorkSound(log', PhaseOf(at'[w], job'[w]), next'[w], job'[w])
      BY <1>2, OverSound
    <3> QED
      BY <2>1, <2>2, <3>1, <3>2 DEF SInv, Sound
  <2>3. CASE log[next[w]] = NoEvent /\ log' = [log EXCEPT ![next[w]] = ev]
    <3>1. Empty(log, next[w])
      BY <1>0, <2>1, <2>3, Front
    <3>2. LogSound(log')
      <4>1. log' = With(log, next[w], ev) /\ LogSound(log) /\ Fits(log, next[w], ev)
        BY <2>1, <2>3 DEF SInv, Sound, With
      <4>2. next[w] \in Seqs /\ log \in [Seqs -> Event]
        BY <1>0
      <4>3. LogSound(With(log, next[w], ev))
        BY <3>1, <4>1, <4>2, AddSound
      <4> QED
        BY <4>1, <4>3
    <3>3. ASSUME NEW u \in Workers, u # w
          PROVE  WorkSound(log', PhaseOf(at'[u], job'[u]), next'[u], job'[u])
      BY <1>0, <1>1, <2>1, <2>3, <3>3, OthersSound
    <3>4. WorkSound(log', PhaseOf(at'[w], job'[w]), next'[w], job'[w])
      BY <1>2, OverSound
    <3> QED
      BY <3>2, <3>3, <3>4
  <2> QED
    BY <1>3, <2>2, <2>3
<1> QED
  BY <1>4, <1>5 DEF Sound

\* What a worker relies on is in these fields of its job.
LEMMA SameFields ==
  ASSUME NEW l, NEW p, NEW n, NEW j, NEW k, j.run = k.run, j.todo = k.todo,
         j.done = k.done, j.ends = k.ends, WorkSound(l, p, n, j)
  PROVE  WorkSound(l, p, n, k)
  BY DEF WorkSound, Apart, Todo, Done

\* The log of a worker that has added event ev at n.
LEMMA WithWork ==
  ASSUME NEW l \in [Seqs -> Event], NEW n \in Seqs, NEW ev \in Event, Empty(l, n)
  PROVE  /\ ev.kind = "run_started" => LastRun(With(l, n, ev), n + 1, n)
         /\ ev.kind # "run_started" =>
              \A r : LastRun(l, n, r) => LastRun(With(l, n, ev), n + 1, r)
         /\ \A s \in Seqs : s < n + 1 /\ With(l, n, ev)[s].kind = "assistant" =>
              \/ s < n /\ l[s].kind = "assistant" /\ With(l, n, ev)[s] = l[s]
              \/ s = n /\ ev.kind = "assistant" /\ With(l, n, ev)[s] = ev
         /\ \A c : Answers(With(l, n, ev), n + 1, c) <=>
                     Answers(l, n, c) \/ (ev.kind = "tool_result" /\ ev.call = c)
         /\ \A c : Asks(With(l, n, ev), n + 1, c) <=>
                     \/ Asks(l, n, c)
                     \/ ev.kind = "assistant" /\ \E i \in DOMAIN ev.calls : ev.calls[i] = c
<1> DEFINE m == With(l, n, ev)
<1>1. /\ m[n] = ev
      /\ \A s \in Seqs : s < n => m[s] = l[s]
      /\ \A s \in Seqs : m[s].kind # "none" => s < n \/ s = n
      /\ \A s \in Seqs : l[s].kind # "none" => s < n
  BY WithOK
<1>2. (\A s \in Seqs : s \in Int) /\ n + 1 \in Int /\ n < n + 1
  BY DEF Seqs
<1>3. /\ \A c : Answers(m, n + 1, c) <=>
                  Answers(l, n, c) \/ (ev.kind = "tool_result" /\ ev.call = c)
      /\ \A c : Asks(m, n + 1, c) <=>
                  \/ Asks(l, n, c)
                  \/ ev.kind = "assistant" /\ \E i \in DOMAIN ev.calls : ev.calls[i] = c
  BY <1>2, WithAnswers
<1> HIDE DEF m
<1>4. ev.kind = "run_started" => LastRun(m, n + 1, n)
  BY <1>1, <1>2 DEF LastRun
<1>5. ev.kind # "run_started" => \A r : LastRun(l, n, r) => LastRun(m, n + 1, r)
  <2> SUFFICES ASSUME ev.kind # "run_started", NEW r, LastRun(l, n, r)
               PROVE  LastRun(m, n + 1, r)
    OBVIOUS
  <2>1. r \in Seqs /\ r < n + 1 /\ m[r].kind = "run_started"
    BY <1>1, <1>2 DEF LastRun
  <2>2. \A s \in Seqs : s < n + 1 /\ m[s].kind = "run_started" => s <= r
    BY <1>1, <1>2 DEF LastRun
  <2> QED
    BY <2>1, <2>2 DEF LastRun
<1>6. \A s \in Seqs : s < n + 1 /\ m[s].kind = "assistant" =>
        \/ s < n /\ l[s].kind = "assistant" /\ m[s] = l[s]
        \/ s = n /\ ev.kind = "assistant" /\ m[s] = ev
  BY <1>1, <1>2
<1> QED
  BY <1>3, <1>4, <1>5, <1>6 DEF m

\* A run may ask its model when the calls of its run are all answered.
LEMMA AnswerFits ==
  ASSUME NEW l \in [Seqs -> Event], NEW n \in Seqs, NEW r, LastRun(l, n, r), NEW b,
         \A s \in Seqs : r < s /\ s < n /\ l[s].kind = "assistant" => AllAnswered(l, s, n)
  PROVE  Fits(l, n, Assistant(b))
<1>1. r \in Seqs /\ r < n /\ l[r].kind = "run_started"
  BY DEF LastRun
<1>2. \A s \in Seqs : s \in Int
  BY DEF Seqs
<1>3. ASSUME NEW s \in Seqs, s < n, l[s].kind = "assistant", SameRun(l, s, n)
      PROVE  AllAnswered(l, s, n)
  <2>1. s # r /\ ~ (s < r)
    BY <1>1, <1>3 DEF SameRun
  <2>2. r < s
    BY <1>1, <1>2, <2>1
  <2> QED
    BY <1>3, <2>2
<1> QED
  BY <1>3, EventFields DEF Fits

LEMMA FreeFits ==
  ASSUME NEW l, NEW n, NEW ev, ev.kind \in {"run_started", "user", "suspension"}
  PROVE  Fits(l, n, ev)
  BY DEF Fits

\* What a worker of SInv has.
LEMMA MineSound ==
  ASSUME SInv, NEW w \in Workers
  PROVE  /\ log \in [Seqs -> Event] /\ next[w] \in Int /\ job[w] \in Jobs
         /\ FitFor(at[w], job[w])
         /\ Orderly /\ at[w] # "checkpoint" =>
              WorkSound(log, at[w], next[w], job[w])
  BY DEF SInv, Sound, Base, TInv, PhaseOf, Seqs

StartJob(w) == [job[w] EXCEPT !.run = next[w]]

LEMMA StartSound == ASSUME SInv, Base', NEW w \in Workers, Start(w) PROVE Sound'
<1> DEFINE ev == Plain("run_started")
           j == StartJob(w)
           n == next[w]
           l == With(log, n, ev)
<1>0. /\ ev \in Event /\ ev.kind = "run_started" /\ Active(w) /\ at[w] = "start"
      /\ Fits(log, n, ev)
  BY EventTypes, EventFields, FreeFits DEF Start, Active
<1> HIDE DEF ev
<1>1. CASE /\ Place(w, ev) /\ Goto(w, "user", j) /\ budget' = budget
  <2>1. job[w] \in Jobs /\ n \in Seqs
    BY <1>1, MineSound DEF Place
  <2>2. j.run = n /\ j.todo = job[w].todo /\ j.done = job[w].done
    BY <2>1 DEF StartJob, Jobs
  <2> HIDE DEF j
  <2>3. ASSUME Orderly, Empty(log, n) PROVE WorkSound(l, "user", n + 1, j)
    <3>1. j.todo = << >> /\ j.done = << >>
      BY <1>0, <2>2, <2>3, MineSound DEF WorkSound
    <3>2. LastRun(l, n + 1, n)
      BY <1>0, <2>1, <2>3, MineSound, WithWork
    <3> QED
      BY <2>2, <3>1, <3>2 DEF WorkSound, Asking1, Serving
  <2>4. PhaseOf("user", j) = "user"
    BY DEF PhaseOf
  <2> QED
    BY <1>0, <1>1, <2>3, <2>4, SoundPlace DEF Goto
<1>2. CASE Refused(w, ev) /\ Rest(w)
  <2>1. Over("idle", NoJob) /\ ~ ActiveAt("idle")
    BY DEF Over, PhaseOf, ActiveAt
  <2> QED
    BY <1>0, <1>2, <2>1, SoundRefused DEF Rest, Goto
<1> QED
  BY <1>1, <1>2 DEF Start, StartJob, ev

LEMMA UserSound == ASSUME SInv, Base', NEW w \in Workers, User(w) PROVE Sound'
<1> DEFINE ev == Plain("user")
           j == Before(job[w], "top")
           n == next[w]
           l == With(log, n, ev)
<1>0. /\ ev \in Event /\ ev.kind = "user" /\ Active(w) /\ at[w] = "user"
      /\ Fits(log, n, ev) /\ job[w] \in Jobs
  BY EventTypes, EventFields, FreeFits, MineSound DEF User, Active
<1> HIDE DEF ev
<1>1. CASE Place(w, ev) /\ Goto(w, "checkpoint", j) /\ budget' = budget
  <2>1. j.run = job[w].run /\ j.todo = job[w].todo /\ j.done = job[w].done /\ j.then = "top"
    BY <1>0, ThenTypes
  <2>2. n \in Seqs
    BY <1>1 DEF Place
  <2> HIDE DEF j
  <2>3. ASSUME Orderly, Empty(log, n) PROVE WorkSound(l, "top", n + 1, j)
    <3>1. /\ j.todo = << >> /\ j.done = << >> /\ LastRun(log, n, j.run)
          /\ j.run + 1 = n
      BY <1>0, <2>1, <2>3, MineSound DEF WorkSound
    <3>2. LastRun(l, n + 1, j.run)
      BY <1>0, <2>2, <2>3, <3>1, MineSound, WithWork
    <3>3. \A s \in Seqs : s < n + 1 /\ l[s].kind = "assistant" => s < n
      BY <1>0, <2>2, <2>3, MineSound, WithWork
    <3>4. \A s \in Seqs : j.run < s /\ s < n + 1 => l[s].kind # "assistant"
      <4>1. j.run \in Seqs
        BY <3>1 DEF LastRun
      <4> QED
        BY <3>1, <3>3, <4>1 DEF Seqs
    <3> HIDE DEF l
    <3> QED
      BY <3>1, <3>2, <3>4 DEF WorkSound, Asking1, Serving, Apart, Todo, Done
  <2>4. PhaseOf("checkpoint", j) = "top"
    BY <2>1 DEF PhaseOf
  <2> QED
    BY <1>0, <1>1, <2>3, <2>4, SoundPlace DEF Goto
<1>2. CASE Refused(w, ev) /\ Rest(w)
  <2>1. Over("idle", NoJob) /\ ~ ActiveAt("idle")
    BY DEF Over, PhaseOf, ActiveAt
  <2> QED
    BY <1>0, <1>2, <2>1, SoundRefused DEF Rest, Goto
<1>3. CASE End(w, "guardrail") /\ UNCHANGED <<log, seen, next, hash, budget>>
  <2> DEFINE k == Ended(job[w], "guardrail")
  <2>1. k.ends = "guardrail" 
    BY <1>0, EndedOK DEF Subtypes
  <2>2. Over("terminal", k)
    BY <2>1 DEF Over, PhaseOf
  <2>3. /\ at' = [at EXCEPT ![w] = "terminal"] /\ job' = [job EXCEPT ![w] = k]
        /\ next' = [next EXCEPT ![w] = n] /\ log' = log
        /\ budget'.rejections = budget.rejections
    BY <1>3 DEF End, Goto, Ended, SInv, Base, TInv
  <2> HIDE DEF k
  <2> QED
    BY <1>0, <2>2, <2>3, OverSound, SoundQuiet
<1> QED
  BY <1>1, <1>2, <1>3 DEF User, CheckpointThen, Before, ev

LEMMA CheckpointSound == ASSUME SInv, Base', NEW w \in Workers, Checkpoint(w) PROVE Sound'
<1> DEFINE j == job[w]
           n == next[w]
           p == j.then
<1>1. p \in {"top", "called", "terminal"} /\ at[w] = "checkpoint"
  BY MineSound DEF Checkpoint, FitFor
<1>2. PhaseOf(p, j) = PhaseOf(at[w], job[w])
  BY <1>1 DEF PhaseOf
<1>3. Orderly => WorkSound(log, PhaseOf(p, j), n, j)
  BY <1>2 DEF SInv, Sound
<1>4. /\ at' = [at EXCEPT ![w] = p] /\ job' = [job EXCEPT ![w] = j]
      /\ next' = [next EXCEPT ![w] = n] /\ log' = log
      /\ budget'.rejections = budget.rejections
  BY DEF Checkpoint, Goto, SInv, Base, TInv
<1>5. Active(w) /\ n = next[w]
  BY <1>1 DEF Active
<1> HIDE DEF j, n, p
<1> QED
  BY <1>3, <1>4, <1>5, SoundQuiet

\* A worker leaves the log alone and its run is over, or did not end well.
LEMMA SoundOver ==
  ASSUME SInv, Base', NEW w \in Workers, NEW p, NEW j, Over(p, j), Goto(w, p, j),
         Active(w), UNCHANGED <<log, next, budget>>
  PROVE  Sound'
<1> DEFINE n == next[w]
<1>1. /\ at' = [at EXCEPT ![w] = p] /\ job' = [job EXCEPT ![w] = j]
      /\ next' = [next EXCEPT ![w] = n] /\ log' = log
      /\ budget'.rejections = budget.rejections /\ n = next[w]
  BY DEF Goto, SInv, Base, TInv
<1>2. WorkSound(log, PhaseOf(p, j), n, j)
  BY OverSound
<1> HIDE DEF n
<1> QED
  BY <1>1, <1>2, SoundQuiet

\* A worker of runLoop leaves the log alone and goes on.
LEMMA SoundOn ==
  ASSUME SInv, Base', NEW w \in Workers, NEW p, NEW j, p # "checkpoint", Goto(w, p, j),
         Active(w), UNCHANGED <<log, next, budget>>,
         Orderly => WorkSound(log, p, next[w], j)
  PROVE  Sound'
<1> DEFINE n == next[w]
<1>1. /\ at' = [at EXCEPT ![w] = p] /\ job' = [job EXCEPT ![w] = j]
      /\ next' = [next EXCEPT ![w] = n] /\ log' = log
      /\ budget'.rejections = budget.rejections /\ n = next[w]
  BY DEF Goto, SInv, Base, TInv
<1>2. PhaseOf(p, j) = p
  BY DEF PhaseOf
<1>3. Orderly => WorkSound(log, PhaseOf(p, j), n, j)
  BY <1>2
<1> HIDE DEF n
<1> QED
  BY <1>1, <1>3, SoundQuiet

LEMMA OverJobs ==
  ASSUME NEW j \in Jobs, NEW o \in Subtypes, o # "success"
  PROVE  /\ Over("terminal", Ended(j, o))
         /\ Over("checkpoint", Before(Ended(j, o), "terminal"))
         /\ Over("checkpoint", Before(Dropped(j), "terminal"))
<1>1. Ended(j, o) \in Jobs /\ Ended(j, o).ends = o
  BY EndedOK
<1>2. Dropped(j) \in Jobs /\ Dropped(j).ends = "aborted"
  BY DroppedOK
<1>3. /\ Before(Ended(j, o), "terminal").then = "terminal"
      /\ Before(Ended(j, o), "terminal").ends = o
  BY <1>1, ThenTypes
<1>4. /\ Before(Dropped(j), "terminal").then = "terminal"
      /\ Before(Dropped(j), "terminal").ends = "aborted"
  BY <1>2, ThenTypes
<1> QED
  BY <1>1, <1>3, <1>4 DEF Over, PhaseOf

LEMMA StopSound ==
  ASSUME SInv, Base', NEW w \in Workers, Stop(w) \/ ModelFails(w) PROVE Sound'
<1>1. Active(w) /\ UNCHANGED <<log, next, budget>> /\ job[w] \in Jobs
  BY MineSound DEF Stop, ModelFails, Active, store
<1>2. {"ceiling", "error", "aborted"} \subseteq Subtypes
  BY DEF Subtypes
<1>3. \/ Goto(w, "terminal", Ended(job[w], "ceiling"))
      \/ Goto(w, "terminal", Ended(job[w], "error"))
      \/ Goto(w, "checkpoint", Before(Ended(job[w], "aborted"), "terminal"))
  BY DEF Stop, ModelFails, End, CheckpointThen, Ended, Before
<1> QED
  BY <1>1, <1>2, <1>3, OverJobs, SoundOver

\* An append of runLoop is accepted and the worker goes on, or it is refused.
LEMMA SoundLoop ==
  ASSUME SInv, Base', NEW w \in Workers, Active(w), NEW ev \in Event, NEW p, NEW j,
         AppendInLoop(w, ev, Goto(w, p, j)), Orderly => Fits(log, next[w], ev),
         Orderly /\ next[w] \in Seqs /\ Empty(log, next[w]) =>
           WorkSound(With(log, next[w], ev), PhaseOf(p, j), next[w] + 1, j)
  PROVE  Sound'
<1>1. CASE Place(w, ev) /\ Goto(w, p, j) /\ budget' = budget
  <2>1. next[w] \in Seqs
    BY <1>1 DEF Place
  <2> QED
    BY <1>1, <2>1, SoundPlace DEF Goto
<1>2. CASE /\ Refused(w, ev) /\ End(w, "error")
           /\ next' = [next EXCEPT ![w] = @ + 1]
  <2> DEFINE k == Ended(job[w], "error")
             n == next[w] + 1
             p1 == "terminal"
  <2>1. Over(p1, k)
    BY MineSound, OverJobs DEF Subtypes
  <2>2. /\ at' = [at EXCEPT ![w] = p1] /\ job' = [job EXCEPT ![w] = k]
        /\ next' = [next EXCEPT ![w] = n] /\ n = next[w] + 1
    BY <1>2 DEF End, Goto, Ended
  <2> HIDE DEF k, n, p1
  <2> QED
    BY <1>2, <2>1, <2>2, SoundRefused
<1> QED
  BY <1>1, <1>2 DEF AppendInLoop

LEMMA InterruptedSound ==
  ASSUME SInv, Base', NEW w \in Workers, Interrupted(w) PROVE Sound'
<1> DEFINE ev == Assistant(<< >>)
           k == Ended(job[w], "error")
           j == Before(Ended(job[w], "aborted"), "terminal")
<1>0. /\ Active(w) /\ at[w] = "top" /\ ev \in Event /\ job[w] \in Jobs
      /\ "error" \in Subtypes /\ "aborted" \in Subtypes
  BY EventTypes, MineSound, AgentRunAssumption DEF Interrupted, Active, Subtypes
<1>1. Over("terminal", k) /\ Over("checkpoint", j)
  BY <1>0, OverJobs
<1>2. \/ AppendInLoop(w, ev, Goto(w, "terminal", k))
      \/ AppendInLoop(w, ev, Goto(w, "checkpoint", j))
  BY DEF Interrupted, AppendInLoop, End, CheckpointThen, Before, Ended
<1>3. Orderly /\ next[w] \in Seqs => Fits(log, next[w], ev)
  <2> SUFFICES ASSUME Orderly, next[w] \in Seqs PROVE Fits(log, next[w], ev)
    OBVIOUS
  <2>1. WorkSound(log, "top", next[w], job[w]) /\ log \in [Seqs -> Event]
    BY <1>0, MineSound
  <2>2. /\ LastRun(log, next[w], job[w].run)
        /\ \A s \in Seqs : job[w].run < s /\ s < next[w] /\ log[s].kind = "assistant"
                             => AllAnswered(log, s, next[w])
    BY <2>1 DEF WorkSound, Asking1, Serving, AllAnswered
  <2> QED
    BY <2>1, <2>2, AnswerFits
<1>4. next[w] \in Seqs
  BY <1>2 DEF AppendInLoop, Place, Refused
<1> HIDE DEF ev, j, k
<1> QED
  BY <1>0, <1>1, <1>2, <1>3, <1>4, OverSound, SoundLoop

\* A call the model has not used before has no answer in the log.
LEMMA FreshCalls ==
  ASSUME SInv, Orderly, NEW c, ~ Used(c), NEW n \in Int, n <= MaxSeq + 1
  PROVE  ~ Answers(log, n, c)
<1>1. Answers(log, n, c) => Answers(log, MaxSeq + 1, c)
  BY AgentRunAssumption DEF Answers, Seqs
<1>2. ~ Asks(log, MaxSeq + 1, c)
  BY EventFields DEF Asks, Used, Logged
<1> QED
  BY <1>1, <1>2 DEF SInv, Sound, LogSound

LEMMA ModelSound == ASSUME SInv, Base', NEW w \in Workers, Model(w) PROVE Sound'
<1> DEFINE n == next[w]
<1>0. /\ Active(w) /\ at[w] = "top" /\ job[w] \in Jobs /\ job[w].turn < MaxTurns
      /\ n \in 0..(MaxSeq + 1) /\ "guardrail" \in Subtypes
      /\ UNCHANGED <<log, next, budget>>
  BY MineSound DEF Model, Active, Subtypes, store, SInv, Base, TInv
<1>1. PICK b \in Batches :
        /\ \A i \in DOMAIN b : ~ Used(b[i])
        /\ \/ Goto(w, "assistant", Given(job[w], b))
           \/ Goto(w, "checkpoint", Before(Dropped(Given(job[w], b)), "terminal"))
           \/ Goto(w, "terminal", Ended(Given(job[w], b), "guardrail"))
  BY DEF Model, CheckpointThen, Given, Dropped, Ended, Before
<1> DEFINE j == Given(job[w], b)
<1>2. j \in Jobs /\ j.todo = b /\ j.run = job[w].run /\ j.done = job[w].done
  BY <1>0, GivenOK
<1> HIDE DEF j
<1>3. CASE Goto(w, "assistant", j)
  <2>1. ASSUME Orderly PROVE WorkSound(log, "assistant", n, j)
    <3>1. WorkSound(log, "top", n, job[w])
      BY <1>0, <2>1, MineSound
    <3>2. /\ job[w].done = << >> /\ LastRun(log, n, job[w].run)
          /\ \A s \in Seqs : job[w].run < s /\ s < n /\ log[s].kind = "assistant" =>
               \A i \in DOMAIN log[s].calls : Answers(log, n, log[s].calls[i])
      BY <3>1 DEF WorkSound, Asking1, Serving
    <3>3. \A i, k \in DOMAIN b : b[i] = b[k] => i = k
      BY AgentRunAssumption
    <3>4. \A c : ~ Done(j, c)
      BY <1>2, <3>2 DEF Done
    <3>5. Apart(j)
      BY <1>2, <3>2, <3>3, <3>4 DEF Apart
    <3>6. \A c : Todo(j, c) => ~ Answers(log, n, c)
      <4>1. n \in Int /\ n <= MaxSeq + 1
        BY <1>0, AgentRunAssumption
      <4> QED
        BY <1>1, <1>2, <2>1, <4>1, FreshCalls DEF Todo
    <3> HIDE DEF n
    <3> QED
      BY <1>2, <3>2, <3>4, <3>5, <3>6 DEF WorkSound, Asking1, Serving
  <2> QED
    BY <1>0, <1>3, <2>1, SoundOn
<1>4. CASE \/ Goto(w, "checkpoint", Before(Dropped(j), "terminal"))
           \/ Goto(w, "terminal", Ended(j, "guardrail"))
  BY <1>0, <1>2, <1>4, OverJobs, SoundOver
<1> QED
  BY <1>1, <1>3, <1>4 DEF j

LEMMA AppendAssistantSound ==
  ASSUME SInv, Base', NEW w \in Workers, AppendAssistant(w) PROVE Sound'
<1> DEFINE ev == Assistant(job[w].todo)
           j == Before(job[w], "called")
           n == next[w]
           l == With(log, n, ev)
<1>0. /\ Active(w) /\ at[w] = "assistant" /\ ev \in Event /\ job[w] \in Jobs
      /\ ev.kind = "assistant" /\ ev.calls = job[w].todo
  BY EventTypes, EventFields, MineSound DEF AppendAssistant, Active, FitFor
<1>1. AppendInLoop(w, ev, Goto(w, "checkpoint", j))
  BY DEF AppendAssistant, CheckpointThen, Before
<1>2. j.run = job[w].run /\ j.todo = job[w].todo /\ j.done = job[w].done /\ j.then = "called"
  BY <1>0, ThenTypes
<1>3. n \in Seqs /\ log \in [Seqs -> Event]
  BY <1>1, MineSound DEF AppendInLoop, Place, Refused
<1>4. ASSUME Orderly
      PROVE  /\ j.done = << >> /\ LastRun(log, n, j.run) /\ Apart(j)
             /\ \A c : Todo(j, c) => ~ Answers(log, n, c)
             /\ \A s \in Seqs : j.run < s /\ s < n /\ log[s].kind = "assistant" =>
                  \A i \in DOMAIN log[s].calls : Answers(log, n, log[s].calls[i])
  <2>1. WorkSound(log, "assistant", n, job[w])
    BY <1>0, <1>4, MineSound
  <2> HIDE DEF n, j
  <2> QED
    BY <1>2, <2>1 DEF WorkSound, Asking1, Serving, Apart, Todo, Done
<1>5. ASSUME Orderly PROVE Fits(log, n, ev)
  BY <1>3, <1>4, <1>5, AnswerFits DEF AllAnswered
<1> HIDE DEF ev, j, n
<1>6. ASSUME Orderly, Empty(log, n) PROVE WorkSound(l, "called", n + 1, j)
  <2>1. /\ LastRun(l, n + 1, j.run)
        /\ \A c : Answers(l, n + 1, c) <=> Answers(log, n, c)
        /\ \A c : Asks(l, n + 1, c) <=> Asks(log, n, c) \/ Todo(j, c)
        /\ \A s \in Seqs : s < n + 1 /\ l[s].kind = "assistant" =>
             \/ s < n /\ log[s].kind = "assistant" /\ l[s] = log[s]
             \/ s = n /\ l[s] = ev
    BY <1>0, <1>2, <1>3, <1>4, <1>6, WithWork DEF Todo
  <2>2. \A c : ~ Done(j, c)
    BY <1>4, <1>6 DEF Done
  <2>3. ASSUME NEW s \in Seqs, j.run < s, s < n + 1, l[s].kind = "assistant",
               NEW i \in DOMAIN l[s].calls
        PROVE  Answers(l, n + 1, l[s].calls[i]) \/ Todo(j, l[s].calls[i])
    <3>1. CASE s < n /\ log[s].kind = "assistant" /\ l[s] = log[s]
      BY <1>4, <1>6, <2>1, <2>3, <3>1
    <3>2. CASE s = n /\ l[s] = ev
      BY <1>0, <1>2, <2>3, <3>2 DEF Todo
    <3> QED
      BY <2>1, <2>3, <3>1, <3>2
  <2> HIDE DEF l
  <2> QED
    BY <1>4, <1>6, <2>1, <2>2, <2>3 DEF WorkSound, Asking1, Serving
<1>7. PhaseOf("checkpoint", j) = "called"
  BY <1>2 DEF PhaseOf
<1> QED
  BY <1>0, <1>1, <1>5, <1>6, <1>7, SoundLoop DEF n

LEMMA CalledSound == ASSUME SInv, Base', NEW w \in Workers, Called(w) PROVE Sound'
<1> DEFINE n == next[w]
           j == Ended(job[w], "success")
<1>0. /\ Active(w) /\ at[w] = "called" /\ job[w] \in Jobs
      /\ {"ceiling", "success"} \subseteq Subtypes /\ UNCHANGED <<log, next, budget>>
  BY MineSound DEF Called, Active, Subtypes, store
<1>1. Orderly => WorkSound(log, "called", n, job[w])
  BY <1>0, MineSound
<1>2. CASE Goto(w, "terminal", Ended(job[w], "ceiling"))
  BY <1>0, <1>2, OverJobs, SoundOver
<1>3. CASE job[w].todo = << >> /\ Goto(w, "terminal", j)
  <2>1. j.run = job[w].run /\ j.todo = job[w].todo /\ j.done = job[w].done
    BY <1>0, EndedOK
  <2> HIDE DEF j
  <2>2. ASSUME Orderly PROVE WorkSound(log, "terminal", n, j)
    <3>1. /\ LastRun(log, n, j.run)
          /\ \A s \in Seqs : j.run < s /\ s < n /\ log[s].kind = "assistant" =>
               AllAnswered(log, s, n)
      BY <1>1, <1>3, <2>1, <2>2 DEF WorkSound, Asking1, Serving, Todo, Done, AllAnswered
    <3> QED
      BY <3>1 DEF WorkSound, Asking1, Serving
  <2> QED
    BY <1>0, <1>3, <2>2, SoundOn
<1>4. CASE Goto(w, "dispatch", job[w])
  <2>1. Orderly => WorkSound(log, "dispatch", n, job[w])
    BY <1>1 DEF WorkSound, Asking1, Serving
  <2> QED
    BY <1>0, <1>4, <2>1, SoundOn
<1> QED
  BY <1>2, <1>3, <1>4 DEF Called, End, Ended

\* A call that has an outcome moves from what is to be done to what is done.
LEMMA SettledCalls ==
  ASSUME NEW j \in Jobs, j.todo # << >>, NEW o \in {"ok", "error"}, Apart(j)
  PROVE  /\ Apart(Settled(j, o))
         /\ \A c : Todo(Settled(j, o), c) \/ Done(Settled(j, o), c)
                     <=> Todo(j, c) \/ Done(j, c)
<1> DEFINE k == Settled(j, o)
           t == j.todo
           d == j.done
           x == [call |-> Head(t), outcome |-> o]
           T == Tail(t)
           D == Append(d, x)
<1>1. k.todo = T /\ k.done = D
  BY SettledOK
<1>2. t \in Seq(Calls) /\ d \in Seq(Outcomes) /\ Len(t) \in Nat /\ Len(d) \in Nat
  BY DEF Jobs
<1>3. /\ DOMAIN t = 1..Len(t) /\ DOMAIN d = 1..Len(d) /\ Len(t) >= 1 /\ Head(t) = t[1]
      /\ DOMAIN T = 1..(Len(t) - 1) /\ \A i \in 1..(Len(t) - 1) : T[i] = t[i + 1]
      /\ DOMAIN D = 1..(Len(d) + 1) /\ D[Len(d) + 1] = x
      /\ \A i \in 1..Len(d) : D[i] = d[i]
  BY <1>2
<1>4. x.call = t[1]
  BY <1>3
<1> HIDE DEF k, t, d, x, T, D
<1>5. /\ \A i \in 1..Len(t), m \in 1..Len(t) : t[i] = t[m] => i = m
      /\ \A i \in 1..Len(d), m \in 1..Len(d) : d[i].call = d[m].call => i = m
      /\ \A i \in 1..Len(t), m \in 1..Len(d) : t[i] # d[m].call
  BY <1>3 DEF Apart, Done, t, d
<1>6. \A i \in 1..(Len(t) - 1) : i + 1 \in 1..Len(t) /\ i + 1 # 1
  BY <1>2
<1>7. 1 \in 1..Len(t) /\ \A i \in 1..(Len(d) + 1) : i \in 1..Len(d) \/ i = Len(d) + 1
  BY <1>2, <1>3
<1>8. \A i \in 1..(Len(t) - 1), m \in 1..(Len(t) - 1) : T[i] = T[m] => i = m
  <2>1. \A i, m \in 1..(Len(t) - 1) : i + 1 = m + 1 => i = m
    BY <1>2
  <2> QED
    BY <1>3, <1>5, <1>6, <2>1
<1>9. \A i \in 1..(Len(d) + 1), m \in 1..(Len(d) + 1) : D[i].call = D[m].call => i = m
  BY <1>3, <1>4, <1>5, <1>7
<1>10. \A i \in 1..(Len(t) - 1), m \in 1..(Len(d) + 1) : T[i] # D[m].call
  BY <1>3, <1>4, <1>5, <1>6, <1>7
<1>11. Apart(k)
  BY <1>1, <1>3, <1>8, <1>9, <1>10 DEF Apart, Done
<1>12. \A c : Todo(j, c) <=> c = t[1] \/ Todo(k, c)
  <2>1. \A c : Todo(j, c) <=> \E i \in 1..Len(t) : t[i] = c
    BY <1>3 DEF Todo, t
  <2>2. \A c : Todo(k, c) <=> \E i \in 1..(Len(t) - 1) : t[i + 1] = c
    BY <1>1, <1>3 DEF Todo
  <2>3. \A i \in 1..Len(t) : i = 1 \/ (i - 1 \in 1..(Len(t) - 1) /\ (i - 1) + 1 = i)
    BY <1>2
  <2>4. ASSUME NEW c PROVE (\E i \in 1..Len(t) : t[i] = c) <=>
                           c = t[1] \/ \E i \in 1..(Len(t) - 1) : t[i + 1] = c
    BY <1>6, <1>7, <2>3
  <2> QED
    BY <2>1, <2>2, <2>4
<1>13. \A c : Done(k, c) <=> Done(j, c) \/ c = t[1]
  <2>1. \A c : Done(k, c) <=> \E i \in 1..(Len(d) + 1) : D[i].call = c
    BY <1>1, <1>3 DEF Done
  <2>2. \A c : Done(j, c) <=> \E i \in 1..Len(d) : d[i].call = c
    BY <1>3 DEF Done, d
  <2>3. Len(d) + 1 \in 1..(Len(d) + 1) /\ \A i \in 1..Len(d) : i \in 1..(Len(d) + 1)
    BY <1>2
  <2> QED
    BY <1>3, <1>4, <1>7, <2>1, <2>2, <2>3
<1> QED
  BY <1>11, <1>12, <1>13 DEF k

\* A call whose result is logged is no longer what is done.
LEMMA ReportedCalls ==
  ASSUME NEW j \in Jobs, j.done # << >>, Apart(j)
  PROVE  /\ Apart(Reported(j)) /\ Done(j, Head(j.done).call)
         /\ \A c : Todo(Reported(j), c) <=> Todo(j, c)
         /\ \A c : Done(Reported(j), c) <=> Done(j, c) /\ c # Head(j.done).call
         /\ \A c : Todo(j, c) => c # Head(j.done).call
<1> DEFINE k == Reported(j)
           d == j.done
           D == Tail(d)
<1>1. k.todo = j.todo /\ k.done = D
  BY ReportedOK
<1>2. d \in Seq(Outcomes) /\ Len(d) \in Nat
  BY DEF Jobs
<1>3. /\ DOMAIN d = 1..Len(d) /\ Len(d) >= 1 /\ Head(d) = d[1]
      /\ DOMAIN D = 1..(Len(d) - 1) /\ \A i \in 1..(Len(d) - 1) : D[i] = d[i + 1]
  BY <1>2
<1> HIDE DEF k, d, D
<1>4. /\ \A i, m \in DOMAIN j.todo : j.todo[i] = j.todo[m] => i = m
      /\ \A i \in 1..Len(d), m \in 1..Len(d) : d[i].call = d[m].call => i = m
      /\ \A i \in DOMAIN j.todo, m \in 1..Len(d) : j.todo[i] # d[m].call
  BY <1>3 DEF Apart, Done, d
<1>5. /\ \A i \in 1..(Len(d) - 1) : i + 1 \in 1..Len(d) /\ i + 1 # 1
      /\ \A i, m \in 1..(Len(d) - 1) : i + 1 = m + 1 => i = m
      /\ \A i \in 1..Len(d) : i = 1 \/ (i - 1 \in 1..(Len(d) - 1) /\ (i - 1) + 1 = i)
      /\ 1 \in 1..Len(d)
  BY <1>2, <1>3
<1>6. \A c : Done(j, c) <=> \E i \in 1..Len(d) : d[i].call = c
  BY <1>3 DEF Done, d
<1>7. \A c : Done(k, c) <=> \E i \in 1..(Len(d) - 1) : d[i + 1].call = c
  BY <1>1, <1>3 DEF Done
<1>8. ASSUME NEW c PROVE Done(k, c) <=> Done(j, c) /\ c # d[1].call
  <2>1. Done(k, c) => Done(j, c) /\ c # d[1].call
    BY <1>4, <1>5, <1>6, <1>7
  <2>2. ASSUME Done(j, c), c # d[1].call PROVE Done(k, c)
    <3>1. PICK i \in 1..Len(d) : d[i].call = c
      BY <1>6, <2>2
    <3>2. i - 1 \in 1..(Len(d) - 1) /\ (i - 1) + 1 = i
      BY <1>5, <2>2, <3>1
    <3> QED
      BY <1>7, <3>1, <3>2
  <2> QED
    BY <2>1, <2>2
<1>9. Apart(k)
  BY <1>1, <1>3, <1>4, <1>5, <1>7 DEF Apart
<1>10. Done(j, d[1].call)
  BY <1>5, <1>6
<1>11. \A c : Todo(k, c) <=> Todo(j, c)
  BY <1>1 DEF Todo
<1>12. \A c : Todo(j, c) => c # d[1].call
  BY <1>4, <1>5 DEF Todo
<1> QED
  BY <1>3, <1>8, <1>9, <1>10, <1>11, <1>12 DEF k, d

LEMMA SettleSound ==
  ASSUME SInv, Base', NEW w \in Workers, NEW o \in {"ok", "error"}, Settle(w, o),
         at[w] \in {"dispatch", "execute", "complete"}, UNCHANGED <<log, next, budget>>
  PROVE  Sound'
<1> DEFINE n == next[w]
           j == Settled(job[w], o)
           p == IF j.todo = << >> THEN "results" ELSE "dispatch"
<1>0. Active(w) /\ job[w] \in Jobs /\ job[w].todo # << >>
  BY MineSound DEF Active, FitFor
<1>1. Goto(w, p, j) /\ p # "checkpoint"
  BY DEF Settle, Settled
<1>2. j.run = job[w].run
  BY <1>0, SettledOK
<1>3. ASSUME Orderly PROVE WorkSound(log, p, n, j)
  <2>1. /\ LastRun(log, n, job[w].run) /\ Apart(job[w])
        /\ \A c : Todo(job[w], c) \/ Done(job[w], c) => ~ Answers(log, n, c)
        /\ \A c : Todo(job[w], c) \/ Done(job[w], c) => Asks(log, n, c)
        /\ \A s \in Seqs : job[w].run < s /\ s < n /\ log[s].kind = "assistant" =>
             \A i \in DOMAIN log[s].calls :
               \/ Answers(log, n, log[s].calls[i])
               \/ Todo(job[w], log[s].calls[i]) \/ Done(job[w], log[s].calls[i])
    BY <1>3, MineSound DEF WorkSound, Asking1, Serving
  <2>2. /\ Apart(j)
        /\ \A c : Todo(j, c) \/ Done(j, c) <=> Todo(job[w], c) \/ Done(job[w], c)
    BY <1>0, <2>1, SettledCalls
  <2>3. p \in {"results", "dispatch"} /\ (p = "results" => j.todo = << >>)
    OBVIOUS
  <2> HIDE DEF j, p, n
  <2> QED
    BY <1>2, <2>1, <2>2, <2>3 DEF WorkSound, Asking1, Serving
<1> HIDE DEF j, p
<1> QED
  BY <1>0, <1>1, <1>3, SoundOn

LEMMA LookSound == ASSUME SInv, Base', NEW w \in Workers, Look(w) PROVE Sound'
<1>1. at[w] = "dispatch" /\ Active(w) /\ UNCHANGED <<log, next, budget>>
  BY DEF Look, Active
<1>2. CASE Settle(w, "error") \/ Settle(w, "ok")
  BY <1>1, <1>2, SettleSound
<1>3. CASE Goto(w, "execute", job[w])
  <2>1. Orderly => WorkSound(log, "execute", next[w], job[w])
    BY <1>1, MineSound DEF WorkSound, Asking1, Serving
  <2> QED
    BY <1>1, <1>3, <2>1, SoundOn
<1> QED
  BY <1>2, <1>3 DEF Look

LEMMA ExecuteSound == ASSUME SInv, Base', NEW w \in Workers, Execute(w) PROVE Sound'
<1> DEFINE c == Head(job[w].todo)
           j == Unwound(job[w], c)
<1>1. /\ at[w] = "execute" /\ Active(w) /\ UNCHANGED <<log, next, budget>>
      /\ job[w] \in Jobs
  BY MineSound DEF Execute, Active
<1>2. CASE Settle(w, "error")
  BY <1>1, <1>2, SettleSound
<1>3. CASE Goto(w, "complete", job[w])
  <2>1. Orderly => WorkSound(log, "complete", next[w], job[w])
    BY <1>1, MineSound DEF WorkSound, Asking1, Serving
  <2> QED
    BY <1>1, <1>3, <2>1, SoundOn
<1>4. CASE Goto(w, "terminal", j) \/ Goto(w, "suspend", j)
  <2>1. j.ends = "suspended"
    <3> HIDE DEF c
    <3> QED
      BY <1>1 DEF Unwound, Jobs
  <2> HIDE DEF j
  <2>2. Over("terminal", j) /\ WorkSound(log, "suspend", next[w], j)
    BY <2>1 DEF Over, PhaseOf, WorkSound, Asking1, Serving
  <2> QED
    BY <1>1, <1>4, <2>2, SoundOver, SoundOn
<1> QED
  BY <1>2, <1>3, <1>4 DEF Execute, Unwind, Unwound

LEMMA CompleteSound == ASSUME SInv, Base', NEW w \in Workers, Complete(w) PROVE Sound'
  BY SettleSound DEF Complete

LEMMA ResultsSound == ASSUME SInv, Base', NEW w \in Workers, Results(w) PROVE Sound'
<1> DEFINE x == Head(job[w].done)
           ev == ToolResult(x)
           j == Reported(job[w])
           k == Before(j, "top")
           n == next[w]
           l == With(log, n, ev)
<1>0. /\ Active(w) /\ at[w] = "results" /\ job[w] \in Jobs /\ job[w].done # << >>
  BY MineSound DEF Results, Active, FitFor
<1>1. /\ j \in Jobs /\ j.run = job[w].run /\ j.todo = job[w].todo /\ x \in Outcomes
  BY <1>0, ReportedOK
<1>2. ev \in Event /\ ev.kind = "tool_result" /\ ev.call = x.call
  BY <1>1, EventTypes, EventFields
<1>3. \/ AppendInLoop(w, ev, Goto(w, "checkpoint", k)) /\ j.done = << >>
      \/ AppendInLoop(w, ev, Goto(w, "results", j))
  BY DEF Results, CheckpointThen, AppendInLoop, Before, Reported
<1> HIDE DEF j, ev
<1>4. k.run = j.run /\ k.todo = j.todo /\ k.done = j.done /\ k.then = "top"
      /\ k.ends = j.ends
  BY <1>1, ThenTypes
<1>5. n \in Seqs /\ log \in [Seqs -> Event]
  BY <1>3, MineSound DEF AppendInLoop, Place, Refused
<1> HIDE DEF k, x, n
<1>6. ASSUME Orderly
      PROVE  /\ Fits(log, n, ev) /\ j.todo = << >> /\ LastRun(log, n, j.run) /\ Apart(j)
             /\ \A c : Done(j, c) => ~ Answers(log, n, c) /\ c # x.call /\ Asks(log, n, c)
             /\ \A s \in Seqs : j.run < s /\ s < n /\ log[s].kind = "assistant" =>
                  \A i \in DOMAIN log[s].calls :
                    \/ Answers(log, n, log[s].calls[i])
                    \/ Done(j, log[s].calls[i]) \/ log[s].calls[i] = x.call
  <2>1. /\ job[w].todo = << >> /\ LastRun(log, n, job[w].run) /\ Apart(job[w])
        /\ \A c : Done(job[w], c) => ~ Answers(log, n, c) /\ Asks(log, n, c)
        /\ \A s \in Seqs : job[w].run < s /\ s < n /\ log[s].kind = "assistant" =>
             \A i \in DOMAIN log[s].calls :
               \/ Answers(log, n, log[s].calls[i])
               \/ Todo(job[w], log[s].calls[i]) \/ Done(job[w], log[s].calls[i])
    BY <1>0, <1>6, MineSound DEF WorkSound, Asking1, Serving, n
  <2>2. /\ Apart(j) /\ Done(job[w], x.call)
        /\ \A c : Done(j, c) <=> Done(job[w], c) /\ c # x.call
    BY <1>0, <2>1, ReportedCalls DEF j, x
  <2>3. Fits(log, n, ev)
    BY <1>2, <2>1, <2>2 DEF Fits
  <2> QED
    BY <1>1, <2>1, <2>2, <2>3 DEF Todo
<1>7. ASSUME Orderly, Empty(log, n) PROVE WorkSound(l, "results", n + 1, j)
  <2>1. /\ LastRun(l, n + 1, j.run)
        /\ \A c : Answers(l, n + 1, c) <=> Answers(log, n, c) \/ c = x.call
        /\ \A c : Asks(l, n + 1, c) <=> Asks(log, n, c)
        /\ \A s \in Seqs : s < n + 1 /\ l[s].kind = "assistant" =>
             s < n /\ log[s].kind = "assistant" /\ l[s] = log[s]
    BY <1>2, <1>5, <1>6, <1>7, WithWork
  <2>2. \A c : ~ Todo(j, c)
    BY <1>6, <1>7 DEF Todo
  <2> HIDE DEF l
  <2> QED
    BY <1>6, <1>7, <2>1, <2>2 DEF WorkSound, Asking1, Serving
<1>8. CASE AppendInLoop(w, ev, Goto(w, "results", j))
  <2>1. PhaseOf("results", j) = "results"
    BY DEF PhaseOf
  <2> QED
    BY <1>0, <1>2, <1>6, <1>7, <1>8, <2>1, SoundLoop DEF n
<1>9. CASE AppendInLoop(w, ev, Goto(w, "checkpoint", k)) /\ j.done = << >>
  <2>1. PhaseOf("checkpoint", k) = "top"
    BY <1>4 DEF PhaseOf
  <2>2. ASSUME Orderly, Empty(log, n) PROVE WorkSound(l, "top", n + 1, k)
    <3>1. WorkSound(l, "results", n + 1, j)
      BY <1>7, <2>2
    <3>2. j.todo = << >> /\ j.done = << >>
      BY <1>6, <1>9, <2>2
    <3>3. WorkSound(l, "top", n + 1, j)
      BY <3>1, <3>2 DEF WorkSound, Asking1, Serving, Todo, Done
    <3> HIDE DEF l
    <3> QED
      BY <1>4, <3>3, SameFields
  <2> QED
    BY <1>0, <1>2, <1>6, <1>9, <2>1, <2>2, SoundLoop DEF n
<1> QED
  BY <1>3, <1>8, <1>9

LEMMA SuspendSound == ASSUME SInv, Base', NEW w \in Workers, Suspend(w) PROVE Sound'
<1> DEFINE ev == Suspension(job[w].call)
           j == Before(job[w], "terminal")
<1>0. /\ Active(w) /\ at[w] = "suspend" /\ job[w] \in Jobs /\ ev \in Event
      /\ ev.kind = "suspension"
  BY EventTypes, EventFields, MineSound DEF Suspend, Active, FitFor
<1>1. AppendInLoop(w, ev, Goto(w, "checkpoint", j))
  BY DEF Suspend, CheckpointThen, Before
<1>2. j.ends = job[w].ends /\ j.then = "terminal"
  BY <1>0, ThenTypes
<1> HIDE DEF ev, j
<1>3. Orderly => Over("checkpoint", j)
  BY <1>0, <1>2, MineSound DEF WorkSound, Over, PhaseOf
<1> QED
  BY <1>0, <1>1, <1>3, FreeFits, OverSound, SoundLoop

LEMMA FinishSound == ASSUME SInv, Base', NEW w \in Workers, Finish(w) PROVE Sound'
<1> DEFINE ev == Verdict(w)
           n == next[w]
<1>0. Active(w) /\ at[w] = "terminal" /\ job[w] \in Jobs /\ ev \in Event
  BY EventTypes, MineSound DEF Finish, Active, Verdict, Jobs
<1>1. ev.kind = "terminal_result" /\ ev.run = job[w].run /\ ev.outcome = job[w].ends
  BY EventFields DEF Verdict
<1> HIDE DEF ev
<1>2. Orderly => Fits(log, n, ev)
  <2> SUFFICES ASSUME Orderly, job[w].ends = "success"
               PROVE  \A s \in Seqs : job[w].run < s /\ s < n /\ log[s].kind = "assistant"
                                        => AllAnswered(log, s, n)
    BY <1>1 DEF Fits
  <2> QED
    BY <1>0, MineSound DEF WorkSound
<1>3. CASE Place(w, ev) /\ Goto(w, "closing", job[w]) /\ budget' = budget
  <2>1. Over("closing", job[w])
    BY DEF Over, PhaseOf
  <2> QED
    BY <1>0, <1>2, <1>3, <2>1, OverSound, SoundPlace DEF Goto
<1>4. CASE Refused(w, ev) /\ Rest(w)
  <2>1. Over("idle", NoJob) /\ ~ ActiveAt("idle")
    BY DEF Over, PhaseOf, ActiveAt
  <2> QED
    BY <1>0, <1>2, <1>4, <2>1, SoundRefused DEF Rest, Goto
<1> QED
  BY <1>3, <1>4 DEF Finish, ev

\* A worker lets go of its session.
LEMMA RestSound ==
  ASSUME SInv, Base', NEW w \in Workers, Rest(w), log' = log,
         budget'.rejections = budget.rejections
  PROVE  Sound'
<1>1. /\ at' = [at EXCEPT ![w] = "idle"] /\ next' = [next EXCEPT ![w] = 0]
      /\ job' = [job EXCEPT ![w] = NoJob]
  BY DEF Rest, Goto
<1>2. WorkSound(log, PhaseOf("idle", NoJob), 0, NoJob)
  BY OverSound DEF Over, PhaseOf
<1>3. ~ ActiveAt("idle")
  BY DEF ActiveAt
<1> QED
  BY <1>1, <1>2, <1>3, SoundQuiet

\* The bounds on queries, resumes and crashes are not the one on rejections.
LEMMA SameRejections ==
  ASSUME SInv, \/ budget' = budget
               \/ budget' = [budget EXCEPT !.queries = @ - 1]
               \/ budget' = [budget EXCEPT !.resumes = @ - 1]
               \/ budget' = [budget EXCEPT !.crashes = @ - 1]
  PROVE  budget'.rejections = budget.rejections
  BY BudgetOK DEF SInv, Base

LEMMA SessionSound ==
  ASSUME SInv, Base', NEW w \in Workers,
         Query(w) \/ Resume(w) \/ Decide(w) \/ Close(w) \/ Crash(w)
  PROVE  Sound'
<1>1. CASE Query(w)
  <2>1. /\ at' = [at EXCEPT ![w] = "start"] /\ next' = [next EXCEPT ![w] = NextSeq]
        /\ job' = [job EXCEPT ![w] = NoJob] /\ log' = log
        /\ budget'.rejections = budget.rejections
    BY <1>1, SameRejections DEF Query, Goto, store
  <2>2. Empty(log, NextSeq)
    BY NextSeqOK DEF SInv, Base, Empty, Taken
  <2>3. WorkSound(log, PhaseOf("start", NoJob), NextSeq, NoJob)
    BY DEF WorkSound, PhaseOf, NoJob, Asking1, Serving
  <2> QED
    BY <2>1, <2>2, <2>3, SoundQuiet
<1>2. CASE Resume(w) \/ Decide(w)
  <2>1. PICK p, j : p \in {"open", "decide"} /\ Goto(w, p, j)
    BY <1>2 DEF Resume, Decide
  <2>2. UNCHANGED <<log, next>> /\ budget'.rejections = budget.rejections
    BY <1>2, SameRejections DEF Resume, Decide, store
  <2>3. ~ ActiveAt(p) /\ WorkSound(log, PhaseOf(p, j), next[w], j)
    BY <2>1, OverSound DEF ActiveAt, Over, PhaseOf
  <2>4. next' = [next EXCEPT ![w] = next[w]]
    BY <2>2 DEF SInv, Base, TInv
  <2> QED
    BY <2>1, <2>2, <2>3, <2>4, SoundQuiet DEF Goto
<1>3. CASE Close(w) \/ Crash(w)
  <2>1. Rest(w) /\ log' = log /\ budget'.rejections = budget.rejections
    BY <1>3, SameRejections DEF Close, Crash, store
  <2> QED
    BY <2>1, RestSound
<1> QED
  BY <1>1, <1>2, <1>3

\* What a resumed run takes up are the calls of its last batch without an answer:
\* all earlier calls of the run have one.
LEMMA ContinueWork ==
  ASSUME SInv, Orderly, Begun, NEW p \in {"top", "dispatch"},
         p = "top" => Pending(Logged) = << >>
  PROVE  WorkSound(log, p, NextSeq, Resumed(Pending(Logged)))
<1> DEFINE P == Pending(Logged)
           j == Resumed(P)
           n == NextSeq
           r == RunOf(Logged)
<1>0. TInv /\ LogSound(log) /\ log \in [Seqs -> Event]
  BY DEF SInv, Base, Sound, TInv
<1>1. /\ r \in Seqs /\ log[r].kind = "run_started" /\ r \in Logged
      /\ \A s \in Seqs : log[s].kind = "run_started" => s <= r
  <2>1. r \in Of(Logged, "run_started") /\ \A s \in Of(Logged, "run_started") : s <= r
    BY <1>0, ResumedOK
  <2> QED
    BY <2>1, EventFields DEF Of, Logged
<1>2. j.todo = P /\ j.run = r /\ j.done = << >>
  BY <1>0, PendingOK, ResumedOK
<1>3. n \in Int /\ n <= MaxSeq + 1 /\ \A s \in Seqs : log[s] # NoEvent => s < n
  <2>1. \A s \in Taken(log) : s < NextSeq
    BY NextSeqOK DEF SInv, Base
  <2> QED
    BY <1>0, <2>1, NextSeqType, AgentRunAssumption DEF Taken
<1>4. \A c : Answers(log, n, c) <=> c \in Answered(Logged)
  BY <1>3, EventFields DEF Answers, Answered, Of, Logged
<1>5. \A s \in Seqs : log[s].kind = "assistant" => s \in Of(Logged, "assistant") /\ s < n
  BY <1>3, EventFields DEF Of, Logged
<1>6. LastRun(log, n, r)
  BY <1>1, <1>3 DEF LastRun, Logged
<1> DEFINE Last(t) == t \in Of(Logged, "assistant")
                      /\ \A x \in Of(Logged, "assistant") : x <= t
<1>7. /\ \A i, k \in DOMAIN P : P[i] = P[k] => i = k
      /\ \A s \in Of(Logged, "assistant") : \E t : Last(t) /\
           \A i \in DOMAIN log[t].calls : log[t].calls[i] \notin Answered(Logged) =>
             \E k \in DOMAIN P : P[k] = log[t].calls[i]
      /\ \A k \in DOMAIN P : P[k] \notin Answered(Logged) /\
           \E t : Last(t) /\ \E i \in DOMAIN log[t].calls : log[t].calls[i] = P[k]
  <2> HIDE DEF P
  <2> QED
    BY <1>0, PendingOK DEF P
<1> HIDE DEF P, j, n, r
<1>8. Apart(j) /\ \A c : ~ Done(j, c)
  BY <1>2, <1>7 DEF Apart, Done
<1>9. \A c : Todo(j, c) => ~ Answers(log, n, c) /\ Asks(log, n, c)
  <2> SUFFICES ASSUME NEW k \in DOMAIN P
               PROVE  ~ Answers(log, n, P[k]) /\ Asks(log, n, P[k])
    BY <1>2 DEF Todo
  <2>1. PICK t : Last(t) /\ \E i \in DOMAIN log[t].calls : log[t].calls[i] = P[k]
    BY <1>7
  <2>2. t \in Seqs /\ log[t].kind = "assistant" /\ t < n
    BY <1>3, <2>1 DEF Of, Logged
  <2> QED
    BY <1>4, <1>7, <2>1, <2>2 DEF Asks
<1>10. ASSUME NEW s \in Seqs, r < s, s < n, log[s].kind = "assistant",
              NEW i \in DOMAIN log[s].calls
       PROVE  Answers(log, n, log[s].calls[i]) \/ Todo(j, log[s].calls[i])
  <2>1. PICK t : Last(t) /\ \A m \in DOMAIN log[t].calls :
                   log[t].calls[m] \notin Answered(Logged) =>
                     \E k \in DOMAIN P : P[k] = log[t].calls[m]
    BY <1>5, <1>7, <1>10
  <2>2. t \in Seqs /\ log[t].kind = "assistant" /\ s <= t /\ t < n
    BY <1>3, <1>5, <1>10, <2>1 DEF Of, Logged
  <2>3. CASE s = t
    BY <1>2, <1>4, <1>10, <2>1, <2>3 DEF Todo
  <2>4. CASE s < t
    <3>1. \A x \in Seqs : s < x /\ x < t => log[x].kind # "run_started"
      BY <1>1, <1>10 DEF Seqs
    <3>2. AllAnswered(log, s, t)
      BY <1>0, <1>10, <2>2, <2>4, <3>1 DEF LogSound
    <3>3. Answers(log, t, log[s].calls[i])
      BY <1>10, <3>2 DEF AllAnswered
    <3>4. \A x \in Seqs : x < t => x < n
      BY <1>3, <2>2 DEF Seqs
    <3> QED
      BY <3>3, <3>4 DEF Answers
  <2> QED
    BY <2>2, <2>3, <2>4 DEF Seqs
<1>11. p = "top" => j.todo = << >>
  BY <1>2 DEF P
<1> HIDE DEF Last
<1>12. WorkSound(log, p, n, j)
  BY <1>2, <1>6, <1>8, <1>9, <1>10, <1>11 DEF WorkSound, Asking1, Serving, Todo
<1> QED
  BY <1>12 DEF P, j, n

LEMMA OpenSound == ASSUME SInv, Base', NEW w \in Workers, Open(w) PROVE Sound'
<1>0. Begun /\ TInv /\ log' = log /\ budget'.rejections = budget.rejections
  BY DEF Open, SInv, Base, HasRun, store
<1>1. Empty(log, NextSeq)
  BY NextSeqOK DEF SInv, Base, Empty, Taken
<1>2. CASE Rest(w)
  BY <1>0, <1>2, RestSound
<1>3. CASE Reopen(w) /\ Continue(w)
  <2> DEFINE todo == Pending(Logged)
             p == IF todo = << >> THEN "top" ELSE "dispatch"
             j == Resumed(todo)
  <2>1. Goto(w, p, j) /\ next' = [next EXCEPT ![w] = NextSeq]
    BY <1>3 DEF Continue, Reopen, Resumed
  <2>2. p \in {"top", "dispatch"} /\ (p = "top" => todo = << >>) /\ PhaseOf(p, j) = p
    BY DEF PhaseOf
  <2>3. Orderly => WorkSound(log, PhaseOf(p, j), NextSeq, j)
    BY <1>0, <2>2, ContinueWork
  <2> HIDE DEF p, j
  <2> QED
    BY <1>0, <1>1, <2>1, <2>3, SoundQuiet DEF Goto
<1>4. CASE Reopen(w) /\ Blocked(w)
  <2> DEFINE j == BlockedJob
  <2>1. /\ at' = [at EXCEPT ![w] = "terminal"] /\ job' = [job EXCEPT ![w] = j]
        /\ next' = [next EXCEPT ![w] = NextSeq]
    BY <1>4 DEF Blocked, Goto, Reopen, BlockedJob
  <2>2. j.ends = "guardrail"
    BY <1>0, ResumedOK
  <2> HIDE DEF j
  <2>3. WorkSound(log, PhaseOf("terminal", j), NextSeq, j)
    BY <2>2, OverSound DEF Over, PhaseOf
  <2> QED
    BY <1>0, <1>1, <2>1, <2>3, SoundQuiet
<1> QED
  BY <1>2, <1>3, <1>4 DEF Open

LEMMA InitSound == Init => SInv
<1> SUFFICES ASSUME Init PROVE SInv
  OBVIOUS
<1>1. Base
  BY InitTypes1, InitIInv DEF TInv1, Base
<1>2. \A s \in Seqs : log[s] = NoEvent /\ log[s].kind = "none"
  BY EventFields DEF Init
<1>3. LogSound(log)
  BY <1>2 DEF LogSound, Answers
<1>4. ASSUME NEW w \in Workers
      PROVE  WorkSound(log, PhaseOf(at[w], job[w]), next[w], job[w])
  <2>1. Over(at[w], job[w])
    BY DEF Init, Over, PhaseOf
  <2> QED
    BY <2>1, OverSound
<1>5. InFront
  BY <1>2 DEF InFront
<1> QED
  BY <1>1, <1>3, <1>4, <1>5 DEF SInv, Sound

LEMMA StepSound ==
  ASSUME SInv, Base', NEW w \in Workers, Query(w) \/ Resume(w) \/ Step(w) \/ Crash(w)
  PROVE  Sound'
  BY StartSound, UserSound, CheckpointSound, StopSound, InterruptedSound, ModelSound,
     AppendAssistantSound, CalledSound, LookSound, ExecuteSound, CompleteSound,
     ResultsSound, SuspendSound, FinishSound, SessionSound, OpenSound DEF Step

LEMMA NextSound == SInv /\ [Next]_vars => SInv'
<1> SUFFICES ASSUME SInv, [Next]_vars PROVE SInv'
  OBVIOUS
<1>1. Base'
  BY NextIInv, NextTypes DEF SInv, Base, TInv1
<1>2. CASE UNCHANGED vars
  BY <1>1, <1>2 DEF vars, store, worker, history, SInv, Sound, InFront, Orderly, Active
<1>3. CASE Next
  BY <1>1, <1>3, StepSound DEF Next, SInv
<1> QED
  BY <1>2, <1>3

LEMMA SoundAlways == Spec => []SInv
  BY InitSound, NextSound, PTL DEF Spec

\* No tool call is answered twice in the log, for any number of runs, resumes and
\* crashes: where a worker is alone with its session, whatever the store refuses;
\* and where there are several, as long as the store refuses nothing but taken seqs.
THEOREM AnsweredSingly == Spec => [](Orderly => AnsweredOnce)
<1>1. SInv => (Orderly => AnsweredOnce)
  BY DEF SInv, Sound, LogSound, AnsweredOnce, Of, Logged
<1> QED
  BY SoundAlways, <1>1, PTL

\* In the same regime a run that reports success has an answer in the log for every
\* call that its model made, the calls of interrupted batches included.
THEOREM SuccessIsComplete == Spec => [](Orderly => SuccessAnswersAll)
<1>1. ASSUME SInv, Orderly PROVE SuccessAnswersAll
  <2> SUFFICES ASSUME NEW t \in Of(Logged, "terminal_result"), log[t].outcome = "success",
                      NEW s \in Of(Logged, "assistant"), log[t].run < s, s < t,
                      NEW i \in DOMAIN log[s].calls
               PROVE  log[s].calls[i] \in Answered({x \in Logged : x < t})
    BY DEF SuccessAnswersAll
  <2>1. s \in Seqs /\ t \in Seqs /\ log[s].kind = "assistant"
        /\ log[t].kind = "terminal_result"
    BY DEF Of, Logged
  <2>2. Answers(log, t, log[s].calls[i])
    BY <1>1, <2>1 DEF SInv, Sound, LogSound, AllAnswered
  <2> QED
    BY <2>2, EventFields DEF Answers, Answered, Of, Logged
<1> QED
  BY SoundAlways, <1>1, PTL

-----------------------------------------------------------------------------
(* The runs of a session.  A worker is in a run from its start to its        *)
(* terminal result.                                                          *)

InRun(p) == p \notin {"idle", "decide", "open", "start", "closing"}
Adds(w, ev) ==
  /\ next[w] \in Seqs /\ log[next[w]] = NoEvent /\ Active(w)
  /\ log' = With(log, next[w], ev)
Inner == {"user", "assistant", "tool_result", "suspension"}

\* What a step of worker w may do to the runs.
Begins(w) ==
  /\ Adds(w, Plain("run_started"))
  /\ InRun(at'[w]) => job'[w].run = next[w]
Concludes(w) == InRun(at[w]) /\ Adds(w, Verdict(w)) /\ ~ InRun(at'[w])
GoesOn(w) ==
  /\ InRun(at[w])
  /\ log' = log \/ \E ev \in Event : ev.kind \in Inner /\ Adds(w, ev)
  /\ InRun(at'[w]) => job'[w].run = job[w].run
KeepsOut(w) == log' = log /\ ~ InRun(at'[w])
TakesUp(w) ==
  /\ log' = log /\ Begun
  /\ Outcome(Logged, RunOf(Logged)) \in {"none", "suspended"}
  /\ InRun(at'[w]) => job'[w].run = RunOf(Logged)

Moves(w) == Begins(w) \/ Concludes(w) \/ GoesOn(w) \/ KeepsOut(w) \/ TakesUp(w)

\* An append of a run that goes on, in runLoop or for the user's text.
LEMMA AppendMoves ==
  ASSUME TInv, NEW w \in Workers, Active(w), InRun(at[w]),
         NEW ev \in Event, ev.kind \in Inner,
         Place(w, ev) \/ Refused(w, ev),
         InRun(at'[w]) => job'[w].run = job[w].run
  PROVE  GoesOn(w)
  BY DEF GoesOn, Adds, With, Place, Refused

LEMMA LoopMoves ==
  ASSUME TInv, NEW w \in Workers, Active(w), InRun(at[w]),
         NEW ev \in Event, ev.kind \in Inner, NEW p, NEW j, j.run = job[w].run,
         AppendInLoop(w, ev, Goto(w, p, j))
  PROVE  GoesOn(w)
<1>1. job[w] \in Jobs /\ "error" \in Subtypes
  BY DEF TInv, Subtypes
<1>2. Place(w, ev) \/ Refused(w, ev)
  BY DEF AppendInLoop
<1>3. job'[w] = j \/ job'[w] = Ended(job[w], "error")
  BY DEF AppendInLoop, Goto, End, Ended, TInv
<1>4. job'[w].run = job[w].run
  BY <1>1, <1>3, EndedOK
<1> QED
  BY <1>2, <1>4, AppendMoves

LEMMA QuietMoves ==
  ASSUME TInv, NEW w \in Workers,
         Checkpoint(w) \/ Stop(w) \/ ModelFails(w) \/ Model(w) \/ Called(w)
           \/ Look(w) \/ Execute(w) \/ Complete(w)
  PROVE  GoesOn(w)
<1>0. job[w] \in Jobs /\ log' = log /\ InRun(at[w]) /\ FitFor(at[w], job[w])
  BY DEF TInv, Checkpoint, Stop, ModelFails, Model, Called, Look, Execute, Complete,
         InRun, store
<1>1. \A o \in Subtypes : Ended(job[w], o).run = job[w].run
  BY <1>0, EndedOK
<1>2. CASE Checkpoint(w)
  BY <1>0, <1>2 DEF Checkpoint, Goto, GoesOn, TInv
<1>3. CASE Stop(w) \/ ModelFails(w) \/ Called(w)
  <2>1. {"ceiling", "error", "aborted", "success"} \subseteq Subtypes
    BY DEF Subtypes
  <2>2. Before(Ended(job[w], "aborted"), "terminal").run = job[w].run
    <3>1. "aborted" \in Subtypes
      BY <2>1
    <3>2. Ended(job[w], "aborted") \in Jobs /\ Ended(job[w], "aborted").run = job[w].run
      BY <1>0, <3>1, EndedOK
    <3> QED
      BY <3>2, ThenTypes
  <2>3. \/ job'[w] = job[w] \/ job'[w] = Before(Ended(job[w], "aborted"), "terminal")
        \/ \E o \in Subtypes : job'[w] = Ended(job[w], o)
    BY <1>3, <2>1 DEF Stop, ModelFails, Called, CheckpointThen, End, Goto, TInv,
                      Ended, Before
  <2> QED
    BY <1>0, <1>1, <2>2, <2>3 DEF GoesOn
<1>4. CASE Model(w)
  <2>1. PICK b \in Batches :
          \/ Goto(w, "assistant", Given(job[w], b))
          \/ Goto(w, "checkpoint", Before(Dropped(Given(job[w], b)), "terminal"))
          \/ Goto(w, "terminal", Ended(Given(job[w], b), "guardrail"))
    BY <1>4 DEF Model, CheckpointThen, Given, Dropped, Ended, Before
  <2>2. Given(job[w], b) \in Jobs /\ Given(job[w], b).run = job[w].run
    BY <1>0, <1>4, GivenOK DEF Model
  <2>3. /\ Dropped(Given(job[w], b)) \in Jobs
        /\ Dropped(Given(job[w], b)).run = job[w].run
        /\ Ended(Given(job[w], b), "guardrail").run = job[w].run
    BY <2>2, DroppedOK, EndedOK DEF Subtypes
  <2>4. Before(Dropped(Given(job[w], b)), "terminal").run = job[w].run
    BY <2>3, ThenTypes
  <2>5. job'[w].run = job[w].run
    BY <2>1, <2>2, <2>3, <2>4 DEF Goto, TInv
  <2> QED
    BY <1>0, <2>5 DEF GoesOn
<1>5. CASE Look(w) \/ Execute(w) \/ Complete(w)
  <2>1. job[w].todo # << >>
    BY <1>0, <1>5 DEF Look, Execute, Complete, FitFor
  <2>2. ASSUME NEW o, Settle(w, o) PROVE job'[w] = Settled(job[w], o)
    BY <2>2 DEF Settle, Goto, TInv, Settled
  <2>3. ASSUME NEW c, Unwind(w, c) PROVE job'[w].run = job[w].run
    <3>1. job'[w] = Unwound(job[w], c)
      BY <2>3 DEF Unwind, Goto, TInv, Unwound
    <3> QED
      BY <1>0, <3>1 DEF Unwound, Jobs
  <2>4. \/ Settle(w, "ok") \/ Settle(w, "error") \/ job'[w] = job[w]
        \/ \E c : Unwind(w, c)
    BY <1>5 DEF Look, Execute, Complete, Goto, TInv
  <2>5. job'[w].run = job[w].run
    <3>1. \A o \in {"ok", "error"} : Settled(job[w], o).run = job[w].run
      BY <1>0, <2>1, SettledOK
    <3>2. CASE Settle(w, "ok")
      BY <2>2, <3>1, <3>2
    <3>3. CASE Settle(w, "error")
      BY <2>2, <3>1, <3>3
    <3> QED
      BY <2>3, <2>4, <3>2, <3>3
  <2> QED
    BY <1>0, <2>5 DEF GoesOn
<1> QED
  BY <1>2, <1>3, <1>4, <1>5

LEMMA RunMoves ==
  ASSUME TInv, HasRun, NEW w \in Workers, Query(w) \/ Resume(w) \/ Step(w) \/ Crash(w)
  PROVE  Moves(w)
<1>0. job[w] \in Jobs /\ FitFor(at[w], job[w])
  BY DEF TInv
<1>1. CASE Query(w) \/ Resume(w) \/ Close(w) \/ Decide(w) \/ Crash(w)
  BY <1>1 DEF Query, Resume, Close, Decide, Crash, Rest, Goto, store, TInv, KeepsOut,
              InRun, Moves
<1>2. CASE Start(w)
  <2>1. CASE Refused(w, Plain("run_started")) /\ Rest(w)
    BY <1>2, <2>1 DEF Start, Refused, Rest, Goto, TInv, Moves, KeepsOut, Begins, Adds,
                      With, InRun, Active
  <2>2. CASE Place(w, Plain("run_started")) /\ Goto(w, "user", StartJob(w))
    <3>1. StartJob(w).run = next[w]
      BY <1>0 DEF StartJob, Jobs
    <3> QED
      BY <1>2, <2>2, <3>1 DEF Start, Place, Goto, TInv, Moves, Begins, Adds, With, Active
  <2> QED
    BY <1>2, <2>1, <2>2 DEF Start, StartJob
<1>3. CASE User(w)
  <2>0. Plain("user") \in Event /\ Plain("user").kind \in Inner /\ Active(w) /\ InRun(at[w])
    BY <1>3, EventTypes, EventFields DEF Inner, User, Active, InRun
  <2>1. \/ job'[w] = Ended(job[w], "guardrail") \/ job'[w] = Before(job[w], "top")
        \/ at'[w] = "idle"
    BY <1>3 DEF User, End, CheckpointThen, Rest, Goto, Ended, Before, TInv
  <2>2. InRun(at'[w]) => job'[w].run = job[w].run
    BY <1>0, <2>1, EndedOK, ThenTypes DEF InRun, Subtypes
  <2>3. log' = log \/ Place(w, Plain("user")) \/ Refused(w, Plain("user"))
    BY <1>3 DEF User
  <2>4. CASE log' = log
    BY <2>0, <2>2, <2>4 DEF GoesOn, Moves
  <2> QED
    BY <2>0, <2>2, <2>3, <2>4, AppendMoves DEF Moves
<1>4. CASE Interrupted(w)
  <2> DEFINE ev == Assistant(<< >>)
             k == Ended(job[w], "error")
             j == Before(Ended(job[w], "aborted"), "terminal")
  <2>1. ev \in Event /\ ev.kind \in Inner /\ Active(w) /\ InRun(at[w])
    BY <1>4, EventTypes, EventFields, AgentRunAssumption
       DEF Inner, Interrupted, Active, InRun
  <2>2. k.run = job[w].run /\ j.run = job[w].run
    BY <1>0, EndedOK, ThenTypes DEF Subtypes
  <2>3. \/ AppendInLoop(w, ev, Goto(w, "terminal", k))
        \/ AppendInLoop(w, ev, Goto(w, "checkpoint", j))
    BY <1>4 DEF Interrupted, AppendInLoop, End, CheckpointThen, Before, Ended
  <2> HIDE DEF ev, k, j
  <2> QED
    BY <2>1, <2>2, <2>3, LoopMoves DEF Moves
<1>5. CASE AppendAssistant(w)
  <2> DEFINE ev == Assistant(job[w].todo)
             j == Before(job[w], "called")
  <2>1. ev \in Event /\ ev.kind \in Inner /\ Active(w) /\ InRun(at[w])
    BY <1>0, <1>5, EventTypes, EventFields DEF Inner, AppendAssistant, Active, InRun, FitFor
  <2>2. j.run = job[w].run /\ AppendInLoop(w, ev, Goto(w, "checkpoint", j))
    BY <1>0, <1>5, ThenTypes DEF AppendAssistant, CheckpointThen, Before
  <2> HIDE DEF ev, j
  <2> QED
    BY <2>1, <2>2, LoopMoves DEF Moves
<1>6. CASE Results(w)
  <2> DEFINE ev == ToolResult(Head(job[w].done))
             j == Reported(job[w])
             k == Before(j, "top")
  <2>1. j \in Jobs /\ j.run = job[w].run /\ Head(job[w].done) \in Outcomes
    BY <1>0, <1>6, ReportedOK DEF Results, FitFor
  <2>2. ev \in Event /\ ev.kind \in Inner /\ Active(w) /\ InRun(at[w])
    BY <1>6, <2>1, EventTypes, EventFields DEF Inner, Results, Active, InRun
  <2>3. \/ AppendInLoop(w, ev, Goto(w, "checkpoint", k))
        \/ AppendInLoop(w, ev, Goto(w, "results", j))
    BY <1>6 DEF Results, CheckpointThen, AppendInLoop, Before, Reported
  <2> HIDE DEF ev, j
  <2>4. k.run = job[w].run
    BY <2>1, ThenTypes
  <2> HIDE DEF k
  <2> QED
    BY <2>1, <2>2, <2>3, <2>4, LoopMoves DEF Moves
<1>7. CASE Suspend(w)
  <2> DEFINE ev == Suspension(job[w].call)
             j == Before(job[w], "terminal")
  <2>1. ev \in Event /\ ev.kind \in Inner /\ Active(w) /\ InRun(at[w])
    BY <1>0, <1>7, EventTypes, EventFields DEF Inner, Suspend, Active, InRun, FitFor
  <2>2. j.run = job[w].run /\ AppendInLoop(w, ev, Goto(w, "checkpoint", j))
    BY <1>0, <1>7, ThenTypes DEF Suspend, CheckpointThen, Before
  <2> HIDE DEF ev, j
  <2> QED
    BY <2>1, <2>2, LoopMoves DEF Moves
<1>8. CASE Finish(w)
  BY <1>8 DEF Finish, Place, Refused, Rest, Goto, TInv, Moves, Concludes, KeepsOut, Adds,
              With, InRun, Active
<1>9. CASE Open(w)
  <2>1. Begun /\ TInv /\ log' = log
    BY <1>9 DEF HasRun, Open, store
  <2>2. CASE Rest(w)
    BY <2>1, <2>2 DEF Rest, Goto, TInv, Moves, KeepsOut, InRun
  <2>3. CASE /\ Continue(w) \/ Blocked(w)
             /\ Outcome(Logged, RunOf(Logged)) \in {"none", "suspended"}
    <3>1. job'[w] = Resumed(Pending(Logged)) \/ job'[w] = BlockedJob
      BY <2>3 DEF Continue, Blocked, Goto, TInv, Resumed, BlockedJob
    <3>2. job'[w].run = RunOf(Logged)
      BY <2>1, <3>1, PendingOK, ResumedOK
    <3> QED
      BY <2>1, <2>3, <3>2 DEF TakesUp, Moves
  <2> QED
    BY <1>9, <2>2, <2>3 DEF Open
<1> QED
  BY <1>1, <1>2, <1>3, <1>4, <1>5, <1>6, <1>7, <1>8, <1>9, QuietMoves DEF Step, Moves

\* In the log l: a terminal result is that of a run that began before it, and only
\* suspensions precede the last one of a run.
RunsSound(l) ==
  /\ \A t \in Seqs : l[t].kind = "terminal_result" =>
       /\ l[t].run \in Seqs /\ l[t].run < t /\ l[l[t].run].kind = "run_started"
       /\ l[t].outcome \in Subtypes
  /\ \A s, t \in Seqs :
       /\ l[s].kind = "terminal_result" /\ l[t].kind = "terminal_result"
       /\ l[s].run = l[t].run /\ s < t
       => l[s].outcome = "suspended"
\* Run r has begun, and all it has reported is suspensions.
Unended(l, r) ==
  /\ r \in Seqs /\ l[r].kind = "run_started"
  /\ \A t \in Seqs : l[t].kind = "terminal_result" /\ l[t].run = r
                       => l[t].outcome = "suspended"

RInv == Alone => /\ RunsSound(log)
                 /\ \A w \in Workers : InRun(at[w]) => Unended(log, job[w].run)

\* What an event of another kind than a terminal result leaves as it is.
LEMMA RunsStay ==
  ASSUME NEW l \in [Seqs -> Event], NEW n \in Seqs, NEW ev \in Event, Empty(l, n),
         ev.kind # "terminal_result", RunsSound(l)
  PROVE  /\ RunsSound(With(l, n, ev))
         /\ \A r : Unended(l, r) => Unended(With(l, n, ev), r)
         /\ ev.kind = "run_started" => Unended(With(l, n, ev), n)
<1> DEFINE m == With(l, n, ev)
<1>1. /\ m[n] = ev /\ \A s \in Seqs : s # n => m[s] = l[s]
      /\ \A s \in Seqs : l[s].kind # "none" => s < n
  BY WithOK
<1>2. n \in Int /\ ~ (n < n)
  BY DEF Seqs
<1>3. l[n].kind = "none"
  BY <1>1, <1>2
<1> HIDE DEF m
<1>4. \A t \in Seqs : m[t].kind = "terminal_result" => l[t] = m[t] /\ t # n
  BY <1>1
<1>5. \A r \in Seqs : l[r].kind = "run_started" => m[r] = l[r] /\ r # n
  BY <1>1, <1>3
<1>6. RunsSound(m)
  BY <1>4, <1>5 DEF RunsSound
<1>7. \A r : Unended(l, r) => Unended(m, r)
  BY <1>4, <1>5 DEF Unended
<1>8. ev.kind = "run_started" => Unended(m, n)
  <2> SUFFICES ASSUME ev.kind = "run_started", NEW t \in Seqs, m[t].kind = "terminal_result",
                      m[t].run = n
               PROVE  FALSE
    BY <1>1 DEF Unended
  <2> QED
    BY <1>3, <1>4 DEF RunsSound
<1> QED
  BY <1>6, <1>7, <1>8 DEF m

\* The terminal result of a run that has reported suspensions at most.
LEMMA RunsConclude ==
  ASSUME NEW l \in [Seqs -> Event], NEW n \in Seqs, NEW ev \in Event, Empty(l, n),
         ev.kind = "terminal_result", ev.outcome \in Subtypes,
         RunsSound(l), Unended(l, ev.run)
  PROVE  RunsSound(With(l, n, ev))
<1> DEFINE m == With(l, n, ev)
<1>1. /\ m[n] = ev /\ \A s \in Seqs : s # n => m[s] = l[s]
      /\ \A s \in Seqs : l[s].kind # "none" => s < n
  BY WithOK
<1>2. \A s \in Seqs : s \in Int
  BY DEF Seqs
<1>3. l[n].kind = "none"
  BY <1>1, <1>2
<1> HIDE DEF m
<1>4. \A r \in Seqs : l[r].kind = "run_started" => m[r] = l[r] /\ r < n
  BY <1>1, <1>3
<1>5. ASSUME NEW t \in Seqs, m[t].kind = "terminal_result"
      PROVE  /\ m[t].run \in Seqs /\ m[t].run < t /\ m[m[t].run].kind = "run_started"
             /\ m[t].outcome \in Subtypes
  <2>1. CASE t = n
    BY <1>1, <1>4, <2>1 DEF Unended
  <2>2. CASE t # n
    BY <1>1, <1>4, <1>5, <2>2 DEF RunsSound
  <2> QED
    BY <2>1, <2>2
<1>6. ASSUME NEW s \in Seqs, NEW t \in Seqs, m[s].kind = "terminal_result",
             m[t].kind = "terminal_result", m[s].run = m[t].run, s < t
      PROVE  m[s].outcome = "suspended"
  <2>1. t = n \/ (t # n /\ t < n)
    BY <1>1, <1>6
  <2>2. s # n /\ m[s] = l[s]
    BY <1>1, <1>2, <1>6, <2>1
  <2>3. CASE t = n
    BY <1>1, <1>6, <2>2, <2>3 DEF Unended
  <2>4. CASE t # n
    BY <1>1, <1>6, <2>2, <2>4 DEF RunsSound
  <2> QED
    BY <2>3, <2>4
<1> QED
  BY <1>5, <1>6 DEF RunsSound, m

\* The outcome of a run, by its terminal results.
LEMMA OutcomeOK ==
  ASSUME TInv, RunsSound(log), NEW r
  PROVE  /\ Outcome(Logged, r) = "none" <=> Ends(Logged, r) = {}
         /\ \A t \in Ends(Logged, r) :
              (\A s \in Ends(Logged, r) : s <= t) => Outcome(Logged, r) = log[t].outcome
         /\ Outcome(Logged, r) \in {"none", "suspended"} =>
              \A t \in Seqs : log[t].kind = "terminal_result" /\ log[t].run = r
                                => log[t].outcome = "suspended"
<1> DEFINE E == Ends(Logged, r)
<1>1. E \in SUBSET Seqs /\ \A t \in Seqs :
        t \in E <=> log[t].kind = "terminal_result" /\ log[t].run = r
  BY EventFields DEF Ends, Of, Logged
<1>2. CASE E = {}
  BY <1>1, <1>2 DEF Outcome
<1>3. CASE E # {}
  <2> DEFINE m == Max(E)
  <2>1. m \in E /\ \A s \in E : s <= m
    BY <1>1, <1>3, MaxOfSeqs
  <2>2. Outcome(Logged, r) = log[m].outcome
    BY <1>3 DEF Outcome
  <2> HIDE DEF m, E
  <2>3. ASSUME NEW t \in E, \A s \in E : s <= t PROVE t = m
    <3>1. m <= t /\ t <= m
      BY <2>1, <2>3
    <3>2. t \in Int /\ m \in Int
      BY <1>1, <2>1 DEF Seqs
    <3> QED
      BY <3>1, <3>2
  <2>4. Outcome(Logged, r) # "none"
    BY <1>1, <2>1, <2>2 DEF RunsSound, Subtypes
  <2>5. \A t \in E : t # m => log[t].outcome = "suspended"
    <3>1. \A t \in E : t # m => t < m
      BY <1>1, <2>1 DEF Seqs
    <3> QED
      BY <1>1, <2>1, <3>1 DEF RunsSound
  <2>6. \A t \in E : (\A s \in E : s <= t) => Outcome(Logged, r) = log[t].outcome
    BY <2>2, <2>3
  <2>7. ASSUME Outcome(Logged, r) \in {"none", "suspended"}, NEW t \in Seqs,
               log[t].kind = "terminal_result", log[t].run = r
        PROVE  log[t].outcome = "suspended"
    BY <1>1, <2>1, <2>2, <2>4, <2>5, <2>7
  <2> QED
    BY <1>3, <2>4, <2>6, <2>7 DEF E
<1> QED
  BY <1>2, <1>3

\* The steps of other workers are no concern of a worker that is alone.
LEMMA RInvStep ==
  ASSUME SInv, RInv, Base', NEW w \in Workers, Moves(w) PROVE RInv'
<1> SUFFICES ASSUME Alone
             PROVE  RunsSound(log') /\ (InRun(at'[w]) => Unended(log', job'[w].run))
  BY DEF RInv, Alone
<1>0. /\ RunsSound(log) /\ (InRun(at[w]) => Unended(log, job[w].run))
      /\ log \in [Seqs -> Event] /\ TInv /\ job[w] \in Jobs
  BY DEF RInv, SInv, Base, TInv
<1>1. Active(w) => Empty(log, next[w])
  BY DEF SInv, Sound, InFront, Empty
<1>2. CASE Begins(w)
  <2> DEFINE ev == Plain("run_started")
             n == next[w]
  <2>1. ev \in Event /\ ev.kind = "run_started"
    BY EventTypes, EventFields
  <2>2. n \in Seqs /\ Empty(log, n) /\ log' = With(log, n, ev)
    BY <1>1, <1>2 DEF Begins, Adds
  <2> HIDE DEF ev, n
  <2>3. RunsSound(log') /\ Unended(log', n)
    BY <1>0, <2>1, <2>2, RunsStay
  <2> QED
    BY <1>2, <2>3 DEF Begins, n
<1>3. CASE Concludes(w)
  <2> DEFINE ev == Verdict(w)
             n == next[w]
  <2>1. /\ ev \in Event /\ ev.kind = "terminal_result" /\ ev.outcome \in Subtypes
        /\ ev.run = job[w].run
    <3>1. /\ job[w].run \in Seqs \cup {NoRun} /\ job[w].ends \in Subtypes
          /\ job[w].call \in Calls \cup {NoCall}
      BY <1>0 DEF Jobs
    <3>2. ev \in Event
      BY <3>1, EventTypes DEF Verdict
    <3> QED
      BY <3>1, <3>2, EventFields DEF Verdict
  <2>2. n \in Seqs /\ Empty(log, n) /\ log' = With(log, n, ev) /\ Unended(log, ev.run)
    BY <1>0, <1>1, <1>3, <2>1 DEF Concludes, Adds
  <2> HIDE DEF ev, n
  <2>3. RunsSound(log')
    BY <1>0, <2>1, <2>2, RunsConclude
  <2> QED
    BY <1>3, <2>3 DEF Concludes
<1>4. CASE GoesOn(w)
  <2>1. CASE log' = log
    BY <1>0, <1>4, <2>1 DEF GoesOn
  <2>2. CASE \E ev \in Event : ev.kind \in Inner /\ Adds(w, ev)
    <3>1. PICK ev \in Event : ev.kind \in Inner /\ Adds(w, ev)
      BY <2>2
    <3> DEFINE n == next[w]
    <3>2. n \in Seqs /\ Empty(log, n) /\ log' = With(log, n, ev) /\ ev.kind # "terminal_result"
      BY <1>1, <3>1 DEF Adds, Inner
    <3> HIDE DEF n
    <3>3. RunsSound(log') /\ \A r : Unended(log, r) => Unended(log', r)
      BY <1>0, <3>2, RunsStay
    <3> QED
      BY <1>0, <1>4, <3>3 DEF GoesOn
  <2> QED
    BY <1>4, <2>1, <2>2 DEF GoesOn
<1>5. CASE KeepsOut(w)
  BY <1>0, <1>5 DEF KeepsOut
<1>6. CASE TakesUp(w)
  <2> DEFINE r == RunOf(Logged)
  <2>1. r \in Seqs /\ log[r].kind = "run_started"
    BY <1>0, <1>6, ResumedOK DEF TakesUp, Of
  <2>2. \A t \in Seqs : log[t].kind = "terminal_result" /\ log[t].run = r
                          => log[t].outcome = "suspended"
    BY <1>0, <1>6, OutcomeOK DEF TakesUp
  <2>3. Unended(log, r)
    BY <2>1, <2>2 DEF Unended
  <2> QED
    BY <1>0, <1>6, <2>3 DEF TakesUp
<1> QED
  BY <1>2, <1>3, <1>4, <1>5, <1>6 DEF Moves

LEMMA InitRInv == Init => RInv
<1> SUFFICES ASSUME Init PROVE RInv
  OBVIOUS
<1>1. \A s \in Seqs : log[s].kind = "none"
  BY EventFields DEF Init
<1> QED
  BY <1>1 DEF Init, RInv, RunsSound, InRun

-----------------------------------------------------------------------------
(* The ledger.  A keyed call that is being carried out was claimed, and by   *)
(* one worker alone; while it is unclaimed it has had no effect.             *)

Carries(p, j, c) == p \in {"execute", "complete"} /\ c \in Keyed /\ Head(j.todo) = c

LInv ==
  /\ \A c \in Keyed : effects[c] <= 1 /\ (ledger[c] = "absent" => effects[c] = 0)
  /\ \A w \in Workers, c \in Keyed : Carries(at[w], job[w], c) =>
       ledger[c] = "intent" /\ (at[w] = "execute" => effects[c] = 0)
  /\ \A u, w \in Workers, c \in Keyed :
       Carries(at[u], job[u], c) /\ Carries(at[w], job[w], c) => u = w

\* The steps that leave the ledger and the effects alone start no call.
LEMMA LedgerStill ==
  ASSUME TInv, LInv, NEW w \in Workers, UNCHANGED <<ledger, effects>>,
         \A u \in Workers : u # w => at'[u] = at[u] /\ job'[u] = job[u],
         \/ at'[w] \notin {"execute", "complete"}
         \/ at'[w] = "complete" /\ at[w] = "execute" /\ job'[w] = job[w]
  PROVE  LInv'
<1>1. ASSUME NEW u \in Workers, NEW c \in Keyed, Carries(at'[u], job'[u], c)
      PROVE  /\ Carries(at[u], job[u], c)
             /\ at'[u] = "execute" => at[u] = "execute"
  BY <1>1 DEF Carries
<1> QED
  BY <1>1 DEF LInv

LEMMA LookLedger == ASSUME TInv, LInv, NEW w \in Workers, Look(w) PROVE LInv'
<1> DEFINE c == Head(job[w].todo)
<1>0. /\ \A u \in Workers : u # w => at'[u] = at[u] /\ job'[u] = job[u]
      /\ effects' = effects /\ at[w] = "dispatch"
  BY DEF Look, Settle, Goto, TInv, history
<1>1. CASE UNCHANGED ledger /\ at'[w] \notin {"execute", "complete"}
  BY <1>0, <1>1, LedgerStill
<1>2. CASE /\ c \in Keyed => ledger[c] = "absent"
           /\ ledger' = IF c \in Keyed THEN [ledger EXCEPT ![c] = "intent"] ELSE ledger
           /\ at'[w] = "execute" /\ job'[w] = job[w]
  <2>0. Keyed \subseteq Calls /\ DOMAIN ledger = Calls
    BY AgentRunAssumption DEF TInv
  <2> HIDE DEF c
  <2>1. \A d \in Keyed : d # c => ledger'[d] = ledger[d]
    BY <1>2
  <2>2. c \in Keyed => ledger'[c] = "intent" /\ effects[c] = 0
    BY <1>2, <2>0 DEF LInv
  <2>3. \A u \in Workers : ~ (c \in Keyed /\ Carries(at[u], job[u], c))
    BY <1>2 DEF LInv
  <2>4. ASSUME NEW u \in Workers, NEW d \in Keyed, Carries(at'[u], job'[u], d)
        PROVE  \/ u # w /\ d # c /\ Carries(at[u], job[u], d)
               \/ u = w /\ d = c
    BY <1>0, <1>2, <2>3, <2>4 DEF Carries, c
  <2>5. \A d \in Keyed : effects'[d] <= 1 /\ (ledger'[d] = "absent" => effects'[d] = 0)
    BY <1>0, <2>1, <2>2 DEF LInv
  <2>6. \A u \in Workers, d \in Keyed : Carries(at'[u], job'[u], d) =>
          ledger'[d] = "intent" /\ (at'[u] = "execute" => effects'[d] = 0)
    BY <1>0, <2>1, <2>2, <2>4 DEF LInv
  <2>7. \A u, v \in Workers, d \in Keyed :
          Carries(at'[u], job'[u], d) /\ Carries(at'[v], job'[v], d) => u = v
    BY <2>4 DEF LInv
  <2> QED
    BY <2>5, <2>6, <2>7 DEF LInv
<1> QED
  BY <1>1, <1>2 DEF Look, Settle, Goto, TInv

LEMMA ExecuteLedger == ASSUME TInv, LInv, NEW w \in Workers, Execute(w) PROVE LInv'
<1> DEFINE c == Head(job[w].todo)
<1>0. /\ \A u \in Workers : u # w => at'[u] = at[u] /\ job'[u] = job[u]
      /\ at[w] = "execute" /\ at'[w] # "execute"
      /\ at'[w] = "complete" => job'[w] = job[w]
  BY DEF Execute, Settle, Unwind, Goto, TInv
<1>1. /\ effects' = effects \/ effects' = [effects EXCEPT ![c] = @ + 1]
      /\ \/ ledger' = ledger
         \/ /\ ledger' = IF c \in Keyed THEN [ledger EXCEPT ![c] = "absent"] ELSE ledger
            /\ effects' = effects /\ at'[w] # "complete"
  BY DEF Execute, Unwind, Goto, TInv
<1>2. Keyed \subseteq Calls /\ DOMAIN ledger = Calls /\ effects \in [Calls -> Nat]
  BY AgentRunAssumption DEF TInv
<1>3. c \in Keyed => Carries(at[w], job[w], c) /\ ledger[c] = "intent" /\ effects[c] = 0
  BY <1>0 DEF LInv, Carries
<1> HIDE DEF c
<1>4. \A d \in Keyed : d # c => effects'[d] = effects[d] /\ ledger'[d] = ledger[d]
  BY <1>1, <1>2
<1>5. c \in Keyed => /\ effects'[c] \in {0, 1}
                     /\ ledger'[c] = "intent" \/ (ledger'[c] = "absent" /\ effects'[c] = 0
                                                   /\ at'[w] # "complete")
  BY <1>1, <1>2, <1>3
<1>6. ASSUME NEW u \in Workers, NEW d \in Keyed, Carries(at'[u], job'[u], d)
      PROVE  /\ Carries(at[u], job[u], d)
             /\ u # w => d # c
             /\ u = w => d = c /\ at'[u] = "complete"
  <2>1. CASE u = w
    BY <1>0, <1>6, <2>1 DEF Carries, c
  <2>2. CASE u # w
    BY <1>0, <1>3, <1>6, <2>2 DEF LInv
  <2> QED
    BY <2>1, <2>2
<1>7. \A d \in Keyed : effects'[d] <= 1 /\ (ledger'[d] = "absent" => effects'[d] = 0)
  BY <1>4, <1>5 DEF LInv
<1>8. ASSUME NEW u \in Workers, NEW d \in Keyed, Carries(at'[u], job'[u], d)
      PROVE  ledger'[d] = "intent" /\ (at'[u] = "execute" => effects'[d] = 0)
  <2>1. CASE u = w
    BY <1>5, <1>6, <1>8, <2>1
  <2>2. CASE u # w
    BY <1>0, <1>4, <1>6, <1>8, <2>2 DEF LInv
  <2> QED
    BY <2>1, <2>2
<1>9. \A u, v \in Workers, d \in Keyed :
        Carries(at'[u], job'[u], d) /\ Carries(at'[v], job'[v], d) => u = v
  BY <1>6 DEF LInv
<1> QED
  BY <1>7, <1>8, <1>9 DEF LInv

LEMMA CompleteLedger == ASSUME TInv, LInv, NEW w \in Workers, Complete(w) PROVE LInv'
<1> DEFINE c == Head(job[w].todo)
<1>0. /\ \A u \in Workers : u # w => at'[u] = at[u] /\ job'[u] = job[u]
      /\ at[w] = "complete" /\ at'[w] \notin {"execute", "complete"} /\ effects' = effects
      /\ ledger' = IF c \in Keyed THEN [ledger EXCEPT ![c] = "applied"] ELSE ledger
  BY DEF Complete, Settle, Goto, TInv, history
<1>1. Keyed \subseteq Calls /\ DOMAIN ledger = Calls
  BY AgentRunAssumption DEF TInv
<1>2. c \in Keyed => Carries(at[w], job[w], c)
  BY <1>0 DEF Carries
<1> HIDE DEF c
<1>3. \A d \in Keyed : d # c => ledger'[d] = ledger[d]
  BY <1>0
<1>4. c \in Keyed => ledger'[c] = "applied"
  BY <1>0, <1>1
<1>5. ASSUME NEW u \in Workers, NEW d \in Keyed, Carries(at'[u], job'[u], d)
      PROVE  u # w /\ d # c /\ Carries(at[u], job[u], d) /\ at'[u] = at[u]
  BY <1>0, <1>2, <1>5 DEF LInv, Carries
<1> QED
  BY <1>0, <1>3, <1>4, <1>5 DEF LInv

LEMMA LInvStep ==
  ASSUME TInv, LInv, NEW w \in Workers, Query(w) \/ Resume(w) \/ Step(w) \/ Crash(w)
  PROVE  LInv'
<1>1. CASE Query(w) \/ Resume(w) \/ Crash(w) \/ Close(w) \/ Decide(w) \/ Open(w)
  BY <1>1, LedgerStill DEF Query, Resume, Crash, Close, Decide, Open, Rest, Continue,
          Blocked, Goto, TInv, store, history
<1>2. CASE Start(w) \/ User(w) \/ Checkpoint(w) \/ Stop(w) \/ ModelFails(w)
  <2>1. Checkpoint(w) => job[w].then \in {"top", "called", "terminal"}
    BY DEF TInv, FitFor, Checkpoint
  <2> QED
    BY <1>2, <2>1, LedgerStill DEF Start, User, Checkpoint, Stop, ModelFails, Rest, End,
            CheckpointThen, Goto, TInv, store, history
<1>3. CASE Interrupted(w) \/ Model(w) \/ AppendAssistant(w) \/ Called(w)
  BY <1>3, LedgerStill DEF Interrupted, Model, AppendAssistant, Called, AppendInLoop, End,
          CheckpointThen, Goto, TInv, store, history
<1>4. CASE Results(w) \/ Suspend(w) \/ Finish(w)
  BY <1>4, LedgerStill DEF Results, Suspend, Finish, AppendInLoop, End, Rest,
          CheckpointThen, Goto, TInv, store, history
<1> QED
  BY <1>1, <1>2, <1>3, <1>4, LookLedger, ExecuteLedger, CompleteLedger DEF Step

LEMMA InitLInv == Init => LInv
  BY AgentRunAssumption DEF Init, LInv, Carries

FInv == SInv /\ RInv /\ LInv

LEMMA InitFInv == Init => FInv
  BY InitSound, InitRInv, InitLInv DEF FInv

LEMMA NextFInv == FInv /\ [Next]_vars => FInv'
<1> SUFFICES ASSUME FInv, [Next]_vars PROVE FInv'
  OBVIOUS
<1>1. SInv' /\ Base' /\ SInv /\ TInv /\ HasRun
  BY NextSound DEF FInv, SInv, Base
<1>2. CASE UNCHANGED vars
  BY <1>1, <1>2 DEF vars, store, worker, history, FInv, RInv, LInv
<1>3. CASE Next
  <2>1. PICK w \in Workers : Query(w) \/ Resume(w) \/ Step(w) \/ Crash(w)
    BY <1>3 DEF Next
  <2>2. Moves(w)
    BY <1>1, <2>1, RunMoves
  <2> QED
    BY <1>1, <2>1, <2>2, RInvStep, LInvStep DEF FInv
<1> QED
  BY <1>2, <1>3

\* A keyed call has at most one effect, for any number of workers that drive the
\* session at once, and any crashes, resumes and refused appends: the ledger's claim
\* is what lets one of them act.
ActsOnce == \A c \in Keyed : effects[c] <= 1
THEOREM KeyedCallsActOnce == Spec => []ActsOnce
<1>1. FInv => ActsOnce
  BY DEF FInv, LInv, ActsOnce
<1> QED
  BY InitFInv, NextFInv, <1>1, PTL DEF Spec

-----------------------------------------------------------------------------
(* The runs and the keyed calls of the session behave as DurableRun promises. *)

Reports == [r \in Of(Logged, "run_started") |-> Observed(r)]
Acts == [c \in Keyed |-> effects[c]]

\* The greatest element of a set of seqs, where it is known.
LEMMA MaxIs ==
  ASSUME NEW S \in SUBSET Seqs, NEW n \in S, \A s \in S : s <= n
  PROVE  Max(S) = n
<1>1. Max(S) \in S /\ \A s \in S : s <= Max(S)
  BY MaxOfSeqs
<1>2. n \in Seqs /\ Max(S) \in Seqs
  BY <1>1
<1>3. n \in Int /\ Max(S) \in Int
  BY <1>2, AgentRunAssumption DEF Seqs
<1> QED
  BY <1>1, <1>3

\* What has begun, and what is reported, by the log.
LEMMA ReportsOK ==
  /\ DOMAIN Reports = Of(Logged, "run_started")
  /\ \A r : r \in Of(Logged, "run_started") <=> r \in Seqs /\ log[r].kind = "run_started"
  /\ \A r \in DOMAIN Reports : Reports[r] = Observed(r)
  /\ \A r, t : t \in Ends(Logged, r) <=>
                 t \in Seqs /\ log[t].kind = "terminal_result" /\ log[t].run = r
  BY EventFields DEF Reports, Of, Logged, Ends

LEMMA ReportsOKNext ==
  /\ DOMAIN Reports' = Of(Logged, "run_started")'
  /\ Reports' = [r \in Of(Logged, "run_started")' |-> Observed(r)']
  /\ \A r : r \in Of(Logged, "run_started")' <=> r \in Seqs /\ log'[r].kind = "run_started"
  /\ \A r, t : t \in Ends(Logged, r)' <=>
                 t \in Seqs /\ log'[t].kind = "terminal_result" /\ log'[t].run = r
  BY EventFields DEF Reports, Of, Logged, Ends

\* A run whose terminal results stay is reported as before.
LEMMA ObservedStays ==
  ASSUME NEW r, \A t : t \in Ends(Logged, r)' <=> t \in Ends(Logged, r),
         \A t \in Ends(Logged, r) : log'[t] = log[t]
  PROVE  Observed(r)' = Observed(r)
<1> DEFINE E == Ends(Logged, r)
           D == Ends(Logged, r)'
<1>1. D = E
  OBVIOUS
<1>2. E \in SUBSET Seqs
  BY DEF Ends, Of, Logged
<1>3. CASE E = {}
  BY <1>1, <1>3 DEF Observed
<1>4. CASE E # {}
  <2>1. Max(E) \in E
    BY <1>2, <1>4, MaxOfSeqs
  <2>2. Observed(r) = log[Max(E)].outcome
    BY <1>4 DEF Observed, Outcome
  <2>3. Observed(r)' = log'[Max(D)].outcome
    BY <1>1, <1>4 DEF Observed, Outcome
  <2> QED
    BY <1>1, <2>1, <2>2, <2>3
<1> QED
  BY <1>3, <1>4

\* An event of a run that goes on changes no report; a run begins unreported.
LEMMA OtherEvents ==
  ASSUME TInv, RunsSound(log), NEW n \in Seqs, NEW ev \in Event, Empty(log, n),
         log' = With(log, n, ev), ev.kind # "terminal_result"
  PROVE  /\ ev.kind # "run_started" => Reports' = Reports
         /\ ev.kind = "run_started" =>
              /\ n \in Seqs \ DOMAIN Reports
              /\ Reports' = [x \in DOMAIN Reports \cup {n} |->
                               IF x = n THEN "open" ELSE Reports[x]]
<1>1. /\ log'[n] = ev /\ \A s \in Seqs : s # n => log'[s] = log[s]
      /\ \A s \in Seqs : log[s].kind # "none" => s < n
  BY WithOK DEF TInv
<1>2. n \in Int /\ ~ (n < n)
  BY DEF Seqs
<1>3. log[n].kind = "none"
  BY <1>1, <1>2
<1>4. \A r, t : t \in Ends(Logged, r)' <=> t \in Ends(Logged, r)
  BY <1>1, <1>3, ReportsOK, ReportsOKNext
<1>5. \A r : \A t \in Ends(Logged, r) : log'[t] = log[t]
  BY <1>1, <1>3, ReportsOK
<1>6. \A r : Observed(r)' = Observed(r)
  BY <1>4, <1>5, ObservedStays
<1>7. CASE ev.kind # "run_started"
  <2>1. Of(Logged, "run_started")' = Of(Logged, "run_started")
    <3>1. \A r : r \in Of(Logged, "run_started")' <=> r \in Of(Logged, "run_started")
      BY <1>1, <1>3, <1>7, ReportsOK, ReportsOKNext
    <3> QED
      BY <3>1
  <2>2. Reports' = [r \in Of(Logged, "run_started") |-> Observed(r)]
    BY <1>6, <2>1, ReportsOKNext
  <2> QED
    BY <1>7, <2>2 DEF Reports
<1>8. CASE ev.kind = "run_started"
  <2>1. Of(Logged, "run_started")' = Of(Logged, "run_started") \cup {n}
    <3>1. \A r : r \in Of(Logged, "run_started")' <=> r \in Of(Logged, "run_started") \cup {n}
      BY <1>1, <1>3, <1>8, ReportsOK, ReportsOKNext
    <3> QED
      BY <3>1
  <2>2. n \notin DOMAIN Reports
    BY <1>3, ReportsOK
  <2>3. Observed(n) = "open"
    <3>1. \A t : t \notin Ends(Logged, n)
      BY <1>3, ReportsOK DEF RunsSound
    <3> QED
      BY <3>1 DEF Observed
  <2>4. Reports' = [x \in DOMAIN Reports \cup {n} |->
                      IF x = n THEN "open" ELSE Reports[x]]
    <3>1. Reports' = [x \in DOMAIN Reports \cup {n} |-> Observed(x)]
      BY <1>6, <2>1, ReportsOK, ReportsOKNext
    <3>2. \A x \in DOMAIN Reports \cup {n} :
            Observed(x) = IF x = n THEN "open" ELSE Reports[x]
      BY <2>3, ReportsOK
    <3> QED
      BY <3>1, <3>2
  <2> QED
    BY <1>8, <2>2, <2>4
<1> QED
  BY <1>7, <1>8

\* A terminal result is what its run is then reported with.
LEMMA TerminalEvents ==
  ASSUME TInv, RunsSound(log), NEW n \in Seqs, NEW ev \in Event, Empty(log, n),
         log' = With(log, n, ev), ev.kind = "terminal_result", Unended(log, ev.run)
  PROVE  /\ ev.run \in DOMAIN Reports
         /\ Reports[ev.run] \in {"open", "suspended"}
         /\ Reports' = [Reports EXCEPT ![ev.run] = ev.outcome]
<1> DEFINE r == ev.run
<1>1. /\ log'[n] = ev /\ \A s \in Seqs : s # n => log'[s] = log[s]
      /\ \A s \in Seqs : log[s].kind # "none" => s < n
  BY WithOK DEF TInv
<1>2. n \in Int /\ ~ (n < n)
  BY DEF Seqs
<1>3. log[n].kind = "none"
  BY <1>1, <1>2
<1>4. r \in DOMAIN Reports
  BY ReportsOK DEF Unended
<1>5. Observed(r) \in {"open", "suspended"}
  <2> DEFINE E == Ends(Logged, r)
  <2>1. CASE E = {}
    BY <2>1 DEF Observed
  <2>2. CASE E # {}
    <3>1. E \in SUBSET Seqs
      BY DEF Ends, Of, Logged
    <3>2. Max(E) \in E
      BY <2>2, <3>1, MaxOfSeqs
    <3>3. Observed(r) = log[Max(E)].outcome
      BY <2>2 DEF Observed, Outcome
    <3> QED
      BY <3>2, <3>3, ReportsOK DEF Unended
  <2> QED
    BY <2>1, <2>2
<1>6. Of(Logged, "run_started")' = DOMAIN Reports
  <2>1. \A x : x \in Of(Logged, "run_started")' <=> x \in Of(Logged, "run_started")
    BY <1>1, <1>3, ReportsOK, ReportsOKNext
  <2> QED
    BY <2>1, ReportsOK
<1>7. ASSUME NEW x, x # r PROVE Observed(x)' = Observed(x)
  <2>1. \A t : t \in Ends(Logged, x)' <=> t \in Ends(Logged, x)
    BY <1>1, <1>3, <1>7, ReportsOK, ReportsOKNext
  <2>2. \A t \in Ends(Logged, x) : log'[t] = log[t]
    BY <1>1, <1>3, ReportsOK
  <2> QED
    BY <2>1, <2>2, ObservedStays
<1>8. Observed(r)' = ev.outcome
  <2> DEFINE D == Ends(Logged, r)'
  <2>1. \A t : t \in D <=> t \in Ends(Logged, r) \/ t = n
    BY <1>1, <1>3, ReportsOK, ReportsOKNext
  <2>2. D \in SUBSET Seqs /\ n \in D
    BY <2>1, ReportsOK
  <2>3. \A t \in D : t <= n
    BY <1>1, <1>2, <2>1, ReportsOK DEF Seqs
  <2>4. Max(D) = n
    BY <2>2, <2>3, MaxIs
  <2>5. Observed(r)' = log'[Max(D)].outcome
    BY <2>2 DEF Observed, Outcome
  <2> QED
    BY <1>1, <2>4, <2>5
<1> HIDE DEF r
<1>9. Reports' = [Reports EXCEPT ![r] = ev.outcome]
  <2>1. Reports' = [x \in DOMAIN Reports |-> Observed(x)']
    BY <1>6, ReportsOKNext
  <2>2. \A x \in DOMAIN Reports : Observed(x)' = IF x = r THEN ev.outcome ELSE Reports[x]
    BY <1>7, <1>8, ReportsOK
  <2>3. Reports' = [x \in DOMAIN Reports |-> IF x = r THEN ev.outcome ELSE Reports[x]]
    BY <2>1, <2>2
  <2> QED
    BY <2>3 DEF Reports
<1> QED
  BY <1>4, <1>5, <1>9, ReportsOK DEF r

\* What the abstract specification sees of a step of a worker that is alone: a run
\* begins, is reported once more, or nothing is heard of it.
LEMMA MovesPromised ==
  ASSUME Alone, FInv, NEW w \in Workers, Moves(w)
  PROVE  \/ Reports' = Reports
         \/ \E n \in Seqs \ DOMAIN Reports :
              Reports' = [x \in DOMAIN Reports \cup {n} |->
                            IF x = n THEN "open" ELSE Reports[x]]
         \/ \E r \in DOMAIN Reports, o \in Subtypes :
              /\ Reports[r] \in {"open", "suspended"}
              /\ Reports' = [Reports EXCEPT ![r] = o]
<1>0. /\ RunsSound(log) /\ (InRun(at[w]) => Unended(log, job[w].run))
      /\ TInv /\ job[w] \in Jobs
  BY DEF FInv, RInv, SInv, Base, TInv
<1>1. Active(w) => Empty(log, next[w])
  BY DEF FInv, SInv, Sound, InFront, Empty
<1>2. log' = log => Reports' = Reports
  BY DEF Reports, Of, Logged, Observed, Outcome, Ends
<1>3. ASSUME NEW ev \in Event, Adds(w, ev), ev.kind # "terminal_result"
      PROVE  /\ ev.kind # "run_started" => Reports' = Reports
             /\ ev.kind = "run_started" =>
                  /\ next[w] \in Seqs \ DOMAIN Reports
                  /\ Reports' = [x \in DOMAIN Reports \cup {next[w]} |->
                                   IF x = next[w] THEN "open" ELSE Reports[x]]
  <2>1. /\ next[w] \in Seqs /\ Empty(log, next[w])
        /\ log' = With(log, next[w], ev)
    BY <1>1, <1>3 DEF Adds
  <2> QED
    BY <1>0, <1>3, <2>1, OtherEvents
<1>4. CASE Begins(w)
  <2>1. Plain("run_started") \in Event /\ Plain("run_started").kind = "run_started"
    BY EventTypes, EventFields
  <2> QED
    BY <1>3, <1>4, <2>1 DEF Begins
<1>5. CASE Concludes(w)
  <2> DEFINE ev == Verdict(w)
  <2>1. /\ ev \in Event /\ ev.kind = "terminal_result" /\ ev.outcome \in Subtypes
        /\ ev.run = job[w].run
    <3>1. /\ job[w].run \in Seqs \cup {NoRun} /\ job[w].ends \in Subtypes
          /\ job[w].call \in Calls \cup {NoCall}
      BY <1>0 DEF Jobs
    <3>2. ev \in Event
      BY <3>1, EventTypes DEF Verdict
    <3> QED
      BY <3>1, <3>2, EventFields DEF Verdict
  <2>2. /\ next[w] \in Seqs /\ Empty(log, next[w])
        /\ log' = With(log, next[w], ev) /\ Unended(log, ev.run)
    BY <1>0, <1>1, <1>5, <2>1 DEF Concludes, Adds
  <2> HIDE DEF ev
  <2>3. /\ ev.run \in DOMAIN Reports
        /\ Reports[ev.run] \in {"open", "suspended"}
        /\ Reports' = [Reports EXCEPT ![ev.run] = ev.outcome]
    BY <1>0, <2>1, <2>2, TerminalEvents
  <2> QED
    BY <2>1, <2>3
<1>6. CASE GoesOn(w)
  BY <1>2, <1>3, <1>6 DEF GoesOn, Inner
<1> QED
  BY <1>2, <1>4, <1>5, <1>6 DEF Moves, KeepsOut, TakesUp

\* A keyed call that acts does so for the first time, in a run that is not over.
LEMMA ActsPromised ==
  ASSUME Alone, FInv, NEW w \in Workers, Query(w) \/ Resume(w) \/ Step(w) \/ Crash(w)
  PROVE  \/ Acts' = Acts
         \/ \E c \in Keyed : /\ \E r \in DOMAIN Reports : Reports[r] \in {"open", "suspended"}
                             /\ Acts[c] = 0 /\ Acts' = [Acts EXCEPT ![c] = 1]
                             /\ Reports' = Reports
<1>0. TInv /\ LInv
  BY DEF FInv, SInv, Base
<1>1. CASE effects' = effects
  BY <1>1 DEF Acts
<1>2. CASE Execute(w) /\ effects' = [effects EXCEPT ![Head(job[w].todo)] = @ + 1]
  <2> DEFINE c == Head(job[w].todo)
  <2>1. CASE c \notin Keyed
    <3>1. \A d \in Keyed : effects'[d] = effects[d]
      BY <1>0, <1>2, <2>1, AgentRunAssumption DEF TInv
    <3> QED
      BY <3>1 DEF Acts
  <2>2. CASE c \in Keyed
    <3>1. effects[c] = 0
      BY <1>0, <1>2, <2>2 DEF LInv, Carries, Execute
    <3>2. Acts[c] = 0
      BY <2>2, <3>1 DEF Acts
    <3>3. Acts' = [Acts EXCEPT ![c] = 1]
      <4>1. \A d \in Keyed : effects'[d] = IF d = c THEN 1 ELSE effects[d]
        BY <1>0, <1>2, <2>2, <3>1, AgentRunAssumption DEF TInv
      <4> HIDE DEF c
      <4> QED
        BY <4>1 DEF Acts
    <3>4. log' = log
      BY <1>2 DEF Execute
    <3>5. Reports' = Reports
      BY <3>4 DEF Reports, Of, Logged, Observed, Outcome, Ends
    <3>6. RunsSound(log) /\ Unended(log, job[w].run)
      BY <1>2 DEF FInv, RInv, Execute, InRun
    <3> DEFINE r == job[w].run
               E == Ends(Logged, r)
    <3>7. r \in DOMAIN Reports /\ Reports[r] = Observed(r)
      BY <3>6, ReportsOK DEF Unended
    <3>8. Observed(r) \in {"open", "suspended"}
      <4>1. CASE E = {}
        BY <4>1 DEF Observed
      <4>2. CASE E # {}
        <5>1. E \in SUBSET Seqs
          BY DEF Ends, Of, Logged
        <5>2. Max(E) \in E
          BY <4>2, <5>1, MaxOfSeqs
        <5>3. Observed(r) = log[Max(E)].outcome
          BY <4>2 DEF Observed, Outcome
        <5> QED
          BY <3>6, <5>2, <5>3, ReportsOK DEF Unended
      <4> QED
        BY <4>1, <4>2
    <3> HIDE DEF c, r
    <3> QED
      BY <2>2, <3>2, <3>3, <3>5, <3>7, <3>8
  <2> QED
    BY <2>1, <2>2
<1>3. effects' = effects \/ (Execute(w) /\ effects' = [effects EXCEPT ![Head(job[w].todo)] = @ + 1])
  BY DEF Query, Resume, Step, Crash, Start, User, Checkpoint, Stop, ModelFails, Interrupted,
         Model, AppendAssistant, Called, Look, Execute, Complete, Results, Suspend, Finish,
         Close, Decide, Open, history, store
<1> QED
  BY <1>1, <1>2, <1>3

\* With a single worker the durable run implements DurableRun: the runs and the keyed
\* calls of the session behave as Agent.query and Agent.resume promise, whatever
\* crashes, is refused or is resumed.
THEOREM AlonePromiseKept == ASSUME Alone PROVE Spec => KeepsPromise
<1>1. Init => Promise!Init
  <2> SUFFICES ASSUME Init PROVE Promise!Init
    OBVIOUS
  <2>1. \A s \in Seqs : log[s] = NoEvent
    BY DEF Init
  <2>2. Of(Logged, "run_started") = {}
    BY <2>1 DEF Of, Logged
  <2>3. Acts = [c \in Keyed |-> 0]
    BY AgentRunAssumption DEF Init, Acts
  <2>4. Reports = << >>
    BY <2>2 DEF Reports
  <2> QED
    BY <2>3, <2>4 DEF Promise!Init, Reports, Acts
<1>2. FInv /\ [Next]_vars => [Promise!Next]_<<Reports, Acts>>
  <2> SUFFICES ASSUME FInv, [Next]_vars, ~ (UNCHANGED <<Reports, Acts>>) PROVE Promise!Next
    OBVIOUS
  <2>1. CASE UNCHANGED vars
    BY <2>1 DEF vars, store, history, Reports, Acts, Of, Logged, Observed, Outcome, Ends
  <2>2. CASE Next
    <3>1. PICK w \in Workers : Query(w) \/ Resume(w) \/ Step(w) \/ Crash(w)
      BY <2>2 DEF Next
    <3>2. Moves(w)
      BY <3>1, RunMoves DEF FInv, SInv, Base
    <3>3. CASE Reports' = Reports
      <4>1. PICK c \in Keyed : /\ \E r \in DOMAIN Reports : Reports[r] \in {"open", "suspended"}
                              /\ Acts[c] = 0 /\ Acts' = [Acts EXCEPT ![c] = 1]
        BY <3>1, <3>3, ActsPromised
      <4>2. Promise!Act(c)
        BY <3>3, <4>1 DEF Promise!Act, Promise!Unfinished, Reports, Acts
      <4> QED
        BY <3>3, <4>2 DEF Promise!Next, Reports, Acts
    <3>4. CASE Reports' # Reports
      <4>0. Acts' = Acts
        BY <3>1, <3>4, ActsPromised
      <4>1. CASE \E n \in Seqs \ DOMAIN Reports :
                   Reports' = [x \in DOMAIN Reports \cup {n} |->
                                 IF x = n THEN "open" ELSE Reports[x]]
        <5>1. \E n \in Seqs \ DOMAIN Reports : Promise!Begin(n)
          BY <4>0, <4>1 DEF Promise!Begin, Reports, Acts
        <5> QED
          BY <3>4, <5>1 DEF Promise!Next, Reports, Acts
      <4>2. CASE \E r \in DOMAIN Reports, o \in Subtypes :
                   /\ Reports[r] \in {"open", "suspended"}
                   /\ Reports' = [Reports EXCEPT ![r] = o]
        <5>1. \E r \in DOMAIN Reports, o \in Subtypes : Promise!Report(r, o)
          BY <4>0, <4>2 DEF Promise!Report, Promise!Unfinished, Reports, Acts
        <5>2. Subtypes \subseteq (Subtypes \ {"suspended"}) \cup {"suspended"}
          OBVIOUS
        <5> QED
          BY <3>4, <5>1, <5>2 DEF Promise!Next, Reports, Acts
      <4> QED
        BY <3>2, <3>4, <4>1, <4>2, MovesPromised
    <3> QED
      BY <3>3, <3>4
  <2> QED
    BY <2>1, <2>2
<1> QED
  BY <1>1, <1>2, InitFInv, NextFInv, PTL DEF Spec, KeepsPromise, Promise!Spec, Reports, Acts

-----------------------------------------------------------------------------
(* The checkpoints.  While the session has one run and one worker, what the  *)
(* worker has read and folded is the whole log, until an append of it is     *)
(* refused or its run is over; and so is what a checkpoint holds, up to its  *)
(* seq.                                                                      *)

OneRun == \A r, s \in Seqs : log[r].kind = "run_started" /\ log[s].kind = "run_started" => r = s
\* The run has reported an outcome that no resume goes on from.
Final == \E t \in Seqs : log[t].kind = "terminal_result" /\ log[t].outcome # "suspended"

Filed ==
  /\ checkpoint.seq = 0 \/ checkpoint.seq - 1 \in Logged
  /\ Final \/ checkpoint.hash = {s \in Logged : s < checkpoint.seq}

Viewed(w) ==
  /\ Following(w) => seen[w] = Logged
  /\ Following(w) /\ at[w] # "start" => hash[w] = Logged /\ next[w] - 1 \in Logged
  /\ at[w] = "terminal" /\ job[w].ends = "suspended" => seen[w] = Logged
  /\ at[w] = "closing" => next[w] - 1 \in Logged /\ (Final \/ seen[w] = Logged)

VInv == Alone /\ OneRun => Filed /\ \A w \in Workers : Viewed(w)

\* What an event that is added changes.
LEMMA TakenMore ==
  ASSUME TInv, NEW n \in Seqs, Empty(log, n), NEW ev \in Event, ev.kind # "none",
         log' = With(log, n, ev)
  PROVE  /\ Logged' = Logged \cup {n} /\ n \notin Logged /\ \A s \in Logged : s < n
         /\ Final => Final'
         /\ OneRun' => OneRun
         /\ OneRun' /\ ev.kind = "run_started" => ~ Begun
         /\ ev.kind = "terminal_result" /\ ev.outcome # "suspended" => Final'
<1>1. /\ log'[n] = ev /\ \A s \in Seqs : s # n => log'[s] = log[s]
      /\ \A s \in Seqs : log[s].kind # "none" => s < n
  BY WithOK DEF TInv
<1>2. n \in Int /\ ~ (n < n)
  BY DEF Seqs
<1>3. ev # NoEvent /\ log[n].kind = "none"
  BY <1>1, <1>2, EventFields
<1>4. \A s \in Logged : s < n
  BY DEF Empty, Logged
<1>5. Logged' = Logged \cup {n}
  BY <1>1, <1>3 DEF Logged
<1> QED
  BY <1>1, <1>2, <1>3, <1>4, <1>5 DEF Final, OneRun, Begun

LEMMA TakenSame ==
  ASSUME log' = log
  PROVE  Logged' = Logged /\ (Final' <=> Final) /\ (OneRun' <=> OneRun)
  BY DEF Logged, Final, OneRun

\* A checkpoint stays good, whatever is added behind it.
LEMMA FiledStays ==
  ASSUME TInv, Filed, checkpoint' = checkpoint, NEW n \in Seqs,
         Logged' = Logged \/ Logged' = Logged \cup {n}, \A s \in Logged : s < n,
         Final => Final'
  PROVE  Filed'
<1>1. checkpoint.seq \in Int /\ n \in Int /\ 0 <= n /\ \A s \in Logged : s \in Int
  BY AgentRunAssumption DEF TInv, Seqs, Logged
<1>2. ~ (n < checkpoint.seq) \/ n < checkpoint.seq - 1 + 1
  BY <1>1
<1>3. checkpoint.seq <= n
  BY <1>1 DEF Filed
<1>4. {s \in Logged' : s < checkpoint.seq} = {s \in Logged : s < checkpoint.seq}
  BY <1>1, <1>3
<1> QED
  BY <1>4 DEF Filed

LEMMA FiledSame ==
  ASSUME Filed, checkpoint' = checkpoint, log' = log PROVE Filed'
  BY TakenSame DEF Filed

\* A checkpoint is written with all that is in the log.
LEMMA FiledAnew ==
  ASSUME TInv, Filed, log' = log, NEW w \in Workers, NEW h,
         next[w] - 1 \in Logged, \A s \in Logged : s < next[w], Final \/ h = Logged,
         PutCheckpoint(next[w], h)
  PROVE  Filed'
<1>1. Logged' = Logged /\ (Final' <=> Final)
  BY TakenSame
<1>2. CASE checkpoint' = checkpoint
  BY <1>2, FiledSame
<1>3. CASE checkpoint' = [seq |-> next[w], hash |-> h]
  <2>1. checkpoint'.seq = next[w] /\ checkpoint'.hash = h
    BY <1>3
  <2>2. Logged = {s \in Logged : s < next[w]}
    OBVIOUS
  <2> QED
    BY <1>1, <2>1, <2>2 DEF Filed
<1> QED
  BY <1>2, <1>3 DEF PutCheckpoint

\* A worker that has read all that is in the log, and folded it.
Knows(w) == seen[w] = Logged /\ hash[w] = Logged /\ next[w] - 1 \in Logged

LEMMA KnowsAll ==
  ASSUME NEW w \in Workers, Viewed(w)
  PROVE  Following(w) /\ at[w] # "start" => Knows(w)
  BY DEF Viewed, Knows

LEMMA ViewOf ==
  ASSUME NEW w \in Workers, Knows(w)', at'[w] # "closing" PROVE Viewed(w)'
  BY DEF Viewed, Knows

\* Nothing is asked of a worker that rests, or whose run ends otherwise.
LEMMA ViewOver ==
  ASSUME NEW w \in Workers,
         \/ at'[w] \in {"idle", "decide", "open"}
         \/ at'[w] = "terminal" /\ job'[w].ends # "suspended"
  PROVE  Viewed(w)'
  BY DEF Viewed, Following, Active

\* A step of a worker that adds nothing and forgets nothing.
LEMMA ViewQuiet ==
  ASSUME NEW w \in Workers, Filed, Viewed(w), Following(w), at[w] # "start",
         UNCHANGED <<log, checkpoint, seen, next, hash>>, at'[w] # "closing"
  PROVE  Filed' /\ Viewed(w)'
<1>1. Knows(w)
  BY KnowsAll
<1>2. Knows(w)'
  BY <1>1, TakenSame DEF Knows
<1> QED
  BY <1>2, ViewOf, FiledSame

\* An append of a worker, folded into its hash.
LEMMA ViewPlace ==
  ASSUME TInv, NEW w \in Workers, Filed, seen[w] = Logged, Empty(log, next[w]),
         NEW ev \in Event, ev.kind # "none", Place(w, ev), checkpoint' = checkpoint
  PROVE  /\ Filed' /\ seen'[w] = Logged' /\ next'[w] - 1 \in Logged'
         /\ hash[w] = Logged /\ Fold(w) => Knows(w)'
<1> DEFINE n == next[w]
<1>1. n \in Seqs /\ log' = With(log, n, ev)
  BY DEF Place, With
<1>2. /\ Logged' = Logged \cup {n} /\ \A s \in Logged : s < n
      /\ Final => Final'
  BY <1>1, TakenMore
<1>3. Filed'
  BY <1>1, <1>2, FiledStays
<1>4. seen'[w] = Logged' /\ next'[w] = n + 1
  BY <1>2 DEF Place, TInv
<1>5. next'[w] - 1 = n
  BY <1>1, <1>4 DEF Seqs
<1>6. ASSUME hash[w] = Logged, Fold(w) PROVE hash'[w] = Logged'
  BY <1>2, <1>6 DEF Fold, TInv
<1> QED
  BY <1>2, <1>3, <1>4, <1>5, <1>6 DEF Knows

\* An append that is refused may be in the log all the same.
LEMMA ViewRefused ==
  ASSUME TInv, NEW w \in Workers, Filed, Empty(log, next[w]),
         NEW ev \in Event, ev.kind # "none", Refused(w, ev), checkpoint' = checkpoint
  PROVE  Filed'
<1> DEFINE n == next[w]
<1>1. n \in Seqs /\ (log' = log \/ log' = With(log, n, ev))
  BY DEF Refused, With
<1>2. CASE log' = log
  BY <1>2, FiledSame
<1>3. CASE log' = With(log, n, ev)
  <2>1. /\ Logged' = Logged \cup {n} /\ \A s \in Logged : s < n
        /\ Final => Final'
    BY <1>1, <1>3, TakenMore
  <2> QED
    BY <1>1, <2>1, FiledStays
<1> QED
  BY <1>1, <1>2, <1>3

LEMMA ViewLoop ==
  ASSUME TInv, NEW w \in Workers, Filed, Viewed(w), Following(w), at[w] # "start",
         Empty(log, next[w]), NEW ev \in Event, ev.kind # "none", checkpoint' = checkpoint,
         NEW p, NEW j, p # "closing", AppendInLoop(w, ev, Goto(w, p, j))
  PROVE  Filed' /\ Viewed(w)'
<1>1. Knows(w)
  BY KnowsAll
<1>2. CASE Place(w, ev) /\ Fold(w) /\ Goto(w, p, j)
  <2>1. Filed' /\ Knows(w)'
    BY <1>1, <1>2, ViewPlace DEF Knows
  <2>2. at'[w] # "closing"
    BY <1>2 DEF Goto, TInv
  <2> QED
    BY <2>1, <2>2, ViewOf
<1>3. CASE Refused(w, ev) /\ End(w, "error")
  <2>1. Filed'
    BY <1>3, ViewRefused
  <2>2. at'[w] = "terminal" /\ job'[w] = Ended(job[w], "error") /\ job[w] \in Jobs
    BY <1>3 DEF End, Goto, Ended, TInv
  <2>3. job'[w].ends = "error"
    BY <2>2, EndedOK DEF Subtypes
  <2> QED
    BY <2>1, <2>2, <2>3, ViewOver
<1> QED
  BY <1>2, <1>3 DEF AppendInLoop

\* What VInv gives a step of a worker that is alone, with one run in the log.
Ready(w) == FInv /\ Alone /\ OneRun /\ Filed /\ Viewed(w)

LEMMA ReadyOK ==
  ASSUME NEW w \in Workers, Ready(w)
  PROVE  /\ TInv /\ HasRun /\ job[w] \in Jobs /\ FitFor(at[w], job[w])
         /\ Active(w) => Empty(log, next[w]) /\ \A s \in Logged : s < next[w]
         /\ RunsSound(log) /\ (InRun(at[w]) => Unended(log, job[w].run))
<1>1. SInv /\ TInv /\ HasRun /\ RInv
  BY DEF Ready, FInv, SInv, Base
<1>2. Active(w) => Empty(log, next[w])
  BY <1>1 DEF Ready, SInv, Sound, InFront, Empty
<1>3. Active(w) => \A s \in Logged : s < next[w]
  BY <1>2 DEF Empty, Logged
<1> QED
  BY <1>1, <1>2, <1>3 DEF Ready, RInv, TInv

LEMMA QuietViewed ==
  ASSUME NEW w \in Workers, Ready(w),
         Stop(w) \/ ModelFails(w) \/ Model(w) \/ Called(w) \/ Look(w) \/ Execute(w)
           \/ Complete(w)
  PROVE  Filed' /\ Viewed(w)'
<1>1. /\ UNCHANGED <<log, checkpoint, seen, next, hash>> /\ TInv
      /\ Following(w) /\ at[w] # "start"
  BY ReadyOK DEF Stop, ModelFails, Model, Called, Look, Execute, Complete, store, Following, Active
<1>2. at'[w] # "closing"
  BY <1>1 DEF Stop, ModelFails, Model, Called, Look, Execute, Complete, Settle, Unwind,
              CheckpointThen, End, Goto, TInv
<1> QED
  BY <1>1, <1>2, ViewQuiet DEF Ready

LEMMA CheckpointViewed ==
  ASSUME NEW w \in Workers, Ready(w), Checkpoint(w) PROVE Filed' /\ Viewed(w)'
<1>1. /\ TInv /\ at[w] = "checkpoint" /\ job[w].then \in {"top", "called", "terminal"}
      /\ \A s \in Logged : s < next[w]
  BY ReadyOK DEF Checkpoint, FitFor, Active
<1>2. Following(w) /\ Knows(w)
  BY <1>1, KnowsAll DEF Ready, Following, Active
<1>3. Filed'
  BY <1>1, <1>2, FiledAnew DEF Ready, Checkpoint, Knows
<1>4. at'[w] # "closing"
  BY <1>1 DEF Checkpoint, Goto, TInv
<1>5. Knows(w)'
  BY <1>2, TakenSame DEF Checkpoint, Knows
<1> QED
  BY <1>3, <1>4, <1>5, ViewOf

LEMMA StartViewed ==
  ASSUME NEW w \in Workers, Ready(w), OneRun', Start(w) PROVE Filed' /\ Viewed(w)'
<1> DEFINE ev == Plain("run_started")
           n == next[w]
<1>1. /\ ev \in Event /\ ev.kind = "run_started" /\ ev.kind # "none"
      /\ TInv /\ HasRun /\ Empty(log, n) /\ seen[w] = Logged
  BY EventTypes, EventFields, ReadyOK DEF Start, Ready, Viewed, Following, Active
<1>2. CASE Place(w, ev) /\ at' = [at EXCEPT ![w] = "user"] /\ hash' = [hash EXCEPT ![w] = {n}]
  <2>1. Filed' /\ seen'[w] = Logged' /\ next'[w] - 1 \in Logged'
    BY <1>1, <1>2, ViewPlace DEF Ready, Start
  <2>2. n \in Seqs /\ log' = With(log, n, ev)
    BY <1>2 DEF Place, With
  <2> HIDE DEF ev, n
  <2>3. Logged' = Logged \cup {n} /\ ~ Begun
    BY <1>1, <2>2, TakenMore
  <2>4. Logged = {}
    BY <1>1, <2>3 DEF HasRun, Logged
  <2>5. hash'[w] = Logged' /\ at'[w] = "user"
    BY <1>1, <1>2, <2>3, <2>4 DEF TInv
  <2>6. Knows(w)'
    BY <2>1, <2>5 DEF Knows
  <2> QED
    BY <2>1, <2>5, <2>6, ViewOf
<1>3. CASE Refused(w, ev) /\ Rest(w)
  <2>1. Filed'
    BY <1>1, <1>3, ViewRefused DEF Ready, Start
  <2>2. at'[w] = "idle"
    BY <1>1, <1>3 DEF Rest, Goto, TInv
  <2> QED
    BY <2>1, <2>2, ViewOver
<1> QED
  BY <1>2, <1>3 DEF Start, Goto

LEMMA UserViewed ==
  ASSUME NEW w \in Workers, Ready(w), User(w) PROVE Filed' /\ Viewed(w)'
<1> DEFINE ev == Plain("user")
<1>1. /\ ev \in Event /\ ev.kind # "none" /\ TInv /\ Empty(log, next[w])
      /\ Following(w) /\ at[w] = "user" /\ checkpoint' = checkpoint
  BY EventTypes, EventFields, ReadyOK DEF User, Following, Active
<1>2. Knows(w)
  BY <1>1, KnowsAll DEF Ready
<1> HIDE DEF ev
<1>3. CASE UNCHANGED <<log, seen, next, hash>> /\ End(w, "guardrail")
  <2>1. at'[w] # "closing"
    BY <1>1, <1>3 DEF End, Goto, TInv
  <2> QED
    BY <1>1, <1>3, <2>1, ViewQuiet DEF Ready
<1>4. CASE Place(w, ev) /\ Fold(w) /\ CheckpointThen(w, "top", job[w])
  <2>1. Filed' /\ Knows(w)'
    BY <1>1, <1>2, <1>4, ViewPlace DEF Knows, Ready
  <2>2. at'[w] # "closing"
    BY <1>1, <1>4 DEF CheckpointThen, Goto, TInv
  <2> QED
    BY <2>1, <2>2, ViewOf
<1>5. CASE Refused(w, ev) /\ Rest(w)
  <2>1. Filed'
    BY <1>1, <1>5, ViewRefused DEF Ready
  <2>2. at'[w] = "idle"
    BY <1>1, <1>5 DEF Rest, Goto, TInv
  <2> QED
    BY <2>1, <2>2, ViewOver
<1> QED
  BY <1>3, <1>4, <1>5 DEF User, ev

LEMMA AppendViewed ==
  ASSUME NEW w \in Workers, Ready(w),
         Interrupted(w) \/ AppendAssistant(w) \/ Results(w) \/ Suspend(w)
  PROVE  Filed' /\ Viewed(w)'
<1>1. /\ TInv /\ Empty(log, next[w]) /\ Following(w) /\ at[w] # "start"
      /\ checkpoint' = checkpoint /\ job[w] \in Jobs /\ FitFor(at[w], job[w])
  BY ReadyOK DEF Interrupted, AppendAssistant, Results, Suspend, Following, Active
<1>2. \E ev \in Event : ev.kind # "none" /\ \E p, j : /\ p # "closing"
                                                   /\ AppendInLoop(w, ev, Goto(w, p, j))
  <2>1. CASE Interrupted(w)
    <3>1. Assistant(<< >>) \in Event /\ Assistant(<< >>).kind # "none"
      BY EventTypes, EventFields, AgentRunAssumption
    <3>2. \/ AppendInLoop(w, Assistant(<< >>), Goto(w, "terminal", Ended(job[w], "error")))
          \/ AppendInLoop(w, Assistant(<< >>),
                          Goto(w, "checkpoint", Before(Ended(job[w], "aborted"), "terminal")))
      BY <2>1 DEF Interrupted, AppendInLoop, End, CheckpointThen, Before, Ended
    <3> QED
      BY <3>1, <3>2
  <2>2. CASE AppendAssistant(w)
    <3>1. Assistant(job[w].todo) \in Event /\ Assistant(job[w].todo).kind # "none"
      BY <1>1, <2>2, EventTypes, EventFields DEF AppendAssistant, FitFor
    <3>2. AppendInLoop(w, Assistant(job[w].todo), Goto(w, "checkpoint", Before(job[w], "called")))
      BY <2>2 DEF AppendAssistant, CheckpointThen, Before
    <3> QED
      BY <3>1, <3>2
  <2>3. CASE Results(w)
    <3> DEFINE ev == ToolResult(Head(job[w].done))
    <3>1. ev \in Event /\ ev.kind # "none"
      BY <1>1, <2>3, ReportedOK, EventTypes, EventFields DEF Results, FitFor
    <3>2. \/ AppendInLoop(w, ev, Goto(w, "checkpoint", Before(Reported(job[w]), "top")))
          \/ AppendInLoop(w, ev, Goto(w, "results", Reported(job[w])))
      BY <2>3 DEF Results, CheckpointThen, AppendInLoop, Before, Reported
    <3> HIDE DEF ev
    <3> QED
      BY <3>1, <3>2
  <2>4. CASE Suspend(w)
    <3>1. Suspension(job[w].call) \in Event /\ Suspension(job[w].call).kind # "none"
      BY <1>1, <2>4, EventTypes, EventFields DEF Suspend, FitFor
    <3>2. AppendInLoop(w, Suspension(job[w].call), Goto(w, "checkpoint", Before(job[w], "terminal")))
      BY <2>4 DEF Suspend, CheckpointThen, Before
    <3> QED
      BY <3>1, <3>2
  <2> QED
    BY <2>1, <2>2, <2>3, <2>4
<1> QED
  BY <1>1, <1>2, ViewLoop DEF Ready

LEMMA VerdictOK ==
  ASSUME TInv, NEW w \in Workers
  PROVE  /\ Verdict(w) \in Event /\ Verdict(w).kind = "terminal_result"
         /\ Verdict(w).outcome = job[w].ends /\ Verdict(w).run = job[w].run
<1>1. /\ job[w].run \in Seqs \cup {NoRun} /\ job[w].ends \in Subtypes
      /\ job[w].call \in Calls \cup {NoCall}
  BY DEF TInv, Jobs
<1> QED
  BY <1>1, EventTypes, EventFields DEF Verdict

LEMMA FinishViewed ==
  ASSUME NEW w \in Workers, Ready(w), Finish(w) PROVE Filed' /\ Viewed(w)'
<1> DEFINE ev == Verdict(w)
           n == next[w]
<1>1. /\ TInv /\ Empty(log, n) /\ checkpoint' = checkpoint /\ at[w] = "terminal"
      /\ ev \in Event /\ ev.kind = "terminal_result" /\ ev.outcome = job[w].ends
      /\ ev.kind # "none"
  BY ReadyOK, VerdictOK DEF Finish, Active
<1> HIDE DEF ev
<1>2. CASE Place(w, ev) /\ at' = [at EXCEPT ![w] = "closing"] /\ UNCHANGED hash
  <2>1. n \in Seqs /\ log' = With(log, n, ev)
    BY <1>2 DEF Place, With
  <2>2. /\ Logged' = Logged \cup {n} /\ \A s \in Logged : s < n
        /\ Final => Final'
        /\ ev.outcome # "suspended" => Final'
    BY <1>1, <2>1, TakenMore
  <2>3. Filed'
    BY <1>1, <2>1, <2>2, FiledStays DEF Ready
  <2>4. next'[w] - 1 = n /\ seen'[w] = seen[w] \cup {n}
    BY <1>1, <1>2, <2>1 DEF Place, TInv, Seqs
  <2>5. ev.outcome = "suspended" => seen[w] = Logged
    BY <1>1 DEF Ready, Viewed
  <2>6. next'[w] - 1 \in Logged' /\ (Final' \/ seen'[w] = Logged')
    <3>1. CASE ev.outcome = "suspended"
      BY <2>2, <2>4, <2>5, <3>1
    <3>2. CASE ev.outcome # "suspended"
      BY <2>2, <2>4, <3>2
    <3> QED
      BY <3>1, <3>2
  <2>7. at'[w] = "closing"
    BY <1>1, <1>2 DEF TInv
  <2> QED
    BY <2>3, <2>6, <2>7 DEF Viewed, Following
<1>3. CASE Refused(w, ev) /\ Rest(w)
  <2>1. Filed'
    BY <1>1, <1>3, ViewRefused DEF Ready
  <2>2. at'[w] = "idle"
    BY <1>1, <1>3 DEF Rest, Goto, TInv
  <2> QED
    BY <2>1, <2>2, ViewOver
<1> QED
  BY <1>2, <1>3 DEF Finish, Goto, ev

LEMMA CloseViewed ==
  ASSUME NEW w \in Workers, Ready(w), Close(w) PROVE Filed' /\ Viewed(w)'
<1>1. /\ TInv /\ at[w] = "closing" /\ \A s \in Logged : s < next[w]
      /\ log' = log /\ PutCheckpoint(next[w], seen[w])
  BY ReadyOK DEF Close, Active
<1>2. Filed'
  BY <1>1, FiledAnew DEF Ready, Viewed
<1>3. at'[w] = "idle"
  BY <1>1 DEF Close, Rest, Goto, TInv
<1> QED
  BY <1>2, <1>3, ViewOver

LEMMA SessionViewed ==
  ASSUME NEW w \in Workers, Ready(w), Query(w) \/ Resume(w) \/ Decide(w) \/ Crash(w)
  PROVE  Filed' /\ Viewed(w)'
<1>1. TInv /\ log' = log /\ checkpoint' = checkpoint
  BY ReadyOK DEF Query, Resume, Decide, Crash, store
<1>2. Filed' /\ Logged' = Logged
  BY <1>1, FiledSame, TakenSame DEF Ready
<1>3. CASE Query(w)
  <2>1. at'[w] = "start" /\ seen'[w] = Logged
    BY <1>1, <1>3 DEF Query, Goto, TInv
  <2> QED
    BY <1>2, <2>1 DEF Viewed
<1>4. CASE Resume(w) \/ Decide(w) \/ Crash(w)
  <2>1. at'[w] \in {"idle", "decide", "open"}
    BY <1>1, <1>4 DEF Resume, Decide, Crash, Rest, Goto, TInv
  <2> QED
    BY <1>2, <2>1, ViewOver
<1> QED
  BY <1>3, <1>4

LEMMA OpenViewed ==
  ASSUME NEW w \in Workers, Ready(w), Open(w) PROVE Filed' /\ Viewed(w)'
<1>1. TInv /\ log' = log /\ checkpoint' = checkpoint /\ Begun /\ RunsSound(log)
  BY ReadyOK DEF Open, store, HasRun
<1>2. Filed' /\ Logged' = Logged
  BY <1>1, FiledSame, TakenSame DEF Ready
<1>3. CASE Rest(w)
  <2>1. at'[w] = "idle"
    BY <1>1, <1>3 DEF Rest, Goto, TInv
  <2> QED
    BY <1>2, <2>1, ViewOver
<1>4. CASE Blocked(w)
  <2>1. at'[w] = "terminal" /\ job'[w] = BlockedJob
    BY <1>1, <1>4 DEF Blocked, Goto, TInv, BlockedJob
  <2>2. job'[w].ends # "suspended"
    BY <1>1, <2>1, ResumedOK
  <2> QED
    BY <1>2, <2>1, <2>2, ViewOver
<1>5. CASE Reopen(w) /\ Continue(w) /\ Outcome(Logged, RunOf(Logged)) \in {"none", "suspended"}
  <2>1. ~ Final
    <3> SUFFICES ASSUME NEW t \in Seqs, log[t].kind = "terminal_result",
                        log[t].outcome # "suspended"
                 PROVE  FALSE
      BY DEF Final
    <3>1. log[t].run \in Seqs /\ log[log[t].run].kind = "run_started"
      BY <1>1 DEF RunsSound
    <3>2. RunOf(Logged) \in Seqs /\ log[RunOf(Logged)].kind = "run_started"
      BY <1>1, ResumedOK DEF Of
    <3>3. log[t].run = RunOf(Logged)
      BY <3>1, <3>2 DEF Ready, OneRun
    <3> QED
      BY <1>1, <1>5, <3>3, OutcomeOK
  <2>2. checkpoint.hash = {s \in Logged : s < checkpoint.seq}
    BY <2>1 DEF Ready, Filed
  <2>3. checkpoint.seq \in Int /\ \A s \in Logged : s \in Int
    BY <1>1, AgentRunAssumption DEF TInv, Seqs, Logged
  <2>4. checkpoint.hash \cup {s \in Logged : s >= checkpoint.seq} = Logged
    BY <2>2, <2>3
  <2>5. hash'[w] = Logged /\ seen'[w] = Logged /\ next'[w] = NextSeq
    BY <1>1, <1>5, <2>4 DEF Continue, Reopen, TInv
  <2>6. Logged # {} /\ Logged \in SUBSET Seqs
    BY <1>1, EventFields DEF Begun, Logged
  <2>7. Max(Logged) \in Logged
    BY <2>6, MaxOfSeqs
  <2>8. NextSeq - 1 = Max(Logged)
    <3>1. Max(Logged) \in Int
      BY <2>3, <2>7
    <3> QED
      BY <2>6, <3>1 DEF NextSeq
  <2>9. Knows(w)'
    BY <1>2, <2>5, <2>7, <2>8 DEF Knows
  <2>10. at'[w] # "closing"
    BY <1>1, <1>5 DEF Continue, Goto, TInv
  <2> QED
    BY <1>2, <2>9, <2>10, ViewOf
<1> QED
  BY <1>3, <1>4, <1>5 DEF Open

LEMMA VInvStep ==
  ASSUME FInv, VInv, NEW w \in Workers, Query(w) \/ Resume(w) \/ Step(w) \/ Crash(w)
  PROVE  VInv'
<1> SUFFICES ASSUME Alone, OneRun' PROVE Filed' /\ Viewed(w)'
  BY DEF VInv, Alone
<1>1. OneRun
  <2>1. \A r \in Seqs : log[r].kind = "run_started" => log'[r] = log[r]
    <3>0. TInv /\ HasRun /\ (Active(w) => Empty(log, next[w]))
      BY DEF FInv, SInv, Base, Sound, InFront, Empty
    <3>1. Moves(w)
      BY <3>0, RunMoves
    <3>2. CASE log' = log
      BY <3>2
    <3>3. CASE \E ev : Adds(w, ev)
      <4>1. \A r \in Seqs : log[r].kind = "run_started" => r < next[w]
        BY <3>0, <3>3, EventFields DEF Adds, Empty
      <4>2. \A r \in Seqs : ~ (r < r)
        BY DEF Seqs
      <4> QED
        BY <3>0, <3>3, <4>1, <4>2 DEF Adds, With, TInv
    <3> QED
      BY <3>1, <3>2, <3>3 DEF Moves, Begins, Concludes, GoesOn, KeepsOut, TakesUp
  <2> QED
    BY <2>1 DEF OneRun
<1>2. Ready(w)
  BY <1>1 DEF VInv, Ready
<1> QED
  BY <1>2, QuietViewed, CheckpointViewed, StartViewed, UserViewed, AppendViewed, FinishViewed,
     CloseViewed, SessionViewed, OpenViewed DEF Step

LEMMA InitVInv == Init => VInv
<1> SUFFICES ASSUME Init PROVE VInv
  OBVIOUS
<1>1. Logged = {}
  BY DEF Init, Logged
<1> QED
  BY <1>1 DEF Init, VInv, Filed, Viewed, Following, Active

LEMMA NextVInv == FInv /\ VInv /\ [Next]_vars => VInv'
<1> SUFFICES ASSUME FInv, VInv, [Next]_vars PROVE VInv'
  OBVIOUS
<1>1. CASE UNCHANGED vars
  BY <1>1 DEF vars, store, worker, VInv, OneRun, Final, Filed, Viewed, Following, Active, Logged
<1>2. CASE Next
  BY <1>2, VInvStep DEF Next
<1> QED
  BY <1>1, <1>2

\* The hash that resumeTurn seeds from the checkpoint and the events after it is the
\* hash of the whole log, for one worker and while the log holds one run: the
\* checkpoints of a second query cover its own events alone.
THEOREM ResumedHashIsWhole == Spec => [](Alone /\ OneRun => IntegrityGuarantee)
<1>1. VInv => (Alone /\ OneRun => IntegrityGuarantee)
  BY DEF VInv, Viewed, IntegrityGuarantee, Following, Active
<1> QED
  BY InitFInv, NextFInv, InitVInv, NextVInv, <1>1, PTL DEF Spec

-----------------------------------------------------------------------------
(* The suspensions.  Where nothing crashes and no append is refused, a       *)
(* worker that is alone rests with its runs concluded, and one that is       *)
(* suspended waits for the decision that Agent.resume records.               *)

Undisturbed == budget.crashes = MaxCrashes /\ budget.rejections = MaxRejections
\* The model asks for one human decision at a time.
AskOnce == \A q \in Batches : \A i, k \in DOMAIN q : q[i] \in Asking /\ q[k] \in Asking => q[i] = q[k]

\* Call c is of the latest answer of the model that log l holds.
InBatch(l, c) ==
  \E s \in Seqs : /\ l[s].kind = "assistant"
                  /\ \A x \in Seqs : l[x].kind = "assistant" => x <= s
                  /\ \E i \in DOMAIN l[s].calls : l[s].calls[i] = c
\* The latest suspension below n is that of call c.
LastSuspended(l, n, c) ==
  \E s \in Seqs : /\ s < n /\ l[s].kind = "suspension" /\ l[s].call = c
                  /\ \A x \in Seqs : x < n /\ l[x].kind = "suspension" => x <= s
\* Every reported suspension can be decided.
Decidable(l) ==
  \A t \in Seqs : l[t].kind = "terminal_result" /\ l[t].outcome = "suspended" =>
    LastSuspended(l, t, l[t].call)
\* A call of the latest answer waits for its decision.
Pends(l) == \E c \in Asking : LastSuspended(l, MaxSeq + 1, c) /\ InBatch(l, c)
Concluded(l) ==
  \A r \in Seqs : LastRun(l, MaxSeq + 1, r) =>
    \E t \in Seqs : /\ l[t].kind = "terminal_result" /\ l[t].run = r
                    /\ \A x \in Seqs : l[x].kind = "terminal_result" /\ l[x].run = r => x <= t
                    /\ l[t].outcome = "suspended" => Pends(l)

Acting == {"dispatch", "execute", "complete"}
\* A worker in phase p with job j.
WaitSound(l, p, j) ==
  /\ p \in {"assistant", "called"} => ~ j.resumed
  /\ p \in {"called"} \cup Acting => \A c : Todo(j, c) => InBatch(l, c)
  /\ p \in Acting /\ j.resumed => Pends(l)
  /\ p = "suspend" => j.call \in Asking /\ InBatch(l, j.call)
  /\ p = "terminal" /\ j.ends = "suspended" =>
       j.call \in Asking /\ InBatch(l, j.call) /\ LastSuspended(l, MaxSeq + 1, j.call)
  /\ InRun(p) => LastRun(l, MaxSeq + 1, j.run)
  /\ ~ InRun(p) => Concluded(l)

DInv == Alone /\ AskOnce /\ Undisturbed =>
          /\ Decidable(log)
          /\ \A w \in Workers : WaitSound(log, PhaseOf(at[w], job[w]), job[w])

\* What an event that is added to the log changes of it.
LEMMA WithWaits ==
  ASSUME NEW l \in [Seqs -> Event], NEW n \in Seqs, NEW ev \in Event, Empty(l, n)
  PROVE  /\ ev.kind # "run_started" =>
              \A r : LastRun(l, MaxSeq + 1, r) => LastRun(With(l, n, ev), MaxSeq + 1, r)
         /\ ev.kind = "run_started" => LastRun(With(l, n, ev), MaxSeq + 1, n)
         /\ ev.kind # "assistant" => \A c : InBatch(l, c) => InBatch(With(l, n, ev), c)
         /\ ev.kind = "assistant" =>
              \A i \in DOMAIN ev.calls : InBatch(With(l, n, ev), ev.calls[i])
         /\ ev.kind # "suspension" =>
              \A c : LastSuspended(l, MaxSeq + 1, c) => LastSuspended(With(l, n, ev), MaxSeq + 1, c)
         /\ ev.kind = "suspension" => LastSuspended(With(l, n, ev), MaxSeq + 1, ev.call)
<1> DEFINE m == With(l, n, ev)
<1>1. /\ m[n] = ev /\ \A s \in Seqs : s # n => m[s] = l[s]
      /\ \A s \in Seqs : m[s].kind # "none" => s < n \/ s = n
      /\ \A s \in Seqs : l[s].kind # "none" => s < n
  BY WithOK
<1>2. \A s \in Seqs : s \in Int /\ s < MaxSeq + 1 /\ ~ (s < s)
  BY AgentRunAssumption DEF Seqs
<1>3. l[n].kind = "none"
  BY <1>1, <1>2
<1>4. \A s \in Seqs : m[s].kind # "none" => s <= n
  BY <1>1, <1>2
<1> HIDE DEF m
<1>5. \A k : \A s \in Seqs : ev.kind # k => (m[s].kind = k => l[s] = m[s])
  BY <1>1
<1>6. \A k : \A s \in Seqs : k # "none" => (l[s].kind = k => m[s] = l[s])
  BY <1>1, <1>3
<1>7. ev.kind # "run_started" => \A r : LastRun(l, MaxSeq + 1, r) => LastRun(m, MaxSeq + 1, r)
  BY <1>5, <1>6 DEF LastRun
<1>8. ev.kind = "run_started" => LastRun(m, MaxSeq + 1, n)
  BY <1>1, <1>2, <1>4 DEF LastRun
<1>9. ev.kind # "assistant" => \A c : InBatch(l, c) => InBatch(m, c)
  BY <1>5, <1>6 DEF InBatch
<1>10. ev.kind = "assistant" => \A i \in DOMAIN ev.calls : InBatch(m, ev.calls[i])
  BY <1>1, <1>4 DEF InBatch
<1>11. ev.kind # "suspension" =>
         \A c : LastSuspended(l, MaxSeq + 1, c) => LastSuspended(m, MaxSeq + 1, c)
  BY <1>5, <1>6 DEF LastSuspended
<1>12. ev.kind = "suspension" => LastSuspended(m, MaxSeq + 1, ev.call)
  BY <1>1, <1>2, <1>4 DEF LastSuspended
<1> QED
  BY <1>7, <1>8, <1>9, <1>10, <1>11, <1>12 DEF m

LEMMA WithDecidable ==
  ASSUME NEW l \in [Seqs -> Event], NEW n \in Seqs, NEW ev \in Event, Empty(l, n), Decidable(l),
         ev.kind = "terminal_result" /\ ev.outcome = "suspended" =>
           LastSuspended(l, MaxSeq + 1, ev.call)
  PROVE  Decidable(With(l, n, ev))
<1> DEFINE m == With(l, n, ev)
<1>1. /\ m[n] = ev /\ \A s \in Seqs : s # n => m[s] = l[s]
      /\ \A s \in Seqs : m[s].kind # "none" => s < n \/ s = n
      /\ \A s \in Seqs : l[s].kind # "none" => s < n
  BY WithOK
<1>2. \A s \in Seqs : s \in Int /\ s < MaxSeq + 1
  BY AgentRunAssumption DEF Seqs
<1> HIDE DEF m
<1> SUFFICES ASSUME NEW t \in Seqs, m[t].kind = "terminal_result", m[t].outcome = "suspended"
             PROVE  LastSuspended(m, t, m[t].call)
  BY DEF Decidable, m
<1>3. \A s \in Seqs : s < t => m[s] = l[s]
  BY <1>1, <1>2
<1>4. \A s \in Seqs : s < t => s # n
  BY <1>1, <1>2
<1>5. CASE t = n
  <2>1. PICK s \in Seqs : /\ l[s].kind = "suspension" /\ l[s].call = ev.call
                          /\ \A x \in Seqs : x < MaxSeq + 1 /\ l[x].kind = "suspension" => x <= s
    BY <1>1, <1>5 DEF LastSuspended
  <2>2. s < n
    BY <1>1, <2>1
  <2>3. \A x \in Seqs : x < n /\ m[x].kind = "suspension" => x <= s
    BY <1>2, <1>3, <1>5, <2>1
  <2> QED
    BY <1>1, <1>3, <1>5, <2>1, <2>2, <2>3 DEF LastSuspended
<1>6. CASE t # n
  <2>1. LastSuspended(l, t, l[t].call) /\ m[t] = l[t]
    BY <1>1, <1>6 DEF Decidable
  <2> QED
    BY <1>3, <2>1 DEF LastSuspended
<1> QED
  BY <1>5, <1>6

\* The last run is concluded by the terminal result that is added for it.
LEMMA WithConcluded ==
  ASSUME NEW l \in [Seqs -> Event], NEW n \in Seqs, NEW ev \in Event, Empty(l, n),
         ev.kind = "terminal_result", LastRun(l, MaxSeq + 1, ev.run),
         ev.outcome = "suspended" => Pends(l)
  PROVE  Concluded(With(l, n, ev))
<1> DEFINE m == With(l, n, ev)
<1>1. /\ m[n] = ev
      /\ \A s \in Seqs : m[s].kind # "none" => s < n \/ s = n
  BY WithOK
<1>2. \A s \in Seqs : s \in Int
  BY DEF Seqs
<1>3. LastRun(m, MaxSeq + 1, ev.run)
  BY WithWaits
<1>4. ev.outcome = "suspended" => Pends(m)
  BY WithWaits DEF Pends
<1> HIDE DEF m
<1> SUFFICES ASSUME NEW r \in Seqs, LastRun(m, MaxSeq + 1, r)
             PROVE  \E t \in Seqs :
                      /\ m[t].kind = "terminal_result" /\ m[t].run = r
                      /\ \A x \in Seqs : m[x].kind = "terminal_result" /\ m[x].run = r => x <= t
                      /\ m[t].outcome = "suspended" => Pends(m)
  BY DEF Concluded, m
<1>5. r = ev.run
  <2>1. r <= ev.run /\ ev.run <= r /\ ev.run \in Seqs
    BY <1>3 DEF LastRun
  <2> QED
    BY <1>2, <2>1
<1>6. \A x \in Seqs : m[x].kind # "none" => x <= n
  BY <1>1, <1>2
<1> QED
  BY <1>1, <1>4, <1>5, <1>6

\* A worker on its way asks nothing else of the log than that its run is the last.
LEMMA OnItsWay ==
  ASSUME NEW l, NEW p, NEW j, LastRun(l, MaxSeq + 1, j.run),
         p \in {"user", "top", "results"} \/ (p = "terminal" /\ j.ends # "suspended")
  PROVE  WaitSound(l, p, j)
  BY DEF WaitSound, Acting, InRun

LEMMA AtRest ==
  ASSUME NEW l, NEW p, NEW j, Concluded(l),
         p \in {"idle", "start", "decide", "open", "closing"}
  PROVE  WaitSound(l, p, j)
  BY DEF WaitSound, Acting, InRun

\* What DInv gives an undisturbed step of a worker that is alone.
Waits(w) ==
  /\ FInv /\ Alone /\ AskOnce /\ Undisturbed /\ Decidable(log)
  /\ WaitSound(log, PhaseOf(at[w], job[w]), job[w])
WaitsOn(w) == Decidable(log') /\ WaitSound(log', PhaseOf(at'[w], job'[w]), job'[w])

LEMMA WaitsOK ==
  ASSUME NEW w \in Workers, Waits(w)
  PROVE  /\ TInv /\ HasRun /\ job[w] \in Jobs /\ FitFor(at[w], job[w])
         /\ log \in [Seqs -> Event]
         /\ Active(w) => Empty(log, next[w])
         /\ RunsSound(log)
         /\ at[w] # "checkpoint" => WaitSound(log, at[w], job[w])
         /\ InRun(at[w]) => LastRun(log, MaxSeq + 1, job[w].run)
<1>1. SInv /\ TInv /\ HasRun /\ RInv
  BY DEF Waits, FInv, SInv, Base
<1>2. Active(w) => Empty(log, next[w])
  BY <1>1 DEF Waits, SInv, Sound, InFront, Empty
<1>3. at[w] # "checkpoint" => WaitSound(log, at[w], job[w])
  BY DEF Waits, PhaseOf
<1>4. InRun(at[w]) => LastRun(log, MaxSeq + 1, job[w].run)
  <2>1. CASE at[w] = "checkpoint"
    <3>1. job[w].then \in {"top", "called", "terminal"}
      BY <1>1, <2>1 DEF TInv, FitFor
    <3> QED
      BY <2>1, <3>1 DEF Waits, PhaseOf, WaitSound, InRun
  <2> QED
    BY <1>3, <2>1 DEF WaitSound
<1> QED
  BY <1>1, <1>2, <1>3, <1>4 DEF Waits, RInv, TInv

\* Nothing is refused while nothing is disturbed.
LEMMA NoRefusal ==
  ASSUME NEW w \in Workers, Waits(w), Active(w), Undisturbed', NEW ev, Refused(w, ev)
  PROVE  FALSE
<1>1. Empty(log, next[w]) /\ TInv /\ next[w] \in Seqs
  BY WaitsOK DEF Refused
<1>2. log[next[w]] = NoEvent
  BY <1>1 DEF Empty, Seqs
<1>3. budget' = [budget EXCEPT !.rejections = @ - 1]
  BY <1>2 DEF Refused
<1>4. budget'.rejections = budget.rejections - 1 /\ budget.rejections \in Int
  BY <1>1, <1>3 DEF TInv, Budgets
<1> QED
  BY <1>4 DEF Waits, Undisturbed

\* A step that adds nothing to the log, and ends in phase p with job j.
LEMMA WaitsQuiet ==
  ASSUME NEW w \in Workers, Waits(w), log' = log, NEW p, NEW j, Goto(w, p, j),
         WaitSound(log, PhaseOf(p, j), j)
  PROVE  WaitsOn(w)
<1>1. at'[w] = p /\ job'[w] = j
  BY WaitsOK DEF Goto, TInv
<1> QED
  BY <1>1 DEF Waits, WaitsOn

\* A step that adds ev to it.
LEMMA WaitsPlace ==
  ASSUME NEW w \in Workers, Waits(w), Active(w), NEW ev \in Event, Place(w, ev),
         ev.kind = "terminal_result" /\ ev.outcome = "suspended" =>
           LastSuspended(log, MaxSeq + 1, ev.call),
         NEW p, NEW j, Goto(w, p, j),
         WaitSound(With(log, next[w], ev), PhaseOf(p, j), j)
  PROVE  WaitsOn(w)
<1>1. at'[w] = p /\ job'[w] = j
  BY WaitsOK DEF Goto, TInv
<1>2. /\ log' = With(log, next[w], ev) /\ next[w] \in Seqs /\ Empty(log, next[w])
      /\ log \in [Seqs -> Event] /\ Decidable(log)
  BY WaitsOK DEF Place, With, Waits
<1>3. Decidable(With(log, next[w], ev))
  BY <1>2, WithDecidable
<1> QED
  BY <1>1, <1>2, <1>3 DEF WaitsOn

\* An append in runLoop, of a worker that then is on its way or ends its run.
LEMMA WaitsLoop ==
  ASSUME NEW w \in Workers, Waits(w), Active(w), Undisturbed', NEW ev \in Event,
         ev.kind # "terminal_result", NEW p, NEW j, AppendInLoop(w, ev, Goto(w, p, j)),
         WaitSound(With(log, next[w], ev), PhaseOf(p, j), j)
  PROVE  WaitsOn(w)
  BY NoRefusal, WaitsPlace DEF AppendInLoop

LEMMA TopWaits ==
  ASSUME NEW w \in Workers, Waits(w), Stop(w) \/ ModelFails(w) PROVE WaitsOn(w)
<1>1. /\ job[w] \in Jobs /\ LastRun(log, MaxSeq + 1, job[w].run) /\ log' = log
      /\ {"ceiling", "error", "aborted"} \subseteq Subtypes
  BY WaitsOK DEF Stop, ModelFails, InRun, store, Subtypes
<1>2. ASSUME NEW o \in {"ceiling", "error"}, Goto(w, "terminal", Ended(job[w], o))
      PROVE  WaitsOn(w)
  <2>1. Ended(job[w], o).run = job[w].run /\ Ended(job[w], o).ends # "suspended"
    BY <1>1, EndedOK
  <2>2. WaitSound(log, "terminal", Ended(job[w], o))
    BY <1>1, <2>1, OnItsWay
  <2> QED
    BY <1>1, <1>2, <2>2, WaitsQuiet DEF PhaseOf
<1>3. ASSUME Goto(w, "checkpoint", Before(Ended(job[w], "aborted"), "terminal"))
      PROVE  WaitsOn(w)
  <2> DEFINE j == Before(Ended(job[w], "aborted"), "terminal")
  <2>1. Ended(job[w], "aborted") \in Jobs /\ Ended(job[w], "aborted").run = job[w].run
        /\ Ended(job[w], "aborted").ends = "aborted"
    BY <1>1, EndedOK
  <2>2. j.run = job[w].run /\ j.ends = "aborted" /\ j.then = "terminal"
    BY <2>1, ThenTypes
  <2> HIDE DEF j
  <2>3. WaitSound(log, PhaseOf("checkpoint", j), j)
    BY <1>1, <2>2, OnItsWay DEF PhaseOf
  <2> QED
    BY <1>1, <1>3, <2>3, WaitsQuiet DEF j
<1> QED
  BY <1>2, <1>3 DEF Stop, ModelFails, End, CheckpointThen, Ended, Before

LEMMA ModelWaits ==
  ASSUME NEW w \in Workers, Waits(w), Model(w) PROVE WaitsOn(w)
<1>1. /\ job[w] \in Jobs /\ LastRun(log, MaxSeq + 1, job[w].run) /\ log' = log
      /\ job[w].turn < MaxTurns
  BY WaitsOK DEF Model, InRun, store
<1>2. PICK b \in Batches :
        \/ Goto(w, "assistant", Given(job[w], b))
        \/ Goto(w, "checkpoint", Before(Dropped(Given(job[w], b)), "terminal"))
        \/ Goto(w, "terminal", Ended(Given(job[w], b), "guardrail"))
  BY DEF Model, CheckpointThen, Given, Dropped, Ended, Before
<1> DEFINE g == Given(job[w], b)
<1>3. g \in Jobs /\ g.run = job[w].run /\ ~ g.resumed
  BY <1>1, GivenOK
<1> HIDE DEF g
<1>4. CASE Goto(w, "assistant", g)
  <2>1. WaitSound(log, "assistant", g)
    BY <1>1, <1>3 DEF WaitSound, InRun, Acting
  <2> QED
    BY <1>1, <1>4, <2>1, WaitsQuiet DEF PhaseOf
<1>5. CASE Goto(w, "checkpoint", Before(Dropped(g), "terminal"))
  <2> DEFINE j == Before(Dropped(g), "terminal")
  <2>1. j.run = job[w].run /\ j.ends = "aborted" /\ j.then = "terminal"
    BY <1>3, DroppedOK, ThenTypes
  <2> HIDE DEF j
  <2>2. WaitSound(log, PhaseOf("checkpoint", j), j)
    BY <1>1, <2>1, OnItsWay DEF PhaseOf
  <2> QED
    BY <1>1, <1>5, <2>2, WaitsQuiet DEF j
<1>6. CASE Goto(w, "terminal", Ended(g, "guardrail"))
  <2>1. Ended(g, "guardrail").run = job[w].run /\ Ended(g, "guardrail").ends = "guardrail"
    BY <1>3, EndedOK DEF Subtypes
  <2>2. WaitSound(log, "terminal", Ended(g, "guardrail"))
    BY <1>1, <2>1, OnItsWay
  <2> QED
    BY <1>1, <1>6, <2>2, WaitsQuiet DEF PhaseOf
<1> QED
  BY <1>2, <1>4, <1>5, <1>6 DEF g

LEMMA CheckpointWaits ==
  ASSUME NEW w \in Workers, Waits(w), Checkpoint(w) PROVE WaitsOn(w)
<1>1. /\ job[w].then \in {"top", "called", "terminal"} /\ log' = log
      /\ at[w] = "checkpoint" /\ Goto(w, job[w].then, job[w])
  BY WaitsOK DEF Checkpoint, FitFor
<1>2. WaitSound(log, PhaseOf(job[w].then, job[w]), job[w])
  BY <1>1 DEF Waits, PhaseOf
<1> QED
  BY <1>1, <1>2, WaitsQuiet

LEMMA CalledWaits ==
  ASSUME NEW w \in Workers, Waits(w), Called(w) PROVE WaitsOn(w)
<1>1. /\ job[w] \in Jobs /\ LastRun(log, MaxSeq + 1, job[w].run) /\ log' = log
      /\ WaitSound(log, "called", job[w]) /\ {"ceiling", "success"} \subseteq Subtypes
  BY WaitsOK DEF Called, InRun, store, Subtypes
<1>2. ASSUME NEW o \in {"ceiling", "success"}, Goto(w, "terminal", Ended(job[w], o))
      PROVE  WaitsOn(w)
  <2>1. Ended(job[w], o).run = job[w].run /\ Ended(job[w], o).ends # "suspended"
    BY <1>1, EndedOK
  <2>2. WaitSound(log, "terminal", Ended(job[w], o))
    BY <1>1, <2>1, OnItsWay
  <2> QED
    BY <1>1, <1>2, <2>2, WaitsQuiet DEF PhaseOf
<1>3. CASE Goto(w, "dispatch", job[w])
  <2>1. WaitSound(log, "dispatch", job[w])
    BY <1>1 DEF WaitSound, InRun, Acting
  <2> QED
    BY <1>1, <1>3, <2>1, WaitsQuiet DEF PhaseOf
<1> QED
  BY <1>2, <1>3 DEF Called, End, Ended

\* The call that is next, or still open, is of the batch of the log.
LEMMA SettleWaits ==
  ASSUME NEW w \in Workers, Waits(w), at[w] \in Acting, log' = log,
         NEW o \in {"ok", "error"}, Settle(w, o)
  PROVE  WaitsOn(w)
<1> DEFINE j == Settled(job[w], o)
           t == job[w].todo
<1>1. /\ job[w] \in Jobs /\ t # << >> /\ LastRun(log, MaxSeq + 1, job[w].run)
      /\ WaitSound(log, at[w], job[w])
  BY WaitsOK DEF Acting, FitFor, InRun
<1>2. j.run = job[w].run /\ j.resumed = job[w].resumed /\ j.todo = Tail(t)
  BY <1>1, SettledOK
<1>3. \A c : Todo(j, c) => Todo(job[w], c)
  <2>1. t \in Seq(Calls)
    BY <1>1 DEF Jobs
  <2>2. \A i \in DOMAIN Tail(t) : i + 1 \in DOMAIN t /\ Tail(t)[i] = t[i + 1]
    BY <1>1, <2>1
  <2> HIDE DEF j, t
  <2> QED
    BY <1>2, <2>2 DEF Todo, t
<1>4. Goto(w, IF j.todo = << >> THEN "results" ELSE "dispatch", j)
  BY DEF Settle, Settled
<1> HIDE DEF j
<1>5. WaitSound(log, "results", j) /\ WaitSound(log, "dispatch", j)
  BY <1>1, <1>2, <1>3 DEF WaitSound, InRun, Acting
<1> QED
  BY <1>4, <1>5, WaitsQuiet DEF PhaseOf

LEMMA SameWaits ==
  ASSUME NEW w \in Workers, Waits(w), at[w] \in Acting, log' = log,
         NEW p \in Acting, Goto(w, p, job[w])
  PROVE  WaitsOn(w)
<1>1. WaitSound(log, at[w], job[w])
  BY WaitsOK DEF Acting
<1>2. WaitSound(log, p, job[w])
  BY <1>1 DEF WaitSound, InRun, Acting
<1> QED
  BY <1>2, WaitsQuiet DEF PhaseOf, Acting

LEMMA UnwindWaits ==
  ASSUME NEW w \in Workers, Waits(w), at[w] \in Acting, log' = log,
         Unwind(w, Head(job[w].todo)), Head(job[w].todo) \in Asking
  PROVE  WaitsOn(w)
<1> DEFINE c == Head(job[w].todo)
           j == Unwound(job[w], c)
<1>1. /\ job[w] \in Jobs /\ job[w].todo # << >> /\ LastRun(log, MaxSeq + 1, job[w].run)
      /\ WaitSound(log, at[w], job[w]) /\ log \in [Seqs -> Event]
  BY WaitsOK DEF Acting, FitFor, InRun
<1>2. j.run = job[w].run /\ j.call = c /\ j.ends = "suspended" /\ j.resumed = job[w].resumed
  BY <1>1 DEF Unwound, Jobs
<1>3. Todo(job[w], c)
  <2>1. job[w].todo \in Seq(Calls) /\ 1 \in DOMAIN job[w].todo
    BY <1>1 DEF Jobs
  <2> QED
    BY <2>1 DEF Todo
<1>4. InBatch(log, c)
  BY <1>1, <1>3 DEF WaitSound
<1>5. Goto(w, IF job[w].resumed THEN "terminal" ELSE "suspend", j)
  BY DEF Unwind, Unwound
<1> HIDE DEF j, c
<1>6. CASE job[w].resumed
  <2>1. PICK d \in Asking : LastSuspended(log, MaxSeq + 1, d) /\ InBatch(log, d)
    BY <1>1, <1>6 DEF WaitSound, Pends
  <2>2. c = d
    <3>1. PICK s \in Seqs : /\ log[s].kind = "assistant"
                            /\ \A x \in Seqs : log[x].kind = "assistant" => x <= s
                            /\ \E i \in DOMAIN log[s].calls : log[s].calls[i] = c
      BY <1>4 DEF InBatch
    <3>2. PICK t \in Seqs : /\ log[t].kind = "assistant"
                            /\ \A x \in Seqs : log[x].kind = "assistant" => x <= t
                            /\ \E i \in DOMAIN log[t].calls : log[t].calls[i] = d
      BY <2>1 DEF InBatch
    <3>3. s = t
      BY <3>1, <3>2 DEF Seqs
    <3>4. log[s].calls \in Batches
      BY <1>1 DEF Event
    <3> QED
      BY <2>1, <3>1, <3>2, <3>3, <3>4 DEF Waits, AskOnce, c
  <2>3. WaitSound(log, "terminal", j)
    BY <1>1, <1>2, <1>4, <2>1, <2>2 DEF WaitSound, InRun, Acting
  <2> QED
    BY <1>5, <1>6, <2>3, WaitsQuiet DEF PhaseOf
<1>7. CASE ~ job[w].resumed
  <2>1. WaitSound(log, "suspend", j)
    BY <1>1, <1>2, <1>4 DEF WaitSound, InRun, Acting, c
  <2> QED
    BY <1>5, <1>7, <2>1, WaitsQuiet DEF PhaseOf
<1> QED
  BY <1>6, <1>7

LEMMA ActWaits ==
  ASSUME NEW w \in Workers, Waits(w), Look(w) \/ Execute(w) \/ Complete(w) PROVE WaitsOn(w)
<1>1. at[w] \in Acting /\ log' = log
  BY DEF Look, Execute, Complete, Acting
<1>2. \/ Settle(w, "ok") \/ Settle(w, "error")
      \/ Goto(w, "execute", job[w]) \/ Goto(w, "complete", job[w])
      \/ Unwind(w, Head(job[w].todo)) /\ Head(job[w].todo) \in Asking
  BY DEF Look, Execute, Complete
<1>3. CASE Settle(w, "ok") \/ Settle(w, "error")
  BY <1>1, <1>3, SettleWaits
<1>4. CASE Goto(w, "execute", job[w]) \/ Goto(w, "complete", job[w])
  <2>1. {"execute", "complete"} \subseteq Acting
    BY DEF Acting
  <2> QED
    BY <1>1, <1>4, <2>1, SameWaits
<1> QED
  BY <1>1, <1>2, <1>3, <1>4, UnwindWaits

LEMMA StartWaits ==
  ASSUME NEW w \in Workers, Waits(w), Undisturbed', Start(w) PROVE WaitsOn(w)
<1> DEFINE ev == Plain("run_started")
           n == next[w]
           j == StartJob(w)
<1>1. /\ ev \in Event /\ ev.kind = "run_started" /\ Active(w) /\ job[w] \in Jobs
      /\ log \in [Seqs -> Event] /\ Empty(log, n)
  BY EventTypes, EventFields, WaitsOK DEF Start, Active
<1>2. j.run = n
  BY <1>1 DEF StartJob, Jobs
<1>3. Place(w, ev) /\ Goto(w, "user", j)
  BY <1>1, NoRefusal DEF Start, StartJob
<1>4. n \in Seqs
  BY <1>3 DEF Place
<1> HIDE DEF ev, n, j
<1>5. LastRun(With(log, n, ev), MaxSeq + 1, j.run)
  BY <1>1, <1>2, <1>4, WithWaits
<1>6. WaitSound(With(log, n, ev), PhaseOf("user", j), j)
  BY <1>5, OnItsWay DEF PhaseOf
<1> QED
  BY <1>1, <1>3, <1>6, WaitsPlace DEF n

\* An event that neither begins nor ends the run, for a worker on its way.
LEMMA InnerWaits ==
  ASSUME NEW w \in Workers, Waits(w), InRun(at[w]), Active(w), NEW ev \in Event,
         ev.kind \in Inner, next[w] \in Seqs, NEW p, NEW j, j.run = job[w].run,
         p \in {"user", "top", "results"} \/ (p = "terminal" /\ j.ends # "suspended")
  PROVE  WaitSound(With(log, next[w], ev), p, j)
<1>1. LastRun(log, MaxSeq + 1, job[w].run) /\ Empty(log, next[w]) /\ log \in [Seqs -> Event]
  BY WaitsOK
<1>2. LastRun(With(log, next[w], ev), MaxSeq + 1, j.run)
  BY <1>1, WithWaits DEF Inner
<1> QED
  BY <1>2, OnItsWay

LEMMA UserWaits ==
  ASSUME NEW w \in Workers, Waits(w), Undisturbed', User(w) PROVE WaitsOn(w)
<1> DEFINE ev == Plain("user")
<1>1. /\ ev \in Event /\ ev.kind = "user" /\ Active(w) /\ InRun(at[w]) /\ job[w] \in Jobs
      /\ LastRun(log, MaxSeq + 1, job[w].run)
  BY EventTypes, EventFields, WaitsOK DEF User, Active, InRun
<1> HIDE DEF ev
<1>2. CASE log' = log /\ End(w, "guardrail")
  <2>1. Ended(job[w], "guardrail").run = job[w].run
        /\ Ended(job[w], "guardrail").ends = "guardrail"
    BY <1>1, EndedOK DEF Subtypes
  <2>2. WaitSound(log, "terminal", Ended(job[w], "guardrail"))
    BY <1>1, <2>1, OnItsWay
  <2>3. Goto(w, "terminal", Ended(job[w], "guardrail"))
    BY <1>2 DEF End, Ended
  <2> QED
    BY <1>2, <2>2, <2>3, WaitsQuiet DEF PhaseOf
<1>3. CASE Place(w, ev) /\ CheckpointThen(w, "top", job[w])
  <2> DEFINE j == Before(job[w], "top")
  <2>1. j.run = job[w].run /\ j.then = "top" /\ Goto(w, "checkpoint", j)
    BY <1>1, <1>3, ThenTypes DEF CheckpointThen, Before
  <2> HIDE DEF j
  <2>2. next[w] \in Seqs
    BY <1>3 DEF Place
  <2>3. WaitSound(With(log, next[w], ev), "top", j)
    BY <1>1, <2>1, <2>2, InnerWaits DEF Inner
  <2>4. WaitSound(With(log, next[w], ev), PhaseOf("checkpoint", j), j)
    BY <2>1, <2>3 DEF PhaseOf
  <2> QED
    BY <1>1, <1>3, <2>1, <2>4, WaitsPlace
<1> QED
  BY <1>1, <1>2, <1>3, NoRefusal DEF User, ev

LEMMA InterruptedWaits ==
  ASSUME NEW w \in Workers, Waits(w), Undisturbed', Interrupted(w) PROVE WaitsOn(w)
<1> DEFINE ev == Assistant(<< >>)
           k == Ended(job[w], "error")
           h == Ended(job[w], "aborted")
           j == Before(h, "terminal")
<1>1. ev \in Event /\ ev.kind = "assistant" /\ Active(w) /\ InRun(at[w]) /\ job[w] \in Jobs
  BY EventTypes, EventFields, AgentRunAssumption, WaitsOK DEF Interrupted, Active, InRun
<1>2. /\ k.run = job[w].run /\ k.ends = "error"
      /\ h \in Jobs /\ h.run = job[w].run /\ h.ends = "aborted"
  BY <1>1, EndedOK DEF Subtypes
<1>3. \/ AppendInLoop(w, ev, Goto(w, "terminal", k))
      \/ AppendInLoop(w, ev, Goto(w, "checkpoint", j))
  BY DEF Interrupted, AppendInLoop, End, CheckpointThen, Before, Ended
<1>4. next[w] \in Seqs
  BY <1>3 DEF AppendInLoop, Place, Refused
<1> HIDE DEF ev, k, h
<1>5. j.run = job[w].run /\ j.ends = "aborted" /\ j.then = "terminal"
  BY <1>2, ThenTypes
<1> HIDE DEF j
<1>6. WaitSound(With(log, next[w], ev), "terminal", k)
  BY <1>1, <1>2, <1>4, InnerWaits DEF Inner
<1>7. WaitSound(With(log, next[w], ev), "terminal", j)
  BY <1>1, <1>4, <1>5, InnerWaits DEF Inner
<1>8. CASE AppendInLoop(w, ev, Goto(w, "terminal", k))
  BY <1>1, <1>6, <1>8, WaitsLoop DEF PhaseOf
<1>9. CASE AppendInLoop(w, ev, Goto(w, "checkpoint", j))
  <2>1. WaitSound(With(log, next[w], ev), PhaseOf("checkpoint", j), j)
    BY <1>5, <1>7 DEF PhaseOf
  <2> QED
    BY <1>1, <1>9, <2>1, WaitsLoop
<1> QED
  BY <1>3, <1>8, <1>9

LEMMA AppendAssistantWaits ==
  ASSUME NEW w \in Workers, Waits(w), Undisturbed', AppendAssistant(w) PROVE WaitsOn(w)
<1> DEFINE ev == Assistant(job[w].todo)
           j == Before(job[w], "called")
           m == With(log, next[w], ev)
<1>1. /\ ev \in Event /\ ev.kind = "assistant" /\ ev.calls = job[w].todo /\ Active(w)
      /\ job[w] \in Jobs /\ LastRun(log, MaxSeq + 1, job[w].run) /\ ~ job[w].resumed
      /\ log \in [Seqs -> Event] /\ Empty(log, next[w])
  BY EventTypes, EventFields, WaitsOK DEF AppendAssistant, FitFor, Active, InRun, WaitSound
<1>2. /\ j.run = job[w].run /\ j.todo = job[w].todo /\ j.resumed = job[w].resumed
      /\ j.then = "called" /\ AppendInLoop(w, ev, Goto(w, "checkpoint", j))
  BY <1>1, ThenTypes DEF AppendAssistant, CheckpointThen, Before
<1>3. next[w] \in Seqs
  BY <1>2 DEF AppendInLoop, Place, Refused
<1> HIDE DEF ev, j
<1>4. LastRun(m, MaxSeq + 1, j.run) /\ \A c : Todo(j, c) => InBatch(m, c)
  BY <1>1, <1>2, <1>3, WithWaits DEF Todo
<1> HIDE DEF m
<1>5. WaitSound(m, "called", j)
  BY <1>1, <1>2, <1>4 DEF WaitSound, InRun, Acting
<1>6. WaitSound(With(log, next[w], ev), PhaseOf("checkpoint", j), j)
  BY <1>2, <1>5 DEF PhaseOf, m
<1> QED
  BY <1>1, <1>2, <1>6, WaitsLoop

LEMMA ResultsWaits ==
  ASSUME NEW w \in Workers, Waits(w), Undisturbed', Results(w) PROVE WaitsOn(w)
<1> DEFINE ev == ToolResult(Head(job[w].done))
           j == Reported(job[w])
           k == Before(j, "top")
<1>1. /\ Active(w) /\ InRun(at[w]) /\ job[w] \in Jobs /\ job[w].done # << >>
      /\ j \in Jobs /\ j.run = job[w].run /\ Head(job[w].done) \in Outcomes
  BY WaitsOK, ReportedOK DEF Results, FitFor, Active, InRun
<1>2. ev \in Event /\ ev.kind = "tool_result"
  BY <1>1, EventTypes, EventFields
<1>3. \/ AppendInLoop(w, ev, Goto(w, "checkpoint", k))
      \/ AppendInLoop(w, ev, Goto(w, "results", j))
  BY DEF Results, CheckpointThen, AppendInLoop, Before, Reported
<1>4. next[w] \in Seqs
  BY <1>3 DEF AppendInLoop, Place, Refused
<1> HIDE DEF ev, j
<1>5. k.run = job[w].run /\ k.then = "top"
  BY <1>1, ThenTypes
<1> HIDE DEF k
<1>6. WaitSound(With(log, next[w], ev), "results", j)
      /\ WaitSound(With(log, next[w], ev), "top", k)
  BY <1>1, <1>2, <1>4, <1>5, InnerWaits DEF Inner
<1>7. WaitSound(With(log, next[w], ev), PhaseOf("checkpoint", k), k)
      /\ WaitSound(With(log, next[w], ev), PhaseOf("results", j), j)
  BY <1>5, <1>6 DEF PhaseOf
<1> QED
  BY <1>1, <1>2, <1>3, <1>7, WaitsLoop

LEMMA SuspendWaits ==
  ASSUME NEW w \in Workers, Waits(w), Undisturbed', Suspend(w) PROVE WaitsOn(w)
<1> DEFINE ev == Suspension(job[w].call)
           j == Before(job[w], "terminal")
           m == With(log, next[w], ev)
<1>1. /\ ev \in Event /\ ev.kind = "suspension" /\ ev.call = job[w].call /\ Active(w)
      /\ job[w] \in Jobs /\ LastRun(log, MaxSeq + 1, job[w].run)
      /\ job[w].call \in Asking /\ InBatch(log, job[w].call)
      /\ log \in [Seqs -> Event] /\ Empty(log, next[w])
  BY EventTypes, EventFields, WaitsOK DEF Suspend, FitFor, Active, InRun, WaitSound
<1>2. /\ j.run = job[w].run /\ j.call = job[w].call
      /\ j.then = "terminal" /\ AppendInLoop(w, ev, Goto(w, "checkpoint", j))
  BY <1>1, ThenTypes DEF Suspend, CheckpointThen, Before
<1>3. next[w] \in Seqs
  BY <1>2 DEF AppendInLoop, Place, Refused
<1> HIDE DEF ev, j
<1>4. /\ LastRun(m, MaxSeq + 1, j.run) /\ InBatch(m, j.call)
      /\ LastSuspended(m, MaxSeq + 1, j.call)
  BY <1>1, <1>2, <1>3, WithWaits
<1> HIDE DEF m
<1>5. WaitSound(m, "terminal", j)
  BY <1>1, <1>2, <1>4 DEF WaitSound, InRun, Acting
<1>6. WaitSound(With(log, next[w], ev), PhaseOf("checkpoint", j), j)
  BY <1>2, <1>5 DEF PhaseOf, m
<1> QED
  BY <1>1, <1>2, <1>6, WaitsLoop

LEMMA FinishWaits ==
  ASSUME NEW w \in Workers, Waits(w), Undisturbed', Finish(w) PROVE WaitsOn(w)
<1> DEFINE ev == Verdict(w)
<1>1. /\ Active(w) /\ TInv /\ LastRun(log, MaxSeq + 1, job[w].run)
      /\ log \in [Seqs -> Event] /\ Empty(log, next[w])
      /\ WaitSound(log, "terminal", job[w])
  BY WaitsOK DEF Finish, Active, InRun
<1>2. /\ ev \in Event /\ ev.kind = "terminal_result" /\ ev.outcome = job[w].ends
      /\ ev.run = job[w].run /\ ev.call = job[w].call
  BY <1>1, VerdictOK, EventFields DEF Verdict
<1>3. Place(w, ev) /\ Goto(w, "closing", job[w])
  BY <1>1, NoRefusal DEF Finish
<1>4. next[w] \in Seqs
  BY <1>3 DEF Place
<1> HIDE DEF ev
<1>5. ev.outcome = "suspended" => LastSuspended(log, MaxSeq + 1, ev.call) /\ Pends(log)
  BY <1>1, <1>2 DEF WaitSound, Pends
<1>6. Concluded(With(log, next[w], ev))
  BY <1>1, <1>2, <1>4, <1>5, WithConcluded
<1>7. WaitSound(With(log, next[w], ev), PhaseOf("closing", job[w]), job[w])
  BY <1>6, AtRest DEF PhaseOf
<1> QED
  BY <1>1, <1>2, <1>3, <1>5, <1>7, WaitsPlace

LEMMA RestWaits ==
  ASSUME NEW w \in Workers, Waits(w), Close(w) \/ Query(w) \/ Resume(w) \/ Decide(w)
  PROVE  WaitsOn(w)
<1>1. log' = log /\ at[w] \in {"closing", "idle", "decide"}
  BY DEF Close, Query, Resume, Decide, store
<1>2. Concluded(log)
  BY <1>1, WaitsOK DEF WaitSound, InRun
<1>3. PICK p, j : Goto(w, p, j) /\ p \in {"idle", "start", "decide", "open"}
  BY DEF Close, Query, Resume, Decide, Rest
<1>4. WaitSound(log, PhaseOf(p, j), j)
  BY <1>2, <1>3, AtRest DEF PhaseOf
<1> QED
  BY <1>1, <1>3, <1>4, WaitsQuiet

LEMMA OpenWaits ==
  ASSUME NEW w \in Workers, Waits(w), Open(w) PROVE WaitsOn(w)
<1> DEFINE r == RunOf(Logged)
           P == Pending(Logged)
<1>1. /\ log' = log /\ Begun /\ TInv /\ RunsSound(log) /\ Concluded(log)
      /\ log \in [Seqs -> Event]
  BY WaitsOK DEF Open, store, HasRun, WaitSound, InRun
<1>2. /\ r \in Seqs /\ LastRun(log, MaxSeq + 1, r)
  <2>1. /\ r \in Seqs /\ r \in Of(Logged, "run_started")
        /\ \A s \in Of(Logged, "run_started") : s <= r
    BY <1>1, ResumedOK
  <2>2. \A s \in Seqs : s < MaxSeq + 1
    BY AgentRunAssumption DEF Seqs
  <2>3. \A s \in Seqs : log[s].kind = "run_started" => s \in Of(Logged, "run_started")
    BY EventFields DEF Of, Logged
  <2> HIDE DEF r
  <2> QED
    BY <2>1, <2>2, <2>3 DEF LastRun, Of
<1>3. CASE Rest(w)
  <2>1. Goto(w, "idle", NoJob)
    BY <1>3 DEF Rest
  <2>2. WaitSound(log, PhaseOf("idle", NoJob), NoJob)
    BY <1>1, AtRest DEF PhaseOf
  <2> QED
    BY <1>1, <2>1, <2>2, WaitsQuiet
<1>4. CASE Blocked(w)
  <2>1. Goto(w, "terminal", BlockedJob)
    BY <1>4 DEF Blocked, BlockedJob
  <2>2. BlockedJob.run = r /\ BlockedJob.ends = "guardrail"
    BY <1>1, ResumedOK
  <2> HIDE DEF r
  <2>3. WaitSound(log, PhaseOf("terminal", BlockedJob), BlockedJob)
    BY <1>2, <2>2, OnItsWay DEF PhaseOf
  <2> QED
    BY <1>1, <2>1, <2>3, WaitsQuiet
<1>5. CASE Continue(w) /\ Outcome(Logged, r) \in {"none", "suspended"}
  <2> DEFINE j == Resumed(P)
  <2>1. Goto(w, IF P = << >> THEN "top" ELSE "dispatch", j)
    BY <1>5 DEF Continue, Resumed
  <2>2. j.run = r /\ j.todo = P
    BY <1>1, PendingOK, ResumedOK
  <2>3. Pends(log)
    <3>1. PICK t \in Seqs :
            /\ log[t].kind = "terminal_result" /\ log[t].run = r
            /\ \A x \in Seqs : log[x].kind = "terminal_result" /\ log[x].run = r => x <= t
            /\ log[t].outcome = "suspended" => Pends(log)
      BY <1>1, <1>2 DEF Concluded
    <3>2. log[t].outcome = "suspended"
      BY <1>1, <1>5, <3>1, OutcomeOK
    <3> QED
      BY <3>1, <3>2
  <2>4. \A k \in DOMAIN P : InBatch(log, P[k])
    <3> SUFFICES ASSUME NEW k \in DOMAIN P PROVE InBatch(log, P[k])
      OBVIOUS
    <3>1. PICK t \in Of(Logged, "assistant") :
            /\ \A x \in Of(Logged, "assistant") : x <= t
            /\ \E i \in DOMAIN log[t].calls : log[t].calls[i] = P[k]
      BY <1>1, PendingOK
    <3>2. \A s \in Seqs : log[s].kind = "assistant" => s \in Of(Logged, "assistant")
      BY EventFields DEF Of, Logged
    <3>3. t \in Seqs /\ log[t].kind = "assistant"
      BY DEF Of, Logged
    <3> HIDE DEF P
    <3> QED
      BY <3>1, <3>2, <3>3 DEF InBatch
  <2> HIDE DEF r, P, j
  <2>5. \A c : Todo(j, c) => InBatch(log, c)
    BY <2>2, <2>4 DEF Todo
  <2>6. WaitSound(log, "top", j) /\ WaitSound(log, "dispatch", j)
    BY <1>2, <2>2, <2>3, <2>5 DEF WaitSound, InRun, Acting
  <2> QED
    BY <1>1, <2>1, <2>6, WaitsQuiet DEF PhaseOf
<1> QED
  BY <1>3, <1>4, <1>5 DEF Open

\* The bounds are used up, and never given back.
LEMMA StillUndisturbed ==
  ASSUME TInv, TInv', Undisturbed', NEW w \in Workers,
         Query(w) \/ Resume(w) \/ Step(w) \/ Crash(w)
  PROVE  Undisturbed /\ ~ Crash(w)
<1>0. /\ budget.crashes \in 0..MaxCrashes /\ budget.rejections \in 0..MaxRejections
      /\ MaxCrashes \in Nat /\ MaxRejections \in Nat
      /\ \A f \in {"queries", "resumes", "crashes", "rejections"} : budget[f] \in Int
  BY AgentRunAssumption DEF TInv, Budgets
<1>1. CASE budget' = budget
  <2>1. ~ Crash(w)
    <3> SUFFICES ASSUME Crash(w) PROVE FALSE
      OBVIOUS
    <3>1. budget'.crashes = budget.crashes - 1
      BY DEF Crash, TInv, Budgets
    <3> QED
      BY <1>0, <1>1, <3>1
  <2> QED
    BY <1>1, <2>1 DEF Undisturbed
<1>2. CASE \/ budget' = [budget EXCEPT !.queries = @ - 1]
           \/ budget' = [budget EXCEPT !.resumes = @ - 1]
  <2>1. budget'.crashes = budget.crashes /\ budget'.rejections = budget.rejections
    BY <1>2 DEF TInv, Budgets
  <2>2. ~ Crash(w)
    <3> SUFFICES ASSUME Crash(w) PROVE FALSE
      OBVIOUS
    <3>1. budget'.crashes = budget.crashes - 1
      BY DEF Crash, TInv, Budgets
    <3> QED
      BY <1>0, <2>1, <3>1
  <2> QED
    BY <2>1, <2>2 DEF Undisturbed
<1>3. CASE budget' = [budget EXCEPT !.crashes = @ - 1]
  <2>1. budget'.crashes = budget.crashes - 1
    BY <1>3 DEF TInv, Budgets
  <2> QED
    BY <1>0, <2>1 DEF Undisturbed
<1>4. CASE budget' = [budget EXCEPT !.rejections = @ - 1]
  <2>1. budget'.rejections = budget.rejections - 1
    BY <1>4 DEF TInv, Budgets
  <2> QED
    BY <1>0, <2>1 DEF Undisturbed
<1>5. \/ budget' = budget
      \/ budget' = [budget EXCEPT !.queries = @ - 1]
      \/ budget' = [budget EXCEPT !.resumes = @ - 1]
      \/ budget' = [budget EXCEPT !.crashes = @ - 1]
      \/ budget' = [budget EXCEPT !.rejections = @ - 1]
  BY DEF Query, Resume, Crash, Step, Start, User, Checkpoint, Stop, ModelFails, Interrupted,
         Model, AppendAssistant, Called, Look, Execute, Complete, Results, Suspend, Finish,
         Close, Decide, Open, AppendInLoop, Refused
<1> QED
  BY <1>1, <1>2, <1>3, <1>4, <1>5

LEMMA DInvStep ==
  ASSUME FInv, FInv', DInv, NEW w \in Workers, Query(w) \/ Resume(w) \/ Step(w) \/ Crash(w)
  PROVE  DInv'
<1> SUFFICES ASSUME Alone, AskOnce, Undisturbed' PROVE WaitsOn(w)
  BY DEF DInv, Alone, WaitsOn
<1>1. Undisturbed /\ ~ Crash(w)
  BY StillUndisturbed DEF FInv, SInv, Base
<1>2. Waits(w)
  BY <1>1 DEF DInv, Waits
<1> QED
  BY <1>1, <1>2, StartWaits, UserWaits, CheckpointWaits, TopWaits, InterruptedWaits, ModelWaits,
     AppendAssistantWaits, CalledWaits, ActWaits, ResultsWaits, SuspendWaits, FinishWaits,
     RestWaits, OpenWaits DEF Step

LEMMA InitDInv == Init => DInv
<1> SUFFICES ASSUME Init PROVE DInv
  OBVIOUS
<1>1. \A s \in Seqs : log[s].kind = "none"
  BY EventFields DEF Init
<1>2. Decidable(log) /\ Concluded(log)
  BY <1>1 DEF Decidable, Concluded, LastRun
<1>3. \A w \in Workers : PhaseOf(at[w], job[w]) = "idle"
  BY DEF Init, PhaseOf
<1> QED
  BY <1>2, <1>3, AtRest DEF DInv

LEMMA NextDInv == FInv /\ FInv' /\ DInv /\ [Next]_vars => DInv'
<1> SUFFICES ASSUME FInv, FInv', DInv, [Next]_vars PROVE DInv'
  OBVIOUS
<1>1. CASE UNCHANGED vars
  BY <1>1 DEF vars, store, worker, DInv, Undisturbed
<1>2. CASE Next
  BY <1>2, DInvStep DEF Next
<1> QED
  BY <1>1, <1>2

\* A suspension that is reported is the one that Agent.resume records a decision for,
\* however many runs, queries and resumes came before, as long as one worker drives the
\* session undisturbed and no answer of the model asks for two decisions.
THEOREM UndisturbedDecidable == Spec => [](Alone /\ AskOnce => DecidableUndisturbed)
<1>1. FInv /\ DInv => (Alone /\ AskOnce => DecidableUndisturbed)
  <2> SUFFICES ASSUME FInv, DInv, Alone, AskOnce, Undisturbed,
                      NEW t \in Of(Logged, "terminal_result"), log[t].outcome = "suspended"
               PROVE  LET before == {x \in Of(Logged, "suspension") : x < t} IN
                        before # {} /\ log[Max(before)].call = log[t].call
    BY DEF DecidableUndisturbed, SuspensionDecidable, Undisturbed
  <2> DEFINE B == {x \in Of(Logged, "suspension") : x < t}
  <2>1. LastSuspended(log, t, log[t].call)
    BY DEF DInv, Decidable, Of, Logged
  <2>2. PICK s \in Seqs : /\ s < t /\ log[s].kind = "suspension" /\ log[s].call = log[t].call
                          /\ \A x \in Seqs : x < t /\ log[x].kind = "suspension" => x <= s
    BY <2>1 DEF LastSuspended
  <2>3. B \in SUBSET Seqs /\ s \in B /\ \A x \in B : x <= s
    BY <2>2, EventFields DEF Of, Logged
  <2> HIDE DEF B
  <2>4. Max(B) = s
    BY <2>3, MaxIs
  <2> QED
    BY <2>2, <2>3, <2>4 DEF B
<1> QED
  BY InitFInv, NextFInv, InitDInv, NextDInv, <1>1, PTL DEF Spec
=============================================================================
