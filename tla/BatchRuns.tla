------------------------------ MODULE BatchRuns ------------------------------
(***************************************************************************)
(* BatchRunner.run (packages/server/src/batch-runner.ts): a list of items  *)
(* handed to a bounded number of lanes that share one index.               *)
(***************************************************************************)
EXTENDS Integers, Sequences, FiniteSets, SequencesExt

CONSTANTS Lanes, Count   \* the lanes are numbered from 1; Count items

VARIABLES
  collect,     \* collectResults
  nextIndex,
  lane,        \* what each lane does, and with which item
  results,     \* results array, empty unless collect
  inline,      \* the inline totals
  reported,    \* items for which onProgress was called
  aborted, cancelled,
  outcome,     \* what became of the promise of run()
  aggregate    \* what it resolved with

nvars == <<collect, nextIndex, lane, results, inline, reported, aborted,
           cancelled, outcome, aggregate>>

Ready == [is |-> "ready", item |-> 0]
Busy(item) == [is |-> "busy", item |-> item]
Ended == [is |-> "ended", item |-> 0]
Zero == [success |-> 0, error |-> 0]

Init ==
  /\ collect \in BOOLEAN
  /\ nextIndex = 0
  /\ lane = [l \in Lanes |-> Ready]
  /\ results = << >> /\ inline = Zero /\ reported = << >>
  /\ aborted \in BOOLEAN /\ cancelled = FALSE
  /\ outcome = "pending" /\ aggregate = Zero

\* The head of the loop: give up, or claim the next item.  No await between.
Claim(l, others) ==
  IF aborted THEN /\ lane' = [others EXCEPT ![l] = Ended]
                  /\ cancelled' = TRUE /\ UNCHANGED nextIndex
  ELSE IF nextIndex >= Count THEN /\ lane' = [others EXCEPT ![l] = Ended]
                                  /\ UNCHANGED <<cancelled, nextIndex>>
  ELSE /\ lane' = [others EXCEPT ![l] = Busy(nextIndex + 1)]
       /\ nextIndex' = nextIndex + 1 /\ UNCHANGED cancelled

\* processOne() is called for one lane after the other.
Launch(l) ==
  /\ lane[l] = Ready /\ \A k \in Lanes : k < l => lane[k] # Ready
  /\ Claim(l, lane)
  /\ UNCHANGED <<collect, results, inline, reported, aborted, outcome, aggregate>>

Launched == \A l \in Lanes : lane[l] # Ready

Count1(total, status) == [total EXCEPT ![status] = @ + 1]

Keep(item, status) ==
  IF collect THEN results' = Append(results, [item |-> item, status |-> status]) /\ UNCHANGED inline
  ELSE inline' = Count1(inline, status) /\ UNCHANGED results

\* backend.run came back.  onProgress may throw: the lane rejects, and with it
\* the promise of run(), while the other lanes go on.
Done(l) ==
  /\ Launched /\ lane[l].is = "busy"
  /\ \E status \in {"success", "error"} : Keep(lane[l].item, status)
  /\ reported' = Append(reported, lane[l].item)
  /\ \/ Claim(l, lane) /\ UNCHANGED outcome
     \/ /\ lane' = [lane EXCEPT ![l].is = "threw"]
        /\ outcome' = IF outcome = "pending" THEN "rejected" ELSE outcome
        /\ UNCHANGED <<nextIndex, cancelled>>
  /\ UNCHANGED <<collect, aborted, aggregate>>

Abort ==
  /\ Launched /\ ~ aborted /\ aborted' = TRUE
  /\ UNCHANGED <<collect, nextIndex, lane, results, inline, reported, cancelled,
                 outcome, aggregate>>

\* computeAggregate
Totals(seq) ==
  [success |-> Cardinality({i \in DOMAIN seq : seq[i].status = "success"}),
   error |-> Cardinality({i \in DOMAIN seq : seq[i].status = "error"})]

\* The faulty variant takes the first lane that ends for the end of all.
AnyEnded == \E l \in Lanes : lane[l] = Ended

AllEnded == \A l \in Lanes : lane[l] = Ended

\* Promise.all
Settle ==
  /\ outcome = "pending" /\ AllEnded
  /\ outcome' = "resolved"
  /\ cancelled' = (cancelled \/ aborted)
  /\ aggregate' = IF collect THEN Totals(results) ELSE inline
  /\ UNCHANGED <<collect, nextIndex, lane, results, inline, reported, aborted>>

Next == Abort \/ Settle \/ \E l \in Lanes : Launch(l) \/ Done(l)

Spec == Init /\ [][Next]_nvars

-----------------------------------------------------------------------------
\* Every variable has its type.
TypeOK ==
  /\ nextIndex \in 0..Count
  /\ lane \in [Lanes -> [is : {"ready", "busy", "ended", "threw"}, item : 0..Count]]
  /\ results \in Seq([item : 1..Count, status : {"success", "error"}])
  /\ outcome \in {"pending", "resolved", "rejected"}

\* No item is handed out twice, and a batch that resolves has an account of
\* every item it began, which is every item unless it was cancelled.
Accounts ==
  /\ IsInjective(reported)
  /\ outcome = "resolved" =>
       /\ aggregate.success + aggregate.error = nextIndex
       /\ ToSet(reported) = 1..nextIndex
       /\ ~ cancelled => nextIndex = Count
=============================================================================
