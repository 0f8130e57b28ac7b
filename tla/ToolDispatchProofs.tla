------------------------- MODULE ToolDispatchProofs -------------------------
(***************************************************************************)
(* Theorems about ToolDispatch, for any number of executors, calls, keys   *)
(* and erasures.                                                           *)
(***************************************************************************)
EXTENDS ToolDispatch, FiniteSetTheorems, TLAPS

USE DispatchAssumption

-----------------------------------------------------------------------------
(* The type invariant. *)

LEMMA InitType == Init => TypeOK
  BY DEF Init, TypeOK, ExecOK, NoRow, Row, Idle, Results, Stages, LedgerStages

LEMMA KeyType ==
  ASSUME ExecOK, NEW e \in Executors, exec[e].at # "idle"
  PROVE  /\ Call(e) \in Calls
         /\ Key(e) \in Keys \cup {NoKey}
         /\ Hash(e) \in Args
         /\ exec[e].at \in LedgerStages => Key(e) \in Keys
  BY DEF ExecOK, Call, Key, Hash

\* An executor moves to a stage with a call it is allowed to have there.
LEMMA MoveType ==
  ASSUME ExecOK, NEW e \in Executors, NEW s \in Stages, NEW c \in Calls,
         NEW r \in Results, s \in LedgerStages => KeyOf[c] \in Keys,
         exec' = [exec EXCEPT ![e] = [at |-> s, call |-> c, result |-> r]]
  PROVE  ExecOK'
  BY DEF ExecOK

LEMMA IdleType ==
  ASSUME ExecOK, NEW e \in Executors, exec' = [exec EXCEPT ![e] = Idle]
  PROVE  ExecOK'
  BY DEF ExecOK, Idle, Stages, LedgerStages, Results

LEMMA AnswerType ==
  ASSUME ExecOK, NEW e \in Executors, exec[e].at # "idle",
         NEW s \in Stages, NEW r \in Results,
         s \in LedgerStages => Key(e) \in Keys, Answer(e, s, r)
  PROVE  ExecOK'
  BY MoveType, KeyType DEF Answer, Call, Key

\* Reading a row back leaves an answer of the right type.
LEMMA ExistingType ==
  ASSUME ExecOK, NEW e \in Executors, exec[e].at # "idle",
         NEW a, NEW s, NEW r \in Results, Existing(e, a, s, r)
  PROVE  ExecOK'
  BY AnswerType DEF Existing, Stages, LedgerStages, Results

LEMMA StepType ==
  ASSUME TypeOK, NEW e \in Executors, Step(e)
  PROVE  TypeOK'
<1> USE DEF TypeOK
<1>k. exec[e].at # "idle"
  BY DEF Step, Lookup, Claim, Reread, Ask, Act, Complete, Release, At
<1>c. /\ Call(e) \in Calls
      /\ Key(e) \in Keys \cup {NoKey}
      /\ Hash(e) \in Args
      /\ exec[e].at \in LedgerStages => Key(e) \in Keys
  BY <1>k, KeyType
<1>1. ASSUME Lookup(e) PROVE TypeOK'
  <2>1. Key(e) \in Keys
    BY <1>1, <1>c DEF Lookup, At, LedgerStages
  <2>2. ledger[Key(e)].result \in Results
    BY <2>1 DEF Row
  <2>3. ExecOK'
    BY <1>1, <1>k, <2>1, <2>2, ExistingType, AnswerType
       DEF Lookup, Goto, Results, Stages
  <2> QED BY <1>1, <2>3 DEF Lookup, history
<1>2. ASSUME Claim(e) PROVE TypeOK'
  <2>1. Key(e) \in Keys
    BY <1>2, <1>c DEF Claim, At, LedgerStages
  <2>2. ExecOK'
    BY <1>2, <1>k, <2>1, AnswerType DEF Claim, Goto, Results, Stages
  <2>3. ledger' \in [Keys -> Row]
    BY <1>2, <2>1, <1>c DEF Claim, ClaimIntent, Row, Results
  <2> QED BY <1>2, <2>2, <2>3 DEF Claim, history
<1>3. ASSUME Reread(e) PROVE TypeOK'
  <2>1. Key(e) \in Keys
    BY <1>3, <1>c DEF Reread, At, LedgerStages
  <2>2. ledger[Key(e)].result \in Results
    BY <2>1 DEF Row
  <2>3. ExecOK'
    BY <1>3, <1>k, <2>2, ExistingType, AnswerType
       DEF Reread, Results, Stages, LedgerStages
  <2> QED BY <1>3, <2>3 DEF Reread, history
<1>4. ASSUME Ask(e) PROVE TypeOK'
  <2>1. ExecOK'
    BY <1>4, <1>k, <1>c, AnswerType DEF Ask, Goto, Results, Stages, LedgerStages
  <2>2. suspended' \subseteq Calls /\ finished' \subseteq Calls
    BY <1>4, <1>c DEF Ask
  <2> QED BY <1>4, <2>1, <2>2 DEF Ask
<1>5. ASSUME Act(e) PROVE TypeOK'
  <2>1. PICK performed \in BOOLEAN, returns \in BOOLEAN :
          /\ effects' = IF performed /\ Key(e) # NoKey
                          THEN [effects EXCEPT ![Key(e)] = @ + 1] ELSE effects
          /\ finished' = IF returns THEN finished \cup {Call(e)} ELSE finished
          /\ abandoned' = IF returns \/ Key(e) = NoKey THEN abandoned
                                                       ELSE abandoned \cup {Key(e)}
          /\ CASE ~returns -> Answer(e, "error", NoCall)
               [] returns /\ Key(e) = NoKey -> Answer(e, "ok", Call(e))
               [] returns /\ Key(e) # NoKey -> Goto(e, "complete")
    BY <1>5 DEF Act
  <2>2. ExecOK'
    BY <2>1, <1>k, <1>c, AnswerType DEF Goto, Results, Stages, LedgerStages
  <2>3. effects' \in [Keys -> Nat]
    BY <2>1, <1>c
  <2>4. finished' \subseteq Calls /\ abandoned' \subseteq Keys
    BY <2>1, <1>c
  <2> QED BY <1>5, <2>2, <2>3, <2>4 DEF Act
<1>6. ASSUME Complete(e) PROVE TypeOK'
  <2>1. Key(e) \in Keys
    BY <1>6, <1>c DEF Complete, At, LedgerStages
  <2>2. ExecOK'
    BY <1>6, <1>k, <1>c, AnswerType DEF Complete, Results, Stages, LedgerStages
  <2>3. ledger' \in [Keys -> Row]
    BY <1>6, <2>1, <1>c DEF Complete, RecordCompletion, Row, Results
  <2> QED BY <1>6, <2>2, <2>3 DEF Complete, history
<1>7. ASSUME Release(e) PROVE TypeOK'
  <2>1. Key(e) \in Keys
    BY <1>7, <1>c DEF Release, At, LedgerStages
  <2>2. ExecOK'
    BY <1>7, <1>k, <1>c, AnswerType, IdleType
       DEF Release, Results, Stages, LedgerStages
  <2>3. ledger' \in [Keys -> Row]
    BY <1>7, <2>1 DEF Release, ReleaseIntent, NoRow, Row, Results
  <2>4. suspended' \subseteq Calls
    BY <1>7, <1>c DEF Release
  <2> QED BY <1>7, <2>2, <2>3, <2>4 DEF Release, history
<1> QED BY <1>1, <1>2, <1>3, <1>4, <1>5, <1>6, <1>7 DEF Step

LEMMA NextType == TypeOK /\ [Next]_vars => TypeOK'
<1> SUFFICES ASSUME TypeOK, [Next]_vars PROVE TypeOK'
  OBVIOUS
<1> USE DEF TypeOK
<1>1. ASSUME NEW e \in Executors, NEW c \in Calls, Dispatch(e, c)
      PROVE  TypeOK'
  <2>1. ExecOK'
    BY <1>1, MoveType DEF Dispatch, Stages, LedgerStages, Results
  <2> QED BY <1>1, <2>1 DEF Dispatch, history
<1>2. ASSUME NEW e \in Executors, Crash(e) PROVE TypeOK'
  <2>1. exec[e].at # "idle"
    BY <1>2 DEF Crash, Between
  <2>2. ExecOK'
    BY <1>2, IdleType DEF Crash
  <2>3. abandoned' \subseteq Keys
    BY <1>2, <2>1, KeyType DEF Crash, Claimed
  <2> QED BY <1>2, <2>2, <2>3 DEF Crash
<1>3. ASSUME NEW c \in Calls, Decide(c) PROVE TypeOK'
  BY <1>3 DEF Decide, history, ExecOK
<1>4. ASSUME EraseScope PROVE TypeOK'
  BY <1>4 DEF EraseScope, ExecOK, NoRow, Row, Results
<1>5. CASE UNCHANGED vars
  BY <1>5 DEF vars, ExecOK
<1> QED BY <1>1, <1>2, <1>3, <1>4, <1>5, StepType DEF Next

\* The ledger, the decisions and every executor keep their types.
THEOREM TypeInvariance == Spec => []TypeOK
<1>1. TypeOK /\ [Next]_vars => TypeOK'
  BY NextType
<1> QED BY InitType, <1>1, PTL DEF Spec
-----------------------------------------------------------------------------
(* At most one effect per key and erasure.                                 *)
(*                                                                         *)
(* Effects happen between a successful claim and its completion or release,*)
(* so the argument counts, for each key, the executors in between: a claim *)
(* needs a key that is neither in the ledger nor known from a previous     *)
(* release, and only an erasure, or the release of such an executor, makes *)
(* a key unoccupied again.                                                 *)

\* The executors that may still perform the effect of k, or give it back.
Entitled(x, k) == {e \in Executors : /\ x[e].at \in {"execute", "act", "release"}
                                     /\ x[e].call \in Calls
                                     /\ KeyOf[x[e].call] = k}
Occupied(k) == IF ledger[k] # NoRow \/ legacy[k] # NoArgs THEN 1 ELSE 0
\* An executor past the lookup found no row of a previous release.
NoLegacyClaim ==
  \A e \in Executors :
    exec[e].at \in {"claim", "reread"} => legacy[KeyOf[exec[e].call]] = NoArgs
Budget ==
  \A k \in Keys : Cardinality(Entitled(exec, k)) + effects[k] <= erasures + Occupied(k)
IInv == TypeOK /\ NoLegacyClaim /\ Budget

LEMMA EntitledFinite ==
  ASSUME NEW k
  PROVE  IsFiniteSet(Entitled(exec, k)) /\ Cardinality(Entitled(exec, k)) \in Nat
<1>1. Entitled(exec, k) \subseteq Executors
  BY DEF Entitled
<1> QED BY <1>1, FS_Subset, FS_CardinalityType

\* Two sets that differ at most in e differ by at most one in size.
LEMMA OneElement ==
  ASSUME NEW A, NEW B, NEW e, IsFiniteSet(A), \A d : d # e => (d \in A <=> d \in B)
  PROVE  /\ Cardinality(A) \in Nat /\ Cardinality(B) \in Nat
         /\ e \in A /\ e \notin B => Cardinality(B) = Cardinality(A) - 1
         /\ e \notin A /\ e \in B => Cardinality(B) = Cardinality(A) + 1
         /\ (e \in A <=> e \in B) => Cardinality(B) = Cardinality(A)
<1>1. Cardinality(A) \in Nat
  BY FS_CardinalityType
<1>2. CASE e \in A /\ e \notin B
  <2>1. B = A \ {e}
    BY <1>2
  <2>2. Cardinality(B) = Cardinality(A) - 1 /\ IsFiniteSet(B)
    BY <1>2, <2>1, FS_RemoveElement
  <2> QED BY <1>1, <1>2, <2>2, FS_CardinalityType
<1>3. CASE e \notin A /\ e \in B
  <2>1. B = A \cup {e}
    BY <1>3
  <2>2. Cardinality(B) = Cardinality(A) + 1 /\ IsFiniteSet(B)
    BY <1>3, <2>1, FS_AddElement
  <2> QED BY <1>1, <1>3, <2>2, FS_CardinalityType
<1>4. CASE e \in A <=> e \in B
  <2>1. B = A
    BY <1>4
  <2> QED BY <1>1, <1>4, <2>1
<1> QED BY <1>2, <1>3, <1>4

\* When one executor moves, the count changes by at most that executor.
LEMMA EntitledMove ==
  ASSUME ExecOK, NEW e \in Executors, NEW r, exec' = [exec EXCEPT ![e] = r], NEW k
  PROVE  /\ Cardinality(Entitled(exec, k)) \in Nat
         /\ Cardinality(Entitled(exec', k)) \in Nat
         /\ e \in Entitled(exec, k) /\ e \notin Entitled(exec', k) =>
              Cardinality(Entitled(exec', k)) = Cardinality(Entitled(exec, k)) - 1
         /\ e \notin Entitled(exec, k) /\ e \in Entitled(exec', k) =>
              Cardinality(Entitled(exec', k)) = Cardinality(Entitled(exec, k)) + 1
         /\ (e \in Entitled(exec, k) <=> e \in Entitled(exec', k)) =>
              Cardinality(Entitled(exec', k)) = Cardinality(Entitled(exec, k))
<1>1. IsFiniteSet(Entitled(exec, k))
  BY EntitledFinite
<1>2. \A d : d # e => (d \in Entitled(exec, k) <=> d \in Entitled(exec', k))
  BY DEF Entitled, ExecOK
<1> QED BY <1>1, <1>2, OneElement

LEMMA OccupiedType == ASSUME NEW k PROVE Occupied(k) \in {0, 1}
  BY DEF Occupied

\* A move that entitles nobody, performs nothing and keeps every occupied key
\* occupied preserves the budget.
LEMMA BudgetKept ==
  ASSUME TypeOK, TypeOK', Budget, NEW e \in Executors, NEW r,
         exec' = [exec EXCEPT ![e] = r], UNCHANGED <<effects, erasures>>,
         \A k \in Keys : e \in Entitled(exec', k) => e \in Entitled(exec, k),
         \A k \in Keys : Occupied(k) <= Occupied(k)'
  PROVE  Budget'
<1> SUFFICES ASSUME NEW k \in Keys
             PROVE  Cardinality(Entitled(exec', k)) + effects'[k] <= erasures' + Occupied(k)'
  BY DEF Budget
<1>1. /\ Cardinality(Entitled(exec, k)) \in Nat /\ Cardinality(Entitled(exec', k)) \in Nat
      /\ Cardinality(Entitled(exec', k)) <= Cardinality(Entitled(exec, k))
  <2>1. ExecOK
    BY DEF TypeOK
  <2>2. e \in Entitled(exec', k) => e \in Entitled(exec, k)
    OBVIOUS
  <2>3. /\ Cardinality(Entitled(exec, k)) \in Nat
        /\ Cardinality(Entitled(exec', k)) \in Nat
        /\ \/ Cardinality(Entitled(exec', k)) = Cardinality(Entitled(exec, k))
           \/ Cardinality(Entitled(exec', k)) = Cardinality(Entitled(exec, k)) - 1
    BY <2>1, <2>2, EntitledMove
  <2> QED BY <2>3
<1>2. effects[k] \in Nat /\ erasures \in Nat
  BY DEF TypeOK
<1>3. Occupied(k) \in {0, 1} /\ Occupied(k)' \in {0, 1}
  BY DEF Occupied
<1>4. Cardinality(Entitled(exec, k)) + effects[k] <= erasures + Occupied(k)
  BY DEF Budget
<1>5. Occupied(k) <= Occupied(k)'
  OBVIOUS
<1> QED BY <1>1, <1>2, <1>3, <1>4, <1>5

LEMMA BudgetStep ==
  ASSUME IInv, NEW e \in Executors, Step(e)
  PROVE  IInv'
<1>t. TypeOK /\ TypeOK' /\ ExecOK
  BY StepType DEF IInv, TypeOK
<1>k. exec[e].at # "idle"
  BY DEF Step, Lookup, Claim, Reread, Ask, Act, Complete, Release, At
<1>c. /\ Call(e) \in Calls /\ exec[e].call = Call(e)
      /\ Key(e) \in Keys \cup {NoKey}
      /\ exec[e].at \in LedgerStages => Key(e) \in Keys
  BY <1>t, <1>k, KeyType DEF Call
<1>n. NoLegacyClaim /\ Budget
  BY DEF IInv
<1>m. ASSUME NEW s, NEW r, Answer(e, s, r)
      PROVE  /\ exec' = [exec EXCEPT ![e] = [at |-> s, call |-> Call(e), result |-> r]]
             /\ exec'[e] = [at |-> s, call |-> Call(e), result |-> r]
             /\ s \notin {"claim", "reread"} /\ UNCHANGED legacy => NoLegacyClaim'
             /\ \A k : e \in Entitled(exec', k) <=>
                     s \in {"execute", "act", "release"} /\ k = Key(e)
  <2>1. exec'[e] = [at |-> s, call |-> Call(e), result |-> r]
    BY <1>m, <1>t DEF Answer, ExecOK
  <2>2. \A d \in Executors : d # e => exec'[d] = exec[d]
    BY <1>m, <1>t DEF Answer, ExecOK
  <2>3. s \notin {"claim", "reread"} /\ UNCHANGED legacy => NoLegacyClaim'
    BY <2>1, <2>2, <1>n DEF NoLegacyClaim
  <2>4. \A k : e \in Entitled(exec', k) <=>
               s \in {"execute", "act", "release"} /\ k = Key(e)
    BY <2>1, <1>c DEF Entitled, Key
  <2> QED BY <1>m, <2>1, <2>3, <2>4 DEF Answer
<1>e. \A k : e \in Entitled(exec, k) <=>
             exec[e].at \in {"execute", "act", "release"} /\ k = Key(e)
  BY <1>c DEF Entitled, Key
\* A stage before the claim entitles nobody.
<1>b. ASSUME NEW s \in {"claim", "reread"}, Goto(e, s),
             UNCHANGED <<effects, erasures>>,
             \A k \in Keys : Occupied(k) <= Occupied(k)'
      PROVE  Budget'
  <2>1. exec' = [exec EXCEPT ![e] = [at |-> s, call |-> Call(e), result |-> NoCall]]
    BY <1>b DEF Goto, Answer
  <2>2. \A k \in Keys : e \notin Entitled(exec', k)
    BY <2>1, <1>t DEF Entitled, ExecOK
  <2> QED BY <1>b, <2>1, <2>2, <1>t, <1>n, BudgetKept
\* An answer of a call that was not, or is no longer, entitled.
<1>a. ASSUME NEW s \in Stages, NEW r, Answer(e, s, r), s \notin {"claim", "reread"},
             s \in {"execute", "act", "release"} =>
               exec[e].at \in {"execute", "act", "release"},
             UNCHANGED <<legacy, effects, erasures>>,
             \A k \in Keys : Occupied(k) <= Occupied(k)'
      PROVE  IInv'
  <2>1. Budget'
    <3>1. exec' = [exec EXCEPT ![e] = [at |-> s, call |-> Call(e), result |-> r]]
      BY <1>a DEF Answer
    <3>2. \A k \in Keys : e \in Entitled(exec', k) => e \in Entitled(exec, k)
      BY <1>a, <1>m, <1>e
    <3> QED BY <1>a, <3>1, <3>2, <1>t, <1>n, BudgetKept
  <2> QED BY <2>1, <1>a, <1>m, <1>t DEF IInv
<1>o. UNCHANGED <<ledger, legacy>> => \A k \in Keys : Occupied(k) <= Occupied(k)'
  BY DEF Occupied
<1>x. ASSUME NEW a, NEW s, NEW r, Existing(e, a, s, r),
             UNCHANGED <<ledger, legacy, effects, erasures>>
      PROVE  IInv'
  BY <1>x, <1>a, <1>o DEF Existing, Stages
<1>1. ASSUME Lookup(e) PROVE IInv'
  <2>1. CASE ledger[Key(e)] = NoRow /\ legacy[Key(e)] = NoArgs
    <3>1. Goto(e, "claim") /\ UNCHANGED <<ledger, legacy, effects, erasures>>
      BY <1>1, <2>1 DEF Lookup, Existing, history
    <3>2. Budget'
      BY <3>1, <1>b, <1>o DEF Stages
    <3>3. NoLegacyClaim'
      BY <3>1, <2>1, <1>n, <1>c, <1>t DEF NoLegacyClaim, Goto, Answer, Key, Call, ExecOK
    <3> QED BY <3>2, <3>3, <1>t DEF IInv
  <2> QED BY <1>1, <2>1, <1>x DEF Lookup, history
<1>2. ASSUME Claim(e) PROVE IInv'
  <2>1. Key(e) \in Keys /\ legacy[Key(e)] = NoArgs
    BY <1>2, <1>c, <1>n DEF Claim, At, LedgerStages, NoLegacyClaim, Key
  <2>u. UNCHANGED <<legacy, effects, erasures>>
    BY <1>2 DEF Claim, history
  <2>2. CASE ledger[Key(e)] = NoRow
    <3>1. /\ Goto(e, "execute") /\ ClaimIntent(Key(e), Hash(e))
      BY <1>2, <2>2 DEF Claim
    <3>2. SUFFICES Budget'
      BY <3>1, <2>u, <1>m, <1>t DEF IInv, Goto
    <3>3. SUFFICES ASSUME NEW k \in Keys
                   PROVE  Cardinality(Entitled(exec', k)) + effects'[k]
                            <= erasures' + Occupied(k)'
      BY DEF Budget
    <3>4. /\ Cardinality(Entitled(exec, k)) \in Nat /\ Cardinality(Entitled(exec', k)) \in Nat
          /\ k = Key(e) => Cardinality(Entitled(exec', k)) = Cardinality(Entitled(exec, k)) + 1
          /\ k # Key(e) => Cardinality(Entitled(exec', k)) = Cardinality(Entitled(exec, k))
      <4>1. e \notin Entitled(exec, k)
        BY <1>2, <1>e DEF Claim, At
      <4>2. e \in Entitled(exec', k) <=> k = Key(e)
        BY <3>1, <1>c, <1>t DEF Goto, Answer, Entitled, Key, ExecOK
      <4>3. exec' = [exec EXCEPT ![e] =
                       [at |-> "execute", call |-> Call(e), result |-> NoCall]]
        BY <3>1 DEF Goto, Answer
      <4> QED BY <4>1, <4>2, <4>3, <1>t, EntitledMove
    <3>5. /\ k = Key(e) => Occupied(k) = 0 /\ Occupied(k)' = 1
          /\ k # Key(e) => Occupied(k)' = Occupied(k)
      BY <3>1, <2>1, <2>2, <2>u, <1>t DEF Occupied, ClaimIntent, NoRow, TypeOK
    <3>6. Cardinality(Entitled(exec, k)) + effects[k] <= erasures + Occupied(k)
      BY <1>n DEF Budget
    <3> QED BY <3>4, <3>5, <3>6, <2>u, <1>t, OccupiedType DEF TypeOK
  <2>3. CASE ledger[Key(e)] # NoRow
    <3>1. Goto(e, "reread") /\ UNCHANGED ledger
      BY <1>2, <2>3 DEF Claim
    <3>2. Budget'
      BY <3>1, <2>u, <1>b, <1>o DEF Stages
    <3>3. NoLegacyClaim'
      BY <3>1, <2>1, <2>u, <1>n, <1>c, <1>t DEF NoLegacyClaim, Goto, Answer, Key, Call, ExecOK
    <3> QED BY <3>2, <3>3, <1>t DEF IInv
  <2> QED BY <2>2, <2>3
<1>3. ASSUME Reread(e) PROVE IInv'
  <2>1. UNCHANGED <<ledger, legacy, effects, erasures>>
    BY <1>3 DEF Reread, history
  <2>2. ASSUME Answer(e, "error", NoCall) PROVE IInv'
    BY <2>1, <2>2, <1>a, <1>o DEF Stages
  <2> QED BY <1>3, <2>1, <2>2, <1>x DEF Reread
<1>4. ASSUME Ask(e) PROVE IInv'
  <2>1. UNCHANGED <<ledger, legacy, effects, erasures>> /\ exec[e].at = "execute"
    BY <1>4 DEF Ask, At
  <2>2. ASSUME NEW s \in {"act", "ok", "complete", "suspended", "release"}, NEW r,
               Answer(e, s, r)
        PROVE  IInv'
    BY <2>1, <2>2, <1>a, <1>o DEF Stages
  <2> QED BY <1>4, <2>2 DEF Ask, Goto
<1>5. ASSUME Act(e) PROVE IInv'
  <2>1. PICK s \in {"error", "ok", "complete"}, r \in Results, n \in {0, 1} :
          /\ Answer(e, s, r)
          /\ effects' = IF n = 1 /\ Key(e) # NoKey
                          THEN [effects EXCEPT ![Key(e)] = @ + 1] ELSE effects
    <3>1. PICK performed \in BOOLEAN, returns \in BOOLEAN :
            /\ effects' = IF performed /\ Key(e) # NoKey
                            THEN [effects EXCEPT ![Key(e)] = @ + 1] ELSE effects
            /\ CASE ~returns -> Answer(e, "error", NoCall)
                 [] returns /\ Key(e) = NoKey -> Answer(e, "ok", Call(e))
                 [] returns /\ Key(e) # NoKey -> Goto(e, "complete")
      BY <1>5 DEF Act
    <3>2. \E s \in {"error", "ok", "complete"}, r \in Results : Answer(e, s, r)
      BY <3>1, <1>c DEF Goto, Results
    <3>3. CASE performed
      BY <3>1, <3>2, <3>3
    <3>4. CASE ~performed
      BY <3>1, <3>2, <3>4
    <3> QED BY <3>3, <3>4
  <2>u. UNCHANGED <<ledger, legacy, erasures>> /\ exec[e].at = "act"
    BY <1>5 DEF Act, At
  <2>2. SUFFICES Budget'
    BY <2>1, <2>u, <1>m, <1>t DEF IInv
  <2>3. SUFFICES ASSUME NEW k \in Keys
                 PROVE  Cardinality(Entitled(exec', k)) + effects'[k]
                          <= erasures' + Occupied(k)'
    BY DEF Budget
  <2>4. /\ Cardinality(Entitled(exec, k)) \in Nat /\ Cardinality(Entitled(exec', k)) \in Nat
        /\ k = Key(e) => Cardinality(Entitled(exec', k)) = Cardinality(Entitled(exec, k)) - 1
        /\ k # Key(e) => Cardinality(Entitled(exec', k)) = Cardinality(Entitled(exec, k))
    <3>1. e \in Entitled(exec, k) <=> k = Key(e)
      BY <2>u, <1>e
    <3>2. e \notin Entitled(exec', k)
      BY <2>1, <1>m
    <3>3. exec' = [exec EXCEPT ![e] = [at |-> s, call |-> Call(e), result |-> r]]
      BY <2>1 DEF Answer
    <3> QED BY <3>1, <3>2, <3>3, <1>t, EntitledMove
  <2>5. /\ k = Key(e) => effects'[k] <= effects[k] + 1
        /\ k # Key(e) => effects'[k] = effects[k]
        /\ effects[k] \in Nat /\ effects'[k] \in Nat /\ erasures \in Nat
    BY <2>1, <1>t DEF TypeOK
  <2>6. Occupied(k)' = Occupied(k)
    BY <2>u DEF Occupied
  <2>7. Cardinality(Entitled(exec, k)) + effects[k] <= erasures + Occupied(k)
    BY <1>n DEF Budget
  <2> QED BY <2>4, <2>5, <2>6, <2>7, <2>u, OccupiedType
<1>6. ASSUME Complete(e) PROVE IInv'
  <2>1. Answer(e, "ok", Call(e)) /\ UNCHANGED <<legacy, effects, erasures>>
    BY <1>6 DEF Complete, history
  <2>2. \A k \in Keys : Occupied(k) <= Occupied(k)'
    BY <1>6, <1>t DEF Complete, RecordCompletion, Occupied, NoRow, TypeOK
  <2> QED BY <2>1, <2>2, <1>a DEF Stages
<1>7. ASSUME Release(e) PROVE IInv'
  <2>u. UNCHANGED <<legacy, effects, erasures>> /\ exec[e].at = "release"
    BY <1>7 DEF Release, At, history
  <2>1. PICK s \in {"suspended", "idle"}, c \in Calls \cup {NoCall} :
          exec' = [exec EXCEPT ![e] = [at |-> s, call |-> c, result |-> NoCall]]
    BY <1>7, <1>c DEF Release, Answer, Idle
  <2>2. NoLegacyClaim'
    BY <2>1, <2>u, <1>n, <1>t DEF NoLegacyClaim, ExecOK
  <2>3. SUFFICES ASSUME NEW k \in Keys
                 PROVE  Cardinality(Entitled(exec', k)) + effects'[k]
                          <= erasures' + Occupied(k)'
    BY <2>2, <1>t DEF Budget, IInv
  <2>4. /\ Cardinality(Entitled(exec, k)) \in Nat /\ Cardinality(Entitled(exec', k)) \in Nat
        /\ k = Key(e) => Cardinality(Entitled(exec', k)) = Cardinality(Entitled(exec, k)) - 1
        /\ k # Key(e) => Cardinality(Entitled(exec', k)) = Cardinality(Entitled(exec, k))
    <3>1. e \in Entitled(exec, k) <=> k = Key(e)
      BY <2>u, <1>e
    <3>2. e \notin Entitled(exec', k)
      BY <2>1, <1>t DEF Entitled, ExecOK
    <3> QED BY <3>1, <3>2, <2>1, <1>t, EntitledMove
  <2>5. k # Key(e) => Occupied(k)' = Occupied(k)
    BY <1>7, <2>u, <1>t, <1>c DEF Release, ReleaseIntent, Occupied, TypeOK
  <2>6. Cardinality(Entitled(exec, k)) + effects[k] <= erasures + Occupied(k)
    BY <1>n DEF Budget
  <2>7. Occupied(k) \in {0, 1} /\ Occupied(k)' \in {0, 1}
    BY DEF Occupied
  <2>8. effects[k] \in Nat /\ erasures \in Nat /\ effects'[k] = effects[k]
        /\ erasures' = erasures
    BY <2>u, <1>t DEF TypeOK
  <2> QED BY <2>4, <2>5, <2>6, <2>7, <2>8
<1> QED BY <1>1, <1>2, <1>3, <1>4, <1>5, <1>6, <1>7 DEF Step
LEMMA BudgetInductive == IInv /\ [Next]_vars => IInv'
<1> SUFFICES ASSUME IInv, [Next]_vars PROVE IInv'
  OBVIOUS
<1>t. TypeOK /\ TypeOK' /\ ExecOK
  BY NextType DEF IInv, TypeOK
<1>n. NoLegacyClaim /\ Budget
  BY DEF IInv
<1>o. UNCHANGED <<ledger, legacy>> => \A k \in Keys : Occupied(k) <= Occupied(k)'
  BY DEF Occupied
<1>1. ASSUME NEW e \in Executors, NEW c \in Calls, Dispatch(e, c)
      PROVE  IInv'
  <2>1. PICK s \in {"error", "lookup", "execute"} :
          /\ s = "execute" => KeyOf[c] = NoKey
          /\ exec' = [exec EXCEPT ![e] = [at |-> s, call |-> c, result |-> NoCall]]
    BY <1>1 DEF Dispatch
  <2>2. \A k \in Keys : e \notin Entitled(exec', k)
    BY <2>1, <1>t DEF Entitled, ExecOK
  <2>3. UNCHANGED <<ledger, legacy, effects, erasures>>
    BY <1>1 DEF Dispatch, history
  <2>4. Budget'
    BY <2>1, <2>2, <2>3, <1>t, <1>n, <1>o, BudgetKept
  <2>5. NoLegacyClaim'
    BY <2>1, <2>3, <1>t, <1>n DEF NoLegacyClaim, ExecOK
  <2> QED BY <2>4, <2>5, <1>t DEF IInv
<1>2. ASSUME NEW e \in Executors, Crash(e) PROVE IInv'
  <2>1. exec' = [exec EXCEPT ![e] = Idle] /\ UNCHANGED <<ledger, legacy, effects, erasures>>
    BY <1>2 DEF Crash
  <2>2. \A k \in Keys : e \notin Entitled(exec', k)
    BY <2>1, <1>t DEF Entitled, ExecOK, Idle
  <2>3. Budget'
    BY <2>1, <2>2, <1>t, <1>n, <1>o, BudgetKept
  <2>4. NoLegacyClaim'
    BY <2>1, <1>t, <1>n DEF NoLegacyClaim, ExecOK, Idle
  <2> QED BY <2>3, <2>4, <1>t DEF IInv
<1>3. ASSUME NEW c \in Calls, Decide(c) PROVE IInv'
  <2>1. UNCHANGED <<ledger, legacy, exec, effects, erasures>>
    BY <1>3 DEF Decide, history
  <2> QED BY <2>1, <1>t, <1>n DEF IInv, NoLegacyClaim, Budget, Occupied
<1>4. ASSUME EraseScope PROVE IInv'
  <2>1. /\ UNCHANGED <<exec, effects>> /\ erasures' = erasures + 1
        /\ \A k \in Keys : ledger'[k] = NoRow /\ legacy'[k] = NoArgs
    BY <1>4 DEF EraseScope
  <2>2. NoLegacyClaim'
    BY <2>1, <1>t DEF NoLegacyClaim, ExecOK, LedgerStages
  <2>3. ASSUME NEW k \in Keys
        PROVE  Cardinality(Entitled(exec', k)) + effects'[k] <= erasures' + Occupied(k)'
    <3>1. Occupied(k) \in {0, 1} /\ Occupied(k)' = 0
      BY <2>1 DEF Occupied
    <3>2. /\ Cardinality(Entitled(exec, k)) \in Nat /\ effects[k] \in Nat
          /\ erasures \in Nat
      BY <1>t, EntitledFinite DEF TypeOK
    <3>3. Cardinality(Entitled(exec, k)) + effects[k] <= erasures + Occupied(k)
      BY <1>n DEF Budget
    <3> QED BY <2>1, <3>1, <3>2, <3>3
  <2> QED BY <2>2, <2>3, <1>t DEF IInv, Budget
<1>5. CASE UNCHANGED vars
  BY <1>5, <1>t, <1>n DEF IInv, vars, NoLegacyClaim, Budget, Occupied
<1> QED BY <1>1, <1>2, <1>3, <1>4, <1>5, BudgetStep DEF Next

LEMMA BudgetInit == Init => IInv
<1> SUFFICES ASSUME Init PROVE IInv
  OBVIOUS
<1>1. TypeOK
  BY InitType
<1>2. NoLegacyClaim
  BY DEF Init, NoLegacyClaim, Idle
<1>3. ASSUME NEW k \in Keys
      PROVE  Cardinality(Entitled(exec, k)) + effects[k] <= erasures + Occupied(k)
  <2>1. Entitled(exec, k) = {}
    BY DEF Init, Entitled, Idle
  <2>2. Cardinality(Entitled(exec, k)) = 0
    BY <2>1, FS_EmptySet
  <2>3. effects[k] = Occupied(k) /\ effects[k] \in Nat /\ erasures = 0
    BY <1>1 DEF Init, Occupied, TypeOK
  <2> QED BY <2>2, <2>3
<1> QED BY <1>1, <1>2, <1>3 DEF IInv, Budget

\* The side effect of a key is performed at most once, and at most once more
\* for each erasure of its scope, whatever the number of executors.
THEOREM AtMostOnce == Spec => []EffectBound
<1>1. IInv => EffectBound
  <2> SUFFICES ASSUME IInv, NEW k \in Keys PROVE effects[k] <= 1 + erasures
    BY DEF EffectBound
  <2>1. /\ Cardinality(Entitled(exec, k)) \in Nat /\ effects[k] \in Nat
        /\ erasures \in Nat /\ Occupied(k) \in {0, 1}
    BY EntitledFinite, OccupiedType DEF IInv, TypeOK
  <2>2. Cardinality(Entitled(exec, k)) + effects[k] <= erasures + Occupied(k)
    BY DEF IInv, Budget
  <2> QED BY <2>1, <2>2
<1> QED BY BudgetInit, BudgetInductive, <1>1, PTL DEF Spec

-----------------------------------------------------------------------------
(* Every pending intent has an owner.                                      *)
(*                                                                         *)
(* NoLeakedIntent alone is not inductive: the executor whose release is    *)
(* refused leaves an intent behind, which is another one's because its     *)
(* arguments differ.  The invariant therefore names the holder whose       *)
(* arguments the row has.                                                  *)

IntentOwned ==
  \A k \in Keys :
    ledger[k].status = "intent" =>
      \/ \E e \in Holders(k) : Hash(e) = ledger[k].args
      \/ k \in abandoned

\* The others keep what they hold when one executor moves.
LEMMA OthersHold ==
  ASSUME ExecOK, NEW e \in Executors, NEW x, exec' = [exec EXCEPT ![e] = x],
         NEW d \in Executors, d # e, NEW k
  PROVE  /\ d \in Holders(k)' <=> d \in Holders(k)
         /\ Hash(d)' = Hash(d)
  BY DEF ExecOK, Holders, Claimed, Key, Call, Hash

LEMMA IntentStep ==
  ASSUME TypeOK, IntentOwned, NEW e \in Executors, Step(e)
  PROVE  IntentOwned'
<1>t. ExecOK
  BY DEF TypeOK
<1>k. exec[e].at # "idle"
  BY DEF Step, Lookup, Claim, Reread, Ask, Act, Complete, Release, At
<1>c. /\ Call(e) \in Calls
      /\ Key(e) \in Keys \cup {NoKey}
      /\ exec[e].at \in LedgerStages => Key(e) \in Keys
  BY <1>t, <1>k, KeyType
<1>m. ASSUME NEW s, NEW r, Answer(e, s, r)
      PROVE  /\ exec' = [exec EXCEPT ![e] = [at |-> s, call |-> Call(e), result |-> r]]
             /\ Hash(e)' = Hash(e) /\ Key(e)' = Key(e)
             /\ \A k : e \in Holders(k)' <=>
                  k = Key(e) /\ Key(e) # NoKey /\ s \in {"execute", "act", "release", "complete"}
  <2>1. exec'[e] = [at |-> s, call |-> Call(e), result |-> r]
    BY <1>m, <1>t DEF Answer, ExecOK
  <2> QED BY <1>m, <2>1 DEF Answer, Hash, Key, Call, Holders, Claimed
\* The table is as before, and e held nothing or still does.
<1>s. ASSUME NEW x, exec' = [exec EXCEPT ![e] = x], UNCHANGED ledger,
             abandoned \subseteq abandoned',
             \A k \in Keys : e \in Holders(k) =>
               (e \in Holders(k)' /\ Hash(e)' = Hash(e)) \/ k \in abandoned'
      PROVE  IntentOwned'
  <2> SUFFICES ASSUME NEW k \in Keys, ledger[k].status = "intent"
               PROVE  \/ \E d \in Holders(k)' : Hash(d)' = ledger[k].args
                      \/ k \in abandoned'
    BY <1>s DEF IntentOwned
  <2>1. CASE k \in abandoned
    BY <2>1, <1>s
  <2>2. ASSUME NEW d \in Holders(k), Hash(d) = ledger[k].args
        PROVE  \/ \E i \in Holders(k)' : Hash(i)' = ledger[k].args
               \/ k \in abandoned'
    <3>1. d \in Executors
      BY DEF Holders
    <3>2. CASE d = e
      BY <3>2, <2>2, <1>s
    <3>3. CASE d # e
      BY <3>1, <3>3, <2>2, <1>s, <1>t, OthersHold
    <3> QED BY <3>2, <3>3
  <2> QED BY <2>1, <2>2 DEF IntentOwned
\* A stage of e in which it holds nothing.
<1>f. exec[e].at \notin {"execute", "act", "release", "complete"} =>
        \A k : e \notin Holders(k)
  BY DEF Holders, Claimed
<1>h. \A k : e \in Holders(k) => k = Key(e) /\ Key(e) # NoKey
  BY DEF Holders, Claimed
<1>1. CASE Lookup(e) \/ Reread(e)
  <2>1. UNCHANGED <<ledger, abandoned>> /\ \A k : e \notin Holders(k)
    BY <1>1, <1>f DEF Lookup, Reread, At, history
  <2>2. \E x : exec' = [exec EXCEPT ![e] = x]
    BY <1>1 DEF Lookup, Reread, Existing, Goto, Answer
  <2> QED BY <2>1, <2>2, <1>s
<1>2. ASSUME Claim(e) PROVE IntentOwned'
  <2>1. UNCHANGED abandoned /\ (\A k : e \notin Holders(k)) /\ Key(e) \in Keys
    BY <1>2, <1>f, <1>c DEF Claim, At, history, LedgerStages
  <2>2. CASE ledger[Key(e)] # NoRow
    <3>1. UNCHANGED ledger /\ \E x : exec' = [exec EXCEPT ![e] = x]
      BY <1>2, <2>2 DEF Claim, Goto, Answer
    <3> QED BY <2>1, <3>1, <1>s
  <2>3. CASE ledger[Key(e)] = NoRow
    <3>1. ClaimIntent(Key(e), Hash(e)) /\ Answer(e, "execute", NoCall)
      BY <1>2, <2>3 DEF Claim, Goto
    <3>2. exec' = [exec EXCEPT ![e] =
                     [at |-> "execute", call |-> Call(e), result |-> NoCall]]
      BY <3>1, <1>m
    <3>3. ledger'[Key(e)].args = Hash(e)
      BY <3>1, <2>1 DEF ClaimIntent, TypeOK
    <3> SUFFICES ASSUME NEW k \in Keys, ledger'[k].status = "intent"
                 PROVE  \/ \E d \in Holders(k)' : Hash(d)' = ledger'[k].args
                        \/ k \in abandoned'
      BY DEF IntentOwned
    <3>4. CASE k = Key(e)
      <4>1. e \in Holders(k)' /\ Hash(e)' = ledger'[k].args
        BY <3>1, <3>3, <3>4, <2>1, <1>m
      <4> QED BY <4>1
    <3>5. CASE k # Key(e)
      <4>1. ledger'[k] = ledger[k]
        BY <3>1, <3>5 DEF ClaimIntent, TypeOK
      <4>2. CASE k \in abandoned
        BY <4>2, <2>1
      <4>3. ASSUME NEW d \in Holders(k), Hash(d) = ledger[k].args
            PROVE  \E i \in Holders(k)' : Hash(i)' = ledger'[k].args
        BY <4>1, <4>3, <2>1, <3>2, <1>t, OthersHold DEF Holders
      <4> QED BY <4>1, <4>2, <4>3 DEF IntentOwned
    <3> QED BY <3>4, <3>5
  <2> QED BY <2>2, <2>3
<1>3. ASSUME Ask(e) PROVE IntentOwned'
  <2>1. UNCHANGED <<ledger, abandoned>>
    BY <1>3 DEF Ask
  <2>2. PICK s \in Stages, r \in Results :
          Answer(e, s, r) /\ (Key(e) # NoKey => s \in {"act", "release", "complete"})
    BY <1>3, <1>c DEF Ask, Goto, Stages, Results
  <2> QED BY <2>1, <2>2, <1>m, <1>h, <1>s
<1>4. ASSUME Act(e) PROVE IntentOwned'
  <2>1. PICK s \in Stages, r \in Results :
          /\ Answer(e, s, r)
          /\ abandoned \subseteq abandoned'
          /\ Key(e) # NoKey => s = "complete" \/ Key(e) \in abandoned'
    BY <1>4, <1>c DEF Act, Goto, Stages, Results
  <2>2. UNCHANGED ledger
    BY <1>4 DEF Act
  <2> QED BY <2>1, <2>2, <1>m, <1>h, <1>s
\* The row of the key is no intent any more, and the others have their own.
<1>r. ASSUME NEW x, exec' = [exec EXCEPT ![e] = x], UNCHANGED abandoned,
             NEW row, row.status # "intent", ledger' = [ledger EXCEPT ![Key(e)] = row],
             Key(e) \in Keys
      PROVE  IntentOwned'
  <2> SUFFICES ASSUME NEW k \in Keys, ledger'[k].status = "intent"
               PROVE  \/ \E d \in Holders(k)' : Hash(d)' = ledger'[k].args
                      \/ k \in abandoned'
    BY DEF IntentOwned
  <2>1. k # Key(e) /\ ledger'[k] = ledger[k]
    BY <1>r DEF TypeOK
  <2>2. CASE k \in abandoned
    BY <2>2, <1>r
  <2>3. ASSUME NEW d \in Holders(k), Hash(d) = ledger[k].args
        PROVE  \E i \in Holders(k)' : Hash(i)' = ledger'[k].args
    BY <2>1, <2>3, <1>h, <1>r, <1>t, OthersHold DEF Holders
  <2> QED BY <2>1, <2>2, <2>3 DEF IntentOwned
<1>5. ASSUME Complete(e) PROVE IntentOwned'
  <2>1. Key(e) \in Keys /\ UNCHANGED abandoned
    BY <1>5, <1>c DEF Complete, At, LedgerStages, history
  <2>2. \E x : exec' = [exec EXCEPT ![e] = x]
    BY <1>5 DEF Complete, Answer
  <2> DEFINE row == [args |-> ledger[Key(e)].args, status |-> "applied", result |-> Call(e)]
  <2>3. ledger' = [ledger EXCEPT ![Key(e)] = row] /\ row.status # "intent"
    BY <1>5 DEF Complete, RecordCompletion
  <2> HIDE DEF row
  <2> QED BY <2>1, <2>2, <2>3, <1>r
<1>6. ASSUME Release(e) PROVE IntentOwned'
  <2>1. /\ Key(e) \in Keys /\ UNCHANGED abandoned /\ exec[e].at = "release"
        /\ \E x : exec' = [exec EXCEPT ![e] = x]
    BY <1>6, <1>c DEF Release, At, LedgerStages, history, Answer
  <2>2. CASE Releasable(Key(e), Hash(e))
    <3>1. ledger' = [ledger EXCEPT ![Key(e)] = NoRow] /\ NoRow.status # "intent"
      BY <1>6, <2>2 DEF Release, ReleaseIntent, NoRow
    <3> QED BY <2>1, <3>1, <1>r
  <2>3. CASE ~ Releasable(Key(e), Hash(e))
    <3>1. UNCHANGED ledger
      BY <1>6, <2>3 DEF Release
    <3> SUFFICES ASSUME NEW k \in Keys, ledger[k].status = "intent"
                 PROVE  \/ \E d \in Holders(k)' : Hash(d)' = ledger[k].args
                        \/ k \in abandoned'
      BY <3>1 DEF IntentOwned
    <3>2. CASE k \in abandoned
      BY <3>2, <2>1
    <3>3. ASSUME NEW d \in Holders(k), Hash(d) = ledger[k].args
          PROVE  \E i \in Holders(k)' : Hash(i)' = ledger[k].args
      <4>1. d # e
        BY <3>3, <2>3, <1>h DEF Releasable
      <4> QED BY <4>1, <3>3, <2>1, <1>t, OthersHold DEF Holders
    <3> QED BY <3>2, <3>3 DEF IntentOwned
  <2> QED BY <2>2, <2>3
<1> QED BY <1>1, <1>2, <1>3, <1>4, <1>5, <1>6 DEF Step

LEMMA IntentInductive == TypeOK /\ IntentOwned /\ [Next]_vars => IntentOwned'
<1> SUFFICES ASSUME TypeOK, IntentOwned, [Next]_vars PROVE IntentOwned'
  OBVIOUS
<1>t. ExecOK
  BY DEF TypeOK
\* An executor that holds nothing, or whose key is abandoned, moves.
<1>s. ASSUME NEW e \in Executors, NEW x, exec' = [exec EXCEPT ![e] = x],
             UNCHANGED ledger, abandoned \subseteq abandoned',
             \A k \in Keys : e \in Holders(k) => k \in abandoned'
      PROVE  IntentOwned'
  <2> SUFFICES ASSUME NEW k \in Keys, ledger[k].status = "intent"
               PROVE  \/ \E d \in Holders(k)' : Hash(d)' = ledger[k].args
                      \/ k \in abandoned'
    BY <1>s DEF IntentOwned
  <2>1. CASE k \in abandoned
    BY <2>1, <1>s
  <2>2. ASSUME NEW d \in Holders(k), Hash(d) = ledger[k].args
        PROVE  \/ \E i \in Holders(k)' : Hash(i)' = ledger[k].args
               \/ k \in abandoned'
    BY <2>2, <1>s, <1>t, OthersHold DEF Holders
  <2> QED BY <2>1, <2>2 DEF IntentOwned
<1>1. ASSUME NEW e \in Executors, NEW c \in Calls, Dispatch(e, c)
      PROVE  IntentOwned'
  <2>1. UNCHANGED <<ledger, abandoned>> /\ \A k : e \notin Holders(k)
    BY <1>1 DEF Dispatch, history, Between, Holders, Claimed
  <2>2. \E x : exec' = [exec EXCEPT ![e] = x]
    BY <1>1 DEF Dispatch
  <2> QED BY <2>1, <2>2, <1>s
<1>2. ASSUME NEW e \in Executors, Crash(e) PROVE IntentOwned'
  <2>1. /\ UNCHANGED ledger /\ abandoned \subseteq abandoned'
        /\ exec' = [exec EXCEPT ![e] = Idle]
        /\ \A k \in Keys : e \in Holders(k) => k \in abandoned'
    BY <1>2 DEF Crash, Holders
  <2> QED BY <2>1, <1>s
<1>3. ASSUME NEW c \in Calls, Decide(c) PROVE IntentOwned'
  BY <1>3 DEF Decide, history, IntentOwned, Holders, Claimed, Key, Call, Hash
<1>4. ASSUME EraseScope PROVE IntentOwned'
  BY <1>4 DEF EraseScope, IntentOwned, NoRow
<1>5. CASE UNCHANGED vars
  BY <1>5 DEF vars, IntentOwned, Holders, Claimed, Key, Call, Hash
<1> QED BY <1>1, <1>2, <1>3, <1>4, <1>5, IntentStep DEF Next

\* A pending intent always belongs to a running executor or to one that gave up
\* after it claimed: no suspension, answer or race leaves a claim behind.
THEOREM IntentsAreOwned == Spec => []NoLeakedIntent
<1>1. Init => IntentOwned
  BY DEF Init, IntentOwned, NoRow
<1>2. IntentOwned => NoLeakedIntent
  BY DEF IntentOwned, NoLeakedIntent
<1> QED BY InitType, NextType, IntentInductive, <1>1, <1>2, PTL DEF Spec

\* The key of an executor that gave up stays closed: no step performs its effect
\* or touches its row, except an erasure.
THEOREM AbandonedIsFinal == Spec => AbandonedStaysClosed
<1> DEFINE A == \A k \in Keys :
       ledger[k].status = "intent" /\ Holders(k) = {} =>
         /\ effects'[k] = effects[k]
         /\ ledger'[k] = ledger[k] \/ erasures' # erasures
<1>1. TypeOK /\ [Next]_vars => A
  <2> SUFFICES ASSUME TypeOK, [Next]_vars, NEW k \in Keys,
                      ledger[k].status = "intent", Holders(k) = {}
               PROVE  /\ effects'[k] = effects[k]
                      /\ ledger'[k] = ledger[k] \/ erasures' # erasures
    OBVIOUS
  <2>1. ASSUME NEW e \in Executors, Step(e)
        PROVE  effects'[k] = effects[k] /\ ledger'[k] = ledger[k]
    <3>1. CASE Lookup(e) \/ Reread(e) \/ Ask(e)
      BY <3>1 DEF Lookup, Reread, Ask, history
    <3>2. CASE Claim(e)
      <4>1. UNCHANGED effects
        BY <3>2 DEF Claim, history
      <4>2. k = Key(e) => ledger[k] # NoRow
        BY DEF NoRow
      <4>3. ledger'[k] = ledger[k]
        BY <3>2, <4>2 DEF Claim, ClaimIntent, TypeOK
      <4> QED BY <4>1, <4>3
    <3>3. CASE Act(e) \/ Complete(e) \/ Release(e)
      <4>1. k # Key(e)
        <5>1. k # NoKey
          OBVIOUS
        <5> QED BY <5>1, <3>3 DEF Act, Complete, Release, At, Holders, Claimed
      <4>2. effects'[k] = effects[k]
        BY <3>3, <4>1 DEF Act, Complete, Release, history, TypeOK
      <4>3. ledger'[k] = ledger[k]
        BY <3>3, <4>1 DEF Act, Complete, Release, RecordCompletion, ReleaseIntent, TypeOK
      <4> QED BY <4>2, <4>3
    <3> QED BY <2>1, <3>1, <3>2, <3>3 DEF Step
  <2>2. ASSUME NEW e \in Executors, (\E c \in Calls : Dispatch(e, c)) \/ Crash(e)
        PROVE  effects'[k] = effects[k] /\ ledger'[k] = ledger[k]
    BY <2>2 DEF Dispatch, Crash, history
  <2>3. ASSUME NEW c \in Calls, Decide(c)
        PROVE  effects'[k] = effects[k] /\ ledger'[k] = ledger[k]
    BY <2>3 DEF Decide, history
  <2>4. ASSUME EraseScope PROVE effects'[k] = effects[k] /\ erasures' # erasures
    BY <2>4 DEF EraseScope, TypeOK
  <2>5. CASE UNCHANGED vars
    BY <2>5 DEF vars
  <2> QED BY <2>1, <2>2, <2>3, <2>4, <2>5 DEF Next
<1>2. Spec => [][A]_vars
  BY TypeInvariance, <1>1, PTL DEF Spec
<1> QED BY <1>2 DEF AbandonedStaysClosed

-----------------------------------------------------------------------------
(* Every answer is genuine.                                                *)
(*                                                                         *)
(* Until something is erased, the executor that holds a key is the only    *)
(* one and the row has its arguments, so that what it stores there is the  *)
(* outcome of a call with those arguments, and what is read back is that.  *)

SoleHolder ==
  \A e \in Executors :
    Claimed(e) =>
      /\ ledger[Key(e)].status = "intent" /\ ledger[Key(e)].args = Hash(e)
      /\ \A d \in Executors : Claimed(d) /\ Key(d) = Key(e) => d = e
Outcome(r, k, h) == r \in finished /\ KeyOf[r] = k /\ ArgsOf[r] = h
StoredOutcome ==
  \A k \in Keys : ledger[k].status = "applied" =>
                    Outcome(ledger[k].result, k, ledger[k].args)
FinishedFirst == \A e \in Executors : At(e, "complete") => Call(e) \in finished
Genuine(e) ==
  At(e, "ok") /\ Key(e) # NoKey =>
    \/ exec[e].result = Legacy /\ legacy[Key(e)] = Hash(e)
    \/ Outcome(exec[e].result, Key(e), Hash(e))
GInv ==
  erasures = 0 =>
    SoleHolder /\ StoredOutcome /\ FinishedFirst /\ \A e \in Executors : Genuine(e)

LEMMA GenuineStep ==
  ASSUME TypeOK, GInv, erasures = 0, NEW e \in Executors, Step(e)
  PROVE  GInv'
<1>t. ExecOK
  BY DEF TypeOK
<1>g. SoleHolder /\ StoredOutcome /\ FinishedFirst /\ \A d \in Executors : Genuine(d)
  BY DEF GInv
<1>k. exec[e].at # "idle"
  BY DEF Step, Lookup, Claim, Reread, Ask, Act, Complete, Release, At
<1>c. /\ Call(e) \in Calls /\ Hash(e) = ArgsOf[Call(e)] /\ Key(e) = KeyOf[Call(e)]
      /\ Key(e) \in Keys \cup {NoKey}
      /\ exec[e].at \in LedgerStages => Key(e) \in Keys
  BY <1>t, <1>k, KeyType DEF Hash, Key
\* The others stay where they are.
<1>o. ASSUME NEW x, exec' = [exec EXCEPT ![e] = x], NEW d \in Executors, d # e
      PROVE  /\ exec'[d] = exec[d] /\ Key(d)' = Key(d) /\ Hash(d)' = Hash(d)
             /\ Call(d)' = Call(d) /\ Claimed(d)' = Claimed(d)
             /\ \A s : At(d, s)' = At(d, s)
  BY <1>o, <1>t DEF ExecOK, Key, Hash, Call, Claimed, At
<1>m. ASSUME NEW s, NEW r, Answer(e, s, r)
      PROVE  /\ \E x : exec' = [exec EXCEPT ![e] = x]
             /\ exec'[e].at = s /\ exec'[e].result = r
             /\ Hash(e)' = Hash(e) /\ Key(e)' = Key(e) /\ Call(e)' = Call(e)
             /\ Claimed(e)' <=> s \in {"execute", "act", "release", "complete"} /\ Key(e) # NoKey
             /\ \A z : At(e, z)' <=> z = s
  <2>1. exec'[e] = [at |-> s, call |-> Call(e), result |-> r]
    BY <1>m, <1>t DEF Answer, ExecOK
  <2>2. \E x : exec' = [exec EXCEPT ![e] = x]
    BY <1>m DEF Answer
  <2>3. exec'[e].at = s /\ exec'[e].result = r /\ exec'[e].call = exec[e].call
    BY <2>1 DEF Call
  <2>4. Hash(e)' = Hash(e) /\ Key(e)' = Key(e) /\ Call(e)' = Call(e)
    BY <2>3 DEF Hash, Key, Call
  <2>5. Claimed(e)' <=> s \in {"execute", "act", "release", "complete"} /\ Key(e) # NoKey
    BY <2>3 DEF Claimed, Key, Call
  <2>6. \A z : At(e, z)' <=> z = s
    BY <2>3 DEF At
  <2> QED BY <2>2, <2>3, <2>4, <2>5, <2>6
\* What finished stays finished.
<1>f. ASSUME finished \subseteq finished', NEW r, NEW k, NEW h, Outcome(r, k, h)
      PROVE  Outcome(r, k, h)'
  BY <1>f DEF Outcome
\* The answers of the others stay genuine.
<1>u. ASSUME NEW x, exec' = [exec EXCEPT ![e] = x], finished \subseteq finished',
             UNCHANGED legacy, NEW d \in Executors, d # e
      PROVE  Genuine(d)'
  <2>1. exec'[d] = exec[d]
    BY <1>u, <1>t DEF ExecOK
  <2>2. Genuine(d)
    BY <1>g
  <2> QED BY <1>u, <2>1, <2>2 DEF Genuine, Outcome, At, Key, Hash, Call
\* So does this one's, if it is an outcome.
<1>v. ASSUME NEW s, NEW r, Answer(e, s, r), UNCHANGED legacy,
             s = "ok" /\ Key(e) # NoKey =>
               \/ r = Legacy /\ legacy[Key(e)] = Hash(e)
               \/ r \in finished' /\ KeyOf[r] = Key(e) /\ ArgsOf[r] = Hash(e)
      PROVE  Genuine(e)'
  <2>1. /\ exec'[e].at = s /\ exec'[e].result = r
        /\ Hash(e)' = Hash(e) /\ Key(e)' = Key(e)
    BY <1>v, <1>m
  <2>2. At(e, "ok")' => s = "ok"
    BY <2>1 DEF At
  <2> SUFFICES ASSUME s = "ok", Key(e) # NoKey
               PROVE  \/ r = Legacy /\ legacy[Key(e)] = Hash(e)
                      \/ r \in finished' /\ KeyOf[r] = Key(e) /\ ArgsOf[r] = Hash(e)
    BY <1>v, <2>1, <2>2 DEF Genuine, Outcome
  <2> QED BY <1>v
\* An answer that leaves the table as it is.
<1>a. ASSUME NEW s, NEW r, Answer(e, s, r), UNCHANGED <<ledger, legacy>>,
             finished \subseteq finished',
             s \in {"execute", "act", "release", "complete"} => Claimed(e) \/ Key(e) = NoKey,
             s = "complete" => Call(e) \in finished',
             s = "ok" /\ Key(e) # NoKey =>
               \/ r = Legacy /\ legacy[Key(e)] = Hash(e)
               \/ r \in finished' /\ KeyOf[r] = Key(e) /\ ArgsOf[r] = Hash(e)
      PROVE  GInv'
  <2>1. PICK x : exec' = [exec EXCEPT ![e] = x]
    BY <1>a, <1>m
  <2>2. \A d \in Executors : Claimed(d)' => Claimed(d) /\ Key(d)' = Key(d) /\ Hash(d)' = Hash(d)
    BY <1>a, <1>m, <2>1, <1>o
  <2>3. SoleHolder'
    BY <2>2, <1>a, <1>g DEF SoleHolder
  <2>4. StoredOutcome'
    BY <1>a, <1>f, <1>g DEF StoredOutcome
  <2>5. FinishedFirst'
    BY <1>a, <1>m, <2>1, <1>o, <1>g DEF FinishedFirst
  <2>6. ASSUME NEW d \in Executors PROVE Genuine(d)'
    <3>1. CASE d = e
      BY <3>1, <1>a, <1>v
    <3>2. CASE d # e
      BY <3>2, <1>a, <2>1, <1>u
    <3> QED BY <3>1, <3>2
  <2> QED BY <2>3, <2>4, <2>5, <2>6 DEF GInv
\* Reading a row back.
<1>x. ASSUME NEW a, NEW s, NEW r, Existing(e, a, s, r),
             UNCHANGED <<ledger, legacy, finished>>,
             s = "applied" /\ a = Hash(e) =>
               \/ r = Legacy /\ legacy[Key(e)] = Hash(e)
               \/ Outcome(r, Key(e), Hash(e))
      PROVE  GInv'
  <2>1. CASE a # Hash(e) \/ s = "intent" \/ Answer(e, "error", NoCall)
    <3>1. Answer(e, "error", NoCall)
      BY <1>x, <2>1 DEF Existing
    <3> QED BY <3>1, <1>x, <1>a
  <2>2. CASE a = Hash(e) /\ s = "applied" /\ Answer(e, "ok", r)
    <3>1. \/ r = Legacy /\ legacy[Key(e)] = Hash(e)
          \/ r \in finished' /\ KeyOf[r] = Key(e) /\ ArgsOf[r] = Hash(e)
      BY <1>x, <2>2 DEF Outcome
    <3> QED BY <3>1, <2>2, <1>x, <1>a
  <2> QED BY <1>x, <2>1, <2>2 DEF Existing
<1>1. ASSUME Lookup(e) PROVE GInv'
  <2>1. UNCHANGED <<ledger, legacy, finished>> /\ Key(e) \in Keys
    BY <1>1, <1>c DEF Lookup, history, At, LedgerStages
  <2>2. CASE ledger[Key(e)] # NoRow
    BY <1>1, <2>1, <2>2, <1>x, <1>g DEF Lookup, StoredOutcome
  <2>3. CASE ledger[Key(e)] = NoRow /\ legacy[Key(e)] # NoArgs
    BY <1>1, <2>1, <2>3, <1>x DEF Lookup
  <2>4. CASE ledger[Key(e)] = NoRow /\ legacy[Key(e)] = NoArgs
    <3>1. Answer(e, "claim", NoCall)
      BY <1>1, <2>4 DEF Lookup, Goto
    <3> QED BY <3>1, <2>1, <1>a
  <2> QED BY <2>2, <2>3, <2>4
<1>2. ASSUME Claim(e) PROVE GInv'
  <2>1. UNCHANGED <<legacy, finished>> /\ Key(e) \in Keys
    BY <1>2, <1>c DEF Claim, history, At, LedgerStages
  <2>2. CASE ledger[Key(e)] # NoRow
    <3>1. Answer(e, "reread", NoCall) /\ UNCHANGED ledger
      BY <1>2, <2>2 DEF Claim, Goto
    <3> QED BY <3>1, <2>1, <1>a
  <2>3. CASE ledger[Key(e)] = NoRow
    <3>1. /\ Answer(e, "execute", NoCall)
          /\ ledger' = [ledger EXCEPT ![Key(e)] =
                          [args |-> Hash(e), status |-> "intent", result |-> NoCall]]
      BY <1>2, <2>3 DEF Claim, Goto, ClaimIntent
    <3>2. PICK x : exec' = [exec EXCEPT ![e] = x]
      BY <3>1, <1>m
    <3>3. \A d \in Executors : Claimed(d) => Key(d) # Key(e)
      BY <2>3, <1>g DEF SoleHolder, NoRow
    <3>4. SoleHolder'
      <4>1. ASSUME NEW d \in Executors, Claimed(d)'
            PROVE  /\ ledger'[Key(d)'].status = "intent" /\ ledger'[Key(d)'].args = Hash(d)'
                   /\ \A i \in Executors : Claimed(i)' /\ Key(i)' = Key(d)' => i = d
        <5>1. CASE d = e
          <6>1. Key(e)' = Key(e) /\ Hash(e)' = Hash(e)
            BY <3>1, <1>m
          <6>2. ledger'[Key(e)] = [args |-> Hash(e), status |-> "intent", result |-> NoCall]
            BY <3>1, <2>1 DEF TypeOK
          <6>3. ASSUME NEW i \in Executors, Claimed(i)', Key(i)' = Key(e) PROVE i = e
            BY <6>3, <3>2, <3>3, <1>o
          <6> QED BY <5>1, <6>1, <6>2, <6>3
        <5>2. CASE d # e
          <6>1. /\ Claimed(d) /\ Key(d)' = Key(d) /\ Hash(d)' = Hash(d) /\ Key(d) # Key(e)
            BY <3>2, <3>3, <4>1, <5>2, <1>o
          <6>2. Key(d) \in Keys
            BY <6>1, KeyType, <1>t DEF Claimed
          <6>3. ledger'[Key(d)] = ledger[Key(d)]
            BY <3>1, <6>1, <6>2 DEF TypeOK
          <6>4. ASSUME NEW i \in Executors, Claimed(i)', Key(i)' = Key(d)' PROVE i = d
            <7>1. i # e
              <8>1. Key(e)' = Key(e)
                BY <3>1, <1>m
              <8> QED BY <8>1, <6>1, <6>4
            <7>2. Claimed(i) /\ Key(i) = Key(d)
              BY <7>1, <6>1, <6>4, <3>2, <1>o
            <7> QED BY <7>2, <6>1, <1>g DEF SoleHolder
          <6> QED BY <6>1, <6>3, <6>4, <1>g DEF SoleHolder
        <5> QED BY <5>1, <5>2
      <4> QED BY <4>1 DEF SoleHolder
    <3>5. StoredOutcome'
      BY <3>1, <2>1, <1>f, <1>g DEF StoredOutcome, TypeOK
    <3>6. FinishedFirst'
      BY <3>1, <3>2, <2>1, <1>m, <1>o, <1>g DEF FinishedFirst
    <3>7. ASSUME NEW d \in Executors PROVE Genuine(d)'
      <4>1. CASE d = e
        BY <4>1, <3>1, <2>1, <1>v
      <4>2. CASE d # e
        BY <4>2, <3>2, <2>1, <1>u
      <4> QED BY <4>1, <4>2
    <3> QED BY <3>4, <3>5, <3>6, <3>7 DEF GInv
  <2> QED BY <2>2, <2>3
<1>3. ASSUME Reread(e) PROVE GInv'
  <2>1. UNCHANGED <<ledger, legacy, finished>> /\ Key(e) \in Keys
    BY <1>3, <1>c DEF Reread, history, At, LedgerStages
  <2>2. CASE ledger[Key(e)] # NoRow
    BY <1>3, <2>1, <2>2, <1>x, <1>g DEF Reread, StoredOutcome
  <2>3. CASE ledger[Key(e)] = NoRow
    BY <1>3, <2>1, <2>3, <1>a DEF Reread
  <2> QED BY <2>2, <2>3
<1>4. ASSUME Ask(e) PROVE GInv'
  <2>1. /\ UNCHANGED <<ledger, legacy>> /\ finished \subseteq finished'
        /\ Key(e) # NoKey => Claimed(e)
    BY <1>4 DEF Ask, At, Claimed
  <2>2. PICK s, r :
          /\ Answer(e, s, r)
          /\ s \in {"act", "ok", "complete", "suspended", "release"}
          /\ s = "complete" => Call(e) \in finished'
          /\ s = "ok" => Key(e) = NoKey
    BY <1>4 DEF Ask, Goto
  <2> QED BY <2>1, <2>2, <1>a
<1>5. ASSUME Act(e) PROVE GInv'
  <2>1. /\ UNCHANGED <<ledger, legacy>> /\ finished \subseteq finished'
        /\ Key(e) # NoKey => Claimed(e)
    BY <1>5 DEF Act, At, Claimed
  <2>2. PICK s, r :
          /\ Answer(e, s, r)
          /\ s \in {"error", "ok", "complete"}
          /\ s = "complete" => Call(e) \in finished'
          /\ s = "ok" => Key(e) = NoKey
    <3>1. PICK returns \in BOOLEAN :
            /\ finished' = IF returns THEN finished \cup {Call(e)} ELSE finished
            /\ CASE ~returns -> Answer(e, "error", NoCall)
                 [] returns /\ Key(e) = NoKey -> Answer(e, "ok", Call(e))
                 [] returns /\ Key(e) # NoKey -> Goto(e, "complete")
      BY <1>5, Zenon DEF Act
    <3>2. CASE ~ returns
      <4>1. Answer(e, "error", NoCall)
        BY <3>1, <3>2
      <4> QED BY <4>1
    <3>3. CASE returns /\ Key(e) = NoKey
      <4>1. Answer(e, "ok", Call(e))
        BY <3>1, <3>3
      <4> QED BY <4>1, <3>3
    <3>4. CASE returns /\ Key(e) # NoKey
      <4>1. Answer(e, "complete", NoCall) /\ Call(e) \in finished'
        BY <3>1, <3>4 DEF Goto
      <4> QED BY <4>1
    <3> QED BY <3>2, <3>3, <3>4
  <2> QED BY <2>1, <2>2, <1>a
<1>6. ASSUME Complete(e) PROVE GInv'
  <2>1. /\ UNCHANGED <<legacy, finished>> /\ Key(e) \in Keys /\ Claimed(e)
        /\ Answer(e, "ok", Call(e)) /\ At(e, "complete")
    BY <1>6, <1>c DEF Complete, history, At, LedgerStages, Claimed
  <2>2. PICK x : exec' = [exec EXCEPT ![e] = x]
    BY <2>1, <1>m
  <2>3. Outcome(Call(e), Key(e), Hash(e))
    BY <2>1, <1>c, <1>g DEF Outcome, FinishedFirst
  <2>4. /\ ledger' = [ledger EXCEPT ![Key(e)] =
                        [args |-> @.args, status |-> "applied", result |-> Call(e)]]
        /\ ledger[Key(e)].args = Hash(e)
    BY <1>6, <2>1, <1>g DEF Complete, RecordCompletion, SoleHolder
  <2>5. \A d \in Executors : Claimed(d)' =>
          /\ Claimed(d) /\ Key(d)' = Key(d) /\ Hash(d)' = Hash(d) /\ Key(d) # Key(e)
    BY <2>1, <2>2, <1>m, <1>o, <1>g DEF SoleHolder
  <2>6. SoleHolder'
    <3>1. ASSUME NEW d \in Executors, Claimed(d)' PROVE ledger'[Key(d)] = ledger[Key(d)]
      <4>1. Key(d) \in Keys
        BY <2>5, <3>1, <1>t, KeyType DEF Claimed
      <4> QED BY <4>1, <2>4, <2>5, <3>1 DEF TypeOK
    <3> QED BY <2>5, <3>1, <1>g DEF SoleHolder
  <2>7. StoredOutcome'
    BY <2>1, <2>3, <2>4, <1>f, <1>g DEF StoredOutcome, TypeOK
  <2>8. FinishedFirst'
    BY <2>1, <2>2, <1>m, <1>o, <1>g DEF FinishedFirst
  <2>9. ASSUME NEW d \in Executors PROVE Genuine(d)'
    <3>1. CASE d = e
      BY <3>1, <2>1, <2>3, <1>v DEF Outcome
    <3>2. CASE d # e
      BY <3>2, <2>1, <2>2, <1>u
    <3> QED BY <3>1, <3>2
  <2> QED BY <2>6, <2>7, <2>8, <2>9 DEF GInv
<1>7. ASSUME Release(e) PROVE GInv'
  <2>1. UNCHANGED <<legacy, finished>> /\ Key(e) \in Keys /\ Claimed(e) /\ At(e, "release")
    BY <1>7, <1>c DEF Release, history, At, LedgerStages, Claimed
  <2>2. Releasable(Key(e), Hash(e))
    BY <2>1, <1>g DEF Releasable, SoleHolder
  <2>3. Answer(e, "suspended", NoCall) /\ ledger' = [ledger EXCEPT ![Key(e)] = NoRow]
    BY <1>7, <2>2 DEF Release, ReleaseIntent
  <2>4. PICK x : exec' = [exec EXCEPT ![e] = x]
    BY <2>3, <1>m
  <2>5. \A d \in Executors : Claimed(d)' =>
          /\ Claimed(d) /\ Key(d)' = Key(d) /\ Hash(d)' = Hash(d) /\ Key(d) # Key(e)
    BY <2>1, <2>3, <2>4, <1>m, <1>o, <1>g DEF SoleHolder
  <2>6. SoleHolder'
    <3>1. ASSUME NEW d \in Executors, Claimed(d)' PROVE ledger'[Key(d)] = ledger[Key(d)]
      <4>1. Key(d) \in Keys
        BY <2>5, <3>1, <1>t, KeyType DEF Claimed
      <4> QED BY <4>1, <2>3, <2>5, <3>1 DEF TypeOK
    <3> QED BY <2>5, <3>1, <1>g DEF SoleHolder
  <2>7. StoredOutcome'
    BY <2>1, <2>3, <1>f, <1>g DEF StoredOutcome, TypeOK, NoRow
  <2>8. FinishedFirst'
    BY <2>1, <2>3, <2>4, <1>m, <1>o, <1>g DEF FinishedFirst
  <2>9. ASSUME NEW d \in Executors PROVE Genuine(d)'
    <3>1. CASE d = e
      BY <3>1, <2>1, <2>3, <1>v
    <3>2. CASE d # e
      BY <3>2, <2>1, <2>4, <1>u
    <3> QED BY <3>1, <3>2
  <2> QED BY <2>6, <2>7, <2>8, <2>9 DEF GInv
<1> QED BY <1>1, <1>2, <1>3, <1>4, <1>5, <1>6, <1>7 DEF Step

LEMMA GenuineInductive == TypeOK /\ GInv /\ [Next]_vars => GInv'
<1> SUFFICES ASSUME TypeOK, GInv, [Next]_vars PROVE GInv'
  OBVIOUS
<1>t. ExecOK
  BY DEF TypeOK
<1>e. erasures' = 0 => erasures = 0
  <2>1. erasures' = erasures \/ erasures' = erasures + 1
    BY DEF Next, Step, Dispatch, Crash, Decide, EraseScope, Lookup, Claim, Reread, Ask,
           Act, Complete, Release, history, vars
  <2> QED BY <2>1 DEF TypeOK
<1> SUFFICES ASSUME erasures = 0 PROVE GInv'
  BY <1>e DEF GInv
<1>g. SoleHolder /\ StoredOutcome /\ FinishedFirst /\ \A d \in Executors : Genuine(d)
  BY DEF GInv
\* An executor begins a call, or gives one up.
<1>s. ASSUME NEW e \in Executors, NEW x, exec' = [exec EXCEPT ![e] = x],
             UNCHANGED <<ledger, legacy, finished>>,
             ~ Claimed(e)', exec'[e].at \notin {"ok", "complete"}
      PROVE  GInv'
  <2>1. ASSUME NEW d \in Executors, d # e
        PROVE  /\ exec'[d] = exec[d] /\ Key(d)' = Key(d) /\ Hash(d)' = Hash(d)
               /\ Call(d)' = Call(d) /\ Claimed(d)' = Claimed(d)
               /\ \A s : At(d, s)' = At(d, s)
    BY <1>s, <2>1, <1>t DEF ExecOK, Key, Hash, Call, Claimed, At
  <2>2. SoleHolder'
    BY <1>s, <2>1, <1>g DEF SoleHolder
  <2>3. StoredOutcome'
    BY <1>s, <1>g DEF StoredOutcome, Outcome
  <2>4. FinishedFirst'
    BY <1>s, <2>1, <1>g DEF FinishedFirst, At
  <2>5. ASSUME NEW d \in Executors PROVE Genuine(d)'
    <3>1. CASE d = e
      BY <3>1, <1>s DEF Genuine, At
    <3>2. CASE d # e
      BY <3>2, <1>s, <2>1, <1>g DEF Genuine, Outcome
    <3> QED BY <3>1, <3>2
  <2> QED BY <2>2, <2>3, <2>4, <2>5 DEF GInv
<1>1. ASSUME NEW e \in Executors, NEW c \in Calls, Dispatch(e, c) PROVE GInv'
  <2>1. PICK s \in {"error", "lookup", "execute"} :
          /\ s = "execute" => KeyOf[c] = NoKey
          /\ exec' = [exec EXCEPT ![e] = [at |-> s, call |-> c, result |-> NoCall]]
    BY <1>1 DEF Dispatch
  <2>2. exec'[e] = [at |-> s, call |-> c, result |-> NoCall]
    BY <2>1, <1>t DEF ExecOK
  <2>3. ~ Claimed(e)' /\ exec'[e].at \notin {"ok", "complete"}
    BY <2>1, <2>2 DEF Claimed, Key, Call
  <2>4. UNCHANGED <<ledger, legacy, finished>>
    BY <1>1 DEF Dispatch, history
  <2> QED BY <2>1, <2>3, <2>4, <1>s
<1>2. ASSUME NEW e \in Executors, Crash(e) PROVE GInv'
  <2>1. /\ exec' = [exec EXCEPT ![e] = Idle]
        /\ UNCHANGED <<ledger, legacy, finished>>
    BY <1>2 DEF Crash
  <2>2. exec'[e] = Idle
    BY <2>1, <1>t DEF ExecOK
  <2>3. ~ Claimed(e)' /\ exec'[e].at \notin {"ok", "complete"}
    BY <2>2 DEF Claimed, Idle
  <2> QED BY <2>1, <2>3, <1>s
<1>u. ASSUME UNCHANGED <<exec, ledger, legacy, finished>> PROVE GInv'
  BY <1>u, <1>g DEF GInv, SoleHolder, StoredOutcome, FinishedFirst, Genuine, Outcome,
                    Claimed, Key, Hash, Call, At
<1>3. ASSUME NEW c \in Calls, Decide(c) PROVE GInv'
  BY <1>3, <1>u DEF Decide, history
<1>4. ASSUME EraseScope PROVE GInv'
  BY <1>4 DEF EraseScope, GInv
<1>5. CASE UNCHANGED vars
  BY <1>5, <1>u DEF vars
<1> QED BY <1>1, <1>2, <1>3, <1>4, <1>5, GenuineStep DEF Next

\* Until something is erased, a successful answer to a keyed call is the outcome
\* of an execution with its key and its arguments, whoever executed it.
THEOREM AnswersAreGenuine == Spec => []AnswersGenuine
<1>1. Init => GInv
  <2> SUFFICES ASSUME Init PROVE GInv
    OBVIOUS
  <2>1. \A e \in Executors : exec[e] = Idle
    BY DEF Init
  <2>2. SoleHolder /\ FinishedFirst /\ \A e \in Executors : Genuine(e)
    BY <2>1 DEF SoleHolder, FinishedFirst, Genuine, Claimed, At, Idle
  <2>3. StoredOutcome
    BY DEF Init, StoredOutcome, NoRow
  <2> QED BY <2>2, <2>3 DEF GInv
<1>2. GInv => AnswersGenuine
  BY DEF GInv, Genuine, Outcome, AnswersGenuine
<1> QED BY InitType, NextType, GenuineInductive, <1>1, <1>2, PTL DEF Spec
=============================================================================
