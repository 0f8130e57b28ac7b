---------------------------- MODULE QuotaProofs ----------------------------
(***************************************************************************)
(* The in-flight counter and the hard ceiling of Quota, for any number of  *)
(* keys and requests, on the condition that no run outlives MaxAge.        *)
(*                                                                         *)
(* The two need each other's company: a counter that is right today stays  *)
(* right only if a settlement never frees a slot twice, which holds because*)
(* the tokens that may still be settled against the present generation are *)
(* in the set, and that holds because the sweep meets no live run.         *)
(***************************************************************************)
EXTENDS Quota, FiniteSetTheorems, TLAPS

HeldIn(A, k) == {r \in A : KeyOf[r] = k}

\* The reservations in the set are those of unsettled runs, of the present
\* generation.
ActiveIsCurrent == \A r \in active : Valid(r) /\ status[r] \in {"live", "lost"}
\* A run that can still free a slot has its reservation in the set.
CurrentIsActive == \A r \in Runs : status[r] = "live" /\ Valid(r) => r \in active
\* No token is from the future.
TokensBehind == \A r \in Runs : token[r].generation <= generation[KeyOf[r]]
\* No live run is old enough to be swept.
LiveIsYoung == \A r \in Runs : status[r] = "live" => clock - token[r].createdAt < MaxAge

Inv ==
  /\ TypeOK
  /\ IsFiniteSet(active)
  /\ ActiveIsCurrent
  /\ CurrentIsActive
  /\ TokensBehind
  /\ LiveIsYoung
  /\ ReservedIsHeld

\* Before the first reset every live run holds its reservation and every key
\* is within its ceiling.
Ceiling ==
  resets = 0 => /\ \A r \in Runs : status[r] = "live" => r \in active
                /\ \A k \in Keys : usage[k] + reserved[k] <= HardRuns

-----------------------------------------------------------------------------
(* Counting the reservations of a key. *)

\* A finite set holds finitely many reservations of a key.
LEMMA HeldInType ==
  ASSUME NEW A, IsFiniteSet(A), NEW k
  PROVE  IsFiniteSet(HeldIn(A, k)) /\ Cardinality(HeldIn(A, k)) \in Nat
<1>1. HeldIn(A, k) \in SUBSET A
  BY DEF HeldIn
<1>2. IsFiniteSet(HeldIn(A, k))
  BY <1>1, FS_Subset
<1> QED
  BY <1>2, FS_CardinalityType

\* A new reservation counts for its own key only.
LEMMA HeldInAdd ==
  ASSUME NEW A, IsFiniteSet(A), NEW r, r \notin A, NEW k
  PROVE  Cardinality(HeldIn(A \cup {r}, k)) =
           IF KeyOf[r] = k THEN Cardinality(HeldIn(A, k)) + 1
                           ELSE Cardinality(HeldIn(A, k))
<1>1. IsFiniteSet(HeldIn(A, k))
  BY HeldInType
<1>2. r \notin HeldIn(A, k)
  BY DEF HeldIn
<1>3. CASE KeyOf[r] = k
  <2>1. HeldIn(A \cup {r}, k) = HeldIn(A, k) \cup {r}
    BY <1>3 DEF HeldIn
  <2> QED
    BY <2>1, <1>1, <1>2, <1>3, FS_AddElement
<1>4. CASE KeyOf[r] # k
  <2>1. HeldIn(A \cup {r}, k) = HeldIn(A, k)
    BY <1>4 DEF HeldIn
  <2> QED
    BY <2>1, <1>4
<1> QED
  BY <1>3, <1>4

\* Reservations that leave the set are no longer counted.
LEMMA HeldInRemove ==
  ASSUME NEW A, IsFiniteSet(A), NEW B, B \subseteq A, NEW k
  PROVE  Cardinality(HeldIn(A \ B, k)) =
           Cardinality(HeldIn(A, k)) - Cardinality(HeldIn(B, k))
<1>1. HeldIn(A \ B, k) = HeldIn(A, k) \ HeldIn(B, k)
  BY DEF HeldIn
<1>2. HeldIn(A, k) \cap HeldIn(B, k) = HeldIn(B, k)
  BY DEF HeldIn
<1>3. IsFiniteSet(HeldIn(A, k))
  BY HeldInType
<1>4. Cardinality(HeldIn(A, k) \ HeldIn(B, k)) =
        Cardinality(HeldIn(A, k)) - Cardinality(HeldIn(A, k) \cap HeldIn(B, k))
  BY <1>3, FS_Difference
<1> QED
  BY <1>1, <1>2, <1>4

\* One reservation counts once, for its own key.
LEMMA HeldInOne ==
  ASSUME NEW r, NEW k
  PROVE  Cardinality(HeldIn({r}, k)) = IF KeyOf[r] = k THEN 1 ELSE 0
<1>1. CASE KeyOf[r] = k
  <2>1. HeldIn({r}, k) = {r}
    BY <1>1 DEF HeldIn
  <2> QED
    BY <2>1, <1>1, FS_Singleton
<1>2. CASE KeyOf[r] # k
  <2>1. HeldIn({r}, k) = {}
    BY <1>2 DEF HeldIn
  <2> QED
    BY <2>1, <1>2, FS_EmptySet
<1> QED
  BY <1>1, <1>2

-----------------------------------------------------------------------------
(* The steps. *)

\* Settling a live run leaves the counter at the number of held reservations.
LEMMA FreeCounts ==
  ASSUME Inv, NEW r \in Runs, status[r] = "live", Free(r)
  PROVE  /\ IsFiniteSet(active')
         /\ active' = active \ {r}
         /\ reserved' \in [Keys -> Nat]
         /\ \A k \in Keys : reserved'[k] = Cardinality(HeldIn(active', k))
         /\ r \in active => reserved'[KeyOf[r]] = reserved[KeyOf[r]] - 1
         /\ \A k \in Keys : reserved'[k] <= reserved[k]
<1> USE QuotaAssumption
<1>1. IsFiniteSet(active) /\ reserved \in [Keys -> Nat] /\ KeyOf[r] \in Keys
  BY DEF Inv, TypeOK
<1>2. \A k \in Keys : reserved[k] = Cardinality(HeldIn(active, k))
  BY DEF Inv, ReservedIsHeld, Held, HeldIn
<1>3. active' = active \ {r}
  BY DEF Free
<1>4. IsFiniteSet(active')
  BY <1>1, <1>3, FS_Difference
<1>5. CASE Valid(r)
  <2>1. r \in active
    BY <1>5 DEF Inv, CurrentIsActive
  <2>2. \A k \in Keys : Cardinality(HeldIn(active', k)) =
                          reserved[k] - (IF KeyOf[r] = k THEN 1 ELSE 0)
    <3> SUFFICES ASSUME NEW k \in Keys
                 PROVE  Cardinality(HeldIn(active', k)) =
                          reserved[k] - (IF KeyOf[r] = k THEN 1 ELSE 0)
      OBVIOUS
    <3>1. Cardinality(HeldIn(active \ {r}, k)) =
            Cardinality(HeldIn(active, k)) - Cardinality(HeldIn({r}, k))
      BY <1>1, <2>1, HeldInRemove
    <3> QED
      BY <3>1, <1>2, <1>3, HeldInOne
  <2>3. Cardinality(HeldIn(active', KeyOf[r])) \in Nat
    BY <1>4, HeldInType
  <2>4. reserved[KeyOf[r]] > 0
    BY <1>1, <2>2, <2>3
  <2>5. reserved' = [reserved EXCEPT ![KeyOf[r]] = @ - 1]
    BY <1>5, <2>4 DEF Free, Decrement
  <2>6. \A k \in Keys : reserved'[k] = reserved[k] - (IF KeyOf[r] = k THEN 1 ELSE 0)
    BY <1>1, <2>5
  <2>7. reserved' \in [Keys -> Nat]
    BY <1>1, <2>4, <2>5
  <2>8. \A k \in Keys : reserved'[k] <= reserved[k]
    BY <1>1, <2>6
  <2> QED
    BY <1>1, <1>3, <1>4, <2>2, <2>6, <2>7, <2>8
<1>6. CASE ~ Valid(r)
  <2>1. r \notin active
    BY <1>6 DEF Inv, ActiveIsCurrent
  <2>2. active' = active /\ reserved' = reserved
    BY <1>3, <1>6, <2>1 DEF Free
  <2>3. \A k \in Keys : reserved'[k] <= reserved[k]
    BY <1>1, <2>2
  <2> QED
    BY <1>1, <1>2, <1>3, <1>4, <2>1, <2>2, <2>3
<1> QED
  BY <1>5, <1>6

\* Both settlements preserve the invariant.
LEMMA SettleKeeps ==
  ASSUME Inv, NEW r \in Runs, Record(r) \/ Release(r)
  PROVE  Inv'
<1> USE QuotaAssumption
<1>1. /\ status[r] = "live" /\ Free(r)
      /\ status' = [status EXCEPT ![r] = "settled"]
      /\ token' = [token EXCEPT ![r] = NoToken]
      /\ usage' \in [Keys -> Nat]
      /\ UNCHANGED <<generation, clock, resets>>
  <2>1. usage \in [Keys -> Nat] /\ KeyOf[r] \in Keys
    BY DEF Inv, TypeOK
  <2>2. CASE Record(r)
    BY <2>1, <2>2 DEF Record
  <2>3. CASE Release(r)
    BY <2>1, <2>3 DEF Release
  <2> QED
    BY <2>2, <2>3
<1>2. /\ IsFiniteSet(active')
      /\ active' = active \ {r}
      /\ reserved' \in [Keys -> Nat]
      /\ \A k \in Keys : reserved'[k] = Cardinality(HeldIn(active', k))
  BY <1>1, FreeCounts
<1>3. TypeOK /\ ActiveIsCurrent /\ CurrentIsActive /\ TokensBehind /\ LiveIsYoung
  BY DEF Inv
<1>4. TypeOK'
  BY <1>1, <1>2, <1>3 DEF TypeOK, NoToken
<1>5. \A q \in Runs : q # r => /\ token'[q] = token[q] /\ status'[q] = status[q]
                               /\ Valid(q)' <=> Valid(q)
  BY <1>1, <1>3 DEF TypeOK, Valid
<1>6. status'[r] = "settled" /\ token'[r].generation = 0
  BY <1>1, <1>3 DEF TypeOK, NoToken
<1>7. ActiveIsCurrent'
  BY <1>2, <1>3, <1>5 DEF ActiveIsCurrent, TypeOK
<1>8. CurrentIsActive'
  BY <1>2, <1>3, <1>5, <1>6 DEF CurrentIsActive
<1>9. TokensBehind'
  BY <1>1, <1>3, <1>5, <1>6 DEF TokensBehind, TypeOK
<1>10. LiveIsYoung'
  BY <1>1, <1>3, <1>5, <1>6 DEF LiveIsYoung
<1>11. ReservedIsHeld'
  BY <1>2 DEF ReservedIsHeld, Held, HeldIn
<1> QED
  BY <1>2, <1>4, <1>7, <1>8, <1>9, <1>10, <1>11 DEF Inv

\* Admitting a request preserves the invariant.
LEMMA CheckKeeps ==
  ASSUME Inv, NEW r \in Runs, Check(r)
  PROVE  Inv'
<1> USE QuotaAssumption
<1>1. TypeOK /\ ActiveIsCurrent /\ CurrentIsActive /\ TokensBehind /\ LiveIsYoung
  BY DEF Inv
<1>2. IsFiniteSet(active) /\ KeyOf[r] \in Keys
  BY DEF Inv
<1>3. r \notin active
  BY <1>1 DEF ActiveIsCurrent, Check
<1>4. \A k \in Keys : reserved[k] = Cardinality(HeldIn(active, k))
  BY DEF Inv, ReservedIsHeld, Held, HeldIn
<1>5. active' = active \cup {r}
  BY DEF Check
<1>6. IsFiniteSet(active')
  BY <1>2, <1>5, FS_AddElement
<1>7. /\ token'[r].generation = generation'[KeyOf[r]]
      /\ token'[r].createdAt = clock'
      /\ status'[r] = "live"
  BY <1>1 DEF TypeOK, Check
<1>8. \A q \in Runs : q # r => /\ token'[q] = token[q] /\ status'[q] = status[q]
                               /\ Valid(q)' <=> Valid(q)
  BY <1>1 DEF TypeOK, Valid, Check
<1>9. TypeOK'
  <2>1. [generation |-> generation[KeyOf[r]], createdAt |-> clock]
          \in [generation : Nat, createdAt : Nat]
    BY <1>1, <1>2 DEF TypeOK
  <2>2. reserved' \in [Keys -> Nat]
    BY <1>1, <1>2 DEF TypeOK, Check
  <2> QED
    BY <1>1, <2>1, <2>2 DEF TypeOK, Check
<1>10. ActiveIsCurrent'
  BY <1>1, <1>5, <1>7, <1>8 DEF ActiveIsCurrent, TypeOK, Valid
<1>11. CurrentIsActive'
  BY <1>1, <1>5, <1>8 DEF CurrentIsActive
<1>12. TokensBehind'
  BY <1>1, <1>2, <1>7, <1>8 DEF TokensBehind, TypeOK, Check
<1>13. LiveIsYoung'
  <2>1. clock' = clock /\ clock \in Int
    BY <1>1 DEF Check, TypeOK
  <2>2. clock' - token'[r].createdAt < MaxAge
    BY <1>7, <2>1
  <2> QED
    BY <1>1, <1>8, <2>1, <2>2 DEF LiveIsYoung
<1>14. ReservedIsHeld'
  <2> SUFFICES ASSUME NEW k \in Keys
               PROVE  reserved'[k] = Cardinality(HeldIn(active', k))
    BY DEF ReservedIsHeld, Held, HeldIn
  <2>1. Cardinality(HeldIn(active \cup {r}, k)) =
           IF KeyOf[r] = k THEN Cardinality(HeldIn(active, k)) + 1
                           ELSE Cardinality(HeldIn(active, k))
    BY <1>2, <1>3, HeldInAdd
  <2>2. reserved'[k] = IF KeyOf[r] = k THEN reserved[k] + 1 ELSE reserved[k]
    BY <1>1 DEF TypeOK, Check
  <2> QED
    BY <2>1, <2>2, <1>4, <1>5
<1> QED
  BY <1>6, <1>9, <1>10, <1>11, <1>12, <1>13, <1>14 DEF Inv

\* The sweep takes the stale reservations from the set, and one slot each.
LEMMA SweepKeeps ==
  ASSUME Inv, Sweep
  PROVE  Inv' /\ (\A k \in Keys : reserved'[k] <= reserved[k])
<1> USE QuotaAssumption
<1>1. TypeOK /\ ActiveIsCurrent /\ CurrentIsActive /\ TokensBehind /\ LiveIsYoung
  BY DEF Inv
<1>2. IsFiniteSet(active)
  BY DEF Inv
<1>3. \A k \in Keys : reserved[k] = Cardinality(HeldIn(active, k))
  BY DEF Inv, ReservedIsHeld, Held, HeldIn
<1>4. active' = active \ Stale /\ Stale \subseteq active
  BY DEF Sweep, Stale
<1>5. IsFiniteSet(active')
  BY <1>2, <1>4, FS_Difference
<1>6. IsFiniteSet(Stale)
  BY <1>2, <1>4, FS_Subset
<1>7. \A k \in Keys : {r \in Stale : KeyOf[r] = k /\ Valid(r)} = HeldIn(Stale, k)
  BY <1>1, <1>4 DEF ActiveIsCurrent, HeldIn
<1>8. \A k \in Keys : /\ reserved'[k] = Cardinality(HeldIn(active', k))
                      /\ reserved'[k] \in Nat
                      /\ reserved'[k] <= reserved[k]
  <2> SUFFICES ASSUME NEW k \in Keys
               PROVE  /\ reserved'[k] = Cardinality(HeldIn(active', k))
                      /\ reserved'[k] \in Nat
                      /\ reserved'[k] <= reserved[k]
    OBVIOUS
  <2>1. Cardinality(HeldIn(active \ Stale, k)) =
          Cardinality(HeldIn(active, k)) - Cardinality(HeldIn(Stale, k))
    BY <1>2, <1>4, HeldInRemove
  <2>2. /\ Cardinality(HeldIn(active \ Stale, k)) \in Nat
        /\ Cardinality(HeldIn(Stale, k)) \in Nat
        /\ Cardinality(HeldIn(active, k)) \in Nat
    BY <1>2, <1>4, <1>5, <1>6, HeldInType
  <2>3. reserved'[k] =
          IF Cardinality(HeldIn(Stale, k)) > reserved[k]
            THEN 0 ELSE reserved[k] - Cardinality(HeldIn(Stale, k))
    BY <1>7 DEF Sweep
  <2> QED
    BY <2>1, <2>2, <2>3, <1>3, <1>4
<1>9. TypeOK'
  <2>1. reserved' \in [Keys -> Nat]
    <3>1. reserved' = [k \in Keys |-> reserved'[k]]
      BY DEF Sweep
    <3> QED
      BY <3>1, <1>8
  <2> QED
    BY <1>1, <1>4, <2>1 DEF TypeOK, Sweep
<1>10. ActiveIsCurrent'
  BY <1>1, <1>4 DEF ActiveIsCurrent, Valid, Sweep
<1>11. CurrentIsActive'
  <2> SUFFICES ASSUME NEW r \in Runs, status[r] = "live", Valid(r)
               PROVE  r \in active \ Stale
    BY <1>4 DEF CurrentIsActive, Valid, Sweep
  <2>1. r \in active
    BY <1>1 DEF CurrentIsActive
  <2>2. /\ clock \in Int /\ token[r].createdAt \in Int
        /\ clock - token[r].createdAt < MaxAge
    BY <1>1 DEF LiveIsYoung, TypeOK
  <2>3. r \notin Stale
    BY <2>2 DEF Stale
  <2> QED
    BY <2>1, <2>3
<1>12. TokensBehind' /\ LiveIsYoung'
  BY <1>1 DEF TokensBehind, LiveIsYoung, Sweep
<1>13. ReservedIsHeld'
  BY <1>8 DEF ReservedIsHeld, Held, HeldIn
<1> QED
  BY <1>5, <1>8, <1>9, <1>10, <1>11, <1>12, <1>13 DEF Inv

\* A reset drops the reservations of its key, whose tokens it makes stale.
LEMMA ResetKeeps ==
  ASSUME Inv, NEW k \in Keys, Reset(k)
  PROVE  Inv'
<1> USE QuotaAssumption
<1>1. TypeOK /\ ActiveIsCurrent /\ CurrentIsActive /\ TokensBehind /\ LiveIsYoung
  BY DEF Inv
<1>2. active' = {r \in active : KeyOf[r] # k}
  BY DEF Reset
<1>3. IsFiniteSet(active')
  <2>1. active' \in SUBSET active
    BY <1>2
  <2> QED
    BY <2>1, FS_Subset DEF Inv
<1>4. \A r \in Runs : /\ KeyOf[r] = k => ~ Valid(r)'
                      /\ KeyOf[r] # k => (Valid(r)' <=> Valid(r))
                      /\ token'[r].generation <= generation'[KeyOf[r]]
  <2> SUFFICES ASSUME NEW r \in Runs
               PROVE  /\ KeyOf[r] = k => ~ Valid(r)'
                      /\ KeyOf[r] # k => (Valid(r)' <=> Valid(r))
                      /\ token'[r].generation <= generation'[KeyOf[r]]
    OBVIOUS
  <2>1. /\ KeyOf[r] \in Keys /\ token' = token
        /\ token[r].generation \in Nat /\ generation[KeyOf[r]] \in Nat
        /\ token[r].generation <= generation[KeyOf[r]]
    BY <1>1 DEF TypeOK, TokensBehind, Reset
  <2>2. generation'[KeyOf[r]] = IF KeyOf[r] = k THEN generation[KeyOf[r]] + 1
                                                ELSE generation[KeyOf[r]]
    BY <1>1, <2>1 DEF TypeOK, Reset
  <2> QED
    BY <2>1, <2>2 DEF Valid
<1>5. TypeOK'
  BY <1>1 DEF TypeOK, Reset
<1>6. ActiveIsCurrent'
  BY <1>1, <1>2, <1>4 DEF ActiveIsCurrent, TypeOK, Reset
<1>7. CurrentIsActive'
  BY <1>1, <1>2, <1>4 DEF CurrentIsActive, Reset
<1>8. TokensBehind'
  BY <1>4 DEF TokensBehind
<1>9. LiveIsYoung'
  BY <1>1 DEF LiveIsYoung, Reset
<1>10. ReservedIsHeld'
  <2> SUFFICES ASSUME NEW j \in Keys
               PROVE  reserved'[j] = Cardinality(HeldIn(active', j))
    BY DEF ReservedIsHeld, Held, HeldIn
  <2>1. CASE j = k
    <3>1. HeldIn(active', j) = {}
      BY <1>2, <2>1 DEF HeldIn
    <3>2. reserved'[j] = 0
      BY <1>1, <2>1 DEF TypeOK, Reset
    <3> QED
      BY <3>1, <3>2, FS_EmptySet
  <2>2. CASE j # k
    <3>1. HeldIn(active', j) = HeldIn(active, j)
      BY <1>2, <2>2 DEF HeldIn
    <3>2. reserved'[j] = reserved[j]
      BY <1>1, <2>2 DEF TypeOK, Reset
    <3>3. reserved[j] = Cardinality(HeldIn(active, j))
      BY DEF Inv, ReservedIsHeld, Held, HeldIn
    <3> QED
      BY <3>1, <3>2, <3>3
  <2> QED
    BY <2>1, <2>2
<1> QED
  BY <1>3, <1>5, <1>6, <1>7, <1>8, <1>9, <1>10 DEF Inv

\* A step that touches neither the counters nor the reservations.
LEMMA OtherKeeps ==
  ASSUME Inv, Timely,
         \/ \E r \in Runs : Refuse(r) \/ Lose(r)
         \/ Tick
         \/ UNCHANGED vars
  PROVE  Inv'
<1> USE QuotaAssumption
<1>1. TypeOK /\ ActiveIsCurrent /\ CurrentIsActive /\ TokensBehind /\ LiveIsYoung
      /\ IsFiniteSet(active) /\ ReservedIsHeld
  BY DEF Inv
<1>2. CASE \E r \in Runs : Refuse(r) \/ Lose(r)
  <2>1. PICK r \in Runs : Refuse(r) \/ Lose(r)
    BY <1>2
  <2>2. /\ UNCHANGED <<usage, reserved, generation, active, token,
                       clock, resets>>
        /\ \/ status[r] = "new" /\ status' = [status EXCEPT ![r] = "refused"]
           \/ status[r] = "live" /\ status' = [status EXCEPT ![r] = "lost"]
    BY <2>1 DEF Refuse, Lose
  <2>3. TypeOK'
    BY <1>1, <2>2 DEF TypeOK
  <2>4. \A q \in Runs : /\ status'[q] = "live" => status[q] = "live"
                        /\ status[q] \in {"live", "lost"} => status'[q] \in {"live", "lost"}
    BY <1>1, <2>2 DEF TypeOK
  <2>5. ActiveIsCurrent' /\ CurrentIsActive'
    BY <1>1, <2>2, <2>4 DEF ActiveIsCurrent, CurrentIsActive, Valid, TypeOK
  <2>6. TokensBehind' /\ LiveIsYoung'
    BY <1>1, <2>2, <2>4 DEF TokensBehind, LiveIsYoung
  <2>7. ReservedIsHeld' /\ IsFiniteSet(active')
    BY <1>1, <2>2 DEF ReservedIsHeld, Held
  <2> QED
    BY <2>3, <2>5, <2>6, <2>7 DEF Inv
<1>3. CASE Tick
  <2>1. TypeOK'
    BY <1>1, <1>3 DEF TypeOK, Tick
  <2>2. LiveIsYoung'
    <3>1. \A r \in Runs : status[r] = "live" => clock + 1 - token[r].createdAt < MaxAge
      BY <1>3, Zenon DEF Tick
    <3>2. clock' = clock + 1 /\ status' = status /\ token' = token
      BY <1>3 DEF Tick
    <3> SUFFICES ASSUME NEW r \in Runs, status'[r] = "live"
                 PROVE  clock' - token'[r].createdAt < MaxAge
      BY DEF LiveIsYoung
    <3>3. clock + 1 - token[r].createdAt < MaxAge
      BY <3>1, <3>2
    <3>4. clock \in Int /\ token[r].createdAt \in Int /\ MaxAge \in Int
      BY <1>1 DEF TypeOK
    <3> QED
      BY <3>2, <3>3, <3>4
  <2>3. ActiveIsCurrent' /\ CurrentIsActive' /\ TokensBehind'
    BY <1>1, <1>3 DEF ActiveIsCurrent, CurrentIsActive, TokensBehind, Valid, Tick
  <2>4. ReservedIsHeld' /\ IsFiniteSet(active')
    BY <1>1, <1>3 DEF ReservedIsHeld, Held, Tick
  <2> QED
    BY <2>1, <2>2, <2>3, <2>4 DEF Inv
<1>4. CASE UNCHANGED vars
  BY <1>1, <1>4 DEF Inv, vars, TypeOK, ActiveIsCurrent, CurrentIsActive, TokensBehind,
                    LiveIsYoung, ReservedIsHeld, Held, Valid
<1> QED
  BY <1>2, <1>3, <1>4

-----------------------------------------------------------------------------
(* The theorems. *)

\* The invariant holds initially.
LEMMA InitInv == Init => Inv
<1> SUFFICES ASSUME Init PROVE Inv
  OBVIOUS
<1> USE QuotaAssumption
<1>1. TypeOK
  BY DEF Init, TypeOK, NoToken
<1>2. IsFiniteSet(active)
  BY FS_EmptySet DEF Init
<1>3. ActiveIsCurrent /\ CurrentIsActive /\ LiveIsYoung
  BY DEF Init, ActiveIsCurrent, CurrentIsActive, LiveIsYoung
<1>4. TokensBehind
  BY DEF Init, TokensBehind, NoToken
<1>5. ReservedIsHeld
  <2>1. \A k \in Keys : Held(k) = {} /\ reserved[k] = 0
    BY DEF Init, Held
  <2> QED
    BY <2>1, FS_EmptySet DEF ReservedIsHeld
<1> QED
  BY <1>1, <1>2, <1>3, <1>4, <1>5 DEF Inv

\* Every step preserves the invariant.
LEMMA NextInv == ASSUME Timely, Inv, [Next]_vars PROVE Inv'
<1>1. CASE \E r \in Runs : Check(r)
  BY <1>1, CheckKeeps
<1>2. CASE \E r \in Runs : Record(r) \/ Release(r)
  BY <1>2, SettleKeeps
<1>3. CASE Sweep
  BY <1>3, SweepKeeps
<1>4. CASE \E k \in Keys : Reset(k)
  BY <1>4, ResetKeeps
<1>5. CASE \/ \E r \in Runs : Refuse(r) \/ Lose(r)
           \/ Tick
           \/ UNCHANGED vars
  BY <1>5, OtherKeeps
<1> QED
  BY <1>1, <1>2, <1>3, <1>4, <1>5 DEF Next, Base, Request, Admit, Settle

\* Every step keeps the keys within their ceilings until the first reset.
LEMMA NextCeiling == ASSUME Inv, Ceiling, [Next]_vars PROVE Ceiling'
<1> USE QuotaAssumption
<1>1. TypeOK
  BY DEF Inv
<1>2. /\ usage \in [Keys -> Nat] /\ reserved \in [Keys -> Nat] /\ resets \in Nat
      /\ \A r \in Runs : KeyOf[r] \in Keys
  BY <1>1 DEF TypeOK
<1> SUFFICES ASSUME resets' = 0
             PROVE  /\ \A r \in Runs : status'[r] = "live" => r \in active'
                    /\ \A k \in Keys : usage'[k] + reserved'[k] <= HardRuns
  BY DEF Ceiling
<1>3. CASE \E r \in Runs : Check(r)
  <2>1. PICK r \in Runs : Check(r)
    BY <1>3
  <2>2. resets = 0
    BY <2>1 DEF Check
  <2>3. \A q \in Runs : q # r => status'[q] = status[q]
    BY <1>1, <2>1 DEF Check, TypeOK
  <2>4. \A q \in Runs : status'[q] = "live" => q \in active'
    BY <2>1, <2>2, <2>3 DEF Check, Ceiling
  <2>5. \A k \in Keys : usage'[k] + reserved'[k] <= HardRuns
    BY <1>2, <2>1, <2>2 DEF Check, Ceiling
  <2> QED
    BY <2>4, <2>5
<1>4. CASE \E r \in Runs : Record(r) \/ Release(r)
  <2>1. PICK r \in Runs : Record(r) \/ Release(r)
    BY <1>4
  <2>2. /\ status[r] = "live" /\ Free(r) /\ resets = 0
        /\ status' = [status EXCEPT ![r] = "settled"]
        /\ \A k \in Keys : usage'[k] = usage[k] \/ (k = KeyOf[r] /\ usage'[k] = usage[k] + 1)
    BY <1>2, <2>1 DEF Record, Release
  <2>3. r \in active
    BY <2>2 DEF Ceiling
  <2>4. /\ active' = active \ {r}
        /\ reserved' \in [Keys -> Nat]
        /\ reserved'[KeyOf[r]] = reserved[KeyOf[r]] - 1
        /\ \A k \in Keys : reserved'[k] <= reserved[k]
    BY <2>2, <2>3, FreeCounts
  <2>5. \A q \in Runs : status'[q] = "live" => q \in active'
    BY <1>1, <2>2, <2>4 DEF Ceiling, TypeOK
  <2>6. ASSUME NEW k \in Keys
        PROVE  usage'[k] + reserved'[k] <= HardRuns
    <3>1. /\ usage[k] \in Nat /\ reserved[k] \in Nat /\ reserved'[k] \in Nat
          /\ usage[k] + reserved[k] <= HardRuns
      BY <1>2, <2>2, <2>4 DEF Ceiling
    <3>2. CASE usage'[k] = usage[k]
      BY <3>1, <3>2, <2>4
    <3>3. CASE k = KeyOf[r] /\ usage'[k] = usage[k] + 1
      BY <3>1, <3>3, <2>4
    <3> QED
      BY <3>2, <3>3, <2>2
  <2> QED
    BY <2>5, <2>6
<1>5. CASE Sweep
  <2>1. resets = 0 /\ usage' = usage /\ status' = status /\ active' = active \ Stale
    BY <1>5 DEF Sweep
  <2>2. Inv' /\ (\A k \in Keys : reserved'[k] <= reserved[k])
    BY <1>5, SweepKeeps
  <2>3. \A r \in Runs : status'[r] = "live" => r \in active'
    <3> SUFFICES ASSUME NEW r \in Runs, status[r] = "live"
                 PROVE  r \in active \ Stale
      BY <2>1
    <3>1. r \in active
      BY <2>1 DEF Ceiling
    <3>2. /\ clock \in Int /\ token[r].createdAt \in Int
          /\ clock - token[r].createdAt < MaxAge
      BY <1>1 DEF Inv, LiveIsYoung, TypeOK
    <3> QED
      BY <3>1, <3>2 DEF Stale
  <2>4. ASSUME NEW k \in Keys
        PROVE  usage'[k] + reserved'[k] <= HardRuns
    <3>1. reserved'[k] \in Nat
      BY <2>2 DEF Inv, TypeOK
    <3> QED
      BY <3>1, <1>2, <2>1, <2>2 DEF Ceiling
  <2> QED
    BY <2>3, <2>4
<1>6. CASE \E k \in Keys : Reset(k)
  BY <1>2, <1>6 DEF Reset
<1>7. CASE \E r \in Runs : Refuse(r) \/ Lose(r)
  BY <1>1, <1>7 DEF Refuse, Lose, Ceiling, TypeOK
<1>8. CASE Tick \/ UNCHANGED vars
  BY <1>8 DEF Tick, vars, Ceiling
<1> QED
  BY <1>3, <1>4, <1>5, <1>6, <1>7, <1>8 DEF Next, Base, Request, Admit, Settle

\* The in-flight counter of a key is the number of its held reservations, for
\* any number of keys and requests, when every run is settled within MaxAge.
THEOREM CounterIsExact == ASSUME Timely PROVE Spec => []ReservedIsHeld
<1>1. Inv /\ [Next]_vars => Inv'
  BY NextInv
<1>2. Inv => ReservedIsHeld
  BY DEF Inv
<1> QED
  BY InitInv, <1>1, <1>2, PTL DEF Spec

\* On the same condition, the committed runs of a key and those that hold a
\* reservation stay within the hard ceiling until a reset.
THEOREM CeilingKept == ASSUME Timely PROVE Spec => []HardCeiling
<1>1. Inv /\ [Next]_vars => Inv'
  BY NextInv
<1>2. Inv /\ Ceiling /\ [Next]_vars => Ceiling'
  BY NextCeiling
<1>3. Init => Ceiling
  BY QuotaAssumption DEF Init, Ceiling
<1>4. Inv /\ Ceiling => HardCeiling
  <2>1. Inv => \A k \in Keys : reserved[k] = Cardinality(Held(k))
    BY DEF Inv, ReservedIsHeld
  <2> QED
    BY <2>1 DEF HardCeiling, Ceiling
<1> QED
  BY InitInv, <1>1, <1>2, <1>3, <1>4, PTL DEF Spec
=============================================================================
