---------------------------- MODULE ServicesProofs ----------------------------
(***************************************************************************)
(* What holds of the parts of MCServices for any values of their           *)
(* constants.  The parts share no state, so each has an inductive          *)
(* invariant of its own, and a step of another part leaves it alone.       *)
(***************************************************************************)
EXTENDS MCServices, FiniteSets, FiniteSetTheorems, SequenceTheorems, WellFoundedInduction, TLAPS

\* A step is a step of one part, and a stutter of every other.
LEMMA StepOfParts ==
  ASSUME [Next]_allVars
  PROVE  /\ [Context!Next]_windowVars /\ [Strategy!Next]_strategyVars
         /\ [Memory!Next]_memoryVars /\ [Archive!Next]_archiveVars
         /\ [Stream!Next]_streamVars /\ [Prompts!Next]_promptVars
         /\ [Skills!Next]_skillVars /\ [A2A!Next]_taskVars
         /\ [OAuth!Next]_oauthVars /\ [Tracer!Next]_spanVars
         /\ [Cache!Next]_cacheVars /\ [Poll!Next]_pollVars
         /\ [Sandbox!Next]_sandboxVars /\ [Chain!Next]_chainVars
         /\ [Gate!Next]_gateVars /\ UNCHANGED scene
<1>1. CASE UNCHANGED allVars
  BY <1>1 DEF allVars
<1>2. CASE Next
  BY <1>2 DEF Next, OnContext, OnStrategy, OnMemory, OnArchive, OnStream, OnPrompts,
              OnSkills, OnA2A, OnOAuth, OnTracer, OnCache, OnPoll, OnSandbox, OnChain,
              OnGate
<1>3. QED
  BY <1>1, <1>2

-----------------------------------------------------------------------------
(* The gate before the tools.  All of it follows from three facts about a   *)
(* call that has begun: its turn had come and is not taken back, the policy *)
(* of the run let it through, and the active skill, which only a call that  *)
(* is alone may change, still allows it.                                    *)

\* The model answers with calls, or the run ends.
GateConstants ==
  /\ Policies \subseteq Gate!Policy /\ NewModes \subseteq Gate!Modes
  /\ ToolBatches \subseteq Seq(Gate!Call) \ {<< >>}
  /\ MaxRuns \in Nat

Begun(i) == gatePhase = "dispatch" /\ i \in Gate!Pending /\ stage[i] # "waiting"
Active(i) == Begun(i) /\ ~ Gate!Done(i)

\* A batch is dispatched only if some call has no result yet, and the calls that
\* have one have settled.
Progress ==
  gatePhase = "dispatch" => /\ answered < Len(toolBatch)
                        /\ \A i \in DOMAIN toolBatch : i <= answered => Gate!Done(i)
InTurn == \A i \in DOMAIN toolBatch : Begun(i) => Gate!Turn(i)
Gated ==
  \A i \in DOMAIN toolBatch : Active(i) =>
    /\ Gate!Known(toolBatch[i].tool) /\ ~ Gate!ArgDenied(toolBatch[i])
    /\ stage[i] = "running" /\ Gate!Evaluate(policy, toolBatch[i].tool) = "ask" => i \in granted
Allowed == \A i \in DOMAIN toolBatch : Active(i) => Gate!SkillAllows(toolBatch[i].tool)

GateInv == Gate!TypeOK /\ Progress /\ InTurn /\ Gated /\ Allowed

-----------------------------------------------------------------------------
\* Of two calls that have begun and not settled, neither is a skill_use, and
\* neither mutates.
LEMMA ActiveReads ==
  ASSUME Gate!TypeOK, InTurn,
         NEW i \in DOMAIN toolBatch, NEW j \in DOMAIN toolBatch, i # j,
         Active(i), Active(j)
  PROVE  Gate!Reads(i) /\ toolBatch[i].tool # "skill_use"
<1>1. i \in Nat /\ j \in Nat
  BY DEF Gate!TypeOK
<1>2. /\ i \in Gate!Pending /\ ~ Gate!Done(i) /\ Gate!Turn(i)
      /\ j \in Gate!Pending /\ ~ Gate!Done(j) /\ Gate!Turn(j)
  BY DEF InTurn, Active, Begun
<1>3. \A k \in Gate!Pending : toolBatch[k].tool # "skill_use"
  BY <1>1, <1>2 DEF Gate!Turn
<1>4. CASE ~ Gate!Reads(i)
  <2>1. j > i /\ ~ Gate!Reads(j)
    BY <1>1, <1>2, <1>3, <1>4 DEF Gate!Turn
  <2>2. QED
    BY <1>1, <1>2, <1>3, <2>1 DEF Gate!Turn
<1>5. QED
  BY <1>2, <1>3, <1>4

-----------------------------------------------------------------------------
\* A step of one call leaves the batch, its results and the policy alone, and the
\* stage of every other call.
CallFrame(i) ==
  /\ gatePhase' = gatePhase /\ toolBatch' = toolBatch /\ answered' = answered /\ policy' = policy
  /\ configured' = configured /\ agent' = agent
  /\ lastUse' = lastUse /\ found' = found /\ runs' = runs
  /\ DOMAIN stage' = DOMAIN stage
  /\ \A j \in DOMAIN toolBatch \ {i} : stage'[j] = stage[j]

LEMMA StepFrame ==
  ASSUME Gate!TypeOK, NEW i \in DOMAIN toolBatch, Gate!CallStep(i)
  PROVE  /\ CallFrame(i) /\ gatePhase = "dispatch" /\ i \in Gate!Pending /\ ~ Gate!Done(i)
         /\ stage[i] = "waiting" => Gate!Turn(i)
         /\ stage' \in [DOMAIN toolBatch -> Gate!Stages]
         /\ stage'[i] # "waiting"
<1> USE DEF Gate!TypeOK, CallFrame, Gate!dispatching, Gate!Done, Gate!Settled, Gate!Stages, Gate!Goto
<1>1. CASE Gate!Begin(i)
  BY <1>1 DEF Gate!Begin
<1>2. CASE Gate!HookAnswers(i)
  BY <1>2 DEF Gate!HookAnswers
<1>3. CASE Gate!HumanAnswers(i)
  BY <1>3 DEF Gate!HumanAnswers
<1>4. CASE Gate!Returns(i)
  BY <1>4 DEF Gate!Returns
<1>5. QED
  BY <1>1, <1>2, <1>3, <1>4 DEF Gate!CallStep

\* A turn that has come is not taken back while the batch is dispatched.
LEMMA TurnStays ==
  ASSUME NEW i \in DOMAIN toolBatch, CallFrame(i), ~ Gate!Done(i),
         NEW k \in DOMAIN toolBatch, Gate!Turn(k)
  PROVE  Gate!Turn(k)'
<1>1. /\ Gate!Pending' = Gate!Pending
      /\ \A j \in DOMAIN toolBatch : Gate!Reads(j)' = Gate!Reads(j)
  BY DEF CallFrame, Gate!Pending, Gate!Reads, Gate!Known
<1>2. \A j \in DOMAIN toolBatch : Gate!Done(j) => Gate!Done(j)'
  BY DEF CallFrame, Gate!Done
<1>3. toolBatch' = toolBatch
  BY DEF CallFrame
<1>4. \A j \in Gate!Pending : j \in DOMAIN toolBatch
  BY DEF Gate!Pending
<1>5. QED
  BY <1>1, <1>2, <1>3, <1>4 DEF Gate!Turn

\* The step of a call keeps the invariant.
LEMMA CallKeeps ==
  ASSUME GateInv, NEW i \in DOMAIN toolBatch, Gate!CallStep(i)
  PROVE  GateInv'
<1>0. /\ CallFrame(i) /\ gatePhase = "dispatch" /\ i \in Gate!Pending /\ ~ Gate!Done(i)
      /\ stage[i] = "waiting" => Gate!Turn(i)
      /\ stage' \in [DOMAIN toolBatch -> Gate!Stages]
      /\ stage'[i] # "waiting"
  BY StepFrame DEF GateInv
<1>1. Gate!Turn(i)
  BY <1>0 DEF GateInv, InTurn, Begun
<1>2. Gate!TypeOK'
  <2>1. granted' \subseteq DOMAIN toolBatch /\ skill' \in SUBSET Gate!Tools
    BY DEF GateInv, Gate!TypeOK, Gate!CallStep, Gate!Begin, Gate!HookAnswers, Gate!HumanAnswers, Gate!Returns,
           Gate!dispatching, Gate!AllowedOf, Gate!AllTools, Gate!Tools
  <2>2. QED
    BY <1>0, <2>1 DEF GateInv, Gate!TypeOK, CallFrame
<1>3. Progress'
  BY <1>0 DEF GateInv, Progress, CallFrame, Gate!Done
<1>4. InTurn'
  <2> SUFFICES ASSUME NEW k \in DOMAIN toolBatch, Begun(k)'
               PROVE  Gate!Turn(k)'
    BY <1>0 DEF InTurn, CallFrame
  <2>1. Gate!Turn(k)
    BY <1>0, <1>1 DEF GateInv, InTurn, Begun, CallFrame, Gate!Pending
  <2>2. QED
    BY <1>0, <2>1, TurnStays
<1>5. \A k \in DOMAIN toolBatch \ {i} : Active(k)' => Active(k)
  BY <1>0 DEF CallFrame, Active, Begun, Gate!Done, Gate!Pending
<1>6. Gated'
  <2> SUFFICES ASSUME NEW k \in DOMAIN toolBatch, Active(k)'
               PROVE  /\ Gate!Known(toolBatch[k].tool) /\ ~ Gate!ArgDenied(toolBatch[k])
                      /\ stage'[k] = "running" /\ Gate!Evaluate(policy, toolBatch[k].tool) = "ask"
                           => k \in granted'
    BY <1>0 DEF Gated, CallFrame, Gate!Known, Gate!ArgDenied
  <2>1. granted \subseteq granted'
    BY DEF Gate!CallStep, Gate!Begin, Gate!HookAnswers, Gate!HumanAnswers, Gate!Returns
  <2>2. CASE k # i
    BY <1>0, <1>5, <2>1, <2>2 DEF GateInv, Gated, CallFrame
  <2>3. CASE k = i
    <3>1. ~ Gate!Done(i)'
      BY <2>3 DEF Active
    <3>2. CASE Gate!Begin(i)
      BY <2>3, <3>1, <3>2, <1>0 DEF Gate!Begin, Gate!Done, Gate!Settled, Gate!Goto, GateInv, Gate!TypeOK
    <3>3. CASE Gate!HookAnswers(i) \/ Gate!HumanAnswers(i)
      <4>1. Active(i)
        BY <1>0, <3>3 DEF Active, Begun, Gate!HookAnswers, Gate!HumanAnswers
      <4>2. QED
        BY <2>3, <3>1, <3>3, <4>1
           DEF Gate!HookAnswers, Gate!HumanAnswers, Gate!Goto, Gate!Done, Gate!Settled, GateInv, Gate!TypeOK, Gated
    <3>4. CASE Gate!Returns(i)
      BY <3>1, <3>4 DEF Gate!Returns, Gate!Goto, Gate!Done, Gate!Settled, GateInv, Gate!TypeOK
    <3>5. QED
      BY <3>2, <3>3, <3>4 DEF Gate!CallStep
  <2>4. QED
    BY <2>2, <2>3
<1>7. Allowed'
  <2> SUFFICES ASSUME NEW k \in DOMAIN toolBatch, Active(k)'
               PROVE  Gate!SkillAllows(toolBatch[k].tool)'
    BY <1>0 DEF Allowed, CallFrame
  <2>1. CASE Gate!Begin(i)
    <3>1. k = i => Gate!SkillAllows(toolBatch[i].tool)
      BY <2>1, <1>0 DEF Gate!Begin, Gate!Goto, Gate!Done, Gate!Settled, GateInv, Gate!TypeOK, Active
    <3>2. QED
      BY <2>1, <3>1, <1>5, <1>0
         DEF Gate!Begin, GateInv, Allowed, Gate!SkillAllows, Gate!dispatching
  <2>2. CASE Gate!HookAnswers(i) \/ Gate!HumanAnswers(i)
    <3>1. Active(i)
      BY <1>0, <2>2 DEF Active, Begun, Gate!HookAnswers, Gate!HumanAnswers
    <3>2. QED
      BY <2>2, <3>1, <1>5, <1>0
         DEF Gate!HookAnswers, Gate!HumanAnswers, GateInv, Allowed, Gate!SkillAllows, Gate!dispatching
  <2>3. CASE Gate!Returns(i)
    <3>1. k # i /\ Active(i)
      BY <2>3, <1>0 DEF Gate!Returns, Gate!Goto, Gate!Done, Gate!Settled, GateInv, Gate!TypeOK, Active, Begun
    <3>2. toolBatch[i].tool # "skill_use"
      BY <3>1, <1>5, ActiveReads DEF GateInv
    <3>3. skill' = skill
      BY <2>3, <3>2 DEF Gate!Returns
    <3>4. QED
      BY <3>1, <3>3, <1>5, <1>0 DEF GateInv, Allowed, Gate!SkillAllows, CallFrame
  <2>4. QED
    BY <2>1, <2>2, <2>3 DEF Gate!CallStep
<1>8. QED
  BY <1>2, <1>3, <1>4, <1>6, <1>7 DEF GateInv

-----------------------------------------------------------------------------
\* A run that starts has begun no call, and one that ends or waits for the model
\* dispatches none.
LEMMA RunKeeps ==
  ASSUME GateConstants, GateInv,
         Gate!SetPermissionMode \/ Gate!Start \/ Gate!Model \/ Gate!LogResult \/ Gate!End
  PROVE  GateInv'
<1> USE DEF GateInv
<1>1. CASE Gate!SetPermissionMode
  <2>1. UNCHANGED <<policy, skill, gatePhase, toolBatch, answered, stage, granted>>
    BY <1>1 DEF Gate!SetPermissionMode
  <2>2. Gate!TypeOK'
    BY <1>1 DEF Gate!SetPermissionMode, Gate!TypeOK, GateConstants, Gate!Policy
  <2>3. (Progress /\ InTurn /\ Gated /\ Allowed)'
    BY <2>1 DEF Progress, InTurn, Gated, Allowed, Begun, Active, Gate!Done, Gate!Pending, Gate!Turn,
                Gate!Reads, Gate!Known, Gate!ArgDenied, Gate!SkillAllows
  <2>4. QED
    BY <2>2, <2>3
<1>2. CASE Gate!Start
  <2>1. Gate!TypeOK'
    BY <1>2 DEF Gate!Start, Gate!TypeOK, GateConstants, Gate!Stages, Gate!Settled
  <2>2. \A i \in DOMAIN toolBatch : /\ stage'[i] = IF i > answered THEN "waiting" ELSE "ok"
                                /\ ~ Begun(i)'
    BY <1>2 DEF Gate!Start, Begun, Gate!Pending
  <2>3. Progress'
    <3>1. \A i \in DOMAIN toolBatch : i <= answered => Gate!Done(i)'
      BY <2>2 DEF Gate!TypeOK, Gate!Done, Gate!Settled
    <3>2. Gate!Pending # {} => answered < Len(toolBatch)
      BY DEF Gate!Pending, Gate!TypeOK
    <3>3. QED
      BY <1>2, <3>1, <3>2 DEF Gate!Start, Progress
  <2>4. QED
    BY <1>2, <2>1, <2>2, <2>3 DEF Gate!Start, InTurn, Gated, Allowed, Active
<1>3. CASE Gate!Model
  <2>1. toolBatch' \in Seq(Gate!Call) \ {<< >>} /\ stage' = [i \in DOMAIN toolBatch' |-> "waiting"]
    BY <1>3 DEF Gate!Model, GateConstants
  <2>2. Gate!TypeOK'
    BY <1>3, <2>1 DEF Gate!Model, Gate!TypeOK, Gate!Stages
  <2>3. Progress'
    BY <1>3, <2>1 DEF Gate!Model, Progress
  <2>4. \A i \in DOMAIN toolBatch' : ~ Begun(i)'
    BY <2>1 DEF Begun
  <2>5. QED
    BY <2>2, <2>3, <2>4 DEF InTurn, Gated, Allowed, Active
<1>4. CASE Gate!LogResult
  <2>1. /\ gatePhase = "dispatch" /\ answered' = answered + 1
        /\ gatePhase' = IF answered' = Len(toolBatch) THEN "model" ELSE gatePhase
        /\ toolBatch' = toolBatch /\ stage' = stage /\ UNCHANGED <<policy, skill, granted>>
    BY <1>4 DEF Gate!LogResult
  <2>2. \A i \in DOMAIN toolBatch : Gate!Done(i) /\ Gate!Done(i)'
    BY <1>4, <2>1 DEF Gate!LogResult, Progress, Gate!Pending, Gate!TypeOK, Gate!Done
  <2>3. answered' \in 0..Len(toolBatch) /\ (gatePhase' = "dispatch" => answered' < Len(toolBatch))
    BY <2>1 DEF Progress, Gate!TypeOK
  <2>4. Gate!TypeOK'
    BY <1>4, <2>1, <2>3 DEF Gate!LogResult, Gate!TypeOK, Gate!AllowedOf, Gate!AllTools, Gate!Tools
  <2>5. (Progress /\ InTurn)'
    BY <2>1, <2>2, <2>3 DEF Progress, InTurn, Gate!Turn, Gate!Pending
  <2>6. QED
    BY <2>1, <2>2, <2>4, <2>5 DEF Gated, Allowed, Active
<1>5. CASE Gate!End
  <2>1. Gate!TypeOK'
    BY <1>5 DEF Gate!End, Gate!TypeOK
  <2>2. gatePhase' # "dispatch"
    BY <1>5 DEF Gate!End
  <2>3. QED
    BY <2>1, <2>2 DEF Progress, InTurn, Gated, Allowed, Active, Begun
<1>6. QED
  BY <1>1, <1>2, <1>3, <1>4, <1>5

LEMMA GateStuttering ==
  ASSUME GateInv, UNCHANGED gateVars
  PROVE  GateInv'
BY DEF gateVars, GateInv, Gate!TypeOK, Progress, InTurn, Gated, Allowed, Begun, Active,
       Gate!Done, Gate!Pending, Gate!Turn, Gate!Reads, Gate!Known, Gate!ArgDenied,
       Gate!SkillAllows

LEMMA GateInvHolds == ASSUME GateConstants PROVE Spec => []GateInv
<1>1. Init => GateInv
  <2> SUFFICES ASSUME Gate!Init PROVE GateInv
    BY DEF Init
  <2> QED
    BY DEF Gate!Init, GateConstants, GateInv, Gate!TypeOK, Progress, InTurn, Gated,
           Allowed, Begun, Active, Gate!AllTools
<1>2. GateInv /\ [Next]_allVars => GateInv'
  <2> SUFFICES ASSUME GateInv, [Gate!Next]_gateVars PROVE GateInv'
    BY StepOfParts
  <2> QED
    BY CallKeeps, RunKeeps, GateStuttering DEF Gate!Next
<1>3. QED
  BY <1>1, <1>2, PTL DEF Spec

-----------------------------------------------------------------------------
LEMMA RunningIsActive ==
  ASSUME GateInv, NEW i \in DOMAIN toolBatch, Gate!Running(i)
  PROVE  Active(i)
BY DEF GateInv, Gate!TypeOK, Progress, Gate!Running, Active, Begun, Gate!Pending,
       Gate!Done, Gate!Settled

\* Whatever the hooks and humans answer, and whatever mode is set meanwhile, no tool
\* runs that the policy of its run denies, or asks about without a consent.
THEOREM DeniedNeverRuns == ASSUME GateConstants PROVE Spec => []Gate!DenyIsFinal
<1>1. GateInv => Gate!DenyIsFinal
  BY RunningIsActive
     DEF GateInv, Gated, Gate!DenyIsFinal, Gate!Known, Gate!Running, Gate!Evaluate
<1>2. QED
  BY <1>1, GateInvHolds, PTL

\* While a mutating call runs, no other call of its batch does.
THEOREM MutationIsAlone == ASSUME GateConstants PROVE Spec => []Gate!MutatesAlone
<1>1. GateInv => Gate!MutatesAlone
  BY RunningIsActive, ActiveReads DEF GateInv, Gate!MutatesAlone, Gate!Reads
<1>2. QED
  BY <1>1, GateInvHolds, PTL

\* A tool runs only under a skill that allows it, although the list of the skill
\* is read before the gate is awaited.
THEOREM SkillIsObeyed == ASSUME GateConstants PROVE Spec => []Gate!SkillObeyed
<1>1. GateInv => Gate!SkillObeyed
  BY RunningIsActive DEF GateInv, Allowed, Gate!SkillObeyed
<1>2. QED
  BY <1>1, GateInvHolds, PTL

-----------------------------------------------------------------------------
\* The model asks for skills that exist.
SkillsExist == \A b \in ToolBatches : \A i \in DOMAIN b : b[i].arg # "missing"

Loaded(i) == toolBatch[i].tool = "skill_use" /\ stage[i] = "ok"

\* While a batch is dispatched, the active skill is that of its last call that
\* loaded one and is not logged, or the last one of the log.
SkillTracks ==
  /\ lastUse = found
  /\ \A i \in DOMAIN toolBatch : toolBatch[i].arg # "missing"
  /\ gatePhase = "model" => skill = found
  /\ gatePhase = "dispatch" =>
       \/ /\ \A j \in Gate!Pending : ~ Loaded(j)
          /\ skill = found
       \/ \E k \in Gate!Pending :
            /\ Loaded(k) /\ skill = Gate!AllowedOf(toolBatch[k].arg)
            /\ \A j \in Gate!Pending : Loaded(j) => j <= k

\* A call that loads a skill is the last one of its batch to begin.
LEMMA CallTracks ==
  ASSUME GateInv, SkillTracks, NEW i \in DOMAIN toolBatch, Gate!CallStep(i)
  PROVE  SkillTracks'
<1>0. /\ CallFrame(i) /\ gatePhase = "dispatch" /\ i \in Gate!Pending /\ ~ Gate!Done(i)
      /\ stage[i] = "waiting" => Gate!Turn(i)
      /\ stage' \in [DOMAIN toolBatch -> Gate!Stages]
      /\ stage'[i] # "waiting"
  BY StepFrame DEF GateInv
<1>1. Gate!Pending' = Gate!Pending /\ Gate!Pending \subseteq DOMAIN toolBatch
  BY <1>0 DEF CallFrame, Gate!Pending
<1>2. \A j \in Gate!Pending \ {i} : Loaded(j)' <=> Loaded(j)
  BY <1>0, <1>1 DEF CallFrame, Loaded
<1>3. ~ Loaded(i)
  BY <1>0 DEF Loaded, Gate!Done, Gate!Settled
<1>4. CASE ~ Loaded(i)'
  <2>1. skill' = skill
    BY <1>4, <1>0
       DEF Gate!CallStep, Gate!Begin, Gate!HookAnswers, Gate!HumanAnswers, Gate!Returns,
           Gate!Goto, Loaded, CallFrame, GateInv, Gate!TypeOK
  <2>2. \A j \in Gate!Pending : Loaded(j)' <=> Loaded(j)
    BY <1>2, <1>3, <1>4
  <2>3. QED
    BY <2>1, <2>2, <1>0, <1>1 DEF SkillTracks, CallFrame
<1>5. CASE Loaded(i)'
  <2>1. toolBatch[i].tool = "skill_use" /\ stage'[i] = "ok"
    BY <1>5, <1>0 DEF Loaded, CallFrame
  <2>2. Gate!Returns(i)
    BY <2>1, <1>0
       DEF Gate!CallStep, Gate!Begin, Gate!HookAnswers, Gate!HumanAnswers,
           Gate!Goto, GateInv, Gate!TypeOK
  <2>3. skill' = Gate!AllowedOf(toolBatch[i].arg)
    BY <2>1, <2>2, <1>0 DEF Gate!Returns, Gate!Goto, GateInv, Gate!TypeOK, SkillTracks
  <2>4. \A j \in Gate!Pending : Loaded(j) => j <= i
    <3> SUFFICES ASSUME NEW j \in Gate!Pending, Loaded(j), ~ (j <= i)
                 PROVE  FALSE
      OBVIOUS
    <3>1. Gate!Turn(j)
      BY <1>0, <1>1 DEF GateInv, InTurn, Begun, Loaded
    <3>2. i < j
      BY <1>1 DEF GateInv, Gate!TypeOK, Gate!Pending
    <3>3. QED
      BY <3>1, <3>2, <2>1, <1>0 DEF Gate!Turn
  <2>5. QED
    BY <2>3, <2>4, <1>0, <1>1, <1>2, <1>5 DEF SkillTracks, CallFrame, Gate!AllowedOf,
       Gate!AllTools, GateInv, Gate!TypeOK, Gate!Pending
<1>6. QED
  BY <1>4, <1>5

LEMMA RunTracks ==
  ASSUME GateConstants, SkillsExist, GateInv, SkillTracks,
         Gate!SetPermissionMode \/ Gate!Start \/ Gate!Model \/ Gate!LogResult \/ Gate!End
  PROVE  SkillTracks'
<1>1. CASE Gate!SetPermissionMode
  BY <1>1 DEF Gate!SetPermissionMode, SkillTracks, Loaded, Gate!Pending
<1>2. CASE Gate!Start
  <2>1. \A j \in Gate!Pending' : ~ Loaded(j)'
    BY <1>2 DEF Gate!Start, Loaded, Gate!Pending
  <2>2. QED
    BY <1>2, <2>1 DEF Gate!Start, SkillTracks
<1>3. CASE Gate!Model
  <2>1. \A j \in DOMAIN toolBatch' : ~ Loaded(j)' /\ toolBatch'[j].arg # "missing"
    BY <1>3 DEF Gate!Model, Loaded, SkillsExist
  <2>2. \A j \in Gate!Pending' : ~ Loaded(j)'
    BY <2>1 DEF Gate!Pending
  <2>3. QED
    BY <1>3, <2>1, <2>2 DEF Gate!Model, SkillTracks
<1>4. CASE Gate!LogResult
  <2> DEFINE n == answered + 1
  <2>1. /\ gatePhase = "dispatch" /\ answered' = n
        /\ gatePhase' = IF n = Len(toolBatch) THEN "model" ELSE gatePhase
        /\ toolBatch' = toolBatch /\ stage' = stage /\ skill' = skill
    BY <1>4 DEF Gate!LogResult
  <2>2. n \in Gate!Pending /\ Gate!Pending' = Gate!Pending \ {n}
    BY <2>1 DEF GateInv, Progress, Gate!TypeOK, Gate!Pending
  <2>3. \A j \in DOMAIN toolBatch : Loaded(j)' <=> Loaded(j)
    BY <2>1 DEF Loaded
  <2>4. toolBatch[n].arg # "missing" /\ lastUse = found
    BY <2>2 DEF SkillTracks, Gate!Pending
  <2>5. /\ found' = IF Loaded(n) THEN Gate!AllowedOf(toolBatch[n].arg) ELSE found
        /\ lastUse' = found'
    BY <1>4, <2>4 DEF Gate!LogResult, Loaded
  <2>6. n = Len(toolBatch) => Gate!Pending' = {}
    BY <2>1 DEF Gate!Pending, GateInv, Gate!TypeOK
  <2>7. \/ /\ \A j \in Gate!Pending' : ~ Loaded(j)'
           /\ skill' = found'
        \/ \E k \in Gate!Pending' :
             /\ Loaded(k)' /\ skill' = Gate!AllowedOf(toolBatch[k].arg)
             /\ \A j \in Gate!Pending' : Loaded(j)' => j <= k
    <3>1. CASE \A j \in Gate!Pending : ~ Loaded(j)
      BY <3>1, <2>1, <2>2, <2>3, <2>5 DEF SkillTracks, Gate!Pending
    <3>2. CASE \E k \in Gate!Pending : Loaded(k)
      <4>1. PICK k \in Gate!Pending :
              /\ Loaded(k) /\ skill = Gate!AllowedOf(toolBatch[k].arg)
              /\ \A j \in Gate!Pending : Loaded(j) => j <= k
        BY <3>2, <2>1 DEF SkillTracks
      <4>2. CASE k # n
        BY <4>1, <4>2, <2>1, <2>2, <2>3 DEF Gate!Pending
      <4>3. CASE k = n
        <5>1. \A j \in Gate!Pending' : ~ Loaded(j)
          BY <4>1, <4>3, <2>2 DEF Gate!Pending, GateInv, Gate!TypeOK
        <5>2. QED
          BY <5>1, <4>1, <4>3, <2>1, <2>2, <2>3, <2>5 DEF Gate!Pending
      <4>4. QED
        BY <4>2, <4>3
    <3>3. QED
      BY <3>1, <3>2
  <2>8. QED
    BY <2>1, <2>3, <2>4, <2>5, <2>6, <2>7 DEF SkillTracks, Gate!AllowedOf, Gate!AllTools
<1>5. CASE Gate!End
  BY <1>5 DEF Gate!End, SkillTracks
<1>6. QED
  BY <1>1, <1>2, <1>3, <1>4, <1>5

\* A tool runs only if the policy, the consent it asks for and the active skill allow
\* it, a mutating one alone, and a run goes on under the skill that the log shows as
\* the last one loaded.
THEOREM ToolsStayGated ==
  ASSUME GateConstants, SkillsExist
  PROVE  Spec => []ToolsAreGated
<1>1. Init => SkillTracks
  BY DEF Init, Gate!Init, SkillTracks
<1>2. GateInv /\ SkillTracks /\ [Next]_allVars => SkillTracks'
  <2>1. SkillTracks /\ UNCHANGED gateVars => SkillTracks'
    BY DEF gateVars, SkillTracks, Loaded, Gate!Pending
  <2>2. GateInv /\ SkillTracks /\ Gate!Next => SkillTracks'
    BY CallTracks, RunTracks DEF Gate!Next
  <2>3. QED
    BY <2>1, <2>2, StepOfParts
<1>3. SkillTracks => Gate!SkillRemembered
  BY DEF SkillTracks, Gate!SkillRemembered
<1>4. Gate!DenyIsFinal /\ Gate!MutatesAlone /\ Gate!SkillObeyed /\ Gate!SkillRemembered
        => ToolsAreGated
  BY DEF ToolsAreGated
<1>5. QED
  BY <1>1, <1>2, <1>3, <1>4, GateInvHolds, DeniedNeverRuns, MutationIsAlone,
     SkillIsObeyed, PTL DEF Spec

-----------------------------------------------------------------------------
(* The sandbox.  Once a boundary has tripped, whoever comes late finds it, *)
(* the race of the creation says what became of it, and run() leaves       *)
(* without a sandbox only after a failure or a boundary.                   *)

SandboxInv ==
  /\ Sandbox!TypeOK /\ Sandbox!NoSandboxLeaks
  /\ phase # "left" /\ cancelled => boundary
  /\ phase = "creating" => /\ winner = "ready" => create = "ready"
                           /\ winner = "failed" => create = "failed"
                           /\ winner = "boundary" => boundary
  /\ phase = "executing" => create = "ready"
  /\ phase \in {"leaving", "left"} /\ create = "pending" => boundary

LEMMA SandboxInvHolds == Spec => []SandboxInv
<1>1. Init => SandboxInv
  BY DEF Init, Sandbox!Init, SandboxInv, Sandbox!TypeOK, Sandbox!NoSandboxLeaks
<1>2. SandboxInv /\ [Next]_allVars => SandboxInv'
  <2> SUFFICES ASSUME SandboxInv, [Sandbox!Next]_sandboxVars
               PROVE  SandboxInv'
    BY StepOfParts
  <2> USE DEF SandboxInv, Sandbox!TypeOK, Sandbox!NoSandboxLeaks
  <2>1. CASE Sandbox!Ready
    BY <2>1 DEF Sandbox!Ready, Sandbox!First, Sandbox!TooLate
  <2>2. CASE Sandbox!CreateFails
    BY <2>2 DEF Sandbox!CreateFails, Sandbox!First
  <2>3. CASE Sandbox!TimeOut
    BY <2>3 DEF Sandbox!TimeOut, Sandbox!First, Sandbox!KilledNow
  <2>4. CASE Sandbox!Abort
    BY <2>4 DEF Sandbox!Abort, Sandbox!First, Sandbox!KilledNow
  <2>5. CASE Sandbox!Execute
    BY <2>5 DEF Sandbox!Execute
  <2>6. CASE Sandbox!CodeEnds
    BY <2>6 DEF Sandbox!CodeEnds, Sandbox!First
  <2>7. CASE Sandbox!GiveUp
    BY <2>7 DEF Sandbox!GiveUp
  <2>8. CASE Sandbox!Leave
    BY <2>8 DEF Sandbox!Leave, Sandbox!KilledNow
  <2>9. CASE UNCHANGED sandboxVars
    BY <2>9 DEF sandboxVars
  <2>10. QED
    BY <2>1, <2>2, <2>3, <2>4, <2>5, <2>6, <2>7, <2>8, <2>9 DEF Sandbox!Next
<1>3. QED
  BY <1>1, <1>2, PTL DEF Spec

\* run() kills the sandbox it has created however the timer, the signal, the
\* creation and the code interleave, and no other.
THEOREM NoLeak == Spec => []Sandbox!NoSandboxLeaks
<1>1. SandboxInv => Sandbox!NoSandboxLeaks
  BY DEF SandboxInv
<1>2. QED
  BY <1>1, SandboxInvHolds, PTL

-----------------------------------------------------------------------------
(* The stream of a chat component.  One request is under way at most, the   *)
(* status says whether there is one, and a request that waits for its retry *)
(* has had no byte of an answer.                                            *)

\* Requests are numbered from 1.
StreamConstants ==
  /\ Requests \subseteq Nat \ {0}
  /\ MaxRetries \in Nat /\ Resends \in BOOLEAN

Request ==
  [at : {"unused", "posting", "reading", "backoff", "ended"},
   kind : {"none", "send", "resume"}, attempt : Nat, bytes : BOOLEAN,
   event : BOOLEAN, result : {"none", "done", "suspended"}, aborted : BOOLEAN]

UnderWay(n) == request[n].at \in {"posting", "reading", "backoff"}

StreamInv ==
  /\ Stream!TypeOK
  /\ request \in [Requests -> Request]
  /\ \A n, m \in Requests : UnderWay(n) /\ UnderWay(m) => n = m
  /\ mounted => (status = "streaming" <=> \E n \in Requests : UnderWay(n))
  /\ mounted /\ ~ Resends => \A n \in Requests : UnderWay(n) => abort = n
  /\ \A n \in Requests :
       /\ request[n].at = "backoff" => ~ request[n].bytes /\ ~ request[n].event
       /\ UnderWay(n) /\ request[n].result = "suspended" => suspension
  /\ replayed = {}

LEMMA StreamInvInit == ASSUME StreamConstants, Stream!Init PROVE StreamInv
BY DEF StreamConstants, Stream!Init, StreamInv, Stream!TypeOK, Request, UnderWay,
       Stream!Unused

\* A request that is only stopped is still where it was.
LEMMA StopKeeps ==
  ASSUME StreamConstants, StreamInv, abort # 0, request' = Stream!Aborted(abort),
         UNCHANGED <<status, suspension, abort, replayed>>,
         mounted' \in BOOLEAN, mounted' => mounted
  PROVE  StreamInv'
<1>1. abort \in Requests
  BY DEF StreamInv, Stream!TypeOK
<1>2. \A n \in Requests :
        /\ request'[n] \in Request
        /\ request'[n].at = request[n].at /\ request'[n].bytes = request[n].bytes
        /\ request'[n].event = request[n].event /\ request'[n].result = request[n].result
  BY <1>1 DEF StreamInv, Stream!Aborted, Request
<1>3. request' \in [Requests -> Request]
  BY <1>1, <1>2 DEF StreamInv, Stream!Aborted
<1>4. \A n \in Requests : UnderWay(n)' <=> UnderWay(n)
  BY <1>2 DEF UnderWay
<1>5. QED
  BY <1>2, <1>3, <1>4 DEF StreamInv, Stream!TypeOK

LEMMA StreamStep ==
  ASSUME StreamConstants, StreamInv, [Stream!Next]_streamVars
  PROVE  StreamInv'
<1> USE DEF StreamConstants, StreamInv, Stream!TypeOK, Request, UnderWay, Stream!Unused
<1>1. CASE Stream!Regenerate
  BY <1>1 DEF Stream!Regenerate
<1>2. CASE Stream!Stop
  BY <1>2, StopKeeps DEF Stream!Stop
<1>3. CASE Stream!Unmount
  <2>1. CASE abort = 0
    BY <1>3, <2>1 DEF Stream!Unmount
  <2>2. CASE abort # 0
    BY <1>3, <2>2, StopKeeps DEF Stream!Unmount
  <2>3. QED
    BY <2>1, <2>2
<1>4. ASSUME NEW n \in Requests, Stream!Send(n)
      PROVE  StreamInv'
  BY <1>4 DEF Stream!Send, Stream!Fresh, Stream!MaySend
<1>5. ASSUME NEW n \in Requests, Stream!Resume(n)
      PROVE  StreamInv'
  BY <1>5 DEF Stream!Resume, Stream!Fresh
<1>6. ASSUME NEW n \in Requests, UnderWay(n), NEW final \in {"idle", "done", "error", "suspended"},
             Stream!EndAs(n, final), UNCHANGED <<suspension, mounted, replayed>>
      PROVE  StreamInv'
  BY <1>6 DEF Stream!EndAs, Stream!Ended
<1>7. ASSUME NEW n \in Requests, UnderWay(n), Stream!Fail(n), UNCHANGED <<mounted, replayed>>
      PROVE  StreamInv'
  <2>1. CASE Stream!Retries(n)
    BY <1>7, <2>1 DEF Stream!Fail, Stream!Retries
  <2>2. CASE ~ Stream!Retries(n)
    <3>1. CASE Stream!EndAs(n, "error") /\ UNCHANGED suspension
      BY <1>6, <1>7, <3>1
    <3>2. CASE ~ (Stream!EndAs(n, "error") /\ UNCHANGED suspension)
      <4>1. PICK m \in Requests :
              /\ mounted /\ request[m].at = "unused" /\ Resends
              /\ request' = [Stream!Ended(n) EXCEPT ![m] =
                               [Stream!Unused EXCEPT !.at = "posting", !.kind = "send"]]
              /\ status' = "streaming" /\ suspension' = FALSE /\ abort' = 0
        BY <1>7, <2>2, <3>2 DEF Stream!Fail, Stream!EndWithError, Stream!Fresh
      <4>2. m # n
        BY <1>7, <4>1
      <4>3. /\ request' \in [Requests -> Request]
            /\ request'[n].at = "ended" /\ request'[m].at = "posting"
            /\ request'[m].result = "none"
            /\ \A k \in Requests \ {m, n} : request'[k] = request[k]
        <5>1. /\ Stream!Ended(n) \in [Requests -> Request] /\ Stream!Ended(n)[n].at = "ended"
              /\ \A k \in Requests \ {n} : Stream!Ended(n)[k] = request[k]
          BY DEF Stream!Ended
        <5> DEFINE new == [Stream!Unused EXCEPT !.at = "posting", !.kind = "send"]
        <5>3. new \in Request /\ new.at = "posting" /\ new.result = "none"
          OBVIOUS
        <5> HIDE DEF new
        <5>4. request' = [Stream!Ended(n) EXCEPT ![m] = new]
          BY <4>1 DEF new
        <5>5. QED
          BY <5>1, <5>3, <5>4, <4>2
      <4>4. \A k \in Requests : UnderWay(k)' <=> k = m
        BY <1>7, <4>2, <4>3
      <4>5. /\ Stream!TypeOK'
            /\ mounted' => (status' = "streaming" <=> \E k \in Requests : UnderWay(k)')
        BY <1>7, <4>1, <4>4
      <4>6. \A k \in Requests :
              /\ request'[k].at = "backoff" => ~ request'[k].bytes /\ ~ request'[k].event
              /\ UnderWay(k)' /\ request'[k].result = "suspended" => suspension'
        BY <4>2, <4>3, <4>4
      <4>7. QED
        BY <1>7, <4>1, <4>3, <4>4, <4>5, <4>6
    <3>3. QED
      BY <3>1, <3>2
  <2>3. QED
    BY <2>1, <2>2
<1>8. ASSUME NEW n \in Requests, Stream!Post(n)
      PROVE  StreamInv'
  <2>1. UnderWay(n)
    BY <1>8 DEF Stream!Post
  <2>2. CASE request' = [request EXCEPT ![n].at = "reading"]
               /\ UNCHANGED <<status, suspension, abort>>
    BY <1>8, <2>2 DEF Stream!Post
  <2>3. QED
    BY <1>6, <1>7, <1>8, <2>1, <2>2 DEF Stream!Post
<1>9. ASSUME NEW n \in Requests, Stream!Wake(n)
      PROVE  StreamInv'
  <2>1. request[n].at = "backoff" /\ UNCHANGED <<status, suspension, abort, mounted>>
    BY <1>9 DEF Stream!Wake
  <2>2. CASE mounted
    <3>1. /\ request' \in [Requests -> Request]
          /\ request'[n].at = "posting" /\ request'[n].result = request[n].result
          /\ \A k \in Requests \ {n} : request'[k] = request[k]
      BY <1>9, <2>2 DEF Stream!Wake
    <3>2. replayed' = {}
      BY <1>9, <2>1, <2>2 DEF Stream!Wake
    <3>3. \A k \in Requests : UnderWay(k)' <=> UnderWay(k)
      BY <2>1, <3>1
    <3>4. QED
      BY <2>1, <3>1, <3>2, <3>3
  <2>3. CASE ~ mounted
    <3>1. /\ request' \in [Requests -> Request] /\ request'[n].at = "ended"
          /\ \A k \in Requests \ {n} : request'[k] = request[k]
      BY <1>9, <2>3 DEF Stream!Wake, Stream!Ended
    <3>2. replayed' = {}
      BY <1>9, <2>3 DEF Stream!Wake
    <3>3. QED
      BY <2>1, <2>3, <3>1, <3>2
  <2>4. QED
    BY <2>2, <2>3
<1>10. ASSUME NEW n \in Requests, Stream!Bytes(n)
       PROVE  StreamInv'
  <2>1. /\ request' \in [Requests -> Request]
        /\ request'[n].at = "reading" /\ request[n].at = "reading"
        /\ request'[n].result = request[n].result
        /\ \A k \in Requests \ {n} : request'[k] = request[k]
        /\ UNCHANGED <<status, suspension, abort, mounted, replayed>>
    <3>1. /\ request[n].at = "reading" /\ request' = [request EXCEPT ![n].bytes = TRUE]
          /\ UNCHANGED <<status, suspension, abort, mounted, replayed>>
      BY <1>10 DEF Stream!Bytes, Stream!Open
    <3> DEFINE r == [request[n] EXCEPT !.bytes = TRUE]
    <3>2. r \in Request /\ r.at = request[n].at /\ r.result = request[n].result
      OBVIOUS
    <3>3. request' = [request EXCEPT ![n] = r]
      BY <3>1
    <3>4. request \in [Requests -> Request]
      OBVIOUS
    <3> HIDE DEF r, Request, StreamInv, Stream!TypeOK, StreamConstants, UnderWay
    <3>5. QED
      BY <3>1, <3>2, <3>3, <3>4
  <2>2. \A k \in Requests : UnderWay(k)' <=> UnderWay(k)
    BY <2>1
  <2>3. QED
    BY <2>1, <2>2
<1>11. ASSUME NEW n \in Requests, Stream!Event(n)
       PROVE  StreamInv'
  <2>1. /\ request' \in [Requests -> Request]
        /\ request'[n].at = "reading" /\ request[n].at = "reading"
        /\ request'[n].result = "suspended" => suspension'
        /\ \A k \in Requests \ {n} : request'[k] = request[k]
        /\ suspension' \in BOOLEAN
        /\ UNCHANGED <<status, abort, mounted, replayed>>
    <3>1. PICK result \in {"none", "done", "suspended"} :
            /\ request' = [request EXCEPT ![n].bytes = TRUE, ![n].event = TRUE,
                                          ![n].result = result]
            /\ suspension' = CASE result = "suspended" -> TRUE
                               [] result = "done" /\ request[n].kind = "resume" -> FALSE
                               [] OTHER -> suspension
      BY <1>11 DEF Stream!Event
    <3>2. request[n].at = "reading" /\ UNCHANGED <<status, abort, mounted, replayed>>
      BY <1>11 DEF Stream!Event, Stream!Open
    <3>3. /\ request' \in [Requests -> Request]
          /\ request'[n].at = request[n].at /\ request'[n].result = result
          /\ \A k \in Requests \ {n} : request'[k] = request[k]
      <4> DEFINE new == [request[n] EXCEPT !.bytes = TRUE, !.event = TRUE, !.result = result]
      <4>1. request' = [request EXCEPT ![n] = new]
        BY <3>1
      <4>2. new \in Request /\ new.at = request[n].at /\ new.result = result
        OBVIOUS
      <4> HIDE DEF new
      <4>3. QED
        BY <4>1, <4>2
    <3>4. suspension' \in BOOLEAN /\ (result = "suspended" => suspension')
      BY <3>1
    <3>5. QED
      BY <3>2, <3>3, <3>4
  <2>2. \A k \in Requests : UnderWay(k)' <=> UnderWay(k)
    BY <2>1
  <2>3. QED
    BY <2>1, <2>2
<1>12. ASSUME NEW n \in Requests, Stream!Break(n)
       PROVE  StreamInv'
  <2>1. UnderWay(n)
    BY <1>12 DEF Stream!Break
  <2>2. CASE Stream!Authoritative(n)
    BY <1>6, <1>12, <2>1, <2>2 DEF Stream!Break, Stream!Authoritative
  <2>3. CASE ~ Stream!Authoritative(n)
    <3>1. \/ Stream!EndAs(n, "idle") /\ UNCHANGED suspension
          \/ Stream!Fail(n)
      BY <1>12, <2>3 DEF Stream!Break
    <3>2. QED
      BY <1>6, <1>7, <1>12, <2>1, <3>1 DEF Stream!Break
  <2>4. QED
    BY <2>2, <2>3
<1>13. ASSUME NEW n \in Requests, Stream!Eof(n)
       PROVE  StreamInv'
  <2>1. UnderWay(n) /\ request[n].result \in {"none", "done", "suspended"}
    BY <1>13 DEF Stream!Eof
  <2>2. QED
    BY <1>6, <1>7, <1>13, <2>1 DEF Stream!Eof
<1>14. CASE UNCHANGED streamVars
  BY <1>14 DEF streamVars
<1>15. QED
  BY <1>1, <1>2, <1>3, <1>4, <1>5, <1>8, <1>9, <1>10, <1>11, <1>12, <1>13, <1>14
     DEF Stream!Next

LEMMA StreamInvHolds == ASSUME StreamConstants PROVE Spec => []StreamInv
<1>1. Init => StreamInv
  BY StreamInvInit DEF Init
<1>2. StreamInv /\ [Next]_allVars => StreamInv'
  BY StreamStep, StepOfParts
<1>3. QED
  BY <1>1, <1>2, PTL DEF Spec

LEMMA StreamIsOne ==
  ASSUME StreamConstants, StreamInv
  PROVE  Stream!OneStream /\ Stream!SafeReplay
<1>1. Stream!Running = {n \in Requests : UnderWay(n)}
  BY DEF Stream!Running, UnderWay
<1>2. Stream!Running = {} \/ \E n \in Requests : Stream!Running = {n}
  BY <1>1 DEF StreamInv
<1>3. Cardinality(Stream!Running) <= 1
  <2>1. CASE Stream!Running = {}
    BY <2>1, FS_EmptySet
  <2>2. CASE Stream!Running # {}
    <3>1. PICK n \in Requests : Stream!Running = {n}
      BY <1>2, <2>2
    <3>2. QED
      BY <3>1, FS_Singleton
  <2>3. QED
    BY <2>1, <2>2
<1>4. Stream!Cardinality(Stream!Running) <= 1
  BY <1>3 DEF Cardinality, Stream!Cardinality
<1>5. QED
  BY <1>1, <1>4 DEF StreamInv, Stream!OneStream, Stream!SafeReplay

\* The result of a send decides the status that the component is left with, also if
\* the connection breaks after it, and a pending approval is shown.
THEOREM ResultIsFinal == ASSUME StreamConstants PROVE Spec => ResultDecides
<1> DEFINE Decided ==
      \A n \in Requests :
        mounted /\ request[n].kind = "send" /\ request[n].result # "none"
          /\ request[n].at = "reading" /\ request'[n].at = "ended" =>
            /\ status' = request[n].result
            /\ status' = "suspended" => suspension'
<1>1. ASSUME StreamInv, [Stream!Next]_streamVars
      PROVE  Decided
  <2> SUFFICES ASSUME NEW n \in Requests,
                      mounted, request[n].kind = "send", request[n].result # "none",
                      request[n].at = "reading", request'[n].at = "ended"
               PROVE  /\ status' = request[n].result
                      /\ status' = "suspended" => suspension'
    OBVIOUS
  <2> USE DEF StreamInv, Request, UnderWay, Stream!Unused
  <2>1. PICK k \in Requests :
           \/ Stream!Send(k) \/ Stream!Resume(k) \/ Stream!Post(k) \/ Stream!Wake(k)
           \/ Stream!Bytes(k) \/ Stream!Event(k) \/ Stream!Break(k) \/ Stream!Eof(k)
    BY <1>1 DEF Stream!Next, streamVars, Stream!Regenerate, Stream!Stop, Stream!Unmount,
                Stream!Aborted
  <2>2. k = n
    <3> SUFFICES ASSUME k # n PROVE FALSE
      OBVIOUS
    <3>1. ~ UnderWay(k)
      BY <1>1
    <3>2. Stream!Send(k) \/ Stream!Resume(k)
      BY <2>1, <3>1
         DEF Stream!Post, Stream!Wake, Stream!Bytes, Stream!Event, Stream!Break,
             Stream!Eof, Stream!Open
    <3>3. request'[n] = request[n]
      BY <1>1, <3>2 DEF Stream!Send, Stream!Resume
    <3>4. QED
      BY <3>3
  <2>3. Stream!Break(n) \/ Stream!Eof(n)
    <3>1. ~ Stream!Send(n) /\ ~ Stream!Resume(n) /\ ~ Stream!Post(n) /\ ~ Stream!Wake(n)
      <4>1. ~ Stream!Send(n) /\ ~ Stream!Resume(n)
        <5>1. request[n] # Stream!Unused
          OBVIOUS
        <5>2. QED
          BY <5>1 DEF Stream!Send, Stream!Resume, Stream!Fresh
      <4>2. ~ Stream!Post(n)
        BY DEF Stream!Post
      <4>3. ~ Stream!Wake(n)
        BY DEF Stream!Wake
      <4>4. QED
        BY <4>1, <4>2, <4>3
    <3>2. ~ Stream!Bytes(n) /\ ~ Stream!Event(n)
      BY DEF Stream!Bytes, Stream!Event, Stream!Open
    <3>3. QED
      BY <2>1, <2>2, <3>1, <3>2
  <2>4. Stream!EndAs(n, request[n].result) /\ UNCHANGED suspension
    BY <2>3 DEF Stream!Break, Stream!Eof, Stream!Authoritative
  <2>5. status' = request[n].result /\ suspension' = suspension
    BY <2>4 DEF Stream!EndAs
  <2>6. request[n].result = "suspended" => suspension
    BY <1>1
  <2>7. QED
    BY <2>5, <2>6
<1>2. QED
  BY <1>1, StreamInvHolds, StepOfParts, PTL DEF Spec, ResultDecides, Stream!ResultDecides

-----------------------------------------------------------------------------
(* The hook that polls a run.  Every start but the last one was told to stop, *)
(* and while one that was told has not settled yet, nobody else polls.        *)

\* maxPollMs is not given.
PollConstants == MaxStarts \in Nat /\ HasLimit = FALSE

PollStages == {"none", "creating", "asking", "sleeping", "gone"}
Polls(s) == at[s] \in {"asking", "sleeping"} /\ ~ aborted[s]

PollShape ==
  /\ newest \in 0..MaxStarts /\ current \in {0, newest}
  /\ at \in [Poll!Starts -> PollStages] /\ aborted \in [Poll!Starts -> BOOLEAN]
  /\ shown.by = newest /\ armed = [s \in Poll!Starts |-> FALSE]
  /\ isPolling \in BOOLEAN /\ pollMounted \in BOOLEAN
PollLive ==
  /\ \A s \in Poll!Starts :
       /\ s > newest => at[s] = "none"
       /\ at[s] \in {"creating", "asking", "sleeping"} /\ ~ aborted[s]
            => s = newest /\ current = newest
       /\ Polls(s) => isPolling
       /\ Polls(s) => \A t \in Poll!Starts : ~ Poll!Pending(t)
  /\ isPolling => newest # 0 /\ at[newest] \in {"asking", "sleeping"}

PollInv == PollShape /\ PollLive

LEMMA PollInvInit == ASSUME PollConstants, Poll!Init PROVE PollInv
<1>1. PollShape
  <2> USE DEF PollConstants, Poll!Init, Poll!Starts, PollStages
  <2>1. newest \in 0..MaxStarts /\ current \in {0, newest}
    OBVIOUS
  <2>2. at \in [Poll!Starts -> PollStages] /\ aborted \in [Poll!Starts -> BOOLEAN]
    OBVIOUS
  <2>3. shown.by = newest 
    OBVIOUS
  <2>4. armed = [s \in Poll!Starts |-> FALSE]
    OBVIOUS
  <2>5. isPolling \in BOOLEAN /\ pollMounted \in BOOLEAN
    OBVIOUS
  <2>6. QED
    BY <2>1, <2>2, <2>3, <2>4, <2>5 DEF PollShape
<1>2. PollLive
  BY DEF PollConstants, Poll!Init, PollLive, Poll!Starts, Polls
<1>3. QED
  BY <1>1, <1>2 DEF PollInv

LEMMA PollStep ==
  ASSUME PollConstants, PollInv, [Poll!Next]_pollVars
  PROVE  PollInv'
<1> USE DEF PollConstants, PollInv, PollShape, PollLive, PollStages, Polls, Poll!Pending, Poll!Starts,
            Poll!Arrives
<1>1. CASE Poll!Start
  <2>1. PollShape'
    <3> USE <1>1 DEF Poll!Start, Poll!Abort
    <3>1. newest' \in 0..MaxStarts /\ current' \in {0, newest'}
      OBVIOUS
    <3>2. at' \in [Poll!Starts -> PollStages] /\ aborted' \in [Poll!Starts -> BOOLEAN]
      OBVIOUS
    <3>3. shown'.by = newest' /\ armed' = [t \in Poll!Starts |-> FALSE]
      OBVIOUS
    <3>4. isPolling' \in BOOLEAN /\ pollMounted' \in BOOLEAN
      OBVIOUS
    <3>5. QED
      BY <3>1, <3>2, <3>3, <3>4
  <2>2. PollLive'
    <3>1. /\ newest' = newest + 1 /\ current' = newest + 1 /\ isPolling' = FALSE
          /\ at'[newest + 1] = "creating" /\ newest + 1 \in Poll!Starts
          /\ \A t \in Poll!Starts \ {newest + 1} : at'[t] = at[t]
          /\ \A t \in Poll!Starts : aborted'[t] = (aborted[t] \/ t = current)
      BY <1>1 DEF Poll!Start, Poll!Abort
    <3>2. \A t \in Poll!Starts : at'[t] \in {"creating", "asking", "sleeping"} /\ ~ aborted'[t]
                                 => t = newest + 1
      BY <3>1
    <3>3. QED
      BY <3>1, <3>2
  <2>3. QED
    BY <2>1, <2>2
<1>2. CASE Poll!Unmount
  BY <1>2 DEF Poll!Unmount, Poll!Abort
<1>3. ASSUME NEW s \in Poll!Starts, Poll!Created(s)
      PROVE  PollInv'
  <2>1. PollShape'
    BY <1>3 DEF Poll!Created
  <2>2. PollLive'
    BY <1>3 DEF Poll!Created
  <2>3. QED
    BY <2>1, <2>2
<1>4. ASSUME NEW s \in Poll!Starts, Poll!NotCreated(s)
      PROVE  PollInv'
  BY <1>4 DEF Poll!NotCreated
<1>5. ASSUME NEW s \in Poll!Starts, Poll!Status(s)
      PROVE  PollInv'
  <2>1. PollShape'
    <3> USE <1>5 DEF Poll!Status, Poll!Terminal
    <3>1. newest' \in 0..MaxStarts /\ current' \in {0, newest'}
      OBVIOUS
    <3>2. at' \in [Poll!Starts -> PollStages] /\ aborted' \in [Poll!Starts -> BOOLEAN]
      OBVIOUS
    <3>3. shown'.by = newest' /\ armed' = [t \in Poll!Starts |-> FALSE]
      <4>1. s = newest
        OBVIOUS
      <4>2. shown'.by = newest'
        BY <4>1
      <4>3. armed' = armed \/ armed' = [armed EXCEPT ![s] = FALSE]
        OBVIOUS
      <4>4. armed' = [t \in Poll!Starts |-> FALSE]
        BY <4>3
      <4>5. QED
        BY <4>2, <4>4
    <3>4. isPolling' \in BOOLEAN /\ pollMounted' \in BOOLEAN
      OBVIOUS
    <3>5. QED
      BY <3>1, <3>2, <3>3, <3>4
  <2>2. PollLive'
    BY <1>5 DEF Poll!Status, Poll!Terminal
  <2>3. QED
    BY <2>1, <2>2
<1>6. ASSUME NEW s \in Poll!Starts, Poll!StatusFails(s)
      PROVE  PollInv'
  BY <1>6 DEF Poll!StatusFails
<1>7. ASSUME NEW s \in Poll!Starts, Poll!Wake(s)
      PROVE  PollInv'
  BY <1>7 DEF Poll!Wake
<1>8. ASSUME NEW s \in Poll!Starts, Poll!TimeOut(s)
      PROVE  PollInv'
  BY <1>8 DEF Poll!TimeOut
<1>9. ASSUME NEW s \in Poll!Starts, Poll!Stopped(s)
      PROVE  PollInv'
  BY <1>9 DEF Poll!Stopped
<1>10. CASE UNCHANGED pollVars
  BY <1>10 DEF pollVars
<1>11. QED
  BY <1>1, <1>2, <1>3, <1>4, <1>5, <1>6, <1>7, <1>8, <1>9, <1>10 DEF Poll!Next

-----------------------------------------------------------------------------
(* The chain of models.  As long as the model at work has said nothing, no  *)
(* model has said anything.                                                 *)

ChainConstants == MaxModels \in Nat /\ MaxDeltas \in Nat

\* What a sequence holds.
Elements(s) == {s[i] : i \in DOMAIN s}

Parts == [type : {"delta", "final"}, model : Nat]

ChainInv ==
  /\ Chain!TypeOK
  /\ model \in Nat
  /\ out \in Seq(Parts)
  /\ \A d \in Elements(out) : d.type = "delta" => d.model = model
  /\ outcome = "open" => ~ refused
  /\ (\E d \in Elements(out) : d.type = "delta") => deltas > 0 \/ outcome # "open"
  /\ outcome = "answered" => Chain!Part("final", model) \in Elements(out)
  /\ refused => outcome = "thrown"

LEMMA ChainInvInit == ASSUME ChainConstants, Chain!Init PROVE ChainInv
BY EmptySeq DEF ChainConstants, Chain!Init, ChainInv, Chain!TypeOK, Elements

\* What a part adds to what the caller got.
LEMMA AppendedParts ==
  ASSUME NEW S, NEW s \in Seq(S), NEW p \in S
  PROVE  Append(s, p) \in Seq(S) /\ Elements(Append(s, p)) = Elements(s) \cup {p}
BY AppendProperties, LenProperties DEF Elements

LEMMA ChainStep ==
  ASSUME ChainConstants, ChainInv, [Chain!Next]_chainVars
  PROVE  ChainInv'
<1> USE DEF ChainConstants, ChainInv, Chain!TypeOK
<1>0. \A type \in {"delta", "final"} :
        /\ Chain!Part(type, model) \in Parts
        /\ Chain!Part(type, model).type = type /\ Chain!Part(type, model).model = model
  BY DEF Parts, Chain!Part
<1>1. CASE Chain!Delta
  BY <1>0, <1>1, AppendedParts DEF Chain!Delta
<1>2. CASE Chain!Final
  BY <1>0, <1>2, AppendedParts DEF Chain!Final
<1>3. CASE Chain!Answer
  BY <1>0, <1>3, AppendedParts DEF Chain!Answer, Chain!Range, Elements
<1>4. CASE Chain!Fail
  BY <1>4 DEF Chain!Fail, Chain!NothingSaid
<1>5. CASE UNCHANGED chainVars
  BY <1>5 DEF chainVars
<1>6. QED
  BY <1>1, <1>2, <1>3, <1>4, <1>5 DEF Chain!Next

-----------------------------------------------------------------------------
\* A hook of the browser has one stream, posts no turn twice and shows the run that
\* was started last, and a chain of models speaks with one voice.
THEOREM VoicesAreOne ==
  ASSUME StreamConstants, PollConstants, ChainConstants
  PROVE  Spec => []OneVoice
<1>1. Init => PollInv /\ ChainInv
  BY PollInvInit, ChainInvInit DEF Init
<1>2. PollInv /\ ChainInv /\ [Next]_allVars => (PollInv /\ ChainInv)'
  BY PollStep, ChainStep, StepOfParts
<1>3. StreamInv /\ PollInv /\ ChainInv => OneVoice
  <2> SUFFICES ASSUME StreamInv, PollInv, ChainInv PROVE OneVoice
    OBVIOUS
  <2>1. Stream!OneStream /\ Stream!SafeReplay
    BY StreamIsOne
  <2>2. Poll!ShowsNewest
    BY DEF PollInv, PollShape, PollLive, Polls, Poll!ShowsNewest
  <2>3. Chain!OneVoice
    BY DEF ChainInv, Chain!OneVoice, Chain!Range, Elements
  <2>4. QED
    BY <2>1, <2>2, <2>3 DEF OneVoice
<1>4. QED
  BY <1>1, <1>2, <1>3, StreamInvHolds, PTL DEF Spec

-----------------------------------------------------------------------------
(* The bank of skills.  What the bank holds, and what a call of use() has   *)
(* read from it, was admitted at its registration, left its quarantine by   *)
(* an approval of its version, and bears no signature but one that someone  *)
(* gave.                                                                    *)

SkillConstants == MaxVersions \in Nat /\ RequireSigned \in BOOLEAN

Locks == [version : 0..MaxVersions, author : Skills!Authors, quarantined : BOOLEAN]
SkillRecords == [lock : Locks, kind : Skills!Kinds, signature : Locks]
Doings == [at : {"idle", "testing", "verifying"}, author : Skills!Authors,
           kind : Skills!Kinds, record : SkillRecords]

Admitted(r) ==
  /\ r.lock.version # 0
  /\ r.lock.author = "agent" => r.kind = "code"
  /\ RequireSigned => r.kind = "code"
  /\ r.lock.author = "agent" /\ ~ r.lock.quarantined => r.lock.version \in approved
  /\ r.signature = Skills!NoLock \/ r.signature \in signed

SkillInv ==
  /\ Skills!TypeOK
  /\ record \in SkillRecords /\ version \in Nat /\ doing \in [Callers -> Doings]
  /\ inHand \in Locks /\ signed \subseteq Locks /\ ran \subseteq SkillRecords
  /\ record.lock.version = version
  /\ version = 0 => record = Skills!None
  /\ version # 0 => Admitted(record)
  /\ inHand = Skills!NoLock \/ inHand \in signed
  /\ \A c \in Callers :
       /\ doing[c].at = "testing" => Skills!Admissible(doing[c].author, doing[c].kind)
       /\ doing[c].at = "verifying" =>
            Admitted(doing[c].record) /\ ~ doing[c].record.lock.quarantined
  /\ Skills!RunsAreEarned

LEMMA SkillInvInit == ASSUME SkillConstants, Skills!Init PROVE SkillInv
BY DEF SkillConstants, Skills!Init, SkillInv, Skills!TypeOK, SkillRecords, Locks, Doings,
       Skills!Authors, Skills!Kinds, Skills!NoLock, Skills!None, Skills!Idle,
       Skills!RunsAreEarned

\* A record with another lock and another signature.
Amended(r, lock, signature) == [r EXCEPT !.lock = lock, !.signature = signature]

LEMMA AmendedFields ==
  ASSUME NEW A, NEW K, NEW r \in [lock : A, kind : K, signature : A],
         NEW lock \in A, NEW signature \in A
  PROVE  /\ Amended(r, lock, signature) \in [lock : A, kind : K, signature : A]
         /\ Amended(r, lock, signature).lock = lock
         /\ Amended(r, lock, signature).kind = r.kind
         /\ Amended(r, lock, signature).signature = signature
BY DEF Amended

LEMMA SkillStep ==
  ASSUME SkillConstants, SkillInv, [Skills!Next]_skillVars
  PROVE  SkillInv'
<1> USE DEF SkillConstants, SkillInv, Skills!TypeOK, SkillRecords, Locks, Doings,
            Skills!Authors, Skills!Kinds, Skills!NoLock, Skills!None, Skills!Idle,
            Skills!RunsAreEarned, Admitted, Skills!Admissible
<1>0. Skills!NoLock \in Locks /\ Skills!None \in SkillRecords /\ Skills!Idle \in Doings
  OBVIOUS
<1>1. ASSUME NEW c \in Callers, Skills!Register(c)
      PROVE  SkillInv'
  <2>1. PICK author \in Skills!Authors, kind \in Skills!Kinds :
          /\ Skills!Admissible(author, kind)
          /\ doing' = [doing EXCEPT ![c] = [Skills!Idle EXCEPT !.at = "testing",
                                              !.author = author, !.kind = kind]]
    BY <1>1 DEF Skills!Register
  <2> DEFINE new == [Skills!Idle EXCEPT !.at = "testing", !.author = author, !.kind = kind]
  <2>2. new \in Doings /\ new.at = "testing" /\ new.author = author /\ new.kind = kind
    <3> HIDE DEF SkillInv, Skills!Idle, SkillRecords
    <3> QED
      BY <1>0
  <2> HIDE DEF new
  <2>3. doing' = [doing EXCEPT ![c] = new]
    BY <2>1 DEF new
  <2>4. UNCHANGED <<record, version, inHand, approved, signed, ran>>
    BY <1>1 DEF Skills!Register
  <2>5. /\ doing' \in [Callers -> Doings]
        /\ \A d \in Callers :
             /\ doing'[d].at = "testing" => Skills!Admissible(doing'[d].author, doing'[d].kind)
             /\ doing'[d].at = "verifying" =>
                  Admitted(doing'[d].record) /\ ~ doing'[d].record.lock.quarantined
    BY <2>1, <2>2, <2>3
  <2>6. QED
    BY <2>4, <2>5
<1>2. ASSUME NEW c \in Callers, Skills!Passed(c)
      PROVE  SkillInv'
  <2> DEFINE lock == [version |-> version + 1, author |-> doing[c].author,
                      quarantined |-> Skills!Quarantine(doing[c].author)]
             new == [lock |-> lock, kind |-> doing[c].kind, signature |-> Skills!NoLock]
  <2>1. /\ doing[c].at = "testing" /\ version < MaxVersions /\ version' = version + 1
        /\ record' = new /\ doing' = [doing EXCEPT ![c] = Skills!Idle]
        /\ UNCHANGED <<inHand, approved, signed, ran>>
    BY <1>2 DEF Skills!Passed
  <2>2. lock \in Locks /\ doing[c].kind \in Skills!Kinds
    BY <2>1 DEF Skills!Quarantine
  <2>3. new \in SkillRecords /\ new.lock.version = version + 1
    BY <2>2
  <2>4. Admitted(new)
    <3>1. Skills!Admissible(doing[c].author, doing[c].kind) /\ doing[c].kind \in Skills!Kinds
      BY <2>1
    <3>2. /\ new.lock.version = version + 1 /\ new.lock.author = doing[c].author
          /\ new.lock.quarantined = (doing[c].author = "agent")
          /\ new.kind = doing[c].kind /\ new.signature = Skills!NoLock
      BY DEF Skills!Quarantine
    <3> HIDE DEF lock, new
    <3>3. version + 1 # 0
      OBVIOUS
    <3>4. QED
      BY <3>1, <3>2, <3>3
  <2> HIDE DEF lock, new
  <2>5. /\ doing' \in [Callers -> Doings] /\ doing'[c].at = "idle"
        /\ \A d \in Callers \ {c} : doing'[d] = doing[d]
    BY <2>1
  <2>6. QED
    BY <2>1, <2>3, <2>4, <2>5
<1>3. ASSUME NEW c \in Callers, Skills!FailedTest(c)
      PROVE  SkillInv'
  BY <1>3 DEF Skills!FailedTest
<1>4. ASSUME NEW c \in Callers, Skills!Use(c)
      PROVE  SkillInv'
  <2>1. /\ version # 0 /\ ~ record.lock.quarantined
        /\ UNCHANGED <<record, version, inHand, approved, signed>>
    BY <1>4 DEF Skills!Use
  <2>2. CASE RequireSigned
    <3> DEFINE new == [Skills!Idle EXCEPT !.at = "verifying", !.record = record]
    <3>1. doing' = [doing EXCEPT ![c] = new] /\ ran' = ran
      BY <1>4, <2>2 DEF Skills!Use
    <3>2. new \in Doings /\ new.at = "verifying" /\ new.record = record
      OBVIOUS
    <3> HIDE DEF new
    <3>3. /\ doing' \in [Callers -> Doings] /\ doing'[c] = new
          /\ \A d \in Callers \ {c} : doing'[d] = doing[d]
      BY <3>1, <3>2
    <3>4. \A d \in Callers :
             /\ doing'[d].at = "testing" => Skills!Admissible(doing'[d].author, doing'[d].kind)
             /\ doing'[d].at = "verifying" =>
                  Admitted(doing'[d].record) /\ ~ doing'[d].record.lock.quarantined
      <4> HIDE DEF Admitted, Skills!Admissible, Doings
      <4> QED
        BY <2>1, <3>2, <3>3
    <3>5. \A r : Admitted(r)' <=> Admitted(r)
      BY <2>1
    <3>6. \A d \in Callers : doing'[d].at \in {"idle", "testing", "verifying"}
      BY <3>3
    <3> HIDE DEF Admitted, Skills!Admissible, Doings
    <3>7. QED
      BY <2>1, <3>1, <3>3, <3>4, <3>5, <3>6
  <2>3. CASE ~ RequireSigned
    BY <1>4, <2>1, <2>3 DEF Skills!Use
  <2>4. QED
    BY <2>2, <2>3
<1>5. ASSUME NEW c \in Callers, Skills!Verified(c)
      PROVE  SkillInv'
  BY <1>5 DEF Skills!Verified, Skills!Invoked
<1>6. CASE Skills!Approve
  <2> DEFINE new == [record EXCEPT !.lock.quarantined = FALSE, !.signature = Skills!NoLock]
  <2>1. /\ version # 0 /\ record' = new /\ approved' = approved \cup {record.lock.version}
        /\ UNCHANGED <<version, doing, inHand, signed, ran>>
    BY <1>6 DEF Skills!Approve
  <2>2. /\ new \in SkillRecords /\ new.lock.version = version /\ new.kind = record.kind
        /\ new.lock.author = record.lock.author /\ new.signature = Skills!NoLock
    <3> DEFINE lock == [record.lock EXCEPT !.quarantined = FALSE]
    <3>1. lock \in Locks /\ lock.version = version /\ lock.author = record.lock.author
      OBVIOUS
    <3>2. /\ new.lock = lock /\ new.kind = record.kind /\ new.signature = Skills!NoLock
          /\ new \in SkillRecords
      <4>1. record \in SkillRecords
        OBVIOUS
      <4> HIDE DEF SkillInv, Locks, Skills!NoLock, Skills!Kinds, lock
      <4>2. new = Amended(record, lock, Skills!NoLock)
        BY Zenon DEF lock, new, Amended
      <4> HIDE DEF new
      <4>3. QED
        BY <1>0, <3>1, <4>1, <4>2, AmendedFields
    <3> HIDE DEF new, lock, Skills!NoLock, Locks
    <3>3. QED
      BY <1>0, <3>1, <3>2
  <2> HIDE DEF new
  <2>3. version \in 1..MaxVersions
    BY <2>1
  <2>4. Admitted(record)'
    <3>1. Admitted(record) /\ record.lock.version = version /\ record' = new
      BY <2>1
    <3>2. version \in approved'
      BY <2>1
    <3> HIDE DEF SkillInv, Skills!NoLock
    <3>3. QED
      BY <2>2, <2>3, <3>1, <3>2
  <2>5. \A r \in SkillRecords : Admitted(r) => Admitted(r)'
    BY <2>1
  <2>6. QED
    BY <2>1, <2>2, <2>3, <2>4, <2>5
<1>7. CASE Skills!Sign
  BY <1>7 DEF Skills!Sign
<1>8. CASE Skills!SetSignature
  BY <1>8 DEF Skills!SetSignature
<1>9. CASE UNCHANGED skillVars
  BY <1>9 DEF skillVars
<1>10. QED
  BY <1>1, <1>2, <1>3, <1>4, <1>5, <1>6, <1>7, <1>8, <1>9 DEF Skills!Next

-----------------------------------------------------------------------------
(* The registry of prompts.  Under the lock of the file one mutation is     *)
(* under way, it extends the history that the file has, and every mutation  *)
(* leaves a state that its history explains.                                *)

\* The store has transact(), and "none" is no tag.
PromptConstants == Transacts /\ "none" \notin Tags /\ MaxMutations \in Nat

PromptEvents == [kind : {"version_registered", "tag_moved", "tag_removed"}, name : Names,
                 tag : Tags \cup {"none"}, to : Nat]
PromptStates == [versions : [Names -> Seq(Bodies)], tags : [Names -> [Tags -> Nat]],
                 history : Seq(PromptEvents)]
SoundPrompts(s) == s \in PromptStates /\ Prompts!Explains(s)

\* t has the history of s and goes on from there.
Continues(s, t) ==
  /\ Len(s.history) <= Len(t.history)
  /\ \A i \in 1..Len(s.history) : t.history[i] = s.history[i]

PromptInv ==
  /\ mutations \in 0..MaxMutations
  /\ SoundPrompts(state)
  /\ acked \in Seq(PromptEvents) /\ Len(acked) <= Len(state.history)
  /\ \A i \in 1..Len(acked) : state.history[i] = acked[i]
  /\ worker \in [Processes -> [at : {"free", "write", "answer"}, working : PromptStates]]
  /\ \A p, q \in Processes : worker[p].at # "free" /\ worker[q].at # "free" => p = q
  /\ \A p \in Processes :
       /\ worker[p].at = "write" => SoundPrompts(worker[p].working)
                                    /\ Continues(state, worker[p].working)
       /\ worker[p].at = "answer" => worker[p].working = state

-----------------------------------------------------------------------------
LEMMA LargestExists ==
  ASSUME NEW K \in Nat, NEW S \in SUBSET (0..K), S # {}
  PROVE  \E x \in S : \A y \in S : x >= y
<1> DEFINE W == {K - x : x \in S}
<1>1. W \in SUBSET Nat /\ W # {}
  <2>1. \A x \in S : x \in 0..K /\ K - x \in Nat
    OBVIOUS
  <2>2. QED
    BY <2>1
<1>2. PICK w \in W : \A y \in W : ~ (<<y, w>> \in OpToRel(<, Nat))
  BY <1>1, NatLessThanWellFounded, WFMin
<1>3. \A y \in W : ~ (y < w)
  BY <1>1, <1>2 DEF OpToRel
<1>4. PICK x \in S : w = K - x
  OBVIOUS
<1>5. \A y \in S : x >= y
  <2> TAKE y \in S
  <2>1. K - y \in W /\ x \in 0..K /\ y \in 0..K
    BY <1>4
  <2>2. ~ (K - y < K - x)
    BY <1>3, <1>4, <2>1
  <2>3. QED
    BY <2>1, <2>2
<1>6. QED
  BY <1>5

\* What one more event does to what a history says.
LEMMA LastAfter ==
  ASSUME NEW s \in PromptStates, NEW t \in PromptStates, NEW event \in PromptEvents,
         t.history = Append(s.history, event), NEW n \in Names, NEW tag \in Tags
  PROVE  Prompts!LastOf(t, n, tag) = IF event.name = n /\ event.tag = tag THEN event.to
                                     ELSE Prompts!LastOf(s, n, tag)
<1> DEFINE k == Len(s.history) + 1
           earlier == Prompts!Moves(s, n, tag)
           later == Prompts!Moves(t, n, tag)
<1>1. /\ k \in Nat /\ DOMAIN s.history = 1..(k-1) /\ DOMAIN t.history = 1..k
      /\ t.history[k] = event /\ \A i \in 1..(k-1) : t.history[i] = s.history[i]
  BY AppendProperties, LenProperties DEF PromptStates
<1>2. /\ earlier \subseteq 1..(k-1)
      /\ later = IF event.name = n /\ event.tag = tag THEN earlier \cup {k} ELSE earlier
  BY <1>1 DEF Prompts!Moves
<1>3. CASE event.name = n /\ event.tag = tag
  <2>1. Prompts!Max(later) = k
    BY <1>1, <1>2, <1>3 DEF Prompts!Max
  <2>2. QED
    BY <1>1, <1>2, <1>3, <2>1 DEF Prompts!LastOf
<1>4. CASE ~ (event.name = n /\ event.tag = tag)
  <2>1. CASE earlier = {}
    BY <1>2, <1>4, <2>1 DEF Prompts!LastOf
  <2>2. CASE earlier # {}
    <3>1. Prompts!Max(earlier) \in earlier
      <4>1. earlier \in SUBSET (0..(k-1)) /\ k-1 \in Nat
        BY <1>1, <1>2, LenProperties DEF PromptStates
      <4>2. \E x \in earlier : \A y \in earlier : x >= y
        BY <4>1, <2>2, LargestExists
      <4>3. QED
        BY <4>2 DEF Prompts!Max
    <3>2. QED
      BY <1>1, <1>2, <1>4, <2>2, <3>1 DEF Prompts!LastOf
  <2>3. QED
    BY <2>1, <2>2
<1>5. QED
  BY <1>3, <1>4

LEMMA RegistrationsAfter ==
  ASSUME NEW s \in PromptStates, NEW t \in PromptStates, NEW event \in PromptEvents,
         t.history = Append(s.history, event), NEW n \in Names
  PROVE  Prompts!Cardinality(Prompts!Registrations(t, n)) =
           IF event.kind = "version_registered" /\ event.name = n
           THEN Prompts!Cardinality(Prompts!Registrations(s, n)) + 1
           ELSE Prompts!Cardinality(Prompts!Registrations(s, n))
<1> DEFINE k == Len(s.history) + 1
           earlier == Prompts!Registrations(s, n)
           later == Prompts!Registrations(t, n)
<1>1. /\ k \in Nat /\ DOMAIN s.history = 1..(k-1) /\ DOMAIN t.history = 1..k
      /\ t.history[k] = event /\ \A i \in 1..(k-1) : t.history[i] = s.history[i]
  BY AppendProperties, LenProperties DEF PromptStates
<1>2. /\ earlier \subseteq 1..(k-1)
      /\ later = IF event.kind = "version_registered" /\ event.name = n
                 THEN earlier \cup {k} ELSE earlier
  BY <1>1 DEF Prompts!Registrations
<1>3. IsFiniteSet(earlier)
  <2>1. IsFiniteSet(1..(k-1))
    BY <1>1, FS_Interval
  <2>2. QED
    BY <1>2, <2>1, FS_Subset
<1>4. k \notin earlier
  BY <1>1, <1>2
<1>5. Cardinality(earlier \cup {k}) = Cardinality(earlier) + 1
  BY <1>3, <1>4, FS_AddElement
<1>6. \A S : Prompts!Cardinality(S) = Cardinality(S)
  BY DEF Cardinality, Prompts!Cardinality
<1>7. QED
  BY <1>2, <1>5, <1>6

-----------------------------------------------------------------------------
\* A mutation that makes something of the state records one event, and its result
\* is explained by the history.
LEMMA ChronicleSound ==
  ASSUME PromptConstants, NEW s, SoundPrompts(s), NEW t \in PromptStates,
         NEW event \in PromptEvents,
         t.history = Append(s.history, event),
         \A m \in Names : IsInjective(t.versions[m]),
         \A m \in Names :
           Len(t.versions[m]) = IF event.kind = "version_registered" /\ event.name = m
                                THEN Len(s.versions[m]) + 1 ELSE Len(s.versions[m]),
         \A m \in Names, tag \in Tags :
           t.tags[m][tag] = IF event.name = m /\ event.tag = tag THEN event.to
                            ELSE s.tags[m][tag],
         \A m \in Names, tag \in Tags : t.tags[m][tag] <= Len(t.versions[m])
  PROVE  SoundPrompts(t) /\ Continues(s, t)
<1>1. s \in PromptStates /\ Prompts!Explains(s)
  BY DEF SoundPrompts
<1>2. \A m \in Names : Prompts!IsInjective(t.versions[m])
  BY DEF IsInjective, Prompts!IsInjective
<1>3. \A m \in Names :
        Prompts!Cardinality(Prompts!Registrations(t, m)) = Len(t.versions[m])
  BY <1>1, RegistrationsAfter DEF Prompts!Explains
<1>4. \A m \in Names, tag \in Tags : t.tags[m][tag] = Prompts!LastOf(t, m, tag)
  BY <1>1, LastAfter DEF Prompts!Explains
<1>5. Prompts!Explains(t)
  BY <1>2, <1>3, <1>4 DEF Prompts!Explains
<1>6. Continues(s, t)
  BY <1>1, AppendProperties, LenProperties DEF Continues, PromptStates
<1>7. QED
  BY <1>5, <1>6 DEF SoundPrompts

\* The fields of a state after a mutation.
WithVersion(s, n, b) == [s EXCEPT !.versions[n] = Append(@, b)]
WithTag(s, n, t, v) == [s EXCEPT !.tags[n][t] = v]

LEMMA VersionFields ==
  ASSUME NEW s \in PromptStates, NEW n \in Names, NEW b \in Bodies
  PROVE  /\ WithVersion(s, n, b) \in PromptStates
         /\ WithVersion(s, n, b).tags = s.tags /\ WithVersion(s, n, b).history = s.history
         /\ WithVersion(s, n, b).versions = [s.versions EXCEPT ![n] = Append(@, b)]
<1>1. s.versions[n] \in Seq(Bodies)
  BY DEF PromptStates
<1>2. Append(s.versions[n], b) \in Seq(Bodies)
  BY <1>1, AppendProperties
<1>3. QED
  BY <1>2 DEF WithVersion, PromptStates

LEMMA TagFields ==
  ASSUME NEW s \in PromptStates, NEW n \in Names, NEW t \in Tags, NEW v \in Nat
  PROVE  /\ WithTag(s, n, t, v) \in PromptStates
         /\ WithTag(s, n, t, v).versions = s.versions
         /\ WithTag(s, n, t, v).history = s.history
         /\ WithTag(s, n, t, v).tags = [s.tags EXCEPT ![n][t] = v]
BY DEF WithTag, PromptStates

LEMMA RecordedFields ==
  ASSUME NEW s \in PromptStates, NEW event \in PromptEvents
  PROVE  /\ Prompts!Recorded(s, event) \in PromptStates
         /\ Prompts!Recorded(s, event).versions = s.versions
         /\ Prompts!Recorded(s, event).tags = s.tags
         /\ Prompts!Recorded(s, event).history = Append(s.history, event)
<1>1. s.history \in Seq(PromptEvents)
  BY DEF PromptStates
<1>2. Append(s.history, event) \in Seq(PromptEvents)
  BY <1>1, AppendProperties
<1>3. QED
  BY <1>2 DEF Prompts!Recorded, PromptStates

LEMMA RegisterSound ==
  ASSUME PromptConstants, NEW s, SoundPrompts(s), NEW n \in Names, NEW b \in Bodies
  PROVE  SoundPrompts(Prompts!Register(s, n, b)) /\ Continues(s, Prompts!Register(s, n, b))
<1> DEFINE t == Prompts!Register(s, n, b)
           w == WithVersion(s, n, b)
           event == Prompts!Registered(n, Len(s.versions[n]) + 1)
<1>0. s \in PromptStates /\ Prompts!Explains(s)
  BY DEF SoundPrompts
<1>1. CASE b \in Prompts!Range(s.versions[n])
  BY <1>0, <1>1 DEF SoundPrompts, Continues, Prompts!Register, PromptStates
<1>2. CASE b \notin Prompts!Range(s.versions[n])
  <2>1. /\ s.versions[n] \in Seq(Bodies) /\ Len(s.versions[n]) \in Nat
        /\ Prompts!IsInjective(s.versions[n])
        /\ \A i \in DOMAIN s.versions[n] : s.versions[n][i] # b
    BY <1>0, <1>2, LenProperties DEF PromptStates, Prompts!Explains, Prompts!Range
  <2>2. /\ event \in PromptEvents /\ event.kind = "version_registered" /\ event.name = n
        /\ event.tag = "none"
    BY <2>1 DEF PromptEvents, Prompts!Registered
  <2>3. t = Prompts!Recorded(w, event)
    BY <1>2, Zenon DEF Prompts!Register, WithVersion
  <2>4. /\ w \in PromptStates /\ w.tags = s.tags /\ w.history = s.history
        /\ w.versions = [s.versions EXCEPT ![n] = Append(@, b)]
    BY <1>0, VersionFields
  <2> HIDE DEF w, event, t
  <2>5. /\ t \in PromptStates /\ t.tags = s.tags /\ t.history = Append(s.history, event)
        /\ t.versions = [s.versions EXCEPT ![n] = Append(@, b)]
    BY <2>2, <2>3, <2>4, RecordedFields
  <2>6. /\ t.versions[n] = Append(s.versions[n], b)
        /\ \A m \in Names \ {n} : t.versions[m] = s.versions[m]
    BY <1>0, <2>5 DEF PromptStates
  <2>7. Len(t.versions[n]) = Len(s.versions[n]) + 1 /\ IsInjective(t.versions[n])
    BY <2>1, <2>6, AppendProperties, LenProperties DEF IsInjective, Prompts!IsInjective
  <2>8. \A m \in Names : IsInjective(t.versions[m])
    BY <1>0, <2>6, <2>7 DEF IsInjective, Prompts!IsInjective, Prompts!Explains
  <2>9. \A m \in Names :
          Len(t.versions[m]) = IF event.kind = "version_registered" /\ event.name = m
                               THEN Len(s.versions[m]) + 1 ELSE Len(s.versions[m])
    BY <2>2, <2>6, <2>7
  <2>10. \A m \in Names, tag \in Tags :
           /\ t.tags[m][tag] = IF event.name = m /\ event.tag = tag THEN event.to
                               ELSE s.tags[m][tag]
           /\ t.tags[m][tag] <= Len(t.versions[m])
    <3> SUFFICES ASSUME NEW m \in Names, NEW tag \in Tags
                 PROVE  /\ t.tags[m][tag] = IF event.name = m /\ event.tag = tag THEN event.to
                                            ELSE s.tags[m][tag]
                        /\ t.tags[m][tag] <= Len(t.versions[m])
      OBVIOUS
    <3>1. tag # event.tag
      BY <2>2 DEF PromptConstants
    <3>2. /\ s.tags[m][tag] \in Nat /\ s.tags[m][tag] <= Len(s.versions[m])
          /\ Len(s.versions[m]) \in Nat
      BY <1>0, LenProperties DEF PromptStates, Prompts!Explains
    <3>3. QED
      BY <3>1, <3>2, <2>5, <2>9
  <2>11. QED
    <3>1. SoundPrompts(t) /\ Continues(s, t)
      <4>1. \A m \in Names, tag \in Tags :
              t.tags[m][tag] = IF event.name = m /\ event.tag = tag THEN event.to
                               ELSE s.tags[m][tag]
        BY <2>10
      <4>2. \A m \in Names, tag \in Tags : t.tags[m][tag] <= Len(t.versions[m])
        BY <2>10
      <4>3. t \in PromptStates /\ t.history = Append(s.history, event) /\ event \in PromptEvents
        BY <2>2, <2>5
      <4>4. QED
        BY <4>1, <4>2, <4>3, <2>8, <2>9, ChronicleSound
    <3>2. QED
      BY <3>1 DEF t
<1>3. QED
  BY <1>1, <1>2

\* The same for a tag that is set or removed.
LEMMA TagSound ==
  ASSUME PromptConstants, NEW s, SoundPrompts(s), NEW n \in Names, NEW tag \in Tags,
         NEW v \in 0..Len(s.versions[n]), NEW event \in PromptEvents,
         event.kind # "version_registered", event.name = n, event.tag = tag, event.to = v
  PROVE  LET t == Prompts!Recorded(WithTag(s, n, tag, v), event)
         IN SoundPrompts(t) /\ Continues(s, t)
<1> DEFINE w == WithTag(s, n, tag, v)
           t == Prompts!Recorded(w, event)
<1>0. s \in PromptStates /\ Prompts!Explains(s)
  BY DEF SoundPrompts
<1>1. v \in Nat /\ v <= Len(s.versions[n])
  BY <1>0, LenProperties DEF PromptStates
<1>2. /\ w \in PromptStates /\ w.versions = s.versions /\ w.history = s.history
      /\ w.tags = [s.tags EXCEPT ![n][tag] = v]
  BY <1>0, <1>1, TagFields
<1> HIDE DEF w
<1>3. /\ t \in PromptStates /\ t.versions = s.versions
      /\ t.history = Append(s.history, event) /\ t.tags = [s.tags EXCEPT ![n][tag] = v]
  BY <1>2, RecordedFields
<1> HIDE DEF t
<1>4. \A m \in Names, u \in Tags :
        t.tags[m][u] = IF event.name = m /\ event.tag = u THEN event.to ELSE s.tags[m][u]
  BY <1>0, <1>3 DEF PromptStates
<1>5. \A m \in Names, u \in Tags : t.tags[m][u] <= Len(t.versions[m])
  BY <1>0, <1>1, <1>3, <1>4 DEF Prompts!Explains
<1>6. \A m \in Names : IsInjective(t.versions[m])
  BY <1>0, <1>3 DEF IsInjective, Prompts!IsInjective, Prompts!Explains
<1>7. SoundPrompts(t) /\ Continues(s, t)
  BY <1>3, <1>4, <1>5, <1>6, ChronicleSound
<1>8. QED
  BY <1>7 DEF t, w

LEMMA OutcomesSound ==
  ASSUME PromptConstants, NEW s, SoundPrompts(s), NEW t \in Prompts!Outcomes(s)
  PROVE  SoundPrompts(t) /\ Continues(s, t)
<1>0. s \in PromptStates
  BY DEF SoundPrompts
<1>1. CASE \E n \in Names, b \in Bodies : t = Prompts!Register(s, n, b)
  BY <1>1, RegisterSound
<1>2. ASSUME NEW n \in Names, NEW tag \in Tags, NEW v \in 1..Len(s.versions[n]),
             t = Prompts!Tag(s, n, v, tag)
      PROVE  SoundPrompts(t) /\ Continues(s, t)
  <2> DEFINE event == Prompts!Moved(n, tag, v)
  <2>1. v \in 0..Len(s.versions[n])
    BY <1>0, LenProperties DEF PromptStates
  <2>2. /\ event \in PromptEvents /\ event.kind # "version_registered"
        /\ event.name = n /\ event.tag = tag /\ event.to = v
    BY <2>1 DEF PromptEvents, Prompts!Moved
  <2>3. t = Prompts!Recorded(WithTag(s, n, tag, v), event)
    BY <1>2, Zenon DEF Prompts!Tag, WithTag
  <2> HIDE DEF event
  <2>4. QED
    BY <2>1, <2>2, <2>3, TagSound
<1>3. ASSUME NEW n \in Names, NEW tag \in Tags, t = Prompts!Untag(s, n, tag)
      PROVE  SoundPrompts(t) /\ Continues(s, t)
  <2> DEFINE event == Prompts!Removed(n, tag)
  <2>1. 0 \in 0..Len(s.versions[n])
    BY <1>0, LenProperties DEF PromptStates
  <2>2. /\ event \in PromptEvents /\ event.kind # "version_registered"
        /\ event.name = n /\ event.tag = tag /\ event.to = 0
    BY DEF PromptEvents, Prompts!Removed
  <2>3. t = Prompts!Recorded(WithTag(s, n, tag, 0), event)
    BY <1>3, Zenon DEF Prompts!Untag, WithTag
  <2> HIDE DEF event
  <2>4. QED
    BY <2>1, <2>2, <2>3, TagSound
<1>4. CASE \E n \in Names : \E v \in 1..Len(s.versions[n]), u \in Tags : t = Prompts!Tag(s, n, v, u)
  BY <1>2, <1>4
<1>5. CASE \E n \in Names : \E u \in Tags : t = Prompts!Untag(s, n, u)
  BY <1>3, <1>5
<1>6. QED
  <2>1. /\ t \in Prompts!Registering(s) => \E n \in Names, b \in Bodies : t = Prompts!Register(s, n, b)
        /\ t \in Prompts!Tagging(s) => \E n \in Names : \E v \in 1..Len(s.versions[n]), u \in Tags :
                                          t = Prompts!Tag(s, n, v, u)
        /\ t \in Prompts!Untagging(s) => \E n \in Names : \E u \in Tags : t = Prompts!Untag(s, n, u)
    BY DEF Prompts!Registering, Prompts!Tagging, Prompts!Untagging
  <2>2. QED
    BY <1>1, <1>4, <1>5, <2>1 DEF Prompts!Outcomes

-----------------------------------------------------------------------------
LEMMA PromptInvInit == ASSUME PromptConstants, Prompts!Init PROVE PromptInv
<1>1. Prompts!Empty \in PromptStates
  BY EmptySeq DEF Prompts!Empty, PromptStates
<1>2. Prompts!Explains(Prompts!Empty)
  <2>1. \A n \in Names : Prompts!Registrations(Prompts!Empty, n) = {}
    BY DEF Prompts!Empty, Prompts!Registrations
  <2>2. Prompts!Cardinality({}) = 0
    BY FS_EmptySet DEF Cardinality, Prompts!Cardinality
  <2>3. \A n \in Names, t \in Tags : Prompts!LastOf(Prompts!Empty, n, t) = 0
    BY DEF Prompts!Empty, Prompts!LastOf, Prompts!Moves
  <2>4. \A n \in Names : /\ Prompts!Empty.versions[n] = <<>>
                         /\ \A t \in Tags : Prompts!Empty.tags[n][t] = 0
    BY DEF Prompts!Empty
  <2>5. Prompts!IsInjective(<<>>) /\ Len(<<>>) = 0
    BY EmptySeq DEF Prompts!IsInjective
  <2>6. \A n \in Names :
          /\ Prompts!IsInjective(Prompts!Empty.versions[n])
          /\ Prompts!Cardinality(Prompts!Registrations(Prompts!Empty, n)) = 0
          /\ Len(Prompts!Empty.versions[n]) = 0
    BY <2>1, <2>2, <2>4, <2>5
  <2> HIDE DEF Prompts!Empty
  <2>7. \A n \in Names : \A t \in Tags :
          /\ Prompts!Empty.tags[n][t] = Prompts!LastOf(Prompts!Empty, n, t)
          /\ Prompts!Empty.tags[n][t] <= Len(Prompts!Empty.versions[n])
    BY <2>3, <2>4, <2>6
  <2>8. QED
    BY <2>6, <2>7 DEF Prompts!Explains
<1>3. /\ state = Prompts!Empty /\ acked = <<>> /\ mutations = 0
      /\ worker = [p \in Processes |-> [at |-> "free", working |-> Prompts!Empty]]
  BY DEF Prompts!Init, Prompts!Free
<1>4. mutations \in 0..MaxMutations
  BY <1>3 DEF PromptConstants
<1>5. /\ acked \in Seq(PromptEvents) /\ Len(acked) = 0
      /\ Prompts!Empty.history = <<>>
  BY <1>3, EmptySeq DEF Prompts!Empty
<1>6. QED
  BY <1>1, <1>2, <1>3, <1>4, <1>5 DEF PromptInv, SoundPrompts

LEMMA PromptStep ==
  ASSUME PromptConstants, PromptInv, [Prompts!Next]_promptVars
  PROVE  PromptInv'
<1> USE DEF PromptInv
<1>0. Prompts!Empty \in PromptStates
  BY EmptySeq DEF Prompts!Empty, PromptStates
<1>1. ASSUME NEW p \in Processes, Prompts!Begin(p)
      PROVE  PromptInv'
  <2>1. PICK s \in Prompts!Outcomes(state) :
          worker' = [worker EXCEPT ![p] = [at |-> "write", working |-> s]]
    BY <1>1 DEF Prompts!Begin
  <2>2. SoundPrompts(s) /\ Continues(state, s)
    BY <2>1, OutcomesSound
  <2>3. \A q \in Processes \ {p} : worker[q].at = "free"
    BY <1>1 DEF Prompts!Begin, Prompts!Locked, PromptConstants
  <2>4. s \in PromptStates
    BY <2>2 DEF SoundPrompts
  <2>5. /\ mutations' \in 0..MaxMutations /\ state' = state /\ acked' = acked
    BY <1>1 DEF Prompts!Begin, PromptConstants
  <2>6. QED
    BY <2>1, <2>2, <2>3, <2>4, <2>5
<1>2. ASSUME NEW p \in Processes, Prompts!Write(p)
      PROVE  PromptInv'
  <2>1. /\ worker[p].at = "write" /\ state' = worker[p].working
        /\ worker' = [worker EXCEPT ![p].at = "answer"]
        /\ UNCHANGED <<acked, mutations>>
    BY <1>2 DEF Prompts!Write
  <2>2. SoundPrompts(state') /\ Continues(state, state')
    BY <2>1
  <2>3. /\ worker' \in [Processes -> [at : {"free", "write", "answer"}, working : PromptStates]]
        /\ worker'[p].at = "answer" /\ worker'[p].working = worker[p].working
        /\ \A q \in Processes \ {p} : worker'[q] = worker[q]
    BY <2>1
  <2>4. \A q \in Processes \ {p} : worker'[q].at = "free"
    BY <2>1, <2>3
  <2>5. /\ Len(acked) <= Len(state'.history)
        /\ \A i \in 1..Len(acked) : state'.history[i] = acked[i]
    BY <2>2, LenProperties DEF Continues, SoundPrompts, PromptStates
  <2>6. QED
    BY <2>1, <2>2, <2>3, <2>4, <2>5
<1>3. ASSUME NEW p \in Processes, Prompts!Answer(p)
      PROVE  PromptInv'
  <2>1. /\ worker[p].at = "answer" /\ acked' = state.history
        /\ worker' = [worker EXCEPT ![p] = Prompts!Free]
        /\ UNCHANGED <<state, mutations>>
    BY <1>3 DEF Prompts!Answer
  <2>2. acked' \in Seq(PromptEvents) /\ Len(acked') \in Nat
    BY <2>1, LenProperties DEF SoundPrompts, PromptStates
  <2>3. QED
    BY <1>0, <2>1, <2>2 DEF Prompts!Free
<1>4. ASSUME NEW p \in Processes, Prompts!Fail(p)
      PROVE  PromptInv'
  BY <1>0, <1>4 DEF Prompts!Fail, Prompts!Free
<1>5. CASE UNCHANGED promptVars
  BY <1>5 DEF promptVars
<1>6. QED
  BY <1>1, <1>2, <1>3, <1>4, <1>5 DEF Prompts!Next

LEMMA PromptsHold ==
  ASSUME PromptInv
  PROVE  Prompts!HistoryExplains /\ Prompts!AnsweredStays
<1>1. /\ state.history \in Seq(PromptEvents) /\ Len(state.history) \in Nat
      /\ Len(acked) \in Nat
  BY LenProperties DEF PromptInv, SoundPrompts, PromptStates
<1>2. QED
  BY <1>1 DEF PromptInv, SoundPrompts, Prompts!HistoryExplains, Prompts!AnsweredStays

\* A registry never takes back what it answered and explains what it holds; a skill
\* runs only as it was tested, approved and signed, and the bank keeps its newest.
THEOREM RegistriesStayTrue ==
  ASSUME PromptConstants, SkillConstants
  PROVE  Spec => []RegistriesHold
<1>1. Init => PromptInv /\ SkillInv
  BY PromptInvInit, SkillInvInit DEF Init
<1>2. PromptInv /\ SkillInv /\ [Next]_allVars => (PromptInv /\ SkillInv)'
  BY PromptStep, SkillStep, StepOfParts
<1>3. PromptInv /\ SkillInv => RegistriesHold
  BY PromptsHold DEF RegistriesHold, SkillInv, Skills!NewestStays
<1>4. QED
  BY <1>1, <1>2, <1>3, PTL DEF Spec

-----------------------------------------------------------------------------
(* The memory of a scope.  While an erase is alone, nobody writes to its    *)
(* scope, so that what it has erased stays erased; and until a merge erases *)
(* its source, what it found there is at its target.                        *)

\* No scope has the name that stands for none.
MemoryConstants == "none" \notin Scopes

MemoryCall ==
  [op : {"idle", "ingest", "erase", "merge"},
   at : {"none", "read", "copy", "index", "store", "vector", "maps"},
   scope : Scopes \cup {"none"}, to : Scopes \cup {"none"}, ids : SUBSET Ids,
   failed : BOOLEAN, alone : BOOLEAN]

FitsCall(c) ==
  /\ c.op = "idle" => c = Memory!Idle
  /\ c.op = "ingest" => c.scope \in Scopes /\ c.to = "none" /\ ~ c.alone
  /\ c.op = "erase" => c.scope \in Scopes /\ c.to = "none"
  /\ c.op = "merge" => c.scope \in Scopes /\ c.to \in Scopes /\ c.scope # c.to
  /\ c.alone => c.op \in {"erase", "merge"} /\ c.at \in {"store", "vector", "maps"}
  /\ c.at \in {"read", "copy", "index"} => c.op = "merge"
  /\ c.at = "maps" => c.op \in {"erase", "merge"}

CallShape == call \in [Workers -> MemoryCall] /\ \A w \in Workers : FitsCall(call[w])

\* The call is to write entries of the scope.
Targets(c, s) == \/ c.op = "ingest" /\ c.scope = s
                 \/ c.op = "merge" /\ c.to = s
\* It has begun to.
Writes(c, s) == Targets(c, s) /\ c.at \notin {"read", "copy"} /\ (c.op = "merge" => c.at = "index")

Lacks(S, s) == S \cap Memory!Of(s) = {}

AloneInv ==
  \A w \in Workers : call[w].alone =>
    /\ \A v \in Workers : ~ Targets(call[v], call[w].scope)
    /\ ~ call[w].failed /\ call[w].at \in {"vector", "maps"} => Lacks(store, call[w].scope)
    /\ ~ call[w].failed /\ call[w].at = "maps" => Lacks(vector, call[w].scope)

CleanInv ==
  \A s \in clean :
    /\ \A w \in Workers : ~ Writes(call[w], s)
    /\ Lacks(store, s) /\ Lacks(vector, s) /\ Lacks(seen, s) /\ Lacks(scoped, s)

MovedInv ==
  /\ \A m \in moved : m = <<<<m[1][1], m[1][2]>>, m[2]>> /\ m[1][1] # m[1][2]
  /\ Memory!MergeKeeps
  /\ \A w \in Workers : call[w].op = "merge" /\ call[w].at \in {"index", "store"} =>
       \A m \in moved : m[1] = <<call[w].scope, call[w].to>> /\ m[2] \in call[w].ids =>
                          <<call[w].to, m[2]>> \in store

MemoryInv == CallShape /\ AloneInv /\ CleanInv /\ MovedInv

-----------------------------------------------------------------------------
LEMMA MemoryInvInit == ASSUME Memory!Init PROVE MemoryInv
BY DEF Memory!Init, Memory!Idle, MemoryInv, CallShape, MemoryCall, FitsCall, AloneInv, CleanInv,
       MovedInv, Memory!MergeKeeps

\* A call begins: an erase of the scope that is written is no longer alone.
LEMMA CallFields ==
  ASSUME CallShape, NEW w \in Workers, NEW c \in MemoryCall, FitsCall(c), NEW s, s # "none",
         \/ call' = [call EXCEPT ![w] = c]
         \/ call' = [v \in Workers |-> IF v = w THEN c ELSE Memory!Beside(v, s)]
  PROVE  CallShape'
<1>1. \A v \in Workers : Memory!Beside(v, s) \in MemoryCall /\ FitsCall(Memory!Beside(v, s))
  <2> SUFFICES ASSUME NEW v \in Workers
               PROVE  Memory!Beside(v, s) \in MemoryCall /\ FitsCall(Memory!Beside(v, s))
    OBVIOUS
  <2>1. call[v] \in MemoryCall /\ FitsCall(call[v])
    BY DEF CallShape
  <2>2. CASE call[v].op = "idle"
    <3>1. call[v] = Memory!Idle /\ call[v].scope = "none"
      BY <2>1, <2>2 DEF FitsCall, Memory!Idle
    <3>2. QED
      BY <2>1, <3>1 DEF Memory!Beside
  <2>3. CASE call[v].op # "idle"
    <3> DEFINE d == [call[v] EXCEPT !.alone = FALSE]
    <3>1. /\ d \in MemoryCall /\ d.op = call[v].op /\ d.at = call[v].at /\ ~ d.alone
          /\ d.scope = call[v].scope /\ d.to = call[v].to
      BY <2>1 DEF MemoryCall
    <3> HIDE DEF d
    <3>2. FitsCall(d)
      BY <2>1, <2>3, <3>1 DEF FitsCall
    <3>3. QED
      BY <2>1, <3>1, <3>2 DEF Memory!Beside, d
  <2>4. QED
    BY <2>2, <2>3
<1>2. QED
  BY <1>1 DEF CallShape

LEMMA BesideFields ==
  ASSUME CallShape, NEW v \in Workers, NEW s
  PROVE  LET b == Memory!Beside(v, s)
         IN /\ b.op = call[v].op /\ b.at = call[v].at /\ b.scope = call[v].scope
            /\ b.to = call[v].to /\ b.ids = call[v].ids /\ b.failed = call[v].failed
            /\ b.alone => call[v].alone /\ call[v].scope # s
BY DEF CallShape, MemoryCall, Memory!Beside

LEMMA IngestKeeps ==
  ASSUME MemoryConstants, MemoryInv, NEW w \in Workers, NEW s \in Scopes, NEW ids \in SUBSET Ids,
         Memory!Ingest(w, s, ids)
  PROVE  MemoryInv'
<1> DEFINE new == {i \in ids : <<s, i>> \notin seen}
           c == IF new # {}
                THEN [Memory!Idle EXCEPT !.op = "ingest", !.at = "store", !.scope = s, !.ids = new]
                ELSE Memory!Beside(w, s)
<1>0. /\ call[w] = Memory!Idle
      /\ call' = [v \in Workers |-> IF v = w THEN c ELSE Memory!Beside(v, s)]
      /\ seen' = seen \cup ({s} \X new) /\ scoped' \subseteq scoped \cup ({s} \X new)
      /\ clean' = clean \ {s} /\ UNCHANGED <<store, vector, moved>>
  <2>1. \A v \in Workers : (IF v = w /\ new # {}
              THEN [Memory!Idle EXCEPT !.op = "ingest", !.at = "store", !.scope = s, !.ids = new]
              ELSE Memory!Beside(v, s)) = IF v = w THEN c ELSE Memory!Beside(v, s)
    OBVIOUS
  <2>2. call' = [v \in Workers |-> IF v = w /\ new # {}
              THEN [Memory!Idle EXCEPT !.op = "ingest", !.at = "store", !.scope = s, !.ids = new]
              ELSE Memory!Beside(v, s)]
    BY DEF Memory!Ingest
  <2>3. call' = [v \in Workers |-> IF v = w THEN c ELSE Memory!Beside(v, s)]
    BY <2>1, <2>2
  <2>4. QED
    BY <2>3 DEF Memory!Ingest
<1>1. c \in MemoryCall /\ FitsCall(c) /\ ~ c.alone /\ ((c.op = "ingest" /\ c.scope = s) \/ c = Memory!Idle)
  <2>1. CASE new # {}
    <3> DEFINE d == [op |-> "ingest", at |-> "store", scope |-> s, to |-> "none", ids |-> new,
                     failed |-> FALSE, alone |-> FALSE]
    <3>1. c = d
      BY <2>1 DEF Memory!Idle
    <3>2. d \in MemoryCall /\ FitsCall(d) /\ ~ d.alone /\ d.op = "ingest" /\ d.scope = s
      BY DEF MemoryCall, FitsCall
    <3> HIDE DEF c, d
    <3>3. QED
      BY <3>1, <3>2
  <2>2. CASE new = {}
    <3>1. Memory!Idle.scope = "none" /\ ~ Memory!Idle.alone
      BY DEF Memory!Idle
    <3>2. c = Memory!Idle
      BY <1>0, <2>2, <3>1 DEF Memory!Beside, MemoryConstants
    <3>3. Memory!Idle \in MemoryCall /\ FitsCall(Memory!Idle)
      BY <1>0 DEF MemoryInv, CallShape
    <3> HIDE DEF c
    <3>4. QED
      BY <3>1, <3>2, <3>3
  <2>3. QED
    BY <2>1, <2>2
<1> HIDE DEF c
<1>2. CallShape'
  BY <1>0, <1>1, CallFields DEF MemoryInv, MemoryConstants
<1>3. \A v \in Workers \ {w} :
        /\ call'[v].op = call[v].op /\ call'[v].at = call[v].at /\ call'[v].scope = call[v].scope
        /\ call'[v].to = call[v].to /\ call'[v].ids = call[v].ids
        /\ call'[v].failed = call[v].failed
        /\ call'[v].alone => call[v].alone /\ call[v].scope # s
  BY <1>0, BesideFields DEF MemoryInv
<1>4. call'[w] = c /\ c.op # "merge" /\ \A t : t # s => ~ Targets(c, t)
  BY <1>0, <1>1 DEF Targets, Memory!Idle
<1>5. AloneInv'
  BY <1>0, <1>1, <1>3, <1>4 DEF MemoryInv, AloneInv, Targets
<1>6. CleanInv'
  <2> SUFFICES ASSUME NEW t \in clean, t # s
               PROVE  /\ \A v \in Workers : ~ Writes(call'[v], t)
                      /\ Lacks(store, t) /\ Lacks(vector, t) /\ Lacks(seen', t) /\ Lacks(scoped', t)
    BY <1>0 DEF CleanInv
  <2>1. \A v \in Workers : ~ Writes(call'[v], t)
    BY <1>3, <1>4 DEF MemoryInv, CleanInv, Writes, Targets
  <2>2. Lacks(store, t) /\ Lacks(vector, t) /\ Lacks(seen, t) /\ Lacks(scoped, t)
    BY DEF MemoryInv, CleanInv
  <2>3. Lacks({s} \X new, t)
    BY DEF Lacks, Memory!Of
  <2>4. QED
    BY <1>0, <2>1, <2>2, <2>3 DEF Lacks
<1>7. MovedInv'
  BY <1>0, <1>3, <1>4 DEF MemoryInv, MovedInv, Memory!MergeKeeps
<1>8. QED
  BY <1>2, <1>5, <1>6, <1>7 DEF MemoryInv

\* The call of one worker goes on.
GoesOn(w, c) == call' = [call EXCEPT ![w] = c]

LEMMA OnlyOne ==
  ASSUME CallShape, NEW w \in Workers, NEW c \in MemoryCall, FitsCall(c), GoesOn(w, c)
  PROVE  /\ CallShape' /\ call'[w] = c
         /\ \A v \in Workers \ {w} : call'[v] = call[v]
BY DEF CallShape, GoesOn

LEMMA IdleCall ==
  ASSUME MemoryInv, NEW w \in Workers, GoesOn(w, Memory!Idle)
  PROVE  /\ CallShape' /\ call'[w] = Memory!Idle
         /\ \A v \in Workers \ {w} : call'[v] = call[v]
         /\ ~ Memory!Idle.alone /\ Memory!Idle.op = "idle"
<1> DEFINE d == [op |-> "idle", at |-> "none", scope |-> "none", to |-> "none", ids |-> {},
                 failed |-> FALSE, alone |-> FALSE]
<1>1. d \in MemoryCall /\ ~ d.alone /\ d.op = "idle" /\ d.at = "none"
  BY DEF MemoryCall
<1>2. d = Memory!Idle
  BY DEF Memory!Idle
<1> HIDE DEF d
<1>3. FitsCall(d)
  BY <1>1, <1>2 DEF FitsCall
<1>4. QED
  BY <1>1, <1>2, <1>3, OnlyOne DEF MemoryInv

LEMMA IngestStoreKeeps ==
  ASSUME MemoryInv, NEW w \in Workers, Memory!IngestStore(w)
  PROVE  MemoryInv'
<1> USE DEF GoesOn
<1>0. /\ call[w] \in MemoryCall /\ FitsCall(call[w]) /\ call[w].op = "ingest"
      /\ call[w].at = "store" /\ UNCHANGED <<vector, seen, scoped, clean, moved>>
  BY DEF MemoryInv, CallShape, Memory!IngestStore, Memory!At
<1>1. CASE store' = store /\ call' = Memory!Ended(w)
  <2>1. GoesOn(w, Memory!Idle)
    BY <1>1 DEF Memory!Ended
  <2>2. /\ CallShape' /\ call'[w] = Memory!Idle
        /\ \A v \in Workers \ {w} : call'[v] = call[v]
        /\ ~ Memory!Idle.alone /\ Memory!Idle.op = "idle"
    BY <2>1, IdleCall
  <2>3. \A s : ~ Targets(Memory!Idle, s) /\ ~ Writes(Memory!Idle, s)
    BY <2>2 DEF Targets, Writes
  <2>4. AloneInv'
    BY <1>0, <1>1, <2>2, <2>3 DEF MemoryInv, AloneInv
  <2>5. CleanInv'
    BY <1>0, <1>1, <2>2, <2>3 DEF MemoryInv, CleanInv
  <2>6. MovedInv'
    BY <1>0, <1>1, <2>2 DEF MemoryInv, MovedInv, Memory!MergeKeeps
  <2>7. QED
    BY <2>2, <2>4, <2>5, <2>6 DEF MemoryInv
<1>2. CASE /\ store' = store \cup ({call[w].scope} \X call[w].ids)
           /\ call' = [call EXCEPT ![w].at = "vector"]
  <2> DEFINE c == [call[w] EXCEPT !.at = "vector"]
  <2>1. GoesOn(w, c)
    BY <1>2
  <2>2. c \in MemoryCall /\ c.op = "ingest" /\ c.scope = call[w].scope /\ c.to = call[w].to
        /\ c.at = "vector" /\ c.alone = call[w].alone
    BY <1>0 DEF MemoryCall
  <2>3. FitsCall(c)
    BY <1>0, <2>2 DEF FitsCall
  <2> HIDE DEF c
  <2>4. CallShape' /\ call'[w] = c /\ \A v \in Workers \ {w} : call'[v] = call[v]
    BY <2>1, <2>2, <2>3, OnlyOne DEF MemoryInv
  <2>5. /\ ~ call[w].alone /\ ~ c.alone /\ Targets(call[w], call[w].scope)
        /\ Writes(call[w], call[w].scope)
        /\ \A s : (Targets(c, s) <=> s = call[w].scope) /\ (Writes(c, s) <=> s = call[w].scope)
    BY <1>0, <2>2 DEF FitsCall, Targets, Writes
  <2>6. AloneInv'
    <3> SUFFICES ASSUME NEW v \in Workers \ {w}, call[v].alone
                 PROVE  /\ \A u \in Workers : ~ Targets(call'[u], call[v].scope)
                        /\ ~ call[v].failed /\ call[v].at \in {"vector", "maps"} =>
                             Lacks(store', call[v].scope)
                        /\ ~ call[v].failed /\ call[v].at = "maps" => Lacks(vector, call[v].scope)
      BY <1>0, <2>4, <2>5 DEF AloneInv
    <3>1. call[v].scope # call[w].scope
      BY <2>5 DEF MemoryInv, AloneInv
    <3>2. Lacks(store, call[v].scope) => Lacks(store', call[v].scope)
      BY <1>2, <3>1 DEF Lacks, Memory!Of
    <3>3. QED
      BY <2>4, <2>5, <3>1, <3>2 DEF MemoryInv, AloneInv
  <2>7. CleanInv'
    <3> SUFFICES ASSUME NEW s \in clean
                 PROVE  /\ \A u \in Workers : ~ Writes(call'[u], s)
                        /\ Lacks(store', s)
      BY <1>0 DEF MemoryInv, CleanInv
    <3>1. s # call[w].scope
      BY <2>5 DEF MemoryInv, CleanInv
    <3>2. Lacks(store, s) => Lacks(store', s)
      BY <1>2, <3>1 DEF Lacks, Memory!Of
    <3>3. QED
      BY <2>4, <2>5, <3>1, <3>2 DEF MemoryInv, CleanInv
  <2>8. MovedInv'
    BY <1>0, <1>2, <2>2, <2>4 DEF MemoryInv, MovedInv, Memory!MergeKeeps
  <2>9. QED
    BY <2>4, <2>6, <2>7, <2>8 DEF MemoryInv
<1>3. QED
  BY <1>1, <1>2 DEF Memory!IngestStore

LEMMA IngestVectorKeeps ==
  ASSUME MemoryInv, NEW w \in Workers, Memory!IngestVector(w)
  PROVE  MemoryInv'
<1>0. /\ call[w].op = "ingest" /\ call[w].at = "vector"
      /\ call[w] \in MemoryCall /\ FitsCall(call[w])
      /\ UNCHANGED <<store, seen, scoped, clean, moved>> /\ GoesOn(w, Memory!Idle)
  BY DEF MemoryInv, CallShape, Memory!IngestVector, Memory!At, Memory!Ended, GoesOn
<1>1. PICK some \in SUBSET call[w].ids : vector' = vector \cup ({call[w].scope} \X some)
  BY DEF Memory!IngestVector
<1>2. /\ CallShape' /\ call'[w] = Memory!Idle
      /\ \A v \in Workers \ {w} : call'[v] = call[v]
      /\ ~ Memory!Idle.alone /\ Memory!Idle.op = "idle"
  BY <1>0, IdleCall
<1>3. \A s : ~ Targets(Memory!Idle, s) /\ ~ Writes(Memory!Idle, s)
  BY <1>2 DEF Targets, Writes
<1>4. Targets(call[w], call[w].scope) /\ Writes(call[w], call[w].scope)
  BY <1>0 DEF Targets, Writes
<1>5. \A s : s # call[w].scope /\ Lacks(vector, s) => Lacks(vector', s)
  BY <1>1 DEF Lacks, Memory!Of
<1>6. AloneInv'
  <2>1. \A v \in Workers : call[v].alone => call[v].scope # call[w].scope
    BY <1>4 DEF MemoryInv, AloneInv
  <2>2. QED
    BY <1>0, <1>2, <1>3, <1>5, <2>1 DEF MemoryInv, AloneInv
<1>7. CleanInv'
  <2>1. \A s \in clean : s # call[w].scope
    BY <1>4 DEF MemoryInv, CleanInv
  <2>2. QED
    BY <1>0, <1>2, <1>3, <1>5, <2>1 DEF MemoryInv, CleanInv
<1>8. MovedInv'
  BY <1>0, <1>2 DEF MemoryInv, MovedInv, Memory!MergeKeeps
<1>9. QED
  BY <1>2, <1>6, <1>7, <1>8 DEF MemoryInv

LEMMA EraseKeeps ==
  ASSUME MemoryInv, NEW w \in Workers, NEW s \in Scopes, Memory!Erase(w, s)
  PROVE  MemoryInv'
<1> DEFINE b == Memory!Busy(s, w)
           i == Memory!Idle
           d == [i EXCEPT !.op = "erase", !.at = "store", !.scope = s, !.alone = ~ b]
<1>0. /\ call[w] = i /\ GoesOn(w, d)
      /\ UNCHANGED <<store, vector, seen, scoped, clean, moved>>
  BY DEF Memory!Erase, GoesOn
<1>1. i \in MemoryCall /\ i.to = "none"
  BY <1>0 DEF MemoryInv, CallShape, Memory!Idle
<1>2. b \in BOOLEAN
  BY DEF Memory!Busy
<1>3. b \/ \A v \in Workers \ {w} : call[v].scope # s /\ call[v].to # s
  BY DEF Memory!Busy
<1> HIDE DEF b, i
<1>4. /\ d \in MemoryCall /\ (d.alone => ~ b) /\ d.scope = s /\ d.at = "store" /\ d.op = "erase"
      /\ d.to = "none"
  BY <1>1, <1>2 DEF MemoryCall
<1> HIDE DEF d
<1>5. FitsCall(d) /\ \A t : ~ Targets(d, t) /\ ~ Writes(d, t)
  BY <1>4 DEF FitsCall, Targets, Writes
<1>6. CallShape' /\ call'[w] = d /\ \A v \in Workers \ {w} : call'[v] = call[v]
  BY <1>0, <1>4, <1>5, OnlyOne DEF MemoryInv
<1>7. AloneInv'
  BY <1>0, <1>3, <1>4, <1>6, <1>5 DEF MemoryInv, AloneInv, Targets
<1>8. CleanInv'
  BY <1>0, <1>4, <1>6, <1>5 DEF MemoryInv, CleanInv
<1>9. MovedInv'
  BY <1>0, <1>4, <1>6 DEF MemoryInv, MovedInv, Memory!MergeKeeps
<1>10. QED
  BY <1>6, <1>7, <1>8, <1>9 DEF MemoryInv

LEMMA EraseStoreKeeps ==
  ASSUME MemoryInv, NEW w \in Workers, Memory!EraseStore(w)
  PROVE  MemoryInv'
<1>1. PICK ok \in BOOLEAN :
        /\ store' = IF ok THEN store \ Memory!Of(call[w].scope) ELSE store
        /\ call' = [call EXCEPT ![w].at = "vector", ![w].failed = ~ ok]
        /\ moved' = IF ok THEN {m \in moved : Memory!Untouched(m, call[w])} ELSE moved
  BY DEF Memory!EraseStore
<1> DEFINE c == [call[w] EXCEPT !.at = "vector", !.failed = ~ ok]
<1>0. /\ call[w] \in MemoryCall /\ FitsCall(call[w]) /\ call[w].op \in {"erase", "merge"}
      /\ call[w].at = "store" /\ GoesOn(w, c) /\ UNCHANGED <<vector, seen, scoped, clean>>
  BY <1>1 DEF MemoryInv, CallShape, Memory!EraseStore, Memory!Erasing, GoesOn
<1>2. /\ c \in MemoryCall /\ c.op = call[w].op /\ c.scope = call[w].scope /\ c.to = call[w].to
      /\ c.at = "vector" /\ c.alone = call[w].alone /\ c.failed = ~ ok
  BY <1>0 DEF MemoryCall
<1> HIDE DEF c
<1>3. FitsCall(c)
  BY <1>0, <1>2 DEF FitsCall
<1>4. CallShape' /\ call'[w] = c /\ \A v \in Workers \ {w} : call'[v] = call[v]
  BY <1>0, <1>2, <1>3, OnlyOne DEF MemoryInv
<1>5. \A s : (Targets(c, s) <=> Targets(call[w], s)) /\ ~ Writes(c, s)
  BY <1>0, <1>2 DEF Targets, Writes
<1>6. store' \subseteq store /\ (ok => Lacks(store', call[w].scope))
  BY <1>1 DEF Lacks
<1>7. \A s : Lacks(store, s) => Lacks(store', s)
  BY <1>6 DEF Lacks
<1>8. AloneInv'
  <2>1. \A v \in Workers : call'[v].alone => call[v].alone /\ call'[v].scope = call[v].scope
    BY <1>2, <1>4
  <2>2. \A v \in Workers : \A s : Targets(call'[v], s) => Targets(call[v], s)
    BY <1>4, <1>5
  <2>3. QED
    BY <1>0, <1>2, <1>4, <1>6, <1>7, <2>1, <2>2 DEF MemoryInv, AloneInv
<1>9. CleanInv'
  BY <1>0, <1>4, <1>5, <1>7 DEF MemoryInv, CleanInv
<1>10. MovedInv'
  <2>1. moved' \subseteq moved
    BY <1>1
  <2>2. \A m \in moved' : \A s : s # call[w].scope /\ <<s, m[2]>> \in store => <<s, m[2]>> \in store'
    BY <1>1 DEF Memory!Of
  <2>3. ASSUME NEW m \in moved'
        PROVE  /\ {<<m[1][1], m[2]>>, <<m[1][2], m[2]>>} \cap store' # {}
               /\ \A v \in Workers :
                    call'[v].op = "merge" /\ call'[v].at \in {"index", "store"}
                      /\ m[1] = <<call'[v].scope, call'[v].to>> /\ m[2] \in call'[v].ids
                      => <<call'[v].to, m[2]>> \in store'
    <3>1. m \in moved /\ m = <<<<m[1][1], m[1][2]>>, m[2]>> /\ m[1][1] # m[1][2]
          /\ m[1] = <<m[1][1], m[1][2]>>
      BY <2>1 DEF MemoryInv, MovedInv
    <3>2. <<m[1][1], m[2]>> \in store \/ <<m[1][2], m[2]>> \in store
      BY <3>1 DEF MemoryInv, MovedInv, Memory!MergeKeeps
    <3>3. CASE ~ ok
      <4>1. \A v \in Workers : call'[v].op = "merge" /\ call'[v].at \in {"index", "store"} =>
              call'[v] = call[v]
        BY <1>2, <1>4
      <4>2. store' = store
        BY <1>1, <3>3
      <4>3. QED
        BY <3>1, <3>2, <4>1, <4>2 DEF MemoryInv, MovedInv
    <3>4. CASE call[w].scope \notin {m[1][1], m[1][2]}
      <4>1. \A v \in Workers :
                    call'[v].op = "merge" /\ call'[v].at \in {"index", "store"} => v # w
        BY <1>2, <1>4
      <4>2. \A v \in Workers \ {w} :
                    call[v].op = "merge" /\ call[v].at \in {"index", "store"}
                      /\ m[1] = <<call[v].scope, call[v].to>> /\ m[2] \in call[v].ids
                      => <<call[v].to, m[2]>> \in store /\ call[v].to = m[1][2]
        BY <3>1 DEF MemoryInv, MovedInv
      <4>3. QED
        <5>1. /\ <<m[1][1], m[2]>> \in store => <<m[1][1], m[2]>> \in store'
              /\ <<m[1][2], m[2]>> \in store => <<m[1][2], m[2]>> \in store'
          BY <2>2, <3>4
        <5>2. {<<m[1][1], m[2]>>, <<m[1][2], m[2]>>} \cap store' # {}
          BY <3>2, <5>1
        <5>3. ASSUME NEW v \in Workers, call'[v].op = "merge", call'[v].at \in {"index", "store"},
                     m[1] = <<call'[v].scope, call'[v].to>>, m[2] \in call'[v].ids
              PROVE  <<call'[v].to, m[2]>> \in store'
          <6>1. v # w /\ call'[v] = call[v]
            BY <1>4, <4>1, <5>3
          <6>2. <<call[v].to, m[2]>> \in store /\ call[v].to = m[1][2]
            BY <4>2, <5>3, <6>1
          <6>3. QED
            BY <5>1, <6>1, <6>2
        <5>4. QED
          BY <5>2, <5>3
    <3>5. CASE ok /\ call[w].op = "merge" /\ m[1] = <<call[w].scope, call[w].to>>
               /\ m[2] \in call[w].ids
      <4>1. <<call[w].to, m[2]>> \in store /\ call[w].to # call[w].scope
        BY <1>0, <3>1, <3>5 DEF MemoryInv, MovedInv, FitsCall
      <4>2. <<call[w].to, m[2]>> \in store' /\ call[w].to = m[1][2]
        BY <2>2, <3>5, <4>1
      <4>3. \A v \in Workers : m[1] = <<call'[v].scope, call'[v].to>> => call'[v].to = m[1][2]
        OBVIOUS
      <4>4. QED
        BY <4>2, <4>3
    <3>6. QED
      BY <1>1, <3>3, <3>4, <3>5 DEF Memory!Untouched
  <2>4. QED
    BY <2>1, <2>3 DEF MemoryInv, MovedInv, Memory!MergeKeeps
<1>11. QED
  BY <1>4, <1>8, <1>9, <1>10 DEF MemoryInv

LEMMA EraseVectorKeeps ==
  ASSUME MemoryInv, NEW w \in Workers, Memory!EraseVector(w)
  PROVE  MemoryInv'
<1>1. PICK ok \in BOOLEAN :
        /\ vector' = IF ok THEN vector \ Memory!Of(call[w].scope) ELSE vector
        /\ call' = [call EXCEPT ![w].at = "maps", ![w].failed = @ \/ ~ ok]
  BY DEF Memory!EraseVector
<1> DEFINE c == [call[w] EXCEPT !.at = "maps", !.failed = @ \/ ~ ok]
<1>0. /\ call[w] \in MemoryCall /\ FitsCall(call[w]) /\ call[w].op \in {"erase", "merge"}
      /\ call[w].at = "vector" /\ GoesOn(w, c) /\ UNCHANGED <<store, seen, scoped, clean, moved>>
  BY <1>1 DEF MemoryInv, CallShape, Memory!EraseVector, Memory!Erasing, GoesOn
<1>2. /\ c \in MemoryCall /\ c.op = call[w].op /\ c.scope = call[w].scope /\ c.to = call[w].to
      /\ c.at = "maps" /\ c.alone = call[w].alone /\ c.failed = (call[w].failed \/ ~ ok)
  BY <1>0 DEF MemoryCall
<1> HIDE DEF c
<1>3. FitsCall(c)
  BY <1>0, <1>2 DEF FitsCall
<1>4. CallShape' /\ call'[w] = c /\ \A v \in Workers \ {w} : call'[v] = call[v]
  BY <1>0, <1>2, <1>3, OnlyOne DEF MemoryInv
<1>5. \A s : (Targets(c, s) <=> Targets(call[w], s)) /\ ~ Writes(c, s)
  BY <1>0, <1>2 DEF Targets, Writes
<1>6. vector' \subseteq vector /\ (ok => Lacks(vector', call[w].scope))
  BY <1>1 DEF Lacks
<1>7. \A s : Lacks(vector, s) => Lacks(vector', s)
  BY <1>6 DEF Lacks
<1>8. AloneInv'
  <2>1. \A v \in Workers : call'[v].alone => call[v].alone /\ call'[v].scope = call[v].scope
    BY <1>2, <1>4
  <2>2. \A v \in Workers : \A s : Targets(call'[v], s) => Targets(call[v], s)
    BY <1>4, <1>5
  <2>3. QED
    BY <1>0, <1>2, <1>4, <1>6, <1>7, <2>1, <2>2 DEF MemoryInv, AloneInv
<1>9. CleanInv'
  BY <1>0, <1>4, <1>5, <1>7 DEF MemoryInv, CleanInv
<1>10. MovedInv'
  BY <1>0, <1>2, <1>4 DEF MemoryInv, MovedInv, Memory!MergeKeeps
<1>11. QED
  BY <1>4, <1>8, <1>9, <1>10 DEF MemoryInv

LEMMA EraseMapsKeeps ==
  ASSUME MemoryInv, NEW w \in Workers, Memory!EraseMaps(w)
  PROVE  MemoryInv'
<1> DEFINE s == call[w].scope
<1>0. /\ call[w].op \in {"erase", "merge"} /\ call[w].at = "maps"
      /\ scoped' = scoped \ (scoped \cap Memory!Of(s)) /\ seen' = seen \ Memory!Of(s)
      /\ clean' \subseteq clean \cup {s}
      /\ (s \in clean' => s \in clean \/ (call[w].alone /\ ~ call[w].failed))
      /\ GoesOn(w, Memory!Idle) /\ UNCHANGED <<store, vector, moved>>
  BY DEF Memory!EraseMaps, Memory!Erasing, Memory!Ended, Memory!SeenAfter, Memory!Complains, GoesOn
<1>1. /\ CallShape' /\ call'[w] = Memory!Idle
      /\ \A v \in Workers \ {w} : call'[v] = call[v]
      /\ ~ Memory!Idle.alone /\ Memory!Idle.op = "idle"
  BY <1>0, IdleCall
<1>2. \A t : ~ Targets(Memory!Idle, t) /\ ~ Writes(Memory!Idle, t)
  BY <1>1 DEF Targets, Writes
<1>3. /\ \A t : Lacks(seen, t) => Lacks(seen', t)
      /\ \A t : Lacks(scoped, t) => Lacks(scoped', t)
      /\ Lacks(seen', s) /\ Lacks(scoped', s)
  BY <1>0 DEF Lacks
<1>4. AloneInv'
  BY <1>0, <1>1, <1>2 DEF MemoryInv, AloneInv
<1>5. CleanInv'
  <2> SUFFICES ASSUME NEW t \in clean'
               PROVE  /\ \A v \in Workers : ~ Writes(call'[v], t)
                      /\ Lacks(store, t) /\ Lacks(vector, t) /\ Lacks(seen', t) /\ Lacks(scoped', t)
    BY <1>0 DEF CleanInv
  <2>1. CASE t \in clean
    BY <1>1, <1>2, <1>3, <2>1 DEF MemoryInv, CleanInv
  <2>2. CASE t = s /\ call[w].alone /\ ~ call[w].failed
    BY <1>0, <1>1, <1>2, <1>3, <2>2 DEF MemoryInv, AloneInv, Writes
  <2>3. QED
    BY <1>0, <2>1, <2>2
<1>6. MovedInv'
  BY <1>0, <1>1 DEF MemoryInv, MovedInv, Memory!MergeKeeps
<1>7. QED
  BY <1>1, <1>4, <1>5, <1>6 DEF MemoryInv

LEMMA MergeBegins ==
  ASSUME MemoryConstants, MemoryInv, NEW w \in Workers, NEW s \in Scopes, NEW t \in Scopes,
         Memory!Merge(w, s, t)
  PROVE  MemoryInv'
<1> DEFINE i == Memory!Idle
           d == [i EXCEPT !.op = "merge", !.at = "read", !.scope = s, !.to = t]
<1>0. /\ s # t /\ call' = [v \in Workers |-> IF v = w THEN d ELSE Memory!Beside(v, t)]
      /\ call[w] = i /\ UNCHANGED <<store, vector, seen, scoped, clean, moved>>
  BY DEF Memory!Merge
<1>1. i \in MemoryCall /\ ~ i.alone
  BY <1>0 DEF MemoryInv, CallShape, Memory!Idle
<1> HIDE DEF i
<1>2. /\ d \in MemoryCall /\ FitsCall(d) /\ ~ d.alone /\ d.at = "read" /\ d.op = "merge" /\ d.to = t
  <2>1. /\ d \in MemoryCall /\ ~ d.alone /\ d.at = "read" /\ d.op = "merge"
        /\ d.scope = s /\ d.to = t
    BY <1>1 DEF MemoryCall
  <2> HIDE DEF d
  <2>2. QED
    BY <1>0, <2>1 DEF FitsCall
<1> HIDE DEF d
<1>3. CallShape'
  <2>1. t # "none" /\ CallShape
    BY DEF MemoryConstants, MemoryInv
  <2>2. QED
    BY <1>0, <1>2, <2>1, CallFields
<1>4. \A v \in Workers \ {w} :
        /\ call'[v].op = call[v].op /\ call'[v].at = call[v].at /\ call'[v].scope = call[v].scope
        /\ call'[v].to = call[v].to /\ call'[v].ids = call[v].ids
        /\ call'[v].failed = call[v].failed
        /\ call'[v].alone => call[v].alone /\ call[v].scope # t
  BY <1>0, BesideFields DEF MemoryInv
<1>5. call'[w] = d /\ \A u : (u # t => ~ Targets(d, u)) /\ ~ Writes(d, u)
  BY <1>0, <1>1, <1>2 DEF Targets, Writes
<1>6. AloneInv'
  BY <1>0, <1>2, <1>4, <1>5 DEF MemoryInv, AloneInv, Targets
<1>7. CleanInv'
  BY <1>0, <1>4, <1>5 DEF MemoryInv, CleanInv, Writes, Targets
<1>8. MovedInv'
  BY <1>0, <1>2, <1>4, <1>5 DEF MemoryInv, MovedInv, Memory!MergeKeeps
<1>9. QED
  BY <1>3, <1>6, <1>7, <1>8 DEF MemoryInv

LEMMA MergeReadKeeps ==
  ASSUME MemoryInv, NEW w \in Workers, Memory!MergeRead(w)
  PROVE  MemoryInv'
<1> DEFINE ofScope == {k[2] : k \in store \cap Memory!Of(call[w].scope)}
           c == [call[w] EXCEPT !.at = "copy", !.ids = ofScope]
<1>0. /\ call[w] \in MemoryCall /\ FitsCall(call[w]) /\ call[w].op = "merge"
      /\ call[w].at = "read" /\ GoesOn(w, c)
      /\ UNCHANGED <<store, vector, seen, scoped, clean>>
  BY DEF MemoryInv, CallShape, Memory!MergeRead, Memory!At, GoesOn
<1>1. ofScope \in SUBSET Ids /\ \A i \in ofScope : <<call[w].scope, i>> \in store
  BY DEF Memory!Of
<1>2. \/ moved' = moved
      \/ /\ \A v \in Workers \ {w} : ~ Memory!Erasing(v)
         /\ moved' = moved \cup ({<<call[w].scope, call[w].to>>} \X call'[w].ids)
  BY DEF Memory!MergeRead
<1> HIDE DEF ofScope
<1>3. /\ c \in MemoryCall /\ c.op = "merge" /\ c.scope = call[w].scope /\ c.to = call[w].to
      /\ c.at = "copy" /\ c.alone = call[w].alone /\ c.ids = ofScope
  BY <1>0, <1>1 DEF MemoryCall
<1> HIDE DEF c
<1>4. FitsCall(c) /\ ~ c.alone
  BY <1>0, <1>3 DEF FitsCall
<1>5. CallShape' /\ call'[w] = c /\ \A v \in Workers \ {w} : call'[v] = call[v]
  BY <1>0, <1>3, <1>4, OnlyOne DEF MemoryInv
<1>6. \A s : (Targets(c, s) <=> Targets(call[w], s)) /\ ~ Writes(c, s)
  BY <1>0, <1>3 DEF Targets, Writes
<1>7. AloneInv'
  BY <1>0, <1>4, <1>5, <1>6 DEF MemoryInv, AloneInv
<1>8. CleanInv'
  BY <1>0, <1>5, <1>6 DEF MemoryInv, CleanInv
<1>9. MovedInv'
  <2>1. \A v \in Workers : call'[v].op = "merge" /\ call'[v].at \in {"index", "store"} => v # w
    BY <1>3, <1>5
  <2>2. CASE moved' = moved
    BY <1>0, <1>5, <2>1, <2>2 DEF MemoryInv, MovedInv, Memory!MergeKeeps
  <2>3. CASE /\ \A v \in Workers \ {w} : ~ Memory!Erasing(v)
             /\ moved' = moved \cup ({<<call[w].scope, call[w].to>>} \X call'[w].ids)
    <3>1. \A v \in Workers : ~ (call'[v].op = "merge" /\ call'[v].at \in {"index", "store"})
      BY <1>5, <2>1, <2>3 DEF Memory!Erasing
    <3>2. ASSUME NEW m \in moved'
          PROVE  /\ m = <<<<m[1][1], m[1][2]>>, m[2]>> /\ m[1][1] # m[1][2]
                 /\ {<<m[1][1], m[2]>>, <<m[1][2], m[2]>>} \cap store # {}
      <4>1. CASE m \in moved
        BY <4>1 DEF MemoryInv, MovedInv, Memory!MergeKeeps
      <4>2. CASE m \in {<<call[w].scope, call[w].to>>} \X ofScope
        <5>1. PICK i \in ofScope : m = <<<<call[w].scope, call[w].to>>, i>>
          BY <4>2
        <5>2. m[1][1] = call[w].scope /\ m[1][2] = call[w].to /\ m[2] = i
          BY <5>1
        <5>3. call[w].scope # call[w].to /\ <<call[w].scope, i>> \in store
          BY <1>0, <1>1 DEF FitsCall
        <5>4. QED
          BY <5>1, <5>2, <5>3
      <4>3. QED
        BY <1>3, <1>5, <2>3, <4>1, <4>2
    <3>3. QED
      BY <1>0, <3>1, <3>2 DEF MovedInv, Memory!MergeKeeps
  <2>4. QED
    BY <1>2, <2>2, <2>3
<1>10. QED
  BY <1>5, <1>7, <1>8, <1>9 DEF MemoryInv

LEMMA MergeCopyKeeps ==
  ASSUME MemoryInv, NEW w \in Workers, Memory!MergeCopy(w)
  PROVE  MemoryInv'
<1> DEFINE keys == {call[w].to} \X call[w].ids
           c == [call[w] EXCEPT !.at = "index"]
           t == call[w].to
<1>0. /\ call[w] \in MemoryCall /\ FitsCall(call[w]) /\ call[w].op = "merge"
      /\ call[w].at = "copy" /\ clean' = clean \ {t}
      /\ UNCHANGED <<vector, seen, moved>>
  BY DEF MemoryInv, CallShape, Memory!MergeCopy, Memory!At
<1>1. Targets(call[w], t) /\ \A v \in Workers : call[v].alone => call[v].scope # t
  BY <1>0 DEF MemoryInv, AloneInv, Targets
<1>2. CASE GoesOn(w, Memory!Idle) /\ UNCHANGED <<store, scoped>>
  <2>1. /\ CallShape' /\ call'[w] = Memory!Idle
        /\ \A v \in Workers \ {w} : call'[v] = call[v]
        /\ ~ Memory!Idle.alone /\ Memory!Idle.op = "idle"
    BY <1>2, IdleCall
  <2>2. \A s : ~ Targets(Memory!Idle, s) /\ ~ Writes(Memory!Idle, s)
    BY <2>1 DEF Targets, Writes
  <2>3. AloneInv'
    BY <1>0, <1>2, <2>1, <2>2 DEF MemoryInv, AloneInv
  <2>4. CleanInv'
    BY <1>0, <1>2, <2>1, <2>2 DEF MemoryInv, CleanInv
  <2>5. MovedInv'
    BY <1>0, <1>2, <2>1 DEF MemoryInv, MovedInv, Memory!MergeKeeps
  <2>6. QED
    BY <2>1, <2>3, <2>4, <2>5 DEF MemoryInv
<1>3. CASE GoesOn(w, c) /\ store' = store \cup keys /\ scoped' = scoped \cup keys
  <2>1. /\ c \in MemoryCall /\ c.op = "merge" /\ c.scope = call[w].scope /\ c.to = t
        /\ c.at = "index" /\ c.alone = call[w].alone /\ c.ids = call[w].ids
    BY <1>0 DEF MemoryCall
  <2> HIDE DEF c
  <2>2. FitsCall(c) /\ ~ c.alone
    BY <1>0, <2>1 DEF FitsCall
  <2>3. CallShape' /\ call'[w] = c /\ \A v \in Workers \ {w} : call'[v] = call[v]
    BY <1>3, <2>1, <2>2, OnlyOne DEF MemoryInv
  <2>4. \A s : (Targets(c, s) <=> Targets(call[w], s)) /\ (s # t => ~ Writes(c, s))
    BY <1>0, <2>1 DEF Targets, Writes
  <2>5. \A s : s # t => /\ Lacks(store, s) => Lacks(store', s)
                        /\ Lacks(scoped, s) => Lacks(scoped', s)
    BY <1>3 DEF Lacks, Memory!Of
  <2>6. AloneInv'
    BY <1>0, <1>1, <2>2, <2>3, <2>4, <2>5 DEF MemoryInv, AloneInv
  <2>7. CleanInv'
    BY <1>0, <2>3, <2>4, <2>5 DEF MemoryInv, CleanInv
  <2>8. MovedInv'
    <3>1. \A i \in c.ids : <<c.to, i>> \in store'
      BY <1>3, <2>1
    <3>2. store \subseteq store'
      BY <1>3
    <3>3. QED
      BY <1>0, <2>3, <3>1, <3>2 DEF MemoryInv, MovedInv, Memory!MergeKeeps
  <2>9. QED
    BY <2>3, <2>6, <2>7, <2>8 DEF MemoryInv
<1>4. QED
  BY <1>2, <1>3 DEF Memory!MergeCopy, Memory!AfterFailedCopy, Memory!Ended, GoesOn

LEMMA MergeIndexKeeps ==
  ASSUME MemoryInv, NEW w \in Workers, Memory!MergeIndex(w)
  PROVE  MemoryInv'
<1> DEFINE b == Memory!Busy(call[w].scope, w)
           c == [call[w] EXCEPT !.at = "store", !.alone = ~ b]
           t == call[w].to
<1>0. /\ call[w] \in MemoryCall /\ FitsCall(call[w]) /\ call[w].op = "merge"
      /\ call[w].at = "index" /\ UNCHANGED <<store, seen, scoped, clean, moved>>
      /\ (GoesOn(w, c) \/ GoesOn(w, Memory!Idle))
  BY DEF MemoryInv, CallShape, Memory!MergeIndex, Memory!At, Memory!Ended, GoesOn
<1>1. PICK some \in SUBSET call[w].ids : vector' = vector \cup ({t} \X some)
  BY DEF Memory!MergeIndex
<1>2. /\ Targets(call[w], t) /\ Writes(call[w], t)
      /\ \A v \in Workers : call[v].alone => call[v].scope # t
      /\ t \notin clean
  BY <1>0 DEF MemoryInv, AloneInv, CleanInv, Targets, Writes
<1>3. \A s : s # t /\ Lacks(vector, s) => Lacks(vector', s)
  BY <1>1 DEF Lacks, Memory!Of
<1>4. b \in BOOLEAN
  BY DEF Memory!Busy
<1>5. b \/ \A v \in Workers \ {w} : call[v].scope # call[w].scope /\ call[v].to # call[w].scope
  BY DEF Memory!Busy
<1> HIDE DEF b
<1>6. CASE GoesOn(w, c)
  <2>1. /\ c \in MemoryCall /\ c.op = "merge" /\ c.scope = call[w].scope /\ c.to = t
        /\ c.at = "store" /\ c.alone = ~ b /\ c.ids = call[w].ids
    BY <1>0, <1>4 DEF MemoryCall
  <2> HIDE DEF c
  <2>2. FitsCall(c) /\ c.scope # t
    BY <1>0, <2>1 DEF FitsCall
  <2>3. CallShape' /\ call'[w] = c /\ \A v \in Workers \ {w} : call'[v] = call[v]
    BY <1>6, <2>1, <2>2, OnlyOne DEF MemoryInv
  <2>4. \A s : (Targets(c, s) <=> s = t) /\ ~ Writes(c, s)
    BY <2>1 DEF Targets, Writes
  <2>5. \A v \in Workers \ {w} : b \/ ~ Targets(call[v], call[w].scope)
    BY <1>5 DEF Targets
  <2>6. AloneInv'
    <3>1. ASSUME NEW v \in Workers \ {w}, call[v].alone
          PROVE  /\ \A u \in Workers : ~ Targets(call'[u], call[v].scope)
                 /\ ~ call[v].failed /\ call[v].at \in {"vector", "maps"} =>
                      Lacks(store', call[v].scope)
                 /\ ~ call[v].failed /\ call[v].at = "maps" => Lacks(vector', call[v].scope)
      BY <1>0, <1>2, <1>3, <2>3, <2>4, <3>1 DEF MemoryInv, AloneInv
    <3>2. c.alone => \A u \in Workers : ~ Targets(call'[u], c.scope)
      BY <2>1, <2>2, <2>3, <2>4, <2>5
    <3>3. QED
      BY <2>1, <2>3, <3>1, <3>2 DEF AloneInv
  <2>7. CleanInv'
    BY <1>0, <1>2, <1>3, <2>3, <2>4 DEF MemoryInv, CleanInv
  <2>8. MovedInv'
    BY <1>0, <2>1, <2>3 DEF MemoryInv, MovedInv, Memory!MergeKeeps
  <2>9. QED
    BY <2>3, <2>6, <2>7, <2>8 DEF MemoryInv
<1>7. CASE GoesOn(w, Memory!Idle)
  <2>1. /\ CallShape' /\ call'[w] = Memory!Idle
        /\ \A v \in Workers \ {w} : call'[v] = call[v]
        /\ ~ Memory!Idle.alone /\ Memory!Idle.op = "idle"
    BY <1>7, IdleCall
  <2>2. \A s : ~ Targets(Memory!Idle, s) /\ ~ Writes(Memory!Idle, s)
    BY <2>1 DEF Targets, Writes
  <2>3. AloneInv'
    BY <1>0, <1>2, <1>3, <2>1, <2>2 DEF MemoryInv, AloneInv
  <2>4. CleanInv'
    BY <1>0, <1>2, <1>3, <2>1, <2>2 DEF MemoryInv, CleanInv
  <2>5. MovedInv'
    BY <1>0, <2>1 DEF MemoryInv, MovedInv, Memory!MergeKeeps
  <2>6. QED
    BY <2>1, <2>3, <2>4, <2>5 DEF MemoryInv
<1>8. QED
  BY <1>0, <1>6, <1>7

LEMMA MemoryStep ==
  ASSUME MemoryConstants, MemoryInv, [Memory!Next]_memoryVars
  PROVE  MemoryInv'
<1>1. CASE UNCHANGED memoryVars
  BY <1>1 DEF memoryVars, MemoryInv, CallShape, AloneInv, CleanInv, MovedInv, Memory!MergeKeeps
<1>2. CASE Memory!Next
  BY <1>2, IngestKeeps, IngestStoreKeeps, IngestVectorKeeps, EraseKeeps, EraseStoreKeeps,
     EraseVectorKeeps, EraseMapsKeeps, MergeBegins, MergeReadKeeps, MergeCopyKeeps,
     MergeIndexKeeps
     DEF Memory!Next
<1>3. QED
  BY <1>1, <1>2

-----------------------------------------------------------------------------
(* The archive under one pass at a time.  What a row says, its entry in the *)
(* index and in the list of the pass say as well, so that whoever merges    *)
(* two entries writes at least what the two rows said.                      *)

\* Ids are numbers, and no two passes go on at once.
ArchiveConstants == Passages \subseteq Int /\ \A m, n \in Passes : m = n

PassOf ==
  [at : {"off", "compare", "unindex", "reindex", "write", "delete"},
   entries : [Passages -> SUBSET Passages], a : Passages \cup {0}, b : Passages \cup {0},
   done : SUBSET (Passages \X Passages), merges : Int]

Merging(n) == dedup[n].at \in {"unindex", "reindex", "write", "delete"}

ArchiveShape ==
  /\ rows \in [Passages -> SUBSET Passages] /\ archive \in [Passages -> SUBSET Passages]
  /\ dedup \in [Passes -> PassOf]
  /\ \A n \in Passes : Merging(n) =>
       /\ dedup[n].a \in Passages /\ dedup[n].b \in Passages /\ dedup[n].a # dedup[n].b
       /\ dedup[n].entries[dedup[n].a] # {} /\ dedup[n].entries[dedup[n].b] # {}

Covered ==
  /\ \A p \in Passages : \E q \in Passages : p \in rows[q]
  /\ \A p \in Passages : archive[p] # {} => rows[p] \subseteq archive[p]

Listed ==
  \A n \in Passes : dedup[n].at # "off" =>
    /\ \A p \in Passages : dedup[n].entries[p] # {} =>
         rows[p] \subseteq (IF Merging(n) /\ p = dedup[n].a THEN Archive!Canonical(n)
                            ELSE dedup[n].entries[p])
    /\ dedup[n].at \in {"write", "delete"} => archive[dedup[n].a] = Archive!Canonical(n)
    /\ dedup[n].at = "delete" => rows[dedup[n].a] = Archive!Canonical(n)

ArchiveInv == ArchiveShape /\ Covered /\ Listed

LEMMA ArchiveInvInit == ASSUME Archive!Init PROVE ArchiveInv
<1> DEFINE none == [p \in Passages |-> {}]
<1>1. none \in [Passages -> SUBSET Passages]
  OBVIOUS
<1>2. Archive!Off \in PassOf /\ Archive!Off.at = "off"
  BY <1>1 DEF Archive!Off, PassOf
<1>3. /\ rows = [p \in Passages |-> {p}] /\ archive = rows
      /\ dedup = [n \in Passes |-> Archive!Off]
  BY DEF Archive!Init
<1>4. QED
  BY <1>2, <1>3 DEF ArchiveInv, ArchiveShape, Covered, Listed, Merging

\* A pass that is off, or that compares, is told by its list.
LEMMA ComparesKeeps ==
  ASSUME ArchiveConstants, ArchiveInv, NEW n \in Passes, NEW c \in PassOf,
         dedup' = [dedup EXCEPT ![n] = c], UNCHANGED <<rows, archive>>,
         c.at \in {"off", "compare"},
         c.at = "compare" => \A p \in Passages : c.entries[p] # {} => rows[p] \subseteq c.entries[p]
  PROVE  ArchiveInv'
<1>1. dedup'[n] = c /\ dedup' \in [Passes -> PassOf] /\ \A m \in Passes : m = n
  BY DEF ArchiveInv, ArchiveShape, ArchiveConstants
<1>2. QED
  BY <1>1 DEF ArchiveInv, ArchiveShape, Covered, Listed, Merging

LEMMA CompareKeeps ==
  ASSUME ArchiveConstants, ArchiveInv, NEW n \in Passes, Archive!Compare(n)
  PROVE  ArchiveInv'
<1>1. PICK a \in Passages, b \in Passages :
        /\ Archive!Open(n, a, b)
        /\ \/ dedup' = [dedup EXCEPT ![n].at = "unindex", ![n].a = a, ![n].b = b,
                                     ![n].done = @ \cup {<<a, b>>}]
           \/ dedup' = [dedup EXCEPT ![n].done = @ \cup {<<a, b>>}]
  BY DEF Archive!Compare
<1>0. /\ dedup[n] \in PassOf /\ dedup[n].at = "compare" /\ UNCHANGED <<rows, archive>>
      /\ \A m \in Passes : m = n
      /\ \A p \in Passages : dedup[n].entries[p] # {} => rows[p] \subseteq dedup[n].entries[p]
  BY DEF ArchiveConstants, ArchiveInv, ArchiveShape, Archive!Compare, Listed, Merging
<1>2. /\ a # b /\ dedup[n].entries[a] # {} /\ dedup[n].entries[b] # {}
      /\ dedup[n].done \cup {<<a, b>>} \in SUBSET (Passages \X Passages)
  BY <1>0, <1>1 DEF Archive!Open, ArchiveConstants, PassOf
<1>3. CASE dedup' = [dedup EXCEPT ![n].done = @ \cup {<<a, b>>}]
  <2> DEFINE c == [dedup[n] EXCEPT !.done = @ \cup {<<a, b>>}]
  <2>1. c \in PassOf /\ c.at = "compare" /\ c.entries = dedup[n].entries
    BY <1>0, <1>2 DEF PassOf
  <2>2. dedup' = [dedup EXCEPT ![n] = c]
    BY <1>3
  <2> HIDE DEF c
  <2>3. QED
    BY <1>0, <2>1, <2>2, ComparesKeeps
<1>4. CASE dedup' = [dedup EXCEPT ![n].at = "unindex", ![n].a = a, ![n].b = b,
                                  ![n].done = @ \cup {<<a, b>>}]
  <2> DEFINE c == [dedup[n] EXCEPT !.at = "unindex", !.a = a, !.b = b,
                                   !.done = @ \cup {<<a, b>>}]
  <2>1. /\ c \in PassOf /\ c.at = "unindex" /\ c.entries = dedup[n].entries
        /\ c.a = a /\ c.b = b
    BY <1>0, <1>2 DEF PassOf
  <2>2. dedup' = [dedup EXCEPT ![n] = c]
    BY <1>4
  <2> HIDE DEF c
  <2>3. dedup'[n] = c /\ dedup' \in [Passes -> PassOf]
    BY <2>1, <2>2 DEF ArchiveInv, ArchiveShape
  <2>4. ArchiveShape'
    BY <1>0, <1>2, <2>1, <2>3 DEF ArchiveInv, ArchiveShape, Merging
  <2>5. Listed'
    BY <1>0, <2>1, <2>3 DEF Listed, Merging, Archive!Canonical
  <2>6. QED
    BY <1>0, <2>4, <2>5 DEF ArchiveInv, Covered
<1>5. QED
  BY <1>1, <1>3, <1>4

LEMMA MergeKeepsRows ==
  ASSUME ArchiveConstants, ArchiveInv, NEW n \in Passes, Archive!Merge(n)
  PROVE  ArchiveInv'
<1> DEFINE me == dedup[n]
           a == me.a
           b == me.b
           both == Archive!Canonical(n)
           merged == [me.entries EXCEPT ![a] = both, ![b] = {}]
<1>0. /\ me \in PassOf /\ Merging(n) /\ a \in Passages /\ b \in Passages /\ a # b
      /\ me.entries \in [Passages -> SUBSET Passages] /\ both = me.entries[a] \cup me.entries[b]
      /\ me.entries[a] # {} /\ me.entries[b] # {}
      /\ \A m \in Passes : m = n
      /\ rows \in [Passages -> SUBSET Passages] /\ archive \in [Passages -> SUBSET Passages]
      /\ dedup \in [Passes -> PassOf]
  BY DEF ArchiveConstants, ArchiveInv, ArchiveShape, Archive!Merge, Merging, PassOf,
         Archive!Canonical
<1>1. /\ both \in SUBSET Passages /\ both # {} /\ me.entries[b] \subseteq both
      /\ merged \in [Passages -> SUBSET Passages]
  BY <1>0
<1>2. /\ \A p \in Passages : archive[p] # {} => rows[p] \subseteq archive[p]
      /\ \A p \in Passages : \E q \in Passages : p \in rows[q]
      /\ rows[a] \subseteq both /\ rows[b] \subseteq both
      /\ \A p \in Passages \ {a} : me.entries[p] # {} => rows[p] \subseteq me.entries[p]
  BY <1>0, <1>1 DEF ArchiveInv, Covered, Listed, Merging
<1>3. /\ me.at \in {"write", "delete"} => archive[a] = both
      /\ me.at = "delete" => rows[a] = both
  BY <1>0 DEF ArchiveInv, Listed, Merging
<1> DEFINE c == IF Archive!Following(me.at) # "compare"
                THEN [me EXCEPT !.at = Archive!Following(me.at)]
                ELSE [me EXCEPT !.at = "compare", !.merges = me.merges + 1, !.entries = merged]
<1>4. dedup' = [dedup EXCEPT ![n] = c]
  BY DEF Archive!Merge, Archive!Advance
<1>5. CASE me.at \in {"unindex", "reindex", "write"}
  <2>1. /\ c \in PassOf /\ c.entries = me.entries /\ c.a = a /\ c.b = b
        /\ c.at = Archive!Following(me.at) /\ c.at \in {"reindex", "write", "delete"}
    BY <1>0, <1>5 DEF PassOf, Archive!Following
  <2>2. /\ me.at = "unindex" <=> c.at = "reindex"
        /\ me.at = "reindex" <=> c.at = "write"
        /\ me.at = "write" <=> c.at = "delete"
    BY <1>5, <2>1 DEF Archive!Following
  <2>3. /\ me.at = "unindex" => archive' = [archive EXCEPT ![b] = {}] /\ rows' = rows
        /\ me.at = "reindex" => archive' = [archive EXCEPT ![a] = both] /\ rows' = rows
        /\ me.at = "write" => archive' = archive /\ rows' = [rows EXCEPT ![a] = both]
    BY DEF Archive!Merge
  <2> HIDE DEF c, both, merged
  <2>4. dedup'[n] = c /\ dedup' \in [Passes -> PassOf] /\ Archive!Canonical(n)' = both
    BY <1>0, <1>4, <2>1 DEF Archive!Canonical
  <2>5. /\ rows' \in [Passages -> SUBSET Passages] /\ archive' \in [Passages -> SUBSET Passages]
        /\ \A p \in Passages : rows[p] \subseteq rows'[p] /\ (p # a => rows'[p] = rows[p])
        /\ rows'[a] = rows[a] \/ rows'[a] = both
        /\ \A p \in Passages : archive'[p] # {} => rows'[p] \subseteq archive'[p]
        /\ c.at \in {"write", "delete"} => archive'[a] = both
        /\ c.at = "delete" => rows'[a] = both
    <3>0. /\ a \in Passages /\ b \in Passages /\ both \in SUBSET Passages /\ both # {}
          /\ rows \in [Passages -> SUBSET Passages]
          /\ archive \in [Passages -> SUBSET Passages]
      BY <1>0, <1>1
    <3>1. CASE me.at = "unindex"
      <4> HIDE DEF a, b, me
      <4>1. /\ rows' = rows /\ archive' \in [Passages -> SUBSET Passages] /\ archive'[b] = {}
            /\ \A p \in Passages \ {b} : archive'[p] = archive[p]
        BY <2>3, <3>0, <3>1
      <4>2. c.at = "reindex"
        BY <2>2, <3>1
      <4>3. QED
        BY <1>2, <3>0, <4>1, <4>2
    <3>2. CASE me.at = "reindex"
      <4> HIDE DEF a, b, me
      <4>1. /\ rows' = rows /\ archive' \in [Passages -> SUBSET Passages] /\ archive'[a] = both
            /\ \A p \in Passages \ {a} : archive'[p] = archive[p]
        BY <2>3, <3>0, <3>2
      <4>2. c.at = "write"
        BY <2>2, <3>2
      <4>3. QED
        BY <1>2, <3>0, <4>1, <4>2
    <3>3. CASE me.at = "write"
      <4> HIDE DEF a, b, me
      <4>1. /\ archive' = archive /\ rows' \in [Passages -> SUBSET Passages] /\ rows'[a] = both
            /\ \A p \in Passages \ {a} : rows'[p] = rows[p]
        BY <2>3, <3>0, <3>3
      <4>2. archive[a] = both
        BY <1>3, <3>3
      <4>3. QED
        BY <1>2, <3>0, <4>1, <4>2
    <3>4. QED
      BY <1>5, <3>1, <3>2, <3>3
  <2>6. ArchiveShape'
    BY <1>0, <2>1, <2>4, <2>5 DEF ArchiveShape, Merging
  <2>7. Covered'
    BY <1>2, <2>5 DEF Covered
  <2>8. Listed'
    BY <1>0, <1>2, <2>1, <2>4, <2>5 DEF Listed, Merging
  <2>9. QED
    BY <2>6, <2>7, <2>8 DEF ArchiveInv
<1>6. CASE me.at = "delete"
  <2>1. c \in PassOf /\ c.at = "compare" /\ c.entries = merged
    <3>1. Archive!Following(me.at) = "compare"
      BY <1>6 DEF Archive!Following
    <3>2. c = [me EXCEPT !.at = "compare", !.merges = me.merges + 1, !.entries = merged]
      BY <3>1
    <3>3. me.merges + 1 \in Int /\ merged \in [Passages -> SUBSET Passages] /\ me \in PassOf
      BY <1>0, <1>1 DEF PassOf
    <3> HIDE DEF merged, me, c
    <3>4. QED
      BY <3>2, <3>3 DEF PassOf
  <2>2. archive' = archive /\ rows' = [rows EXCEPT ![b] = {}]
    BY <1>6 DEF Archive!Merge
  <2>3. dedup'[n] = c /\ dedup' \in [Passes -> PassOf]
    BY <1>0, <1>4, <2>1
  <2>4. /\ merged[a] = both /\ merged[b] = {}
        /\ \A p \in Passages \ {a, b} : merged[p] = me.entries[p]
    BY <1>0
  <2> HIDE DEF c, merged, both
  <2>5. /\ rows' \in [Passages -> SUBSET Passages] /\ rows'[b] = {} /\ rows'[a] = both
        /\ \A p \in Passages \ {b} : rows'[p] = rows[p]
    BY <1>0, <1>3, <1>6, <2>2
  <2>6. ArchiveShape'
    BY <1>0, <2>1, <2>2, <2>3, <2>5 DEF ArchiveShape, Merging
  <2>7. Covered'
    <3>1. \A p \in Passages : \E q \in Passages : p \in rows'[q]
      BY <1>0, <1>2, <2>5
    <3>2. \A p \in Passages : archive'[p] # {} => rows'[p] \subseteq archive'[p]
      BY <1>2, <2>2, <2>5
    <3>3. QED
      BY <3>1, <3>2 DEF Covered
  <2>8. Listed'
    BY <1>0, <1>2, <2>1, <2>3, <2>4, <2>5 DEF Listed, Merging
  <2>9. QED
    BY <2>6, <2>7, <2>8 DEF ArchiveInv
<1>7. QED
  BY <1>0, <1>5, <1>6 DEF Merging

LEMMA ArchiveStep ==
  ASSUME ArchiveConstants, ArchiveInv, [Archive!Next]_archiveVars
  PROVE  ArchiveInv'
<1> DEFINE none == [p \in Passages |-> {}]
<1>1. none \in [Passages -> SUBSET Passages]
  OBVIOUS
<1>2. Archive!Off \in PassOf /\ Archive!Off.at = "off"
  BY <1>1 DEF Archive!Off, PassOf
<1>3. ASSUME NEW n \in Passes, Archive!Start(n) PROVE ArchiveInv'
  <2> DEFINE off == Archive!Off
             c == [off EXCEPT !.at = "compare", !.entries = archive]
  <2>1. dedup' = [dedup EXCEPT ![n] = c] /\ UNCHANGED <<rows, archive>>
    BY <1>3 DEF Archive!Start
  <2>2. archive \in [Passages -> SUBSET Passages]
    BY DEF ArchiveInv, ArchiveShape
  <2> HIDE DEF off
  <2>3. c \in PassOf /\ c.at = "compare" /\ c.entries = archive
    BY <1>2, <2>2 DEF PassOf, off
  <2> HIDE DEF c
  <2>4. \A p \in Passages : c.entries[p] # {} => rows[p] \subseteq c.entries[p]
    BY <2>3 DEF ArchiveInv, Covered
  <2>5. QED
    BY <2>1, <2>3, <2>4, ComparesKeeps
<1>4. ASSUME NEW n \in Passes, Archive!Finish(n) \/ Archive!Break(n) PROVE ArchiveInv'
  <2>1. dedup' = [dedup EXCEPT ![n] = Archive!Off] /\ UNCHANGED <<rows, archive>>
    BY <1>4 DEF Archive!Finish, Archive!Break
  <2>2. QED
    BY <1>2, <2>1, ComparesKeeps
<1>5. CASE UNCHANGED archiveVars
  BY <1>5 DEF archiveVars, ArchiveInv, ArchiveShape, Covered, Listed, Merging, Archive!Canonical
<1>6. QED
  BY <1>3, <1>4, <1>5, CompareKeeps, MergeKeepsRows DEF Archive!Next

\* An erase that ran alone and reported success left nothing of its scope; what a
\* merge of scopes found when it read its source, it does not lose; and what a
\* passage said is in the archive wherever a pass of the deduplication breaks off,
\* one pass at a time.  What is ingested into the source of a merge after the read
\* is not covered, and is lost.
THEOREM MemoryStays ==
  ASSUME MemoryConstants, ArchiveConstants
  PROVE  Spec => []MemoryHolds
<1>1. Init => MemoryInv /\ ArchiveInv
  BY MemoryInvInit, ArchiveInvInit DEF Init
<1>2. MemoryInv /\ ArchiveInv /\ [Next]_allVars => (MemoryInv /\ ArchiveInv)'
  BY MemoryStep, ArchiveStep, StepOfParts
<1>3. MemoryInv /\ ArchiveInv => MemoryHolds
  <2> SUFFICES ASSUME MemoryInv, ArchiveInv PROVE MemoryHolds
    OBVIOUS
  <2>1. Memory!ErasedIsGone
    BY DEF MemoryInv, CleanInv, Lacks, Memory!ErasedIsGone
  <2>2. Memory!MergeKeeps
    BY DEF MemoryInv, MovedInv
  <2>3. Archive!NothingForgotten
    <3>1. \A p \in Passages : rows[p] \subseteq Passages
      BY DEF ArchiveInv, ArchiveShape
    <3>2. QED
      BY <3>1 DEF ArchiveInv, Covered, Archive!NothingForgotten
  <2>4. QED
    BY <2>1, <2>2, <2>3 DEF MemoryHolds
<1>4. QED
  BY <1>1, <1>2, <1>3, PTL DEF Spec

-----------------------------------------------------------------------------
(* Strategies.  The stream has no event but the first session.init until the *)
(* terminal result, and what was summed is what was used and spent.          *)

StrategyConstants ==
  /\ MaxRevisions \in Nat /\ MaxSteps \in Nat \ {0} /\ ReplanEvery \in Nat
  /\ MaxCost \in Nat /\ PlanLengths \subseteq Nat

InitEvent == [type |-> "init"]

StrategyInv ==
  /\ Strategy!TypeOK
  /\ strategy \in {"reflection", "plan"} /\ first \in BOOLEAN
  /\ pc \in {"draft", "critique"} => strategy = "reflection" /\ pass <= MaxRevisions
  /\ pc \in {"plan", "fallback", "step", "replan"} => strategy = "plan"
  /\ pc \in {"plan", "fallback"} => first /\ pass = 0
  /\ pc = "step" => pass < MaxSteps /\ remaining > 0
  /\ pc = "replan" => pass < MaxSteps
  /\ pc \in {"critique", "accept", "replan"} => ~ first
  /\ pc = "critique" \/ (pc = "accept" /\ strategy = "reflection") => last = "success"
  /\ strategy = "plan" /\ pass = 0 => pc \in {"plan", "fallback", "step", "done"}
  /\ {budget, total, spent, billed} \subseteq Nat
  /\ budget = spent /\ spent <= MaxCost /\ total = billed
  /\ pc # "done" => emitted = IF first THEN << >> ELSE <<InitEvent>>
  /\ pc = "done" =>
       LET e == emitted[2]
       IN /\ emitted = <<InitEvent, e>> /\ e.type = "result"
          /\ (strategy = "plan" /\ pass = 0) \/ e.usage = billed
          /\ strategy = "reflection" => e.subtype = last

LEMMA StrategyInvInit == ASSUME StrategyConstants, Strategy!Init PROVE StrategyInv
BY DEF StrategyConstants, Strategy!Init, StrategyInv, Strategy!TypeOK, Strategy!Subtypes

\* A run of the loop.
LEMMA SubRunFacts ==
  ASSUME StrategyConstants, StrategyInv, NEW end \in Strategy!Subtypes, Strategy!SubRun(end)
  PROVE  /\ {budget', total', spent', billed'} \subseteq Nat
         /\ budget' = spent' /\ spent' <= MaxCost /\ total' = billed' /\ last' = end
<1>1. PICK own \in 0..MaxCost, spawned \in 0..1 :
        /\ budget + own + spawned <= MaxCost
        /\ budget' = Strategy!Fold(own, spawned)
        /\ spent' = spent + own + spawned
        /\ billed' = billed + own
        /\ total' = total + own
        /\ last' = end
  BY DEF Strategy!SubRun
<1>2. /\ budget \in Nat /\ total \in Nat /\ spent \in Nat /\ billed \in Nat /\ MaxCost \in Nat
      /\ budget = spent /\ total = billed
  BY DEF StrategyInv, StrategyConstants
<1>3. own \in Nat /\ spawned \in Nat
  OBVIOUS
<1>4. Strategy!Fold(own, spawned) = budget + own + spawned
  BY <1>2, <1>3 DEF Strategy!Fold
<1>5. QED
  BY <1>1, <1>2, <1>3, <1>4

LEMMA PairOfTwo == ASSUME NEW x, NEW y PROVE <<x>> \o <<y>> = <<x, y>>
<1> DEFINE S == {x, y}
<1>1. <<x>> \in Seq(S) /\ <<y>> \in Seq(S) /\ <<x, y>> \in Seq(S)
  OBVIOUS
<1>2. /\ Len(<<x>>) = 1 /\ Len(<<y>>) = 1 /\ Len(<<x, y>>) = 2
  OBVIOUS
<1>3. /\ <<x>>[1] = x /\ <<y>>[1] = y /\ <<x, y>>[1] = x /\ <<x, y>>[2] = y
  OBVIOUS
<1> DEFINE u == <<x>>
           v == <<y>>
           w == <<x, y>>
<1>0. u \in Seq(S) /\ v \in Seq(S) /\ w \in Seq(S) /\ Len(u) = 1 /\ Len(v) = 1 /\ Len(w) = 2
     /\ u[1] = x /\ v[1] = y /\ w[1] = x /\ w[2] = y
  BY <1>1, <1>2, <1>3
<1> HIDE DEF u, v, w, S
<1>4. /\ u \o v \in Seq(S) /\ Len(u \o v) = 2
      /\ (u \o v)[1] = x /\ (u \o v)[2] = y
  <2>1. u \o v \in Seq(S) /\ Len(u \o v) = Len(u) + Len(v)
    BY <1>0, ConcatProperties
  <2>2. \A i \in 1..2 : (u \o v)[i] = IF i <= Len(u) THEN u[i] ELSE v[i - Len(u)]
    BY <1>0, ConcatProperties
  <2>3. QED
    BY <1>0, <2>1, <2>2
<1>5. u \o v = w
  BY <1>0, <1>4
<1>6. QED
  BY <1>5 DEF u, v, w

\* What reaches the caller, while no result has.
LEMMA ForwardFacts ==
  ASSUME StrategyInv, pc # "done", NEW result, Strategy!Forward(result)
  PROVE  /\ ~ first'
         /\ result = << >> => emitted' = <<InitEvent>>
         /\ \A e : result = <<e>> => emitted' = <<InitEvent, e>>
<1>1. /\ emitted = IF first THEN << >> ELSE <<InitEvent>>
      /\ first \in BOOLEAN
  BY DEF StrategyInv
<1>2. /\ emitted' = emitted \o (IF first THEN <<InitEvent>> ELSE << >>) \o result
      /\ first' = FALSE
  BY DEF Strategy!Forward, InitEvent
<1> DEFINE i == InitEvent
<1> HIDE DEF i
<1>3. << >> \o <<i>> = <<i>> /\ <<i>> \o << >> = <<i>>
  OBVIOUS
<1>4. emitted \o (IF first THEN <<i>> ELSE << >>) = <<i>>
  BY <1>1, <1>3 DEF i
<1>5. emitted' = <<i>> \o result
  BY <1>2, <1>4 DEF i
<1>6. \A e : <<i>> \o <<e>> = <<i, e>>
  BY PairOfTwo
<1>7. QED
  BY <1>2, <1>3, <1>5, <1>6 DEF i

LEMMA ResultFields ==
  ASSUME NEW subtype, NEW usage
  PROVE  LET e == Strategy!Result(subtype, usage)[1]
         IN /\ Strategy!Result(subtype, usage) = <<e>>
            /\ e.type = "result" /\ e.subtype = subtype /\ e.usage = usage
BY DEF Strategy!Result

LEMMA AuxFacts ==
  ASSUME StrategyInv, Strategy!Aux
  PROVE  total' \in Nat /\ billed' \in Nat /\ total' = billed'
BY DEF StrategyInv, Strategy!Aux

\* What a sub-run that ends the strategy leaves.
LEMMA EndingRun ==
  ASSUME StrategyConstants, StrategyInv, pc # "done", NEW end \in Strategy!Subtypes,
         Strategy!SubRun(end), NEW usage, Strategy!Forward(Strategy!Result(end, usage)),
         pc' = "done", UNCHANGED strategy, pass' \in 0..(MaxRevisions + 1) \cup 0..MaxSteps,
         remaining' = remaining,
         (strategy = "plan" /\ pass' = 0) \/ usage = total'
  PROVE  StrategyInv'
<1> DEFINE e == Strategy!Result(end, usage)[1]
<1>1. /\ {budget', total', spent', billed'} \subseteq Nat
      /\ budget' = spent' /\ spent' <= MaxCost /\ total' = billed' /\ last' = end
  BY SubRunFacts
<1>2. /\ Strategy!Result(end, usage) = <<e>>
      /\ e.type = "result" /\ e.subtype = end /\ e.usage = usage
  BY ResultFields
<1> HIDE DEF e
<1>3. ~ first' /\ emitted' = <<InitEvent, e>> /\ first' \in BOOLEAN
  BY <1>2, ForwardFacts DEF Strategy!Forward
<1>4. Strategy!TypeOK'
  BY <1>1 DEF StrategyInv, Strategy!TypeOK, Strategy!Subtypes
<1>5. QED
  BY <1>1, <1>2, <1>3, <1>4 DEF StrategyInv

LEMMA StrategyStep ==
  ASSUME StrategyConstants, StrategyInv, Strategy!Next
  PROVE  StrategyInv'
<1>1. CASE Strategy!Draft
  <2>1. PICK end \in Strategy!Subtypes :
          /\ Strategy!SubRun(end)
          /\ Strategy!Forward(IF end = "success" THEN << >> ELSE Strategy!Result(end, total'))
          /\ pc' = IF end # "success" THEN "done"
                   ELSE IF pass = MaxRevisions THEN "accept" ELSE "critique"
    BY <1>1 DEF Strategy!Draft
  <2>2. /\ pc = "draft" /\ pass' = pass + 1 /\ UNCHANGED <<strategy, remaining>>
        /\ strategy = "reflection" /\ pass <= MaxRevisions /\ pass \in Nat
    BY <1>1 DEF Strategy!Draft, StrategyInv, Strategy!TypeOK, StrategyConstants
  <2>3. pass' \in 0..(MaxRevisions + 1) /\ pass' > 0
    BY <2>2 DEF StrategyConstants
  <2>4. CASE end # "success"
    BY <2>1, <2>2, <2>3, <2>4, EndingRun
  <2>5. CASE end = "success"
    <3>1. /\ {budget', total', spent', billed'} \subseteq Nat
          /\ budget' = spent' /\ spent' <= MaxCost /\ total' = billed' /\ last' = end
      BY <2>1, SubRunFacts
    <3>2. ~ first' /\ first' \in BOOLEAN /\ emitted' = <<InitEvent>>
      BY <2>1, <2>2, <2>5, ForwardFacts DEF Strategy!Forward
    <3>3. pc' \in {"accept", "critique"} /\ (pc' = "critique" => pass' <= MaxRevisions)
      BY <2>1, <2>2, <2>5 DEF StrategyConstants
    <3>4. Strategy!TypeOK'
      BY <2>2, <2>3, <3>1, <3>3 DEF StrategyInv, Strategy!TypeOK, Strategy!Subtypes
    <3>5. QED
      BY <2>2, <2>5, <3>1, <3>2, <3>3, <3>4 DEF StrategyInv
  <2>6. QED
    BY <2>4, <2>5
<1>2. CASE Strategy!Critique
  <2>1. /\ pc = "critique" /\ pc' \in {"draft", "accept"}
        /\ UNCHANGED <<strategy, pass, remaining, last, budget, first, spent, emitted>>
        /\ total' \in Nat /\ billed' \in Nat /\ total' = billed'
    BY <1>2, AuxFacts DEF Strategy!Critique
  <2>2. QED
    BY <2>1 DEF StrategyInv, Strategy!TypeOK
<1>3. CASE Strategy!Accept
  <2>1. /\ pc = "accept" /\ pc' = "done" /\ emitted' = emitted \o Strategy!Result("success", total)
        /\ UNCHANGED <<strategy, pass, remaining, last, budget, total, first, spent, billed>>
    BY <1>3 DEF Strategy!Accept
  <2> DEFINE e == Strategy!Result("success", total)[1]
  <2>2. /\ Strategy!Result("success", total) = <<e>>
        /\ e.type = "result" /\ e.subtype = "success" /\ e.usage = total
    BY ResultFields
  <2>3. \A x, y : <<x>> \o <<y>> = <<x, y>>
    BY PairOfTwo
  <2> HIDE DEF e
  <2>4. emitted' = <<InitEvent, e>>
    BY <2>1, <2>2, <2>3 DEF StrategyInv
  <2>5. Strategy!TypeOK'
    BY <2>1 DEF StrategyInv, Strategy!TypeOK
  <2>6. strategy = "reflection" => last = "success"
    BY <2>1 DEF StrategyInv
  <2>7. emitted'[2] = e
    BY <2>4
  <2>8. /\ strategy \in {"reflection", "plan"} /\ first \in BOOLEAN
        /\ {budget, total, spent, billed} \subseteq Nat
        /\ budget = spent /\ spent <= MaxCost /\ total = billed
    BY DEF StrategyInv
  <2>9. QED
    BY <2>1, <2>2, <2>4, <2>5, <2>6, <2>7, <2>8 DEF StrategyInv
<1>4. CASE Strategy!Format
  <2>1. PICK end \in Strategy!Subtypes :
          Strategy!SubRun(end) /\ Strategy!Forward(Strategy!Result(end, total'))
    BY <1>4 DEF Strategy!Format, Strategy!FormatResult
  <2>2. QED
    BY <1>4, <2>1, EndingRun DEF Strategy!Format, StrategyInv, Strategy!TypeOK
<1>5. CASE Strategy!FirstPlan
  <2>1. /\ pc = "plan" /\ \E n \in PlanLengths : /\ remaining' = IF n < MaxSteps THEN n ELSE MaxSteps
                                                /\ pc' = IF n = 0 THEN "fallback" ELSE "step"
        /\ UNCHANGED <<strategy, pass, last, budget, first, spent, emitted>>
        /\ total' \in Nat /\ billed' \in Nat /\ total' = billed'
    BY <1>5, AuxFacts DEF Strategy!FirstPlan
  <2>2. pc' \in {"fallback", "step"} /\ remaining' \in 0..MaxSteps /\ (pc' = "step" => remaining' > 0)
    BY <2>1 DEF StrategyConstants
  <2>3. QED
    BY <2>1, <2>2 DEF StrategyInv, Strategy!TypeOK, StrategyConstants
<1>6. CASE Strategy!Fallback
  <2>1. PICK end \in Strategy!Subtypes :
          Strategy!SubRun(end) /\ Strategy!Forward(Strategy!Result(end, total' - total))
    BY <1>6 DEF Strategy!Fallback
  <2>2. /\ pc = "fallback" /\ pc' = "done" /\ strategy = "plan" /\ pass = 0
        /\ UNCHANGED <<strategy, pass, remaining>>
    BY <1>6 DEF Strategy!Fallback, StrategyInv
  <2>3. QED
    BY <2>1, <2>2, EndingRun DEF StrategyInv, Strategy!TypeOK
<1>7. CASE Strategy!Step
  <2>1. PICK end \in Strategy!Subtypes :
          /\ Strategy!SubRun(end)
          /\ LET wants == \/ end # "success"
                          \/ ReplanEvery > 0 /\ (pass + 1) % ReplanEvery = 0 /\ remaining > 1
             IN pc' = CASE wants /\ Strategy!MayReplan(pass + 1) -> "replan"
                        [] end # "success" -> "accept"
                        [] remaining > 1 /\ Strategy!MayReplan(pass + 1) -> "step"
                        [] OTHER -> "accept"
    BY <1>7 DEF Strategy!Step
  <2>2. /\ pc = "step" /\ pass' = pass + 1 /\ remaining' = remaining - 1 /\ UNCHANGED strategy
        /\ Strategy!Forward(<< >>) /\ strategy = "plan" /\ pass < MaxSteps /\ pass \in Nat
        /\ remaining \in 1..MaxSteps
    BY <1>7 DEF Strategy!Step, StrategyInv, Strategy!TypeOK, StrategyConstants
  <2>3. /\ pc' \in {"replan", "accept", "step"}
        /\ pc' = "step" => remaining > 1 /\ pass + 1 < MaxSteps
        /\ pc' = "replan" => pass + 1 < MaxSteps
    BY <2>1 DEF Strategy!MayReplan
  <2>4. /\ {budget', total', spent', billed'} \subseteq Nat
        /\ budget' = spent' /\ spent' <= MaxCost /\ total' = billed' /\ last' = end
    BY <2>1, SubRunFacts
  <2>5. ~ first' /\ first' \in BOOLEAN /\ emitted' = <<InitEvent>>
    BY <2>2, ForwardFacts DEF Strategy!Forward
  <2>6. pass' \in 0..MaxSteps /\ pass' > 0 /\ remaining' \in 0..MaxSteps
    BY <2>2 DEF StrategyConstants
  <2>7. Strategy!TypeOK'
    BY <2>3, <2>4, <2>6 DEF StrategyInv, Strategy!TypeOK, Strategy!Subtypes
  <2>8. QED
    BY <2>2, <2>3, <2>4, <2>5, <2>6, <2>7 DEF StrategyInv
<1>8. CASE Strategy!Replan
  <2>1. /\ pc = "replan"
        /\ \E n \in PlanLengths : /\ remaining' = IF n < MaxSteps - pass THEN n ELSE MaxSteps - pass
                                  /\ pc' = IF n = 0 THEN "accept" ELSE "step"
        /\ UNCHANGED <<strategy, pass, last, budget, first, spent, emitted>>
        /\ total' \in Nat /\ billed' \in Nat /\ total' = billed'
        /\ pass \in Nat /\ pass < MaxSteps /\ strategy = "plan" /\ pass # 0 /\ ~ first
    BY <1>8, AuxFacts DEF Strategy!Replan, StrategyInv, Strategy!TypeOK, StrategyConstants
  <2>2. pc' \in {"accept", "step"} /\ remaining' \in 0..MaxSteps /\ (pc' = "step" => remaining' > 0)
    BY <2>1 DEF StrategyConstants
  <2>3. QED
    BY <2>1, <2>2 DEF StrategyInv, Strategy!TypeOK, StrategyConstants
<1>9. QED
  BY <1>1, <1>2, <1>3, <1>4, <1>5, <1>6, <1>7, <1>8 DEF Strategy!Next

LEMMA StrategyHolds ==
  ASSUME StrategyInv
  PROVE  Strategy!TypeOK /\ Strategy!OneResult /\ Strategy!BudgetIsSpent /\ Strategy!SuccessEarned
<1>1. CASE pc # "done"
  <2>1. ~ \E i \in DOMAIN emitted : emitted[i].type = "result"
    BY <1>1 DEF StrategyInv, InitEvent
  <2>2. QED
    BY <1>1, <2>1 DEF StrategyInv, Strategy!OneResult, Strategy!Results, Strategy!BudgetIsSpent,
                      Strategy!SuccessEarned
<1>2. CASE pc = "done"
  <2>1. PICK e : /\ emitted = <<InitEvent, e>> /\ e.type = "result"
                 /\ (strategy = "plan" /\ pass = 0) \/ e.usage = billed
                 /\ strategy = "reflection" => e.subtype = last
    BY <1>2 DEF StrategyInv
  <2>2. /\ Len(emitted) = 2 /\ DOMAIN emitted = {1, 2}
        /\ emitted[1] = InitEvent /\ emitted[2] = e
    BY <2>1
  <2>3. InitEvent.type = "init"
    BY DEF InitEvent
  <2>4. Strategy!Results = {2}
    BY <2>1, <2>2, <2>3 DEF Strategy!Results
  <2>5. QED
    BY <1>2, <2>1, <2>2, <2>3, <2>4 DEF StrategyInv, Strategy!OneResult, Strategy!BudgetIsSpent,
                                       Strategy!SuccessEarned
<1>3. QED
  BY <1>1, <1>2

-----------------------------------------------------------------------------
(* The cache.  An entry of the LRU is stale no later than one time to live   *)
(* after it was answered, or two where it came from the store.               *)

CacheConstants ==
  /\ Ttl \in Nat \ {0} /\ MaxTime \in Nat \ {0} /\ MaxEntries \in Nat /\ HasStore \in BOOLEAN

CacheEntry == [key : Keys \cup {0}, born : Nat, until : Nat]
Lookup == [at : {"idle", "store", "model", "save"}, key : Keys \cup {0}, born : Nat, seen : Nat]
Lifetimes == IF HasStore THEN 2 ELSE 1

CacheInv ==
  /\ now \in 1..MaxTime /\ late \in Nat /\ late < Lifetimes
  /\ lru \in Seq(CacheEntry) /\ Len(lru) <= MaxEntries
  /\ outer \in [Keys -> Nat] /\ lookup \in [Calls -> Lookup]
  /\ \A i, j \in DOMAIN lru : lru[i].key = lru[j].key => i = j
  /\ \A i \in DOMAIN lru : lru[i].born <= now /\ lru[i].until <= lru[i].born + Lifetimes * Ttl
  /\ \A k \in Keys : outer[k] <= now
  /\ \A c \in Calls : /\ lookup[c].seen <= now
                      /\ lookup[c].at # "idle" => lookup[c].key \in Keys
                      /\ lookup[c].at = "store" => HasStore

LeftOut(q, i) == SubSeq(q, 1, i - 1) \o SubSeq(q, i + 1, Len(q))

LEMMA LeftAfterRemoval ==
  ASSUME NEW S, NEW q \in Seq(S), NEW i \in DOMAIN q
  PROVE  /\ LeftOut(q, i) \in Seq(S) /\ Len(LeftOut(q, i)) = Len(q) - 1
         /\ \A j \in DOMAIN LeftOut(q, i) :
              LeftOut(q, i)[j] = IF j < i THEN q[j] ELSE q[j + 1]
<1> DEFINE u == SubSeq(q, 1, i - 1)
           v == SubSeq(q, i + 1, Len(q))
<1>1. i \in 1..Len(q) /\ Len(q) \in Nat
  OBVIOUS
<1>2. /\ u \in Seq(S) /\ Len(u) = i - 1 /\ \A j \in 1..(i - 1) : u[j] = q[j]
  BY <1>1, SubSeqProperties
<1>3. /\ v \in Seq(S) /\ Len(v) = Len(q) - i /\ \A j \in 1..(Len(q) - i) : v[j] = q[j + i]
  BY <1>1, SubSeqProperties
<1> HIDE DEF u, v
<1>4. /\ u \o v \in Seq(S) /\ Len(u \o v) = Len(u) + Len(v)
      /\ \A j \in 1..(Len(u) + Len(v)) : (u \o v)[j] = IF j <= Len(u) THEN u[j] ELSE v[j - Len(u)]
  BY <1>2, <1>3, ConcatProperties
<1>5. Len(u \o v) = Len(q) - 1 /\ DOMAIN (u \o v) = 1..(Len(q) - 1)
  BY <1>1, <1>2, <1>3, <1>4
<1>6. ASSUME NEW j \in 1..(Len(q) - 1) PROVE (u \o v)[j] = IF j < i THEN q[j] ELSE q[j + 1]
  <2>1. CASE j < i
    <3>1. j \in 1..(i - 1) /\ j \in 1..(Len(u) + Len(v)) /\ j <= Len(u)
      BY <1>1, <1>2, <1>3, <2>1
    <3>2. (u \o v)[j] = u[j]
      BY <1>4, <3>1
    <3>3. u[j] = q[j]
      BY <1>2, <3>1
    <3>4. QED
      BY <2>1, <3>2, <3>3
  <2>2. CASE ~ j < i
    <3>1. j - (i - 1) \in 1..(Len(q) - i) /\ (j - (i - 1)) + i = j + 1
      BY <1>1, <2>2
    <3>2. (u \o v)[j] = v[j - (i - 1)]
      <4>1. j \in 1..(Len(u) + Len(v)) /\ ~ j <= Len(u)
        BY <1>1, <1>2, <1>3, <2>2
      <4>2. (u \o v)[j] = v[j - Len(u)]
        BY <1>4, <4>1
      <4>3. QED
        BY <1>2, <4>2
    <3>3. v[j - (i - 1)] = q[j + 1]
      BY <1>3, <3>1
    <3>4. QED
      BY <2>2, <3>2, <3>3
  <2>3. QED
    BY <2>1, <2>2
<1>7. LeftOut(q, i) = u \o v
  BY DEF LeftOut, u, v
<1>8. QED
  BY <1>4, <1>5, <1>6, <1>7

\* What stands of the LRU without a key, and with a new entry for it.
LruOK(q) ==
  /\ q \in Seq(CacheEntry) /\ \A i, j \in DOMAIN q : q[i].key = q[j].key => i = j
  /\ \A i \in DOMAIN q : q[i].born <= now /\ q[i].until <= q[i].born + Lifetimes * Ttl

LEMMA WithoutKey ==
  ASSUME CacheConstants, CacheInv, NEW k
  PROVE  /\ LruOK(Cache!Without(k)) /\ Len(Cache!Without(k)) <= MaxEntries
         /\ \A i \in DOMAIN Cache!Without(k) : Cache!Without(k)[i].key # k
         /\ Cache!Holds(k) => /\ Cache!Place(k) \in DOMAIN lru
                              /\ Len(Cache!Without(k)) = Len(lru) - 1
<1>1. lru \in Seq(CacheEntry) /\ Len(lru) \in Nat /\ DOMAIN lru = 1..Len(lru)
  BY DEF CacheInv
<1>2. CASE Cache!Holds(k)
  <2> DEFINE p == Cache!Place(k)
             r == Cache!Without(k)
  <2>1. p \in DOMAIN lru /\ lru[p].key = k
    BY <1>2 DEF Cache!Holds, Cache!Place
  <2>2. r = LeftOut(lru, p)
    BY <1>2 DEF Cache!Without, LeftOut
  <2> HIDE DEF p, r
  <2>3. /\ r \in Seq(CacheEntry) /\ Len(r) = Len(lru) - 1
        /\ \A j \in DOMAIN r : r[j] = IF j < p THEN lru[j] ELSE lru[j + 1]
    BY <1>1, <2>1, <2>2, LeftAfterRemoval
  <2>4. DOMAIN r = 1..(Len(lru) - 1) /\ p \in 1..Len(lru)
    BY <1>1, <2>1, <2>3
  <2> DEFINE from(j) == IF j < p THEN j ELSE j + 1
  <2>5. \A j \in DOMAIN r : from(j) \in DOMAIN lru /\ from(j) # p /\ r[j] = lru[from(j)]
    BY <1>1, <2>3, <2>4
  <2>6. \A i, j \in DOMAIN r : from(i) = from(j) => i = j
    BY <1>1, <2>4
  <2> HIDE DEF from
  <2>7. \A i, j \in DOMAIN r : r[i].key = r[j].key => i = j
    BY <2>5, <2>6 DEF CacheInv
  <2>8. \A i \in DOMAIN r : /\ r[i].born <= now /\ r[i].until <= r[i].born + Lifetimes * Ttl
                            /\ r[i].key # k
    BY <2>1, <2>5 DEF CacheInv
  <2>9. Len(r) <= MaxEntries
    <3>1. Len(lru) <= MaxEntries
      BY DEF CacheInv
    <3>2. QED
      BY <1>1, <2>3, <3>1 DEF CacheConstants
  <2>10. QED
    BY <2>1, <2>3, <2>7, <2>8, <2>9 DEF LruOK, p, r
<1>3. CASE ~ Cache!Holds(k)
  BY <1>3 DEF Cache!Without, Cache!Holds, CacheInv, LruOK
<1>4. QED
  BY <1>2, <1>3

\* The LRU with a new entry.
LEMMA WithEntry ==
  ASSUME CacheConstants, CacheInv, NEW e \in CacheEntry,
         e.born <= now, e.until <= e.born + Lifetimes * Ttl
  PROVE  LruOK(Cache!With(e)) /\ Len(Cache!With(e)) <= MaxEntries
<1> DEFINE r == Cache!Without(e.key)
           s == Append(r, e)
<1>1. /\ LruOK(r) /\ Len(r) <= MaxEntries
      /\ \A i \in DOMAIN r : r[i].key # e.key
  BY WithoutKey
<1>2. Cache!With(e) = IF Len(s) > MaxEntries THEN Tail(s) ELSE s
  BY DEF Cache!With, Cache!Evicted
<1> HIDE DEF r
<1>3. r \in Seq(CacheEntry) /\ Len(r) \in Nat /\ DOMAIN r = 1..Len(r)
  BY <1>1 DEF LruOK
<1>4. /\ s \in Seq(CacheEntry) /\ Len(s) = Len(r) + 1 /\ DOMAIN s = 1..(Len(r) + 1)
      /\ \A i \in DOMAIN r : s[i] = r[i]
      /\ s[Len(r) + 1] = e
  BY <1>3
<1> HIDE DEF s
<1>5. LruOK(s)
  <2>1. ASSUME NEW i \in DOMAIN s, NEW j \in DOMAIN s, s[i].key = s[j].key PROVE i = j
    <3>1. CASE i \in DOMAIN r /\ j \in DOMAIN r
      BY <1>1, <1>4, <2>1, <3>1 DEF LruOK
    <3>2. CASE i \notin DOMAIN r \/ j \notin DOMAIN r
      BY <1>1, <1>3, <1>4, <2>1, <3>2
    <3>3. QED
      BY <3>1, <3>2
  <2>2. ASSUME NEW i \in DOMAIN s
        PROVE  s[i].born <= now /\ s[i].until <= s[i].born + Lifetimes * Ttl
    BY <1>1, <1>3, <1>4 DEF LruOK
  <2>3. QED
    BY <1>4, <2>1, <2>2 DEF LruOK
<1>6. CASE Len(s) > MaxEntries
  <2> DEFINE t == Tail(s)
  <2>1. /\ t \in Seq(CacheEntry) /\ Len(t) = Len(s) - 1 /\ DOMAIN t = 1..(Len(s) - 1)
        /\ \A i \in DOMAIN t : t[i] = s[i + 1] /\ i + 1 \in DOMAIN s
    BY <1>3, <1>4
  <2>2. Cache!With(e) = t
    BY <1>2, <1>6
  <2> HIDE DEF t
  <2>3. \A i, j \in DOMAIN t : t[i].key = t[j].key => i = j
    <3> SUFFICES ASSUME NEW i \in DOMAIN t, NEW j \in DOMAIN t, t[i].key = t[j].key
                 PROVE  i = j
      OBVIOUS
    <3>1. i + 1 = j + 1
      BY <1>5, <2>1 DEF LruOK
    <3>2. QED
      BY <2>1, <3>1
  <2>4. LruOK(t)
    BY <1>5, <2>1, <2>3 DEF LruOK
  <2>5. Len(t) <= MaxEntries
    BY <1>1, <1>3, <1>4, <2>1
  <2>6. QED
    BY <2>2, <2>4, <2>5
<1>7. CASE ~ Len(s) > MaxEntries
  BY <1>2, <1>3, <1>4, <1>5, <1>7 DEF CacheConstants
<1>8. QED
  BY <1>6, <1>7

\* An entry that was found becomes the most recently used one.
LEMMA EntryMoves ==
  ASSUME CacheConstants, CacheInv, NEW k, Cache!Holds(k)
  PROVE  LET q == Append(Cache!Without(k), lru[Cache!Place(k)])
         IN LruOK(q) /\ Len(q) <= MaxEntries
<1> DEFINE r == Cache!Without(k)
           e == lru[Cache!Place(k)]
           s == Append(r, e)
<1>1. /\ LruOK(r) /\ Len(r) = Len(lru) - 1
      /\ \A i \in DOMAIN r : r[i].key # k
      /\ Cache!Place(k) \in DOMAIN lru
  BY WithoutKey
<1>2. e.key = k
  BY DEF Cache!Holds, Cache!Place
<1>3. e \in CacheEntry /\ e.born <= now /\ e.until <= e.born + Lifetimes * Ttl
  BY <1>1 DEF CacheInv
<1> HIDE DEF r, e
<1>4. r \in Seq(CacheEntry) /\ Len(r) \in Nat /\ DOMAIN r = 1..Len(r)
  BY <1>1 DEF LruOK
<1>5. /\ s \in Seq(CacheEntry) /\ Len(s) = Len(r) + 1 /\ DOMAIN s = 1..(Len(r) + 1)
      /\ \A i \in DOMAIN r : s[i] = r[i]
      /\ s[Len(r) + 1] = e
  BY <1>3, <1>4
<1> HIDE DEF s
<1>6. Len(s) <= MaxEntries
  <2>1. Len(lru) \in Nat /\ Len(lru) <= MaxEntries
    BY DEF CacheInv
  <2>2. QED
    BY <1>1, <1>4, <1>5, <2>1 DEF CacheConstants
<1>7. ASSUME NEW i \in DOMAIN s, NEW j \in DOMAIN s, s[i].key = s[j].key PROVE i = j
  <2>1. CASE i \in DOMAIN r /\ j \in DOMAIN r
    BY <1>1, <1>5, <1>7, <2>1 DEF LruOK
  <2>2. CASE i \notin DOMAIN r \/ j \notin DOMAIN r
    BY <1>1, <1>2, <1>4, <1>5, <1>7, <2>2
  <2>3. QED
    BY <2>1, <2>2
<1>8. ASSUME NEW i \in DOMAIN s
      PROVE  s[i].born <= now /\ s[i].until <= s[i].born + Lifetimes * Ttl
  BY <1>1, <1>3, <1>4, <1>5 DEF LruOK
<1>9. LruOK(s)
  BY <1>5, <1>7, <1>8 DEF LruOK
<1>10. QED
  BY <1>6, <1>9 DEF s, r, e

\* How many times to live an answer had behind it.
LEMMA LifetimesPast ==
  ASSUME CacheConstants, CacheInv, NEW born \in Nat, born <= now,
         now < born + Lifetimes * Ttl, Cache!Served(born)
  PROVE  late' \in Nat /\ late' < Lifetimes
<1>1. now \in Nat /\ Ttl \in Nat \ {0} /\ Lifetimes \in {1, 2} /\ late \in Nat /\ late < Lifetimes
  BY DEF CacheConstants, CacheInv, Lifetimes
<1> DEFINE d == (now - born) \div Ttl
<1>2. d \in Nat /\ d < Lifetimes
  <2>1. now - born \in Nat /\ now - born < Lifetimes * Ttl
    BY <1>1
  <2>2. \A n \in Nat, t \in Nat \ {0} : n < t => n \div t = 0
    OBVIOUS
  <2>3. \A n \in Nat, t \in Nat \ {0} : n < 2 * t => n \div t \in {0, 1}
    OBVIOUS
  <2>4. CASE Lifetimes = 1
    BY <1>1, <2>1, <2>2, <2>4
  <2>5. CASE Lifetimes = 2
    BY <1>1, <2>1, <2>3, <2>5
  <2>6. QED
    BY <1>1, <2>4, <2>5
<1>3. late' = IF d > late THEN d ELSE late
  BY DEF Cache!Served
<1>4. QED
  BY <1>1, <1>2, <1>3

LEMMA CacheInvInit == ASSUME CacheConstants, Cache!Init PROVE CacheInv
BY DEF CacheConstants, Cache!Init, Cache!Idle, CacheInv, Lookup, CacheEntry, Lifetimes

LEMMA CacheStep ==
  ASSUME CacheConstants, CacheInv, [Cache!Next]_cacheVars
  PROVE  CacheInv'
<1>0. /\ now \in Nat /\ Ttl \in Nat \ {0} /\ Lifetimes \in {1, 2} /\ MaxTime \in Nat \ {0}
      /\ HasStore => Lifetimes = 2
  BY DEF CacheConstants, CacheInv, Lifetimes
<1>1. ASSUME NEW c \in Calls, NEW k \in Keys, Cache!LookUp(c, k) PROVE CacheInv'
  <2>1. /\ UNCHANGED <<outer, now>>
        /\ lru' = IF Cache!Holds(k) THEN Append(Cache!Without(k), lru[Cache!Place(k)]) ELSE lru
    BY <1>1 DEF Cache!LookUp
  <2>2. LruOK(lru') /\ Len(lru') <= MaxEntries
    <3>1. CASE Cache!Holds(k)
      BY <2>1, <3>1, EntryMoves
    <3>2. CASE ~ Cache!Holds(k)
      BY <2>1, <3>2 DEF CacheInv, LruOK
    <3>3. QED
      BY <3>1, <3>2
  <2>3. /\ late' \in Nat /\ late' < Lifetimes
        /\ lookup' \in [Calls -> Lookup]
        /\ \A d \in Calls : /\ lookup'[d].seen <= now
                            /\ lookup'[d].at # "idle" => lookup'[d].key \in Keys
                            /\ lookup'[d].at = "store" => HasStore
    <3>1. CASE Cache!Holds(k) /\ Cache!Fresh(lru[Cache!Place(k)])
      <4> DEFINE e == lru[Cache!Place(k)]
      <4>1. Cache!Place(k) \in DOMAIN lru
        BY <3>1, WithoutKey
      <4>2. /\ e.born \in Nat /\ e.until \in Nat /\ e.born <= now
            /\ e.until <= e.born + Lifetimes * Ttl
        <5>1. e \in CacheEntry
          <6>1. lru \in Seq(CacheEntry)
            BY DEF CacheInv
          <6>2. QED
            BY <4>1, <6>1
        <5>2. e.born \in Nat /\ e.until \in Nat
          BY <5>1 DEF CacheEntry
        <5>3. QED
          BY <4>1, <5>2 DEF CacheInv
      <4>3. Cache!Served(e.born) /\ UNCHANGED lookup /\ e.until > now
        BY <1>1, <3>1 DEF Cache!LookUp, Cache!Fresh
      <4> HIDE DEF e
      <4>4. now < e.born + Lifetimes * Ttl
        BY <1>0, <4>2, <4>3
      <4>5. late' \in Nat /\ late' < Lifetimes
        BY <4>2, <4>3, <4>4, LifetimesPast
      <4>6. QED
        BY <4>3, <4>5 DEF CacheInv
    <3>2. CASE ~ (Cache!Holds(k) /\ Cache!Fresh(lru[Cache!Place(k)]))
      <4> DEFINE l == [at |-> IF HasStore THEN "store" ELSE "model",
                       key |-> k, born |-> 0, seen |-> now]
      <4>1. lookup' = [lookup EXCEPT ![c] = l] /\ UNCHANGED late
        BY <1>1, <3>2 DEF Cache!LookUp
      <4>2. /\ l \in Lookup /\ l.seen = now /\ l.key \in Keys /\ (l.at = "store" => HasStore)
        BY <1>0 DEF Lookup
      <4> HIDE DEF l
      <4>3. QED
        BY <1>0, <4>1, <4>2 DEF CacheInv
    <3>3. QED
      BY <3>1, <3>2
  <2>4. QED
    BY <2>1, <2>2, <2>3 DEF CacheInv, LruOK, Lifetimes
<1>2. ASSUME NEW c \in Calls, Cache!LookFurther(c) PROVE CacheInv'
  <2> DEFINE k == lookup[c].key
             born == outer[k]
             e == Cache!Entry(k, born, lookup[c].seen + Ttl)
  <2>1. /\ lookup[c].at = "store" /\ HasStore /\ k \in Keys /\ lookup[c] \in Lookup
        /\ lookup[c].seen <= now /\ born \in Nat /\ born <= now
        /\ UNCHANGED <<outer, now>>
    BY <1>2 DEF Cache!LookFurther, CacheInv
  <2>2. CASE born # 0 /\ born + Ttl > now
    <3>1. /\ lru' = Cache!With(e) /\ Cache!Served(born)
          /\ lookup' = [lookup EXCEPT ![c] = Cache!Idle]
      BY <1>2, <2>2 DEF Cache!LookFurther
    <3>2. /\ e \in CacheEntry /\ e.born = born /\ e.until = lookup[c].seen + Ttl
      BY <1>0, <2>1 DEF Cache!Entry, CacheEntry, Lookup
    <3>3. lookup[c].seen \in Nat
      BY <2>1 DEF Lookup
    <3> HIDE DEF e, born
    <3>4. /\ e.until <= e.born + Lifetimes * Ttl
          /\ now < born + Lifetimes * Ttl
      BY <1>0, <2>1, <2>2, <3>2, <3>3
    <3>5. LruOK(lru') /\ Len(lru') <= MaxEntries
      BY <2>1, <3>1, <3>2, <3>4, WithEntry
    <3>6. late' \in Nat /\ late' < Lifetimes
      BY <2>1, <3>1, <3>4, LifetimesPast
    <3>7. Cache!Idle \in Lookup /\ Cache!Idle.seen = 0 /\ Cache!Idle.at = "idle"
      BY DEF Cache!Idle, Lookup
    <3>8. /\ lookup' \in [Calls -> Lookup]
          /\ \A d \in Calls : /\ lookup'[d].seen <= now
                              /\ lookup'[d].at # "idle" => lookup'[d].key \in Keys
                              /\ lookup'[d].at = "store" => HasStore
      BY <1>0, <3>1, <3>7 DEF CacheInv
    <3>9. QED
      BY <2>1, <3>5, <3>6, <3>8 DEF CacheInv, LruOK, Lifetimes
  <2>3. CASE ~ (born # 0 /\ born + Ttl > now)
    <3>1. lookup' = [lookup EXCEPT ![c].at = "model"] /\ UNCHANGED <<lru, late>>
      BY <1>2, <2>3 DEF Cache!LookFurther
    <3>2. /\ lookup' \in [Calls -> Lookup]
          /\ \A d \in Calls : /\ lookup'[d].seen <= now
                              /\ lookup'[d].at # "idle" => lookup'[d].key \in Keys
                              /\ lookup'[d].at = "store" => HasStore
      BY <2>1, <3>1 DEF CacheInv, Lookup
    <3>3. QED
      BY <2>1, <3>1, <3>2 DEF CacheInv, Lifetimes
  <2>4. QED
    BY <2>2, <2>3
<1>3. ASSUME NEW c \in Calls, Cache!Model(c) PROVE CacheInv'
  <2> DEFINE e == Cache!Entry(lookup[c].key, now, now + Ttl)
             l == IF HasStore
                  THEN [at |-> "save", key |-> lookup[c].key, born |-> now, seen |-> 0]
                  ELSE Cache!Idle
  <2>1. /\ lookup[c].at = "model" /\ lookup[c].key \in Keys
        /\ lru' = Cache!With(e) /\ lookup' = [lookup EXCEPT ![c] = l]
        /\ UNCHANGED <<outer, now, late>>
    BY <1>3 DEF Cache!Model, CacheInv
  <2>2. e \in CacheEntry /\ e.born = now /\ e.until = now + Ttl
    BY <1>0, <2>1 DEF Cache!Entry, CacheEntry
  <2>3. l \in Lookup /\ l.seen = 0 /\ (l.at # "idle" => l.key \in Keys) /\ l.at # "store"
    BY <1>0, <2>1 DEF Cache!Idle, Lookup
  <2> HIDE DEF e, l
  <2>4. e.until <= e.born + Lifetimes * Ttl
    BY <1>0, <2>2
  <2>5. LruOK(lru') /\ Len(lru') <= MaxEntries
    BY <1>0, <2>1, <2>2, <2>4, WithEntry
  <2>6. /\ lookup' \in [Calls -> Lookup]
        /\ \A d \in Calls : /\ lookup'[d].seen <= now
                            /\ lookup'[d].at # "idle" => lookup'[d].key \in Keys
                            /\ lookup'[d].at = "store" => HasStore
    BY <1>0, <2>1, <2>3 DEF CacheInv
  <2>7. QED
    BY <2>1, <2>5, <2>6 DEF CacheInv, LruOK, Lifetimes
<1>4. ASSUME NEW c \in Calls, Cache!ModelFails(c) \/ Cache!Save(c) PROVE CacheInv'
  <2>1. /\ lookup' = [lookup EXCEPT ![c] = Cache!Idle] /\ UNCHANGED <<lru, now, late>>
        /\ outer' = outer \/ outer' = [outer EXCEPT ![lookup[c].key] = now]
    BY <1>4 DEF Cache!ModelFails, Cache!Save
  <2>2. Cache!Idle \in Lookup /\ Cache!Idle.seen = 0 /\ Cache!Idle.at = "idle"
    BY DEF Cache!Idle, Lookup
  <2>3. /\ lookup' \in [Calls -> Lookup]
        /\ \A d \in Calls : /\ lookup'[d].seen <= now
                            /\ lookup'[d].at # "idle" => lookup'[d].key \in Keys
                            /\ lookup'[d].at = "store" => HasStore
    BY <1>0, <2>1, <2>2 DEF CacheInv
  <2>4. outer' \in [Keys -> Nat] /\ \A k \in Keys : outer'[k] <= now
    BY <1>0, <2>1 DEF CacheInv
  <2>5. QED
    BY <2>1, <2>3, <2>4 DEF CacheInv, Lifetimes
<1>5. CASE Cache!Tick
  <2>1. now' = now + 1 /\ now < MaxTime /\ UNCHANGED <<lru, outer, lookup, late>>
    BY <1>5 DEF Cache!Tick
  <2>2. now' \in 1..MaxTime
    BY <1>0, <2>1
  <2>3. \A i \in DOMAIN lru : lru[i].born <= now'
    <3>1. \A i \in DOMAIN lru : lru[i] \in CacheEntry /\ lru[i].born <= now
      BY DEF CacheInv
    <3>2. \A i \in DOMAIN lru : lru[i].born \in Nat /\ lru[i].born <= now
      BY <3>1 DEF CacheEntry
    <3>3. QED
      BY <1>0, <2>1, <3>2
  <2>4. \A k \in Keys : outer[k] <= now'
    BY <1>0, <2>1 DEF CacheInv
  <2>5. \A c \in Calls : lookup[c].seen <= now'
    BY <1>0, <2>1 DEF CacheInv, Lookup
  <2>6. QED
    BY <2>1, <2>2, <2>3, <2>4, <2>5 DEF CacheInv, Lifetimes
<1>6. CASE UNCHANGED cacheVars
  BY <1>6 DEF cacheVars, CacheInv, Lifetimes
<1>7. QED
  BY <1>1, <1>2, <1>3, <1>4, <1>5, <1>6 DEF Cache!Next

LEMMA CacheHolds == ASSUME CacheConstants, CacheInv PROVE Cache!TypeOK /\ Cache!ServedInTime
<1>1. late \in 0..MaxTime
  BY DEF CacheConstants, CacheInv, Lifetimes
<1>2. late < (IF HasStore THEN 2 ELSE 1)
  BY DEF CacheInv, Lifetimes
<1>3. Cache!IsInjective([i \in DOMAIN lru |-> lru[i].key])
  BY DEF CacheInv, Cache!IsInjective
<1>4. QED
  BY <1>1, <1>2, <1>3 DEF CacheInv, Cache!TypeOK, Cache!ServedInTime

-----------------------------------------------------------------------------
(* The connection.  An endpoint that revokes has taken the newest refresh     *)
(* token from one call only, so at most one call is between the endpoint and  *)
(* the store, and what others have sent meanwhile, whether they still wait    *)
(* or gave up, is older.  Nothing is said of it once a token has been lost.   *)

RefreshStages == {"idle", "sent", "answered", "refused", "saving"}
Busy(c) == refreshing[c].at \in {"answered", "saving"}

\* An answer on its way is one, and what is saved has a refresh token.
Filled(l) ==
  /\ l.at \in {"answered", "saving"} => l.access > 0
  /\ l.at = "saving" => l.refresh > 0

OAuthShape ==
  /\ rotates \in BOOLEAN /\ issued \in 1..MaxIssued /\ expired \in 0..MaxIssued
  /\ tokens \in [access : 1..MaxIssued, refresh : 1..MaxIssued]
  /\ stored \in [access : 1..MaxIssued, refresh : 1..MaxIssued]
  /\ refreshing \in [Callers -> [at : RefreshStages, access : 0..MaxIssued,
                                 refresh : 0..MaxIssued]]
  /\ \A c \in Callers : Filled(refreshing[c])
  /\ accepted \subseteq 1..MaxIssued /\ adrift \subseteq 0..MaxIssued
  /\ unsaved \in BOOLEAN /\ lost \in BOOLEAN

\* An endpoint that does not revoke answers without a refresh token.
OneForAll ==
  /\ accepted = {1} /\ tokens.refresh = 1 /\ stored.refresh = 1
  /\ \A c \in Callers :
       /\ refreshing[c].at = "answered" => refreshing[c].refresh = 0
       /\ refreshing[c].at = "saving" => refreshing[c].refresh = 1

Newest ==
  /\ accepted = {issued}
  /\ tokens.access = tokens.refresh /\ stored.access = stored.refresh
  /\ tokens.access <= issued /\ expired <= tokens.access
  /\ (\A c \in Callers : ~ Busy(c)) =>
       tokens.access = issued /\ (~ unsaved => stored.access = issued)
  /\ \A c, d \in Callers : Busy(c) /\ Busy(d) => c = d
  /\ \A c \in Callers : refreshing[c].at = "sent" => refreshing[c].refresh <= issued
  /\ \A c, d \in Callers :
       refreshing[c].at = "sent" /\ Busy(d) => refreshing[c].refresh < issued
  /\ \A r \in adrift : r <= issued /\ \A c \in Callers : Busy(c) => r < issued
  /\ \A c \in Callers : Busy(c) => /\ refreshing[c].access = issued
                                  /\ refreshing[c].refresh = issued
                                  /\ expired < issued
  /\ \A c \in Callers : refreshing[c].at = "answered" => tokens.access < issued
  /\ \A c \in Callers : refreshing[c].at = "saving" => tokens.access = issued

OAuthInv ==
  /\ OAuthShape
  /\ ~ rotates => OneForAll
  /\ rotates /\ ~ lost => Newest

OAuthConstants == MaxIssued \in Nat \ {0} /\ SavesInTime

LEMMA OAuthInvInit == ASSUME OAuthConstants, OAuth!Init PROVE OAuthInv
<1> USE DEF OAuthConstants
<1>1. /\ tokens = [access |-> 1, refresh |-> 1] /\ stored = [access |-> 1, refresh |-> 1]
      /\ expired = 0 /\ rotates \in BOOLEAN /\ accepted = {1} /\ issued = 1
      /\ adrift = {} /\ unsaved = FALSE /\ lost = FALSE
      /\ refreshing = [c \in Callers |-> OAuth!Idle]
  BY DEF OAuth!Init, OAuth!Pair
<1>2. OAuth!Idle = [at |-> "idle", access |-> 0, refresh |-> 0]
  BY DEF OAuth!Idle
<1>3. refreshing \in [Callers -> [at : RefreshStages, access : 0..MaxIssued, refresh : 0..MaxIssued]]
  BY <1>1, <1>2 DEF RefreshStages
<1>4. \A c \in Callers : refreshing[c].at = "idle" /\ ~ Busy(c)
  BY <1>1, <1>2 DEF Busy
<1>41. \A c \in Callers : Filled(refreshing[c])
  BY <1>4 DEF Filled
<1>5. OAuthShape
  <2>1. 1 \in 1..MaxIssued /\ 0 \in 0..MaxIssued
    OBVIOUS
  <2>2. accepted \subseteq 1..MaxIssued /\ adrift \subseteq 0..MaxIssued
    BY <1>1, <2>1
  <2>3. QED
    BY <1>1, <1>3, <1>41, <2>1, <2>2 DEF OAuthShape
<1>6. OneForAll /\ Newest
  BY <1>1, <1>4 DEF OneForAll, Newest
<1>7. QED
  BY <1>5, <1>6 DEF OAuthInv

\* What a call becomes, and the others stay.
RefreshCall == [at : RefreshStages, access : 0..MaxIssued, refresh : 0..MaxIssued]

Asking(l, r) == [l EXCEPT !.at = "sent", !.refresh = r]

LEMMA AskingFields ==
  ASSUME NEW S, NEW A, NEW l \in [at : S, access : A, refresh : A], NEW r \in A, "sent" \in S
  PROVE  /\ Asking(l, r) \in [at : S, access : A, refresh : A]
         /\ Asking(l, r).at = "sent" /\ Asking(l, r).refresh = r
BY DEF Asking

LEMMA OAuthStep ==
  ASSUME OAuthConstants, OAuthInv, [OAuth!Next]_oauthVars
  PROVE  OAuthInv'
<1> USE DEF OAuthConstants
<1>0. /\ OAuthShape /\ (~ rotates => OneForAll) /\ (rotates /\ ~ lost => Newest)
      /\ refreshing \in [Callers -> RefreshCall]
  BY DEF OAuthInv, OAuthShape, RefreshCall
<1>1. ASSUME NEW c \in Callers, OAuth!Ask(c) PROVE OAuthInv'
  <2> DEFINE l == Asking(OAuth!Idle, tokens.refresh)
  <2>1. /\ refreshing[c].at = "idle" /\ tokens.access <= expired
        /\ refreshing' = [refreshing EXCEPT ![c] = l]
        /\ UNCHANGED <<tokens, stored, expired, rotates, accepted, issued, adrift, unsaved, lost>>
    BY <1>1 DEF OAuth!Ask, OAuth!IsExpired, Asking
  <2>2. l \in RefreshCall /\ l.at = "sent" /\ l.refresh = tokens.refresh
    <3>1. OAuth!Idle \in RefreshCall /\ tokens.refresh \in 0..MaxIssued /\ "sent" \in RefreshStages
      BY <1>0 DEF OAuth!Idle, OAuthShape, RefreshCall, RefreshStages
    <3> DEFINE A == 0..MaxIssued
               i == OAuth!Idle
               r == tokens.refresh
    <3>2. i \in [at : RefreshStages, access : A, refresh : A] /\ r \in A /\ "sent" \in RefreshStages
      BY <3>1 DEF RefreshCall
    <3>3. RefreshCall = [at : RefreshStages, access : A, refresh : A]
      BY DEF RefreshCall
    <3> HIDE DEF A, i, r
    <3>4. /\ Asking(i, r) \in [at : RefreshStages, access : A, refresh : A]
          /\ Asking(i, r).at = "sent" /\ Asking(i, r).refresh = r
      BY <3>2, AskingFields
    <3>5. QED
      BY <3>3, <3>4 DEF i, r
  <2> HIDE DEF l
  <2>3. /\ refreshing' \in [Callers -> RefreshCall] /\ refreshing'[c] = l
        /\ \A d \in Callers : d # c => refreshing'[d] = refreshing[d]
    BY <1>0, <2>1, <2>2
  <2>4. \A d \in Callers : /\ Busy(d)' <=> Busy(d) /\ (Busy(d)' => d # c)
    BY <2>1, <2>2, <2>3 DEF Busy
  <2>5. OAuthShape'
    <3>1. Filled(l)
      BY <2>2 DEF Filled
    <3>2. QED
      BY <1>0, <2>1, <2>3, <3>1 DEF OAuthShape, RefreshCall
  <2>6. ~ rotates => OneForAll'
    BY <1>0, <2>1, <2>2, <2>3 DEF OneForAll
  <2>7. ASSUME rotates, ~ lost PROVE Newest'
    <3>1. \A d \in Callers : Busy(d) => tokens.refresh < issued
      BY <1>0, <2>1, <2>7 DEF Newest, OAuthShape, Busy
    <3>2. QED
      BY <1>0, <2>1, <2>2, <2>3, <2>4, <2>7, <3>1 DEF Newest, OAuthShape
  <2>8. QED
    BY <2>1, <2>5, <2>6, <2>7 DEF OAuthInv
<1>2. ASSUME NEW c \in Callers, OAuth!Endpoint(c) PROVE OAuthInv'
  <2>1. /\ refreshing[c].at = "sent" /\ issued < MaxIssued
        /\ UNCHANGED <<tokens, stored, expired, rotates, adrift, unsaved, lost>>
    BY <1>2 DEF OAuth!Endpoint
  <2>2. CASE refreshing[c].refresh \in accepted
    <3> DEFINE l == [at |-> "answered", access |-> issued + 1,
                     refresh |-> IF rotates THEN issued + 1 ELSE 0]
    <3>1. /\ issued' = issued + 1 /\ refreshing' = [refreshing EXCEPT ![c] = l]
          /\ accepted' = IF rotates THEN {issued + 1} ELSE accepted
      BY <1>2, <2>2 DEF OAuth!Endpoint
    <3>2. /\ l \in RefreshCall /\ l.at = "answered" /\ l.access = issued + 1
          /\ l.refresh = IF rotates THEN issued + 1 ELSE 0
      BY <1>0, <2>1 DEF OAuthShape, RefreshCall, RefreshStages
    <3> HIDE DEF l
    <3>3. /\ refreshing' \in [Callers -> RefreshCall] /\ refreshing'[c] = l
          /\ \A d \in Callers : d # c => refreshing'[d] = refreshing[d]
      BY <1>0, <3>1, <3>2
    <3>4. Busy(c)' /\ \A d \in Callers : d # c => (Busy(d)' <=> Busy(d))
      BY <3>2, <3>3 DEF Busy
    <3>5. issued \in 1..MaxIssued /\ issued' \in 1..MaxIssued
      BY <1>0, <2>1, <3>1 DEF OAuthShape
    <3>6. OAuthShape'
      <4>1. accepted' \subseteq 1..MaxIssued
        BY <1>0, <3>1, <3>5 DEF OAuthShape
      <4>2. Filled(l)
        BY <3>2, <3>5 DEF Filled
      <4>3. QED
        BY <1>0, <2>1, <3>1, <3>3, <3>5, <4>1, <4>2 DEF OAuthShape, RefreshCall
    <3>7. ~ rotates => OneForAll'
      BY <1>0, <2>1, <3>1, <3>2, <3>3 DEF OneForAll
    <3>8. ASSUME rotates, ~ lost PROVE Newest'
      <4>1. refreshing[c].refresh = issued
        BY <1>0, <2>2, <3>8 DEF Newest
      <4>2. \A d \in Callers : ~ Busy(d)
        BY <1>0, <2>1, <3>5, <3>8, <4>1 DEF Newest
      <4>3. tokens.access = issued /\ expired <= issued
        BY <1>0, <3>8, <4>2 DEF Newest
      <4>4. \A d \in Callers : d # c => ~ Busy(d)' /\ refreshing'[d].at # "answered"
                                        /\ refreshing'[d].at # "saving"
        BY <3>3, <3>4, <4>2 DEF Busy
      <4>5. \A d \in Callers : refreshing'[d].at = "sent" => refreshing'[d].refresh < issued + 1
        BY <1>0, <3>2, <3>3, <3>5, <3>8 DEF Newest, RefreshCall
      <4>6. expired \in Int
        BY <1>0 DEF OAuthShape
      <4>7. \A r \in adrift : r \in Int /\ r <= issued /\ r < issued + 1
        BY <1>0, <3>5, <3>8 DEF Newest, OAuthShape
      <4>8. QED
        <5>1. /\ accepted' = {issued'} /\ tokens'.access = tokens'.refresh
              /\ stored'.access = stored'.refresh
              /\ tokens'.access <= issued' /\ expired' <= tokens'.access
              /\ ~ \A d \in Callers : ~ Busy(d)'
          BY <1>0, <2>1, <3>1, <3>4, <3>5, <3>8, <4>3, <4>6 DEF Newest
        <5>2. /\ \A d, e \in Callers : Busy(d)' /\ Busy(e)' => d = e
              /\ \A d \in Callers : /\ refreshing'[d].at = "saving" => tokens'.access = issued'
                                    /\ refreshing'[d].at = "answered" => tokens'.access < issued'
          BY <2>1, <3>1, <3>2, <3>3, <3>5, <4>3, <4>4
        <5>3. \A d \in Callers : Busy(d)' => /\ refreshing'[d].access = issued'
                                             /\ refreshing'[d].refresh = issued'
                                             /\ expired' < issued'
          BY <2>1, <3>1, <3>2, <3>3, <3>5, <3>8, <4>3, <4>4, <4>6
        <5>4. \A d \in Callers : refreshing'[d].at = "sent" =>
                 refreshing'[d].refresh <= issued' /\ refreshing'[d].refresh < issued'
          BY <1>0, <3>1, <3>3, <3>5, <4>5 DEF RefreshCall
        <5>5. \A r \in adrift' : r <= issued' /\ r < issued'
          BY <2>1, <3>1, <4>7
        <5>6. QED
          BY <5>1, <5>2, <5>3, <5>4, <5>5 DEF Newest
    <3>9. QED
      BY <2>1, <3>6, <3>7, <3>8 DEF OAuthInv
  <2>3. CASE refreshing[c].refresh \notin accepted
    <3> DEFINE l == [refreshing[c] EXCEPT !.at = "refused"]
    <3>1. refreshing' = [refreshing EXCEPT ![c] = l] /\ UNCHANGED <<issued, accepted>>
      BY <1>2, <2>3 DEF OAuth!Endpoint
    <3>2. l \in RefreshCall /\ l.at = "refused"
      BY <1>0 DEF RefreshCall, RefreshStages
    <3> HIDE DEF l
    <3>3. /\ refreshing' \in [Callers -> RefreshCall] /\ refreshing'[c] = l
          /\ \A d \in Callers : d # c => refreshing'[d] = refreshing[d]
      BY <1>0, <3>1, <3>2
    <3>4. \A d \in Callers : /\ Busy(d)' <=> Busy(d) /\ (Busy(d)' => d # c)
      BY <2>1, <3>2, <3>3 DEF Busy
    <3>5. OAuthShape'
      <4>1. Filled(l)
        BY <3>2 DEF Filled
      <4>2. QED
        BY <1>0, <2>1, <3>1, <3>3, <4>1 DEF OAuthShape, RefreshCall
    <3>6. ~ rotates => OneForAll'
      BY <1>0, <2>1, <3>1, <3>2, <3>3 DEF OneForAll
    <3>7. rotates /\ ~ lost => Newest'
      BY <1>0, <2>1, <3>1, <3>2, <3>3, <3>4 DEF Newest
    <3>8. QED
      BY <2>1, <3>5, <3>6, <3>7 DEF OAuthInv
  <2>4. QED
    BY <2>2, <2>3
<1>3. ASSUME NEW c \in Callers, OAuth!Throw(c) PROVE OAuthInv'
  <2> DEFINE l == OAuth!Idle
  <2>1. /\ refreshing[c].at = "refused" /\ refreshing' = [refreshing EXCEPT ![c] = l]
        /\ UNCHANGED <<tokens, stored, expired, rotates, accepted, issued, adrift, unsaved, lost>>
    BY <1>3 DEF OAuth!Throw
  <2>2. l \in RefreshCall /\ l.at = "idle"
    BY DEF OAuth!Idle, RefreshCall, RefreshStages
  <2> HIDE DEF l
  <2>3. /\ refreshing' \in [Callers -> RefreshCall] /\ refreshing'[c] = l
        /\ \A d \in Callers : d # c => refreshing'[d] = refreshing[d]
    BY <1>0, <2>1, <2>2
  <2>4. \A d \in Callers : /\ Busy(d)' <=> Busy(d) /\ (Busy(d)' => d # c)
    BY <2>1, <2>2, <2>3 DEF Busy
  <2>5. OAuthShape'
    <3>1. Filled(l)
      BY <2>2 DEF Filled
    <3>2. QED
      BY <1>0, <2>1, <2>3, <3>1 DEF OAuthShape, RefreshCall
  <2>6. ~ rotates => OneForAll'
    BY <1>0, <2>1, <2>2, <2>3 DEF OneForAll
  <2>7. rotates /\ ~ lost => Newest'
    BY <1>0, <2>1, <2>2, <2>3, <2>4 DEF Newest
  <2>8. QED
    BY <2>1, <2>5, <2>6, <2>7 DEF OAuthInv
<1>4. ASSUME NEW c \in Callers, OAuth!Receive(c) PROVE OAuthInv'
  <2> DEFINE a == refreshing[c].access
             r == IF refreshing[c].refresh = 0 THEN tokens.refresh ELSE refreshing[c].refresh
             l == [at |-> "saving", access |-> a, refresh |-> r]
  <2>1. /\ refreshing[c].at = "answered"
        /\ tokens' = [access |-> a, refresh |-> r]
        /\ refreshing' = [refreshing EXCEPT ![c] = l]
        /\ UNCHANGED <<stored, expired, rotates, accepted, issued, adrift, unsaved, lost>>
    BY <1>4 DEF OAuth!Receive, OAuth!Kept, OAuth!Pair
  <2>2. a \in 1..MaxIssued /\ r \in 1..MaxIssued
    <3>1. refreshing[c].access \in 0..MaxIssued /\ refreshing[c].refresh \in 0..MaxIssued
      BY <1>0 DEF RefreshCall
    <3>2. refreshing[c].access > 0 /\ tokens.refresh \in 1..MaxIssued
      BY <1>0, <2>1 DEF OAuthShape, Filled
    <3>3. QED
      BY <3>1, <3>2
  <2>3. /\ ~ rotates => r = 1
        /\ rotates /\ ~ lost => a = issued /\ r = issued /\ expired < issued
    BY <1>0, <2>1, <2>2 DEF OneForAll, Newest, Busy, OAuthShape
  <2> HIDE DEF a, r
  <2>4. l \in RefreshCall /\ l.at = "saving" /\ l.access = a /\ l.refresh = r
    BY <2>2 DEF RefreshCall, RefreshStages
  <2>5. tokens' \in [access : 1..MaxIssued, refresh : 1..MaxIssued]
        /\ tokens'.access = a /\ tokens'.refresh = r
    BY <2>1, <2>2
  <2> HIDE DEF l
  <2>6. /\ refreshing' \in [Callers -> RefreshCall] /\ refreshing'[c] = l
        /\ \A d \in Callers : d # c => refreshing'[d] = refreshing[d]
    BY <1>0, <2>1, <2>4
  <2>7. Busy(c) /\ \A d \in Callers : Busy(d)' <=> Busy(d)
    BY <2>1, <2>4, <2>6 DEF Busy
  <2>8. OAuthShape'
    <3>1. Filled(l)
      BY <2>2, <2>4 DEF Filled
    <3>2. QED
      BY <1>0, <2>1, <2>5, <2>6, <3>1 DEF OAuthShape, RefreshCall
  <2>9. ~ rotates => OneForAll'
    BY <1>0, <2>1, <2>3, <2>4, <2>5, <2>6 DEF OneForAll
  <2>10. ASSUME rotates, ~ lost PROVE Newest'
    <3>1. a = issued /\ r = issued /\ expired < issued /\ issued \in Nat /\ expired \in Nat
      BY <1>0, <2>3, <2>10 DEF OAuthShape
    <3>2. \A d \in Callers : d # c => ~ Busy(d)' /\ refreshing'[d].at # "answered"
                                      /\ refreshing'[d].at # "saving"
      BY <1>0, <2>6, <2>7, <2>10 DEF Newest, Busy
    <3>3. QED
      BY <1>0, <2>1, <2>4, <2>5, <2>6, <2>7, <2>10, <3>1, <3>2 DEF Newest
  <2>11. QED
    BY <2>1, <2>8, <2>9, <2>10 DEF OAuthInv
<1>5. ASSUME NEW c \in Callers, OAuth!Saved(c) PROVE OAuthInv'
  <2> DEFINE l == OAuth!Idle
             a == refreshing[c].access
             r == refreshing[c].refresh
  <2>1. /\ refreshing[c].at = "saving" /\ refreshing' = [refreshing EXCEPT ![c] = l]
        /\ stored' = [access |-> a, refresh |-> r] /\ unsaved' = FALSE
        /\ UNCHANGED <<tokens, expired, rotates, accepted, issued, adrift, lost>>
    BY <1>5 DEF OAuth!Saved, OAuth!Pair
  <2>2. l \in RefreshCall /\ l.at = "idle"
    BY DEF OAuth!Idle, RefreshCall, RefreshStages
  <2> HIDE DEF l
  <2>3. /\ refreshing' \in [Callers -> RefreshCall] /\ refreshing'[c] = l
        /\ \A d \in Callers : d # c => refreshing'[d] = refreshing[d]
    BY <1>0, <2>1, <2>2
  <2>4. Busy(c) /\ \A d \in Callers : Busy(d)' <=> (Busy(d) /\ d # c)
    BY <2>1, <2>2, <2>3 DEF Busy
  <2>5. /\ ~ rotates => r = 1
        /\ rotates /\ ~ lost => a = issued /\ r = issued
    BY <1>0, <2>1, <2>4 DEF OneForAll, Newest
  <2>6. a \in 1..MaxIssued /\ r \in 1..MaxIssued
    <3>1. refreshing[c].access \in 0..MaxIssued /\ refreshing[c].refresh \in 0..MaxIssued
      BY <1>0 DEF RefreshCall
    <3>2. refreshing[c].access > 0 /\ refreshing[c].refresh > 0
      BY <1>0, <2>1 DEF OAuthShape, Filled
    <3>3. QED
      BY <3>1, <3>2
  <2> HIDE DEF a, r
  <2>7. /\ stored' \in [access : 1..MaxIssued, refresh : 1..MaxIssued]
        /\ stored'.access = a /\ stored'.refresh = r
    BY <2>1, <2>6
  <2>8. OAuthShape'
    <3>1. Filled(l)
      BY <2>2 DEF Filled
    <3>2. QED
      BY <1>0, <2>1, <2>3, <2>7, <3>1 DEF OAuthShape, RefreshCall
  <2>9. ~ rotates => OneForAll'
    BY <1>0, <2>1, <2>2, <2>3, <2>5, <2>7 DEF OneForAll
  <2>10. ASSUME rotates, ~ lost PROVE Newest'
    <3>1. tokens.access = issued /\ a = issued /\ r = issued
      BY <1>0, <2>1, <2>5, <2>10 DEF Newest
    <3>2. \A d \in Callers : ~ Busy(d)' /\ refreshing'[d].at # "answered"
                             /\ refreshing'[d].at # "saving"
      BY <1>0, <2>4, <2>10 DEF Newest, Busy
    <3>3. QED
      BY <1>0, <2>1, <2>2, <2>3, <2>7, <2>10, <3>1, <3>2 DEF Newest
  <2>11. QED
    BY <2>1, <2>8, <2>9, <2>10 DEF OAuthInv
<1>6. CASE OAuth!Expire
  <2>1. /\ \A c \in Callers : refreshing[c].at # "saving"
        /\ expired' = tokens.access
        /\ UNCHANGED <<tokens, stored, refreshing, rotates, accepted, issued, adrift, unsaved, lost>>
    BY <1>6 DEF OAuth!Expire
  <2>2. OAuthShape'
    BY <1>0, <2>1 DEF OAuthShape
  <2>3. ~ rotates => OneForAll'
    BY <1>0, <2>1 DEF OneForAll
  <2>4. rotates /\ ~ lost => Newest'
    BY <1>0, <2>1 DEF Newest, Busy, OAuthShape
  <2>5. QED
    BY <2>1, <2>2, <2>3, <2>4 DEF OAuthInv
<1>7. CASE OAuth!Restart
  <2>1. /\ tokens' = stored /\ unsaved' = FALSE
        /\ refreshing' = [c \in Callers |-> OAuth!Idle]
        /\ adrift' = adrift \cup {refreshing[c].refresh : c \in {d \in Callers : refreshing[d].at = "sent"}}
        /\ lost' = (lost \/ (rotates /\ (unsaved \/ \E c \in Callers : Busy(c))))
        /\ UNCHANGED <<stored, expired, rotates, accepted, issued>>
    BY <1>7 DEF OAuth!Restart, Busy
  <2>2. OAuth!Idle \in RefreshCall /\ OAuth!Idle.at = "idle"
    BY DEF OAuth!Idle, RefreshCall, RefreshStages
  <2>3. refreshing' \in [Callers -> RefreshCall] /\ \A d \in Callers : refreshing'[d].at = "idle"
    BY <2>1, <2>2
  <2>4. OAuthShape'
    <3>1. adrift' \subseteq 0..MaxIssued
      BY <1>0, <2>1 DEF OAuthShape, RefreshCall
    <3>2. lost' \in BOOLEAN /\ unsaved' \in BOOLEAN
      BY <2>1
    <3>3. \A d \in Callers : Filled(refreshing'[d])
      BY <2>3 DEF Filled
    <3>4. QED
      BY <1>0, <2>1, <2>3, <3>1, <3>2, <3>3 DEF OAuthShape, RefreshCall
  <2>5. ~ rotates => OneForAll'
    BY <1>0, <2>1, <2>3 DEF OneForAll
  <2>6. ASSUME rotates, ~ lost' PROVE Newest'
    <3>1. /\ Newest /\ ~ unsaved /\ \A c \in Callers : ~ Busy(c)
      BY <1>0, <2>1, <2>6
    <3>2. tokens.access = issued /\ stored.access = issued
      BY <3>1 DEF Newest
    <3>3. \A r \in adrift' : r <= issued
      BY <2>1, <3>1 DEF Newest
    <3>4. \A c \in Callers : ~ Busy(c)'
      BY <2>3 DEF Busy
    <3>5. QED
      BY <2>1, <2>3, <3>1, <3>2, <3>3, <3>4 DEF Newest
  <2>7. QED
    BY <2>1, <2>4, <2>5, <2>6 DEF OAuthInv
<1>8. ASSUME NEW c \in Callers, OAuth!GivesUp(c) PROVE OAuthInv'
  <2> DEFINE l == OAuth!Idle
  <2>1. /\ refreshing[c].at \in {"sent", "answered"}
        /\ refreshing' = [refreshing EXCEPT ![c] = l]
        /\ adrift' = IF refreshing[c].at = "sent" THEN adrift \cup {refreshing[c].refresh} ELSE adrift
        /\ lost' = (lost \/ (rotates /\ refreshing[c].at = "answered"))
        /\ UNCHANGED <<tokens, stored, expired, rotates, accepted, issued, unsaved>>
    BY <1>8 DEF OAuth!GivesUp
  <2>2. l \in RefreshCall /\ l.at = "idle"
    BY DEF OAuth!Idle, RefreshCall, RefreshStages
  <2> HIDE DEF l
  <2>3. /\ refreshing' \in [Callers -> RefreshCall] /\ refreshing'[c] = l
        /\ \A d \in Callers : d # c => refreshing'[d] = refreshing[d]
    BY <1>0, <2>1, <2>2
  <2>4. \A d \in Callers : Busy(d)' <=> (Busy(d) /\ d # c)
    BY <2>2, <2>3 DEF Busy
  <2>5. OAuthShape'
    <3>1. adrift' \subseteq 0..MaxIssued
      BY <1>0, <2>1 DEF OAuthShape, RefreshCall
    <3>2. lost' \in BOOLEAN
      BY <2>1
    <3>3. Filled(l)
      BY <2>2 DEF Filled
    <3>4. QED
      BY <1>0, <2>1, <2>3, <3>1, <3>2, <3>3 DEF OAuthShape, RefreshCall
  <2>6. ~ rotates => OneForAll'
    BY <1>0, <2>1, <2>2, <2>3 DEF OneForAll
  <2>7. ASSUME rotates, ~ lost' PROVE Newest'
    <3>1. Newest /\ refreshing[c].at = "sent"
      BY <1>0, <2>1, <2>7
    <3>2. \A d \in Callers : Busy(d)' <=> Busy(d)
      BY <2>4, <3>1 DEF Busy
    <3>3. /\ refreshing[c].refresh <= issued
          /\ \A d \in Callers : Busy(d) => refreshing[c].refresh < issued
      BY <3>1 DEF Newest
    <3>4. \A r \in adrift' : r <= issued /\ \A d \in Callers : Busy(d) => r < issued
      BY <2>1, <3>1, <3>3 DEF Newest
    <3>5. QED
      BY <2>1, <2>2, <2>3, <2>4, <3>1, <3>2, <3>4 DEF Newest
  <2>8. QED
    BY <2>1, <2>5, <2>6, <2>7 DEF OAuthInv
<1>9. ASSUME NEW r \in adrift, OAuth!Adrift(r) PROVE OAuthInv'
  <2>1. /\ adrift' = adrift \ {r} /\ issued < MaxIssued
        /\ UNCHANGED <<tokens, stored, expired, refreshing, rotates, unsaved>>
    BY <1>9 DEF OAuth!Adrift
  <2>2. CASE rotates /\ r \in accepted
    <3>1. issued' = issued + 1 /\ accepted' = {issued + 1} /\ lost' = TRUE
      BY <1>9, <2>2 DEF OAuth!Adrift
    <3>2. issued' \in 1..MaxIssued
      BY <1>0, <2>1, <3>1 DEF OAuthShape
    <3>3. OAuthShape'
      BY <1>0, <2>1, <3>1, <3>2 DEF OAuthShape
    <3>4. QED
      BY <2>1, <2>2, <3>1, <3>3 DEF OAuthInv
  <2>3. CASE ~ (rotates /\ r \in accepted)
    <3>1. UNCHANGED <<issued, accepted, lost>>
      BY <1>9, <2>3 DEF OAuth!Adrift
    <3>2. OAuthShape'
      BY <1>0, <2>1, <3>1 DEF OAuthShape
    <3>3. ~ rotates => OneForAll'
      BY <1>0, <2>1, <3>1 DEF OneForAll
    <3>4. rotates /\ ~ lost => Newest'
      BY <1>0, <2>1, <3>1 DEF Newest, Busy
    <3>5. QED
      BY <2>1, <3>1, <3>2, <3>3, <3>4 DEF OAuthInv
  <2>4. QED
    BY <2>2, <2>3
<1>10. ASSUME NEW c \in Callers, OAuth!SaveFails(c) PROVE OAuthInv'
  <2> DEFINE l == OAuth!Idle
  <2>1. /\ refreshing[c].at = "saving" /\ refreshing' = [refreshing EXCEPT ![c] = l]
        /\ unsaved' = TRUE
        /\ UNCHANGED <<tokens, stored, expired, rotates, accepted, issued, adrift, lost>>
    BY <1>10 DEF OAuth!SaveFails
  <2>2. l \in RefreshCall /\ l.at = "idle"
    BY DEF OAuth!Idle, RefreshCall, RefreshStages
  <2> HIDE DEF l
  <2>3. /\ refreshing' \in [Callers -> RefreshCall] /\ refreshing'[c] = l
        /\ \A d \in Callers : d # c => refreshing'[d] = refreshing[d]
    BY <1>0, <2>1, <2>2
  <2>4. Busy(c) /\ \A d \in Callers : Busy(d)' <=> (Busy(d) /\ d # c)
    BY <2>1, <2>2, <2>3 DEF Busy
  <2>5. OAuthShape'
    <3>1. Filled(l)
      BY <2>2 DEF Filled
    <3>2. QED
      BY <1>0, <2>1, <2>3, <3>1 DEF OAuthShape, RefreshCall
  <2>6. ~ rotates => OneForAll'
    BY <1>0, <2>1, <2>2, <2>3 DEF OneForAll
  <2>7. ASSUME rotates, ~ lost PROVE Newest'
    <3>1. tokens.access = issued
      BY <1>0, <2>1, <2>7 DEF Newest
    <3>2. \A d \in Callers : ~ Busy(d)' /\ refreshing'[d].at # "answered"
                             /\ refreshing'[d].at # "saving"
      BY <1>0, <2>4, <2>7 DEF Newest, Busy
    <3>3. QED
      BY <1>0, <2>1, <2>2, <2>3, <2>7, <3>1, <3>2 DEF Newest
  <2>8. QED
    BY <2>1, <2>5, <2>6, <2>7 DEF OAuthInv
<1>11. CASE UNCHANGED oauthVars
  BY <1>0, <1>11 DEF oauthVars, OAuthInv, OAuthShape, OneForAll, Newest, Busy
<1>12. QED
  BY <1>1, <1>2, <1>3, <1>4, <1>5, <1>6, <1>7, <1>8, <1>9, <1>10, <1>11 DEF OAuth!Next

LEMMA OAuthHolds == ASSUME OAuthConstants, OAuthInv PROVE OAuth!TypeOK /\ OAuth!StaysLoggedIn
<1>1. OAuth!TypeOK
  BY DEF OAuthConstants, OAuthInv, OAuthShape, OneForAll, Newest, OAuth!TypeOK
<1>2. OAuth!StaysLoggedIn
  BY DEF OAuthInv, OAuthShape, OneForAll, Newest, Busy, OAuth!StaysLoggedIn
<1>3. QED
  BY <1>1, <1>2

-----------------------------------------------------------------------------
(* The tracer.  A span is in one place, and each step moves as many as it     *)
(* counts.  A redactor that throws and a refusal that is not counted are the  *)
(* two ways to lose one, which the assumptions exclude.                       *)

SpanConstants ==
  /\ IsFiniteSet(Spans) /\ MaxBuffer \in Nat \ {0} /\ MaxPending \in Nat
  /\ Redactor = "none" /\ Answers \subseteq {"ok", "network"}

NoTwice(q) == \A i, j \in DOMAIN q : q[i] = q[j] => i = j

SpanPlaces ==
  /\ buffer \in Seq(Spans) /\ batch \in Seq(Spans)
  /\ NoTwice(buffer) /\ NoTwice(batch)
  /\ \A i \in DOMAIN buffer : buffer[i] \in ended /\ buffer[i] \notin delivered
  /\ \A j \in DOMAIN batch : batch[j] \in ended /\ batch[j] \notin delivered
  /\ \A i \in DOMAIN buffer, j \in DOMAIN batch : buffer[i] # batch[j]

SpanInv ==
  /\ ended \subseteq Spans /\ delivered \subseteq ended
  /\ SpanPlaces /\ Len(buffer) <= MaxBuffer
  /\ dropped \in Nat /\ ~ broken /\ stopped \in BOOLEAN
  /\ pending \in 0..(MaxPending + 1) /\ (~ stopped => pending <= MaxPending)
  /\ Cardinality(ended) = Len(buffer) + Len(batch) + Cardinality(delivered) + dropped

LEMMA SpanInvInit == ASSUME SpanConstants, Tracer!Init PROVE SpanInv
<1>1. Cardinality({}) = 0
  BY FS_EmptySet
<1>2. << >> \in Seq(Spans) /\ Len(<< >>) = 0 /\ DOMAIN << >> = {}
  OBVIOUS
<1>3. /\ ended = {} /\ delivered = {} /\ buffer = << >> /\ batch = << >>
      /\ pending = 0 /\ broken = FALSE /\ stopped = FALSE /\ dropped = 0
  BY DEF Tracer!Init
<1>4. SpanPlaces
  BY <1>2, <1>3 DEF SpanPlaces, NoTwice
<1>5. /\ Len(buffer) = 0 /\ Len(batch) = 0 /\ Cardinality(ended) = 0 /\ Cardinality(delivered) = 0
  BY <1>1, <1>2, <1>3
<1>6. /\ Len(buffer) <= MaxBuffer /\ pending \in 0..(MaxPending + 1) /\ pending <= MaxPending
      /\ dropped \in Nat
  BY <1>3, <1>5 DEF SpanConstants
<1>7. Cardinality(ended) = Len(buffer) + Len(batch) + Cardinality(delivered) + dropped
  BY <1>3, <1>5
<1>8. ended \subseteq Spans /\ delivered \subseteq ended /\ ~ broken /\ stopped \in BOOLEAN
  BY <1>3
<1>9. QED
  BY <1>4, <1>6, <1>7, <1>8 DEF SpanInv

\* A sequence that holds nothing twice has as many elements as places.
LEMMA CountOfPlaces ==
  ASSUME NEW S, NEW q \in Seq(S), NoTwice(q)
  PROVE  IsFiniteSet(Elements(q)) /\ Cardinality(Elements(q)) = Len(q)
<1> DEFINE n == Len(q)
           f == [i \in 1..n |-> q[i]]
<1>1. n \in Nat /\ DOMAIN q = 1..n
  OBVIOUS
<1>2. IsFiniteSet(1..n) /\ Cardinality(1..n) = n
  BY <1>1, FS_Interval
<1>3. f \in Bijection(1..n, Elements(q))
  <2>1. f \in [1..n -> Elements(q)]
    BY <1>1 DEF Elements
  <2>2. \A i, j \in 1..n : f[i] = f[j] => i = j
    BY <1>1 DEF NoTwice
  <2>3. \A x \in Elements(q) : \E i \in 1..n : f[i] = x
    BY <1>1 DEF Elements
  <2> HIDE DEF f, n
  <2>4. QED
    BY <2>1, <2>2, <2>3 DEF Bijection, Injection, Surjection, IsInjective
<1>4. ExistsBijection(1..n, Elements(q))
  BY <1>3 DEF ExistsBijection
<1> HIDE DEF n
<1>5. QED
  BY <1>2, <1>4, FS_Bijection DEF n

LEMMA FiniteSpans ==
  ASSUME SpanConstants, SpanInv
  PROVE  /\ IsFiniteSet(ended) /\ Cardinality(ended) \in Nat /\ Cardinality(ended) <= Cardinality(Spans)
         /\ IsFiniteSet(delivered) /\ Cardinality(delivered) \in Nat
         /\ Len(buffer) \in Nat /\ DOMAIN buffer = 1..Len(buffer)
         /\ Len(batch) \in Nat /\ DOMAIN batch = 1..Len(batch)
         /\ Cardinality(Spans) \in Nat
<1>1. IsFiniteSet(ended) /\ Cardinality(ended) <= Cardinality(Spans)
  BY FS_Subset DEF SpanConstants, SpanInv
<1>2. IsFiniteSet(delivered)
  BY <1>1, FS_Subset DEF SpanInv
<1>3. Cardinality(ended) \in Nat /\ Cardinality(delivered) \in Nat /\ Cardinality(Spans) \in Nat
  BY <1>1, <1>2, FS_CardinalityType DEF SpanConstants
<1>4. QED
  BY <1>1, <1>2, <1>3 DEF SpanInv, SpanPlaces

\* A span that ends, with the oldest dropped from a full buffer.
LEMMA EndKeeps ==
  ASSUME SpanConstants, SpanInv, NEW s \in Spans, Tracer!End(s)
  PROVE  SpanInv'
<1> DEFINE full == Len(buffer) >= MaxBuffer
           r == IF full THEN Tail(buffer) ELSE buffer
<1>1. /\ s \notin ended /\ ~ stopped /\ pending < MaxPending
      /\ ended' = ended \cup {s}
      /\ dropped' = IF full THEN dropped + 1 ELSE dropped
      /\ buffer' = Append(r, s)
      /\ pending' = pending \/ pending' = pending + 1
      /\ UNCHANGED <<batch, broken, stopped, delivered>>
  BY DEF Tracer!End, Tracer!DropOldest
<1>2. /\ r \in Seq(Spans) /\ Len(r) = (IF full THEN Len(buffer) - 1 ELSE Len(buffer))
      /\ \A i \in DOMAIN r : LET k == IF full THEN i + 1 ELSE i
                            IN k \in DOMAIN buffer /\ r[i] = buffer[k]
  <2>1. Len(buffer) \in Nat /\ DOMAIN buffer = 1..Len(buffer) /\ buffer \in Seq(Spans)
    BY FiniteSpans DEF SpanInv, SpanPlaces
  <2>2. CASE full
    <3>1. Len(buffer) > 0
      BY <2>1, <2>2 DEF SpanConstants
    <3>2. QED
      BY <2>1, <2>2, <3>1
  <2>3. CASE ~ full
    BY <2>1, <2>3
  <2>4. QED
    BY <2>2, <2>3
<1> DEFINE k(i) == IF full THEN i + 1 ELSE i
<1> HIDE DEF r
<1>3. Len(r) \in Nat /\ DOMAIN r = 1..Len(r)
  BY <1>2
<1>4. \A i, j \in DOMAIN r : r[i] = r[j] => i = j
  <2>1. \A i \in DOMAIN r : k(i) \in DOMAIN buffer /\ r[i] = buffer[k(i)]
    BY <1>2
  <2>2. \A i, j \in DOMAIN r : k(i) = k(j) => i = j
    BY <1>3
  <2> HIDE DEF k
  <2>3. QED
    BY <2>1, <2>2 DEF SpanInv, SpanPlaces, NoTwice
<1>5. \A i \in DOMAIN r : /\ r[i] \in ended /\ r[i] \notin delivered /\ r[i] # s
                         /\ \A j \in DOMAIN batch : r[i] # batch[j]
  BY <1>1, <1>2 DEF SpanInv, SpanPlaces
<1>6. /\ buffer' \in Seq(Spans) /\ Len(buffer') = Len(r) + 1 /\ DOMAIN buffer' = 1..(Len(r) + 1)
      /\ \A i \in DOMAIN r : buffer'[i] = r[i]
      /\ buffer'[Len(r) + 1] = s
  BY <1>1, <1>2, <1>3
<1>7. NoTwice(buffer')
  <2> SUFFICES ASSUME NEW i \in DOMAIN buffer', NEW j \in DOMAIN buffer', buffer'[i] = buffer'[j]
               PROVE  i = j
    BY DEF NoTwice
  <2>1. CASE i \in DOMAIN r /\ j \in DOMAIN r
    BY <1>4, <1>6, <2>1
  <2>2. CASE i \notin DOMAIN r \/ j \notin DOMAIN r
    BY <1>3, <1>5, <1>6, <2>2
  <2>3. QED
    BY <2>1, <2>2
<1>8. \A i \in DOMAIN buffer' : /\ buffer'[i] \in ended' /\ buffer'[i] \notin delivered
                               /\ \A j \in DOMAIN batch : buffer'[i] # batch[j]
  <2> SUFFICES ASSUME NEW i \in DOMAIN buffer'
               PROVE  /\ buffer'[i] \in ended' /\ buffer'[i] \notin delivered
                      /\ \A j \in DOMAIN batch : buffer'[i] # batch[j]
    OBVIOUS
  <2>1. CASE i \in DOMAIN r
    BY <1>1, <1>5, <1>6, <2>1
  <2>2. CASE i \notin DOMAIN r
    <3>1. buffer'[i] = s
      BY <1>3, <1>6, <2>2
    <3>2. QED
      BY <1>1, <3>1 DEF SpanInv, SpanPlaces
  <2>3. QED
    BY <2>1, <2>2
<1>9. SpanPlaces'
  BY <1>1, <1>6, <1>7, <1>8 DEF SpanInv, SpanPlaces, NoTwice
<1>10. Cardinality(ended') = Cardinality(ended) + 1
  BY <1>1, FiniteSpans, FS_AddElement
<1>11. /\ Cardinality(ended') = Len(buffer') + Len(batch') + Cardinality(delivered') + dropped'
       /\ Len(buffer') <= MaxBuffer /\ dropped' \in Nat
  <2> DEFINE a == Cardinality(ended)  b == Cardinality(delivered)  c == Cardinality(ended')
  <2>1. /\ a \in Nat /\ b \in Nat /\ c = a + 1 /\ Len(buffer) \in Nat /\ Len(batch) \in Nat
        /\ dropped \in Nat /\ a = Len(buffer) + Len(batch) + b + dropped
        /\ Len(buffer) <= MaxBuffer /\ MaxBuffer \in Nat
    BY <1>10, FiniteSpans DEF SpanInv, SpanConstants
  <2>2. delivered' = delivered /\ batch' = batch
    BY <1>1
  <2> HIDE DEF a, b, c
  <2>3. /\ c = Len(buffer') + Len(batch) + b + dropped'
        /\ Len(buffer') <= MaxBuffer /\ dropped' \in Nat
    BY <1>1, <1>2, <1>6, <2>1
  <2>4. QED
    BY <2>2, <2>3 DEF b, c
<1>12. QED
  BY <1>1, <1>9, <1>11 DEF SpanInv, SpanConstants

\* A flush moves the buffer.
LEMMA FlushKeeps ==
  ASSUME SpanConstants, SpanInv, Tracer!Flush
  PROVE  SpanInv'
<1>1. /\ pending > 0 /\ batch = << >> /\ pending' = pending - 1
      /\ UNCHANGED <<ended, stopped, delivered, dropped>>
  BY DEF Tracer!Flush, Tracer!HasTurn
<1>2. pending' \in 0..(MaxPending + 1) /\ (~ stopped => pending' <= MaxPending)
  BY <1>1 DEF SpanInv, SpanConstants
<1>3. CASE buffer = << >>
  <2>1. UNCHANGED <<buffer, batch, broken>>
    BY <1>3 DEF Tracer!Flush
  <2>2. QED
    BY <1>1, <1>2, <2>1 DEF SpanInv, SpanPlaces, NoTwice
<1>4. CASE buffer # << >>
  <2>1. buffer' = << >> /\ ~ broken' /\ batch' = buffer
    BY <1>4 DEF Tracer!Flush, SpanInv, SpanConstants
  <2>2. /\ << >> \in Seq(Spans) /\ Len(<< >>) = 0 /\ DOMAIN << >> = {}
    OBVIOUS
  <2>3. SpanPlaces'
    BY <1>1, <2>1, <2>2 DEF SpanInv, SpanPlaces, NoTwice
  <2>4. Len(buffer') + Len(batch') = Len(buffer) + Len(batch) /\ Len(buffer') <= MaxBuffer
    BY <1>1, <2>1, <2>2, FiniteSpans DEF SpanConstants
  <2>5. Cardinality(ended)' = Cardinality(ended) /\ Cardinality(delivered)' = Cardinality(delivered)
    BY <1>1
  <2>6. QED
    BY <1>1, <1>2, <2>1, <2>3, <2>4, <2>5 DEF SpanInv
<1>5. QED
  BY <1>3, <1>4

\* The endpoint takes a batch, or the request fails and all of it is counted.
LEMMA SentKeeps ==
  ASSUME SpanConstants, SpanInv, Tracer!Sent
  PROVE  SpanInv'
<1>1. PICK a \in Answers :
        /\ delivered' = IF a = "ok" THEN delivered \cup Elements(batch) ELSE delivered
        /\ dropped' = IF a = "network" THEN dropped + Len(batch) ELSE dropped
  BY DEF Tracer!Sent, Tracer!Range, Elements
<1>2. batch' = << >> /\ UNCHANGED <<ended, buffer, pending, broken, stopped>>
  BY DEF Tracer!Sent
<1>3. a \in {"ok", "network"}
  BY DEF SpanConstants
<1>4. /\ << >> \in Seq(Spans) /\ Len(<< >>) = 0 /\ DOMAIN << >> = {}
  OBVIOUS
<1>5. /\ IsFiniteSet(Elements(batch)) /\ Cardinality(Elements(batch)) = Len(batch)
      /\ Elements(batch) \subseteq ended /\ Elements(batch) \cap delivered = {}
      /\ \A i \in DOMAIN buffer : buffer[i] \notin Elements(batch)
  <2>1. /\ batch \in Seq(Spans) /\ NoTwice(batch)
    BY DEF SpanInv, SpanPlaces
  <2>2. /\ Elements(batch) \subseteq ended /\ Elements(batch) \cap delivered = {}
        /\ \A i \in DOMAIN buffer : buffer[i] \notin Elements(batch)
    BY DEF SpanInv, SpanPlaces, Elements
  <2>3. QED
    BY <2>1, <2>2, CountOfPlaces
<1>6. SpanPlaces' /\ delivered' \subseteq ended
  BY <1>1, <1>2, <1>4, <1>5 DEF SpanInv, SpanPlaces, NoTwice
<1>7. /\ Cardinality(delivered') + dropped' = Len(batch) + Cardinality(delivered) + dropped
      /\ Cardinality(delivered') \in Nat /\ dropped' \in Nat
  <2>1. CASE a = "ok"
    <3>1. Cardinality(delivered \cup Elements(batch)) =
            Cardinality(delivered) + Cardinality(Elements(batch)) - Cardinality(delivered \cap Elements(batch))
      BY <1>5, FiniteSpans, FS_Union
    <3>2. Cardinality(delivered \cap Elements(batch)) = 0
      BY <1>5, FS_EmptySet
    <3> DEFINE b == Cardinality(delivered)  c == Cardinality(delivered')
    <3>3. c = b + Len(batch) - 0
      BY <1>1, <1>5, <2>1, <3>1, <3>2
    <3>4. b \in Nat /\ Len(batch) \in Nat /\ dropped \in Nat
      BY FiniteSpans DEF SpanInv
    <3> HIDE DEF b, c
    <3>5. dropped' = dropped
      BY <1>1, <2>1
    <3>6. c + dropped' = Len(batch) + b + dropped /\ c \in Nat
      BY <3>3, <3>4, <3>5
    <3>7. QED
      BY <3>4, <3>5, <3>6 DEF b, c
  <2>2. CASE a = "network"
    <3>1. delivered' = delivered /\ dropped' = dropped + Len(batch)
      BY <1>1, <2>2
    <3>2. Cardinality(delivered) \in Nat /\ Len(batch) \in Nat /\ dropped \in Nat
      BY FiniteSpans DEF SpanInv
    <3>3. Cardinality(delivered') = Cardinality(delivered)
      BY <3>1
    <3>4. QED
      BY <3>1, <3>2, <3>3
  <2>3. QED
    BY <1>3, <2>1, <2>2
<1>8. Cardinality(ended') = Len(buffer') + Len(batch') + Cardinality(delivered') + dropped'
  <2> DEFINE a1 == Cardinality(ended)  b == Cardinality(delivered)  c == Cardinality(delivered')
  <2>1. /\ b \in Nat /\ Len(batch) \in Nat /\ dropped \in Nat /\ Len(buffer) \in Nat
        /\ c \in Nat /\ dropped' \in Nat /\ c + dropped' = Len(batch) + b + dropped
        /\ a1 = Len(buffer) + Len(batch) + b + dropped
    BY <1>7, FiniteSpans DEF SpanInv
  <2>2. Cardinality(ended') = a1 /\ Len(buffer') = Len(buffer) /\ Len(batch') = 0
    BY <1>2, <1>4
  <2> HIDE DEF a1, b, c
  <2>3. a1 = Len(buffer) + 0 + c + dropped'
    BY <2>1
  <2>4. QED
    BY <2>2, <2>3 DEF c
<1>9. QED
  BY <1>2, <1>6, <1>7, <1>8 DEF SpanInv

LEMMA SpanStep ==
  ASSUME SpanConstants, SpanInv, [Tracer!Next]_spanVars
  PROVE  SpanInv'
<1>1. CASE Tracer!Tick \/ Tracer!Shutdown
  <2>1. /\ pending < MaxPending \/ (pending <= MaxPending /\ stopped')
        /\ pending' = pending + 1 /\ stopped' \in BOOLEAN
        /\ UNCHANGED <<ended, buffer, batch, broken, delivered, dropped>>
    BY <1>1 DEF Tracer!Tick, Tracer!Shutdown, SpanInv
  <2>2. pending' \in 0..(MaxPending + 1) /\ (~ stopped' => pending' <= MaxPending)
    BY <2>1 DEF SpanInv, SpanConstants
  <2>3. SpanPlaces'
    BY <2>1 DEF SpanInv, SpanPlaces, NoTwice
  <2>4. QED
    BY <2>1, <2>2, <2>3 DEF SpanInv
<1>2. CASE UNCHANGED spanVars
  BY <1>2 DEF spanVars, SpanInv, SpanPlaces, NoTwice
<1>3. QED
  BY <1>1, <1>2, EndKeeps, FlushKeeps, SentKeeps DEF Tracer!Next

LEMMA SpansHold ==
  ASSUME SpanConstants, SpanInv
  PROVE  Tracer!TypeOK /\ Tracer!SpansAccountedFor
<1>0. \A S : Tracer!Cardinality(S) = Cardinality(S)
  BY DEF Tracer!Cardinality, Cardinality
<1>1. dropped \in 0..Cardinality(Spans)
  <2> DEFINE a == Cardinality(ended)  b == Cardinality(delivered)  n == Cardinality(Spans)
  <2>1. /\ a \in Nat /\ b \in Nat /\ n \in Nat /\ a <= n /\ dropped \in Nat
        /\ Len(buffer) \in Nat /\ Len(batch) \in Nat
        /\ a = Len(buffer) + Len(batch) + b + dropped
    BY FiniteSpans DEF SpanInv
  <2> HIDE DEF a, b, n
  <2>2. dropped \in 0..n
    BY <2>1
  <2>3. QED
    BY <2>2 DEF n
<1>2. Tracer!TypeOK
  BY <1>0, <1>1 DEF SpanInv, Tracer!TypeOK
<1> DEFINE q == buffer \o batch
<1>3. /\ q \in Seq(Spans) /\ Len(q) = Len(buffer) + Len(batch) /\ DOMAIN q = 1..(Len(buffer) + Len(batch))
      /\ \A i \in DOMAIN q : q[i] = IF i <= Len(buffer) THEN buffer[i] ELSE batch[i - Len(buffer)]
      /\ Len(buffer) \in Nat /\ Len(batch) \in Nat
  <2>1. buffer \in Seq(Spans) /\ batch \in Seq(Spans)
    BY DEF SpanInv, SpanPlaces
  <2>2. /\ q \in Seq(Spans) /\ Len(q) = Len(buffer) + Len(batch)
        /\ \A i \in 1..(Len(buffer) + Len(batch)) :
             q[i] = IF i <= Len(buffer) THEN buffer[i] ELSE batch[i - Len(buffer)]
    BY <2>1, ConcatProperties
  <2> HIDE DEF q
  <2>3. QED
    BY <2>1, <2>2
<1> HIDE DEF q
<1>4. \A i \in DOMAIN q :
        \/ i \in DOMAIN buffer /\ q[i] = buffer[i]
        \/ i - Len(buffer) \in DOMAIN batch /\ q[i] = batch[i - Len(buffer)]
  <2> SUFFICES ASSUME NEW i \in DOMAIN q
               PROVE  \/ i \in DOMAIN buffer /\ q[i] = buffer[i]
                      \/ i - Len(buffer) \in DOMAIN batch /\ q[i] = batch[i - Len(buffer)]
    OBVIOUS
  <2>1. i \in 1..(Len(buffer) + Len(batch))
    BY <1>3
  <2>2. DOMAIN buffer = 1..Len(buffer) /\ DOMAIN batch = 1..Len(batch)
    BY FiniteSpans
  <2>3. CASE i <= Len(buffer)
    BY <1>3, <2>1, <2>2, <2>3
  <2>4. CASE ~ i <= Len(buffer)
    BY <1>3, <2>1, <2>2, <2>4
  <2>5. QED
    BY <2>3, <2>4
<1>5. Tracer!IsInjective(q)
  <2> SUFFICES ASSUME NEW i \in DOMAIN q, NEW j \in DOMAIN q, q[i] = q[j]
               PROVE  i = j
    BY DEF Tracer!IsInjective
  <2>1. /\ NoTwice(buffer) /\ NoTwice(batch)
        /\ \A m \in DOMAIN buffer, n \in DOMAIN batch : buffer[m] # batch[n]
    BY DEF SpanInv, SpanPlaces
  <2>2. \/ i \in DOMAIN buffer /\ j \in DOMAIN buffer /\ i = j
        \/ i - Len(buffer) = j - Len(buffer)
    BY <1>4, <2>1 DEF NoTwice
  <2>3. QED
    BY <1>3, <2>2
<1>6. delivered \cap Tracer!Range(q) = {}
  BY <1>4 DEF SpanInv, SpanPlaces, Tracer!Range
<1>7. QED
  BY <1>0, <1>2, <1>5, <1>6 DEF SpanInv, Tracer!SpansAccountedFor, q

-----------------------------------------------------------------------------
(* The agent-to-agent server.  A run is counted from the answer to its        *)
(* request until its place was given back, and a context belongs to the user  *)
(* of the newest of its tasks, which is the last to go.                       *)

TaskConstants ==
  /\ IsFiniteSet(Requests) /\ MaxRuns \in Nat /\ MaxTasks \in Nat \ {0}
  /\ "nobody" \notin Users

Tasks == [user : Users, context : Contexts]
Counted == {r \in Requests : run[r] # "none" /\ r \notin released}

\* The owner that the tasks of a context give it.
Belongs(tasks, c, owner) ==
  \/ /\ owner = "nobody" /\ \A i \in DOMAIN tasks : tasks[i].context # c
  \/ \E i \in DOMAIN tasks :
       /\ tasks[i].context = c /\ owner = tasks[i].user
       /\ \A j \in DOMAIN tasks : j > i => tasks[j].context # c

RunsInv ==
  /\ sent \in [Requests -> [user : Users \cup {"nobody"}, context : Contexts \cup {"nobody"}]]
  /\ run \in [Requests -> {"none", "going", "done", "failed"}]
  /\ handler \in [Requests -> {"none", "waiting", "answered"}]
  /\ released \subseteq Requests
  /\ \A r \in Requests : /\ handler[r] = "none" <=> run[r] = "none"
                         /\ handler[r] = "waiting" => sent[r] \in Tasks
                         /\ r \in released => run[r] \in {"done", "failed"}
  /\ active = Cardinality(Counted) /\ active <= MaxRuns

TasksInv ==
  /\ taskStore \in Seq(Tasks) /\ Len(taskStore) <= MaxTasks
  /\ owners \in [Contexts -> Users \cup {"nobody"}]
  /\ \A c \in Contexts : Belongs(taskStore, c, owners[c])

TaskInv == RunsInv /\ TasksInv

LEMMA TaskInvInit == ASSUME TaskConstants, A2A!Init PROVE TaskInv
<1>1. /\ sent = [r \in Requests |-> [user |-> "nobody", context |-> "nobody"]]
      /\ run = [r \in Requests |-> "none"] /\ handler = [r \in Requests |-> "none"]
      /\ released = {} /\ active = 0 /\ taskStore = << >>
      /\ owners = [c \in Contexts |-> "nobody"]
  BY DEF A2A!Init, A2A!Unknown, A2A!Nobody
<1>2. Counted = {} /\ Cardinality({}) = 0
  BY <1>1, FS_EmptySet DEF Counted
<1>3. RunsInv
  BY <1>1, <1>2 DEF RunsInv, TaskConstants
<1>4. TasksInv
  <2>1. << >> \in Seq(Tasks) /\ Len(<< >>) = 0 /\ DOMAIN << >> = {}
    OBVIOUS
  <2>2. QED
    BY <1>1, <2>1 DEF TasksInv, TaskConstants, Belongs
<1>5. QED
  BY <1>3, <1>4 DEF TaskInv

LEMMA CountedIsFinite ==
  ASSUME TaskConstants
  PROVE  IsFiniteSet(Counted) /\ Cardinality(Counted) \in Nat
<1>1. Counted \subseteq Requests
  BY DEF Counted
<1>2. QED
  BY <1>1, FS_Subset, FS_CardinalityType DEF TaskConstants

\* A request is sent.
LEMMA SendKeeps ==
  ASSUME TaskConstants, RunsInv, NEW r \in Requests, A2A!Send(r)
  PROVE  RunsInv'
<1>1. PICK u \in Users, c \in Contexts :
        sent' = [sent EXCEPT ![r] = [user |-> u, context |-> c]]
  BY DEF A2A!Send
<1>2. /\ handler[r] = "none" /\ active < MaxRuns /\ active' = active + 1
      /\ run' = [run EXCEPT ![r] = "going"] /\ handler' = [handler EXCEPT ![r] = "waiting"]
      /\ released' = released
  BY DEF A2A!Send
<1>3. run[r] = "none" /\ r \notin released
  BY <1>2 DEF RunsInv
<1>4. /\ r \notin Counted
      /\ Counted' = Counted \cup {r}
  BY <1>2, <1>3 DEF Counted, RunsInv
<1>5. Cardinality(Counted') = Cardinality(Counted) + 1
  BY <1>4, CountedIsFinite, FS_AddElement
<1>6. active' = Cardinality(Counted') /\ active' <= MaxRuns
  BY <1>2, <1>5, CountedIsFinite DEF RunsInv, TaskConstants
<1>7. [user |-> u, context |-> c] \in Tasks
  BY DEF Tasks
<1>8. /\ sent' \in [Requests -> [user : Users \cup {"nobody"}, context : Contexts \cup {"nobody"}]]
      /\ sent'[r] \in Tasks /\ \A q \in Requests : q # r => sent'[q] = sent[q]
  BY <1>1, <1>7 DEF RunsInv, Tasks
<1>9. /\ run' \in [Requests -> {"none", "going", "done", "failed"}]
      /\ handler' \in [Requests -> {"none", "waiting", "answered"}]
      /\ released' \subseteq Requests
  BY <1>2 DEF RunsInv
<1>10. ASSUME NEW q \in Requests
       PROVE  /\ handler'[q] = "none" <=> run'[q] = "none"
              /\ handler'[q] = "waiting" => sent'[q] \in Tasks
              /\ q \in released' => run'[q] \in {"done", "failed"}
  BY <1>2, <1>3, <1>8 DEF RunsInv
<1>11. QED
  BY <1>6, <1>8, <1>9, <1>10 DEF RunsInv

\* A run settles, or its handler has answered.
LEMMA SettleKeeps ==
  ASSUME TaskConstants, RunsInv, NEW r \in Requests, A2A!Settle(r)
  PROVE  RunsInv'
<1>1. PICK end \in {"done", "failed"} : run' = [run EXCEPT ![r] = end]
  BY DEF A2A!Settle
<1>2. run[r] = "going" /\ UNCHANGED <<sent, released, handler, active>>
  BY DEF A2A!Settle
<1>3. Counted' = Counted
  BY <1>1, <1>2 DEF Counted, RunsInv
<1>4. Cardinality(Counted)' = Cardinality(Counted)
  BY <1>3
<1>5. QED
  BY <1>1, <1>2, <1>4 DEF RunsInv

LEMMA ReleaseKeeps ==
  ASSUME TaskConstants, RunsInv, NEW r \in Requests, A2A!Release(r)
  PROVE  RunsInv'
<1>1. /\ run[r] \in {"done", "failed"} /\ r \notin released
      /\ released' = released \cup {r} /\ active' = active - 1
      /\ UNCHANGED <<sent, run, handler>>
  BY DEF A2A!Release, A2A!RunSettled
<1>2. r \in Counted /\ Counted' = Counted \ {r}
  BY <1>1 DEF Counted
<1>3. Cardinality(Counted') = Cardinality(Counted) - 1
  BY <1>2, CountedIsFinite, FS_RemoveElement
<1>4. active' = Cardinality(Counted') /\ active' <= MaxRuns
  BY <1>1, <1>3, CountedIsFinite DEF RunsInv, TaskConstants
<1>5. QED
  BY <1>1, <1>4 DEF RunsInv

LEMMA AnsweredKeeps ==
  ASSUME TaskConstants, RunsInv, NEW r \in Requests, handler[r] = "waiting",
         handler' = [handler EXCEPT ![r] = "answered"], sent' = [sent EXCEPT ![r] = A2A!Unknown],
         UNCHANGED <<run, released, active>>
  PROVE  RunsInv'
<1>1. Counted' = Counted
  BY DEF Counted
<1>2. Cardinality(Counted)' = Cardinality(Counted)
  BY <1>1
<1>3. A2A!Unknown \in [user : Users \cup {"nobody"}, context : Contexts \cup {"nobody"}]
  BY DEF A2A!Unknown, A2A!Nobody
<1>4. /\ sent' \in [Requests -> [user : Users \cup {"nobody"}, context : Contexts \cup {"nobody"}]]
      /\ \A q \in Requests : q # r => sent'[q] = sent[q]
  BY <1>3 DEF RunsInv
<1>5. /\ handler' \in [Requests -> {"none", "waiting", "answered"}] /\ handler'[r] = "answered"
      /\ \A q \in Requests : q # r => handler'[q] = handler[q]
  BY DEF RunsInv
<1>6. ASSUME NEW q \in Requests
      PROVE  /\ handler'[q] = "none" <=> run'[q] = "none"
             /\ handler'[q] = "waiting" => sent'[q] \in Tasks
             /\ q \in released' => run'[q] \in {"done", "failed"}
  BY <1>4, <1>5 DEF RunsInv
<1>7. QED
  BY <1>2, <1>4, <1>5, <1>6 DEF RunsInv

\* The oldest task makes room.
LEMMA RoomForOne ==
  ASSUME TaskConstants, TasksInv
  PROVE  /\ A2A!Room \in Seq(Tasks) /\ Len(A2A!Room) + 1 <= MaxTasks
         /\ A2A!OwnersWithRoom \in [Contexts -> Users \cup {"nobody"}]
         /\ \A c \in Contexts : Belongs(A2A!Room, c, A2A!OwnersWithRoom[c])
<1>1. /\ taskStore \in Seq(Tasks) /\ Len(taskStore) \in Nat /\ DOMAIN taskStore = 1..Len(taskStore)
      /\ Len(taskStore) <= MaxTasks /\ MaxTasks \in Nat \ {0}
  BY DEF TasksInv, TaskConstants
<1>2. CASE Len(taskStore) < MaxTasks
  BY <1>1, <1>2 DEF A2A!Room, A2A!OwnersWithRoom, TasksInv
<1>3. CASE ~ Len(taskStore) < MaxTasks
  <2> DEFINE t == Tail(taskStore)
             x == taskStore[1].context
  <2>1. taskStore # << >> /\ Len(taskStore) > 0
    BY <1>1, <1>3
  <2>2. /\ t \in Seq(Tasks) /\ Len(t) = Len(taskStore) - 1 /\ DOMAIN t = 1..(Len(taskStore) - 1)
        /\ \A i \in DOMAIN t : t[i] = taskStore[i + 1]
    BY <1>1, <2>1
  <2>3. /\ A2A!Room = t
        /\ A2A!OwnersWithRoom = IF \E i \in DOMAIN t : t[i].context = x THEN owners
                                ELSE [owners EXCEPT ![x] = "nobody"]
    <3>1. Head(taskStore) = taskStore[1]
      BY <1>1, <2>1
    <3>2. QED
      BY <1>3, <3>1 DEF A2A!Room, A2A!OwnersWithRoom, A2A!OwnerAfter, A2A!Nobody
  <2> DEFINE o == A2A!OwnersWithRoom
  <2>4. o \in [Contexts -> Users \cup {"nobody"}]
    BY <2>3 DEF TasksInv
  <2>5. taskStore[1] \in Tasks /\ x \in Contexts
    <3>1. taskStore[1] \in Tasks
      BY <1>1, <2>1
    <3>2. QED
      BY <3>1 DEF Tasks
  <2> HIDE DEF t, x, o
  <2>6. ASSUME NEW c \in Contexts PROVE Belongs(t, c, o[c])
    <3>1. CASE \A i \in DOMAIN t : t[i].context # c
      <4>1. \A i \in DOMAIN taskStore : i > 1 => taskStore[i].context # c
        <5> SUFFICES ASSUME NEW i \in DOMAIN taskStore, i > 1 PROVE taskStore[i].context # c
          OBVIOUS
        <5>1. i - 1 \in DOMAIN t /\ t[i - 1] = taskStore[i]
          <6>1. i - 1 \in DOMAIN t /\ (i - 1) + 1 = i
            BY <1>1, <2>2
          <6>2. t[i - 1] = taskStore[(i - 1) + 1]
            BY <2>2, <6>1
          <6>3. QED
            BY <6>1, <6>2
        <5>2. QED
          BY <3>1, <5>1
      <4>2. CASE x = c
        <5>1. o[c] = "nobody"
          BY <2>3, <2>5, <3>1, <4>2 DEF o, TasksInv
        <5>2. QED
          BY <3>1, <5>1 DEF Belongs
      <4>3. CASE x # c
        <5>1. o[c] = owners[c]
          BY <2>3, <4>3 DEF o, TasksInv
        <5>2. \A i \in DOMAIN taskStore : taskStore[i].context # c
          BY <1>1, <4>1, <4>3 DEF x
        <5>3. owners[c] = "nobody"
          BY <5>2 DEF TasksInv, Belongs
        <5>4. QED
          BY <3>1, <5>1, <5>3 DEF Belongs
      <4>4. QED
        BY <4>2, <4>3
    <3>2. CASE \E i \in DOMAIN t : t[i].context = c
      <4>1. o[c] = owners[c]
        BY <2>3, <2>5, <3>2 DEF o, TasksInv
      <4>2. PICK i \in DOMAIN t : t[i].context = c
        BY <3>2
      <4>3. i + 1 \in DOMAIN taskStore /\ taskStore[i + 1].context = c /\ i + 1 > 1
        BY <1>1, <2>2, <4>2
      <4>4. PICK k \in DOMAIN taskStore :
              /\ taskStore[k].context = c /\ owners[c] = taskStore[k].user
              /\ \A j \in DOMAIN taskStore : j > k => taskStore[j].context # c
        BY <4>3 DEF TasksInv, Belongs
      <4>5. k > 1
        BY <1>1, <4>3, <4>4
      <4>6. k - 1 \in DOMAIN t /\ t[k - 1] = taskStore[k]
        <5>1. k - 1 \in DOMAIN t /\ (k - 1) + 1 = k
          BY <1>1, <2>2, <4>5
        <5>2. t[k - 1] = taskStore[(k - 1) + 1]
          BY <2>2, <5>1
        <5>3. QED
          BY <5>1, <5>2
      <4>7. \A j \in DOMAIN t : j > k - 1 => t[j].context # c
        <5> SUFFICES ASSUME NEW j \in DOMAIN t, j > k - 1 PROVE t[j].context # c
          OBVIOUS
        <5>1. j + 1 \in DOMAIN taskStore /\ j + 1 > k
          BY <1>1, <2>2
        <5>2. QED
          BY <2>2, <4>4, <5>1
      <4>8. QED
        BY <4>1, <4>4, <4>6, <4>7 DEF Belongs
    <3>3. QED
      BY <3>1, <3>2
  <2>7. Len(t) + 1 <= MaxTasks
    BY <1>1, <2>2
  <2>8. QED
    BY <2>2, <2>3, <2>4, <2>6, <2>7 DEF o
<1>4. QED
  BY <1>2, <1>3

\* The newest task of a context names its owner.
LEMMA StoredKeeps ==
  ASSUME TaskConstants, TasksInv, NEW t \in Tasks,
         taskStore' = Append(A2A!Room, t),
         owners' = [A2A!OwnersWithRoom EXCEPT ![t.context] = t.user]
  PROVE  TasksInv'
<1> DEFINE r == A2A!Room
           o == A2A!OwnersWithRoom
           s == Append(r, t)
<1>1. /\ r \in Seq(Tasks) /\ Len(r) + 1 <= MaxTasks
      /\ o \in [Contexts -> Users \cup {"nobody"}]
      /\ \A c \in Contexts : Belongs(r, c, o[c])
  BY RoomForOne
<1>2. /\ taskStore' = s /\ owners' = [o EXCEPT ![t.context] = t.user]
      /\ t.context \in Contexts /\ t.user \in Users
  BY DEF Tasks
<1> HIDE DEF r, o
<1>3. /\ s \in Seq(Tasks) /\ Len(s) = Len(r) + 1 /\ DOMAIN s = 1..(Len(r) + 1)
      /\ Len(r) \in Nat /\ DOMAIN r = 1..Len(r)
      /\ \A i \in DOMAIN r : s[i] = r[i]
      /\ s[Len(r) + 1] = t
  BY <1>1
<1> HIDE DEF s
<1>4. /\ owners' \in [Contexts -> Users \cup {"nobody"}] /\ owners'[t.context] = t.user
      /\ \A c \in Contexts : c # t.context => owners'[c] = o[c]
  BY <1>1, <1>2
<1>5. ASSUME NEW c \in Contexts PROVE Belongs(s, c, owners'[c])
  <2>1. CASE c = t.context
    <3>1. Len(r) + 1 \in DOMAIN s /\ \A j \in DOMAIN s : ~ j > Len(r) + 1
      BY <1>3
    <3>2. QED
      BY <1>3, <1>4, <2>1, <3>1 DEF Belongs
  <2>2. CASE c # t.context
    <3>1. owners'[c] = o[c] /\ Belongs(r, c, o[c])
      BY <1>1, <1>4, <2>2
    <3>2. CASE o[c] = "nobody" /\ \A i \in DOMAIN r : r[i].context # c
      <4>1. \A i \in DOMAIN s : s[i].context # c
        BY <1>3, <2>2, <3>2
      <4>2. QED
        BY <3>1, <3>2, <4>1 DEF Belongs
    <3>3. CASE \E i \in DOMAIN r : /\ r[i].context = c /\ o[c] = r[i].user
                                  /\ \A j \in DOMAIN r : j > i => r[j].context # c
      <4>1. PICK i \in DOMAIN r : /\ r[i].context = c /\ o[c] = r[i].user
                                  /\ \A j \in DOMAIN r : j > i => r[j].context # c
        BY <3>3
      <4>2. i \in DOMAIN s /\ s[i].context = c /\ o[c] = s[i].user
        BY <1>3, <4>1
      <4>3. \A j \in DOMAIN s : j > i => s[j].context # c
        <5> SUFFICES ASSUME NEW j \in DOMAIN s, j > i PROVE s[j].context # c
          OBVIOUS
        <5>1. CASE j \in DOMAIN r
          BY <1>3, <4>1, <5>1
        <5>2. CASE j \notin DOMAIN r
          <6>1. j = Len(r) + 1
            BY <1>3, <5>2
          <6>2. QED
            BY <1>3, <2>2, <6>1
        <5>3. QED
          BY <5>1, <5>2
      <4>4. QED
        BY <3>1, <4>2, <4>3 DEF Belongs
    <3>4. QED
      BY <3>1, <3>2, <3>3 DEF Belongs
  <2>3. QED
    BY <2>1, <2>2
<1>6. QED
  BY <1>1, <1>2, <1>3, <1>4, <1>5 DEF TasksInv

LEMMA TaskStep ==
  ASSUME TaskConstants, TaskInv, [A2A!Next]_taskVars
  PROVE  TaskInv'
<1>0. RunsInv /\ TasksInv
  BY DEF TaskInv
<1>1. ASSUME UNCHANGED <<taskStore, owners>> PROVE TasksInv'
  BY <1>0, <1>1 DEF TasksInv
<1>2. ASSUME NEW r \in Requests, A2A!Send(r) PROVE TaskInv'
  BY <1>0, <1>1, <1>2, SendKeeps DEF A2A!Send, TaskInv
<1>3. ASSUME NEW r \in Requests, A2A!Settle(r) PROVE TaskInv'
  BY <1>0, <1>1, <1>3, SettleKeeps DEF A2A!Settle, TaskInv
<1>4. ASSUME NEW r \in Requests, A2A!Release(r) PROVE TaskInv'
  BY <1>0, <1>1, <1>4, ReleaseKeeps DEF A2A!Release, TaskInv
<1>5. ASSUME NEW r \in Requests, A2A!Expire(r) PROVE TaskInv'
  BY <1>0, <1>1, <1>5, AnsweredKeeps DEF A2A!Expire, TaskInv
<1>6. ASSUME NEW r \in Requests, A2A!Answer(r) PROVE TaskInv'
  <2>1. RunsInv'
    BY <1>0, <1>6, AnsweredKeeps DEF A2A!Answer
  <2>2. handler[r] = "waiting" /\ sent[r] \in Tasks
    BY <1>0, <1>6 DEF A2A!Answer, RunsInv
  <2>3. CASE run[r] = "done"
    <3>1. /\ taskStore' = Append(A2A!Room, sent[r])
          /\ owners' = [A2A!OwnersWithRoom EXCEPT ![sent[r].context] = sent[r].user]
      BY <1>6, <2>3 DEF A2A!Answer
    <3>2. QED
      BY <1>0, <2>1, <2>2, <3>1, StoredKeeps DEF TaskInv
  <2>4. CASE run[r] # "done"
    BY <1>1, <1>6, <2>1, <2>4 DEF A2A!Answer, TaskInv
  <2>5. QED
    BY <2>3, <2>4
<1>7. CASE UNCHANGED taskVars
  BY <1>7 DEF taskVars, TaskInv, RunsInv, TasksInv, Counted
<1>8. QED
  BY <1>2, <1>3, <1>4, <1>5, <1>6, <1>7 DEF A2A!Next

LEMMA TasksHold ==
  ASSUME TaskConstants, TaskInv
  PROVE  A2A!TypeOK /\ A2A!RunsAreBounded /\ A2A!OwnersFollowTasks
<1>1. A2A!TypeOK
  BY CountedIsFinite DEF TaskConstants, TaskInv, RunsInv, TasksInv, A2A!TypeOK, A2A!Nobody
<1>2. A2A!RunsAreBounded
  <2> DEFINE going == {r \in Requests : run[r] = "going"}
  <2>1. going \subseteq Counted
    BY DEF TaskInv, RunsInv, Counted
  <2>2. IsFiniteSet(going) /\ Cardinality(going) \in Nat /\ Cardinality(going) <= Cardinality(Counted)
    BY <2>1, CountedIsFinite, FS_Subset, FS_CardinalityType
  <2>3. Cardinality(going) <= MaxRuns
    <3> DEFINE g == Cardinality(going)
    <3>1. g \in Nat /\ g <= active /\ active \in Nat /\ active <= MaxRuns /\ MaxRuns \in Nat
      BY <2>2, CountedIsFinite DEF TaskInv, RunsInv, TaskConstants
    <3> HIDE DEF g
    <3>2. g <= MaxRuns
      BY <3>1
    <3>3. QED
      BY <3>2 DEF g
  <2>4. A2A!Cardinality(going) = Cardinality(going)
    BY DEF A2A!Cardinality, Cardinality
  <2>5. QED
    BY <2>3, <2>4 DEF A2A!RunsAreBounded
<1>3. A2A!OwnersFollowTasks
  <2> SUFFICES ASSUME NEW c \in Contexts
               PROVE  LET users == {t.user : t \in {x \in A2A!Range(taskStore) : x.context = c}}
                      IN IF users = {} THEN owners[c] = A2A!Nobody ELSE owners[c] \in users
    BY DEF A2A!OwnersFollowTasks
  <2> DEFINE mine == {x \in A2A!Range(taskStore) : x.context = c}
             users == {t.user : t \in mine}
  <2>1. Belongs(taskStore, c, owners[c])
    BY DEF TaskInv, TasksInv
  <2>2. CASE owners[c] = "nobody" /\ \A i \in DOMAIN taskStore : taskStore[i].context # c
    <3>1. mine = {}
      BY <2>2 DEF A2A!Range
    <3>2. QED
      BY <2>2, <3>1 DEF A2A!Nobody
  <2>3. CASE \E i \in DOMAIN taskStore : taskStore[i].context = c /\ owners[c] = taskStore[i].user
    <3>1. PICK i \in DOMAIN taskStore : taskStore[i].context = c /\ owners[c] = taskStore[i].user
      BY <2>3
    <3>2. taskStore[i] \in mine
      BY <3>1 DEF A2A!Range
    <3> HIDE DEF mine
    <3>3. owners[c] \in users
      BY <3>1, <3>2
    <3> HIDE DEF users
    <3>4. users # {}
      BY <3>3
    <3>5. QED
      BY <3>3, <3>4 DEF users, mine
  <2>4. QED
    BY <2>1, <2>2, <2>3 DEF Belongs
<1>4. QED
  BY <1>1, <1>2, <1>3

-----------------------------------------------------------------------------
(* What the invariants of ServicesProofs leave out of the types of memory and *)
(* of the archive.                                                            *)

MemoryTypes ==
  /\ store \subseteq Memory!EntryKeys /\ vector \subseteq Memory!EntryKeys
  /\ scoped \subseteq Memory!EntryKeys /\ seen \subseteq Memory!EntryKeys
  /\ clean \subseteq Scopes /\ moved \subseteq (Scopes \X Scopes) \X Ids

\* A call that is at work has a scope, and ids.
LEMMA CallsAtWork ==
  ASSUME MemoryInv, NEW w \in Workers
  PROVE  /\ call[w].op # "idle" => call[w].scope \in Scopes
         /\ call[w].op = "merge" => call[w].to \in Scopes
         /\ call[w].ids \subseteq Ids
<1>1. call[w] \in MemoryCall /\ FitsCall(call[w])
  BY DEF MemoryInv, CallShape
<1>2. call[w].op \in {"idle", "ingest", "erase", "merge"} /\ call[w].ids \subseteq Ids
  BY <1>1 DEF MemoryCall
<1>3. QED
  BY <1>1, <1>2 DEF FitsCall

LEMMA MemoryTypesStep ==
  ASSUME MemoryInv, MemoryTypes, [Memory!Next]_memoryVars
  PROVE  MemoryTypes'
<1> USE DEF MemoryTypes, Memory!EntryKeys
<1>1. ASSUME NEW w \in Workers, NEW s \in Scopes, NEW ids \in SUBSET Ids, Memory!Ingest(w, s, ids)
      PROVE  MemoryTypes'
  <2> DEFINE keys == {s} \X {i \in ids : <<s, i>> \notin seen}
  <2>1. /\ seen' = seen \cup keys /\ scoped' \subseteq scoped \cup keys
        /\ clean' = clean \ {s} /\ UNCHANGED <<store, vector, moved>>
    BY <1>1 DEF Memory!Ingest
  <2>2. keys \subseteq Scopes \X Ids
    OBVIOUS
  <2> HIDE DEF keys
  <2>3. QED
    BY <2>1, <2>2
<1>2. ASSUME NEW w \in Workers, Memory!IngestStore(w) PROVE MemoryTypes'
  <2>1. {call[w].scope} \X call[w].ids \subseteq Scopes \X Ids
    BY <1>2, CallsAtWork DEF Memory!IngestStore, Memory!At
  <2>2. /\ store' \subseteq store \cup ({call[w].scope} \X call[w].ids)
        /\ UNCHANGED <<vector, scoped, seen, clean, moved>>
    BY <1>2 DEF Memory!IngestStore
  <2>3. QED
    BY <2>1, <2>2
<1>3. ASSUME NEW w \in Workers, Memory!IngestVector(w) PROVE MemoryTypes'
  <2>1. {call[w].scope} \X call[w].ids \subseteq Scopes \X Ids
    BY <1>3, CallsAtWork DEF Memory!IngestVector, Memory!At
  <2>2. /\ vector' \subseteq vector \cup ({call[w].scope} \X call[w].ids)
        /\ UNCHANGED <<store, scoped, seen, clean, moved>>
    BY <1>3 DEF Memory!IngestVector
  <2>3. QED
    BY <2>1, <2>2
<1>4. ASSUME NEW w \in Workers, NEW s \in Scopes, Memory!Erase(w, s) PROVE MemoryTypes'
  BY <1>4 DEF Memory!Erase
<1>5. ASSUME NEW w \in Workers, Memory!EraseStore(w) PROVE MemoryTypes'
  <2>1. /\ store' \subseteq store /\ moved' \subseteq moved
        /\ UNCHANGED <<vector, scoped, seen, clean>>
    BY <1>5 DEF Memory!EraseStore
  <2>2. QED
    BY <2>1
<1>6. ASSUME NEW w \in Workers, Memory!EraseVector(w) PROVE MemoryTypes'
  <2>1. vector' \subseteq vector /\ UNCHANGED <<store, scoped, seen, clean, moved>>
    BY <1>6 DEF Memory!EraseVector
  <2>2. QED
    BY <2>1
<1>7. ASSUME NEW w \in Workers, Memory!EraseMaps(w) PROVE MemoryTypes'
  <2>1. /\ scoped' \subseteq scoped /\ seen' \subseteq seen
        /\ clean' \subseteq clean \cup {call[w].scope}
        /\ UNCHANGED <<store, vector, moved>>
    BY <1>7 DEF Memory!EraseMaps, Memory!SeenAfter
  <2>2. call[w].scope \in Scopes
    BY <1>7, CallsAtWork DEF Memory!EraseMaps, Memory!Erasing
  <2>3. QED
    BY <2>1, <2>2
<1>8. ASSUME NEW w \in Workers, NEW s \in Scopes, NEW t \in Scopes, Memory!Merge(w, s, t)
      PROVE  MemoryTypes'
  BY <1>8 DEF Memory!Merge
<1>9. ASSUME NEW w \in Workers, Memory!MergeRead(w) PROVE MemoryTypes'
  <2> DEFINE ids == {k[2] : k \in store \cap Memory!Of(call[w].scope)}
  <2>1. call[w].scope \in Scopes /\ call[w].to \in Scopes
    BY <1>9, CallsAtWork DEF Memory!MergeRead, Memory!At
  <2>2. ids \subseteq Ids
    OBVIOUS
  <2>3. call'[w].ids = ids
    BY <1>9 DEF Memory!MergeRead, MemoryInv, CallShape, MemoryCall
  <2>4. /\ moved' \subseteq moved \cup ({<<call[w].scope, call[w].to>>} \X call'[w].ids)
        /\ UNCHANGED <<store, vector, scoped, seen, clean>>
    BY <1>9 DEF Memory!MergeRead
  <2> HIDE DEF ids
  <2>5. {<<call[w].scope, call[w].to>>} \X call'[w].ids \subseteq (Scopes \X Scopes) \X Ids
    BY <2>1, <2>2, <2>3
  <2>6. QED
    BY <2>4, <2>5
<1>10. ASSUME NEW w \in Workers, Memory!MergeCopy(w) PROVE MemoryTypes'
  <2> DEFINE keys == {call[w].to} \X call[w].ids
  <2>1. keys \subseteq Scopes \X Ids
    BY <1>10, CallsAtWork DEF Memory!MergeCopy, Memory!At
  <2>2. /\ store' \subseteq store \cup keys /\ scoped' \subseteq scoped \cup keys
        /\ clean' \subseteq clean /\ UNCHANGED <<vector, seen, moved>>
    BY <1>10 DEF Memory!MergeCopy
  <2> HIDE DEF keys
  <2>3. QED
    BY <2>1, <2>2
<1>11. ASSUME NEW w \in Workers, Memory!MergeIndex(w) PROVE MemoryTypes'
  <2>1. {call[w].to} \X call[w].ids \subseteq Scopes \X Ids
    BY <1>11, CallsAtWork DEF Memory!MergeIndex, Memory!At
  <2>2. /\ vector' \subseteq vector \cup ({call[w].to} \X call[w].ids)
        /\ UNCHANGED <<store, scoped, seen, clean, moved>>
    BY <1>11 DEF Memory!MergeIndex
  <2>3. QED
    BY <2>1, <2>2
<1>12. CASE UNCHANGED memoryVars
  BY <1>12 DEF memoryVars
<1>13. QED
  BY <1>1, <1>2, <1>3, <1>4, <1>5, <1>6, <1>7, <1>8, <1>9, <1>10, <1>11, <1>12 DEF Memory!Next

LEMMA StartsStep ==
  ASSUME starts \in 0..MaxStarts, MaxStarts \in Nat, [Archive!Next]_archiveVars
  PROVE  starts' \in 0..MaxStarts
<1>1. ASSUME NEW n \in Passes, Archive!Start(n) PROVE starts < MaxStarts /\ starts' = starts + 1
  BY <1>1 DEF Archive!Start
<1>2. ASSUME NEW n \in Passes, Archive!Compare(n) PROVE starts' = starts
  BY <1>2 DEF Archive!Compare
<1>3. ASSUME NEW n \in Passes, Archive!Finish(n) \/ Archive!Merge(n) \/ Archive!Break(n)
      PROVE  starts' = starts
  BY <1>3 DEF Archive!Finish, Archive!Merge, Archive!Break
<1>4. ASSUME UNCHANGED archiveVars PROVE starts' = starts
  BY <1>4 DEF archiveVars
<1>5. starts' = starts \/ (starts < MaxStarts /\ starts' = starts + 1)
  BY <1>1, <1>2, <1>3, <1>4 DEF Archive!Next
<1>6. QED
  BY <1>5

\* The types that follow from the invariants of ServicesProofs.
LEMMA PartsAreTyped ==
  ASSUME PollInv, ChainInv, PromptInv, ArchiveInv, starts \in 0..MaxStarts, MemoryTypes
  PROVE  Poll!TypeOK /\ Chain!TypeOK /\ Prompts!TypeOK /\ Archive!TypeOK /\ Memory!TypeOK
<1>1. Poll!TypeOK
  BY DEF PollInv, PollShape, PollStages, Poll!TypeOK
<1>2. Chain!TypeOK
  BY DEF ChainInv
<1>3. Prompts!TypeOK
  <2>1. \A n \in Names : state.versions[n] \in Seq(Bodies)
    BY DEF PromptInv, SoundPrompts, PromptStates
  <2>2. \A n \in Names : Prompts!Range(state.versions[n]) \subseteq Bodies
    BY <2>1 DEF Prompts!Range
  <2>3. QED
    BY <2>2 DEF PromptInv, Prompts!TypeOK
<1>4. Archive!TypeOK
  BY DEF ArchiveInv, ArchiveShape, Archive!TypeOK
<1>5. Memory!TypeOK
  BY DEF MemoryTypes, Memory!TypeOK
<1>6. QED
  BY <1>1, <1>2, <1>3, <1>4, <1>5

-----------------------------------------------------------------------------
(* All of it together.                                                       *)

\* Whatever is limited, counted or borrowed stays so, in every part: a strategy has
\* one result, earned and paid for; no more runs of the agent-to-agent server than
\* its limit, and contexts with the owner of a stored task; every span accounted
\* for; no answer of the cache kept for twice its time; no sandbox left behind; and
\* however many callers refresh at once, a refresh token that the endpoint takes:
\* from one that does not rotate always, from one that does unless an answer was
\* lost, or the process died before the new token was saved, and in the store unless
\* the last save failed.
THEOREM BoundsAreKept ==
  ASSUME StrategyConstants, CacheConstants, OAuthConstants, SpanConstants, TaskConstants,
         MemoryConstants, ArchiveConstants, MaxStarts \in Nat, StreamConstants,
         PromptConstants, SkillConstants, PollConstants, ChainConstants, GateConstants
  PROVE  Spec => []BoundsHold
<1> DEFINE Counts == StrategyInv /\ CacheInv /\ OAuthInv /\ SpanInv /\ TaskInv
           Types == /\ MemoryInv /\ MemoryTypes /\ ArchiveInv /\ starts \in 0..MaxStarts
                    /\ PromptInv /\ SkillInv /\ PollInv /\ ChainInv
<1>1. Init => Counts
  BY StrategyInvInit, CacheInvInit, OAuthInvInit, SpanInvInit, TaskInvInit DEF Init
<1>2. Init => Types
  <2> SUFFICES ASSUME Init PROVE Types
    OBVIOUS
  <2>1. Memory!Init /\ Archive!Init
    BY DEF Init
  <2>2. MemoryTypes
    BY <2>1 DEF Memory!Init, MemoryTypes
  <2>3. starts \in 0..MaxStarts
    BY <2>1 DEF Archive!Init
  <2>4. MemoryInv /\ ArchiveInv /\ PromptInv /\ SkillInv /\ PollInv /\ ChainInv
    BY MemoryInvInit, ArchiveInvInit, PromptInvInit, SkillInvInit, PollInvInit, ChainInvInit DEF Init
  <2>5. QED
    BY <2>2, <2>3, <2>4
<1>3. Counts /\ [Next]_allVars => Counts'
  <2> SUFFICES ASSUME Counts, [Next]_allVars PROVE Counts'
    OBVIOUS
  <2>1. StrategyInv'
    <3>1. CASE UNCHANGED strategyVars
      BY <3>1 DEF strategyVars, StrategyInv, Strategy!TypeOK
    <3>2. QED
      BY <3>1, StrategyStep, StepOfParts
  <2>2. CacheInv' /\ OAuthInv' /\ SpanInv' /\ TaskInv'
    BY CacheStep, OAuthStep, SpanStep, TaskStep, StepOfParts
  <2>3. QED
    BY <2>1, <2>2
<1>4. Types /\ [Next]_allVars => Types'
  <2> SUFFICES ASSUME Types, [Next]_allVars PROVE Types'
    OBVIOUS
  <2>1. MemoryInv' /\ MemoryTypes'
    BY MemoryStep, MemoryTypesStep, StepOfParts
  <2>2. ArchiveInv' /\ starts' \in 0..MaxStarts
    BY ArchiveStep, StartsStep, StepOfParts
  <2>3. PromptInv' /\ SkillInv' /\ PollInv' /\ ChainInv'
    BY PromptStep, SkillStep, PollStep, ChainStep, StepOfParts
  <2>4. QED
    BY <2>1, <2>2, <2>3
<1>5. Counts /\ Types /\ SandboxInv /\ StreamInv /\ GateInv => BoundsHold
  <2> SUFFICES ASSUME Counts, Types, SandboxInv, StreamInv, GateInv PROVE BoundsHold
    OBVIOUS
  <2>1. Strategy!TypeOK /\ Strategy!OneResult /\ Strategy!BudgetIsSpent /\ Strategy!SuccessEarned
    BY StrategyHolds
  <2>2. Cache!TypeOK /\ Cache!ServedInTime /\ OAuth!TypeOK /\ OAuth!StaysLoggedIn
    BY CacheHolds, OAuthHolds
  <2>3. /\ Tracer!TypeOK /\ Tracer!SpansAccountedFor
        /\ A2A!TypeOK /\ A2A!RunsAreBounded /\ A2A!OwnersFollowTasks
    BY SpansHold, TasksHold
  <2>4. Poll!TypeOK /\ Chain!TypeOK /\ Prompts!TypeOK /\ Archive!TypeOK /\ Memory!TypeOK
    BY PartsAreTyped
  <2>5. Sandbox!TypeOK /\ Sandbox!NoSandboxLeaks /\ Stream!TypeOK /\ Gate!TypeOK /\ Skills!TypeOK
    BY DEF SandboxInv, StreamInv, GateInv, SkillInv
  <2>6. TypeOK
    BY <2>1, <2>2, <2>3, <2>4, <2>5 DEF TypeOK
  <2>7. QED
    BY <2>1, <2>2, <2>3, <2>5, <2>6 DEF BoundsHold
<1> HIDE DEF Counts, Types
<1>6. Spec => [](Counts /\ Types)
  BY <1>1, <1>2, <1>3, <1>4, PTL DEF Spec
<1>7. Spec => []SandboxInv /\ []StreamInv /\ []GateInv
  BY SandboxInvHolds, StreamInvHolds, GateInvHolds
<1>8. QED
  BY <1>5, <1>6, <1>7, PTL
=============================================================================
