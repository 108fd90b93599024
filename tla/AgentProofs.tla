----------------------------- MODULE AgentProofs -----------------------------
(***************************************************************************)
(* First, what AgentLoop.run promises under any driver at all: LoopSpec    *)
(* lets the driver return any LoopAction, or raise, at any time.           *)
(*                                                                         *)
(* Then what the loop with the driver the repository ships promises, for   *)
(* any model, plans, patches, budgets and gates, and with every fault.     *)
(***************************************************************************)
EXTENDS AgentDriver, TLAPS

USE LoopAssumption

(* While the loop runs nothing is overspent and nothing is decided. *)
Open ==
  /\ stage = "loop" <=> reason = "none"
  /\ stage = "loop" => /\ calls <= TotalCalls
                       /\ \A s \in Phases : phaseCalls[s] <= Limit[s]

LoopInv == LoopTypeOK /\ Open /\ WithinBudget

Running == stage = "loop" /\ BudgetLeft

LEMMA LoopInitially == LoopInit => LoopInv
<1> SUFFICES ASSUME LoopInit PROVE LoopInv
  OBVIOUS
<1>1. LoopTypeOK
  BY DEF LoopInit, LoopTypeOK, WorkflowStates, NoEdits, Trees, Slots
<1>2. \A s \in Phases : phaseCalls[s] = 0 /\ Limit[s] >= 0
  BY DEF LoopInit, Phases, WorkflowStates
<1>3. Open /\ WithinBudget
  BY <1>2 DEF LoopInit, Open, WithinBudget, Completed
<1> QED BY <1>1, <1>3 DEF LoopInv

(* What the edit map becomes is an edit map again. *)
LEMMA OverlayType ==
  ASSUME NEW t \in Trees, NEW e \in Trees
  PROVE  Overlay(t, e) \in Trees
  BY DEF Overlay, Trees

(* An exception of the driver closes the run, not completed. *)
LEMMA RaiseStep ==
  ASSUME LoopInv, stage = "loop", NEW why \in Failures \cup {"iteration_limit"}, Raise(why)
  PROVE  LoopInv' /\ ~(reason' \in Completed)
  BY DEF Raise, Stop, LoopInv, LoopTypeOK, Open, WithinBudget, Failures, Reasons, Completed

(* The transition table has one way into DONE. *)
LEMMA DoneIsAudited ==
  ASSUME NEW s \in WorkflowStates, Allowed(s, "done")
  PROVE  s = "completion_audit"
  BY DEF Allowed, AllowedTransitions, WorkflowStates

(* What an accounted action does to the run: it goes on, completes out of the
   audit, or stops for a reason that is no completion. *)
LEMMA AdvanceStep ==
  ASSUME LoopTypeOK, stage = "loop", reason = "none",
         NEW a, a.next \in WorkflowStates, a.reason \in {"none"} \cup Reasons, Advance(a)
  PROVE  /\ state' \in WorkflowStates /\ repaired' \in BOOLEAN
         /\ stage' \in {"loop", "abort", "returned"} /\ reason' \in {"none"} \cup Reasons
         /\ stage' = "loop" <=> reason' = "none"
         /\ reason' \in Completed => state = "completion_audit"
<1>1. CASE a.reason \notin Completed \cup {"none"}
  BY <1>1 DEF Advance, Stop, LoopTypeOK, Completed, Reasons
<1>2. CASE a.reason \in Completed \cup {"none"}
  <2>1. CASE ~Allowed(state, a.next) \/ (a.reason # "none" /\ a.next # "done")
    BY <1>2, <2>1 DEF Advance, Stop, LoopTypeOK, Completed, Reasons
  <2>2. CASE Allowed(state, a.next) /\ (a.reason = "none" \/ a.next = "done")
    <3>1. Enter(a.next) /\ (a.next = "done" => state = "completion_audit")
      BY <1>2, <2>2, DoneIsAudited DEF Advance, LoopTypeOK
    <3>2. state' \in WorkflowStates /\ repaired' \in BOOLEAN
      BY <3>1 DEF Enter, LoopTypeOK
    <3>3. CASE a.reason \in Completed
      BY <2>2, <3>1, <3>2, <3>3 DEF Advance, Stop, Completed, Reasons
    <3>4. CASE a.reason = "none" /\ a.next = "done"
      BY <2>2, <3>1, <3>2, <3>4 DEF Advance, Finish, Stop, Completed, Reasons
    <3>5. CASE a.reason = "none" /\ a.next # "done"
      BY <2>2, <3>2, <3>5 DEF Advance, Completed
    <3> QED BY <1>2, <2>2, <3>3, <3>4, <3>5
  <2> QED BY <1>2, <2>1, <2>2
<1> QED BY <1>1, <1>2

(* A LoopAction of any driver. *)
LEMMA HandleStep ==
  ASSUME LoopInv, Running, NEW a \in LoopActions, Handle(a)
  PROVE  LoopInv' /\ (reason' \in Completed => state = "completion_audit")
<1> DEFINE spent == calls + a.calls
           spentIn == phaseCalls[state] + a.calls
<1>0. /\ a.next \in WorkflowStates /\ a.calls \in 0 .. MaxActionCalls /\ a.edits \in Trees
      /\ a.reason \in {"none"} \cup Reasons /\ a.retries \in Nat
  BY DEF LoopActions
<1>1. /\ calls' = spent /\ calls' \in Nat /\ calls' <= TotalCalls + MaxActionCalls
      /\ phaseCalls' = [phaseCalls EXCEPT ![state] = spentIn]
      /\ phaseCalls' \in [WorkflowStates -> Nat]
      /\ UNCHANGED rolledBack
  BY <1>0 DEF Handle, LoopInv, LoopTypeOK, Running, BudgetLeft
<1>2. CASE Over(spent, spentIn, state)
  <2>1. Stop("iteration_limit") /\ UNCHANGED <<state, repaired, edits, retries>>
    BY <1>2 DEF Handle
  <2> QED BY <1>1, <2>1 DEF Stop, LoopInv, LoopTypeOK, Open, WithinBudget, Reasons, Completed
<1>3. CASE ~Over(spent, spentIn, state)
  <2>1. edits' = Merged(a) /\ retries' = a.retries /\ Advance(a)
    BY <1>3 DEF Handle
  <2>2. edits' \in Trees
    BY <1>0, <2>1, OverlayType DEF Merged, LoopInv, LoopTypeOK, NoEdits, Trees, Slots
  <2>3. /\ calls' <= TotalCalls
        /\ \A s \in Phases : phaseCalls'[s] <= Limit[s]
    BY <1>1, <1>3 DEF Over, LoopInv, LoopTypeOK, Open, Running, Phases, WorkflowStates
  <2>4. stage = "loop" /\ reason = "none" /\ LoopTypeOK
    BY DEF LoopInv, Open, Running
  <2>5. /\ state' \in WorkflowStates /\ repaired' \in BOOLEAN
        /\ stage' \in {"loop", "abort", "returned"} /\ reason' \in {"none"} \cup Reasons
        /\ stage' = "loop" <=> reason' = "none"
        /\ reason' \in Completed => state = "completion_audit"
    BY <1>0, <2>1, <2>4, AdvanceStep
  <2> QED
    BY <1>0, <1>1, <2>1, <2>2, <2>3, <2>5 DEF LoopInv, LoopTypeOK, Open, WithinBudget
<1> QED BY <1>2, <1>3

(* abort() changes neither the verdict nor the account. *)
LEMMA AbortedStep ==
  ASSUME LoopInv, NEW complete \in BOOLEAN, Aborted(complete)
  PROVE  LoopInv' /\ reason' = reason
  BY DEF Aborted, LoopInv, LoopTypeOK, Open, WithinBudget, NoEdits, Trees, Slots

LEMMA LoopStep ==
  ASSUME LoopInv, [LoopNext]_loopVars
  PROVE  LoopInv' /\ (reason = "none" /\ reason' \in Completed => state = "completion_audit")
<1>1. CASE Exhausted
  BY <1>1, RaiseStep DEF Exhausted
<1>2. CASE TimesOut
  BY <1>2, RaiseStep DEF TimesOut, Failures
<1>3. CASE Drive
  <2>1. PICK a \in LoopActions : Handle(a)
    BY <1>3 DEF Drive, LoopActions, LoopInv, LoopTypeOK
  <2> QED BY <1>3, <2>1, HandleStep DEF Drive, Running
<1>4. CASE DriverRaises
  BY <1>4, RaiseStep DEF DriverRaises
<1>5. CASE \E complete \in BOOLEAN : Aborted(complete)
  BY <1>5, AbortedStep DEF Completed
<1>6. CASE UNCHANGED loopVars
  BY <1>6 DEF loopVars, LoopInv, LoopTypeOK, Open, WithinBudget, Completed
<1> QED BY <1>1, <1>2, <1>3, <1>4, <1>5, <1>6 DEF LoopNext

(* AgentLoop.run keeps its budgets under any driver: a run that completed
   overspent nothing, whatever number of calls the driver reports at once. *)
THEOREM LoopKeepsBudgets == LoopSpec => []WithinBudget
<1>1. LoopInv /\ [LoopNext]_loopVars => LoopInv'
  BY LoopStep
<1>2. LoopInv => WithinBudget
  BY DEF LoopInv
<1> QED BY LoopInitially, <1>1, <1>2, PTL DEF LoopSpec

(* Under any driver a run becomes completed only by a step out of
   COMPLETION_AUDIT: neither a claimed reason nor a claimed state does it. *)
THEOREM LoopCompletesFromAudit == LoopSpec => OnlyTheAuditCompletes
<1>1. LoopInv /\ [LoopNext]_loopVars => LoopInv'
  BY LoopStep
<1>2. LoopInv /\ [LoopNext]_loopVars
        => [reason = "none" /\ reason' \in Completed => state = "completion_audit"]_loopVars
  BY LoopStep
<1> QED BY LoopInitially, <1>1, <1>2, PTL DEF LoopSpec, OnlyTheAuditCompletes
-----------------------------------------------------------------------------
(***************************************************************************)
(* The shared driver.                                                      *)
(***************************************************************************)
USE DriverAssumption

(* Where the run is and what is decided of it; only a model turn is "turn". *)
Deciding ==
  /\ stage \in {"loop", "turn", "abort", "returned"}
  /\ stage \in {"loop", "turn"} <=> reason = "none"
  /\ stage = "abort" => reason \notin Completed
  /\ stage = "turn" => state \in {"discover", "plan", "execute", "repair"}
  /\ rolledBack \in BOOLEAN /\ (rolledBack => stage = "returned")

(* A replan is allowed only by a rejection that nothing has made good since. *)
Replans ==
  /\ replanAllowed \in BOOLEAN /\ replans \in Nat /\ patches \in Nat
  /\ replanAllowed /\ stage \in {"loop", "turn"} => rejected

DriverInv ==
  /\ tree \in Trees /\ Deciding /\ Replans
  /\ CompletedMeansAudited /\ RollbackCoversSources /\ DependenciesFirst

(* A step that decides nothing, or that the campaign is to be aborted. *)
Goes ==
  /\ stage \in {"loop", "turn"} /\ reason = "none"
  /\ stage' \in {"loop", "turn", "abort"}
  /\ stage' \in {"loop", "turn"} <=> reason' = "none"
  /\ reason' \notin Completed
  /\ stage' = "turn" => state' \in {"discover", "plan", "execute", "repair"}
  /\ UNCHANGED rolledBack

(* The audit passes: the one step that completes a run. *)
AuditCloses ==
  /\ stage = "loop" /\ reason = "none" /\ state = "completion_audit"
  /\ PlanMet /\ Green(tree)
  /\ stage' = "returned" /\ reason' \in Completed
  /\ UNCHANGED <<tree, plan, done, rolledBack>>

LEMMA RaiseGoes ==
  ASSUME stage \in {"loop", "turn"}, reason = "none",
         NEW why \in Failures \cup {"iteration_limit"}, Raise(why)
  PROVE  Goes
BY DEF Raise, Stop, Goes, Failures, Completed

(* A LoopAction decides nothing unless it is taken out of the audit. *)
LEMMA HandleGoes ==
  ASSUME stage \in {"loop", "turn"}, reason = "none", NEW a, Handle(a),
         Allowed(state, a.next) => a.next # "done"
  PROVE  Goes
<1>1. UNCHANGED rolledBack
  BY DEF Handle
<1>2. CASE Stop("iteration_limit")
  BY <1>1, <1>2 DEF Stop, Goes, Completed
<1>3. CASE Advance(a)
  <2>1. CASE a.reason \notin Completed \cup {"none"}
    BY <1>1, <1>3, <2>1 DEF Advance, Stop, Goes, Completed
  <2>2. CASE /\ a.reason \in Completed \cup {"none"}
             /\ ~Allowed(state, a.next) \/ a.reason # "none"
    BY <1>1, <1>3, <2>2 DEF Advance, Stop, Goes, Completed
  <2>3. CASE a.reason = "none" /\ Allowed(state, a.next)
    BY <1>1, <1>3, <2>3 DEF Advance, Enter, Goes, Completed
  <2>4. QED
    BY <2>1, <2>2, <2>3
<1>4. QED
  BY <1>2, <1>3 DEF Handle

(* No state but COMPLETION_AUDIT leads to DONE. *)
LEMMA ElsewhereGoes ==
  ASSUME stage \in {"loop", "turn"}, reason = "none", NEW a, Handle(a),
         state \in WorkflowStates \ {"completion_audit"}
  PROVE  Goes
<1>1. Allowed(state, a.next) => a.next # "done"
  BY DoneIsAudited
<1>2. QED
  BY <1>1, HandleGoes
-----------------------------------------------------------------------------
LEMMA TextTyped ==
  ASSUME NEW content \in Slots
  PROVE  /\ Text(content) \in Slots /\ Text(Text(content)) = Text(content)
         /\ Text(content) = Absent <=> content = Absent
BY LoopAssumption DEF Text, Slots

(* What abort() and a replan make of a tree: every source file is its baseline
   text again. *)
LEMMA RestoredTyped ==
  ASSUME tree \in Trees
  PROVE  /\ Restored \in Trees
         /\ \A f \in Sources : Text(Restored[f]) = Text(Origin[f]) /\ Text(Restored[f]) = Baseline[f]
<1>1. \A f \in Paths : tree[f] \in Slots /\ Origin[f] \in Slots
  BY DEF Trees
<1>2. \A f \in Sources : Baseline[f] = Text(Origin[f]) /\ Restored[f] = Text(Origin[f])
  BY DEF Baseline, Restored
<1>3. \A f \in Paths : f \in Sources => Text(Origin[f]) \in Slots /\ Text(Text(Origin[f])) = Text(Origin[f])
  BY <1>1, TextTyped
<1>4. \A f \in Paths : Restored[f] \in Slots
  BY <1>1, <1>2, <1>3 DEF Restored
<1>5. Restored \in Trees
  BY <1>4 DEF Restored, Trees
<1>6. QED
  BY <1>2, <1>3, <1>5

LEMMA PartlyTyped ==
  ASSUME tree \in Trees, PartlyRestored
  PROVE  tree' \in Trees
<1>1. PICK finished \in SUBSET Sources, f \in Sources :
        \E half \in {tree[f], Torn} :
          tree' = [g \in Paths |-> IF g \in finished THEN Restored[g]
                                   ELSE IF g = f THEN half ELSE tree[g]]
  BY DEF PartlyRestored
<1>2. Restored \in Trees /\ f \in Paths
  BY RestoredTyped
<1>3. \A g \in Paths : Restored[g] \in Slots /\ tree[g] \in Slots
  BY <1>2 DEF Trees
<1>4. \A half \in {tree[f], Torn} : half \in Slots
  BY <1>2, <1>3 DEF Slots
<1>5. QED
  BY <1>1, <1>3, <1>4 DEF Trees

(* Whatever becomes of a patch, the repository holds contents. *)
LEMMA PatchTyped ==
  ASSUME tree \in Trees, NEW p \in Patches,
         PatchLands(p) \/ PatchRefused(p) \/ PatchRejected(p)
           \/ WriteFailsControl(p) \/ WriteFailsHarness(p)
  PROVE  tree' \in Trees
<1>1. p.edits \in Trees /\ Overlay(tree, p.edits) \in Trees
  BY LoopAssumption, OverlayType
<1>2. \A f \in Paths : tree[f] \in Slots /\ p.edits[f] \in Slots /\ Text(tree[f]) \in Slots
  BY <1>1, TextTyped DEF Trees
<1>3. Torn \in Slots
  BY DEF Slots
<1>4. CASE PatchLands(p) \/ PatchRefused(p)
  BY <1>1, <1>4 DEF PatchLands, PatchRefused, ControlSubmit, HarnessSubmit
<1>5. CASE PatchRejected(p)
  <2>1. CASE tree' = Overlay(tree, p.edits)
    BY <1>1, <2>1
  <2>2. CASE tree' = [f \in Paths |-> IF f \in Touched(p.edits) THEN Text(tree[f]) ELSE tree[f]]
    BY <1>2, <2>2 DEF Trees
  <2>3. QED
    BY <1>5, <2>1, <2>2 DEF PatchRejected, HarnessReject
<1>6. CASE WriteFailsControl(p)
  <2>1. CASE \E f \in Touched(p.edits) : tree' = [tree EXCEPT ![f] = Torn]
    BY <1>3, <2>1 DEF Trees
  <2>2. QED
    BY <1>6, <2>1 DEF WriteFailsControl
<1>7. CASE WriteFailsHarness(p)
  <2>1. PICK written \in SUBSET Touched(p.edits), f \in Touched(p.edits) :
          \E half \in {tree[f], Torn} :
            tree' = [g \in Paths |-> IF g \in written THEN p.edits[g]
                                     ELSE IF g = f THEN half ELSE tree[g]]
    BY <1>7 DEF WriteFailsHarness
  <2>2. f \in Paths /\ \A half \in {tree[f], Torn} : half \in Slots
    BY <1>2, <1>3 DEF Touched
  <2>3. QED
    BY <1>2, <2>1, <2>2 DEF Trees
<1>8. QED
  BY <1>4, <1>5, <1>6, <1>7

(* What a step is: one that goes on, the audit that passes, or abort(). *)
LEMMA StepKinds ==
  ASSUME Deciding, tree \in Trees, Step
  PROVE  (tree' \in Trees /\ Goes) \/ AuditCloses \/ Abort \/ AbortFails
<1> USE DEF Deciding
<1>0. /\ \A n, c : Action(n, c).next = n /\ Action(n, c).reason = "none"
      /\ \A n, c, r : SendBack(r).reason = "none"
  BY DEF Action, SendBack
<1>1. CASE SelectDone \/ PlanKnown \/ VerifyPatched
  <2>1. /\ stage = "loop" /\ UNCHANGED tree /\ \E a : Handle(a)
        /\ state \in WorkflowStates \ {"completion_audit"}
    BY <1>1 DEF SelectDone, PlanKnown, VerifyPatched, Asked, WorkflowStates
  <2>2. QED
    BY <2>1, ElsewhereGoes
<1>2. CASE \/ VerifyUnpatched \/ MalformedBlock \/ ProviderFails
           \/ (Exhausted \/ TimesOut) /\ UNCHANGED <<driverVars, tree, submitted, patches>>
  <2>1. /\ stage \in {"loop", "turn"} /\ UNCHANGED tree
        /\ \E why \in Failures \cup {"iteration_limit"} : Raise(why)
    BY <1>2 DEF VerifyUnpatched, MalformedBlock, ProviderFails, Exhausted, TimesOut, ModelTurn,
                Asked, Failures, Raised, CompletionErrors
  <2>2. QED
    BY <2>1, RaiseGoes
<1>3. CASE Audit
  <2>1. PICK green \in GatesSay : Handle(AuditVerdict(PlanMet /\ green))
    BY <1>3 DEF Audit
  <2>2. /\ stage = "loop" /\ reason = "none" /\ state = "completion_audit"
        /\ UNCHANGED <<tree, plan, done>>
    BY <1>3 DEF Audit, Asked
  <2>3. CASE PlanMet /\ green
    <3>1. Green(tree) /\ Handle(Action("done", 0))
      BY <2>1, <2>3 DEF GatesSay, AuditVerdict
    <3>2. UNCHANGED rolledBack
      BY <3>1 DEF Handle
    <3>3. CASE Stop("iteration_limit")
      BY <2>2, <3>2, <3>3 DEF Stop, Goes, Completed
    <3>4. CASE Advance(Action("done", 0))
      <4>1. Finish
        BY <1>0, <2>2, <3>4 DEF Advance, Allowed, AllowedTransitions, Completed
      <4>2. CASE Stop("agent_timeout")
        BY <2>2, <3>2, <4>2 DEF Stop, Goes, Completed
      <4>3. CASE Stop(IF repaired THEN "completed_after_repair" ELSE "completed")
        BY <2>2, <2>3, <3>1, <3>2, <4>3 DEF Stop, AuditCloses, Completed
      <4>4. QED
        BY <4>1, <4>2, <4>3 DEF Finish
    <3>5. QED
      BY <3>1, <3>3, <3>4 DEF Handle
  <2>4. CASE ~(PlanMet /\ green)
    <3>1. AuditVerdict(PlanMet /\ green).next # "done"
      BY <2>4 DEF AuditVerdict, Action
    <3>2. QED
      BY <2>1, <2>2, <3>1, HandleGoes
  <2>5. QED
    BY <2>3, <2>4
<1>4. CASE CallModel
  BY <1>4 DEF CallModel, ModelTurn, Asked, Goes, Completed
<1>5. ASSUME NEW p \in Patches,
             PatchLands(p) \/ PatchRefused(p) \/ PatchRejected(p)
               \/ WriteFailsControl(p) \/ WriteFailsHarness(p)
      PROVE  tree' \in Trees /\ Goes
  <2>1. tree' \in Trees
    BY <1>5, PatchTyped
  <2>2. CASE WriteFailsHarness(p)
    <3>1. stage = "turn" /\ Raise("malformed_response")
      BY <2>2 DEF WriteFailsHarness, TryPatch
    <3>2. QED
      BY <2>1, <3>1, RaiseGoes DEF Failures
  <2>3. CASE ~WriteFailsHarness(p)
    <3>1. stage = "turn" /\ UNCHANGED loopVars
      BY <1>5, <2>3 DEF PatchLands, PatchRefused, PatchRejected, WriteFailsControl, TryPatch
    <3>2. QED
      BY <2>1, <3>1 DEF loopVars, Goes, Completed
  <2>4. QED
    BY <2>2, <2>3
<1>6. CASE Undeclared
  <2>1. stage = "turn" /\ UNCHANGED tree /\ \E a : Handle(a)
    BY <1>6 DEF Undeclared
  <2>2. QED
    BY <2>1, ElsewhereGoes DEF WorkflowStates
<1>7. ASSUME NEW d \in Declarations, InvalidAction(d)
      PROVE  tree' \in Trees /\ Goes
  <2>1. stage = "turn" /\ UNCHANGED tree /\ ((\E a : Handle(a)) \/ Raise("malformed_response"))
    BY <1>7 DEF InvalidAction
  <2>2. QED
    BY <2>1, ElsewhereGoes, RaiseGoes DEF WorkflowStates, Failures
<1>8. ASSUME NEW d \in Declarations,
             ValidAction(d) \/ ReplanEscalates(d) \/ Replan(d) \/ ReplanRollbackFails(d)
      PROVE  tree' \in Trees /\ Goes
  <2>1. stage = "turn" /\ \E a : Handle(a)
    BY <1>8 DEF ValidAction, ReplanEscalates, Replan, ReplanRollbackFails
  <2>2. Goes
    BY <2>1, ElsewhereGoes DEF WorkflowStates
  <2>3. tree' \in Trees
    BY <1>8, RestoredTyped, PartlyTyped DEF ValidAction, ReplanEscalates, Replan, ReplanRollbackFails
  <2>4. QED
    BY <2>2, <2>3
<1>9. QED
  BY <1>1, <1>2, <1>3, <1>4, <1>5, <1>6, <1>7, <1>8 DEF Step, Handler
-----------------------------------------------------------------------------
(* What a step that goes on does to the plan: a patch of a step that is ready
   lands; a plan is taken up with what it claims; or nothing. *)
PlanMoves ==
  \/ UNCHANGED <<plan, done>>
  \/ plan # NoPlan /\ plan' = plan /\ \E s \in plan.steps :
       plan.deps[s] \subseteq done /\ done' = done \cup {s}
  \/ plan' = NoPlan
  \/ plan' # NoPlan /\ done' = plan'.claimed

LEMMA PlanStep ==
  ASSUME Step
  PROVE  PlanMoves \/ (Abort /\ UNCHANGED plan /\ done' = {})
<1>1. CASE \/ SelectDone \/ PlanKnown \/ VerifyUnpatched \/ VerifyPatched \/ Audit
           \/ CallModel \/ ProviderFails \/ MalformedBlock \/ Undeclared \/ AbortFails
           \/ (Exhausted \/ TimesOut) /\ UNCHANGED <<driverVars, tree, submitted, patches>>
  <2>1. UNCHANGED <<plan, done>>
    BY <1>1 DEF SelectDone, PlanKnown, VerifyUnpatched, VerifyPatched, Audit, CallModel,
                ProviderFails, MalformedBlock, Undeclared, AbortFails, driverVars
  <2>2. QED
    BY <2>1 DEF PlanMoves
<1>2. ASSUME NEW p \in Patches, PatchLands(p)
      PROVE  PlanMoves
  BY <1>2 DEF PatchLands, InStep, PlanMoves
<1>3. ASSUME NEW p \in Patches,
             PatchRefused(p) \/ PatchRejected(p) \/ WriteFailsControl(p) \/ WriteFailsHarness(p)
      PROVE  PlanMoves
  BY <1>3 DEF PatchRefused, PatchRejected, WriteFailsControl, WriteFailsHarness, PatchBad,
              driverVars, PlanMoves
<1>4. ASSUME NEW d \in Declarations,
             \/ InvalidAction(d) \/ ValidAction(d) \/ ReplanEscalates(d)
             \/ Replan(d) \/ ReplanRollbackFails(d)
      PROVE  PlanMoves
  BY <1>4 DEF InvalidAction, ValidAction, ReplanEscalates, Replan, ReplanRollbackFails,
              AdoptPlan, driverVars, PlanMoves
<1>5. CASE Abort
  BY <1>5 DEF Abort
<1>6. QED
  BY <1>1, <1>2, <1>3, <1>4, <1>5 DEF Step, Handler

(* The steps that neither reject nor accept anything. *)
LEMMA ReplansKept ==
  ASSUME Replans, Watch, UNCHANGED <<replanAllowed, replans>>, patches' \in Nat,
         ~(patches' > patches), stage' \in {"loop", "turn"} => stage \in {"loop", "turn"}
  PROVE  Replans'
<1>1. replanAllowed' /\ stage' \in {"loop", "turn"} => rejected'
  BY DEF Replans, Watch
<1>2. QED
  BY <1>1 DEF Replans

LEMMA ReplansStep ==
  ASSUME Replans, Step
  PROVE  Replans' /\ (\/ UNCHANGED replans
                      \/ replans' = replans + 1 /\ rejected)
<1>0. Watch
  BY DEF Step
<1>1. CASE \/ SelectDone \/ PlanKnown \/ VerifyUnpatched \/ VerifyPatched
           \/ CallModel \/ ProviderFails \/ MalformedBlock \/ Undeclared \/ AbortFails \/ Abort
           \/ (Exhausted \/ TimesOut) /\ UNCHANGED <<driverVars, tree, submitted, patches>>
  <2>1. UNCHANGED <<replanAllowed, replans>> /\ patches' \in {0, patches}
    BY <1>1 DEF SelectDone, PlanKnown, VerifyUnpatched, VerifyPatched, CallModel,
                ProviderFails, MalformedBlock, Undeclared, AbortFails, Abort, driverVars
  <2>2. stage \in {"loop", "turn"} \/ stage' = "returned"
    BY <1>1 DEF SelectDone, PlanKnown, VerifyUnpatched, VerifyPatched, CallModel, ModelTurn,
                ProviderFails, MalformedBlock, Undeclared, AbortFails, Abort, Aborted,
                Exhausted, TimesOut, Asked
  <2>3. patches' \in Nat /\ ~(patches' > patches)
    BY <2>1 DEF Replans
  <2>4. QED
    BY <1>0, <2>1, <2>2, <2>3, ReplansKept
<1>2. CASE Audit
  <2>1. PICK green \in GatesSay :
          /\ Handle(AuditVerdict(PlanMet /\ green))
          /\ auditRepaired' = (auditRepaired \/ ~(PlanMet /\ green))
          /\ replanAllowed' = (replanAllowed \/ (~(PlanMet /\ green) /\ ~auditRepaired))
    BY <1>2 DEF Audit
  <2>2. UNCHANGED <<replans, patches>> /\ stage = "loop" /\ state = "completion_audit"
    BY <1>2 DEF Audit, Asked
  <2>3. replanAllowed' \in BOOLEAN
    BY <2>1, Zenon
  <2>4. CASE (PlanMet /\ green) \/ auditRepaired
    <3>1. replanAllowed' => replanAllowed
      BY <2>1, <2>4, Zenon
    <3>2. rejected => rejected'
      <4>1. ~(patches' > patches)
        BY <2>2 DEF Replans
      <4>2. QED
        BY <1>0, <2>2, <4>1, Zenon DEF Watch
    <3>3. replanAllowed' => rejected'
      BY <2>2, <3>1, <3>2, Zenon DEF Replans
    <3>4. QED
      BY <2>2, <2>3, <3>3 DEF Replans
  <2>5. CASE ~(PlanMet /\ green) /\ ~auditRepaired
    <3>1. AuditVerdict(PlanMet /\ green) = Action("repair", 0)
      BY <2>5 DEF AuditVerdict
    <3>2. stage' = "abort" \/ state' = "repair"
      BY <2>1, <2>2, <3>1
      DEF Handle, Action, Stop, Completed, Advance, Allowed, AllowedTransitions, Enter
    <3>3. stage' \in {"loop", "turn"} => rejected'
      BY <1>0, <2>2, <3>2 DEF Watch, Replans
    <3>4. QED
      BY <2>2, <2>3, <3>3 DEF Replans
  <2>6. QED
    BY <2>4, <2>5
<1>3. ASSUME NEW p \in Patches,
             PatchLands(p) \/ PatchRefused(p) \/ PatchRejected(p)
               \/ WriteFailsControl(p) \/ WriteFailsHarness(p)
      PROVE  Replans' /\ UNCHANGED replans
  <2>0. patches' = patches + 1 /\ patches' \in Nat /\ patches' > patches
    BY <1>3 DEF PatchLands, PatchRefused, PatchRejected, WriteFailsControl, WriteFailsHarness,
                TryPatch, Replans
  <2>1. CASE PatchLands(p)
    BY <2>0, <2>1 DEF PatchLands, Landed, Replans
  <2>2. CASE PatchRefused(p) \/ PatchRejected(p) \/ WriteFailsControl(p)
    <3>1. PatchBad /\ UNCHANGED loopVars
      BY <2>2 DEF PatchRefused, PatchRejected, WriteFailsControl
    <3>2. rejected'
      BY <1>0, <2>0, <3>1 DEF PatchBad, Watch, loopVars
    <3>3. QED
      BY <2>0, <3>1, <3>2 DEF PatchBad, Replans
  <2>3. CASE WriteFailsHarness(p)
    <3>1. UNCHANGED driverVars /\ stage' = "abort"
      BY <2>3 DEF WriteFailsHarness, Raise, Stop, Completed
    <3>2. QED
      BY <2>0, <3>1 DEF driverVars, Replans
  <2>4. QED
    BY <1>3, <2>1, <2>2, <2>3
<1>4. ASSUME NEW d \in Declarations,
             InvalidAction(d) \/ ValidAction(d) \/ ReplanEscalates(d) \/ ReplanRollbackFails(d)
      PROVE  Replans' /\ UNCHANGED replans
  <2>1. UNCHANGED <<replanAllowed, replans, patches>> /\ stage = "turn"
    BY <1>4 DEF InvalidAction, ValidAction, ReplanEscalates, ReplanRollbackFails, driverVars
  <2>2. patches' \in Nat /\ ~(patches' > patches)
    BY <2>1 DEF Replans
  <2>3. QED
    BY <1>0, <2>1, <2>2, ReplansKept
<1>5. ASSUME NEW d \in Declarations, Replan(d)
      PROVE  Replans' /\ replans' = replans + 1 /\ rejected
  <2>1. /\ replans' = replans + 1 /\ replanAllowed /\ stage = "turn"
        /\ replanAllowed' = FALSE /\ UNCHANGED patches
    BY <1>5 DEF Replan, Invalid
  <2>2. replans' \in Nat /\ patches' \in Nat
    BY <2>1 DEF Replans
  <2>3. rejected
    BY <2>1, Zenon DEF Replans
  <2>4. Replans'
    BY <2>1, <2>2, Zenon DEF Replans
  <2>5. QED
    BY <2>1, <2>3, <2>4
<1>6. QED
  BY <1>1, <1>2, <1>3, <1>4, <1>5 DEF Step, Handler
-----------------------------------------------------------------------------
LEMMA DriverInitially == Init => DriverInv
<1> SUFFICES ASSUME Init PROVE DriverInv
  OBVIOUS
<1>1. stage = "loop" /\ reason = "none" /\ rolledBack = FALSE
  BY DEF Init, LoopInit
<1>2. tree \in Trees /\ Deciding /\ Replans
  BY <1>1 DEF Init, Deciding, Replans, Completed
<1>3. CompletedMeansAudited /\ RollbackCoversSources /\ DependenciesFirst
  BY <1>1 DEF Init, CompletedMeansAudited, RollbackCoversSources, DependenciesFirst, Returned
<1>4. QED
  BY <1>2, <1>3 DEF DriverInv

(* No order of patches and plans lets a patch overtake what it depends on. *)
LEMMA DependenciesStep ==
  ASSUME DependenciesFirst, Step
  PROVE  DependenciesFirst'
<1>1. CASE Abort /\ UNCHANGED plan /\ done' = {}
  BY <1>1 DEF DependenciesFirst
<1>2. CASE PlanMoves
  BY <1>2 DEF PlanMoves, DependenciesFirst
<1>3. QED
  BY <1>1, <1>2, PlanStep

LEMMA DriverStep ==
  ASSUME DriverInv, Step
  PROVE  DriverInv'
<1> USE DEF DriverInv
<1>1. Replans' /\ DependenciesFirst'
  BY ReplansStep, DependenciesStep
<1>2. CASE tree' \in Trees /\ Goes
  BY <1>1, <1>2 DEF Goes, Deciding, CompletedMeansAudited, RollbackCoversSources, Returned
<1>3. CASE AuditCloses
  <2>1. tree' \in Trees /\ Deciding' /\ stage' = "returned" /\ rolledBack' = FALSE
    BY <1>3 DEF AuditCloses, Deciding, Completed
  <2>2. plan # NoPlan /\ done = Steps /\ Changed = plan.paths /\ Changed \cap TestPaths = {}
    BY <1>3 DEF AuditCloses, PlanMet, Steps
  <2>3. CompletedMeansAudited'
    BY <1>3, <2>2 DEF AuditCloses, CompletedMeansAudited, Steps, Changed
  <2>4. QED
    BY <1>1, <2>1, <2>3 DEF RollbackCoversSources
<1>4. CASE Abort
  <2>1. /\ stage = "abort" /\ stage' = "returned" /\ rolledBack' = TRUE /\ edits' = NoEdits
        /\ reason' = reason /\ tree' = Restored
    BY <1>4 DEF Abort, Aborted
  <2>2. tree' \in Trees /\ Changed' = {}
    BY <2>1, RestoredTyped DEF Changed, Baseline
  <2>3. QED
    BY <1>1, <2>1, <2>2 DEF Deciding, CompletedMeansAudited, RollbackCoversSources
<1>5. CASE AbortFails
  <2>1. /\ stage = "abort" /\ stage' = "returned" /\ rolledBack' = FALSE
        /\ reason' = reason /\ tree' \in Trees
    BY <1>5, PartlyTyped DEF AbortFails, Aborted
  <2>2. QED
    BY <1>1, <2>1 DEF Deciding, CompletedMeansAudited, RollbackCoversSources
<1>6. QED
  BY <1>2, <1>3, <1>4, <1>5, StepKinds

LEMMA DriverUnchanged ==
  ASSUME DriverInv, UNCHANGED vars
  PROVE  DriverInv'
<1>1. /\ UNCHANGED <<stage, state, reason, rolledBack, edits, tree, plan, done>>
      /\ UNCHANGED <<replanAllowed, replans, patches, rejected>>
  BY DEF vars, loopVars, driverVars
<1>2. Deciding' /\ Replans'
  BY <1>1 DEF DriverInv, Deciding, Replans
<1>3. CompletedMeansAudited' /\ RollbackCoversSources' /\ DependenciesFirst'
  BY <1>1 DEF DriverInv, CompletedMeansAudited, RollbackCoversSources, DependenciesFirst,
              Returned, Changed, Steps
<1>4. QED
  BY <1>1, <1>2, <1>3 DEF DriverInv

LEMMA DriverInvariance == Spec => []DriverInv
<1>1. DriverInv /\ [Step]_vars => DriverInv'
  BY DriverStep, DriverUnchanged
<1>2. QED
  BY DriverInitially, <1>1, PTL DEF Spec

(* "Stop only after every plan step is complete and the completion audit
   passes" (eval/agents/prompts.py): whatever the model answers, whatever fails,
   a run that says completed leaves a tree in which its plan's paths and nothing
   else have changed, no test has, and the audit's gates are green. *)
THEOREM CompletedRunsAreAudited == Spec => []CompletedMeansAudited
<1>1. DriverInv => CompletedMeansAudited
  BY DEF DriverInv
<1>2. QED
  BY <1>1, DriverInvariance, PTL

(* A run that says its rollback is complete has every source file's text back and
   no new source file. *)
THEOREM RollbacksRestoreSources == Spec => []RollbackCoversSources
<1>1. DriverInv => RollbackCoversSources
  BY DEF DriverInv
<1>2. QED
  BY <1>1, DriverInvariance, PTL

(* Steps are completed in an order of their dependencies, however the turns mix
   patches, rejections, replans and new plans. *)
THEOREM StepsKeepTheirOrder == Spec => []DependenciesFirst
<1>1. DriverInv => DependenciesFirst
  BY DEF DriverInv
<1>2. QED
  BY <1>1, DriverInvariance, PTL

(* The campaign starts over only when a patch or the audit was rejected and no
   patch has landed since, whatever else the run did in between. *)
THEOREM ReplansAreEarned == Spec => ReplanFollowsRejection
<1>1. DriverInv /\ [Step]_vars =>
        [replans' > replans => rejected]_vars
  <2>1. SUFFICES ASSUME DriverInv, Step, replans' > replans
                 PROVE  rejected
    OBVIOUS
  <2>2. CASE UNCHANGED replans
    BY <2>1, <2>2 DEF DriverInv, Replans
  <2>3. QED
    BY <2>1, <2>2, ReplansStep DEF DriverInv
<1>2. QED
  BY <1>1, DriverInvariance, PTL DEF Spec, ReplanFollowsRejection

(* The driver's own states cannot complete a run either: only the audit does. *)
THEOREM RunCompletesFromAudit == Spec => OnlyTheAuditCompletes
<1>1. DriverInv /\ [Step]_vars =>
        [reason = "none" /\ reason' \in Completed => state = "completion_audit"]_loopVars
  <2>1. SUFFICES ASSUME DriverInv, Step, reason = "none", reason' \in Completed
                 PROVE  state = "completion_audit"
    BY DEF vars
  <2>2. CASE Goes
    BY <2>1, <2>2 DEF Goes
  <2>3. CASE AuditCloses
    BY <2>3 DEF AuditCloses
  <2>4. CASE Abort \/ AbortFails
    BY <2>1, <2>4 DEF Abort, AbortFails, Aborted, Completed
  <2>5. QED
    BY <2>1, <2>2, <2>3, <2>4, StepKinds DEF DriverInv
<1>2. QED
  BY <1>1, DriverInvariance, PTL DEF Spec, OnlyTheAuditCompletes
-----------------------------------------------------------------------------
Outcome == IF ~Returned THEN "open" ELSE IF reason \in Completed THEN "completed"
           ELSE IF rolledBack THEN "restored" ELSE "incomplete"

LEMMA StepRefines ==
  ASSUME DriverInv, Step
  PROVE  [Promise!Next]_<<Origin, tree, Outcome>>
<1> USE DEF DriverInv
<1>1. CASE tree' \in Trees /\ Goes
  <2>1. Outcome = "open" /\ Outcome' = "open"
    BY <1>1 DEF Goes, Outcome, Returned
  <2>2. Promise!Work
    BY <1>1, <2>1 DEF Promise!Work, Outcome
  <2>3. QED
    BY <2>2 DEF Promise!Next
<1>2. CASE AuditCloses
  <2>1. Outcome = "open" /\ Outcome' = "completed"
    BY <1>2 DEF AuditCloses, Outcome, Returned
  <2>2. Promise!Complete
    BY <1>2, <2>1 DEF AuditCloses, Promise!Complete, Outcome
  <2>3. QED
    BY <2>2 DEF Promise!Next
<1>3. CASE Abort
  <2>1. /\ stage = "abort" /\ stage' = "returned" /\ rolledBack' = TRUE
        /\ reason' = reason /\ reason \notin Completed /\ tree' = Restored
    BY <1>3 DEF Abort, Aborted, Deciding
  <2>2. Outcome = "open" /\ Outcome' = "restored"
    BY <2>1 DEF Outcome, Returned
  <2>3. tree' \in Trees /\ \A f \in Sources : Text(tree'[f]) = Text(Origin[f])
    BY <2>1, RestoredTyped
  <2>4. Promise!Restore
    BY <2>2, <2>3 DEF Promise!Restore, Outcome
  <2>5. QED
    BY <2>4 DEF Promise!Next
<1>4. CASE AbortFails
  <2>1. /\ stage = "abort" /\ stage' = "returned" /\ rolledBack' = FALSE
        /\ reason' = reason /\ reason \notin Completed /\ tree' \in Trees
    BY <1>4, PartlyTyped DEF AbortFails, Aborted, Deciding
  <2>2. Outcome = "open" /\ Outcome' = "incomplete"
    BY <2>1 DEF Outcome, Returned
  <2>3. Promise!GiveUp
    BY <2>1, <2>2 DEF Promise!GiveUp, Outcome
  <2>4. QED
    BY <2>3 DEF Promise!Next
<1>5. QED
  BY <1>1, <1>2, <1>3, <1>4, StepKinds

(* A run is a campaign: it closes with a tree its audit passed, or with every
   source text of its baseline, or it says it could not; then it touches the
   repository no more. *)
THEOREM RunIsACampaign == Spec => ImplementsCampaign
<1>1. Init => Promise!Open
  BY DEF Init, LoopInit, Promise!Open, Returned
<1>2. DriverInv /\ [Step]_vars => [Promise!Next]_<<Origin, tree, Outcome>>
  <2>1. CASE UNCHANGED vars
    BY <2>1 DEF vars, loopVars, Outcome, Returned
  <2>2. QED
    BY <2>1, StepRefines
<1>3. QED
  BY <1>1, <1>2, DriverInvariance, PTL DEF Spec, ImplementsCampaign, Promise!AllOrNothing, Outcome
=============================================================================
