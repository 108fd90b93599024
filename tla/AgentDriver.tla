----------------------------- MODULE AgentDriver -----------------------------
(***************************************************************************)
(* eval/agents/driver.py on top of the loop: one turn asks the model for a *)
(* list of tool calls, executes its submit_patch calls against the         *)
(* repository one by one, and then decodes the workflow action the model   *)
(* declared; VERIFY, COMPLETION_AUDIT and the other bookkeeping states are *)
(* the driver's own.  What the model answers is arbitrary.                 *)
(*                                                                         *)
(* submit_patch is that of eval/agents/tools.py (control arm) or           *)
(* eval/agents/harness_tools.py over refactorika/harness.py (harness arm). *)
(***************************************************************************)
EXTENDS AgentLoop

CONSTANTS
  Sources,        \* the *.py files: all the driver ever snapshots
  TestPaths,      \* the test files among the paths, by name or directory
  TestsDir,       \* those under tests/
  Origin,         \* the tree at the start of the run
  TextOf,         \* what read_text(errors="replace") makes of a content
  Torn,           \* a file a raising write_text left truncated
  Arms,           \* the arms to run: "agentic", "agentic+harness"
  Accepts(_, _),  \* harness arm: do verify_edits' gates accept this tree after that one
  Green(_),       \* do the audit's tests, lint and type check pass in a tree
  Plans,          \* the structured plans the model may declare
  Patches,        \* the patches the model may submit: a step id and edits
  NoPlan,         \* None
  BadPlan,        \* a declared plan or next_state that does not decode
  MaxPatches      \* bound: the patches of one turn

(* _decode_plan: plan.affected_paths; per step id its affected_paths and
   dependencies; and the steps the model declares "completed" already. *)
Decodes(p) ==
  /\ p.paths \subseteq Paths
  /\ p.scope \in [p.steps -> SUBSET Paths]
  /\ \A s \in p.steps : p.deps[s] \subseteq p.steps
  /\ p.claimed \subseteq p.steps

ASSUME DriverAssumption ==
  /\ Sources \subseteq Paths /\ TestPaths \subseteq Paths /\ TestsDir \subseteq TestPaths
  /\ Origin \in Trees
  /\ Torn \in Contents
  /\ TextOf \in [Contents -> Contents]
  /\ \A c \in Contents : TextOf[TextOf[c]] = TextOf[c]
  /\ Arms \subseteq {"agentic", "agentic+harness"}
  /\ \A t \in Trees : Green(t) \in BOOLEAN /\ \A u \in Trees : Accepts(t, u) \in BOOLEAN
  /\ \A p \in Plans : Decodes(p)
  /\ NoPlan \notin Plans /\ BadPlan \notin Plans
  /\ \A p \in Patches : p.edits \in Trees
  /\ MaxPatches \in Nat

VARIABLES
  arm,           \* which submit_patch the tools have
  tree,          \* the repository
  plan,          \* self._plan
  done,          \* the steps of the plan whose "completed" is set
  lastPatch,     \* self._last_patch_ok: "none", "ok" or "bad"
  replanAllowed, \* self._replan_allowed
  replans,       \* self._replan_attempts
  auditRepaired, \* self._completion_repair_attempted
  submitted,     \* the edits that landed in this turn
  patches,       \* how many patches this turn has tried
  rejected       \* history: see Watch

driverVars == <<arm, plan, done, lastPatch, replanAllowed, replans, auditRepaired>>
vars == <<loopVars, driverVars, tree, submitted, patches, rejected>>

Text(content) == IF content = Absent THEN Absent ELSE TextOf[content]
(* The baseline taken by the constructor, and the paths changed since. *)
Baseline == [f \in Sources |-> Text(Origin[f])]
Changed == {f \in Sources : Text(tree[f]) # Baseline[f]}

Harness == arm = "agentic+harness"

Touched(e) == {f \in Paths : e[f] # Absent}
Steps == IF plan = NoPlan THEN {} ELSE plan.steps

Init ==
  /\ LoopInit
  /\ arm \in Arms
  /\ tree = Origin
  /\ plan = NoPlan
  /\ done = {}
  /\ lastPatch = "none"
  /\ replanAllowed = FALSE
  /\ replans = 0
  /\ auditRepaired = FALSE
  /\ submitted = NoEdits
  /\ patches = 0
  /\ rejected = FALSE

(* A LoopAction without edits or reason. *)
Action(next, modelCalls) ==
  [next |-> next, calls |-> modelCalls, edits |-> NoEdits, reason |-> "none",
   replanned |-> FALSE, retries |-> retries]

Asked(s) == stage = "loop" /\ BudgetLeft /\ state = s

(* The states that cost no model call. *)
SelectDone ==
  /\ Asked("select")
  /\ Handle(Action("plan", 0))
  /\ UNCHANGED <<driverVars, tree, submitted, patches>>

PlanKnown ==
  /\ Asked("plan") /\ plan # NoPlan
  /\ Handle(Action("execute", 0))
  /\ UNCHANGED <<driverVars, tree, submitted, patches>>

VerifyUnpatched ==
  /\ Asked("verify") /\ lastPatch = "none"
  /\ Raise("malformed_response")
  /\ UNCHANGED <<driverVars, tree, submitted, patches>>

VerifyPatched ==
  /\ Asked("verify") /\ lastPatch # "none"
  /\ Handle(Action(IF lastPatch = "bad" THEN "repair"
                   ELSE IF done # Steps THEN "execute" ELSE "completion_audit", 0))
  /\ UNCHANGED <<driverVars, tree, submitted, patches>>

(* Mutant: changes outside the plan go unnoticed. *)
PlanMetUnscoped ==
  /\ plan # NoPlan
  /\ done = plan.steps
  /\ plan.paths \subseteq Changed
  /\ Changed \cap TestPaths = {}

(* The audit's own checks of the plan against the diff. *)
PlanMet ==
  /\ plan # NoPlan
  /\ done = plan.steps
  /\ plan.paths \subseteq Changed
  /\ Changed \subseteq plan.paths \cup TestPaths
  /\ Changed \cap TestPaths = {}

AuditVerdict(passed) ==
  IF passed THEN Action("done", 0)
  ELSE IF auditRepaired
       THEN [Action("completion_audit", 0) EXCEPT !.reason = "completion_audit_failure"]
       ELSE Action("repair", 0)

(* What run_tests, run_lint and run_typecheck may say: a command that crashes
   or times out counts as red. *)
GatesSay == {Green(tree)} \cup (IF "gate" \in Faults THEN {FALSE} ELSE {})

(* _run_completion_audit. *)
Audit ==
  /\ Asked("completion_audit")
  /\ \E green \in GatesSay :
       LET passed == PlanMet /\ green
       IN  /\ Handle(AuditVerdict(passed))
           /\ auditRepaired' = (auditRepaired \/ ~passed)
           /\ replanAllowed' = (replanAllowed \/ (~passed /\ ~auditRepaired))
  /\ UNCHANGED <<arm, plan, done, lastPatch, replans, tree, submitted, patches>>

ModelTurn ==
  \/ Asked("discover") \/ Asked("execute") \/ Asked("repair")
  \/ Asked("plan") /\ plan = NoPlan

CallModel ==
  /\ ModelTurn
  /\ stage' = "turn"
  /\ submitted' = NoEdits
  /\ patches' = 0
  /\ UNCHANGED <<state, calls, phaseCalls, repaired, edits, retries, reason, rolledBack,
                 driverVars, tree>>

(* complete_tools: the error classes of a failed completion, and what the
   driver raises for one. *)
CompletionErrors == {"configuration_failure", "provider_failure", "malformed_response"}
Raised(class) == IF class = "malformed_response" THEN class ELSE "provider_failure"

ProviderFails ==
  /\ "provider" \in Faults
  /\ ModelTurn
  /\ \E class \in CompletionErrors : Raise(Raised(class))
  /\ UNCHANGED <<driverVars, tree, submitted, patches>>

(* A content block that is no block, or a second workflow_action. *)
MalformedBlock ==
  /\ stage = "turn"
  /\ Raise("malformed_response")
  /\ UNCHANGED <<driverVars, tree, submitted, patches>>

(* Mutant: dependencies are not looked at. *)
InStepUnordered(p) ==
  /\ plan # NoPlan
  /\ p.step \in plan.steps
  /\ Touched(p.edits) \subseteq plan.scope[p.step]

(* _validate_plan_step. *)
InStep(p) ==
  /\ plan # NoPlan
  /\ p.step \in plan.steps
  /\ plan.deps[p.step] \subseteq done
  /\ Touched(p.edits) \subseteq plan.scope[p.step]

(* What submit_patch itself refuses before it writes: the control arm any test
   file, the harness arm what is under tests/ or no Python. *)
ControlWritable(e) == Touched(e) # {} /\ Touched(e) \cap TestPaths = {}
HarnessWritable(e) ==
  Touched(e) # {} /\ Touched(e) \cap TestsDir = {} /\ Touched(e) \subseteq Sources
Writable(e) == IF Harness THEN HarnessWritable(e) ELSE ControlWritable(e)

(* submit_patch when all goes well: in the control arm the files are written,
   in the harness arm the gates accept them as well. *)
ControlSubmit(e) ==
  /\ ~Harness /\ ControlWritable(e)
  /\ tree' = Overlay(tree, e)
HarnessSubmit(e) ==
  /\ Harness /\ HarnessWritable(e)
  /\ Accepts(tree, Overlay(tree, e))
  /\ tree' = Overlay(tree, e)

TryPatch(p) ==
  /\ stage = "turn"
  /\ patches < MaxPatches
  /\ patches' = patches + 1

(* Mutant: any rejected patch of the run allows a replan for good. *)
LandedKeepingReplan(p) ==
  /\ lastPatch' = "ok"
  /\ UNCHANGED replanAllowed

(* The bookkeeping of a patch that landed. *)
Landed(p) ==
  /\ lastPatch' = "ok"
  /\ replanAllowed' = FALSE

PatchLands(p) ==
  /\ TryPatch(p)
  /\ InStep(p)
  /\ ControlSubmit(p.edits) \/ HarnessSubmit(p.edits)
  /\ submitted' = Overlay(submitted, p.edits)
  /\ done' = done \cup {p.step}
  /\ Landed(p)
  /\ UNCHANGED <<loopVars, arm, plan, replans, auditRepaired>>

PatchBad ==
  /\ lastPatch' = "bad"
  /\ replanAllowed' = TRUE
  /\ UNCHANGED <<arm, plan, done, replans, auditRepaired, submitted>>

PatchRefused(p) ==
  /\ TryPatch(p)
  /\ ~(InStep(p) /\ Writable(p.edits))
  /\ PatchBad
  /\ UNCHANGED <<loopVars, tree>>

(* Harness arm: the gates reject, or crash, and verify_edits writes back the
   text it had read; or their output does not decode, and the ValueError of
   that leaves the edits where they are. *)
HarnessReject(e) ==
  /\ Harness /\ HarnessWritable(e)
  /\ \/ /\ "gate" \in Faults \/ ~Accepts(tree, Overlay(tree, e))
        /\ tree' = [f \in Paths |-> IF f \in Touched(e) THEN Text(tree[f]) ELSE tree[f]]
     \/ "gate" \in Faults /\ tree' = Overlay(tree, e)

PatchRejected(p) ==
  /\ TryPatch(p)
  /\ InStep(p) /\ HarnessReject(p.edits)
  /\ PatchBad
  /\ UNCHANGED loopVars

(* Control arm: a write raises; the files written before it are restored,
   the one it was writing is not. *)
WriteFailsControl(p) ==
  /\ "write" \in Faults /\ ~Harness
  /\ TryPatch(p)
  /\ InStep(p) /\ Writable(p.edits)
  /\ \/ UNCHANGED tree
     \/ \E f \in Touched(p.edits) : tree' = [tree EXCEPT ![f] = Torn]
  /\ PatchBad
  /\ UNCHANGED loopVars

(* Harness arm: the OSError leaves verify_edits, submit_patch and the driver. *)
WriteFailsHarness(p) ==
  /\ "write" \in Faults /\ Harness
  /\ TryPatch(p)
  /\ InStep(p) /\ Writable(p.edits)
  /\ \E written \in SUBSET Touched(p.edits) :
       \E f \in Touched(p.edits) \ written :
         tree' \in {[g \in Paths |-> IF g \in written THEN p.edits[g]
                                     ELSE IF g = f THEN half ELSE tree[g]]
                      : half \in {tree[f], Torn}}
  /\ Raise("malformed_response")
  /\ UNCHANGED <<driverVars, submitted>>

(* Mutant: the files a campaign created survive the abort. *)
RestoredKnown ==
  [f \in Paths |-> IF f \in Sources /\ Baseline[f] # Absent THEN Baseline[f] ELSE tree[f]]

(* abort(): unlink every new *.py file and write every baseline text back. *)
Restored == [f \in Paths |-> IF f \in Sources THEN Baseline[f] ELSE tree[f]]

(* An OSError stops the abort half way. *)
PartlyRestored ==
  \E finished \in SUBSET Sources : \E f \in Sources \ finished :
    tree' \in {[g \in Paths |-> IF g \in finished THEN Restored[g]
                                ELSE IF g = f THEN half ELSE tree[g]]
                 : half \in {tree[f], Torn}}

Declarations ==
  [next : WorkflowStates, plan : Plans \cup {NoPlan, BadPlan},
   reason : {"none", "completed", "safe_escalation"}, rationale : BOOLEAN]

Replanning(d) == state \in {"execute", "repair"} /\ d.next = "plan"

(* Where _decode_action raises MalformedResponseError. *)
Invalid(d) ==
  \/ d.plan = BadPlan
  \/ state = "plan" /\ d.plan = NoPlan
  \/ Replanning(d) /\ ~(d.rationale /\ replanAllowed)

(* Mutant: a turn whose workflow action is sent back is not charged. *)
SendBackFree(again) == Action(state, 0)

(* The model is told why and asked again. *)
SendBack(again) == [Action(state, 1) EXCEPT !.retries = retries + again]

(* An invalid workflow action is sent back while planning, and once per run
   for a replan request; otherwise it ends the run. *)
InvalidAction(d) ==
  /\ stage = "turn"
  /\ Invalid(d)
  /\ IF Replanning(d)
     THEN Handle(IF retries >= 1
                 THEN [Action(state, 1) EXCEPT !.reason = "safe_escalation"]
                 ELSE SendBack(1))
     ELSE IF state = "plan" THEN Handle(SendBack(0)) ELSE Raise("malformed_response")
  /\ UNCHANGED <<driverVars, tree, submitted, patches>>

(* No workflow_action in the turn. *)
Undeclared ==
  /\ stage = "turn"
  /\ Handle(IF state = "plan" THEN SendBack(0)
            ELSE [Action(IF state \in {"execute", "repair"} /\ Touched(submitted) # {}
                         THEN "verify" ELSE state, 1) EXCEPT !.edits = submitted])
  /\ UNCHANGED <<driverVars, tree, submitted, patches>>

Decoded(next, why) ==
  [Action(next, 1) EXCEPT !.edits = submitted, !.reason = why]

AdoptPlan(p) ==
  IF p = NoPlan THEN UNCHANGED <<plan, done>> ELSE (plan' = p /\ done' = p.claimed)

(* A workflow action that is no replan; one that leaves DISCOVER for PLAN or
   EXECUTE is taken through SELECT. *)
ValidAction(d) ==
  /\ stage = "turn"
  /\ ~Invalid(d) /\ ~Replanning(d)
  /\ AdoptPlan(d.plan)
  /\ Handle(Decoded(IF state = "discover" /\ d.next \in {"plan", "execute"}
                    THEN "select" ELSE d.next, d.reason))
  /\ UNCHANGED <<arm, lastPatch, replanAllowed, replans, auditRepaired, tree, submitted, patches>>

ReplanEscalates(d) ==
  /\ stage = "turn"
  /\ Replanning(d) /\ ~Invalid(d) /\ replans >= 1
  /\ Handle(Decoded("execute", "safe_escalation"))
  /\ UNCHANGED <<driverVars, tree, submitted, patches>>

(* The campaign starts over from its baseline. *)
Replan(d) ==
  /\ stage = "turn"
  /\ Replanning(d) /\ ~Invalid(d) /\ replans < 1
  /\ tree' = Restored
  /\ plan' = d.plan
  /\ done' = IF d.plan = NoPlan THEN {} ELSE d.plan.claimed
  /\ lastPatch' = "none"
  /\ replanAllowed' = FALSE
  /\ auditRepaired' = FALSE
  /\ replans' = replans + 1
  /\ Handle([Decoded("plan", d.reason) EXCEPT !.replanned = TRUE])
  /\ UNCHANGED <<arm, submitted, patches>>

ReplanRollbackFails(d) ==
  /\ "write" \in Faults
  /\ stage = "turn"
  /\ Replanning(d) /\ ~Invalid(d) /\ replans < 1
  /\ PartlyRestored
  /\ Handle(Decoded("execute", "gate_failure"))
  /\ UNCHANGED <<driverVars, submitted, patches>>

(* The run did not complete: the loop aborts the campaign. *)
Abort ==
  /\ Aborted(TRUE)
  /\ tree' = Restored
  /\ done' = {}
  /\ UNCHANGED <<arm, plan, lastPatch, replanAllowed, replans, auditRepaired, submitted, patches>>

AbortFails ==
  /\ "write" \in Faults
  /\ Aborted(FALSE)
  /\ PartlyRestored
  /\ UNCHANGED <<driverVars, submitted, patches>>

Handler ==
  \/ SelectDone \/ PlanKnown \/ VerifyUnpatched \/ VerifyPatched \/ Audit
  \/ CallModel \/ ProviderFails \/ MalformedBlock \/ Undeclared
  \/ \E p \in Patches : \/ PatchLands(p) \/ PatchRefused(p) \/ PatchRejected(p)
                        \/ WriteFailsControl(p) \/ WriteFailsHarness(p)
  \/ \E d \in Declarations : \/ InvalidAction(d) \/ ValidAction(d) \/ ReplanEscalates(d)
                             \/ Replan(d) \/ ReplanRollbackFails(d)
  \/ Abort \/ AbortFails
  \/ (Exhausted \/ TimesOut) /\ UNCHANGED <<driverVars, tree, submitted, patches>>

(* History: has a patch or the audit been rejected, and has since then no
   patch landed and the campaign not started over? *)
Watch ==
  rejected' = IF patches' > patches /\ stage' = stage THEN lastPatch' = "bad"
              ELSE IF state = "completion_audit" /\ state' = "repair" THEN TRUE
              ELSE rejected /\ replans' = replans

Step == Handler /\ Watch

Spec == Init /\ [][Step]_vars
(* The loop and the driver are one thread that runs on. *)
FairSpec == Spec /\ WF_vars(Step)
-----------------------------------------------------------------------------
(***************************************************************************)
(* Properties.                                                             *)
(***************************************************************************)
Returned == stage = "returned"

(* "Stop only after every plan step is complete and the completion audit
   passes" (prompts.py, AGENTIC_HARNESS_SYSTEM): in the tree a completed run
   leaves behind, the plan's paths and no others have changed, no test has,
   every step is complete, and tests, lint and type check pass. *)
CompletedMeansAudited ==
  Returned /\ reason \in Completed =>
    /\ done = Steps /\ plan # NoPlan
    /\ Changed = plan.paths
    /\ Changed \cap TestPaths = {}
    /\ Green(tree)

(* A run that stopped any other way and reports campaign_rollback_complete
   has the text of every source file back, and no new source file, whatever
   patches, replans and failed writes came before. *)
RollbackCoversSources ==
  Returned /\ rolledBack => Changed = {} /\ edits = NoEdits

(* A step is complete only when the steps it depends on are, but for what the
   plan itself claimed: no order of patches, rejections, replans and plan
   changes lets a patch overtake a dependency. *)
DependenciesFirst ==
  plan # NoPlan => \A s \in done \ plan.claimed : plan.deps[s] \subseteq done

(* A replan follows a rejected patch or audit, and no patch landed between
   the two, nor did the campaign start over. *)
ReplanFollowsRejection ==
  [][replans' > replans => rejected]_vars

(* "Every loop terminates" (docs/15-four-arm-agent-benchmark-contract.md):
   whatever the model answers, the budgets end the run. *)
RunReturns == <>Returned

Promise == INSTANCE Campaign WITH
  Audited <- LAMBDA t : Green(t),
  origin <- Origin,
  AtBaseline <- LAMBDA o, t : \A f \in Sources : Text(t[f]) = Text(o[f]),
  outcome <- IF ~Returned THEN "open" ELSE IF reason \in Completed THEN "completed"
             ELSE IF rolledBack THEN "restored" ELSE "incomplete"

(* Refinement: seen through its source files a run is a campaign: it closes
   with an audited tree, or with its baseline, or it says it could not. *)
ImplementsCampaign == Promise!AllOrNothing

(* The edits a completed run returns are what it changed on disk
   (tests/test_agent_driver.py: "assert result.edits == ..."). *)
EditsAreTheDiff ==
  Returned /\ reason \in Completed => tree = Overlay(Origin, edits)
=============================================================================
