-------------------------- MODULE RefactorCampaign --------------------------
(***************************************************************************)
(* eval/agents/campaign.py: RefactorCampaign applies the steps of a plan   *)
(* as one transaction on the repository.  The caller hands in patches, in  *)
(* any order and any number, and finishes the campaign when it likes; the  *)
(* callbacks that submit a patch, verify a step and audit the plan may     *)
(* answer anything and raise.                                              *)
(***************************************************************************)
EXTENDS Naturals, Sequences

CONSTANTS
  Paths,          \* the files below the repository that are not git's
  Contents,       \* their contents, as bytes
  Absent,         \* no such file
  Steps,          \* the step ids of the plan
  Dependencies,   \* step id -> the step ids it depends on
  AffectedPaths,  \* step id -> the paths it may edit
  UnknownStep,    \* a step id the plan does not have
  Audited(_),     \* may the completion audit pass in a tree
  Faults,         \* "raise": a callback raises; "write": a rollback raises
  MaxCalls        \* bound: how many calls of its methods the caller makes

Trees == [Paths -> Contents \cup {Absent}]

ASSUME PlanAssumption ==
  /\ Absent \notin Contents
  /\ Dependencies \in [Steps -> SUBSET Steps]
  /\ AffectedPaths \in [Steps -> SUBSET Paths]
  /\ UnknownStep \notin Steps
ASSUME CallbacksAssumption ==
  /\ \A t \in Trees : Audited(t) \in BOOLEAN
  /\ Faults \subseteq {"raise", "write"}
  /\ MaxCalls \in Nat

VARIABLES
  tree,        \* the repository
  baseline,    \* self._baseline
  pc,          \* "idle", or the callback the campaign is in
  step,        \* the step of the call
  edited,      \* the paths the patch of the call edits
  completed,   \* self._completed
  flags,       \* the steps whose "completed" is set
  closed,      \* self._closed
  result,      \* status of the last call, or "raised"
  verdict,     \* what the call that closed the campaign reported
  calls        \* how many calls were made

vars == <<tree, baseline, pc, step, edited, completed, flags, closed, result,
          verdict, calls>>

Failures == {"invalid_step", "invalid_transition", "invalid_patch",
             "submission_failed", "verification_failed", "incomplete",
             "completion_audit_failed"}
Results == Failures \cup {"none", "raised", "campaign_closed", "step_verified", "completed"}

Completed == {completed[i] : i \in DOMAIN completed}

Init ==
  /\ tree \in Trees
  /\ baseline = tree
  /\ pc = "idle"
  /\ step = UnknownStep
  /\ edited = {}
  /\ completed = <<>>
  /\ flags \in SUBSET Steps
  /\ closed = FALSE
  /\ result = "none"
  /\ verdict = "open"
  /\ calls = 0

(* A method returns. *)
Return(status) == result' = status /\ pc' = "idle"

(* _rollback: unlink what the baseline does not have, write back the rest. *)
Restored == baseline

(* _failure: roll back, close, and report the rollback's verdict; an OSError
   leaves the tree half way, the flags set, and closes the campaign too. *)
Fail(status) ==
  /\ Return(status)
  /\ closed' = TRUE
  /\ \/ /\ tree' = Restored
        /\ flags' = {}
        /\ verdict' = IF Restored = baseline THEN "restored" ELSE "incomplete"
     \/ /\ "write" \in Faults
        /\ tree' \in Trees
        /\ \A f \in Paths : tree'[f] \notin {tree[f], baseline[f]} => baseline[f] # Absent
        /\ UNCHANGED flags
        /\ verdict' = "incomplete"

Called == pc = "idle" /\ calls < MaxCalls /\ calls' = calls + 1

(* Mutant: a closed campaign is not refused. *)
OpenAlways == TRUE

IsOpen == ~closed

CallClosed ==
  /\ Called
  /\ ~IsOpen
  /\ Return("campaign_closed")
  /\ UNCHANGED <<tree, baseline, step, edited, completed, flags, closed, verdict>>

(* Mutant: the flag of the step is consulted, which the caller may have set. *)
RefusalByFlags(s, paths) ==
  CASE s \notin Steps \/ s \in Completed -> "invalid_step"
    [] ~(Dependencies[s] \subseteq flags) -> "invalid_transition"
    [] ~(paths \subseteq AffectedPaths[s]) -> "invalid_patch"
    [] OTHER -> "none"

(* Mutant: a patch may edit any path of the repository. *)
RefusalUnscoped(s, paths) ==
  CASE s \notin Steps \/ s \in Completed -> "invalid_step"
    [] ~(Dependencies[s] \subseteq Completed) -> "invalid_transition"
    [] OTHER -> "none"

(* Why execute_step refuses a patch before it submits it. *)
Refusal(s, paths) ==
  CASE s \notin Steps \/ s \in Completed -> "invalid_step"
    [] ~(Dependencies[s] \subseteq Completed) -> "invalid_transition"
    [] ~(paths \subseteq AffectedPaths[s]) -> "invalid_patch"
    [] OTHER -> "none"

(* execute_step(payload). *)
ExecuteStep(s, paths) ==
  /\ Called
  /\ IsOpen
  /\ step' = s
  /\ edited' = paths
  /\ IF Refusal(s, paths) = "none"
     THEN pc' = "submit" /\ UNCHANGED <<tree, flags, closed, result, verdict>>
     ELSE Fail(Refusal(s, paths))
  /\ UNCHANGED <<baseline, completed>>

(* Whatever a patch does to the files it names. *)
Scribble(paths) ==
  /\ tree' \in Trees
  /\ \A f \in Paths \ paths : tree'[f] = tree[f]

(* The submit callback answers ok: the patch is in the tree. *)
Submitted ==
  /\ pc = "submit"
  /\ Scribble(edited)
  /\ pc' = "verify"
  /\ UNCHANGED <<baseline, step, edited, completed, flags, closed, result, verdict, calls>>

SubmissionFails ==
  /\ pc = "submit"
  /\ Fail("submission_failed")
  /\ UNCHANGED <<baseline, step, edited, completed, calls>>

CompleteStep ==
  /\ completed' = Append(completed, step)
  /\ flags' = flags \cup {step}

Verified ==
  /\ pc = "verify"
  /\ CompleteStep
  /\ Return("step_verified")
  /\ UNCHANGED <<tree, baseline, step, edited, closed, verdict, calls>>

VerificationFails ==
  /\ pc = "verify"
  /\ Fail("verification_failed")
  /\ UNCHANGED <<baseline, step, edited, completed, calls>>

(* An exception of a callback leaves the method; nothing is rolled back, the
   campaign stays open, and a submit callback may have written some files. *)
CallbackRaises ==
  /\ "raise" \in Faults
  /\ pc \in {"submit", "verify", "audit"}
  /\ IF pc = "submit" THEN Scribble(edited) ELSE UNCHANGED tree
  /\ Return("raised")
  /\ UNCHANGED <<baseline, step, edited, completed, flags, closed, verdict, calls>>

(* finish(). *)
Finish ==
  /\ Called
  /\ IsOpen
  /\ IF Steps \subseteq Completed
     THEN pc' = "audit" /\ UNCHANGED <<tree, flags, closed, result, verdict>>
     ELSE Fail("incomplete")
  /\ UNCHANGED <<baseline, step, edited, completed>>

AuditPasses ==
  /\ pc = "audit"
  /\ Audited(tree)
  /\ closed' = TRUE
  /\ verdict' = "completed"
  /\ Return("completed")
  /\ UNCHANGED <<tree, baseline, step, edited, completed, flags, calls>>

AuditFails ==
  /\ pc = "audit"
  /\ Fail("completion_audit_failed")
  /\ UNCHANGED <<baseline, step, edited, completed, calls>>

Next ==
  \/ CallClosed
  \/ \E s \in Steps \cup {UnknownStep}, paths \in SUBSET Paths : ExecuteStep(s, paths)
  \/ Submitted \/ SubmissionFails
  \/ Verified \/ VerificationFails
  \/ CallbackRaises
  \/ Finish \/ AuditPasses \/ AuditFails

Spec == Init /\ [][Next]_vars
-----------------------------------------------------------------------------
(***************************************************************************)
(* Properties.                                                             *)
(***************************************************************************)
TypeOK ==
  /\ tree \in Trees
  /\ baseline \in Trees
  /\ pc \in {"idle", "submit", "verify", "audit"}
  /\ step \in Steps \cup {UnknownStep}
  /\ edited \in SUBSET Paths
  /\ completed \in Seq(Steps)
  /\ flags \in SUBSET Steps
  /\ closed \in BOOLEAN
  /\ result \in Results
  /\ verdict \in {"open", "completed", "restored", "incomplete"}
  /\ calls \in 0 .. MaxCalls

(* The steps are completed once each, and each after the steps it depends on,
   whatever calls were refused or raised in between. *)
StepsInOrder ==
  \A i \in DOMAIN completed :
    /\ \A j \in DOMAIN completed : completed[i] = completed[j] => i = j
    /\ \A d \in Dependencies[completed[i]] : \E j \in 1 .. i - 1 : completed[j] = d

(* As long as the campaign is open, the plan's flags, which the audit reads,
   cover what the campaign itself has completed. *)
FlagsCoverCompleted == ~closed => Completed \subseteq flags

(* However many patches were refused, raised or retried, nothing outside the
   paths of the plan's steps has changed while the campaign is open. *)
OpenStaysInScope ==
  ~closed => \A f \in Paths : tree[f] # baseline[f] => \E s \in Steps : f \in AffectedPaths[s]

(* Refinement: "Apply verified plan steps as one repository-level transaction"
   (campaign.py:53).  The campaign closes with a tree its audit passed, or with
   its exact baseline, or it reports an incomplete rollback; closed, it never
   touches the repository again. *)
Promise == INSTANCE Campaign WITH
  origin <- baseline, outcome <- verdict, AtBaseline <- LAMBDA o, t : t = o

ImplementsCampaign == Promise!AllOrNothing
=============================================================================
