------------------------------ MODULE AgentLoop ------------------------------
(***************************************************************************)
(* eval/agents/loop.py: the workflow both agent arms of the benchmark run  *)
(* on.  AgentLoop.run asks a driver for one LoopAction after another,      *)
(* accounts the model calls it made, and enforces the transition table     *)
(* until the workflow is done or something stops it; then, unless the run  *)
(* completed, it has the driver abort the campaign.                        *)
(*                                                                         *)
(* Here the driver is arbitrary: any LoopAction at any time.  AgentDriver  *)
(* composes the loop with the driver the repository ships.                 *)
(***************************************************************************)
EXTENDS Naturals

CONSTANTS
  Paths,              \* the files of the repository a patch may touch
  Contents,           \* file contents
  Absent,             \* no such file; also: not a key of an edit map
  TotalCalls,         \* LoopBudgets.total_calls
  Limit,              \* LoopBudgets.limit_for: phase -> model calls
  MaxActionCalls,     \* bound: the model calls one LoopAction may report
  AnyEdits,           \* bound: the edits an arbitrary driver may return
  Faults              \* what may go wrong around the loop: "timeout", ...

Slots == Contents \cup {Absent}
Trees == [Paths -> Slots]
NoEdits == [f \in Paths |-> Absent]
(* What is on disk, or in an edit map, after the entries of edits. *)
Overlay(tree, edits) ==
  [f \in Paths |-> IF edits[f] = Absent THEN tree[f] ELSE edits[f]]

WorkflowStates == {"discover", "select", "plan", "execute", "verify", "repair",
                   "completion_audit", "done"}
Phases == {"discover", "plan", "execute", "repair", "completion_audit"}

ASSUME LoopAssumption ==
  /\ Absent \notin Contents
  /\ TotalCalls \in Nat
  /\ Limit \in [Phases -> Nat]
  /\ MaxActionCalls \in Nat
  /\ AnyEdits \subseteq Trees

Completed == {"completed", "completed_after_repair"}
Reasons == Completed \cup
  {"safe_escalation", "iteration_limit", "agent_timeout", "provider_failure",
   "gate_failure", "malformed_response", "invalid_patch", "completion_audit_failure"}
(* What _classify_exception makes of an exception of the driver. *)
Failures == {"agent_timeout", "provider_failure", "invalid_patch", "gate_failure",
             "malformed_response", "completion_audit_failure"}

AllowedTransitions ==
  [discover |-> {"discover", "select"},
   select |-> {"plan"},
   plan |-> {"plan", "execute"},
   execute |-> {"execute", "plan", "verify"},
   verify |-> {"execute", "repair", "completion_audit"},
   repair |-> {"repair", "plan", "verify"},
   completion_audit |-> {"repair", "done"},
   done |-> {}]

LoopActions ==
  [next : WorkflowStates, calls : 0 .. MaxActionCalls, edits : Trees,
   reason : {"none"} \cup Reasons, replanned : BOOLEAN, retries : Nat]

VARIABLES
  stage,       \* "loop", "turn" (inside the driver), "abort" or "returned"
  state,       \* context.state
  calls,       \* context.model_calls
  phaseCalls,  \* context.phase_calls
  repaired,    \* is REPAIR in context.visited_states
  edits,       \* context.edits, which AgentResult.edits returns
  retries,     \* context.metadata["workflow_action_retries"]
  reason,      \* terminal_reason; "none" while the loop runs
  rolledBack   \* metadata["campaign_rollback_complete"]

loopVars == <<stage, state, calls, phaseCalls, repaired, edits, retries, reason, rolledBack>>

LoopInit ==
  /\ stage = "loop"
  /\ state = "discover"
  /\ calls = 0
  /\ phaseCalls = [s \in WorkflowStates |-> 0]
  /\ repaired = FALSE
  /\ edits = NoEdits
  /\ retries = 0
  /\ reason = "none"
  /\ rolledBack = FALSE

Over(spent, spentIn, s) == spent > TotalCalls \/ (s \in Phases /\ spentIn > Limit[s])
(* _check_call_budget, before every call of the driver. *)
BudgetLeft ==
  calls < TotalCalls /\ (state \in Phases => phaseCalls[state] < Limit[state])

(* The loop ends; a run that did not complete goes on to abort. *)
Stop(why) ==
  /\ reason' = why
  /\ stage' = IF why \in Completed THEN "returned" ELSE "abort"

(* The driver raises, and _classify_exception names the reason: no part of
   the action it was working on is accounted. *)
Raise(why) ==
  /\ Stop(why)
  /\ UNCHANGED <<state, calls, phaseCalls, repaired, edits, retries, rolledBack>>

(* Mutant: DONE may be entered from anywhere. *)
AllowedOrDone(current, requested) == requested \in AllowedTransitions[current] \cup {"done"}

Allowed(current, requested) == requested \in AllowedTransitions[current]

Enter(next) ==
  /\ state' = next
  /\ repaired' = (repaired \/ next = "repair")

(* The workflow reached DONE; the deadline is checked once more. *)
Finish ==
  \/ Stop(IF repaired THEN "completed_after_repair" ELSE "completed")
  \/ "timeout" \in Faults /\ Stop("agent_timeout")

(* The transition an accounted action asks for. *)
Advance(a) ==
  LET claims == a.reason \in Completed /\ a.next = "done"
      stops == a.reason \notin Completed \cup {"none"}
  IN  IF stops THEN Stop(a.reason) /\ UNCHANGED <<state, repaired>>
      ELSE IF ~Allowed(state, a.next) \/ (a.reason # "none" /\ ~claims)
      THEN Stop("malformed_response") /\ UNCHANGED <<state, repaired>>
      ELSE /\ Enter(a.next)
           /\ IF claims THEN Stop(a.reason)
              ELSE IF a.next = "done" THEN Finish
              ELSE stage' = "loop" /\ UNCHANGED reason

(* A replan forgets the edits; those of the same action are then added. *)
Merged(a) == Overlay(IF a.replanned THEN NoEdits ELSE edits, a.edits)

(* One LoopAction comes back from the driver. *)
Handle(a) ==
  LET spent == calls + a.calls
      spentIn == phaseCalls[state] + a.calls
  IN  /\ calls' = spent
      /\ phaseCalls' = [phaseCalls EXCEPT ![state] = spentIn]
      /\ IF Over(spent, spentIn, state)
         THEN /\ Stop("iteration_limit")
              /\ UNCHANGED <<state, repaired, edits, retries>>
         ELSE /\ edits' = Merged(a)
              /\ retries' = a.retries
              /\ Advance(a)
      /\ UNCHANGED rolledBack

Exhausted ==
  /\ stage = "loop"
  /\ ~BudgetLeft
  /\ Raise("iteration_limit")

TimesOut ==
  /\ "timeout" \in Faults
  /\ stage = "loop"
  /\ Raise("agent_timeout")

(* Mutant: the rollback is reported complete whatever abort() answered. *)
AbortedAnyhow(complete) ==
  /\ stage = "abort"
  /\ rolledBack' = TRUE
  /\ edits' = NoEdits
  /\ stage' = "returned"
  /\ UNCHANGED <<state, calls, phaseCalls, repaired, retries, reason>>

(* driver.abort() answered; only a complete rollback clears the edits. *)
Aborted(complete) ==
  /\ stage = "abort"
  /\ rolledBack' = complete
  /\ edits' = IF complete THEN NoEdits ELSE edits
  /\ stage' = "returned"
  /\ UNCHANGED <<state, calls, phaseCalls, repaired, retries, reason>>

(* The driver is asked for an action: any driver, any action. *)
Drive ==
  /\ stage = "loop" /\ BudgetLeft
  /\ \E a \in [next : WorkflowStates, calls : 0 .. MaxActionCalls, edits : AnyEdits,
               reason : {"none"} \cup Reasons, replanned : BOOLEAN,
               retries : {retries}] : Handle(a)

DriverRaises ==
  /\ stage = "loop" /\ BudgetLeft
  /\ \E why \in Failures : Raise(why)

(* The loop under any driver at all. *)
LoopNext ==
  \/ Exhausted \/ TimesOut \/ Drive \/ DriverRaises
  \/ \E complete \in BOOLEAN : Aborted(complete)

LoopSpec == LoopInit /\ [][LoopNext]_loopVars
-----------------------------------------------------------------------------
(***************************************************************************)
(* Properties of the loop under any driver.                                *)
(***************************************************************************)
LoopTypeOK ==
  /\ stage \in {"loop", "turn", "abort", "returned"}
  /\ state \in WorkflowStates
  /\ calls \in Nat
  /\ phaseCalls \in [WorkflowStates -> Nat]
  /\ repaired \in BOOLEAN
  /\ edits \in Trees
  /\ retries \in Nat
  /\ reason \in {"none"} \cup Reasons
  /\ rolledBack \in BOOLEAN

(* Whatever a driver asks for or claims, a run becomes completed only by a
   step out of COMPLETION_AUDIT ("completion requires transition to DONE",
   loop.py:199; "Reject transitions that bypass selection, planning, or
   completion checks", loop.py:134). *)
OnlyTheAuditCompletes ==
  [][reason = "none" /\ reason' \in Completed => state = "completion_audit"]_loopVars

(* A run that completed stayed within every budget, even when a driver
   reports several calls at once; one that was stopped overran by at most
   that one action (_account_calls, loop.py:265). *)
WithinBudget ==
  /\ calls <= TotalCalls + MaxActionCalls
  /\ reason \in Completed =>
       /\ calls <= TotalCalls
       /\ \A s \in Phases : phaseCalls[s] <= Limit[s]
=============================================================================
