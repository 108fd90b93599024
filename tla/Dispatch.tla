------------------------------- MODULE Dispatch -------------------------------
(***************************************************************************)
(* run_campaign: analysis/audit.py ranks the files and orders their tasks, *)
(* agents/orchestrator.py dispatches each task to the specialist of its    *)
(* dominant finding, and the specialist has it verified, as one file or as *)
(* specs for the engines (agents/base.py, complexity_agent.py,             *)
(* import_agent.py, transforms/node_replace.py).  What the audit finds is  *)
(* never dead code or a duplicate: those specialists get no task.          *)
(*                                                                         *)
(* An edit that is verified ends committed, rolled back, or in an          *)
(* exception (Checker, ApplyMulti).                                        *)
(***************************************************************************)
EXTENDS LlmPlanner

VARIABLE campaign   \* where run_campaign is, and what it has counted

workbenchVars == <<analysisVars, indexVars, docVars, plannerVars, campaign>>

Idle == [at |-> "idle"]

WorkbenchInit ==
  /\ AnalysesInit /\ contexts = <<>> /\ PlannerInit
  /\ campaign = Idle

(* The finding of the highest rank; of several, the one found first. *)
Dominant(found) ==
  CHOOSE o \in found : \A p \in found : p.rank < o.rank \/ (p.rank = o.rank /\ o.at <= p.at)

Score(found) == MapThenSumSet(LAMBDA o : o.rank, found)

(* build_plan: the files with findings, those with the fewest dependents
   first, of these the one that scores most. *)
Tasks(findings) ==
  LET uses == UsesIn(code)
      dependents(m) == Cardinality(DependentsOf(m, uses))
      before(a, b) == \/ dependents(a) < dependents(b)
                      \/ dependents(a) = dependents(b) /\ Score(findings[a]) > Score(findings[b])
      files == CHOOSE s \in SetToSeqs({m \in Modules : findings[m] # {}}) :
                 \A i, j \in DOMAIN s : i < j => ~before(s[j], s[i])
  IN  [i \in DOMAIN files |-> [file |-> files[i], kind |-> Dominant(findings[files[i]]).kind]]

(* audit_repo: every file is analysed, or known from the cache. *)
Audited ==
  LET texts == {TextOf(m, code, imports) : m \in Modules}
      first(text) == CHOOSE m \in Modules : TextOf(m, code, imports) = text
  IN  Updated([text \in texts |-> [file |-> first(text), found |-> Opportunities(text)]], analysed)

(* The plan is saved, taken for confirmed, saved and loaded again. *)
BeginCampaign ==
  /\ Charged(2)     \* bound: one campaign, and one other call or edit
  /\ analysed' = Audited
  /\ campaign' = [at |-> "task", tasks |-> Tasks([m \in Modules |-> Audited[TextOf(m, code, imports)].found]),
                  committed |-> 0, rolledBack |-> 0, skipped |-> 0, last |-> "skipped"]
  /\ report' = [tool |-> "run_agents"]
  /\ UNCHANGED <<code, imports, semantic, fingerprints, deadCode, indexVars, docVars, plannerVars>>

(* What is counted when a task ends. *)
Ended(c, outcome) ==
  [c EXCEPT !.at = "task", !.tasks = Tail(@), !.last = "skipped",
            !.committed = @ + (IF outcome = "committed" THEN 1 ELSE 0),
            !.rolledBack = @ + (IF outcome = "rolled-back" THEN 1 ELSE 0),
            !.skipped = @ + (IF outcome \in {"skipped", "raised"} THEN 1 ELSE 0)]

AtTask(kinds) ==
  campaign.at = "task" /\ campaign.tasks # <<>> /\ Head(campaign.tasks).kind \in kinds

Complexity == {"split_function", "flatten_nesting", "split_module"}

(* ImportAgent, on the text path of SpecialistAgent.handle. *)
OrderImports ==
  LET file == Head(campaign.tasks).file
  IN  /\ AtTask({"reorder_imports"})
      /\ \E outcome \in {"committed", "rolled-back", "raised"} :
           /\ campaign' = Ended(campaign, outcome)
           /\ imports' = IF outcome = "committed" THEN [imports EXCEPT ![file] = Reordered(@)]
                                                  ELSE imports
      /\ report' = [tool |-> "none"]
      /\ UNCHANGED <<code, calls, semantic, cacheVars, indexVars, docVars, plannerVars>>

(* ComplexityAgent.propose_specs: a client, and the god functions of the file
   in a graph built anew. *)
Propose(use) ==
  LET file == Head(campaign.tasks).file
  IN  /\ AtTask(Complexity)
      /\ campaign' = [campaign EXCEPT !.at = "propose"]
      /\ IF Available(use)
         THEN /\ session' = Opened(Jobs({d \in GodFunctions : HomeOf[d] = file}), use, FALSE)
              /\ Reopened({"decisions"})
         ELSE /\ session' = Opened(<<>>, use, FALSE)
              /\ UNCHANGED backend
      /\ UNCHANGED <<analysisVars, rows, docVars, decisions, recorded>>

(* No spec: the file as it is goes through apply_and_verify. *)
ApplyText ==
  /\ campaign.at = "propose" /\ session.todo = <<>> /\ session.items = <<>>
  /\ \E outcome \in {"committed", "rolled-back", "raised"} : campaign' = Ended(campaign, outcome)
  /\ session' = Closed
  /\ UNCHANGED <<analysisVars, indexVars, docVars, decisions, recorded>>

(* Mutant: a spec that is passed over is not left behind. *)
RestOfApplied(items, applied) == IF applied THEN Tail(items) ELSE items

Rest(items, applied) == Tail(items)

(* replace_function: the new source in the place of the function, if it is there
   and differs. *)
Applicable(item) == code[item.target] \notin {Gone, item.new}
Replaced(item) == [code EXCEPT ![item.target] = item.new]

(* _apply_verified, the next spec: one without a target or an edit is passed
   over; an engine that raises, as when the new source does not parse, ends the
   task, whatever was committed for it. *)
ApplySpec ==
  LET item == Head(session.items)
      on == [campaign EXCEPT !.at = "apply"]
  IN  /\ campaign.at \in {"propose", "apply"} /\ session.todo = <<>> /\ session.items # <<>>
      /\ \/ /\ ~Applicable(item)
            /\ session' = [session EXCEPT !.items = Rest(@, FALSE)]
            /\ campaign' = on
            /\ UNCHANGED code
         \/ /\ Applicable(item)
            /\ \E outcome \in {"committed", "rolled-back"} :
                 /\ campaign' = [on EXCEPT !.last = outcome]
                 /\ code' = IF outcome = "committed" THEN Replaced(item) ELSE code
            /\ session' = [session EXCEPT !.items = Rest(@, TRUE)]
         \/ /\ Applicable(item)
            /\ campaign' = Ended(campaign, "raised")
            /\ session' = Closed
            /\ UNCHANGED code
      /\ report' = [tool |-> "none"]
      /\ UNCHANGED <<imports, calls, semantic, cacheVars, indexVars, docVars, decisions, recorded>>

(* The record of a task is that of the last spec that was verified. *)
EndSpecs ==
  /\ campaign.at = "apply" /\ session.items = <<>>
  /\ campaign' = Ended(campaign, campaign.last)
  /\ session' = Closed
  /\ UNCHANGED <<analysisVars, indexVars, docVars, decisions, recorded>>

EndCampaign ==
  /\ campaign.at = "task" /\ campaign.tasks = <<>>
  /\ campaign' = Idle
  /\ UNCHANGED <<analysisVars, indexVars, docVars, plannerVars>>
-----------------------------------------------------------------------------
(* The server answers one call at a time; whoever edits the repository does not
   wait for it. *)
Ready == ~session.open /\ campaign.at = "idle"

(* What a process in the middle of a call does next. *)
Going ==
  /\ ~Ready
  /\ \/ IndexCodebase /\ UNCHANGED campaign
     \/ Decompose /\ UNCHANGED campaign
     \/ EndPlan /\ UNCHANGED campaign
     \/ OrderImports
     \/ \E use \in {"live", "offline"} : Propose(use)
     \/ ApplyText
     \/ ApplySpec
     \/ EndSpecs
     \/ EndCampaign

(* The read-only tools. *)
Using ==
  \/ FindDeadCode
  \/ FindDuplicates
  \/ \E m \in Modules : FindRelated(m) \/ AnalyzeFile(m)

Documenting == \E m \in Modules : GenerateDocs(m) \/ GetContextMap(m)

WorkbenchNext ==
  \/ (\E e \in Edits : Edit(e[1], e[2])) /\ UNCHANGED <<docVars, plannerVars, campaign>>
  \/ Ready /\ Using /\ UNCHANGED <<docVars, plannerVars, campaign>>
  \/ Ready /\ Documenting /\ UNCHANGED <<plannerVars, campaign>>
  \/ Ready /\ (\E use \in {"live", "offline"} : BeginPlan(use)) /\ UNCHANGED campaign
  \/ Ready /\ BeginCampaign
  \/ Going

WorkbenchSpec ==
  WorkbenchInit /\ [][WorkbenchNext]_workbenchVars /\ WF_workbenchVars(Going)
-----------------------------------------------------------------------------
(* Properties. *)

(* What ImportAgent writes, analyze_file does not report again, and reordering
   it once more changes nothing: the two readings of the rule agree, but on a
   statement of several modules and on one whose keyword no space follows. *)
ReorderSettles ==
  \A m \in Modules :
    LET settled == Reordered(imports[m])
    IN  /\ Reordered(settled) = settled
        /\ OutOfOrder(settled) => Range(settled) \cap (Several \cup Tabbed \cup Joined) # {}

(* A campaign returns, and a plan is made, whatever the model answers, whatever
   is refused, skipped or raised on the way, and whoever edits the repository
   meanwhile. *)
CallsReturn == []<>Ready
=============================================================================
