----------------------------- MODULE HarnessBench -----------------------------
(***************************************************************************)
(* eval/harness_bench.py: one patch of a model, without the harness and    *)
(* with it.  First the gates and the hidden tests are tried on patches     *)
(* known to be good or bad; then, pair by pair, the off arm ships what is  *)
(* proposed, and the on arm has it verified (module VerifyEdits), and asks *)
(* for another while it is rejected and retries are left.  Tokens, costs   *)
(* and the confidence interval are left out.                               *)
(***************************************************************************)
EXTENDS VerifyEdits, Sequences

CONSTANTS
  Worktrees,      \* what tasks materialize
  Controls(_),    \* of a worktree: its calibration patches, [good, edit]
  Correct(_),     \* do the gate tests and the hidden tests pass in a tree
  MaxRetries,
  Pairs           \* tasks times trials

BenchAssumption ==
  /\ Worktrees \subseteq Checkouts
  /\ \A t \in Checkouts : Correct(t) \in BOOLEAN
  /\ \A t \in Worktrees : Controls(t) \in Seq([good : BOOLEAN, edit : Checkouts])
  /\ MaxRetries \in Nat

VARIABLES
  at,             \* "calibrate", "control", "pair", "on", "verify", "report" or "done"
  untouched,      \* the worktree as materialized
  controls,       \* the calibration patches that are left
  proposal,       \* the last answer of the proposer
  asked,          \* how often it was asked in this pair
  attempt, final, \* of the on arm; NoRecord for None
  rows,           \* the records
  status

benchVars == <<at, untouched, controls, proposal, asked, attempt, final, rows, status>>
harnessVars == <<callVars, benchVars>>

(* What a proposer returns: an error, or an edit map, which may be empty or
   name a path that is no file of the task. *)
Unusable(kind) == [kind |-> kind, edits |-> NoEdit]
Proposals == {Unusable("error"), Unusable("foreign")} \cup [kind : {"patch"}, edits : Checkouts]
NoRecord == [status |-> "none", retries |-> 0]
Resolves(p) == p.kind = "patch" /\ p.edits # NoEdit

BenchInit ==
  /\ CallInit
  /\ untouched \in Worktrees /\ worktree = untouched
  /\ controls = Controls(untouched)
  /\ at \in {"calibrate", "pair"}       \* skip_calibration
  /\ proposal = Unusable("error") /\ asked = 0 /\ attempt = 0 /\ final = NoRecord
  /\ rows = <<>> /\ status = "running"

Fresh(t) ==
  /\ worktree' = t /\ outcome' = "none" /\ strewn' = {}
  /\ UNCHANGED <<tools, counted, todo, guarded>>

(* _write_patch: onto files that exist; it stops at the first that does not. *)
Unwritable(t, e) == \E f \in Files : e[f] # NoFile /\ t[f] = NoFile
Written(t, e) == [f \in Files |-> IF e[f] = NoFile THEN t[f] ELSE e[f]]

(* What verify_edits raises that leaves the pair or the calibration: a pair
   catches a ValueError. *)
Escapes == outcome = "raised" \/ (at = "control" /\ outcome = "unreadable")

(* Nothing but main catches what is raised here: a gate, a file or the hidden
   tests that fail for another reason than the patch. *)
Abort ==
  /\ at \notin {"report", "done"}
  /\ callAt = "idle" /\ (Escapes \/ "gate" \in BenchFaults)
  /\ at' = "done" /\ status' = "invalid-infrastructure" /\ rows' = <<>>
  /\ UNCHANGED <<callVars, untouched, controls, proposal, asked, attempt, final>>
-----------------------------------------------------------------------------
(* calibrate: each control in a worktree of its own. *)
StartControl ==
  /\ at = "calibrate" /\ callAt = "idle" /\ controls # <<>>
  /\ LET e == Head(controls).edit
     IN  /\ edit' = e
         /\ originals' = [f \in Files |-> IF e[f] = NoFile THEN NoFile ELSE Text(untouched[f])]
  /\ callAt' = "parse" /\ at' = "control"
  /\ Fresh(untouched)
  /\ UNCHANGED <<untouched, controls, proposal, asked, attempt, final, rows, status>>

(* A bad patch that was rejected is graded all the same, as proposed. *)
Judged(c) ==
  IF c.good THEN outcome = "committed" /\ Correct(worktree)
  ELSE IF outcome = "committed" THEN ~Correct(worktree)
  ELSE ~Unwritable(worktree, c.edit) /\ ~Correct(Written(worktree, c.edit))

EndControl ==
  /\ at = "control" /\ callAt = "idle" /\ ~Escapes
  /\ controls' = Tail(controls)
  /\ status' = IF Judged(Head(controls)) THEN status ELSE "void"
  /\ at' = "calibrate"
  /\ UNCHANGED <<callVars, untouched, proposal, asked, attempt, final, rows>>

Calibrated ==
  /\ at = "calibrate" /\ controls = <<>>
  /\ at' = IF status = "void" THEN "done" ELSE "pair"
  /\ UNCHANGED <<callVars, untouched, controls, proposal, asked, attempt, final, rows, status>>
-----------------------------------------------------------------------------
(* _run_pair: the proposer is asked, and the off arm ships what it can. *)
OffRow(p) ==
  LET landed == p.kind = "patch" /\ ~Unwritable(untouched, p.edits)
  IN  [arm |-> "off", landed |-> landed, correct |-> landed /\ Correct(Written(untouched, p.edits)),
       retries |-> 0]

StartPair ==
  /\ at = "pair"
  /\ \E p \in Proposals :
       /\ proposal' = p
       /\ rows' = Append(rows, OffRow(p))
  /\ asked' = 1 /\ attempt' = 0 /\ final' = NoRecord
  /\ at' = "on"
  /\ Fresh(untouched)
  /\ edit' = NoEdit /\ originals' = NoEdit
  /\ UNCHANGED <<callAt, untouched, controls, status>>

(* Mutant: a proposal that is unusable leaves the last record standing. *)
UnusedKept(record) == record
Unused(record) == NoRecord

(* An attempt is over: it is the last, or the proposer is asked again. *)
EndAttempt(record) ==
  /\ final' = record
  /\ IF record.status # "committed" /\ attempt < MaxRetries
     THEN /\ attempt' = attempt + 1 /\ asked' = asked + 1 /\ at' = "on"
          /\ \E p \in Proposals : proposal' = p
     ELSE at' = "report" /\ UNCHANGED <<attempt, asked, proposal>>

(* The proposal is an error, or one verify_edits does not resolve. *)
PassOver ==
  /\ at = "on" /\ ~Resolves(proposal)
  /\ EndAttempt(Unused(final))
  /\ UNCHANGED <<callVars, untouched, controls, rows, status>>

Attempt ==
  /\ at = "on" /\ Resolves(proposal)
  /\ Begin(proposal.edits)
  /\ at' = "verify"
  /\ UNCHANGED <<untouched, controls, proposal, asked, attempt, final, rows, status>>

(* A ValueError of the call passes for a patch that was refused. *)
PatchVerified ==
  /\ at = "verify" /\ callAt = "idle" /\ ~Escapes
  /\ EndAttempt(IF outcome = "unreadable" THEN NoRecord
                ELSE [status |-> outcome, retries |-> attempt])
  /\ UNCHANGED <<callVars, untouched, controls, rows, status>>

(* The record of the last attempt carries its number. *)
OnRow ==
  LET landed == final.status = "committed"
  IN  [arm |-> "on", landed |-> landed, correct |-> landed /\ Correct(worktree),
       retries |-> IF final = NoRecord THEN MaxRetries ELSE final.retries]

EndPair ==
  /\ at = "report"
  /\ rows' = Append(rows, OnRow)
  /\ IF Len(rows') = 2 * Pairs THEN at' = "done" /\ status' = "valid"
                               ELSE at' = "pair" /\ UNCHANGED status
  /\ UNCHANGED <<callVars, untouched, controls, proposal, asked, attempt, final>>

Verifying ==
  /\ at \in {"control", "verify"}
  /\ Step \/ Fault
  /\ UNCHANGED benchVars

BenchNext ==
  \/ StartControl \/ EndControl \/ Calibrated \/ StartPair \/ PassOver \/ Attempt \/ PatchVerified
  \/ EndPair \/ Abort \/ Verifying

BenchSpec == BenchInit /\ [][BenchNext]_harnessVars
-----------------------------------------------------------------------------
(* The worktree is the one the pair began with, in its texts, but for the files
   the ValueError of a call left as proposed. *)
AsBegun == \A f \in Files \ strewn : worktree[f] \in {untouched[f], Text(untouched[f])}

(* Between two attempts nothing of a rejected or a refused patch is in the
   worktree, so that no attempt is judged on the leavings of another, unless a
   tool's output could not be read while it was there. *)
AttemptsAreIndependent == at = "on" => AsBegun

(* aggregate: the pairs whose first proposal was wrong and was caught. *)
Caught == Len(rows) = 2 /\ rows[1].landed /\ ~rows[1].correct
            /\ ~(rows[2].landed /\ ~rows[2].correct)

(* What the report says of a pair is so: its retries are the times the proposer
   was asked again, and a wrong patch that counts as caught is not in the
   worktree of the on arm, in any part: it is as it was, but for what a tool's
   unreadable output left there, or it is correct. *)
ReportIsTrue ==
  Len(rows) = 2 =>
    /\ rows[2].retries = asked - 1
    /\ Caught => Correct(worktree) \/ AsBegun
=============================================================================
