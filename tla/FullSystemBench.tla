-------------------------- MODULE FullSystemBench --------------------------
(***************************************************************************)
(* eval/full_system_bench.py: every (case, trial) runs up to four arms in  *)
(* worktrees of their own.  The arms answer in turn or together in a pool; *)
(* what failed in the pool is asked again, alone; the answers are applied, *)
(* verified and graded by hidden tests, and the records become a report.   *)
(* A worktree is the set of what distinguishes its contents; a patch is    *)
(* the set of its merits; the gates of an attempt are module VerifyEdits.  *)
(***************************************************************************)
EXTENDS Naturals, Sequences, FiniteSets

CONSTANTS
  Arms,           \* the arms that run; off and on always do
  Pairs,          \* cases times trials
  MaxRetries,
  ModelErrors,    \* error classes of one completion
  Endings,        \* termination reasons of the agent loop
  Modes,          \* of parallel_arms
  Families        \* of the selected cases, for a calibration

Order == <<"off", "on", "agentic", "agentic+harness">>
Agents == Arms \cap {"agentic", "agentic+harness"}
Scratch == "initial-on-grade"
Completed == {"completed", "completed_after_repair"}

(* HttpProvider.complete: how one completion fails. *)
CompletionErrors == {"configuration_failure", "provider_failure"}

ASSUME ArmsAssumption ==
  /\ {"off", "on"} \subseteq Arms /\ Arms \subseteq {Order[i] : i \in 1..4}
  /\ Pairs \in Nat \ {0} /\ MaxRetries \in Nat
  /\ Modes \subseteq BOOLEAN
  /\ ModelErrors \subseteq CompletionErrors \cup {"malformed_response"}
  /\ Endings \subseteq Completed \cup {"iteration_limit", "agent_timeout", "provider_failure",
       "malformed_response", "gate_failure", "safe_escalation"}

VARIABLES
  parallel, pair, phase,
  turn,       \* index in Order of the arm whose answer is used
  tree,       \* place -> contents
  oracle,     \* the places that hold the hidden tests
  call,       \* arm -> "idle", "running" or "raised"
  proposal,   \* arm -> its answer
  crashed,    \* the arms whose verification crashed in the answer that counts
  fallback,   \* fallback_arms
  redo,       \* those not asked again yet
  attempts,   \* attempt_records of the on arm
  final,      \* the last VerificationRecord
  initial,    \* initial_outcome, <<>> for None
  first,      \* the on arm's first answer
  records, status,
  sheet       \* records of a calibration

worktrees == <<tree, oracle>>
calls == <<call, proposal>>
pool == <<fallback, redo>>
loop == <<attempts, final, initial, first>>
run == <<parallel, pair, turn>>
vars == <<run, phase, worktrees, calls, crashed, pool, loop, records, status, sheet>>

Baseline == {"baseline"}
Patches(arm) ==
  {{}} \cup {merits \cup {"valid"} :
    merits \in SUBSET (IF arm = "on" THEN {"gated", "behaves", "structured"} ELSE {"behaves", "structured"})}
Position(arm) == CHOOSE i \in 1..4 : Order[i] = arm
NoAnswer == [error |-> "not_asked", patch |-> {}]
NoRecord == [status |-> "none", retries |-> 0]
Answered(arm) == proposal[arm] # NoAnswer
Idle == \A arm \in Arms : call[arm] # "running"

(* _outcome *)
Outcome(landed, behavior, structure) ==
  [landed |-> landed,
   correct |-> landed /\ behavior /\ structure,
   regression |-> landed /\ ~behavior,
   incomplete |-> landed /\ behavior /\ ~structure]
NotLanded == Outcome(FALSE, FALSE, FALSE)
(* grade_structure, and oracle_grade. *)
Structured(place) == "structured" \in tree[place]
Graded(place) == Outcome(TRUE, "behaves" \in tree[place], Structured(place))

(* The loop's reason becomes the first word of a message, and that word a
   class. *)
LegacyError(ending) ==
  LET worded == [iteration_limit |-> "iteration_limit_exceeded",
                 provider_failure |-> "provider_timeout_or_failure",
                 malformed_response |-> "malformed_provider_response"]
  IN  IF ending \in Completed THEN "none"
      ELSE IF ending \in DOMAIN worded THEN worded[ending] ELSE ending
AgentErrorClass(error) ==
  LET class == [agent_timeout |-> "timeout_failure",
                iteration_limit_exceeded |-> "iteration_limit",
                gate_failure |-> "gate_failure",
                malformed_provider_response |-> "malformed_response",
                provider_timeout_or_failure |-> "provider_failure",
                none |-> "none"]
  IN  IF error \in DOMAIN class THEN class[error] ELSE "agent_failure"

(* _run_shared: a rejected patch reaches gate_log under the event's class,
   which HarnessDeveloperTools always sets to VerificationRejected. *)
GateLog(arm) == IF arm \in crashed THEN {"VerificationRejected"} ELSE {}
AgentAnswer(arm, ending) ==
  LET edits == IF tree[arm] = Baseline THEN {} ELSE tree[arm]
      told == LegacyError(ending)
      error == IF told = "none" /\ "gate_crash" \in GateLog(arm) THEN "gate_failure"
               ELSE IF told = "none" /\ edits = {} THEN "no_changes" ELSE told
  IN [error |-> AgentErrorClass(error), patch |-> IF error = "none" THEN edits ELSE {}]

Init ==
  /\ parallel \in Modes /\ pair = 1 /\ phase = "main" /\ turn = 1
  /\ tree = [place \in Arms \cup {Scratch} |-> {}] /\ oracle = {}
  /\ call = [arm \in Arms |-> "idle"]
  /\ proposal = [arm \in Arms |-> NoAnswer]
  /\ crashed = {} /\ fallback = {} /\ redo = {}
  /\ attempts = <<>> /\ final = NoRecord /\ initial = <<>> /\ first = NoAnswer
  /\ records = {} /\ status = "running" /\ sheet = {}

(* main: an agent arm without a key is refused before there is an artifact;
   otherwise the arms run, or the cases are only calibrated. *)
Main ==
  /\ phase = "main"
  /\ \/ phase' \in {"materialize", "calibrate"} /\ UNCHANGED status
     \/ Agents # {} /\ phase' = "done" /\ status' = "refused"
  /\ UNCHANGED <<run, worktrees, calls, crashed, pool, loop, records, sheet>>

(* Each case in a baseline of its own: its visible tests, its hidden tests, and
   whether the structure it asks for is missing. *)
CalibrateCase ==
  /\ phase = "calibrate"
  /\ \E family \in Families \ {row.family : row \in sheet}, visible, hidden, misses \in BOOLEAN :
       sheet' = sheet \cup {[family |-> family, visible |-> visible, hidden |-> hidden,
                             misses |-> misses]}
  /\ UNCHANGED <<run, phase, worktrees, calls, crashed, pool, loop, records, status>>
(* The oracles of multi-file cases import what the refactoring is to create. *)
Calibrated ==
  /\ phase = "calibrate" /\ {row.family : row \in sheet} = Families
  /\ status' = IF \A row \in sheet : row.visible /\ row.misses
                                       /\ row.hidden = (row.family # "multifile")
               THEN "valid" ELSE "void"
  /\ phase' = "done"
  /\ UNCHANGED <<run, worktrees, calls, crashed, pool, loop, records, sheet>>

(* A fresh temporary directory with one copy of the baseline per arm. *)
Materialize ==
  /\ phase = "materialize"
  /\ tree' = [place \in Arms \cup {Scratch} |-> IF place = Scratch THEN {} ELSE Baseline]
  /\ oracle' = {}
  /\ call' = [arm \in Arms |-> "idle"] /\ proposal' = [arm \in Arms |-> NoAnswer]
  /\ crashed' = {} /\ fallback' = {} /\ redo' = {}
  /\ attempts' = <<>> /\ final' = NoRecord /\ initial' = <<>> /\ first' = NoAnswer
  /\ phase' = IF parallel THEN "pool" ELSE "arms"
  /\ turn' = 1
  /\ UNCHANGED <<parallel, pair, records, status, sheet>>

(* The pool takes all arms at once.  After it the failed ones go one by one,
   agents in a copy made anew; without it an arm is asked in its turn. *)
Submitted(arm) == phase = "pool" /\ call[arm] = "idle"
RetriedTogether(arm) ==
  /\ phase = "fallback" /\ arm \in redo
  /\ \A other \in redo : Position(arm) <= Position(other)
Retried(arm) ==
  /\ phase = "fallback" /\ Idle /\ arm \in redo
  /\ \A other \in redo : Position(arm) <= Position(other)
Wanted(arm) == phase = "arms" /\ Idle /\ Order[turn] = arm
RenewedNever(arm) == tree[arm]
Renewed(arm) == IF arm \in Agents THEN Baseline ELSE tree[arm]

Ask(arm) ==
  /\ Submitted(arm) \/ Retried(arm) \/ Wanted(arm)
  /\ ~Answered(arm)
  /\ call' = [call EXCEPT ![arm] = "running"]
  /\ tree' = [tree EXCEPT ![arm] = IF Retried(arm) THEN Renewed(arm) ELSE @]
  /\ redo' = redo \ {arm}
  /\ crashed' = crashed \ {arm}
  /\ UNCHANGED <<run, phase, oracle, proposal, fallback, loop, records, status, sheet>>

(* submit_patch of the agent loop; only the harness arm's patches are verified. *)
AgentEdits(arm) ==
  /\ arm \in Agents /\ call[arm] = "running"
  /\ \/ \E patch \in Patches(arm) \ {{}} :
           tree' = [tree EXCEPT ![arm] = patch] /\ UNCHANGED crashed
     \/ /\ arm = "agentic+harness" /\ crashed' = crashed \cup {arm}
        /\ UNCHANGED tree
  /\ UNCHANGED <<run, phase, oracle, calls, pool, loop, records, status, sheet>>

(* _decode_patch, propose_agentic: what the arm's call returns. *)
Answers(arm) ==
  IF arm \in Agents
    THEN {AgentAnswer(arm, ending) : ending \in Endings}
    ELSE {[error |-> class, patch |-> {}] : class \in ModelErrors}
           \cup {[error |-> "none", patch |-> patch] : patch \in Patches(arm)}

Answer(arm) ==
  /\ call[arm] = "running"
  /\ \E answer \in Answers(arm) : proposal' = [proposal EXCEPT ![arm] = answer]
  /\ call' = [call EXCEPT ![arm] = "idle"]
  /\ UNCHANGED <<run, phase, worktrees, crashed, pool, loop, records, status, sheet>>

(* The future keeps an exception of a pooled call.  Anywhere else it ends the
   run: main writes an artifact without records. *)
RaiseInPool(arm) ==
  /\ phase = "pool" /\ call[arm] = "running"
  /\ call' = [call EXCEPT ![arm] = "raised"]
  /\ UNCHANGED <<run, phase, worktrees, proposal, crashed, pool, loop, records, status, sheet>>
AbortUncaught ==
  /\ phase' = "done" /\ records' = {}
  /\ call' = [arm \in Arms |-> "idle"] /\ oracle' = {}
  /\ UNCHANGED <<run, tree, proposal, crashed, pool, loop, status, sheet>>
Abort ==
  /\ status' = "invalid-infrastructure" /\ records' = {} /\ phase' = "done"
  /\ call' = [arm \in Arms |-> "idle"]
  /\ oracle' = {}
  /\ UNCHANGED <<run, tree, proposal, crashed, pool, loop, sheet>>
Raise(arm) == phase # "pool" /\ call[arm] = "running" /\ Abort

Retryable == {"provider_failure", "timeout_failure", "agent_failure", "gate_failure"}
Failed(arm) == call[arm] = "raised" \/ proposal[arm].error \in Retryable
Join ==
  /\ phase = "pool"
  /\ \A arm \in Arms : Answered(arm) \/ call[arm] = "raised"
  /\ fallback' = {arm \in Arms : Failed(arm)} /\ redo' = fallback'
  /\ proposal' = [arm \in Arms |-> IF arm \in fallback' THEN NoAnswer ELSE proposal[arm]]
  /\ call' = [arm \in Arms |-> "idle"]
  /\ phase' = "fallback"
  /\ UNCHANGED <<run, worktrees, crashed, loop, records, status, sheet>>
FallbackDone ==
  /\ phase = "fallback" /\ Idle /\ redo = {}
  /\ phase' = "arms"
  /\ UNCHANGED <<run, worktrees, calls, crashed, pool, loop, records, status, sheet>>

(* The next arm, or the next pair, or the report. *)
Later == {i \in turn + 1..4 : Order[i] \in Arms}
Proceed ==
  IF Later # {}
    THEN turn' = (CHOOSE i \in Later : \A j \in Later : i <= j) /\ phase' = "arms" /\ UNCHANGED pair
    ELSE /\ UNCHANGED turn
         /\ pair' = IF pair < Pairs THEN pair + 1 ELSE pair
         /\ phase' = IF pair < Pairs THEN "materialize" ELSE "aggregate"

Row(arm, how, outcome) ==
  [pair |-> pair, arm |-> arm, status |-> how, outcome |-> outcome, class |-> "none",
   initial |-> outcome, attempts |-> <<>>, retries |-> 0]

(* _run_hidden_tests: the oracle goes in, pytest runs, the oracle goes out
   again. *)
StartGrading(place, contents, before) ==
  /\ tree' = [tree EXCEPT ![place] = contents]
  /\ oracle' = oracle \cup {place}
  /\ phase' = before
Cleared(place) == oracle \ {place}

(* off and the agents: what has no error is written (or was, by the agent),
   has landed, and is graded.  _write_patch may stop half way. *)
Land ==
  LET arm == Order[turn]  answer == proposal[arm] IN
  /\ phase = "arms" /\ arm # "on" /\ Answered(arm)
  /\ IF answer.error = "none" /\ "valid" \in answer.patch
       THEN /\ StartGrading(arm, answer.patch, "grade")
            /\ UNCHANGED <<run, records>>
       ELSE /\ \E left \in {tree[arm]} \cup (IF answer.error = "none" THEN {{"partial"}} ELSE {}) :
                 tree' = [tree EXCEPT ![arm] = left]
            /\ records' = records \cup {[Row(arm, "error", NotLanded) EXCEPT !.class = answer.error]}
            /\ Proceed /\ UNCHANGED <<parallel, oracle>>
  /\ UNCHANGED <<calls, crashed, pool, loop, status, sheet>>
Grade ==
  LET arm == Order[turn] IN
  /\ phase = "grade" /\ arm # "on"
  /\ oracle' = Cleared(arm)
  /\ records' = records \cup {Row(arm, "shipped", Graded(arm))}
  /\ Proceed
  /\ UNCHANGED <<parallel, tree, calls, crashed, pool, loop, status, sheet>>

(* The on arm: the attempt that `proposal` holds is verified.  Whatever is not
   accepted is asked for again, up to MaxRetries times, unless it is an
   infrastructure failure. *)
Stopping == {"configuration_failure", "provider_failure", "timeout_failure", "agent_failure", "gate_failure"}
Attempt(how, class) ==
  [status |-> how, class |-> class, integrity |-> how = "rolled-back" => tree["on"] = Baseline]
InitialIsLast(outcome) == initial' = <<outcome>>
InitialIs(outcome) == initial' = IF attempts = <<>> THEN <<outcome>> ELSE initial

Recorded(attempt) ==
  /\ attempts' = Append(attempts, attempt)
  /\ first' = IF attempts = <<>> THEN proposal["on"] ELSE first
  /\ proposal' = [proposal EXCEPT !["on"] = NoAnswer]
Continue(stops) == phase' = IF stops \/ Len(attempts) = MaxRetries THEN "settle" ELSE "arms"

Trying(error) ==
  /\ phase = "arms" /\ Order[turn] = "on" /\ Answered("on")
  /\ (proposal["on"].error = "none") = ~error
Patch == proposal["on"].patch
kept == <<run, call, pool, records, status, sheet>>

ProposalError ==
  /\ Trying(TRUE)
  /\ Recorded(Attempt("proposal_error", proposal["on"].error))
  /\ Continue(proposal["on"].error \in Stopping)
  /\ InitialIs(NotLanded)
  /\ UNCHANGED <<kept, worktrees, crashed, final>>

(* A ValueError of verify_edits: a patch it refuses, or, before anything is
   restored, the UnicodeDecodeError of a gate's output. *)
InvalidPatch ==
  /\ Trying(FALSE)
  /\ \/ "valid" \notin Patch /\ UNCHANGED tree
     \/ "valid" \in Patch /\ tree' = [tree EXCEPT !["on"] = Patch]
  /\ Recorded(Attempt("invalid_patch", "invalid_patch")) /\ Continue(FALSE)
  /\ InitialIs(NotLanded)
  /\ UNCHANGED <<kept, oracle, crashed, final>>

Verified(how) == final' = [status |-> how, retries |-> Len(attempts)]

GateCrash ==
  /\ Trying(FALSE) /\ "valid" \in Patch
  /\ Verified("rolled-back")
  /\ crashed' = crashed \cup {"on"}
  /\ Recorded(Attempt("rolled-back", "gate_failure")) /\ Continue(TRUE)
  /\ UNCHANGED <<kept, worktrees, initial>>

(* The first rejected proposal is graded too, in a directory of its own. *)
GradedAt == Scratch
Rejected ==
  /\ Trying(FALSE) /\ "valid" \in Patch /\ "gated" \notin Patch
  /\ Verified("rolled-back")
  /\ Recorded(Attempt("rolled-back", "none"))
  /\ IF attempts = <<>>
       THEN StartGrading(GradedAt, Patch, "grade_initial")
       ELSE Continue(FALSE) /\ UNCHANGED worktrees
  /\ UNCHANGED <<kept, crashed, initial>>
GradeInitial ==
  /\ phase = "grade_initial"
  /\ initial' = <<Graded(GradedAt)>>
  /\ oracle' = Cleared(GradedAt)
  /\ phase' = IF Len(attempts) > MaxRetries THEN "settle" ELSE "arms"
  /\ UNCHANGED <<run, tree, calls, crashed, pool, attempts, final, first, records, status, sheet>>

Accepted ==
  /\ Trying(FALSE) /\ {"valid", "gated"} \subseteq Patch
  /\ Verified("committed")
  /\ tree' = [tree EXCEPT !["on"] = Patch]
  /\ Recorded(Attempt("committed", "none")) /\ Continue(TRUE)
  /\ UNCHANGED <<kept, oracle, crashed, initial>>

(* A run of pytest, or ruff before the try block of verify_edits, take too
   long: nothing between here and main catches that. *)
TimesOut == (phase \in {"grade", "grade_initial", "calibrate"} \/ Trying(FALSE)) /\ Abort

(* What has landed is graded; without an outcome of its own the first
   proposal has that of the last. *)
OnRow(how, outcome) ==
  [Row("on", how, outcome) EXCEPT
    !.initial = IF initial = <<>> THEN outcome ELSE initial[1],
    !.attempts = attempts,
    !.retries = IF final = NoRecord THEN MaxRetries ELSE final.retries]
Settle ==
  /\ phase = "settle"
  /\ IF final.status = "committed"
       THEN StartGrading("on", tree["on"], "grade") /\ UNCHANGED <<run, records, final>>
       ELSE /\ final' = IF final = NoRecord THEN final ELSE [final EXCEPT !.status = "skipped-needs-human"]
            /\ records' = records \cup {OnRow("skipped-needs-human", NotLanded)}
            /\ Proceed /\ UNCHANGED <<parallel, worktrees>>
  /\ UNCHANGED <<calls, crashed, pool, attempts, initial, first, status, sheet>>
GradeOn ==
  /\ phase = "grade" /\ Order[turn] = "on"
  /\ oracle' = Cleared("on")
  /\ records' = records \cup {OnRow("committed", Graded("on"))}
  /\ Proceed
  /\ UNCHANGED <<parallel, tree, calls, crashed, pool, loop, status, sheet>>

ErrorClassesOfRows == {row.class : row \in records}
(* aggregate and run: what the report says of all records. *)
ErrorClasses ==
  {row.class : row \in records}
    \cup UNION {{row.attempts[i].class : i \in DOMAIN row.attempts} : row \in records}
Infrastructure ==
  {"configuration_failure", "provider_failure", "timeout_failure", "agent_failure", "gate_failure",
   "iteration_limit"}

Aggregate ==
  /\ phase = "aggregate"
  /\ status' = IF ErrorClasses \cap Infrastructure # {} THEN "invalid-infrastructure" ELSE "valid"
  /\ phase' = "done"
  /\ UNCHANGED <<run, worktrees, calls, crashed, pool, loop, records, sheet>>

OnStep == ProposalError \/ InvalidPatch \/ GateCrash \/ Rejected \/ GradeInitial \/ Accepted \/ Settle \/ GradeOn
Step ==
  \/ Main \/ CalibrateCase \/ Calibrated \/ Materialize \/ Join \/ FallbackDone \/ Land \/ Grade \/ OnStep \/ Aggregate
  \/ \E arm \in Arms : Ask(arm)
Next ==
  \/ Step \/ TimesOut
  \/ \E arm \in Arms : AgentEdits(arm) \/ Answer(arm) \/ RaiseInPool(arm) \/ Raise(arm)

(* Every call ends: requests, the agent loop and pytest have time limits; and
   the program goes on. *)
Fairness ==
  /\ WF_vars(Step)
  /\ \A arm \in Arms : WF_vars(Answer(arm) \/ RaiseInPool(arm) \/ Raise(arm))
Spec == Init /\ [][Next]_vars
FairSpec == Spec /\ Fairness

----------------------------------------------------------------------------

(* "each arm gets a fresh, isolated repo copy" (docs/evaluation.md:22), the
   second time it is asked as the first, and after each rollback; but for what
   an attempt recorded as an invalid patch may have left. *)
CallsStartFromBaseline ==
  [][\A arm \in Arms :
       call[arm] # "running" /\ call'[arm] = "running" =>
         \/ tree'[arm] = Baseline
         \/ arm = "on" /\ \E i \in DOMAIN attempts : attempts[i].class = "invalid_patch"]_vars

(* Once the pool is left one call runs at a time: nothing is asked, applied or
   graded beside an agent that still works. *)
AloneAfterThePool == phase # "pool" => Cardinality({arm \in Arms : call[arm] = "running"}) <= 1

(* The row of the on arm splits initial from final: initial is what the oracle
   says of the first answer, however the later ones went. *)
InitialIsTheFirstAnswer ==
  \A row \in records :
    row.arm = "on" /\ row.pair = pair /\ "on" \notin crashed /\ phase # "materialize" =>
      row.initial = Outcome(first.error = "none" /\ "valid" \in first.patch
                              /\ row.attempts[1].class # "invalid_patch",
                            "behaves" \in first.patch, "structured" \in first.patch)

(* "Timeout/gate/infra failures mark a run invalid-infrastructure"
   (docs/evaluation.md:88), for what the on arm met. *)
OnCrashInvalidates == status = "valid" => "on" \notin crashed
(* The same for every arm. *)
GateCrashInvalidates == status = "valid" => crashed = {}

(* Whatever fails, the benchmark ends with an artifact. *)
Reports == <>(phase = "done" /\ status # "running")
=============================================================================
