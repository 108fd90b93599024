--------------------------- MODULE TransactionProofs --------------------------
(***************************************************************************)
(* Proofs about what edits a repository beside the pipeline and the        *)
(* server, for any files, contents, gates and tools, any number of calls,  *)
(* attempts and pairs, and every set of faults: HarnessBench with the      *)
(* calls of VerifyEdits it makes, RefactorBench, and RefactorCampaign.     *)
(*                                                                         *)
(* Progress says what a call of verify_edits has established when it       *)
(* reaches each of its labels; it holds of every call, whoever made it.    *)
(* Isolated relates the call of an attempt to the worktree as the pair     *)
(* found it, AttemptsCounted the attempts to the records of the report.    *)
(* InFlight says what holds while a callback of the campaign runs.         *)
(***************************************************************************)
EXTENDS HarnessBench, RefactorBench, RefactorCampaign, SequenceTheorems, FiniteSetTheorems, TLAPS

Slots == Texts \cup {NoFile}
Labels == {"idle", "parse", "count", "write", "lint", "typecheck", "tests", "convention", "reject"}
Phases == {"calibrate", "control", "pair", "on", "verify", "report", "done"}
Records == [status : {"none", "committed", "rolled-back"}, retries : Nat]
Rows == [arm : {"off", "on"}, landed : BOOLEAN, correct : BOOLEAN, retries : Nat]

CallTyped ==
  /\ worktree \in Checkouts /\ edit \in Checkouts /\ originals \in Checkouts
  /\ callAt \in Labels
  /\ callAt \in {"write", "reject"} => todo \subseteq Touched

BenchTyped ==
  /\ at \in Phases /\ untouched \in Checkouts
  /\ callAt # "idle" => at \in {"control", "verify"}
  /\ controls \in Seq([good : BOOLEAN, edit : Checkouts]) /\ (at = "control" => controls # <<>>)
  /\ proposal \in Proposals
  /\ asked \in Nat /\ attempt \in Nat /\ final \in Records /\ rows \in Seq(Rows)

Accepted == callAt = "idle" /\ outcome = "committed"
AsProposed == \A f \in Touched : worktree[f] = edit[f]
NoWorse ==
  /\ "lint" \in Required => "ruff" \in tools
  /\ "ruff" \in tools /\ "silent" \notin BenchFaults =>
       RuffCount(worktree, Touched) <= RuffCount(originals, Existing)

TypesMet ==
  /\ "typecheck" \in Required => "pyright" \in tools
  /\ "pyright" \in tools => TypeErrors(worktree) = 0
TestsMet ==
  /\ "tests" \in Required => Collects(worktree)
  /\ Collects(worktree) => Passes(worktree)

Progress ==
  /\ callAt \in {"lint", "typecheck", "tests"} => guarded
  /\ callAt \in {"parse", "count"} => \A f \in Touched : originals[f] = Text(worktree[f])
  /\ callAt \in {"write", "lint"} /\ "ruff" \in tools /\ "silent" \notin BenchFaults =>
       counted = RuffCount(originals, Existing)
  /\ callAt = "write" => \A f \in Touched \ todo : worktree[f] = edit[f]
  /\ callAt \in {"lint", "typecheck", "tests", "convention"} \/ Accepted => AsProposed
  /\ callAt \in {"typecheck", "tests", "convention"} \/ Accepted => NoWorse
  /\ callAt \in {"tests", "convention"} \/ Accepted => TypesMet
  /\ callAt = "convention" \/ Accepted => TestsMet
  /\ Accepted => Required \cap {"callsite_sweep", "handled_result"} = {}
  /\ callAt = "reject" => \A f \in Touched \ todo : worktree[f] = originals[f]
  /\ callAt = "idle" /\ outcome = "rolled-back" => \A f \in Touched : worktree[f] = originals[f]

Isolated ==
  /\ at = "on" => outcome # "committed" /\ AsBegun
  /\ at = "verify" =>
       /\ \A f \in Files \ Touched : f \in strewn \/ worktree[f] \in {untouched[f], Text(untouched[f])}
       /\ \A f \in Touched \ strewn : originals[f] = Text(untouched[f])
       /\ callAt \in {"parse", "count"} => AsBegun
       /\ callAt = "idle" => outcome \in {"committed", "rolled-back", "raised", "unreadable"}
       /\ callAt = "idle" /\ outcome = "unreadable" => AsBegun
  /\ at = "report" => final.status = "committed" \/ AsBegun

AttemptsCounted ==
  /\ at \in {"on", "verify", "report"} =>
       asked = attempt + 1 /\ attempt <= MaxRetries /\ Len(rows) >= 1 /\ Len(rows) # 2
  /\ at \in {"calibrate", "control", "pair", "done"} => Len(rows) # 1
  /\ at \in {"calibrate", "control"} => Len(rows) = 0
  /\ at = "report" =>
       IF final.status = "none" THEN final = NoRecord /\ attempt = MaxRetries
                                ELSE final.retries = attempt

Inv == CallTyped /\ BenchTyped /\ Progress /\ Isolated /\ AttemptsCounted /\ ReportIsTrue
-----------------------------------------------------------------------------
LEMMA TextTyped ==
  ASSUME ContentsAssumption
  PROVE  \A s \in Slots : Text(s) \in Slots /\ Text(Text(s)) = Text(s)
BY DEF ContentsAssumption, Text, Slots

(* Ruff counts the same violations in a file and in the text read of it. *)
LEMMA SameCount ==
  ASSUME ContentsAssumption, CallTyped, \A f \in Touched : originals[f] = Text(worktree[f])
  PROVE  RuffCount(worktree, Existing) = RuffCount(originals, Existing)
<1>1. \A f \in Existing : Violations[worktree[f]] = Violations[originals[f]]
  BY DEF ContentsAssumption, CallTyped, Checkouts, Existing, Touched, Text
<1>2. [f \in Existing |-> Violations[worktree[f]]] = [f \in Existing |-> Violations[originals[f]]]
  BY <1>1
<1>3. QED
  BY <1>2 DEF RuffCount

(* What a step of a call leaves alone, whatever it is. *)
LEMMA CallFrame ==
  ASSUME ContentsAssumption, CallTyped, Step \/ Fault
  PROVE  /\ UNCHANGED <<tools, edit, originals>>
         /\ CallTyped'
         /\ \A f \in Files \ Touched : worktree'[f] = worktree[f]
         /\ callAt # "idle"
         /\ callAt' \in {"parse", "count"} => UNCHANGED worktree
         /\ callAt' = "idle" => outcome' \in {"committed", "rolled-back", "raised", "unreadable"}
<1> USE DEF CallTyped, Checkouts, Touched, call, bench, CallReturns, Leave
<1>1. Empty \in Texts
  BY DEF ContentsAssumption
<1>2. ASSUME NEW f \in Files, Torn(f)
      PROVE  worktree' \in Checkouts /\ \A g \in Files \ {f} : worktree'[g] = worktree[g]
  BY <1>1, <1>2 DEF Torn
<1>3. CASE Parse \/ CountBefore \/ Conclude
  BY <1>3 DEF Parse, CountBefore, Conclude, Reject, Labels
<1>4. CASE Lint \/ Typecheck \/ RunTests
  BY <1>4 DEF Lint, Typecheck, RunTests, Missing, Verdict, Reject, Labels
<1>5. ASSUME NEW f \in Files, Write(f) \/ Restore(f)
      PROVE  /\ UNCHANGED <<tools, edit, originals>>
             /\ CallTyped'
             /\ \A g \in Files \ Touched : worktree'[g] = worktree[g]
             /\ callAt \in {"write", "reject"} /\ callAt' \notin {"parse", "count"}
             /\ callAt' = "idle" => outcome' = "rolled-back"
  BY <1>5 DEF Write, Restore, Labels
<1>6. CASE Unreadable \/ Undecoded \/ CountRaises \/ GateCrashes
  BY <1>6 DEF Unreadable, Undecoded, CountRaises, GateCrashes, Reject, Labels, Runs, Analyzes
<1>7. ASSUME NEW f \in Files, WriteRaises(f) \/ RestoreRaises(f)
      PROVE  /\ UNCHANGED <<tools, edit, originals>>
             /\ CallTyped'
             /\ \A g \in Files \ Touched : worktree'[g] = worktree[g]
             /\ callAt \in {"write", "reject"} /\ callAt' \notin {"parse", "count"}
             /\ callAt' = "idle" => outcome' = "raised"
  BY <1>2, <1>7 DEF WriteRaises, RestoreRaises, Reject, Labels
<1>8. QED
  BY <1>3, <1>4, <1>5, <1>6, <1>7 DEF Step, Fault

(* Only what cannot be read strews files, those of the patch that is on disk. *)
LEMMA StrewnGrows ==
  ASSUME Step \/ Fault, Progress
  PROVE  \/ UNCHANGED strewn /\ ~(callAt' = "idle" /\ outcome' = "unreadable")
         \/ /\ callAt' = "idle" /\ UNCHANGED worktree
            /\ (callAt = "count" /\ strewn \subseteq strewn') \/ strewn' = strewn \cup Touched
<1> USE DEF call, bench, CallReturns, Leave
<1>1. CASE Parse \/ CountBefore \/ Conclude
  BY <1>1 DEF Parse, CountBefore, Conclude, Reject
<1>2. CASE Lint \/ Typecheck \/ RunTests
  BY <1>2 DEF Lint, Typecheck, RunTests, Missing, Verdict, Reject
<1>3. ASSUME NEW f \in Files, Write(f) \/ Restore(f) \/ WriteRaises(f) \/ RestoreRaises(f)
      PROVE  UNCHANGED strewn /\ ~(callAt' = "idle" /\ outcome' = "unreadable")
  BY <1>3 DEF Write, Restore, WriteRaises, RestoreRaises, Reject
<1>4. CASE Unreadable \/ CountRaises \/ GateCrashes
  BY <1>4 DEF Unreadable, CountRaises, GateCrashes, Reject
<1>5. CASE Undecoded
  <2>1. callAt' = "idle" /\ UNCHANGED worktree
        /\ strewn' = strewn \cup (IF guarded THEN Touched ELSE {})
    BY <1>5 DEF Undecoded
  <2>2. callAt = "count" \/ guarded
    BY <1>5 DEF Undecoded, Runs, Analyzes, Progress
  <2>3. QED
    BY <2>1, <2>2
<1>6. QED
  BY <1>1, <1>2, <1>3, <1>4, <1>5 DEF Step, Fault

(* A call that rejects, or that raises, has nothing to show but what it put back. *)
LEMMA RejectProgress ==
  ASSUME NEW inTry, CallTyped, Reject(inTry), UNCHANGED <<worktree, edit, originals>>
  PROVE  Progress'
BY DEF CallTyped, Reject, Progress, Accepted, Touched

LEMMA LeaveProgress ==
  ASSUME Leave
  PROVE  Progress'
BY DEF Leave, CallReturns, Progress, Accepted

LEMMA ProgressStep ==
  ASSUME ContentsAssumption, CallTyped, Progress, Step \/ Fault
  PROVE  Progress'
<1> USE DEF call, bench
<1>1. CASE Parse
  <2>1. CASE \A f \in Touched : edit[f] \in Parses
    BY <1>1, <2>1 DEF Parse, Progress, Accepted, Touched, Text
  <2>2. QED
    BY <1>1, <2>1, RejectProgress DEF Parse
<1>2. CASE CountBefore
  <2>1. "silent" \notin BenchFaults /\ "ruff" \in tools => counted' = RuffCount(originals, Existing)
    BY <1>2, SameCount DEF CountBefore, RuffCounts, RuffCount, Progress
  <2>2. QED
    BY <1>2, <2>1 DEF CountBefore, Progress, Accepted, Touched, Existing, RuffCount
<1>3. CASE Lint
  <2>1. CASE "ruff" \notin tools
    BY <1>3, <2>1, RejectProgress
      DEF Lint, Missing, Progress, Accepted, AsProposed, NoWorse, Touched
  <2>2. CASE "ruff" \in tools
    <3>1. PICK count \in RuffCounts(Touched) : Verdict(LintGreen(count), "typecheck")
      BY <1>3, <2>2 DEF Lint
    <3>2. CASE LintGreen(count)
      <4>1. "silent" \notin BenchFaults => RuffCount(worktree, Touched) <= RuffCount(originals, Existing)
        BY <1>3, <2>2, <3>1, <3>2 DEF Lint, Progress, LintGreen, RuffCounts
      <4>2. callAt' = "typecheck" /\ UNCHANGED <<worktree, tools, edit, originals, todo, guarded>>
        BY <1>3, <3>1, <3>2 DEF Lint, Verdict
      <4>3. AsProposed /\ guarded
        BY <1>3 DEF Lint, Progress
      <4>4. QED
        BY <2>2, <4>1, <4>2, <4>3
          DEF Progress, Accepted, AsProposed, NoWorse, Touched, Existing, RuffCount
    <3>3. QED
      BY <1>3, <3>1, <3>2, RejectProgress DEF Lint, Verdict
  <2>3. QED
    BY <2>1, <2>2
<1>4. CASE Typecheck
  <2>1. CASE Reject(TRUE)
    BY <1>4, <2>1, RejectProgress DEF Typecheck
  <2>2. CASE ~Reject(TRUE)
    <3>1. /\ callAt' = "tests" /\ UNCHANGED <<worktree, tools, edit, originals, todo, guarded>>
          /\ TypesMet
      BY <1>4, <2>2 DEF Typecheck, Missing, Verdict, TypesMet, TypesGreen
    <3>2. AsProposed /\ NoWorse /\ guarded
      BY <1>4 DEF Typecheck, Progress
    <3>3. QED
      BY <3>1, <3>2 DEF Progress, Accepted, AsProposed, NoWorse, TypesMet, Touched, Existing, RuffCount
  <2>3. QED
    BY <2>1, <2>2
<1>5. CASE RunTests
  <2>1. CASE Reject(TRUE)
    BY <1>5, <2>1, RejectProgress DEF RunTests
  <2>2. CASE ~Reject(TRUE)
    <3>1. /\ callAt' = "convention" /\ UNCHANGED <<worktree, tools, edit, originals, todo>>
          /\ TestsMet
      BY <1>5, <2>2 DEF RunTests, Missing, Verdict, TestsMet
    <3>2. AsProposed /\ NoWorse /\ TypesMet
      BY <1>5 DEF RunTests, Progress
    <3>3. QED
      BY <3>1, <3>2
      DEF Progress, Accepted, AsProposed, NoWorse, TypesMet, TestsMet, Touched, Existing, RuffCount
  <2>3. QED
    BY <2>1, <2>2
<1>6. CASE Conclude
  <2>1. CASE Required \cap {"callsite_sweep", "handled_result"} # {}
    BY <1>6, <2>1, RejectProgress DEF Conclude
  <2>2. CASE Required \cap {"callsite_sweep", "handled_result"} = {}
    <3>1. /\ callAt' = "idle" /\ outcome' = "committed"
          /\ UNCHANGED <<worktree, tools, edit, originals, todo>>
      BY <1>6, <2>2 DEF Conclude, CallReturns
    <3>2. AsProposed /\ NoWorse /\ TypesMet /\ TestsMet
      BY <1>6 DEF Conclude, Progress
    <3>3. QED
      BY <2>2, <3>1, <3>2
      DEF Progress, Accepted, AsProposed, NoWorse, TypesMet, TestsMet, Touched, Existing, RuffCount
  <2>3. QED
    BY <2>1, <2>2
<1>7. ASSUME NEW f \in Files, Write(f)
      PROVE  Progress'
  <2>1. /\ worktree' = [worktree EXCEPT ![f] = edit[f]] /\ todo' = todo \ {f}
        /\ UNCHANGED <<tools, outcome, edit, originals, counted>>
        /\ callAt = "write" /\ f \in todo /\ todo \subseteq Touched
        /\ IF todo = {f} THEN callAt' = "lint" /\ guarded' = TRUE ELSE callAt' = "write"
    BY <1>7 DEF Write, CallTyped
  <2>2. \A g \in Touched \ todo' : worktree'[g] = edit[g]
    BY <2>1 DEF CallTyped, Checkouts, Progress, Touched
  <2>3. "ruff" \in tools /\ "silent" \notin BenchFaults => counted' = RuffCount(originals, Existing)
    BY <2>1 DEF Progress
  <2>4. callAt' = "lint" => \A g \in Touched : worktree'[g] = edit[g]
    BY <2>1, <2>2
  <2>5. QED
    BY <2>1, <2>2, <2>3, <2>4 DEF Progress, Accepted, AsProposed, Touched, Existing, RuffCount
<1>8. ASSUME NEW f \in Files, Restore(f)
      PROVE  Progress'
  <2>1. /\ worktree' = [worktree EXCEPT ![f] = originals[f]] /\ todo' = todo \ {f}
        /\ UNCHANGED <<edit, originals>>
        /\ callAt = "reject" /\ f \in todo /\ todo \subseteq Touched
        /\ IF todo = {f} THEN callAt' = "idle" /\ outcome' = "rolled-back" ELSE callAt' = "reject"
    BY <1>8 DEF Restore, CallTyped, CallReturns
  <2>2. \A g \in Touched \ todo' : worktree'[g] = originals[g]
    BY <2>1 DEF CallTyped, Checkouts, Progress, Touched
  <2>3. callAt' = "idle" => \A g \in Touched : worktree'[g] = originals[g]
    BY <2>1, <2>2
  <2>4. QED
    BY <2>1, <2>2, <2>3 DEF Progress, Accepted, Touched
<1>9. CASE Unreadable \/ GateCrashes
  BY <1>9, RejectProgress DEF Unreadable, GateCrashes
<1>10. CASE CountRaises \/ Undecoded
  <2>1. callAt' = "idle" /\ outcome' \in {"raised", "unreadable"}
    BY <1>10 DEF CountRaises, Undecoded, Leave, CallReturns
  <2>2. QED
    BY <2>1 DEF Progress, Accepted
<1>11. ASSUME NEW f \in Files, WriteRaises(f)
       PROVE  Progress'
  BY <1>11, LeaveProgress DEF WriteRaises
<1>12. ASSUME NEW f \in Files, RestoreRaises(f)
       PROVE  Progress'
  <2>1. CASE guarded
    BY <1>12, <2>1 DEF RestoreRaises, Reject, Progress, Accepted, Touched
  <2>2. QED
    BY <1>12, <2>1, LeaveProgress DEF RestoreRaises
<1>13. QED
  BY <1>1, <1>2, <1>3, <1>4, <1>5, <1>6, <1>7, <1>8, <1>9, <1>10, <1>11, <1>12 DEF Step, Fault
-----------------------------------------------------------------------------
Assumed == ContentsAssumption /\ GatesAssumption /\ BenchAssumption

LEMMA ProposalsTyped ==
  ASSUME ContentsAssumption
  PROVE  NoEdit \in Checkouts /\ \A p \in Proposals : p.edits \in Checkouts
<1>1. NoEdit \in Checkouts
  BY DEF NoEdit, Checkouts
<1>2. QED
  BY <1>1 DEF Proposals, Unusable

(* The texts a call finds in a tree, of the files it is to touch. *)
LEMMA FoundTyped ==
  ASSUME ContentsAssumption, NEW e \in Checkouts, NEW t \in Checkouts
  PROVE  [f \in Files |-> IF e[f] = NoFile THEN NoFile ELSE Text(t[f])] \in Checkouts
BY TextTyped DEF Checkouts, Slots

LEMMA CallKept ==
  ASSUME UNCHANGED callVars
  PROVE  (CallTyped' <=> CallTyped) /\ (Progress' <=> Progress)
<1> USE DEF callVars
<1>1. CallTyped' <=> CallTyped
  BY DEF CallTyped, Touched
<1>2. Progress' <=> Progress
  BY DEF Progress, Accepted, AsProposed, NoWorse, TypesMet, TestsMet, Touched, Existing, RuffCount
<1>3. QED
  BY <1>1, <1>2

(* A call begins with the texts of the files it is to touch. *)
LEMMA CallBegins ==
  ASSUME ContentsAssumption, NEW e \in Checkouts, worktree' \in Checkouts,
         edit' = e, callAt' = "parse",
         originals' = [f \in Files |-> IF e[f] = NoFile THEN NoFile ELSE Text(worktree'[f])]
  PROVE  CallTyped' /\ Progress'
<1>1. CallTyped'
  BY FoundTyped DEF CallTyped, Labels
<1>2. QED
  <2>1. \A f \in Touched' : originals'[f] = Text(worktree'[f])
    BY DEF Touched, Text
  <2>2. QED
    BY <1>1, <2>1 DEF Progress, Accepted, Text

LEMMA CallsStep ==
  ASSUME Assumed, CallTyped, BenchTyped, Progress, BenchNext
  PROVE  CallTyped' /\ Progress'
<1> USE DEF Assumed
<1>1. CASE StartControl
  <2>1. controls \in Seq([good : BOOLEAN, edit : Checkouts]) /\ controls # <<>>
    BY <1>1 DEF BenchTyped, StartControl
  <2>2. Head(controls) \in [good : BOOLEAN, edit : Checkouts]
    BY <2>1, HeadTailProperties
  <2>3. QED
    BY <1>1, <2>2, CallBegins DEF StartControl, Fresh, BenchTyped
<1>2. CASE StartPair
  <2>1. /\ worktree' \in Checkouts /\ edit' = NoEdit /\ originals' = NoEdit
        /\ callAt' = "idle" /\ outcome' = "none"
    BY <1>2 DEF StartPair, Fresh, BenchTyped, CallTyped, Labels
  <2>2. CallTyped'
    BY <2>1, ProposalsTyped DEF CallTyped, Labels
  <2>3. QED
    BY <2>1, <2>2 DEF Progress, Accepted
<1>3. CASE Attempt
  <2>1. proposal.edits \in Checkouts
    BY ProposalsTyped DEF BenchTyped
  <2>2. QED
    BY <1>3, <2>1, CallBegins DEF Attempt, Begin, CallTyped
<1>4. CASE Verifying
  BY <1>4, CallFrame, ProgressStep DEF Verifying
<1>5. CASE EndControl \/ Calibrated \/ PassOver \/ PatchVerified \/ EndPair \/ Abort
  BY <1>5, CallKept DEF EndControl, Calibrated, PassOver, PatchVerified, EndPair, Abort
<1>6. QED
  BY <1>1, <1>2, <1>3, <1>4, <1>5 DEF BenchNext

LEMMA EndAttemptTyped ==
  ASSUME BenchTyped, NEW record \in Records, EndAttempt(record)
  PROVE  /\ proposal' \in Proposals /\ asked' \in Nat /\ attempt' \in Nat
         /\ final' \in Records /\ at' \in {"on", "report"}
BY DEF BenchTyped, EndAttempt

LEMMA RowsTyped ==
  ASSUME Assumed, CallTyped, BenchTyped
  PROVE  OnRow \in Rows /\ \A p \in Proposals : OffRow(p) \in Rows
<1> USE DEF Assumed
<1>1. \A t \in Checkouts : Correct(t) \in BOOLEAN
  BY DEF BenchAssumption
<1>2. OnRow \in Rows
  <2>1. /\ (final.status = "committed") \in BOOLEAN
        /\ (final.status = "committed" /\ Correct(worktree)) \in BOOLEAN
    OBVIOUS
  <2>2. (IF final = NoRecord THEN MaxRetries ELSE final.retries) \in Nat
    BY DEF BenchTyped, BenchAssumption, Records
  <2>3. QED
    BY <2>1, <2>2 DEF OnRow, Rows
<1>3. ASSUME NEW p \in Proposals
      PROVE  OffRow(p) \in Rows
  <2>1. DEFINE landed == p.kind = "patch" /\ ~Unwritable(untouched, p.edits)
               good == landed /\ Correct(Written(untouched, p.edits))
  <2>2. landed \in BOOLEAN /\ good \in BOOLEAN
    OBVIOUS
  <2>3. OffRow(p) = [arm |-> "off", landed |-> landed, correct |-> good, retries |-> 0]
    BY DEF OffRow
  <2>4. HIDE DEF landed, good
  <2>5. QED
    BY <2>2, <2>3 DEF Rows
<1>4. QED
  BY <1>2, <1>3

LEMMA BenchTypedStep ==
  ASSUME Assumed, CallTyped, BenchTyped, Isolated, BenchNext
  PROVE  BenchTyped'
<1> USE DEF BenchTyped, Phases
<1>1. CASE StartControl
  BY <1>1 DEF StartControl
<1>2. CASE EndControl
  <2>1. controls' \in Seq([good : BOOLEAN, edit : Checkouts])
    BY <1>2 DEF EndControl
  <2>2. QED
    BY <1>2, <2>1 DEF EndControl, callVars
<1>3. CASE Calibrated
  BY <1>3 DEF Calibrated, callVars
<1>4. CASE StartPair
  <2>1. rows' \in Seq(Rows) /\ proposal' \in Proposals
    BY <1>4, RowsTyped DEF StartPair
  <2>2. final' \in Records /\ asked' \in Nat /\ attempt' \in Nat
    BY <1>4 DEF StartPair, NoRecord, Records
  <2>3. QED
    BY <1>4, <2>1, <2>2 DEF StartPair
<1>5. CASE PassOver
  <2>1. NoRecord \in Records
    BY DEF NoRecord, Records
  <2>2. QED
    BY <1>5, <2>1, EndAttemptTyped DEF PassOver, Unused, callVars
<1>6. CASE Attempt
  BY <1>6 DEF Attempt, Begin
<1>7. CASE PatchVerified
  <2>1. outcome # "unreadable" => [status |-> outcome, retries |-> attempt] \in Records
    BY <1>7 DEF PatchVerified, Escapes, Isolated, Records
  <2>2. NoRecord \in Records
    BY DEF NoRecord, Records
  <2>3. QED
    BY <1>7, <2>1, <2>2, EndAttemptTyped DEF PatchVerified, callVars
<1>8. CASE EndPair
  <2>1. rows' \in Seq(Rows)
    BY <1>8, RowsTyped DEF EndPair
  <2>2. QED
    BY <1>8, <2>1 DEF EndPair, callVars
<1>9. CASE Abort
  BY <1>9 DEF Abort, callVars
<1>10. CASE Verifying
  BY <1>10 DEF Verifying, benchVars
<1>11. QED
  BY <1>1, <1>2, <1>3, <1>4, <1>5, <1>6, <1>7, <1>8, <1>9, <1>10 DEF BenchNext

(* At the end of an attempt that was rejected, the worktree is as it was. *)
LEMMA BackAgain ==
  ASSUME CallTyped, Progress, Isolated, at = "verify", callAt = "idle", outcome = "rolled-back"
  PROVE  AsBegun
<1>1. /\ \A f \in Touched \ strewn : worktree[f] = Text(untouched[f])
      /\ \A f \in Files \ Touched : f \in strewn \/ worktree[f] \in {untouched[f], Text(untouched[f])}
  BY DEF Progress, Isolated
<1>2. QED
  BY <1>1 DEF AsBegun

LEMMA IsolatedStep ==
  ASSUME Assumed, CallTyped, BenchTyped, Progress, Isolated, AttemptsCounted, BenchNext
  PROVE  Isolated'
<1> USE DEF Assumed
<1>1. CASE StartControl \/ EndControl \/ Calibrated \/ EndPair \/ Abort
  BY <1>1 DEF StartControl, EndControl, Calibrated, EndPair, Abort, Isolated
<1>2. CASE StartPair
  BY <1>2 DEF StartPair, Fresh, Isolated, AsBegun
<1>3. CASE PassOver
  BY <1>3 DEF PassOver, EndAttempt, callVars, Isolated, AsBegun
<1>4. CASE Attempt
  <2>1. /\ at' = "verify" /\ callAt' = "parse" /\ UNCHANGED <<worktree, untouched, strewn>>
        /\ AsBegun
        /\ \A f \in Files : edit'[f] # NoFile => originals'[f] = Text(worktree[f])
    BY <1>4 DEF Attempt, Begin, bench, Isolated
  <2>2. \A f \in Files \ strewn : Text(worktree[f]) = Text(untouched[f])
    BY <2>1, TextTyped DEF AsBegun, BenchTyped, Checkouts, Slots
  <2>3. QED
    BY <2>1, <2>2 DEF Isolated, AsBegun, Touched
<1>5. CASE PatchVerified
  <2>1. outcome \in {"committed", "rolled-back", "unreadable"}
    BY <1>5 DEF PatchVerified, Escapes, Isolated
  <2>2. outcome # "committed" => AsBegun
    BY <1>5, <2>1, BackAgain DEF PatchVerified, Isolated
  <2>3. /\ final'.status = "committed" <=> outcome = "committed"
        /\ at' \in {"on", "report"} /\ (at' = "on" => outcome # "committed")
        /\ UNCHANGED <<outcome, worktree, untouched, strewn>>
    BY <1>5 DEF PatchVerified, EndAttempt, callVars, NoRecord
  <2>4. QED
    BY <2>2, <2>3 DEF Isolated, AsBegun
<1>6. CASE Verifying
  <2>1. Step \/ Fault
    BY <1>6 DEF Verifying
  <2>2. /\ UNCHANGED <<at, untouched, final, edit, originals>> /\ at \in {"control", "verify"}
        /\ Touched' = Touched /\ callAt # "idle"
        /\ \A f \in Files \ Touched : worktree'[f] = worktree[f]
        /\ callAt' = "idle" => outcome' \in {"committed", "rolled-back", "raised", "unreadable"}
        /\ callAt' \in {"parse", "count"} => UNCHANGED worktree
    BY <1>6, <2>1, CallFrame DEF Verifying, benchVars, Touched
  <2>3. callAt' \in {"parse", "count"} => callAt \in {"parse", "count"}
    BY <2>1 DEF Step, Fault, Parse, CountBefore, Lint, Typecheck, RunTests, Conclude, Write, Restore,
                Unreadable, Undecoded, CountRaises, GateCrashes, WriteRaises, RestoreRaises,
                Missing, Verdict, Reject, CallReturns, Leave
  <2>4. CASE UNCHANGED strewn /\ ~(callAt' = "idle" /\ outcome' = "unreadable")
    BY <2>2, <2>3, <2>4 DEF Isolated, AsBegun
  <2>5. CASE /\ callAt' = "idle" /\ UNCHANGED worktree
             /\ (callAt = "count" /\ strewn \subseteq strewn') \/ strewn' = strewn \cup Touched
    BY <2>2, <2>5 DEF Isolated, AsBegun
  <2>6. QED
    BY <2>1, <2>4, <2>5, StrewnGrows
<1>7. QED
  BY <1>1, <1>2, <1>3, <1>4, <1>5, <1>6 DEF BenchNext

LEMMA EndAttemptCounted ==
  ASSUME Assumed, BenchTyped, AttemptsCounted, NEW record, EndAttempt(record), UNCHANGED rows,
         at \in {"on", "verify"},
         record.status = "none" => record = NoRecord,
         record.status # "none" => record.retries = attempt
  PROVE  AttemptsCounted'
<1>1. attempt \in Nat /\ MaxRetries \in Nat /\ asked = attempt + 1 /\ attempt <= MaxRetries
  BY DEF Assumed, BenchAssumption, BenchTyped, AttemptsCounted
<1>2. CASE at' = "on"
  BY <1>1, <1>2 DEF EndAttempt, AttemptsCounted
<1>3. CASE at' # "on"
  <2>1. at' = "report" /\ UNCHANGED <<attempt, asked>> /\ final' = record
    BY <1>3 DEF EndAttempt
  <2>2. record = NoRecord => attempt = MaxRetries /\ record.status = "none"
    BY <1>1, <1>3 DEF EndAttempt, NoRecord
  <2>3. QED
    BY <1>1, <1>3, <2>1, <2>2 DEF AttemptsCounted, EndAttempt
<1>4. QED
  BY <1>2, <1>3

(* The off arm adds its row before that of the on arm. *)
LEMMA OffRowAdded ==
  ASSUME Assumed, CallTyped, BenchTyped, AttemptsCounted, StartPair
  PROVE  Len(rows') >= 1 /\ Len(rows') # 2
<1>1. rows \in Seq(Rows)
  BY DEF BenchTyped
<1>2. Len(rows) # 1
  BY DEF StartPair, AttemptsCounted
<1>3. PICK p \in Proposals : rows' = Append(rows, OffRow(p))
  BY DEF StartPair
<1>4. Len(rows') = Len(rows) + 1
  BY <1>1, <1>3, RowsTyped
<1>5. Len(rows) \in Nat
  BY <1>1
<1>6. \A n \in Nat : n # 1 => n + 1 >= 1 /\ n + 1 # 2
  OBVIOUS
<1>7. QED
  BY <1>2, <1>4, <1>5, <1>6

LEMMA AttemptsCountedStep ==
  ASSUME Assumed, CallTyped, BenchTyped, Isolated, AttemptsCounted, BenchNext
  PROVE  AttemptsCounted'
<1>1. rows \in Seq(Rows) /\ Len(rows) \in Nat /\ MaxRetries \in Nat
  BY DEF BenchTyped, Assumed, BenchAssumption
<1>2. CASE StartControl \/ EndControl \/ Calibrated
  BY <1>2 DEF StartControl, EndControl, Calibrated, AttemptsCounted
<1>3. CASE Abort
  BY <1>3 DEF Abort, AttemptsCounted
<1>4. CASE StartPair
  <2>1. at' = "on" /\ asked' = 1 /\ attempt' = 0
    BY <1>4 DEF StartPair
  <2>2. QED
    BY <1>1, <1>4, <2>1, OffRowAdded DEF AttemptsCounted
<1>5. CASE PassOver
  <2>1. at = "on" /\ EndAttempt(NoRecord) /\ UNCHANGED rows
    BY <1>5 DEF PassOver, Unused
  <2>2. QED
    BY <2>1, EndAttemptCounted DEF NoRecord
<1>6. CASE Attempt
  BY <1>6 DEF Attempt, AttemptsCounted
<1>7. CASE PatchVerified
  <2>1. outcome # "none"
    BY <1>7 DEF PatchVerified, Isolated
  <2>2. QED
    BY <1>7, <2>1, EndAttemptCounted DEF PatchVerified, NoRecord
<1>8. CASE EndPair
  <2>1. Len(rows') = Len(rows) + 1 /\ Len(rows) >= 1
    BY <1>1, <1>8, RowsTyped DEF EndPair, AttemptsCounted
  <2>2. QED
    BY <1>1, <1>8, <2>1 DEF EndPair, AttemptsCounted
<1>9. CASE Verifying
  BY <1>9 DEF Verifying, benchVars, AttemptsCounted
<1>10. QED
  BY <1>2, <1>3, <1>4, <1>5, <1>6, <1>7, <1>8, <1>9 DEF BenchNext

LEMMA ReportStep ==
  ASSUME Assumed, CallTyped, BenchTyped, Isolated, AttemptsCounted, ReportIsTrue, BenchNext
  PROVE  ReportIsTrue'
<1> SUFFICES ASSUME Len(rows') = 2
             PROVE  /\ rows'[2].retries = asked' - 1
                    /\ Caught' => Correct(worktree') \/ AsBegun'
  BY DEF ReportIsTrue
<1>1. rows \in Seq(Rows) /\ Len(rows) \in Nat
  BY DEF BenchTyped
<1>2. CASE EndPair
  <2>1. rows' = Append(rows, OnRow) /\ rows'[2] = OnRow
    BY <1>1, <1>2, RowsTyped DEF EndPair
  <2>2. UNCHANGED <<worktree, untouched, strewn, asked>> /\ asked = attempt + 1 /\ attempt \in Nat
    BY <1>2 DEF EndPair, callVars, AttemptsCounted, BenchTyped
  <2>3. (IF final = NoRecord THEN MaxRetries ELSE final.retries) = attempt
    BY <1>2 DEF EndPair, AttemptsCounted, NoRecord
  <2>4. OnRow.retries = attempt
    BY <2>3 DEF OnRow
  <2>5. CASE final.status = "committed"
    <3>1. OnRow.landed /\ (OnRow.correct <=> Correct(worktree))
      BY <2>5, Zenon DEF OnRow
    <3>2. QED
      BY <2>1, <2>2, <2>4, <2>5, <3>1 DEF Caught
  <2>6. CASE final.status # "committed"
    BY <1>2, <2>1, <2>2, <2>4, <2>6 DEF EndPair, Isolated, AsBegun
  <2>7. QED
    BY <2>5, <2>6
<1>3. CASE StartPair
  BY <1>3, OffRowAdded
<1>4. CASE StartControl \/ EndControl \/ PassOver \/ Attempt \/ PatchVerified \/ Verifying
  BY <1>4 DEF StartControl, EndControl, PassOver, Attempt, PatchVerified, Verifying, benchVars, AttemptsCounted
<1>5. CASE Calibrated
  BY <1>5 DEF Calibrated, AttemptsCounted
<1>6. CASE Abort
  BY <1>6 DEF Abort
<1>7. QED
  BY <1>2, <1>3, <1>4, <1>5, <1>6 DEF BenchNext
-----------------------------------------------------------------------------
LEMMA InvInit ==
  ASSUME Assumed, BenchInit
  PROVE  Inv
<1> USE DEF Assumed
<1>1. NoEdit \in Checkouts /\ Unusable("error") \in Proposals
  BY ProposalsTyped DEF Proposals
<1>2. untouched \in Checkouts /\ controls \in Seq([good : BOOLEAN, edit : Checkouts])
  BY DEF BenchInit, BenchAssumption
<1>3. CallTyped
  BY <1>1, <1>2 DEF BenchInit, CallInit, CallTyped, Labels
<1>4. NoRecord \in Records
  BY DEF NoRecord, Records
<1>5. BenchTyped
  BY <1>1, <1>2, <1>4 DEF BenchInit, CallInit, BenchTyped, Phases
<1>6. Progress
  BY DEF BenchInit, CallInit, Progress, Accepted
<1>7. Isolated /\ AttemptsCounted /\ ReportIsTrue
  BY DEF BenchInit, Isolated, AttemptsCounted, ReportIsTrue
<1>8. QED
  BY <1>3, <1>5, <1>6, <1>7 DEF Inv

LEMMA InvStep ==
  ASSUME Assumed, Inv, [BenchNext]_harnessVars
  PROVE  Inv'
<1>1. CASE BenchNext
  BY <1>1, CallsStep, BenchTypedStep, IsolatedStep, AttemptsCountedStep, ReportStep DEF Inv
<1>2. CASE UNCHANGED harnessVars
  <2>1. UNCHANGED callVars /\ UNCHANGED benchVars
    BY <1>2 DEF harnessVars
  <2>2. CallTyped' /\ Progress'
    BY <2>1, CallKept DEF Inv
  <2>3. BenchTyped' /\ Isolated' /\ AttemptsCounted' /\ ReportIsTrue'
    BY <2>1 DEF Inv, callVars, benchVars, BenchTyped, Isolated, AttemptsCounted, ReportIsTrue, Caught,
                AsBegun, Touched
  <2>4. QED
    BY <2>2, <2>3 DEF Inv
<1>3. QED
  BY <1>1, <1>2

LEMMA Invariance ==
  ASSUME Assumed
  PROVE  BenchSpec => []Inv
<1>1. BenchInit => Inv
  BY InvInit
<1>2. Inv /\ [BenchNext]_harnessVars => Inv'
  BY InvStep
<1>3. QED
  BY <1>1, <1>2, PTL DEF BenchSpec

(* Whichever attempt it is, a patch verify_edits accepts has met every required
   gate: the gate ran, and was green; the patch is on disk as it was proposed. *)
THEOREM EveryGateIsMet ==
  ASSUME ContentsAssumption, GatesAssumption, BenchAssumption
  PROVE  BenchSpec => []AcceptedIsGated
<1>1. Inv => AcceptedIsGated
  <2>1. SUFFICES ASSUME Inv, Accepted PROVE AcceptedIsGated
    BY DEF Accepted, AcceptedIsGated
  <2>2. AsProposed /\ NoWorse /\ TypesMet /\ TestsMet /\ Required \cap {"callsite_sweep", "handled_result"} = {}
    BY <2>1 DEF Inv, Progress
  <2>3. QED
    BY <2>2 DEF AsProposed, NoWorse, TypesMet, TestsMet, AcceptedIsGated, GatesAssumption, Gates
<1>2. QED
  BY <1>1, Invariance, PTL DEF Assumed

(* No attempt is judged on the leavings of the one before: a rejected patch is taken
   back from every file, a proposal that is passed over touches none, and only the
   files of a patch whose gate printed what cannot be read stay as proposed. *)
THEOREM AttemptsStartClean ==
  ASSUME ContentsAssumption, GatesAssumption, BenchAssumption
  PROVE  BenchSpec => []AttemptsAreIndependent
<1>1. Inv => AttemptsAreIndependent
  BY DEF Inv, Isolated, AttemptsAreIndependent
<1>2. QED
  BY <1>1, Invariance, PTL DEF Assumed

(* The records of a pair count the times the proposer was asked again, and a wrong
   patch the report says was caught is nowhere in the worktree, but for files that
   unreadable output of a gate left as proposed. *)
THEOREM RecordsTellThePair ==
  ASSUME ContentsAssumption, GatesAssumption, BenchAssumption
  PROVE  BenchSpec => []ReportIsTrue
<1>1. Inv => ReportIsTrue
  BY DEF Inv
<1>2. QED
  BY <1>1, Invariance, PTL DEF Assumed
-----------------------------------------------------------------------------
(***************************************************************************)
(* RefactorBench.  A task is settled when every later classification of it *)
(* must say what the first one said: the patterns take it, or the model's  *)
(* answer is recorded.                                                     *)
(***************************************************************************)
TaskNames == DOMAIN ScopeOf \cap DOMAIN SubtestsOf \cap DOMAIN Outputs

Settled == {t \in TaskNames : Renames(t) \/ (options.llm /\ t \in DOMAIN answers /\ answers[t])}

ScopeInv ==
  /\ pending \in Seq(TaskNames) /\ selected \in Seq(TaskNames)
  /\ answers \in [DOMAIN answers -> BOOLEAN]
  /\ DOMAIN results = 1 .. Len(results) /\ Len(results) \in Nat
  /\ Filtered => selected \in Seq(Settled)
  /\ Filtered => \A i \in 1 .. Len(results) : results[i].inScope

(* What is asked again is answered the same, and nothing recorded is lost. *)
LEMMA AnswersStand ==
  ASSUME ScopeInv, NEW task \in TaskNames, NEW inScope \in BOOLEAN, Classified(task, inScope), UNCHANGED options
  PROVE  /\ answers' \in [DOMAIN answers' -> BOOLEAN]
         /\ Settled \subseteq Settled'
         /\ inScope => task \in Settled'
         /\ task \in Settled => inScope
<1>1. CASE (Renames(task) \/ ~options.llm) /\ inScope = Renames(task) /\ UNCHANGED answers
  BY <1>1 DEF ScopeInv, Settled, Renames
<1>2. CASE ~Renames(task) /\ options.llm /\ Asked(task, inScope)
  <2>1. CASE task \in DOMAIN answers /\ inScope = answers[task] /\ UNCHANGED answers
    BY <1>2, <2>1 DEF ScopeInv, Settled, Renames
  <2>2. CASE task \notin DOMAIN answers /\ ~inScope /\ UNCHANGED answers
    BY <1>2, <2>2 DEF ScopeInv, Settled, Renames
  <2>3. CASE /\ task \notin DOMAIN answers
             /\ answers' = [t \in DOMAIN answers \cup {task} |-> IF t = task THEN inScope ELSE answers[t]]
    <3>1. answers' \in [DOMAIN answers' -> BOOLEAN]
      BY <2>3 DEF ScopeInv
    <3>2. /\ DOMAIN answers' = DOMAIN answers \cup {task} /\ answers'[task] = inScope
          /\ \A t \in DOMAIN answers : answers'[t] = answers[t]
      BY <2>3
    <3>3. Settled \subseteq Settled'
      BY <3>2 DEF Settled, Renames
    <3>4. inScope => task \in Settled'
      BY <1>2, <3>2 DEF Settled
    <3>5. task \notin Settled
      BY <1>2, <2>3 DEF Settled
    <3>6. QED
      BY <3>1, <3>3, <3>4, <3>5
  <2>4. QED
    BY <1>2, <2>1, <2>2, <2>3 DEF Asked
<1>3. QED
  BY <1>1, <1>2 DEF Classified

(* What a run is cut to was selected. *)
LEMMA ShortenedKeeps ==
  ASSUME NEW S, NEW s \in Seq(S), options \in Options, SmokeTasks \in Nat
  PROVE  Shortened(s) \in Seq(S)
<1> DEFINE few == IF options.smoke THEN SmokeTasks ELSE Len(s)
           many == IF options.limit = 0 THEN few ELSE Min({few, options.limit})
           n == Min({many, Len(s)})
<1>1. ASSUME NEW a \in Nat, NEW b \in Nat PROVE Min({a, b}) \in Nat /\ Min({a, b}) <= b
  <2>1. \E x \in {a, b} : \A y \in {a, b} : x <= y
    <3>1. CASE a <= b
      BY <3>1
    <3>2. CASE b <= a
      BY <3>2
    <3>3. QED
      BY <3>1, <3>2
  <2>2. Min({a, b}) \in {a, b} /\ \A y \in {a, b} : Min({a, b}) <= y
    BY <2>1 DEF Min
  <2>3. QED
    BY <2>2
<1>2. few \in Nat /\ options.limit \in Nat
  BY TasksAssumption
<1>5. Shortened(s) = SubSeq(s, 1, n)
  BY DEF Shortened
<1> HIDE DEF few
<1>3. many \in Nat
  BY <1>1, <1>2
<1> HIDE DEF many
<1>6. Len(s) \in Nat
  OBVIOUS
<1>4. n \in Nat /\ n <= Len(s)
  BY <1>1, <1>3, <1>6
<1> HIDE DEF n
<1>7. QED
  BY <1>4, <1>5

LEMMA ScopeInitInv == RbInit => ScopeInv
BY TasksAssumption DEF RbInit, ScopeInv, TaskNames

LEMMA SelectKeepsScope ==
  ASSUME ScopeInv, options \in Options, SmokeTasks \in Nat, Select
  PROVE  ScopeInv'
<1> DEFINE task == Head(pending)
<1>1. PICK kept \in BOOLEAN :
        /\ IF Filtered THEN Classified(task, kept) ELSE kept /\ UNCHANGED answers
        /\ LET tasks == IF kept THEN Append(selected, task) ELSE selected
           IN  selected' = IF Len(pending) = 1 THEN Shortened(tasks) ELSE tasks
  BY DEF Select
<1> DEFINE tasks == IF kept THEN Append(selected, task) ELSE selected
<1>2. /\ pending # <<>> /\ pending' = Tail(pending) /\ UNCHANGED <<options, results>>
      /\ selected' = IF Len(pending) = 1 THEN Shortened(tasks) ELSE tasks
  BY <1>1 DEF Select
<1>3. task \in TaskNames /\ pending' \in Seq(TaskNames)
  BY <1>2 DEF ScopeInv
<1>4. tasks \in Seq(TaskNames)
  BY <1>3 DEF ScopeInv
<1>5. CASE Filtered
  <2>1. Classified(task, kept)
    BY <1>1, <1>5
  <2>2. /\ answers' \in [DOMAIN answers' -> BOOLEAN]
        /\ Settled \subseteq Settled'
        /\ kept => task \in Settled'
    BY <1>2, <1>3, <2>1, AnswersStand
  <2>3. selected \in Seq(Settled')
    BY <1>5, <2>2 DEF ScopeInv
  <2>4. tasks \in Seq(Settled')
    BY <2>2, <2>3
  <2> HIDE DEF tasks, task
  <2>5. selected' \in Seq(TaskNames) /\ selected' \in Seq(Settled')
    BY <1>2, <1>4, <2>4, ShortenedKeeps
  <2>6. QED
    BY <1>2, <1>3, <2>2, <2>5 DEF ScopeInv, Filtered
<1>6. CASE ~Filtered
  <2>1. UNCHANGED answers
    BY <1>1, <1>6
  <2> HIDE DEF tasks, task
  <2>2. selected' \in Seq(TaskNames)
    BY <1>2, <1>4, ShortenedKeeps
  <2>3. QED
    BY <1>2, <1>3, <1>6, <2>1, <2>2 DEF ScopeInv, Filtered
<1>7. QED
  BY <1>5, <1>6

LEMMA RunTaskKeepsScope ==
  ASSUME ScopeInv, RunTask
  PROVE  ScopeInv'
<1> DEFINE task == Head(selected)
<1>1. PICK inScope \in BOOLEAN :
        /\ Classified(task, inScope)
        /\ \E r : results' = Append(results, r) /\ r.inScope = inScope
  <2>1. PICK inScope \in BOOLEAN :
          /\ Classified(task, inScope)
          /\ \E s, count : results' = Append(results, Result(task, inScope, s, count))
    <3> DEFINE none == [passed |-> 0, total |-> SubtestsOf[task]]
    <3>1. PICK inScope \in BOOLEAN :
            /\ Classified(task, inScope)
            /\ \/ ~inScope /\ results' = Append(results, Result(task, FALSE, "declined", none))
               \/ /\ inScope
                  /\ \E s \in {"target_not_found", "parse_failed", "error"} :
                       results' = Append(results, Result(task, TRUE, s, none))
               \/ /\ inScope
                  /\ \E out \in Outputs[task] :
                       results' = Append(results, Result(task, TRUE, "applied", Counted(task, out)))
      BY DEF RunTask
    <3> HIDE DEF none, task
    <3>2. CASE ~inScope /\ results' = Append(results, Result(task, FALSE, "declined", none))
      BY <3>1, <3>2
    <3>3. CASE /\ inScope
               /\ \E s \in {"target_not_found", "parse_failed", "error"} :
                    results' = Append(results, Result(task, TRUE, s, none))
      BY <3>1, <3>3
    <3>4. CASE /\ inScope
               /\ \E out \in Outputs[task] :
                    results' = Append(results, Result(task, TRUE, "applied", Counted(task, out)))
      BY <3>1, <3>4
    <3>5. QED
      BY <3>1, <3>2, <3>3, <3>4
  <2>2. \A s, count : Result(task, inScope, s, count).inScope = inScope
    BY DEF Result
  <2>3. QED
    BY <2>1, <2>2
<1>2. /\ selected # <<>> /\ selected' = Tail(selected) /\ UNCHANGED <<options, pending>>
  BY DEF RunTask
<1>3. task \in TaskNames /\ selected' \in Seq(TaskNames)
  BY <1>2 DEF ScopeInv
<1>4. /\ answers' \in [DOMAIN answers' -> BOOLEAN]
      /\ Settled \subseteq Settled'
      /\ task \in Settled => inScope
  BY <1>1, <1>2, <1>3, AnswersStand
<1>5. Filtered => task \in Settled /\ selected' \in Seq(Settled')
  BY <1>2, <1>4 DEF ScopeInv
<1> HIDE DEF task
<1>6. PICK r : results' = Append(results, r) /\ r.inScope = inScope
  BY <1>1
<1>7. /\ Len(results') = Len(results) + 1 /\ DOMAIN results' = 1 .. Len(results')
      /\ \A i \in 1 .. Len(results) : results'[i] = results[i]
      /\ results'[Len(results) + 1] = r
  BY <1>6 DEF ScopeInv
<1>8. ASSUME Filtered, NEW i \in 1 .. Len(results') PROVE results'[i].inScope
  <2>1. CASE i \in 1 .. Len(results)
    BY <1>7, <1>8, <2>1 DEF ScopeInv
  <2>2. CASE i \notin 1 .. Len(results)
    <3>1. i = Len(results) + 1
      BY <1>7, <2>2 DEF ScopeInv
    <3>2. QED
      BY <1>4, <1>5, <1>6, <1>7, <1>8, <3>1
  <2>3. QED
    BY <2>1, <2>2
<1>9. QED
  BY <1>2, <1>3, <1>4, <1>5, <1>7, <1>8 DEF ScopeInv, Filtered

(* What run_eval chose as in scope is never declined by the classification run_task
   makes again, whatever the model says and however the run is cut. *)
THEOREM ScopeStaysSettled ==
  ASSUME TasksAssumption
  PROVE  RbSpec => []ScopeIsSettled
<1> DEFINE TheInv == options \in Options /\ ScopeInv
<1>1. RbInit => TheInv
  BY ScopeInitInv DEF RbInit
<1>2. ASSUME TheInv, [RbNext]_rbVars PROVE TheInv'
  <2>1. UNCHANGED options
    BY <1>2 DEF RbNext, Select, RunTask, rbVars
  <2>2. CASE RbNext
    BY <1>2, <2>1, <2>2, TasksAssumption, SelectKeepsScope, RunTaskKeepsScope DEF RbNext
  <2>3. CASE UNCHANGED rbVars
    <3>1. UNCHANGED <<pending, selected, answers, results, Filtered, Settled>>
      BY <2>3 DEF rbVars, Filtered, Settled
    <3>2. QED
      BY <1>2, <2>1, <3>1 DEF ScopeInv
  <2>4. QED
    BY <1>2, <2>2, <2>3
<1>3. ASSUME TheInv PROVE ScopeIsSettled
  <2> SUFFICES ASSUME Filtered PROVE Summary.outOfScope = 0
    BY DEF ScopeIsSettled
  <2>1. {i \in DOMAIN results : ~results[i].inScope} = {}
    BY <1>3 DEF ScopeInv
  <2>2. Summary.outOfScope = Cardinality({i \in DOMAIN results : ~results[i].inScope})
    BY DEF Summary
  <2>3. QED
    BY <2>1, <2>2, FS_EmptySet
<1> HIDE DEF TheInv
<1>4. QED
  BY <1>1, <1>2, <1>3, PTL DEF RbSpec
-----------------------------------------------------------------------------
(* RefactorCampaign. *)

USE PlanAssumption, CallbacksAssumption

(* While a callback runs the campaign is open, and the step in flight is one
   execute_step did not refuse. *)
InFlight ==
  /\ closed <=> verdict # "open"
  /\ pc # "idle" => ~closed
  /\ pc \in {"submit", "verify"} =>
       /\ step \in Steps
       /\ step \notin Completed
       /\ Dependencies[step] \subseteq Completed
       /\ edited \subseteq AffectedPaths[step]

LEMMA RefusalType ==
  ASSUME NEW s, NEW paths
  PROVE  Refusal(s, paths) \in {"none"} \cup Failures
BY DEF Refusal, Failures

LEMMA CallCounts ==
  ASSUME TypeOK, Called
  PROVE  calls' \in 0 .. MaxCalls
BY DEF TypeOK, Called

(* What a failing call leaves behind. *)
LEMMA FailType ==
  ASSUME TypeOK, NEW refusal \in Failures, Fail(refusal)
  PROVE  /\ tree' \in Trees /\ flags' \in SUBSET Steps
         /\ closed' = TRUE /\ pc' = "idle" /\ result' \in Results
         /\ verdict' \in {"restored", "incomplete"}
         /\ verdict' = "restored" => tree' = baseline
BY DEF Fail, TypeOK, Return, Results, Restored

LEMMA InitTypeOK == Init => TypeOK /\ InFlight
<1> SUFFICES ASSUME Init PROVE TypeOK /\ InFlight
  OBVIOUS
<1>1. completed \in Seq(Steps)
  BY DEF Init
<1>2. tree \in Trees /\ baseline \in Trees
  BY DEF Init
<1>3. pc \in {"idle", "submit", "verify", "audit"} /\ closed \in BOOLEAN /\ result \in Results
  BY DEF Init, Results
<1>4. step \in Steps \cup {UnknownStep} /\ edited \in SUBSET Paths /\ flags \in SUBSET Steps
  BY DEF Init
<1>5. calls \in 0 .. MaxCalls
  BY DEF Init
<1>6. verdict \in {"open", "completed", "restored", "incomplete"}
  BY DEF Init
<1>7. TypeOK
  BY <1>1, <1>2, <1>3, <1>4, <1>5, <1>6 DEF TypeOK
<1>8. InFlight
  BY DEF Init, InFlight
<1>9. QED
  BY <1>7, <1>8

LEMMA NextTypeOK == TypeOK /\ InFlight /\ [Next]_vars => TypeOK'
<1> SUFFICES ASSUME TypeOK, InFlight, [Next]_vars PROVE TypeOK'
  OBVIOUS
<1> USE DEF TypeOK
<1>1. CASE CallClosed
  BY <1>1 DEF CallClosed, Called, Return, Results
<1>2. ASSUME NEW s \in Steps \cup {UnknownStep}, NEW paths \in SUBSET Paths, ExecuteStep(s, paths)
      PROVE  TypeOK'
  <2>1. CASE Refusal(s, paths) = "none"
    BY <1>2, <2>1 DEF ExecuteStep, Called
  <2>2. CASE Refusal(s, paths) # "none"
    <3>1. Refusal(s, paths) \in Failures
      BY <2>2, RefusalType
    <3>2. Fail(Refusal(s, paths))
      BY <1>2, <2>2 DEF ExecuteStep
    <3>3. /\ tree' \in Trees /\ flags' \in SUBSET Steps
          /\ closed' = TRUE /\ pc' = "idle" /\ result' \in Results
          /\ verdict' \in {"restored", "incomplete"}
      BY <3>1, <3>2, FailType
    <3>4. step' = s /\ edited' = paths /\ UNCHANGED <<baseline, completed>>
      BY <1>2 DEF ExecuteStep
    <3>5. QED
      BY <1>2, <3>3, <3>4, CallCounts DEF ExecuteStep
  <2>3. QED
    BY <2>1, <2>2
<1>3. CASE Submitted
  BY <1>3 DEF Submitted, Scribble
<1>4. CASE SubmissionFails
  BY <1>4, FailType DEF SubmissionFails, Failures
<1>5. CASE Verified
  <2>1. step \in Steps
    BY <1>5 DEF Verified, InFlight
  <2>2. QED
    BY <1>5, <2>1 DEF Verified, CompleteStep, Return, Results
<1>6. CASE VerificationFails
  BY <1>6, FailType DEF VerificationFails, Failures
<1>7. CASE CallbackRaises
  BY <1>7 DEF CallbackRaises, Scribble, Return, Results
<1>8. CASE Finish
  <2>1. CASE Steps \subseteq Completed
    BY <1>8, <2>1 DEF Finish, Called
  <2>2. CASE ~(Steps \subseteq Completed)
    <3>1. Fail("incomplete") /\ UNCHANGED <<baseline, step, edited, completed>>
      BY <1>8, <2>2 DEF Finish
    <3>2. /\ tree' \in Trees /\ flags' \in SUBSET Steps
          /\ closed' = TRUE /\ pc' = "idle" /\ result' \in Results
          /\ verdict' \in {"restored", "incomplete"}
      BY <3>1, FailType DEF Failures
    <3>3. QED
      BY <1>8, <3>1, <3>2, CallCounts DEF Finish
  <2>3. QED
    BY <2>1, <2>2
<1>9. CASE AuditPasses
  BY <1>9 DEF AuditPasses, Return, Results
<1>10. CASE AuditFails
  BY <1>10, FailType DEF AuditFails, Failures
<1>11. CASE UNCHANGED vars
  BY <1>11 DEF vars
<1>12. QED
  BY <1>1, <1>2, <1>3, <1>4, <1>5, <1>6, <1>7, <1>8, <1>9, <1>10, <1>11 DEF Next

(* A step that is no rollback keeps the completed steps, or appends the one
   in flight. *)
LEMMA CompletedGrows ==
  ASSUME TypeOK, InFlight, [Next]_vars
  PROVE  \/ completed' = completed
         \/ CompleteStep /\ pc = "verify" /\ pc' = "idle" /\ closed' = closed
            /\ verdict' = verdict /\ tree' = tree /\ baseline' = baseline
BY DEF Next, vars, CallClosed, ExecuteStep, Submitted, SubmissionFails, Verified,
       Return, VerificationFails, CallbackRaises, Finish, AuditPasses, AuditFails

LEMMA NextInFlight == TypeOK /\ InFlight /\ [Next]_vars => InFlight'
<1> SUFFICES ASSUME TypeOK, InFlight, [Next]_vars PROVE InFlight'
  OBVIOUS
<1>a. ASSUME NEW refusal \in Failures, Fail(refusal)
      PROVE  InFlight'
  BY <1>a, FailType DEF InFlight
<1>1. CASE CallClosed
  BY <1>1 DEF CallClosed, Called, Return, InFlight
<1>2. ASSUME NEW s \in Steps \cup {UnknownStep}, NEW paths \in SUBSET Paths, ExecuteStep(s, paths)
      PROVE  InFlight'
  <2>1. CASE Refusal(s, paths) = "none"
    <3>1. /\ s \in Steps /\ s \notin Completed
          /\ Dependencies[s] \subseteq Completed
          /\ paths \subseteq AffectedPaths[s]
      BY <2>1 DEF Refusal
    <3>2. /\ step' = s /\ edited' = paths /\ completed' = completed
          /\ closed' = closed /\ verdict' = verdict /\ ~closed
      BY <1>2, <2>1 DEF ExecuteStep, IsOpen
    <3>3. Completed' = Completed
      BY <3>2 DEF Completed
    <3>4. QED
      BY <3>1, <3>2, <3>3 DEF InFlight
  <2>2. CASE Refusal(s, paths) # "none"
    BY <1>2, <2>2, RefusalType, <1>a DEF ExecuteStep
  <2>3. QED
    BY <2>1, <2>2
<1>3. CASE Submitted
  <2>1. UNCHANGED <<step, edited, completed, closed, verdict>> /\ pc = "submit" /\ pc' = "verify"
    BY <1>3 DEF Submitted
  <2>2. Completed' = Completed
    BY <2>1 DEF Completed
  <2>3. QED
    BY <2>1, <2>2 DEF InFlight
<1>4. CASE SubmissionFails
  BY <1>4, <1>a DEF SubmissionFails, Failures
<1>5. CASE Verified
  BY <1>5 DEF Verified, Return, InFlight
<1>6. CASE VerificationFails
  BY <1>6, <1>a DEF VerificationFails, Failures
<1>7. CASE CallbackRaises
  BY <1>7 DEF CallbackRaises, Return, InFlight
<1>8. CASE Finish
  <2>1. CASE Steps \subseteq Completed
    BY <1>8, <2>1 DEF Finish, IsOpen, InFlight
  <2>2. CASE ~(Steps \subseteq Completed)
    BY <1>8, <2>2, <1>a DEF Finish, Failures
  <2>3. QED
    BY <2>1, <2>2
<1>9. CASE AuditPasses
  BY <1>9 DEF AuditPasses, Return, InFlight
<1>10. CASE AuditFails
  BY <1>10, <1>a DEF AuditFails, Failures
<1>11. CASE UNCHANGED vars
  <2>1. Completed' = Completed
    BY <1>11 DEF vars, Completed
  <2>2. QED
    BY <1>11, <2>1 DEF vars, InFlight
<1>12. QED
  BY <1>1, <1>2, <1>3, <1>4, <1>5, <1>6, <1>7, <1>8, <1>9, <1>10, <1>11 DEF Next

LEMMA InvariantHolds == Spec => [](TypeOK /\ InFlight)
BY InitTypeOK, NextTypeOK, NextInFlight, PTL DEF Spec

(* The variables hold values of their types, whatever the callbacks answer. *)
THEOREM TypeCorrect == Spec => []TypeOK
BY InvariantHolds, PTL
-----------------------------------------------------------------------------
(* What the campaign records when it completes the step in flight. *)
LEMMA CompleteStepFacts ==
  ASSUME TypeOK, step \in Steps, CompleteStep
  PROVE  /\ Len(completed) \in Nat /\ DOMAIN completed = 1 .. Len(completed)
         /\ DOMAIN completed' = 1 .. Len(completed) + 1
         /\ \A i \in 1 .. Len(completed) : completed'[i] = completed[i]
         /\ completed'[Len(completed) + 1] = step
BY DEF TypeOK, CompleteStep

LEMMA NextStepsInOrder ==
  TypeOK /\ InFlight /\ StepsInOrder /\ [Next]_vars => StepsInOrder'
<1> SUFFICES ASSUME TypeOK, InFlight, StepsInOrder, [Next]_vars PROVE StepsInOrder'
  OBVIOUS
<1>1. CASE completed' = completed
  BY <1>1 DEF StepsInOrder
<1>2. CASE CompleteStep /\ pc = "verify"
  <2> DEFINE n == Len(completed)
  <2>1. /\ step \in Steps
        /\ \A i \in DOMAIN completed : completed[i] # step
        /\ \A d \in Dependencies[step] : \E i \in DOMAIN completed : completed[i] = d
    BY <1>2 DEF InFlight, Completed
  <2>2. /\ n \in Nat /\ DOMAIN completed = 1 .. n /\ DOMAIN completed' = 1 .. n + 1
        /\ \A i \in 1 .. n : completed'[i] = completed[i]
        /\ completed'[n + 1] = step
    BY <1>2, <2>1, CompleteStepFacts
  <2> HIDE DEF n
  <2>3. ASSUME NEW i \in 1 .. n + 1, NEW j \in 1 .. n + 1, completed'[i] = completed'[j]
        PROVE  i = j
    <3>1. CASE i \in 1 .. n /\ j \in 1 .. n
      BY <3>1, <2>2, <2>3 DEF StepsInOrder
    <3>2. CASE i = n + 1 /\ j \in 1 .. n
      BY <3>2, <2>1, <2>2, <2>3
    <3>3. CASE j = n + 1 /\ i \in 1 .. n
      BY <3>3, <2>1, <2>2, <2>3
    <3>4. QED
      BY <3>1, <3>2, <3>3, <2>2
  <2>4. ASSUME NEW i \in 1 .. n + 1, NEW d \in Dependencies[completed'[i]]
        PROVE  \E j \in 1 .. i - 1 : completed'[j] = d
    <3>1. CASE i \in 1 .. n
      <4>1. PICK j \in 1 .. i - 1 : completed[j] = d
        BY <3>1, <2>2, <2>4 DEF StepsInOrder
      <4>2. j \in 1 .. n
        BY <3>1, <2>2
      <4>3. QED
        BY <4>1, <4>2, <2>2
    <3>2. CASE i = n + 1
      <4>1. PICK j \in 1 .. n : completed[j] = d
        BY <3>2, <2>1, <2>2
      <4>2. QED
        BY <4>1, <3>2, <2>2
    <3>3. QED
      BY <3>1, <3>2, <2>2
  <2>5. QED
    BY <2>2, <2>3, <2>4 DEF StepsInOrder
<1>3. QED
  BY <1>1, <1>2, CompletedGrows

(* Whatever calls are refused or raise in between, no step of the plan is
   completed twice, or before a step it depends on: _completed, and not the
   plan's flags, decides what execute_step lets through. *)
THEOREM StepsCompletedInOrder == Spec => []StepsInOrder
<1>1. Init => StepsInOrder
  BY DEF Init, StepsInOrder
<1>2. QED
  BY <1>1, InvariantHolds, NextStepsInOrder, PTL DEF Spec
-----------------------------------------------------------------------------
(* What may change the plan's flags while the campaign is open. *)
LEMMA FlagsWhileOpen ==
  ASSUME TypeOK, InFlight, [Next]_vars, ~closed'
  PROVE  /\ ~closed
         /\ UNCHANGED <<completed, flags>> \/ (CompleteStep /\ pc = "verify")
BY DEF Next, vars, CallClosed, IsOpen, ExecuteStep, Submitted, SubmissionFails, Verified,
       Fail, VerificationFails, CallbackRaises, Finish, AuditPasses, AuditFails

LEMMA NextFlags ==
  TypeOK /\ InFlight /\ FlagsCoverCompleted /\ [Next]_vars => FlagsCoverCompleted'
<1> SUFFICES ASSUME TypeOK, InFlight, FlagsCoverCompleted, [Next]_vars, ~closed'
             PROVE  Completed' \subseteq flags'
  BY DEF FlagsCoverCompleted
<1>1. Completed \subseteq flags
  BY FlagsWhileOpen DEF FlagsCoverCompleted
<1>2. CASE UNCHANGED <<completed, flags>>
  BY <1>1, <1>2 DEF Completed
<1>3. CASE CompleteStep /\ pc = "verify"
  <2>1. step \in Steps
    BY <1>3 DEF InFlight
  <2>2. flags' = flags \cup {step}
    BY <1>3 DEF CompleteStep
  <2>3. ASSUME NEW i \in DOMAIN completed' PROVE completed'[i] \in flags'
    <3>1. CASE i \in DOMAIN completed
      BY <1>1, <1>3, <2>1, <2>2, <3>1, CompleteStepFacts DEF Completed
    <3>2. CASE i = Len(completed) + 1
      BY <1>3, <2>1, <2>2, <3>2, CompleteStepFacts
    <3>3. QED
      BY <1>3, <2>1, <2>3, <3>1, <3>2, CompleteStepFacts
  <2>4. QED
    BY <2>3 DEF Completed
<1>4. QED
  BY <1>2, <1>3, FlagsWhileOpen

(* While the campaign is open the plan's flags, which the audit and the report
   read, cover the steps the campaign has completed. *)
THEOREM FlagsAgree == Spec => []FlagsCoverCompleted
<1>1. Init => FlagsCoverCompleted
  BY DEF Init, FlagsCoverCompleted, Completed
<1>2. QED
  BY <1>1, InvariantHolds, NextFlags, PTL DEF Spec
-----------------------------------------------------------------------------
(* While the campaign stays open, a step scribbles over the paths of the patch
   in flight or leaves the tree alone. *)
LEMMA TreeWhileOpen ==
  ASSUME TypeOK, InFlight, [Next]_vars, ~closed'
  PROVE  /\ ~closed /\ baseline' = baseline
         /\ UNCHANGED tree \/ (Scribble(edited) /\ pc = "submit")
BY DEF Next, vars, CallClosed, IsOpen, ExecuteStep, Submitted, SubmissionFails, Verified,
       Fail, VerificationFails, CallbackRaises, Finish, AuditPasses, AuditFails

LEMMA NextInScope ==
  TypeOK /\ InFlight /\ OpenStaysInScope /\ [Next]_vars => OpenStaysInScope'
<1> SUFFICES ASSUME TypeOK, InFlight, OpenStaysInScope, [Next]_vars, ~closed',
                    NEW f \in Paths, tree'[f] # baseline'[f]
             PROVE  \E s \in Steps : f \in AffectedPaths[s]
  BY DEF OpenStaysInScope
<1>1. CASE UNCHANGED tree
  BY <1>1, TreeWhileOpen DEF OpenStaysInScope
<1>2. CASE Scribble(edited) /\ pc = "submit" /\ f \in edited
  BY <1>2 DEF InFlight
<1>3. CASE Scribble(edited) /\ f \notin edited
  BY <1>3, TreeWhileOpen DEF Scribble, OpenStaysInScope
<1>4. QED
  BY <1>1, <1>2, <1>3, TreeWhileOpen

(* However many patches are submitted, an open campaign has changed nothing
   outside the paths of the plan's steps. *)
THEOREM StaysInScope == Spec => []OpenStaysInScope
<1>1. Init => OpenStaysInScope
  BY DEF Init, OpenStaysInScope
<1>2. QED
  BY <1>1, InvariantHolds, NextInScope, PTL DEF Spec
-----------------------------------------------------------------------------
(* A failing call restores the baseline and says so, or says it did not. *)
LEMMA FailRefines ==
  ASSUME TypeOK, InFlight, ~closed, NEW refusal \in Failures, Fail(refusal),
         baseline' = baseline
  PROVE  Promise!Restore \/ Promise!GiveUp
<1>1. verdict = "open"
  BY DEF InFlight
<1>2. tree' \in Trees /\ verdict' \in {"restored", "incomplete"}
  BY FailType
<1>3. CASE verdict' = "restored"
  BY <1>1, <1>2, <1>3, FailType DEF Promise!Restore
<1>4. CASE verdict' = "incomplete"
  BY <1>1, <1>2, <1>4 DEF Promise!GiveUp
<1>5. QED
  BY <1>2, <1>3, <1>4

LEMMA NextRefines ==
  TypeOK /\ InFlight /\ TypeOK' /\ [Next]_vars
    => [Promise!Next]_<<baseline, tree, verdict>>
<1> SUFFICES ASSUME TypeOK, InFlight, TypeOK', [Next]_vars
             PROVE  [Promise!Next]_<<baseline, tree, verdict>>
  OBVIOUS
<1>a. ASSUME ~closed, NEW refusal \in Failures, Fail(refusal), baseline' = baseline
      PROVE  [Promise!Next]_<<baseline, tree, verdict>>
  BY <1>a, FailRefines DEF Promise!Next
<1>b. ASSUME ~closed, Scribble(edited), UNCHANGED <<baseline, verdict>>
      PROVE  [Promise!Next]_<<baseline, tree, verdict>>
  <2>1. verdict = "open" /\ tree' \in Trees
    BY <1>b DEF InFlight, Scribble
  <2>2. Promise!Work
    BY <1>b, <2>1 DEF Promise!Work
  <2>3. QED
    BY <2>2 DEF Promise!Next
<1>1. CASE CallClosed
  BY <1>1 DEF CallClosed
<1>2. ASSUME NEW s \in Steps \cup {UnknownStep}, NEW paths \in SUBSET Paths, ExecuteStep(s, paths)
      PROVE  [Promise!Next]_<<baseline, tree, verdict>>
  <2>1. CASE Refusal(s, paths) = "none"
    BY <1>2, <2>1 DEF ExecuteStep
  <2>2. CASE Refusal(s, paths) # "none"
    BY <1>2, <2>2, <1>a, RefusalType DEF ExecuteStep, IsOpen
  <2>3. QED
    BY <2>1, <2>2
<1>3. CASE Submitted
  BY <1>3, <1>b DEF Submitted, InFlight
<1>4. CASE SubmissionFails
  BY <1>4, <1>a DEF SubmissionFails, Failures, InFlight
<1>5. CASE Verified
  BY <1>5 DEF Verified
<1>6. CASE VerificationFails
  BY <1>6, <1>a DEF VerificationFails, Failures, InFlight
<1>7. CASE CallbackRaises
  <2>1. ~closed /\ UNCHANGED <<baseline, verdict>>
    BY <1>7 DEF CallbackRaises, InFlight
  <2>2. CASE pc = "submit"
    BY <1>7, <1>b, <2>1, <2>2 DEF CallbackRaises
  <2>3. CASE pc # "submit"
    BY <1>7, <2>1, <2>3 DEF CallbackRaises
  <2>4. QED
    BY <2>2, <2>3
<1>8. CASE Finish
  <2>1. CASE Steps \subseteq Completed
    BY <1>8, <2>1 DEF Finish
  <2>2. CASE ~(Steps \subseteq Completed)
    BY <1>8, <2>2, <1>a DEF Finish, Failures, IsOpen
  <2>3. QED
    BY <2>1, <2>2
<1>9. CASE AuditPasses
  <2>1. verdict = "open" /\ Audited(tree) /\ verdict' = "completed" /\ UNCHANGED <<baseline, tree>>
    BY <1>9 DEF AuditPasses, InFlight
  <2>2. Promise!Complete
    BY <2>1 DEF Promise!Complete
  <2>3. QED
    BY <2>2 DEF Promise!Next
<1>10. CASE AuditFails
  BY <1>10, <1>a DEF AuditFails, Failures, InFlight
<1>11. CASE UNCHANGED vars
  BY <1>11 DEF vars
<1>12. QED
  BY <1>1, <1>2, <1>3, <1>4, <1>5, <1>6, <1>7, <1>8, <1>9, <1>10, <1>11 DEF Next

(* The campaign is one repository-level transaction: it ends with a tree its
   audit passed or with its exact baseline, or reports an incomplete rollback,
   and once closed it never touches the repository again. *)
THEOREM CampaignIsATransaction == Spec => ImplementsCampaign
<1>1. Init => Promise!Open
  BY DEF Init, Promise!Open
<1>2. QED
  BY <1>1, InvariantHolds, NextRefines, NextTypeOK, PTL
  DEF Spec, ImplementsCampaign, Promise!AllOrNothing
===============================================================================
