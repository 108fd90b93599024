---------------------------- MODULE CheckerProofs ----------------------------
(***************************************************************************)
(* Proofs about Checker, for every set of files and contents, every gate,  *)
(* every installed set of tools and, unless a theorem says otherwise,      *)
(* every set of faults.                                                    *)
(*                                                                         *)
(* Type says what values the variables hold; Restorable relates the disk   *)
(* to the snapshot at every point of a call, which is what makes a         *)
(* rollback exact; Verified says what the gates passed so far have         *)
(* established of the disk.                                                *)
(***************************************************************************)
EXTENDS Checker, TLAPS

USE ContentsAssumption, GatesAssumption, BoundsAssumption

(* The inductive part of type correctness: an edit in flight is an edit, and
   a call about to log has a status to log, and
   every file the edit has written exists. *)
Typed ==
  /\ TypeOK
  /\ todo \subseteq Touched
  /\ pc # "idle" => edit \in Edits
  /\ pc = "log" => status \in {"committed", "rolled-back"}
  /\ pc = "rollback" => status = "rolled-back"
  /\ pc = "write" => \A f \in Touched \ todo : disk[f] \in Contents
  /\ pc \in {"lint", "typecheck", "tests", "commit", "rollback"} =>
       \A f \in Touched : disk[f] \in Contents
  /\ pc = "log" /\ checks.parse = "pass" => \A f \in Touched : disk[f] \in Contents

LEMMA InitTyped == Init => Typed
<1>1. SUFFICES ASSUME Init PROVE Typed
  OBVIOUS
<1>2. disk \in Trees /\ index \in Trees /\ head \in Trees /\ before \in Trees /\ edit \in Trees
  BY <1>1 DEF Init, Trees, Slots
<1>3. baseline \in [Files -> [lint : Nat, types : Nat]]
  BY <1>1 DEF Init
<1>4. log \in Seq([status : {"committed", "rolled-back"}, edit : Edits])
  BY <1>1 DEF Init
<1>5. checks \in [parse : Verdicts, lint : Verdicts, typecheck : Verdicts, tests : Verdicts]
  BY <1>1 DEF Init, NoChecks, Verdicts
<1>6. started \in 0 .. MaxEdits /\ selection \in SUBSET Tests /\ todo \in SUBSET Files
  BY <1>1 DEF Init
<1>7. QED
  BY <1>1, <1>2, <1>3, <1>4, <1>5, <1>6 DEF Init, Typed, TypeOK

(* Every content that can reach the disk is a slot of it. *)
LEMMA WritesAreTyped ==
  ASSUME TypeOK
  PROVE  /\ \A f \in Files : Original(f) \in Contents /\ Restored(f) \in Slots
         /\ \A f \in Touched : edit[f] \in Contents
         /\ \A c \in Contents : Formatted[c] \in Contents
BY DEF TypeOK, Trees, Slots, Original, Restored, Touched

LEMMA NextTyped == Typed /\ [Next]_vars => Typed'
<1> SUFFICES ASSUME Typed, [Next]_vars PROVE Typed'
  OBVIOUS
<1> USE DEF Typed, TypeOK, Verdicts
<1>. DEFINE ChecksType ==
       [parse : Verdicts, lint : Verdicts, typecheck : Verdicts, tests : Verdicts]
<1>a. Touched \subseteq Files
  BY DEF Touched
<1>0. NoChecks \in [parse : Verdicts, lint : Verdicts, typecheck : Verdicts, tests : Verdicts]
  BY DEF NoChecks
<1>1. ASSUME NEW e \in Edits, NEW sel \in SUBSET Tests, Begin(e, sel)
      PROVE  Typed'
  <2>1. edit' \in Trees /\ edit' \in Edits /\ started' \in 0 .. MaxEdits
    BY <1>1 DEF Begin, Edits
  <2>2. QED
    BY <1>0, <1>1, <2>1 DEF Begin, git
<1>2. CASE ParseRed
  BY <1>2 DEF ParseRed, git, call, Touched
<1>3. CASE ParseGreen
  <2>1. \A f \in Files : Baselines(f) \subseteq [lint : Nat, types : Nat]
    BY DEF Baselines, RuffCounts, Trees
  <2>2. baseline' \in [Files -> [lint : Nat, types : Nat]]
    BY <1>3, <2>1 DEF ParseGreen
  <2>3. QED
    BY <1>3, <2>2 DEF ParseGreen, git, Touched
<1>4. ASSUME NEW f \in Files, Write(f)
      PROVE  Typed'
  <2>1. f \in Touched /\ disk' \in Trees /\ Touched' = Touched
    BY <1>4, WritesAreTyped DEF Write, Visit, Trees, Slots, call, Touched
  <2>2. \A g \in Touched : g = f \/ g \notin todo => disk'[g] \in Contents
    BY <1>4, <1>a, <2>1, WritesAreTyped DEF Write, Trees
  <2>3. \/ todo' = todo \ {f} /\ pc' = "write"
        \/ todo = {f} /\ todo' = Touched /\ pc' = "lint"
    BY <1>4 DEF Write, Visit
  <2>4. TypeOK'
    BY <1>4, <2>1, <2>3, <1>a DEF Write, git, call
  <2>5. QED
    BY <1>4, <2>1, <2>2, <2>3, <2>4 DEF Write, git, call
<1>5. ASSUME NEW f \in Files, WriteRaises(f)
      PROVE  Typed'
  <2>1. disk' \in Trees
    BY <1>5 DEF WriteRaises, Trees, Slots
  <2>2. QED
    BY <1>5, <2>1 DEF WriteRaises, git, call, Touched
<1>6. ASSUME NEW f \in Files, Lint(f)
      PROVE  Typed'
  <2>1. Touched' = Touched /\ f \in Touched /\ disk[f] \in Contents
    BY <1>6 DEF Lint, call, Touched
  <2>2. PICK content \in Contents : disk' = [disk EXCEPT ![f] = content]
    BY <1>6, <2>1 DEF Lint
  <2>3. disk' \in Trees /\ \A g \in Touched : disk'[g] \in Contents
    BY <1>6, <2>1, <2>2 DEF Trees, Slots, Lint
  <2>4. checks' \in ChecksType /\ UNCHANGED <<git, log, call>>
    BY <1>6 DEF Lint, Verdict
  <2>5. \/ todo' = todo \ {f} /\ UNCHANGED <<pc, status, rescue>>
        \/ todo' = Touched /\ pc' = "typecheck" /\ UNCHANGED <<status, rescue>>
        \/ StartRollback(FALSE)
    BY <1>6 DEF Lint, Visit
  <2>6. TypeOK'
    BY <1>6, <1>a, <2>1, <2>3, <2>4, <2>5 DEF Lint, StartRollback, git, call
  <2>7. QED
    BY <1>6, <2>1, <2>3, <2>4, <2>5, <2>6 DEF Lint, StartRollback, git, call
<1>7. ASSUME NEW f \in Files, Typecheck(f)
      PROVE  Typed'
  BY <1>7 DEF Typecheck, Visit, StartRollback, Verdict, git, call, Touched
<1>8. CASE RunTests
  BY <1>8 DEF RunTests, StartRollback, Verdict, git, call, Touched
<1>9. CASE GateCrashes
  BY <1>9 DEF GateCrashes, StartRollback, git, call, Touched
<1>10. ASSUME NEW f \in Files, Restore(f)
       PROVE  Typed'
  <2>1. Touched' = Touched /\ f \in Touched /\ Restored(f) = Original(f)
    BY <1>10 DEF Restore, Visit, Restored, Touched, call
  <2>2. disk' \in Trees /\ \A g \in Touched : disk'[g] \in Contents
    BY <1>10, <2>1, WritesAreTyped DEF Restore, Trees, Slots
  <2>3. \/ todo' = todo \ {f} /\ pc' = "rollback"
        \/ todo' = Touched /\ pc' = "log"
    BY <1>10 DEF Restore, Visit
  <2>4. TypeOK'
    BY <1>10, <1>a, <2>1, <2>2, <2>3 DEF Restore, git, call
  <2>5. QED
    BY <1>10, <2>1, <2>2, <2>3, <2>4 DEF Restore, git, call
<1>11. ASSUME NEW f \in Files, RestoreRaises(f)
       PROVE  Typed'
  <2>1. Touched' = Touched
    BY <1>11 DEF RestoreRaises, call, Touched
  <2>2. disk' \in Trees /\ \A g \in Touched : disk'[g] \in Contents
    <3>1. CASE disk' = disk
      BY <1>11, <3>1 DEF RestoreRaises
    <3>2. CASE disk' = [disk EXCEPT ![f] = Empty]
      BY <1>11, <1>a, <3>2 DEF RestoreRaises, Trees, Slots
    <3>3. QED
      BY <1>11, <3>1, <3>2 DEF RestoreRaises
  <2>3. \/ pc' = "idle" /\ UNCHANGED <<todo, status, rescue>>
        \/ StartRollback(TRUE)
    BY <1>11 DEF RestoreRaises, RaiseInRollback
  <2>4. TypeOK'
    BY <1>11, <1>a, <2>1, <2>2, <2>3 DEF RestoreRaises, StartRollback, git, call
  <2>5. QED
    BY <1>11, <2>1, <2>2, <2>3, <2>4 DEF RestoreRaises, StartRollback, git, call
<1>12. CASE Commit
  <2>1. index' \in Trees
    <3>1. PICK added : index' = [f \in Files |-> IF f \in added THEN disk[f] ELSE index[f]]
      BY <1>12 DEF Commit
    <3>2. QED
      BY <3>1 DEF Trees
  <2>2. head' = index' \/ head' = head
    BY <1>12 DEF Commit
  <2>3. QED
    BY <1>12, <2>1, <2>2 DEF Commit, call, Touched
<1>13. CASE Log
  <2>1. Record \in [status : {"committed", "rolled-back"}, edit : Edits]
    BY <1>13 DEF Log, Record
  <2>2. QED
    BY <1>13, <2>1 DEF Log, git, call, Touched
<1>14. CASE LogRaises
  BY <1>14 DEF LogRaises, RaiseInRollback, StartRollback, git, call, Touched
<1>15. CASE Kill
  BY <1>15 DEF Kill, git, call, Touched
<1>16. CASE UNCHANGED vars
  BY <1>16 DEF vars, git, call, Touched
<1>17. QED
  BY <1>1, <1>2, <1>3, <1>4, <1>5, <1>6, <1>7, <1>8, <1>9, <1>10, <1>11, <1>12,
     <1>13, <1>14, <1>15, <1>16 DEF Next, Step, Fault

(* The variables of verify_apply hold what their names say, whatever fails. *)
THEOREM TypeCorrect == Spec => []TypeOK
<1>1. Typed => TypeOK
  BY DEF Typed
<1>2. QED
  BY InitTyped, NextTyped, <1>1, PTL DEF Spec
-----------------------------------------------------------------------------
(* Where the disk stands relative to the snapshot, at each point of a call:
   the files outside the edit never move, nothing moves before the writes,
   and a rollback has put back the files it has visited. *)
RestoredFiles(S) == \A f \in S : disk[f] = Original(f)

Restorable ==
  /\ pc # "idle" => \A f \in Files \ Touched : disk[f] = before[f]
  /\ pc = "parse" => disk = before
  /\ pc = "log" /\ checks.parse # "pass" => status = "rolled-back" /\ disk = before
  /\ pc \in {"write", "lint", "typecheck", "tests", "rollback", "commit"} =>
       checks.parse = "pass"
  /\ pc = "rollback" => RestoredFiles(Touched \ todo)
  /\ pc = "log" /\ status = "rolled-back" /\ checks.parse = "pass" => RestoredFiles(Touched)

LEMMA InitRestorable == Init => Restorable
BY DEF Init, Restorable, RestoredFiles

LEMMA NextRestorable == Typed /\ Restorable /\ [Next]_vars => Restorable'
<1> SUFFICES ASSUME Typed, Restorable, [Next]_vars PROVE Restorable'
  OBVIOUS
<1>a. disk \in Trees /\ before \in Trees /\ todo \subseteq Touched /\ Touched \subseteq Files
  BY DEF Typed, TypeOK, Touched
<1>b. ASSUME call' = call
      PROVE  Touched' = Touched /\ before' = before /\ \A f \in Files : Original(f)' = Original(f)
  BY <1>b DEF call, Touched, Original
<1> USE DEF Restorable, RestoredFiles
<1>1. ASSUME NEW e \in Edits, NEW sel \in SUBSET Tests, Begin(e, sel)
      PROVE  Restorable'
  BY <1>1 DEF Begin, NoChecks, Touched
<1>2. CASE ParseRed
  BY <1>2, <1>b DEF ParseRed
<1>3. CASE ParseGreen
  BY <1>3 DEF ParseGreen, Touched, Typed, TypeOK
<1>4. ASSUME NEW f \in Files, Write(f)
      PROVE  Restorable'
  BY <1>4, <1>a, <1>b DEF Write, Visit, Trees
<1>5. ASSUME NEW f \in Files, WriteRaises(f)
      PROVE  Restorable'
  BY <1>5, <1>a, <1>b DEF WriteRaises
<1>6. ASSUME NEW f \in Files, Lint(f)
      PROVE  Restorable'
  <2>1. \A g \in Files \ Touched : disk'[g] = disk[g]
    BY <1>6, <1>a DEF Lint, Trees
  <2>2. \/ pc' \in {"lint", "typecheck"}
        \/ pc' = "rollback" /\ todo' = Touched
    BY <1>6 DEF Lint, Visit, StartRollback
  <2>3. checks'.parse = checks.parse
    BY <1>6 DEF Lint, Typed, TypeOK
  <2>4. QED
    BY <1>6, <1>b, <2>1, <2>2, <2>3 DEF Lint
<1>7. ASSUME NEW f \in Files, Typecheck(f)
      PROVE  Restorable'
  <2>1. \/ pc' \in {"typecheck", "tests"}
        \/ pc' = "rollback" /\ todo' = Touched
    BY <1>7 DEF Typecheck, Visit, StartRollback
  <2>2. checks'.parse = checks.parse /\ disk' = disk
    BY <1>7 DEF Typecheck, Typed, TypeOK
  <2>3. QED
    BY <1>7, <1>b, <2>1, <2>2 DEF Typecheck
<1>8. CASE RunTests
  <2>1. \/ pc' = "commit"
        \/ pc' = "rollback" /\ todo' = Touched
    BY <1>8 DEF RunTests, StartRollback
  <2>2. checks'.parse = checks.parse /\ disk' = disk
    BY <1>8 DEF RunTests, Typed, TypeOK
  <2>3. QED
    BY <1>8, <1>b, <2>1, <2>2 DEF RunTests
<1>9. CASE GateCrashes
  BY <1>9, <1>b DEF GateCrashes, StartRollback
<1>10. ASSUME NEW f \in Files, Restore(f)
       PROVE  Restorable'
  <2>1. f \in Touched /\ Restored(f) = Original(f)
    BY <1>10, <1>a DEF Restore, Visit, Restored, Typed, Slots
  <2>2. disk' = [disk EXCEPT ![f] = Original(f)]
    BY <1>10, <2>1 DEF Restore
  <2>3. \A g \in Files \ {f} : disk'[g] = disk[g]
    BY <1>a, <2>2 DEF Trees
  <2>4. RestoredFiles(Touched \ (todo \ {f}))'
    BY <1>10, <1>a, <1>b, <2>1, <2>2, <2>3 DEF Restore, Trees, Visit
  <2>5. QED
    BY <1>10, <1>a, <1>b, <2>1, <2>3, <2>4 DEF Restore, Visit
<1>11. ASSUME NEW f \in Files, RestoreRaises(f)
       PROVE  Restorable'
  <2>1. \A g \in Files \ Touched : disk'[g] = disk[g]
    BY <1>11, <1>a DEF RestoreRaises, Trees
  <2>2. \/ pc' = "idle"
        \/ pc' = "rollback" /\ todo' = Touched
    BY <1>11 DEF RestoreRaises, RaiseInRollback, StartRollback
  <2>3. QED
    BY <1>11, <1>b, <2>1, <2>2 DEF RestoreRaises
<1>12. CASE Commit
  BY <1>12, <1>b DEF Commit
<1>13. CASE Log
  BY <1>13, <1>b DEF Log
<1>14. CASE LogRaises
  BY <1>14, <1>b DEF LogRaises, RaiseInRollback, StartRollback
<1>15. CASE Kill
  BY <1>15, <1>b DEF Kill
<1>16. CASE UNCHANGED vars
  <2>1. /\ call' = call /\ disk' = disk /\ pc' = pc /\ status' = status
        /\ todo' = todo /\ checks' = checks
    BY <1>16 DEF vars, call
  <2>2. QED
    BY <1>a, <1>b, <2>1
<1>17. QED
  BY <1>1, <1>2, <1>3, <1>4, <1>5, <1>6, <1>7, <1>8, <1>9, <1>10, <1>11, <1>12,
     <1>13, <1>14, <1>15, <1>16 DEF Next, Step, Fault

LEMMA RestorableUndoes == Typed /\ Restorable => RolledBackMeansRestored
<1> SUFFICES ASSUME Typed, Restorable, pc = "log", status = "rolled-back",
                    NEW f \in Files
             PROVE  \/ disk[f] = before[f]
                    \/ edit[f] # Absent /\ disk[f] = Original(f)
  BY DEF RolledBackMeansRestored, Promise!EditUndone, Promise!Touched, Original
<1>1. CASE checks.parse # "pass"
  BY <1>1 DEF Restorable
<1>2. CASE checks.parse = "pass" /\ f \in Touched
  BY <1>2 DEF Restorable, RestoredFiles, Original, Touched
<1>3. CASE f \notin Touched
  BY <1>3 DEF Restorable
<1>4. QED
  BY <1>1, <1>2, <1>3

(* Whatever raises, wherever, the rollback itself included: a call that says
   "rolled-back" has put every file of the edit back. *)
THEOREM RollbackIsExact == Spec => []RolledBackMeansRestored
BY InitTyped, NextTyped, InitRestorable, NextRestorable, RestorableUndoes, PTL DEF Spec
-----------------------------------------------------------------------------
(* What the gates passed so far have established of the files on disk. *)
LintClean(f) ==
  "ruff" \in Tools /\ "ruff" \notin Faults => Violations[disk[f]] <= Violations[before[f]]
TypeClean(f) == "pyright" \in Tools => TypeErrors(f, disk) <= TypeErrors(f, before)
TestsGreen == "pytest" \in Tools =>
                \A t \in (IF selection = {} THEN Tests ELSE selection) : Passes(t, disk)

Deciding == pc = "commit" \/ (pc = "log" /\ status = "committed")

Verified ==
  /\ pc \in {"write", "lint", "typecheck"} => \A f \in Touched :
       /\ "ruff" \in Tools /\ "ruff" \notin Faults =>
            baseline[f].lint <= Violations[before[f]]
       /\ "pyright" \in Tools => baseline[f].types <= TypeErrors(f, before)
  /\ pc = "write" => \A f \in Touched \ todo : disk[f] = edit[f]
  /\ pc = "lint" => \A f \in Touched :
       IF f \in todo THEN disk[f] = edit[f] ELSE disk[f] = Settled[edit[f]] /\ LintClean(f)
  /\ pc \in {"typecheck", "tests"} \/ Deciding => \A f \in Touched :
       disk[f] = Settled[edit[f]] /\ LintClean(f)
  /\ pc = "typecheck" => \A f \in Touched \ todo : TypeClean(f)
  /\ pc = "tests" \/ Deciding => \A f \in Touched : TypeClean(f)
  /\ Deciding => TestsGreen

LEMMA InitVerified == Init => Verified
BY DEF Init, Verified, Deciding

LEMMA NextVerified == Typed /\ Restorable /\ Verified /\ [Next]_vars => Verified'
<1> SUFFICES ASSUME Typed, Restorable, Verified, [Next]_vars PROVE Verified'
  OBVIOUS
<1>a. /\ disk \in Trees /\ before \in Trees /\ edit \in Trees
      /\ todo \subseteq Touched /\ Touched \subseteq Files
      /\ \A f \in Touched : edit[f] \in Contents
  BY WritesAreTyped DEF Typed, TypeOK, Touched
<1>b. ASSUME call' = call
      PROVE  /\ Touched' = Touched /\ edit' = edit /\ before' = before
             /\ baseline' = baseline /\ selection' = selection
  BY <1>b DEF call, Touched
<1>c. ASSUME call' = call, disk' = disk
      PROVE  /\ \A f \in Files : LintClean(f)' = LintClean(f) /\ TypeClean(f)' = TypeClean(f)
             /\ TestsGreen' = TestsGreen
  BY <1>b, <1>c DEF LintClean, TypeClean, TestsGreen
<1> USE DEF Verified, Deciding
<1>1. ASSUME NEW e \in Edits, NEW sel \in SUBSET Tests, Begin(e, sel)
      PROVE  Verified'
  BY <1>1 DEF Begin
<1>2. CASE ParseRed
  BY <1>2 DEF ParseRed
<1>3. CASE ParseGreen
  <2>1. \A f \in Touched :
          /\ "ruff" \in Tools /\ "ruff" \notin Faults =>
               baseline'[f].lint <= Violations[before[f]]
          /\ "pyright" \in Tools => baseline'[f].types <= TypeErrors(f, before)
    <3>1. SUFFICES ASSUME NEW f \in Touched
                   PROVE  /\ "ruff" \in Tools /\ "ruff" \notin Faults =>
                               baseline'[f].lint <= Violations[before[f]]
                          /\ "pyright" \in Tools => baseline'[f].types <= TypeErrors(f, before)
      OBVIOUS
    <3>2. disk = before /\ baseline'[f] \in Baselines(f)
      BY <1>3, <1>a DEF ParseGreen, Restorable
    <3>3. Violations[before[f]] \in Nat /\ TypeErrors(f, before) \in Nat
      BY <1>a DEF Trees
    <3>4. QED
      BY <3>2, <3>3 DEF Baselines, RuffCounts
  <2>2. todo' = Touched' /\ Touched' = Touched /\ before' = before /\ pc' = "write"
    BY <1>3 DEF ParseGreen, Touched
  <2>3. QED
    BY <2>1, <2>2
<1>4. ASSUME NEW f \in Files, Write(f)
      PROVE  Verified'
  <2>1. \A g \in Touched \ (todo \ {f}) : disk'[g] = edit[g]
    BY <1>4, <1>a DEF Write, Trees
  <2>2. \/ todo' = todo \ {f} /\ pc' = "write"
        \/ todo = {f} /\ todo' = Touched /\ pc' = "lint"
    BY <1>4 DEF Write, Visit
  <2>3. QED
    BY <1>4, <1>a, <1>b, <2>1, <2>2 DEF Write
<1>5. ASSUME NEW f \in Files, WriteRaises(f)
      PROVE  Verified'
  BY <1>5 DEF WriteRaises
<1>6. ASSUME NEW f \in Files, Lint(f)
      PROVE  Verified'
  <2>1. CASE pc' = "rollback"
    BY <1>6, <2>1, <1>b DEF Lint
  <2>2. CASE pc' # "rollback"
    <3>1. f \in Touched /\ disk[f] = edit[f] /\ edit[f] \in Contents
      BY <1>6, <1>a DEF Lint
    <3>2. disk' = [disk EXCEPT ![f] = Settled[edit[f]]]
      BY <1>6, <3>1 DEF Lint, Settled
    <3>3. /\ \A g \in Files \ {f} : disk'[g] = disk[g]
          /\ disk'[f] = Settled[edit[f]]
      BY <1>a, <3>2 DEF Trees
    <3>4. "ruff" \in Tools /\ "ruff" \notin Faults =>
            Violations[Settled[edit[f]]] <= baseline[f].lint
      <4>1. ASSUME "ruff" \in Tools, "ruff" \notin Faults
            PROVE  Formatted[disk[f]] = Settled[edit[f]] /\ Settled[edit[f]] \in Contents
        BY <3>1, <4>1 DEF Settled
      <4>2. ASSUME "ruff" \in Tools, "ruff" \notin Faults
            PROVE  ~(Violations[Settled[edit[f]]] > baseline[f].lint)
        BY <1>6, <2>2, <4>1, <4>2 DEF Lint, StartRollback, RuffCounts
      <4>3. ASSUME "ruff" \in Tools, "ruff" \notin Faults
            PROVE  baseline[f].lint \in Nat /\ Violations[Settled[edit[f]]] \in Nat
        BY <1>a, <3>1, <4>1, <4>3 DEF Typed, TypeOK, Slots
      <4>4. QED
        BY <4>2, <4>3
    <3>5. LintClean(f)'
      <4>1. ASSUME "ruff" \in Tools, "ruff" \notin Faults
            PROVE  /\ baseline[f].lint \in Nat /\ baseline[f].lint <= Violations[before[f]]
                   /\ Violations[before[f]] \in Nat /\ Violations[Settled[edit[f]]] \in Nat
        <5>1. Settled[edit[f]] \in Contents
          BY <3>1, <4>1 DEF Settled
        <5>2. QED
          BY <1>6, <1>a, <3>1, <4>1, <5>1 DEF Lint, Typed, TypeOK, Trees, Slots
      <4>2. QED
        BY <1>6, <1>b, <3>3, <3>4, <4>1 DEF Lint, LintClean
    <3>6. \A g \in Touched \ todo : LintClean(g)'
      BY <1>6, <1>a, <1>b, <3>3 DEF Lint, LintClean
    <3>7. \/ todo' = todo \ {f} /\ pc' = "lint"
          \/ todo = {f} /\ todo' = Touched /\ pc' = "typecheck"
      BY <1>6, <2>2 DEF Lint, Visit, StartRollback
    <3>8. QED
      BY <1>6, <1>a, <1>b, <3>1, <3>3, <3>5, <3>6, <3>7 DEF Lint
  <2>3. QED
    BY <2>1, <2>2
<1>7. ASSUME NEW f \in Files, Typecheck(f)
      PROVE  Verified'
  <2>1. CASE pc' = "rollback"
    BY <1>7, <2>1, <1>b DEF Typecheck
  <2>2. CASE pc' # "rollback"
    <3>1. f \in Touched /\ disk' = disk /\ call' = call
      BY <1>7, <1>a DEF Typecheck
    <3>2. "pyright" \in Tools => ~(TypeErrors(f, disk) > baseline[f].types)
      BY <1>7, <2>2 DEF Typecheck, StartRollback
    <3>3. /\ TypeErrors(f, disk) \in Nat /\ TypeErrors(f, before) \in Nat
          /\ baseline[f].types \in Nat
      BY <1>a DEF Typed, TypeOK
    <3>4. TypeClean(f)
      BY <1>7, <3>1, <3>2, <3>3 DEF Typecheck, TypeClean
    <3>5. \/ todo' = todo \ {f} /\ pc' = "typecheck"
          \/ todo = {f} /\ todo' = Touched /\ pc' = "tests"
      BY <1>7, <2>2 DEF Typecheck, Visit, StartRollback
    <3>6. QED
      BY <1>7, <1>a, <1>b, <1>c, <3>1, <3>4, <3>5 DEF Typecheck
  <2>3. QED
    BY <2>1, <2>2
<1>8. CASE RunTests
  <2>1. CASE pc' = "rollback"
    BY <1>8, <2>1, <1>b DEF RunTests
  <2>2. CASE pc' # "rollback"
    <3>1. pc' = "commit" /\ call' = call /\ disk' = disk
      BY <1>8, <2>2 DEF RunTests, StartRollback
    <3>2. TestsGreen
      BY <1>8, <2>2 DEF RunTests, StartRollback, TestsGreen, Selected
    <3>3. QED
      BY <1>8, <1>a, <1>b, <1>c, <3>1, <3>2 DEF RunTests
  <2>3. QED
    BY <2>1, <2>2
<1>9. CASE GateCrashes
  BY <1>9, <1>b DEF GateCrashes, StartRollback
<1>10. ASSUME NEW f \in Files, Restore(f)
       PROVE  Verified'
  BY <1>10, <1>b DEF Restore, Visit, Typed
<1>11. ASSUME NEW f \in Files, RestoreRaises(f)
       PROVE  Verified'
  BY <1>11, <1>b DEF RestoreRaises, RaiseInRollback, StartRollback
<1>12. CASE Commit
  BY <1>12, <1>a, <1>b, <1>c DEF Commit
<1>13. CASE Log
  BY <1>13 DEF Log
<1>14. CASE LogRaises
  BY <1>14, <1>b DEF LogRaises, RaiseInRollback, StartRollback
<1>15. CASE Kill
  BY <1>15 DEF Kill
<1>16. CASE UNCHANGED vars
  <2>1. call' = call /\ disk' = disk /\ pc' = pc /\ status' = status /\ todo' = todo
    BY <1>16 DEF vars, call
  <2>2. QED
    BY <1>a, <1>b, <1>c, <2>1
<1>17. QED
  BY <1>1, <1>2, <1>3, <1>4, <1>5, <1>6, <1>7, <1>8, <1>9, <1>10, <1>11, <1>12,
     <1>13, <1>14, <1>15, <1>16 DEF Next, Step, Fault

LEMMA VerifiedLands ==
  Typed /\ Restorable /\ Verified /\ pc = "log" /\ status = "committed" =>
    Promise!EditLanded(edit, before, disk)
<1> SUFFICES ASSUME Typed, Restorable, Verified, pc = "log", status = "committed"
             PROVE  disk = [f \in Files |-> IF edit[f] = Absent THEN before[f] ELSE Settled[edit[f]]]
  BY DEF Promise!EditLanded
<1>1. \A f \in Files : disk[f] = IF edit[f] = Absent THEN before[f] ELSE Settled[edit[f]]
  BY DEF Verified, Deciding, Restorable, Touched
<1>2. QED
  BY <1>1 DEF Typed, TypeOK, Trees

LEMMA VerifiedCommits ==
  ASSUME "ruff" \notin Faults
  PROVE  Typed /\ Restorable /\ Verified => CommittedMeansVerified
BY VerifiedLands DEF CommittedMeansVerified, Verified, Deciding, LintClean, TypeClean, TestsGreen

(* As long as ruff prints JSON, a call that says "committed" has the whole
   edit on disk and no gate it could run would reject that tree. *)
THEOREM CommitIsVerified ==
  ASSUME "ruff" \notin Faults
  PROVE  Spec => []CommittedMeansVerified
BY InitTyped, NextTyped, InitRestorable, NextRestorable, InitVerified, NextVerified,
   VerifiedCommits, PTL DEF Spec
-----------------------------------------------------------------------------
(* The refinement.  Under faults that cannot cut a call short, the steps in
   flight are invisible through Seen, and the step that logs is the abstract
   Accept or Reject. *)
LEMMA InitImplements == Init => Promise!SpecInit
BY DEF Init, Seen, Promise!SpecInit, Trees, Slots

LEMMA NextImplements ==
  ASSUME Faults \cap {"write", "log", "kill"} = {}
  PROVE  Typed /\ Restorable /\ Verified /\ [Next]_vars => [Promise!SpecNext]_Promise!specVars
<1> SUFFICES ASSUME Typed, Restorable, Verified, [Next]_vars
             PROVE  [Promise!SpecNext]_Promise!specVars
  OBVIOUS
<1>a. ASSUME pc # "idle", pc' # "idle", before' = before, log' = log
      PROVE  UNCHANGED Promise!specVars
  BY <1>a DEF Seen, Promise!specVars
<1>1. ASSUME NEW e \in Edits, NEW sel \in SUBSET Tests, Begin(e, sel)
      PROVE  UNCHANGED Promise!specVars
  BY <1>1 DEF Begin, Seen, Promise!specVars
<1>2. CASE ParseRed
  BY <1>2, <1>a DEF ParseRed, call
<1>3. CASE ParseGreen
  BY <1>3, <1>a DEF ParseGreen
<1>4. ASSUME NEW f \in Files, Write(f)
      PROVE  UNCHANGED Promise!specVars
  BY <1>4, <1>a DEF Write, Visit, call
<1>5. ASSUME NEW f \in Files, Lint(f)
      PROVE  UNCHANGED Promise!specVars
  BY <1>5, <1>a DEF Lint, Visit, StartRollback, call
<1>6. ASSUME NEW f \in Files, Typecheck(f)
      PROVE  UNCHANGED Promise!specVars
  BY <1>6, <1>a DEF Typecheck, Visit, StartRollback, call
<1>7. CASE RunTests
  BY <1>7, <1>a DEF RunTests, StartRollback, call
<1>8. CASE GateCrashes
  BY <1>8, <1>a DEF GateCrashes, StartRollback, call
<1>9. ASSUME NEW f \in Files, Restore(f)
      PROVE  UNCHANGED Promise!specVars
  BY <1>9, <1>a DEF Restore, Visit, call
<1>10. CASE Commit
  BY <1>10, <1>a DEF Commit, call
<1>11. CASE Log
  <2>1. /\ pc = "log" /\ Seen = before /\ Seen' = disk
        /\ log' = Append(log, [status |-> status, edit |-> edit])
    BY <1>11 DEF Log, Seen, Record
  <2>2. edit \in Promise!Edits
    BY <2>1 DEF Typed, Edits, Trees, Slots, Promise!Edits
  <2>3. CASE status = "committed"
    <3>1. Promise!EditLanded(edit, before, disk)
      BY <2>1, <2>3, VerifiedLands
    <3>2. Promise!Accept(edit)
      BY <2>1, <2>3, <3>1 DEF Promise!Accept, Promise!EditLanded
    <3>3. QED
      BY <2>2, <3>2 DEF Promise!SpecNext
  <2>4. CASE status = "rolled-back"
    <3>1. Promise!EditUndone(edit, before, disk)
      BY <2>1, <2>4, RestorableUndoes DEF RolledBackMeansRestored
    <3>2. Seen' \in [Files -> Contents \cup {Absent}]
      BY <2>1 DEF Typed, TypeOK, Trees, Slots
    <3>3. Promise!Reject(edit)
      BY <2>1, <2>4, <3>1, <3>2 DEF Promise!Reject, Promise!EditUndone
    <3>4. QED
      BY <2>2, <3>3 DEF Promise!SpecNext
  <2>5. QED
    BY <2>1, <2>3, <2>4 DEF Typed
<1>12. CASE UNCHANGED vars
  BY <1>12 DEF vars, Seen, Promise!specVars
<1>13. ASSUME NEW f \in Files, WriteRaises(f) \/ RestoreRaises(f)
       PROVE  FALSE
  BY <1>13 DEF WriteRaises, RestoreRaises
<1>14. ~LogRaises /\ ~Kill
  BY DEF LogRaises, Kill
<1>15. QED
  BY <1>1, <1>2, <1>3, <1>4, <1>5, <1>6, <1>7, <1>8, <1>9, <1>10, <1>11, <1>12,
     <1>13, <1>14 DEF Next, Step, Fault

(* verify_apply implements the all-or-nothing edit: gates may crash, ruff
   and pyright may print garbage and git may fail, and callers still see each edit land
   whole and logged as committed, or not at all and logged as rolled back. *)
THEOREM CheckerImplementsAtomicEdits ==
  ASSUME Faults \cap {"write", "log", "kill"} = {}
  PROVE  Spec => ImplementsAtomicEdits
<1>1. Spec => [](Typed /\ Restorable /\ Verified)
  BY InitTyped, NextTyped, InitRestorable, NextRestorable, InitVerified,
     NextVerified, PTL DEF Spec
<1>2. QED
  BY <1>1, InitImplements, NextImplements, PTL
     DEF Spec, ImplementsAtomicEdits, Promise!AtomicEdits
-----------------------------------------------------------------------------
(* HEAD.  Landing is the window in which HEAD has the edit and the log does not
   have it yet.  Tidy says what HeadFollowsDisk asks of a tree: outside Landing
   the snapshot is tidy, in it, and between two calls, the disk is. *)
Landing == pc = "log" /\ status = "committed"
Tidy(tree) ==
  \A f \in Files : tree[f] \in {head[f], IF head[f] = Absent THEN Empty ELSE TextOf[head[f]]}

Following ==
  /\ index = head
  /\ pc # "idle" /\ ~Landing => Tidy(before)
  /\ pc = "idle" \/ Landing => Tidy(disk)

(* Where git works, only Commit moves the index and HEAD, and it moves both to
   the disk, in the files of the edit. *)
LEMMA StepOnHead ==
  ASSUME "git" \notin Faults
  PROVE  [Next]_vars =>
           /\ ~Commit => UNCHANGED <<index, head>>
           /\ Commit =>
                /\ head' = index'
                /\ index' = [f \in Files |-> IF f \in Touched THEN disk[f] ELSE index[f]]
<1>1. ASSUME Commit
      PROVE  /\ head' = index'
             /\ index' = [f \in Files |-> IF f \in Touched THEN disk[f] ELSE index[f]]
  BY <1>1 DEF Commit, Added
<1>2. CASE UNCHANGED vars
  BY <1>1, <1>2 DEF vars
<1>3. ASSUME Next, ~Commit
      PROVE  UNCHANGED <<index, head>>
  BY <1>3 DEF Next, Step, Fault, Begin, ParseRed, ParseGreen, Write, WriteRaises, Lint, Typecheck,
              RunTests, GateCrashes, Restore, RestoreRaises, Log, LogRaises, Kill, git
<1>4. QED
  BY <1>1, <1>2, <1>3

(* Putting a tidy snapshot back leaves a tidy tree: what is lost of a file, its
   line ends or that it did not exist, is lost at most once. *)
LEMMA RollbackIsTidy ==
  Typed /\ Restorable /\ pc = "log" /\ status = "rolled-back" /\ Tidy(before) => Tidy(disk)
<1> SUFFICES ASSUME Typed, Restorable, pc = "log", status = "rolled-back", Tidy(before),
                    NEW f \in Files
             PROVE  disk[f] \in {head[f], IF head[f] = Absent THEN Empty ELSE TextOf[head[f]]}
  BY DEF Tidy
<1>1. disk[f] = before[f] \/ disk[f] = Original(f)
  BY RestorableUndoes DEF RolledBackMeansRestored, Promise!EditUndone, Promise!Touched, Original
<1>2. head[f] \in Slots /\ before[f] \in Slots
  BY DEF Typed, TypeOK, Trees
<1>3. before[f] \in {head[f], IF head[f] = Absent THEN Empty ELSE TextOf[head[f]]}
  BY DEF Tidy
<1>4. QED
  BY <1>1, <1>2, <1>3 DEF Original, Slots

LEMMA InitFollowing == Init => Following
BY DEF Init, Following, Tidy, Landing

LEMMA NextFollowing ==
  ASSUME Faults \cap {"git", "write", "kill"} = {}
  PROVE  Typed /\ Restorable /\ Following /\ [Next]_vars => Following'
<1> SUFFICES ASSUME Typed, Restorable, Following, [Next]_vars PROVE Following'
  OBVIOUS
<1> USE DEF Following, Landing
<1>0. "git" \notin Faults
  OBVIOUS
<1>a. ASSUME UNCHANGED <<index, head>>, before' = before, pc # "idle", ~Landing, pc' # "idle", ~Landing'
      PROVE  Following'
  BY <1>a DEF Tidy
<1>1. ASSUME NEW e \in Edits, NEW sel \in SUBSET Tests, Begin(e, sel)
      PROVE  Following'
  BY <1>1 DEF Begin, git, Tidy
<1>2. CASE ParseRed
  BY <1>2, <1>a DEF ParseRed, git, call
<1>3. CASE ParseGreen
  BY <1>3, <1>a DEF ParseGreen, git
<1>4. ASSUME NEW f \in Files, Write(f)
      PROVE  Following'
  BY <1>4, <1>a DEF Write, Visit, git, call
<1>5. ASSUME NEW f \in Files, Lint(f)
      PROVE  Following'
  BY <1>5, <1>a DEF Lint, Visit, StartRollback, git, call
<1>6. ASSUME NEW f \in Files, Typecheck(f)
      PROVE  Following'
  BY <1>6, <1>a DEF Typecheck, Visit, StartRollback, git, call
<1>7. CASE RunTests
  BY <1>7, <1>a DEF RunTests, StartRollback, git, call
<1>8. CASE GateCrashes
  BY <1>8, <1>a DEF GateCrashes, StartRollback, git, call
<1>9. ASSUME NEW f \in Files, Restore(f)
      PROVE  Following'
  BY <1>9, <1>a DEF Restore, Visit, git, call, Typed
<1>10. CASE Commit
  <2>1. /\ head' = index' /\ disk' = disk
        /\ index' = [f \in Files |-> IF f \in Touched THEN disk[f] ELSE index[f]]
    BY <1>0, <1>10, StepOnHead DEF Commit
  <2>2. Tidy(before) /\ \A f \in Files \ Touched : disk[f] = before[f]
    BY <1>10 DEF Commit, Restorable
  <2>3. Tidy(disk)'
    BY <2>1, <2>2 DEF Tidy
  <2>4. QED
    BY <1>10, <2>1, <2>3 DEF Commit
<1>11. CASE Log
  <2>1. Tidy(disk)
    BY <1>11, RollbackIsTidy DEF Log, Typed
  <2>2. QED
    BY <1>11, <2>1 DEF Log, git, Tidy
<1>12. CASE LogRaises
  <2>1. Tidy(disk)
    BY <1>12, RollbackIsTidy DEF LogRaises, Typed
  <2>2. UNCHANGED <<index, head, disk, before>>
    BY <1>12 DEF LogRaises, git, call
  <2>3. CASE pc' = "idle"
    BY <2>1, <2>2, <2>3 DEF Tidy
  <2>4. CASE pc' # "idle"
    <3>1. pc = "log" /\ status = "rolled-back" /\ pc' = "rollback"
      BY <1>12, <2>4 DEF LogRaises, RaiseInRollback, StartRollback
    <3>2. QED
      BY <1>a, <2>2, <3>1
  <2>5. QED
    BY <2>3, <2>4
<1>13. CASE UNCHANGED vars
  BY <1>13 DEF vars, Tidy
<1>14. ASSUME NEW f \in Files, WriteRaises(f) \/ RestoreRaises(f)
       PROVE  FALSE
  BY <1>14 DEF WriteRaises, RestoreRaises
<1>15. ~Kill
  BY DEF Kill
<1>16. QED
  BY <1>1, <1>2, <1>3, <1>4, <1>5, <1>6, <1>7, <1>8, <1>9, <1>10, <1>11, <1>12,
     <1>13, <1>14, <1>15 DEF Next, Step, Fault

(* Where git and the file system work, no rejected edit is ever swept into a
   commit: between two calls the worktree differs from HEAD by line ends and
   empty files at most, however many calls went before, whatever the gates and
   the log did. *)
THEOREM WorktreeStaysClean ==
  ASSUME Faults \cap {"git", "write", "kill"} = {}
  PROVE  Spec => []HeadFollowsDisk
<1>1. Following => HeadFollowsDisk
  BY DEF Following, HeadFollowsDisk, Tidy
<1>2. QED
  BY <1>1, InitTyped, NextTyped, InitRestorable, NextRestorable, InitFollowing, NextFollowing,
     PTL DEF Spec
-----------------------------------------------------------------------------
(* The log.  Replays says of a log that its last commit to each file is what
   HEAD holds of it; in the window Landing that holds of the log with the
   record that is about to be appended. *)
Replays(records) ==
  \A i \in 1 .. Len(records) : \A f \in Files :
    /\ records[i].status = "committed"
    /\ records[i].edit[f] # Absent
    /\ \A j \in i + 1 .. Len(records) :
         records[j].status = "rolled-back" \/ records[j].edit[f] = Absent
    => head[f] = Settled[records[i].edit[f]]

Replayed ==
  /\ index = head
  /\ ~Landing => Replays(log)
  /\ Landing => Replays(Append(log, Record))

LEMMA InitReplayed == Init => Replayed
BY DEF Init, Replayed, Replays, Landing

(* A record of a rollback changes nothing of a replay. *)
LEMMA RollbackReplays ==
  ASSUME TypeOK, Replays(log), status = "rolled-back"
  PROVE  Replays(Append(log, Record))
<1>1. DEFINE longer == Append(log, Record)
<1>2. /\ Len(longer) = Len(log) + 1 /\ Len(log) \in Nat
      /\ \A i \in 1 .. Len(log) : longer[i] = log[i]
      /\ longer[Len(log) + 1].status = "rolled-back"
  BY DEF TypeOK, Record
<1> HIDE DEF longer
<1>3. SUFFICES ASSUME NEW i \in 1 .. Len(longer), NEW f \in Files,
                      longer[i].status = "committed", longer[i].edit[f] # Absent,
                      \A j \in i + 1 .. Len(longer) :
                        longer[j].status = "rolled-back" \/ longer[j].edit[f] = Absent
               PROVE  head[f] = Settled[longer[i].edit[f]]
  BY DEF Replays, longer
<1>4. i \in 1 .. Len(log) /\ longer[i] = log[i]
  BY <1>2, <1>3
<1>5. \A j \in i + 1 .. Len(log) : log[j].status = "rolled-back" \/ log[j].edit[f] = Absent
  BY <1>2, <1>3, <1>4
<1>6. QED
  BY <1>3, <1>4, <1>5 DEF Replays

(* The commit of an edit and the record of it keep a replay. *)
LEMMA CommitReplays ==
  ASSUME TypeOK, Replays(log), Commit, index = head, head' = index',
         index' = [f \in Files |-> IF f \in Touched THEN disk[f] ELSE index[f]],
         \A f \in Touched : disk[f] = Settled[edit[f]]
  PROVE  Replays(Append(log, Record))'
<1>1. DEFINE longer == Append(log, Record)'
<1>2. /\ Len(longer) = Len(log) + 1 /\ Len(log) \in Nat
      /\ \A i \in 1 .. Len(log) : longer[i] = log[i]
      /\ longer[Len(log) + 1] = [status |-> "committed", edit |-> edit]
  BY DEF TypeOK, Record, Commit, call
<1>3. \A f \in Files : head'[f] = IF edit[f] # Absent THEN Settled[edit[f]] ELSE head[f]
  BY DEF Touched
<1> HIDE DEF longer
<1>4. SUFFICES ASSUME NEW i \in 1 .. Len(longer), NEW f \in Files,
                      longer[i].status = "committed", longer[i].edit[f] # Absent,
                      \A j \in i + 1 .. Len(longer) :
                        longer[j].status = "rolled-back" \/ longer[j].edit[f] = Absent
               PROVE  head'[f] = Settled[longer[i].edit[f]]
  BY DEF Replays, longer, Settled
<1>5. CASE i = Len(log) + 1
  BY <1>2, <1>3, <1>4, <1>5
<1>6. CASE i # Len(log) + 1
  <2>1. i \in 1 .. Len(log) /\ longer[i] = log[i]
    BY <1>2, <1>4, <1>6
  <2>2. edit[f] = Absent
    <3>1. Len(log) + 1 \in i + 1 .. Len(longer)
      BY <1>2, <2>1
    <3>2. QED
      BY <1>2, <1>4, <3>1
  <2>3. \A j \in i + 1 .. Len(log) : log[j].status = "rolled-back" \/ log[j].edit[f] = Absent
    BY <1>2, <1>4, <2>1
  <2>4. QED
    BY <1>3, <1>4, <2>1, <2>2, <2>3 DEF Replays
<1>7. QED
  BY <1>5, <1>6

LEMMA NextReplayed ==
  ASSUME Faults \cap {"git", "log", "kill"} = {}
  PROVE  Typed /\ Verified /\ Replayed /\ [Next]_vars => Replayed'
<1> SUFFICES ASSUME Typed, Verified, Replayed, [Next]_vars PROVE Replayed'
  OBVIOUS
<1>0. "git" \notin Faults /\ ~LogRaises /\ ~Kill
  BY DEF LogRaises, Kill
<1>1. CASE Commit
  <2>1. /\ head' = index' /\ log' = log /\ Landing'
        /\ index' = [f \in Files |-> IF f \in Touched THEN disk[f] ELSE index[f]]
    BY <1>0, <1>1, StepOnHead DEF Commit, Landing
  <2>2. index = head /\ Replays(log) /\ \A f \in Touched : disk[f] = Settled[edit[f]]
    BY <1>1 DEF Commit, Replayed, Verified, Deciding, Landing
  <2>3. QED
    BY <1>1, <2>1, <2>2, CommitReplays DEF Replayed, Typed
<1>2. CASE Log
  <2>1. /\ UNCHANGED <<index, head>> /\ log' = Append(log, Record) /\ ~Landing'
    BY <1>2 DEF Log, git, Landing
  <2>2. Replays(Append(log, Record))
    BY <1>2, RollbackReplays DEF Log, Replayed, Landing, Typed
  <2>3. QED
    BY <2>1, <2>2 DEF Replayed, Replays, Settled
<1>3. CASE UNCHANGED vars
  <2>1. UNCHANGED <<index, head, log, pc, status, edit>>
    BY <1>3 DEF vars
  <2>2. Landing' = Landing /\ Record' = Record
    BY <2>1 DEF Landing, Record
  <2>3. QED
    BY <2>1, <2>2 DEF Replayed, Replays, Settled
<1>4. CASE Next /\ ~Commit /\ ~Log
  <2>1. UNCHANGED <<index, head, log>>
    BY <1>0, <1>4 DEF Next, Step, Fault, Begin, ParseRed, ParseGreen, Write, WriteRaises, Lint,
              Typecheck, RunTests, GateCrashes, Restore, RestoreRaises, git
  <2>2. ~Landing /\ ~Landing'
    BY <1>0, <1>4 DEF Landing, Next, Step, Fault, Begin, ParseRed, ParseGreen, Write, WriteRaises,
              Lint, Typecheck, RunTests, GateCrashes, Restore, RestoreRaises, RaiseInRollback,
              StartRollback, Visit, Typed
  <2>3. QED
    BY <2>1, <2>2 DEF Replayed, Replays, Settled
<1>5. QED
  BY <1>1, <1>2, <1>3, <1>4

(* Where git and the log work and nothing is killed, the log tells the history
   of HEAD: of each file HEAD has what the last committed record that names it
   says, formatted, writes that fail in between notwithstanding. *)
THEOREM LogTellsHead ==
  ASSUME Faults \cap {"git", "log", "kill"} = {}
  PROVE  Spec => []LogReplaysHead
<1>1. Replayed => LogReplaysHead
  BY DEF Replayed, LogReplaysHead, Replays, Landing
<1>2. QED
  BY <1>1, InitTyped, NextTyped, InitRestorable, NextRestorable, InitVerified, NextVerified,
     InitReplayed, NextReplayed, PTL DEF Spec
=============================================================================
