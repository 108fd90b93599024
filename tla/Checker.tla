------------------------------ MODULE Checker -------------------------------
(***************************************************************************)
(* pipeline/checker.py: the gate that turns an EditMap into a verified     *)
(* commit or a revert, with core/gates.py.                                 *)
(*                                                                         *)
(* Checker.verify_apply snapshots every target, parse-gates the proposed   *)
(* contents, writes the files one at a time, formats and lints each, type  *)
(* checks each, runs the selected tests, and then commits to git or        *)
(* restores the snapshot, file by file; last, it appends a record to the   *)
(* log.  Every write, gate, restore and log call is a step, so that an     *)
(* exception or a kill can fall between any two of them.                   *)
(***************************************************************************)
EXTENDS Naturals, Sequences

CONSTANTS
  Files,              \* the files of the repository an edit may touch
  Contents,           \* file contents, the empty content included
  Empty,              \* the content ""
  Absent,             \* no such file; also: not a key of the edit map
  Parses,             \* the contents tree-sitter parses without an error
  TextOf,             \* what read_text returns of a content: "\r\n" becomes "\n"
  Formatted,          \* what ruff format rewrites a content to
  Violations,         \* ruff's violation count of a content (or a missing file)
  TypeErrors(_, _),   \* pyright's error count of a file in a tree
  Tests,              \* the repository's test functions
  Passes(_, _),       \* does a test pass in a tree
  Tools,              \* which of ruff, pyright and pytest are installed
  Faults,             \* what may go wrong around the gates (see FaultKinds)
  MaxEdits            \* bound: how many edits a behaviour starts

Slots == Contents \cup {Absent}
Trees == [Files -> Slots]

(* gate: a gate raises; ruff / pyright: the tool prints no JSON; git: add or
   commit fails; write: write_text raises, possibly after truncating; log:
   append_log raises; kill: the process dies. *)
FaultKinds == {"gate", "ruff", "pyright", "git", "write", "log", "kill"}

ASSUME ContentsAssumption ==
  /\ Empty \in Contents
  /\ Absent \notin Contents
  /\ Parses \subseteq Contents
  /\ TextOf \in [Contents -> Contents]
  /\ TextOf[Empty] = Empty /\ \A c \in Contents : TextOf[TextOf[c]] = TextOf[c]
  /\ Formatted \in [Contents -> Contents]
  /\ Violations \in [Slots -> Nat]
ASSUME GatesAssumption ==
  /\ \A f \in Files : \A tree \in Trees : TypeErrors(f, tree) \in Nat
  /\ \A t \in Tests : \A tree \in Trees : Passes(t, tree) \in BOOLEAN
ASSUME BoundsAssumption ==
  /\ Tools \subseteq {"ruff", "pyright", "pytest"}
  /\ Faults \subseteq FaultKinds
  /\ MaxEdits \in Nat

VARIABLES
  disk,       \* the working tree
  index,      \* git's index
  head,       \* the tree of git's HEAD
  log,        \* the edit log of core/storage.py
  pc,         \* where verify_apply is; "idle" between two calls
  edit,       \* the EditMap of the call
  selection,  \* test_node_ids of the call
  before,     \* the tree the call found, which "originals" abridges
  baseline,   \* ruff's and pyright's counts before the write
  todo,       \* the files the current loop has not reached
  checks,     \* record.checks
  status,     \* the status the call is going to log
  rescue,     \* the handler of "except Exception" has been entered
  started     \* how many calls have begun

vars == <<disk, index, head, log, pc, edit, selection, before, baseline, todo,
          checks, status, rescue, started>>
git == <<index, head>>
call == <<edit, selection, before, baseline, started>>

Edits == {e \in Trees : \E f \in Files : e[f] # Absent}
Touched == {f \in Files : edit[f] # Absent}

(* p.read_text() if p.exists() else "" *)
Original(f) == IF before[f] = Absent THEN Empty ELSE TextOf[before[f]]

Verdicts == {"none", "pass", "fail"}
NoChecks == [parse |-> "none", lint |-> "none", typecheck |-> "none", tests |-> "none"]
Verdict(ok) == IF ok THEN "pass" ELSE "fail"

(* The counts a tool may report: the real one or, when its output does not
   parse as JSON, what the code substitutes. *)
RuffCounts(content) ==
  {Violations[content]} \cup (IF "ruff" \in Faults THEN {0} ELSE {})
Baselines(f) ==
  IF f \notin Touched THEN {[lint |-> 0, types |-> 0]}
  ELSE [lint : IF "ruff" \in Tools THEN RuffCounts(disk[f]) ELSE {0},
        types : IF "pyright" \notin Tools THEN {0}
                ELSE {TypeErrors(f, disk)} \cup (IF "pyright" \in Faults THEN {0} ELSE {})]

Init ==
  /\ disk \in Trees
  /\ index = disk
  /\ head = disk
  /\ log = <<>>
  /\ pc = "idle"
  /\ edit = [f \in Files |-> Absent]
  /\ selection = {}
  /\ before = disk
  /\ baseline = [f \in Files |-> [lint |-> 0, types |-> 0]]
  /\ todo = {}
  /\ checks = NoChecks
  /\ status = "none"
  /\ rescue = FALSE
  /\ started = 0

(* verify_apply is called: snapshot, a fresh record. *)
Begin(e, sel) ==
  /\ pc = "idle"
  /\ started < MaxEdits
  /\ started' = started + 1
  /\ edit' = e
  /\ selection' = sel
  /\ before' = disk
  /\ checks' = NoChecks
  /\ status' = "none"
  /\ rescue' = FALSE
  /\ pc' = "parse"
  /\ todo' = {}
  /\ UNCHANGED <<disk, git, log, baseline>>

(* Gate 1 over every proposed content, before anything touches the disk. *)
ParseRed ==
  /\ pc = "parse"
  /\ \E f \in Touched : edit[f] \notin Parses
  /\ checks' = [checks EXCEPT !.parse = "fail"]
  /\ status' = "rolled-back"
  /\ pc' = "log"
  /\ UNCHANGED <<disk, git, log, call, todo, rescue>>

(* All parse: take the baselines and start to write. *)
ParseGreen ==
  /\ pc = "parse"
  /\ \A f \in Touched : edit[f] \in Parses
  /\ checks' = [checks EXCEPT !.parse = "pass"]
  /\ baseline' \in {b \in [Files -> UNION {Baselines(f) : f \in Files}] :
                     \A f \in Files : b[f] \in Baselines(f)}
  /\ pc' = "write"
  /\ todo' = Touched
  /\ UNCHANGED <<disk, git, log, edit, selection, before, started, status, rescue>>

(* The next file of a loop; after the last one the loop's successor starts. *)
Visit(f, successor) ==
  /\ f \in todo
  /\ IF todo = {f}
     THEN pc' = successor /\ todo' = Touched
     ELSE UNCHANGED pc /\ todo' = todo \ {f}

Write(f) ==
  /\ pc = "write"
  /\ Visit(f, "lint")
  /\ disk' = [disk EXCEPT ![f] = edit[f]]
  /\ UNCHANGED <<git, log, call, checks, status, rescue>>

(* The writes stand outside the try block: the exception leaves the call. *)
WriteRaises(f) ==
  /\ "write" \in Faults
  /\ pc = "write" /\ f \in todo
  /\ disk' \in {disk, [disk EXCEPT ![f] = Empty]}
  /\ pc' = "idle"
  /\ UNCHANGED <<git, log, call, checks, todo, status, rescue>>

(* Mutant: only the files the red gate has not passed yet are restored. *)
StartPartialRollback(handler) ==
  /\ pc' = "rollback"
  /\ todo' = todo
  /\ status' = "rolled-back"
  /\ rescue' = handler

StartRollback(handler) ==
  /\ pc' = "rollback"
  /\ todo' = Touched
  /\ status' = "rolled-back"
  /\ rescue' = handler

(* Gate 2: format the file in place, then count its violations again. *)
Lint(f) ==
  LET content == IF "ruff" \in Tools THEN Formatted[disk[f]] ELSE disk[f]
  IN  /\ pc = "lint"
      /\ f \in todo
      /\ disk' = [disk EXCEPT ![f] = content]
      /\ \E count \in RuffCounts(content) :
           LET red == "ruff" \in Tools /\ count > baseline[f].lint
           IN  /\ checks' = [checks EXCEPT !.lint =
                                IF "ruff" \in Tools THEN Verdict(~red) ELSE "none"]
               /\ IF red
                  THEN StartRollback(FALSE)
                  ELSE Visit(f, "typecheck") /\ UNCHANGED <<status, rescue>>
      /\ UNCHANGED <<git, log, call>>

(* Gate 3: no new type errors in the file; unparseable output is a failure. *)
Typecheck(f) ==
  LET tooMany == TypeErrors(f, disk) > baseline[f].types
  IN  /\ pc = "typecheck"
      /\ f \in todo
      /\ \E red \in {tooMany} \cup (IF "pyright" \in Faults THEN {TRUE} ELSE {}) :
           /\ checks' = [checks EXCEPT !.typecheck =
                            IF "pyright" \in Tools THEN Verdict(~red) ELSE "none"]
           /\ IF "pyright" \in Tools /\ red
              THEN StartRollback(FALSE)
              ELSE Visit(f, "tests") /\ UNCHANGED <<status, rescue>>
      /\ UNCHANGED <<disk, git, log, call>>

(* Mutant: an empty list of node ids is taken at its word. *)
SelectedLiterally == selection

(* An empty selection is no selection: pytest runs the whole suite. *)
Selected == IF selection = {} THEN Tests ELSE selection

(* Gate 4: behaviour. *)
RunTests ==
  LET ran == "pytest" \in Tools /\ Selected # {}
      red == ran /\ \E t \in Selected : ~Passes(t, disk)
  IN  /\ pc = "tests"
      /\ checks' = [checks EXCEPT !.tests = IF ran THEN Verdict(~red) ELSE "none"]
      /\ IF red
         THEN StartRollback(FALSE)
         ELSE /\ pc' = "commit"
              /\ todo' = {}
              /\ UNCHANGED <<status, rescue>>
      /\ UNCHANGED <<disk, git, log, call>>

(* A gate raises: the handler restores the tree. *)
GateCrashes ==
  /\ "gate" \in Faults
  /\ pc \in {"lint", "typecheck", "tests"}
  /\ StartRollback(TRUE)
  /\ UNCHANGED <<disk, git, log, call, checks>>

(* Mutant: "if old:" alone, under which the original "" is no original. *)
RestoredIfTruthy(f) == IF Original(f) # Empty THEN Original(f) ELSE disk[f]

(* _rollback writes a file back when it had content or exists now. *)
Restored(f) ==
  IF Original(f) # Empty \/ disk[f] # Absent THEN Original(f) ELSE Absent

Restore(f) ==
  /\ pc = "rollback"
  /\ Visit(f, "log")
  /\ disk' = [disk EXCEPT ![f] = Restored(f)]
  /\ UNCHANGED <<git, log, call, checks, status, rescue>>

(* Mutant: the handler is entered again and again. *)
RaiseForever == StartRollback(FALSE)

(* _rollback called from the try block raises into the handler, which starts
   over; called from the handler, the exception leaves the call. *)
RaiseInRollback ==
  IF rescue
  THEN pc' = "idle" /\ UNCHANGED <<todo, status, rescue>>
  ELSE StartRollback(TRUE)

RestoreRaises(f) ==
  /\ "write" \in Faults
  /\ pc = "rollback" /\ f \in todo
  /\ disk' \in {disk, [disk EXCEPT ![f] = Empty]}
  /\ RaiseInRollback
  /\ UNCHANGED <<git, log, call, checks>>

(* Mutant: only the files git already tracks are added. *)
AddedKnown ==
  {{f \in Touched : index[f] # Absent}} \cup (IF "git" \in Faults THEN SUBSET Touched ELSE {})

(* git add is called for every file of the edit; a failed call goes unseen. *)
Added == {Touched} \cup (IF "git" \in Faults THEN SUBSET Touched ELSE {})

(* _commit: git add of every file, then git commit; both exit codes are
   ignored. *)
Commit ==
  /\ pc = "commit"
  /\ \E added \in Added :
       index' = [f \in Files |-> IF f \in added THEN disk[f] ELSE index[f]]
  /\ head' \in {index'} \cup (IF "git" \in Faults THEN {head} ELSE {})
  /\ status' = "committed"
  /\ pc' = "log"
  /\ UNCHANGED <<disk, log, call, todo, checks, rescue>>

(* Mutant: the status is read off the last gate alone. *)
RecordByTests ==
  [status |-> IF checks.tests = "fail" THEN "rolled-back" ELSE "committed", edit |-> edit]

Record == [status |-> status, edit |-> edit]

(* _finalize: append the record and return it. *)
Log ==
  /\ pc = "log"
  /\ log' = Append(log, Record)
  /\ pc' = "idle"
  /\ UNCHANGED <<disk, git, call, todo, checks, status, rescue>>

(* Only the _finalize of a rollback that began in the try block is in it. *)
LogRaises ==
  /\ "log" \in Faults
  /\ pc = "log"
  /\ IF status = "rolled-back" /\ checks.parse = "pass"
     THEN RaiseInRollback
     ELSE pc' = "idle" /\ UNCHANGED <<todo, status, rescue>>
  /\ UNCHANGED <<disk, git, log, call, checks>>

Kill ==
  /\ "kill" \in Faults
  /\ pc # "idle"
  /\ pc' = "idle"
  /\ UNCHANGED <<disk, git, log, call, todo, checks, status, rescue>>

Step ==
  \/ ParseRed \/ ParseGreen \/ RunTests \/ Commit \/ Log
  \/ \E f \in Files : Write(f) \/ Lint(f) \/ Typecheck(f) \/ Restore(f)
Fault ==
  \/ GateCrashes \/ LogRaises \/ Kill
  \/ \E f \in Files : WriteRaises(f) \/ RestoreRaises(f)
Next ==
  \/ \E e \in Edits, sel \in SUBSET Tests : Begin(e, sel)
  \/ Step
  \/ Fault

Spec == Init /\ [][Next]_vars
(* A call that has begun runs on until it returns or raises. *)
FairSpec == Spec /\ WF_vars(Step)
-----------------------------------------------------------------------------
(***************************************************************************)
(* Properties.                                                             *)
(***************************************************************************)
TypeOK ==
  /\ disk \in Trees
  /\ index \in Trees
  /\ head \in Trees
  /\ log \in Seq([status : {"committed", "rolled-back"}, edit : Edits])
  /\ pc \in {"idle", "parse", "write", "lint", "typecheck", "tests", "rollback",
             "commit", "log"}
  /\ edit \in Trees
  /\ selection \in SUBSET Tests
  /\ before \in Trees
  /\ baseline \in [Files -> [lint : Nat, types : Nat]]
  /\ todo \in SUBSET Files
  /\ checks \in [parse : Verdicts, lint : Verdicts, typecheck : Verdicts, tests : Verdicts]
  /\ status \in {"none", "committed", "rolled-back"}
  /\ rescue \in BOOLEAN
  /\ started \in 0 .. MaxEdits

Settled == [c \in Contents |-> IF "ruff" \in Tools THEN Formatted[c] ELSE c]

(* What callers see while a call is in flight is the tree it found: no other
   part of the system reads the files until verify_apply returns. *)
Seen == IF pc = "idle" THEN disk ELSE before

Promise == INSTANCE VerifiedEdit WITH tree <- Seen

(* Refinement: seen from outside, verify_apply makes each edit happen on all
   its files at once, with a committed record, or on none of them, with a
   rolled-back record (checker.py:7-8). *)
ImplementsAtomicEdits == Promise!AtomicEdits

(* A call that is about to report "rolled-back" has put every file back,
   whatever raised on the way, the restore itself included. *)
RolledBackMeansRestored ==
  pc = "log" /\ status = "rolled-back" => Promise!EditUndone(edit, before, disk)

(* A call that is about to report "committed" leaves the whole edit on disk,
   with no new lint violation and no new type error in any touched file, and
   every selected test (the whole suite when none was selected) green in the
   very tree that was committed. *)
CommittedMeansVerified ==
  pc = "log" /\ status = "committed" =>
    /\ Promise!EditLanded(edit, before, disk)
    /\ \A f \in Touched :
         /\ "ruff" \in Tools => Violations[disk[f]] <= Violations[before[f]]
         /\ "pyright" \in Tools => TypeErrors(f, disk) <= TypeErrors(f, before)
    /\ "pytest" \in Tools =>
         \A t \in (IF selection = {} THEN Tests ELSE selection) : Passes(t, disk)

(* Between two calls the worktree is clean: HEAD holds what the disk holds,
   but for what rejected edits leave behind (empty files, normalised line
   ends).  A later edit must never sweep an earlier, rejected one into its
   commit. *)
HeadFollowsDisk ==
  pc = "idle" =>
    \A f \in Files : disk[f] \in {head[f], IF head[f] = Absent THEN Empty ELSE TextOf[head[f]]}

(* Replaying the committed records of the log gives HEAD: the log neither
   misses a commit nor claims one that did not happen. *)
LogReplaysHead ==
  pc = "idle" =>
    \A i \in 1 .. Len(log) : \A f \in Files :
      /\ log[i].status = "committed"
      /\ log[i].edit[f] # Absent
      /\ \A j \in i + 1 .. Len(log) :
           log[j].status = "rolled-back" \/ log[j].edit[f] = Absent
      => head[f] = Settled[log[i].edit[f]]

(* Every call returns or raises, however many gates and restores fail. *)
CallEnds == pc # "idle" ~> pc = "idle"

(* "Any red or a crash -> restore every touched file byte-for-byte"
   (docs/architecture.md:132). *)
RestoredByteForByte ==
  pc = "log" /\ status = "rolled-back" => disk = before
=============================================================================
