---------------------------- MODULE VerifyEdits ----------------------------
(***************************************************************************)
(* refactorika/harness.py: a call of verify_edits gates a patch on an      *)
(* isolated worktree, and keeps it or takes it back.  Writes, gates and    *)
(* restores are steps of their own.  HarnessBench makes the calls.         *)
(***************************************************************************)
EXTENDS Naturals, Functions

CONSTANTS
  Files,              \* Python files a patch may name
  Texts,              \* file contents, the empty one included
  Empty,              \* the content ""
  NoFile,             \* no such file; also: not a key of the edits
  Parses,             \* the contents ast.parse accepts
  TextOf,             \* what read_text returns of a content
  Violations,         \* ruff's violations of a content
  TypeErrors(_),      \* pyright's errorCount of a tree
  Collects(_),        \* does pytest collect a test in a tree
  Passes(_),          \* does the suite pass in a tree
  Required,           \* required_gates
  BenchFaults         \* see FaultKinds

(* gate: a tool raises OSError or times out; json: a tool prints no JSON;
   decode: what it prints is no UTF-8, or JSON of another shape; silent: ruff
   prints nothing; write: write_text or unlink raises. *)
FaultKinds == {"gate", "json", "decode", "silent", "write"}
Gates == {"lint", "typecheck", "tests", "callsite_sweep", "handled_result"}
Checkouts == [Files -> Texts \cup {NoFile}]
Edits == {e \in Checkouts : \E f \in Files : e[f] # NoFile}

ContentsAssumption ==
  /\ NoFile \notin Texts /\ Empty \in Texts
  /\ Parses \subseteq Texts
  /\ TextOf \in [Texts -> Texts]
  /\ Violations \in [Texts -> Nat]
  /\ \A c \in Texts : /\ TextOf[TextOf[c]] = TextOf[c]
                      /\ Violations[TextOf[c]] = Violations[c]    \* no rule looks at line ends
GatesAssumption ==
  /\ \A t \in Checkouts : TypeErrors(t) \in Nat /\ Collects(t) \in BOOLEAN /\ Passes(t) \in BOOLEAN
  /\ Required \subseteq Gates /\ BenchFaults \subseteq FaultKinds

VARIABLES
  tools,      \* which of ruff and pyright are installed
  worktree,   \* the worktree
  callAt,     \* "idle" between two calls
  edit,       \* the patch of the call
  originals,  \* the texts verify_edits found, NoFile for None
  counted,    \* ruff's count before the write
  todo,       \* the files the current loop has not reached
  guarded,    \* is the code inside its try block
  outcome,    \* the status of the last record; without one "unreadable" (a
              \* ValueError left the call) or "raised" (something else did)
  strewn      \* history: the files such a ValueError left as proposed

callVars == <<tools, worktree, callAt, edit, originals, counted, todo, guarded, outcome, strewn>>
bench == <<tools, outcome, strewn>>
call == <<edit, originals, counted>>

Touched == {f \in Files : edit[f] # NoFile}
Existing == {f \in Touched : originals[f] # NoFile}
Text(content) == IF content = NoFile THEN NoFile ELSE TextOf[content]

(* _ruff_count: the violations of all the files together; of no file, none. *)
RuffCount(t, files) ==
  IF files = {} THEN 0 ELSE SumFunction([f \in files |-> Violations[t[f]]])
RuffCounts(files) ==
  {RuffCount(worktree, files)} \cup (IF "silent" \in BenchFaults THEN {0} ELSE {})

NoEdit == [f \in Files |-> NoFile]

(* No call was made yet. *)
CallInit ==
  /\ tools \in SUBSET {"ruff", "pyright"}
  /\ callAt = "idle" /\ outcome = "none"
  /\ edit = NoEdit /\ originals = NoEdit /\ counted = 0 /\ todo = {} /\ guarded = FALSE
  /\ strewn = {}

(* verify_edits is called with a patch _resolve_edits accepts. *)
Begin(e) ==
  /\ callAt = "idle"
  /\ edit' = e
  /\ originals' = [f \in Files |-> IF e[f] = NoFile THEN NoFile ELSE Text(worktree[f])]
  /\ guarded' = FALSE
  /\ callAt' = "parse"
  /\ UNCHANGED <<worktree, bench, counted, todo>>

(* It returns a record. *)
CallReturns(status) == callAt' = "idle" /\ outcome' = status /\ UNCHANGED <<tools, strewn>>

(* Mutant: the files git does not know are forgotten. *)
RejectKnown(inTry) ==
  /\ callAt' = "reject"
  /\ todo' = Existing
  /\ guarded' = inTry

(* reject(gate, reason): put every file of the patch back. *)
Reject(inTry) == callAt' = "reject" /\ todo' = Touched /\ guarded' = inTry

Parse ==
  /\ callAt = "parse"
  /\ IF \A f \in Touched : edit[f] \in Parses
     THEN callAt' = "count" /\ UNCHANGED <<todo, guarded>>
     ELSE Reject(FALSE)
  /\ UNCHANGED <<worktree, bench, call>>

(* Ruff's baseline over the files that exist. *)
CountBefore ==
  /\ callAt = "count"
  /\ counted' \in IF "ruff" \in tools /\ Existing # {} THEN RuffCounts(Existing) ELSE {0}
  /\ callAt' = "write"
  /\ todo' = Touched
  /\ UNCHANGED <<worktree, bench, edit, originals, guarded>>

(* A tool is being run: one that prints JSON, or the tests. *)
Analyzes ==
  \/ callAt = "count" /\ "ruff" \in tools /\ Existing # {}
  \/ callAt = "lint" /\ "ruff" \in tools
  \/ callAt = "typecheck" /\ "pyright" \in tools
Runs == Analyzes \/ callAt = "tests"

(* The output of a tool does not parse as JSON. *)
Unreadable ==
  /\ "json" \in BenchFaults
  /\ Analyzes
  /\ Reject(callAt # "count")
  /\ UNCHANGED <<worktree, bench, call>>

(* The UnicodeDecodeError of a tool's output, a ValueError, leaves verify_edits,
   and so does what a JSON of another shape raises: no handler here catches
   them, and the patch stays where it is. *)
Undecoded ==
  /\ "decode" \in BenchFaults
  /\ Runs
  /\ callAt' = "idle"
  /\ outcome' \in {"unreadable"} \cup (IF Analyzes THEN {"raised"} ELSE {})
  /\ strewn' = strewn \cup (IF guarded THEN Touched ELSE {})
  /\ UNCHANGED <<tools, worktree, call, todo, guarded>>

(* What raises outside the try block leaves verify_edits. *)
Leave == CallReturns("raised")

CountRaises ==
  /\ callAt = "count" /\ Runs /\ "gate" \in BenchFaults
  /\ Leave
  /\ UNCHANGED <<worktree, call, todo, guarded>>

(* write_text opens, and empties, the file before it fails. *)
Torn(f) == worktree' \in {worktree, [worktree EXCEPT ![f] = Empty]}

Write(f) ==
  /\ callAt = "write" /\ f \in todo
  /\ worktree' = [worktree EXCEPT ![f] = edit[f]]
  /\ todo' = todo \ {f}
  /\ IF todo = {f} THEN callAt' = "lint" /\ guarded' = TRUE ELSE UNCHANGED <<callAt, guarded>>
  /\ UNCHANGED <<bench, call>>

WriteRaises(f) ==
  /\ callAt = "write" /\ f \in todo /\ "write" \in BenchFaults
  /\ Torn(f)
  /\ Leave
  /\ UNCHANGED <<call, todo, guarded>>

LintGreen(count) == count <= counted

(* Mutant: a required gate whose tool is missing passes. *)
MissingForgiven(gate, successor) ==
  callAt' = successor /\ UNCHANGED <<todo, guarded>>

(* A gate without a verdict is red only when it is required. *)
Missing(gate, successor) ==
  IF gate \in Required THEN Reject(TRUE) ELSE callAt' = successor /\ UNCHANGED <<todo, guarded>>

Verdict(green, successor) ==
  IF green THEN callAt' = successor /\ UNCHANGED <<todo, guarded>> ELSE Reject(TRUE)

Lint ==
  /\ callAt = "lint"
  /\ IF "ruff" \notin tools
     THEN Missing("lint", "typecheck")
     ELSE \E count \in RuffCounts(Touched) : Verdict(LintGreen(count), "typecheck")
  /\ UNCHANGED <<worktree, bench, call>>

TypesGreen == TypeErrors(worktree) = 0

(* Pyright over the whole worktree: no error at all. *)
Typecheck ==
  /\ callAt = "typecheck"
  /\ IF "pyright" \notin tools
     THEN Missing("typecheck", "tests")
     ELSE Verdict(TypesGreen, "tests")
  /\ UNCHANGED <<worktree, bench, call>>

(* Exit code 5 of pytest says that no test was collected. *)
RunTests ==
  /\ callAt = "tests"
  /\ IF ~Collects(worktree) THEN Missing("tests", "convention") ELSE Verdict(Passes(worktree), "convention")
  /\ UNCHANGED <<worktree, bench, call>>

(* except (OSError, TimeoutExpired) *)
GateCrashes ==
  /\ callAt # "count" /\ Runs /\ "gate" \in BenchFaults
  /\ Reject(FALSE)
  /\ UNCHANGED <<worktree, bench, call>>

(* The gates without an analyzer, then the patch is accepted. *)
Conclude ==
  /\ callAt = "convention"
  /\ IF Required \cap {"callsite_sweep", "handled_result"} # {}
     THEN Reject(FALSE) /\ UNCHANGED bench
     ELSE CallReturns("committed") /\ UNCHANGED <<todo, guarded>>
  /\ UNCHANGED <<worktree, call>>

Restore(f) ==
  /\ callAt = "reject" /\ f \in todo
  /\ worktree' = [worktree EXCEPT ![f] = originals[f]]
  /\ todo' = todo \ {f}
  /\ IF todo = {f} THEN CallReturns("rolled-back") ELSE UNCHANGED <<callAt, bench>>
  /\ UNCHANGED <<call, guarded>>

(* Raised in the try block, the handler rejects once more. *)
RestoreRaises(f) ==
  /\ callAt = "reject" /\ f \in todo /\ "write" \in BenchFaults
  /\ IF guarded
     THEN Reject(FALSE) /\ UNCHANGED bench
     ELSE Leave /\ UNCHANGED <<todo, guarded>>
  /\ IF originals[f] = NoFile THEN UNCHANGED worktree ELSE Torn(f)
  /\ UNCHANGED call

Step ==
  \/ Parse \/ CountBefore \/ Lint \/ Typecheck \/ RunTests \/ Conclude
  \/ \E f \in Files : Write(f) \/ Restore(f)

Fault ==
  \/ Unreadable \/ Undecoded \/ CountRaises \/ GateCrashes
  \/ \E f \in Files : WriteRaises(f) \/ RestoreRaises(f)
-----------------------------------------------------------------------------
(* A required gate that did not run is a rejection, never a pass, and no gate
   that ran was red: the patch that is accepted is on disk as proposed, the tree
   it is in type-checks and passes its tests, where these are required there
   are tests to pass, and ruff finds no more in the patch's files than before,
   whichever attempt it was. *)
AcceptedIsGated ==
  outcome = "committed" /\ callAt = "idle" =>
    /\ Required \subseteq (IF Collects(worktree) THEN {"tests"} ELSE {})
                     \cup (IF "ruff" \in tools THEN {"lint"} ELSE {})
                     \cup (IF "pyright" \in tools THEN {"typecheck"} ELSE {})
    /\ \A f \in Touched : worktree[f] = edit[f]
    /\ "pyright" \in tools => TypeErrors(worktree) = 0
    /\ Collects(worktree) => Passes(worktree)
    /\ "ruff" \in tools /\ "silent" \notin BenchFaults =>
         RuffCount(worktree, Touched) <= RuffCount(originals, Existing)
=============================================================================
