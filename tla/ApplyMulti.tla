----------------------------- MODULE ApplyMulti ------------------------------
(***************************************************************************)
(* core/apply.py: apply_and_verify_multi, the edit tool of the MCP server, *)
(* called by several processes, each in a worktree of its own, that share  *)
(* the edit log of core/storage.py (module EditLog).  The log knows a file *)
(* by its absolute path, and REDIS_URL may name one server for checkouts   *)
(* on several machines or in several containers: two files may be one path *)
(* there.                                                                  *)
(*                                                                         *)
(* Beside pipeline/checker.py it differs in what it gates with (the        *)
(* adapter of each file's language, none for an unknown one), in what it   *)
(* tests (the whole suite), and in the retries it reads from the log.      *)
(* Here git works, the tools are installed, and ruff and pyright print     *)
(* JSON: module Checker has the same gates without that.                   *)
(***************************************************************************)
EXTENDS EditLog

CONSTANTS
  Files,              \* the files of all worktrees
  Repo,               \* the worktree of each client
  PathOf,             \* the resolved path of each file, as the log has it
  Contents,           \* texts of files
  Cut,                \* what a write that raises leaves of a file
  Absent,             \* not a key of the edit map
  Proposals,          \* the edits each client may propose
  Python,             \* the files PythonAdapter handles; GenericAdapter the others
  Parses,             \* the contents parse_gate accepts
  Formatted,          \* what ruff format rewrites a content to
  Violations,         \* ruff's violation count of a content
  TypeErrors(_, _),   \* pyright's error count of a file in a tree
  TestsPass(_, _),    \* does the suite of a client's worktree pass in a tree
  InitialTrees,       \* the trees a behaviour may begin with
  Faults,             \* what may go wrong (see FaultKinds)
  MaxEdits            \* bound: how many calls each client makes

(* gate: a gate raises; write: write_text of a source file raises; lost: the
   connection to Redis is, before or after the server has executed the command;
   full: the state file cannot be written. *)
FaultKinds == {"gate", "write", "lost", "full"}

Trees == [Files -> Contents]

(* The worktrees are disjoint, and the gates of a call see no other than its own. *)
WorktreesAssumption ==
  /\ IsFiniteSet(Clients)
  /\ Repo \in [Clients -> SUBSET Files]
  /\ DOMAIN PathOf = Files
  /\ \A c, d \in Clients : c # d => Repo[c] \cap Repo[d] = {}
  /\ \A c \in Clients : \A t, u \in Trees : (\A f \in Repo[c] : t[f] = u[f]) =>
       /\ TestsPass(c, t) = TestsPass(c, u)
       /\ \A f \in Repo[c] : TypeErrors(f, t) = TypeErrors(f, u)
ContentsAssumption ==
  /\ Absent \notin Contents
  /\ Cut \in Contents
  /\ Python \subseteq Files
  /\ Parses \subseteq Contents
  /\ Formatted \in [Contents -> Contents]
  /\ Violations \in [Contents -> Nat]
  /\ \A f \in Files : \A t \in Trees : TypeErrors(f, t) \in Nat
  /\ InitialTrees \subseteq Trees
ProposalsAssumption ==
  /\ DOMAIN Proposals = Clients
  /\ \A c \in Clients : Proposals[c] \subseteq
       {e \in [Repo[c] -> Contents \cup {Absent}] : \E f \in Repo[c] : e[f] # Absent}
BoundsAssumption == Faults \subseteq FaultKinds /\ MaxEdits \in Nat

VARIABLES
  disk,       \* the worktrees
  head,       \* what git's HEAD holds of them
  pc,         \* where each client's call is; "idle" between two calls
  call        \* the local variables of each client's call

vars == <<disk, head, pc, call, storage>>

Touched(c) == {f \in Repo[c] : call[c].edit[f] # Absent}
Gated(c) == Touched(c) \cap Python
PathsOf(c) == {PathOf[f] : f \in Touched(c)}

NoCall(c) ==
  [edit |-> [f \in Repo[c] |-> Absent], originals |-> [f \in Repo[c] |-> Absent],
   retries |-> 0, todo |-> {}, status |-> "none", rescue |-> FALSE, number |-> 0]

Init ==
  /\ LogInit
  /\ disk \in InitialTrees
  /\ head = disk
  /\ pc = [c \in Clients |-> "idle"]
  /\ call = [c \in Clients |-> NoCall(c)]

At(c, label) == pc[c] = label
GoTo(c, label) == pc' = [pc EXCEPT ![c] = label]
Alter(f, content) == disk' = [disk EXCEPT ![f] = content]

(* The call begins: every file is read. *)
Begin(c, e) ==
  /\ c \in active
  /\ At(c, "idle") /\ call[c].number < MaxEdits
  /\ call' = [call EXCEPT ![c] =
        [NoCall(c) EXCEPT !.edit = e, !.number = call[c].number + 1,
                          !.originals = [f \in Repo[c] |-> disk[f]]]]
  /\ GoTo(c, "count")
  /\ UNCHANGED <<disk, head, storage>>

(* retries = storage.count_attempts(file_strs) *)
Count(c) ==
  /\ At(c, "count") /\ ~ReadRaises
  /\ call' = [call EXCEPT ![c].retries = CountAttempts(PathsOf(c))]
  /\ GoTo(c, "parse")
  /\ UNCHANGED <<disk, head, storage>>

CountRaises(c) ==
  /\ At(c, "count")
  /\ ReadRaises \/ ("lost" \in Faults /\ logBackend = "redis")
  /\ GoTo(c, "idle")
  /\ UNCHANGED <<disk, head, call, storage>>

Parsed(c) == \A f \in Gated(c) : call[c].edit[f] \in Parses

(* Mutant: a syntax error is found, and the files are written all the same. *)
ParseLate(c) ==
  /\ At(c, "parse")
  /\ call' = [call EXCEPT ![c].todo = Touched(c)]
  /\ GoTo(c, "write")
  /\ UNCHANGED <<disk, head, storage>>

(* Gate 1: every content is parsed before the first is written. *)
Parse(c) ==
  /\ At(c, "parse")
  /\ IF Parsed(c)
     THEN /\ call' = [call EXCEPT ![c].todo = Touched(c)]
          /\ GoTo(c, "write")
     ELSE /\ call' = [call EXCEPT ![c].status = "rolled-back"]
          /\ GoTo(c, "log")
  /\ UNCHANGED <<disk, head, storage>>

(* An exception outside the try block leaves the call as it is. *)
Leave(c) ==
  /\ GoTo(c, "idle")
  /\ call' = [call EXCEPT ![c].status = "none"]

BaselineRaises(c) ==
  /\ "gate" \in Faults
  /\ At(c, "parse") /\ Parsed(c)
  /\ Leave(c)
  /\ UNCHANGED <<disk, head, storage>>

(* The next file of a loop over files; after the last, its successor. *)
Visit(c, f, files, successor) ==
  /\ f \in call[c].todo
  /\ IF call[c].todo = {f}
     THEN GoTo(c, successor) /\ call' = [call EXCEPT ![c].todo = files]
     ELSE UNCHANGED pc /\ call' = [call EXCEPT ![c].todo = @ \ {f}]

Write(c, f) ==
  /\ At(c, "write")
  /\ Visit(c, f, Touched(c), "lint")
  /\ Alter(f, call[c].edit[f])
  /\ UNCHANGED <<head, storage>>

WriteRaises(c, f) ==
  /\ "write" \in Faults
  /\ At(c, "write") /\ f \in call[c].todo
  /\ \E content \in {disk[f], Cut} : Alter(f, content)
  /\ Leave(c)
  /\ UNCHANGED <<head, storage>>

RollBack(c, handler) ==
  /\ GoTo(c, "rollback")
  /\ call' = [call EXCEPT ![c].status = "rolled-back", ![c].rescue = handler,
                          ![c].todo = Touched(c)]

(* Gate 2: a Python file is formatted, and may have no new violation. *)
Lint(c, f) ==
  LET content == IF f \in Python THEN Formatted[disk[f]] ELSE disk[f]
      red == f \in Python /\ Violations[content] > Violations[call[c].originals[f]]
  IN  /\ At(c, "lint") /\ f \in call[c].todo
      /\ Alter(f, content)
      /\ IF red THEN RollBack(c, FALSE) ELSE Visit(c, f, Touched(c), "typecheck")
      /\ UNCHANGED <<head, storage>>

(* The tree the baselines were taken in. *)
Before(c) == [f \in Files |-> IF f \in Repo[c] THEN call[c].originals[f] ELSE disk[f]]

(* Gate 3: no new type error in a Python file. *)
Typecheck(c, f) ==
  /\ At(c, "typecheck") /\ f \in call[c].todo
  /\ IF f \in Python /\ TypeErrors(f, disk) > TypeErrors(f, Before(c))
     THEN RollBack(c, FALSE)
     ELSE Visit(c, f, {}, "tests")
  /\ UNCHANGED <<disk, head, storage>>

(* Gate 4: the whole suite, whatever the languages. *)
RunTests(c) ==
  /\ At(c, "tests")
  /\ IF TestsPass(c, disk)
     THEN GoTo(c, "commit") /\ UNCHANGED call
     ELSE RollBack(c, FALSE)
  /\ UNCHANGED <<disk, head, storage>>

GateCrashes(c) ==
  /\ "gate" \in Faults
  /\ pc[c] \in {"lint", "typecheck", "tests"}
  /\ RollBack(c, TRUE)
  /\ UNCHANGED <<disk, head, storage>>

Restore(c, f) ==
  /\ At(c, "rollback")
  /\ Visit(c, f, {}, "log")
  /\ Alter(f, call[c].originals[f])
  /\ UNCHANGED <<head, storage>>

(* Mutant: the handler returns the record that could not be logged. *)
SwallowRaise(c) == GoTo(c, "idle") /\ UNCHANGED call

(* In the try block the handler begins another rollback; in the handler, and
   outside, the exception leaves the call. *)
RaiseFromTry(c) == IF call[c].rescue THEN Leave(c) ELSE RollBack(c, TRUE)

RestoreRaises(c, f) ==
  /\ "write" \in Faults
  /\ At(c, "rollback") /\ f \in call[c].todo
  /\ \E content \in {disk[f], Cut} : Alter(f, content)
  /\ RaiseFromTry(c)
  /\ UNCHANGED <<head, storage>>

(* _commit_multi: git add of every file and git commit. *)
Commit(c) ==
  /\ At(c, "commit")
  /\ head' = [f \in Files |-> IF f \in Touched(c) THEN disk[f] ELSE head[f]]
  /\ call' = [call EXCEPT ![c].status = "committed"]
  /\ GoTo(c, "log")
  /\ UNCHANGED <<disk, storage>>

EditRecord(c) ==
  [client |-> c, number |-> call[c].number, files |-> PathsOf(c), edit |-> call[c].edit,
   status |-> call[c].status, retries |-> call[c].retries]

(* _finalize: storage.append_log and the return. *)
Log(c) ==
  /\ At(c, "log")
  /\ \/ /\ PushRecord(EditRecord(c)) \/ FillState(c, EditRecord(c))
        /\ GoTo(c, "idle")
     \/ /\ ReadState(c) \/ TruncateState(c)
        /\ UNCHANGED pc
  /\ UNCHANGED <<disk, head, call>>

(* The _finalize of a rollback stands in the try block, the two others do not. *)
LogRaises(c) ==
  /\ At(c, "log")
  /\ \/ "lost" \in Faults /\ PushRecord(EditRecord(c))
     \/ "lost" \in Faults /\ logBackend = "redis" /\ UNCHANGED storage
     \/ "full" \in Faults /\ FillRaises(c)
     \/ logBackend = "json" /\ stage[c] = "none" /\ ReadRaises /\ UNCHANGED storage
  /\ IF call[c].status = "rolled-back" /\ Parsed(c) THEN RaiseFromTry(c) ELSE Leave(c)
  /\ UNCHANGED <<disk, head>>

Step(c) ==
  \/ Count(c) \/ CountRaises(c) \/ Parse(c) \/ RunTests(c) \/ Commit(c) \/ Log(c)
  \/ \E f \in Repo[c] : Write(c, f) \/ Lint(c, f) \/ Typecheck(c, f) \/ Restore(c, f)
Fault(c) ==
  \/ BaselineRaises(c) \/ GateCrashes(c) \/ LogRaises(c)
  \/ \E f \in Repo[c] : WriteRaises(c, f) \/ RestoreRaises(c, f)
Next == \E c \in Clients : (\E e \in Proposals[c] : Begin(c, e)) \/ Step(c) \/ Fault(c)

Spec == Init /\ [][Next]_vars
-----------------------------------------------------------------------------
(***************************************************************************)
(* Properties.                                                             *)
(***************************************************************************)
Decided(c, status) == pc[c] \in {"log", "idle"} /\ call[c].status = status

Settled(f, content) == IF f \in Python THEN Formatted[content] ELSE content

(* A call that reports a commit has all of its edit on disk, parsed, without a
   new violation or type error in a Python file, and with a green suite, in
   the tree that was committed: no other process's call has a say in it. *)
CommittedMeansGated ==
  \A c \in Clients : Decided(c, "committed") =>
    /\ \A f \in Touched(c) : disk[f] = Settled(f, call[c].edit[f]) /\ head[f] = disk[f]
    /\ \A f \in Gated(c) :
         /\ call[c].edit[f] \in Parses
         /\ Violations[disk[f]] <= Violations[call[c].originals[f]]
         /\ TypeErrors(f, disk) <= TypeErrors(f, Before(c))
    /\ TestsPass(c, disk)

Readable == log # Torn /\ ~SharedFile
IsCopyOf(r, s) == r.client = s.client /\ r.number = s.number

(* The failed attempts at the files of record i that the log holds before it; a
   record the server took twice, for a reply that was lost, counts itself in
   neither copy. *)
FailedBefore(i) ==
  {j \in 1 .. i - 1 : /\ log[j].status # "committed"
                      /\ log[j].files \cap log[i].files # {}
                      /\ ~IsCopyOf(log[j], log[i])}
(* Those of them that were there before the call of record i began: the same
   process has logged an earlier call after them. *)
KnownBefore(i) ==
  {j \in FailedBefore(i) :
     \E k \in j .. i - 1 : log[k].client = log[i].client /\ ~IsCopyOf(log[k], log[i])}

(* The retries of a record, read long before it is appended and while other
   processes append theirs, count no attempt that the log does not hold before
   the record, and every one that was logged before the call began. *)
RetriesAgreeWithLog ==
  Readable => \A i \in DOMAIN log :
    /\ Cardinality(KnownBefore(i)) <= log[i].retries
    /\ log[i].retries <= Cardinality(FailedBefore(i))

(* Every call that has returned is in the log, with the status it returned:
   neither a rollback that had to be begun again nor a concurrent append
   loses it. *)
ReturnedMeansLogged ==
  Readable => \A c \in Clients :
    At(c, "idle") /\ call[c].status # "none" => \E i \in DOMAIN log : log[i] = EditRecord(c)
=============================================================================
