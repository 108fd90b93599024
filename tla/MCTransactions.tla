---------------------------- MODULE MCTransactions -----------------------------
(* What edits a repository beside the pipeline and the server: the campaign of a
   plan, the attempts of the harness benchmark, and the tasks of RefactorBench.
   They share nothing, so that a behaviour has one of them at work, the others
   at rest.

   The campaign has a plan of three steps, the last of which needs the other
   two; the second creates a file. *)
EXTENDS RefactorCampaign, HarnessBench, RefactorBench

MCDependencies == [s \in Steps |-> IF s = "callers" THEN {"define", "extract"} ELSE {}]
MCAffectedPaths == [s \in Steps |-> IF s = "extract" THEN {"new.py"} ELSE {"app.py"}]
MCAudited(t) == t["app.py"] = "better"

(* Bound: the trees a campaign begins with. *)
Opened == {t \in Trees : t["new.py"] = Absent /\ t["notes.md"] # "better"}

CampaignRests ==
  /\ tree = [p \in Paths |-> Absent] /\ baseline = tree /\ pc = "idle" /\ step = UnknownStep
  /\ edited = {} /\ completed = <<>> /\ flags = {} /\ closed = TRUE /\ result = "none"
  /\ verdict = "open" /\ calls = MaxCalls
-----------------------------------------------------------------------------
(* The benchmark: two files, of which app.py imports helper.py once it is
   "new".  "crlf" is "old" with "\r\n" line ends; "worse" has two violations,
   "old" has one; "bad" is a syntax error.  The worktrees: both files old; line
   ends to lose and a file to create; a type error to begin with; no tests to
   begin with. *)
MCParses == Texts \ {"bad"}
MCTextOf == [c \in Texts |-> IF c = "crlf" THEN "old" ELSE c]
MCViolations ==
  [c \in Texts |-> CASE c \in {"old", "crlf"} -> 1 [] c = "worse" -> 2 [] OTHER -> 0]
MCTypeErrors(t) == IF t["app.py"] = "new" /\ t["helper.py"] = NoFile THEN 1 ELSE 0
MCCollects(t) == t["app.py"] # NoFile
MCPasses(t) == t["app.py"] = "new" => t["helper.py"] # "old"
MCWorktrees ==
  {[f \in Files |-> "old"],
   [f \in Files |-> IF f = "app.py" THEN "crlf" ELSE NoFile],
   [f \in Files |-> IF f = "app.py" THEN "new" ELSE NoFile],
   [f \in Files |-> IF f = "app.py" THEN NoFile ELSE "old"]}

(* The task is done when app.py is "new" and has its helper, if need be "worse".
   The good patch does both; the bad one breaks what there is. *)
MCCorrect(t) == t["app.py"] = "new" /\ t["helper.py"] \in {"new", "worse"}
MCControls(t) ==
  <<[good |-> TRUE, edit |-> [f \in Files |-> "new"]],
    [good |-> FALSE, edit |-> [f \in Files |-> IF t[f] = NoFile THEN NoFile ELSE "worse"]]>>

BenchRests ==
  /\ CallInit /\ tools = {}
  /\ untouched = [f \in Files |-> "old"] /\ worktree = untouched
  /\ at = "done" /\ controls = <<>> /\ proposal = Unusable("error") /\ asked = 0 /\ attempt = 0
  /\ final = NoRecord /\ rows = <<>> /\ status = "running"
-----------------------------------------------------------------------------
(* RefactorBench: two renames as the patterns see them, one phrased otherwise, a
   move.  The test of a task has two tests, or none, and may die unheard. *)
MCRbTasks == <<"rename", "phrased", "move", "other">>
RbNames == {"rename", "phrased", "move", "other"}
MCScopeOf == [t \in RbNames |-> IF t \in {"rename", "other"} THEN "rename" ELSE t]
MCSubtestsOf == [t \in RbNames |-> IF t = "other" THEN 0 ELSE 2]
MCOutputs == [t \in RbNames |->
  {[ran |-> ran, failures |-> f, errors |-> 0] : ran \in {{}, {MCSubtestsOf[t]}}, f \in 0..MCSubtestsOf[t]}]
MCOptions == [inScope : BOOLEAN, smoke : BOOLEAN, llm : BOOLEAN, limit : {0, 3}]

RefactorBenchRests ==
  /\ options = [inScope |-> FALSE, smoke |-> FALSE, llm |-> FALSE, limit |-> 0]
  /\ pending = <<>> /\ selected = <<>> /\ answers = <<>> /\ results = <<>>
-----------------------------------------------------------------------------
ASSUME InstancesAssumption ==
  ContentsAssumption /\ GatesAssumption /\ BenchAssumption

MCInit ==
  \/ Init /\ tree \in Opened /\ BenchRests /\ RefactorBenchRests
  \/ CampaignRests /\ BenchInit /\ RefactorBenchRests
  \/ CampaignRests /\ BenchRests /\ RbInit

MCNext ==
  \/ Next /\ UNCHANGED <<harnessVars, rbVars>>
  \/ BenchNext /\ UNCHANGED <<vars, rbVars>>
  \/ RbNext /\ UNCHANGED <<vars, harnessVars>>

MCSpec == MCInit /\ [][MCNext]_<<vars, harnessVars, rbVars>>
=============================================================================
