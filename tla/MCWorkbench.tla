----------------------------- MODULE MCWorkbench ------------------------------
(* The tools of the server: those that read the repository, in one process, and
   the one that edits it, in several.

   Three modules; many programs are only looked at, two are worked on. *)
EXTENDS Dispatch, ApplyMulti

(* "_hook" is assigned, "_route" decorated, and "_spare" in __all__; "app" imports
   from "lib" by its name, and from "util" with a dot. *)
MCDefs == 1 .. 8
MCHomeOf == (1 :> "app" @@ 2 :> "lib" @@ 3 :> "lib" @@ 4 :> "lib" @@ 5 :> "util" @@ 6 :> "lib"
              @@ 7 :> "app" @@ 8 :> "util" @@ 101 :> "util" @@ 102 :> "lib")
MCNameOf == <<"main", "_help", "_Box", "get", "_help", "_hook", "_route", "_spare">>
MCAroundOf == <<{}, {}, {}, {3}, {}, {}, {}, {}>>
MCSpelled == [app |-> {"lib"}, lib |-> {}, util |-> {"lib"}]

MCBodies == {"idle", "help", "attr", "alias", "value", "own", "box", "hook", "getattr", "big", "big2", "huge"}
Targets ==
  [b \in MCBodies |->
     CASE b = "help" -> {<<2, "name">>}
       [] b \in {"attr", "big", "big2"} -> {<<2, "attribute">>}
       [] b = "alias" -> {<<2, "as">>}
       [] b = "value" -> {<<5, "value">>}
       [] b = "own" -> {<<5, "name">>}
       [] b = "box" -> {<<3, "name">>, <<4, "attribute">>}
       [] b = "getattr" -> {<<2, "string">>}
       [] b = "hook" -> {<<6, "name">>}
       [] OTHER -> {}]
MCUsesOf(d, b) == {[at |-> d, to |-> t[1], how |-> t[2]] : t \in Targets[b]}
MCScriptUses == {[at |-> 101, to |-> 5, how |-> "name"], [at |-> 102, to |-> 6, how |-> "name"]}

MCFingerprint == [b \in MCBodies |-> CASE b \in {"big", "big2"} -> "god" [] b = "huge" -> "flat" [] OTHER -> "small"]
MCLinesOf == [b \in MCBodies |-> CASE b = "big" -> 45 [] b = "huge" -> 160 [] OTHER -> 9]
MCDepthOf == [b \in MCBodies |-> IF b = "big2" THEN 5 ELSE 1]
MCComplexityOf == [b \in MCBodies |-> IF b \in {"big", "big2"} THEN 7 ELSE 2]
MCSimilarity(a, b) ==
  CASE a = b -> 10
    [] {a, b} \subseteq {"big", "big2", "huge"} -> 9
    [] OTHER -> 5

Choosable ==
  <<{"idle", "help", "attr", "alias", "value", "own", "box"}, {"idle", "box", "hook", "gone"}, {"idle", "gone"},
    {"idle", "help", "hook", "getattr", "gone"}, {"idle", "value", "gone"}, {"idle", "help", "box"},
    {"own", "gone"}, {"own", "gone"}>>

(* A method goes with its class, "app" imports one "_help"; bound: of "_route" and
   "_spare" there is one, and a body with uses uses something. *)
WellFormed(c) ==
  /\ c[1] \in {"help", "alias"} /\ c[2] # "gone" => c[5] = "gone" \/ c[7] # "own"
  /\ c[3] = "gone" => c[4] = "gone"
  /\ c[7] = "gone" <=> c[8] # "gone"
  /\ \A d \in MCDefs \ {8} : c[d] \notin {"idle", "gone"} => \E t \in Targets[c[d]] : c[t[1]] # "gone"

MCWorked ==
  {<<"big", "big2", "gone", "gone", "gone", "idle", "idle", "gone">>,
   <<"huge", "idle", "gone", "gone", "big", "idle", "gone", "gone">>}
MCPrograms == MCWorked \cup {c \in Choosable[1] \X Choosable[2] \X Choosable[3] \X Choosable[4]
                                     \X Choosable[5] \X Choosable[6] \X Choosable[7] \X Choosable[8] :
                               WellFormed(c)}

Unworked == <<"idle", "idle", "idle", "idle", "idle", "idle", "own", "gone">>

MCLines == {"os", "requests", "os, sys", "from .", "from.b", "tab re", "code"}
Given == [app |-> <<"requests", "code", "os">>, lib |-> <<>>, util |-> <<>>]
MCPreambles == {[Given EXCEPT !.app = lines] : lines \in BoundedSeq(MCLines, 3)}
MCAlphaOf ==
  ("from ." :> 1 @@ "from.b" :> 2 @@ "tab re" :> 3 @@ "os" :> 4 @@ "os, sys" :> 5 @@ "requests" :> 6)

MCEdits == {<<1, "idle">>, <<1, "big">>, <<2, "gone">>}
MCAnswers == {<<"big", "attr">>, <<"big2", "idle">>, <<"huge", "huge">>}
MCSpaceOf == [server |-> "", decisions |-> "", codebase |-> "codebase"]
MCDocNameOf == [app |-> "app", lib |-> "lib", util |-> "util"]
MCSummaryOf == [app |-> "idle", lib |-> "help", util |-> "idle"]

-----------------------------------------------------------------------------
(* The edit tool: one process edits a Python module and a text file, another a
   module of another worktree, with a syntax error each time; the worktrees are
   on two machines, and the modules have one path.  "old" has one lint
   violation, "raw" is "new" unformatted, "bad" has a syntax error. *)
MCContents == {"old", "raw", "new", "bad"}
MCRepo == [c \in Clients |-> IF c = "mcp" THEN {"a.py", "b.txt"} ELSE {"c.py"}]
MCPathOf == ("a.py" :> "m.py" @@ "b.txt" :> "b.txt" @@ "c.py" :> "m.py")
MCProposals == [c \in Clients |->
  IF c = "cli" THEN {[f \in {"c.py"} |-> "bad"]}
  ELSE {("a.py" :> new[1] @@ "b.txt" :> new[2]) : new \in
          {<<"raw", "new">>, <<"bad", "new">>, <<"raw", Absent>>, <<Absent, "new">>,
           <<Absent, "raw">>}}]
(* The old module, beside a new text, has a type error. *)
MCTypeErrors(f, t) == IF f = "a.py" /\ t["a.py"] = "old" /\ t["b.txt"] = "new" THEN 1 ELSE 0
(* The new module needs its new text; the text "bad" breaks a test. *)
MCTestsPass(c, t) == c = "mcp" => t["b.txt"] # "bad" /\ (t["a.py"] = "new" => t["b.txt"] # "old")

MCParses == Contents \ {"bad"}
MCFormatted == [c \in Contents |-> IF c = "raw" THEN "new" ELSE c]
MCViolations == [c \in Contents |-> CASE c = "old" -> 1 [] c = "raw" -> 2 [] OTHER -> 0]
MCInitialTrees == {[f \in Files |-> "old"]}

ASSUME InstancesAssumption ==
  /\ WorktreesAssumption /\ ContentsAssumption /\ ProposalsAssumption /\ BoundsAssumption
  /\ EntryPointsStandAlone /\ 
     \A c \in MCPrograms : ScopesAreNamed(UsesIn(c)) /\ ImportsAreDistinct(UsesIn(c))

EditToolRests ==
  /\ logBackend = "json" /\ active = {} /\ log = <<>> /\ held = <<>> /\ stage = <<>>
  /\ disk = [f \in Files |-> "old"] /\ head = disk
  /\ pc = [c \in Clients |-> "idle"]
  /\ call = [c \in Clients |-> NoCall(c)]
-----------------------------------------------------------------------------
(* Bound: one thing is varied at a time, the program, the imports, or what is
   done in a program that is worked on; where the server's own handle begins
   goes with the program. *)
WorkbenchStarts ==
  /\ code \in MCPrograms
  /\ imports \in IF code = Unworked THEN MCPreambles ELSE {Given}
  /\ semantic \in IF code \in MCWorked THEN {TRUE, code[1] = "huge"} ELSE {FALSE}
  /\ backend = [h \in Handles |-> IF semantic /\ code[1] = "big" THEN "redisvl" ELSE "json"]
  /\ WorkbenchInit

WorkbenchRests == WorkbenchStarts /\ code = <<"idle", "gone", "gone", "gone", "gone", "idle", "gone", "own">>

(* Bound: nobody asks for the documents or the findings of "util". *)
Asked == "util" \notin DOMAIN contexts' /\ (report'.tool = "analyze_file" => report'.of # "util")

(* The two share nothing: a behaviour has one of them at work. *)
MCInit ==
  \/ WorkbenchStarts /\ EditToolRests
  \/ WorkbenchRests /\ Init

MCNext ==
  \/ active = {} /\ WorkbenchNext /\ Asked /\ UNCHANGED vars
  \/ Next /\ UNCHANGED workbenchVars

MCSpec == MCInit /\ [][MCNext]_<<workbenchVars, vars>> /\ WF_workbenchVars(Going)
=============================================================================
