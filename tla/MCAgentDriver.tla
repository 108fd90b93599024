---------------------------- MODULE MCAgentDriver ----------------------------
(* Two source files, of which "new.py" does not exist yet, and a test, which is
   not there either and not under tests/; what exists has "\r\n" line ends.
   Plan "both" takes two steps, the second of which depends on the first; plan
   "one" takes one step that may touch the test, and is declared with its step
   already complete. *)
EXTENDS AgentDriver

MCPaths == {"app.py", "new.py", "test_new.py"}
MCSources == MCPaths
MCOrigin == [f \in Paths |-> IF f = "app.py" THEN "crlf" ELSE Absent]
MCTextOf == [c \in Contents |-> IF c = "crlf" THEN "old" ELSE c]

MCLimit == [s \in Phases |-> IF s = "discover" THEN 1 ELSE 2]
MCAnyEdits == {NoEdits}

(* The refactored app needs the new file; nothing may be left torn. *)
MCGreen(t) ==
  /\ \A f \in Paths : t[f] # Torn
  /\ t["app.py"] = "better" => t["new.py"] # Absent
MCAccepts(t, u) == MCGreen(u)

Both == [name |-> "both", paths |-> {"app.py", "new.py"}, steps |-> {1, 2},
         scope |-> [s \in {1, 2} |-> IF s = 1 THEN {"new.py"} ELSE {"app.py"}],
         deps |-> [s \in {1, 2} |-> IF s = 1 THEN {} ELSE {1}], claimed |-> {}]
One(claims) == [name |-> "one", paths |-> {"new.py"}, steps |-> {1},
                scope |-> [s \in {1} |-> {"new.py", "test_new.py"}],
                deps |-> [s \in {1} |-> {}], claimed |-> claims]
MCPlans == {Both, One({1})}

Patch(s, e) == [step |-> s, edits |-> [f \in Paths |-> IF f \in DOMAIN e THEN e[f] ELSE Absent]]
New == [f \in {"new.py"} |-> "better"]
App == [f \in {"app.py"} |-> "better"]
Test == [f \in {"new.py", "test_new.py"} |-> "better"]
MCPatches == {Patch(1, New), Patch(2, App), Patch(1, Test)}
=============================================================================
