------------------------------ MODULE MCChecker ------------------------------
(* Two files, of which a imports b, and two tests.  The contents: the empty
   one, an old and a new text, the old one unformatted ("raw") or with "\r\n"
   line ends ("crlf"), and one with a syntax error.  "old" has one lint
   violation, "new" none. *)
EXTENDS Checker

MCContents == {"", "old", "new", "raw", "bad", "crlf"}
MCFewContents == {"", "old", "raw", "crlf"}
MCParses == Contents \ {"bad"}
MCTextOf == [c \in Contents |-> IF c = "crlf" THEN "old" ELSE c]
MCFormatted == [c \in Contents |-> IF c = "raw" THEN "old" ELSE c]
MCViolations == [c \in Contents \cup {Absent} |->
                   CASE c \in {"old", "crlf"} -> 1 [] c = "raw" -> 2 [] OTHER -> 0]
(* For the runs without ruff's verdicts: nothing is a violation. *)
MCNoViolations == [c \in Contents \cup {Absent} |-> 0]

(* The new a needs the new b. *)
MCTypeErrors(f, tree) ==
  IF f = "a" /\ tree["a"] = "new" /\ tree["b"] \in {"old", "crlf"} THEN 1 ELSE 0

MCPasses(t, tree) ==
  CASE t = "test_a" -> tree["a"] # ""
    [] t = "test_b" -> tree["a"] = "new" => tree["b"] # ""
=============================================================================
