----------------------------- MODULE ImportOrder ------------------------------
(***************************************************************************)
(* The imports of a file as core/analyze.py judges their order and         *)
(* transforms/imports.py restores it: two readings of one rule, stdlib,    *)
(* third-party, local.  A file is the sequence of its top-level lines as   *)
(* far as they are import statements or stand between them.                *)
(***************************************************************************)
EXTENDS SequencesExt, Integers

CONSTANTS
  Lines,       \* the top-level lines of a file, as texts
  Statements,  \* the import statements among them
  AlphaOf,     \* statement -> its place in the alphabet
  Stdlib,      \* those whose (first) module is of the standard library
  Relative,    \* those of a relative import
  Several,     \* those whose module a comma follows: "import a, b"
  Tabbed,      \* those whose first word no space follows, but a tab: "import<tab>a"
  Joined       \* those of which the module is in the first word: "from.a import b"

ASSUME StatementsAssumption ==
  /\ Statements \subseteq Lines
  /\ AlphaOf \in [Statements -> Int]
  /\ Stdlib \cup Relative \cup Several \cup Tabbed \subseteq Statements
  /\ Relative \cap (Stdlib \cup Several) = {}
  /\ Joined \subseteq Relative

(* _import_lines: where the import statements of a file are. *)
ImportLines(lines) == {i \in DOMAIN lines : lines[i] \in Statements}

(* analyze._bucket of _module_of, which takes "a," for the module of
   "import a, b"; the module of a relative import is the empty one, and so is
   that of a statement whose first word is no keyword. *)
Bucket(s) ==
  CASE s \in Relative -> 2
    [] s \in Stdlib \ Several -> 0
    [] OTHER -> 1

(* What _analyze reports as reorder_imports: a duplicate, or an import after one
   of a later bucket. *)
OutOfOrder(lines) ==
  \E i, j \in ImportLines(lines) :
    i < j /\ (lines[i] = lines[j] \/ Bucket(lines[i]) > Bucket(lines[j]))

(* Mutant: a relative import goes by its top module, "". *)
ClassOfTop(s) == IF s \in Stdlib THEN 0 ELSE 1

(* The statements that begin with "from " or "import ": what begins otherwise
   has the module "" for imports._module_of. *)
Spaced == Statements \ (Tabbed \cup Joined)

(* imports._classify of _module_of. *)
Class(s) ==
  CASE s \in Relative \cap Spaced -> 2
    [] s \in Stdlib \cap Spaced -> 0
    [] OTHER -> 1

(* _sort_key. *)
SortsBefore(a, b) ==
  \/ Class(a) < Class(b)
  \/ Class(a) = Class(b) /\ AlphaOf[a] < AlphaOf[b]

(* The block of the distinct ones, in order; of two that differ in their case
   only, either may come first, and always the same one. *)
Block(stmts) ==
  CHOOSE s \in SetToSeqs(stmts) : \A i, j \in DOMAIN s : i < j => ~SortsBefore(s[j], s[i])

(* reorder_imports: all from the first import to the last becomes this block;
   what stood between them is dropped. *)
Reordered(lines) ==
  LET at == ImportLines(lines)
  IN  IF at = {} THEN lines
      ELSE SubSeq(lines, 1, Min(at) - 1)
             \o Block({lines[i] : i \in at})
             \o SubSeq(lines, Max(at) + 1, Len(lines))
=============================================================================
