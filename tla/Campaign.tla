------------------------------ MODULE Campaign ------------------------------
(***************************************************************************)
(* What a refactoring campaign promises about the repository it works on,  *)
(* whoever runs it: it edits the tree as it goes, and it closes either     *)
(* with a tree that passed its final audit or with its baseline restored.  *)
(* A rollback that could not finish is reported as incomplete.             *)
(***************************************************************************)
CONSTANTS
  Trees,          \* the states of the repository
  Audited(_),     \* would the completion audit pass in a tree
  AtBaseline(_, _)  \* does a tree (second) hold the baseline taken of the first

VARIABLES
  origin,         \* the repository when the campaign was opened
  tree,           \* the repository
  outcome         \* "open", "completed", "restored" or "incomplete"

Open ==
  /\ origin \in Trees
  /\ tree = origin
  /\ outcome = "open"

Work ==
  /\ outcome = "open"
  /\ tree' \in Trees
  /\ UNCHANGED <<origin, outcome>>

Complete ==
  /\ outcome = "open"
  /\ Audited(tree)
  /\ outcome' = "completed"
  /\ UNCHANGED <<origin, tree>>

Restore ==
  /\ outcome = "open"
  /\ tree' \in Trees
  /\ AtBaseline(origin, tree')
  /\ outcome' = "restored"
  /\ UNCHANGED origin

(* The rollback failed and says so. *)
GiveUp ==
  /\ outcome = "open"
  /\ tree' \in Trees
  /\ outcome' = "incomplete"
  /\ UNCHANGED origin

Next == Work \/ Complete \/ Restore \/ GiveUp

(* A closed campaign never touches the repository again. *)
AllOrNothing ==
  Open /\ [][Next]_<<origin, tree, outcome>>
=============================================================================
