---------------------------- MODULE VerifiedEdit ----------------------------
(***************************************************************************)
(* What the verified spine promises to the callers of                      *)
(* Checker.verify_apply: an edit of several files takes effect on all of   *)
(* them at once, and is logged as committed, or on none of them, and is    *)
(* logged as rolled back.  A rejected edit may leave behind what the code  *)
(* leaves behind: an empty file where the edit wanted to create one, and   *)
(* a file with its line ends normalised where it had others.               *)
(***************************************************************************)
EXTENDS Sequences

CONSTANTS Files, Contents, Absent, Empty,
          Settled,    \* the content a written content settles to: formatted or not
          TextOf      \* what reading a content as text returns

VARIABLES tree,       \* what callers see on disk
          log         \* the edit log, one record per decided edit

specVars == <<tree, log>>

(* An edit names the new content of the files it touches; Absent marks the
   files that are not keys of the edit map. *)
Edits == {e \in [Files -> Contents \cup {Absent}] : \E f \in Files : e[f] # Absent}
Touched(e) == {f \in Files : e[f] # Absent}

EditLanded(e, before, after) ==
  after = [f \in Files |-> IF e[f] = Absent THEN before[f] ELSE Settled[e[f]]]

EditUndone(e, before, after) ==
  \A f \in Files : \/ after[f] = before[f]
                   \/ /\ f \in Touched(e)
                      /\ after[f] = IF before[f] = Absent THEN Empty
                                    ELSE TextOf[before[f]]

SpecInit ==
  /\ tree \in [Files -> Contents \cup {Absent}]
  /\ log = <<>>

Accept(e) ==
  /\ EditLanded(e, tree, tree')
  /\ log' = Append(log, [status |-> "committed", edit |-> e])

Reject(e) ==
  /\ tree' \in [Files -> Contents \cup {Absent}]
  /\ EditUndone(e, tree, tree')
  /\ log' = Append(log, [status |-> "rolled-back", edit |-> e])

SpecNext == \E e \in Edits : Accept(e) \/ Reject(e)

AtomicEdits == SpecInit /\ [][SpecNext]_specVars
=============================================================================
