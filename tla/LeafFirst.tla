----------------------------- MODULE LeafFirst -----------------------------
(***************************************************************************)
(* The order a refactoring may work in: the symbols that reference one     *)
(* another are one unit, and a unit comes after everything it references.  *)
(***************************************************************************)
EXTENDS SymbolGraph

VARIABLE emitted  \* the units so far, as sets of symbols

Emitted == UNION ElementsOf(emitted)

Begin == emitted = <<>>

Emit ==
  \E q \in Symbols \ Emitted :
    /\ \A p \in Cycle(q) : Outgoing(p) \subseteq Emitted \cup Cycle(q)
    /\ emitted' = Append(emitted, Cycle(q))
    /\ UNCHANGED edges

LeafToRoot == Begin /\ [][Emit]_<<edges, emitted>>
=============================================================================
