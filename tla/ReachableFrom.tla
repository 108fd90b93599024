--------------------------- MODULE ReachableFrom ---------------------------
(***************************************************************************)
(* graph/order.py: reachable_from(graph, roots), the symbols that are not  *)
(* dead code.                                                              *)
(***************************************************************************)
EXTENDS SymbolGraph

CONSTANT EntryPoints  \* graph.entry_points

ASSUME EntryPointsAssumption == EntryPoints \subseteq Symbols

VARIABLES
  frontier,     \* stack
  reach         \* seen

reachVars == <<frontier, reach>>

(* Mutant: the references of an entry point are not followed. *)
NewReferencesDirect(q) == IF q \in EntryPoints THEN {} ELSE Outgoing(q) \ reach

NewReferences(q) == Outgoing(q) \ reach

(* A symbol may be on the stack twice; it is followed once. *)
VisitReach ==
  /\ frontier # <<>>
  /\ LET cur == TopOf(frontier)
     IN  IF cur \in reach
         THEN frontier' = Popped(frontier) /\ UNCHANGED reach
         ELSE /\ reach' = reach \cup {cur}
              /\ \E order \in Listings(NewReferences(cur)) :
                   frontier' = Popped(frontier) \o order

ReachFound == frontier = <<>>

ReachInit ==
  /\ frontier \in Listings(EntryPoints)
  /\ reach = {}

ReachSpec ==
  edges \in Graphs /\ ReachInit /\ [][VisitReach /\ UNCHANGED edges]_<<edges, reachVars>>
-----------------------------------------------------------------------------
(* "All symbols reachable by following reference edges forward" (order.py:58)
   from the entry points: the least set that contains them and what its
   members reference. *)
ReachIsClosure ==
  ReachFound =>
    /\ EntryPoints \subseteq reach
    /\ ClosedUnder(Outgoing, reach)
    /\ \A C \in SUBSET Symbols :
         EntryPoints \subseteq C /\ ClosedUnder(Outgoing, C) => reach \subseteq C
=============================================================================
