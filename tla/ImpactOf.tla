------------------------------ MODULE ImpactOf ------------------------------
(***************************************************************************)
(* graph/order.py: impact_of(graph, qualname), the symbols to verify again *)
(* after an edit of qualname.                                              *)
(***************************************************************************)
EXTENDS SymbolGraph

VARIABLES
  target,       \* qualname
  pending,      \* stack
  impact        \* seen

impactVars == <<target, pending, impact>>

StartImpact(q) ==
  /\ target' = q
  /\ pending' = <<q>>
  /\ impact' = {}

NewDependents(q) == Dependents(q) \ impact

VisitImpact ==
  /\ pending # <<>>
  /\ LET new == NewDependents(TopOf(pending))
     IN  /\ impact' = impact \cup new
         /\ \E order \in Listings(new) : pending' = Popped(pending) \o order
  /\ UNCHANGED target

ImpactFound == pending = <<>>

ImpactInit ==
  /\ target \in Symbols
  /\ pending = <<target>>
  /\ impact = {}

ImpactSpec ==
  edges \in Graphs /\ ImpactInit /\ [][VisitImpact /\ UNCHANGED edges]_<<edges, impactVars>>
-----------------------------------------------------------------------------
(* "All symbols that transitively depend on qualname" (order.py:40): what
   impact_of returns is the least set that contains the dependents of
   qualname and the dependents of its own members. *)
ImpactIsClosure ==
  ImpactFound =>
    /\ Dependents(target) \subseteq impact
    /\ ClosedUnder(Dependents, impact)
    /\ \A C \in SUBSET Symbols :
         Dependents(target) \subseteq C /\ ClosedUnder(Dependents, C) => impact \subseteq C
=============================================================================
