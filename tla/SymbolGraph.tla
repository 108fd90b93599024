---------------------------- MODULE SymbolGraph ----------------------------
(***************************************************************************)
(* graph/model.py: the program graph.  An edge a -> b says that a          *)
(* references b.  A symbol stands for its rank among the sorted qualified  *)
(* names, so that < is the order in which the traversals sort names.       *)
(***************************************************************************)
EXTENDS Naturals, FiniteSets, Sequences

CONSTANTS
  Symbols,      \* graph.symbols
  Graphs        \* the edges the resolver may find

ASSUME GraphAssumption ==
  /\ Symbols \subseteq Nat /\ IsFiniteSet(Symbols)
  /\ \A g \in Graphs :
       /\ g \in [Symbols -> SUBSET Symbols]
       /\ \A q \in Symbols : q \notin g[q]

VARIABLE edges  \* graph.edges

Outgoing(q) == edges[q]

(* graph.reverse_edges()[q]: the symbols that reference q. *)
Dependents(q) == {src \in Symbols : q \in edges[src]}

(* The members of a set, once each, in an order of Python's choosing. *)
Listings(S) ==
  {order \in [1 .. Cardinality(S) -> S] : \A x \in S : \E i \in DOMAIN order : order[i] = x}

ElementsOf(s) == {s[i] : i \in DOMAIN s}

(* A stack is popped at its end. *)
TopOf(s) == s[Len(s)]
Popped(s) == SubSeq(s, 1, Len(s) - 1)

Least(S) == CHOOSE x \in S : \A y \in S : x <= y

(* S contains what every symbol of S leads to. *)
ClosedUnder(Step(_), S) == \A x \in S : Step(x) \subseteq S

(* S and what its members reference, directly or not: the least set that
   contains S and what refs gives for its members. *)
Following(S, refs) ==
  LET closed == {C \in SUBSET Symbols : S \subseteq C /\ \A q \in C : refs[q] \subseteq C}
  IN  {x \in Symbols : \A C \in closed : x \in C}

References(S) == Following(S, edges)

(* The symbols mutually recursive with q, q among them. *)
Cycle(q) == {p \in References({q}) : q \in References({p})}
=============================================================================
