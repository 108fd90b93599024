----------------------------- MODULE TopoOrder -----------------------------
(***************************************************************************)
(* graph/order.py: topo_order(graph) by Tarjan's algorithm, the recursion  *)
(* turned into a work stack whose entries are a symbol and what is left of *)
(* its iterator.  Names are visited in their sorted order.                 *)
(***************************************************************************)
EXTENDS SymbolGraph

VARIABLES
  work,         \* the symbols in progress, each with the references to look at
  counter,      \* index_counter
  indices,      \* symbol -> its index, Unvisited before it has one
  lowlink,
  stack,        \* stack; on_stack holds its elements
  result        \* the components, as sequences

tarjanVars == <<work, counter, indices, lowlink, stack, result>>

Unvisited == Cardinality(Symbols)  \* no index is that high
OnStack == ElementsOf(stack)
Visited == {q \in Symbols : indices[q] # Unvisited}

StartTopo ==
  /\ work = <<>> /\ counter = 0 /\ stack = <<>> /\ result = <<>>
  /\ indices = [q \in Symbols |-> Unvisited]
  /\ lowlink = [q \in Symbols |-> Unvisited]

(* v gets an index and goes on both stacks. *)
Discover(v, below) ==
  /\ indices' = [indices EXCEPT ![v] = counter]
  /\ lowlink' = [lowlink EXCEPT ![v] = counter]
  /\ counter' = counter + 1
  /\ stack' = Append(stack, v)
  /\ work' = Append(below, [node |-> v, left |-> Outgoing(v)])
  /\ UNCHANGED result

Unconnected == Symbols \ Visited

(* The outer loop: strongconnect the next symbol. *)
Connect ==
  /\ work = <<>>
  /\ Unconnected # {}
  /\ Discover(Least(Unconnected), work)

Top == TopOf(work)

(* lowlink[node] after a look at w, which has an index. *)
Lowered(v, w) ==
  IF w \in OnStack /\ indices[w] < lowlink[v] THEN indices[w] ELSE lowlink[v]

(* Mutant: the references are listed again when the symbol is resumed. *)
ResumedAnew(left, w) == left

(* What the iterator of a symbol still has to give, after w. *)
Resumed(left, w) == left \ {w}

(* The inner loop: the next reference of the symbol on top. *)
LookAt ==
  /\ work # <<>>
  /\ Top.left # {}
  /\ LET w == Least(Top.left)
         below == [work EXCEPT ![Len(work)].left = Resumed(@, w)]
     IN  IF w \notin Visited
         THEN Discover(w, below)
         ELSE /\ work' = below
              /\ lowlink' = [lowlink EXCEPT ![Top.node] = Lowered(Top.node, w)]
              /\ UNCHANGED <<counter, indices, stack, result>>

(* Mutant: what the symbol on top has found is not handed to its parent. *)
HandedKept(v, rest) == lowlink

(* The parent takes over the link of the symbol that is done. *)
Handed(v, rest) ==
  IF rest = <<>> THEN lowlink
  ELSE [lowlink EXCEPT ![TopOf(rest).node] = IF lowlink[v] < @ THEN lowlink[v] ELSE @]

(* The stack from v up is popped into a component. *)
Component(v) ==
  LET from == CHOOSE i \in DOMAIN stack : stack[i] = v
      n == Len(stack) - from + 1
  IN  [i \in 1 .. n |-> stack[Len(stack) - i + 1]]

Leave ==
  /\ work # <<>>
  /\ Top.left = {}
  /\ LET v == Top.node
         n == Len(Component(v))
     IN  /\ work' = Popped(work)
         /\ IF lowlink[v] = indices[v]
            THEN /\ stack' = SubSeq(stack, 1, Len(stack) - n)
                 /\ result' = Append(result, Component(v))
            ELSE UNCHANGED <<stack, result>>
         /\ lowlink' = Handed(v, Popped(work))
  /\ UNCHANGED <<counter, indices>>

TopoStep == Connect \/ LookAt \/ Leave

TopoSpec ==
  edges \in Graphs /\ StartTopo /\ [][TopoStep /\ UNCHANGED edges]_<<edges, tarjanVars>>

Ordered == work = <<>> /\ Visited = Symbols

(* The position of a symbol in the order: the components one after the other,
   each sorted. *)
Position(q) ==
  LET place(p) == CHOOSE i \in DOMAIN result : p \in ElementsOf(result[i])
  IN  Cardinality({p \in Symbols : place(p) < place(q) \/ (place(p) = place(q) /\ p < q)})
-----------------------------------------------------------------------------
(* Refinement: topo_order emits mutually recursive symbols as one unit, and
   every unit after all it references (order.py:18-23). *)
Promise == INSTANCE LeafFirst WITH emitted <- [i \in DOMAIN result |-> ElementsOf(result[i])]

ImplementsLeafToRoot == Promise!LeafToRoot
=============================================================================
