------------------------------ MODULE CallGraph ------------------------------
(***************************************************************************)
(* Two readings of one program, and what each takes for dead code:         *)
(* analysis/call_graph.py resolves the names of calls by tables of its own *)
(* (find_dead_code, dependents), graph/resolver.py has Jedi bind them      *)
(* (build_graph, from which the pipeline plans).                           *)
(*                                                                         *)
(* A program is the set "uses" of the places where a name is used; tree-   *)
(* sitter and Jedi are taken to parse, and to bind, what they are given.   *)
(***************************************************************************)
EXTENDS Naturals, FiniteSets

CONSTANTS
  Defs,         \* functions, classes and assignments, numbered in file order
  Classes, Assignments,  \* those that are no functions
  Scripts,      \* places beside the definitions: module bodies ...
  Mains,        \* ... and the blocks under "if __name__ == '__main__'"
  HomeOf,       \* place -> its module
  NameOf,       \* definition -> its name, without the module
  AroundOf,     \* definition -> the definitions it stands in
  Private,      \* the definitions whose name starts with "_"
  Decorated,    \* the definitions under a decorator ...
  Registered,   \* ... that looks like one that registers them, as far as it is seen
  Listed,       \* the definitions that __all__ of their module names
  Spelled,      \* module -> the modules it imports from under the names of the scan
  TestModules   \* the modules that are test files

Places == Defs \cup Scripts \cup Mains
Modules == {HomeOf[p] : p \in Places}

ASSUME DefinitionsAssumption ==
  /\ Defs \subseteq Nat /\ IsFiniteSet(Defs)
  /\ Classes \cup Assignments \cup Private \cup Decorated \cup Listed \subseteq Defs
  /\ Registered \subseteq Decorated
  /\ DOMAIN HomeOf = Places
  /\ AroundOf \in [Defs -> SUBSET Defs]
  /\ Spelled \in [Modules -> SUBSET Modules]

(* Definitions are nested in functions and classes of their module; assignments
   are read at the top of a module only. *)
ASSUME NestingAssumption ==
  /\ \A d \in Defs, a \in Defs :
       a \in AroundOf[d] =>
         /\ a \notin Assignments /\ d \notin Assignments /\ HomeOf[a] = HomeOf[d]
         /\ a \notin AroundOf[a] /\ AroundOf[a] \subseteq AroundOf[d]
  /\ \A d \in Defs : \A a, b \in AroundOf[d] : a = b \/ a \in AroundOf[b] \/ b \in AroundOf[a]

(* A use of a definition in a place: called by its "name", called as an
   "attribute", called by another name it was imported "as", taken as a
   "value", or named in a "string" that getattr or a dispatch table looks up. *)
Uses == [at : Places, to : Defs, how : {"name", "attribute", "as", "value", "string"}]

Within(d) == {p \in Defs : p = d \/ d \in AroundOf[p]}
TopLevel == {d \in Defs : AroundOf[d] = {}}

(* What S leads to, by the edges of "next": the least set that contains both. *)
Closure(S, next) ==
  LET closed == {C \in {S \cup X : X \in SUBSET (Defs \ S)} : \A d \in C : next[d] \subseteq C}
  IN  {d \in Defs : \A C \in closed : d \in C}
-----------------------------------------------------------------------------
(* call_graph.py. *)

(* iter_symbols: a definition under a decorator is another node. *)
Symbols == TopLevel \ Decorated

(* Mutant: the calls of a method are not those of its class. *)
CallsInItself(d, uses) == {u \in uses : u.at = d /\ u.how \notin {"value", "string"}}

CallsIn(d, uses) == {u \in uses : u.at \in Within(d) /\ u.how \notin {"value", "string"}}

Bearers(name) == {d \in Symbols : NameOf[d] = name}

(* The uses of what a module has from another by an import of its name, at its
   top or in a function. *)
ByImport(m, uses) ==
  {u \in uses : HomeOf[u.at] = m /\ HomeOf[u.to] # m /\ u.how \in {"name", "as", "value"}}

(* Of two imports of one name in a module the table keeps the later one. *)
ImportsAreDistinct(uses) ==
  \A m \in Modules : \A u, v \in ByImport(m, uses) : NameOf[u.to] = NameOf[v.to] => u.to = v.to

(* The table of the imports holds "<module>.<name>" in the words of the
   statement, which is a node of the graph if the module is spelled out from the
   root of the scan: that of "from .b import x", or under the root of another
   source directory, is none. *)
Imported(m, uses) == {u.to : u \in {v \in ByImport(m, uses) : HomeOf[v.to] \in Spelled[m]}}

(* _resolve_name: in the module, in its imports, or the one symbol of the
   project that has this name. *)
Resolved(m, name, uses) ==
  LET own == {d \in Bearers(name) : HomeOf[d] = m}
      imported == Bearers(name) \cap Imported(m, uses)
  IN  CASE own # {} -> own
        [] own = {} /\ imported # {} -> imported
        [] own = {} /\ imported = {} /\ Cardinality(Bearers(name)) = 1 -> Bearers(name)
        [] OTHER -> {}

(* A call by another name is looked up under a name no definition has. *)
CallEdges(d, uses) ==
  UNION {Resolved(HomeOf[d], NameOf[u.to], uses) :
           u \in {v \in CallsIn(d, uses) : v.how # "as"}}

MainCalls(m, uses) ==
  {NameOf[u.to] : u \in {v \in uses : /\ v.at \in Mains /\ HomeOf[v.at] = m
                                      /\ v.how \in {"name", "attribute"}}}

CallGraphAnchors(uses) ==
  {d \in Symbols : \/ d \notin Private \/ d \in Listed
                   \/ NameOf[d] \in MainCalls(HomeOf[d], uses)
                   \/ HomeOf[d] \in TestModules}

CallSites(d, uses) == Cardinality({p \in Symbols : d \in CallEdges(p, uses)})

Reflected(uses) == {NameOf[u.to] : u \in {v \in uses : v.how = "string"}}

(* find_dead_code without its cache: the unreachable symbols by confidence. *)
DeadSymbols(uses) ==
  LET reachable == Closure(CallGraphAnchors(uses), [d \in Defs |-> CallEdges(d, uses)])
      confidence(d) == CASE NameOf[d] \in Reflected(uses) -> "low"
                         [] NameOf[d] \notin Reflected(uses) /\ CallSites(d, uses) = 0 /\ d \in Private -> "high"
                         [] OTHER -> "medium"
  IN  {[symbol |-> d, confidence |-> confidence(d)] : d \in Symbols \ reachable}

(* dependents_of: the modules with a call into this one. *)
DependentsOf(m, uses) ==
  {n \in Modules \ {m} :
     \E p \in Symbols : HomeOf[p] = n /\ \E d \in CallEdges(p, uses) : HomeOf[d] = m}
-----------------------------------------------------------------------------
(* resolver.py. *)

GraphSymbols == Defs \ Assignments

(* _enclosing_qualname: the innermost definition a reference stands in, none at
   module scope; _resolve_target: the symbol of the repository it is bound to. *)
Enclosing(u) == {u.at} \cap GraphSymbols
Target(u) == IF u.how = "string" THEN {} ELSE {u.to} \cap GraphSymbols

ReferenceEdges(d, uses) == UNION {Target(u) : u \in {v \in uses : d \in Enclosing(v)}}

GraphAnchors(uses) ==
  {d \in GraphSymbols : \/ d \in TopLevel \ Private
                        \/ d \in Listed \cup Registered
                        \/ NameOf[d] \in MainCalls(HomeOf[d], uses)
                        \/ HomeOf[d] \in TestModules}

(* What the pipeline would remove. *)
Removable(uses) ==
  (Private \cap GraphSymbols) \
    Closure(GraphAnchors(uses), [d \in Defs |-> ReferenceEdges(d, uses)])
-----------------------------------------------------------------------------
(* What a run of the program may use: all that is public or registered, what
   modules do when they are imported or run, their assignments among it, and
   whatever code in use, or a class in use, goes on to use. *)
InUse(uses) ==
  Closure((TopLevel \ Private) \cup Listed \cup Registered \cup {d \in Defs : HomeOf[d] \in TestModules}
            \cup {u.to : u \in {v \in uses : v.at \notin GraphSymbols}},
          [d \in Defs |-> AroundOf[d] \cup {u.to : u \in {v \in uses : v.at \in Within(d)}}])

Namesakes(d) == Bearers(NameOf[d]) \ {d}

(* A use of what was imported under a name the scan does not know. *)
Unspelled(u) == HomeOf[u.to] \notin Spelled[HomeOf[u.at]] \cup {HomeOf[u.at]}

(* The uses no edge of the call graph stands for. *)
Unseen(u) ==
  \/ u.how \in {"as", "value", "string"}
  \/ u.at \notin Defs
  \/ ({u.at} \cup AroundOf[u.at]) \cap Symbols = {}
  \/ \E d \in Namesakes(u.to) : u.how = "attribute" \/ Unspelled(u) \/ HomeOf[d] = HomeOf[u.at]

(* What runs without a reference in a definition the graph follows: what modules
   do, what a string names, and whatever stands in a class or a function, as
   "__init__" does, which no edge leads to. *)
RunUnseen(uses) ==
  {u.to : u \in {v \in uses : v.at \notin GraphSymbols \/ v.how = "string"}}
    \cup {d \in Defs : AroundOf[d] # {}}

(* What __all__ names or a decorator registers stands in no class or function: else
   the class would be in use with nothing that says so. *)
EntryPointsStandAlone == \A d \in Listed \cup Registered : AroundOf[d] = {}

(* Who uses a method or an inner function names the class or function around it,
   or stands in it. *)
ScopesAreNamed(uses) ==
  \A u \in uses : \A d \in AroundOf[u.to] :
    u.at \in Within(d) \/ \E v \in uses : v.at = u.at /\ v.to = d /\ (u.how = "string" => v.how = "string")
=============================================================================
