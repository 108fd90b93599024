------------------------------ MODULE Pipeline -------------------------------
(***************************************************************************)
(* pipeline/orchestrator.py: run_pipeline plans once (module Planner), then *)
(* works the list off, item by item: the deterministic engine makes an     *)
(* edit, the Checker (module Checker) commits it or takes it back.  Then   *)
(* _cascade_dead_code removes what is dead by then.                        *)
(*                                                                         *)
(* "edges" and EntryPoints stay the graph of the plan; "source", "present" *)
(* and "entries" are what build_graph finds in the tree as the edits       *)
(* change it.                                                              *)
(***************************************************************************)
EXTENDS Planner

CONSTANTS
  NameOf,       \* symbol -> its name, without the scopes it stands in
  ScopesOf,     \* symbol -> the symbols whose definitions contain its own
  Marked,       \* the symbols an "@" in the four lines above makes entry points
  Assigned,     \* the symbols whose name their module's body also assigns to
  Faults,       \* what may go wrong (see FaultKinds)
  MaxRounds,    \* max_rounds of the cascade
  MaxDropped    \* bound: how many references all cleanups remove

(* gate: the Checker rejects an edit that is right; dispatch: the engine raises
   or has no edit to make; raise: build_graph or the Checker raises, and with it
   run_pipeline, the edit in the tree or taken back. *)
FaultKinds == {"gate", "dispatch", "raise"}

ASSUME ScopesAssumption ==
  /\ DOMAIN NameOf = Symbols
  /\ ScopesOf \in [Symbols -> SUBSET Symbols]
  /\ \A q \in Symbols \ Modules : ModuleOf[q] \in ScopesOf[q]
  /\ Marked \subseteq Symbols \ Modules /\ Assigned \subseteq Symbols
ASSUME PipelineAssumption ==
  Faults \subseteq FaultKinds /\ MaxRounds \in Nat /\ MaxDropped \in Nat

VARIABLES
  stage,        \* "planning", "items", "cascade", "done", "raised"
  source,       \* symbol -> the symbols it references by now
  present,      \* the symbols that are still defined
  entries,      \* the entry points by now
  lost,         \* the plan's entry points that some edit has made none
  bound,        \* the members of Assigned whose assignment still stands
  next,         \* the next item of the worklist
  seen,         \* the symbols the cascade has tried, one per round
  dropped       \* how many references cleanups have removed

treeVars == <<source, present, entries, lost, bound, dropped>>
pipelineVars == <<stage, treeVars, next, seen>>
allVars == <<vars, pipelineVars>>

PipelineInit ==
  /\ Init
  /\ stage = "planning"
  /\ source = edges
  /\ present = Symbols
  /\ entries = EntryPoints /\ lost = {}
  /\ bound = Assigned
  /\ next = 1
  /\ seen = {}
  /\ dropped = 0

PlanStep == Next /\ UNCHANGED pipelineVars

BeginItems ==
  /\ stage = "planning" /\ Planned
  /\ stage' = "items"
  /\ UNCHANGED <<vars, treeVars, next, seen>>

(* What the tree's own graph says. *)
Users(S) == {p \in present \ S : source[p] \cap S # {}}

Alive == Following(entries, source)

(* Decorators are looked for in the text above a definition, its neighbour's
   among them: an edit of m's file moves any "@" in or out of sight. *)
Moved(m) ==
  LET marked == Marked \cap Functions(m) IN
  /\ \E S \in SUBSET (marked \cap present') : entries' = (entries \ marked) \cup S
  /\ lost' = lost \cup (EntryPoints \ entries')

(* remove_symbol_from_source is given the name of q and nothing else: it deletes
   the statements of the module's own body that define the name. *)
SameName(p, q) == ModuleOf[p] = ModuleOf[q] /\ NameOf[p] = NameOf[q]

Matching(q) == {p \in present : ScopesOf[p] = {ModuleOf[q]} /\ NameOf[p] = NameOf[q]}

(* They go with all that is defined in them. *)
Cut(q) == {p \in present : p \in Matching(q) \/ ScopesOf[p] \cap Matching(q) # {}}

(* The edit is committed: definitions are gone, and what their users say of the
   names resolves to nothing.  The gates do not find every such user: the type
   gate looks at the edited file only, and no test need cover them. *)
Remove(q) ==
  /\ q \in present /\ (Cut(q) # {} \/ q \in bound)
  /\ present' = present \ Cut(q)
  /\ source' = [p \in Symbols |-> IF p \in Cut(q) THEN {} ELSE source[p] \ Cut(q)]
  /\ bound' = {p \in bound : ~ SameName(p, q)}
  /\ Moved(ModuleOf[q])
  /\ UNCHANGED dropped

(* Nothing to remove, no edit, or a rejected one: for an undefined name, or for
   what used the assignment. *)
Keep(q) ==
  /\ q \notin present \/ Cut(q) = {} \/ Users(Cut(q)) # {} \/ q \in bound \/ Faults # {}
  /\ UNCHANGED treeVars

(* Nothing encloses the calls of an item or of a round. *)
StaysIn(s) == stage' = s \/ ("raise" \in Faults /\ stage' = "raised")

Item == worklist[next]

RemovalStep ==
  /\ stage = "items" /\ next <= Len(worklist)
  /\ Item.kind = "remove_dead_code"
  /\ Remove(Item.target) \/ Keep(Item.target)
  /\ next' = next + 1
  /\ StaysIn("items")
  /\ UNCHANGED <<vars, seen>>

(* A cleanup formats, and may drop an unused variable: with it a reference to p
   and to what is defined in p. *)
CleanupStep ==
  /\ stage = "items" /\ next <= Len(worklist)
  /\ Item.kind = "cleanup"
  /\ \/ UNCHANGED <<source, dropped>>
     \/ /\ dropped < MaxDropped
        /\ \E q \in Functions(Item.target) \cap present : \E p \in source[q] :
             source' = [source EXCEPT ![q] = {r \in @ : r # p /\ p \notin ScopesOf[r]}]
        /\ dropped' = dropped + 1
  /\ UNCHANGED <<present, bound>>
  /\ Moved(Item.target)
  /\ next' = next + 1
  /\ StaysIn("items")
  /\ UNCHANGED <<vars, seen>>

ItemsDone ==
  /\ stage = "items" /\ next > Len(worklist)
  /\ stage' = "cascade"
  /\ UNCHANGED <<vars, treeVars, next, seen>>

(* Mutant: a round looks at the entry points, and not at what they reach. *)
OrphansOfEntryPoints == (Private \cap present) \ (entries \cup seen)

(* What is dead in the tree by now and was not tried. *)
Orphans == (Private \cap present) \ (Alive \cup seen)

CascadeRound ==
  /\ stage = "cascade"
  /\ Cardinality(seen) < MaxRounds
  /\ \E q \in Orphans :
       /\ q = Least(Orphans)
       /\ seen' = seen \cup {q}
       /\ Remove(q) \/ Keep(q)
  /\ StaysIn("cascade")
  /\ UNCHANGED <<vars, next>>

CascadeDone ==
  /\ stage = "cascade"
  /\ Orphans = {} \/ Cardinality(seen) = MaxRounds
  /\ stage' = "done"
  /\ UNCHANGED <<vars, treeVars, next, seen>>

PipelineNext ==
  PlanStep \/ BeginItems \/ RemovalStep \/ CleanupStep \/ ItemsDone \/ CascadeRound \/ CascadeDone

PipelineSpec == PipelineInit /\ [][PipelineNext]_allVars
(* run_pipeline is one loop, and the calls it makes end. *)
FairPipelineSpec == PipelineSpec /\ WF_allVars(PipelineNext)
-----------------------------------------------------------------------------
(***************************************************************************)
(* Properties.                                                             *)
(***************************************************************************)

(* A name stands for one definition of the body of a module. *)
NamesAreDistinct ==
  \A p, q \in Symbols : ScopesOf[p] = {ModuleOf[q]} /\ NameOf[p] = NameOf[q] => p = q

ScopesNest == \A p \in Symbols : \A s \in ScopesOf[p] : ScopesOf[s] \subseteq ScopesOf[p]

(* Whoever uses what is defined in a class or a function names that, or stands
   in it. *)
Named(refs) ==
  \A p \in Symbols : \A q \in refs[p] :
    ScopesOf[q] \ Modules \subseteq refs[p] \cup {p} \cup ScopesOf[p]

ScopesAreNamed == \A g \in Graphs : Named(g)

(* What an entry point is defined in is one, and not for an "@" above it. *)
EntryPointsStandAlone ==
  \A q \in EntryPoints \cup Marked : ScopesOf[q] \ Modules \subseteq EntryPoints \ Marked

(* The entry points of the graph that decides what is removed. *)
Anchors == IF stage = "items" THEN EntryPoints ELSE entries

(* "Dead code is removed only when reachability proves it dead" (README.md:19):
   no step takes out a definition that something reachable from an entry point
   still uses, although the plan's reachability is older than the tree.  The
   entry points are the plan's while its items are worked off, and the tree's
   own in the cascade.  It holds on the four conditions above; MCNamesake has
   two definitions of one name, one of them a method, and the live one goes. *)
RemovedAreDead == [][(present \ present') \cap Following(Anchors, source) = {}]_allVars

(* The impact an item carries from the plan selects its tests after every edit
   in between: it still covers whatever depends on the code the item edits, a
   removal all that goes with its target. *)
ImpactStaysCovering ==
  stage = "items" =>
    LET follows == [p \in present |-> Following({p}, source)] IN
    \A i \in next .. Len(worklist) :
      LET item == worklist[i]
          edited == IF item.kind = "cleanup" THEN Functions(item.target)
                    ELSE {item.target} \cup Cut(item.target)
      IN  \A p \in present : follows[p] \cap edited # {} => p \in item.impact \cup edited

(* Removing what is dead makes nothing else dead: unless a cleanup has dropped
   a reference, or the "@" of an entry point was moved out of sight, the cascade
   tries only what the plan has failed to remove, not the helpers a removal "can
   orphan" (orchestrator.py:97). *)
CascadeOnlyRetries ==
  dropped = 0 /\ lost = {} => seen \subseteq {worklist[i].target : i \in Removals}

(* The pipeline returns, or raises. *)
PipelineReturns == <>(stage \in {"done", "raised"})
=============================================================================
