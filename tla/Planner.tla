------------------------------ MODULE Planner ------------------------------
(***************************************************************************)
(* pipeline/planner.py: deterministic_plan orders the symbols, finds those *)
(* no entry point reaches, computes the impact of every symbol it needs,   *)
(* and makes the worklist of it.                                           *)
(***************************************************************************)
EXTENDS TopoOrder, ReachableFrom, ImpactOf

CONSTANTS
  Modules,      \* the symbols of kind "module"
  ModuleOf,     \* symbol -> the module whose file defines it
  Private       \* the symbols whose name starts with "_"

ASSUME ModulesAssumption ==
  /\ Modules \subseteq Symbols /\ Private \subseteq Symbols \ Modules
  /\ ModuleOf \in [Symbols -> Modules]
  /\ \A m \in Modules : ModuleOf[m] = m

VARIABLES
  phase,        \* "order", "reach", "impact", "planned"
  impacts,      \* symbol -> impact_of(symbol), as far as it is computed
  worklist      \* the items, by order_index

vars == <<edges, tarjanVars, reachVars, impactVars, phase, impacts, worklist>>

Init ==
  /\ edges \in Graphs
  /\ StartTopo
  /\ ReachInit
  /\ ImpactInit
  /\ target = Least(Symbols)
  /\ phase = "order"
  /\ impacts = <<>>
  /\ worklist = <<>>

OrderStep ==
  /\ phase = "order"
  /\ TopoStep
  /\ UNCHANGED <<edges, reachVars, impactVars, phase, impacts, worklist>>

OrderDone ==
  /\ phase = "order" /\ Ordered
  /\ phase' = "reach"
  /\ UNCHANGED <<edges, tarjanVars, reachVars, impactVars, impacts, worklist>>

ReachStep ==
  /\ phase = "reach"
  /\ VisitReach
  /\ UNCHANGED <<edges, tarjanVars, impactVars, phase, impacts, worklist>>

Dead == Private \ reach

(* The plan asks for the impact of every symbol but the modules. *)
Assess(found) ==
  LET left == (Symbols \ Modules) \ DOMAIN found
  IN  IF left = {} THEN phase' = "plan" /\ UNCHANGED impactVars
      ELSE phase' = "impact" /\ StartImpact(Least(left))

ReachDone ==
  /\ phase = "reach" /\ ReachFound
  /\ Assess(impacts)
  /\ UNCHANGED <<edges, tarjanVars, reachVars, impacts, worklist>>

ImpactStep ==
  /\ phase = "impact"
  /\ VisitImpact
  /\ UNCHANGED <<edges, tarjanVars, reachVars, phase, impacts, worklist>>

ImpactDone ==
  /\ phase = "impact" /\ ImpactFound
  /\ impacts' = [q \in DOMAIN impacts \cup {target} |->
                  IF q = target THEN impact ELSE impacts[q]]
  /\ Assess(impacts')
  /\ UNCHANGED <<edges, tarjanVars, reachVars, worklist>>

(* Mutant: dead symbols are removed in the order of the refactoring. *)
RemovedEarlierLeafFirst(pos, p, q) == pos[p] < pos[q]

(* Dead symbols are removed callers first, against the order. *)
RemovedEarlier(pos, p, q) == pos[p] > pos[q]

InOrder(S, Before(_, _)) ==
  CHOOSE s \in Listings(S) : \A i, j \in DOMAIN s : i < j => Before(s[i], s[j])

RemovalItem(q) == [kind |-> "remove_dead_code", target |-> q, impact |-> impacts[q]]

Functions(m) == {q \in Symbols \ Modules : ModuleOf[q] = m}

(* Mutant: the impact of the module's own symbol, which nothing references. *)
ModuleImpactAlone(m) == Dependents(m)

ModuleImpact(m) == UNION {impacts[q] : q \in Functions(m)}

CleanupItem(m) == [kind |-> "cleanup", target |-> m, impact |-> ModuleImpact(m)]

Plan ==
  /\ phase = "plan"
  /\ LET pos == [q \in Symbols |-> Position(q)]
         removals == InOrder(Dead, LAMBDA p, q : RemovedEarlier(pos, p, q))
         cleanups == InOrder(Modules, LAMBDA p, q : pos[p] < pos[q])
     IN  worklist' = [i \in DOMAIN removals |-> RemovalItem(removals[i])]
                       \o [i \in DOMAIN cleanups |-> CleanupItem(cleanups[i])]
  /\ phase' = "planned"
  /\ UNCHANGED <<edges, tarjanVars, reachVars, impactVars, impacts>>

Next == OrderStep \/ OrderDone \/ ReachStep \/ ReachDone \/ ImpactStep \/ ImpactDone \/ Plan

Spec == Init /\ [][Next]_vars
-----------------------------------------------------------------------------
(***************************************************************************)
(* Properties.                                                             *)
(***************************************************************************)
Planned == phase = "planned"

Removals == {i \in DOMAIN worklist : worklist[i].kind = "remove_dead_code"}

(* "Removal goes ROOT-to-LEAF (caller before callee)" (planner.py:64): when the
   plan reaches a dead symbol, every symbol it removes that references it is gone
   already, unless the two are mutually recursive. *)
CallersGoFirst ==
  Planned => \A i \in Removals : \A p \in Dependents(worklist[i].target) \cap Dead :
    \/ p \in Cycle(worklist[i].target)
    \/ \E j \in Removals : j < i /\ worklist[j].target = p
=============================================================================
