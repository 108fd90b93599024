-------------------------- MODULE TraversalProofs --------------------------
(***************************************************************************)
(* The traversals the planner relies on return what they promise, for      *)
(* every finite graph and whatever order sets are listed in: impact_of and *)
(* reachable_from a closure, topo_order the cycles, leaf first.  The two   *)
(* closures agree: nothing alive is affected by an edit of dead code.      *)
(***************************************************************************)
EXTENDS ImpactOf, ReachableFrom, TopoOrder, FiniteSetTheorems, WellFoundedInduction, TLAPS

USE GraphAssumption, EntryPointsAssumption

(* A listing holds exactly the members of the set. *)
LEMMA ListingElements ==
  ASSUME NEW T, T \subseteq Symbols, NEW order \in Listings(T)
  PROVE  /\ order \in Seq(Symbols)
         /\ ElementsOf(order) = T
<1>1. IsFiniteSet(T)
  BY FS_Subset
<1>2. Cardinality(T) \in Nat
  BY <1>1, FS_CardinalityType
<1> DEFINE n == Cardinality(T)
<1>a. /\ order \in [1 .. n -> T]
      /\ \A x \in T : \E i \in DOMAIN order : order[i] = x
  BY DEF Listings
<1> HIDE DEF n
<1>3. order \in Seq(Symbols)
  <2>1. n \in Nat /\ order \in [1 .. n -> Symbols]
    BY <1>a, <1>2 DEF n
  <2>2. QED
    BY <2>1
<1>4. ElementsOf(order) = T
  <2>1. DOMAIN order = 1 .. n /\ \A i \in 1 .. n : order[i] \in T
    BY <1>a
  <2>2. ASSUME NEW x \in ElementsOf(order) PROVE x \in T
    BY <2>1 DEF ElementsOf
  <2>3. ASSUME NEW x \in T PROVE x \in ElementsOf(order)
    BY <1>a DEF ElementsOf
  <2>4. QED
    BY <2>2, <2>3
<1>5. QED
  BY <1>3, <1>4

(* Popping a stack and pushing a listing. *)
LEMMA PopAndPush ==
  ASSUME NEW s \in Seq(Symbols), s # <<>>, NEW T, T \subseteq Symbols,
         NEW order \in Listings(T)
  PROVE  /\ TopOf(s) \in Symbols /\ TopOf(s) \in ElementsOf(s)
         /\ Popped(s) \o order \in Seq(Symbols)
         /\ ElementsOf(Popped(s) \o order) \subseteq ElementsOf(s) \cup T
         /\ T \subseteq ElementsOf(Popped(s) \o order)
         /\ \A x \in ElementsOf(s) : x = TopOf(s) \/ x \in ElementsOf(Popped(s) \o order)
<1> DEFINE n == Len(s)
           p == Popped(s)
<1>1. /\ n \in Nat /\ n > 0 /\ DOMAIN s = 1 .. n
      /\ \A i \in 1 .. n : s[i] \in Symbols
  OBVIOUS
<1>2. /\ p \in Seq(Symbols) /\ Len(p) = n - 1
      /\ \A i \in 1 .. n - 1 : p[i] = s[i]
  BY <1>1 DEF Popped
<1>3. order \in Seq(Symbols) /\ ElementsOf(order) = T
  BY ListingElements
<1> DEFINE m == Len(order)
<1> HIDE DEF p
<1>4. /\ p \o order \in Seq(Symbols) /\ m \in Nat
      /\ DOMAIN (p \o order) = 1 .. n - 1 + m
      /\ \A i \in 1 .. n - 1 : (p \o order)[i] = p[i]
      /\ \A i \in 1 .. m : (p \o order)[n - 1 + i] = order[i]
      /\ DOMAIN order = 1 .. m
  BY <1>1, <1>2, <1>3
<1> HIDE DEF n, m
<1>5. TopOf(s) \in Symbols /\ TopOf(s) \in ElementsOf(s)
  BY <1>1 DEF TopOf, ElementsOf, n
<1>6. ASSUME NEW x \in ElementsOf(p \o order) PROVE x \in ElementsOf(s) \cup T
  <2>1. PICK i \in 1 .. n - 1 + m : x = (p \o order)[i]
    BY <1>4 DEF ElementsOf
  <2>2. CASE i \in 1 .. n - 1
    <3>1. i \in 1 .. n /\ x = s[i]
      BY <2>1, <2>2, <1>1, <1>2, <1>4
    <3>2. QED
      BY <3>1, <1>1 DEF ElementsOf, n
  <2>3. CASE i \notin 1 .. n - 1
    <3>1. i - (n - 1) \in 1 .. m /\ i = n - 1 + (i - (n - 1))
      BY <2>3, <1>1, <1>4
    <3>2. x = order[i - (n - 1)]
      BY <3>1, <2>1, <1>4
    <3>3. QED
      BY <3>1, <3>2, <1>3, <1>4 DEF ElementsOf
  <2>4. QED
    BY <2>2, <2>3
<1>7. ASSUME NEW x \in T PROVE x \in ElementsOf(p \o order)
  <2>1. PICK i \in 1 .. m : x = order[i]
    BY <1>3, <1>4 DEF ElementsOf
  <2>2. n - 1 + i \in 1 .. n - 1 + m /\ x = (p \o order)[n - 1 + i]
    BY <2>1, <1>1, <1>4
  <2>3. QED
    BY <2>2, <1>4 DEF ElementsOf
<1>8. ASSUME NEW x \in ElementsOf(s), x # TopOf(s) PROVE x \in ElementsOf(p \o order)
  <2>1. PICK i \in 1 .. n : x = s[i]
    BY <1>1 DEF ElementsOf
  <2>2. i \in 1 .. n - 1
    BY <2>1, <1>8, <1>1 DEF TopOf, n
  <2>3. i \in 1 .. n - 1 + m /\ x = (p \o order)[i]
    BY <2>1, <2>2, <1>1, <1>2, <1>4
  <2>4. QED
    BY <2>3, <1>4 DEF ElementsOf
<1>9. QED
  BY <1>4, <1>5, <1>6, <1>7, <1>8 DEF p
-----------------------------------------------------------------------------
(* Everything found is known to depend on the target; what depends on a symbol
   found is found, or the symbol is still on the stack. *)
ImpactInv ==
  /\ edges \in Graphs
  /\ target \in Symbols
  /\ pending \in Seq(Symbols)
  /\ impact \subseteq Symbols
  /\ ElementsOf(pending) \subseteq impact \cup {target}
  /\ \A x \in impact \cup {target} : x \in ElementsOf(pending) \/ Dependents(x) \subseteq impact
  /\ \A C \in SUBSET Symbols :
       Dependents(target) \subseteq C /\ ClosedUnder(Dependents, C) => impact \subseteq C

LEMMA ImpactInit_Inv == edges \in Graphs /\ ImpactInit => ImpactInv
<1> SUFFICES ASSUME edges \in Graphs, ImpactInit PROVE ImpactInv
  OBVIOUS
<1>1. ElementsOf(<<target>>) = {target}
  BY DEF ElementsOf
<1>2. pending = <<target>> /\ impact = {} /\ target \in Symbols
  BY DEF ImpactInit
<1>3. pending \in Seq(Symbols)
  BY <1>2
<1>4. QED
  BY <1>1, <1>2, <1>3 DEF ImpactInv

LEMMA VisitImpact_Inv == ImpactInv /\ VisitImpact /\ UNCHANGED edges => ImpactInv'
<1> SUFFICES ASSUME ImpactInv, VisitImpact, UNCHANGED edges PROVE ImpactInv'
  OBVIOUS
<1> DEFINE cur == TopOf(pending)
           new == NewDependents(cur)
<1>1. /\ pending \in Seq(Symbols) /\ pending # <<>>
      /\ impact \subseteq Symbols /\ target \in Symbols /\ edges \in Graphs
  BY DEF ImpactInv, VisitImpact
<1>2. new = Dependents(cur) \ impact /\ new \subseteq Symbols
  BY DEF NewDependents, Dependents
<1>3. PICK order \in Listings(new) : pending' = Popped(pending) \o order
  BY DEF VisitImpact
<1>4. impact' = impact \cup new /\ target' = target
  BY DEF VisitImpact
<1>5. /\ cur \in ElementsOf(pending) /\ pending' \in Seq(Symbols)
      /\ ElementsOf(pending') \subseteq ElementsOf(pending) \cup new
      /\ new \subseteq ElementsOf(pending')
      /\ \A x \in ElementsOf(pending) : x = cur \/ x \in ElementsOf(pending')
  BY <1>1, <1>2, <1>3, PopAndPush
<1>6. \A x : Dependents(x)' = Dependents(x)
  BY DEF Dependents
<1> HIDE DEF cur, new
<1>7. ElementsOf(pending') \subseteq impact' \cup {target'}
  BY <1>4, <1>5 DEF ImpactInv
<1>8. ASSUME NEW x \in impact' \cup {target'}
      PROVE  x \in ElementsOf(pending') \/ Dependents(x) \subseteq impact'
  <2>1. CASE x \in new
    BY <2>1, <1>5
  <2>2. CASE x = cur
    BY <2>2, <1>2, <1>4
  <2>3. CASE x \in impact \cup {target} /\ x # cur
    BY <2>3, <1>4, <1>5 DEF ImpactInv
  <2>4. QED
    BY <1>4, <1>8, <2>1, <2>2, <2>3
<1>9. ASSUME NEW C \in SUBSET Symbols, Dependents(target) \subseteq C, ClosedUnder(Dependents, C)
      PROVE  impact' \subseteq C
  <2>1. impact \subseteq C
    BY <1>9 DEF ImpactInv
  <2>2. cur \in impact \/ cur = target
    BY <1>5 DEF ImpactInv
  <2>3. Dependents(cur) \subseteq C
    BY <1>9, <2>1, <2>2 DEF ClosedUnder
  <2>4. QED
    BY <1>2, <1>4, <2>1, <2>3
<1>10. impact' \subseteq Symbols
  BY <1>1, <1>2, <1>4
<1>11. \A C \in SUBSET Symbols :
         Dependents(target)' \subseteq C /\ ClosedUnder(Dependents, C)' => impact' \subseteq C
  BY <1>4, <1>6, <1>9 DEF ClosedUnder
<1>12. QED
  BY <1>1, <1>4, <1>5, <1>6, <1>7, <1>8, <1>10, <1>11 DEF ImpactInv

(* impact_of returns exactly the symbols that depend on its argument, directly
   or not, in every graph. *)
THEOREM ImpactCorrect == ImpactSpec => []ImpactIsClosure
<1>1. ImpactInv /\ UNCHANGED <<edges, impactVars>> => ImpactInv'
  BY DEF ImpactInv, impactVars, ClosedUnder, Dependents, ElementsOf
<1>2. ImpactInv => ImpactIsClosure
  <2> SUFFICES ASSUME ImpactInv, pending = <<>> PROVE ImpactIsClosure
    BY DEF ImpactIsClosure, ImpactFound
  <2>1. ElementsOf(pending) = {}
    BY DEF ElementsOf
  <2>2. \A x \in impact \cup {target} : Dependents(x) \subseteq impact
    BY <2>1 DEF ImpactInv
  <2>3. QED
    BY <2>2 DEF ImpactInv, ImpactIsClosure, ClosedUnder
<1>3. QED
  BY <1>1, <1>2, ImpactInit_Inv, VisitImpact_Inv, PTL DEF ImpactSpec
-----------------------------------------------------------------------------
(* What has been followed is reachable, and what it references is reachable
   too or still on the stack. *)
ReachInv ==
  /\ edges \in Graphs
  /\ frontier \in Seq(Symbols)
  /\ reach \subseteq Symbols
  /\ EntryPoints \subseteq reach \cup ElementsOf(frontier)
  /\ \A x \in reach : Outgoing(x) \subseteq reach \cup ElementsOf(frontier)
  /\ \A C \in SUBSET Symbols :
       EntryPoints \subseteq C /\ ClosedUnder(Outgoing, C)
         => reach \cup ElementsOf(frontier) \subseteq C

LEMMA ReachInit_Inv == edges \in Graphs /\ ReachInit => ReachInv
BY ListingElements DEF ReachInit, ReachInv

LEMMA VisitReach_Inv == ReachInv /\ VisitReach /\ UNCHANGED edges => ReachInv'
<1> SUFFICES ASSUME ReachInv, VisitReach, UNCHANGED edges PROVE ReachInv'
  OBVIOUS
<1> DEFINE cur == TopOf(frontier)
           new == IF cur \in reach THEN {} ELSE NewReferences(cur)
<1>1. /\ frontier \in Seq(Symbols) /\ frontier # <<>>
      /\ reach \subseteq Symbols /\ edges \in Graphs
      /\ edges \in [Symbols -> SUBSET Symbols]
  BY DEF ReachInv, VisitReach
<1>2. cur \in Symbols /\ cur \in ElementsOf(frontier)
  <2>1. <<>> \in Listings({})
    BY FS_EmptySet DEF Listings
  <2>2. QED
    BY <1>1, <2>1, PopAndPush
<1>3. new \subseteq Symbols /\ (cur \notin reach => new = Outgoing(cur) \ reach)
  BY <1>1, <1>2 DEF NewReferences, Outgoing
<1>4. /\ frontier' \in Seq(Symbols)
      /\ ElementsOf(frontier') \subseteq ElementsOf(frontier) \cup new
      /\ new \subseteq ElementsOf(frontier')
      /\ \A x \in ElementsOf(frontier) : x = cur \/ x \in ElementsOf(frontier')
  <2>1. CASE cur \in reach
    <3>1. <<>> \in Listings({})
      BY FS_EmptySet DEF Listings
    <3>2. frontier' = Popped(frontier) /\ new = {}
      BY <2>1 DEF VisitReach
    <3>3. Popped(frontier) \o <<>> = Popped(frontier)
      BY <1>1 DEF Popped
    <3>4. QED
      BY <1>1, <3>1, <3>2, <3>3, PopAndPush
  <2>2. CASE cur \notin reach
    <3>1. PICK order \in Listings(new) : frontier' = Popped(frontier) \o order
      BY <2>2 DEF VisitReach
    <3>2. QED
      BY <1>1, <1>3, <3>1, PopAndPush
  <2>3. QED
    BY <2>1, <2>2
<1>5. reach' = reach \cup {cur}
  BY DEF VisitReach
<1> HIDE DEF new, cur
<1>6. EntryPoints \subseteq reach' \cup ElementsOf(frontier')
  BY <1>4, <1>5 DEF ReachInv
<1>7. ASSUME NEW x \in reach' PROVE Outgoing(x)' \subseteq reach' \cup ElementsOf(frontier')
  <2>1. Outgoing(x)' = Outgoing(x)
    BY DEF Outgoing
  <2>2. CASE x \in reach
    BY <2>1, <2>2, <1>4, <1>5 DEF ReachInv
  <2>3. CASE x \notin reach
    BY <2>1, <2>3, <1>3, <1>4, <1>5, <1>7
  <2>4. QED
    BY <2>2, <2>3
<1>8. ASSUME NEW C \in SUBSET Symbols, EntryPoints \subseteq C, ClosedUnder(Outgoing, C)
      PROVE  reach' \cup ElementsOf(frontier') \subseteq C
  <2>1. reach \cup ElementsOf(frontier) \subseteq C
    BY <1>8 DEF ReachInv
  <2>2. cur \in C
    BY <2>1, <1>2
  <2>3. new \subseteq C
    BY <1>8, <2>2, <1>3 DEF ClosedUnder, new
  <2>4. QED
    BY <2>1, <2>2, <2>3, <1>4, <1>5
<1>9. \A C \in SUBSET Symbols :
        EntryPoints \subseteq C /\ ClosedUnder(Outgoing, C)'
          => reach' \cup ElementsOf(frontier') \subseteq C
  BY <1>8 DEF ClosedUnder, Outgoing
<1>10. reach' \subseteq Symbols
  BY <1>1, <1>2, <1>5
<1>11. QED
  BY <1>1, <1>4, <1>6, <1>7, <1>9, <1>10 DEF ReachInv

(* reachable_from returns exactly the symbols the entry points lead to, in
   every graph. *)
THEOREM ReachCorrect == ReachSpec => []ReachIsClosure
<1>1. ReachInv /\ UNCHANGED <<edges, reachVars>> => ReachInv'
  BY DEF ReachInv, reachVars, ClosedUnder, Outgoing, ElementsOf
<1>2. ReachInv => ReachIsClosure
  <2> SUFFICES ASSUME ReachInv, frontier = <<>> PROVE ReachIsClosure
    BY DEF ReachIsClosure, ReachFound
  <2>1. ElementsOf(frontier) = {}
    BY DEF ElementsOf
  <2>2. QED
    BY <2>1 DEF ReachInv, ReachIsClosure, ClosedUnder
<1>3. QED
  BY <1>1, <1>2, ReachInit_Inv, VisitReach_Inv, PTL DEF ReachSpec

(* The forward and the backward traversal agree: when the target of impact_of
   is dead code, so is all of its impact, and its removal touches nothing an
   entry point reaches. *)
THEOREM ImpactOfDeadIsDead ==
  ASSUME edges \in Graphs, ImpactFound, ImpactIsClosure, ReachFound, ReachIsClosure,
         target \in Symbols, target \notin reach, impact \subseteq Symbols
  PROVE  impact \cap reach = {}
<1> DEFINE C == Symbols \ reach
<1>1. ASSUME NEW x \in C PROVE Dependents(x) \subseteq C
  BY <1>1 DEF ReachIsClosure, ClosedUnder, Outgoing, Dependents
<1>2. Dependents(target) \subseteq C
  BY <1>1
<1>3. ClosedUnder(Dependents, C)
  BY <1>1 DEF ClosedUnder
<1>4. impact \subseteq C
  BY <1>2, <1>3 DEF ImpactIsClosure
<1>5. QED
  BY <1>4
-----------------------------------------------------------------------------
(* A set of numbers that is not empty has its Least. *)
LEMMA LeastIsMember ==
  ASSUME NEW S \in SUBSET Nat, S # {}
  PROVE  Least(S) \in S /\ \A y \in S : Least(S) <= y
<1>1. IsWellFoundedOn(OpToRel(<, Nat), Nat)
  BY NatLessThanWellFounded
<1>2. PICK x \in S : \A y \in S : ~ (<<y, x>> \in OpToRel(<, Nat))
  BY <1>1, WFMin
<1>3. \A y \in S : ~ (y < x)
  BY <1>2 DEF OpToRel
<1>4. \A y \in S : x <= y
  BY <1>3
<1>5. QED
  BY <1>4 DEF Least

(* Following is the least set with its property. *)
LEMMA FollowingLeast ==
  ASSUME NEW S, S \subseteq Symbols, NEW refs \in [Symbols -> SUBSET Symbols]
  PROVE  /\ S \subseteq Following(S, refs) /\ Following(S, refs) \subseteq Symbols
         /\ \A x \in Following(S, refs) : refs[x] \subseteq Following(S, refs)
         /\ \A C \in SUBSET Symbols :
              S \subseteq C /\ (\A x \in C : refs[x] \subseteq C) => Following(S, refs) \subseteq C
BY DEF Following

(* p references q, directly or not; each symbol leads to itself. *)
Leads(p, q) == q \in References({p})

(* Leading to one another is reflexive and transitive, and what leads
   somewhere stays within every closed set it starts in. *)
LEMMA LeadsFacts ==
  ASSUME edges \in Graphs
  PROVE  /\ \A p \in Symbols : Leads(p, p)
         /\ \A p, q, r \in Symbols : Leads(p, q) /\ Leads(q, r) => Leads(p, r)
         /\ \A p, q \in Symbols : \A r \in Outgoing(q) : Leads(p, q) => r \in Symbols /\ Leads(p, r)
         /\ \A p, q : p \in Symbols /\ Leads(p, q) => q \in Symbols
         /\ \A C \in SUBSET Symbols : ClosedUnder(Outgoing, C) =>
              \A p \in C : \A q : Leads(p, q) => q \in C
<1>1. edges \in [Symbols -> SUBSET Symbols]
  OBVIOUS
<1>2. ASSUME NEW p \in Symbols
      PROVE /\ p \in References({p}) /\ References({p}) \subseteq Symbols
            /\ \A x \in References({p}) : edges[x] \subseteq References({p})
            /\ \A C \in SUBSET Symbols :
                 p \in C /\ (\A x \in C : edges[x] \subseteq C) => References({p}) \subseteq C
  <2> DEFINE S == {p}
             F == Following(S, edges)
  <2>1. S \subseteq Symbols /\ p \in S /\ \A C : p \in C => S \subseteq C
    OBVIOUS
  <2>2. References({p}) = F
    BY DEF References
  <2> HIDE DEF S
  <2>3. /\ S \subseteq F /\ F \subseteq Symbols
        /\ \A x \in F : edges[x] \subseteq F
        /\ \A C \in SUBSET Symbols : S \subseteq C /\ (\A x \in C : edges[x] \subseteq C) => F \subseteq C
    BY <1>1, <2>1, FollowingLeast
  <2> HIDE DEF F
  <2>4. /\ p \in F /\ F \subseteq Symbols
        /\ \A x \in F : edges[x] \subseteq F
        /\ \A C \in SUBSET Symbols : p \in C /\ (\A x \in C : edges[x] \subseteq C) => F \subseteq C
    BY <2>1, <2>3
  <2>5. QED
    BY <2>2, <2>4
<1>3. \A p, q, r \in Symbols : Leads(p, q) /\ Leads(q, r) => Leads(p, r)
  <2> SUFFICES ASSUME NEW p \in Symbols, NEW q \in Symbols, Leads(p, q)
               PROVE  References({q}) \subseteq References({p})
    BY DEF Leads
  <2>1. /\ References({p}) \in SUBSET Symbols /\ q \in References({p})
        /\ \A x \in References({p}) : edges[x] \subseteq References({p})
    BY <1>2 DEF Leads
  <2>2. QED
    BY <1>2, <2>1
<1>4. \A C \in SUBSET Symbols : ClosedUnder(Outgoing, C) => \A p \in C : \A q : Leads(p, q) => q \in C
  <2> SUFFICES ASSUME NEW C \in SUBSET Symbols, ClosedUnder(Outgoing, C), NEW p \in C
               PROVE  References({p}) \subseteq C
    BY DEF Leads
  <2>1. \A x \in C : edges[x] \subseteq C
    BY DEF ClosedUnder, Outgoing
  <2>2. QED
    BY <1>2, <2>1
<1>5. QED
  BY <1>1, <1>2, <1>3, <1>4 DEF Leads, Outgoing

(* Tarjan's algorithm: the symbols in progress, those in a component, and what a
   symbol has been looked at for. *)
Gray == {work[i].node : i \in DOMAIN work}
Emitted == UNION {ElementsOf(result[i]) : i \in DOMAIN result}
LeftOf(q) == UNION {work[i].left : i \in {j \in DOMAIN work : work[j].node = q}}
Looked(q) == Outgoing(q) \ LeftOf(q)

(* g is the last symbol in progress that was found no later than q. *)
Owns(g, q) ==
  /\ g \in Gray /\ indices[g] <= indices[q]
  /\ \A h \in Gray : indices[h] <= indices[q] => indices[h] <= indices[g]

Entries == [node : Symbols, left : SUBSET Symbols]

TarjanTyped ==
  /\ edges \in Graphs
  /\ counter \in Nat /\ counter = Cardinality(Visited)
  /\ indices \in [Symbols -> Nat] /\ lowlink \in [Symbols -> Nat]
  /\ stack \in Seq(Symbols) /\ result \in Seq(Seq(Symbols))
  /\ work \in Seq(Entries)
  /\ \A i \in DOMAIN work : work[i].left \subseteq Outgoing(work[i].node)

(* Both stacks are in the order of discovery; what is found is on the stack or
   in a component. *)
Stacked ==
  /\ \A q \in Visited : indices[q] < counter
  /\ \A i, j \in DOMAIN stack : i < j => indices[stack[i]] < indices[stack[j]]
  /\ \A i, j \in DOMAIN work : i < j => indices[work[i].node] < indices[work[j].node]
  /\ Gray \subseteq OnStack
  /\ OnStack \cup Emitted = Visited /\ OnStack \cap Emitted = {}

(* What is looked at is found, and a component references nothing that comes
   later. *)
Settled ==
  /\ \A q \in Visited : Looked(q) \subseteq Visited
  /\ \A q \in Emitted : Outgoing(q) \subseteq Emitted

(* A symbol in progress leads to all above it on the stack, and each of them
   back to one in progress below it. *)
Connected ==
  /\ \A g \in Gray, q \in OnStack : indices[g] <= indices[q] => Leads(g, q)
  /\ \A q \in OnStack : \E g \in Gray : indices[g] <= indices[q] /\ Leads(q, g)

(* The link of a symbol in progress is the index of one it leads to, and no
   reference that was looked at from its part of the stack goes below it. *)
Linked ==
  /\ \A g \in Gray :
       /\ lowlink[g] <= indices[g]
       /\ \E q \in OnStack : indices[q] = lowlink[g] /\ Leads(g, q)
  /\ \A q \in OnStack : \A p \in Looked(q) \cap OnStack :
       \A g \in Gray : Owns(g, q) => lowlink[g] <= indices[p]

TarjanInv == TarjanTyped /\ Stacked /\ Settled /\ Connected /\ Linked

LookedIn(w, q) == Outgoing(q) \ UNION {w[i].left : i \in {j \in DOMAIN w : w[j].node = q}}

(* The symbol on top was found last of those in progress, and its own references
   are all it has left. *)
LEMMA TopFacts ==
  ASSUME TarjanInv, work # <<>>
  PROVE  /\ Top \in Entries /\ Top = work[Len(work)] /\ Len(work) \in DOMAIN work
         /\ Top.left \subseteq Outgoing(Top.node)
         /\ Top.node \in Gray /\ Top.node \in OnStack /\ Top.node \in Visited
         /\ \A g \in Gray : g = Top.node \/ indices[g] < indices[Top.node]
         /\ LeftOf(Top.node) = Top.left
<1> DEFINE n == Len(work)
<1>0. work \in Seq(Entries)
  BY DEF TarjanInv, TarjanTyped
<1>1. n \in Nat /\ n > 0 /\ DOMAIN work = 1 .. n /\ \A i \in 1 .. n : work[i] \in Entries
  BY <1>0
<1>2. Top = work[n] /\ n \in DOMAIN work /\ Top \in Entries
  BY <1>1 DEF Top, TopOf
<1> HIDE DEF n
<1>3. Top.node \in Gray
  BY <1>2 DEF Gray
<1>4. ASSUME NEW i \in DOMAIN work, i # n
      PROVE  indices[work[i].node] < indices[Top.node]
  <2>1. i < n
    BY <1>1, <1>4
  <2>2. QED
    BY <1>2, <2>1 DEF TarjanInv, Stacked
<1>5. \A g \in Gray : g = Top.node \/ indices[g] < indices[Top.node]
  BY <1>2, <1>4 DEF Gray
<1>6. \A i \in DOMAIN work : work[i].node = Top.node => i = n
  <2>1. indices[Top.node] \in Nat
    BY <1>2 DEF TarjanInv, TarjanTyped, Entries
  <2>2. QED
    BY <1>4, <2>1
<1>7. LeftOf(Top.node) = Top.left
  <2>1. {j \in DOMAIN work : work[j].node = Top.node} = {n}
    BY <1>2, <1>6
  <2>2. QED
    BY <1>2, <2>1 DEF LeftOf
<1>8. Top.left \subseteq Outgoing(Top.node)
  BY <1>2 DEF TarjanInv, TarjanTyped
<1>9. QED
  BY <1>2, <1>3, <1>5, <1>7, <1>8 DEF TarjanInv, Stacked, n

(* The symbols with an index are finitely many. *)
LEMMA VisitedType == TarjanTyped => Visited \subseteq Symbols /\ IsFiniteSet(Visited)
BY FS_Subset DEF Visited

(* What finding v does to the stacks, the sets made of them and the indices. *)
LEMMA DiscoverEffect ==
  ASSUME TarjanInv, NEW v \in Symbols, v \notin Visited,
         NEW below \in Seq(Entries), Len(below) = Len(work),
         \A i \in DOMAIN work : below[i].node = work[i].node /\ below[i].left \subseteq work[i].left,
         Discover(v, below), UNCHANGED edges
  PROVE  /\ TarjanTyped' /\ Stacked'
         /\ Gray' = Gray \cup {v} /\ OnStack' = OnStack \cup {v}
         /\ Visited' = Visited \cup {v} /\ Emitted' = Emitted
         /\ v \notin Gray /\ v \notin OnStack
         /\ indices'[v] = counter /\ lowlink'[v] = counter
         /\ \A q \in Symbols \ {v} : indices'[q] = indices[q] /\ lowlink'[q] = lowlink[q]
         /\ Looked(v)' = {}
         /\ \A q \in Symbols \ {v} : Looked(q)' = LookedIn(below, q)
<1> DEFINE n == Len(work)
           m == Len(stack)
<1>1. /\ indices' = [indices EXCEPT ![v] = counter] /\ lowlink' = [lowlink EXCEPT ![v] = counter]
      /\ counter' = counter + 1 /\ stack' = Append(stack, v) /\ result' = result
      /\ work' = Append(below, [node |-> v, left |-> Outgoing(v)])
  BY DEF Discover
<1>0. /\ counter \in Nat /\ indices \in [Symbols -> Nat] /\ lowlink \in [Symbols -> Nat]
      /\ stack \in Seq(Symbols) /\ work \in Seq(Entries)
      /\ edges \in Graphs
  BY DEF TarjanInv, TarjanTyped
<1>2. /\ n \in Nat /\ DOMAIN work = 1 .. n /\ m \in Nat /\ DOMAIN stack = 1 .. m
      /\ counter \in Nat /\ indices \in [Symbols -> Nat] /\ lowlink \in [Symbols -> Nat]
      /\ stack \in Seq(Symbols)
  BY <1>0
<1>3. /\ DOMAIN work' = 1 .. n + 1 /\ work' \in Seq(Entries)
      /\ work'[n + 1] = [node |-> v, left |-> Outgoing(v)]
      /\ \A i \in 1 .. n : work'[i] = below[i] /\ work'[i].node = work[i].node
  <2> DEFINE entry == [node |-> v, left |-> Outgoing(v)]
  <2>1. Outgoing(v) \subseteq Symbols
    BY <1>0 DEF Outgoing
  <2>2. entry \in Entries
    BY <2>1 DEF Entries
  <2> HIDE DEF entry
  <2>3. work' = Append(below, entry)
    BY <1>1 DEF entry
  <2>4. /\ DOMAIN work' = 1 .. n + 1 /\ work' \in Seq(Entries)
        /\ work'[n + 1] = entry
        /\ \A i \in 1 .. n : work'[i] = below[i]
    BY <2>2, <2>3, <1>0
  <2>5. QED
    BY <2>4, <1>2 DEF entry
<1>4. /\ DOMAIN stack' = 1 .. m + 1 /\ stack' \in Seq(Symbols)
      /\ stack'[m + 1] = v /\ \A i \in 1 .. m : stack'[i] = stack[i]
  BY <1>1, <1>2
<1> HIDE DEF n, m
<1>5. /\ indices'[v] = counter /\ lowlink'[v] = counter
      /\ \A q \in Symbols \ {v} : indices'[q] = indices[q] /\ lowlink'[q] = lowlink[q]
      /\ indices' \in [Symbols -> Nat] /\ lowlink' \in [Symbols -> Nat]
  BY <1>1, <1>2
<1>6. Gray' = Gray \cup {v}
  <2>1. \A i \in 1 .. n + 1 : i \in 1 .. n \/ i = n + 1
    BY <1>2
  <2>2. \A i \in 1 .. n : i \in 1 .. n + 1
    BY <1>2
  <2>3. n + 1 \in 1 .. n + 1
    BY <1>2
  <2>4. Gray' = {work'[i].node : i \in 1 .. n + 1}
    BY <1>3 DEF Gray
  <2>5. Gray = {work[i].node : i \in 1 .. n}
    BY <1>2 DEF Gray
  <2>6. work'[n + 1].node = v
    BY <1>3
  <2>7. QED
    BY <1>3, <2>1, <2>2, <2>3, <2>4, <2>5, <2>6
<1>7. OnStack' = OnStack \cup {v}
  <2>1. \A i \in 1 .. m + 1 : i \in 1 .. m \/ i = m + 1
    BY <1>2
  <2>2. (\A i \in 1 .. m : i \in 1 .. m + 1) /\ m + 1 \in 1 .. m + 1
    BY <1>2
  <2>3. OnStack' = {stack'[i] : i \in 1 .. m + 1}
    BY <1>4 DEF OnStack, ElementsOf
  <2>4. OnStack = {stack[i] : i \in 1 .. m}
    BY <1>2 DEF OnStack, ElementsOf
  <2>5. QED
    BY <1>4, <2>1, <2>2, <2>3, <2>4
<1>8. Visited \subseteq Symbols /\ IsFiniteSet(Visited) /\ Visited # Symbols
  BY VisitedType DEF TarjanInv
<1>9. Cardinality(Visited \cup {v}) = counter + 1 /\ counter < Unvisited
  <2>1. counter = Cardinality(Visited)
    BY DEF TarjanInv, TarjanTyped
  <2>2. Cardinality(Visited \cup {v}) = counter + 1
    BY <1>8, <2>1, FS_AddElement
  <2>3. Cardinality(Visited) < Cardinality(Symbols)
    <3>1. /\ Cardinality(Visited) <= Cardinality(Symbols)
          /\ Cardinality(Symbols) = Cardinality(Visited) => Symbols = Visited
      BY <1>8, FS_Subset
    <3>2. Cardinality(Visited) \in Nat /\ Cardinality(Symbols) \in Nat
      BY <1>8, FS_CardinalityType
    <3>3. QED
      BY <1>8, <3>1, <3>2
  <2>4. QED
    BY <2>1, <2>2, <2>3 DEF Unvisited
<1>10. Visited' = Visited \cup {v}
  <2>1. counter # Unvisited
    BY <1>2, <1>9
  <2>2. QED
    BY <1>5, <2>1 DEF Visited, Unvisited
<1>11. Emitted' = Emitted
  BY <1>1 DEF Emitted, ElementsOf
<1>12. v \notin Gray /\ v \notin OnStack
  BY DEF TarjanInv, Stacked
<1>13. Looked(v)' = {} /\ \A q \in Symbols \ {v} : Looked(q)' = LookedIn(below, q)
  <2>1. ASSUME NEW q \in Symbols \ {v}
        PROVE  {work'[i].left : i \in {j \in DOMAIN work' : work'[j].node = q}}
                 = {below[i].left : i \in {j \in DOMAIN below : below[j].node = q}}
    <3>1. DOMAIN below = 1 .. n
      BY <1>2 DEF n
    <3>2. {j \in DOMAIN work' : work'[j].node = q} = {j \in DOMAIN below : below[j].node = q}
      BY <1>2, <1>3, <3>1
    <3>3. QED
      BY <1>3, <3>1, <3>2
  <2>2. n + 1 \in {j \in DOMAIN work' : work'[j].node = v} /\ work'[n + 1].left = Outgoing(v)
    BY <1>2, <1>3
  <2>3. Looked(v)' = {}
    BY <2>2 DEF Looked, LeftOf, Outgoing
  <2>4. QED
    BY <2>1, <2>3 DEF Looked, LeftOf, LookedIn, Outgoing
<1>14. TarjanTyped'
  <2>1. ASSUME NEW i \in DOMAIN work' PROVE work'[i].left \subseteq edges[work'[i].node]
    <3>1. CASE i = n + 1
      <4>1. work'[i].left = Outgoing(v) /\ work'[i].node = v
        BY <3>1, <1>3
      <4>2. QED
        BY <4>1 DEF Outgoing
    <3>2. CASE i # n + 1
      <4>1. i \in 1 .. n
        BY <2>1, <3>2, <1>2, <1>3
      <4>2. work'[i].left \subseteq work[i].left /\ work'[i].node = work[i].node
        BY <4>1, <1>2, <1>3
      <4>3. work[i].left \subseteq Outgoing(work[i].node)
        BY <4>1, <1>2 DEF TarjanInv, TarjanTyped
      <4>4. QED
        BY <4>2, <4>3 DEF Outgoing
    <3>3. QED
      BY <3>1, <3>2
  <2>2. (\A i \in DOMAIN work : work[i].left \subseteq Outgoing(work[i].node))'
    BY <2>1 DEF Outgoing
  <2>3. /\ edges' \in Graphs /\ counter' \in Nat /\ counter' = Cardinality(Visited)'
        /\ result' \in Seq(Seq(Symbols))
    BY <1>0, <1>1, <1>9, <1>10 DEF TarjanInv, TarjanTyped
  <2>4. QED
    BY <1>3, <1>4, <1>5, <2>2, <2>3 DEF TarjanTyped
<1>15. Stacked'
  <2>1. \A q \in Visited' : indices'[q] < counter'
    <3>1. \A q \in Visited : indices[q] < counter /\ indices[q] \in Nat /\ q \in Symbols
      BY <1>2, <1>8 DEF TarjanInv, Stacked
    <3>2. QED
      BY <1>1, <1>2, <1>5, <1>10, <3>1
  <2>2. \A q \in OnStack : indices[q] < counter /\ q # v /\ q \in Symbols
    BY <1>12, <1>8 DEF TarjanInv, Stacked
  <2>3. ASSUME NEW i \in DOMAIN stack', NEW j \in DOMAIN stack', i < j
        PROVE  indices'[stack'[i]] < indices'[stack'[j]]
    <3>1. i \in 1 .. m /\ stack[i] \in OnStack
      BY <2>3, <1>2, <1>4 DEF OnStack, ElementsOf
    <3>2. CASE j = m + 1
      <4>1. stack'[i] = stack[i] /\ stack'[j] = v
        BY <3>1, <3>2, <1>4
      <4>2. indices'[stack[i]] = indices[stack[i]] /\ indices[stack[i]] < counter
        BY <3>1, <1>5, <2>2
      <4>3. QED
        BY <4>1, <4>2, <1>5
    <3>3. CASE j # m + 1
      <4>1. j \in 1 .. m /\ stack[j] \in OnStack
        BY <2>3, <3>3, <1>2, <1>4 DEF OnStack, ElementsOf
      <4>2. indices[stack[i]] < indices[stack[j]]
        BY <2>3, <3>1, <4>1, <1>2 DEF TarjanInv, Stacked
      <4>3. QED
        BY <3>1, <4>1, <4>2, <1>4, <1>5, <2>2
    <3>4. QED
      BY <3>2, <3>3
  <2>4. ASSUME NEW i \in DOMAIN work', NEW j \in DOMAIN work', i < j
        PROVE  indices'[work'[i].node] < indices'[work'[j].node]
    <3>0. \A g \in Gray : indices[g] < counter /\ indices'[g] = indices[g]
      BY <2>2, <1>5 DEF TarjanInv, Stacked
    <3>1. i \in 1 .. n /\ work[i].node \in Gray
      BY <2>4, <1>2, <1>3 DEF Gray
    <3>2. work'[i].node = work[i].node
      BY <3>1, <1>3
    <3>3. CASE j = n + 1
      <4>1. work'[j].node = v
        BY <3>3, <1>3
      <4>2. indices[work[i].node] < counter /\ indices'[work[i].node] = indices[work[i].node]
        BY <3>0, <3>1
      <4>3. QED
        BY <3>2, <4>1, <4>2, <1>5
    <3>4. CASE j # n + 1
      <4>1. j \in 1 .. n /\ work[j].node \in Gray
        BY <2>4, <3>4, <1>2, <1>3 DEF Gray
      <4>2. indices[work[i].node] < indices[work[j].node]
        BY <2>4, <3>1, <4>1, <1>2 DEF TarjanInv, Stacked
      <4>3. work'[j].node = work[j].node
        BY <4>1, <1>3
      <4>4. /\ indices'[work[i].node] = indices[work[i].node]
            /\ indices'[work[j].node] = indices[work[j].node]
        BY <3>0, <3>1, <4>1
      <4>5. QED
        BY <3>2, <4>2, <4>3, <4>4
    <3>5. QED
      BY <3>3, <3>4
  <2>5. Gray' \subseteq OnStack' /\ OnStack' \cup Emitted' = Visited' /\ OnStack' \cap Emitted' = {}
    BY <1>6, <1>7, <1>10, <1>11 DEF TarjanInv, Stacked
  <2>6. QED
    BY <2>1, <2>3, <2>4, <2>5 DEF Stacked
<1>16. QED
  BY <1>5, <1>6, <1>7, <1>10, <1>11, <1>12, <1>13, <1>14, <1>15

(* A symbol that is found from v leaves what is settled, connected and linked
   as it was, once v has looked at it. *)
LEMMA DiscoverKeeps ==
  ASSUME TarjanInv, NEW v \in Symbols, v \notin Visited,
         NEW below \in Seq(Entries), Len(below) = Len(work),
         \A i \in DOMAIN work : below[i].node = work[i].node /\ below[i].left \subseteq work[i].left,
         \/ work = <<>>
         \/ /\ work # <<>> /\ v \in Outgoing(Top.node)
            /\ \A q \in Symbols : LookedIn(below, q) \subseteq Looked(q) \cup {v},
         Discover(v, below), UNCHANGED edges
  PROVE  TarjanInv'
<1>1. /\ TarjanTyped' /\ Stacked'
      /\ Gray' = Gray \cup {v} /\ OnStack' = OnStack \cup {v}
      /\ Visited' = Visited \cup {v} /\ Emitted' = Emitted
      /\ v \notin Gray /\ v \notin OnStack
      /\ indices'[v] = counter /\ lowlink'[v] = counter
      /\ \A q \in Symbols \ {v} : indices'[q] = indices[q] /\ lowlink'[q] = lowlink[q]
      /\ Looked(v)' = {}
      /\ \A q \in Symbols \ {v} : Looked(q)' = LookedIn(below, q)
  BY DiscoverEffect
<1>2. /\ edges \in Graphs /\ counter \in Nat /\ indices \in [Symbols -> Nat] /\ lowlink \in [Symbols -> Nat]
      /\ Gray \subseteq OnStack /\ OnStack \subseteq Visited /\ Visited \subseteq Symbols
      /\ \A q \in Visited : indices[q] < counter
  BY VisitedType DEF TarjanInv, TarjanTyped, Stacked
<1>3. \A p, q : Leads(p, q)' = Leads(p, q)
  BY DEF Leads, References, Following
<1>4. /\ \A q : Outgoing(q)' = Outgoing(q)
  BY DEF Outgoing
<1>5. \A q \in Symbols \ {v} : Looked(q)' \subseteq Looked(q) \cup {v}
  <2>1. CASE work = <<>>
    <3>1. DOMAIN below = {}
      BY <2>1
    <3>2. \A q : LookedIn(below, q) = Outgoing(q) /\ Looked(q) = Outgoing(q)
      BY <2>1, <3>1 DEF LookedIn, Looked, LeftOf
    <3>3. QED
      BY <3>2, <1>1
  <2>2. CASE work # <<>>
    BY <2>2, <1>1
  <2>3. QED
    BY <2>1, <2>2
<1>6. Settled'
  BY <1>1, <1>2, <1>4, <1>5 DEF TarjanInv, Settled
<1>7. Connected'
  <2>1. Leads(v, v)
    BY <1>2, LeadsFacts
  <2>2. ASSUME NEW g \in Gray PROVE Leads(g, v)
    <3>1. work # <<>>
      BY DEF Gray
    <3>2. /\ v \in Outgoing(Top.node) /\ Top.node \in OnStack /\ Top.node \in Symbols
          /\ g = Top.node \/ indices[g] < indices[Top.node]
      BY <3>1, <1>2, TopFacts
    <3>0. indices[g] <= indices[Top.node]
      <4>1. indices[g] \in Nat /\ indices[Top.node] \in Nat
        BY <3>2, <1>2
      <4>2. QED
        BY <3>2, <4>1
    <3>3. Leads(g, Top.node)
      BY <3>0, <3>2 DEF TarjanInv, Connected
    <3>4. QED
      BY <3>2, <3>3, <1>2, LeadsFacts
  <2>3. \A g \in Gray', q \in OnStack' : indices'[g] <= indices'[q] => Leads(g, q)
    <3> SUFFICES ASSUME NEW g \in Gray', NEW q \in OnStack', indices'[g] <= indices'[q]
                 PROVE  Leads(g, q)
      OBVIOUS
    <3>1. CASE q = v
      BY <3>1, <2>1, <2>2, <1>1
    <3>2. CASE q # v /\ g = v
      <4>1. indices'[q] < counter
        BY <3>2, <1>1, <1>2
      <4>2. QED
        BY <3>2, <4>1, <1>1, <1>2
    <3>3. CASE q # v /\ g # v
      BY <3>3, <1>1, <1>2 DEF TarjanInv, Connected
    <3>4. QED
      BY <3>1, <3>2, <3>3
  <2>4. \A q \in OnStack' : \E g \in Gray' : indices'[g] <= indices'[q] /\ Leads(q, g)
    <3> SUFFICES ASSUME NEW q \in OnStack'
                 PROVE  \E g \in Gray' : indices'[g] <= indices'[q] /\ Leads(q, g)
      OBVIOUS
    <3>1. CASE q = v
      <4>1. v \in Gray' /\ indices'[v] <= indices'[v]
        BY <1>1, <1>2
      <4>2. QED
        BY <3>1, <4>1, <2>1
    <3>2. CASE q # v
      <4>1. PICK g \in Gray : indices[g] <= indices[q] /\ Leads(q, g)
        BY <3>2, <1>1 DEF TarjanInv, Connected
      <4>2. QED
        BY <3>2, <4>1, <1>1, <1>2
    <3>3. QED
      BY <3>1, <3>2
  <2>5. QED
    BY <2>3, <2>4, <1>3 DEF Connected
<1>8. Linked'
  <2>1. \A g \in Gray' : /\ lowlink'[g] <= indices'[g]
                         /\ \E q \in OnStack' : indices'[q] = lowlink'[g] /\ Leads(g, q)
    <3> SUFFICES ASSUME NEW g \in Gray'
                 PROVE  /\ lowlink'[g] <= indices'[g]
                        /\ \E q \in OnStack' : indices'[q] = lowlink'[g] /\ Leads(g, q)
      OBVIOUS
    <3>1. CASE g = v
      <4>1. Leads(v, v)
        BY <1>2, LeadsFacts
      <4>2. QED
        BY <3>1, <4>1, <1>1, <1>2
    <3>2. CASE g # v
      <4>1. g \in Gray /\ g \in Symbols
        BY <3>2, <1>1, <1>2
      <4>2. lowlink[g] <= indices[g]
        BY <4>1 DEF TarjanInv, Linked
      <4>3. PICK q \in OnStack : indices[q] = lowlink[g] /\ Leads(g, q)
        BY <4>1 DEF TarjanInv, Linked
      <4>4. q \in Symbols /\ q # v
        BY <1>1, <1>2
      <4>5. QED
        BY <3>2, <4>1, <4>2, <4>3, <4>4, <1>1
    <3>3. QED
      BY <3>1, <3>2
  <2>2. ASSUME NEW q \in OnStack', NEW p \in Looked(q)' \cap OnStack', NEW g \in Gray', Owns(g, q)'
        PROVE  lowlink'[g] <= indices'[p]
    <3>1. q # v /\ q \in OnStack /\ q \in Symbols /\ p \in Looked(q) \cup {v}
      BY <2>2, <1>1, <1>2, <1>5
    <3>2. g # v /\ g \in Gray /\ g \in Symbols
      <4>1. indices'[q] < counter
        BY <3>1, <1>1, <1>2
      <4>2. indices'[g] <= indices'[q] /\ indices'[q] \in Nat
        BY <2>2, <3>1, <1>1, <1>2 DEF Owns
      <4>3. g # v
        BY <4>1, <4>2, <1>1, <1>2
      <4>4. QED
        BY <4>3, <1>1, <1>2
    <3>3. Owns(g, q)
      <4>1. \A h \in Gray : h \in Gray' /\ indices'[h] = indices[h]
        BY <1>1, <1>2
      <4>2. indices'[q] = indices[q]
        BY <3>1, <1>1
      <4>3. QED
        BY <2>2, <3>2, <4>1, <4>2 DEF Owns
    <3>4. CASE p = v
      <4>1. lowlink[g] <= indices[g] /\ indices[g] < counter
        BY <3>2, <1>2 DEF TarjanInv, Linked
      <4>2. lowlink'[g] = lowlink[g] /\ indices'[p] = counter
        BY <3>2, <3>4, <1>1
      <4>3. lowlink[g] \in Nat /\ indices[g] \in Nat
        BY <3>2, <1>2
      <4>4. QED
        BY <4>1, <4>2, <4>3, <1>2
    <3>5. CASE p # v
      <4>1. p \in Looked(q) \cap OnStack /\ p \in Symbols
        BY <2>2, <3>1, <3>5, <1>1, <1>2
      <4>2. lowlink[g] <= indices[p]
        BY <3>1, <3>2, <3>3, <4>1 DEF TarjanInv, Linked
      <4>3. QED
        BY <4>1, <4>2, <3>2, <3>5, <1>1
    <3>6. QED
      BY <3>4, <3>5
  <2>3. QED
    BY <2>1, <2>2, <1>3 DEF Linked
<1>9. QED
  BY <1>1, <1>6, <1>7, <1>8 DEF TarjanInv

(* strongconnect of a symbol that no symbol in progress leads to. *)
LEMMA ConnectKeeps == TarjanInv /\ Connect /\ UNCHANGED edges => TarjanInv'
<1> SUFFICES ASSUME TarjanInv, Connect, UNCHANGED edges PROVE TarjanInv'
  OBVIOUS
<1>1. Least(Unconnected) \in Unconnected
  BY LeastIsMember DEF Connect, Unconnected
<1>2. work = <<>> /\ work \in Seq(Entries) /\ Discover(Least(Unconnected), work)
  BY DEF Connect, TarjanInv, TarjanTyped
<1>3. QED
  BY <1>1, <1>2, DiscoverKeeps DEF Unconnected

(* What a look at w makes of the work stack. *)
LookedAt(w) == [work EXCEPT ![Len(work)].left = Resumed(@, w)]

(* Looking at w takes it off what the symbol on top has left, and nothing else. *)
LEMMA LookedAtEffect ==
  ASSUME TarjanInv, work # <<>>, NEW w \in Top.left
  PROVE  /\ LookedAt(w) \in Seq(Entries) /\ Len(LookedAt(w)) = Len(work)
         /\ \A i \in DOMAIN work : /\ LookedAt(w)[i].node = work[i].node
                                   /\ LookedAt(w)[i].left \subseteq work[i].left
         /\ \A q \in Symbols : q # Top.node => LookedIn(LookedAt(w), q) = Looked(q)
         /\ \A q \in Symbols : LookedIn(LookedAt(w), q) \subseteq Looked(q) \cup {w}
<1> DEFINE n == Len(work)
           below == LookedAt(w)
           entry == [work[n] EXCEPT !.left = Resumed(@, w)]
<1>1. /\ Top \in Entries /\ Top = work[n] /\ n \in DOMAIN work
  BY TopFacts
<1>2. work \in Seq(Entries) /\ n \in Nat /\ DOMAIN work = 1 .. n
  BY DEF TarjanInv, TarjanTyped
<1>3. below = [work EXCEPT ![n] = entry]
  BY DEF LookedAt
<1>4. /\ entry \in Entries /\ entry.node = Top.node /\ entry.left = Top.left \ {w}
  BY <1>1 DEF Entries, Resumed
<1> HIDE DEF entry, n, below
<1>5. /\ below \in Seq(Entries) /\ Len(below) = n /\ DOMAIN below = 1 .. n
      /\ below[n] = entry /\ \A i \in 1 .. n : i # n => below[i] = work[i]
  BY <1>1, <1>2, <1>3, <1>4
<1>6. \A i \in DOMAIN work : below[i].node = work[i].node /\ below[i].left \subseteq work[i].left
  BY <1>1, <1>2, <1>4, <1>5
<1>7. \A q \in Symbols : {j \in DOMAIN below : below[j].node = q} = {j \in DOMAIN work : work[j].node = q}
  BY <1>2, <1>5, <1>6
<1>8. ASSUME NEW q \in Symbols, q # Top.node
      PROVE  LookedIn(below, q) = Looked(q)
  <2>1. \A i \in {j \in DOMAIN work : work[j].node = q} : below[i] = work[i]
    BY <1>1, <1>2, <1>5, <1>8
  <2> DEFINE J == {j \in DOMAIN work : work[j].node = q}
  <2>2. LookedIn(below, q) = Outgoing(q) \ UNION {below[i].left : i \in J}
    BY <1>7 DEF LookedIn
  <2>3. Looked(q) = Outgoing(q) \ UNION {work[i].left : i \in J}
    BY DEF Looked, LeftOf
  <2> HIDE DEF J
  <2>4. {below[i].left : i \in J} = {work[i].left : i \in J}
    BY <2>1 DEF J
  <2>5. QED
    BY <2>2, <2>3, <2>4
<1>9. ASSUME NEW q \in Symbols, NEW r \in LookedIn(below, q), r # w
      PROVE  r \in Looked(q)
  <2>1. \A i \in DOMAIN work : work[i].left \subseteq below[i].left \cup {w}
    BY <1>1, <1>2, <1>4, <1>5
  <2>2. r \in Outgoing(q) /\ \A i \in {j \in DOMAIN below : below[j].node = q} : r \notin below[i].left
    BY <1>9 DEF LookedIn
  <2>3. \A i \in {j \in DOMAIN work : work[j].node = q} : r \notin work[i].left
    BY <1>7, <1>9, <2>1, <2>2
  <2>4. QED
    BY <2>2, <2>3 DEF Looked, LeftOf
<1>10. QED
  BY <1>5, <1>6, <1>8, <1>9 DEF n, below

(* A look at a reference: it is found, or its index may lower the link. *)
LEMMA LookAtKeeps == TarjanInv /\ LookAt /\ UNCHANGED edges => TarjanInv'
<1> SUFFICES ASSUME TarjanInv, LookAt, UNCHANGED edges PROVE TarjanInv'
  OBVIOUS
<1> DEFINE w == Least(Top.left)
           v == Top.node
           below == LookedAt(w)
<1>1. /\ work # <<>> /\ Top.left # {}
      /\ IF w \notin Visited
         THEN Discover(w, below)
         ELSE /\ work' = below
              /\ lowlink' = [lowlink EXCEPT ![v] = Lowered(v, w)]
              /\ UNCHANGED <<counter, indices, stack, result>>
  BY DEF LookAt, LookedAt
<1>2. /\ Top \in Entries /\ v \in Gray /\ v \in OnStack /\ v \in Visited
      /\ \A g \in Gray : g = v \/ indices[g] < indices[v]
      /\ LeftOf(v) = Top.left
  BY <1>1, TopFacts
<1>3. Top.left \subseteq Symbols
  BY <1>2 DEF Entries
<1>4. w \in Top.left
  BY <1>1, <1>3, LeastIsMember
<1>5. w \in Symbols
  BY <1>3, <1>4
<1> HIDE DEF w, v
<1>6. /\ below \in Seq(Entries) /\ Len(below) = Len(work)
      /\ \A i \in DOMAIN work : below[i].node = work[i].node /\ below[i].left \subseteq work[i].left
      /\ \A q \in Symbols : q # v => LookedIn(below, q) = Looked(q)
      /\ \A q \in Symbols : LookedIn(below, q) \subseteq Looked(q) \cup {w}
  BY <1>1, <1>4, LookedAtEffect DEF v
<1> HIDE DEF below
<1>7. CASE w \notin Visited
  <2>1. Discover(w, below)
    BY <1>1, <1>7
  <2>2. w \in Outgoing(Top.node)
    BY <1>1, <1>4, TopFacts
  <2>3. QED
    BY <1>1, <1>5, <1>6, <1>7, <2>1, <2>2, DiscoverKeeps
<1>8. CASE w \in Visited
  <2>1. /\ work' = below /\ lowlink' = [lowlink EXCEPT ![v] = Lowered(v, w)]
        /\ UNCHANGED <<counter, indices, stack, result>>
    BY <1>1, <1>8
  <2>2. /\ edges \in Graphs /\ indices \in [Symbols -> Nat] /\ lowlink \in [Symbols -> Nat]
        /\ Gray \subseteq OnStack /\ OnStack \subseteq Visited /\ Visited \subseteq Symbols
        /\ work \in Seq(Entries)
    BY VisitedType DEF TarjanInv, TarjanTyped, Stacked
  <2>3. DOMAIN work' = DOMAIN work /\ work' \in Seq(Entries)
    BY <1>6, <2>1, <2>2
  <2>4. Gray' = Gray
    BY <1>6, <2>1, <2>3 DEF Gray
  <2>5. /\ OnStack' = OnStack /\ Visited' = Visited /\ Emitted' = Emitted
        /\ \A q : Outgoing(q)' = Outgoing(q)
        /\ \A p, q : Leads(p, q)' = Leads(p, q)
    BY <2>1 DEF OnStack, Visited, Emitted, ElementsOf, Outgoing, Leads, References, Following, Unvisited
  <2>6. \A q \in Symbols : Looked(q)' = LookedIn(below, q)
    BY <2>1 DEF Looked, LeftOf, LookedIn, Outgoing
  <2>7. /\ lowlink' \in [Symbols -> Nat] /\ lowlink'[v] <= lowlink[v]
        /\ \A q \in Symbols : q # v => lowlink'[q] = lowlink[q]
        /\ lowlink'[v] = lowlink[v] \/ (w \in OnStack /\ lowlink'[v] = indices[w])
        /\ w \in OnStack => lowlink'[v] <= indices[w]
    <3>1. v \in Symbols /\ lowlink[v] \in Nat /\ indices[w] \in Nat
      BY <1>2, <1>5, <2>2
    <3>2. lowlink'[v] = Lowered(v, w)
      BY <2>1, <2>2, <3>1
    <3>3. /\ Lowered(v, w) \in Nat /\ Lowered(v, w) <= lowlink[v]
          /\ Lowered(v, w) = lowlink[v] \/ (w \in OnStack /\ Lowered(v, w) = indices[w])
          /\ w \in OnStack => Lowered(v, w) <= indices[w]
      BY <3>1 DEF Lowered
    <3>4. QED
      BY <2>1, <2>2, <3>1, <3>2, <3>3
  <2>8. TarjanTyped'
    <3>1. ASSUME NEW i \in DOMAIN work' PROVE work'[i].left \subseteq edges[work'[i].node]
      <4>1. work[i].left \subseteq Outgoing(work[i].node)
        BY <2>3 DEF TarjanInv, TarjanTyped
      <4>2. work'[i].left \subseteq work[i].left /\ work'[i].node = work[i].node
        BY <1>6, <2>1, <2>3
      <4>3. QED
        BY <4>1, <4>2 DEF Outgoing
    <3>2. (\A i \in DOMAIN work : work[i].left \subseteq Outgoing(work[i].node))'
      BY <3>1 DEF Outgoing
    <3>3. QED
      BY <2>1, <2>3, <2>5, <2>7, <3>2 DEF TarjanInv, TarjanTyped
  <2>9. Stacked'
    <3>1. \A i \in DOMAIN work : work'[i].node = work[i].node
      BY <1>6, <2>1
    <3>2. \A i, j \in DOMAIN work' : i < j => indices'[work'[i].node] < indices'[work'[j].node]
      BY <2>1, <2>3, <3>1 DEF TarjanInv, Stacked
    <3>3. QED
      BY <2>1, <2>4, <2>5, <3>2 DEF TarjanInv, Stacked
  <2>10. Settled'
    BY <1>6, <1>8, <2>2, <2>5, <2>6 DEF TarjanInv, Settled
  <2>11. Connected'
    BY <2>1, <2>4, <2>5 DEF TarjanInv, Connected
  <2>12. Linked'
    <3>1. ASSUME NEW g \in Gray
          PROVE  /\ lowlink'[g] <= indices[g]
                 /\ \E q \in OnStack : indices[q] = lowlink'[g] /\ Leads(g, q)
      <4>0. g \in Symbols /\ lowlink'[g] \in Nat /\ lowlink[g] \in Nat /\ indices[g] \in Nat
        BY <2>2, <2>7
      <4>1. lowlink'[g] <= lowlink[g]
        BY <2>7, <4>0
      <4>2. /\ lowlink[g] <= indices[g]
            /\ \E q \in OnStack : indices[q] = lowlink[g] /\ Leads(g, q)
        BY DEF TarjanInv, Linked
      <4>3. CASE lowlink'[g] = lowlink[g]
        BY <4>2, <4>3
      <4>4. CASE lowlink'[g] # lowlink[g]
        <5>1. g = v /\ w \in OnStack /\ lowlink'[g] = indices[w]
          BY <4>0, <4>4, <2>7
        <5>2. Leads(v, v) /\ w \in Outgoing(v)
          BY <1>1, <1>2, <1>4, <2>2, LeadsFacts, TopFacts DEF v
        <5>3. Leads(v, w)
          BY <5>2, <1>2, <2>2, LeadsFacts
        <5>4. lowlink'[g] <= indices[g]
          BY <4>0, <4>1, <4>2
        <5>5. QED
          BY <5>1, <5>3, <5>4
      <4>5. QED
        BY <4>3, <4>4
    <3>2. ASSUME NEW q \in OnStack, NEW p \in Looked(q)' \cap OnStack, NEW g \in Gray, Owns(g, q)
          PROVE  lowlink'[g] <= indices[p]
      <4>0. /\ g \in Symbols /\ q \in Symbols /\ p \in Symbols
            /\ lowlink'[g] \in Nat /\ lowlink[g] \in Nat /\ indices[p] \in Nat
        BY <2>2, <2>7
      <4>1. lowlink'[g] <= lowlink[g]
        BY <2>7, <4>0
      <4>2. CASE p \in Looked(q)
        <5>1. lowlink[g] <= indices[p]
          BY <3>2, <4>2 DEF TarjanInv, Linked
        <5>2. QED
          BY <4>0, <4>1, <5>1
      <4>3. CASE p \notin Looked(q)
        <5>1. p = w /\ q = v
          BY <3>2, <4>0, <4>3, <1>6, <2>6
        <5>2. g = v
          <6>1. indices[v] <= indices[g]
            BY <3>2, <5>1, <1>2, <2>2 DEF Owns
          <6>2. g = v \/ indices[g] < indices[v]
            BY <1>2
          <6>3. indices[v] \in Nat /\ indices[g] \in Nat
            BY <1>2, <2>2, <4>0
          <6>4. QED
            BY <6>1, <6>2, <6>3
        <5>3. QED
          BY <5>1, <5>2, <2>7
      <4>4. QED
        BY <4>2, <4>3
    <3>3. \A g, q : Owns(g, q)' <=> Owns(g, q)
      BY <2>1, <2>4 DEF Owns
    <3>4. QED
      BY <2>1, <2>4, <2>5, <3>1, <3>2, <3>3 DEF Linked
  <2>13. QED
    BY <2>8, <2>9, <2>10, <2>11, <2>12 DEF TarjanInv
<1>9. QED
  BY <1>7, <1>8

Above(v) == {q \in OnStack : indices[v] <= indices[q]}

(* The order of the stack is that of the indices, so that popping from v up
   takes exactly what was found since v. *)
LEMMA ComponentEffect ==
  ASSUME TarjanInv, NEW v \in OnStack
  PROVE  LET rest == SubSeq(stack, 1, Len(stack) - Len(Component(v)))
         IN  /\ Component(v) \in Seq(Symbols) /\ ElementsOf(Component(v)) = Above(v)
             /\ rest \in Seq(Symbols) /\ ElementsOf(rest) = OnStack \ Above(v)
             /\ DOMAIN rest \subseteq DOMAIN stack
             /\ \A i \in DOMAIN rest : rest[i] = stack[i]
<1> DEFINE m == Len(stack)
           from == CHOOSE i \in DOMAIN stack : stack[i] = v
           n == m - from + 1
           rest == SubSeq(stack, 1, m - n)
<1>1. /\ stack \in Seq(Symbols) /\ m \in Nat /\ DOMAIN stack = 1 .. m
      /\ indices \in [Symbols -> Nat]
  BY DEF TarjanInv, TarjanTyped
<1>2. from \in 1 .. m /\ stack[from] = v
  BY <1>1 DEF OnStack, ElementsOf
<1>3. Component(v) = [i \in 1 .. n |-> stack[m - i + 1]]
  BY DEF Component
<1> HIDE DEF from, m
<1>4. n \in 1 .. m /\ m - n = from - 1
  BY <1>1, <1>2
<1>5. \A i \in 1 .. n : m - i + 1 \in from .. m
  BY <1>1, <1>2
<1>6. \A i \in 1 .. m : stack[i] \in Symbols /\ stack[i] \in OnStack /\ indices[stack[i]] \in Nat
  <2>1. \A i \in 1 .. m : stack[i] \in Symbols
    BY <1>1 DEF m
  <2>2. \A i \in 1 .. m : stack[i] \in OnStack
    BY <1>1 DEF OnStack, ElementsOf
  <2>3. QED
    BY <2>1, <2>2, <1>1
<1>7. \A i \in from .. m : i \in 1 .. m /\ indices[v] <= indices[stack[i]]
  <2> SUFFICES ASSUME NEW i \in from .. m PROVE i \in 1 .. m /\ indices[v] <= indices[stack[i]]
    OBVIOUS
  <2>1. i \in 1 .. m
    BY <1>1, <1>2
  <2>2. CASE i = from
    BY <2>1, <2>2, <1>2, <1>6
  <2>3. CASE from < i
    <3>1. indices[stack[from]] < indices[stack[i]]
      BY <2>1, <2>3, <1>1, <1>2 DEF TarjanInv, Stacked
    <3>2. QED
      BY <2>1, <3>1, <1>2, <1>6
  <2>4. QED
    BY <2>2, <2>3, <1>1, <1>2
<1>8. \A i \in 1 .. from - 1 : i \in 1 .. m /\ indices[stack[i]] < indices[v]
  <2> SUFFICES ASSUME NEW i \in 1 .. from - 1 PROVE i \in 1 .. m /\ indices[stack[i]] < indices[v]
    OBVIOUS
  <2>1. i \in 1 .. m /\ i < from
    BY <1>1, <1>2
  <2>2. indices[stack[i]] < indices[stack[from]]
    BY <2>1, <1>1, <1>2 DEF TarjanInv, Stacked
  <2>3. QED
    BY <2>1, <2>2, <1>2
<1>9. ASSUME NEW i \in 1 .. m PROVE IF i < from THEN i \in 1 .. from - 1 ELSE i \in from .. m
  BY <1>1, <1>2
<1>10. Above(v) = {stack[i] : i \in from .. m}
  <2>1. ASSUME NEW q \in Above(v) PROVE q \in {stack[i] : i \in from .. m}
    <3>1. PICK i \in 1 .. m : q = stack[i]
      BY <2>1, <1>1 DEF Above, OnStack, ElementsOf
    <3>2. ~(indices[q] < indices[v])
      BY <3>1, <1>6, <1>2, <2>1 DEF Above
    <3>3. i \notin 1 .. from - 1
      BY <3>1, <3>2, <1>8
    <3>4. QED
      BY <3>1, <3>3, <1>9
  <2>2. \A i \in from .. m : stack[i] \in Above(v)
    BY <1>6, <1>7 DEF Above
  <2>3. QED
    BY <2>1, <2>2
<1>11. OnStack \ Above(v) = {stack[i] : i \in 1 .. from - 1}
  <2>1. ASSUME NEW q \in OnStack \ Above(v) PROVE q \in {stack[i] : i \in 1 .. from - 1}
    <3>1. PICK i \in 1 .. m : q = stack[i]
      BY <2>1, <1>1 DEF OnStack, ElementsOf
    <3>2. i \notin from .. m
      BY <2>1, <3>1, <1>10
    <3>3. QED
      BY <3>1, <3>2, <1>9
  <2>2. \A i \in 1 .. from - 1 : stack[i] \in OnStack /\ stack[i] \notin Above(v)
    <3> SUFFICES ASSUME NEW i \in 1 .. from - 1 PROVE stack[i] \in OnStack /\ stack[i] \notin Above(v)
      OBVIOUS
    <3>1. i \in 1 .. m /\ indices[stack[i]] < indices[v]
      BY <1>8
    <3>2. indices[v] \in Nat /\ indices[stack[i]] \in Nat
      BY <3>1, <1>2, <1>6
    <3>3. QED
      BY <3>1, <3>2, <1>6 DEF Above
  <2>3. QED
    BY <2>1, <2>2
<1>12. Component(v) \in Seq(Symbols) /\ Len(Component(v)) = n /\ DOMAIN Component(v) = 1 .. n
  <2>1. n \in Nat /\ Component(v) \in [1 .. n -> Symbols]
    BY <1>3, <1>4, <1>5, <1>6, <1>7
  <2>2. QED
    BY <2>1
<1>13. ElementsOf(Component(v)) = Above(v)
  <2>1. \A i \in 1 .. n : Component(v)[i] = stack[m - i + 1]
    BY <1>3
  <2>2. ASSUME NEW j \in from .. m PROVE \E i \in 1 .. n : Component(v)[i] = stack[j]
    <3>1. m - j + 1 \in 1 .. n /\ m - (m - j + 1) + 1 = j
      BY <1>1, <1>2
    <3>2. QED
      BY <3>1, <2>1
  <2>3. ElementsOf(Component(v)) = {Component(v)[i] : i \in 1 .. n}
    BY <1>12 DEF ElementsOf
  <2> HIDE DEF n
  <2>4. QED
    BY <2>1, <2>2, <2>3, <1>5, <1>10
<1>14. /\ rest \in Seq(Symbols) /\ DOMAIN rest = 1 .. from - 1
       /\ \A i \in 1 .. from - 1 : rest[i] = stack[i]
  <2>1. from - 1 \in 0 .. m
    BY <1>1, <1>2
  <2>2. rest = SubSeq(stack, 1, from - 1)
    BY <1>4
  <2>3. \A k \in 0 .. Len(stack) :
          /\ SubSeq(stack, 1, k) \in Seq(Symbols) /\ DOMAIN SubSeq(stack, 1, k) = 1 .. k
          /\ \A i \in 1 .. k : SubSeq(stack, 1, k)[i] = stack[i]
    BY <1>1
  <2> HIDE DEF rest
  <2>4. QED
    BY <2>1, <2>2, <2>3 DEF m
<1>15. ElementsOf(rest) = OnStack \ Above(v)
  BY <1>11, <1>14 DEF ElementsOf
<1>16. rest = SubSeq(stack, 1, Len(stack) - Len(Component(v)))
  BY <1>12 DEF m
<1> HIDE DEF rest, n
<1>17. DOMAIN rest \subseteq DOMAIN stack
  BY <1>1, <1>8, <1>14
<1>18. QED
  BY <1>12, <1>13, <1>14, <1>15, <1>16, <1>17

(* What is complete when nothing is left of the symbol on top: the symbols since
   it was found, when none leads lower, are its cycle, and reference nothing else
   that is not emitted. *)
LEMMA ComponentIsCycle ==
  ASSUME TarjanInv, work # <<>>, Top.left = {}, NEW v, v = Top.node, lowlink[v] = indices[v]
  PROVE  /\ v \in Symbols \ Emitted /\ Above(v) = Cycle(v)
         /\ \A p \in Above(v) : Outgoing(p) \subseteq Emitted \cup Above(v)
<1>1. /\ v \in Gray /\ v \in OnStack /\ LeftOf(v) = {}
      /\ \A g \in Gray : g = v \/ indices[g] < indices[v]
  BY TopFacts
<1>2. /\ edges \in Graphs /\ indices \in [Symbols -> Nat] /\ lowlink \in [Symbols -> Nat]
      /\ Gray \subseteq OnStack /\ OnStack \subseteq Visited /\ Visited \subseteq Symbols
      /\ OnStack \cup Emitted = Visited /\ OnStack \cap Emitted = {}
  BY VisitedType DEF TarjanInv, TarjanTyped, Stacked
<1>3. ASSUME NEW p \in Above(v) PROVE Outgoing(p) \subseteq Emitted \cup Above(v)
  <2>1. p \in OnStack /\ indices[v] <= indices[p] /\ p \in Symbols
    BY <1>2 DEF Above
  <2>2. LeftOf(p) = {}
    <3>1. CASE p = v
      BY <3>1, <1>1
    <3>2. CASE p # v
      <4>1. p \notin Gray
        <5>1. indices[p] \in Nat /\ indices[v] \in Nat
          BY <1>1, <1>2, <2>1
        <5>2. QED
          BY <5>1, <3>2, <1>1, <2>1
      <4>2. {j \in DOMAIN work : work[j].node = p} = {}
        BY <4>1 DEF Gray
      <4>3. QED
        BY <4>2 DEF LeftOf
    <3>3. QED
      BY <3>1, <3>2
  <2>3. Looked(p) = Outgoing(p)
    BY <2>2 DEF Looked
  <2>4. Outgoing(p) \subseteq Visited
    BY <2>1, <2>3, <1>2 DEF TarjanInv, Settled
  <2>5. Owns(v, p)
    <3>1. indices[v] \in Nat /\ \A h \in Gray : indices[h] \in Nat
      BY <1>1, <1>2
    <3>2. \A h \in Gray : indices[h] <= indices[v]
      BY <1>1, <3>1
    <3>3. QED
      BY <3>2, <2>1, <1>1 DEF Owns
  <2>6. ASSUME NEW r \in Outgoing(p) \cap OnStack PROVE r \in Above(v)
    <3>1. lowlink[v] <= indices[r]
      BY <2>1, <2>3, <2>5, <1>1 DEF TarjanInv, Linked
    <3>2. QED
      BY <3>1 DEF Above
  <2>7. QED
    BY <2>4, <2>6, <1>2
<1>4. ASSUME NEW p \in Above(v) PROVE Leads(v, p) /\ Leads(p, v) /\ p \in Symbols
  <2>1. p \in OnStack /\ indices[v] <= indices[p] /\ p \in Symbols
    BY <1>2 DEF Above
  <2>2. Leads(v, p)
    BY <2>1, <1>1 DEF TarjanInv, Connected
  <2>3. PICK g \in Gray : Leads(p, g)
    BY <2>1 DEF TarjanInv, Connected
  <2>4. indices[g] <= indices[v]
    <3>1. indices[v] \in Nat /\ indices[g] \in Nat
      BY <1>1, <1>2
    <3>2. QED
      BY <1>1, <3>1
  <2>5. Leads(g, v)
    BY <2>4, <1>1 DEF TarjanInv, Connected
  <2>6. QED
    BY <2>1, <2>2, <2>3, <2>5, <1>1, <1>2, LeadsFacts
<1>5. ASSUME NEW p \in Cycle(v) PROVE p \in Above(v)
  <2>0. v \in Symbols /\ v \in Above(v)
    <3>1. v \in Symbols /\ indices[v] \in Nat
      BY <1>1, <1>2
    <3>2. QED
      BY <3>1, <1>1 DEF Above
  <2>1. Leads(v, p) /\ Leads(p, v)
    BY <1>5 DEF Cycle, Leads
  <2> DEFINE C == Emitted \cup Above(v)
  <2>2. ClosedUnder(Outgoing, C)
    BY <1>3 DEF ClosedUnder, TarjanInv, Settled
  <2>3. C \subseteq Symbols /\ Emitted \subseteq Symbols
    BY <1>2 DEF Above
  <2>4. p \in C
    BY <2>0, <2>1, <2>2, <2>3, <1>2, LeadsFacts
  <2>5. ClosedUnder(Outgoing, Emitted)
    BY DEF ClosedUnder, TarjanInv, Settled
  <2>6. ASSUME p \in Emitted PROVE FALSE
    <3>1. v \in Emitted
      BY <2>1, <2>3, <2>5, <2>6, <1>2, LeadsFacts
    <3>2. QED
      BY <3>1, <1>1, <1>2
  <2>7. QED
    BY <2>4, <2>6
<1>6. Above(v) = Cycle(v)
  BY <1>4, <1>5 DEF Cycle, Leads
<1>7. QED
  BY <1>1, <1>2, <1>3, <1>6

(* The symbol on top is resumed no more; the one below it takes over its link. *)
LEMMA LeaveEffect ==
  ASSUME TarjanInv, Leave, UNCHANGED edges, NEW v, v = Top.node
  PROVE  /\ work' \in Seq(Entries) /\ DOMAIN work' \subseteq DOMAIN work
         /\ \A i \in DOMAIN work' : work'[i] = work[i]
         /\ Gray' = Gray \ {v} /\ \A q \in Symbols : Looked(q)' = Looked(q)
         /\ lowlink' \in [Symbols -> Nat]
         /\ \A q \in Symbols : \/ lowlink'[q] = lowlink[q]
                               \/ /\ q \in Gray' /\ lowlink[v] < lowlink[q]
                                  /\ lowlink'[q] = lowlink[v]
         /\ \A g \in Gray' : (\A h \in Gray' : indices[h] <= indices[g]) => lowlink'[g] <= lowlink[v]
<1> DEFINE n == Len(work)
           rest == Popped(work)
<1>1. /\ work # <<>> /\ Top.left = {} /\ work' = rest /\ lowlink' = Handed(v, rest)
      /\ UNCHANGED <<counter, indices>>
  BY DEF Leave
<1>2. /\ edges \in Graphs /\ work \in Seq(Entries) /\ lowlink \in [Symbols -> Nat] /\ indices \in [Symbols -> Nat]
      /\ Gray \subseteq Symbols
  BY VisitedType DEF TarjanInv, TarjanTyped, Stacked
<1>3. /\ v \in Gray /\ LeftOf(v) = {} /\ v = work[n].node /\ n \in DOMAIN work
      /\ \A g \in Gray : g = v \/ indices[g] < indices[v]
  BY <1>1, TopFacts
<1>4. n \in Nat /\ n > 0 /\ DOMAIN work = 1 .. n
  BY <1>1, <1>2
<1>5. /\ rest \in Seq(Entries) /\ Len(rest) = n - 1 /\ DOMAIN rest = 1 .. n - 1
      /\ \A i \in 1 .. n - 1 : rest[i] = work[i]
  BY <1>2, <1>4 DEF Popped
<1> HIDE DEF rest, n
<1>6. \A i \in 1 .. n - 1 : i \in 1 .. n /\ i < n
  BY <1>4
<1>7. \A i \in 1 .. n : i \in 1 .. n - 1 \/ i = n
  BY <1>4
<1>8. \A i \in 1 .. n - 1 : work[i].node # v /\ work[i].node \in Symbols
  <2> SUFFICES ASSUME NEW i \in 1 .. n - 1 PROVE work[i].node # v /\ work[i].node \in Symbols
    OBVIOUS
  <2>1. indices[work[i].node] < indices[work[n].node]
    BY <1>4, <1>6, <1>3 DEF TarjanInv, Stacked
  <2>2. v \in Symbols /\ indices[v] \in Nat
    BY <1>2, <1>3
  <2>3. work[i].node \in Gray
    BY <1>4, <1>6 DEF Gray
  <2>4. QED
    BY <2>1, <2>2, <2>3, <1>2, <1>3
<1>9. Gray' = Gray \ {v}
  <2>1. Gray' = {work[i].node : i \in 1 .. n - 1}
    BY <1>1, <1>5 DEF Gray
  <2>2. Gray = {work[i].node : i \in 1 .. n}
    BY <1>4 DEF Gray
  <2>3. QED
    BY <2>1, <2>2, <1>3, <1>6, <1>7, <1>8
<1>10. ASSUME NEW q \in Symbols PROVE Looked(q)' = Looked(q)
  <2> DEFINE J == {j \in DOMAIN work' : work'[j].node = q}
  <2>1. Looked(q)' = Outgoing(q) \ UNION {work'[i].left : i \in J}
    BY DEF Looked, LeftOf, Outgoing
  <2>2. CASE q = v
    <3>1. J = {}
      BY <2>2, <1>1, <1>5, <1>8
    <3>2. QED
      BY <2>1, <2>2, <3>1, <1>3 DEF Looked
  <2>3. CASE q # v
    <3>1. J = {j \in DOMAIN work : work[j].node = q}
      BY <2>3, <1>1, <1>3, <1>4, <1>5, <1>6, <1>7
    <3>2. \A i \in J : work'[i] = work[i]
      BY <1>1, <1>5
    <3>3. Looked(q) = Outgoing(q) \ UNION {work[i].left : i \in J}
      BY <3>1 DEF Looked, LeftOf
    <3> HIDE DEF J
    <3>4. {work'[i].left : i \in J} = {work[i].left : i \in J}
      BY <3>2
    <3>5. QED
      BY <2>1, <3>3, <3>4
  <2>4. QED
    BY <2>2, <2>3
<1>11. v \in Symbols /\ lowlink[v] \in Nat
  BY <1>2, <1>3
<1>12. /\ lowlink' \in [Symbols -> Nat]
       /\ \A q \in Symbols : \/ lowlink'[q] = lowlink[q]
                             \/ /\ q \in Gray' /\ lowlink[v] < lowlink[q]
                                /\ lowlink'[q] = lowlink[v]
       /\ \A g \in Gray' : (\A h \in Gray' : indices[h] <= indices[g]) => lowlink'[g] <= lowlink[v]
  <2>1. CASE rest = <<>>
    <3>1. Gray' = {}
      BY <2>1, <1>1 DEF Gray
    <3>2. lowlink' = lowlink
      BY <2>1, <1>1 DEF Handed
    <3>3. QED
      BY <3>1, <3>2, <1>2
  <2>2. CASE rest # <<>>
    <3> DEFINE u == TopOf(rest).node
    <3>1. n - 1 \in 1 .. n - 1 /\ n - 1 \in 1 .. n
      BY <2>2, <1>4, <1>5
    <3>2. u = work[n - 1].node
      BY <3>1, <1>5 DEF TopOf
    <3>3. u \in Gray' /\ u \in Symbols
      BY <3>1, <3>2, <1>1, <1>5, <1>8 DEF Gray
    <3>4. lowlink' = [lowlink EXCEPT ![u] = IF lowlink[v] < @ THEN lowlink[v] ELSE @]
      BY <2>2, <1>1 DEF Handed
    <3> HIDE DEF u
    <3>5. /\ lowlink' \in [Symbols -> Nat]
          /\ \A q \in Symbols : q # u => lowlink'[q] = lowlink[q]
          /\ lowlink'[u] = IF lowlink[v] < lowlink[u] THEN lowlink[v] ELSE lowlink[u]
      BY <3>3, <3>4, <1>2, <1>11
    <3>6. ASSUME NEW g \in Gray', \A h \in Gray' : indices[h] <= indices[g]
          PROVE  g = u
      <4>1. PICK i \in 1 .. n - 1 : g = work[i].node
        BY <1>1, <1>5 DEF Gray
      <4>2. indices[u] <= indices[g]
        BY <3>3, <3>6
      <4>3. CASE i = n - 1
        BY <4>1, <4>3, <3>2
      <4>4. CASE i # n - 1
        <5>1. i < n - 1 /\ i \in 1 .. n
          BY <4>4, <1>4, <1>6
        <5>2. indices[g] < indices[u]
          BY <5>1, <4>1, <3>1, <3>2, <1>4 DEF TarjanInv, Stacked
        <5>3. indices[g] \in Nat /\ indices[u] \in Nat
          BY <4>1, <3>3, <1>2, <1>8
        <5>4. QED
          BY <4>2, <5>2, <5>3
      <4>5. QED
        BY <4>3, <4>4
    <3>7. lowlink'[u] <= lowlink[v]
      BY <3>3, <3>5, <1>2, <1>11
    <3>8. QED
      BY <3>3, <3>5, <3>6, <3>7
  <2>3. QED
    BY <2>1, <2>2
<1>13. /\ work' \in Seq(Entries) /\ DOMAIN work' \subseteq DOMAIN work
       /\ \A i \in DOMAIN work' : work'[i] = work[i]
  BY <1>1, <1>4, <1>5, <1>6
<1>14. QED
  BY <1>9, <1>10, <1>12, <1>13

(* What the stack and the components are after a symbol is done. *)
LEMMA LeaveStacks ==
  ASSUME TarjanInv, Leave, UNCHANGED edges, NEW v, v = Top.node
  PROVE  /\ UNCHANGED <<counter, indices, Visited>>
         /\ stack' \in Seq(Symbols) /\ DOMAIN stack' \subseteq DOMAIN stack
         /\ \A i \in DOMAIN stack' : stack'[i] = stack[i]
         /\ \/ /\ lowlink[v] = indices[v] /\ OnStack' = OnStack \ Above(v)
               /\ result' = Append(result, Component(v))
               /\ Component(v) \in Seq(Symbols) /\ ElementsOf(Component(v)) = Above(v)
            \/ /\ lowlink[v] # indices[v] /\ UNCHANGED <<OnStack, result>>
<1>1. work # <<>> /\ UNCHANGED <<counter, indices>>
  BY DEF Leave
<1>2. UNCHANGED Visited
  BY <1>1 DEF Visited, Unvisited
<1>3. v \in OnStack
  BY <1>1, TopFacts
<1>4. CASE lowlink[v] = indices[v]
  <2>1. /\ stack' = SubSeq(stack, 1, Len(stack) - Len(Component(v)))
        /\ result' = Append(result, Component(v))
    BY <1>4 DEF Leave
  <2>2. /\ Component(v) \in Seq(Symbols) /\ ElementsOf(Component(v)) = Above(v)
        /\ stack' \in Seq(Symbols) /\ ElementsOf(stack') = OnStack \ Above(v)
        /\ DOMAIN stack' \subseteq DOMAIN stack
        /\ \A i \in DOMAIN stack' : stack'[i] = stack[i]
    BY <2>1, <1>3, ComponentEffect
  <2>3. QED
    BY <1>1, <1>2, <1>4, <2>1, <2>2 DEF OnStack
<1>5. CASE lowlink[v] # indices[v]
  <2>1. UNCHANGED <<stack, result>>
    BY <1>5 DEF Leave
  <2>2. QED
    BY <1>1, <1>2, <1>5, <2>1 DEF OnStack, ElementsOf, TarjanInv, TarjanTyped
<1>6. QED
  BY <1>4, <1>5

(* A symbol that is done is popped with its cycle, or stays on the stack for one
   found before it. *)
LEMMA LeaveKeeps == TarjanInv /\ Leave /\ UNCHANGED edges => TarjanInv'
<1> SUFFICES ASSUME TarjanInv, Leave, UNCHANGED edges PROVE TarjanInv'
  OBVIOUS
<1> DEFINE v == Top.node
<1>1. /\ work' \in Seq(Entries) /\ DOMAIN work' \subseteq DOMAIN work
      /\ \A i \in DOMAIN work' : work'[i] = work[i]
      /\ Gray' = Gray \ {v} /\ \A q \in Symbols : Looked(q)' = Looked(q)
      /\ lowlink' \in [Symbols -> Nat]
      /\ \A q \in Symbols : \/ lowlink'[q] = lowlink[q]
                            \/ /\ q \in Gray' /\ lowlink[v] < lowlink[q]
                               /\ lowlink'[q] = lowlink[v]
      /\ \A g \in Gray' : (\A h \in Gray' : indices[h] <= indices[g]) => lowlink'[g] <= lowlink[v]
  BY LeaveEffect
<1>2. /\ UNCHANGED <<counter, indices, Visited>>
      /\ stack' \in Seq(Symbols) /\ DOMAIN stack' \subseteq DOMAIN stack
      /\ \A i \in DOMAIN stack' : stack'[i] = stack[i]
      /\ \/ /\ lowlink[v] = indices[v] /\ OnStack' = OnStack \ Above(v)
            /\ result' = Append(result, Component(v))
            /\ Component(v) \in Seq(Symbols) /\ ElementsOf(Component(v)) = Above(v)
         \/ /\ lowlink[v] # indices[v] /\ UNCHANGED <<OnStack, result>>
  BY LeaveStacks
<1>3. work # <<>> /\ Top.left = {}
  BY DEF Leave
<1>4. /\ v \in Gray /\ v \in OnStack
      /\ \A g \in Gray : g = v \/ indices[g] < indices[v]
  BY <1>3, TopFacts
<1>5. lowlink[v] = indices[v] =>
        /\ Above(v) = Cycle(v)
        /\ \A p \in Above(v) : Outgoing(p) \subseteq Emitted \cup Above(v)
  BY <1>3, ComponentIsCycle
<1> HIDE DEF v
<1>6. /\ edges \in Graphs /\ counter \in Nat /\ counter = Cardinality(Visited)
      /\ indices \in [Symbols -> Nat] /\ lowlink \in [Symbols -> Nat]
      /\ result \in Seq(Seq(Symbols))
      /\ Gray \subseteq OnStack /\ OnStack \subseteq Visited /\ Visited \subseteq Symbols
      /\ OnStack \cup Emitted = Visited /\ OnStack \cap Emitted = {}
  BY VisitedType DEF TarjanInv, TarjanTyped, Stacked
<1>7. \A p, q : Leads(p, q)' = Leads(p, q)
  BY DEF Leads, References, Following
<1>8. \A q : Outgoing(q)' = Outgoing(q)
  BY DEF Outgoing
<1>9. \A q \in OnStack : q \in Symbols /\ indices[q] \in Nat /\ lowlink[q] \in Nat
  BY <1>6
<1>10. \A q \in OnStack : q \in OnStack' \/ (lowlink[v] = indices[v] /\ indices[v] <= indices[q])
  BY <1>2 DEF Above
<1>11. \A q \in OnStack' : q \in OnStack /\ ~(lowlink[v] = indices[v] /\ indices[v] <= indices[q])
  BY <1>2 DEF Above
<1>12. \A q \in OnStack : indices[q] < indices[v] => q \in OnStack'
  BY <1>4, <1>9, <1>10
<1>13. /\ result' \in Seq(Seq(Symbols))
       /\ Emitted' = IF lowlink[v] = indices[v] THEN Emitted \cup Above(v) ELSE Emitted
  <2>1. CASE lowlink[v] = indices[v]
    <3>1. /\ result' = Append(result, Component(v)) /\ Component(v) \in Seq(Symbols)
          /\ ElementsOf(Component(v)) = Above(v)
      BY <2>1, <1>2
    <3> DEFINE n == Len(result)
    <3>2. /\ n \in Nat /\ DOMAIN result = 1 .. n /\ DOMAIN result' = 1 .. n + 1
          /\ result' \in Seq(Seq(Symbols))
          /\ \A i \in 1 .. n : result'[i] = result[i]
          /\ result'[n + 1] = Component(v)
      BY <3>1, <1>6
    <3> HIDE DEF n
    <3>3. \A i \in 1 .. n + 1 : i \in 1 .. n \/ i = n + 1
      BY <3>2
    <3>4. (\A i \in 1 .. n : i \in 1 .. n + 1) /\ n + 1 \in 1 .. n + 1
      BY <3>2
    <3>5. ASSUME NEW q \in Emitted' PROVE q \in Emitted \cup Above(v)
      <4>1. PICK i \in 1 .. n + 1 : q \in ElementsOf(result'[i])
        BY <3>2 DEF Emitted, ElementsOf
      <4>2. CASE i \in 1 .. n
        BY <4>1, <4>2, <3>2 DEF Emitted
      <4>3. CASE i = n + 1
        BY <4>1, <4>3, <3>1, <3>2
      <4>4. QED
        BY <4>2, <4>3, <3>3
    <3>6. ASSUME NEW q \in Emitted PROVE q \in Emitted'
      <4>1. PICK i \in 1 .. n : q \in ElementsOf(result[i])
        BY <3>2 DEF Emitted
      <4>2. i \in DOMAIN result' /\ q \in ElementsOf(result'[i])
        BY <4>1, <3>2, <3>4
      <4>3. QED
        BY <4>2 DEF Emitted, ElementsOf
    <3>7. ASSUME NEW q \in Above(v) PROVE q \in Emitted'
      <4>1. n + 1 \in DOMAIN result' /\ q \in ElementsOf(result'[n + 1])
        BY <3>1, <3>2, <3>4, <3>7
      <4>2. QED
        BY <4>1 DEF Emitted, ElementsOf
    <3>8. QED
      BY <2>1, <3>2, <3>5, <3>6, <3>7
  <2>2. CASE lowlink[v] # indices[v]
    BY <2>2, <1>2, <1>6 DEF Emitted, ElementsOf
  <2>3. QED
    BY <2>1, <2>2
<1>14. TarjanTyped'
  <2>1. \A i \in DOMAIN work' : work'[i].left \subseteq edges[work'[i].node]
    BY <1>1 DEF TarjanInv, TarjanTyped, Outgoing
  <2>2. (\A i \in DOMAIN work : work[i].left \subseteq Outgoing(work[i].node))'
    BY <2>1 DEF Outgoing
  <2>3. QED
    BY <1>1, <1>2, <1>6, <1>13, <2>2 DEF TarjanTyped
<1>15. Stacked'
  <2>1. \A i, j \in DOMAIN stack' : i < j => indices'[stack'[i]] < indices'[stack'[j]]
    BY <1>2 DEF TarjanInv, Stacked
  <2>2. \A i, j \in DOMAIN work' : i < j => indices'[work'[i].node] < indices'[work'[j].node]
    BY <1>1, <1>2 DEF TarjanInv, Stacked
  <2>3. Gray' \subseteq OnStack'
    BY <1>1, <1>4, <1>6, <1>12
  <2>4. OnStack' \cup Emitted' = Visited' /\ OnStack' \cap Emitted' = {}
    BY <1>2, <1>6, <1>13 DEF Above
  <2>5. \A q \in Visited' : indices'[q] < counter'
    BY <1>2 DEF TarjanInv, Stacked
  <2>6. QED
    BY <2>1, <2>2, <2>3, <2>4, <2>5 DEF Stacked
<1>16. Settled'
  <2>1. \A q \in Visited' : Looked(q)' \subseteq Visited'
    BY <1>1, <1>2, <1>6 DEF TarjanInv, Settled
  <2>2. \A q \in Emitted' : Outgoing(q) \subseteq Emitted'
    BY <1>5, <1>13 DEF TarjanInv, Settled
  <2>3. QED
    BY <2>1, <2>2, <1>8 DEF Settled
<1>17. PICK x \in OnStack : indices[x] = lowlink[v] /\ Leads(v, x)
  BY <1>4 DEF TarjanInv, Linked
<1>18. lowlink[v] <= indices[v]
  BY <1>4 DEF TarjanInv, Linked
<1>19. Connected'
  <2>1. \A g \in Gray', q \in OnStack' : indices[g] <= indices[q] => Leads(g, q)
    BY <1>1, <1>11 DEF TarjanInv, Connected
  <2>2. ASSUME NEW q \in OnStack'
        PROVE  \E g \in Gray' : indices[g] <= indices[q] /\ Leads(q, g)
    <3>1. q \in OnStack
      BY <1>11
    <3>2. PICK g \in Gray : indices[g] <= indices[q] /\ Leads(q, g)
      BY <3>1 DEF TarjanInv, Connected
    <3>3. CASE g # v
      BY <3>2, <3>3, <1>1
    <3>4. CASE g = v
      <4>1. lowlink[v] # indices[v]
        BY <3>2, <3>4, <1>11
      <4>2. indices[x] < indices[v]
        BY <4>1, <1>4, <1>9, <1>17, <1>18
      <4>3. PICK h \in Gray : indices[h] <= indices[x] /\ Leads(x, h)
        BY <1>17 DEF TarjanInv, Connected
      <4>4. /\ indices[h] \in Nat /\ indices[x] \in Nat /\ indices[v] \in Nat /\ indices[q] \in Nat
            /\ h \in Symbols /\ x \in Symbols /\ v \in Symbols /\ q \in Symbols
        BY <3>1, <4>3, <1>4, <1>6, <1>9
      <4>5. h # v /\ indices[h] <= indices[q]
        BY <3>2, <3>4, <4>2, <4>3, <4>4
      <4>6. Leads(q, x)
        BY <3>2, <3>4, <4>4, <1>6, <1>17, LeadsFacts
      <4>7. Leads(q, h)
        BY <4>3, <4>4, <4>6, <1>6, LeadsFacts
      <4>8. QED
        BY <4>5, <4>7, <1>1
    <3>5. QED
      BY <3>3, <3>4
  <2>3. QED
    BY <2>1, <2>2, <1>2, <1>7 DEF Connected
<1>20. Linked'
  <2>1. ASSUME NEW g \in Gray'
        PROVE  /\ lowlink'[g] <= indices[g]
               /\ \E q \in OnStack' : indices[q] = lowlink'[g] /\ Leads(g, q)
    <3>1. /\ g \in Gray /\ g \in Symbols /\ indices[g] < indices[v]
          /\ lowlink[g] \in Nat /\ indices[g] \in Nat /\ indices[v] \in Nat
      BY <1>1, <1>4, <1>6
    <3>2. lowlink[g] <= indices[g]
      BY <3>1 DEF TarjanInv, Linked
    <3>3. CASE lowlink'[g] = lowlink[g]
      <4>1. PICK q \in OnStack : indices[q] = lowlink[g] /\ Leads(g, q)
        BY <3>1 DEF TarjanInv, Linked
      <4>2. indices[q] < indices[v]
        BY <3>1, <3>2, <4>1
      <4>3. QED
        BY <3>2, <3>3, <4>1, <4>2, <1>12
    <3>4. CASE lowlink'[g] = lowlink[v] /\ lowlink[v] < lowlink[g]
      <4>1. lowlink[v] \in Nat
        BY <1>4, <1>9
      <4>2. indices[x] < indices[v] /\ lowlink'[g] <= indices[g]
        BY <3>1, <3>2, <3>4, <4>1, <1>17
      <4>3. Leads(g, v)
        <5>1. indices[g] <= indices[v]
          BY <3>1
        <5>2. QED
          BY <3>1, <5>1, <1>4 DEF TarjanInv, Connected
      <4>4. Leads(g, x)
        BY <3>1, <4>3, <1>4, <1>6, <1>9, <1>17, LeadsFacts
      <4>5. x \in OnStack'
        BY <4>2, <1>12
      <4>6. QED
        BY <3>4, <4>2, <4>4, <4>5, <1>17
    <3>5. QED
      BY <3>1, <3>3, <3>4, <1>1
  <2>2. ASSUME NEW q \in OnStack', NEW p \in Looked(q)' \cap OnStack', NEW g \in Gray', Owns(g, q)'
        PROVE  lowlink'[g] <= indices[p]
    <3>1. /\ q \in OnStack /\ p \in OnStack /\ g \in Gray
          /\ g \in Symbols /\ q \in Symbols /\ p \in Symbols /\ v \in Symbols
      BY <1>1, <1>4, <1>6, <1>11
    <3>2. /\ indices[q] \in Nat /\ indices[p] \in Nat /\ indices[g] \in Nat /\ indices[v] \in Nat
          /\ lowlink[g] \in Nat /\ lowlink[v] \in Nat /\ lowlink'[g] \in Nat
      BY <3>1, <1>1, <1>6
    <3>3. p \in Looked(q) \cap OnStack
      BY <2>2, <3>1, <1>1
    <3>4. /\ indices[g] <= indices[q]
          /\ \A h \in Gray' : indices[h] <= indices[q] => indices[h] <= indices[g]
      BY <2>2, <1>2 DEF Owns
    <3>5. CASE indices[v] <= indices[q]
      <4>1. \A h \in Gray : indices[h] <= indices[v] /\ indices[h] <= indices[q]
        <5> SUFFICES ASSUME NEW h \in Gray PROVE indices[h] <= indices[v] /\ indices[h] <= indices[q]
          OBVIOUS
        <5>1. indices[h] \in Nat
          BY <1>6
        <5>2. QED
          BY <5>1, <3>2, <3>5, <1>4
      <4>2. Owns(v, q)
        BY <4>1, <3>5, <1>4 DEF Owns
      <4>3. lowlink[v] <= indices[p]
        BY <4>2, <3>1, <3>3, <1>4 DEF TarjanInv, Linked
      <4>4. lowlink'[g] <= lowlink[v]
        BY <4>1, <3>4, <1>1
      <4>5. QED
        BY <4>3, <4>4, <3>2
    <3>6. CASE indices[q] < indices[v]
      <4>1. Owns(g, q)
        <5>1. ASSUME NEW h \in Gray, indices[h] <= indices[q] PROVE indices[h] <= indices[g]
          <6>1. h # v
            BY <5>1, <3>2, <3>6
          <6>2. QED
            BY <5>1, <6>1, <3>4, <1>1
        <5>2. QED
          BY <5>1, <3>1, <3>4 DEF Owns
      <4>2. lowlink[g] <= indices[p]
        BY <4>1, <3>1, <3>3 DEF TarjanInv, Linked
      <4>3. lowlink'[g] <= lowlink[g]
        BY <3>1, <3>2, <1>1
      <4>4. QED
        BY <4>2, <4>3, <3>2
    <3>7. QED
      BY <3>2, <3>5, <3>6
  <2>3. QED
    BY <2>1, <2>2, <1>2, <1>7 DEF Linked
<1>21. QED
  BY <1>14, <1>15, <1>16, <1>19, <1>20 DEF TarjanInv

(* Nothing is found at the start. *)
LEMMA StartTopo_Inv == edges \in Graphs /\ StartTopo => TarjanInv
<1> SUFFICES ASSUME edges \in Graphs, StartTopo PROVE TarjanInv
  OBVIOUS
<1>1. /\ work = <<>> /\ counter = 0 /\ stack = <<>> /\ result = <<>>
      /\ indices = [q \in Symbols |-> Unvisited]
      /\ lowlink = [q \in Symbols |-> Unvisited]
  BY DEF StartTopo
<1>2. Visited = {} /\ OnStack = {} /\ Gray = {} /\ Emitted = {}
  BY <1>1 DEF Visited, OnStack, ElementsOf, Gray, Emitted
<1>3. Unvisited \in Nat /\ Cardinality({}) = 0
  BY FS_CardinalityType, FS_EmptySet DEF Unvisited
<1>4. TarjanTyped
  BY <1>1, <1>2, <1>3 DEF TarjanTyped
<1>5. QED
  BY <1>1, <1>2, <1>4 DEF TarjanInv, Stacked, Settled, Connected, Linked

(* Every step of topo_order keeps the invariant. *)
LEMMA TopoStep_Inv == TarjanInv /\ [TopoStep /\ UNCHANGED edges]_<<edges, tarjanVars>> => TarjanInv'
<1>1. TarjanInv /\ UNCHANGED <<edges, tarjanVars>> => TarjanInv'
  <2> SUFFICES ASSUME TarjanInv, UNCHANGED <<edges, tarjanVars>> PROVE TarjanInv'
    OBVIOUS
  <2>1. UNCHANGED <<edges, work, counter, indices, lowlink, stack, result>>
    BY DEF tarjanVars
  <2>2. UNCHANGED <<Visited, Gray, OnStack, Emitted>>
    BY <2>1 DEF Visited, Unvisited, Gray, OnStack, Emitted, ElementsOf
  <2>3. /\ \A q : Outgoing(q)' = Outgoing(q) /\ Looked(q)' = Looked(q)
        /\ \A p, q : Leads(p, q)' = Leads(p, q) /\ Owns(p, q)' = Owns(p, q)
    BY <2>1, <2>2 DEF Outgoing, Looked, LeftOf, Leads, References, Following, Owns
  <2>4. TarjanTyped' /\ Stacked'
    BY <2>1, <2>2, <2>3 DEF TarjanInv, TarjanTyped, Stacked
  <2>5. Settled' /\ Connected' /\ Linked'
    BY <2>1, <2>2, <2>3 DEF TarjanInv, Settled, Connected, Linked
  <2>6. QED
    BY <2>4, <2>5 DEF TarjanInv
<1>2. QED
  BY <1>1, ConnectKeeps, LookAtKeeps, LeaveKeeps DEF TopoStep

(* A step emits nothing, or the cycle of the symbol it leaves, of which all is
   emitted that it references. *)
LEMMA TopoStep_Emits ==
  ASSUME TarjanInv, TopoStep, UNCHANGED edges, result' # result
  PROVE  Promise!Emit
<1> DEFINE v == Top.node
           units == [i \in DOMAIN result |-> ElementsOf(result[i])]
<1>1. Leave /\ work # <<>> /\ Top.left = {}
  BY DEF TopoStep, Connect, LookAt, Leave, Discover
<1>2. /\ lowlink[v] = indices[v] /\ result' = Append(result, Component(v))
      /\ Component(v) \in Seq(Symbols) /\ ElementsOf(Component(v)) = Above(v)
  BY <1>1, LeaveStacks
<1>3. /\ v \in Symbols \ Emitted /\ Above(v) = Cycle(v)
      /\ \A p \in Above(v) : Outgoing(p) \subseteq Emitted \cup Above(v)
  BY <1>1, <1>2, ComponentIsCycle
<1> HIDE DEF v
<1>4. Promise!Emitted = Emitted
  <2>1. ElementsOf(units) = {ElementsOf(result[i]) : i \in DOMAIN result}
    BY DEF ElementsOf
  <2>2. QED
    BY <2>1 DEF Promise!Emitted, Promise!ElementsOf, ElementsOf, Emitted
<1>5. \A q : Promise!Cycle(q) = Cycle(q) /\ Promise!Outgoing(q) = Outgoing(q)
  BY DEF Promise!Cycle, Promise!References, Promise!Following, Promise!Outgoing,
         Cycle, References, Following, Outgoing
<1>6. units' = Append(units, Cycle(v))
  <2> DEFINE n == Len(result)
  <2>1. result \in Seq(Seq(Symbols))
    BY DEF TarjanInv, TarjanTyped
  <2>2. /\ n \in Nat /\ DOMAIN result = 1 .. n /\ DOMAIN result' = 1 .. n + 1
        /\ \A i \in 1 .. n : result'[i] = result[i]
        /\ result'[n + 1] = Component(v)
    BY <1>2, <2>1
  <2> HIDE DEF n
  <2>3. /\ units' = [i \in 1 .. n + 1 |-> ElementsOf(result'[i])]
        /\ units = [i \in 1 .. n |-> ElementsOf(result[i])]
    BY <2>2 DEF ElementsOf
  <2> HIDE DEF units
  <2>4. \A i \in 1 .. n + 1 : units'[i] = IF i = n + 1 THEN Cycle(v) ELSE units[i]
    <3>1. \A i \in 1 .. n + 1 : i = n + 1 \/ i \in 1 .. n
      BY <2>2
    <3>2. ElementsOf(result'[n + 1]) = Cycle(v)
      BY <2>2, <1>2, <1>3
    <3>3. QED
      BY <2>2, <2>3, <3>1, <3>2
  <2>5. Len(units) = n
    BY <2>2, <2>3
  <2>6. Append(units, Cycle(v)) = [i \in 1 .. n + 1 |-> IF i = n + 1 THEN Cycle(v) ELSE units[i]]
    <3>1. Append(units, Cycle(v)) = [i \in 1 .. Len(units) + 1 |-> IF i \in 1 .. Len(units) THEN units[i] ELSE Cycle(v)]
      BY <2>2, <2>3
    <3>2. \A i \in 1 .. n + 1 : i \in 1 .. n <=> i # n + 1
      BY <2>2
    <3>3. QED
      BY <2>5, <3>1, <3>2
  <2>7. QED
    BY <2>3, <2>4, <2>6
<1>7. QED
  BY <1>3, <1>4, <1>5, <1>6 DEF Promise!Emit

(* topo_order emits mutually recursive symbols as one unit and every unit after all
   that it references, on every finite graph. *)
THEOREM TopoOrderImplementsLeafToRoot == TopoSpec => ImplementsLeafToRoot
<1>1. edges \in Graphs /\ StartTopo => TarjanInv
  BY StartTopo_Inv
<1>2. TarjanInv /\ [TopoStep /\ UNCHANGED edges]_<<edges, tarjanVars>> => TarjanInv'
  BY TopoStep_Inv
<1>3. StartTopo => Promise!Begin
  BY DEF StartTopo, Promise!Begin
<1>4. TarjanInv /\ [TopoStep /\ UNCHANGED edges]_<<edges, tarjanVars>>
        => [Promise!Emit]_<<edges, [i \in DOMAIN result |-> ElementsOf(result[i])]>>
  <2> SUFFICES ASSUME TarjanInv, [TopoStep /\ UNCHANGED edges]_<<edges, tarjanVars>>,
                      result' = result
               PROVE  UNCHANGED <<edges, [i \in DOMAIN result |-> ElementsOf(result[i])]>>
    BY TopoStep_Emits DEF tarjanVars
  <2>1. QED
    BY DEF ElementsOf, tarjanVars
<1>5. QED
  BY <1>1, <1>2, <1>3, <1>4, PTL DEF TopoSpec, ImplementsLeafToRoot, Promise!LeafToRoot
=============================================================================
