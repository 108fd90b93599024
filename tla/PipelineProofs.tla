--------------------------- MODULE PipelineProofs ---------------------------
(***************************************************************************)
(* The plan and the edits made from it, for every graph, whatever the      *)
(* gates answer: dead callers go before dead callees, nothing alive is     *)
(* removed, the impacts of the plan cover to the end, and the cascade      *)
(* finds nothing new.                                                      *)
(***************************************************************************)
EXTENDS Pipeline, TraversalProofs

USE GraphAssumption

(* A finite set has a listing in the order of R, if R is a strict total order of
   its members. *)
LEMMA SortedListing ==
  ASSUME NEW S \in SUBSET Symbols, NEW R \in SUBSET (S \X S),
         \A x \in S : <<x, x>> \notin R,
         \A x, y, z \in S : <<x, y>> \in R /\ <<y, z>> \in R => <<x, z>> \in R,
         \A x, y \in S : x = y \/ <<x, y>> \in R \/ <<y, x>> \in R
  PROVE  \E s \in Listings(S) : \A i, j \in DOMAIN s : i < j => <<s[i], s[j]>> \in R
<1> DEFINE n == Cardinality(S)
           B(x) == {y \in S : <<y, x>> \in R}
           rank == [x \in S |-> Cardinality(B(x)) + 1]
<1>0. IsFiniteSet(S)
  BY FS_Subset
<1>1. n \in Nat
  BY <1>0, FS_CardinalityType
<1>2. ASSUME NEW x \in S
      PROVE  /\ IsFiniteSet(B(x)) /\ Cardinality(B(x)) \in Nat
             /\ Cardinality(B(x)) < n
  <2>1. B(x) \in SUBSET S /\ B(x) # S
    OBVIOUS
  <2> HIDE DEF B
  <2>2. /\ IsFiniteSet(B(x)) /\ Cardinality(B(x)) <= n
        /\ (n = Cardinality(B(x)) => S = B(x))
    BY <1>0, <2>1, FS_Subset
  <2>3. Cardinality(B(x)) \in Nat
    BY <2>2, FS_CardinalityType
  <2> HIDE DEF n
  <2>4. QED
    BY <1>1, <2>1, <2>2, <2>3
<1>3. ASSUME NEW x \in S, NEW y \in S, <<x, y>> \in R
      PROVE  Cardinality(B(x)) < Cardinality(B(y))
  <2>1. B(x) \subseteq B(y) /\ x \in B(y) /\ x \notin B(x)
    BY <1>3
  <2>2. IsFiniteSet(B(y)) /\ Cardinality(B(y)) \in Nat /\ Cardinality(B(x)) \in Nat
    BY <1>2
  <2> HIDE DEF B
  <2>3. B(x) \in SUBSET B(y) /\ B(x) # B(y)
    BY <2>1
  <2>4. /\ Cardinality(B(x)) <= Cardinality(B(y))
        /\ Cardinality(B(y)) = Cardinality(B(x)) => B(y) = B(x)
    BY <2>2, <2>3, FS_Subset
  <2>5. QED
    BY <2>2, <2>3, <2>4
<1>4. /\ rank \in [S -> 1 .. n]
      /\ \A x, y \in S : <<x, y>> \in R => rank[x] < rank[y]
  <2>1. \A x \in S : rank[x] = Cardinality(B(x)) + 1 /\ Cardinality(B(x)) + 1 \in 1 .. n
    <3> HIDE DEF B, n
    <3>1. QED
      BY <1>1, <1>2
  <2>2. rank \in [S -> 1 .. n]
    BY <2>1
  <2> HIDE DEF B, n, rank
  <2>3. \A x, y \in S : <<x, y>> \in R => rank[x] < rank[y]
    BY <1>2, <1>3, <2>1
  <2>4. QED
    BY <2>2, <2>3
<1> HIDE DEF rank, B
<1>5. \A x, y \in S : rank[x] = rank[y] => x = y
  <2>1. \A x \in S : rank[x] \in Nat
    <3> HIDE DEF n
    <3>1. QED
      BY <1>1, <1>4
  <2>2. ASSUME NEW x \in S, NEW y \in S, rank[x] = rank[y], x # y PROVE FALSE
    <3>1. rank[x] < rank[y] \/ rank[y] < rank[x]
      BY <1>4, <2>2
    <3>2. QED
      BY <2>1, <2>2, <3>1
  <2>3. QED
    BY <2>2
<1>6. \A i \in 1 .. n : \E x \in S : rank[x] = i
  <2>1. rank \in Injection(S, 1 .. n)
    BY <1>4, <1>5 DEF Injection, IsInjective
  <2>2. IsFiniteSet(1 .. n) /\ Cardinality(1 .. n) = n
    <3> HIDE DEF n
    <3>1. IsFiniteSet(1 .. n) /\ Cardinality(1 .. n) = IF 1 > n THEN 0 ELSE n - 1 + 1
      BY <1>1, FS_Interval
    <3>2. QED
      BY <1>1, <3>1
  <2>3. rank \in Surjection(S, 1 .. n)
    BY <1>0, <2>1, <2>2, FS_Injection
  <2>4. QED
    BY <2>3 DEF Surjection
<1> DEFINE s == [i \in 1 .. n |-> CHOOSE x \in S : rank[x] = i]
<1>7. \A i \in 1 .. n : s[i] \in S /\ rank[s[i]] = i
  BY <1>6
<1>8. s \in [1 .. n -> S] /\ DOMAIN s = 1 .. n
  BY <1>7
<1> HIDE DEF s
<1>9. s \in Listings(S)
  <2>1. ASSUME NEW x \in S PROVE \E i \in DOMAIN s : s[i] = x
    <3>1. rank[x] \in 1 .. n
      BY <1>4
    <3>2. s[rank[x]] = x
      BY <3>1, <1>5, <1>7
    <3>3. QED
      BY <3>1, <3>2, <1>8
  <2>2. QED
    BY <1>8, <2>1 DEF Listings
<1>10. ASSUME NEW i \in DOMAIN s, NEW j \in DOMAIN s, i < j PROVE <<s[i], s[j]>> \in R
  <2>1. /\ s[i] \in S /\ s[j] \in S /\ rank[s[i]] = i /\ rank[s[j]] = j
        /\ i \in 1 .. n /\ j \in 1 .. n
    BY <1>7, <1>8
  <2>2. i \in Nat /\ j \in Nat
    BY <1>1, <2>1
  <2>3. s[i] # s[j] /\ ~ (j < i)
    BY <1>10, <2>1, <2>2
  <2>4. <<s[j], s[i]>> \in R => rank[s[j]] < rank[s[i]]
    BY <1>4, <2>1
  <2>5. QED
    BY <2>1, <2>3, <2>4
<1>11. QED
  BY <1>9, <1>10
-----------------------------------------------------------------------------
(* A component is the cycle of its members, and references nothing that comes
   after it; no symbol is in two. *)
UnitsInv ==
  /\ \A i \in DOMAIN result : \A q \in ElementsOf(result[i]) :
       /\ ElementsOf(result[i]) = Cycle(q)
       /\ \A p \in Outgoing(q) : \E j \in 1 .. i : p \in ElementsOf(result[j])
  /\ \A i, j \in DOMAIN result : i # j => ElementsOf(result[i]) \cap ElementsOf(result[j]) = {}

(* Symbols on one cycle have the same cycle. *)
LEMMA CycleOfMembers ==
  ASSUME edges \in Graphs, NEW v \in Symbols, NEW q \in Cycle(v)
  PROVE  Cycle(q) = Cycle(v)
<1>1. q \in Symbols /\ Leads(v, q) /\ Leads(q, v)
  BY LeadsFacts DEF Cycle, Leads
<1>2. \A u, w \in Symbols : Leads(u, w) /\ Leads(w, u) =>
        \A p : p \in Cycle(u) => p \in Cycle(w)
  <2> SUFFICES ASSUME NEW u \in Symbols, NEW w \in Symbols, Leads(u, w), Leads(w, u),
                      NEW p, Leads(u, p), Leads(p, u)
               PROVE  Leads(w, p) /\ Leads(p, w)
    BY DEF Cycle, Leads
  <2>1. p \in Symbols
    BY LeadsFacts
  <2>2. QED
    BY <2>1, LeadsFacts
<1>3. QED
  BY <1>1, <1>2

LEMMA TopoStep_Units ==
  ASSUME TarjanInv, UnitsInv, TopoStep, UNCHANGED edges
  PROVE  UnitsInv'
<1> DEFINE v == Top.node
           n == Len(result)
<1>1. \A q : Cycle(q)' = Cycle(q) /\ Outgoing(q)' = Outgoing(q)
  BY DEF Cycle, References, Following, Outgoing
<1>2. CASE result' = result
  BY <1>1, <1>2 DEF UnitsInv, ElementsOf
<1>3. CASE result' # result
  <2>1. Leave /\ work # <<>> /\ Top.left = {}
    BY <1>3 DEF TopoStep, Connect, LookAt, Leave, Discover
  <2>2. /\ lowlink[v] = indices[v] /\ result' = Append(result, Component(v))
        /\ Component(v) \in Seq(Symbols) /\ ElementsOf(Component(v)) = Above(v)
    BY <1>3, <2>1, LeaveStacks
  <2>3. /\ v \in Symbols \ Emitted /\ Above(v) = Cycle(v)
        /\ \A p \in Above(v) : Outgoing(p) \subseteq Emitted \cup Above(v)
    BY <2>1, <2>2, ComponentIsCycle
  <2> HIDE DEF v
  <2>4. Above(v) \cap Emitted = {} /\ edges \in Graphs
    BY DEF Above, TarjanInv, TarjanTyped, Stacked
  <2>5. result \in Seq(Seq(Symbols))
    BY DEF TarjanInv, TarjanTyped
  <2>6. /\ n \in Nat /\ DOMAIN result = 1 .. n /\ DOMAIN result' = 1 .. n + 1
        /\ \A i \in 1 .. n : result'[i] = result[i]
        /\ result'[n + 1] = Component(v)
    BY <2>2, <2>5
  <2> HIDE DEF n
  <2>7. /\ \A i \in 1 .. n : ElementsOf(result'[i]) = ElementsOf(result[i])
        /\ ElementsOf(result'[n + 1]) = Above(v)
        /\ \A i \in 1 .. n : ElementsOf(result[i]) \subseteq Emitted
        /\ \A p \in Emitted : \E j \in 1 .. n : p \in ElementsOf(result[j])
    BY <2>2, <2>6 DEF Emitted
  <2>8. \A i \in 1 .. n + 1 : i \in 1 .. n \/ i = n + 1
    BY <2>6
  <2>9. ASSUME NEW i \in 1 .. n + 1, NEW q \in ElementsOf(result'[i])
        PROVE  /\ ElementsOf(result'[i]) = Cycle(q)
               /\ \A p \in Outgoing(q) : \E j \in 1 .. i : p \in ElementsOf(result'[j])
    <3>1. CASE i \in 1 .. n
      <4>1. /\ ElementsOf(result[i]) = Cycle(q)
            /\ \A p \in Outgoing(q) : \E j \in 1 .. i : p \in ElementsOf(result[j])
        BY <2>6, <2>7, <2>9, <3>1 DEF UnitsInv
      <4>2. \A j \in 1 .. i : j \in 1 .. n
        BY <2>6, <3>1
      <4>3. QED
        BY <4>1, <4>2, <2>7, <3>1
    <3>2. CASE i = n + 1
      <4>1. q \in Above(v)
        BY <2>7, <2>9, <3>2
      <4>2. ElementsOf(result'[i]) = Cycle(q)
        BY <4>1, <2>3, <2>4, <2>7, <3>2, CycleOfMembers
      <4>3. ASSUME NEW p \in Outgoing(q) PROVE \E j \in 1 .. i : p \in ElementsOf(result'[j])
        <5>1. CASE p \in Above(v)
          <6>1. i \in 1 .. i /\ p \in ElementsOf(result'[i])
            BY <5>1, <2>6, <2>7, <3>2
          <6>2. QED
            BY <6>1
        <5>2. CASE p \in Emitted
          <6>1. PICK j \in 1 .. n : p \in ElementsOf(result[j])
            BY <5>2, <2>7
          <6>2. j \in 1 .. i /\ p \in ElementsOf(result'[j])
            BY <6>1, <2>6, <2>7, <3>2
          <6>3. QED
            BY <6>2
        <5>3. QED
          BY <4>1, <4>3, <5>1, <5>2, <2>3
      <4>4. QED
        BY <4>2, <4>3
    <3>3. QED
      BY <2>8, <3>1, <3>2
  <2>10. ASSUME NEW i \in 1 .. n + 1, NEW j \in 1 .. n + 1, i # j
         PROVE  ElementsOf(result'[i]) \cap ElementsOf(result'[j]) = {}
    <3>1. CASE i \in 1 .. n /\ j \in 1 .. n
      BY <2>6, <2>7, <2>10, <3>1 DEF UnitsInv
    <3>2. CASE i = n + 1 /\ j \in 1 .. n
      BY <2>4, <2>7, <3>2
    <3>3. CASE j = n + 1 /\ i \in 1 .. n
      BY <2>4, <2>7, <3>3
    <3>4. QED
      BY <2>8, <2>10, <3>1, <3>2, <3>3
  <2>11. QED
    BY <1>1, <2>6, <2>9, <2>10 DEF UnitsInv
<1>4. QED
  BY <1>2, <1>3
-----------------------------------------------------------------------------
(* The component a symbol is in, and the order that Position is the rank in. *)
Place(q) == CHOOSE i \in DOMAIN result : q \in ElementsOf(result[i])

Lower(p, q) == Place(p) < Place(q) \/ (Place(p) = Place(q) /\ p < q)

(* When topo_order is done every symbol has a place. *)
LEMMA PlaceFacts ==
  ASSUME TarjanInv, UnitsInv, Ordered
  PROVE  /\ \A q \in Symbols : /\ Place(q) \in DOMAIN result /\ Place(q) \in Nat
                               /\ q \in ElementsOf(result[Place(q)])
         /\ \A q \in Symbols : \A i \in DOMAIN result : q \in ElementsOf(result[i]) => i = Place(q)
<1>1. work = <<>> /\ Visited = Symbols
  BY DEF Ordered
<1>2. Gray = {}
  BY <1>1 DEF Gray
<1>3. OnStack = {}
  BY <1>2 DEF TarjanInv, Connected
<1>4. Emitted = Symbols
  BY <1>1, <1>3 DEF TarjanInv, Stacked
<1>5. result \in Seq(Seq(Symbols))
  BY DEF TarjanInv, TarjanTyped
<1>6. DOMAIN result \subseteq Nat
  BY <1>5
<1>7. \A q \in Symbols : \E i \in DOMAIN result : q \in ElementsOf(result[i])
  BY <1>4 DEF Emitted
<1>8. \A q \in Symbols : Place(q) \in DOMAIN result /\ q \in ElementsOf(result[Place(q)])
  BY <1>7 DEF Place
<1>9. ASSUME NEW q \in Symbols, NEW i \in DOMAIN result, q \in ElementsOf(result[i])
      PROVE  i = Place(q)
  BY <1>8, <1>9 DEF UnitsInv
<1>10. QED
  BY <1>6, <1>8, <1>9

(* Position is a strict rank. *)
LEMMA PositionFacts ==
  ASSUME TarjanInv, UnitsInv, Ordered
  PROVE  /\ \A q \in Symbols : Position(q) \in Nat
         /\ \A p, q \in Symbols : Lower(p, q) => Position(p) < Position(q)
         /\ \A p, q \in Symbols : p = q \/ Position(p) < Position(q) \/ Position(q) < Position(p)
<1>1. \A q \in Symbols : Place(q) \in Nat /\ q \in Nat
  BY PlaceFacts
<1> DEFINE B(q) == {p \in Symbols : Lower(p, q)}
<1>2. \A q : Position(q) = Cardinality(B(q))
  BY DEF Position, Place, Lower
<1>3. ASSUME NEW q \in Symbols
      PROVE  IsFiniteSet(B(q)) /\ Cardinality(B(q)) \in Nat
  <2>1. IsFiniteSet(B(q))
    BY FS_Subset
  <2>2. QED
    BY <2>1, FS_CardinalityType
<1>4. ASSUME NEW p \in Symbols, NEW q \in Symbols, Lower(p, q)
      PROVE  Cardinality(B(p)) < Cardinality(B(q))
  <2>1. p \in B(q)
    BY <1>4
  <2>2. p \notin B(p)
    BY <1>1 DEF Lower
  <2>3. ASSUME NEW x \in B(p) PROVE x \in B(q)
    <3>1. x \in Symbols /\ Lower(x, p)
      BY <2>3
    <3>2. Place(x) \in Nat /\ Place(p) \in Nat /\ Place(q) \in Nat /\ x \in Nat /\ p \in Nat /\ q \in Nat
      BY <3>1, <1>1
    <3>3. Lower(x, q)
      BY <3>1, <3>2, <1>4 DEF Lower
    <3>4. QED
      BY <3>1, <3>3
  <2>4. /\ IsFiniteSet(B(q)) /\ Cardinality(B(q)) \in Nat
        /\ Cardinality(B(p)) \in Nat
    BY <1>3
  <2> HIDE DEF B
  <2>5. B(p) \in SUBSET B(q) /\ B(p) # B(q)
    BY <2>1, <2>2, <2>3
  <2>6. /\ Cardinality(B(p)) <= Cardinality(B(q))
        /\ Cardinality(B(q)) = Cardinality(B(p)) => B(q) = B(p)
    BY <2>4, <2>5, FS_Subset
  <2>7. QED
    BY <2>4, <2>5, <2>6
<1> HIDE DEF B
<1>5. ASSUME NEW p \in Symbols, NEW q \in Symbols, p # q PROVE Lower(p, q) \/ Lower(q, p)
  <2>1. Place(p) \in Nat /\ Place(q) \in Nat /\ p \in Nat /\ q \in Nat
    BY <1>1
  <2>2. QED
    BY <2>1, <1>5 DEF Lower
<1>6. QED
  BY <1>2, <1>3, <1>4, <1>5
-----------------------------------------------------------------------------
(* The lists of the plan exist: of the dead, callers first, and of the modules. *)
LEMMA ListedInOrder ==
  ASSUME TarjanInv, UnitsInv, Ordered, NEW S, S \subseteq Symbols
  PROVE  LET pos == [q \in Symbols |-> Position(q)]
             down == InOrder(S, LAMBDA p, q : RemovedEarlier(pos, p, q))
             up == InOrder(S, LAMBDA p, q : pos[p] < pos[q])
         IN  /\ down \in Listings(S) /\ up \in Listings(S)
             /\ \A i, j \in DOMAIN down : i < j => Position(down[i]) > Position(down[j])
<1> DEFINE pos == [q \in Symbols |-> Position(q)]
           Up == {r \in S \X S : pos[r[1]] < pos[r[2]]}
           Down == {r \in S \X S : pos[r[1]] > pos[r[2]]}
<1>1. /\ \A q \in S : pos[q] = Position(q) /\ pos[q] \in Nat
      /\ \A p, q \in S : p = q \/ pos[p] < pos[q] \/ pos[q] < pos[p]
  BY PositionFacts
<1> HIDE DEF pos
<1>3. /\ Up \in SUBSET (S \X S) /\ Down \in SUBSET (S \X S)
      /\ \A p, q \in S : /\ <<p, q>> \in Up <=> pos[p] < pos[q]
                         /\ <<p, q>> \in Down <=> pos[p] > pos[q]
  OBVIOUS
<1> HIDE DEF Up, Down
<1>4. \E s \in Listings(S) : \A i, j \in DOMAIN s : i < j => <<s[i], s[j]>> \in Up
  <2>1. /\ \A x \in S : <<x, x>> \notin Up
        /\ \A x, y, z \in S : <<x, y>> \in Up /\ <<y, z>> \in Up => <<x, z>> \in Up
        /\ \A x, y \in S : x = y \/ <<x, y>> \in Up \/ <<y, x>> \in Up
    BY <1>1, <1>3
  <2>2. QED
    BY <1>3, <2>1, SortedListing
<1>5. \E s \in Listings(S) : \A i, j \in DOMAIN s : i < j => <<s[i], s[j]>> \in Down
  <2>1. /\ \A x \in S : <<x, x>> \notin Down
        /\ \A x, y, z \in S : <<x, y>> \in Down /\ <<y, z>> \in Down => <<x, z>> \in Down
        /\ \A x, y \in S : x = y \/ <<x, y>> \in Down \/ <<y, x>> \in Down
    BY <1>1, <1>3
  <2>2. QED
    BY <1>3, <2>1, SortedListing
<1>6. \A s \in Listings(S) : \A i \in DOMAIN s : s[i] \in S
  BY DEF Listings
<1>7. \E s \in Listings(S) : \A i, j \in DOMAIN s : i < j => pos[s[i]] < pos[s[j]]
  BY <1>3, <1>4, <1>6
<1>8. \E s \in Listings(S) : \A i, j \in DOMAIN s : i < j => RemovedEarlier(pos, s[i], s[j])
  BY <1>3, <1>5, <1>6 DEF RemovedEarlier
<1> DEFINE down == InOrder(S, LAMBDA p, q : RemovedEarlier(pos, p, q))
           up == InOrder(S, LAMBDA p, q : pos[p] < pos[q])
<1>9. up \in Listings(S)
  BY <1>7 DEF InOrder
<1>10. /\ down \in Listings(S)
       /\ \A i, j \in DOMAIN down : i < j => RemovedEarlier(pos, down[i], down[j])
  BY <1>8 DEF InOrder
<1> HIDE DEF down, up
<1>11. ASSUME NEW i \in DOMAIN down, NEW j \in DOMAIN down, i < j
       PROVE  Position(down[i]) > Position(down[j])
  <2>1. down[i] \in S /\ down[j] \in S /\ pos[down[i]] > pos[down[j]]
    BY <1>6, <1>10, <1>11 DEF RemovedEarlier
  <2>2. QED
    BY <1>1, <2>1
<1>12. QED
  BY <1>9, <1>10, <1>11 DEF down, up, pos
-----------------------------------------------------------------------------
(* I holds whatever depends on q. *)
Covers(I, q) == I \subseteq Symbols /\ Dependents(q) \subseteq I /\ ClosedUnder(Dependents, I)

Items == [kind : {"remove_dead_code", "cleanup"}, target : Symbols, impact : SUBSET Symbols]

(* Every dead symbol has its item, before those it references; what an item says
   is what the traversals found. *)
WorklistInv ==
  /\ worklist \in Seq(Items)
  /\ \A i \in DOMAIN worklist :
       \/ \E q \in Dead : worklist[i] = RemovalItem(q)
       \/ \E m \in Modules : worklist[i] = CleanupItem(m)
  /\ \A q \in Dead : \E i \in Removals : worklist[i].target = q
  /\ \A i, j \in Removals : i < j => Position(worklist[i].target) > Position(worklist[j].target)

Assessed ==
  /\ DOMAIN impacts \subseteq Symbols \ Modules
  /\ \A q \in DOMAIN impacts : Covers(impacts[q], q)

LEMMA PlanMakes ==
  ASSUME TarjanInv, UnitsInv, Ordered, ReachInv, Assessed, DOMAIN impacts = Symbols \ Modules, Plan
  PROVE  WorklistInv'
<1> DEFINE pos == [q \in Symbols |-> Position(q)]
           r == InOrder(Dead, LAMBDA p, q : RemovedEarlier(pos, p, q))
           c == InOrder(Modules, LAMBDA p, q : pos[p] < pos[q])
           R == [i \in DOMAIN r |-> RemovalItem(r[i])]
           C == [i \in DOMAIN c |-> CleanupItem(c[i])]
<1>1. worklist' = R \o C /\ UNCHANGED <<reach, impacts, result>>
  BY DEF Plan, reachVars, tarjanVars
<1>2. Dead \subseteq Symbols /\ Modules \subseteq Symbols /\ Dead \subseteq Symbols \ Modules
  BY ModulesAssumption DEF Dead
<1>3. /\ r \in Listings(Dead) /\ c \in Listings(Modules)
      /\ \A i, j \in DOMAIN r : i < j => Position(r[i]) > Position(r[j])
  BY <1>2, ListedInOrder
<1> HIDE DEF r, c
<1>4. /\ r \in Seq(Symbols) /\ ElementsOf(r) = Dead
      /\ c \in Seq(Symbols) /\ ElementsOf(c) = Modules
  BY <1>2, <1>3, ListingElements
<1>5. \A q \in Dead : RemovalItem(q) \in Items /\ RemovalItem(q).kind = "remove_dead_code"
                        /\ RemovalItem(q).target = q
  <2> SUFFICES ASSUME NEW q \in Dead
               PROVE  RemovalItem(q) \in Items /\ RemovalItem(q).kind = "remove_dead_code"
                        /\ RemovalItem(q).target = q
    OBVIOUS
  <2>1. impacts[q] \in SUBSET Symbols /\ q \in Symbols
    BY <1>2 DEF Assessed, Covers
  <2>2. QED
    BY <2>1 DEF RemovalItem, Items
<1>6. \A m \in Modules : CleanupItem(m) \in Items /\ CleanupItem(m).kind = "cleanup"
  <2> SUFFICES ASSUME NEW m \in Modules
               PROVE  CleanupItem(m) \in Items /\ CleanupItem(m).kind = "cleanup"
    OBVIOUS
  <2>1. \A q \in Functions(m) : impacts[q] \subseteq Symbols
    BY DEF Functions, Assessed, Covers
  <2>2. ModuleImpact(m) \in SUBSET Symbols
    BY <2>1 DEF ModuleImpact
  <2>3. QED
    BY <2>2, <1>2 DEF CleanupItem, Items
<1> DEFINE n == Len(r)
           k == Len(c)
<1>7. /\ n \in Nat /\ DOMAIN r = 1 .. n /\ \A i \in 1 .. n : r[i] \in Dead
      /\ k \in Nat /\ DOMAIN c = 1 .. k /\ \A i \in 1 .. k : c[i] \in Modules
  <2>1. n \in Nat /\ DOMAIN r = 1 .. n /\ k \in Nat /\ DOMAIN c = 1 .. k
    BY <1>4
  <2>2. QED
    BY <2>1, <1>4 DEF ElementsOf
<1> HIDE DEF n, k
<1>8. /\ R \in Seq(Items) /\ Len(R) = n /\ \A i \in 1 .. n : R[i] = RemovalItem(r[i])
      /\ C \in Seq(Items) /\ Len(C) = k /\ \A i \in 1 .. k : C[i] = CleanupItem(c[i])
  BY <1>5, <1>6, <1>7
<1> HIDE DEF R, C, pos
<1>9. /\ worklist' \in Seq(Items) /\ DOMAIN worklist' = 1 .. n + k
      /\ \A i \in 1 .. n : worklist'[i] = RemovalItem(r[i])
      /\ \A i \in 1 .. n + k : i \notin 1 .. n => i - n \in 1 .. k /\ worklist'[i] = CleanupItem(c[i - n])
  <2>1. /\ R \o C \in Seq(Items) /\ Len(R \o C) = n + k
        /\ \A i \in 1 .. n : (R \o C)[i] = R[i]
        /\ \A i \in 1 .. n + k : i \notin 1 .. n => (R \o C)[i] = C[i - n]
    <3>1. \A i \in 1 .. n + k : i \notin 1 .. n => i > n
      BY <1>7
    <3>2. QED
      BY <1>7, <1>8, <3>1
  <2>2. \A i \in 1 .. n + k : i \notin 1 .. n => i - n \in 1 .. k
    BY <1>7
  <2>3. QED
    BY <1>1, <1>8, <2>1, <2>2
<1>10. UNCHANGED Dead /\ \A q : RemovalItem(q)' = RemovalItem(q) /\ CleanupItem(q)' = CleanupItem(q)
                               /\ Position(q)' = Position(q)
  BY <1>1 DEF Dead, RemovalItem, CleanupItem, ModuleImpact, Position, ElementsOf
<1>11. \A i \in DOMAIN worklist' :
         \/ \E q \in Dead : worklist'[i] = RemovalItem(q)
         \/ \E m \in Modules : worklist'[i] = CleanupItem(m)
  BY <1>7, <1>9
<1>12. Removals' = 1 .. n /\ \A i \in 1 .. n : worklist'[i].target = r[i]
  <2>1. \A i \in 1 .. n : i \in 1 .. n + k
    BY <1>7
  <2>2. \A i \in 1 .. n + k : worklist'[i].kind = "remove_dead_code" <=> i \in 1 .. n
    BY <1>5, <1>6, <1>7, <1>9, <2>1
  <2>3. QED
    BY <1>5, <1>7, <1>9, <2>1, <2>2 DEF Removals
<1>13. \A q \in Dead : \E i \in Removals' : worklist'[i].target = q
  BY <1>4, <1>7, <1>12 DEF ElementsOf
<1>14. \A i, j \in Removals' : i < j => Position(worklist'[i].target) > Position(worklist'[j].target)
  BY <1>3, <1>7, <1>12
<1>15. (\A i, j \in Removals : i < j => Position(worklist[i].target) > Position(worklist[j].target))'
  BY <1>10, <1>14
<1>16. QED
  BY <1>9, <1>10, <1>11, <1>13, <1>15 DEF WorklistInv
-----------------------------------------------------------------------------
(* What the plan has found so far, and the worklist when it is made. *)
Found ==
  /\ phase \in {"order", "reach", "impact", "plan", "planned"}
  /\ phase # "order" => Ordered
  /\ phase \notin {"order", "reach"} => ReachFound
  /\ Assessed
  /\ phase = "impact" => target \in Symbols \ Modules
  /\ phase \in {"plan", "planned"} => DOMAIN impacts = Symbols \ Modules
  /\ Planned => WorklistInv

PlanInv == TarjanInv /\ UnitsInv /\ ReachInv /\ ImpactInv /\ Found

(* The traversals that a step leaves alone. *)
LEMMA TopoStays ==
  ASSUME TarjanInv, UnitsInv, UNCHANGED <<edges, tarjanVars>>
  PROVE  TarjanInv' /\ UnitsInv' /\ UNCHANGED Ordered
<1>1. UNCHANGED <<edges, work, indices, result>>
  BY DEF tarjanVars
<1>2. TarjanInv'
  BY TopoStep_Inv
<1>3. \A q : Cycle(q)' = Cycle(q) /\ Outgoing(q)' = Outgoing(q)
  BY <1>1 DEF Cycle, References, Following, Outgoing
<1>4. UnitsInv'
  BY <1>1, <1>3 DEF UnitsInv, ElementsOf
<1>5. UNCHANGED Ordered
  BY <1>1 DEF Ordered, Visited, Unvisited
<1>6. QED
  BY <1>2, <1>4, <1>5

LEMMA ReachStays == ReachInv /\ UNCHANGED <<edges, reachVars>> => ReachInv' /\ UNCHANGED ReachFound
BY DEF ReachInv, reachVars, ClosedUnder, Outgoing, ElementsOf, ReachFound

LEMMA ImpactStays == ImpactInv /\ UNCHANGED <<edges, impactVars>> => ImpactInv'
<1> SUFFICES ASSUME ImpactInv, UNCHANGED <<edges, impactVars>> PROVE ImpactInv'
  OBVIOUS
<1>1. UNCHANGED <<edges, target, pending, impact>> /\ \A q : Dependents(q)' = Dependents(q)
  BY DEF impactVars, Dependents
<1>2. ElementsOf(pending)' = ElementsOf(pending)
  BY <1>1 DEF ElementsOf
<1>3. \A C \in SUBSET Symbols :
        Dependents(target)' \subseteq C /\ ClosedUnder(Dependents, C)' => impact' \subseteq C
  BY <1>1 DEF ImpactInv, ClosedUnder
<1>4. \A x \in impact \cup {target} : x \in ElementsOf(pending)' \/ Dependents(x)' \subseteq impact
  BY <1>1, <1>2 DEF ImpactInv
<1>5. QED
  BY <1>1, <1>2, <1>3, <1>4 DEF ImpactInv

LEMMA AssessedStays == Assessed /\ UNCHANGED <<edges, impacts>> => Assessed'
BY DEF Assessed, Covers, Dependents, ClosedUnder

LEMMA WorklistStays ==
  WorklistInv /\ UNCHANGED <<reach, result, impacts, worklist>> => WorklistInv'
<1> SUFFICES ASSUME WorklistInv, UNCHANGED <<reach, result, impacts, worklist>> PROVE WorklistInv'
  OBVIOUS
<1>1. UNCHANGED <<Dead, Removals>>
  BY DEF Dead, Removals
<1>2. \A q : RemovalItem(q)' = RemovalItem(q) /\ CleanupItem(q)' = CleanupItem(q)
                               /\ Position(q)' = Position(q)
  BY DEF RemovalItem, CleanupItem, ModuleImpact, Position, ElementsOf
<1>3. QED
  BY <1>1, <1>2 DEF WorklistInv

LEMMA PlanInv_Init == Init => PlanInv
<1> SUFFICES ASSUME Init PROVE PlanInv
  OBVIOUS
<1>1. /\ edges \in Graphs /\ StartTopo /\ ReachInit /\ ImpactInit
      /\ phase = "order" /\ impacts = <<>>
  BY DEF Init
<1>2. TarjanInv /\ ReachInv /\ ImpactInv
  BY <1>1, StartTopo_Inv, ReachInit_Inv, ImpactInit_Inv
<1>3. UnitsInv
  <2>1. DOMAIN result = {}
    BY <1>1 DEF StartTopo
  <2>2. QED
    BY <2>1 DEF UnitsInv
<1>4. DOMAIN impacts = {}
  BY <1>1
<1>5. Found
  BY <1>1, <1>4 DEF Found, Assessed, Planned
<1>6. QED
  BY <1>2, <1>3, <1>5 DEF PlanInv

(* Starting on the next symbol, or on the worklist. *)
LEMMA Assess_Inv ==
  ASSUME edges \in Graphs, NEW found, DOMAIN found \subseteq Symbols \ Modules, ImpactInv,
         Assess(found), UNCHANGED edges
  PROVE  /\ ImpactInv'
         /\ \/ phase' = "plan" /\ DOMAIN found = Symbols \ Modules
            \/ phase' = "impact" /\ target' \in Symbols \ Modules
<1> DEFINE left == (Symbols \ Modules) \ DOMAIN found
<1>1. CASE left = {}
  <2>1. phase' = "plan" /\ UNCHANGED impactVars
    BY <1>1 DEF Assess
  <2>2. DOMAIN found = Symbols \ Modules
    BY <1>1
  <2>3. QED
    BY <2>1, <2>2, ImpactStays
<1>2. CASE left # {}
  <2>1. phase' = "impact" /\ StartImpact(Least(left))
    BY <1>2 DEF Assess
  <2>2. left \in SUBSET Nat
    OBVIOUS
  <2>3. Least(left) \in left
    BY <1>2, <2>2, LeastIsMember
  <2>4. /\ target' = Least(left) /\ pending' = <<target'>> /\ impact' = {}
        /\ target' \in Symbols /\ target' \in Symbols \ Modules
    BY <2>1, <2>3 DEF StartImpact
  <2>5. edges' \in Graphs /\ ImpactInit'
    BY <2>4 DEF ImpactInit
  <2>6. ImpactInv'
    <3>1. (edges \in Graphs /\ ImpactInit => ImpactInv)'
      BY ImpactInit_Inv, PTL
    <3>2. QED
      BY <2>5, <3>1
  <2>7. QED
    BY <2>1, <2>4, <2>6
<1>3. QED
  BY <1>1, <1>2

(* Every step of the plan keeps the invariant. *)
LEMMA PlanInv_Next == PlanInv /\ [Next]_vars => PlanInv'
<1> SUFFICES ASSUME PlanInv, [Next]_vars PROVE PlanInv'
  OBVIOUS
<1>0. TarjanInv /\ UnitsInv /\ ReachInv /\ ImpactInv /\ Found /\ edges \in Graphs
  BY DEF PlanInv, TarjanInv, TarjanTyped
<1>1. CASE OrderStep
  <2>1. /\ phase = "order" /\ phase' = "order" /\ TopoStep
        /\ UNCHANGED <<edges, reachVars, impactVars, impacts, worklist>>
    BY <1>1 DEF OrderStep
  <2>2. TarjanInv' /\ UnitsInv'
    BY <1>0, <2>1, TopoStep_Inv, TopoStep_Units
  <2>3. ReachInv' /\ ImpactInv'
    BY <1>0, <2>1, ReachStays, ImpactStays
  <2>4. Found'
    BY <1>0, <2>1, AssessedStays DEF Found, Planned
  <2>5. QED
    BY <2>2, <2>3, <2>4 DEF PlanInv
<1>2. CASE OrderDone
  <2>1. /\ phase = "order" /\ phase' = "reach" /\ Ordered
        /\ UNCHANGED <<edges, tarjanVars, reachVars, impactVars, impacts, worklist>>
    BY <1>2 DEF OrderDone
  <2>2. TarjanInv' /\ UnitsInv' /\ ReachInv' /\ ImpactInv' /\ Ordered'
    BY <1>0, <2>1, TopoStays, ReachStays, ImpactStays
  <2>3. Found'
    BY <1>0, <2>1, <2>2, AssessedStays DEF Found, Planned
  <2>4. QED
    BY <2>2, <2>3 DEF PlanInv
<1>3. CASE ReachStep
  <2>1. /\ phase = "reach" /\ phase' = "reach" /\ VisitReach
        /\ UNCHANGED <<edges, tarjanVars, impactVars, impacts, worklist>>
    BY <1>3 DEF ReachStep
  <2>2. TarjanInv' /\ UnitsInv' /\ ReachInv' /\ ImpactInv' /\ (Ordered => Ordered')
    BY <1>0, <2>1, TopoStays, VisitReach_Inv, ImpactStays
  <2>3. Found'
    BY <1>0, <2>1, <2>2, AssessedStays DEF Found, Planned
  <2>4. QED
    BY <2>2, <2>3 DEF PlanInv
<1>4. CASE ReachDone
  <2>1. /\ phase = "reach" /\ ReachFound /\ Assess(impacts)
        /\ UNCHANGED <<edges, tarjanVars, reachVars, impacts, worklist>>
    BY <1>4 DEF ReachDone
  <2>2. TarjanInv' /\ UnitsInv' /\ ReachInv' /\ Ordered' /\ ReachFound' /\ Assessed'
    BY <1>0, <2>1, TopoStays, ReachStays, AssessedStays DEF Found
  <2>3. /\ ImpactInv'
        /\ \/ phase' = "plan" /\ DOMAIN impacts = Symbols \ Modules
           \/ phase' = "impact" /\ target' \in Symbols \ Modules
    BY <1>0, <2>1, Assess_Inv DEF Found, Assessed
  <2>4. Found'
    BY <2>1, <2>2, <2>3 DEF Found, Planned
  <2>5. QED
    BY <2>2, <2>3, <2>4 DEF PlanInv
<1>5. CASE ImpactStep
  <2>1. /\ phase = "impact" /\ phase' = "impact" /\ VisitImpact
        /\ UNCHANGED <<edges, tarjanVars, reachVars, impacts, worklist>>
    BY <1>5 DEF ImpactStep
  <2>2. TarjanInv' /\ UnitsInv' /\ ReachInv' /\ ImpactInv' /\ Ordered' /\ ReachFound' /\ Assessed'
    BY <1>0, <2>1, TopoStays, ReachStays, VisitImpact_Inv, AssessedStays DEF Found
  <2>3. target' = target
    BY <2>1 DEF VisitImpact
  <2>4. Found'
    BY <1>0, <2>1, <2>2, <2>3 DEF Found, Planned
  <2>5. QED
    BY <2>2, <2>4 DEF PlanInv
<1>6. CASE ImpactDone
  <2>1. /\ phase = "impact" /\ pending = <<>> /\ Assess(impacts')
        /\ impacts' = [q \in DOMAIN impacts \cup {target} |-> IF q = target THEN impact ELSE impacts[q]]
        /\ UNCHANGED <<edges, tarjanVars, reachVars, worklist>>
    BY <1>6 DEF ImpactDone, ImpactFound
  <2>2. TarjanInv' /\ UnitsInv' /\ ReachInv' /\ Ordered' /\ ReachFound'
    BY <1>0, <2>1, TopoStays, ReachStays DEF Found
  <2>3. Covers(impact, target)
    <3>1. ElementsOf(pending) = {}
      BY <2>1 DEF ElementsOf
    <3>2. QED
      BY <1>0, <3>1 DEF ImpactInv, Covers, ClosedUnder
  <2>4. /\ target \in Symbols \ Modules /\ DOMAIN impacts \subseteq Symbols \ Modules
        /\ \A q \in DOMAIN impacts : Covers(impacts[q], q)
    BY <1>0, <2>1 DEF Found, Assessed
  <2>5. /\ DOMAIN impacts' \subseteq Symbols \ Modules
        /\ \A q \in DOMAIN impacts' : Covers(impacts'[q], q)
    BY <2>1, <2>3, <2>4
  <2>6. Assessed'
    <3>1. (\A q \in DOMAIN impacts : Covers(impacts[q], q))'
      BY <2>1, <2>5 DEF Covers, ClosedUnder, Dependents
    <3>2. QED
      BY <2>5, <3>1 DEF Assessed
  <2>7. /\ ImpactInv'
        /\ \/ phase' = "plan" /\ DOMAIN impacts' = Symbols \ Modules
           \/ phase' = "impact" /\ target' \in Symbols \ Modules
    BY <1>0, <2>1, <2>5, Assess_Inv
  <2>8. Found'
    BY <2>2, <2>6, <2>7 DEF Found, Planned
  <2>9. QED
    BY <2>2, <2>7, <2>8 DEF PlanInv
<1>7. CASE Plan
  <2>1. /\ phase = "plan" /\ phase' = "planned"
        /\ UNCHANGED <<edges, tarjanVars, reachVars, impactVars, impacts>>
    BY <1>7 DEF Plan
  <2>2. TarjanInv' /\ UnitsInv' /\ ReachInv' /\ ImpactInv' /\ Ordered' /\ ReachFound' /\ Assessed'
    BY <1>0, <2>1, TopoStays, ReachStays, ImpactStays, AssessedStays DEF Found
  <2>3. WorklistInv'
    BY <1>0, <1>7, <2>1, PlanMakes DEF Found
  <2>4. Found'
    BY <1>0, <2>1, <2>2, <2>3 DEF Found, Planned
  <2>5. QED
    BY <2>2, <2>4 DEF PlanInv
<1>8. CASE UNCHANGED vars
  <2>1. UNCHANGED <<edges, tarjanVars, reachVars, impactVars, phase, impacts, worklist>>
    BY <1>8 DEF vars
  <2>2. /\ TarjanInv' /\ UnitsInv' /\ ReachInv' /\ ImpactInv' /\ Assessed'
        /\ UNCHANGED <<Ordered, ReachFound>>
    BY <1>0, <2>1, TopoStays, ReachStays, ImpactStays, AssessedStays DEF Found
  <2>3. Planned => WorklistInv'
    BY <1>0, <2>1, WorklistStays DEF Found, tarjanVars, reachVars
  <2>4. Found'
    BY <1>0, <2>1, <2>2, <2>3 DEF Found, Planned, impactVars
  <2>5. QED
    BY <2>2, <2>4 DEF PlanInv
<1>9. QED
  BY <1>1, <1>2, <1>3, <1>4, <1>5, <1>6, <1>7, <1>8 DEF Next

(* A removal is that of a dead symbol. *)
LEMMA RemovalFacts ==
  ASSUME WorklistInv, NEW i \in Removals
  PROVE  worklist[i].target \in Dead /\ worklist[i] = RemovalItem(worklist[i].target)
<1>1. i \in DOMAIN worklist /\ worklist[i].kind = "remove_dead_code"
  BY DEF Removals
<1>2. \A m : worklist[i] # CleanupItem(m)
  BY <1>1 DEF CleanupItem
<1>3. PICK q \in Dead : worklist[i] = RemovalItem(q)
  BY <1>1, <1>2 DEF WorklistInv
<1>4. QED
  BY <1>3 DEF RemovalItem

LEMMA PlanCallersFirst == PlanInv => CallersGoFirst
<1> SUFFICES ASSUME PlanInv, Planned, NEW i \in Removals,
                    NEW p \in Dependents(worklist[i].target) \cap Dead
             PROVE  \/ p \in Cycle(worklist[i].target)
                    \/ \E j \in Removals : j < i /\ worklist[j].target = p
  BY DEF CallersGoFirst
<1> DEFINE t == worklist[i].target
<1>1. TarjanInv /\ UnitsInv /\ Ordered /\ WorklistInv
  BY DEF PlanInv, Found, Planned
<1>2. t \in Dead
  BY <1>1, RemovalFacts
<1>3. p \in Dead /\ t \in Outgoing(p)
  BY DEF Dependents, Outgoing
<1>4. Dead \subseteq Symbols
  BY ModulesAssumption DEF Dead
<1> HIDE DEF t
<1>5. /\ Place(p) \in DOMAIN result /\ Place(p) \in Nat /\ p \in ElementsOf(result[Place(p)])
      /\ Place(t) \in DOMAIN result /\ Place(t) \in Nat /\ t \in ElementsOf(result[Place(t)])
      /\ \A j \in DOMAIN result : t \in ElementsOf(result[j]) => j = Place(t)
  BY <1>1, <1>2, <1>3, <1>4, PlaceFacts
<1>6. Place(t) <= Place(p)
  <2>1. PICK j \in 1 .. Place(p) : t \in ElementsOf(result[j])
    BY <1>1, <1>3, <1>5 DEF UnitsInv
  <2>2. result \in Seq(Seq(Symbols))
    BY <1>1 DEF TarjanInv, TarjanTyped
  <2>3. j \in DOMAIN result /\ j <= Place(p)
    BY <1>5, <2>1, <2>2
  <2>4. QED
    BY <1>5, <2>1, <2>3
<1>7. CASE Place(t) = Place(p)
  <2>1. p \in Cycle(t)
    BY <1>1, <1>5, <1>7 DEF UnitsInv
  <2>2. QED
    BY <2>1 DEF t
<1>8. CASE Place(t) < Place(p)
  <2>1. Lower(t, p)
    BY <1>8 DEF Lower
  <2>2. Position(t) < Position(p) /\ Position(t) \in Nat /\ Position(p) \in Nat
    BY <1>1, <1>2, <1>3, <1>4, <2>1, PositionFacts
  <2>3. PICK j \in Removals : worklist[j].target = p
    BY <1>1, <1>3 DEF WorklistInv
  <2>4. i \in Nat /\ j \in Nat
    BY <1>1 DEF Removals, WorklistInv
  <2>5. i < j => Position(t) > Position(p)
    BY <1>1, <2>3 DEF WorklistInv, t
  <2>6. i # j
    BY <2>2, <2>3 DEF t
  <2>7. j < i
    BY <2>2, <2>4, <2>5, <2>6
  <2>8. QED
    BY <2>3, <2>7
<1>9. QED
  BY <1>5, <1>6, <1>7, <1>8
-----------------------------------------------------------------------------
(* The tree: nothing is referenced that the plan's graph does not reference, or
   that is gone. *)
MarksInv ==
  /\ EntryPoints \ Marked \subseteq entries /\ entries \subseteq EntryPoints \cup Marked
  /\ EntryPoints \ lost \subseteq entries

TreeInv ==
  /\ PlanInv
  /\ MarksInv
  /\ stage = "planning" => source = edges /\ present = Symbols
  /\ stage # "planning" => Planned
  /\ next \in Nat /\ next > 0
  /\ dropped \in Nat
  /\ present \subseteq Symbols
  /\ source \in [Symbols -> SUBSET Symbols]
  /\ \A q \in Symbols : source[q] \subseteq edges[q] \cap present

(* What follows from the entry points, in the plan's graph and in the tree's. *)
Kept == Following(Anchors, source)

LEMMA AnchorFacts ==
  ASSUME TreeInv
  PROVE  /\ EntryPoints \ Marked \subseteq Anchors /\ Anchors \subseteq EntryPoints \cup Marked
         /\ EntryPoints \ lost \subseteq Anchors /\ Anchors \subseteq Symbols
BY EntryPointsAssumption, ScopesAssumption DEF TreeInv, MarksInv, Anchors

LEMMA KeptFacts ==
  ASSUME TreeInv
  PROVE  /\ Anchors \subseteq Kept /\ Kept \subseteq Symbols
         /\ \A x \in Kept : source[x] \subseteq Kept
         /\ \A C \in SUBSET Symbols :
              Anchors \subseteq C /\ (\A x \in C : source[x] \subseteq C) => Kept \subseteq C
<1>1. source \in [Symbols -> SUBSET Symbols] /\ Anchors \subseteq Symbols
  BY AnchorFacts DEF TreeInv
<1>2. QED
  BY <1>1, FollowingLeast DEF Kept

LEMMA ReachFacts ==
  ASSUME PlanInv, Planned
  PROVE  /\ EntryPoints \subseteq reach /\ reach \subseteq Symbols
         /\ \A x \in reach : edges[x] \subseteq reach
         /\ \A C \in SUBSET Symbols :
              EntryPoints \subseteq C /\ (\A x \in C : edges[x] \subseteq C) => reach \subseteq C
<1>1. ElementsOf(frontier) = {} /\ ReachInv
  BY DEF PlanInv, Found, Planned, ReachFound, ElementsOf
<1>2. QED
  BY <1>1 DEF ReachInv, ClosedUnder, Outgoing

LEMMA KeptIsReachable == TreeInv /\ Planned /\ Anchors = EntryPoints => Kept \subseteq reach
<1> SUFFICES ASSUME TreeInv, Planned, Anchors = EntryPoints PROVE Kept \subseteq reach
  OBVIOUS
<1>1. /\ EntryPoints \subseteq reach /\ reach \in SUBSET Symbols
      /\ \A x \in reach : edges[x] \subseteq reach
  BY ReachFacts DEF TreeInv
<1>2. \A x \in reach : source[x] \subseteq reach
  BY <1>1 DEF TreeInv
<1>3. QED
  BY <1>1, <1>2, KeptFacts

LEMMA MatchingFacts ==
  ASSUME NamesAreDistinct, TreeInv, NEW q \in Symbols
  PROVE  Matching(q) \subseteq {q}
BY DEF Matching, NamesAreDistinct, TreeInv

(* A removal by name takes nothing that is kept. *)
LEMMA CutIsDead ==
  ASSUME NamesAreDistinct, EntryPointsStandAlone, TreeInv, Named(source),
         NEW q \in Private, q \notin Kept
  PROVE  Cut(q) \cap Kept = {}
<1> DEFINE C == {p \in Kept : ScopesOf[p] \ Modules \subseteq Kept}
<1>1. /\ Anchors \subseteq Kept /\ Kept \subseteq Symbols
      /\ \A x \in Kept : source[x] \subseteq Kept
      /\ \A D \in SUBSET Symbols :
           Anchors \subseteq D /\ (\A x \in D : source[x] \subseteq D) => Kept \subseteq D
  BY KeptFacts
<1>2. q \in Symbols \ Modules /\ ScopesOf \in [Symbols -> SUBSET Symbols]
  BY ModulesAssumption, ScopesAssumption
<1>3. Anchors \subseteq C
  <2>1. EntryPoints \ Marked \subseteq Kept /\ Anchors \subseteq EntryPoints \cup Marked
    BY <1>1, AnchorFacts
  <2>2. QED
    BY <1>1, <2>1 DEF EntryPointsStandAlone
<1>4. ASSUME NEW p \in C, NEW r \in source[p] PROVE r \in C
  <2>1. /\ p \in Kept /\ p \in Symbols /\ r \in Kept /\ source[p] \subseteq Kept
        /\ ScopesOf[p] \ Modules \subseteq Kept
    BY <1>1, <1>4
  <2>2. ScopesOf[r] \ Modules \subseteq source[p] \cup {p} \cup ScopesOf[p]
    BY <1>4, <2>1 DEF Named
  <2>3. QED
    BY <2>1, <2>2
<1>5. Kept \subseteq C
  <2>1. C \in SUBSET Symbols
    BY <1>1
  <2> HIDE DEF C
  <2>2. QED
    BY <1>1, <1>3, <1>4, <2>1
<1>6. Matching(q) \subseteq {q}
  BY <1>2, MatchingFacts
<1>7. ASSUME NEW p \in Cut(q), p \in Kept PROVE FALSE
  <2>1. p \in Matching(q) \/ ScopesOf[p] \cap Matching(q) # {}
    BY <1>7 DEF Cut
  <2>2. p = q \/ q \in ScopesOf[p]
    BY <1>6, <2>1
  <2>3. ScopesOf[p] \ Modules \subseteq Kept
    BY <1>5, <1>7
  <2>4. QED
    BY <1>2, <1>7, <2>2, <2>3
<1>8. QED
  BY <1>7
-----------------------------------------------------------------------------
(* The plan is made of one graph, and made once. *)
LEMMA PlanOnce == [Next]_vars => UNCHANGED edges /\ (Planned => UNCHANGED vars)
<1>1. Next => UNCHANGED edges /\ ~ Planned
  BY DEF Next, OrderStep, OrderDone, ReachStep, ReachDone, ImpactStep, ImpactDone, Plan, Planned
<1>2. UNCHANGED vars => UNCHANGED edges
  BY DEF vars
<1>3. QED
  BY <1>1, <1>2

LEMMA MovedFacts ==
  ASSUME MarksInv, NEW m, Moved(m)
  PROVE  MarksInv' /\ lost \subseteq lost'
<1>1. PICK S \in SUBSET Marked : entries' = (entries \ (Marked \cap Functions(m))) \cup S
  BY DEF Moved
<1>2. lost' = lost \cup (EntryPoints \ entries')
  BY DEF Moved
<1>3. QED
  BY <1>1, <1>2 DEF MarksInv

LEMMA RemoveKeepsTree ==
  ASSUME TreeInv, NEW q, Remove(q), UNCHANGED edges
  PROVE  /\ present' \subseteq Symbols /\ source' \in [Symbols -> SUBSET Symbols]
         /\ MarksInv'
         /\ \A p \in Symbols : source'[p] \subseteq edges'[p] \cap present'
         /\ dropped' \in Nat
<1>1. /\ present' = present \ Cut(q) /\ dropped' = dropped
      /\ source' = [p \in Symbols |-> IF p \in Cut(q) THEN {} ELSE source[p] \ Cut(q)]
  BY DEF Remove
<1>2. /\ present \subseteq Symbols /\ source \in [Symbols -> SUBSET Symbols] /\ dropped \in Nat
      /\ \A p \in Symbols : source[p] \subseteq edges[p] \cap present
  BY DEF TreeInv
<1>3. \A p \in Symbols : source'[p] = IF p \in Cut(q) THEN {} ELSE source[p] \ Cut(q)
  BY <1>1
<1>4. source' \in [Symbols -> SUBSET Symbols]
  BY <1>1, <1>2
<1>5. MarksInv'
  BY MovedFacts DEF Remove, TreeInv
<1>6. QED
  BY <1>1, <1>2, <1>3, <1>4, <1>5

(* What a cleanup that drops a reference of q to p does. *)
Dropped(q, p) == {r \in source[q] : r # p /\ p \notin ScopesOf[r]}

LEMMA CleanupFacts ==
  ASSUME CleanupStep
  PROVE  /\ stage = "items" /\ stage' # "planning" /\ next' = next + 1
         /\ UNCHANGED <<vars, present, seen>>
         /\ Moved(Item.target)
         /\ \/ UNCHANGED <<source, dropped>>
            \/ /\ dropped' = dropped + 1
               /\ \E q \in Symbols : \E p \in source[q] : source' = [source EXCEPT ![q] = Dropped(q, p)]
BY DEF CleanupStep, StaysIn, Dropped, Functions

LEMMA TreeInv_Init == PipelineInit => TreeInv
<1> SUFFICES ASSUME PipelineInit PROVE TreeInv
  OBVIOUS
<1>1. /\ Init /\ stage = "planning" /\ source = edges /\ present = Symbols
      /\ next = 1 /\ dropped = 0 /\ entries = EntryPoints
  BY DEF PipelineInit
<1>2. PlanInv /\ edges \in Graphs
  BY <1>1, PlanInv_Init DEF Init
<1>3. edges \in [Symbols -> SUBSET Symbols]
  BY <1>2
<1>4. QED
  BY <1>1, <1>2, <1>3 DEF TreeInv, MarksInv

LEMMA TreeInv_Next == TreeInv /\ [PipelineNext]_allVars => TreeInv'
<1> SUFFICES ASSUME TreeInv, [PipelineNext]_allVars PROVE TreeInv'
  OBVIOUS
<1>0. /\ PlanInv /\ MarksInv /\ next \in Nat /\ next > 0 /\ dropped \in Nat
      /\ present \subseteq Symbols /\ source \in [Symbols -> SUBSET Symbols]
      /\ \A q \in Symbols : source[q] \subseteq edges[q] \cap present
      /\ stage = "planning" => source = edges /\ present = Symbols
      /\ stage # "planning" => Planned
  BY DEF TreeInv
<1>1. UNCHANGED vars => PlanInv' /\ UNCHANGED <<edges, Planned>>
  <2>1. UNCHANGED vars => PlanInv'
    BY <1>0, PlanInv_Next
  <2>2. UNCHANGED vars => UNCHANGED <<edges, Planned>>
    BY DEF vars, Planned
  <2>3. QED
    BY <2>1, <2>2
<1>M. UNCHANGED <<entries, lost>> => MarksInv'
  BY <1>0 DEF MarksInv
<1>2. CASE PlanStep
  <2>1. Next /\ UNCHANGED <<stage, source, present, entries, lost, next, seen, dropped>>
    BY <1>2 DEF PlanStep, pipelineVars, treeVars
  <2>2. PlanInv' /\ UNCHANGED edges
    BY <1>0, <2>1, PlanInv_Next, PlanOnce
  <2>3. Planned => Planned'
    <3>1. Planned => UNCHANGED vars
      BY <2>1, PlanOnce
    <3>2. QED
      BY <3>1, <1>1
  <2>4. QED
    BY <1>0, <1>M, <2>1, <2>2, <2>3 DEF TreeInv
<1>3. CASE BeginItems \/ ItemsDone \/ CascadeDone
  <2>1. /\ Planned /\ stage' # "planning"
        /\ UNCHANGED <<vars, source, present, entries, lost, dropped, next>>
    BY <1>0, <1>3 DEF BeginItems, ItemsDone, CascadeDone, treeVars
  <2>2. QED
    BY <1>0, <1>1, <1>M, <2>1 DEF TreeInv
<1>4. CASE RemovalStep
  <2>1. /\ stage = "items" /\ stage' # "planning" /\ next' = next + 1 /\ UNCHANGED vars
        /\ \/ Remove(Item.target)
           \/ UNCHANGED <<source, present, entries, lost, dropped>>
    BY <1>4 DEF RemovalStep, StaysIn, Keep, treeVars
  <2>2. /\ present' \subseteq Symbols /\ source' \in [Symbols -> SUBSET Symbols]
        /\ \A p \in Symbols : source'[p] \subseteq edges'[p] \cap present'
        /\ dropped' \in Nat /\ MarksInv'
    BY <1>0, <1>1, <1>M, <2>1, RemoveKeepsTree
  <2>3. QED
    BY <1>0, <1>1, <2>1, <2>2 DEF TreeInv
<1>5. CASE CleanupStep
  <2>1. /\ stage = "items" /\ stage' # "planning" /\ next' = next + 1 /\ UNCHANGED <<vars, present>>
        /\ Moved(Item.target)
        /\ \/ UNCHANGED <<source, dropped>>
           \/ /\ dropped' = dropped + 1
              /\ \E q \in Symbols : \E p \in source[q] :
                   source' = [source EXCEPT ![q] = Dropped(q, p)]
    BY <1>5, CleanupFacts
  <2>2. source' \in [Symbols -> SUBSET Symbols] /\ \A p \in Symbols : source'[p] \subseteq source[p]
    <3>1. CASE UNCHANGED source
      BY <1>0, <3>1
    <3>2. ASSUME NEW q \in Symbols, NEW p \in source[q], source' = [source EXCEPT ![q] = Dropped(q, p)]
          PROVE  source' \in [Symbols -> SUBSET Symbols] /\ \A x \in Symbols : source'[x] \subseteq source[x]
      <4>1. Dropped(q, p) \subseteq source[q]
        BY DEF Dropped
      <4>2. QED
        BY <1>0, <3>2, <4>1
    <3>3. QED
      BY <2>1, <3>1, <3>2
  <2>3. dropped' \in Nat
    BY <1>0, <2>1
  <2>4. \A p \in Symbols : source'[p] \subseteq edges'[p] \cap present'
    BY <1>0, <1>1, <2>1, <2>2
  <2>5. MarksInv'
    BY <1>0, <2>1, MovedFacts
  <2>6. QED
    BY <1>0, <1>1, <2>1, <2>2, <2>3, <2>4, <2>5 DEF TreeInv
<1>6. CASE CascadeRound
  <2>1. /\ stage = "cascade" /\ stage' # "planning" /\ next' = next /\ UNCHANGED vars
        /\ \/ \E q \in Orphans : Remove(q)
           \/ UNCHANGED <<source, present, entries, lost, dropped>>
    BY <1>6 DEF CascadeRound, StaysIn, Keep, treeVars
  <2>2. /\ present' \subseteq Symbols /\ source' \in [Symbols -> SUBSET Symbols]
        /\ \A p \in Symbols : source'[p] \subseteq edges'[p] \cap present'
        /\ dropped' \in Nat /\ MarksInv'
    BY <1>0, <1>1, <1>M, <2>1, RemoveKeepsTree
  <2>3. QED
    BY <1>0, <1>1, <2>1, <2>2 DEF TreeInv
<1>7. CASE UNCHANGED allVars
  <2>1. UNCHANGED <<vars, stage, source, present, entries, lost, next, dropped>>
    BY <1>7 DEF allVars, pipelineVars, treeVars
  <2>2. QED
    BY <1>0, <1>1, <1>M, <2>1 DEF TreeInv
<1>8. QED
  BY <1>2, <1>3, <1>4, <1>5, <1>6, <1>7 DEF PipelineNext

(* While no cleanup has dropped a reference and no entry point was lost, what is
   reachable references what it did when the plan was made, so that all of it is
   kept; the cascade has tried nothing but what the plan calls dead. *)
Undisturbed == dropped = 0 /\ lost = {}

DeadInv ==
  /\ Named(source)
  /\ stage = "planning" => seen = {}
  /\ stage # "planning" /\ Undisturbed => \A q \in reach : source[q] = edges[q]
  /\ Undisturbed => seen \subseteq Dead

LEMMA ReachIsKept ==
  ASSUME TreeInv, Planned, lost = {}, \A q \in reach : source[q] = edges[q]
  PROVE  reach \subseteq Kept
<1> DEFINE C == Kept \cap reach
<1>1. /\ EntryPoints \subseteq Kept /\ Kept \subseteq Symbols
      /\ \A x \in Kept : source[x] \subseteq Kept
  <2>1. EntryPoints \subseteq Anchors
    BY AnchorFacts
  <2>2. QED
    BY <2>1, KeptFacts
<1>2. /\ EntryPoints \subseteq reach /\ reach \subseteq Symbols
      /\ \A x \in reach : edges[x] \subseteq reach
      /\ \A D \in SUBSET Symbols :
           EntryPoints \subseteq D /\ (\A x \in D : edges[x] \subseteq D) => reach \subseteq D
  BY ReachFacts DEF TreeInv
<1>3. C \in SUBSET Symbols /\ EntryPoints \subseteq C /\ \A x \in C : edges[x] \subseteq C
  BY <1>1, <1>2
<1> HIDE DEF C
<1>4. reach \subseteq C
  BY <1>2, <1>3
<1>5. QED
  BY <1>4 DEF C

(* Whoever uses what is left still names what it is defined in. *)
LEMMA RemoveKeepsNamed ==
  ASSUME ScopesNest, TreeInv, Named(source), NEW q, Remove(q)
  PROVE  Named(source')
<1> SUFFICES ASSUME NEW p \in Symbols, NEW r \in source'[p], NEW s \in ScopesOf[r] \ Modules
             PROVE  s \in source'[p] \cup {p} \cup ScopesOf[p]
  BY DEF Named
<1>1. source'[p] = IF p \in Cut(q) THEN {} ELSE source[p] \ Cut(q)
  BY DEF Remove
<1>2. /\ r \in source[p] /\ r \notin Cut(q) /\ p \notin Cut(q)
      /\ source'[p] = source[p] \ Cut(q)
  BY <1>1
<1>3. r \in present /\ r \in Symbols
  BY <1>2 DEF TreeInv
<1>4. s \in source[p] \cup {p} \cup ScopesOf[p]
  BY <1>2 DEF Named
<1>5. s \notin Cut(q)
  <2>1. ScopesOf[s] \subseteq ScopesOf[r] /\ s \in ScopesOf[r]
    BY <1>3 DEF ScopesNest
  <2>2. QED
    BY <1>2, <1>3, <2>1 DEF Cut
<1>6. QED
  BY <1>2, <1>4, <1>5

LEMMA CleanupKeepsNamed ==
  ASSUME ScopesNest, TreeInv, Named(source), NEW q \in Symbols, NEW x \in source[q],
         source' = [source EXCEPT ![q] = Dropped(q, x)]
  PROVE  Named(source')
<1> SUFFICES ASSUME NEW p \in Symbols, NEW r \in source'[p], NEW s \in ScopesOf[r] \ Modules
             PROVE  s \in source'[p] \cup {p} \cup ScopesOf[p]
  BY DEF Named
<1>1. source \in [Symbols -> SUBSET Symbols]
  BY DEF TreeInv
<1>2. CASE p # q
  <2>1. source'[p] = source[p]
    BY <1>1, <1>2
  <2>2. QED
    BY <2>1 DEF Named
<1>3. CASE p = q
  <2>1. source'[p] = Dropped(q, x)
    BY <1>1, <1>3
  <2>2. r \in source[p] /\ r # x /\ x \notin ScopesOf[r] /\ r \in Symbols
    BY <1>1, <1>3, <2>1 DEF Dropped
  <2>3. s \in source[p] \cup {p} \cup ScopesOf[p]
    BY <2>2 DEF Named
  <2>4. s # x /\ x \notin ScopesOf[s]
    BY <2>2 DEF ScopesNest
  <2>5. QED
    BY <1>3, <2>1, <2>3, <2>4 DEF Dropped
<1>4. QED
  BY <1>2, <1>3

NamedInv == Named(source)

LEMMA NamedToTheEnd ==
  ASSUME ScopesNest, TreeInv, Named(source), [PipelineNext]_allVars
  PROVE  Named(source')
<1>1. \/ UNCHANGED source
      \/ \E q : Remove(q)
      \/ CleanupStep
  BY DEF PipelineNext, PlanStep, BeginItems, RemovalStep, ItemsDone, CascadeRound, CascadeDone,
         Keep, allVars, pipelineVars, treeVars
<1>2. CASE UNCHANGED source
  BY <1>2 DEF Named
<1>3. CASE \E q : Remove(q)
  BY <1>3, RemoveKeepsNamed
<1>4. CASE CleanupStep
  BY <1>2, <1>4, CleanupFacts, CleanupKeepsNamed
<1>5. QED
  BY <1>1, <1>2, <1>3, <1>4

(* A removal of what is dead takes nothing that is kept, and leaves what the
   reachable reference. *)
LEMMA RemoveFacts ==
  ASSUME NamesAreDistinct, ScopesNest, EntryPointsStandAlone, TreeInv, DeadInv, Planned,
         stage # "planning", NEW q \in Private \ Kept, Remove(q)
  PROVE  /\ (present \ present') \cap Kept = {}
         /\ Named(source') /\ (Undisturbed' => Undisturbed)
         /\ Undisturbed => \A p \in reach : source'[p] = edges[p]
<1>1. Cut(q) \cap Kept = {}
  BY CutIsDead DEF DeadInv
<1>2. /\ present' = present \ Cut(q) /\ dropped' = dropped /\ Moved(ModuleOf[q])
      /\ \A p \in Symbols : source'[p] = IF p \in Cut(q) THEN {} ELSE source[p] \ Cut(q)
  BY DEF Remove
<1>3. ASSUME Undisturbed, NEW p \in reach PROVE source'[p] = edges[p]
  <2>1. lost = {} /\ \A x \in reach : source[x] = edges[x]
    BY <1>3 DEF DeadInv, Undisturbed
  <2>2. p \in Kept
    BY <2>1, ReachIsKept
  <2>3. source[p] \subseteq Kept /\ p \in Symbols
    BY <2>2, KeptFacts
  <2>4. QED
    BY <1>1, <1>2, <2>1, <2>2, <2>3
<1>4. Named(source')
  BY RemoveKeepsNamed DEF DeadInv
<1>5. Undisturbed' => Undisturbed
  <2>1. lost \subseteq lost'
    BY <1>2, MovedFacts DEF TreeInv
  <2>2. QED
    BY <1>2, <2>1 DEF Undisturbed
<1>6. QED
  BY <1>1, <1>2, <1>3, <1>4, <1>5

(* What the worklist or the cascade is about to remove is dead. *)
LEMMA TargetsAreDead ==
  ASSUME TreeInv
  PROVE  /\ RemovalStep => Item.target \in Private \ Kept
         /\ stage = "cascade" => \A q \in Orphans : q \in Private \ Kept
<1>1. ASSUME RemovalStep PROVE Item.target \in Private \ Kept
  <2>1. stage = "items" /\ next <= Len(worklist) /\ Item.kind = "remove_dead_code"
    BY <1>1 DEF RemovalStep
  <2>2. Planned /\ WorklistInv /\ next \in Nat /\ next > 0 /\ Anchors = EntryPoints
    BY <2>1 DEF TreeInv, PlanInv, Found, Anchors
  <2>3. worklist \in Seq(Items)
    BY <2>2 DEF WorklistInv
  <2>4. next \in DOMAIN worklist
    BY <2>1, <2>2, <2>3
  <2>5. next \in Removals
    BY <2>1, <2>4 DEF Removals, Item
  <2>6. Item.target \in Dead
    BY <2>2, <2>5, RemovalFacts DEF Item
  <2>7. QED
    BY <2>2, <2>6, KeptIsReachable DEF Dead
<1>2. stage = "cascade" => \A q \in Orphans : q \in Private \ Kept
  BY DEF Orphans, Alive, Kept, Anchors
<1>3. QED
  BY <1>1, <1>2

LEMMA DeadInv_Init == ScopesAreNamed /\ PipelineInit => DeadInv
<1> SUFFICES ASSUME ScopesAreNamed, PipelineInit PROVE DeadInv
  OBVIOUS
<1>1. stage = "planning" /\ source = edges /\ seen = {} /\ edges \in Graphs
  BY DEF PipelineInit, Init
<1>2. QED
  BY <1>1 DEF DeadInv, ScopesAreNamed

LEMMA DeadInv_Next ==
  ASSUME NamesAreDistinct, ScopesNest, EntryPointsStandAlone, TreeInv, DeadInv,
         [PipelineNext]_allVars
  PROVE  DeadInv'
<1>0. /\ Named(source) /\ (stage # "planning" => Planned)
      /\ stage = "planning" => seen = {} /\ source = edges
      /\ stage # "planning" /\ Undisturbed => \A q \in reach : source[q] = edges[q]
      /\ Undisturbed => seen \subseteq Dead
      /\ dropped \in Nat /\ source \in [Symbols -> SUBSET Symbols]
  BY DEF TreeInv, DeadInv
<1>1. UNCHANGED vars => UNCHANGED <<edges, reach, Dead>>
  BY DEF vars, reachVars, Dead
<1>U. UNCHANGED <<dropped, lost>> => UNCHANGED Undisturbed
  BY DEF Undisturbed
<1>2. UNCHANGED <<vars, source, seen, dropped, lost>> /\ (stage # "planning" <=> stage' # "planning")
        => DeadInv'
  BY <1>0, <1>1, <1>U DEF DeadInv, Named
<1>3. CASE PlanStep
  <2>1. Next /\ UNCHANGED <<stage, source, seen, dropped, lost>>
    BY <1>3 DEF PlanStep, pipelineVars, treeVars
  <2>2. CASE stage = "planning"
    BY <1>0, <2>1, <2>2 DEF DeadInv, Named
  <2>3. CASE stage # "planning"
    BY <1>0, <1>2, <2>1, <2>3, PlanOnce
  <2>4. QED
    BY <2>2, <2>3
<1>4. CASE BeginItems \/ ItemsDone \/ CascadeDone
  <2>1. /\ UNCHANGED <<vars, source, dropped, lost, seen>> /\ stage' # "planning"
        /\ stage = "planning" \/ stage # "planning"
    BY <1>4 DEF BeginItems, ItemsDone, CascadeDone, treeVars
  <2>2. \A q \in reach : stage = "planning" => source[q] = edges[q]
    BY <1>0
  <2>3. QED
    BY <1>0, <1>1, <1>U, <2>1, <2>2 DEF DeadInv, Named
<1>5. CASE RemovalStep
  <2>1. /\ stage # "planning" /\ stage' # "planning" /\ UNCHANGED <<vars, seen>>
        /\ Remove(Item.target) \/ UNCHANGED <<source, dropped, lost>>
    BY <1>5 DEF RemovalStep, StaysIn, Keep, treeVars
  <2>2. CASE Remove(Item.target)
    <3>1. Item.target \in Private \ Kept
      BY <1>5, TargetsAreDead
    <3>2. /\ Named(source') /\ (Undisturbed' => Undisturbed)
          /\ Undisturbed => \A p \in reach : source'[p] = edges[p]
      BY <1>0, <2>1, <2>2, <3>1, RemoveFacts
    <3>3. QED
      BY <1>0, <1>1, <2>1, <3>2 DEF DeadInv, Named
  <2>3. CASE UNCHANGED <<source, dropped, lost>>
    BY <1>2, <2>1, <2>3
  <2>4. QED
    BY <2>1, <2>2, <2>3
<1>6. CASE CleanupStep
  <2>1. /\ stage = "items" /\ stage' # "planning" /\ UNCHANGED <<vars, seen>>
        /\ Moved(Item.target)
        /\ \/ UNCHANGED <<source, dropped>>
           \/ /\ dropped' = dropped + 1
              /\ \E q \in Symbols : \E p \in source[q] :
                   source' = [source EXCEPT ![q] = Dropped(q, p)]
    BY <1>6, CleanupFacts
  <2>2. CASE UNCHANGED <<source, dropped>>
    <3>1. Undisturbed' => Undisturbed
      BY <2>1, <2>2, MovedFacts DEF Undisturbed, TreeInv
    <3>2. QED
      BY <1>0, <1>1, <2>1, <2>2, <3>1 DEF DeadInv, Named
  <2>3. ASSUME dropped' = dropped + 1, NEW q \in Symbols, NEW p \in source[q],
               source' = [source EXCEPT ![q] = Dropped(q, p)]
        PROVE  DeadInv'
    <3>1. Named(source')
      BY <1>0, <2>3, CleanupKeepsNamed
    <3>2. ~ Undisturbed'
      BY <1>0, <2>3 DEF Undisturbed
    <3>3. QED
      BY <2>1, <3>1, <3>2 DEF DeadInv, Named
  <2>4. QED
    BY <2>1, <2>2, <2>3
<1>7. CASE CascadeRound
  <2>1. PICK q \in Orphans : seen' = seen \cup {q} /\ (Remove(q) \/ Keep(q))
    BY <1>7 DEF CascadeRound
  <2>2. stage = "cascade" /\ stage' # "planning" /\ UNCHANGED vars
    BY <1>7 DEF CascadeRound, StaysIn
  <2>3. q \in Private \ Kept
    BY <2>2, TargetsAreDead
  <2>4. Undisturbed => q \in Dead
    <3>1. Undisturbed => reach \subseteq Kept
      BY <1>0, <2>2, ReachIsKept DEF Undisturbed
    <3>2. QED
      BY <2>3, <3>1 DEF Dead
  <2>5. CASE Remove(q)
    <3>1. /\ Named(source') /\ (Undisturbed' => Undisturbed)
          /\ Undisturbed => \A p \in reach : source'[p] = edges[p]
      BY <1>0, <2>2, <2>3, <2>5, RemoveFacts
    <3>2. QED
      BY <1>0, <1>1, <2>1, <2>2, <2>4, <3>1 DEF DeadInv, Named
  <2>6. CASE Keep(q)
    <3>1. UNCHANGED <<source, dropped, lost>>
      BY <2>6 DEF Keep, treeVars
    <3>2. QED
      BY <1>0, <1>1, <1>U, <2>1, <2>2, <2>4, <3>1 DEF DeadInv, Named
  <2>7. QED
    BY <2>1, <2>5, <2>6
<1>8. CASE UNCHANGED allVars
  <2>1. UNCHANGED <<vars, stage, source, seen, dropped, lost>>
    BY <1>8 DEF allVars, pipelineVars, treeVars
  <2>2. QED
    BY <1>2, <2>1
<1>9. QED
  BY <1>3, <1>4, <1>5, <1>6, <1>7, <1>8 DEF PipelineNext
-----------------------------------------------------------------------------
(* What covers the dependents of q in the plan's graph covers all that leads to q
   in the tree. *)
LEMMA CoverHolds ==
  ASSUME TreeInv, NEW q \in Symbols, NEW I, Covers(I, q), NEW p \in present,
         q \in Following({p}, source)
  PROVE  p \in I \cup {q}
<1> SUFFICES ASSUME p \notin I \cup {q} PROVE FALSE
  OBVIOUS
<1> DEFINE C == Symbols \ (I \cup {q})
           S == {p}
<1>1. /\ source \in [Symbols -> SUBSET Symbols] /\ p \in Symbols
      /\ \A x \in Symbols : source[x] \subseteq edges[x]
  BY DEF TreeInv
<1>2. ASSUME NEW x \in C, NEW y \in source[x] PROVE y \in C
  <2>1. y \in edges[x] /\ y \in Symbols /\ x \in Symbols
    BY <1>1, <1>2
  <2>2. x \in Dependents(y)
    BY <2>1 DEF Dependents
  <2>3. y # q /\ y \notin I
    BY <2>2, <1>2 DEF Covers, ClosedUnder
  <2>4. QED
    BY <2>1, <2>3
<1>3. S \subseteq Symbols /\ S \subseteq C /\ C \in SUBSET Symbols
  BY <1>1
<1>4. q \notin C /\ q \in Following(S, source)
  OBVIOUS
<1> HIDE DEF C, S
<1>5. Following(S, source) \subseteq C
  BY <1>1, <1>2, <1>3, FollowingLeast
<1>6. QED
  BY <1>4, <1>5

(* It covers all that leads to what goes with q, too: whoever is outside of q and
   uses that names q. *)
LEMMA CoverHoldsCut ==
  ASSUME NamesAreDistinct, TreeInv, Named(source), NEW t \in Symbols \ Modules, NEW I,
         Covers(I, t), NEW p \in present, NEW q \in {t} \cup Cut(t), q \in Following({p}, source)
  PROVE  p \in I \cup {t} \cup Cut(t)
<1> SUFFICES ASSUME p \notin I \cup {t} \cup Cut(t) PROVE FALSE
  OBVIOUS
<1> DEFINE C == present \ (I \cup {t} \cup Cut(t))
           S == {p}
<1>1. /\ source \in [Symbols -> SUBSET Symbols] /\ present \subseteq Symbols
      /\ \A x \in Symbols : source[x] \subseteq edges[x] \cap present
  BY DEF TreeInv
<1>2. \A x \in C : t \notin source[x]
  <2>1. ASSUME NEW x \in C, t \in source[x] PROVE FALSE
    <3>1. x \in Dependents(t)
      BY <1>1, <2>1 DEF Dependents
    <3>2. QED
      BY <2>1, <3>1 DEF Covers, ClosedUnder
  <2>2. QED
    BY <2>1
<1>3. ASSUME NEW x \in C, NEW y \in source[x] PROVE y \in C
  <2>1. y \in edges[x] /\ y \in present /\ y \in Symbols /\ x \in present /\ x \in Symbols
    BY <1>1, <1>3
  <2>2. y # t /\ y \notin I
    <3>1. x \in Dependents(y)
      BY <2>1 DEF Dependents
    <3>2. QED
      BY <3>1, <1>2, <1>3 DEF Covers, ClosedUnder
  <2>3. y \notin Cut(t)
    <3> SUFFICES ASSUME y \in Cut(t) PROVE FALSE
      OBVIOUS
    <3>1. Matching(t) \subseteq {t}
      BY MatchingFacts
    <3>2. t \in Matching(t) /\ t \in ScopesOf[y]
      BY <2>2, <3>1 DEF Cut
    <3>3. t \in source[x] \cup {x} \cup ScopesOf[x]
      BY <1>3, <2>1, <3>2 DEF Named
    <3>4. t \in ScopesOf[x]
      BY <1>2, <1>3, <3>3
    <3>5. x \in Cut(t)
      BY <2>1, <3>2, <3>4 DEF Cut
    <3>6. QED
      BY <1>3, <3>5
  <2>4. QED
    BY <2>1, <2>2, <2>3
<1>4. S \subseteq Symbols /\ S \subseteq C /\ C \in SUBSET Symbols
  BY <1>1
<1>5. q \notin C /\ q \in Following(S, source)
  OBVIOUS
<1> HIDE DEF C, S
<1>6. Following(S, source) \subseteq C
  BY <1>1, <1>3, <1>4, FollowingLeast
<1>7. QED
  BY <1>5, <1>6

LEMMA ImpactsCover ==
  NamesAreDistinct /\ TreeInv /\ Named(source) => ImpactStaysCovering
<1> DEFINE Edited(item) == IF item.kind = "cleanup" THEN Functions(item.target) ELSE
                         {item.target} \cup Cut(item.target)
<1> SUFFICES ASSUME NamesAreDistinct, TreeInv, Named(source), stage = "items", NEW i \in next .. Len(worklist), NEW p \in present,
                    NEW q \in Edited(worklist[i]), q \in Following({p}, source)
             PROVE  p \in worklist[i].impact \cup Edited(worklist[i])
  BY DEF ImpactStaysCovering
<1>1. /\ WorklistInv /\ next \in Nat /\ next > 0
      /\ DOMAIN impacts = Symbols \ Modules
      /\ \A x \in DOMAIN impacts : Covers(impacts[x], x)
  BY DEF TreeInv, PlanInv, Found, Planned, Assessed
<1>2. i \in DOMAIN worklist
  <2>1. worklist \in Seq(Items)
    BY <1>1 DEF WorklistInv
  <2>2. QED
    BY <1>1, <2>1
<1>3. CASE \E t \in Dead : worklist[i] = RemovalItem(t)
  <2>1. PICK t \in Dead : worklist[i] = RemovalItem(t)
    BY <1>3
  <2>2. worklist[i].kind = "remove_dead_code" /\ worklist[i].target = t /\ worklist[i].impact = impacts[t]
    BY <2>1 DEF RemovalItem
  <2>3. q \in {t} \cup Cut(t) /\ Edited(worklist[i]) = {t} \cup Cut(t)
    BY <2>2
  <2>4. t \in Symbols \ Modules
    BY ModulesAssumption DEF Dead
  <2>5. Covers(impacts[t], t)
    BY <1>1, <2>4
  <2>6. p \in impacts[t] \cup {t} \cup Cut(t)
    BY <2>3, <2>4, <2>5, CoverHoldsCut
  <2>7. QED
    BY <2>2, <2>3, <2>6
<1>4. CASE \E m \in Modules : worklist[i] = CleanupItem(m)
  <2>1. PICK m \in Modules : worklist[i] = CleanupItem(m)
    BY <1>4
  <2>2. worklist[i].kind = "cleanup" /\ worklist[i].target = m /\ worklist[i].impact = ModuleImpact(m)
    BY <2>1 DEF CleanupItem
  <2>3. Edited(worklist[i]) = Functions(m)
    BY <2>2
  <2>4. q \in Functions(m) /\ q \in Symbols \ Modules
    BY <2>3 DEF Functions
  <2>5. Covers(impacts[q], q)
    BY <1>1, <2>4
  <2>6. p \in impacts[q] \cup {q}
    BY <2>4, <2>5, CoverHolds
  <2>7. impacts[q] \subseteq ModuleImpact(m)
    BY <2>4 DEF ModuleImpact
  <2>8. QED
    BY <2>2, <2>3, <2>4, <2>6, <2>7
<1>5. QED
  BY <1>1, <1>2, <1>3, <1>4 DEF WorklistInv
-----------------------------------------------------------------------------
(* "Removal goes ROOT-to-LEAF": whatever the graph, a dead symbol that references
   another is removed before it, or is on a cycle with it. *)
THEOREM CallersAreRemovedFirst == PipelineSpec => []CallersGoFirst
<1>1. TreeInv => CallersGoFirst
  BY PlanCallersFirst DEF TreeInv
<1>2. QED
  BY <1>1, TreeInv_Init, TreeInv_Next, PTL DEF PipelineSpec

(* The impact an item carries covers, when its turn comes, all that depends on the
   code it edits, the members that go with a class among it, whatever was removed
   and dropped since the plan: in any graph whose users of a member name its class,
   when the names are distinct. *)
THEOREM ImpactsCoverToTheEnd ==
  ASSUME NamesAreDistinct, ScopesNest, ScopesAreNamed
  PROVE  PipelineSpec => []ImpactStaysCovering
<1>1. PipelineInit => TreeInv /\ NamedInv
  BY TreeInv_Init, DeadInv_Init DEF DeadInv, NamedInv
<1>2. TreeInv /\ NamedInv /\ [PipelineNext]_allVars => TreeInv' /\ NamedInv'
  BY TreeInv_Next, NamedToTheEnd DEF NamedInv
<1>3. TreeInv /\ NamedInv => ImpactStaysCovering
  BY ImpactsCover DEF NamedInv
<1>4. QED
  BY <1>1, <1>2, <1>3, PTL DEF PipelineSpec

(* A run orders the symbols leaf first, with the cycles as units. *)
THEOREM PlansLeafFirst == PipelineSpec => ImplementsLeafToRoot
<1>1. PipelineInit => Promise!Begin
  BY DEF PipelineInit, Init, StartTopo, Promise!Begin
<1>2. TreeInv /\ [PipelineNext]_allVars
        => [Promise!Emit]_<<edges, [i \in DOMAIN result |-> ElementsOf(result[i])]>>
  <2> SUFFICES ASSUME TreeInv, [PipelineNext]_allVars
               PROVE  [Promise!Emit]_<<edges, [i \in DOMAIN result |-> ElementsOf(result[i])]>>
    OBVIOUS
  <2>1. UNCHANGED <<edges, result>> \/ (TopoStep /\ UNCHANGED edges)
    BY DEF PipelineNext, PlanStep, Next, OrderStep, OrderDone, ReachStep, ReachDone, ImpactStep,
           ImpactDone, Plan, BeginItems, RemovalStep, CleanupStep, ItemsDone, CascadeRound,
           CascadeDone, allVars, vars, tarjanVars
  <2>2. CASE result' = result
    <3>1. UNCHANGED <<edges, result>>
      BY <2>1, <2>2
    <3>2. QED
      BY <3>1 DEF ElementsOf
  <2>3. CASE result' # result
    BY <2>1, <2>3, TopoStep_Emits DEF TreeInv, PlanInv
  <2>4. QED
    BY <2>2, <2>3
<1>3. QED
  BY <1>1, <1>2, TreeInv_Init, TreeInv_Next, PTL
     DEF PipelineSpec, ImplementsLeafToRoot, Promise!LeafToRoot

(* No step removes a definition that something reachable from an entry point still
   uses, in any graph whose users of a member name its class, when the names are
   distinct. *)
THEOREM NothingAliveIsRemoved ==
  ASSUME NamesAreDistinct, ScopesNest, ScopesAreNamed, EntryPointsStandAlone
  PROVE  PipelineSpec => RemovedAreDead
<1>1. PipelineInit => TreeInv /\ DeadInv
  BY TreeInv_Init, DeadInv_Init
<1>2. TreeInv /\ DeadInv /\ [PipelineNext]_allVars => TreeInv' /\ DeadInv'
  BY TreeInv_Next, DeadInv_Next
<1>3. TreeInv /\ DeadInv /\ [PipelineNext]_allVars
        => [(present \ present') \cap Following(Anchors, source) = {}]_allVars
  <2> SUFFICES ASSUME TreeInv, DeadInv, [PipelineNext]_allVars, present' # present
               PROVE  (present \ present') \cap Kept = {}
    BY DEF allVars, pipelineVars, treeVars, Kept
  <2>1. \/ RemovalStep /\ Remove(Item.target) /\ stage # "planning"
        \/ stage = "cascade" /\ \E q \in Orphans : Remove(q)
    BY DEF PipelineNext, PlanStep, BeginItems, RemovalStep, CleanupStep, ItemsDone, CascadeRound,
           CascadeDone, allVars, pipelineVars, treeVars, Keep
  <2>2. PICK q \in Private \ Kept : stage # "planning" /\ Remove(q)
    BY <2>1, TargetsAreDead
  <2>3. QED
    BY <2>2, RemoveFacts DEF TreeInv
<1>4. QED
  BY <1>1, <1>2, <1>3, PTL DEF PipelineSpec, RemovedAreDead

(* Under the same conditions the cascade, until a cleanup drops a reference or an
   edit takes the "@" of an entry point out of sight, tries only what the plan has
   failed to remove. *)
THEOREM CascadeFindsNothingNew ==
  ASSUME NamesAreDistinct, ScopesNest, ScopesAreNamed, EntryPointsStandAlone
  PROVE  PipelineSpec => []CascadeOnlyRetries
<1>1. PipelineInit => TreeInv /\ DeadInv
  BY TreeInv_Init, DeadInv_Init
<1>2. TreeInv /\ DeadInv /\ [PipelineNext]_allVars => TreeInv' /\ DeadInv'
  BY TreeInv_Next, DeadInv_Next
<1>3. TreeInv /\ DeadInv => CascadeOnlyRetries
  <2> SUFFICES ASSUME TreeInv, DeadInv, Undisturbed
               PROVE  seen \subseteq {worklist[i].target : i \in Removals}
    BY DEF CascadeOnlyRetries, Undisturbed
  <2>1. CASE stage = "planning"
    BY <2>1 DEF DeadInv
  <2>2. CASE stage # "planning"
    <3>1. seen \subseteq Dead /\ WorklistInv
      BY <2>2 DEF DeadInv, TreeInv, PlanInv, Found
    <3>2. QED
      BY <3>1 DEF WorklistInv
  <2>3. QED
    BY <2>1, <2>2
<1>4. QED
  BY <1>1, <1>2, <1>3, PTL DEF PipelineSpec
=============================================================================
