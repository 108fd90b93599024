----------------------------- MODULE MCPipeline -----------------------------
EXTENDS Pipeline

(* Two modules: 1 with two private functions, 2 and 3, the second registered by
   its decorator, and 4 with a private class 5 and its private method 6, whose
   name the module also assigns to.  Every graph of references among the four in
   which whoever uses the method names the class, and only the method calls 3.
   An edit of a file may take the decorator out of sight of 3, or show another
   one to 5. *)
MCDefinitions == {2, 3, 5, 6}
MCGraphs ==
  {[q \in 1 .. 6 |-> IF q \in MCDefinitions THEN g[q] ELSE {}] :
     g \in {h \in [MCDefinitions -> SUBSET MCDefinitions] :
              \A q \in MCDefinitions : q \notin h[q] /\ (6 \in h[q] => 5 \in h[q] \cup {q})
              /\ 3 \notin h[2] \cup h[5]}}
MCModuleOf == [q \in 1 .. 6 |-> IF q < 4 THEN 1 ELSE 4]
MCScopesOf ==
  [q \in 1 .. 6 |-> IF q \in {1, 4} THEN {} ELSE IF q = 6 THEN {4, 5} ELSE {MCModuleOf[q]}]
MCNameOf == [q \in 1 .. 6 |-> q]

(* The conditions the theorems about dead code are stated under. *)
ASSUME ConditionsAssumption ==
  NamesAreDistinct /\ ScopesNest /\ ScopesAreNamed /\ EntryPointsStandAlone
=============================================================================
