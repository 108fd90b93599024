----------------------------- MODULE MCNamesake -----------------------------
EXTENDS Pipeline

(* 2 is a function, 3 a class and 4 its method, which has the name of 2; the
   other module, 5, uses them in its public function 6. *)
NamesakeGraphs ==
  {[q \in 1 .. 6 |-> CASE q = 6 -> g[1] [] q = 3 -> g[2] [] q = 4 -> g[3] [] OTHER -> {}] :
     g \in (SUBSET {2, 3, 4}) \X (SUBSET {4, 6}) \X (SUBSET {3, 6})}
NamesakeModuleOf == [q \in 1 .. 6 |-> IF q < 5 THEN 1 ELSE 5]
NamesakeScopesOf ==
  [q \in 1 .. 6 |-> IF q \in {1, 5} THEN {} ELSE IF q = 4 THEN {1, 3} ELSE {NamesakeModuleOf[q]}]
NamesakeNameOf == [q \in 1 .. 6 |-> IF q = 4 THEN 2 ELSE q]
=============================================================================
