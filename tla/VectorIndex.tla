----------------------------- MODULE VectorIndex -----------------------------
(***************************************************************************)
(* memory/vector_index.py: vectors by key, in RedisVL while it answers, in *)
(* a bucket of the JSON state file from the first failure of a handle on.  *)
(* A namespace is a space of its own in either.  A vector is the body it   *)
(* was made of; Similarity is the cosine, in steps.  The hybrid query      *)
(* differs in its score alone, which no caller modelled here reads.  That  *)
(* RedisVL fails in a query, and not in an upsert, is left out.            *)
(***************************************************************************)
EXTENDS FiniteSetsExt

CONSTANTS
  Bodies,            \* what a definition may consist of
  Similarity(_, _),  \* of two bodies: 0, 1, ...
  SpaceOf,           \* handle -> its namespace
  Outages            \* the handles RedisVL may stop answering

Handles == DOMAIN SpaceOf
Namespaces == {SpaceOf[h] : h \in Handles}
Backends == {"redisvl", "json"}

VARIABLES
  backend,    \* handle -> where it reads and writes (_use_redisvl)
  rows        \* backend -> namespace -> key -> body

indexVars == <<backend, rows>>

(* _ensure_index, for every handle. *)
IndexInit ==
  /\ backend \in [Handles -> Backends]
  /\ rows = [b \in Backends |-> [n \in Namespaces |-> <<>>]]

(* Handles made anew try RedisVL again. *)
Reopened(opened) ==
  \E b \in Backends : backend' = [h \in Handles |-> IF h \in opened THEN b ELSE backend[h]]

Stored(h) == rows[backend[h]][SpaceOf[h]]

(* A dictionary updated with new entries. *)
Updated(old, new) ==
  [key \in DOMAIN old \cup DOMAIN new |-> IF key \in DOMAIN new THEN new[key] ELSE old[key]]

Put(store, b, h, vectors) == [store EXCEPT ![b][SpaceOf[h]] = Updated(@, vectors)]
Only(vectors, keys) == [key \in keys |-> vectors[key]]

(* upsert of the vectors one by one: RedisVL may fail at any of them, and that
   one and the rest go to JSON. *)
Upsert(h, vectors) ==
  \E kept \in IF backend[h] = "redisvl" /\ h \in Outages THEN SUBSET DOMAIN vectors ELSE {DOMAIN vectors} :
    LET rest == (DOMAIN vectors) \ kept
    IN  /\ rows' = Put(Put(rows, backend[h], h, Only(vectors, kept)), "json", h, Only(vectors, rest))
        /\ backend' = [backend EXCEPT ![h] = IF rest = {} THEN @ ELSE "json"]

(* What a backend finds: k keys of a bucket none of the others is nearer than. *)
Nearest(bucket, body, k) ==
  LET keys == DOMAIN bucket
      score(key) == Similarity(body, bucket[key])
  IN  {S \in kSubset(Min({k, Cardinality(keys)}), keys) :
         \A near \in S, far \in keys \ S : score(near) >= score(far)}

(* query: of these, those that are near enough; of several choices, some one. *)
Query(bucket, body, k, threshold) ==
  {key \in CHOOSE S \in Nearest(bucket, body, k) : TRUE : Similarity(body, bucket[key]) >= threshold}

(* get_meta: only the JSON rows remember what they were made of. *)
Remembered(h, key) ==
  IF backend[h] = "json" /\ key \in DOMAIN Stored(h) THEN {Stored(h)[key]} ELSE {}
=============================================================================
