----------------------------- MODULE ContextDocs ------------------------------
(***************************************************************************)
(* docs_gen.py, memory/context.py and the contexts of agent_memory.py:     *)
(* what generate_docs extracts from a module, what it reports as changed   *)
(* since it last looked, and what get_context_map recalls.  Purpose hints, *)
(* flagged lines and the prose of the .md files are left out.              *)
(***************************************************************************)
EXTENDS Analyses

CONSTANTS
  ParamsOf,     \* body -> the signature of a definition with it
  DocNameOf,    \* module -> the name its context is kept under (_module_name)
  PackageOf,    \* such a name -> its first segment
  SummaryOf     \* module -> what its summary is like, as a vector

VARIABLE contexts   \* name -> [path, exports, dependents, run]

docVars == <<contexts>>

Exports(m) ==
  {<<NameOf[d], ParamsOf[code[d]]>> :
     d \in {e \in (Present(code) \cap TopLevel) \ Private : HomeOf[e] = m}}

Names(exports) == {e[1] : e \in exports}

(* changed_since_last: exports that came, went, or have another signature. *)
Changed(before, after) ==
  [new |-> Names(after) \ Names(before), removed |-> Names(before) \ Names(after),
   signature |-> {n \in Names(after) \cap Names(before) :
                    {e \in after : e[1] = n} # {e \in before : e[1] = n}}]

(* get_context and put_context, by name. *)
Kept(name) == {contexts[n] : n \in {name} \cap DOMAIN contexts}
Keep(name, context) == contexts' = Updated(contexts, [n \in {name} |-> context])

(* dependents: by the call graph of the directory. *)
Dependents(m) == DependentsOf(m, UsesIn(code))

(* _next_run_stamp: which look at the module this is. *)
RunStamp(before) == 1 + MapThenSumSet(LAMBDA context : context.run, before)

(* _upsert_module_vector: the module's vector joins the shared index; a failure
   of the index is passed over. *)
UpsertModule(m, name) ==
  IF semantic THEN Upsert("server", [key \in {<<"module", name, "">>} |-> SummaryOf[m]]) ELSE UNCHANGED indexVars

(* generate_docs: extract, compare with the context kept under this name, and
   keep the new one. *)
Generated(m, tool) ==
  LET before == Kept(DocNameOf[m])
      now == [path |-> m, exports |-> Exports(m), dependents |-> Dependents(m), run |-> RunStamp(before)]
  IN  /\ Keep(DocNameOf[m], now)
      /\ UpsertModule(m, DocNameOf[m])
      /\ report' = [tool |-> tool, context |-> now,
                    changed |-> {Changed(context.exports, now.exports) : context \in before}]

GenerateDocs(m) ==
  /\ Called
  /\ Generated(m, "generate_docs")
  /\ UNCHANGED <<code, imports, semantic, cacheVars>>

(* relevant: by the vectors, or else by dependence or a common package. *)
Relevant(name) ==
  LET context == contexts[name]
      near == Query(Stored("server"), SummaryOf[context.path], K + 1, 0)
      others == (DOMAIN contexts) \ {name}
  IN  IF semantic THEN {key[2] : key \in {k \in near : k[1] = "module"}} \ {name}
      ELSE {n \in others : name \in contexts[n].dependents \/ PackageOf[n] = PackageOf[name]}

(* get_context_map: what is kept, however old; else generate_docs. *)
GetContextMap(m) ==
  LET name == DocNameOf[m]
  IN  /\ Called
      /\ IF name \in DOMAIN contexts
         THEN /\ report' = [tool |-> "get_context_map", context |-> contexts[name],
                            related |-> Relevant(name)]
              /\ UNCHANGED <<contexts, indexVars>>
         ELSE Generated(m, "get_context_map")
      /\ UNCHANGED <<code, imports, semantic, cacheVars>>
=============================================================================
