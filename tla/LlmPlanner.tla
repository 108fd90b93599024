------------------------------ MODULE LlmPlanner ------------------------------
(***************************************************************************)
(* The judgment of a model in planning: which god functions are split and  *)
(* how the pieces are named.  pipeline/planner_llm.py with what it reads   *)
(* and leaves behind: memory/decision_memory.py, memory/codebase_index.py, *)
(* the decisions of memory/agent_memory.py, and the record of answers of   *)
(* llm/client.py.                                                          *)
(*                                                                         *)
(* A session is one client at work; there is one at a time, so that the    *)
(* record a client read when it was made is the one on disk.               *)
(***************************************************************************)
EXTENDS ContextDocs

CONSTANTS
  ComplexityOf,       \* body -> its cyclomatic complexity
  Helpers,            \* the names a model may give to the pieces
  Answers,            \* what it may propose for a body: <<old body, new body>>
  Faithful,           \* does the model use the names it is told to use
  DecisionThreshold,  \* the similarity of "the same situation"
  NeighbourThreshold  \* the similarity of a neighbour worth naming

(* The MCP server's index of functions and modules, that of decisions, and that
   of the codebase. *)
ASSUME HandlesAssumption == {"server", "decisions", "codebase"} \subseteq Handles

ASSUME AnswersAssumption == Answers \subseteq Bodies \X Bodies

VARIABLES
  decisions,  \* shape -> the names chosen for its pieces
  recorded,   \* the record on disk: prompt -> answer
  session     \* the client, the jobs it still has, and the items it made

plannerVars == <<decisions, recorded, session>>

Closed == [open |-> FALSE]
None == "none"

PlannerInit ==
  /\ decisions = <<>> /\ recorded = <<>>
  /\ session = Closed

(* _is_god_function. *)
IsGod(body) ==
  LinesOf[body] >= 30 \/ DepthOf[body] >= 4 \/ ComplexityOf[body] >= 6

GodFunctions ==
  {d \in (Present(code) \cap TopLevel) \ (Classes \cup Assignments \cup Decorated) : IsGod(code[d])}

Jobs(defs) ==
  LET order == SetToSortSeq(defs, <)
  IN  [i \in DOMAIN order |-> [target |-> order[i], body |-> code[order[i]]]]

(* The line a definition begins in: after the imports of its module, after what
   precedes it at the top, and after what precedes it in what it stands in. *)
LineOf(d) ==
  LET before == {e \in Defs : /\ e < d /\ HomeOf[e] = HomeOf[d] /\ code[e] # Gone
                              /\ AroundOf[e] \subseteq AroundOf[d] /\ e \notin AroundOf[d]}
  IN  Len(imports[HomeOf[d]]) + Cardinality(AroundOf[d])
        + MapThenSumSet(LAMBDA e : LinesOf[code[e]], before)

(* build_graph: its symbols, and the line it has each of them in. *)
SymbolLines == [d \in Present(code) \ Assignments |-> LineOf(d)]

(* A client is made, and reads the record.  "peers" tells the planner's
   sessions, which look at the neighbours, from those of the agents. *)
Opened(jobs, use, peers) ==
  [open |-> TRUE, use |-> use, peers |-> peers, indexed |-> ~peers,
   graph |-> SymbolLines, todo |-> jobs, items |-> <<>>]

ShapeKey(body) == <<"shape", Fingerprint[body], "">>
SymbolKey(d) == <<"symbol", d, "">>

(* What is found in the files of now by the name and the line that the graph,
   built before, has for a symbol: itself, or a namesake that has got there;
   nothing, if it was shifted.  No two definitions begin in one line. *)
FoundAt(d, line) ==
  LET there == {e \in Defs \ Assignments : /\ HomeOf[e] = HomeOf[d] /\ NameOf[e] = NameOf[d]
                                            /\ code[e] # Gone /\ LineOf(e) = line}
  IN  IF d \in there THEN {d} ELSE there

(* _source_of: the symbols of a graph that are found, with their bodies. *)
SourceOf(graph) ==
  UNION {{[symbol |-> d, body |-> code[e]] : e \in FoundAt(d, graph[d])} : d \in DOMAIN graph}

(* Mutant: what is remembered is not compared. *)
RemembersAny(source) == Remembered("codebase", SymbolKey(source.symbol)) # {}

(* build_codebase_index skips a symbol the index remembers with this body. *)
Remembers(source) == source.body \in Remembered("codebase", SymbolKey(source.symbol))

-----------------------------------------------------------------------------
(* What is recalled for a body, and how: the names chosen for its shape, else
   for the nearest in the index, if near enough and a decision at all. *)
Nearby(body) == Query(Stored("decisions"), body, 1, DecisionThreshold)

(* Mutant: the shape itself is not looked up. *)
RecalledByLikeness(body) ==
  IF semantic THEN {decisions[key[2]] : key \in {k \in Nearby(body) : k[1] = "shape" /\ k[2] \in DOMAIN decisions}}
              ELSE {}

Recalled(body) ==
  LET shape == Fingerprint[body]
      near == {key[2] : key \in {k \in Nearby(body) : k[1] = "shape"}}
  IN  CASE shape \in DOMAIN decisions -> {decisions[shape]}
        [] shape \notin DOMAIN decisions /\ semantic -> {decisions[s] : s \in near \cap DOMAIN decisions}
        [] OTHER -> {}

(* similar_symbols: at most three of the nearest in the codebase. *)
SimilarSymbols(d, body) ==
  LET bucket == Stored("codebase")
      others == Query(bucket, body, 4, NeighbourThreshold) \ {SymbolKey(d)}
  IN  CHOOSE S \in kSubset(Min({3, Cardinality(others)}), others) :
        \A n \in S, f \in others \ S :
          Similarity(body, bucket[n]) >= Similarity(body, bucket[f])

(* _neighbor_context: these, and the names their shapes were split into; only
   the JSON rows say which symbol they are of. *)
Neighbours(d, sources) ==
  LET symbol(key) == IF backend["codebase"] = "json" THEN {s \in sources : s.symbol = key[2]} ELSE {}
      shapes(key) == {Fingerprint[s.body] : s \in symbol(key)} \cap DOMAIN decisions
      split(key) == {decisions[shape] : shape \in shapes(key)} \ {None}
  IN  IF semantic
      THEN UNION {{<<key, split(key)>> : key \in SimilarSymbols(d, own.body)} :
                    own \in {s \in sources : s.symbol = d}}
      ELSE {}

(* _decompose_prompt: a decision without names tells the model nothing. *)
Prompt(job, peers) ==
  [body |-> job.body, names |-> Recalled(job.body) \ {None},
   peers |-> IF peers THEN Neighbours(job.target, SourceOf(session.graph)) ELSE {}]

(* What a live model may answer: a split, with the names of its pieces or without
   any, or a refusal. *)
LiveAnswers(prompt) ==
  {[declined |-> TRUE]} \cup
  {[declined |-> FALSE, new |-> a[2], names |-> n] :
     a \in {b \in Answers : b[1] = prompt.body},
     n \in IF Faithful /\ prompt.names # {} THEN prompt.names ELSE Helpers \cup {None}}

(* complete_json: from the record, else asked for and recorded; what is no JSON
   is not. *)
Answered(prompt, answer) ==
  IF prompt \in DOMAIN recorded
  THEN answer = recorded[prompt] /\ UNCHANGED recorded
  ELSE \/ answer = [declined |-> TRUE] /\ UNCHANGED recorded
       \/ /\ session.use = "live" /\ answer \in LiveAnswers(prompt)
          /\ recorded' = Updated(recorded, [p \in {prompt} |-> answer])

(* record: the decision for this shape, and the vector of the body it was for. *)
Record(body, names) ==
  /\ decisions' = Updated(decisions, [shape \in {Fingerprint[body]} |-> names])
  /\ IF semantic THEN Upsert("decisions", [key \in {ShapeKey(body)} |-> body]) ELSE UNCHANGED indexVars

(* decompose_item, for the next job: an answer that splits is an item of the
   plan and a decision to be recalled, whatever becomes of the item. *)
Decompose ==
  LET job == Head(session.todo)
  IN  /\ session.open /\ session.indexed /\ session.todo # <<>>
      /\ \E prompt \in {Prompt(job, session.peers)} : \E answer \in LiveAnswers(prompt) \cup Range(recorded) :
           /\ Answered(prompt, answer)
           /\ session' = [session EXCEPT
                !.todo = Tail(@),
                !.items = IF answer.declined THEN @
                          ELSE Append(@, [target |-> job.target, new |-> answer.new])]
           /\ IF answer.declined THEN UNCHANGED <<decisions, indexVars>>
              ELSE Record(job.body, answer.names)
      /\ UNCHANGED <<analysisVars, docVars>>

(* available: the record is not empty, or a provider answers. *)
Available(use) == recorded # <<>> \/ use = "live"

(* run_pipeline builds the graph and runs the suite, llm_plan makes a client:
   without one the deterministic plan stands; else the handles of the indexes
   are made, and try RedisVL, ... *)
BeginPlan(use) ==
  /\ Called
  /\ report' = [tool |-> "llm_plan"]
  /\ IF Available(use)
     THEN session' = Opened(<<>>, use, TRUE) /\ Reopened({"decisions", "codebase"})
     ELSE UNCHANGED <<session, backend>>
  /\ UNCHANGED <<code, imports, semantic, cacheVars, rows, docVars, decisions, recorded>>

(* ... the symbols of the graph are indexed as they are in the files by now, the
   god functions among them, found by their names, are the jobs, ... *)
IndexCodebase ==
  LET sources == SourceOf(session.graph)
      pending == {s \in sources : ~Remembers(s)}
      vectors == [key \in {SymbolKey(s.symbol) : s \in pending} |->
                    (CHOOSE s \in pending : SymbolKey(s.symbol) = key).body]
  IN  /\ session.open /\ ~session.indexed
      /\ session' = [session EXCEPT !.indexed = TRUE,
                                    !.todo = Jobs(GodFunctions \cap DOMAIN session.graph)]
      /\ IF semantic THEN Upsert("codebase", vectors) ELSE UNCHANGED indexVars
      /\ UNCHANGED <<analysisVars, docVars, decisions, recorded>>

(* ... and after the last job the plan is made. *)
EndPlan ==
  /\ session.open /\ session.peers /\ session.indexed /\ session.todo = <<>>
  /\ session' = Closed
  /\ UNCHANGED <<analysisVars, indexVars, docVars, decisions, recorded>>
-----------------------------------------------------------------------------
(* Properties. *)

(* "The 2nd, 5th, Nth similar function is handled the same way"
   (decision_memory.py:6): once a shape has been split with names, a model that
   uses the names it is told to use never gives it others, from whichever caller,
   whatever was edited, replayed from the record or lost by the index in between.
   A split without names is a decision that the next one replaces. *)
DecisionsStand ==
  [][\A shape \in DOMAIN decisions :
       shape \in DOMAIN decisions' /\ decisions[shape] \in {decisions'[shape], None}]_decisions

(* "Unchanged symbols are skipped on re-index" (codebase_index.py:14), and only
   they: every symbol that still stands in the line the graph has it in is in the
   index with its body of now, after edits, edits undone and sessions on the other
   backend; and what is written for any other is the body of now of a definition
   of its name.  Not so if RedisVL fails half way, and older rows of the JSON file
   come back into use. *)
IndexFollowsCode ==
  [][session.open /\ ~session.indexed /\ session'.indexed /\ semantic /\ backend' = backend =>
       LET old == Stored("codebase")
           new == Stored("codebase")'
       IN  /\ \A d \in DOMAIN SymbolLines \cap DOMAIN session.graph :
                LineOf(d) = session.graph[d] => new[SymbolKey(d)] = code[d]
           /\ \A key \in DOMAIN new :
                \/ key \in DOMAIN old /\ new[key] = old[key]
                \/ \E e \in DOMAIN SymbolLines :
                     NameOf[e] = NameOf[key[2]] /\ new[key] = code[e]]_<<session, indexVars>>

(* "Recall assumes its nearest neighbor is a decision" (codebase_index.py:27):
   what is decided of a like body is recalled. *)
RecallFindsSimilar ==
  \A d \in GodFunctions :
    (\E key \in DOMAIN Stored("decisions") :
       /\ semantic /\ key[1] = "shape" /\ key[2] \in DOMAIN decisions
       /\ Similarity(code[d], Stored("decisions")[key]) >= DecisionThreshold)
      => Recalled(code[d]) # {}
=============================================================================
