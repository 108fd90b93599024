------------------------------ MODULE Analyses -------------------------------
(***************************************************************************)
(* The read-only tools of the MCP server over a repository that is edited  *)
(* between their calls: find_dead_code, find_duplicates, find_related and  *)
(* analyze_file, with the analysis cache (core/storage.py) they share and  *)
(* the vector index they fill.  A call is one step.                        *)
(***************************************************************************)
EXTENDS CallGraph, VectorIndex, ImportOrder

CONSTANTS
  Gone,               \* the body of a definition that was removed
  UsesOf(_, _),       \* definition, body -> the uses in it
  ScriptUses,         \* the uses in module bodies and __main__ blocks
  Fingerprint,        \* body -> its canonical_type_stream
  LinesOf, DepthOf,   \* body -> its lines, and its depth of nesting
  Preambles,          \* what a module may begin with: its imports
  Programs,           \* the repositories a behaviour may begin with ...
  Worked,             \* ... and bound: those that more than one call is made in
  Edits,              \* what may be edited: <<definition, body>>
  MaxCalls,           \* bound: edits and calls of tools
  Threshold,          \* the similarity from which two functions are a pair
  K                   \* how many neighbours a query asks for

Code == [Defs -> Bodies \cup {Gone}]

ASSUME ProgramsAssumption ==
  /\ \A c \in Programs : c \in Code
  /\ Worked \subseteq Programs
  /\ Edits \subseteq Defs \X (Bodies \cup {Gone})
  /\ \A d \in Defs, b \in Bodies : UsesOf(d, b) \subseteq Uses
  /\ ScriptUses \subseteq Uses
  /\ Preambles \subseteq [Modules -> Seq(Lines)]
  /\ MaxCalls \in Nat

VARIABLES
  code,         \* definition -> its body
  imports,      \* module -> its import lines and what is between them
  calls,        \* how many edits and calls there were
  semantic,     \* is a provider of embeddings available
  fingerprints, \* the cache, "fp:...": key -> fingerprint
  deadCode,     \* "dead_code:...": signature -> report
  analysed,     \* content -> the file it was analysed in first, and what was found
  report        \* what the last call returned

cacheVars == <<fingerprints, deadCode, analysed>>
analysisVars == <<code, imports, calls, semantic, cacheVars, report>>

Present(c) == {d \in Defs : c[d] # Gone}
UsesIn(c) ==
  {u \in ScriptUses \cup UNION {UsesOf(d, c[d]) : d \in Present(c)} : u.to \in Present(c)}

AnalysesInit ==
  /\ IndexInit
  /\ code \in Programs
  /\ imports \in Preambles
  /\ calls = IF code \in Worked THEN 0 ELSE MaxCalls - 1
  /\ semantic \in BOOLEAN
  /\ fingerprints = <<>> /\ deadCode = <<>> /\ analysed = <<>>
  /\ report = [tool |-> "none"]

Charged(n) ==
  /\ calls + n <= MaxCalls
  /\ calls' = calls + n

Called == Charged(1)

(* Somebody edits the repository. *)
Edit(d, body) ==
  /\ Called
  /\ code' = [code EXCEPT ![d] = body]
  /\ report' = [tool |-> "none"]
  /\ UNCHANGED <<imports, semantic, cacheVars, indexVars>>

Dead(c) == {r \in DeadSymbols(UsesIn(c)) : r.symbol \in Present(c)}

(* Mutant: the signature is that of the files' names. *)
SignatureOfNames(c) == {HomeOf[d] : d \in Present(c)}

(* _dir_signature: every file with its content. *)
Signature(c) == <<c, imports>>

FindDeadCode ==
  /\ Called
  /\ deadCode' = Updated([s \in {Signature(code)} |-> Dead(code)], deadCode)
  /\ LET cached == Signature(code) \in DOMAIN deadCode
     IN  report' = [tool |-> "find_dead_code",
                    dead |-> IF cached THEN deadCode[Signature(code)] ELSE Dead(code)]
  /\ UNCHANGED <<code, imports, semantic, fingerprints, analysed, indexVars>>

(* _collect_py_files: tests are no duplicates. *)
Scanned == Modules \ TestModules

Functions == {d \in Present(code) \ (Classes \cup Assignments) : HomeOf[d] \in Scanned}
KeyOf(d) == <<"function", HomeOf[d], NameOf[d]>>
Keys == {KeyOf(d) : d \in Functions}
Bearing(key) == {d \in Functions : KeyOf(d) = key}

(* The vectors of the functions; of two under one key the later one's. *)
Embedded == [key \in Keys |-> code[Max(Bearing(key))]]

(* The fingerprints of a call, taken from the cache where it has them; of two
   functions under one key the first one's. *)
Fingerprinted ==
  [key \in Keys |-> IF key \in DOMAIN fingerprints THEN fingerprints[key]
                    ELSE Fingerprint[code[Min(Bearing(key))]]]

Twins(prints) ==
  {pair \in kSubset(2, Functions) : \A a, b \in pair : prints[KeyOf(a)] = prints[KeyOf(b)]}

(* Near by the vectors, and neither the same key nor a structural pair; of two
   as near as each other the index prefers some one. *)
Similar(bucket, prints) ==
  LET matches(key) == Query(bucket, Embedded[key], K, 0) \cap Keys
  IN  {pair \in UNION {{{key, other} : other \in matches(key) \ {key}} : key \in Keys} :
         /\ \A a, b \in pair : a # b => prints[a] # prints[b]
         /\ \A a, b \in pair : a # b => Similarity(Embedded[a], Embedded[b]) >= Threshold}

FindDuplicates ==
  /\ Called
  /\ fingerprints' = Updated(fingerprints, Fingerprinted)
  /\ IF semantic THEN Upsert("server", Embedded) ELSE UNCHANGED indexVars
  /\ report' = [tool |-> "find_duplicates", structural |-> Twins(Fingerprinted),
                similar |-> IF semantic THEN Similar(Stored("server")', Fingerprinted) ELSE {}]
  /\ UNCHANGED <<code, imports, semantic, deadCode, analysed>>

(* find_related: like functions in other files, and the modules that call
   into this one. *)
FindRelated(m) ==
  LET targets == {key \in Keys : key[2] = m}
      near(key) == Query(Stored("server")', Embedded[key], K + Cardinality(targets) + 1, 0)
  IN  /\ Called
      /\ IF semantic THEN Upsert("server", Embedded) ELSE UNCHANGED indexVars
      /\ report' = [tool |-> "find_related", dependents |-> DependentsOf(m, UsesIn(code)),
                    related |-> IF ~semantic THEN {}
                      ELSE {other \in Keys \ targets : \E key \in targets :
                              /\ other \in near(key)
                              /\ Similarity(Embedded[key], Embedded[other]) >= Threshold}]
      /\ UNCHANGED <<code, imports, semantic, cacheVars>>

(* The text of a file of program c: its import lines and its definitions, in file order. *)
TextOf(m, c, lines) ==
  LET defs == SetToSortSeq({d \in Present(c) : HomeOf[d] = m}, <)
  IN  [imports |-> lines[m],
       defs |-> [i \in DOMAIN defs |->
                  [name |-> NameOf[defs[i]], body |-> c[defs[i]],
                   nested |-> AroundOf[defs[i]] # {},
                   function |-> defs[i] \notin Classes \cup Assignments]]]

(* _analyze: what is worth refactoring, its rank, and the place that breaks a
   tie (MAX_FILE_LINES, MAX_FUNC_LINES, MAX_NESTING). *)
Opportunities(text) ==
  LET places == DOMAIN text.defs
      functions == {i \in places : text.defs[i].function}
      length == Len(text.imports) +
                  MapThenSumSet(LAMBDA i : LinesOf[text.defs[i].body],
                                {i \in places : ~text.defs[i].nested})
      lines(i) == LinesOf[text.defs[i].body]
      depth(i) == DepthOf[text.defs[i].body]
      found(kind, rank, at) == [kind |-> kind, rank |-> rank, at |-> at]
  IN  (IF length > 150 THEN {found("split_module", length, 0)} ELSE {})
        \cup (IF OutOfOrder(text.imports) THEN {found("reorder_imports", 40, 1)} ELSE {})
        \cup {found("split_function", lines(i), 2 * i) : i \in {j \in functions : lines(j) > 30}}
        \cup {found("flatten_nesting", 20 * depth(i), 2 * i + 1) : i \in {j \in functions : depth(j) > 3}}

(* analyze_file: a content seen before is answered from the cache, under the
   name of the file it was seen in. *)
AnalyzeFile(m) ==
  LET content == TextOf(m, code, imports)
  IN  /\ Called
      /\ analysed' = Updated([c \in {content} |-> [file |-> m, found |-> Opportunities(c)]], analysed)
      /\ report' = [tool |-> "analyze_file", of |-> m, result |-> analysed'[content]]
      /\ UNCHANGED <<code, imports, semantic, fingerprints, deadCode, indexVars>>
-----------------------------------------------------------------------------
(* Properties. *)

(* What runs and is reported as dead with "high" confidence was used in a way the
   call graph cannot see: as a value, in a string, under another name, by a
   module body or a decorated function, or, as an attribute or by a relative
   import, beside a namesake; a plain call of a name that was imported from its
   module as the scan names it is never missed. *)
LiveIsReportedOnlyUnseen(uses) ==
  \A r \in report.dead :
    r.confidence = "high" /\ r.symbol \in InUse(uses) => \E u \in uses : u.to = r.symbol /\ Unseen(u)

(* Of what the pipeline would remove, only that is in use which is referenced
   from a module body or by way of a string, or from what stands in a class or in
   a function, directly or not. *)
LiveIsRemovedOnlyUnseen(uses) ==
  Removable(uses) \cap InUse(uses) \subseteq
    Closure(RunUnseen(uses), [d \in Defs |-> ReferenceEdges(d, uses)])

(* What each of the two readings takes for dead that runs all the same is used
   in the ways it is blind to, and in no other. *)
LiveCodeIsMissedOnlyUnseen ==
  report.tool = "find_dead_code" =>
    LiveIsReportedOnlyUnseen(UsesIn(code)) /\ LiveIsRemovedOnlyUnseen(UsesIn(code))

(* "A re-seen, unchanged tree returns the prior result" (dead_code.py:37): and
   a changed one never does, whatever edits, and edits undone, are between two
   calls; so for analyze_file, but for the file's name. *)
ReportsAreFresh ==
  /\ report.tool = "find_dead_code" => report.dead = Dead(code)
  /\ report.tool = "analyze_file" =>
       report.result.found = Opportunities(TextOf(report.of, code, imports))
=============================================================================
