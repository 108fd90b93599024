# Refactorika in TLA+

Refactorika is a graph-driven refactoring engine. Engines compute edits, a stack
of gates (parse, ruff, pyright, pytest) decides whether an edit is kept, git holds
what was kept, and a log remembers every attempt. Around it stands a benchmark in
which agents refactor a repository through the same gates.

This directory models the parts that decide, order, persist and undo; checks them
with TLC on small instances; and proves every safety property that the runs check
with TLAPS, for every value of the constants. `PROJECT.json` says which lines of the code each
definition stands for. Paths below are relative to `src/`.

## 1. The system

| Part | Source | State | Operations | Talks to |
|---|---|---|---|---|
| Checker | `refactorika/pipeline/checker.py`, `core/gates.py` | worktree, git index and HEAD, log | `verify_apply` | git, ruff, pyright, pytest, Storage |
| Graph | `graph/model.py`, `graph/order.py`, `graph/resolver.py` | symbols, edges (immutable once built) | `build_graph`, `topo_order`, `reachable_from`, `impact_of` | tree-sitter, Jedi |
| Planner, pipeline | `pipeline/planner.py`, `pipeline/orchestrator.py`, `transforms/dead_code.py` | worklist, `seen` of the cascade, the tree | `deterministic_plan`, `run_pipeline`, `_cascade_dead_code` | traversals, transforms, Checker |
| LLM planner | `pipeline/planner_llm.py`, `llm/client.py` | record of answers, the items of a plan | `llm_plan`, `decompose_item` | a model, memory |
| Memory | `memory/*` | decisions, contexts, vectors in RedisVL or JSON | `record`, `recall`, `build_codebase_index`, `upsert`, `query` | Redis, Storage |
| Analyses | `analysis/*`, `core/analyze.py`, `transforms/imports.py` | caches by content, vectors | `find_dead_code`, `find_duplicates`, `find_related`, `analyze_file`, `audit_repo` | Storage, memory |
| Docs generator | `docs_gen.py` | contexts | `generate_docs`, `get_context_map` | call graph, memory |
| Specialists | `agents/*` | the plan in Storage, counts | `run_campaign`, `dispatch_plan`, `handle` | audit, `apply_and_verify`, Checker |
| apply_and_verify | `core/apply.py`, `languages/*` | worktree, git, log | `apply_and_verify_multi` | language adapters, Storage |
| Storage | `core/storage.py` | log (Redis list or one JSON file), cache, plan, vectors | `append_log`, `count_attempts`, ... | every process that edits |
| Harness, its benchmark | `refactorika/harness.py`, `eval/harness_bench.py` | worktree of one attempt, last record, rows | `verify_edits`, `calibrate`, `_run_pair`, `aggregate` | a model, ruff, pyright, pytest |
| Agent loop, driver | `eval/agents/loop.py`, `driver.py`, `tools.py`, `harness_tools.py` | workflow state, call counts, plan, verdict of the last patch | one `LoopAction` per turn, `abort` | a model, `submit_patch` of either arm |
| Campaign | `eval/agents/campaign.py` | baseline bytes, completed steps, closed flag | `execute_step`, `finish` | callbacks of its caller |
| Full-system benchmark | `eval/full_system_bench.py` | worktrees per arm, answers, records | `calibrate`, the pool of arms, attempts, grading, `aggregate` | agents, `verify_edits`, hidden tests |
| RefactorBench adapter | `eval/refactorbench.py` | selected tasks, results | `run_eval`, `run_task` | a model, rope, unittest |

What is hard in it, and where a unit test hardly looks:

* *Failure in the middle.* Every edit writes several files one after the other,
  runs tools that may crash, and undoes the writes file by file; the undo may
  fail, too. Some of the writes stand inside a `try`, some do not.
* *State that is older than its use.* The plan's reachability and impacts are
  computed once and used after every edit in between; the verdict of the last
  patch of a turn outlives the turn; `retries` is read before an edit and stored
  after it; reports, fingerprints, vectors and answers of a model are cached.
* *Protocols.* The workflow's transition table, replans, the one repair after a
  failed audit, budgets that are spent by the action that is being accounted.
* *Order.* Dead callers must go before dead callees, everything else leaf to
  root, with recursion as a unit; the code does it with an iterative Tarjan.
* *Two readings of one rule.* Two call graphs, two judgments of the order of
  imports, two classifications of a task, two stores of one vector space.
* *Processes and threads.* An MCP server and a command line share one log; a lost
  reply of Redis makes the handler roll back and log again; a JSON file is truncated
  before it is rewritten; the arms of the full-system benchmark run in a pool.

## 2. Modules

| Module | What it is |
|---|---|
| `VerifiedEdit` | abstract: an edit of several files happens on all of them or on none, and the log says which |
| `Checker` | `verify_apply` step by step: snapshot, four gates, writes, rollback, git, log |
| `Campaign` | abstract: a campaign closes with an audited tree, or its baseline, or says that its rollback is incomplete |
| `RefactorCampaign` | the transaction of `campaign.py` |
| `AgentLoop` | the loop under *any* driver |
| `AgentDriver` | EXTENDS `AgentLoop`: the loop with the driver and both `submit_patch` |
| `VerifyEdits` | one call of `verify_edits` |
| `HarnessBench` | EXTENDS `VerifyEdits`: calibration, both arms, attempts, records, status |
| `FullSystemBench` | the pool of arms, the fallback, the attempts of the on arm, grading, the report |
| `SymbolGraph` | the graph, and what can be said of any graph |
| `LeafFirst` | abstract: units are emitted after what they reference |
| `TopoOrder`, `ReachableFrom`, `ImpactOf` | the three traversals, one action per iteration of their loops |
| `Planner` | composes the traversals into `deterministic_plan` |
| `Pipeline` | EXTENDS `Planner`: the worklist is worked off on a tree that changes, then the cascade |
| `EditLog` | the log of `core/storage.py`, Redis or JSON |
| `ApplyMulti` | EXTENDS `EditLog`: several processes call `apply_and_verify_multi` |
| `CallGraph` | two readings of a program: `call_graph.py` by name, `resolver.py` by binding |
| `VectorIndex` | the vector index with its two backends |
| `ImportOrder` | how a file's imports are judged, and how they are put in order |
| `Analyses` | EXTENDS these three: the read-only tools with their caches, over a repository that is edited |
| `ContextDocs` | EXTENDS `Analyses`: the docs generator and the contexts |
| `LlmPlanner` | EXTENDS `ContextDocs`: index, decisions, prompts, record of answers, plans |
| `Dispatch` | EXTENDS `LlmPlanner`: audit, plan and specialists, and all that one server does |
| `RefactorBench` | selection, classification and outcomes of the tasks of `refactorbench.py` |
| `CheckerProofs`, `AgentProofs`, `TransactionProofs`, `TraversalProofs`, `PipelineProofs`, `ApplyMultiProofs`, `FullSystemBenchProofs`, `WorkbenchProofs` | theorems |
| `MC*` | the instances TLC checks; `MCNamesake` is the one of `Pipeline` in which two definitions share a name |

How state and actions correspond to the code:

* **Checker.** `disk`, `index` and `head` are the worktree, git's index and HEAD.
  `pc` is the place in `verify_apply`; `todo` is what the loop over files has not
  reached (the order of files is left open). `before` is the tree the call found;
  `Original(f)` is what the code snapshots of it, the *text* (`read_text`) or `""`
  for a missing file. `rescue` says that the handler of `except Exception` has been
  entered. A gate's exception, a raising write, restore or log call, an unseen
  failure of git, tool output that is not JSON, and a kill are actions or choices
  switched on by `Faults`. File contents are a handful of values which the
  constants `Parses`, `TextOf`, `Formatted`, `Violations`, `TypeErrors` and `Passes`
  give their meaning.
* **AgentLoop / AgentDriver.** `state`, `calls`, `phaseCalls`, `edits`, `retries` are
  the fields of the context, `stage` says whether the loop, a turn of the driver,
  or the abort is running. `Handle` is the accounting and the transition of one
  `LoopAction`. A turn is `CallModel`, then any number of patches, then one
  declaration, all chosen freely: the model is arbitrary. `Restored` is `abort()`.
  `rejected` is no variable of the code: `Watch` keeps in it whether a patch or the
  audit was rejected and nothing has landed since.
  The two arms' `submit_patch` differ in what they refuse and in what a failed
  patch leaves; both are modelled.
* **RefactorCampaign.** One action per call and per outcome of a callback; `pc` says
  which callback is running, so that each may answer, raise or leave half of its
  writes. `tree` and `baseline` hold bytes, as the code does.
* **VerifyEdits / HarnessBench.** `callAt` is the place in `verify_edits`; `guarded` says
  that the try block is around; `outcome` is its record, or says that the call raised,
  "unreadable" if it was the `ValueError` of a tool's output that cannot be decoded.
  `strewn` is history: the files such calls left as proposed. `at` is the place in the
  benchmark, `attempt`, `asked` and `final` belong to `_run_pair`, `rows` are the
  records, `controls` the good and the bad patch of the calibration.
* **FullSystemBench.** `tree` is what is in the worktree of an arm, as the set of
  merits a patch has (valid, gated, behaves, structured), `call` is the thread or the
  call of an arm, `redo` who is asked again after the pool, `crashed` remembers the
  gate crashes, which the code forgets. Agents edit their worktree while they work.
* **Traversals.** `work` of `TopoOrder` is the work stack: a symbol and what its
  iterator has left. `Listings(S)` leaves the order of a Python set open. Symbols
  are numbers, so that `<` is the order in which names are sorted.
* **Pipeline.** `edges` stays the graph of the plan; `source` and `present` are what
  `build_graph` would find now. `Cut(q)` is what `remove_dead_code` really removes:
  the top-level definitions with q's *name*, and what they contain; `bound` has the
  symbols whose name an assignment still binds, which a removal takes along. `entries`
  are the entry points of now: the resolver reads them off the text, a registering "@" in
  the four lines above a definition of `Marked` among it, and every edit of a file may move one in
  or out of that window (`Moved`); `lost` keeps what the plan's entry points lost by this.
  The Checker is its outcome, `Remove` or `Keep`, either of which may raise, and
  `run_pipeline` with it (stage "raised").
* **ApplyMulti / EditLog.** One worktree and one `call` record per client; `log` is
  shared. It knows a file by its absolute path, `PathOf`, and checkouts on two machines
  with one Redis may have files of the same path. With JSON, `ReadState`, `TruncateState` and `FillState` are the steps of
  one `append_log`.
* **CallGraph to Dispatch.** A program is `code`, definition by definition a body or
  `Gone`; `UsesOf` says which uses are in a body (by name, as an attribute, under
  another name, as a value, in a string), and both graphs are computed from these.
  `Spelled` says which modules an import names in full, as a relative import does not.
  A vector *is* the body it was made of, and `Similarity` the cosine. A call of a
  read-only tool is one step, since only editors run beside it and they are not
  waited for; an LLM session takes a step for its neighbours, its index, each god
  function and its end, and a campaign one for each task and each spec, with edits
  by others in between. `session.graph` has the symbols and lines of the graph that was
  built when the session began; what is indexed later is what is found then by the name
  and the line it has there (`FoundAt`). `rows` is both stores of the index, `backend` which one each
  handle uses (`_use_redisvl`), `recorded` the file of answers.
* **RefactorBench.** A task is what the patterns make of its instruction, how many
  tests its file has, and what testing it may print.

## 3. Runs

| Run | Question | Distinct states |
|---|---|---|
| `checker_faults` | whatever raises or dies, is the returned status true of the disk, and does the call end? | 540 000 |
| `checker_steady` | over two calls, do disk, HEAD and log stay in step, and is each call atomic seen from outside? | 813 000 |
| `checker_bytes` | is the tree restored byte for byte? **No** | violated |
| `agent` | with any model, and under failing providers, clocks, gates and writes: is the plan followed, is a run an all-or-nothing campaign, does it return? | 570 000 |
| `agent_edits` | are the edits a run returns what it changed? **No** | violated |
| `transactions` | three machines side by side: a campaign, the harness benchmark, RefactorBench. Is each what it reports? | 1 777 000 |
| `pipeline` | is the order leaf to root, and does the plan stay right while the tree changes? | 350 000 |
| `pipeline_namesake` | the same with two definitions of one name: is only dead code removed? **No** | violated |
| `full_system` | do arms stay apart, is the first answer the initial one, does the benchmark end in an artifact? | 2 120 000 |
| `full_system_gate_crash` | does a crashed gate invalidate the run, whatever arm met it? **No** | violated |
| `workbench` | edits, tools, plans and campaigns of one server: are reports fresh, do decisions stand, does the index follow, does every call return? Beside it, the edit tool of two processes: is what it commits gated, and what it returns logged? | 821 000 |
| `planner_recall` | is a decision on a like function recalled? **No** | violated |

The machines of `transactions` share nothing, so that a behaviour has one of them at
work and two at rest: one run instead of three. In `workbench` a behaviour likewise has
either the server's tools at work or the edit tool of several processes, which edit
worktrees of their own and share only the log.

Every property has a mutant in `PROJECT.json`: a change of one mapped definition, of
the kind a bug in that code would be, under which TLC finds the property violated.

### Bounds, and why they are enough

* *Files* (2 or 3) and *contents* (4 to 6): one file that depends on another is
  enough for a half written, half restored or half gated edit; the contents are one
  each for every verdict of a gate (missing, empty, unformatted, with a violation,
  with a syntax error, with other line ends).
* `MaxEdits` = 1 under faults and 2 without: a call starts from every tree, so that
  a second one under faults starts from nothing new; two calls are needed for what
  relates them (`HeadFollowsDisk`, `LogReplaysHead`). `checker_steady` has no ruff
  violations, which would only reject more.
* `TotalCalls` = 4, phases lower, `MaxPatches` = 2: enough for plan, patch, a
  rejected patch, a replan, a repair and the audit; the phase limits are lower than
  the total, so that both kinds of budget run out.
* `MaxCalls` = 4 of the campaign: three steps in any order and `finish`, from the
  trees named by `Opened`; with `MaxEdits` = 2 of `ApplyMulti` each process fails
  and tries again, and the two interleave, on files of one path among others.
* `MaxRetries` = 1 and `Pairs` = 1 of both benchmarks: a first and a last attempt;
  what a pair begins with is made anew, so that a second pair meets nothing else.
* The 576 graphs of `pipeline` are those among four definitions in two modules in
  which who uses a method names its class (code that makes its instances inside
  functions) and only the method refers to the one entry point. Four are enough for a
  cycle with a tail, a cross reference into a finished component, and a dead chain. The
  entry point is one by its decorator; the class is none, and an edit may bring that
  decorator above it; the module assigns to the method's name, too. `MaxRounds` = 2 (25 in the code) makes the
  cascade meet its limit; `MaxDropped` = 1 lets one cleanup orphan something.
* `full_system`: three arms are the two that always run and the agent that edits
  behind gates; a fourth adds another copy of the third without gates.
* `workbench`: eight definitions in three modules have a method, a namesake, a registered
  function, an assignment, a name in `__all__`, a relative import beside one spelled in
  full, and one each of the ways to use a name; all well-formed programs of the
  menu are initial states, all lists of three lines are imports, `from.b` and a tab after
  the keyword among them. One thing is varied
  at a time (`MCInit`): a program of `Worked` gets `MaxCalls` = 3 edits and calls, of which a
  campaign counts for two: enough for a call, an edit and the call again. Any other
  gets one call, which is all a report of a program needs. Nobody asks for the documents
  or the findings of the third module (`Asked`), which go like those of the others.
  `Outages` = {"decisions"}: RedisVL fails under the decisions, the handle with more
  than one kind of reader; under the others a failure is that of a session that
  begins on JSON. RedisVL failing in a *query* is left out. The conditions of the
  theorem about dead code (`EntryPointsStandAlone`, `ScopesAreNamed`) are evaluated for
  every program of the run, those of the pipeline's for every graph.
* RefactorBench: a task that is a rename, one phrased otherwise, one that is none,
  and one without tests; cut to `SmokeTasks` = 2 (5 in the code) or a limit of 3.
* The graph and every tree, tool set and worktree named in the MC modules are
  initial states, and none is singled out by a symmetry.

### Fairness

`WF_vars(Step)` in `Checker`, `AgentDriver` and `Pipeline`, `Going` in `Dispatch`, and one
per arm in `FullSystemBench`: each is one thread that has begun and runs on. It assumes
that ruff, pyright, pytest and git end: the harness and the agents call theirs with a
timeout, `gates.py` and `checker.py` do not, and a tool that hangs there hangs the call.
A tool that fails is an action of its own. Fairness is never asked of a fault, of an
edit by somebody, or of a new call, and never of a *particular* answer of a model or a
gate: `RunReturns` holds for a model that answers malformed actions for ever, because
every turn is charged. The others have no liveness and assume none.

## 4. What the checks show

* **Checker.** `rolled-back` is true whatever raised, the restore itself included
  (the handler starts over, once); `committed` means the whole edit, formatted, with
  no new violation or type error and green tests, provided ruff prints JSON. Seen
  from outside, calls are atomic (`ImplementsAtomicEdits`), and a rejected edit is
  never swept into a later commit.
* **Agents.** A completed run leaves the audited tree; a rollback reported complete
  has restored every source; steps follow their dependencies even across replans; a
  replan follows a rejection after which nothing has landed.
* **Campaign.** It is a transaction for every plan, audit and fault.
* **Harness and its benchmark.** Only a worktree in which every required gate ran and was
  green is accepted; the rows and the status say what was done; and an attempt leaves
  nothing for the next but the files of a patch under which a tool printed what cannot be
  decoded.
* **Full-system benchmark.** A call begins in a fresh worktree, the second time as the
  first; after the pool, calls come one at a time; the initial figures are those of
  the first answer on each path; whatever raises, an artifact says so.
* **Log.** With Redis, or with a JSON file and one process, no returned call is
  missing from the log. `retries` is read when a call begins, and another process may
  log a failure on the same paths before the record is written: it counts every failed
  attempt that was logged before the call began, and none that the log does not hold
  before the record.
* **Pipeline.** Tarjan's iterative form emits every symbol, cycles as units, each
  after what it references. A plan's impacts and its reachability, although stale,
  stay safe: edits only remove references, or definitions that are dead, and an impact
  covers all that goes with its target. What is removed is dead in the graph that decided
  it: a symbol which a moved "@" has made an entry point since is still removed by the plan.
  `CascadeOnlyRetries` says what this means for the cascade: unless a cleanup has
  dropped a reference, or the decorator of an entry point was moved out of sight, it
  finds nothing the plan had not found.
* **Analyses.** `LiveCodeIsMissedOnlyUnseen` names exactly the uses each of the two
  graphs is blind to, a relative import beside a namesake elsewhere among them; reports are of the code as it is, through edits and their undoing.
* **Planning with a model.** A model that uses the names it is told to use gives a
  shape, once it has named its pieces, the same names for ever, over edits, lost vectors
  and replayed answers; a decision without names is replaced by the next. The index has
  the body of now of every symbol that still stands in the line in which the graph of
  the plan has it.
* **Specialists.** What `ImportAgent` writes is not reported again, but for
  `import a, b`, a tab after the keyword, or `from.b import x`; a campaign returns whatever its specialists raise.
* **RefactorBench.** A task chosen as in scope is not declined later: the answer that
  chose it is recorded. An answer that is none is asked for again.

### Where the code differs from its own words

The first five have a run with a counterexample.

1. `checker_bytes`: a rejected edit leaves a file it wanted to create behind, empty,
   and rewrites `\r\n` as `\n` (`checker.py:66`); `docs/architecture.md:132` says
   "byte-for-byte".
2. `agent_edits`: a turn whose replan request is sent back loses its edits, and one
   that replans gets them back after the abort (`driver.py:432`, `loop.py:187`).
3. `pipeline_namesake`: a removal goes by the bare name of its target, among the
   top-level definitions of its file (`transforms/dead_code.py:52`). For a dead
   private method it deletes a live function of the same name; without one it is no
   edit at all.
4. `full_system_gate_crash`: a gate that crashes under the agent behind the harness is
   looked for under a key that it is never stored under (`full_system_bench.py:305`,
   `harness_tools.py:154`); the report is valid, against `docs/evaluation.md:88`.
5. `planner_recall`: `recall` takes the nearest vector for a decision
   (`decision_memory.py:64`), in the space that duplicates, related code and docs
   put theirs into; `codebase_index.py:26` says the two must be disjoint.

Seen while modelling, and part of the models as the code has them:

* `checker.py:87`, `core/apply.py:93`, `harness.py:178`: the writes stand before the
  `try`, so that one that raises leaves the files before it edited, and no record. The
  runs allow it; the statuses say nothing of a call that raised.
* `gates.py:66`, `harness.py:117`: ruff without JSON counts as zero violations
  (`docs/v2-worklog.md` lists it as open). Hence the condition on `CommitIsVerified`.
* `harness.py:243`, `harness_bench.py:432`: a `UnicodeDecodeError` of a tool's output
  passes the handler by with the patch on disk, and is then taken for an invalid
  proposal: the next attempt begins there, the gates see it, and the baseline of its
  violations counts it in. `AttemptsAreIndependent` and `ReportIsTrue` except those files.
* `driver.py:596`: the baseline is the text of the `*.py` files. An abort rewrites line
  ends of files it never touched, and leaves patched files of other kinds.
* `driver.py:452`: a plan declared in EXECUTE or REPAIR replaces the old one without a
  replan; `driver.py:361`: patches are accepted in DISCOVER; `loop.py:272`: a spent
  budget stops states that cost no call.
* `campaign.py:181`: an exception of a callback leaves the campaign open on a tree
  that is neither; its docstring (line 53) promises one transaction.
  `campaign.py:134`: a failure reports the steps it has just undone.
* `planner.py:91`: cleanups are ordered by the position of their module symbol, which
  has no edges, so by name, not leaf to root (`planner.py:47`). No property needs it.
* `resolver.py:223`: references at module scope make no edge, so that a private class
  used for a module-level instance counts as dead. This is why the graphs of the
  `pipeline` run are restricted; ruff's F821 is what stops such a removal.
* `resolver.py:203`: a public *method* anchors nothing, since it has a scope
  (`docs/v2_spec.md:242`: its "name has no leading `_`"). A private helper used only by a
  public method nothing refers to, or by `__init__`, counts as dead; ruff's F821 stops
  the removal within a file. So `CallersGoFirst` speaks of the dead symbols a plan
  removes, and `RunUnseen` has everything nested in it. A `test_` or decorated method
  does anchor, but not its class: a dead private class takes it along.
* `checker.py:43`: the id of a test in a class lacks the class, pytest does not find
  it, and the edit is rejected.
* `orchestrator.py:108`: `docs/architecture.md:160` calls the cascade a fixpoint. It
  tries symbols by name and none twice: one that was rejected while a dead user was
  there stays when the user is gone; and private methods, `__init__` among them, spend
  its 25 rounds on removals that are no edits.
* `resolver.py:117`: a decorator that looks like a registration makes an entry point of
  whatever is defined within four lines below it, its definition's neighbour as well, and
  each round of the cascade looks anew (`orchestrator.py:103`). A removal or a format that moves lines thus makes
  entry points and unmakes them.
* `transforms/dead_code.py:24`: a removal by name also takes the module's assignments to
  that name. `orchestrator.py:70`: what the Checker or `build_graph` raises leaves
  `run_pipeline`, with the edits that were committed before.
* `orchestrator.py:53`: a red baseline is recorded and not acted on
  (`docs/architecture.md:134`).
* `storage.py:95`: two processes on one JSON file lose each other's records
  (`docs/v2-worklog.md:106`); `RetriesAgreeWithLog` and `ReturnedMeansLogged` fail without
  the condition `~SharedFile`. `storage.py:88`: a write that fails leaves a file that makes
  every later call raise. A lost reply to an RPUSH puts a record into the log twice.
* `full_system_bench.py:937`, `harness_bench.py:433`: the one reports the retries of the
  last verification record, whatever came after; the other resets it. An unreadable
  answer after a rejected one counts in one report and not in the other.
* `full_system_bench.py:862`: a gate that dies of a `UnicodeDecodeError` leaves its patch
  in the worktree, and is recorded as an invalid patch with its rollback intact; the
  next attempt begins there. `CallsStartFromBaseline` makes this one exception.
* `harness_bench.py:255`: the off arm refuses a patch that creates a file, the on arm
  lands it; an empty patch ships in the off arm. No trials at all divide by zero.
* `harness_tools.py:92`, `tools.py:88`: one arm refuses edits under `tests/`, the other
  of any test file. The audit rejects either.
* `refactorbench.py:248`: a test process that dies before it prints a summary counts as
  all tests passed; a repository that cannot be copied (227) ends the whole evaluation.
* `call_graph.py`: a decorated definition is no symbol; an alias of an import and a
  module body make no edge. `dead_code.py`: the branch for public names with no call
  site cannot be reached.
* `call_graph.py:204`, `parser.py:72`: the table of imports holds the words of the
  statement. A relative import, or one under another root than that of the scan, is no node
  of the graph, and its call goes to whatever definition has that name alone, or to none.
* `core/analyze.py:51` and `transforms/imports.py:13` read `import a, b`, a tab after the
  keyword and `from.b import x` differently, so
  that a file with one may be reordered and reported again; what stands between two
  imports is dropped. `analyze_file` answers a content from its cache under the name of the
  file it was first seen in.
* `duplicates.py:166`: fingerprints are cached by file and name: namesakes, and
  functions that were edited, are compared by another's text.
* `agents/duplicate_agent.py`: `handle` does not accept the keywords it is called with;
  its tasks would be skipped, if a plan had any: `build_plan` makes none for it or for
  `DeadCodeAgent`. A task whose second spec raises counts as skipped, although the first
  was committed. The text path of `ComplexityAgent` commits a file it "gets no work" for.
* `core/apply.py:64`: `retries` is what the log says of the absolute paths, whichever
  machine they are on.
* `agents/orchestrator.py:102`: the plan goes to its campaign through a key all processes
  share.
* `llm/client.py:3`: "a recorded run replays identically" does not hold once the run has
  recorded decisions, since these are in the prompts. `available()` is true with any
  record.
* `planner_llm.py:144`: a decision is recorded before its edit is verified.
  `planner_llm.py:146`, `252`: an answer without names is a decision with none, which tells
  the model nothing the next time. `codebase_index.py:83`: a symbol is looked for in the
  line the graph has it in, which is older than the baseline run of the suite, so that one
  an edit has shifted stays out of the index, or gets the body of a namesake.
  `planner_llm.py:226`: rows of RedisVL carry no names, so that neighbours are never shown
  with decisions. God functions have 30 lines here and more than 30 in `analyze.py`.
* `vector_index.py:191`: one failure makes a handle use JSON for good, with older rows.
  `codebase_index.py:148`: `embed` returning None leaves the index behind the code.
* `context.py:61`: modules are also related by the first segment of their names;
  contexts of files outside the working directory collide by stem; `get_context_map`
  returns the context of the last `generate_docs`. `agent_memory.py` overwrites the
  half of its Markdown file that is meant for the reader's notes.

## 5. What is proved

TLAPS checks every obligation of eight modules, from the named assumptions on the
constants alone. Every invariant, action property and refinement of a passing run has a
theorem (`PROJECT.json` lists which); TLC checked the property before. Behind most of
them stands one argument: what each place in the code has established, written down as
an inductive invariant, since the property speaks of the end only.

**`CheckerProofs`** (contents and gates are arbitrary functions):

* `TypeCorrect`. `Typed` strengthens `TypeOK` with what each place of `verify_apply`
  implies of the call: a loop is over touched files only, an edit in flight touches
  something, a written file exists, a status is decided before it is logged.
* `RollbackIsExact`, under every fault. `Restorable`: files still in `todo` of a rollback
  are anything, those out of it are restored, untouched ones as they were found.
* `CommitIsVerified`, for `"ruff" \notin Faults`. `Verified` carries the verdict of each
  gate from the file it was given for to the commit: the lint gate rewrites files
  while others are still to be looked at, the type gate looks at the final tree.
* `CheckerImplementsAtomicEdits`, without write, log and kill faults (with them a call
  may end with neither outcome): the steps of a call stutter, its last one is `Accept`
  or `Reject`.
* `WorktreeStaysClean`, without git, write and kill faults: `Following` says that the
  snapshot is tidy during a call, so that what a rollback restores is, too.
* `LogTellsHead`, without git, log and kill faults: `Replayed` says that the log replays
  to HEAD, between a commit and its record the log with that record.

**`AgentProofs`**. For a driver that does *anything*: `LoopKeepsBudgets`, a completed run
overspent no budget and a stopped one by one action at most, and
`LoopCompletesFromAudit`. For the driver of both arms, any model and every fault,
`DriverInv` is proved over the whole of a turn and an abort:
`CompletedRunsAreAudited`, `RollbacksRestoreSources`, `StepsKeepTheirOrder`,
`ReplansAreEarned`, `RunCompletesFromAudit`, and the refinement `RunIsACampaign`, in which
all the steps of a run stutter but the one that returns. `Replans` is what the code
relies on unsaid: a replan is allowed only while the last patch is bad or the audit's
repair stands; of these the history variable `rejected` knows which came last.

**`TransactionProofs`**. Of the campaign: `TypeCorrect`, `StepsCompletedInOrder`,
`FlagsAgree`, `StaysInScope` and `CampaignIsATransaction`; `InFlight` says that a callback
runs only in an open campaign, for a step that is not completed, whose dependencies
are, and with edits in its scope. Of the harness benchmark: `EveryGateIsMet`,
`AttemptsStartClean`, `RecordsTellThePair`; `Progress` is what a call of `verify_edits` has
established at each label, which gates have run among it (`EveryGateIsMet` then holds since
a tests gate that is required and collected nothing rejects), `Isolated` relates its snapshot to the worktree that the
*pair* found (the snapshot of a second attempt is of a tree the first restored, so that
the two invariants need each other), `AttemptsCounted` relates asked, attempt and rows. Both make exception of `strewn`, the
files that undecodable output left behind, and of no others. Of
RefactorBench: `ScopeStaysSettled`, for any order in which tasks are selected and run.

**`TraversalProofs`**. `ImpactCorrect` and `ReachCorrect`: both traversals return the least
closed set, for every finite graph and every listing of sets; the invariants are the
usual ones of a worklist. `ImpactOfDeadIsDead` relates them: only dead code depends on
dead code. As tests are entry points, no test is in the impact of a dead symbol, so that
its removal runs the whole suite. `TopoOrderImplementsLeafToRoot`: the *iterative* Tarjan
emits strongly connected components leaf first. `TarjanInv` is: both stacks are in order
of discovery (`Stacked`); a component references nothing later (`Settled`); a symbol in
progress leads to all above it on the stack, and each of these back to one in progress
(`Connected`); its `lowlink` is the index of something it leads to, and nothing already
looked at from its part of the stack goes lower (`Linked`). The iterator that is put
back half used is `left` of the work stack.

**`PipelineProofs`**. `CallersAreRemovedFirst` and `PlansLeafFirst`,
without conditions: the worklist is sorted by the place of a unit in the order
(`PlanInv`), and the tree only loses references after the plan (`TreeInv`).
`ImpactsCoverToTheEnd` on the first three of these conditions, since a removal takes more
than its target: who uses a member names its class, so that it is in the class's impact
(`CoverHoldsCut`). `NothingAliveIsRemoved` and `CascadeFindsNothingNew`, with `DeadInv` (as
long as no entry point is `lost`), on all four. None is checked by the code, and the
graphs of the `pipeline` run meet them all:

* `NamesAreDistinct`: a removal goes by name. `MCNamesake` is the counterexample.
* `ScopesNest`: what is defined inside a definition is inside what that is inside.
* `ScopesAreNamed`: who uses a method names its class, or stands in it. A removal takes
  all that the definition contains, without asking whether that is dead (`CutIsDead`).
* `EntryPointsStandAlone`: what an entry point is defined in is one, and for its own sake,
  not for an "@" that an edit may move. A `test_` method of a private class would go with it.

**`ApplyMultiProofs`**, for any number of processes, with disjoint worktrees
(`WorktreesAssumption`) whose files may have the same paths in the log. `StepFrame` is the lemma the module rests on: a step of one client
changes nothing of another's call or worktree; they share only the log. `CommitIsGated` then is the argument of
`CheckerProofs` for each client (`Inspected`). `RetriesCountTheLog` and `CallsAreLogged` rest
on `LogInvariant`: unless two processes share a JSON file (`~SharedFile`), whatever can be
read or written back is `Sound`, and `retries` of a call in flight is between what the log
held of *other* calls when it began and what it holds of them now, even if its own record
is in there twice.

**`FullSystemBenchProofs`**: `OneCallAtATime`, `EveryCallStartsClean`, `InitialOfTheFirst`,
`GateCrashesOfOnInvalidate`. One invariant for the four: who may run in which phase
(`Calling`), whose worktree is untouched (`Untouched`, where the patch that a crashed gate
left behind is the exception), what the first answer was (`OfTheFirst`, up to the scratch
worktree it is graded in), and that a crash is in a row before the report (`CrashTold`).

**`WorkbenchProofs`**, for every program, edit beside the tools, model and failure of
RedisVL:

* `ReportsStayFresh`: what is cached under a content was computed from it (`CachesAreTrue`).
* `DecisionsOfAFaithfulModelStand`, for `Faithful`, a model that uses the names it is
  told to use: what is on its record it could answer live (`RecordIsOfTheModel`). It is of
  decisions with names; one without is replaced by the next.
* `IndexIsOfTheCode`: after `build_codebase_index`, every symbol still in the line the
  session's graph has it in has its body of now, and what is written for any other is
  the body of now of a definition of its name. `OneSession` is why nothing else ends an indexing.
* `ReorderingSettles`: reordering a file a second time changes nothing, for every file,
  and `analyze_file` reports nothing of the result unless it has an import the two
  classify differently (`Several`, `Tabbed`, `Joined`). Sorted blocks of one set of lines are equal (`OrderSettles`).
* `OnlyTheUnseenIsMissed`: live code is called dead, by either reading, only through uses
  that reading is blind to, or, for the pipeline's, what such uses lead to. An import is
  such a use where the scan does not know its module by that name and the name has another
  definition. Both closures
  are least closed sets (`ClosureIsLeast`), which is how one is compared with the other.
  Needed are `EntryPointsStandAlone` and, while a report stands, `ScopesAreNamed` of its code.

Only model-checked are the five liveness properties (`CallEnds`, `RunReturns`,
`PipelineReturns`, `Reports`, `CallsReturn`): they need fairness and ENABLED, out of the
prover's reach. The five runs that expect a violation have counterexamples, which no
theorem contradicts: each is about a promise that is not among the properties above,
or about an instance outside the conditions (`MCNamesake`). Where a proof needs induction
over numbers or sets, it takes a well-founded minimum (`WFMin`, and `FS_` facts of
cardinality), since induction theorems take an operator; no module declares a RECURSIVE
one.

## 6. What is not modelled, and why

* `rename`, `move`, `cleanup` and the parsers: functions of source texts, line by line.
  Their outcomes, any graph and any edit, are the inputs of the models.
* The confirmation gate (a question on a terminal), HTTP, prompts, token counts:
  a model answers anything.
* Metrics, reports, dashboard, command line, demos, fixtures: they change no state that
  something else reads. Of `storage.py` beside the log, the caches, contexts and
  vectors are modelled where they are used, each update as one step.
* `renames_first_planner`, import edges, dry-run copies, `git init`: no decision depends
  on them.
* `VectorIndex.drop`, which nothing calls; RedisVL failing in a query; a provider of
  embeddings that is available and fails; what `build_graph`, outside the `try` of
  `agents/orchestrator.py`, and the store raise out of `run_campaign`; conventions and the Markdown files of the
  memory; the decision memory of RefactorBench, which only adds; a full disk under the
  artifact of a benchmark.

## 7. Plan

Modelled: every component that decides, orders, persists or undoes. Proved: every safety
property of the passing runs. What is left, in this order:

1. Conditions to weaken. `NothingAliveIsRemoved` needs distinct names of top-level
   definitions only where one of them is removed; `CommitIsGated` needs disjoint
   worktrees only of processes that are at work at once.
2. Refinements: each client of `ApplyMulti`, and a call of `verify_edits`, as an
   implementation of `VerifiedEdit`, which `Checker` implements already; where the writes
   stand before the `try`, neither outcome may follow.
3. The measures behind `PipelineReturns` and `RunReturns` as action properties (each
   round of the cascade adds to `seen`, each turn is charged), which are in reach of the
   prover, where the liveness that follows is not.

## 8. Running it

    tlc -workers 2 -config MCCheckerFaults.cfg MCChecker.tla
    tlapm CheckerProofs.tla

Each run takes between a second and four minutes; each proof module between some
seconds and a few minutes.
