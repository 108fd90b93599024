---------------------------- MODULE RefactorBench -----------------------------
(***************************************************************************)
(* eval/refactorbench.py: tasks are selected, each is classified, carried  *)
(* out in a copy of its repository if it is in scope, and tested; what is  *)
(* reported counts the results.  Of a task, the model knows what the       *)
(* patterns make of its instruction and what its test may print.           *)
(*                                                                         *)
(* A copy is made for one task and removed with it, so that of what can go *)
(* wrong in it only the result is left.  The decision memory, which a      *)
(* rename only adds to, is left out.                                       *)
(***************************************************************************)
EXTENDS SequencesExt, FiniteSetsExt, TLC

CONSTANTS
  RbTasks,     \* the tasks of a level, in the order of its mapping
  ScopeOf,     \* task -> the kind the patterns see in its instruction
  SubtestsOf,  \* task -> how many tests its file defines
  Outputs,     \* task -> what testing it may print: [ran, failures, errors]
  Options,     \* the command lines: [inScope, smoke, llm, limit]
  SmokeTasks   \* how many tasks a smoke run is cut to

ASSUME TasksAssumption ==
  /\ RbTasks \in Seq(DOMAIN ScopeOf \cap DOMAIN SubtestsOf \cap DOMAIN Outputs)
  /\ \A t \in DOMAIN Outputs : \A out \in Outputs[t] : out.ran \subseteq Nat /\ Cardinality(out.ran) <= 1
  /\ (\A o \in Options : o.limit \in Nat) /\ SmokeTasks \in Nat

VARIABLES
  options,  \* of this run
  pending,  \* the tasks that are not selected yet
  selected, \* the tasks to be run
  answers,  \* task -> does the model map it to a rename (the client's record)
  results   \* of the tasks run so far

rbVars == <<options, pending, selected, answers, results>>

(* load_tasks. *)
RbInit ==
  /\ options \in Options
  /\ pending = RbTasks /\ selected = <<>>
  /\ answers = <<>> /\ results = <<>>

-----------------------------------------------------------------------------
(* Mutant: each question is asked anew. *)
AskedAnew(task, mapped) == mapped \in BOOLEAN /\ UNCHANGED answers

(* llm_classify: what was answered once is the answer; an answer that is not
   JSON, or none, maps nothing and is not kept. *)
Asked(task, mapped) ==
  \/ task \in DOMAIN answers /\ mapped = answers[task] /\ UNCHANGED answers
  \/ task \notin DOMAIN answers /\ ~mapped /\ UNCHANGED answers
  \/ /\ task \notin DOMAIN answers
     /\ answers' = [t \in DOMAIN answers \cup {task} |-> IF t = task THEN mapped ELSE answers[t]]

(* classify: one symbol to be renamed, or a reason to decline. *)
Renames(task) == ScopeOf[task] = "rename"

(* classify_task: the patterns, and the model for what they decline. *)
Classified(task, inScope) ==
  \/ (Renames(task) \/ ~options.llm) /\ inScope = Renames(task) /\ UNCHANGED answers
  \/ ~Renames(task) /\ options.llm /\ Asked(task, inScope)

Filtered == options.inScope \/ options.smoke

(* run_eval: the selected are cut to a few for a smoke run, and to the limit,
   0 being none. *)
Shortened(tasks) ==
  LET few == IF options.smoke THEN SmokeTasks ELSE Len(tasks)
      many == IF options.limit = 0 THEN few ELSE Min({few, options.limit})
  IN  SubSeq(tasks, 1, Min({many, Len(tasks)}))

(* A task is selected, if it is in scope or all are wanted; the last one cuts. *)
Select ==
  /\ pending # <<>>
  /\ \E kept \in BOOLEAN :
       /\ IF Filtered THEN Classified(Head(pending), kept) ELSE kept /\ UNCHANGED answers
       /\ LET tasks == IF kept THEN Append(selected, Head(pending)) ELSE selected
          IN  selected' = IF Len(pending) = 1 THEN Shortened(tasks) ELSE tasks
  /\ pending' = Tail(pending)
  /\ UNCHANGED <<options, results>>

(* _run_ast_test: what failed is taken from the tests unittest says it ran,
   or, if it does not say, from those the file defines. *)
Counted(task, out) ==
  LET total == IF out.ran = {} THEN SubtestsOf[task] ELSE Max(out.ran)
  IN  [passed |-> Max({0, total - (out.failures + out.errors)}), total |-> total]

Result(task, inScope, status, count) ==
  [task |-> task, inScope |-> inScope, status |-> status, passed |-> count.passed, total |-> count.total]

(* run_task: it is declined; or the symbol is not found, an edit does not parse,
   or something raises, before or after files are written; or it is tested. *)
RunTask ==
  LET task == Head(selected)
      none == [passed |-> 0, total |-> SubtestsOf[task]]
  IN  /\ pending = <<>> /\ selected # <<>>
      /\ \E inScope \in BOOLEAN :
           /\ Classified(task, inScope)
           /\ \/ /\ ~inScope
                 /\ results' = Append(results, Result(task, FALSE, "declined", none))
              \/ /\ inScope
                 /\ \E status \in {"target_not_found", "parse_failed", "error"} :
                      results' = Append(results, Result(task, TRUE, status, none))
              \/ /\ inScope
                 /\ \E out \in Outputs[task] :
                      results' = Append(results, Result(task, TRUE, "applied", Counted(task, out)))
      /\ selected' = Tail(selected)
      /\ UNCHANGED <<options, pending>>

RbNext == Select \/ RunTask

RbSpec == RbInit /\ [][RbNext]_rbVars

(* TaskResult.task_pass. *)
TaskPass(r) == r.inScope /\ r.total > 0 /\ r.passed = r.total

(* Summary.to_dict. *)
Summary ==
  LET of(P(_)) == Cardinality({i \in DOMAIN results : P(results[i])})
  IN  [inScope |-> of(LAMBDA r : r.inScope), outOfScope |-> of(LAMBDA r : ~r.inScope),
       attempted |-> of(LAMBDA r : r.inScope /\ r.status = "applied"),
       passes |-> of(LAMBDA r : r.inScope /\ TaskPass(r))]

(* A run asked for tasks in scope declines none: run_task classifies a second
   time (eval/refactorbench.py:262) what run_eval chose by a first (:341), and
   the in-scope rate is divided by what the second says. *)
ScopeIsSettled == Filtered => Summary.outOfScope = 0
=============================================================================
