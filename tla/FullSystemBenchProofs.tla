------------------------- MODULE FullSystemBenchProofs -------------------------
(***************************************************************************)
(* Proofs about FullSystemBench, for any arms, number of pairs and         *)
(* retries, with the pool and without it.                                  *)
(*                                                                         *)
(* Calling says who may be running when; Untouched, whose worktree is the  *)
(* baseline still; OfTheFirst relates initial_outcome to the first answer  *)
(* while the on arm works, and RowsTell its row afterwards; CrashTold      *)
(* follows a gate that crashed into the records.                           *)
(***************************************************************************)
EXTENDS FullSystemBench, FiniteSetTheorems, TLAPS

Phases == {"main", "calibrate", "materialize", "pool", "fallback", "arms", "grade",
           "grade_initial", "settle", "aggregate", "done"}
Errors == {"none", "agent_failure", "iteration_limit", "timeout_failure"}
            \cup CompletionErrors \cup {"malformed_response", "gate_failure"}
Statuses == {"proposal_error", "invalid_patch", "rolled-back", "committed"}
Classes == Errors \cup {"invalid_patch"}
Attempts == [status : Statuses, class : Classes, integrity : BOOLEAN]

Typed ==
  /\ phase \in Phases
  /\ turn \in 1..4 /\ Order[turn] \in Arms /\ pair \in Nat
  /\ DOMAIN tree = Arms \cup {Scratch}
  /\ call \in [Arms -> {"idle", "running", "raised"}]
  /\ DOMAIN proposal = Arms
  /\ \A arm \in Arms : Answered(arm) => proposal[arm].error \in Errors
  /\ attempts \in Seq(Attempts)
  /\ phase \in {"settle", "grade_initial"} => turn = 2

(* Where the on arm is not done with its pair. *)
OnAhead == phase \in {"pool", "fallback"} \/ (phase \in {"arms", "grade"} /\ turn = 1)
OnAtWork == (phase \in {"arms", "grade"} /\ turn = 2) \/ phase \in {"grade_initial", "settle"}

Calling ==
  /\ \A arm \in Arms :
       /\ call[arm] = "running" => /\ ~Answered(arm)
                                   /\ phase \in {"pool", "fallback", "arms"}
                                   /\ phase = "arms" => arm = Order[turn]
       /\ call[arm] = "raised" => phase = "pool"
  /\ phase # "pool" =>
       \A a, b \in Arms : call[a] = "running" /\ call[b] = "running" => a = b
  /\ phase = "fallback" =>
       \A arm \in Arms : Answered(arm) \/ arm \in redo \/ call[arm] = "running"

Spoiled == \E i \in DOMAIN attempts : attempts[i].class = "invalid_patch"

Ready(arm) == Answered(arm) \/ call[arm] = "running" \/ tree[arm] = Baseline

Untouched ==
  /\ phase \in {"pool", "fallback"} \/ (phase = "arms" /\ turn = 1) => tree["off"] = Baseline
  /\ OnAhead => tree["on"] = Baseline
  /\ (phase = "arms" /\ turn = 2) \/ phase = "grade_initial" => tree["on"] = Baseline \/ Spoiled
  /\ phase = "pool" =>
       \A arm \in Agents : Answered(arm) \/ call[arm] # "idle" \/ tree[arm] = Baseline
  /\ phase \in {"arms", "grade", "grade_initial", "settle"} =>
       \A i \in turn..4 : Order[i] \in Agents => (i = turn /\ phase # "arms") \/ Ready(Order[i])

Truth(answer, class) ==
  Outcome(answer.error = "none" /\ "valid" \in answer.patch /\ class # "invalid_patch",
          "behaves" \in answer.patch, "structured" \in answer.patch)

OfTheFirst ==
  /\ OnAhead => attempts = <<>> /\ initial = <<>>
  /\ OnAtWork /\ attempts = <<>> => initial = <<>> /\ phase = "arms"
  /\ phase \in {"arms", "grade", "settle"} /\ turn = 2 /\ attempts # <<>> /\ "on" \notin crashed =>
       \/ initial = <<Truth(first, attempts[1].class)>>
       \/ /\ initial = <<>> /\ phase # "arms" /\ final.status = "committed"
          /\ tree["on"] = first.patch /\ first.error = "none" /\ "valid" \in first.patch
          /\ attempts[1].class = "none"
  /\ phase = "grade_initial" =>
       /\ tree[Scratch] = first.patch /\ first.error = "none" /\ "valid" \in first.patch
       /\ attempts[1].class = "none"

RowsTell ==
  /\ phase \in {"main", "calibrate"} => records = {}
  /\ \A row \in records :
       /\ row.pair \in Nat /\ row.pair <= pair
       /\ row.arm = "on" /\ row.pair = pair =>
            /\ phase # "materialize" /\ ~OnAhead /\ ~OnAtWork
            /\ row.attempts = attempts
            /\ "on" \notin crashed => row.initial = Truth(first, attempts[1].class)

GateFailed(attempted) == \E i \in DOMAIN attempted : attempted[i].class = "gate_failure"

CrashTold ==
  /\ "on" \in crashed =>
       /\ phase \notin {"main", "calibrate"} /\ ~OnAhead /\ (OnAtWork => phase = "settle")
       /\ phase = "settle" => final.status = "rolled-back" /\ GateFailed(attempts)
       /\ phase \notin {"settle", "done"} => \E row \in records : GateFailed(row.attempts)
  /\ phase # "done" => status = "running"

Inv == Typed /\ Calling /\ Untouched /\ OfTheFirst /\ RowsTell /\ CrashTold /\ OnCrashInvalidates
-----------------------------------------------------------------------------
LEMMA Ordered ==
  ASSUME ArmsAssumption
  PROVE  /\ Order[1] = "off" /\ Order[2] = "on"
         /\ \A i \in 1..4 : (Order[i] = "off" <=> i = 1) /\ (Order[i] = "on" <=> i = 2)
         /\ \A i \in 1..4 : Order[i] \in Agents <=> i \in 3..4 /\ Order[i] \in Arms
         /\ \A i, j \in 1..4 : Order[i] = Order[j] => i = j
         /\ {"off", "on"} \subseteq Arms /\ Scratch \notin Arms
         /\ \A arm \in Arms : \E i \in 1..4 : arm = Order[i]
         /\ "off" \notin Agents /\ "on" \notin Agents /\ Agents \subseteq Arms
<1>1. /\ Order[1] = "off" /\ Order[2] = "on"
      /\ Order[3] = "agentic" /\ Order[4] = "agentic+harness"
  BY DEF Order
<1>2. \A i \in 1..4 : i = 1 \/ i = 2 \/ i = 3 \/ i = 4
  OBVIOUS
<1>3. {"off", "on"} \subseteq Arms /\ \A arm \in Arms : \E i \in 1..4 : arm = Order[i]
  BY DEF ArmsAssumption
<1>4. Scratch \notin Arms
  BY <1>1, <1>2, <1>3 DEF Scratch
<1>5. \A i, j \in 1..4 : Order[i] = Order[j] => i = j
  BY <1>1, <1>2
<1>6. \A i \in 1..4 : (Order[i] = "off" <=> i = 1) /\ (Order[i] = "on" <=> i = 2)
  BY <1>1, <1>2
<1>7. \A i \in 1..4 : Order[i] \in Agents <=> i \in 3..4 /\ Order[i] \in Arms
  BY <1>1, <1>2 DEF Agents
<1>8. "off" \notin Agents /\ "on" \notin Agents /\ Agents \subseteq Arms
  BY DEF Agents
<1>9. QED
  BY <1>1, <1>3, <1>4, <1>5, <1>6, <1>7, <1>8

(* Whatever a call returns is not what stands for no answer. *)
LEMMA AnswersTyped ==
  ASSUME ArmsAssumption, NEW arm, NEW answer \in Answers(arm)
  PROVE  answer.error \in Errors /\ answer # NoAnswer
<1>1. \A error : AgentErrorClass(error) \in Errors
  BY DEF AgentErrorClass, Errors, CompletionErrors
<1>2. ASSUME arm \in Agents
      PROVE  answer.error \in Errors
  <2>1. PICK ending \in Endings : answer = AgentAnswer(arm, ending)
    BY <1>2 DEF Answers
  <2>2. \E error : answer.error = AgentErrorClass(error)
    BY <2>1 DEF AgentAnswer
  <2>3. QED
    BY <1>1, <2>2
<1>3. ASSUME arm \notin Agents
      PROVE  answer.error \in Errors
  <2>1. answer.error \in ModelErrors \cup {"none"}
    BY <1>3 DEF Answers
  <2>2. ModelErrors \subseteq CompletionErrors \cup {"malformed_response"}
    BY DEF ArmsAssumption
  <2>3. QED
    BY <2>1, <2>2 DEF Errors
<1>4. "not_asked" \notin Errors
  BY DEF Errors, CompletionErrors
<1>5. answer.error \in Errors
  BY <1>2, <1>3
<1>6. NoAnswer.error = "not_asked"
  BY DEF NoAnswer
<1>7. QED
  BY <1>4, <1>5, <1>6

LEMMA Onward ==
  ASSUME NEW t \in 1..4, NEW u \in t + 1..4
  PROVE  /\ u \in 2..4 /\ u \in 1..4 /\ u # 1 /\ (u = 2 => t = 1)
         /\ \A i \in u..4 : i \in t..4 /\ i # t /\ i \in 1..4
OBVIOUS

(* Proceed goes to the next arm there is, of the off arm to the on arm, and after
   the last one to the next pair or the report. *)
LEMMA Proceeding ==
  ASSUME ArmsAssumption, Typed, Proceed
  PROVE  \/ /\ phase' = "arms" /\ pair' = pair
            /\ turn' \in turn + 1..4 /\ Order[turn'] \in Arms /\ (turn = 1 => turn' = 2)
         \/ /\ phase' \in {"materialize", "aggregate"} /\ turn' = turn /\ turn # 1
            /\ pair' = IF phase' = "materialize" THEN pair + 1 ELSE pair
<1>0. turn \in 1..4 /\ \A i \in Later : i \in turn + 1..4
  BY DEF Typed, Later
<1>1. /\ turn \in 1..4 /\ \A i \in Later : i \in turn + 1..4
      /\ \A i \in Later : i = 2 \/ i = 3 \/ i = 4
  BY <1>0
<1>2. turn = 1 => 2 \in Later
  BY Ordered DEF Later
<1>3. CASE Later # {}
  <2>1. \E i \in Later : \A j \in Later : i <= j
    <3>1. CASE 2 \in Later
      BY <1>1, <3>1
    <3>2. CASE 2 \notin Later /\ 3 \in Later
      BY <1>1, <3>2
    <3>3. CASE 2 \notin Later /\ 3 \notin Later
      <4>1. 4 \in Later /\ \A j \in Later : j = 4
        BY <1>1, <1>3, <3>3
      <4>2. QED
        BY <4>1
    <3>4. QED
      BY <3>1, <3>2, <3>3
  <2>2. turn' = (CHOOSE i \in Later : \A j \in Later : i <= j) /\ phase' = "arms" /\ pair' = pair
    BY <1>3 DEF Proceed
  <2>3. turn' \in Later /\ \A j \in Later : turn' <= j
    BY <2>1, <2>2
  <2>4. QED
    BY <1>1, <1>2, <2>2, <2>3 DEF Later
<1>4. CASE Later = {}
  BY <1>2, <1>4 DEF Proceed
<1>5. QED
  BY <1>3, <1>4

LEMMA Recording ==
  ASSUME Typed, NEW attempt \in Attempts, Recorded(attempt)
  PROVE  /\ attempts' \in Seq(Attempts) /\ attempts' # <<>>
         /\ Len(attempts') = Len(attempts) + 1 /\ attempts'[Len(attempts) + 1] = attempt
         /\ \A i \in DOMAIN attempts : i \in DOMAIN attempts' /\ attempts'[i] = attempts[i]
         /\ \E i \in DOMAIN attempts' : attempts'[i] = attempt
         /\ attempts = <<>> => attempts'[1] = attempt /\ first' = proposal["on"]
         /\ attempts # <<>> => attempts'[1] = attempts[1] /\ first' = first
         /\ proposal' = [proposal EXCEPT !["on"] = NoAnswer]
<1>1. attempts \in Seq(Attempts) /\ attempts' = Append(attempts, attempt)
  BY DEF Typed, Recorded
<1>2. /\ attempts' \in Seq(Attempts) /\ attempts' # <<>>
      /\ Len(attempts') = Len(attempts) + 1 /\ attempts'[Len(attempts) + 1] = attempt
      /\ \A i \in DOMAIN attempts : i \in DOMAIN attempts' /\ attempts'[i] = attempts[i]
  BY <1>1
<1>3. attempts = <<>> => attempts'[1] = attempt
  BY <1>1
<1>4. attempts # <<>> => 1 \in DOMAIN attempts
  BY <1>1
<1>5. Len(attempts) + 1 \in DOMAIN attempts'
  BY <1>1
<1>6. \E i \in DOMAIN attempts' : attempts'[i] = attempt
  BY <1>2, <1>5
<1>7. QED
  BY <1>2, <1>3, <1>4, <1>6 DEF Recorded
-----------------------------------------------------------------------------
LEMMA ProceedTyped ==
  ASSUME ArmsAssumption, Typed, Proceed
  PROVE  /\ phase' \in {"arms", "materialize", "aggregate"}
         /\ turn' \in 1..4 /\ Order[turn'] \in Arms /\ pair' \in Nat
<1>1. turn \in 1..4 /\ pair \in Nat /\ Order[turn] \in Arms
  BY DEF Typed
<1>2. \A i \in turn + 1..4 : i \in 1..4
  BY <1>1
<1>3. QED
  BY <1>1, <1>2, Proceeding

OnAttempt == ProposalError \/ InvalidPatch \/ GateCrash \/ Rejected \/ Accepted

LEMMA AttemptTyped ==
  ASSUME NEW how \in Statuses, NEW class \in Classes
  PROVE  /\ Attempt(how, class) \in Attempts
         /\ Attempt(how, class).status = how /\ Attempt(how, class).class = class
<1>1. DEFINE restored == how = "rolled-back" => tree["on"] = Baseline
<1>2. Attempt(how, class) = [status |-> how, class |-> class, integrity |-> restored]
  BY DEF Attempt
<1>3. restored \in BOOLEAN
  OBVIOUS
<1>4. HIDE DEF restored
<1>5. QED
  BY <1>2, <1>3 DEF Attempts

LEMMA AttemptsTyped ==
  ASSUME ArmsAssumption, Typed, OnAttempt
  PROVE  \E attempt \in Attempts : Recorded(attempt)
<1>1. CASE ProposalError
  <2>1. proposal["on"].error \in Classes /\ "proposal_error" \in Statuses
    BY <1>1, Ordered DEF ProposalError, Trying, Typed, Classes, Statuses
  <2>2. QED
    BY <1>1, <2>1, AttemptTyped DEF ProposalError
<1>2. CASE ~ProposalError
  <2>1. \E how \in Statuses, class \in {"invalid_patch", "gate_failure", "none"} :
          Recorded(Attempt(how, class))
    BY <1>2 DEF OnAttempt, InvalidPatch, GateCrash, Rejected, Accepted, Statuses
  <2>2. {"invalid_patch", "gate_failure", "none"} \subseteq Classes
    BY DEF Classes, Errors
  <2>3. QED
    BY <2>1, <2>2, AttemptTyped
<1>3. QED
  BY <1>1, <1>2

(* What an attempt of the on arm does: it is made while nothing runs, and leaves its arm without an answer. *)
LEMMA OnAttempts ==
  ASSUME ArmsAssumption, Typed, OnAttempt
  PROVE  /\ phase = "arms" /\ turn = 2 /\ Answered("on")
         /\ phase' \in {"arms", "settle", "grade_initial"}
         /\ DOMAIN tree' = Arms \cup {Scratch}
         /\ \A arm \in Arms \ {"on"} : tree'[arm] = tree[arm]
         /\ proposal' = [proposal EXCEPT !["on"] = NoAnswer] /\ attempts' \in Seq(Attempts)
         /\ UNCHANGED kept
<1>1. phase = "arms" /\ Order[turn] = "on" /\ Answered("on") /\ UNCHANGED kept
  BY DEF OnAttempt, ProposalError, InvalidPatch, GateCrash, Rejected, Accepted, Trying
<1>2. turn = 2
  BY <1>1, Ordered DEF Typed
<1>3. attempts' \in Seq(Attempts) /\ proposal' = [proposal EXCEPT !["on"] = NoAnswer]
  BY AttemptsTyped, Recording
<1>4. phase' \in {"arms", "settle", "grade_initial"}
  BY DEF OnAttempt, ProposalError, InvalidPatch, GateCrash, Rejected, Accepted, Continue, StartGrading
<1>5. DOMAIN tree' = Arms \cup {Scratch} /\ \A arm \in Arms \ {"on"} : tree'[arm] = tree[arm]
  <2>1. CASE InvalidPatch
    BY <2>1 DEF InvalidPatch, Typed
  <2>2. CASE Rejected
    BY <2>2, Ordered DEF Rejected, StartGrading, GradedAt, Typed, worktrees
  <2>3. CASE Accepted
    BY <2>3 DEF Accepted, Typed
  <2>4. CASE ProposalError \/ GateCrash
    BY <2>4 DEF ProposalError, GateCrash, Typed, worktrees
  <2>5. QED
    BY <2>1, <2>2, <2>3, <2>4 DEF OnAttempt
<1>6. QED
  BY <1>1, <1>2, <1>3, <1>4, <1>5

LEMMA TypedStep ==
  ASSUME ArmsAssumption, Typed, Next
  PROVE  Typed'
<1> USE Ordered DEF Typed, Phases, Answered
<1>1. CASE Main \/ CalibrateCase \/ Calibrated
  BY <1>1 DEF Main, CalibrateCase, Calibrated, run, worktrees, calls, loop
<1>2. CASE Materialize
  BY <1>2 DEF Materialize
<1>3. CASE Join
  <2>1. call' \in [Arms -> {"idle", "running", "raised"}] /\ DOMAIN proposal' = Arms
    BY <1>3 DEF Join
  <2>2. \A arm \in Arms : proposal'[arm] = NoAnswer \/ proposal'[arm] = proposal[arm]
    BY <1>3 DEF Join
  <2>3. QED
    BY <1>3, <2>1, <2>2 DEF Join, run, worktrees, loop
<1>4. CASE FallbackDone \/ Aggregate
  BY <1>4 DEF FallbackDone, Aggregate, run, worktrees, calls, loop
<1>5. CASE Land
  <2>1. DOMAIN tree' = Arms \cup {Scratch} /\ UNCHANGED <<call, proposal, attempts>>
    BY <1>5 DEF Land, StartGrading, calls, loop
  <2>2. CASE Proceed
    BY <2>1, <2>2, ProceedTyped
  <2>3. CASE ~Proceed
    BY <1>5, <2>1, <2>3 DEF Land, StartGrading, run
  <2>4. QED
    BY <2>2, <2>3
<1>6. CASE Grade \/ GradeOn
  <2>1. Proceed /\ UNCHANGED <<tree, call, proposal, attempts>>
    BY <1>6 DEF Grade, GradeOn, calls, loop
  <2>2. QED
    BY <2>1, ProceedTyped
<1>7. CASE OnAttempt
  <2>1. /\ phase' \in Phases /\ UNCHANGED <<turn, pair, call>>
        /\ DOMAIN tree' = Arms \cup {Scratch} /\ DOMAIN proposal' = Arms
        /\ attempts' \in Seq(Attempts) /\ turn = 2
    BY <1>7, OnAttempts DEF kept, run
  <2>2. \A arm \in Arms : proposal'[arm] = NoAnswer \/ proposal'[arm] = proposal[arm]
    BY <1>7, OnAttempts
  <2>3. QED
    BY <2>1, <2>2
<1>8. CASE GradeInitial
  BY <1>8 DEF GradeInitial, run, calls
<1>9. CASE Settle
  <2>1. DOMAIN tree' = Arms \cup {Scratch} /\ UNCHANGED <<call, proposal, attempts>>
    BY <1>9 DEF Settle, StartGrading, calls, worktrees
  <2>2. CASE Proceed
    BY <2>1, <2>2, ProceedTyped
  <2>3. CASE ~Proceed
    BY <1>9, <2>1, <2>3 DEF Settle, StartGrading, run
  <2>4. QED
    BY <2>2, <2>3
<1>10. ASSUME NEW arm \in Arms, Ask(arm)
       PROVE  Typed'
  BY <1>10 DEF Ask, run, loop
<1>11. ASSUME NEW arm \in Arms, AgentEdits(arm)
       PROVE  Typed'
  BY <1>11 DEF AgentEdits, run, calls, loop
<1>12. ASSUME NEW arm \in Arms, Answer(arm)
       PROVE  Typed'
  <2>1. PICK answer \in Answers(arm) : proposal' = [proposal EXCEPT ![arm] = answer]
    BY <1>12 DEF Answer
  <2>2. \A other \in Arms : proposal'[other] = (IF other = arm THEN answer ELSE proposal[other])
    BY <2>1
  <2>3. call' \in [Arms -> {"idle", "running", "raised"}]
    BY <1>12 DEF Answer
  <2>4. QED
    BY <1>12, <2>1, <2>2, <2>3, AnswersTyped DEF Answer, run, worktrees, loop
<1>13. ASSUME NEW arm \in Arms, RaiseInPool(arm)
       PROVE  Typed'
  BY <1>13 DEF RaiseInPool, run, worktrees, loop
<1>14. CASE Abort
  BY <1>14 DEF Abort, run, loop
<1>15. QED
  BY <1>1, <1>2, <1>3, <1>4, <1>5, <1>6, <1>7, <1>8, <1>9, <1>10, <1>11, <1>12, <1>13, <1>14
    DEF Next, Step, OnStep, OnAttempt, TimesOut, Raise
-----------------------------------------------------------------------------
(* Where no call is running nor was raised, Calling has nothing to say. *)
LEMMA NoneCalling ==
  ASSUME \A arm \in Arms : call'[arm] = "idle", phase' # "fallback"
  PROVE  Calling'
BY DEF Calling

(* In its turn an arm runs alone; once it has answered, nothing does. *)
LEMMA Alone ==
  ASSUME ArmsAssumption, Typed, Calling, phase \notin {"pool", "fallback"},
         phase = "arms" => Answered(Order[turn])
  PROVE  \A arm \in Arms : call[arm] = "idle"
BY DEF Typed, Calling

LEMMA CallingStep ==
  ASSUME ArmsAssumption, Typed, Calling, Next
  PROVE  Calling'
<1> USE DEF Typed
<1>1. CASE Main \/ CalibrateCase \/ Calibrated \/ Aggregate
  <2>1. \A arm \in Arms : call'[arm] = "idle"
    BY <1>1, Alone DEF Main, CalibrateCase, Calibrated, Aggregate, calls
  <2>2. QED
    BY <1>1, <2>1, NoneCalling DEF Main, CalibrateCase, Calibrated, Aggregate
<1>2. CASE Materialize
  <2>1. \A arm \in Arms : call'[arm] = "idle"
    BY <1>2 DEF Materialize
  <2>2. QED
    BY <1>2, <2>1, NoneCalling DEF Materialize
<1>3. CASE Join
  <2>1. \A arm \in Arms : call'[arm] = "idle"
    BY <1>3 DEF Join
  <2>2. \A arm \in Arms : call[arm] = "raised" \/ Answered(arm)
    BY <1>3 DEF Join
  <2>3. phase' = "fallback" /\ redo' = {arm \in Arms : Failed(arm)}
    BY <1>3 DEF Join
  <2>4. proposal' = [arm \in Arms |-> IF arm \in redo' THEN NoAnswer ELSE proposal[arm]]
    BY <1>3 DEF Join
  <2>5. \A arm \in Arms : Answered(arm)' \/ arm \in redo'
    BY <2>2, <2>3, <2>4 DEF Answered, Failed
  <2>6. QED
    BY <2>1, <2>3, <2>5 DEF Calling
<1>4. CASE FallbackDone
  <2>1. \A arm \in Arms : call'[arm] = "idle"
    BY <1>4 DEF FallbackDone, Idle, calls, Calling
  <2>2. QED
    BY <1>4, <2>1, NoneCalling DEF FallbackDone
<1>5. CASE Land \/ Grade \/ GradeOn \/ GradeInitial \/ Settle
  <2>1. \A arm \in Arms : call[arm] = "idle"
    BY <1>5, Alone DEF Land, Grade, GradeOn, GradeInitial, Settle
  <2>2. UNCHANGED call
    BY <1>5 DEF Land, Grade, GradeOn, GradeInitial, Settle, calls
  <2>3. phase' # "fallback"
    BY <1>5, ProceedTyped DEF Land, Grade, GradeOn, GradeInitial, Settle, StartGrading
  <2>4. QED
    BY <2>1, <2>2, <2>3, NoneCalling
<1>6. CASE OnAttempt
  <2>1. phase = "arms" /\ turn = 2 /\ Answered("on") /\ phase' # "fallback" /\ UNCHANGED call
    BY <1>6, OnAttempts DEF kept
  <2>2. \A arm \in Arms : call[arm] = "idle"
    BY <2>1, Alone, Ordered
  <2>3. QED
    BY <2>1, <2>2, NoneCalling
<1>7. ASSUME NEW arm \in Arms, Ask(arm)
      PROVE  Calling'
  <2>1. /\ \A other \in Arms : call'[other] = IF other = arm THEN "running" ELSE call[other]
        /\ ~Answered(arm) /\ UNCHANGED <<phase, turn, proposal>> /\ redo' = redo \ {arm}
    BY <1>7 DEF Ask, run
  <2>2. \/ phase = "pool"
        \/ phase \in {"fallback", "arms"} /\ Idle /\ (phase = "arms" => Order[turn] = arm)
    BY <1>7 DEF Ask, Submitted, Retried, Wanted
  <2>3. QED
    BY <2>1, <2>2 DEF Calling, Answered, Idle
<1>8. ASSUME NEW arm \in Arms, AgentEdits(arm)
      PROVE  Calling'
  BY <1>8 DEF AgentEdits, run, calls, pool, Calling, Answered
<1>9. ASSUME NEW arm \in Arms, Answer(arm)
      PROVE  Calling'
  <2>1. PICK answer \in Answers(arm) : proposal' = [proposal EXCEPT ![arm] = answer]
    BY <1>9 DEF Answer
  <2>2. \A other \in Arms : /\ Answered(other)' <=> other = arm \/ Answered(other)
                            /\ call'[other] = IF other = arm THEN "idle" ELSE call[other]
    BY <1>9, <2>1, AnswersTyped DEF Answer, Answered
  <2>3. UNCHANGED <<phase, turn, redo>>
    BY <1>9 DEF Answer, run, pool
  <2>4. QED
    BY <2>2, <2>3 DEF Calling
<1>10. ASSUME NEW arm \in Arms, RaiseInPool(arm)
       PROVE  Calling'
  <2>1. /\ \A other \in Arms : call'[other] = IF other = arm THEN "raised" ELSE call[other]
        /\ UNCHANGED <<phase, turn, redo, proposal>> /\ phase = "pool"
    BY <1>10 DEF RaiseInPool, run, pool
  <2>2. QED
    BY <2>1 DEF Calling, Answered
<1>11. CASE Abort
  <2>1. \A arm \in Arms : call'[arm] = "idle"
    BY <1>11 DEF Abort
  <2>2. QED
    BY <1>11, <2>1, NoneCalling DEF Abort
<1>12. QED
  BY <1>1, <1>2, <1>3, <1>4, <1>5, <1>6, <1>7, <1>8, <1>9, <1>10, <1>11
    DEF Next, Step, OnStep, OnAttempt, TimesOut, Raise
-----------------------------------------------------------------------------
(* A step that leaves the worktrees, and how far the arms are, as they are. *)
LEMMA UntouchedKept ==
  ASSUME Untouched, UNCHANGED <<phase, turn, tree, call, proposal, attempts>>
  PROVE  Untouched'
BY DEF Untouched, OnAhead, Spoiled, Ready, Answered

(* What is graded or recorded in its turn leaves the later arms alone. *)
LEMMA UntouchedProceeding ==
  ASSUME ArmsAssumption, Typed, Untouched, Proceed,
         phase \in {"arms", "grade", "grade_initial", "settle"},
         UNCHANGED <<call, proposal, attempts>>,
         \A arm \in Arms : arm # Order[turn] => tree'[arm] = tree[arm]
  PROVE  Untouched'
<1>1. CASE phase' \in {"materialize", "aggregate"}
  BY <1>1 DEF Untouched, OnAhead
<1>2. CASE phase' = "arms" /\ turn' \in turn + 1..4 /\ (turn = 1 => turn' = 2)
  <2>1. turn \in 1..4
    BY DEF Typed
  <2>2. /\ turn' \in 2..4 /\ turn' # 1 /\ (turn' = 2 => turn = 1)
        /\ \A i \in turn'..4 : i \in turn..4 /\ i # turn /\ i \in 1..4
    BY <1>2, <2>1, Onward
  <2>3. turn' = 2 => tree'["on"] = Baseline
    <3>1. turn' = 2 => OnAhead
      BY <2>2 DEF Typed, OnAhead
    <3>2. turn' = 2 => tree'["on"] = tree["on"]
      BY <2>1, <2>2, Ordered
    <3>3. QED
      BY <3>1, <3>2 DEF Untouched
  <2>4. ASSUME NEW i \in turn'..4, Order[i] \in Agents
        PROVE  Ready(Order[i])'
    <3>1. i \in turn..4 /\ i # turn /\ i \in 1..4
      BY <2>2
    <3>2. tree'[Order[i]] = tree[Order[i]]
      BY <2>1, <2>4, <3>1, Ordered
    <3>3. QED
      BY <2>4, <3>1, <3>2 DEF Untouched, Ready, Answered
  <2>5. QED
    BY <1>2, <2>2, <2>3, <2>4 DEF Untouched, OnAhead
<1>3. QED
  BY <1>1, <1>2, Proceeding

LEMMA UntouchedStep ==
  ASSUME ArmsAssumption, Typed, Calling, Untouched, Next
  PROVE  Untouched'
<1> USE DEF Typed
<1>1. CASE Main \/ Calibrated \/ Aggregate \/ Abort
  BY <1>1 DEF Main, Calibrated, Aggregate, Abort, Untouched, OnAhead
<1>2. CASE CalibrateCase
  BY <1>2, UntouchedKept DEF CalibrateCase, run, worktrees, calls, loop
<1>3. CASE Materialize
  <2>1. /\ \A arm \in Arms : tree'[arm] = Baseline
        /\ phase' \in {"pool", "arms"} /\ turn' = 1
    BY <1>3, Ordered DEF Materialize
  <2>2. \A i \in 1..4 : Order[i] \in Agents => tree'[Order[i]] = Baseline
    BY <2>1, Ordered
  <2>3. QED
    BY <2>1, <2>2, Ordered DEF Untouched, OnAhead, Ready
<1>4. CASE Join
  BY <1>4 DEF Join, run, worktrees, loop, Untouched, OnAhead
<1>5. CASE FallbackDone
  <2>1. \A arm \in Arms : Answered(arm)
    BY <1>5 DEF FallbackDone, Idle, Calling
  <2>2. phase = "fallback" /\ phase' = "arms" /\ UNCHANGED <<turn, tree, call, proposal, attempts>>
    BY <1>5 DEF FallbackDone, run, worktrees, calls, loop
  <2>3. \A i \in turn..4 : Order[i] \in Agents => Answered(Order[i])'
    BY <2>1, <2>2 DEF Agents, Answered
  <2>4. QED
    BY <2>2, <2>3 DEF Untouched, OnAhead, Ready
<1>6. CASE Land
  <2>1. /\ phase = "arms" /\ UNCHANGED <<call, proposal, attempts>> /\ Order[turn] # "on"
        /\ \A arm \in Arms : arm # Order[turn] => tree'[arm] = tree[arm]
    BY <1>6 DEF Land, calls, loop, StartGrading
  <2>2. CASE Proceed
    BY <2>1, <2>2, UntouchedProceeding
  <2>3. CASE ~Proceed
    <3>1. phase' = "grade" /\ UNCHANGED turn
      BY <1>6, <2>3 DEF Land, StartGrading, run
    <3>2. OnAhead' => tree'["on"] = Baseline
      BY <2>1, <3>1, Ordered DEF Untouched, OnAhead
    <3>3. \A i \in turn..4 : Order[i] \in Agents /\ i # turn => tree'[Order[i]] = tree[Order[i]]
      BY <2>1, Ordered
    <3>4. QED
      BY <2>1, <3>1, <3>2, <3>3 DEF Untouched, Ready, Answered
  <2>4. QED
    BY <2>2, <2>3
<1>7. CASE Grade \/ GradeOn
  BY <1>7, UntouchedProceeding DEF Grade, GradeOn, calls, loop
<1>8. CASE OnAttempt
  <2>1. /\ phase = "arms" /\ turn = 2 /\ turn' = 2 /\ UNCHANGED call
        /\ phase' \in {"arms", "settle", "grade_initial"}
        /\ \A arm \in Agents : tree'[arm] = tree[arm] /\ (Answered(arm)' <=> Answered(arm))
    BY <1>8, OnAttempts, Ordered DEF kept, run, Answered
  <2>2. Spoiled => Spoiled'
    BY <1>8, AttemptsTyped, Recording DEF Spoiled
  <2>3. phase' # "settle" => tree'["on"] = Baseline \/ Spoiled'
    <3>1. CASE InvalidPatch
      <4>1. PICK attempt \in Attempts : attempt.class = "invalid_patch" /\ Recorded(attempt)
        BY <3>1, AttemptTyped DEF InvalidPatch, Statuses, Classes
      <4>2. \E i \in DOMAIN attempts' : attempts'[i] = attempt
        BY <4>1, Recording
      <4>3. QED
        BY <4>1, <4>2 DEF Spoiled
    <3>2. CASE Accepted
      BY <3>2 DEF Accepted, Continue
    <3>3. CASE ProposalError \/ GateCrash
      BY <2>1, <2>2, <3>3 DEF ProposalError, GateCrash, worktrees, Untouched
    <3>4. CASE Rejected
      BY <2>1, <2>2, <3>4, Ordered DEF Rejected, StartGrading, GradedAt, worktrees, Untouched
    <3>5. QED
      BY <1>8, <3>1, <3>2, <3>3, <3>4 DEF OnAttempt
  <2>4. \A i \in turn..4 : Order[i] \in Agents => Ready(Order[i])'
    BY <2>1 DEF Untouched, Ready
  <2>5. ~OnAhead'
    BY <2>1 DEF OnAhead
  <2>6. QED
    BY <2>1, <2>3, <2>4, <2>5 DEF Untouched
<1>9. CASE GradeInitial
  <2>1. /\ phase = "grade_initial" /\ turn = 2 /\ phase' \in {"arms", "settle"}
        /\ UNCHANGED <<turn, tree, call, proposal, attempts>>
    BY <1>9 DEF GradeInitial, run, calls
  <2>2. \A i \in 2..4 : Order[i] \in Agents => i # 2
    BY Ordered
  <2>3. ~OnAhead' /\ (tree'["on"] = Baseline \/ Spoiled')
    BY <2>1 DEF Untouched, OnAhead, Spoiled
  <2>4. \A i \in turn..4 : Order[i] \in Agents => Ready(Order[i])'
    <3>1. \A i \in turn..4 : Order[i] \in Agents => (i = turn /\ phase # "arms") \/ Ready(Order[i])
      BY <2>1 DEF Untouched
    <3>2. QED
      BY <2>1, <2>2, <3>1 DEF Ready, Answered
  <2>5. QED
    BY <2>1, <2>3, <2>4 DEF Untouched
<1>10. CASE Settle
  <2>1. CASE Proceed
    BY <1>10, <2>1, UntouchedProceeding DEF Settle, calls, worktrees, StartGrading
  <2>2. CASE ~Proceed
    <3>1. /\ phase' = "grade" /\ phase = "settle" /\ turn = 2 /\ turn' = 2
          /\ UNCHANGED <<call, proposal>> /\ \A arm \in Agents : tree'[arm] = tree[arm]
      BY <1>10, <2>2, Ordered DEF Settle, StartGrading, run, calls
    <3>2. QED
      BY <3>1, Ordered DEF Untouched, OnAhead, Ready, Answered
  <2>3. QED
    BY <2>1, <2>2
<1>11. ASSUME NEW arm \in Arms, Ask(arm)
       PROVE  Untouched'
  <2>1. /\ UNCHANGED <<phase, turn, proposal, attempts>>
        /\ \A other \in Arms : call'[other] = IF other = arm THEN "running" ELSE call[other]
        /\ \A other \in Arms : tree'[other] = IF other # arm THEN tree[other]
                                              ELSE IF Retried(arm) THEN Renewed(arm) ELSE tree[arm]
    BY <1>11 DEF Ask, run, loop
  <2>2. arm \notin Agents => UNCHANGED tree["on"] /\ UNCHANGED tree["off"]
    BY <2>1, Ordered DEF Renewed
  <2>3. arm \in Agents => UNCHANGED tree["on"] /\ UNCHANGED tree["off"]
    BY <2>1, Ordered
  <2>4. \A other \in Agents : other # arm => tree'[other] = tree[other] /\ call'[other] = call[other]
    BY <2>1, Ordered
  <2>5. QED
    BY <2>1, <2>2, <2>3, <2>4 DEF Untouched, OnAhead, Spoiled, Ready, Answered
<1>12. ASSUME NEW arm \in Arms, AgentEdits(arm)
       PROVE  Untouched'
  <2>1. /\ UNCHANGED <<phase, turn, proposal, attempts, call>> /\ arm \in Agents
        /\ call[arm] = "running"
        /\ \A other \in Arms : other # arm => tree'[other] = tree[other]
    BY <1>12 DEF AgentEdits, run, calls, loop
  <2>2. UNCHANGED tree["on"] /\ UNCHANGED tree["off"]
    BY <2>1, Ordered
  <2>3. QED
    BY <2>1, <2>2, Ordered DEF Untouched, OnAhead, Spoiled, Ready, Answered
<1>13. ASSUME NEW arm \in Arms, Answer(arm)
       PROVE  Untouched'
  <2>1. PICK answer \in Answers(arm) : proposal' = [proposal EXCEPT ![arm] = answer]
    BY <1>13 DEF Answer
  <2>2. \A other \in Arms : /\ Answered(other)' <=> other = arm \/ Answered(other)
                            /\ other # arm => call'[other] = call[other]
    BY <1>13, <2>1, AnswersTyped DEF Answer, Answered
  <2>3. UNCHANGED <<phase, turn, tree, attempts>>
    BY <1>13 DEF Answer, run, worktrees, loop
  <2>4. QED
    BY <2>2, <2>3, Ordered DEF Untouched, OnAhead, Spoiled, Ready
<1>14. ASSUME NEW arm \in Arms, RaiseInPool(arm)
       PROVE  Untouched'
  <2>1. /\ UNCHANGED <<phase, turn, tree, proposal, attempts>> /\ phase = "pool"
        /\ \A other \in Arms : call'[other] = IF other = arm THEN "raised" ELSE call[other]
    BY <1>14 DEF RaiseInPool, run, worktrees, loop
  <2>2. QED
    BY <2>1, Ordered DEF Untouched, OnAhead, Ready, Answered
<1>15. QED
  BY <1>1, <1>2, <1>3, <1>4, <1>5, <1>6, <1>7, <1>8, <1>9, <1>10, <1>11, <1>12, <1>13, <1>14
    DEF Next, Step, OnStep, OnAttempt, TimesOut, Raise
-----------------------------------------------------------------------------
(* _outcome, of what has not landed, and of what has. *)
LEMMA Outcomes ==
  ASSUME NEW behavior \in BOOLEAN, NEW structure \in BOOLEAN
  PROVE  Outcome(FALSE, behavior, structure) = NotLanded
<1>1. CASE behavior = TRUE
  BY <1>1 DEF Outcome, NotLanded
<1>2. CASE behavior = FALSE
  BY <1>2 DEF Outcome, NotLanded
<1>3. QED
  BY <1>1, <1>2

LEMMA NothingLanded ==
  ASSUME NEW answer, NEW class,
         answer.error # "none" \/ "valid" \notin answer.patch \/ class = "invalid_patch"
  PROVE  Truth(answer, class) = NotLanded
<1>1. (answer.error = "none" /\ "valid" \in answer.patch /\ class # "invalid_patch") = FALSE
  OBVIOUS
<1>2. Truth(answer, class) = Outcome(FALSE, "behaves" \in answer.patch, "structured" \in answer.patch)
  BY <1>1 DEF Truth
<1>3. ("behaves" \in answer.patch) \in BOOLEAN /\ ("structured" \in answer.patch) \in BOOLEAN
  OBVIOUS
<1>4. QED
  BY <1>2, <1>3, Outcomes

(* The oracle says of a worktree what it says of the answer that is in it. *)
LEMMA GradedTruly ==
  ASSUME NEW answer, NEW class, NEW place, tree[place] = answer.patch,
         answer.error = "none", "valid" \in answer.patch, class = "none"
  PROVE  Graded(place) = Truth(answer, class)
<1>1. (answer.error = "none" /\ "valid" \in answer.patch /\ class # "invalid_patch") = TRUE
  OBVIOUS
<1>2. QED
  BY <1>1 DEF Graded, Structured, Truth
-----------------------------------------------------------------------------
LEMMA OfTheFirstKept ==
  ASSUME OfTheFirst, UNCHANGED <<phase, turn, attempts, initial, first, final>>,
         "on" \in crashed' <=> "on" \in crashed,
         tree'["on"] = tree["on"], tree'[Scratch] = tree[Scratch]
  PROVE  OfTheFirst'
BY DEF OfTheFirst, OnAhead, OnAtWork

LEMMA OfTheFirstProceeding ==
  ASSUME ArmsAssumption, Typed, OfTheFirst, Proceed, UNCHANGED <<attempts, initial>>,
         phase \in {"arms", "grade", "settle"}
  PROVE  OfTheFirst'
<1>1. turn \in 1..4
  BY DEF Typed
<1>2. CASE phase' \in {"materialize", "aggregate"}
  BY <1>2 DEF OfTheFirst, OnAhead, OnAtWork
<1>3. CASE phase' = "arms" /\ turn' \in turn + 1..4
  <2>1. turn' # 1 /\ (turn' = 2 => turn = 1)
    BY <1>1, <1>3, Onward
  <2>2. turn' = 2 => OnAhead
    BY <2>1 DEF OnAhead, Typed
  <2>3. QED
    BY <1>3, <2>1, <2>2 DEF OfTheFirst, OnAhead, OnAtWork
<1>4. QED
  BY <1>2, <1>3, Proceeding

LEMMA OfTheFirstAttempt ==
  ASSUME ArmsAssumption, Typed, OfTheFirst, CrashTold, OnAttempt
  PROVE  OfTheFirst'
<1>1. /\ phase = "arms" /\ turn = 2 /\ turn' = 2 /\ "on" \notin crashed /\ Order[turn] = "on"
      /\ phase' \in {"arms", "settle", "grade_initial"}
  BY OnAttempts, Ordered DEF kept, run, CrashTold, OnAtWork
<1>2. attempts = <<>> => initial = <<>>
  BY <1>1 DEF OfTheFirst, OnAtWork
<1>3. attempts # <<>> => initial = <<Truth(first, attempts[1].class)>>
  BY <1>1 DEF OfTheFirst
<1>4. attempts' # <<>> /\ (attempts # <<>> => attempts'[1] = attempts[1] /\ first' = first)
  BY AttemptsTyped, Recording
<1>5. SUFFICES /\ phase' # "grade_initial" /\ "on" \notin crashed' =>
                   \/ initial' = <<Truth(first', attempts'[1].class)>>
                   \/ /\ initial' = <<>> /\ phase' # "arms" /\ final'.status = "committed"
                      /\ tree'["on"] = first'.patch /\ first'.error = "none"
                      /\ "valid" \in first'.patch /\ attempts'[1].class = "none"
               /\ phase' = "grade_initial" =>
                   /\ tree'[Scratch] = first'.patch /\ first'.error = "none"
                   /\ "valid" \in first'.patch /\ attempts'[1].class = "none"
  BY <1>1, <1>4 DEF OfTheFirst, OnAhead, OnAtWork
<1>6. CASE GateCrash
  BY <1>6 DEF GateCrash, Continue
<1>7. ASSUME attempts # <<>>, ~GateCrash
      PROVE  phase' # "grade_initial" /\ initial' = initial
  BY <1>1, <1>7 DEF OnAttempt, ProposalError, InvalidPatch, Rejected, Accepted, InitialIs, Continue
<1>8. CASE attempts # <<>> /\ ~GateCrash
  BY <1>3, <1>4, <1>7, <1>8
<1>9. CASE attempts = <<>> /\ ProposalError
  <2>1. proposal["on"].error \in Errors /\ proposal["on"].error # "none"
    BY <1>9, Ordered DEF ProposalError, Trying, Typed
  <2>2. first' = proposal["on"]
    BY <1>9 DEF ProposalError, Recorded
  <2>3. initial' = <<NotLanded>> /\ phase' # "grade_initial"
    BY <1>1, <1>9 DEF ProposalError, InitialIs, Continue
  <2>4. QED
    BY <2>1, <2>2, <2>3, NothingLanded
<1>10. CASE attempts = <<>> /\ InvalidPatch
  <2>1. PICK attempt \in Attempts : attempt.class = "invalid_patch" /\ Recorded(attempt)
    BY <1>10, AttemptTyped DEF InvalidPatch, Statuses, Classes
  <2>2. attempts'[1].class = "invalid_patch"
    BY <1>10, <2>1, Recording
  <2>3. initial' = <<NotLanded>> /\ phase' # "grade_initial"
    BY <1>1, <1>10 DEF InvalidPatch, InitialIs, Continue
  <2>4. QED
    BY <2>2, <2>3, NothingLanded
<1>11. CASE attempts = <<>> /\ Rejected
  <2>1. PICK attempt \in Attempts : attempt.class = "none" /\ Recorded(attempt)
    BY <1>11, AttemptTyped DEF Rejected, Statuses, Classes, Errors
  <2>2. attempts'[1].class = "none" /\ first' = proposal["on"]
    BY <1>11, <2>1, Recording
  <2>3. proposal["on"].error = "none" /\ "valid" \in proposal["on"].patch
    BY <1>11 DEF Rejected, Trying, Patch
  <2>4. phase' = "grade_initial" /\ tree'[Scratch] = proposal["on"].patch
    BY <1>11 DEF Rejected, StartGrading, GradedAt, Patch, Typed
  <2>5. QED
    BY <2>2, <2>3, <2>4
<1>12. CASE attempts = <<>> /\ Accepted
  <2>1. PICK attempt \in Attempts : attempt.class = "none" /\ Recorded(attempt)
    BY <1>12, AttemptTyped DEF Accepted, Statuses, Classes, Errors
  <2>2. attempts'[1].class = "none" /\ first' = proposal["on"]
    BY <1>12, <2>1, Recording
  <2>3. proposal["on"].error = "none" /\ "valid" \in proposal["on"].patch
    BY <1>12 DEF Accepted, Trying, Patch
  <2>4. /\ phase' = "settle" /\ tree'["on"] = proposal["on"].patch
        /\ initial' = initial /\ final'.status = "committed"
    BY <1>12, Ordered DEF Accepted, Continue, Verified, Patch, Typed
  <2>5. QED
    BY <1>2, <1>12, <2>2, <2>3, <2>4
<1>13. QED
  BY <1>6, <1>8, <1>9, <1>10, <1>11, <1>12 DEF OnAttempt

LEMMA OfTheFirstStep ==
  ASSUME ArmsAssumption, Typed, Calling, OfTheFirst, CrashTold, Next
  PROVE  OfTheFirst'
<1> USE DEF Typed
<1>1. CASE Main \/ CalibrateCase \/ Calibrated \/ Aggregate \/ Abort
  BY <1>1 DEF Main, CalibrateCase, Calibrated, Aggregate, Abort, OfTheFirst, OnAhead, OnAtWork
<1>2. CASE Materialize
  BY <1>2 DEF Materialize, OfTheFirst, OnAhead, OnAtWork
<1>3. CASE Join \/ FallbackDone
  BY <1>3 DEF Join, FallbackDone, run, worktrees, calls, loop, OfTheFirst, OnAhead, OnAtWork
<1>4. CASE Land
  <2>1. phase = "arms" /\ turn # 2 /\ UNCHANGED <<attempts, initial>>
    BY <1>4, Ordered DEF Land, loop
  <2>2. CASE Proceed
    BY <2>1, <2>2, OfTheFirstProceeding
  <2>3. CASE ~Proceed
    <3>1. phase' = "grade" /\ UNCHANGED turn
      BY <1>4, <2>3 DEF Land, StartGrading, run
    <3>2. QED
      BY <2>1, <3>1 DEF OfTheFirst, OnAhead, OnAtWork
  <2>4. QED
    BY <2>2, <2>3
<1>5. CASE Grade \/ GradeOn
  BY <1>5, OfTheFirstProceeding DEF Grade, GradeOn, loop
<1>6. CASE OnAttempt
  BY <1>6, OfTheFirstAttempt
<1>7. CASE GradeInitial
  <2>1. /\ phase = "grade_initial" /\ turn = 2 /\ phase' \in {"arms", "settle"}
        /\ initial' = <<Graded(Scratch)>> /\ UNCHANGED <<turn, attempts, first>>
    BY <1>7 DEF GradeInitial, GradedAt, run
  <2>2. /\ attempts # <<>> /\ tree[Scratch] = first.patch /\ first.error = "none"
        /\ "valid" \in first.patch /\ attempts[1].class = "none"
    BY <2>1 DEF OfTheFirst, OnAtWork
  <2>3. Graded(Scratch) = Truth(first, attempts[1].class)
    BY <2>2, GradedTruly
  <2>4. initial' = <<Truth(first', attempts'[1].class)>>
    BY <2>1, <2>3
  <2>5. QED
    BY <2>1, <2>2, <2>4 DEF OfTheFirst, OnAhead, OnAtWork
<1>8. CASE Settle
  <2>1. CASE Proceed
    BY <1>8, <2>1, OfTheFirstProceeding DEF Settle
  <2>2. CASE ~Proceed
    <3>1. /\ phase = "settle" /\ phase' = "grade" /\ turn = 2 /\ tree'["on"] = tree["on"]
          /\ UNCHANGED <<turn, attempts, initial, first, final, crashed>>
      BY <1>8, <2>2, Ordered DEF Settle, StartGrading, run
    <3>2. QED
      BY <3>1 DEF OfTheFirst, OnAhead, OnAtWork
  <2>3. QED
    BY <2>1, <2>2
<1>9. ASSUME NEW arm \in Arms, Ask(arm)
      PROVE  OfTheFirst'
  <2>1. /\ UNCHANGED <<phase, turn, attempts, initial, first, final>> /\ crashed' = crashed \ {arm}
        /\ \A place \in Arms \cup {Scratch} : place # arm => tree'[place] = tree[place]
        /\ tree'[arm] = IF Retried(arm) THEN Renewed(arm) ELSE tree[arm]
    BY <1>9, Ordered DEF Ask, run, loop
  <2>2. tree'["on"] = tree["on"] /\ tree'[Scratch] = tree[Scratch]
    BY <2>1, Ordered DEF Renewed
  <2>3. arm = "on" => "on" \notin crashed
    <3>1. phase \in {"pool", "fallback"} \/ (phase = "arms" /\ Order[turn] = arm)
      BY <1>9 DEF Ask, Submitted, Retried, Wanted
    <3>2. QED
      BY <3>1, Ordered DEF CrashTold, OnAhead, OnAtWork
  <2>4. QED
    BY <2>1, <2>2, <2>3, OfTheFirstKept
<1>10. ASSUME NEW arm \in Arms, AgentEdits(arm)
       PROVE  OfTheFirst'
  <2>1. /\ UNCHANGED <<phase, turn, attempts, initial, first, final>> /\ arm \in Agents
        /\ \A place \in Arms \cup {Scratch} : place # arm => tree'[place] = tree[place]
        /\ "on" \in crashed' <=> "on" \in crashed
    BY <1>10, Ordered DEF AgentEdits, run, loop
  <2>2. QED
    BY <2>1, Ordered, OfTheFirstKept
<1>11. ASSUME NEW arm \in Arms, Answer(arm) \/ RaiseInPool(arm)
       PROVE  OfTheFirst'
  BY <1>11, OfTheFirstKept DEF Answer, RaiseInPool, run, worktrees, loop
<1>12. QED
  BY <1>1, <1>2, <1>3, <1>4, <1>5, <1>6, <1>7, <1>8, <1>9, <1>10, <1>11
    DEF Next, Step, OnStep, OnAttempt, TimesOut, Raise
-----------------------------------------------------------------------------
(* The pair has no row of the on arm yet. *)
Unsettled == phase = "materialize" \/ OnAhead \/ OnAtWork

LEMMA RowsKept ==
  ASSUME RowsTell, UNCHANGED pair, records' \subseteq records,
         phase' \in {"main", "calibrate"} => phase \in {"main", "calibrate"},
         Unsettled' => Unsettled,
         \/ Unsettled
         \/ UNCHANGED <<attempts, first>> /\ ("on" \in crashed' <=> "on" \in crashed)
  PROVE  RowsTell'
BY DEF RowsTell, Unsettled

LEMMA RowsProceeding ==
  ASSUME ArmsAssumption, Typed, RowsTell, Proceed, phase \in {"arms", "grade", "settle"},
         UNCHANGED <<attempts, first, crashed>>,
         NEW row, row.pair = pair, records' = records \cup {row},
         row.arm = "on" => /\ turn = 2 /\ row.attempts = attempts
                           /\ "on" \notin crashed => row.initial = Truth(first, attempts[1].class)
  PROVE  RowsTell'
<1>1. turn \in 1..4 /\ pair \in Nat /\ (phase = "settle" => turn = 2)
  BY DEF Typed
<1>2. CASE phase' = "materialize"
  <2>1. pair' = pair + 1 /\ \A r \in records' : r.pair \in Nat /\ r.pair <= pair
    BY <1>1, <1>2, Proceeding DEF RowsTell
  <2>2. \A n \in Nat : n <= pair => n <= pair + 1 /\ n # pair + 1
    BY <1>1
  <2>3. QED
    BY <1>2, <2>1, <2>2 DEF RowsTell
<1>3. CASE phase' = "aggregate"
  <2>1. pair' = pair
    BY <1>3, Proceeding
  <2>2. QED
    BY <1>1, <1>3, <2>1 DEF RowsTell, OnAhead, OnAtWork
<1>4. CASE phase' = "arms" /\ turn' \in turn + 1..4 /\ pair' = pair
  <2>1. turn' # 1 /\ (turn' = 2 => turn = 1)
    BY <1>1, <1>4, Onward
  <2>2. turn = 1 => OnAhead
    BY <1>1 DEF OnAhead
  <2>3. OnAhead' \/ OnAtWork' => OnAhead /\ turn = 1
    BY <1>4, <2>1, <2>2 DEF OnAhead, OnAtWork
  <2>4. QED
    BY <1>1, <1>4, <2>3 DEF RowsTell
<1>5. QED
  BY <1>2, <1>3, <1>4, Proceeding

LEMMA RowsOfOn ==
  ASSUME Typed, NEW how, NEW outcome
  PROVE  /\ OnRow(how, outcome).pair = pair /\ OnRow(how, outcome).arm = "on"
         /\ OnRow(how, outcome).attempts = attempts
         /\ OnRow(how, outcome).initial = IF initial = <<>> THEN outcome ELSE initial[1]
BY DEF OnRow, Row

LEMMA RowsTellStep ==
  ASSUME ArmsAssumption, Typed, Calling, OfTheFirst, RowsTell, CrashTold, Next
  PROVE  RowsTell'
<1> USE DEF Typed
<1>1. CASE Main \/ CalibrateCase \/ Calibrated
  BY <1>1 DEF Main, CalibrateCase, Calibrated, run, RowsTell
<1>2. CASE Aggregate \/ Abort
  BY <1>2, RowsKept DEF Aggregate, Abort, run, loop, Unsettled, OnAhead, OnAtWork
<1>3. CASE Materialize
  BY <1>3, RowsKept DEF Materialize, Unsettled
<1>4. CASE Join \/ FallbackDone
  <2>1. phase \in {"pool", "fallback"} /\ phase' \in {"fallback", "arms"} /\ UNCHANGED <<pair, records>>
    BY <1>4 DEF Join, FallbackDone, run
  <2>2. QED
    BY <2>1, RowsKept DEF Unsettled, OnAhead
<1>5. CASE Land
  <2>1. phase = "arms" /\ turn # 2 /\ Order[turn] # "on" /\ UNCHANGED <<attempts, first, crashed>>
    BY <1>5, Ordered DEF Land, loop
  <2>2. CASE proposal[Order[turn]].error = "none" /\ "valid" \in proposal[Order[turn]].patch
    <3>1. phase' = "grade" /\ UNCHANGED <<pair, turn, records>>
      BY <1>5, <2>2 DEF Land, StartGrading, run
    <3>2. Unsettled' => Unsettled
      BY <2>1, <3>1 DEF Unsettled, OnAhead, OnAtWork
    <3>3. QED
      BY <2>1, <3>1, <3>2, RowsKept
  <2>3. CASE ~(proposal[Order[turn]].error = "none" /\ "valid" \in proposal[Order[turn]].patch)
    <3>1. DEFINE row == [Row(Order[turn], "error", NotLanded) EXCEPT !.class = proposal[Order[turn]].error]
    <3>2. row.pair = pair /\ row.arm = Order[turn]
      BY DEF Row
    <3>3. records' = records \cup {row} /\ Proceed
      BY <1>5, <2>3 DEF Land
    <3>4. HIDE DEF row
    <3>5. QED
      BY <2>1, <3>2, <3>3, RowsProceeding
  <2>4. QED
    BY <2>2, <2>3
<1>6. CASE Grade
  <2>1. DEFINE row == Row(Order[turn], "shipped", Graded(Order[turn]))
  <2>2. row.pair = pair /\ row.arm = Order[turn]
    BY DEF Row
  <2>3. /\ records' = records \cup {row} /\ Proceed /\ phase = "grade" /\ Order[turn] # "on"
        /\ UNCHANGED <<attempts, first, crashed>>
    BY <1>6 DEF Grade, loop
  <2>4. HIDE DEF row
  <2>5. QED
    BY <2>2, <2>3, RowsProceeding
<1>7. CASE GradeOn
  <2>1. DEFINE row == OnRow("committed", Graded("on"))
  <2>2. /\ row.pair = pair /\ row.attempts = attempts
        /\ row.initial = IF initial = <<>> THEN Graded("on") ELSE initial[1]
    BY RowsOfOn
  <2>3. /\ records' = records \cup {row} /\ Proceed /\ phase = "grade" /\ turn = 2
        /\ UNCHANGED <<attempts, first, crashed>>
    BY <1>7, Ordered DEF GradeOn, loop
  <2>4. row.initial = Truth(first, attempts[1].class)
    <3>1. attempts # <<>> /\ "on" \notin crashed
      BY <2>3 DEF OfTheFirst, CrashTold, OnAtWork
    <3>2. CASE initial = <<Truth(first, attempts[1].class)>>
      BY <2>2, <3>2
    <3>3. CASE /\ initial = <<>> /\ tree["on"] = first.patch /\ first.error = "none"
               /\ "valid" \in first.patch /\ attempts[1].class = "none"
      BY <2>2, <3>3, GradedTruly
    <3>4. QED
      BY <2>3, <3>1, <3>2, <3>3 DEF OfTheFirst
  <2>5. HIDE DEF row
  <2>6. QED
    BY <2>2, <2>3, <2>4, RowsProceeding
<1>8. CASE OnAttempt
  <2>1. /\ phase = "arms" /\ turn = 2 /\ UNCHANGED <<pair, records>>
        /\ phase' \in {"arms", "settle", "grade_initial"}
    BY <1>8, OnAttempts DEF kept, run
  <2>2. QED
    BY <2>1, RowsKept DEF Unsettled, OnAtWork
<1>9. CASE GradeInitial
  <2>1. phase = "grade_initial" /\ phase' \in {"arms", "settle"} /\ UNCHANGED <<pair, records>>
    BY <1>9 DEF GradeInitial, run
  <2>2. QED
    BY <2>1, RowsKept DEF Unsettled, OnAtWork
<1>10. CASE Settle
  <2>1. phase = "settle" /\ turn = 2 /\ UNCHANGED <<attempts, first, crashed>>
    BY <1>10 DEF Settle
  <2>2. CASE final.status = "committed"
    <3>1. phase' = "grade" /\ UNCHANGED <<pair, records>>
      BY <1>10, <2>2 DEF Settle, StartGrading, run
    <3>2. QED
      BY <2>1, <3>1, RowsKept DEF Unsettled, OnAtWork
  <2>3. CASE final.status # "committed"
    <3>1. DEFINE row == OnRow("skipped-needs-human", NotLanded)
    <3>2. /\ row.pair = pair /\ row.attempts = attempts
          /\ row.initial = IF initial = <<>> THEN NotLanded ELSE initial[1]
      BY RowsOfOn
    <3>3. records' = records \cup {row} /\ Proceed
      BY <1>10, <2>3 DEF Settle
    <3>4. "on" \notin crashed => row.initial = Truth(first, attempts[1].class)
      <4>1. SUFFICES ASSUME "on" \notin crashed
                     PROVE  row.initial = Truth(first, attempts[1].class)
        OBVIOUS
      <4>2. initial = <<Truth(first, attempts[1].class)>>
        BY <2>1, <2>3, <4>1 DEF OfTheFirst, OnAtWork
      <4>3. HIDE DEF row
      <4>4. QED
        BY <3>2, <4>2
    <3>5. HIDE DEF row
    <3>6. QED
      BY <2>1, <3>2, <3>3, <3>4, RowsProceeding
  <2>4. QED
    BY <2>2, <2>3
<1>11. ASSUME NEW arm \in Arms, Ask(arm)
       PROVE  RowsTell'
  <2>1. /\ UNCHANGED <<phase, turn, pair, records, attempts, first>> /\ crashed' = crashed \ {arm}
        /\ phase \in {"pool", "fallback"} \/ (phase = "arms" /\ Order[turn] = arm)
    BY <1>11 DEF Ask, Submitted, Retried, Wanted, run, loop
  <2>2. arm # "on" => ("on" \in crashed' <=> "on" \in crashed)
    BY <2>1
  <2>3. arm = "on" => Unsettled
    BY <2>1, Ordered DEF Unsettled, OnAhead, OnAtWork
  <2>4. Unsettled' <=> Unsettled
    BY <2>1 DEF Unsettled, OnAhead, OnAtWork
  <2>5. QED
    BY <2>1, <2>2, <2>3, <2>4, RowsKept
<1>12. ASSUME NEW arm \in Arms, AgentEdits(arm) \/ Answer(arm) \/ RaiseInPool(arm)
       PROVE  RowsTell'
  <2>1. /\ UNCHANGED <<phase, turn, pair, records, attempts, first>>
        /\ "on" \in crashed' <=> "on" \in crashed
    BY <1>12, Ordered DEF AgentEdits, Answer, RaiseInPool, run, loop
  <2>2. Unsettled' <=> Unsettled
    BY <2>1 DEF Unsettled, OnAhead, OnAtWork
  <2>3. QED
    BY <2>1, <2>2, RowsKept
<1>13. QED
  BY <1>1, <1>2, <1>3, <1>4, <1>5, <1>6, <1>7, <1>8, <1>9, <1>10, <1>11, <1>12
    DEF Next, Step, OnStep, OnAttempt, TimesOut, Raise
-----------------------------------------------------------------------------
LEMMA CrashKept ==
  ASSUME CrashTold, phase # "done",
         UNCHANGED <<phase, turn, attempts, final, records, status>>,
         "on" \in crashed' => "on" \in crashed
  PROVE  CrashTold'
BY DEF CrashTold, OnAhead, OnAtWork

(* A gate that crashed is in a row before the program goes on. *)
LEMMA CrashProceeding ==
  ASSUME ArmsAssumption, Typed, CrashTold, Proceed, phase \in {"arms", "grade", "settle"},
         UNCHANGED <<crashed, status>>, records \subseteq records',
         "on" \in crashed /\ phase = "settle" => \E row \in records' : GateFailed(row.attempts)
  PROVE  CrashTold'
<1>1. turn \in 1..4 /\ (phase = "settle" => turn = 2)
  BY DEF Typed
<1>2. status' = "running"
  BY DEF CrashTold
<1>3. CASE "on" \notin crashed
  BY <1>2, <1>3 DEF CrashTold
<1>4. CASE "on" \in crashed
  <2>1. turn # 1 /\ \E row \in records' : GateFailed(row.attempts)
    BY <1>1, <1>4 DEF CrashTold, OnAhead
  <2>2. CASE phase' = "arms" /\ turn' \in turn + 1..4
    <3>1. turn' # 1 /\ turn' # 2
      BY <1>1, <2>1, <2>2, Onward
    <3>2. QED
      BY <1>2, <2>1, <2>2, <3>1 DEF CrashTold, OnAhead, OnAtWork
  <2>3. CASE phase' \in {"materialize", "aggregate"}
    BY <1>2, <2>1, <2>3 DEF CrashTold, OnAhead, OnAtWork
  <2>4. QED
    BY <2>2, <2>3, Proceeding
<1>5. QED
  BY <1>3, <1>4

LEMMA CrashToldStep ==
  ASSUME ArmsAssumption, Typed, Calling, CrashTold, Next
  PROVE  CrashTold'
<1> USE DEF Typed
<1>1. CASE Main \/ CalibrateCase \/ Calibrated
  BY <1>1 DEF Main, CalibrateCase, Calibrated, CrashTold
<1>2. CASE Aggregate \/ Abort
  BY <1>2 DEF Aggregate, Abort, CrashTold, OnAhead, OnAtWork
<1>3. CASE Materialize
  BY <1>3 DEF Materialize, CrashTold
<1>4. CASE Join \/ FallbackDone
  BY <1>4 DEF Join, FallbackDone, CrashTold, OnAhead
<1>5. CASE Land
  <2>1. phase = "arms" /\ turn # 2 /\ UNCHANGED <<crashed, status>> /\ records \subseteq records'
    <3>1. phase = "arms" /\ turn # 2 /\ UNCHANGED <<crashed, status>>
      BY <1>5, Ordered DEF Land
    <3>2. records \subseteq records'
      BY <1>5 DEF Land
    <3>3. QED
      BY <3>1, <3>2
  <2>2. CASE Proceed
    BY <2>1, <2>2, CrashProceeding
  <2>3. CASE ~Proceed
    <3>1. phase' = "grade" /\ UNCHANGED <<turn, records>>
      BY <1>5, <2>3 DEF Land, StartGrading, run
    <3>2. QED
      BY <2>1, <3>1 DEF CrashTold, OnAhead, OnAtWork
  <2>4. QED
    BY <2>2, <2>3
<1>6. CASE Grade \/ GradeOn
  <2>1. /\ phase = "grade" /\ Proceed /\ UNCHANGED <<crashed, status>> /\ records \subseteq records'
    BY <1>6 DEF Grade, GradeOn
  <2>2. QED
    BY <2>1, CrashProceeding
<1>7. CASE OnAttempt
  <2>1. /\ phase = "arms" /\ turn = 2 /\ UNCHANGED status /\ "on" \notin crashed
        /\ phase' \in {"arms", "settle", "grade_initial"}
    BY <1>7, OnAttempts DEF kept, CrashTold, OnAtWork
  <2>2. CASE GateCrash
    <3>1. PICK attempt \in Attempts : attempt.class = "gate_failure" /\ Recorded(attempt)
      BY <2>2, AttemptTyped DEF GateCrash, Statuses, Classes, Errors
    <3>2. \E i \in DOMAIN attempts' : attempts'[i] = attempt
      BY <3>1, Recording
    <3>3. GateFailed(attempts')
      BY <3>1, <3>2 DEF GateFailed
    <3>4. phase' = "settle" /\ final'.status = "rolled-back"
      BY <2>2 DEF GateCrash, Continue, Verified
    <3>5. QED
      BY <2>1, <3>3, <3>4 DEF CrashTold, OnAhead
  <2>3. CASE ~GateCrash
    <3>1. UNCHANGED crashed
      BY <1>7, <2>3 DEF OnAttempt, ProposalError, InvalidPatch, Rejected, Accepted
    <3>2. QED
      BY <2>1, <3>1 DEF CrashTold
  <2>4. QED
    BY <2>2, <2>3
<1>8. CASE GradeInitial
  BY <1>8 DEF GradeInitial, CrashTold, OnAtWork
<1>9. CASE Settle
  <2>1. phase = "settle" /\ turn = 2 /\ UNCHANGED <<crashed, status>>
    BY <1>9 DEF Settle
  <2>2. CASE final.status = "committed"
    BY <1>9, <2>1, <2>2 DEF Settle, StartGrading, CrashTold, OnAhead, OnAtWork
  <2>3. CASE final.status # "committed"
    <3>1. DEFINE row == OnRow("skipped-needs-human", NotLanded)
    <3>2. row.attempts = attempts
      BY RowsOfOn
    <3>3. records' = records \cup {row} /\ Proceed
      BY <1>9, <2>3 DEF Settle
    <3>4. HIDE DEF row
    <3>5. "on" \in crashed => GateFailed(row.attempts)
      BY <2>1, <3>2 DEF CrashTold
    <3>6. QED
      BY <2>1, <3>3, <3>5, CrashProceeding
  <2>4. QED
    BY <2>2, <2>3
<1>10. ASSUME NEW arm \in Arms, Ask(arm) \/ AgentEdits(arm) \/ Answer(arm) \/ RaiseInPool(arm)
       PROVE  CrashTold'
  <2>1. /\ UNCHANGED <<phase, turn, attempts, final, records, status>>
        /\ "on" \in crashed' => "on" \in crashed
    BY <1>10, Ordered DEF Ask, AgentEdits, Answer, RaiseInPool, run, loop
  <2>2. phase # "done"
    <3>1. CASE Ask(arm)
      BY <3>1 DEF Ask, Submitted, Retried, Wanted
    <3>2. CASE ~Ask(arm)
      BY <1>10, <3>2, Ordered DEF AgentEdits, Answer, RaiseInPool, Calling
    <3>3. QED
      BY <3>1, <3>2
  <2>3. QED
    BY <2>1, <2>2, CrashKept
<1>11. QED
  BY <1>1, <1>2, <1>3, <1>4, <1>5, <1>6, <1>7, <1>8, <1>9, <1>10
    DEF Next, Step, OnStep, OnAttempt, TimesOut, Raise

LEMMA InvalidatesStep ==
  ASSUME ArmsAssumption, Calling, CrashTold, Next, OnCrashInvalidates
  PROVE  OnCrashInvalidates'
<1>1. CASE Calibrated
  BY <1>1 DEF Calibrated, CrashTold, OnCrashInvalidates
<1>2. CASE Aggregate
  <2>1. phase = "aggregate" /\ UNCHANGED crashed
    BY <1>2 DEF Aggregate
  <2>2. ASSUME "on" \in crashed
        PROVE  "gate_failure" \in ErrorClasses \cap Infrastructure
    <3>1. PICK row \in records : GateFailed(row.attempts)
      BY <2>1, <2>2 DEF CrashTold
    <3>2. "gate_failure" \in {row.attempts[i].class : i \in DOMAIN row.attempts}
      BY <3>1 DEF GateFailed
    <3>3. QED
      BY <3>2 DEF ErrorClasses, Infrastructure
  <2>3. QED
    BY <1>2, <2>1, <2>2 DEF Aggregate, OnCrashInvalidates
<1>3. CASE Abort
  BY <1>3 DEF Abort, OnCrashInvalidates
<1>4. CASE Main
  BY <1>4 DEF Main, CrashTold, OnCrashInvalidates
<1>5. ASSUME phase # "done", UNCHANGED status
      PROVE  OnCrashInvalidates'
  BY <1>5 DEF CrashTold, OnCrashInvalidates
<1>6. CASE CalibrateCase \/ Materialize \/ Join \/ FallbackDone \/ Land \/ Grade
  BY <1>5, <1>6 DEF CalibrateCase, Materialize, Join, FallbackDone, Land, Grade
<1>7. CASE OnStep
  BY <1>5, <1>7 DEF OnStep, ProposalError, InvalidPatch, GateCrash, Rejected, GradeInitial,
                    Accepted, Settle, GradeOn, Trying, kept
<1>8. ASSUME NEW arm \in Arms, Ask(arm)
      PROVE  OnCrashInvalidates'
  BY <1>5, <1>8 DEF Ask, Submitted, Retried, Wanted
<1>9. ASSUME NEW arm \in Arms, AgentEdits(arm) \/ Answer(arm) \/ RaiseInPool(arm)
      PROVE  OnCrashInvalidates'
  BY <1>5, <1>9 DEF AgentEdits, Answer, RaiseInPool, Calling
<1>10. QED
  BY <1>1, <1>2, <1>3, <1>4, <1>6, <1>7, <1>8, <1>9 DEF Next, Step, TimesOut, Raise
-----------------------------------------------------------------------------
LEMMA InvInit ==
  ASSUME ArmsAssumption, Init
  PROVE  Inv
<1>1. Typed
  BY Ordered DEF Init, Typed, Phases, Answered
<1>2. Calling /\ Untouched /\ OfTheFirst
  BY DEF Init, Calling, Untouched, OfTheFirst, OnAhead, OnAtWork
<1>3. RowsTell /\ CrashTold /\ OnCrashInvalidates
  BY DEF Init, RowsTell, CrashTold, OnCrashInvalidates
<1>4. QED
  BY <1>1, <1>2, <1>3 DEF Inv

LEMMA InvStep ==
  ASSUME ArmsAssumption, Inv, [Next]_vars
  PROVE  Inv'
<1>1. CASE Next
  BY <1>1, TypedStep, CallingStep, UntouchedStep, OfTheFirstStep, RowsTellStep, CrashToldStep,
     InvalidatesStep DEF Inv
<1>2. CASE UNCHANGED vars
  <2>1. /\ UNCHANGED <<phase, turn, pair, tree, call, proposal, crashed, redo>>
        /\ UNCHANGED <<attempts, final, initial, first, records, status>>
    BY <1>2 DEF vars, run, worktrees, calls, pool, loop
  <2>2. Typed' /\ Calling'
    BY <2>1 DEF Inv, Typed, Calling, Answered
  <2>3. Untouched'
    BY <2>1 DEF Inv, Untouched, OnAhead, Ready, Answered, Spoiled
  <2>4. OfTheFirst' /\ RowsTell'
    BY <2>1 DEF Inv, OfTheFirst, RowsTell, OnAhead, OnAtWork
  <2>5. CrashTold' /\ OnCrashInvalidates'
    BY <2>1 DEF Inv, CrashTold, OnCrashInvalidates, OnAhead, OnAtWork
  <2>6. QED
    BY <2>2, <2>3, <2>4, <2>5 DEF Inv
<1>3. QED
  BY <1>1, <1>2

LEMMA Invariance ==
  ASSUME ArmsAssumption
  PROVE  Spec => []Inv
<1>1. Init => Inv
  BY InvInit
<1>2. Inv /\ [Next]_vars => Inv'
  BY InvStep
<1>3. QED
  BY <1>1, <1>2, PTL DEF Spec
-----------------------------------------------------------------------------
(* However many arms the pool took, and however they ended: once it is left, at
   most one call of a model or an agent runs. *)
THEOREM OneCallAtATime ==
  ASSUME ArmsAssumption
  PROVE  Spec => []AloneAfterThePool
<1>1. Inv => AloneAfterThePool
  <2>1. SUFFICES ASSUME Inv, phase # "pool"
                 PROVE  Cardinality({arm \in Arms : call[arm] = "running"}) <= 1
    BY DEF AloneAfterThePool
  <2>2. CASE {arm \in Arms : call[arm] = "running"} = {}
    BY <2>2, FS_EmptySet
  <2>3. CASE \E arm \in Arms : call[arm] = "running"
    <3>1. PICK arm \in Arms : call[arm] = "running"
      BY <2>3
    <3>2. {other \in Arms : call[other] = "running"} = {arm}
      BY <2>1, <3>1 DEF Inv, Calling
    <3>3. Cardinality({arm}) = 1
      BY FS_Singleton
    <3>4. QED
      BY <3>2, <3>3
  <2>4. QED
    BY <2>2, <2>3
<1>2. QED
  BY <1>1, Invariance, PTL

(* The on arm's row keeps what the oracle says of its first answer, for every
   number of retries and whatever the later answers and their gates did. *)
THEOREM InitialOfTheFirst ==
  ASSUME ArmsAssumption
  PROVE  Spec => []InitialIsTheFirstAnswer
<1>1. Inv => InitialIsTheFirstAnswer
  BY DEF Inv, RowsTell, InitialIsTheFirstAnswer, Truth
<1>2. QED
  BY <1>1, Invariance, PTL

(* A report is valid only if no gate crashed on the on arm's proposals. *)
THEOREM GateCrashesOfOnInvalidate ==
  ASSUME ArmsAssumption
  PROVE  Spec => []OnCrashInvalidates
<1>1. Inv => OnCrashInvalidates
  BY DEF Inv
<1>2. QED
  BY <1>1, Invariance, PTL

(* Whether asked in the pool, again after it, in turn, or after a rejected
   attempt, an arm starts from the baseline, unless an invalid patch was left. *)
THEOREM EveryCallStartsClean ==
  ASSUME ArmsAssumption
  PROVE  Spec => CallsStartFromBaseline
<1>1. ASSUME Inv, Next, NEW arm \in Arms, call[arm] # "running", call'[arm] = "running"
      PROVE  tree'[arm] = Baseline \/ (arm = "on" /\ Spoiled)
  <2>1. Ask(arm)
    <3>1. CASE Main \/ CalibrateCase \/ Calibrated \/ Materialize \/ Join \/ FallbackDone \/ Aggregate
      BY <1>1, <3>1 DEF Main, CalibrateCase, Calibrated, Materialize, Join, FallbackDone, Aggregate, calls
    <3>2. CASE Land \/ Grade \/ OnStep
      BY <1>1, <3>2 DEF Land, Grade, OnStep, ProposalError, InvalidPatch, GateCrash, Rejected,
                        GradeInitial, Accepted, Settle, GradeOn, calls, kept
    <3>3. CASE Abort
      BY <1>1, <3>3 DEF Abort
    <3>4. ASSUME NEW other \in Arms, Ask(other) \/ AgentEdits(other) \/ Answer(other) \/ RaiseInPool(other)
          PROVE  Ask(arm)
      BY <1>1, <3>4 DEF Ask, AgentEdits, Answer, RaiseInPool, calls, Inv, Typed
    <3>5. QED
      BY <1>1, <3>1, <3>2, <3>3, <3>4 DEF Next, Step, TimesOut, Raise
  <2>2. tree'[arm] = IF Retried(arm) THEN Renewed(arm) ELSE tree[arm]
    BY <1>1, <2>1 DEF Ask, Inv, Typed
  <2>3. ~Answered(arm)
    BY <2>1 DEF Ask
  <2>4. arm = "off" \/ arm = "on" \/ arm \in Agents
    <3>1. PICK i \in 1..4 : arm = Order[i]
      BY <1>1, Ordered
    <3>2. i = 1 \/ i = 2 \/ i \in 3..4
      BY <3>1
    <3>3. QED
      BY <1>1, <3>1, <3>2, Ordered
  <2>5. CASE Submitted(arm)
    BY <1>1, <2>2, <2>3, <2>4, <2>5 DEF Submitted, Retried, Inv, Untouched, OnAhead
  <2>6. CASE Retried(arm)
    BY <1>1, <2>2, <2>4, <2>6 DEF Retried, Renewed, Inv, Untouched, OnAhead
  <2>7. CASE Wanted(arm)
    <3>1. phase = "arms" /\ Order[turn] = arm /\ turn \in 1..4 /\ tree'[arm] = tree[arm]
      BY <1>1, <2>2, <2>7 DEF Wanted, Retried, Inv, Typed
    <3>2. CASE turn = 1 \/ turn = 2
      BY <1>1, <3>1, <3>2, Ordered DEF Inv, Untouched, OnAhead, Spoiled
    <3>3. CASE turn # 1 /\ turn # 2
      <4>1. arm \in Agents /\ turn \in turn..4
        BY <2>4, <3>1, <3>3, Ordered
      <4>2. Ready(arm)
        BY <1>1, <3>1, <4>1 DEF Inv, Untouched
      <4>3. QED
        BY <1>1, <2>3, <3>1, <4>2 DEF Ready
    <3>4. QED
      BY <3>2, <3>3
  <2>8. QED
    BY <2>1, <2>5, <2>6, <2>7 DEF Ask
<1>2. DEFINE Clean ==
        \A arm \in Arms :
          call[arm] # "running" /\ call'[arm] = "running" =>
            \/ tree'[arm] = Baseline
            \/ arm = "on" /\ \E i \in DOMAIN attempts : attempts[i].class = "invalid_patch"
<1>3. Inv /\ [Next]_vars => [Clean]_vars
  BY <1>1 DEF Spoiled
<1>4. HIDE DEF Clean
<1>5. Spec => [][Clean]_vars
  BY <1>3, Invariance, PTL DEF Spec
<1>6. QED
  BY <1>5 DEF Clean, CallsStartFromBaseline
=============================================================================
