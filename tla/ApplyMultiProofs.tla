-------------------------- MODULE ApplyMultiProofs --------------------------
(***************************************************************************)
(* Proofs about ApplyMulti, for any number of processes, worktrees, files  *)
(* and contents, every set of faults, with Redis and with the JSON file.   *)
(*                                                                         *)
(* Typed gives the variables their types.  Inspected says, of one client,  *)
(* what the gates its call has passed have established of its worktree;    *)
(* that no other client disturbs it is StepFrame.  Sound relates a log to  *)
(* the calls that count in it, whether it is the log or the copy a client  *)
(* is about to write back.                                                 *)
(***************************************************************************)
EXTENDS ApplyMulti, FiniteSetTheorems, TLAPS

Labels == {"idle", "count", "parse", "write", "lint", "typecheck", "tests", "rollback",
           "commit", "log"}
Statuses == {"none", "rolled-back", "committed"}
Slots == Contents \cup {Absent}
Calls(c) ==
  [edit : [Repo[c] -> Slots], originals : [Repo[c] -> Slots], retries : Nat,
   todo : SUBSET Repo[c], status : Statuses, rescue : BOOLEAN, number : Nat]
Records ==
  [client : Clients, number : Nat, files : SUBSET {PathOf[f] : f \in Files},
   edit : UNION {[Repo[c] -> Slots] : c \in Clients}, status : Statuses, retries : Nat]
Steps(c) == (\E e \in Proposals[c] : Begin(c, e)) \/ Step(c) \/ Fault(c)

(* A call that has only begun has no status, one that rolls back has that one,
   and only a call that is about to log has the state file in hand. *)
CallsTyped ==
  /\ disk \in Trees /\ head \in Trees
  /\ pc \in [Clients -> Labels]
  /\ DOMAIN call = Clients
  /\ \A c \in Clients :
       /\ call[c] \in Calls(c)
       /\ call[c].todo \subseteq Touched(c)
       /\ pc[c] = "count" => call[c].status = "none"
       /\ pc[c] = "rollback" => call[c].status = "rolled-back"
       /\ pc[c] # "idle" \/ call[c].status # "none" => call[c].originals \in [Repo[c] -> Contents]

LogTyped ==
  /\ logBackend \in {"redis", "json"}
  /\ active \subseteq Clients /\ active # {}
  /\ stage \in [Clients -> {"none", "read", "truncated"}]
  /\ DOMAIN held = Clients
  /\ logBackend = "redis" \/ log # Torn => log \in Seq(Records)
  /\ \A c \in Clients :
       /\ c \notin active => pc[c] = "idle" /\ call[c].status = "none"
       /\ stage[c] # "none" => logBackend = "json" /\ pc[c] = "log" /\ held[c] \in Seq(Records)

Typed == CallsTyped /\ LogTyped

(* What a step of one client leaves alone of the others. *)
LEMMA StepFrame ==
  ASSUME WorktreesAssumption, Typed, NEW c \in Clients, Steps(c)
  PROVE  /\ DOMAIN disk' = Files /\ \A f \in Files \ Repo[c] : disk'[f] = disk[f]
         /\ DOMAIN head' = Files /\ \A f \in Files \ Repo[c] : head'[f] = head[f]
         /\ DOMAIN pc' = Clients /\ \A d \in Clients \ {c} : pc'[d] = pc[d]
         /\ DOMAIN call' = Clients /\ \A d \in Clients \ {c} : call'[d] = call[d]
         /\ UNCHANGED <<logBackend, active>>
<1> USE DEF Typed, CallsTyped, LogTyped, Trees, WorktreesAssumption
<1>1. CASE \E e \in Proposals[c] : Begin(c, e)
  BY <1>1 DEF Begin, GoTo, storage
<1>2. CASE Step(c)
  <2>1. Touched(c) \subseteq Repo[c]
    BY DEF Touched
  <2>2. CASE Count(c) \/ CountRaises(c) \/ Parse(c) \/ RunTests(c)
    BY <2>2 DEF Count, CountRaises, Parse, RunTests, RollBack, GoTo, storage
  <2>3. CASE Commit(c)
    BY <2>1, <2>3 DEF Commit, GoTo, storage
  <2>4. CASE Log(c)
    BY <2>4 DEF Log, PushRecord, FillState, ReadState, TruncateState, GoTo
  <2>5. ASSUME NEW f \in Repo[c], Write(c, f) \/ Lint(c, f) \/ Typecheck(c, f) \/ Restore(c, f)
        PROVE  /\ DOMAIN disk' = Files /\ \A g \in Files \ Repo[c] : disk'[g] = disk[g]
               /\ DOMAIN pc' = Clients /\ \A d \in Clients \ {c} : pc'[d] = pc[d]
               /\ DOMAIN call' = Clients /\ \A d \in Clients \ {c} : call'[d] = call[d]
               /\ UNCHANGED <<head, storage>>
    BY <2>5 DEF Write, Lint, Typecheck, Restore, Visit, RollBack, Alter, GoTo
  <2>6. QED
    BY <1>2, <2>2, <2>3, <2>4, <2>5 DEF Step, storage
<1>3. CASE Fault(c)
  <2>1. CASE BaselineRaises(c) \/ GateCrashes(c)
    BY <2>1 DEF BaselineRaises, GateCrashes, Leave, RollBack, GoTo, storage
  <2>2. CASE LogRaises(c)
    BY <2>2 DEF LogRaises, PushRecord, FillRaises, RaiseFromTry, Leave, RollBack, GoTo, storage
  <2>3. ASSUME NEW f \in Repo[c], WriteRaises(c, f) \/ RestoreRaises(c, f)
        PROVE  /\ DOMAIN disk' = Files /\ \A g \in Files \ Repo[c] : disk'[g] = disk[g]
               /\ DOMAIN pc' = Clients /\ \A d \in Clients \ {c} : pc'[d] = pc[d]
               /\ DOMAIN call' = Clients /\ \A d \in Clients \ {c} : call'[d] = call[d]
               /\ UNCHANGED <<head, storage>>
    BY <2>3 DEF WriteRaises, RestoreRaises, RaiseFromTry, Leave, RollBack, Alter, GoTo
  <2>4. QED
    BY <1>3, <2>1, <2>2, <2>3 DEF Fault, storage
<1>4. QED
  BY <1>1, <1>2, <1>3 DEF Steps

(* The counts of a call are numbers. *)
LEMMA CountIsNat ==
  ASSUME NEW S, log \in Seq(Records)
  PROVE  CountAttempts(S) \in Nat
<1>1. DEFINE failures == {i \in DOMAIN log : log[i].status # "committed" /\ log[i].files \cap S # {}}
<1>2. failures \subseteq 1 .. Len(log) /\ IsFiniteSet(1 .. Len(log))
  BY FS_Interval
<1>3. IsFiniteSet(failures)
  BY <1>2, FS_Subset
<1>4. QED
  BY <1>3, FS_CardinalityType DEF CountAttempts

(* What a client's own call is after a step of it. *)
CallTyped(c) ==
  /\ call[c] \in Calls(c)
  /\ call[c].todo \subseteq Touched(c)
  /\ pc[c] \in Labels
  /\ pc[c] = "count" => call[c].status = "none"
  /\ pc[c] = "rollback" => call[c].status = "rolled-back"
  /\ pc[c] # "idle" \/ call[c].status # "none" => call[c].originals \in [Repo[c] -> Contents]

LEMMA StepOfCall ==
  ASSUME WorktreesAssumption, ContentsAssumption, ProposalsAssumption, Typed,
         NEW c \in Clients, Steps(c)
  PROVE  disk' \in Trees /\ head' \in Trees /\ CallTyped(c)'
<1> USE DEF WorktreesAssumption, ContentsAssumption, CallTyped, Slots
<1>a. /\ disk \in Trees /\ head \in Trees /\ pc \in [Clients -> Labels] /\ DOMAIN call = Clients
      /\ CallTyped(c) /\ Touched(c) \subseteq Repo[c] /\ Repo[c] \subseteq Files
  BY DEF Typed, CallsTyped, Touched
<1>b. \A f \in Touched(c) : call[c].edit[f] \in Contents
  BY <1>a DEF Touched, Calls
<1>c. ASSUME NEW label \in Labels, GoTo(c, label)
      PROVE  pc'[c] = label
  BY <1>a, <1>c DEF GoTo
<1>d. ASSUME NEW f \in Files, NEW content \in Contents, Alter(f, content)
      PROVE  disk' \in Trees
  BY <1>a, <1>d DEF Alter, Trees
<1>e. ASSUME Leave(c)
      PROVE  pc'[c] = "idle" /\ CallTyped(c)'
  <2>1. pc'[c] = "idle" /\ call'[c] = [call[c] EXCEPT !.status = "none"]
    BY <1>a, <1>e DEF Leave, GoTo
  <2>2. QED
    BY <1>a, <2>1 DEF Labels, Calls, Touched, Statuses
<1>f. ASSUME NEW handler \in BOOLEAN, RollBack(c, handler), pc[c] # "idle"
      PROVE  CallTyped(c)'
  <2>1. /\ pc'[c] = "rollback"
        /\ call'[c] = [call[c] EXCEPT !.status = "rolled-back", !.rescue = handler, !.todo = Touched(c)]
    BY <1>a, <1>f DEF RollBack, GoTo
  <2>2. call'[c] \in Calls(c) /\ call'[c].edit = call[c].edit
    BY <1>a, <2>1 DEF Calls, Statuses
  <2>3. Touched(c)' = Touched(c)
    BY <2>2 DEF Touched
  <2>4. call'[c].todo = Touched(c)
    BY <1>a, <2>1 DEF Calls
  <2>5. call'[c].originals = call[c].originals /\ call'[c].status = "rolled-back"
    BY <1>a, <2>1 DEF Calls
  <2>6. QED
    BY <1>a, <1>f, <2>1, <2>2, <2>3, <2>4, <2>5 DEF Labels
<1>g. ASSUME NEW f, NEW files \in SUBSET Touched(c), NEW successor \in Labels \ {"count", "rollback"},
             Visit(c, f, files, successor), pc[c] # "idle"
      PROVE  CallTyped(c)'
  <2>1. CASE call[c].todo = {f}
    <3>1. pc'[c] = successor /\ call'[c] = [call[c] EXCEPT !.todo = files]
      BY <1>a, <1>g, <2>1 DEF Visit, GoTo
    <3>2. QED
      BY <1>a, <1>g, <3>1 DEF Labels, Calls, Touched
  <2>2. CASE call[c].todo # {f}
    <3>1. pc' = pc /\ call'[c] = [call[c] EXCEPT !.todo = @ \ {f}]
      BY <1>a, <1>g, <2>2 DEF Visit
    <3>2. QED
      BY <1>a, <1>g, <3>1 DEF Labels, Calls, Touched
  <2>3. QED
    BY <2>1, <2>2
<1>h. ASSUME RaiseFromTry(c), pc[c] # "idle"
      PROVE  CallTyped(c)'
  BY <1>e, <1>f, <1>h DEF RaiseFromTry
<1>1. ASSUME NEW e \in Proposals[c], Begin(c, e)
      PROVE  disk' \in Trees /\ head' \in Trees /\ CallTyped(c)'
  <2>1. e \in [Repo[c] -> Slots]
    BY DEF ProposalsAssumption
  <2>2. [f \in Repo[c] |-> disk[f]] \in [Repo[c] -> Contents]
    BY <1>a DEF Trees
  <2>3. /\ pc'[c] = "count"
        /\ call'[c] = [NoCall(c) EXCEPT !.edit = e, !.number = call[c].number + 1,
                                        !.originals = [f \in Repo[c] |-> disk[f]]]
    BY <1>a, <1>1 DEF Begin, GoTo
  <2>4. call'[c] = [edit |-> e, originals |-> [f \in Repo[c] |-> disk[f]], retries |-> 0,
                    todo |-> {}, status |-> "none", rescue |-> FALSE, number |-> call[c].number + 1]
    BY <2>3 DEF NoCall
  <2>5. call'[c] \in Calls(c)
    BY <1>a, <2>1, <2>2, <2>4 DEF Calls, Statuses
  <2>6. disk' = disk /\ head' = head
    BY <1>1 DEF Begin
  <2>7. QED
    <3>1. /\ call'[c].todo = {} /\ call'[c].status = "none"
          /\ call'[c].originals = [f \in Repo[c] |-> disk[f]]
      BY <2>4
    <3>2. QED
      BY <1>a, <2>2, <2>3, <2>5, <2>6, <3>1 DEF Labels
<1>2. CASE Count(c)
  <2>1. log \in Seq(Records)
    BY <1>2 DEF Count, ReadRaises, Typed, LogTyped
  <2>2. CountAttempts(PathsOf(c)) \in Nat
    BY <2>1, CountIsNat
  <2>3. /\ pc'[c] = "parse"
        /\ call'[c] = [call[c] EXCEPT !.retries = CountAttempts(PathsOf(c))]
    BY <1>a, <1>2 DEF Count, GoTo
  <2>4. QED
    BY <1>a, <1>2, <2>2, <2>3 DEF At, Count, Calls, Touched, Labels
<1>3. CASE CountRaises(c)
  <2>1. pc'[c] = "idle" /\ call' = call /\ disk' = disk /\ head' = head
    BY <1>a, <1>3 DEF CountRaises, GoTo
  <2>2. QED
    BY <1>a, <2>1 DEF Labels, Touched
<1>4. CASE Parse(c)
  <2>1. \/ pc'[c] = "write" /\ call'[c] = [call[c] EXCEPT !.todo = Touched(c)]
        \/ pc'[c] = "log" /\ call'[c] = [call[c] EXCEPT !.status = "rolled-back"]
    BY <1>a, <1>4 DEF Parse, GoTo
  <2>2. QED
    BY <1>a, <1>4, <2>1 DEF Parse, At, Calls, Touched, Labels, Statuses
<1>5. CASE BaselineRaises(c)
  BY <1>a, <1>5, <1>e DEF BaselineRaises
<1>6. ASSUME NEW f \in Repo[c], Write(c, f)
      PROVE  disk' \in Trees /\ head' \in Trees /\ CallTyped(c)'
  <2>1. Visit(c, f, Touched(c), "lint") /\ f \in Touched(c) /\ pc[c] # "idle"
    BY <1>a, <1>6 DEF Write, Visit, At
  <2>2. CallTyped(c)'
    BY <1>g, <2>1 DEF Labels
  <2>3. QED
    BY <1>a, <1>b, <1>d, <1>6, <2>1, <2>2 DEF Write
<1>7. ASSUME NEW f \in Repo[c], WriteRaises(c, f)
      PROVE  disk' \in Trees /\ head' \in Trees /\ CallTyped(c)'
  <2>1. disk[f] \in Contents
    BY <1>a DEF Trees
  <2>2. QED
    BY <1>a, <1>d, <1>e, <1>7, <2>1 DEF WriteRaises
<1>8. ASSUME NEW f \in Repo[c], Lint(c, f)
      PROVE  disk' \in Trees /\ head' \in Trees /\ CallTyped(c)'
  <2>1. PICK content \in Contents : Alter(f, content)
    BY <1>a, <1>8 DEF Lint, Trees
  <2>2. pc[c] # "idle" /\ (RollBack(c, FALSE) \/ Visit(c, f, Touched(c), "typecheck"))
    BY <1>8 DEF Lint, At
  <2>3. CallTyped(c)'
    BY <1>f, <1>g, <2>2 DEF Labels
  <2>4. QED
    BY <1>a, <1>d, <1>8, <2>1, <2>3 DEF Lint
<1>9. ASSUME NEW f \in Repo[c], Typecheck(c, f)
      PROVE  disk' \in Trees /\ head' \in Trees /\ CallTyped(c)'
  <2>1. pc[c] # "idle" /\ (RollBack(c, FALSE) \/ Visit(c, f, {}, "tests"))
    BY <1>9 DEF Typecheck, At
  <2>2. CallTyped(c)'
    BY <1>f, <1>g, <2>1 DEF Labels
  <2>3. QED
    BY <1>a, <1>9, <2>2 DEF Typecheck
<1>10. CASE RunTests(c)
  <2>1. CASE RollBack(c, FALSE)
    BY <1>a, <1>f, <1>10, <2>1 DEF RunTests, At
  <2>2. CASE GoTo(c, "commit") /\ UNCHANGED call
    <3>1. pc'[c] = "commit"
      BY <1>c, <2>2 DEF Labels
    <3>2. QED
      BY <1>a, <1>10, <2>2, <3>1 DEF RunTests, At, Labels, Touched
  <2>3. QED
    BY <1>10, <2>1, <2>2 DEF RunTests
<1>11. CASE GateCrashes(c)
  BY <1>a, <1>f, <1>11 DEF GateCrashes
<1>12. ASSUME NEW f \in Repo[c], Restore(c, f)
       PROVE  disk' \in Trees /\ head' \in Trees /\ CallTyped(c)'
  <2>1. Visit(c, f, {}, "log") /\ call[c].originals[f] \in Contents /\ pc[c] # "idle"
    BY <1>a, <1>12 DEF Restore, At
  <2>2. CallTyped(c)'
    BY <1>g, <2>1 DEF Labels
  <2>3. QED
    BY <1>a, <1>d, <1>12, <2>1, <2>2 DEF Restore
<1>13. ASSUME NEW f \in Repo[c], RestoreRaises(c, f)
       PROVE  disk' \in Trees /\ head' \in Trees /\ CallTyped(c)'
  <2>1. disk[f] \in Contents
    BY <1>a DEF Trees
  <2>2. QED
    BY <1>a, <1>d, <1>h, <1>13, <2>1 DEF RestoreRaises, At
<1>14. CASE Commit(c)
  <2>1. pc'[c] = "log" /\ call'[c] = [call[c] EXCEPT !.status = "committed"]
    BY <1>a, <1>14 DEF Commit, GoTo
  <2>2. head' \in Trees
    BY <1>a, <1>14 DEF Commit, Trees
  <2>3. QED
    BY <1>a, <1>14, <2>1, <2>2 DEF Commit, At, Calls, Touched, Labels, Statuses
<1>15. CASE Log(c)
  <2>1. (pc'[c] = "idle" \/ pc' = pc) /\ call' = call /\ disk' = disk /\ head' = head
    BY <1>a, <1>15 DEF Log, GoTo
  <2>2. QED
    BY <1>a, <2>1 DEF Touched, Labels
<1>16. CASE LogRaises(c)
  BY <1>a, <1>e, <1>h, <1>16 DEF LogRaises, At
<1>17. QED
  BY <1>1, <1>2, <1>3, <1>4, <1>5, <1>6, <1>7, <1>8, <1>9, <1>10, <1>11, <1>12, <1>13, <1>14,
     <1>15, <1>16 DEF Steps, Step, Fault

LEMMA InitTyped ==
  ASSUME WorktreesAssumption, ContentsAssumption
  PROVE  Init => Typed
<1> SUFFICES ASSUME Init PROVE Typed
  OBVIOUS
<1>1. \A c \in Clients : NoCall(c) \in Calls(c)
  BY DEF NoCall, Calls, Slots, Statuses, WorktreesAssumption
<1>2. CallsTyped
  BY <1>1 DEF Init, CallsTyped, NoCall, Touched, Labels, ContentsAssumption
<1>3. LogTyped
  <2>1. log \in Seq(Records)
    BY DEF Init, LogInit
  <2>2. /\ logBackend \in {"redis", "json"} /\ active \subseteq Clients /\ active # {}
        /\ DOMAIN held = Clients /\ \A c \in Clients : pc[c] = "idle" /\ call[c].status = "none"
    BY DEF Init, LogInit, NoCall
  <2>3. stage \in [Clients -> {"none", "read", "truncated"}] /\ \A c \in Clients : stage[c] = "none"
    BY DEF Init, LogInit
  <2>4. QED
    BY <2>1, <2>2, <2>3 DEF LogTyped
<1>4. QED
  BY <1>2, <1>3 DEF Typed

(* The record of a call. *)
LEMMA RecordTyped ==
  ASSUME WorktreesAssumption, Typed, NEW c \in Clients
  PROVE  EditRecord(c) \in Records
<1>1. call[c] \in Calls(c) /\ Touched(c) \subseteq Files
  BY DEF Typed, CallsTyped, Touched, WorktreesAssumption
<1>2. QED
  BY <1>1 DEF EditRecord, PathsOf, Records, Calls

LEMMA StepOfLog ==
  ASSUME WorktreesAssumption, Typed, NEW c \in Clients, Steps(c)
  PROVE  LogTyped'
<1> USE DEF Typed, LogTyped
<1>1. UNCHANGED <<logBackend, active>> /\ \A d \in Clients \ {c} : pc'[d] = pc[d] /\ call'[d] = call[d]
  BY StepFrame
<1>2. EditRecord(c) \in Records
  BY RecordTyped
<1>3. pc \in [Clients -> Labels] /\ (c \in active \/ (pc[c] = "idle" /\ stage[c] = "none"))
  BY DEF CallsTyped
<1>4. CASE Log(c)
  <2>1. pc[c] = "log" /\ c \in active
    BY <1>3, <1>4 DEF Log, At
  <2>2. CASE PushRecord(EditRecord(c)) /\ GoTo(c, "idle")
    BY <1>1, <1>2, <2>1, <2>2 DEF PushRecord, Appended
  <2>3. CASE FillState(c, EditRecord(c)) /\ GoTo(c, "idle")
    <3>1. log' \in Seq(Records)
      BY <1>2, <2>3 DEF FillState, Appended
    <3>2. QED
      BY <1>1, <1>3, <2>1, <2>3, <3>1 DEF FillState, GoTo
  <2>4. CASE (ReadState(c) \/ TruncateState(c)) /\ UNCHANGED pc
    BY <1>1, <2>1, <2>4 DEF ReadState, TruncateState
  <2>5. QED
    BY <1>4, <2>2, <2>3, <2>4 DEF Log
<1>5. CASE LogRaises(c)
  <2>1. pc[c] = "log" /\ c \in active
    BY <1>3, <1>5 DEF LogRaises, At
  <2>2. CASE PushRecord(EditRecord(c))
    BY <1>1, <1>2, <2>1, <2>2 DEF PushRecord, Appended
  <2>3. CASE FillRaises(c)
    BY <1>1, <2>1, <2>3 DEF FillRaises
  <2>4. CASE UNCHANGED storage /\ stage[c] = "none"
    BY <1>1, <2>1, <2>4 DEF storage
  <2>5. QED
    BY <1>5, <2>2, <2>3, <2>4 DEF LogRaises
<1>6. ASSUME UNCHANGED storage, pc[c] # "log", c \in active
      PROVE  LogTyped'
  BY <1>1, <1>6 DEF storage
<1>7. CASE ~Log(c) /\ ~LogRaises(c)
  <2>1. UNCHANGED storage /\ pc[c] # "log" /\ c \in active
    BY <1>3, <1>7 DEF Steps, Step, Fault, Begin, Count, CountRaises, Parse, RunTests, Commit, Write,
              Lint, Typecheck, Restore, BaselineRaises, GateCrashes, WriteRaises, RestoreRaises, At
  <2>2. QED
    BY <1>6, <2>1
<1>8. QED
  BY <1>4, <1>5, <1>7

LEMMA NextTyped ==
  ASSUME WorktreesAssumption, ContentsAssumption, ProposalsAssumption
  PROVE  Typed /\ [Next]_vars => Typed'
<1> SUFFICES ASSUME Typed, [Next]_vars PROVE Typed'
  OBVIOUS
<1>1. ASSUME NEW c \in Clients, Steps(c)
      PROVE  Typed'
  <2>1. CallTyped(c)' /\ disk' \in Trees /\ head' \in Trees
    BY <1>1, StepOfCall
  <2>2. /\ DOMAIN pc' = Clients /\ \A d \in Clients \ {c} : pc'[d] = pc[d]
        /\ DOMAIN call' = Clients /\ \A d \in Clients \ {c} : call'[d] = call[d]
    BY <1>1, StepFrame
  <2>3. \A d \in Clients \ {c} : CallTyped(d)'
    BY <2>2 DEF Typed, CallsTyped, CallTyped, Touched, Labels
  <2>4. pc' = [d \in Clients |-> pc'[d]]
    BY <1>1 DEF Steps, Step, Fault, Begin, Count, CountRaises, Parse, RunTests, Commit, Write, Log,
              Lint, Typecheck, Restore, BaselineRaises, GateCrashes, WriteRaises, RestoreRaises,
              LogRaises, RaiseFromTry, RollBack, Leave, Visit, GoTo, Typed, CallsTyped
  <2>5. CallsTyped'
    BY <2>1, <2>2, <2>3, <2>4 DEF CallsTyped, CallTyped
  <2>6. QED
    BY <1>1, <2>5, StepOfLog DEF Typed
<1>2. CASE UNCHANGED vars
  BY <1>2 DEF vars, storage, Typed, CallsTyped, LogTyped, Touched
<1>3. QED
  BY <1>1, <1>2 DEF Next, Steps
-----------------------------------------------------------------------------
(* What the gates a call has passed have established of its worktree. *)
LintClean(c, f) ==
  f \in Python => Violations[disk[f]] <= Violations[call[c].originals[f]]
TypeClean(c, f) == f \in Python => TypeErrors(f, disk) <= TypeErrors(f, Before(c))
Landed(c, f) == disk[f] = Settled(f, call[c].edit[f]) /\ LintClean(c, f)

Inspected(c) ==
  /\ pc[c] \in {"write", "lint", "typecheck", "tests", "commit"} \/ Decided(c, "committed") =>
       Parsed(c)
  /\ pc[c] = "write" => \A f \in Touched(c) \ call[c].todo : disk[f] = call[c].edit[f]
  /\ pc[c] = "lint" => \A f \in Touched(c) :
       IF f \in call[c].todo THEN disk[f] = call[c].edit[f] ELSE Landed(c, f)
  /\ pc[c] \in {"typecheck", "tests", "commit"} \/ Decided(c, "committed") =>
       \A f \in Touched(c) : Landed(c, f)
  /\ pc[c] = "typecheck" => \A f \in Touched(c) \ call[c].todo : TypeClean(c, f)
  /\ pc[c] \in {"tests", "commit"} \/ Decided(c, "committed") =>
       \A f \in Touched(c) : TypeClean(c, f)
  /\ pc[c] = "commit" \/ Decided(c, "committed") => TestsPass(c, disk)
  /\ Decided(c, "committed") => \A f \in Touched(c) : head[f] = disk[f]

(* No step of another client disturbs what a call has established: the gates
   see the worktree of the call only, and the worktrees are disjoint. *)
LEMMA OthersKeepInspected ==
  ASSUME WorktreesAssumption, ContentsAssumption, Typed, Typed', NEW c \in Clients, Inspected(c),
         \A f \in Repo[c] : disk'[f] = disk[f] /\ head'[f] = head[f],
         pc'[c] = pc[c], call'[c] = call[c]
  PROVE  Inspected(c)'
<1>1. /\ Touched(c)' = Touched(c) /\ Touched(c) \subseteq Repo[c] /\ Repo[c] \subseteq Files
      /\ Parsed(c)' = Parsed(c) /\ Decided(c, "committed")' = Decided(c, "committed")
  BY DEF Touched, Parsed, Gated, Decided, WorktreesAssumption
<1>2. ASSUME pc[c] # "idle" \/ call[c].status # "none"
      PROVE  /\ Before(c) \in Trees /\ Before(c)' \in Trees
             /\ disk \in Trees /\ disk' \in Trees
  <2>1. /\ call[c].originals \in [Repo[c] -> Contents]
        /\ disk \in Trees /\ disk' \in Trees
    BY <1>2 DEF Typed, CallsTyped
  <2>2. QED
    BY <2>1 DEF Before, Trees
<1>3. ASSUME pc[c] # "idle" \/ call[c].status # "none", NEW f \in Touched(c)
      PROVE  /\ LintClean(c, f)' = LintClean(c, f) /\ Landed(c, f)' = Landed(c, f)
             /\ TypeClean(c, f)' = TypeClean(c, f)
             /\ TestsPass(c, disk') = TestsPass(c, disk)
             /\ disk'[f] = disk[f] /\ head'[f] = head[f]
  <2>1. \A g \in Repo[c] : disk'[g] = disk[g] /\ Before(c)'[g] = Before(c)[g]
    BY <1>1 DEF Before
  <2>2. TypeErrors(f, disk') = TypeErrors(f, disk) /\ TestsPass(c, disk') = TestsPass(c, disk)
    BY <1>1, <1>2, <1>3, <2>1 DEF WorktreesAssumption
  <2>3. TypeErrors(f, Before(c)') = TypeErrors(f, Before(c))
    BY <1>1, <1>2, <1>3, <2>1 DEF WorktreesAssumption
  <2>4. QED
    BY <1>1, <1>3, <2>1, <2>2, <2>3 DEF LintClean, Landed, Settled, TypeClean
<1>4. ASSUME pc[c] # "idle" \/ call[c].status # "none"
      PROVE  TestsPass(c, disk') = TestsPass(c, disk)
  BY <1>1, <1>2, <1>4 DEF WorktreesAssumption
<1>5. QED
  BY <1>1, <1>3, <1>4 DEF Inspected, Decided

LEMMA StepKeepsInspected ==
  ASSUME WorktreesAssumption, ContentsAssumption, Typed, Typed', NEW c \in Clients, Inspected(c),
         Steps(c)
  PROVE  Inspected(c)'
<1>a. /\ disk \in Trees /\ disk' \in Trees /\ pc \in [Clients -> Labels] /\ DOMAIN call = Clients
      /\ call[c] \in Calls(c) /\ call'[c] \in Calls(c)
      /\ call[c].todo \subseteq Touched(c) /\ Touched(c) \subseteq Repo[c] /\ Repo[c] \subseteq Files
      /\ pc[c] # "idle" => call[c].originals \in [Repo[c] -> Contents]
      /\ pc[c] = "rollback" => call[c].status = "rolled-back"
      /\ pc[c] = "count" => call[c].status = "none"
  BY DEF Typed, CallsTyped, Touched, WorktreesAssumption
<1>b. \A f \in Touched(c) : call[c].edit[f] \in Contents
  BY <1>a DEF Touched, Calls, Slots
<1>c. ASSUME pc'[c] \in {"count", "parse", "rollback", "idle", "log"}, call'[c].status # "committed"
      PROVE  Inspected(c)'
  BY <1>c DEF Inspected, Decided
<1>d. ASSUME Leave(c) \/ \E handler \in BOOLEAN : RollBack(c, handler)
      PROVE  Inspected(c)'
  <2>1. CASE Leave(c)
    <3>1. pc'[c] = "idle" /\ call'[c].status = "none"
      BY <1>a, <2>1 DEF Leave, GoTo, Calls
    <3>2. QED
      BY <1>c, <3>1
  <2>2. ASSUME NEW handler \in BOOLEAN, RollBack(c, handler)
        PROVE  Inspected(c)'
    <3>1. pc'[c] = "rollback"
      BY <1>a, <2>2 DEF RollBack, GoTo
    <3>2. QED
      BY <3>1 DEF Inspected, Decided
  <2>3. QED
    BY <1>d, <2>1, <2>2
<1>e. ASSUME call'[c].edit = call[c].edit, call'[c].originals = call[c].originals
      PROVE  Touched(c)' = Touched(c) /\ Gated(c)' = Gated(c) /\ Parsed(c)' = Parsed(c)
  BY <1>e DEF Touched, Gated, Parsed
<1>f. ASSUME call'[c].originals = call[c].originals, call'[c].edit = call[c].edit, disk' = disk
      PROVE  \A f \in Files : /\ LintClean(c, f)' = LintClean(c, f) /\ Landed(c, f)' = Landed(c, f)
                              /\ TypeClean(c, f)' = TypeClean(c, f)
  BY <1>f DEF LintClean, Landed, TypeClean, Settled, Before
<1>g. ASSUME NEW f, NEW files, NEW successor, Visit(c, f, files, successor)
      PROVE  /\ call'[c].edit = call[c].edit /\ call'[c].originals = call[c].originals
             /\ call'[c].status = call[c].status
             /\ \/ pc'[c] = pc[c] /\ call'[c].todo = call[c].todo \ {f}
                \/ pc'[c] = successor /\ call[c].todo = {f} /\ call'[c].todo = files
  BY <1>a, <1>g DEF Visit, GoTo, Calls
<1>h. ASSUME NEW f \in Repo[c], NEW content, Alter(f, content)
      PROVE  disk'[f] = content /\ \A g \in Files \ {f} : disk'[g] = disk[g]
  BY <1>a, <1>h DEF Alter, Trees
<1>1. ASSUME NEW e \in Proposals[c], Begin(c, e)
      PROVE  Inspected(c)'
  <2>1. pc'[c] = "count"
    BY <1>a, <1>1 DEF Begin, GoTo
  <2>2. QED
    BY <2>1 DEF Inspected, Decided
<1>2. CASE Count(c)
  <2>1. pc'[c] = "parse"
    BY <1>a, <1>2 DEF Count, GoTo
  <2>2. QED
    BY <2>1 DEF Inspected, Decided
<1>3. CASE CountRaises(c)
  <2>1. pc'[c] = "idle" /\ call'[c].status = "none"
    BY <1>a, <1>3 DEF CountRaises, GoTo, At
  <2>2. QED
    BY <1>c, <2>1
<1>4. CASE Parse(c)
  <2>1. CASE Parsed(c)
    <3>1. /\ pc'[c] = "write" /\ call'[c].edit = call[c].edit
          /\ call'[c].originals = call[c].originals /\ call'[c].todo = Touched(c)
      BY <1>a, <1>4, <2>1 DEF Parse, GoTo, Calls
    <3>2. QED
      BY <1>e, <2>1, <3>1 DEF Inspected, Decided
  <2>2. CASE ~Parsed(c)
    <3>1. pc'[c] = "log" /\ call'[c].status = "rolled-back"
      BY <1>a, <1>4, <2>2 DEF Parse, GoTo, Calls
    <3>2. QED
      BY <1>c, <3>1
  <2>3. QED
    BY <2>1, <2>2
<1>5. CASE BaselineRaises(c) \/ GateCrashes(c)
  BY <1>5, <1>d DEF BaselineRaises, GateCrashes
<1>6. ASSUME NEW f \in Repo[c], Write(c, f)
      PROVE  Inspected(c)'
  <2>1. \A g \in Touched(c) \ (call[c].todo \ {f}) : disk'[g] = call[c].edit[g]
    BY <1>a, <1>h, <1>6 DEF Write, Inspected, At
  <2>2. pc[c] = "write" /\ Parsed(c)
    BY <1>6 DEF Write, Inspected, At
  <2>3. /\ call'[c].edit = call[c].edit /\ call'[c].originals = call[c].originals
        /\ \/ pc'[c] = "write" /\ call'[c].todo = call[c].todo \ {f}
           \/ pc'[c] = "lint" /\ call[c].todo = {f} /\ call'[c].todo = Touched(c)
    BY <1>g, <1>6, <2>2 DEF Write
  <2>4. QED
    BY <1>e, <2>1, <2>2, <2>3 DEF Inspected, Decided
<1>7. ASSUME NEW f \in Repo[c], WriteRaises(c, f)
      PROVE  Inspected(c)'
  BY <1>7, <1>d DEF WriteRaises
<1>8. ASSUME NEW f \in Repo[c], Lint(c, f)
      PROVE  Inspected(c)'
  <2>1. CASE RollBack(c, FALSE)
    BY <1>d, <2>1
  <2>2. CASE ~RollBack(c, FALSE)
    <3>1. pc[c] = "lint" /\ Parsed(c) /\ f \in call[c].todo /\ disk[f] = call[c].edit[f]
      BY <1>a, <1>8 DEF Lint, Inspected, At
    <3>2. Alter(f, Settled(f, call[c].edit[f])) /\ Visit(c, f, Touched(c), "typecheck")
      BY <1>8, <2>2, <3>1 DEF Lint, Settled
    <3>3. disk'[f] = Settled(f, call[c].edit[f]) /\ \A g \in Files \ {f} : disk'[g] = disk[g]
      BY <1>h, <3>2
    <3>4. /\ call'[c].edit = call[c].edit /\ call'[c].originals = call[c].originals
          /\ \/ pc'[c] = "lint" /\ call'[c].todo = call[c].todo \ {f}
             \/ pc'[c] = "typecheck" /\ call[c].todo = {f} /\ call'[c].todo = Touched(c)
      BY <1>g, <3>1, <3>2
    <3>5. Landed(c, f)'
      <4>1. ASSUME f \in Python
            PROVE  ~(Violations[disk'[f]] > Violations[call[c].originals[f]])
        BY <1>8, <2>2, <3>1, <3>3, <4>1 DEF Lint, Settled
      <4>2. call[c].originals[f] \in Contents /\ disk'[f] \in Contents
        BY <1>a, <3>1 DEF Trees
      <4>3. ASSUME f \in Python
            PROVE  Violations[disk'[f]] <= Violations[call[c].originals[f]]
        BY <4>1, <4>2, <4>3 DEF ContentsAssumption
      <4>4. QED
        BY <3>3, <3>4, <4>3 DEF Landed, LintClean, Settled
    <3>6. \A g \in Touched(c) \ {f} : Landed(c, g) => Landed(c, g)'
      BY <1>a, <3>3, <3>4 DEF Landed, LintClean, Settled
    <3>7. Touched(c)' = Touched(c) /\ Parsed(c)'
      BY <1>e, <3>1, <3>4
    <3>8. \A g \in Touched(c) : IF g \in call[c].todo \ {f} THEN disk'[g] = call'[c].edit[g]
                                ELSE Landed(c, g)'
      BY <1>a, <3>1, <3>3, <3>4, <3>5, <3>6 DEF Inspected
    <3>9. QED
      BY <3>4, <3>7, <3>8 DEF Inspected, Decided
  <2>3. QED
    BY <2>1, <2>2
<1>9. ASSUME NEW f \in Repo[c], Typecheck(c, f)
      PROVE  Inspected(c)'
  <2>1. CASE RollBack(c, FALSE)
    BY <1>d, <2>1
  <2>2. CASE ~RollBack(c, FALSE)
    <3>1. pc[c] = "typecheck" /\ Parsed(c) /\ f \in call[c].todo /\ disk' = disk
      BY <1>9 DEF Typecheck, Inspected, At
    <3>2. Visit(c, f, {}, "tests")
      BY <1>9, <2>2 DEF Typecheck
    <3>3. /\ call'[c].edit = call[c].edit /\ call'[c].originals = call[c].originals
          /\ \/ pc'[c] = "typecheck" /\ call'[c].todo = call[c].todo \ {f}
             \/ pc'[c] = "tests" /\ call[c].todo = {f}
      BY <1>g, <3>1, <3>2
    <3>4. TypeClean(c, f)
      <4>1. Before(c) \in Trees
        BY <1>a, <3>1 DEF Before, Trees
      <4>2. TypeErrors(f, disk) \in Nat /\ TypeErrors(f, Before(c)) \in Nat
        BY <1>a, <4>1 DEF ContentsAssumption
      <4>3. f \in Python => ~(TypeErrors(f, disk) > TypeErrors(f, Before(c)))
        BY <1>9, <2>2 DEF Typecheck
      <4>4. QED
        BY <4>2, <4>3 DEF TypeClean
    <3>5. Touched(c)' = Touched(c) /\ Parsed(c)'
      BY <1>e, <3>1, <3>3
    <3>6. \A g \in Touched(c) : Landed(c, g)' /\ (g \notin call[c].todo \ {f} => TypeClean(c, g)')
      BY <1>a, <1>f, <3>1, <3>3, <3>4 DEF Inspected
    <3>7. QED
      BY <3>3, <3>5, <3>6 DEF Inspected, Decided
  <2>3. QED
    BY <2>1, <2>2
<1>10. CASE RunTests(c)
  <2>1. CASE RollBack(c, FALSE)
    BY <1>d, <2>1
  <2>2. CASE ~RollBack(c, FALSE)
    <3>1. /\ pc[c] = "tests" /\ pc'[c] = "commit" /\ call' = call /\ disk' = disk
          /\ TestsPass(c, disk)
      BY <1>a, <1>10, <2>2 DEF RunTests, At, GoTo
    <3>2. Touched(c)' = Touched(c) /\ Parsed(c)' = Parsed(c)
      BY <1>e, <3>1
    <3>3. \A g \in Touched(c) : Landed(c, g)' /\ TypeClean(c, g)'
      BY <1>a, <1>f, <3>1 DEF Inspected
    <3>4. QED
      BY <3>1, <3>2, <3>3 DEF Inspected, Decided
  <2>3. QED
    BY <2>1, <2>2
<1>11. ASSUME NEW f \in Repo[c], Restore(c, f)
       PROVE  Inspected(c)'
  <2>1. pc[c] = "rollback" /\ Visit(c, f, {}, "log")
    BY <1>11 DEF Restore, At
  <2>2. pc'[c] \in {"rollback", "log"} /\ call'[c].status # "committed"
    BY <1>a, <1>g, <2>1
  <2>3. QED
    BY <1>c, <2>2
<1>12. ASSUME NEW f \in Repo[c], RestoreRaises(c, f)
       PROVE  Inspected(c)'
  BY <1>12, <1>d DEF RestoreRaises, RaiseFromTry
<1>13. CASE Commit(c)
  <2>1. /\ pc[c] = "commit" /\ pc'[c] = "log" /\ disk' = disk
        /\ call'[c].edit = call[c].edit /\ call'[c].originals = call[c].originals
    BY <1>a, <1>13 DEF Commit, At, GoTo, Calls
  <2>2. \A f \in Touched(c) : head'[f] = disk[f]
    BY <1>a, <1>13 DEF Commit
  <2>3. Touched(c)' = Touched(c) /\ Parsed(c)' = Parsed(c)
    BY <1>e, <2>1
  <2>4. \A g \in Touched(c) : Landed(c, g)' /\ TypeClean(c, g)'
    BY <1>a, <1>f, <2>1 DEF Inspected
  <2>5. QED
    BY <2>1, <2>2, <2>3, <2>4 DEF Inspected, Decided
<1>14. CASE Log(c)
  <2>1. pc[c] = "log" /\ pc'[c] \in {"log", "idle"} /\ UNCHANGED <<disk, head, call>>
    BY <1>a, <1>14 DEF Log, At, GoTo
  <2>2. Touched(c)' = Touched(c) /\ Parsed(c)' = Parsed(c)
    BY <1>e, <2>1
  <2>3. \A g \in Touched(c) : /\ Landed(c, g)' = Landed(c, g) /\ TypeClean(c, g)' = TypeClean(c, g)
    BY <1>a, <1>f, <2>1
  <2>4. QED
    BY <2>1, <2>2, <2>3 DEF Inspected, Decided
<1>15. CASE LogRaises(c)
  BY <1>15, <1>d DEF LogRaises, RaiseFromTry
<1>16. QED
  BY <1>1, <1>2, <1>3, <1>4, <1>5, <1>6, <1>7, <1>8, <1>9, <1>10, <1>11, <1>12, <1>13, <1>14,
     <1>15 DEF Steps, Step, Fault

LEMMA NextInspected ==
  ASSUME WorktreesAssumption, ContentsAssumption, ProposalsAssumption
  PROVE  Typed /\ (\A c \in Clients : Inspected(c)) /\ [Next]_vars =>
           (\A c \in Clients : Inspected(c))'
<1> SUFFICES ASSUME Typed, \A c \in Clients : Inspected(c), [Next]_vars, NEW c \in Clients
             PROVE  Inspected(c)'
  OBVIOUS
<1>1. Typed'
  BY NextTyped
<1>2. CASE UNCHANGED vars
  BY <1>1, <1>2, OthersKeepInspected DEF vars
<1>3. ASSUME NEW d \in Clients, Steps(d)
      PROVE  Inspected(c)'
  <2>1. CASE d = c
    BY <1>1, <1>3, <2>1, StepKeepsInspected
  <2>2. CASE d # c
    <3>1. \A f \in Repo[c] : f \in Files \ Repo[d]
      BY <2>2 DEF WorktreesAssumption
    <3>2. /\ \A f \in Repo[c] : disk'[f] = disk[f] /\ head'[f] = head[f]
          /\ pc'[c] = pc[c] /\ call'[c] = call[c]
      BY <1>3, <2>2, <3>1, StepFrame
    <3>3. QED
      BY <1>1, <3>2, OthersKeepInspected
  <2>3. QED
    BY <2>1, <2>2
<1>4. QED
  BY <1>2, <1>3 DEF Next, Steps

(* However many processes are at work beside it, a call that reports a commit
   has passed every gate in the very tree it committed. *)
THEOREM CommitIsGated ==
  ASSUME WorktreesAssumption, ContentsAssumption, ProposalsAssumption
  PROVE  Spec => []CommittedMeansGated
<1>1. Init => \A c \in Clients : Inspected(c)
  BY DEF Init, Inspected, Decided, NoCall
<1>2. (\A c \in Clients : Inspected(c)) => CommittedMeansGated
  BY DEF Inspected, CommittedMeansGated, Landed, LintClean, TypeClean, Parsed, Gated
<1>3. QED
  BY <1>1, <1>2, InitTyped, NextTyped, NextInspected, PTL DEF Spec
-----------------------------------------------------------------------------
(* A log is sound when every record in it counts no more than the failures
   before it and no less than those its process knew, no record is of a call
   that has yet to begin counting, and what a call in flight has counted lies
   between the same bounds. *)
Failures(records, files) ==
  {j \in DOMAIN records : records[j].status # "committed" /\ records[j].files \cap files # {}}
FilesOf(calls, c) == {PathOf[f] : f \in {g \in Repo[c] : calls[c].edit[g] # Absent}}
CountedBy(records, calls, c) ==
  {j \in Failures(records, FilesOf(calls, c)) :
     ~(records[j].client = c /\ records[j].number = calls[c].number)}
KnownTo(records, calls, c) ==
  {j \in CountedBy(records, calls, c) :
     \E k \in DOMAIN records :
       k >= j /\ records[k].client = c /\ records[k].number # calls[c].number}
Counting(label) == label \notin {"idle", "count"}
Between(low, n, high) == Cardinality(low) <= n /\ n <= Cardinality(high)

Earlier(records, i) ==
  {j \in 1 .. i - 1 : /\ records[j].status # "committed"
                      /\ records[j].files \cap records[i].files # {}
                      /\ ~IsCopyOf(records[j], records[i])}
KnownEarlier(records, i) ==
  {j \in Earlier(records, i) :
     \E k \in j .. i - 1 :
       records[k].client = records[i].client /\ ~IsCopyOf(records[k], records[i])}

Sound(records, calls, labels) ==
  /\ records \in Seq(Records)
  /\ \A i \in DOMAIN records :
       /\ records[i].number <= calls[records[i].client].number
       /\ labels[records[i].client] = "count" =>
            records[i].number < calls[records[i].client].number
       /\ Between(KnownEarlier(records, i), records[i].retries, Earlier(records, i))
  /\ \A c \in Clients : Counting(labels[c]) =>
       Between(KnownTo(records, calls, c), calls[c].retries, CountedBy(records, calls, c))

(* A call is in the log once it has returned. *)
Logged ==
  \A c \in Clients : At(c, "idle") /\ call[c].status # "none" =>
    \E i \in DOMAIN log : log[i] = EditRecord(c)

(* What holds of the log unless two processes share one JSON file: whatever
   can be read or written back is sound, and the copy in hand is the log. *)
LogInvariant ==
  ~SharedFile =>
    /\ logBackend = "redis" \/ log # Torn => Sound(log, call, pc) /\ Logged
    /\ \A c \in Clients : stage[c] # "none" => Sound(held[c], call, pc)

(* A larger set has no smaller cardinality. *)
LEMMA MoreIsCounted ==
  ASSUME NEW n \in Nat, NEW large \in SUBSET (1 .. n), NEW small \in SUBSET large
  PROVE  Cardinality(small) <= Cardinality(large) /\ Cardinality(small) \in Nat
           /\ Cardinality(large) \in Nat
<1>1. IsFiniteSet(large)
  <2>1. IsFiniteSet(1 .. n)
    BY FS_Interval
  <2>2. QED
    BY <2>1, FS_Subset
<1>2. IsFiniteSet(small)
  BY <1>1, FS_Subset
<1>3. QED
  BY <1>1, <1>2, FS_CardinalityType, FS_Subset

(* What a call has counted stays between its bounds when a record is appended:
   another client's adds to the upper one only, its own to neither. *)
LEMMA AppendKeepsBounds ==
  ASSUME Typed, NEW records \in Seq(Records), NEW c \in Clients, NEW d \in Clients,
         Between(KnownTo(records, call, d), call[d].retries, CountedBy(records, call, d))
  PROVE  LET longer == Append(records, EditRecord(c))
         IN  Between(KnownTo(longer, call, d), call[d].retries, CountedBy(longer, call, d))
<1>1. DEFINE longer == Append(records, EditRecord(c))
<1>2. /\ Len(records) \in Nat
      /\ DOMAIN longer = 1 .. Len(records) + 1 /\ DOMAIN records = 1 .. Len(records)
      /\ \A i \in 1 .. Len(records) : longer[i] = records[i]
      /\ longer[Len(records) + 1] = EditRecord(c)
  OBVIOUS
<1>3. EditRecord(c).client = c /\ EditRecord(c).number = call[c].number /\ call[d].retries \in Nat
  BY DEF EditRecord, Typed, CallsTyped, Calls
<1> HIDE DEF longer
<1>4. CountedBy(records, call, d) \subseteq CountedBy(longer, call, d)
  BY <1>2 DEF CountedBy, Failures
<1>5. KnownTo(longer, call, d) \subseteq KnownTo(records, call, d)
  <2>1. SUFFICES ASSUME NEW j \in CountedBy(longer, call, d), NEW k \in DOMAIN longer, k >= j,
                        longer[k].client = d, longer[k].number # call[d].number
                 PROVE  j \in KnownTo(records, call, d)
    BY DEF KnownTo
  <2>2. k \in 1 .. Len(records)
    BY <1>2, <1>3, <2>1
  <2>3. j \in 1 .. Len(records)
    BY <1>2, <2>1, <2>2 DEF CountedBy, Failures
  <2>4. j \in CountedBy(records, call, d)
    BY <1>2, <2>3 DEF CountedBy, Failures
  <2>5. QED
    BY <1>2, <2>1, <2>2, <2>4 DEF KnownTo
<1>6. /\ CountedBy(longer, call, d) \in SUBSET (1 .. Len(records) + 1) /\ Len(records) + 1 \in Nat
      /\ KnownTo(records, call, d) \in SUBSET (1 .. Len(records) + 1)
      /\ CountedBy(records, call, d) \in SUBSET CountedBy(longer, call, d)
      /\ KnownTo(longer, call, d) \in SUBSET KnownTo(records, call, d)
  BY <1>2, <1>4, <1>5 DEF KnownTo, CountedBy, Failures
<1>7. /\ Cardinality(CountedBy(records, call, d)) <= Cardinality(CountedBy(longer, call, d))
      /\ Cardinality(CountedBy(records, call, d)) \in Nat /\ Cardinality(CountedBy(longer, call, d)) \in Nat
  BY <1>6, MoreIsCounted
<1>8. /\ Cardinality(KnownTo(longer, call, d)) <= Cardinality(KnownTo(records, call, d))
      /\ Cardinality(KnownTo(longer, call, d)) \in Nat /\ Cardinality(KnownTo(records, call, d)) \in Nat
  BY <1>6, MoreIsCounted
<1>9. Between(KnownTo(longer, call, d), call[d].retries, CountedBy(longer, call, d))
  BY <1>3, <1>7, <1>8 DEF Between
<1>10. QED
  BY <1>9 DEF longer

(* The record of a call that is about to log keeps a log sound: it counts
   between what it knew and what the log holds by now. *)
LEMMA AppendSound ==
  ASSUME WorktreesAssumption, Typed, NEW records, Sound(records, call, pc), NEW c \in Clients, pc[c] = "log"
  PROVE  Sound(Append(records, EditRecord(c)), call, pc)
<1>1. DEFINE longer == Append(records, EditRecord(c))
<1>2. /\ longer \in Seq(Records) /\ Len(records) \in Nat
      /\ DOMAIN longer = 1 .. Len(records) + 1 /\ DOMAIN records = 1 .. Len(records)
      /\ \A i \in 1 .. Len(records) : longer[i] = records[i]
      /\ longer[Len(records) + 1] = EditRecord(c)
  BY RecordTyped DEF Sound
<1>3. /\ EditRecord(c).client = c /\ EditRecord(c).number = call[c].number
      /\ EditRecord(c).files = FilesOf(call, c)
      /\ EditRecord(c).status = call[c].status /\ EditRecord(c).retries = call[c].retries
      /\ call[c].number \in Nat
  BY DEF EditRecord, PathsOf, Touched, FilesOf, Typed, CallsTyped, Calls
<1>4. \A d \in Clients : Counting(pc[d]) =>
        Between(KnownTo(longer, call, d), call[d].retries, CountedBy(longer, call, d))
  BY AppendKeepsBounds DEF Sound
<1> HIDE DEF longer
<1>5. ASSUME NEW i \in 1 .. Len(records)
      PROVE  /\ Earlier(longer, i) = Earlier(records, i)
             /\ KnownEarlier(longer, i) = KnownEarlier(records, i)
  <2>1. longer[i] = records[i] /\ \A j \in 1 .. i - 1 : longer[j] = records[j]
    BY <1>2
  <2>2. Earlier(longer, i) = Earlier(records, i) /\ Earlier(records, i) \subseteq 1 .. i - 1
    BY <2>1 DEF Earlier
  <2>3. \A j \in Earlier(records, i) : \A k \in j .. i - 1 : longer[k] = records[k]
    BY <2>1, <2>2
  <2>4. QED
    BY <2>1, <2>2, <2>3 DEF KnownEarlier
<1>6. /\ CountedBy(records, call, c) = Earlier(longer, Len(records) + 1)
      /\ KnownTo(records, call, c) = KnownEarlier(longer, Len(records) + 1)
  <2>1. (Len(records) + 1) - 1 = Len(records)
    BY <1>2
  <2>2. CountedBy(records, call, c) = Earlier(longer, Len(records) + 1)
    BY <1>2, <1>3, <2>1 DEF CountedBy, Failures, Earlier, IsCopyOf
  <2>3. \A j \in CountedBy(records, call, c) :
          (\E k \in DOMAIN records :
             k >= j /\ records[k].client = c /\ records[k].number # call[c].number)
          <=> (\E k \in j .. (Len(records) + 1) - 1 :
                 /\ longer[k].client = longer[Len(records) + 1].client
                 /\ ~IsCopyOf(longer[k], longer[Len(records) + 1]))
    <3>1. CountedBy(records, call, c) \subseteq 1 .. Len(records)
      BY <1>2 DEF CountedBy, Failures
    <3>2. QED
      BY <1>2, <1>3, <2>1, <3>1 DEF IsCopyOf
  <2>4. QED
    BY <2>2, <2>3 DEF KnownTo, KnownEarlier
<1>7. ASSUME NEW i \in DOMAIN longer
      PROVE  /\ longer[i].number <= call[longer[i].client].number
             /\ pc[longer[i].client] = "count" =>
                  longer[i].number < call[longer[i].client].number
             /\ Between(KnownEarlier(longer, i), longer[i].retries, Earlier(longer, i))
  <2>1. CASE i \in 1 .. Len(records)
    BY <1>2, <1>5, <2>1 DEF Sound
  <2>2. CASE i = Len(records) + 1
    <3>1. Between(KnownTo(records, call, c), call[c].retries, CountedBy(records, call, c))
      BY DEF Sound, Counting
    <3>2. longer[i] = EditRecord(c)
      BY <1>2, <2>2
    <3>3. QED
      BY <1>3, <1>6, <2>2, <3>1, <3>2
  <2>3. QED
    BY <1>2, <1>7, <2>1, <2>2
<1>8. Sound(longer, call, pc)
  BY <1>2, <1>4, <1>7 DEF Sound
<1>9. QED
  BY <1>8 DEF longer

(* Only Begin and Count change what a call says of itself to the log. *)
LEMMA CallKeepsIdentity ==
  ASSUME WorktreesAssumption, Typed, NEW c \in Clients, Step(c) \/ Fault(c), ~Count(c)
  PROVE  /\ call'[c].edit = call[c].edit /\ call'[c].number = call[c].number
         /\ call'[c].retries = call[c].retries
         /\ pc'[c] # "count" /\ (Counting(pc'[c]) => Counting(pc[c]))
<1>a. pc \in [Clients -> Labels] /\ DOMAIN call = Clients /\ call[c] \in Calls(c)
  BY DEF Typed, CallsTyped
<1> USE DEF Counting
<1>1. ASSUME Leave(c)
      PROVE  /\ call'[c].edit = call[c].edit /\ call'[c].number = call[c].number
             /\ call'[c].retries = call[c].retries /\ pc'[c] = "idle"
  BY <1>a, <1>1 DEF Leave, GoTo, Calls
<1>2. ASSUME NEW handler, RollBack(c, handler)
      PROVE  /\ call'[c].edit = call[c].edit /\ call'[c].number = call[c].number
             /\ call'[c].retries = call[c].retries /\ pc'[c] = "rollback"
  BY <1>a, <1>2 DEF RollBack, GoTo, Calls
<1>3. ASSUME NEW f, NEW files, NEW successor, Visit(c, f, files, successor)
      PROVE  /\ call'[c].edit = call[c].edit /\ call'[c].number = call[c].number
             /\ call'[c].retries = call[c].retries /\ pc'[c] \in {pc[c], successor}
  BY <1>a, <1>3 DEF Visit, GoTo, Calls
<1>4. CASE CountRaises(c)
  BY <1>a, <1>4 DEF CountRaises, GoTo
<1>5. CASE Parse(c)
  BY <1>a, <1>5 DEF Parse, GoTo, At, Calls
<1>6. CASE RunTests(c)
  <2>1. CASE GoTo(c, "commit") /\ UNCHANGED call
    BY <1>a, <1>6, <2>1 DEF RunTests, At, GoTo
  <2>2. QED
    BY <1>2, <1>6, <2>1 DEF RunTests, At
<1>7. CASE Commit(c)
  BY <1>a, <1>7 DEF Commit, GoTo, At, Calls
<1>8. CASE Log(c)
  BY <1>a, <1>8 DEF Log, GoTo, At
<1>9. ASSUME NEW f \in Repo[c], Write(c, f) \/ Lint(c, f) \/ Typecheck(c, f) \/ Restore(c, f)
      PROVE  /\ call'[c].edit = call[c].edit /\ call'[c].number = call[c].number
             /\ call'[c].retries = call[c].retries
             /\ pc'[c] # "count" /\ (Counting(pc'[c]) => Counting(pc[c]))
  <2>1. Counting(pc[c])
    BY <1>9 DEF Write, Lint, Typecheck, Restore, At
  <2>2. \/ RollBack(c, FALSE)
        \/ \E files : \E successor \in {"lint", "typecheck", "tests", "log"} :
             Visit(c, f, files, successor)
    BY <1>9 DEF Write, Lint, Typecheck, Restore
  <2>3. QED
    BY <1>2, <1>3, <2>1, <2>2
<1>10. CASE BaselineRaises(c)
  BY <1>1, <1>10 DEF BaselineRaises
<1>11. CASE GateCrashes(c)
  BY <1>2, <1>11 DEF GateCrashes
<1>12. CASE LogRaises(c)
  BY <1>1, <1>2, <1>12 DEF LogRaises, RaiseFromTry, At
<1>13. ASSUME NEW f \in Repo[c], WriteRaises(c, f) \/ RestoreRaises(c, f)
       PROVE  /\ call'[c].edit = call[c].edit /\ call'[c].number = call[c].number
              /\ call'[c].retries = call[c].retries
              /\ pc'[c] # "count" /\ (Counting(pc'[c]) => Counting(pc[c]))
  BY <1>1, <1>2, <1>13 DEF WriteRaises, RestoreRaises, RaiseFromTry, At
<1>14. QED
  BY <1>4, <1>5, <1>6, <1>7, <1>8, <1>9, <1>10, <1>11, <1>12, <1>13 DEF Step, Fault

(* A step of a call leaves a sound log sound, as far as the call goes: Begin
   takes a new number, and Count counts the log itself. *)
LEMMA CallKeepsSound ==
  ASSUME WorktreesAssumption, Typed, NEW c \in Clients, Steps(c),
         NEW records, Sound(records, call, pc), Count(c) => records = log
  PROVE  Sound(records, call', pc')
<1>a. /\ \A d \in Clients \ {c} : pc'[d] = pc[d] /\ call'[d] = call[d]
      /\ pc \in [Clients -> Labels] /\ DOMAIN call = Clients /\ call[c] \in Calls(c)
      /\ \A d \in Clients : call[d].number \in Nat
  BY StepFrame DEF Typed, CallsTyped, Calls
<1>c. \A i \in DOMAIN records :
        /\ records[i].client \in Clients /\ records[i].number \in Nat
        /\ records[i].number <= call[records[i].client].number
        /\ pc[records[i].client] = "count" => records[i].number < call[records[i].client].number
  <2>1. SUFFICES ASSUME NEW i \in DOMAIN records
                 PROVE  records[i].client \in Clients /\ records[i].number \in Nat
    BY DEF Sound
  <2>2. records[i] \in Records
    BY DEF Sound
  <2>3. QED
    BY <2>2 DEF Records
<1>b. ASSUME NEW d \in Clients, call'[d].edit = call[d].edit, call'[d].number = call[d].number
      PROVE  /\ CountedBy(records, call', d) = CountedBy(records, call, d)
             /\ KnownTo(records, call', d) = KnownTo(records, call, d)
  BY <1>b DEF KnownTo, CountedBy, FilesOf
<1>1. ASSUME NEW d \in Clients \ {c}, Counting(pc'[d])
      PROVE  Between(KnownTo(records, call', d), call'[d].retries, CountedBy(records, call', d))
  BY <1>a, <1>b, <1>1 DEF Sound
<1>d. ASSUME call'[c].number = call[c].number, pc'[c] # "count"
      PROVE  \A i \in DOMAIN records :
               /\ records[i].number <= call'[records[i].client].number
               /\ pc'[records[i].client] = "count" =>
                    records[i].number < call'[records[i].client].number
  <2>1. SUFFICES ASSUME NEW i \in DOMAIN records
                 PROVE  /\ records[i].number <= call'[records[i].client].number
                        /\ pc'[records[i].client] = "count" =>
                             records[i].number < call'[records[i].client].number
    OBVIOUS
  <2>2. CASE records[i].client = c
    BY <1>c, <1>d, <2>2
  <2>3. CASE records[i].client # c
    <3>1. LET d == records[i].client IN d \in Clients \ {c} /\ pc'[d] = pc[d] /\ call'[d] = call[d]
      BY <1>a, <1>c, <2>3
    <3>2. QED
      BY <1>c, <3>1
  <2>4. QED
    BY <2>2, <2>3
<1>2. CASE \E e \in Proposals[c] : Begin(c, e)
  <2>1. pc'[c] = "count" /\ call'[c].number = call[c].number + 1 /\ call[c].number \in Nat
    BY <1>a, <1>2 DEF Begin, GoTo, NoCall, Calls
  <2>2. \A i \in DOMAIN records : records[i].client = c =>
          records[i].number <= call[c].number /\ records[i].number < call'[c].number
    BY <1>c, <2>1
  <2>3. \A i \in DOMAIN records :
          /\ records[i].number <= call'[records[i].client].number
          /\ pc'[records[i].client] = "count" =>
               records[i].number < call'[records[i].client].number
    <3>1. SUFFICES ASSUME NEW i \in DOMAIN records
                   PROVE  /\ records[i].number <= call'[records[i].client].number
                          /\ pc'[records[i].client] = "count" =>
                               records[i].number < call'[records[i].client].number
      OBVIOUS
    <3>2. CASE records[i].client = c
      BY <1>c, <2>1, <2>2, <3>2
    <3>3. CASE records[i].client # c
      <4>1. LET d == records[i].client IN d \in Clients \ {c} /\ pc'[d] = pc[d] /\ call'[d] = call[d]
        BY <1>a, <1>c, <3>3
      <4>2. QED
        BY <1>c, <4>1
    <3>4. QED
      BY <3>2, <3>3
  <2>4. ~Counting(pc'[c])
    BY <2>1 DEF Counting
  <2>5. QED
    BY <1>1, <2>3, <2>4 DEF Sound
<1>3. CASE Count(c)
  <2>1. /\ pc[c] = "count" /\ pc'[c] = "parse"
        /\ call'[c].number = call[c].number /\ call'[c].edit = call[c].edit
        /\ call'[c].retries = CountAttempts(PathsOf(c))
    BY <1>a, <1>3 DEF Count, At, GoTo, Calls
  <2>2. \A i \in DOMAIN records :
          ~(records[i].client = c /\ records[i].number = call[c].number)
    <3>1. SUFFICES ASSUME NEW i \in DOMAIN records, records[i].client = c
                   PROVE  records[i].number # call[c].number
      OBVIOUS
    <3>2. records[i].number < call[c].number
      BY <1>c, <2>1, <3>1
    <3>3. QED
      BY <1>a, <1>c, <3>2
  <2>3. CountedBy(records, call', c) = Failures(log, PathsOf(c))
    BY <1>3, <1>b, <2>1, <2>2 DEF CountedBy, Failures, FilesOf, Touched, PathsOf
  <2>4. Between(KnownTo(records, call', c), call'[c].retries, CountedBy(records, call', c))
    <3>1. records \in Seq(Records)
      BY DEF Sound
    <3>2. /\ Len(records) \in Nat /\ CountedBy(records, call', c) \in SUBSET (1 .. Len(records))
          /\ KnownTo(records, call', c) \in SUBSET CountedBy(records, call', c)
      BY <3>1 DEF CountedBy, KnownTo, Failures
    <3>3. /\ Cardinality(KnownTo(records, call', c)) <= Cardinality(CountedBy(records, call', c))
          /\ Cardinality(CountedBy(records, call', c)) \in Nat
      BY <3>2, MoreIsCounted
    <3>4. call'[c].retries = Cardinality(CountedBy(records, call', c))
      BY <2>1, <2>3 DEF CountAttempts, Failures
    <3>5. QED
      BY <3>3, <3>4 DEF Between
  <2>5. QED
    BY <1>1, <1>d, <2>1, <2>4 DEF Sound
<1>4. CASE (Step(c) \/ Fault(c)) /\ ~Count(c)
  <2>1. /\ call'[c].edit = call[c].edit /\ call'[c].number = call[c].number
        /\ call'[c].retries = call[c].retries
        /\ pc'[c] # "count" /\ (Counting(pc'[c]) => Counting(pc[c]))
    BY <1>4, CallKeepsIdentity
  <2>2. Counting(pc'[c]) =>
          Between(KnownTo(records, call', c), call'[c].retries, CountedBy(records, call', c))
    BY <1>b, <2>1 DEF Sound
  <2>3. QED
    BY <1>1, <1>d, <2>1, <2>2 DEF Sound
<1>5. QED
  BY <1>2, <1>3, <1>4 DEF Steps

(* Without a second process on its JSON file, a client that logs is alone. *)
LEMMA AloneOnFile ==
  ASSUME WorktreesAssumption, Typed, ~SharedFile, logBackend = "json", NEW c \in active, NEW d \in active
  PROVE  c = d
<1>1. IsFiniteSet(active) /\ Cardinality(active) \in Nat
  BY FS_Subset, FS_CardinalityType DEF WorktreesAssumption, Typed, LogTyped
<1>2. SUFFICES ASSUME c # d PROVE FALSE
  OBVIOUS
<1>3. IsFiniteSet({c}) /\ Cardinality({c}) = 1
  BY FS_Singleton
<1>4. {c} \in SUBSET active /\ {c} # active
  BY <1>2
<1>5. 1 < Cardinality(active)
  BY <1>1, <1>3, <1>4, FS_Subset
<1>6. QED
  BY <1>1, <1>5 DEF SharedFile

(* A client whose call is in flight is active, and its call ends with a status
   only where it has logged. *)
LEMMA StepIsActive ==
  ASSUME Typed, NEW c \in Clients, Steps(c)
  PROVE  c \in active
BY DEF Typed, LogTyped, Steps, Step, Fault, Begin, Count, CountRaises, Parse, RunTests, Commit, Log,
       Write, Lint, Typecheck, Restore, BaselineRaises, GateCrashes, LogRaises, WriteRaises,
       RestoreRaises, At

LEMMA OnlyLogReturns ==
  ASSUME WorktreesAssumption, Typed, NEW c \in Clients, Steps(c), ~Log(c), pc'[c] = "idle"
  PROVE  call'[c].status = "none"
<1>a. pc \in [Clients -> Labels] /\ DOMAIN call = Clients /\ call[c] \in Calls(c)
      /\ (pc[c] = "count" => call[c].status = "none")
  BY DEF Typed, CallsTyped
<1>1. ASSUME Leave(c)
      PROVE  call'[c].status = "none"
  BY <1>a, <1>1 DEF Leave, Calls
<1>2. ASSUME NEW handler, RollBack(c, handler)
      PROVE  FALSE
  BY <1>a, <1>2 DEF RollBack, GoTo
<1>3. ASSUME NEW f \in Repo[c], Write(c, f) \/ Lint(c, f) \/ Typecheck(c, f) \/ Restore(c, f)
      PROVE  FALSE
  <2>1. pc[c] # "idle"
    BY <1>3 DEF Write, Lint, Typecheck, Restore, At
  <2>2. \/ RollBack(c, FALSE)
        \/ \E files : \E successor \in {"lint", "typecheck", "tests", "log"} :
             Visit(c, f, files, successor)
    BY <1>3 DEF Write, Lint, Typecheck, Restore
  <2>3. QED
    BY <1>2, <1>a, <2>1, <2>2 DEF Visit, GoTo
<1>4. ASSUME NEW f \in Repo[c], WriteRaises(c, f) \/ RestoreRaises(c, f)
      PROVE  call'[c].status = "none"
  BY <1>1, <1>2, <1>4 DEF WriteRaises, RestoreRaises, RaiseFromTry
<1>5. CASE (\E e \in Proposals[c] : Begin(c, e)) \/ Count(c) \/ Parse(c) \/ Commit(c)
  BY <1>a, <1>5 DEF Begin, Count, Parse, Commit, GoTo
<1>6. CASE CountRaises(c)
  BY <1>a, <1>6 DEF CountRaises, At
<1>7. CASE RunTests(c)
  BY <1>a, <1>2, <1>7 DEF RunTests, GoTo
<1>8. CASE BaselineRaises(c) \/ GateCrashes(c)
  BY <1>1, <1>2, <1>8 DEF BaselineRaises, GateCrashes
<1>9. CASE LogRaises(c)
  BY <1>1, <1>2, <1>9 DEF LogRaises, RaiseFromTry
<1>10. QED
  BY <1>3, <1>4, <1>5, <1>6, <1>7, <1>8, <1>9 DEF Steps, Step, Fault

(* The log and the copies of it, under a step of a client. *)
LEMMA NextLogInvariant ==
  ASSUME WorktreesAssumption, ContentsAssumption, ProposalsAssumption
  PROVE  Typed /\ LogInvariant /\ [Next]_vars => LogInvariant'
<1> SUFFICES ASSUME Typed, LogInvariant, [Next]_vars, ~SharedFile' PROVE LogInvariant'
  BY DEF LogInvariant
<1>1. Typed'
  BY NextTyped
<1>2. CASE UNCHANGED vars
  <2>1. UNCHANGED <<logBackend, active, log, held, stage, pc, call>>
    BY <1>2 DEF vars, storage
  <2>2. Logged' = Logged /\ SharedFile' = SharedFile
    BY <2>1 DEF Logged, At, EditRecord, PathsOf, Touched, SharedFile
  <2>3. QED
    BY <2>1, <2>2 DEF LogInvariant
<1>3. ASSUME NEW c \in Clients, Steps(c)
      PROVE  LogInvariant'
  <2>1. /\ UNCHANGED <<logBackend, active>> /\ ~SharedFile /\ c \in active
        /\ \A d \in Clients \ {c} : pc'[d] = pc[d] /\ call'[d] = call[d]
        /\ pc \in [Clients -> Labels] /\ DOMAIN call = Clients
        /\ stage \in [Clients -> {"none", "read", "truncated"}] /\ DOMAIN held = Clients
    BY <1>3, StepFrame, StepIsActive DEF SharedFile, Typed, CallsTyped, LogTyped
  <2>2. /\ logBackend = "redis" \/ log # Torn => Sound(log, call, pc) /\ Logged
        /\ \A d \in Clients : stage[d] # "none" => Sound(held[d], call, pc)
    BY <2>1 DEF LogInvariant
  <2>3. /\ \A d \in Clients \ {c} : EditRecord(d)' = EditRecord(d) /\ At(d, "idle")' = At(d, "idle")
        /\ \A d \in Clients \ {c} : logBackend = "json" => call'[d].status = "none" /\ stage[d] = "none"
    <3>1. ASSUME NEW d \in Clients \ {c}, logBackend = "json"
          PROVE  call'[d].status = "none" /\ stage[d] = "none"
      <4>1. d \notin active
        BY <2>1, <3>1, AloneOnFile
      <4>2. QED
        BY <2>1, <3>1, <4>1 DEF Typed, LogTyped
    <3>2. QED
      BY <2>1, <3>1 DEF EditRecord, PathsOf, Touched, At
  <2>4. ASSUME ~Log(c), UNCHANGED <<log, held>>, \A d \in Clients : stage'[d] # "none" => stage[d] # "none"
        PROVE  LogInvariant'
    <3>1. ASSUME logBackend = "redis" \/ log # Torn
          PROVE  Sound(log, call', pc') /\ Logged'
      <4>1. Sound(log, call', pc')
        BY <1>3, <2>2, <3>1, CallKeepsSound
      <4>2. SUFFICES ASSUME NEW d \in Clients, At(d, "idle")', call'[d].status # "none"
                     PROVE  \E i \in DOMAIN log : log[i] = EditRecord(d)'
        BY <2>4, <4>1 DEF Logged
      <4>3. d # c
        BY <1>3, <2>4, <4>2, OnlyLogReturns DEF At
      <4>4. QED
        BY <2>1, <2>2, <2>3, <3>1, <4>2, <4>3 DEF Logged
    <3>2. ASSUME NEW d \in Clients, stage[d] # "none"
          PROVE  Sound(held[d], call', pc')
      <4>1. pc[d] = "log" /\ d = c
        BY <2>3, <3>2 DEF Typed, LogTyped
      <4>2. ~Count(c)
        BY <4>1 DEF Count, At
      <4>3. QED
        BY <1>3, <2>2, <3>2, <4>2, CallKeepsSound
    <3>3. QED
      BY <2>1, <2>4, <3>1, <3>2 DEF LogInvariant
  <2>5. ASSUME NEW records, Sound(records, call, pc), pc[c] = "log", log' = Append(records, EditRecord(c)),
               \A d \in Clients : stage'[d] = "none",
               logBackend = "redis" => records = log
        PROVE  LogInvariant'
    <3>1. ~Count(c)
      BY <2>5 DEF Count, At
    <3>2. Sound(Append(records, EditRecord(c)), call, pc)
      BY <2>5, AppendSound
    <3>3. Sound(log', call', pc')
      BY <1>3, <2>5, <3>1, <3>2, CallKeepsSound
    <3>4. /\ records \in Seq(Records) /\ EditRecord(c) \in Records
          /\ \A i \in DOMAIN records : i \in DOMAIN log' /\ log'[i] = records[i]
          /\ Len(records) + 1 \in DOMAIN log' /\ log'[Len(records) + 1] = EditRecord(c)
      BY <2>5, RecordTyped DEF Sound
    <3>5. ASSUME NEW d \in Clients, At(d, "idle")', call'[d].status # "none"
          PROVE  \E i \in DOMAIN log' : log'[i] = EditRecord(d)'
      <4>1. CASE d = c
        <5>1. Log(c)
          BY <1>3, <3>5, <4>1, OnlyLogReturns DEF At
        <5>2. call' = call
          BY <5>1 DEF Log
        <5>3. EditRecord(d)' = EditRecord(c)
          BY <4>1, <5>2 DEF EditRecord, PathsOf, Touched
        <5>4. QED
          BY <3>4, <5>3
      <4>2. CASE d # c
        <5>1. logBackend = "redis" /\ Logged
          BY <2>2, <2>3, <3>5, <4>2 DEF Typed, LogTyped
        <5>2. At(d, "idle") /\ call[d].status # "none" /\ EditRecord(d)' = EditRecord(d)
          BY <2>1, <2>3, <3>5, <4>2
        <5>3. QED
          BY <2>5, <3>4, <5>1, <5>2 DEF Logged
      <4>3. QED
        BY <4>1, <4>2
    <3>6. QED
      BY <2>5, <3>3, <3>5 DEF LogInvariant, Logged
  <2>6. CASE PushRecord(EditRecord(c)) /\ pc[c] = "log"
    <3>1. logBackend = "redis" /\ log' = Append(log, EditRecord(c)) /\ stage' = stage
      BY <2>6 DEF PushRecord, Appended
    <3>2. \A d \in Clients : stage[d] = "none"
      BY <3>1 DEF Typed, LogTyped
    <3>3. QED
      BY <2>2, <2>5, <2>6, <3>1, <3>2
  <2>7. CASE FillState(c, EditRecord(c)) /\ pc[c] = "log"
    <3>1. /\ stage[c] = "truncated" /\ log' = Append(held[c], EditRecord(c))
          /\ stage' = [stage EXCEPT ![c] = "none"]
      BY <2>7 DEF FillState, Appended
    <3>2. logBackend = "json" /\ Sound(held[c], call, pc)
      BY <2>2, <3>1 DEF Typed, LogTyped
    <3>3. \A d \in Clients : stage'[d] = "none"
      BY <2>1, <2>3, <3>1, <3>2
    <3>4. logBackend # "redis"
      BY <3>2
    <3>5. QED
      BY <2>5, <2>7, <3>1, <3>2, <3>3, <3>4
  <2>8. CASE ReadState(c) /\ UNCHANGED <<pc, call>>
    <3>1. /\ logBackend = "json" /\ log # Torn /\ log' = log
          /\ held' = [held EXCEPT ![c] = log] /\ stage' = [stage EXCEPT ![c] = "read"]
      BY <2>8 DEF ReadState
    <3>2. Logged' = Logged
      BY <2>8, <3>1 DEF Logged, At, EditRecord, PathsOf, Touched
    <3>3. \A d \in Clients : stage'[d] # "none" => d = c
      BY <2>1, <2>3, <3>1
    <3>4. QED
      BY <2>1, <2>2, <2>8, <3>1, <3>2, <3>3 DEF LogInvariant
  <2>9. CASE TruncateState(c) /\ UNCHANGED <<pc, call>>
    <3>1. /\ stage[c] = "read" /\ log' = Torn /\ held' = held
          /\ stage' = [stage EXCEPT ![c] = "truncated"]
      BY <2>9 DEF TruncateState
    <3>2. logBackend = "json"
      BY <3>1 DEF Typed, LogTyped
    <3>3. QED
      BY <2>1, <2>2, <2>9, <3>1, <3>2 DEF LogInvariant
  <2>10. CASE Log(c)
    BY <2>6, <2>7, <2>8, <2>9, <2>10 DEF Log, At
  <2>11. CASE LogRaises(c) /\ ~Log(c)
    <3>1. CASE FillRaises(c) \/ UNCHANGED storage
      <4>1. UNCHANGED <<log, held>> /\ \A d \in Clients : stage'[d] # "none" => stage[d] # "none"
        BY <2>1, <3>1 DEF FillRaises, storage
      <4>2. QED
        BY <2>4, <2>11, <4>1
    <3>2. QED
      BY <2>6, <2>11, <3>1 DEF LogRaises, At
  <2>12. CASE ~Log(c) /\ ~LogRaises(c)
    <3>1. UNCHANGED storage
      BY <1>3, <2>12 DEF Steps, Step, Fault, Begin, Count, CountRaises, Parse, RunTests, Commit, Write,
              Lint, Typecheck, Restore, BaselineRaises, GateCrashes, WriteRaises, RestoreRaises
    <3>2. UNCHANGED <<log, held, stage>>
      BY <3>1 DEF storage
    <3>3. QED
      BY <2>4, <2>12, <3>2
  <2>13. QED
    BY <2>10, <2>11, <2>12
<1>4. QED
  BY <1>2, <1>3 DEF Next, Steps

LEMMA InitLogInvariant == Init => LogInvariant
<1> SUFFICES ASSUME Init PROVE LogInvariant
  OBVIOUS
<1>1. log = <<>> /\ \A c \in Clients : stage[c] = "none" /\ pc[c] = "idle" /\ call[c].status = "none"
  BY DEF Init, LogInit, NoCall
<1>2. Sound(log, call, pc) /\ Logged
  BY <1>1 DEF Sound, Counting, Logged
<1>3. QED
  BY <1>1, <1>2 DEF LogInvariant

LEMMA LogIsKept ==
  ASSUME WorktreesAssumption, ContentsAssumption, ProposalsAssumption
  PROVE  Spec => []LogInvariant
BY InitTyped, NextTyped, InitLogInvariant, NextLogInvariant, PTL DEF Spec

(* Every record counts no more than the failed attempts at its files that the
   log holds before it, and no less than those its process had seen when the
   call began: with Redis for any number of processes, on one set of paths or
   on several, with the JSON file for one, whatever raises and whatever reply
   is lost. *)
THEOREM RetriesCountTheLog ==
  ASSUME WorktreesAssumption, ContentsAssumption, ProposalsAssumption
  PROVE  Spec => []RetriesAgreeWithLog
<1>1. \A i \in DOMAIN log : FailedBefore(i) = Earlier(log, i) /\ KnownBefore(i) = KnownEarlier(log, i)
  BY DEF FailedBefore, Earlier, KnownBefore, KnownEarlier
<1>2. LogInvariant => RetriesAgreeWithLog
  BY <1>1 DEF LogInvariant, Readable, RetriesAgreeWithLog, Sound, Between
<1>3. QED
  BY <1>2, LogIsKept, PTL

(* Every call that has returned is in the log with the status it returned, in
   the same generality. *)
THEOREM CallsAreLogged ==
  ASSUME WorktreesAssumption, ContentsAssumption, ProposalsAssumption
  PROVE  Spec => []ReturnedMeansLogged
<1>1. LogInvariant => ReturnedMeansLogged
  BY DEF LogInvariant, Readable, ReturnedMeansLogged, Logged
<1>2. QED
  BY <1>1, LogIsKept, PTL
=============================================================================
