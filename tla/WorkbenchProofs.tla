--------------------------- MODULE WorkbenchProofs ----------------------------
(***************************************************************************)
(* Proofs about the tools of one server, the plans of a model and the      *)
(* campaigns of specialists, for every repository, every edit made beside  *)
(* them, every model, and RedisVL failing at any vector of any handle.     *)
(***************************************************************************)
EXTENDS Dispatch, FiniteSetTheorems, FunctionTheorems, SequenceTheorems, NaturalsInduction, WellFoundedInduction, TLAPS

(* What is cached under a tree is the report of this tree, and what is cached
   under a text is what was found in it. *)
CachesAreTrue ==
  /\ \A s \in DOMAIN deadCode : deadCode[s] = Dead(s[1])
  /\ \A text \in DOMAIN analysed : analysed[text].found = Opportunities(text)

(* What is on the record for a prompt, a live model may have answered. *)
RecordIsOfTheModel ==
  \A prompt \in DOMAIN recorded : recorded[prompt] \in LiveAnswers(prompt)

SessionTyped ==
  \/ session = Closed
  \/ /\ session = [open |-> TRUE, use |-> session.use, peers |-> session.peers, indexed |-> session.indexed,
                   graph |-> session.graph, todo |-> session.todo, items |-> session.items]
     /\ session.peers \in BOOLEAN /\ session.indexed \in BOOLEAN

CampaignTyped ==
  \/ campaign = Idle
  \/ campaign = [at |-> campaign.at, tasks |-> campaign.tasks, committed |-> campaign.committed,
                 rolledBack |-> campaign.rolledBack, skipped |-> campaign.skipped, last |-> campaign.last]

(* A session is one of llm_plan, while no campaign runs, or one of a campaign
   that has proposed, and that needs no index; a campaign that has proposed has
   one. *)
OneSession ==
  /\ session.open =>
       \/ session.peers /\ campaign.at = "idle"
       \/ ~session.peers /\ session.indexed /\ campaign.at \in {"propose", "apply"}
  /\ campaign.at \in {"propose", "apply"} => session.open

StoresTyped ==
  /\ backend \in [Handles -> Backends]
  /\ DOMAIN rows = Backends
  /\ \A b \in Backends : DOMAIN rows[b] = Namespaces

SessionInv == SessionTyped /\ CampaignTyped /\ OneSession
-----------------------------------------------------------------------------
(* dict.update: the keys of both, the values of the second first. *)
LEMMA UpdatedFacts ==
  ASSUME NEW old, NEW new
  PROVE  /\ DOMAIN Updated(old, new) = DOMAIN old \cup DOMAIN new
         /\ \A key \in DOMAIN new : Updated(old, new)[key] = new[key]
         /\ \A key \in (DOMAIN old) \ DOMAIN new : Updated(old, new)[key] = old[key]
BY DEF Updated

(* An upsert that leaves every handle on its backend has written all it was
   given, and nothing else of its space. *)
LEMMA UpsertFacts ==
  ASSUME StoresTyped, NEW h \in Handles, NEW vectors, Upsert(h, vectors)
  PROVE  /\ StoresTyped'
         /\ backend' = backend =>
              /\ DOMAIN Stored(h)' = DOMAIN Stored(h) \cup DOMAIN vectors
              /\ \A key \in DOMAIN vectors : Stored(h)'[key] = vectors[key]
              /\ \A key \in (DOMAIN Stored(h)) \ DOMAIN vectors :
                   Stored(h)'[key] = Stored(h)[key]
<1> DEFINE Landings == IF backend[h] = "redisvl" /\ h \in Outages THEN SUBSET DOMAIN vectors ELSE {DOMAIN vectors}
<1>1. PICK kept \in Landings :
        /\ rows' = Put(Put(rows, backend[h], h, Only(vectors, kept)), "json", h,
                       Only(vectors, (DOMAIN vectors) \ kept))
        /\ backend' = [backend EXCEPT ![h] = IF (DOMAIN vectors) \ kept = {} THEN @ ELSE "json"]
  BY DEF Upsert
<1>2. kept \subseteq DOMAIN vectors /\ (kept # DOMAIN vectors => backend[h] = "redisvl")
  BY <1>1
<1> HIDE DEF Landings
<1> DEFINE n == SpaceOf[h]
           b == backend[h]
           rest == (DOMAIN vectors) \ kept
           first == Updated(rows[b][n], Only(vectors, kept))
<1>3. n \in Namespaces /\ b \in Backends /\ "json" \in Backends /\ "redisvl" # "json"
  BY DEF Namespaces, StoresTyped, Backends
<1>4. backend' \in [Handles -> Backends]
  BY <1>1, <1>3 DEF StoresTyped
<1> DEFINE mid == Put(rows, b, h, Only(vectors, kept))
<1>5. /\ DOMAIN mid = Backends /\ \A x \in Backends : DOMAIN mid[x] = Namespaces
      /\ mid[b][n] = first
  BY <1>3 DEF Put, StoresTyped
<1>6. rows' = Put(mid, "json", h, Only(vectors, rest))
  BY <1>1
<1> HIDE DEF mid
<1>7. /\ DOMAIN rows' = Backends /\ \A x \in Backends : DOMAIN rows'[x] = Namespaces
      /\ rows'["json"][n] = Updated(mid["json"][n], Only(vectors, rest))
      /\ b # "json" => rows'[b][n] = mid[b][n]
  BY <1>3, <1>5, <1>6 DEF Put
<1>8. StoresTyped'
  BY <1>4, <1>7 DEF StoresTyped
<1>9. ASSUME backend' = backend
      PROVE  /\ DOMAIN Stored(h)' = DOMAIN Stored(h) \cup DOMAIN vectors
             /\ \A key \in DOMAIN vectors : Stored(h)'[key] = vectors[key]
             /\ \A key \in (DOMAIN Stored(h)) \ DOMAIN vectors : Stored(h)'[key] = Stored(h)[key]
  <2>1. rest = {} /\ kept = DOMAIN vectors
    <3>1. CASE rest # {}
      <4>1. b = "redisvl" /\ backend'[h] = "json"
        BY <1>1, <1>2, <3>1 DEF StoresTyped
      <4>2. QED
        BY <1>3, <1>9, <4>1
    <3>2. QED
      BY <1>2, <3>1
  <2>2. Stored(h)' = rows'[b][n]
    BY <1>9 DEF Stored
  <2>3. Stored(h) = rows[b][n]
    BY DEF Stored
  <2>4. /\ DOMAIN first = DOMAIN rows[b][n] \cup DOMAIN vectors
        /\ \A key \in DOMAIN vectors : first[key] = vectors[key]
        /\ \A key \in (DOMAIN rows[b][n]) \ DOMAIN vectors : first[key] = rows[b][n][key]
    BY <2>1 DEF Updated, Only
  <2> HIDE DEF first
  <2>5. DOMAIN rows'[b][n] = DOMAIN first /\ \A key \in DOMAIN first : rows'[b][n][key] = first[key]
    <3>1. CASE b # "json"
      BY <1>5, <1>7, <3>1
    <3>2. CASE b = "json"
      <4>1. rows'[b][n] = Updated(first, Only(vectors, rest))
        BY <1>5, <1>7, <3>2
      <4>2. DOMAIN Only(vectors, rest) = {}
        BY <2>1 DEF Only
      <4>3. QED
        BY <4>1, <4>2 DEF Updated
    <3>3. QED
      BY <3>1, <3>2
  <2>6. QED
    BY <2>2, <2>3, <2>4, <2>5
<1>10. QED
  BY <1>8, <1>9
-----------------------------------------------------------------------------
(* Sessions and campaigns. *)

(* A record of the campaign stays one when a task ends. *)
LEMMA EndedTyped ==
  ASSUME CampaignTyped, campaign # Idle, NEW outcome, campaign' = Ended(campaign, outcome)
  PROVE  CampaignTyped' /\ campaign'.at = "task"
BY DEF CampaignTyped, Ended

(* A session that begins is a record of a session. *)
LEMMA OpenedTyped ==
  ASSUME NEW jobs, NEW use, NEW peers \in BOOLEAN, session' = Opened(jobs, use, peers)
  PROVE  /\ SessionTyped' /\ session'.open
         /\ session'.peers = peers /\ session'.indexed = ~peers
<1>1. /\ session'.open = TRUE /\ session'.peers = peers /\ session'.indexed = ~peers
      /\ session'.use = use /\ session'.todo = jobs /\ session'.items = <<>>
      /\ session'.graph = SymbolLines
  BY DEF Opened
<1>2. session' = [open |-> TRUE, use |-> session'.use, peers |-> session'.peers, indexed |-> session'.indexed,
                  graph |-> session'.graph, todo |-> session'.todo, items |-> session'.items]
  BY <1>1 DEF Opened
<1>3. QED
  BY <1>1, <1>2 DEF SessionTyped

(* What a session is after it has changed its jobs or items. *)
LEMMA EditedSession ==
  ASSUME SessionTyped, session # Closed,
         NEW t, NEW i, session' = [session EXCEPT !.todo = t, !.items = i]
  PROVE  /\ SessionTyped'
         /\ session'.open = session.open /\ session'.peers = session.peers
         /\ session'.indexed = session.indexed
<1> DEFINE u == session.use
           p == session.peers
           x == session.indexed
           g == session.graph
           d == session.todo
           m == session.items
<1>1. /\ session = [open |-> TRUE, use |-> u, peers |-> p, indexed |-> x,
                    graph |-> g, todo |-> d, items |-> m]
      /\ p \in BOOLEAN /\ x \in BOOLEAN
  BY DEF SessionTyped
<1> HIDE DEF u, p, x, g, d, m
<1>2. session' = [open |-> TRUE, use |-> u, peers |-> p, indexed |-> x,
               graph |-> g, todo |-> t, items |-> i]
  BY <1>1
<1>3. /\ session'.open = TRUE /\ session'.use = u /\ session'.peers = p /\ session'.indexed = x
      /\ session'.graph = g
      /\ session'.todo = t /\ session'.items = i /\ session.open = TRUE
  BY <1>1, <1>2
<1>4. session' = [open |-> TRUE, use |-> session'.use, peers |-> session'.peers, indexed |-> session'.indexed,
                  graph |-> session'.graph, todo |-> session'.todo, items |-> session'.items]
  BY <1>2, <1>3
<1>5. QED
  BY <1>1, <1>3, <1>4 DEF SessionTyped

(* No step of anybody opens a second session, or one out of its place. *)
LEMMA SessionStep ==
  ASSUME SessionInv, [WorkbenchNext]_workbenchVars
  PROVE  SessionInv'
<1> USE DEF SessionInv, SessionTyped, CampaignTyped, OneSession, plannerVars
<1>1. CASE UNCHANGED <<session, campaign>>
  BY <1>1
<1>2. CASE Ready /\ (\E use \in {"live", "offline"} : BeginPlan(use)) /\ UNCHANGED campaign
  <2>1. ~session.open /\ campaign.at = "idle" /\ campaign' = campaign
    BY <1>2 DEF Ready
  <2>2. PICK use \in {"live", "offline"} : BeginPlan(use)
    BY <1>2
  <2>3. session' = session \/ session' = Opened(<<>>, use, TRUE)
    BY <2>2 DEF BeginPlan
  <2>4. CASE session' = Opened(<<>>, use, TRUE)
    <3>1. SessionTyped' /\ session'.open /\ session'.peers = TRUE
      BY <2>4, OpenedTyped
    <3>2. QED
      BY <2>1, <3>1
  <2>5. QED
    BY <2>1, <2>3, <2>4
<1>3. CASE Ready /\ BeginCampaign
  <2>1. ~session.open /\ session' = session
    BY <1>3 DEF Ready, BeginCampaign
  <2>2. campaign' = [at |-> campaign'.at, tasks |-> campaign'.tasks, committed |-> campaign'.committed,
                     rolledBack |-> campaign'.rolledBack, skipped |-> campaign'.skipped, last |-> campaign'.last]
    BY <1>3 DEF BeginCampaign
  <2>3. campaign'.at = "task"
    BY <1>3 DEF BeginCampaign
  <2>4. QED
    BY <2>1, <2>2, <2>3
<1>4. CASE IndexCodebase /\ UNCHANGED campaign
  <2>1. session.open /\ ~session.indexed /\ \E jobs : session' = [session EXCEPT !.indexed = TRUE, !.todo = jobs]
    BY <1>4 DEF IndexCodebase
  <2>2. session # Closed
    BY <2>1 DEF Closed
  <2>3. QED
    BY <1>4, <2>1, <2>2
<1>5. CASE Decompose /\ UNCHANGED campaign
  <2>1. session.open /\ \E t, i : session' = [session EXCEPT !.todo = t, !.items = i]
    BY <1>5 DEF Decompose
  <2>2. session # Closed
    BY <2>1 DEF Closed
  <2>3. QED
    BY <1>5, <2>1, <2>2
<1>6. CASE EndPlan /\ UNCHANGED campaign
  BY <1>6 DEF EndPlan, Closed
<1>7. CASE OrderImports
  <2>1. /\ campaign.at = "task" /\ session' = session
        /\ \E outcome : campaign' = Ended(campaign, outcome)
    BY <1>7 DEF OrderImports, AtTask
  <2>2. campaign # Idle /\ ~session.open
    BY <2>1 DEF Idle
  <2>3. QED
    BY <2>1, <2>2, EndedTyped
<1>8. ASSUME NEW use \in {"live", "offline"}, Propose(use)
      PROVE  SessionInv'
  <2>1. /\ campaign.at = "task" /\ campaign' = [campaign EXCEPT !.at = "propose"]
        /\ \E jobs : session' = Opened(jobs, use, FALSE)
    BY <1>8 DEF Propose, AtTask
  <2>2. campaign # Idle
    BY <2>1 DEF Idle
  <2>3. SessionTyped' /\ session'.open /\ session'.peers = FALSE /\ session'.indexed = ~FALSE
    BY <2>1, OpenedTyped
  <2>4. CampaignTyped' /\ campaign'.at = "propose"
    BY <2>1, <2>2
  <2>5. QED
    BY <2>3, <2>4
<1>9. CASE ApplyText
  <2>1. campaign # Idle /\ session' = Closed /\ \E outcome : campaign' = Ended(campaign, outcome)
    BY <1>9 DEF ApplyText, Idle
  <2>2. QED
    BY <2>1, EndedTyped DEF Closed
<1>10. CASE ApplySpec
  <2>1. campaign.at \in {"propose", "apply"} /\ campaign # Idle
    BY <1>10 DEF ApplySpec, Idle
  <2>2. CASE session' = Closed /\ campaign' = Ended(campaign, "raised")
    BY <2>1, <2>2, EndedTyped DEF Closed
  <2>3. CASE /\ \E i : session' = [session EXCEPT !.items = i]
             /\ \/ campaign' = [campaign EXCEPT !.at = "apply"]
                \/ \E outcome : campaign' = [campaign EXCEPT !.at = "apply", !.last = outcome]
    <3>1. CampaignTyped' /\ campaign'.at = "apply"
      BY <2>1, <2>3
    <3>2. session # Closed
      BY <2>1 DEF Closed
    <3>3. SessionTyped' /\ OneSession'
      <4>1. PICK i : session' = [session EXCEPT !.items = i]
        BY <2>3
      <4>2. /\ SessionTyped' /\ session'.open = session.open /\ session'.peers = session.peers
            /\ session'.indexed = session.indexed
        <5>1. session' = [session EXCEPT !.todo = session.todo, !.items = i]
          BY <3>2, <4>1
        <5>2. QED
          BY <3>2, <5>1, EditedSession
      <4>3. QED
        BY <2>1, <3>1, <4>2
    <3>4. QED
      BY <3>1, <3>3
  <2>4. QED
    BY <1>10, <2>2, <2>3 DEF ApplySpec
<1>11. CASE EndSpecs
  <2>1. campaign # Idle /\ session' = Closed /\ \E outcome : campaign' = Ended(campaign, outcome)
    BY <1>11 DEF EndSpecs, Idle
  <2>2. QED
    BY <2>1, EndedTyped DEF Closed
<1>12. CASE EndCampaign
  <2>1. campaign.at = "task" /\ campaign' = Idle /\ session' = session
    BY <1>12 DEF EndCampaign
  <2>2. QED
    BY <2>1 DEF Idle
<1>13. QED
  BY <1>1, <1>2, <1>3, <1>4, <1>5, <1>6, <1>7, <1>8, <1>9, <1>10, <1>11, <1>12
     DEF WorkbenchNext, Going, workbenchVars
-----------------------------------------------------------------------------
(* Answers and decisions. *)

(* What answers a prompt, live or from the record, a live model may have answered. *)
LEMMA Answering ==
  ASSUME RecordIsOfTheModel, NEW prompt, NEW answer, Answered(prompt, answer)
  PROVE  RecordIsOfTheModel' /\ answer \in LiveAnswers(prompt)
<1>1. [declined |-> TRUE] \in LiveAnswers(prompt)
  BY DEF LiveAnswers
<1>2. CASE recorded' = recorded
  BY <1>1, <1>2 DEF Answered, RecordIsOfTheModel
<1>3. CASE answer \in LiveAnswers(prompt) /\ recorded' = Updated(recorded, [p \in {prompt} |-> answer])
  <2>1. \A p \in DOMAIN recorded' :
          (p = prompt /\ recorded'[p] = answer) \/ (p \in DOMAIN recorded /\ recorded'[p] = recorded[p])
    <3> DEFINE new == [p \in {prompt} |-> answer]
    <3>1. DOMAIN new = {prompt} /\ new[prompt] = answer
      OBVIOUS
    <3>2. recorded' = Updated(recorded, new)
      BY <1>3
    <3> HIDE DEF new
    <3>3. /\ DOMAIN recorded' = DOMAIN recorded \cup {prompt} /\ recorded'[prompt] = answer
          /\ \A p \in (DOMAIN recorded) \ {prompt} : recorded'[p] = recorded[p]
      BY <3>1, <3>2 DEF Updated
    <3>4. ASSUME NEW p \in DOMAIN recorded', p # prompt
          PROVE  p \in DOMAIN recorded /\ recorded'[p] = recorded[p]
      BY <3>3, <3>4
    <3>5. QED
      BY <3>3, <3>4
  <2>2. QED
    BY <1>3, <2>1 DEF RecordIsOfTheModel
<1>4. QED
  BY <1>1, <1>2, <1>3 DEF Answered, RecordIsOfTheModel

(* Of a model that uses the names it is told to use, an answer that splits a body
   of a shape already decided has the names of this decision, if it has any. *)
LEMMA NamesOfTheDecision ==
  ASSUME Faithful, NEW job, NEW peers, NEW answer \in LiveAnswers(Prompt(job, peers)), ~answer.declined,
         Fingerprint[job.body] \in DOMAIN decisions, decisions[Fingerprint[job.body]] # None
  PROVE  answer.names = decisions[Fingerprint[job.body]]
<1> DEFINE prompt == Prompt(job, peers)
<1>1. prompt.names = {decisions[Fingerprint[job.body]]}
  BY DEF Prompt, Recalled
<1> HIDE DEF prompt
<1>2. answer \in LiveAnswers(prompt)
  BY DEF prompt
<1>3. \E a \in Answers, n \in prompt.names : answer = [declined |-> FALSE, new |-> a[2], names |-> n]
  BY <1>1, <1>2 DEF LiveAnswers
<1>4. QED
  BY <1>1, <1>3

DecisionsGrow ==
  \A shape \in DOMAIN decisions :
    shape \in DOMAIN decisions' /\ decisions[shape] \in {decisions'[shape], None}

(* A faithful model that is told the names of a shape repeats them. *)
LEMMA DecomposeStep ==
  ASSUME RecordIsOfTheModel, Decompose
  PROVE  RecordIsOfTheModel' /\ (Faithful => DecisionsGrow)
<1> DEFINE job == Head(session.todo)
           prompt == Prompt(job, session.peers)
<1>1. PICK answer :
        /\ Answered(prompt, answer)
        /\ IF answer.declined THEN UNCHANGED <<decisions, indexVars>> ELSE Record(job.body, answer.names)
  BY DEF Decompose
<1> HIDE DEF job
<1>2. RecordIsOfTheModel' /\ answer \in LiveAnswers(prompt)
  BY <1>1, Answering
<1>3. ASSUME Faithful PROVE DecisionsGrow
  <2>1. CASE answer.declined
    BY <1>1, <2>1 DEF DecisionsGrow
  <2>2. CASE ~answer.declined
    <3>1. decisions' = Updated(decisions, [shape \in {Fingerprint[job.body]} |-> answer.names])
      BY <1>1, <2>2 DEF Record
    <3>2. Fingerprint[job.body] \in DOMAIN decisions /\ decisions[Fingerprint[job.body]] # None =>
            answer.names = decisions[Fingerprint[job.body]]
      BY <1>2, <1>3, <2>2, NamesOfTheDecision
    <3>3. QED
      BY <3>1, <3>2 DEF DecisionsGrow, Updated
  <2>3. QED
    BY <2>1, <2>2
<1>4. QED
  BY <1>2, <1>3

(* The record holds answers of a live model only, whoever writes it. *)
LEMMA RecordStep ==
  ASSUME RecordIsOfTheModel, [WorkbenchNext]_workbenchVars
  PROVE  RecordIsOfTheModel' /\ (Faithful => DecisionsGrow)
<1>1. CASE UNCHANGED <<decisions, recorded>>
  BY <1>1 DEF RecordIsOfTheModel, DecisionsGrow
<1>2. CASE Decompose
  BY <1>2, DecomposeStep
<1>3. QED
  BY <1>1, <1>2 DEF WorkbenchNext, Going, workbenchVars, plannerVars, BeginPlan, BeginCampaign, IndexCodebase,
     EndPlan, OrderImports, Propose, ApplyText, ApplySpec, EndSpecs, EndCampaign
-----------------------------------------------------------------------------
(* What the handles of the vector index write. *)

(* Handles that are opened anew are of one of the backends. *)
LEMMA ReopenedTyped ==
  ASSUME StoresTyped, NEW opened, Reopened(opened), UNCHANGED rows
  PROVE  StoresTyped'
BY DEF StoresTyped, Reopened

(* Every step leaves the stores with all their namespaces and handles. *)
LEMMA StoresStep ==
  ASSUME StoresTyped, [WorkbenchNext]_workbenchVars
  PROVE  StoresTyped'
<1> DEFINE Upserts == \E h \in Handles : \E vectors : Upsert(h, vectors)
<1>1. "server" \in Handles /\ "decisions" \in Handles /\ "codebase" \in Handles
  BY HandlesAssumption
<1>2. CASE UNCHANGED indexVars
  BY <1>2 DEF StoresTyped, indexVars
<1>3. CASE Upserts
  BY <1>3, UpsertFacts
<1>4. CASE UNCHANGED rows /\ \E opened : Reopened(opened)
  BY <1>4, ReopenedTyped
<1>5. ASSUME Using PROVE Upserts \/ UNCHANGED indexVars
  BY <1>1, <1>5 DEF Using, FindDeadCode, FindDuplicates, FindRelated, AnalyzeFile
<1>6. ASSUME Documenting PROVE Upserts \/ UNCHANGED indexVars
  <2>1. ASSUME NEW m, NEW tool, Generated(m, tool) PROVE Upserts \/ UNCHANGED indexVars
    BY <1>1, <2>1 DEF Generated, UpsertModule
  <2>2. QED
    BY <1>6, <2>1 DEF Documenting, GenerateDocs, GetContextMap, indexVars
<1>7. ASSUME Decompose PROVE Upserts \/ UNCHANGED indexVars
  BY <1>1, <1>7 DEF Decompose, Record, indexVars
<1>8. ASSUME IndexCodebase PROVE Upserts \/ UNCHANGED indexVars
  BY <1>1, <1>8 DEF IndexCodebase
<1>9. ASSUME NEW use, BeginPlan(use) PROVE UNCHANGED rows /\ (UNCHANGED backend \/ \E opened : Reopened(opened))
  BY <1>9 DEF BeginPlan
<1>10. ASSUME NEW use, Propose(use) PROVE UNCHANGED rows /\ (UNCHANGED backend \/ \E opened : Reopened(opened))
  BY <1>10 DEF Propose
<1> HIDE DEF Upserts
<1>11. ASSUME OrderImports \/ ApplyText \/ ApplySpec \/ EndSpecs \/ EndCampaign \/ EndPlan \/ BeginCampaign
       PROVE  UNCHANGED indexVars
  BY <1>11 DEF OrderImports, ApplyText, ApplySpec, EndSpecs, EndCampaign, EndPlan, BeginCampaign
<1>12. ASSUME NEW d, NEW body, Edit(d, body) PROVE UNCHANGED indexVars
  BY <1>12 DEF Edit
<1>13. QED
  BY <1>2, <1>3, <1>4, <1>5, <1>6, <1>7, <1>8, <1>9, <1>10, <1>11, <1>12
     DEF WorkbenchNext, Going, workbenchVars, indexVars
-----------------------------------------------------------------------------
(* Caches and reports. *)

(* What is cached is of the key it is cached under. *)
LEMMA CachesStep ==
  ASSUME CachesAreTrue, [WorkbenchNext]_workbenchVars
  PROVE  CachesAreTrue'
<1>1. CASE UNCHANGED <<deadCode, analysed>>
  BY <1>1 DEF CachesAreTrue
<1>2. CASE FindDeadCode
  <2>1. deadCode' = Updated([s \in {Signature(code)} |-> Dead(code)], deadCode) /\ analysed' = analysed
    BY <1>2 DEF FindDeadCode
  <2>2. Signature(code)[1] = code
    BY DEF Signature
  <2>3. \A s \in DOMAIN deadCode' : \/ s \in DOMAIN deadCode /\ deadCode'[s] = deadCode[s]
                                    \/ s = Signature(code) /\ deadCode'[s] = Dead(code)
    BY <2>1 DEF Updated
  <2>4. QED
    BY <2>1, <2>2, <2>3 DEF CachesAreTrue
<1>4. ASSUME NEW m, AnalyzeFile(m)
      PROVE  CachesAreTrue'
  <2> DEFINE content == TextOf(m, code, imports)
  <2>1. /\ analysed' = Updated([c \in {content} |-> [file |-> m, found |-> Opportunities(c)]], analysed)
        /\ deadCode' = deadCode
    BY <1>4 DEF AnalyzeFile
  <2> HIDE DEF content
  <2>2. \A text \in DOMAIN analysed' : \/ text \in DOMAIN analysed /\ analysed'[text] = analysed[text]
                                       \/ analysed'[text].found = Opportunities(text)
    BY <2>1 DEF Updated
  <2>3. QED
    BY <2>1, <2>2 DEF CachesAreTrue
<1>5. CASE BeginCampaign
  <2> DEFINE T == {TextOf(m, code, imports) : m \in Modules}
             first(text) == CHOOSE m \in Modules : TextOf(m, code, imports) = text
  <2>1. /\ analysed' = Updated([text \in T |-> [file |-> first(text), found |-> Opportunities(text)]], analysed)
        /\ deadCode' = deadCode
    BY <1>5 DEF BeginCampaign, Audited
  <2> HIDE DEF T, first
  <2>2. \A text \in DOMAIN analysed' : \/ text \in DOMAIN analysed /\ analysed'[text] = analysed[text]
                                       \/ analysed'[text].found = Opportunities(text)
    BY <2>1 DEF Updated
  <2>3. QED
    BY <2>1, <2>2 DEF CachesAreTrue
<1>6. ASSUME Documenting \/ Decompose \/ IndexCodebase
      PROVE  UNCHANGED <<deadCode, analysed>>
  BY <1>6 DEF Documenting, GenerateDocs, GetContextMap, Decompose, IndexCodebase, analysisVars, cacheVars
<1>7. ASSUME OrderImports \/ ApplyText \/ ApplySpec \/ EndSpecs \/ EndCampaign \/ EndPlan
      PROVE  UNCHANGED <<deadCode, analysed>>
  BY <1>7 DEF OrderImports, ApplyText, ApplySpec, EndSpecs, EndCampaign, EndPlan, analysisVars, cacheVars
<1>8. ASSUME NEW use, BeginPlan(use) \/ Propose(use)
      PROVE  UNCHANGED <<deadCode, analysed>>
  BY <1>8 DEF BeginPlan, Propose, analysisVars, cacheVars
<1>9. ASSUME NEW d, NEW body, Edit(d, body)
      PROVE  UNCHANGED <<deadCode, analysed>>
  BY <1>9 DEF Edit, cacheVars
<1>10. ASSUME NEW m, FindDuplicates \/ FindRelated(m)
       PROVE  UNCHANGED <<deadCode, analysed>>
  BY <1>10 DEF FindDuplicates, FindRelated, cacheVars
<1>11. QED
  BY <1>1, <1>2, <1>4, <1>5, <1>6, <1>7, <1>8, <1>9, <1>10
     DEF WorkbenchNext, Going, Using, workbenchVars, analysisVars, cacheVars

(* No step of anybody leaves a report standing that is not of the code as it is. *)
LEMMA ReportStep ==
  ASSUME CachesAreTrue, CachesAreTrue', ReportsAreFresh, [WorkbenchNext]_workbenchVars
  PROVE  ReportsAreFresh'
<1>1. CASE UNCHANGED <<report, code, imports>>
  BY <1>1 DEF ReportsAreFresh
<1>2. CASE report'.tool \notin {"find_dead_code", "analyze_file"}
  BY <1>2 DEF ReportsAreFresh
<1>3. CASE FindDeadCode
  <2>1. /\ report'.tool = "find_dead_code" /\ code' = code
        /\ report'.dead = IF Signature(code) \in DOMAIN deadCode THEN deadCode[Signature(code)] ELSE Dead(code)
    BY <1>3 DEF FindDeadCode
  <2>2. Signature(code)[1] = code
    BY DEF Signature
  <2>3. QED
    BY <2>1, <2>2 DEF CachesAreTrue, ReportsAreFresh
<1>4. ASSUME NEW m, AnalyzeFile(m)
      PROVE  ReportsAreFresh'
  <2> DEFINE content == TextOf(m, code, imports)
  <2>1. /\ analysed' = Updated([c \in {content} |-> [file |-> m, found |-> Opportunities(c)]], analysed)
        /\ report'.tool = "analyze_file" /\ report'.of = m /\ report'.result = analysed'[content]
        /\ UNCHANGED <<code, imports>>
    BY <1>4 DEF AnalyzeFile
  <2> HIDE DEF content
  <2>2. content \in DOMAIN analysed'
    BY <2>1 DEF Updated
  <2>3. report'.result.found = Opportunities(content)
    BY <2>1, <2>2 DEF CachesAreTrue
  <2>4. TextOf(report.of, code, imports)' = content
    BY <2>1 DEF content
  <2>5. QED
    BY <2>1, <2>3, <2>4 DEF ReportsAreFresh
<1>5. ASSUME Documenting
      PROVE  report'.tool \notin {"find_dead_code", "analyze_file"}
  BY <1>5 DEF Documenting, GenerateDocs, GetContextMap, Generated
<1>6. ASSUME NEW m, FindDuplicates \/ FindRelated(m)
      PROVE  report'.tool \notin {"find_dead_code", "analyze_file"}
  BY <1>6 DEF FindDuplicates, FindRelated
<1>7. ASSUME NEW d, NEW body, NEW use, Edit(d, body) \/ BeginPlan(use) \/ BeginCampaign \/ OrderImports \/ ApplySpec
      PROVE  report'.tool \notin {"find_dead_code", "analyze_file"}
  <2>1. Edit(d, body) => report' = [tool |-> "none"]
    BY DEF Edit
  <2>2. BeginPlan(use) => report' = [tool |-> "llm_plan"]
    BY DEF BeginPlan
  <2>3. BeginCampaign => report' = [tool |-> "run_agents"]
    BY DEF BeginCampaign
  <2>4. OrderImports \/ ApplySpec => report' = [tool |-> "none"]
    BY DEF OrderImports, ApplySpec
  <2>5. QED
    BY <1>7, <2>1, <2>2, <2>3, <2>4
<1>8. ASSUME NEW use, Decompose \/ IndexCodebase \/ Propose(use) \/ ApplyText \/ EndSpecs \/ EndCampaign \/ EndPlan
      PROVE  UNCHANGED <<report, code, imports>>
  BY <1>8 DEF Decompose, IndexCodebase, Propose, ApplyText, EndSpecs, EndCampaign, EndPlan, analysisVars
<1>9. QED
  BY <1>1, <1>2, <1>3, <1>4, <1>5, <1>6, <1>7, <1>8
     DEF WorkbenchNext, Going, Using, workbenchVars, analysisVars

(* "A re-seen, unchanged tree returns the prior result" (dead_code.py:37), and a
   changed one never: for any repository, edits and calls, what find_dead_code
   and analyze_file return is of the code as it is. *)
THEOREM ReportsStayFresh == WorkbenchSpec => []ReportsAreFresh
<1> DEFINE Inv == CachesAreTrue /\ ReportsAreFresh
<1>1. WorkbenchInit => Inv
  BY DEF WorkbenchInit, AnalysesInit, CachesAreTrue, ReportsAreFresh
<1>2. Inv /\ [WorkbenchNext]_workbenchVars => Inv'
  BY CachesStep, ReportStep
<1>3. QED
  BY <1>1, <1>2, PTL DEF WorkbenchSpec

(* "The 2nd, 5th, Nth similar function is handled the same way"
   (decision_memory.py:6): if the model uses the names it is told to use, what was
   decided for a shape, with names, stands, whichever caller asked, whatever was
   edited, and whatever the record replays or the index loses. *)
THEOREM DecisionsOfAFaithfulModelStand ==
  ASSUME Faithful
  PROVE  WorkbenchSpec => DecisionsStand
<1>1. WorkbenchInit => RecordIsOfTheModel
  BY DEF WorkbenchInit, PlannerInit, RecordIsOfTheModel
<1>2. RecordIsOfTheModel /\ [WorkbenchNext]_workbenchVars => RecordIsOfTheModel'
  BY RecordStep
<1>3. RecordIsOfTheModel /\ [WorkbenchNext]_workbenchVars =>
        [\A shape \in DOMAIN decisions :
           shape \in DOMAIN decisions' /\ decisions[shape] \in {decisions'[shape], None}]_decisions
  BY Faithful, RecordStep DEF DecisionsGrow
<1>4. QED
  BY <1>1, <1>2, <1>3, PTL DEF WorkbenchSpec, DecisionsStand
-----------------------------------------------------------------------------
(* The index of the codebase. *)

IndexedAsFound ==
  LET old == Stored("codebase")
      new == Stored("codebase")'
  IN  /\ \A d \in DOMAIN SymbolLines \cap DOMAIN session.graph :
           LineOf(d) = session.graph[d] => new[SymbolKey(d)] = code[d]
      /\ \A key \in DOMAIN new :
           \/ key \in DOMAIN old /\ new[key] = old[key]
           \/ \E e \in DOMAIN SymbolLines : NameOf[e] = NameOf[key[2]] /\ new[key] = code[e]

(* What is found for a symbol is a definition of its name, and the symbol itself
   alone if it stands where the graph has it. *)
LEMMA FoundFacts ==
  ASSUME NEW d, NEW line
  PROVE  /\ \A e \in FoundAt(d, line) : e \in DOMAIN SymbolLines /\ NameOf[e] = NameOf[d]
         /\ d \in DOMAIN SymbolLines /\ LineOf(d) = line => FoundAt(d, line) = {d}
<1> DEFINE there == {e \in Defs \ Assignments : /\ HomeOf[e] = HomeOf[d] /\ NameOf[e] = NameOf[d]
                                                 /\ code[e] # Gone /\ LineOf(e) = line}
<1>1. DOMAIN SymbolLines = {e \in Defs \ Assignments : code[e] # Gone}
  BY DEF SymbolLines, Present
<1>2. FoundAt(d, line) = IF d \in there THEN {d} ELSE there
  BY DEF FoundAt
<1>3. QED
  BY <1>1, <1>2

(* What build_codebase_index skips is indexed as it is; what it does not skip it
   writes, as it is found. *)
LEMMA IndexingCovers ==
  ASSUME StoresTyped, IndexCodebase, semantic, backend' = backend
  PROVE  IndexedAsFound
<1> DEFINE sources == SourceOf(session.graph)
           pending == {s \in sources : ~Remembers(s)}
           row(key) == CHOOSE s \in pending : SymbolKey(s.symbol) = key
           vectors == [key \in {SymbolKey(s.symbol) : s \in pending} |-> row(key).body]
<1>1. Upsert("codebase", vectors)
  BY DEF IndexCodebase
<1>2. \A s \in sources : /\ s.symbol \in DOMAIN session.graph
                         /\ \E e \in FoundAt(s.symbol, session.graph[s.symbol]) : s.body = code[e]
  BY DEF SourceOf
<1>3. \A d \in DOMAIN session.graph : \A e \in FoundAt(d, session.graph[d]) :
        [symbol |-> d, body |-> code[e]] \in sources
  BY DEF SourceOf
<1>4. \A d, e : SymbolKey(d) = SymbolKey(e) => d = e
  BY DEF SymbolKey
<1>5. \A d : SymbolKey(d)[2] = d
  BY DEF SymbolKey
<1>6. \A s \in sources \ pending : SymbolKey(s.symbol) \in DOMAIN Stored("codebase")
                                   /\ Stored("codebase")[SymbolKey(s.symbol)] = s.body
  BY DEF Remembers, Remembered
<1> HIDE DEF sources
<1>7. \A key \in DOMAIN vectors : /\ row(key) \in pending /\ SymbolKey(row(key).symbol) = key
                                  /\ vectors[key] = row(key).body
  OBVIOUS
<1>8. DOMAIN vectors = {SymbolKey(s.symbol) : s \in pending}
  OBVIOUS
<1>9. pending \subseteq sources
  OBVIOUS
<1> HIDE DEF vectors, row, pending
<1>10. /\ DOMAIN Stored("codebase")' = DOMAIN Stored("codebase") \cup DOMAIN vectors
       /\ \A key \in DOMAIN vectors : Stored("codebase")'[key] = vectors[key]
       /\ \A key \in (DOMAIN Stored("codebase")) \ DOMAIN vectors :
            Stored("codebase")'[key] = Stored("codebase")[key]
  BY <1>1, UpsertFacts, HandlesAssumption
<1>11. ASSUME NEW d \in DOMAIN SymbolLines \cap DOMAIN session.graph, LineOf(d) = session.graph[d]
       PROVE  Stored("codebase")'[SymbolKey(d)] = code[d]
  <2>1. FoundAt(d, session.graph[d]) = {d}
    BY <1>11, FoundFacts
  <2>2. \A s \in sources : s.symbol = d => s.body = code[d]
    BY <1>2, <2>1
  <2> DEFINE own == [symbol |-> d, body |-> code[d]]
  <2>3. own \in sources /\ own.symbol = d /\ own.body = code[d]
    BY <1>3, <2>1
  <2> HIDE DEF own
  <2>4. CASE own \in pending
    <3>1. SymbolKey(d) \in DOMAIN vectors
      BY <1>8, <2>3, <2>4
    <3>2. row(SymbolKey(d)) \in sources /\ row(SymbolKey(d)).symbol = d
      BY <1>4, <1>7, <1>9, <3>1
    <3>3. QED
      BY <1>7, <1>10, <2>2, <3>1, <3>2
  <2>5. CASE own \notin pending
    <3>1. SymbolKey(d) \in DOMAIN Stored("codebase") /\ Stored("codebase")[SymbolKey(d)] = code[d]
      BY <1>6, <2>3, <2>5
    <3>2. CASE SymbolKey(d) \in DOMAIN vectors
      <4>1. row(SymbolKey(d)) \in sources /\ row(SymbolKey(d)).symbol = d
        BY <1>4, <1>7, <1>9, <3>2
      <4>2. QED
        BY <1>7, <1>10, <2>2, <3>2, <4>1
    <3>3. CASE SymbolKey(d) \notin DOMAIN vectors
      BY <1>10, <3>1, <3>3
    <3>4. QED
      BY <3>2, <3>3
  <2>6. QED
    BY <2>4, <2>5
<1>12. ASSUME NEW key \in DOMAIN vectors
       PROVE  \E e \in DOMAIN SymbolLines : NameOf[e] = NameOf[key[2]] /\ Stored("codebase")'[key] = code[e]
  <2>1. PICK s \in sources : SymbolKey(s.symbol) = key /\ vectors[key] = s.body
    BY <1>7, <1>9
  <2>2. PICK e \in FoundAt(s.symbol, session.graph[s.symbol]) : s.body = code[e]
    BY <1>2
  <2>3. key[2] = s.symbol
    BY <1>5, <2>1
  <2>4. e \in DOMAIN SymbolLines /\ NameOf[e] = NameOf[s.symbol]
    BY FoundFacts
  <2>5. QED
    BY <1>10, <2>1, <2>2, <2>3, <2>4
<1>13. \A key \in DOMAIN Stored("codebase")' :
         \/ key \in DOMAIN Stored("codebase") /\ Stored("codebase")'[key] = Stored("codebase")[key]
         \/ \E e \in DOMAIN SymbolLines :
              NameOf[e] = NameOf[key[2]] /\ Stored("codebase")'[key] = code[e]
  BY <1>10, <1>12
<1>14. QED
  BY <1>11, <1>13 DEF IndexedAsFound

(* Only build_codebase_index ends an indexing. *)
LEMMA OnlyIndexing ==
  ASSUME SessionInv, WorkbenchNext, session.open, ~session.indexed, session'.indexed, session' # session
  PROVE  IndexCodebase
<1>1. session # Closed /\ session.peers /\ campaign.at = "idle"
  BY DEF SessionInv, SessionTyped, OneSession, Closed
<1>2. ~Ready
  BY DEF Ready
<1>3. ~(OrderImports \/ ApplyText \/ ApplySpec \/ EndSpecs \/ EndCampaign \/ EndPlan \/ Decompose)
  BY <1>1 DEF OrderImports, ApplyText, ApplySpec, EndSpecs, EndCampaign, EndPlan, Decompose, AtTask
<1>4. \A use : ~Propose(use)
  BY <1>1 DEF Propose, AtTask
<1>5. QED
  BY <1>2, <1>3, <1>4 DEF WorkbenchNext, Going, plannerVars

(* "Unchanged symbols are skipped on re-index" (codebase_index.py:14), and only
   they: while RedisVL does not fail half way, a session goes on with an index that
   has the body of now of every symbol that stands where the graph of the session
   has it, and for any other nothing new but the body of now of a namesake,
   whatever older sessions have left in either store. *)
THEOREM IndexIsOfTheCode == WorkbenchSpec => IndexFollowsCode
<1> DEFINE Inv == StoresTyped /\ SessionInv
<1>1. WorkbenchInit => Inv
  BY DEF WorkbenchInit, AnalysesInit, IndexInit, PlannerInit, StoresTyped, SessionInv, SessionTyped, CampaignTyped,
     OneSession, Closed, Idle
<1>2. Inv /\ [WorkbenchNext]_workbenchVars => Inv'
  BY StoresStep, SessionStep
<1>3. Inv /\ [WorkbenchNext]_workbenchVars =>
        [session.open /\ ~session.indexed /\ session'.indexed /\ semantic /\ backend' = backend =>
           IndexedAsFound]_<<session, indexVars>>
  <2> SUFFICES ASSUME Inv, WorkbenchNext, session.open, ~session.indexed, session'.indexed, semantic,
                      backend' = backend
               PROVE  IndexedAsFound
    BY DEF workbenchVars, plannerVars
  <2>1. session' # session
    OBVIOUS
  <2>2. QED
    BY <2>1, OnlyIndexing, IndexingCovers
<1>4. QED
  BY <1>1, <1>2, <1>3, PTL DEF WorkbenchSpec, IndexFollowsCode, IndexedAsFound
-----------------------------------------------------------------------------
(* The order of imports. *)

(* A strict total order of a finite set lists it. *)
LEMMA RankedListing ==
  ASSUME NEW S, IsFiniteSet(S), NEW R \in SUBSET (S \X S),
         \A x \in S : <<x, x>> \notin R,
         \A x, y, z \in S : <<x, y>> \in R /\ <<y, z>> \in R => <<x, z>> \in R,
         \A x, y \in S : x = y \/ <<x, y>> \in R \/ <<y, x>> \in R
  PROVE  \E s \in SetToSeqs(S) : \A i, j \in DOMAIN s : i < j => <<s[i], s[j]>> \in R
<1> DEFINE n == Cardinality(S)
           B(x) == {y \in S : <<y, x>> \in R}
           rank == [x \in S |-> Cardinality(B(x)) + 1]
<1>1. n \in Nat
  BY FS_CardinalityType
<1>2. ASSUME NEW x \in S
      PROVE  /\ IsFiniteSet(B(x)) /\ Cardinality(B(x)) \in Nat
             /\ Cardinality(B(x)) < n
  <2>1. B(x) \in SUBSET S /\ B(x) # S
    OBVIOUS
  <2> HIDE DEF B
  <2>2. /\ IsFiniteSet(B(x)) /\ Cardinality(B(x)) <= n
        /\ (n = Cardinality(B(x)) => S = B(x))
    BY <2>1, FS_Subset
  <2>3. Cardinality(B(x)) \in Nat
    BY <2>2, FS_CardinalityType
  <2> HIDE DEF n
  <2>4. QED
    BY <1>1, <2>1, <2>2, <2>3
<1>3. ASSUME NEW x \in S, NEW y \in S, <<x, y>> \in R
      PROVE  Cardinality(B(x)) < Cardinality(B(y))
  <2>1. B(x) \subseteq B(y) /\ x \in B(y) /\ x \notin B(x)
    BY <1>3
  <2>2. IsFiniteSet(B(y)) /\ Cardinality(B(y)) \in Nat /\ Cardinality(B(x)) \in Nat
    BY <1>2
  <2> HIDE DEF B
  <2>3. B(x) \in SUBSET B(y) /\ B(x) # B(y)
    BY <2>1
  <2>4. /\ Cardinality(B(x)) <= Cardinality(B(y))
        /\ Cardinality(B(y)) = Cardinality(B(x)) => B(y) = B(x)
    BY <2>2, <2>3, FS_Subset
  <2>5. QED
    BY <2>2, <2>3, <2>4
<1>4. /\ rank \in [S -> 1 .. n]
      /\ \A x, y \in S : <<x, y>> \in R => rank[x] < rank[y]
  <2>1. \A x \in S : rank[x] = Cardinality(B(x)) + 1 /\ Cardinality(B(x)) + 1 \in 1 .. n
    <3> HIDE DEF B, n
    <3>1. QED
      BY <1>1, <1>2
  <2>2. rank \in [S -> 1 .. n]
    BY <2>1
  <2> HIDE DEF B, n, rank
  <2>3. \A x, y \in S : <<x, y>> \in R => rank[x] < rank[y]
    BY <1>2, <1>3, <2>1
  <2>4. QED
    BY <2>2, <2>3
<1> HIDE DEF rank, B
<1>5. \A x, y \in S : rank[x] = rank[y] => x = y
  <2>1. \A x \in S : rank[x] \in Nat
    <3> HIDE DEF n
    <3>1. QED
      BY <1>1, <1>4
  <2>2. ASSUME NEW x \in S, NEW y \in S, rank[x] = rank[y], x # y PROVE FALSE
    <3>1. rank[x] < rank[y] \/ rank[y] < rank[x]
      BY <1>4, <2>2
    <3>2. QED
      BY <2>1, <2>2, <3>1
  <2>3. QED
    BY <2>2
<1>6. \A i \in 1 .. n : \E x \in S : rank[x] = i
  <2>1. rank \in Injection(S, 1 .. n)
    BY <1>4, <1>5 DEF Injection, IsInjective
  <2>2. IsFiniteSet(1 .. n) /\ Cardinality(1 .. n) = n
    <3> HIDE DEF n
    <3>1. IsFiniteSet(1 .. n) /\ Cardinality(1 .. n) = IF 1 > n THEN 0 ELSE n - 1 + 1
      BY <1>1, FS_Interval
    <3>2. QED
      BY <1>1, <3>1
  <2>3. rank \in Surjection(S, 1 .. n)
    BY <2>1, <2>2, FS_Injection
  <2>4. QED
    BY <2>3 DEF Surjection
<1> DEFINE s == [i \in 1 .. n |-> CHOOSE x \in S : rank[x] = i]
<1>7. \A i \in 1 .. n : s[i] \in S /\ rank[s[i]] = i
  BY <1>6
<1>8. s \in [1 .. n -> S] /\ DOMAIN s = 1 .. n
  BY <1>7
<1> HIDE DEF s
<1>9. s \in SetToSeqs(S)
  BY <1>7, <1>8 DEF SetToSeqs
<1>10. ASSUME NEW i \in DOMAIN s, NEW j \in DOMAIN s, i < j PROVE <<s[i], s[j]>> \in R
  <2>1. /\ s[i] \in S /\ s[j] \in S /\ rank[s[i]] = i /\ rank[s[j]] = j
        /\ i \in 1 .. n /\ j \in 1 .. n
    BY <1>7, <1>8
  <2>2. i \in Nat /\ j \in Nat
    BY <1>1, <2>1
  <2>3. s[i] # s[j] /\ ~ (j < i)
    BY <1>10, <2>1, <2>2
  <2>4. <<s[j], s[i]>> \in R => rank[s[j]] < rank[s[i]]
    BY <1>4, <2>1
  <2>5. QED
    BY <2>1, <2>3, <2>4
<1>11. QED
  BY <1>9, <1>10

(* A listing of a finite set has all its members. *)
LEMMA ListsAll ==
  ASSUME NEW S, IsFiniteSet(S), NEW s \in SetToSeqs(S)
  PROVE  /\ s \in [1 .. Cardinality(S) -> S] /\ Cardinality(S) \in Nat
         /\ \A i, j \in 1 .. Cardinality(S) : i # j => s[i] # s[j]
         /\ \A x \in S : \E i \in 1 .. Cardinality(S) : s[i] = x
<1> DEFINE n == Cardinality(S)
<1>1. n \in Nat
  BY FS_CardinalityType
<1>2. s \in [1 .. n -> S] /\ \A i, j \in 1 .. n : i # j => s[i] # s[j]
  BY DEF SetToSeqs
<1>3. s \in Injection(1 .. n, S)
  BY <1>2 DEF Injection, IsInjective
<1>4. IsFiniteSet(1 .. n) /\ Cardinality(1 .. n) = n
  <2> HIDE DEF n
  <2>1. IsFiniteSet(1 .. n) /\ Cardinality(1 .. n) = IF 1 > n THEN 0 ELSE n - 1 + 1
    BY <1>1, FS_Interval
  <2>2. QED
    BY <1>1, <2>1
<1>5. s \in Surjection(1 .. n, S)
  BY <1>3, <1>4, FS_Injection
<1>6. QED
  BY <1>1, <1>2, <1>5 DEF Surjection

(* The sections of a block. *)
LEMMA ClassType ==
  \A x : Class(x) \in 0 .. 2
BY DEF Class

(* sorted() by _sort_key, of a finite set of statements. *)
LEMMA BlockIsSorted ==
  ASSUME StatementsAssumption, NEW S \in SUBSET Statements, IsFiniteSet(S)
  PROVE  /\ Block(S) \in SetToSeqs(S)
         /\ \A i, j \in DOMAIN Block(S) : i < j => ~SortsBefore(Block(S)[j], Block(S)[i])
<1>a. PICK n \in Nat : ExistsBijection(1 .. n, S)
  BY FS_NatBijection
<1>1. PICK name : name \in Bijection(1 .. n, S)
  BY <1>a DEF ExistsBijection
<1> DEFINE at == [x \in S |-> CHOOSE i \in 1 .. n : name[i] = x]
<1>2. \A x \in S : at[x] \in 1 .. n /\ name[at[x]] = x
  BY <1>1 DEF Bijection, Surjection
<1>3. \A x \in S : at[x] \in Nat
  BY <1>2
<1>4. \A x, y \in S : at[x] = at[y] => x = y
  BY <1>2
<1> HIDE DEF at
<1> DEFINE Less(x, y) == SortsBefore(x, y) \/ (~SortsBefore(y, x) /\ at[x] < at[y])
           R == {p \in S \X S : Less(p[1], p[2])}
<1>5. \A x \in S : AlphaOf[x] \in Int /\ Class(x) \in Int
  BY ClassType DEF StatementsAssumption
<1>6. \A x, y \in S : <<x, y>> \in R <=> Less(x, y)
  OBVIOUS
<1>7. \A x \in S : ~Less(x, x)
  BY <1>3, <1>5 DEF SortsBefore
<1>8. \A x, y, z \in S : Less(x, y) /\ Less(y, z) => Less(x, z)
  BY <1>3, <1>5 DEF SortsBefore
<1>9. \A x, y \in S : x = y \/ Less(x, y) \/ Less(y, x)
  BY <1>3, <1>4, <1>5 DEF SortsBefore
<1>10. \A x, y \in S : Less(x, y) => ~SortsBefore(y, x)
  BY <1>5 DEF SortsBefore
<1>11. R \in SUBSET (S \X S)
  OBVIOUS
<1> HIDE DEF R, Less
<1>12. PICK s \in SetToSeqs(S) : \A i, j \in DOMAIN s : i < j => <<s[i], s[j]>> \in R
  BY <1>6, <1>7, <1>8, <1>9, <1>11, RankedListing
<1>13. \A i \in DOMAIN s : s[i] \in S
  BY <1>12, ListsAll
<1>14. \A i, j \in DOMAIN s : i < j => ~SortsBefore(s[j], s[i])
  BY <1>6, <1>10, <1>12, <1>13
<1>15. QED
  BY <1>12, <1>14 DEF Block

(* Of numbers there is a least one. *)
LEMMA HasLeast ==
  ASSUME NEW S \in SUBSET Nat, S # {}
  PROVE  \E x \in S : \A y \in S : x <= y
<1>1. IsWellFoundedOn(OpToRel(<, Nat), Nat)
  BY NatLessThanWellFounded
<1>2. PICK x \in S : \A y \in S : ~(<<y, x>> \in OpToRel(<, Nat))
  BY <1>1, WFMin
<1>3. \A y \in S : ~(y < x)
  BY <1>2 DEF OpToRel
<1>4. QED
  BY <1>3

(* The first and the last of a set of places. *)
LEMMA Ends ==
  ASSUME NEW n \in Nat, NEW at \in SUBSET (1 .. n), at # {}
  PROVE  /\ Min(at) \in at /\ \A i \in at : Min(at) <= i
         /\ Max(at) \in at /\ \A i \in at : i <= Max(at)
<1>1. at \in SUBSET Nat
  OBVIOUS
<1>2. \E i \in at : \A j \in at : i <= j
  BY <1>1, HasLeast
<1>3. \E i \in at : \A j \in at : j <= i
  <2> DEFINE up == {n - i : i \in at}
  <2>1. \A i \in at : n - i \in Nat
    OBVIOUS
  <2>2. up \in SUBSET Nat /\ up # {}
    BY <2>1
  <2>3. PICK k \in up : \A j \in up : k <= j
    <3> HIDE DEF up
    <3>1. QED
      BY <2>2, HasLeast
  <2>4. PICK i \in at : k = n - i
    OBVIOUS
  <2>5. \A j \in at : n - i <= n - j
    BY <2>3, <2>4
  <2>6. QED
    BY <1>1, <2>5
<1>4. QED
  BY <1>2, <1>3 DEF Min, Max

(* What a file is after its imports were put in order, place by place: what was
   before them, the block, what was after them. *)
LEMMA ReorderedShape ==
  ASSUME StatementsAssumption, NEW lines \in Seq(Lines), ImportLines(lines) # {}
  PROVE  LET at == ImportLines(lines)
             S == {lines[i] : i \in at}
             first == Min(at)
             last == Max(at)
             p == first - 1
             k == Cardinality(S)
             settled == Reordered(lines)
         IN  /\ S \in SUBSET Statements /\ IsFiniteSet(S) /\ S # {} /\ k \in Nat /\ k > 0
             /\ p \in Nat /\ first \in Nat /\ last \in Nat /\ last <= Len(lines)
             /\ settled \in Seq(Lines) /\ Len(settled) = p + k + (Len(lines) - last)
             /\ \A i \in 1 .. p : settled[i] = lines[i] /\ settled[i] \notin Statements
             /\ \A i \in p + 1 .. p + k : settled[i] = Block(S)[i - p] /\ settled[i] \in S
             /\ \A i \in p + k + 1 .. Len(settled) :
                  settled[i] = lines[last + i - p - k] /\ settled[i] \notin Statements
<1> DEFINE at == ImportLines(lines)
           S == {lines[i] : i \in at}
           n == Len(lines)
           first == Min(at)
           last == Max(at)
           p == first - 1
           k == Cardinality(S)
           head == SubSeq(lines, 1, first - 1)
           block == Block(S)
           tail == SubSeq(lines, last + 1, n)
<1>1. n \in Nat /\ DOMAIN lines = 1 .. n /\ \A i \in 1 .. n : lines[i] \in Lines
  BY LenProperties, ElementOfSeq
<1>2. /\ at \in SUBSET (1 .. n) /\ at # {} /\ \A i \in at : lines[i] \in Statements
      /\ \A i \in 1 .. n : i \notin at => lines[i] \notin Statements
  BY <1>1 DEF ImportLines
<1> HIDE DEF at
<1>3. /\ first \in at /\ \A i \in at : first <= i
      /\ last \in at /\ \A i \in at : i <= last
  BY <1>1, <1>2, Ends
<1>4. /\ first \in 1 .. n /\ last \in 1 .. n
  BY <1>2, <1>3
<1> HIDE DEF first, last
<1>5. IsFiniteSet(at)
  <2>1. IsFiniteSet(1 .. n)
    BY <1>1, FS_Interval
  <2>2. QED
    BY <1>2, <2>1, FS_Subset
<1>6. IsFiniteSet(S) /\ S \in SUBSET Statements /\ S # {}
  <2> DEFINE f == [i \in at |-> lines[i]]
  <2>1. f \in Surjection(at, S)
    BY DEF Surjection
  <2>2. IsFiniteSet(S)
    <3> HIDE DEF f, S
    <3>1. QED
      BY <1>5, <2>1, FS_Surjection
  <2>3. S \in SUBSET Statements
    BY <1>2
  <2>4. S # {}
    <3>1. PICK i \in at : TRUE
      BY <1>2
    <3>2. lines[i] \in S
      OBVIOUS
    <3>3. QED
      BY <3>2
  <2>5. QED
    BY <2>2, <2>3, <2>4
<1> HIDE DEF S
<1>7. k \in Nat /\ k > 0
  <2>1. k \in Nat /\ (k = 0 <=> S = {})
    BY <1>6, FS_CardinalityType, FS_EmptySet
  <2>2. QED
    BY <1>6, <2>1
<1>8. block \in [1 .. k -> S]
  <2>1. block \in SetToSeqs(S)
    BY <1>6, BlockIsSorted
  <2>2. QED
    BY <1>6, <2>1, ListsAll
<1> HIDE DEF k, block
<1>9. block \in Seq(Lines) /\ Len(block) = k /\ \A i \in 1 .. k : block[i] \in S
  <2>1. S \subseteq Lines
    BY <1>6 DEF StatementsAssumption
  <2>2. block \in Seq(S) /\ Len(block) = k
    BY <1>7, <1>8
  <2>3. QED
    BY <1>8, <2>1, <2>2, SeqMonotonic
<1>10. /\ head \in Seq(Lines) /\ Len(head) = p
       /\ \A i \in 1 .. p : head[i] = lines[i]
  <2>1. p \in Int /\ 1 \in Int /\ \A i \in 1 .. p : lines[i] \in Lines
    BY <1>1, <1>4
  <2>2. /\ head \in Seq(Lines) /\ Len(head) = (IF 1 <= p THEN p - 1 + 1 ELSE 0)
        /\ \A i \in 1 .. p - 1 + 1 : head[i] = lines[1 + i - 1]
    BY <2>1, SubSeqProperties
  <2>3. QED
    BY <1>4, <2>2
<1>11. /\ tail \in Seq(Lines) /\ Len(tail) = n - last
       /\ \A i \in 1 .. n - last : tail[i] = lines[last + i]
  <2>1. last + 1 \in Int /\ n \in Int /\ \A i \in last + 1 .. n : lines[i] \in Lines
    BY <1>1, <1>4
  <2>2. /\ tail \in Seq(Lines) /\ Len(tail) = (IF last + 1 <= n THEN n - (last + 1) + 1 ELSE 0)
        /\ \A i \in 1 .. n - (last + 1) + 1 : tail[i] = lines[last + 1 + i - 1]
    BY <2>1, SubSeqProperties
  <2>3. n - (last + 1) + 1 = n - last /\ \A i : i \in 1 .. n - last => last + 1 + i - 1 = last + i
    BY <1>1, <1>4
  <2>4. Len(tail) = n - last
    <3> HIDE DEF tail
    <3>1. last \in Nat /\ last <= n
      BY <1>1, <1>4
    <3>2. n \in Nat
      BY <1>1
    <3>3. Len(tail) = (IF last + 1 <= n THEN n - (last + 1) + 1 ELSE 0)
      BY <2>2
    <3> HIDE DEF n
    <3>4. CASE last + 1 <= n
      BY <3>1, <3>2, <3>3, <3>4
    <3>5. CASE ~(last + 1 <= n)
      BY <3>1, <3>2, <3>3, <3>5
    <3>6. QED
      BY <3>4, <3>5
  <2>5. QED
    <3> HIDE DEF tail
    <3>1. QED
      BY <2>2, <2>3, <2>4
<1>12. Reordered(lines) = head \o block \o tail
  BY <1>2 DEF Reordered, at, S, block, first, last
<1> HIDE DEF head, tail, n
<1> DEFINE front == head \o block
           settled == Reordered(lines)
<1>13. /\ front \in Seq(Lines) /\ Len(front) = p + k
       /\ \A i \in 1 .. p + k : front[i] = IF i <= p THEN head[i] ELSE block[i - p]
  <2> HIDE DEF p
  <2>1. head \in Seq(Lines) /\ block \in Seq(Lines) /\ Len(head) = p /\ Len(block) = k
    BY <1>9, <1>10
  <2>2. /\ front \in Seq(Lines) /\ Len(front) = Len(head) + Len(block)
        /\ \A i \in 1 .. Len(head) + Len(block) :
             front[i] = IF i <= Len(head) THEN head[i] ELSE block[i - Len(head)]
    BY <2>1, ConcatProperties
  <2>3. QED
    BY <2>1, <2>2
<1> HIDE DEF front
<1>14. /\ settled \in Seq(Lines) /\ Len(settled) = p + k + (n - last)
       /\ \A i \in 1 .. p + k + (n - last) : settled[i] = IF i <= p + k THEN front[i] ELSE tail[i - (p + k)]
  <2>1. settled = front \o tail
    BY <1>12 DEF front
  <2> HIDE DEF settled, p
  <2>2. front \in Seq(Lines) /\ tail \in Seq(Lines) /\ Len(front) = p + k /\ Len(tail) = n - last
    BY <1>11, <1>13
  <2>3. /\ settled \in Seq(Lines) /\ Len(settled) = Len(front) + Len(tail)
        /\ \A i \in 1 .. Len(front) + Len(tail) :
             settled[i] = IF i <= Len(front) THEN front[i] ELSE tail[i - Len(front)]
    BY <2>1, <2>2, ConcatProperties
  <2>4. QED
    BY <2>2, <2>3
<1> HIDE DEF settled
<1>15. p \in Nat
  BY <1>1, <1>4
<1>16. ASSUME NEW i \in 1 .. p
       PROVE  settled[i] = lines[i] /\ settled[i] \notin Statements
  <2>1. i \in 1 .. p + k + (n - last) /\ i <= p + k /\ i <= p /\ i \in 1 .. p + k
    BY <1>1, <1>4, <1>7, <1>15
  <2>2. settled[i] = lines[i]
    BY <1>10, <1>13, <1>14, <2>1
  <2>3. i \in 1 .. n /\ ~(first <= i)
    BY <1>1, <1>4
  <2>4. QED
    BY <1>2, <1>3, <2>2, <2>3
<1>17. ASSUME NEW i \in p + 1 .. p + k
       PROVE  settled[i] = block[i - p] /\ settled[i] \in S
  <2>1. i \in 1 .. p + k + (n - last) /\ i <= p + k /\ ~(i <= p) /\ i \in 1 .. p + k /\ i - p \in 1 .. k
    BY <1>1, <1>4, <1>7, <1>15
  <2>2. QED
    BY <1>9, <1>13, <1>14, <2>1
<1>18. ASSUME NEW i \in p + k + 1 .. Len(settled)
       PROVE  settled[i] = lines[last + i - p - k] /\ settled[i] \notin Statements
  <2>1. /\ i \in 1 .. p + k + (n - last) /\ ~(i <= p + k) /\ i - (p + k) \in 1 .. n - last
        /\ last + (i - (p + k)) = last + i - p - k
        /\ last + i - p - k \in 1 .. n /\ ~(last + i - p - k <= last)
    BY <1>1, <1>4, <1>7, <1>14, <1>15
  <2>2. settled[i] = lines[last + i - p - k]
    BY <1>11, <1>14, <2>1
  <2>3. QED
    BY <1>2, <1>3, <2>1, <2>2
<1>19. first \in Nat /\ last \in Nat /\ last <= n
  BY <1>1, <1>4
<1>20. QED
  BY <1>6, <1>7, <1>14, <1>15, <1>16, <1>17, <1>18, <1>19 DEF at, S, first, last, k, block, settled, n

(* The statements that the two readings of the rule do not agree on. *)
Odd == Several \cup Tabbed \cup Joined

(* Where one rule is read in two ways, the readings agree. *)
LEMMA BucketIsClass ==
  ASSUME StatementsAssumption, NEW s \in Statements, s \notin Odd
  PROVE  Bucket(s) = Class(s)
BY DEF Bucket, Class, Spaced, Odd, StatementsAssumption

(* Reordering is idempotent, and the linter's reading of the rule has nothing to
   report on its result but for the odd statements. *)
LEMMA OrderSettles ==
  ASSUME StatementsAssumption, NEW lines \in Seq(Lines)
  PROVE  LET settled == Reordered(lines)
         IN  /\ settled \in Seq(Lines)
             /\ Reordered(settled) = settled
             /\ OutOfOrder(settled) => Range(settled) \cap Odd # {}
<1>1. CASE ImportLines(lines) = {}
  <2>1. Reordered(lines) = lines /\ ~OutOfOrder(lines)
    BY <1>1 DEF Reordered, OutOfOrder
  <2>2. QED
    BY <2>1
<1>2. CASE ImportLines(lines) # {}
  <2> DEFINE S == {lines[i] : i \in ImportLines(lines)}
             last == Max(ImportLines(lines))
             p == Min(ImportLines(lines)) - 1
             k == Cardinality(S)
             s == Reordered(lines)
             rest == Len(lines) - last
  <2>1. /\ S \in SUBSET Statements /\ IsFiniteSet(S) /\ k \in Nat /\ k > 0
        /\ p \in Nat /\ rest \in Nat
        /\ s \in Seq(Lines) /\ Len(s) = p + k + rest
        /\ \A i \in 1 .. p : s[i] \notin Statements
        /\ \A i \in p + 1 .. p + k : s[i] = Block(S)[i - p] /\ s[i] \in S
        /\ \A i \in p + k + 1 .. Len(s) : s[i] \notin Statements
    <3>1. Len(lines) \in Nat
      BY LenProperties
    <3>2. /\ S \in SUBSET Statements /\ IsFiniteSet(S) /\ k \in Nat /\ k > 0
          /\ p \in Nat /\ last \in Nat /\ last <= Len(lines)
          /\ s \in Seq(Lines) /\ Len(s) = p + k + (Len(lines) - last)
          /\ \A i \in 1 .. p : s[i] = lines[i] /\ s[i] \notin Statements
          /\ \A i \in p + 1 .. p + k : s[i] = Block(S)[i - p] /\ s[i] \in S
          /\ \A i \in p + k + 1 .. Len(s) :
               s[i] = lines[last + i - p - k] /\ s[i] \notin Statements
      BY <1>2, ReorderedShape
    <3> HIDE DEF S, last, p, k, s
    <3>3. rest \in Nat
      BY <3>1, <3>2
    <3>4. QED
      BY <3>2, <3>3
  <2> HIDE DEF S, last, p, k, s, rest
  <2>n. k \in Nat /\ k > 0 /\ p \in Nat /\ rest \in Nat /\ Len(s) = p + k + rest
    BY <2>1
  <2>2. DOMAIN s = 1 .. p + k + rest
    BY <2>1, LenProperties
  <2>3. ImportLines(s) = p + 1 .. p + k
    <3>1. \A i \in 1 .. p + k + rest : i \in 1 .. p \/ i \in p + 1 .. p + k \/ i \in p + k + 1 .. Len(s)
      BY <2>1
    <3>2. \A i \in p + 1 .. p + k : i \in 1 .. p + k + rest /\ s[i] \in Statements
      BY <2>1
    <3>3. QED
      BY <2>1, <2>2, <3>1, <3>2 DEF ImportLines
  <2>4. p + 1 \in ImportLines(s) /\ p + k \in ImportLines(s) /\ ImportLines(s) # {}
    <3>1. p + 1 \in p + 1 .. p + k /\ p + k \in p + 1 .. p + k
      BY <2>n
    <3>2. QED
      BY <2>3, <3>1
  <2>5. /\ Block(S) \in [1 .. k -> S]
        /\ \A i, j \in 1 .. k : i # j => Block(S)[i] # Block(S)[j]
        /\ \A x \in S : \E i \in 1 .. k : Block(S)[i] = x
        /\ \A i, j \in 1 .. k : i < j => ~SortsBefore(Block(S)[j], Block(S)[i])
    <3>1. /\ Block(S) \in SetToSeqs(S)
          /\ \A i, j \in DOMAIN Block(S) : i < j => ~SortsBefore(Block(S)[j], Block(S)[i])
      BY <2>1, BlockIsSorted
    <3>2. QED
      BY <2>1, <3>1, ListsAll DEF k
  <2>6. {s[i] : i \in ImportLines(s)} = S
    <3>1. \A x \in S : \E i \in p + 1 .. p + k : s[i] = x
      <4> SUFFICES ASSUME NEW x \in S PROVE \E i \in p + 1 .. p + k : s[i] = x
        OBVIOUS
      <4>1. PICK j \in 1 .. k : Block(S)[j] = x
        BY <2>5
      <4>2. p + j \in p + 1 .. p + k /\ p + j - p = j
        BY <2>n
      <4>3. s[p + j] = Block(S)[p + j - p]
        BY <2>1, <4>2
      <4>4. QED
        BY <4>1, <4>2, <4>3
    <3>2. \A i \in p + 1 .. p + k : s[i] \in S
      BY <2>1
    <3>3. QED
      BY <2>3, <3>1, <3>2
  <2>7. Min(ImportLines(s)) = p + 1 /\ Max(ImportLines(s)) = p + k
    <3>1. ImportLines(s) \in SUBSET (1 .. p + k) /\ p + k \in Nat
      BY <2>1, <2>3
    <3>2. /\ Min(ImportLines(s)) \in ImportLines(s) /\ \A i \in ImportLines(s) : Min(ImportLines(s)) <= i
          /\ Max(ImportLines(s)) \in ImportLines(s) /\ \A i \in ImportLines(s) : i <= Max(ImportLines(s))
      BY <2>4, <3>1, Ends
    <3> DEFINE a == Min(ImportLines(s))
               b == Max(ImportLines(s))
    <3>3. /\ a \in p + 1 .. p + k /\ a <= p + 1
          /\ b \in p + 1 .. p + k /\ p + k <= b
      BY <2>3, <2>4, <3>2
    <3> HIDE DEF a, b
    <3>4. a = p + 1 /\ b = p + k
      BY <2>n, <3>3
    <3>5. QED
      BY <3>4 DEF a, b
  <2> DEFINE t == Reordered(s)
  <2>8. /\ t \in Seq(Lines) /\ Len(t) = p + 1 - 1 + k + (Len(s) - (p + k))
        /\ \A i \in 1 .. p + 1 - 1 : t[i] = s[i]
        /\ \A i \in p + 1 - 1 + 1 .. p + 1 - 1 + k : t[i] = Block(S)[i - (p + 1 - 1)]
        /\ \A i \in p + 1 - 1 + k + 1 .. Len(t) : t[i] = s[p + k + i - (p + 1 - 1) - k]
    <3>1. s \in Seq(Lines) /\ ImportLines(s) # {}
      BY <2>1, <2>4
    <3> DEFINE first == Min(ImportLines(s))
               end == Max(ImportLines(s))
               T == {s[i] : i \in ImportLines(s)}
    <3>2. /\ t \in Seq(Lines) /\ Len(t) = first - 1 + Cardinality(T) + (Len(s) - end)
          /\ \A i \in 1 .. first - 1 : t[i] = s[i]
          /\ \A i \in first - 1 + 1 .. first - 1 + Cardinality(T) : t[i] = Block(T)[i - (first - 1)]
          /\ \A i \in first - 1 + Cardinality(T) + 1 .. Len(t) :
               t[i] = s[end + i - (first - 1) - Cardinality(T)]
      BY <3>1, ReorderedShape
    <3>3. T = S /\ Cardinality(T) = k /\ first = p + 1 /\ end = p + k
      BY <2>6, <2>7 DEF k
    <3> HIDE DEF t, T, first, end
    <3>n. Len(s) \in Nat /\ first \in Nat /\ end \in Nat
      BY <2>n, <3>3
    <3>4. t \in Seq(Lines) /\ Len(t) = p + 1 - 1 + k + (Len(s) - (p + k))
      BY <2>n, <3>2, <3>3, <3>n
    <3>5. \A i \in 1 .. p + 1 - 1 : t[i] = s[i]
      BY <2>n, <3>2, <3>3, <3>n
    <3>6. \A i \in p + 1 - 1 + 1 .. p + 1 - 1 + k : t[i] = Block(S)[i - (p + 1 - 1)]
      BY <2>n, <3>2, <3>3, <3>n
    <3>7. \A i \in p + 1 - 1 + k + 1 .. Len(t) : t[i] = s[p + k + i - (p + 1 - 1) - k]
      BY <2>n, <3>2, <3>3, <3>n
    <3>8. QED
      BY <3>4, <3>5, <3>6, <3>7
  <2> HIDE DEF t
  <2>9. p + 1 - 1 = p /\ Len(t) = Len(s) /\ \A i \in p + k + 1 .. Len(t) : p + k + i - (p + 1 - 1) - k = i
    BY <2>1, <2>8
  <2>10. \A i \in 1 .. Len(s) : t[i] = s[i]
    <3>1. \A i \in 1 .. Len(s) : i \in 1 .. p \/ i \in p + 1 .. p + k \/ i \in p + k + 1 .. Len(s)
      BY <2>1
    <3>2. QED
      BY <2>1, <2>8, <2>9, <3>1
  <2>11. t = s
    BY <2>1, <2>8, <2>9, <2>10, SeqEqual
  <2>12. ASSUME OutOfOrder(s), Range(s) \cap Odd = {}
         PROVE  FALSE
    <3>1. PICK i \in p + 1 .. p + k, j \in p + 1 .. p + k :
             i < j /\ (s[i] = s[j] \/ Bucket(s[i]) > Bucket(s[j]))
      BY <2>3, <2>12 DEF OutOfOrder
    <3>2. i - p \in 1 .. k /\ j - p \in 1 .. k /\ i - p < j - p /\ i - p # j - p
      BY <2>1, <3>1
    <3>3. s[i] = Block(S)[i - p] /\ s[j] = Block(S)[j - p]
      BY <2>1
    <3>4. s[i] # s[j] /\ ~SortsBefore(s[j], s[i])
      BY <2>5, <3>2, <3>3
    <3>5. s[i] \in Statements \ Odd /\ s[j] \in Statements \ Odd
      BY <2>2, <2>3, <2>12, <3>1 DEF Range, ImportLines
    <3>6. Bucket(s[i]) = Class(s[i]) /\ Bucket(s[j]) = Class(s[j])
      BY <3>5, BucketIsClass
    <3>7. ~(Class(s[i]) > Class(s[j]))
      BY <3>4, ClassType DEF SortsBefore
    <3>8. QED
      BY <3>1, <3>4, <3>6, <3>7
  <2>13. QED
    BY <2>1, <2>11, <2>12 DEF s, t
<1>3. QED
  BY <1>1, <1>2

(* The modules begin with lines of files, whatever is ordered. *)
LEMMA ImportsStep ==
  ASSUME imports \in [Modules -> Seq(Lines)], [WorkbenchNext]_workbenchVars
  PROVE  imports' \in [Modules -> Seq(Lines)]
<1>1. CASE OrderImports
  <2> DEFINE file == Head(campaign.tasks).file
             settled == Reordered(imports[file])
  <2>1. imports' = [imports EXCEPT ![file] = settled] \/ imports' = imports
    BY <1>1 DEF OrderImports
  <2>2. file \in Modules => settled \in Seq(Lines)
    BY StatementsAssumption, OrderSettles
  <2> HIDE DEF settled, file
  <2>3. QED
    BY <2>1, <2>2
<1>2. CASE ~OrderImports
  <2>1. ASSUME NEW m, NEW d, NEW body, NEW use,
               \/ Edit(d, body) \/ FindDeadCode \/ FindDuplicates \/ FindRelated(m) \/ AnalyzeFile(m)
               \/ GenerateDocs(m) \/ GetContextMap(m) \/ BeginPlan(use) \/ BeginCampaign
        PROVE  imports' = imports
    BY <2>1 DEF Edit, FindDeadCode, FindDuplicates, FindRelated, AnalyzeFile, GenerateDocs, GetContextMap,
       Generated, BeginPlan, BeginCampaign, analysisVars
  <2>2. ASSUME NEW use, IndexCodebase \/ Decompose \/ EndPlan \/ Propose(use) \/ ApplyText \/ ApplySpec
                        \/ EndSpecs \/ EndCampaign
        PROVE  imports' = imports
    BY <2>2 DEF IndexCodebase, Decompose, EndPlan, Propose, ApplyText, ApplySpec, EndSpecs, EndCampaign,
       analysisVars
  <2>3. CASE UNCHANGED workbenchVars
    BY <2>3 DEF workbenchVars, analysisVars
  <2>4. QED
    BY <1>2, <2>1, <2>2, <2>3 DEF WorkbenchNext, Going, Using, Documenting
<1>3. QED
  BY <1>1, <1>2

(* "Reorder the top-level import block" (transforms/imports.py): done twice it is
   done once, for every file, every alphabet and every standard library, and
   analyze_file then finds nothing to reorder but where a statement names several
   modules or no space follows its keyword. *)
THEOREM ReorderingSettles == WorkbenchSpec => []ReorderSettles
<1> DEFINE Inv == imports \in [Modules -> Seq(Lines)]
<1>1. WorkbenchInit => Inv
  BY ProgramsAssumption DEF WorkbenchInit, AnalysesInit
<1>2. Inv /\ [WorkbenchNext]_workbenchVars => Inv'
  BY ImportsStep
<1>3. Inv => ReorderSettles
  BY StatementsAssumption, OrderSettles DEF ReorderSettles, Odd
<1>4. QED
  BY <1>1, <1>2, <1>3, PTL DEF WorkbenchSpec
-----------------------------------------------------------------------------
(* Live code. *)

(* Closure contains S and is closed, ... *)
LEMMA ClosureFacts ==
  ASSUME NEW S \in SUBSET Defs, NEW next
  PROVE  /\ Closure(S, next) \in SUBSET Defs /\ S \subseteq Closure(S, next)
         /\ \A d \in Closure(S, next) : \A e \in Defs : e \in next[d] => e \in Closure(S, next)
BY DEF Closure

(* ... and it is in every such set. *)
LEMMA ClosureIsLeast ==
  ASSUME NEW S, NEW next, NEW T \in SUBSET Defs, S \subseteq T, \A d \in T : next[d] \subseteq T
  PROVE  Closure(S, next) \subseteq T
<1>1. T = S \cup (T \ S) /\ T \ S \in SUBSET (Defs \ S)
  OBVIOUS
<1>2. T \in {S \cup X : X \in SUBSET (Defs \ S)}
  BY <1>1
<1>3. QED
  BY <1>2 DEF Closure

(* Around a definition is what is of its module. *)
LEMMA OfOneModule ==
  ASSUME NestingAssumption, NEW d \in Defs, NEW e \in Within(d)
  PROVE  HomeOf[e] = HomeOf[d]
BY DEF Within, NestingAssumption

(* A use is of a definition, in a place. *)
LEMMA UseTyped ==
  ASSUME NEW u \in Uses
  PROVE  u.at \in Places /\ u.to \in Defs
BY DEF Uses

(* A plain call of a symbol that has no namesake in its way is an edge. *)
LEMMA PlainCallsAreSeen ==
  ASSUME DefinitionsAssumption, NestingAssumption, NEW uses \in SUBSET Uses, NEW u \in uses,
         u.to \in Symbols, ~Unseen(u)
  PROVE  \E p \in Symbols : u.to \in CallEdges(p, uses)
<1> DEFINE d == u.to
<1>1. /\ u.how \notin {"as", "value", "string"} /\ u.at \in Defs
      /\ \A e \in Namesakes(d) : u.how # "attribute" /\ ~Unspelled(u) /\ HomeOf[e] # HomeOf[u.at]
  BY DEF Unseen
<1>2. PICK p \in Symbols : u.at \in Within(p)
  BY <1>1 DEF Unseen, Within
<1>3. HomeOf[p] = HomeOf[u.at]
  BY <1>2, OfOneModule DEF Symbols, TopLevel
<1>4. u \in CallsIn(p, uses) /\ u.how # "as"
  BY <1>1, <1>2 DEF CallsIn
<1>5. d \in Resolved(HomeOf[p], NameOf[d], uses)
  <2> DEFINE m == HomeOf[p]
             own == {e \in Bearers(NameOf[d]) : HomeOf[e] = m}
             imported == Bearers(NameOf[d]) \cap Imported(m, uses)
  <2>1. d \in Bearers(NameOf[d]) /\ \A e \in Bearers(NameOf[d]) : e = d \/ e \in Namesakes(d)
    BY DEF Bearers, Namesakes
  <2>2. \A e \in own : e = d
    BY <1>1, <1>3, <2>1
  <2>3. CASE HomeOf[d] = m
    <3>1. own # {} /\ d \in own
      BY <2>1, <2>3
    <3>2. QED
      BY <3>1 DEF Resolved
  <2>4. CASE HomeOf[d] # m
    <3>1. own = {}
      BY <2>2, <2>4
    <3>2. CASE Namesakes(d) = {}
      <4>1. Bearers(NameOf[d]) = {d}
        BY <1>1, <2>1, <3>2
      <4>2. Cardinality(Bearers(NameOf[d])) = 1
        BY <4>1, FS_Singleton
      <4>3. imported # {} => d \in imported
        BY <4>1
      <4>4. \/ imported # {} /\ Resolved(m, NameOf[d], uses) = imported
            \/ imported = {} /\ Resolved(m, NameOf[d], uses) = Bearers(NameOf[d])
        <5> HIDE DEF d, m
        <5>1. QED
          BY <3>1, <4>2 DEF Resolved
      <4>5. QED
        BY <2>1, <4>3, <4>4
    <3>3. CASE Namesakes(d) # {}
      <4>1. u.how = "name" /\ ~Unspelled(u)
        BY <1>1, <3>3 DEF Uses
      <4>2. d \in imported
        BY <1>3, <2>1, <2>4, <4>1 DEF Imported, ByImport, Unspelled
      <4>3. QED
        BY <3>1, <4>2 DEF Resolved
    <3>4. QED
      BY <3>2, <3>3
  <2>5. QED
    BY <2>3, <2>4
<1>6. QED
  BY <1>4, <1>5 DEF CallEdges

(* What is in use within a top-level symbol is so by a use from elsewhere, that of
   a module body or of another definition; of the symbol itself, if scopes are
   named. *)
LEMMA InUseIsUsed ==
  ASSUME DefinitionsAssumption, NestingAssumption, EntryPointsStandAlone,
         NEW uses \in SUBSET Uses, ScopesAreNamed(uses),
         NEW d \in Symbols, d \in Private, d \notin Listed, HomeOf[d] \notin TestModules, d \in InUse(uses)
  PROVE  \E u \in uses : u.to = d
<1> DEFINE roots == (TopLevel \ Private) \cup Listed \cup Registered \cup {x \in Defs : HomeOf[x] \in TestModules}
                      \cup {u.to : u \in {v \in uses : v.at \notin GraphSymbols}}
           next == [x \in Defs |-> AroundOf[x] \cup {u.to : u \in {v \in uses : v.at \in Within(x)}}]
           T == Defs \ Within(d)
<1> SUFFICES ASSUME \A u \in uses : u.to # d
             PROVE  FALSE
  OBVIOUS
<1>1. d \in Defs /\ AroundOf[d] = {} /\ d \notin Registered /\ d \in Within(d)
  BY DEF Symbols, TopLevel, DefinitionsAssumption, Within
<1>2. ASSUME NEW u \in uses, u.to \in Within(d)
      PROVE  u.at \in Within(d) /\ d \notin Assignments
  <2>1. d \in AroundOf[u.to] /\ u.to \in Defs
    BY <1>2 DEF Within
  <2>2. u.at \in Within(d)
    BY <2>1 DEF ScopesAreNamed
  <2>3. QED
    BY <1>1, <2>1, <2>2 DEF NestingAssumption
<1>3. roots \subseteq T
  <2> SUFFICES ASSUME NEW x \in Within(d), x \in roots
               PROVE  FALSE
    <3>1. \A u \in uses : u.to \in Defs
      BY UseTyped
    <3>2. roots \subseteq Defs
      BY <3>1 DEF DefinitionsAssumption, TopLevel
    <3>3. QED
      BY <3>2
  <2>1. x = d \/ d \in AroundOf[x]
    BY DEF Within
  <2>2. x \notin TopLevel \ Private /\ x \notin Listed \cup Registered
    BY <1>1, <2>1 DEF TopLevel, EntryPointsStandAlone
  <2>3. HomeOf[x] \notin TestModules
    BY <1>1, OfOneModule
  <2>4. PICK u \in uses : u.to = x /\ u.at \notin GraphSymbols
    BY <2>2, <2>3
  <2>5. u.at \in Within(d) /\ d \notin Assignments
    BY <1>2, <2>4
  <2>6. u.at \in Assignments
    BY <2>4, <2>5 DEF GraphSymbols, Within
  <2>7. QED
    BY <1>1, <2>5, <2>6 DEF Within, NestingAssumption
<1>4. ASSUME NEW x \in T
      PROVE  next[x] \subseteq T
  <2>1. AroundOf[x] \subseteq Defs /\ x \in Defs /\ d \notin AroundOf[x] /\ x # d
    BY <1>1 DEF DefinitionsAssumption, Within
  <2>2. \A a \in AroundOf[x] : AroundOf[a] \subseteq AroundOf[x]
    BY <2>1 DEF NestingAssumption
  <2>3. AroundOf[x] \subseteq T
    BY <2>1, <2>2 DEF Within
  <2>4. ASSUME NEW u \in uses, u.at \in Within(x)
        PROVE  u.to \in T
    <3> SUFFICES ASSUME u.to \in Within(d)
                 PROVE  FALSE
      BY UseTyped
    <3>1. u.at \in Within(d)
      BY <1>2
    <3>2. u.at # d /\ x \notin AroundOf[d]
      BY <1>1, <2>1, <2>4 DEF Within
    <3>3. u.at \in Defs /\ d \in AroundOf[u.at] /\ (u.at = x \/ x \in AroundOf[u.at])
      BY <2>4, <3>1, <3>2 DEF Within
    <3>4. x \in AroundOf[u.at]
      BY <2>1, <3>3
    <3>5. x = d \/ x \in AroundOf[d] \/ d \in AroundOf[x]
      BY <3>3, <3>4 DEF NestingAssumption
    <3>6. QED
      BY <2>1, <3>2, <3>5
  <2>5. QED
    BY <2>1, <2>3, <2>4
<1>5. InUse(uses) \subseteq T
  <2>1. InUse(uses) = Closure(roots, next)
    BY DEF InUse
  <2> HIDE DEF roots, next, T
  <2>2. T \in SUBSET Defs
    BY DEF T
  <2>3. \A x \in T : next[x] \subseteq T
    BY <1>4
  <2>4. Closure(roots, next) \subseteq T
    BY <1>3, <2>2, <2>3, ClosureIsLeast
  <2>5. QED
    BY <2>1, <2>4
<1>6. QED
  BY <1>1, <1>5

(* What find_dead_code says. *)
LEMMA HighMeansUnseen ==
  ASSUME DefinitionsAssumption, NestingAssumption, EntryPointsStandAlone,
         NEW uses \in SUBSET Uses, ScopesAreNamed(uses),
         NEW r \in DeadSymbols(uses), r.confidence = "high", r.symbol \in InUse(uses)
  PROVE  \E u \in uses : u.to = r.symbol /\ Unseen(u)
<1> DEFINE d == r.symbol
           anchors == CallGraphAnchors(uses)
           reachable == Closure(anchors, [x \in Defs |-> CallEdges(x, uses)])
<1>1. d \in Symbols /\ d \notin reachable /\ CallSites(d, uses) = 0 /\ d \in Private
  BY DEF DeadSymbols
<1>2. d \notin anchors
  <2>1. anchors \in SUBSET Defs
    BY DEF CallGraphAnchors, Symbols, TopLevel
  <2>2. anchors \subseteq reachable
    <3> HIDE DEF anchors
    <3>1. QED
      BY <2>1, ClosureFacts
  <2>3. QED
    BY <1>1, <2>2
<1>3. d \notin Listed /\ HomeOf[d] \notin TestModules
  BY <1>1, <1>2 DEF CallGraphAnchors
<1>4. PICK u \in uses : u.to = d
  BY <1>1, <1>3, InUseIsUsed
<1>5. ASSUME ~Unseen(u)
      PROVE  FALSE
  <2>1. PICK p \in Symbols : d \in CallEdges(p, uses)
    BY <1>1, <1>4, <1>5, PlainCallsAreSeen
  <2> DEFINE sites == {q \in Symbols : d \in CallEdges(q, uses)}
  <2>2. sites # {} /\ sites \in SUBSET Defs
    BY <2>1 DEF Symbols, TopLevel
  <2>3. Cardinality(sites) = 0
    BY <1>1 DEF CallSites
  <2> HIDE DEF sites
  <2>4. IsFiniteSet(sites)
    BY <2>2, FS_Subset DEF DefinitionsAssumption
  <2>5. QED
    BY <2>2, <2>3, <2>4, FS_EmptySet
<1>6. QED
  BY <1>4, <1>5

(* What the pipeline plans to remove.  What is in use is an assignment, or
   reachable in the graph, or follows from what runs unseen: this is true of what
   the run begins with, of what stands around it and within it, and of what it uses. *)
LEMMA RemovedMeansUnseen ==
  ASSUME DefinitionsAssumption, NestingAssumption, EntryPointsStandAlone,
         NEW uses \in SUBSET Uses, ScopesAreNamed(uses)
  PROVE  LiveIsRemovedOnlyUnseen(uses)
<1> DEFINE refs == [x \in Defs |-> ReferenceEdges(x, uses)]
           A == Assignments
           G == Closure(GraphAnchors(uses), refs)
           M == Closure(RunUnseen(uses), refs)
           K3 == A \cup G \cup M
           T == {x \in Defs : x \in K3 /\ AroundOf[x] \subseteq K3}
           roots == (TopLevel \ Private) \cup Listed \cup Registered \cup {x \in Defs : HomeOf[x] \in TestModules}
                      \cup {u.to : u \in {v \in uses : v.at \notin GraphSymbols}}
           next == [x \in Defs |-> AroundOf[x] \cup {u.to : u \in {v \in uses : v.at \in Within(x)}}]
<1>1. \A u \in uses : u.to \in Defs /\ u.at \in Places
  BY UseTyped
<1>2. /\ G \in SUBSET Defs /\ GraphAnchors(uses) \subseteq G
      /\ \A x \in G : \A y \in Defs : y \in refs[x] => y \in G
  <2>1. GraphAnchors(uses) \in SUBSET Defs
    BY DEF GraphAnchors, GraphSymbols
  <2> HIDE DEF refs
  <2>2. QED
    BY <2>1, ClosureFacts
<1>3. /\ M \in SUBSET Defs /\ RunUnseen(uses) \subseteq M
      /\ \A x \in M : \A y \in Defs : y \in refs[x] => y \in M
  <2>1. RunUnseen(uses) \in SUBSET Defs
    BY <1>1 DEF RunUnseen
  <2> HIDE DEF refs
  <2>2. QED
    BY <2>1, ClosureFacts
<1>4. \A u \in uses : u.at \in GraphSymbols /\ u.how # "string" /\ u.to \in GraphSymbols => u.to \in refs[u.at]
  BY DEF ReferenceEdges, Enclosing, Target, GraphSymbols
<1> HIDE DEF refs
<1> HIDE DEF G, M
<1>5. \A x \in Defs : AroundOf[x] # {} => x \in M
  BY <1>3 DEF RunUnseen
<1>6. \A u \in uses : u.at \notin GraphSymbols \/ u.how = "string" => u.to \in M
  BY <1>3 DEF RunUnseen
(* What is used where the run may be follows. *)
<1>7. ASSUME NEW u \in uses, u.at \in GraphSymbols => u.at \in K3
      PROVE  u.to \in K3
  <2>1. CASE u.at \notin GraphSymbols \/ u.how = "string"
    BY <1>6, <2>1
  <2>2. CASE u.to \notin GraphSymbols
    BY <1>1, <2>2 DEF GraphSymbols
  <2>3. CASE u.at \in GraphSymbols /\ u.how # "string" /\ u.to \in GraphSymbols
    <3>1. u.to \in refs[u.at] /\ u.to \in Defs
      BY <1>1, <1>4, <2>3
    <3>2. u.at \in G \cup M
      BY <1>7, <2>3 DEF GraphSymbols
    <3>3. QED
      BY <1>2, <1>3, <3>1, <3>2
  <2>4. QED
    BY <2>1, <2>2, <2>3
<1>8. ASSUME NEW u \in uses, u.at \in GraphSymbols => u.at \in K3 /\ AroundOf[u.at] \subseteq K3
      PROVE  u.to \in T
  <2>1. u.to \in Defs /\ u.to \in K3
    BY <1>1, <1>7, <1>8
  <2>2. ASSUME NEW d \in AroundOf[u.to]
        PROVE  d \in K3
    <3>1. CASE u.at \in Within(d)
      <4>1. u.at \in Defs /\ (u.at = d \/ d \in AroundOf[u.at])
        BY <3>1 DEF Within
      <4>2. CASE u.at \in Assignments
        BY <2>1, <2>2, <4>1, <4>2 DEF NestingAssumption, DefinitionsAssumption
      <4>3. CASE u.at \notin Assignments
        BY <1>8, <4>1, <4>3 DEF GraphSymbols
      <4>4. QED
        BY <4>2, <4>3
    <3>2. CASE \E v \in uses : v.at = u.at /\ v.to = d /\ (u.how = "string" => v.how = "string")
      BY <1>7, <1>8, <3>2
    <3>3. QED
      BY <2>2, <3>1, <3>2 DEF ScopesAreNamed
  <2>3. QED
    BY <2>1, <2>2
<1>9. roots \subseteq T
  <2>1. ASSUME NEW x \in Listed \cup Registered \cup (TopLevel \ Private)
        PROVE  x \in T
    <3>1. x \in Defs /\ AroundOf[x] = {}
      BY DEF DefinitionsAssumption, EntryPointsStandAlone, TopLevel
    <3>2. x \in Assignments \/ x \in GraphAnchors(uses)
      BY <3>1 DEF GraphAnchors, GraphSymbols
    <3>3. QED
      BY <1>2, <3>1, <3>2
  <2>2. ASSUME NEW x \in Defs, HomeOf[x] \in TestModules
        PROVE  x \in T
    <3>1. \A y \in Defs : HomeOf[y] \in TestModules => y \in K3
      BY <1>2 DEF GraphAnchors, GraphSymbols
    <3>2. \A y \in AroundOf[x] : y \in Defs /\ HomeOf[y] = HomeOf[x]
      BY DEF DefinitionsAssumption, NestingAssumption
    <3>3. QED
      BY <2>2, <3>1, <3>2
  <2>3. ASSUME NEW u \in uses, u.at \notin GraphSymbols
        PROVE  u.to \in T
    BY <1>8, <2>3
  <2> HIDE DEF T
  <2>4. {u.to : u \in {v \in uses : v.at \notin GraphSymbols}} \subseteq T
    BY <2>3
  <2>5. {x \in Defs : HomeOf[x] \in TestModules} \subseteq T
    BY <2>2
  <2>6. (TopLevel \ Private) \cup Listed \cup Registered \subseteq T
    BY <2>1
  <2>7. QED
    BY <2>4, <2>5, <2>6
<1>10. ASSUME NEW x \in T
       PROVE  next[x] \subseteq T
  <2>1. x \in Defs /\ x \in K3 /\ AroundOf[x] \subseteq K3 /\ AroundOf[x] \subseteq Defs
    BY DEF DefinitionsAssumption
  <2>2. \A a \in AroundOf[x] : AroundOf[a] \subseteq AroundOf[x]
    BY <2>1 DEF NestingAssumption
  <2>3. AroundOf[x] \subseteq T
    BY <2>1, <2>2
  <2>4. ASSUME NEW u \in uses, u.at \in Within(x)
        PROVE  u.to \in T
    <3>1. u.at \in Defs /\ (u.at = x \/ x \in AroundOf[u.at])
      BY <2>4 DEF Within
    <3>2. u.at \in K3
      BY <1>5, <2>1, <3>1
    <3>3. ASSUME NEW a \in AroundOf[u.at]
          PROVE  a \in K3
      <4>1. CASE u.at = x
        BY <2>1, <3>3, <4>1
      <4>2. CASE x \in AroundOf[u.at]
        <5>1. a = x \/ a \in AroundOf[x] \/ x \in AroundOf[a]
          BY <3>1, <3>3, <4>2 DEF NestingAssumption
        <5>2. a \in Defs
          BY <3>1, <3>3 DEF DefinitionsAssumption
        <5>3. QED
          BY <1>5, <2>1, <5>1, <5>2
      <4>3. QED
        BY <3>1, <4>1, <4>2
    <3>4. QED
      BY <1>8, <3>2, <3>3
  <2> HIDE DEF T
  <2>5. QED
    BY <2>1, <2>3, <2>4
<1>11. InUse(uses) \subseteq T
  <2>1. InUse(uses) = Closure(roots, next)
    BY DEF InUse
  <2>2. T \in SUBSET Defs
    OBVIOUS
  <2> HIDE DEF roots, next, T
  <2>3. \A x \in T : next[x] \subseteq T
    BY <1>10
  <2>4. Closure(roots, next) \subseteq T
    BY <1>9, <2>2, <2>3, ClosureIsLeast
  <2>5. QED
    BY <2>1, <2>4
<1>12. Removable(uses) = (Private \cap GraphSymbols) \ G
  BY DEF Removable, G, refs
<1>13. Removable(uses) \cap InUse(uses) \subseteq M
  BY <1>11, <1>12 DEF GraphSymbols
<1>14. QED
  BY <1>13 DEF LiveIsRemovedOnlyUnseen, M, refs

(* Whoever edits, what is written is a body: the edits beside the server are, and
   what a model proposes and a specialist applies is. *)
ItemsAreBodies ==
  session.open => \E S : session.items \in Seq(S) /\ \A item \in S : item.new \in Bodies

CodeTyped == code \in Code /\ ItemsAreBodies

(* What a step leaves to be applied. *)
LEMMA ItemsStep ==
  ASSUME AnswersAssumption, SessionInv, RecordIsOfTheModel, ItemsAreBodies, [WorkbenchNext]_workbenchVars
  PROVE  ItemsAreBodies'
<1>1. CASE session' = session \/ session' = Closed
  BY <1>1 DEF ItemsAreBodies, Closed
<1>2. ASSUME NEW jobs, NEW use, NEW peers, session' = Opened(jobs, use, peers)
      PROVE  ItemsAreBodies'
  <2>1. session'.items = <<>> /\ <<>> \in Seq({})
    BY <1>2 DEF Opened
  <2>2. QED
    BY <2>1 DEF ItemsAreBodies
<1>3. ASSUME session.open
      PROVE  /\ \A f : [session EXCEPT !.items = f].items = f
             /\ \A f, g : [session EXCEPT !.todo = g, !.items = f].items = f
             /\ \A g : [session EXCEPT !.indexed = TRUE, !.todo = g].items = session.items
  <2>1. session = [open |-> TRUE, use |-> session.use, peers |-> session.peers, indexed |-> session.indexed,
                   graph |-> session.graph, todo |-> session.todo, items |-> session.items]
    BY <1>3 DEF SessionInv, SessionTyped, Closed
  <2> DEFINE use == session.use
             peers == session.peers
             indexed == session.indexed
             graph == session.graph
             todo == session.todo
             items == session.items
  <2>2. session = [open |-> TRUE, use |-> use, peers |-> peers, indexed |-> indexed, graph |-> graph,
                   todo |-> todo, items |-> items]
    BY <2>1
  <2>3. SUFFICES /\ \A f : [session EXCEPT !.items = f].items = f
                 /\ \A f, g : [session EXCEPT !.todo = g, !.items = f].items = f
                 /\ \A g : [session EXCEPT !.indexed = TRUE, !.todo = g].items = items
    OBVIOUS
  <2> HIDE DEF use, peers, indexed, graph, todo, items
  <2>4. QED
    BY <2>2
<1>4. CASE IndexCodebase
  <2>1. session.open /\ session'.items = session.items
    BY <1>3, <1>4 DEF IndexCodebase
  <2>2. QED
    BY <2>1 DEF ItemsAreBodies
<1>5. CASE Decompose
  <2> DEFINE job == Head(session.todo)
             prompt == Prompt(job, session.peers)
  <2>1. session.open
    BY <1>5 DEF Decompose
  <2>2. PICK S : session.items \in Seq(S) /\ \A item \in S : item.new \in Bodies
    BY <2>1 DEF ItemsAreBodies
  <2>3. PICK answer :
          /\ Answered(prompt, answer)
          /\ session' = [session EXCEPT
               !.todo = Tail(@),
               !.items = IF answer.declined THEN @ ELSE Append(@, [target |-> job.target, new |-> answer.new])]
    BY <1>5 DEF Decompose
  <2> DEFINE made == [target |-> job.target, new |-> answer.new]
  <2>4. session'.items = IF answer.declined THEN session.items ELSE Append(session.items, made)
    BY <1>3, <2>1, <2>3
  <2>5. ~answer.declined => answer.new \in Bodies
    <3>1. answer \in LiveAnswers(prompt)
      <4> HIDE DEF prompt
      <4>1. QED
        BY <2>3, Answering
    <3>2. \A a \in Answers : a[2] \in Bodies
      BY DEF AnswersAssumption
    <3>3. QED
      BY <3>1, <3>2 DEF LiveAnswers
  <2>6. made.new = answer.new
    OBVIOUS
  <2> HIDE DEF made
  <2>7. CASE answer.declined
    BY <2>2, <2>4, <2>7 DEF ItemsAreBodies
  <2>8. CASE ~answer.declined
    <3>1. \A item \in S \cup {made} : item.new \in Bodies
      BY <2>2, <2>5, <2>6, <2>8
    <3>2. session.items \in Seq(S \cup {made})
      BY <2>2
    <3>3. session'.items \in Seq(S \cup {made})
      BY <2>4, <2>8, <3>2
    <3>4. QED
      BY <3>1, <3>3 DEF ItemsAreBodies
  <2>9. QED
    BY <2>7, <2>8
<1>6. CASE ApplySpec
  <2>1. session.items # <<>> /\ (session' = Closed \/ session' = [session EXCEPT !.items = Tail(@)])
    BY <1>6 DEF ApplySpec, Rest
  <2>2. CASE session' = [session EXCEPT !.items = Tail(@)]
    <3>1. session.open
      BY <1>6 DEF ApplySpec, SessionInv, OneSession, SessionTyped, CampaignTyped, Idle, Closed
    <3>2. PICK S : session.items \in Seq(S) /\ \A item \in S : item.new \in Bodies
      BY <3>1 DEF ItemsAreBodies
    <3>3. session'.items = Tail(session.items)
      BY <1>3, <2>2, <3>1
    <3>4. session'.items \in Seq(S)
      BY <2>1, <3>2, <3>3
    <3>5. QED
      BY <3>2, <3>4 DEF ItemsAreBodies
  <2>3. QED
    BY <1>1, <2>1, <2>2
<1>7. ASSUME NEW m, NEW d, NEW body,
             \/ Edit(d, body) /\ UNCHANGED plannerVars
             \/ Using /\ UNCHANGED plannerVars
             \/ Documenting /\ UNCHANGED plannerVars
             \/ BeginCampaign \/ OrderImports
      PROVE  session' = session
  BY <1>7 DEF BeginCampaign, OrderImports, plannerVars
<1>8. ASSUME EndPlan \/ ApplyText \/ EndSpecs
      PROVE  session' = Closed
  BY <1>8 DEF EndPlan, ApplyText, EndSpecs
<1>9. ASSUME EndCampaign \/ UNCHANGED workbenchVars
      PROVE  session' = session
  BY <1>9 DEF EndCampaign, workbenchVars, plannerVars
<1>10. ASSUME NEW use, BeginPlan(use)
       PROVE  session' = session \/ session' = Opened(<<>>, use, TRUE)
  BY <1>10 DEF BeginPlan
<1>11. ASSUME NEW use, Propose(use)
       PROVE  \E jobs : session' = Opened(jobs, use, FALSE)
  BY <1>11 DEF Propose
<1>12. QED
  BY <1>1, <1>2, <1>4, <1>5, <1>6, <1>7, <1>8, <1>9, <1>10, <1>11 DEF WorkbenchNext, Going

(* What an edit leaves, whoever makes it. *)
LEMMA CodeStep ==
  ASSUME ProgramsAssumption, SessionInv, code \in Code, ItemsAreBodies, [WorkbenchNext]_workbenchVars
  PROVE  code' \in Code
<1>1. CASE \E e \in Edits : Edit(e[1], e[2])
  <2>1. PICK e \in Edits : code' = [code EXCEPT ![e[1]] = e[2]]
    BY <1>1 DEF Edit
  <2>2. e[1] \in Defs /\ e[2] \in Bodies \cup {Gone}
    BY DEF ProgramsAssumption
  <2>3. QED
    BY <2>1, <2>2 DEF Code
<1>2. CASE ApplySpec
  <2>1. CASE code' = code
    BY <2>1
  <2>2. CASE code' = Replaced(Head(session.items))
    <3> DEFINE item == Head(session.items)
    <3>1. session.open /\ session.items # <<>>
      BY <1>2 DEF ApplySpec, SessionInv, OneSession
    <3>2. PICK S : session.items \in Seq(S) /\ \A i \in S : i.new \in Bodies
      BY <3>1 DEF ItemsAreBodies
    <3>3. item \in S
      BY <3>1, <3>2
    <3>4. item.new \in Bodies
      BY <3>2, <3>3
    <3> HIDE DEF item
    <3>5. code' = [code EXCEPT ![item.target] = item.new]
      BY <2>2 DEF Replaced, item
    <3>6. QED
      BY <3>4, <3>5 DEF Code
  <2>3. QED
    BY <1>2, <2>1, <2>2 DEF ApplySpec
<1>3. ASSUME NEW m, NEW use,
             \/ FindDeadCode \/ FindDuplicates \/ FindRelated(m) \/ AnalyzeFile(m)
             \/ GenerateDocs(m) \/ GetContextMap(m) \/ BeginPlan(use) \/ BeginCampaign \/ OrderImports
      PROVE  code' = code
  BY <1>3 DEF FindDeadCode, FindDuplicates, FindRelated, AnalyzeFile, GenerateDocs, GetContextMap, Generated,
     BeginPlan, BeginCampaign, OrderImports, analysisVars
<1>4. ASSUME NEW use,
             \/ IndexCodebase \/ Decompose \/ EndPlan \/ Propose(use) \/ ApplyText \/ EndSpecs \/ EndCampaign
             \/ UNCHANGED workbenchVars
      PROVE  code' = code
  BY <1>4 DEF IndexCodebase, Decompose, EndPlan, Propose, ApplyText, EndSpecs, EndCampaign,
     workbenchVars, analysisVars
<1>5. QED
  BY <1>1, <1>2, <1>3, <1>4 DEF WorkbenchNext, Going, Using, Documenting

(* The uses of a repository as it is are uses. *)
LEMMA UsesAreUses ==
  ASSUME ProgramsAssumption, NEW c \in Code
  PROVE  UsesIn(c) \in SUBSET Uses
<1>1. \A d \in Present(c) : d \in Defs /\ c[d] \in Bodies
  BY DEF Present, Code
<1>2. \A d \in Present(c) : UsesOf(d, c[d]) \subseteq Uses
  BY <1>1 DEF ProgramsAssumption
<1>3. QED
  BY <1>2 DEF UsesIn, ProgramsAssumption

(* "Anything not reachable is a dead-code candidate" (dead_code.py:3), and the
   pipeline plans to remove it: for every program, every edit and every model: a call by name of what is
   imported is never missed, and what is planned to be removed although it runs is
   referenced from what no edge stands for.  Of the program it takes that entry
   points stand alone, and that who uses what stands in a class or a function names
   these or stands in them. *)
THEOREM OnlyTheUnseenIsMissed ==
  ASSUME EntryPointsStandAlone
  PROVE  WorkbenchSpec => [](ScopesAreNamed(UsesIn(code)) => LiveCodeIsMissedOnlyUnseen)
<1> DEFINE Inv == /\ SessionInv /\ RecordIsOfTheModel /\ CodeTyped
                  /\ CachesAreTrue /\ ReportsAreFresh
<1>1. WorkbenchInit => Inv
  <2> SUFFICES ASSUME WorkbenchInit PROVE Inv
    OBVIOUS
  <2>1. SessionInv /\ RecordIsOfTheModel /\ ItemsAreBodies
    BY DEF WorkbenchInit, PlannerInit, SessionInv, SessionTyped, CampaignTyped, OneSession, Closed, Idle,
       RecordIsOfTheModel, ItemsAreBodies
  <2>2. code \in Code
    BY ProgramsAssumption DEF WorkbenchInit, AnalysesInit
  <2>3. CachesAreTrue /\ ReportsAreFresh
    BY DEF WorkbenchInit, AnalysesInit, CachesAreTrue, ReportsAreFresh
  <2>4. QED
    BY <2>1, <2>2, <2>3 DEF CodeTyped
<1>2. Inv /\ [WorkbenchNext]_workbenchVars => Inv'
  <2> SUFFICES ASSUME Inv, [WorkbenchNext]_workbenchVars PROVE Inv'
    OBVIOUS
  <2>1. SessionInv' /\ RecordIsOfTheModel'
    BY SessionStep, RecordStep
  <2>2. CodeTyped'
    BY AnswersAssumption, ProgramsAssumption, ItemsStep, CodeStep DEF CodeTyped
  <2>3. CachesAreTrue'
    BY CachesStep
  <2>4. ReportsAreFresh'
    BY <2>3, ReportStep
  <2>5. QED
    BY <2>1, <2>2, <2>3, <2>4
<1>3. Inv => (ScopesAreNamed(UsesIn(code)) => LiveCodeIsMissedOnlyUnseen)
  <2> SUFFICES ASSUME Inv, ScopesAreNamed(UsesIn(code)), report.tool = "find_dead_code"
               PROVE  LiveIsReportedOnlyUnseen(UsesIn(code)) /\ LiveIsRemovedOnlyUnseen(UsesIn(code))
    BY DEF LiveCodeIsMissedOnlyUnseen
  <2>1. UsesIn(code) \in SUBSET Uses
    BY ProgramsAssumption, UsesAreUses DEF CodeTyped
  <2>2. report.dead \subseteq DeadSymbols(UsesIn(code))
    BY DEF ReportsAreFresh, Dead
  <2>3. LiveIsReportedOnlyUnseen(UsesIn(code))
    BY <2>1, <2>2, DefinitionsAssumption, NestingAssumption, HighMeansUnseen DEF LiveIsReportedOnlyUnseen
  <2>4. LiveIsRemovedOnlyUnseen(UsesIn(code))
    BY <2>1, DefinitionsAssumption, NestingAssumption, RemovedMeansUnseen
  <2>5. QED
    BY <2>3, <2>4
<1>4. QED
  BY <1>1, <1>2, <1>3, PTL DEF WorkbenchSpec
=============================================================================
