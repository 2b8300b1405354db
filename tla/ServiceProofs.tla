----------------------------- MODULE ServiceProofs -----------------------------
(***************************************************************************)
(* Proofs about the application service, for every catalogue of fields,     *)
(* every policy and every state of the sources: it implements the ladder,   *)
(* its warnings name the sources that failed, and its views agree on where   *)
(* the status comes from.                                                   *)
(***************************************************************************)
EXTENDS Service, FiniteSetTheorems, TLAPS

-----------------------------------------------------------------------------
(* The inductive invariant.                                                 *)

BodyFields == {"kind", "status", "has", "warned", "degraded", "partial", "lacking"}

GoodBody(b) == b = [f \in BodyFields |-> b[f]] /\ b.kind = "value"

\* What the cache may hold.
GoodEntry(e) ==
  \/ e = NoEntry
  \/ e.kind = "notfound" /\ e = [kind |-> e.kind, live |-> e.live]
  \/ /\ e.kind = "value" /\ GoodBody(e.body)
     /\ e = [kind |-> e.kind, live |-> e.live, body |-> e.body, fresh |-> e.fresh]

\* A request has its answer when it is over, and is on one of the first two
\* rungs until then; on the second only for want of the preferred source.
OnTheLadder ==
  /\ pc # "idle" <=> answer.kind = "pending"
  /\ pc \in {"lookup", "route", "fallback"} => rung = "preferred"
  /\ pc # "idle" => rung \in {"preferred", "fallback"}
  /\ pc # "idle" /\ rung = "fallback" => err = "unusable" /\ ~request.strong

Fetching == {"fetch", "fallback", "resolve", "respond"}

\* The decision in force names sources, and one that was down if it says so;
\* after a fallback it names the other source alone.
GoodDecision ==
  /\ decision = [target |-> decision.target, primary |-> decision.primary,
                 fallback |-> decision.fallback, rule |-> decision.rule]
  /\ decision.target \in Sources \cup {"BOTH"}
  /\ decision.primary = primaryOf(decision.target)
  /\ rung = "preferred" =>
       /\ decision.fallback \in Kinds
       /\ decision.rule = "health.primary_unavailable" =>
            decision.target \in Sources /\ otherThan(decision.target) \in history.down
  /\ rung = "fallback" =>
       decision.target \in Sources /\ decision.rule = "fallback" /\ view # "executions"

\* Which calls were made and what came of them.
GoodOutcome ==
  /\ outcome = [t \in TaskNames |-> outcome[t]]
  /\ \A t \in TaskNames : outcome[t] \in {"not run", "running", "ok"} \cup Failures
  /\ \A t \in TaskNames : outcome[t] # "not run" <=> t \in tasksOf(decision)

GoodInputs ==
  /\ in = [ops |-> in.ops, latest |-> in.latest, history |-> in.history, view |-> in.view]
  /\ outcome["ods.read"] = "ok" => in.ops
  /\ outcome["eds.latest"] = "ok" => in.latest # "none"

Bad == {sourceOf(t) : t \in {u \in TaskNames : outcome[u] \in {"unusable", "fault"}}}

\* The sources that failed are those of the calls of this fetch, and after a
\* fallback the one that was given up.
GoodHistory ==
  /\ rung = "preferred" => history.broken = Bad
  /\ rung = "fallback" => history.broken = Bad \cup {otherThan(decision.primary)}

\* FanOut has ended without an error.
AllWell ==
  \A t \in TaskNames : outcome[t] # "running" /\ ~(required(t) /\ outcome[t] \in Failures)

ServiceInv ==
  /\ pc \in {"idle", "lookup", "route", "failed"} \cup Fetching
  /\ request.strong \in BOOLEAN
  /\ history = [broken |-> history.broken, down |-> history.down,
                began |-> history.began, unheard |-> history.unheard]
  /\ GoodEntry(entry)
  /\ OnTheLadder
  /\ pc \in {"lookup", "route"} => history.broken = {}
  /\ pc \in Fetching => GoodDecision /\ GoodOutcome /\ GoodInputs /\ GoodHistory
  /\ pc = "fallback" =>
       view # "executions" /\ (err = "unusable" => \E t \in TaskNames : outcome[t] = "unusable")
  /\ pc \in {"resolve", "respond"} => AllWell
  /\ UnavailableNamed

-----------------------------------------------------------------------------
(* The operators the model is built from.                                   *)

LEMMA TaskNamesAre == TaskNames = {"ods.read", "eds.latest", "eds.history", "eds.view"}
<1>1. DOMAIN Tasks = {1, 2, 3, 4}
  BY DEF Tasks
<1>2. /\ Tasks[1] = "ods.read" /\ Tasks[2] = "eds.latest" /\ Tasks[3] = "eds.history"
      /\ Tasks[4] = "eds.view"
  BY DEF Tasks
<1> QED
  BY <1>1, <1>2 DEF TaskNames

LEMMA SourceOfIs == \A t : sourceOf(t) \in Sources
  BY DEF sourceOf, Sources

\* The calls of a decision that names one source are calls of that source.
LEMMA TasksOfOne ==
  ASSUME view # "executions", NEW d, d.target \in Sources, NEW t \in tasksOf(d)
  PROVE  sourceOf(t) = d.target
  BY DEF tasksOf, Includes, Sources, sourceOf

\* What stays while endpoint, configuration, rung and decision stay.
LEMMA SameCalls ==
  ASSUME UNCHANGED <<view, policy, rung, decision>>
  PROVE  /\ \A t : required(t)' <=> required(t)
         /\ (tasksOf(decision))' = tasksOf(decision)
<1>1. \A s : requiresSource(s)' <=> requiresSource(s)
  BY DEF requiresSource
<1>2. \A t : required(t)' <=> required(t)
  BY <1>1 DEF required
<1>3. (tasksOf(decision))' = tasksOf(decision)
  BY DEF tasksOf
<1> QED
  BY <1>2, <1>3

LEMMA SameDecision ==
  ASSUME GoodDecision, UNCHANGED <<view, rung, decision>>, history'.down = history.down
  PROVE  GoodDecision'
  BY DEF GoodDecision

LEMMA SameOutcome ==
  ASSUME GoodOutcome, UNCHANGED <<view, policy, rung, decision, outcome>> PROVE GoodOutcome'
  BY SameCalls DEF GoodOutcome

LEMMA SameHistory ==
  ASSUME GoodHistory, UNCHANGED <<rung, decision, outcome>>, history'.broken = history.broken
  PROVE  GoodHistory'
<1>1. Bad' = Bad
  BY DEF Bad
<1> QED
  BY <1>1 DEF GoodHistory

\* A request under way has no answer that could name anything.
LEMMA Unnamed == ASSUME answer'.kind # "value" PROVE UnavailableNamed'
  BY DEF UnavailableNamed, loaded

\* An answer that stands.
LEMMA StillNamed ==
  ASSUME UnavailableNamed, UNCHANGED <<view, rung, answer, history>> PROVE UnavailableNamed'
  BY DEF UnavailableNamed, loaded

\* A failed request needs only its place on the ladder.
LEMMA FailedGood ==
  ASSUME ServiceInv, pc' = "failed", pc # "idle", UNCHANGED <<request, entry, rung, answer>>,
         history' = [broken |-> history'.broken, down |-> history'.down,
                     began |-> history'.began, unheard |-> history'.unheard],
         rung = "fallback" => err' = "unusable" /\ ~request.strong
  PROVE  ServiceInv'
<1>1. answer'.kind = "pending" /\ answer.kind = "pending"
  BY DEF ServiceInv, OnTheLadder
<1>2. UnavailableNamed'
  BY <1>1, Unnamed
<1>3. GoodEntry(entry)'
  BY DEF ServiceInv, GoodEntry, NoEntry, GoodBody, BodyFields
<1>4. OnTheLadder'
  BY <1>1 DEF ServiceInv, OnTheLadder
<1> QED
  BY <1>2, <1>3, <1>4 DEF ServiceInv, Fetching

\* A fetch that goes on.
LEMMA FetchingGood ==
  ASSUME ServiceInv, pc \in Fetching, pc' \in Fetching, UNCHANGED <<request, entry, rung, answer>>,
         history' = [broken |-> history'.broken, down |-> history'.down,
                     began |-> history'.began, unheard |-> history'.unheard],
         pc' = "fallback" => rung = "preferred",
         rung = "fallback" => err' = err,
         GoodDecision', GoodOutcome', GoodInputs', GoodHistory',
         pc' = "fallback" => view' # "executions"
                               /\ (err' = "unusable" => \E t \in TaskNames : outcome'[t] = "unusable"),
         pc' \in {"resolve", "respond"} => AllWell'
  PROVE  ServiceInv'
<1>1. answer'.kind = "pending" /\ answer.kind = "pending" /\ pc # "idle"
  BY DEF ServiceInv, OnTheLadder, Fetching
<1>2. UnavailableNamed'
  BY <1>1, Unnamed
<1>3. GoodEntry(entry)'
  BY DEF ServiceInv, GoodEntry, NoEntry, GoodBody, BodyFields
<1>4. OnTheLadder'
  BY <1>1 DEF ServiceInv, OnTheLadder, Fetching
<1> QED
  BY <1>2, <1>3, <1>4 DEF ServiceInv, Fetching

-----------------------------------------------------------------------------
(* Every step keeps the invariant.                                          *)

LEMMA ServiceInvInit == Init => ServiceInv
<1> SUFFICES ASSUME Init PROVE ServiceInv
  OBVIOUS
<1>1. pc = "idle" /\ answer.kind = "nothing" /\ entry = NoEntry /\ request.strong = FALSE
  BY DEF Init
<1>2. history = [broken |-> history.broken, down |-> history.down,
                 began |-> history.began, unheard |-> history.unheard]
  BY DEF Init, NoHistory
<1>3. OnTheLadder /\ UnavailableNamed /\ GoodEntry(entry)
  BY <1>1 DEF OnTheLadder, UnavailableNamed, loaded, GoodEntry
<1> QED
  BY <1>1, <1>2, <1>3 DEF ServiceInv, Fetching

LEMMA ArriveGood == ASSUME ServiceInv, Arrive PROVE ServiceInv'
<1>1. PICK fs \in FieldSets, s \in BOOLEAN : request' = [fields |-> fs, strong |-> s]
  BY DEF Arrive
<1>2. pc' = "lookup" /\ rung' = "preferred" /\ answer'.kind = "pending" /\ entry' = entry
  BY DEF Arrive, Pending
<1>3. PICK w : w = world.latest
  OBVIOUS
<1>4. history' = [NoHistory EXCEPT !.began = w]
  BY <1>3 DEF Arrive
<1>5. history' = [broken |-> {}, down |-> {}, began |-> w, unheard |-> FALSE]
  BY <1>4 DEF NoHistory
<1>6. UnavailableNamed'
  BY <1>2, Unnamed
<1>7. OnTheLadder'
  BY <1>2 DEF OnTheLadder
<1>8. GoodEntry(entry)'
  BY <1>2 DEF ServiceInv, GoodEntry, NoEntry, GoodBody, BodyFields
<1> QED
  BY <1>1, <1>2, <1>5, <1>6, <1>7, <1>8 DEF ServiceInv, Fetching

\* A body is still one with another mark.
LEMMA Marked ==
  ASSUME NEW b, GoodBody(b), NEW m PROVE GoodBody([b EXCEPT !.degraded = m])
  BY DEF GoodBody, BodyFields

\* A request that is over, and its answer is not loaded for it.
LEMMA OverGood ==
  ASSUME ServiceInv, pc' = "idle", answer'.kind \in {"value", "notfound", "error"},
         GoodEntry(entry)', UNCHANGED <<request, history>>, UnavailableNamed'
  PROVE  ServiceInv'
<1>1. OnTheLadder'
  BY DEF OnTheLadder
<1> QED
  BY <1>1 DEF ServiceInv, Fetching

LEMMA HitGood == ASSUME ServiceInv, Hit PROVE ServiceInv'
<1>1. /\ pc = "lookup" /\ pc' = "idle" /\ rung' = "cache" /\ UNCHANGED <<view, request, entry, history>>
  BY DEF Hit, Say, fixed
<1>2. answer'.kind \in {"value", "notfound"}
  <2>1. entry # NoEntry
    BY DEF Hit, recalls
  <2>2. CASE entry.kind = "notfound"
    BY <2>2 DEF Hit, Say
  <2>3. CASE entry.kind # "notfound"
    <3>1. GoodBody(entry.body)
      BY <2>1, <2>3 DEF ServiceInv, GoodEntry
    <3>2. PICK m : answer' = [entry.body EXCEPT !.degraded = m]
      BY <2>3 DEF Hit, Say
    <3>3. GoodBody(answer')
      BY <3>1, <3>2, Marked
    <3> QED
      BY <3>3 DEF GoodBody
  <2> QED
    BY <2>2, <2>3
<1>3. UnavailableNamed'
  BY <1>1 DEF UnavailableNamed, loaded
<1>4. GoodEntry(entry)'
  BY <1>1 DEF ServiceInv, GoodEntry, NoEntry, GoodBody, BodyFields
<1> QED
  BY <1>1, <1>2, <1>3, <1>4, OverGood

LEMMA MissGood == ASSUME ServiceInv, Miss PROVE ServiceInv'
<1>1. pc = "lookup" /\ pc' = "route" /\ UNCHANGED <<view, request, entry, rung, answer, history, err>>
  BY DEF Miss, fixed
<1>2. OnTheLadder'
  BY <1>1 DEF ServiceInv, OnTheLadder
<1>3. UnavailableNamed'
  BY <1>1, StillNamed DEF ServiceInv
<1>4. GoodEntry(entry)'
  BY <1>1 DEF ServiceInv, GoodEntry, NoEntry, GoodBody, BodyFields
<1> QED
  BY <1>1, <1>2, <1>3, <1>4 DEF ServiceInv, Fetching

\* A fetch that begins: its calls run, and nothing has come back.
LEMMA Begun ==
  ASSUME NEW d, Start(d), UNCHANGED view
  PROVE  GoodOutcome' /\ GoodInputs' /\ Bad' = {}
<1>1. /\ outcome' = [t \in TaskNames |-> IF t \in tasksOf(d) THEN "running" ELSE "not run"]
      /\ in' = [ops |-> FALSE, latest |-> "none", history |-> FALSE, view |-> FALSE]
      /\ decision' = d
  BY DEF Start, NoInputs
<1>2. tasksOf(decision)' = tasksOf(d)
  BY <1>1 DEF tasksOf
<1>3. \A t \in TaskNames : outcome'[t] = IF t \in tasksOf(d) THEN "running" ELSE "not run"
  BY <1>1
<1>4. GoodOutcome'
  BY <1>1, <1>2, <1>3 DEF GoodOutcome
<1>5. outcome'["ods.read"] # "ok" /\ outcome'["eds.latest"] # "ok"
  BY <1>3, TaskNamesAre
<1>6. GoodInputs'
  BY <1>1, <1>5 DEF GoodInputs
<1>7. Bad' = {}
  BY <1>3 DEF Bad
<1> QED
  BY <1>4, <1>6, <1>7

LEMMA RouteGood == ASSUME ServiceInv, Route PROVE ServiceInv'
<1>1. PICK health \in [Sources -> {"up", "down"}], target \in Kinds \cup {"BOTH"}, fallback \in Kinds,
           name \in {"health.primary_unavailable", "another"} :
        LET d == [target |-> target, primary |-> primaryOf(target), fallback |-> fallback, rule |-> name]
        IN  /\ Offered(d, health, request.fields, request.strong)
            /\ history' = [history EXCEPT !.down = {s \in Sources : health[s] = "down"}]
            /\ IF target = "NONE"
                 THEN /\ err' = "no source" /\ pc' = "failed" /\ decision' = d
                      /\ UNCHANGED <<outcome, in>>
                 ELSE Start(d) /\ UNCHANGED err
  BY DEF Route
<1>0. PICK d :
        /\ d = [target |-> target, primary |-> primaryOf(target), fallback |-> fallback, rule |-> name]
        /\ Offered(d, health, request.fields, request.strong)
        /\ history' = [history EXCEPT !.down = {s \in Sources : health[s] = "down"}]
        /\ IF target = "NONE"
             THEN /\ err' = "no source" /\ pc' = "failed" /\ decision' = d
                  /\ UNCHANGED <<outcome, in>>
             ELSE Start(d) /\ UNCHANGED err
  BY <1>1
<1>2. pc = "route" /\ UNCHANGED <<view, policy, request, entry, rung, answer>>
  BY DEF Route, fixed
<1>3. rung = "preferred" /\ history.broken = {} /\ answer.kind = "pending"
  BY <1>2 DEF ServiceInv, OnTheLadder
<1>4. PICK down : down = {s \in Sources : health[s] = "down"}
  OBVIOUS
<1>5. history' = [history EXCEPT !.down = down]
  BY <1>0, <1>4
<1>6. history' = [broken |-> history.broken, down |-> down, began |-> history.began,
                  unheard |-> history.unheard]
  BY <1>5 DEF ServiceInv
<1>7. CASE target = "NONE"
  <2>1. pc' = "failed" /\ pc # "idle"
    BY <1>0, <1>2, <1>7
  <2>2. history' = [broken |-> history'.broken, down |-> history'.down,
                    began |-> history'.began, unheard |-> history'.unheard]
    BY <1>6
  <2>3. ~(rung = "fallback")
    BY <1>3
  <2> QED
    BY <1>2, <2>1, <2>2, <2>3, FailedGood
<1>8. CASE target # "NONE"
  <2>1. Start(d) /\ err' = err
    BY <1>0, <1>8
  <2>2. pc' = "fetch" /\ decision' = d
    BY <2>1 DEF Start
  <2>3. GoodOutcome' /\ GoodInputs' /\ Bad' = {}
    BY <1>2, <2>1, Begun
  <2>4. GoodHistory'
    BY <1>2, <1>3, <1>6, <2>3 DEF GoodHistory
  <2>5. GoodDecision'
    <3>1. /\ d.target = target /\ d.primary = primaryOf(target) /\ d.fallback \in Kinds /\ d.rule = name
          /\ d = [target |-> d.target, primary |-> d.primary, fallback |-> d.fallback, rule |-> d.rule]
      BY <1>0
    <3>2. target \in Sources \cup {"BOTH"}
      BY <1>8 DEF Kinds
    <3>3. name = "health.primary_unavailable" =>
            target # "BOTH" /\ health[otherThan(target)] = "down"
      BY <1>0, <1>8, <3>1 DEF Offered
    <3>4. target \in Sources => otherThan(target) \in Sources
      BY DEF otherThan, Sources
    <3>5. name = "health.primary_unavailable" => target \in Sources /\ otherThan(target) \in down
      BY <1>4, <3>2, <3>3, <3>4
    <3>6. history'.down = down /\ rung' = "preferred"
      BY <1>2, <1>3, <1>6
    <3> QED
      BY <2>2, <3>1, <3>2, <3>5, <3>6 DEF GoodDecision
  <2>6. OnTheLadder'
    BY <1>2, <1>3, <2>2 DEF OnTheLadder
  <2>7. UnavailableNamed'
    BY <1>2, <1>3, Unnamed
  <2>8. GoodEntry(entry)'
    BY <1>2 DEF ServiceInv, GoodEntry, NoEntry, GoodBody, BodyFields
  <2>9. request'.strong \in BOOLEAN
    BY <1>2 DEF ServiceInv
  <2> QED
    BY <1>6, <2>2, <2>3, <2>4, <2>5, <2>6, <2>7, <2>8, <2>9 DEF ServiceInv, Fetching
<1> QED
  BY <1>7, <1>8

\* What a call that ends adds.
LEMMA TaskEndsGood ==
  ASSUME ServiceInv, NEW t \in TaskNames, TaskEnds(t) PROVE ServiceInv'
<1>1. PICK o \in truth(t) \cup {"unusable", "fault"} :
        /\ outcome' = [outcome EXCEPT ![t] = o]
        /\ in' = IF o # "ok" THEN in
                 ELSE CASE t = "ods.read" -> [in EXCEPT !.ops = TRUE]
                        [] t = "eds.latest" -> [in EXCEPT !.latest = world.latest]
                        [] t = "eds.history" -> [in EXCEPT !.history = world.latest # "none"]
                        [] t = "eds.view" -> [in EXCEPT !.view = TRUE]
        /\ history' = IF o \in {"unusable", "fault"}
                        THEN [history EXCEPT !.broken = @ \cup {sourceOf(t)}] ELSE history
  BY DEF TaskEnds
<1>2. /\ pc = "fetch" /\ outcome[t] = "running"
      /\ UNCHANGED <<view, policy, world, entry, pc, request, rung, decision, err, answer>>
  BY DEF TaskEnds, fixed
<1>3. GoodDecision /\ GoodOutcome /\ GoodInputs /\ GoodHistory
  BY <1>2 DEF ServiceInv, Fetching
<1>4. o \in {"ok", "notfound", "unusable", "fault"}
  BY <1>1, TaskNamesAre DEF truth
<1>5. \A u \in TaskNames : outcome'[u] = IF u = t THEN o ELSE outcome[u]
  BY <1>1, <1>3 DEF GoodOutcome
<1>6. GoodOutcome'
  <2>1. outcome' = [u \in TaskNames |-> outcome'[u]]
    BY <1>1, <1>3 DEF GoodOutcome
  <2>2. \A u \in TaskNames : outcome'[u] \in {"not run", "running", "ok"} \cup Failures
    BY <1>3, <1>4, <1>5 DEF GoodOutcome, Failures
  <2>3. tasksOf(decision)' = tasksOf(decision)
    BY <1>2, SameCalls
  <2>4. \A u \in TaskNames : outcome'[u] # "not run" <=> u \in tasksOf(decision)'
    BY <1>2, <1>3, <1>4, <1>5, <2>3 DEF GoodOutcome
  <2> QED
    BY <2>1, <2>2, <2>4 DEF GoodOutcome
<1>7. history' = [broken |-> history'.broken, down |-> history.down,
                  began |-> history.began, unheard |-> history.unheard]
      /\ history'.broken = IF o \in {"unusable", "fault"} THEN history.broken \cup {sourceOf(t)}
                           ELSE history.broken
  <2>1. PICK src, b : src = sourceOf(t) /\ b = history.broken \cup {src}
    OBVIOUS
  <2>2. history = [broken |-> history.broken, down |-> history.down,
                   began |-> history.began, unheard |-> history.unheard]
    BY DEF ServiceInv
  <2>3. CASE o \in {"unusable", "fault"}
    <3>1. history' = [history EXCEPT !.broken = b]
      BY <1>1, <2>1, <2>3
    <3>2. history' = [broken |-> b, down |-> history.down,
                      began |-> history.began, unheard |-> history.unheard]
      BY <2>2, <3>1
    <3> QED
      BY <2>1, <2>3, <3>2
  <2>4. CASE o \notin {"unusable", "fault"}
    BY <1>1, <2>2, <2>4
  <2> QED
    BY <2>3, <2>4
<1>8. GoodDecision'
  BY <1>2, <1>3, <1>7, SameDecision
<1>9. GoodHistory'
  <2>1. Bad' = IF o \in {"unusable", "fault"} THEN Bad \cup {sourceOf(t)} ELSE Bad
    <3>1. CASE o \in {"unusable", "fault"}
      <4>1. {u \in TaskNames : outcome'[u] \in {"unusable", "fault"}}
              = {u \in TaskNames : outcome[u] \in {"unusable", "fault"}} \cup {t}
        BY <1>5, <3>1
      <4> QED
        BY <3>1, <4>1 DEF Bad
    <3>2. CASE o \notin {"unusable", "fault"}
      <4>1. {u \in TaskNames : outcome'[u] \in {"unusable", "fault"}}
              = {u \in TaskNames : outcome[u] \in {"unusable", "fault"}}
        BY <1>2, <1>5, <3>2
      <4> QED
        BY <3>2, <4>1 DEF Bad
    <3> QED
      BY <3>1, <3>2
  <2> QED
    BY <1>2, <1>3, <1>7, <2>1 DEF GoodHistory
<1>10. GoodInputs'
  <2>1. CASE o # "ok"
    BY <1>1, <1>2, <1>3, <1>5, <2>1, TaskNamesAre DEF GoodInputs
  <2>2. CASE o = "ok" /\ t = "ods.read"
    <3>1. in' = [in EXCEPT !.ops = TRUE]
      BY <1>1, <2>2
    <3>2. in' = [ops |-> TRUE, latest |-> in.latest, history |-> in.history, view |-> in.view]
      BY <1>3, <3>1 DEF GoodInputs
    <3> QED
      BY <1>3, <1>5, <2>2, <3>2, TaskNamesAre DEF GoodInputs
  <2>3. CASE o = "ok" /\ t = "eds.latest"
    <3>1. in' = [in EXCEPT !.latest = world.latest]
      BY <1>1, <2>3
    <3>2. in' = [ops |-> in.ops, latest |-> world.latest, history |-> in.history, view |-> in.view]
      BY <1>3, <3>1 DEF GoodInputs
    <3>3. world.latest # "none"
      BY <1>1, <2>3 DEF truth
    <3> QED
      BY <1>3, <1>5, <2>3, <3>2, <3>3, TaskNamesAre DEF GoodInputs
  <2>4. CASE o = "ok" /\ t = "eds.history"
    <3>1. PICK h : in' = [in EXCEPT !.history = h]
      BY <1>1, <2>4
    <3>2. in' = [ops |-> in.ops, latest |-> in.latest, history |-> h, view |-> in.view]
      BY <1>3, <3>1 DEF GoodInputs
    <3> QED
      BY <1>3, <1>5, <2>4, <3>2, TaskNamesAre DEF GoodInputs
  <2>5. CASE o = "ok" /\ t = "eds.view"
    <3>1. in' = [in EXCEPT !.view = TRUE]
      BY <1>1, <2>5
    <3>2. in' = [ops |-> in.ops, latest |-> in.latest, history |-> in.history, view |-> TRUE]
      BY <1>3, <3>1 DEF GoodInputs
    <3> QED
      BY <1>3, <1>5, <2>5, <3>2, TaskNamesAre DEF GoodInputs
  <2> QED
    BY <2>1, <2>2, <2>3, <2>4, <2>5, TaskNamesAre
<1>11. history' = [broken |-> history'.broken, down |-> history'.down,
                   began |-> history'.began, unheard |-> history'.unheard]
  BY <1>7
<1>12. pc \in Fetching /\ pc' \in Fetching /\ pc' = "fetch"
  BY <1>2 DEF Fetching
<1> QED
  BY <1>2, <1>6, <1>8, <1>9, <1>10, <1>11, <1>12, FetchingGood

\* The first required failure is the outcome of a call.
LEMMA FirstFailure ==
  ASSUME requiredFailures # {} PROVE \E t \in TaskNames : fanErr = outcome[t] /\ outcome[t] \in Failures
<1>1. requiredFailures \subseteq {1, 2, 3, 4} /\ DOMAIN Tasks = {1, 2, 3, 4}
  BY DEF requiredFailures, Tasks
<1>2. \E i \in requiredFailures : \A j \in requiredFailures : i <= j
  <2>1. CASE 1 \in requiredFailures
    BY <1>1, <2>1
  <2>2. CASE 1 \notin requiredFailures /\ 2 \in requiredFailures
    BY <1>1, <2>2
  <2>3. CASE 1 \notin requiredFailures /\ 2 \notin requiredFailures /\ 3 \in requiredFailures
    BY <1>1, <2>3
  <2>4. CASE 1 \notin requiredFailures /\ 2 \notin requiredFailures /\ 3 \notin requiredFailures
    <3>1. requiredFailures = {4}
      BY <1>1, <2>4
    <3> QED
      BY <3>1
  <2> QED
    BY <2>1, <2>2, <2>3, <2>4
<1>3. PICK i : i = CHOOSE k \in requiredFailures : \A j \in requiredFailures : k <= j
  OBVIOUS
<1>4. i \in requiredFailures
  BY <1>2, <1>3
<1>5. Tasks[i] \in TaskNames /\ outcome[Tasks[i]] \in Failures
  BY <1>4 DEF requiredFailures, TaskNames
<1>6. fanErr = outcome[Tasks[i]]
  BY <1>3 DEF fanErr
<1> QED
  BY <1>5, <1>6

LEMMA FetchFailsGood == ASSUME ServiceInv, FetchFails PROVE ServiceInv'
<1>1. /\ pc = "fetch" /\ rung = "preferred" /\ requiredFailures # {} /\ err' = fanErr
      /\ pc' = IF view = "executions" THEN "failed" ELSE "fallback"
      /\ UNCHANGED <<view, policy, entry, request, rung, decision, outcome, in, answer, history>>
  BY DEF FetchFails, fixed
<1>2. history' = [broken |-> history'.broken, down |-> history'.down,
                  began |-> history'.began, unheard |-> history'.unheard]
  BY <1>1 DEF ServiceInv
<1>3. CASE view = "executions"
  <2>1. pc' = "failed" /\ pc # "idle" /\ ~(rung = "fallback")
    BY <1>1, <1>3
  <2> QED
    BY <1>1, <1>2, <2>1, FailedGood
<1>4. CASE view # "executions"
  <2>1. GoodDecision /\ GoodOutcome /\ GoodInputs /\ GoodHistory
    BY <1>1 DEF ServiceInv, Fetching
  <2>2. GoodDecision' /\ GoodOutcome' /\ GoodHistory'
    BY <1>1, <2>1, SameDecision, SameOutcome, SameHistory
  <2>3. GoodInputs'
    BY <1>1, <2>1 DEF GoodInputs
  <2>4. err' = "unusable" => \E t \in TaskNames : outcome'[t] = "unusable"
    BY <1>1, FirstFailure
  <2>5. /\ pc' = "fallback" /\ pc \in Fetching /\ pc' \in Fetching /\ view' # "executions"
        /\ ~(pc' \in {"resolve", "respond"}) /\ ~(rung = "fallback")
    BY <1>1, <1>4 DEF Fetching
  <2> QED
    BY <1>1, <1>2, <2>2, <2>3, <2>4, <2>5, FetchingGood
<1> QED
  BY <1>3, <1>4

LEMMA FallbackFailsGood == ASSUME ServiceInv, FallbackFails PROVE ServiceInv'
<1>1. /\ pc = "fetch" /\ pc' = "failed" /\ UNCHANGED <<entry, request, rung, answer, history, err>>
  BY DEF FallbackFails
<1>2. rung = "fallback" => err' = "unusable" /\ ~request.strong
  BY <1>1 DEF ServiceInv, OnTheLadder
<1>3. pc # "idle" /\ history' = [broken |-> history'.broken, down |-> history'.down,
                                 began |-> history'.began, unheard |-> history'.unheard]
  BY <1>1 DEF ServiceInv
<1> QED
  BY <1>1, <1>2, <1>3, FailedGood

LEMMA FetchReturnsGood == ASSUME ServiceInv, FetchReturns PROVE ServiceInv'
<1>1. /\ pc = "fetch" /\ done /\ requiredFailures = {} /\ pc' = "resolve"
      /\ UNCHANGED <<view, policy, entry, request, rung, decision, outcome, in, err, answer, history>>
  BY DEF FetchReturns, fixed
<1>2. history' = [broken |-> history'.broken, down |-> history'.down,
                  began |-> history'.began, unheard |-> history'.unheard]
  BY <1>1 DEF ServiceInv
<1>3. GoodDecision /\ GoodOutcome /\ GoodInputs /\ GoodHistory
  BY <1>1 DEF ServiceInv, Fetching
<1>4. GoodDecision' /\ GoodOutcome' /\ GoodHistory'
  BY <1>1, <1>3, SameDecision, SameOutcome, SameHistory
<1>5. GoodInputs'
  BY <1>1, <1>3 DEF GoodInputs
<1>6. AllWell'
  <2>1. \A t \in TaskNames : ~(required(t) /\ outcome[t] \in Failures)
    BY <1>1 DEF requiredFailures, TaskNames
  <2>2. \A t : required(t)' <=> required(t)
    BY <1>1, SameCalls
  <2>3. \A t \in TaskNames : outcome[t] # "running"
    BY <1>1 DEF done
  <2> QED
    BY <1>1, <2>1, <2>2, <2>3 DEF AllWell
<1>7. pc \in Fetching /\ pc' \in Fetching /\ pc' # "fallback"
  BY <1>1 DEF Fetching
<1> QED
  BY <1>1, <1>2, <1>4, <1>5, <1>6, <1>7, FetchingGood

\* The fallback is the other source: the one that was asked first has failed.
LEMMA FallBackGood == ASSUME ServiceInv, FallBack PROVE ServiceInv'
<1>1. /\ pc = "fallback" /\ mayFallBack /\ rung' = "fallback"
      /\ UNCHANGED <<view, policy, entry, request, err, answer, history>>
  BY DEF FallBack, fixed
<1>2. PICK d : d = [decision EXCEPT !.target = decision.fallback, !.primary = decision.fallback,
                                    !.fallback = "NONE", !.rule = "fallback"]
  OBVIOUS
<1>3. Start(d)
  BY <1>2 DEF FallBack
<1>4. /\ GoodDecision /\ GoodOutcome /\ GoodHistory /\ rung = "preferred" /\ view # "executions"
      /\ err = "unusable" => \E t \in TaskNames : outcome[t] = "unusable"
      /\ answer.kind = "pending"
  BY <1>1 DEF ServiceInv, Fetching, OnTheLadder
<1>5. /\ err = "unusable" /\ ~request.strong /\ decision.fallback \in Kinds
      /\ decision.fallback # "NONE" /\ decision.fallback # decision.primary
      /\ ~(decision.target = "BOTH" /\ decision.fallback = "EXECUTION")
  BY <1>1, <1>4 DEF mayFallBack, GoodDecision
<1>6. /\ decision.target \in Sources /\ decision.fallback \in Sources
      /\ otherThan(decision.fallback) = decision.target
  BY <1>4, <1>5 DEF GoodDecision, Kinds, Sources, primaryOf, otherThan
<1>7. d = [target |-> decision.fallback, primary |-> decision.fallback,
           fallback |-> "NONE", rule |-> "fallback"]
  <2>1. decision = [target |-> decision.target, primary |-> decision.primary,
                    fallback |-> decision.fallback, rule |-> decision.rule]
    BY <1>4 DEF GoodDecision
  <2> QED
    BY <1>2, <2>1
<1>8. pc' = "fetch" /\ decision' = d
  BY <1>3 DEF Start
<1>9. GoodOutcome' /\ GoodInputs' /\ Bad' = {}
  BY <1>1, <1>3, Begun
<1>10. history.broken = {decision.target}
  <2>1. \A t \in TaskNames : outcome[t] \in {"unusable", "fault"} => sourceOf(t) = decision.target
    BY <1>4, <1>6, TasksOfOne DEF GoodOutcome
  <2>2. PICK t \in TaskNames : outcome[t] = "unusable"
    BY <1>4, <1>5
  <2>3. history.broken = Bad
    BY <1>4 DEF GoodHistory
  <2>4. Bad \subseteq {decision.target}
    BY <2>1 DEF Bad
  <2>5. decision.target \in Bad
    BY <2>1, <2>2 DEF Bad
  <2> QED
    BY <2>3, <2>4, <2>5
<1>11. GoodHistory'
  BY <1>1, <1>6, <1>7, <1>8, <1>9, <1>10 DEF GoodHistory
<1>12. GoodDecision'
  <2>1. primaryOf(decision.fallback) = decision.fallback
    BY <1>6 DEF primaryOf, Sources
  <2> QED
    BY <1>1, <1>4, <1>6, <1>7, <1>8, <2>1 DEF GoodDecision
<1>13. OnTheLadder'
  BY <1>1, <1>4, <1>5, <1>8 DEF OnTheLadder
<1>14. UnavailableNamed'
  BY <1>1, <1>4, Unnamed
<1>15. GoodEntry(entry)'
  BY <1>1 DEF ServiceInv, GoodEntry, NoEntry, GoodBody, BodyFields
<1>16. request'.strong \in BOOLEAN
       /\ history' = [broken |-> history'.broken, down |-> history'.down,
                      began |-> history'.began, unheard |-> history'.unheard]
  BY <1>1 DEF ServiceInv
<1> QED
  BY <1>8, <1>9, <1>11, <1>12, <1>13, <1>14, <1>15, <1>16 DEF ServiceInv, Fetching

LEMMA NoFallbackGood == ASSUME ServiceInv, NoFallback PROVE ServiceInv'
<1>1. /\ pc = "fallback" /\ pc' = "failed" /\ UNCHANGED <<entry, request, rung, answer, history, err>>
  BY DEF NoFallback
<1>2. ~(rung = "fallback")
  BY <1>1 DEF ServiceInv, OnTheLadder
<1>3. pc # "idle" /\ history' = [broken |-> history'.broken, down |-> history'.down,
                                 began |-> history'.began, unheard |-> history'.unheard]
  BY <1>1 DEF ServiceInv
<1> QED
  BY <1>1, <1>2, <1>3, FailedGood

LEMMA resolveInFlightGood == ASSUME ServiceInv, resolveInFlight PROVE ServiceInv'
<1>1. /\ pc = "resolve" /\ pc' = "respond"
      /\ UNCHANGED <<view, policy, entry, request, rung, decision, outcome, err, answer>>
  BY DEF resolveInFlight, fixed
<1>2. GoodDecision /\ GoodOutcome /\ GoodInputs /\ GoodHistory
  BY <1>1 DEF ServiceInv, Fetching
<1>3. history' = [broken |-> history.broken, down |-> history.down,
                  began |-> history.began, unheard |-> history'.unheard]
  <2>1. history' = history \/ history' = [history EXCEPT !.unheard = TRUE]
    BY DEF resolveInFlight
  <2>2. history = [broken |-> history.broken, down |-> history.down,
                   began |-> history.began, unheard |-> history.unheard]
    BY DEF ServiceInv
  <2> QED
    BY <2>1, <2>2
<1>4. in' = in \/ in' = [in EXCEPT !.latest = "running"]
  BY DEF resolveInFlight
<1>5. GoodInputs'
  <2>1. in = [ops |-> in.ops, latest |-> in.latest, history |-> in.history, view |-> in.view]
    BY <1>2 DEF GoodInputs
  <2>2. in' = in \/ in' = [ops |-> in.ops, latest |-> "running", history |-> in.history, view |-> in.view]
    BY <1>4, <2>1
  <2> QED
    BY <1>1, <1>2, <2>2 DEF GoodInputs
<1>6. GoodDecision' /\ GoodOutcome' /\ GoodHistory'
  BY <1>1, <1>2, <1>3, SameDecision, SameOutcome, SameHistory
<1>7. AllWell'
  <2>1. AllWell
    BY <1>1 DEF ServiceInv
  <2>2. \A t : required(t)' <=> required(t)
    BY <1>1, SameCalls
  <2> QED
    BY <1>1, <2>1, <2>2 DEF AllWell
<1>8. pc \in Fetching /\ pc' \in Fetching /\ pc' # "fallback"
  BY <1>1 DEF Fetching
<1>9. history' = [broken |-> history'.broken, down |-> history'.down,
                  began |-> history'.began, unheard |-> history'.unheard]
  BY <1>3
<1> QED
  BY <1>1, <1>5, <1>6, <1>7, <1>8, <1>9, FetchingGood

\* A fallback that was successful brings something back.
LEMMA FallbackBrings ==
  ASSUME ServiceInv, pc = "respond", rung = "fallback" PROVE ~empty
<1>1. /\ GoodDecision /\ GoodOutcome /\ GoodInputs /\ AllWell
      /\ decision.target \in Sources /\ view # "executions"
  BY DEF ServiceInv, Fetching, GoodDecision
<1>2. \A s : Includes(decision.target, s) => requiresSource(s)
  BY DEF requiresSource
<1>3. \A t \in {"ods.read", "eds.latest"} : outcome[t] \in {"not run", "ok"} \/ ~required(t)
  BY <1>1, TaskNamesAre DEF AllWell, GoodOutcome
<1>4. CASE decision.target = "OPERATIONAL"
  <2>1. Includes(decision.target, "OPERATIONAL")
    BY <1>4 DEF Includes
  <2>2. required("ods.read")
    BY <1>2, <2>1 DEF required, sourceOf
  <2>3. "ods.read" \in tasksOf(decision)
    BY <1>1, <2>1, TaskNamesAre DEF tasksOf, sourceOf
  <2>4. outcome["ods.read"] = "ok"
    BY <1>1, <1>3, <2>2, <2>3, TaskNamesAre DEF GoodOutcome
  <2> QED
    BY <1>1, <2>4 DEF GoodInputs, empty
<1>5. CASE decision.target = "EXECUTION"
  <2>1. Includes(decision.target, "EXECUTION")
    BY <1>5 DEF Includes
  <2>2. required("eds.latest")
    BY <1>2, <2>1 DEF required, sourceOf
  <2>3. "eds.latest" \in tasksOf(decision)
    BY <1>1, <1>5, <2>1, TaskNamesAre DEF tasksOf, sourceOf
  <2>4. outcome["eds.latest"] = "ok"
    BY <1>1, <1>3, <2>2, <2>3, TaskNamesAre DEF GoodOutcome
  <2> QED
    BY <1>1, <2>4 DEF GoodInputs, empty
<1> QED
  BY <1>1, <1>4, <1>5 DEF Sources

LEMMA RespondEmptyGood == ASSUME ServiceInv, RespondEmpty PROVE ServiceInv'
<1>1. /\ pc = "respond" /\ empty /\ pc' = "failed" /\ UNCHANGED <<entry, request, rung, answer, history>>
  BY DEF RespondEmpty
<1>2. ~(rung = "fallback")
  BY <1>1, FallbackBrings
<1>3. pc # "idle" /\ history' = [broken |-> history'.broken, down |-> history'.down,
                                 began |-> history'.began, unheard |-> history'.unheard]
  BY <1>1 DEF ServiceInv
<1> QED
  BY <1>1, <1>2, <1>3, FailedGood

\* The warnings of the answer that is about to be given.
LEMMA WarningsNamed ==
  ASSUME ServiceInv, pc = "respond", view # "executions"
  PROVE  /\ history.broken \subseteq bypassed \cup fallbackFrom \cup omitted
         /\ bypassed \cup fallbackFrom \cup omitted \subseteq history.broken \cup history.down
<1>1. GoodDecision /\ GoodOutcome /\ GoodHistory /\ AllWell /\ rung \in {"preferred", "fallback"}
  BY DEF ServiceInv, Fetching, OnTheLadder
<1>2. omitted = Bad
  <2>1. \A u \in TaskNames : outcome[u] \in {"unusable", "fault"} => ~required(u)
    BY <1>1 DEF AllWell, Failures
  <2>2. {u \in TaskNames : ~required(u) /\ outcome[u] \in {"unusable", "fault"}}
          = {u \in TaskNames : outcome[u] \in {"unusable", "fault"}}
    BY <2>1
  <2> QED
    BY <2>2 DEF omitted, Bad
<1>3. CASE rung = "preferred"
  <2>1. history.broken = omitted /\ fallbackFrom = {}
    BY <1>1, <1>2, <1>3 DEF GoodHistory, fallbackFrom
  <2>2. bypassed \subseteq history.down
    <3>1. decision.rule = "health.primary_unavailable" =>
            decision.primary = decision.target /\ otherThan(decision.target) \in history.down
      BY <1>1, <1>3 DEF GoodDecision, primaryOf, Sources
    <3> QED
      BY <3>1 DEF bypassed
  <2> QED
    BY <2>1, <2>2
<1>4. CASE rung = "fallback"
  <2>1. history.broken = omitted \cup {otherThan(decision.primary)}
    BY <1>1, <1>2, <1>4 DEF GoodHistory
  <2>2. fallbackFrom = {otherThan(decision.primary)}
    BY <1>4 DEF fallbackFrom
  <2>3. bypassed = {}
    BY <1>1, <1>4 DEF GoodDecision, bypassed
  <2> QED
    BY <2>1, <2>2, <2>3
<1> QED
  BY <1>1, <1>3, <1>4

\* A warning is not all that an answer says about itself.
LEMMA WarnedIsMarked ==
  ASSUME bypassed \cup fallbackFrom \cup omitted # {}
  PROVE  body.degraded \/ body.partial
<1>1. /\ bypassed # {} \/ rung = "fallback" => body.degraded
      /\ omitted # {} => body.partial
  BY DEF body
<1> QED
  BY <1>1 DEF fallbackFrom

LEMMA RespondGood == ASSUME ServiceInv, Respond PROVE ServiceInv'
<1>1. PICK b, fresh : /\ b = IF view = "executions" THEN executionBody ELSE body
                      /\ fresh = IF view = "executions" THEN "UNKNOWN" ELSE reportedFreshness
  OBVIOUS
<1>2. /\ pc = "respond" /\ pc' = "idle" /\ answer' = b
      /\ entry' = [kind |-> "value", live |-> TRUE, body |-> b, fresh |-> fresh]
      /\ UNCHANGED <<view, policy, request, rung, history>>
  BY <1>1 DEF Respond, Say, fixed
<1>3. GoodBody(b)
  <2>1. CASE view = "executions"
    BY <1>1, <2>1 DEF executionBody, GoodBody, BodyFields
  <2>2. CASE view # "executions"
    <3>1. PICK st, hs, wa, de, pa, la :
            body = [kind |-> "value", status |-> st, has |-> hs, warned |-> wa,
                    degraded |-> de, partial |-> pa, lacking |-> la]
      BY DEF body
    <3> QED
      BY <1>1, <2>2, <3>1 DEF GoodBody, BodyFields
  <2> QED
    BY <2>1, <2>2
<1>4. GoodEntry(entry)'
  BY <1>2, <1>3 DEF GoodEntry, GoodBody, BodyFields
<1>5. UnavailableNamed'
  <2>1. CASE view = "executions"
    BY <1>2, <2>1 DEF UnavailableNamed, loaded
  <2>2. CASE view # "executions"
    <3>1. b = body
      BY <1>1, <2>2
    <3>2. body.warned = bypassed \cup fallbackFrom \cup omitted
      BY DEF body
    <3>3. /\ history.broken \subseteq b.warned
          /\ b.warned \subseteq history.broken \cup history.down
      BY <1>2, <2>2, <3>1, <3>2, WarningsNamed
    <3>4. b.warned # {} => b.degraded \/ b.partial
      BY <3>1, <3>2, WarnedIsMarked
    <3> QED
      BY <1>2, <3>3, <3>4 DEF UnavailableNamed, loaded
  <2> QED
    BY <2>1, <2>2
<1>6. answer'.kind = "value"
  BY <1>2, <1>3 DEF GoodBody
<1> QED
  BY <1>2, <1>4, <1>5, <1>6, OverGood

LEMMA ServeStaleGood == ASSUME ServiceInv, ServeStale PROVE ServiceInv'
<1>1. /\ pc = "failed" /\ pc' = "idle" /\ rung' = "stale" /\ entry.kind = "value"
      /\ answer' = [entry.body EXCEPT !.degraded = TRUE]
      /\ UNCHANGED <<view, request, entry, history>>
  BY DEF ServeStale, mayServeStale, Say, fixed
<1>2. GoodBody(entry.body)
  BY <1>1 DEF ServiceInv, GoodEntry, NoEntry
<1>3. GoodBody(answer')
  BY <1>1, <1>2, Marked
<1>4. answer'.kind = "value"
  BY <1>3 DEF GoodBody
<1>5. UnavailableNamed'
  BY <1>1 DEF UnavailableNamed, loaded
<1>6. GoodEntry(entry)'
  BY <1>1 DEF ServiceInv, GoodEntry, NoEntry, GoodBody, BodyFields
<1> QED
  BY <1>1, <1>4, <1>5, <1>6, OverGood

LEMMA ReportErrorGood == ASSUME ServiceInv, ReportError PROVE ServiceInv'
<1>1. pc = "failed" /\ pc' = "idle" /\ UNCHANGED <<request, history>>
  BY DEF ReportError, Say
<1>2. answer'.kind \in {"notfound", "error"}
  BY DEF ReportError, Say
<1>3. GoodEntry(entry)'
  <2>1. entry' = entry \/ entry' = [kind |-> "notfound", live |-> TRUE]
    BY DEF ReportError, NotFoundEntry
  <2> QED
    BY <2>1 DEF ServiceInv, GoodEntry, NoEntry, GoodBody, BodyFields
<1>4. UnavailableNamed'
  BY <1>2, Unnamed
<1> QED
  BY <1>1, <1>2, <1>3, <1>4, OverGood

LEMMA ExpireGood == ASSUME ServiceInv, Expire PROVE ServiceInv'
<1>1. /\ pc = "idle" /\ UNCHANGED <<view, pc, request, rung, answer, err, history>>
      /\ entry' = NoEntry \/ (entry # NoEntry /\ entry' = [entry EXCEPT !.live = FALSE])
  BY DEF Expire, fixed
<1>2. GoodEntry(entry)'
  <2>1. CASE entry' = NoEntry
    BY <2>1 DEF GoodEntry, NoEntry
  <2>2. CASE entry # NoEntry /\ entry' = [entry EXCEPT !.live = FALSE]
    <3>1. PICK e : e = entry
      OBVIOUS
    <3>2. \/ e.kind = "notfound" /\ e = [kind |-> e.kind, live |-> e.live]
          \/ /\ e.kind = "value" /\ GoodBody(e.body)
             /\ e = [kind |-> e.kind, live |-> e.live, body |-> e.body, fresh |-> e.fresh]
      BY <2>2, <3>1 DEF ServiceInv, GoodEntry
    <3>3. \/ entry' = [kind |-> "notfound", live |-> FALSE]
          \/ /\ entry' = [kind |-> "value", live |-> FALSE, body |-> e.body, fresh |-> e.fresh]
             /\ GoodBody(e.body)
      BY <2>2, <3>1, <3>2
    <3> QED
      BY <3>3 DEF GoodEntry, GoodBody, BodyFields
  <2> QED
    BY <1>1, <2>1, <2>2
<1>3. OnTheLadder' /\ UnavailableNamed'
  BY <1>1, StillNamed DEF ServiceInv, OnTheLadder
<1> QED
  BY <1>1, <1>2, <1>3 DEF ServiceInv, Fetching

\* Nothing that the invariant speaks of depends on what the sources hold.
LEMMA ExecutionFinishesGood == ASSUME ServiceInv, ExecutionFinishes PROVE ServiceInv'
<1>1. UNCHANGED <<view, policy, entry, pc, request, rung, decision, outcome, in, err, answer, history>>
  BY DEF ExecutionFinishes, fixed
<1>2. OnTheLadder' /\ UnavailableNamed'
  BY <1>1, StillNamed DEF ServiceInv, OnTheLadder
<1>3. GoodEntry(entry)'
  BY <1>1 DEF ServiceInv, GoodEntry, NoEntry, GoodBody, BodyFields
<1>4. pc \in Fetching => GoodDecision' /\ GoodOutcome' /\ GoodInputs' /\ GoodHistory'
  <2> SUFFICES ASSUME pc \in Fetching PROVE GoodDecision' /\ GoodOutcome' /\ GoodInputs' /\ GoodHistory'
    OBVIOUS
  <2>1. GoodDecision /\ GoodOutcome /\ GoodInputs /\ GoodHistory
    BY DEF ServiceInv
  <2>2. GoodInputs'
    BY <1>1, <2>1 DEF GoodInputs
  <2> QED
    BY <1>1, <2>1, <2>2, SameDecision, SameOutcome, SameHistory
<1>5. pc \in {"resolve", "respond"} => AllWell'
  BY <1>1, SameCalls DEF ServiceInv, AllWell
<1> QED
  BY <1>1, <1>2, <1>3, <1>4, <1>5 DEF ServiceInv

LEMMA StutterGood == ASSUME ServiceInv, UNCHANGED vars PROVE ServiceInv'
<1>1. UNCHANGED <<view, policy, entry, pc, request, rung, decision, outcome, in, err, answer, history>>
  BY DEF vars
<1>2. OnTheLadder' /\ UnavailableNamed'
  BY <1>1, StillNamed DEF ServiceInv, OnTheLadder
<1>3. GoodEntry(entry)'
  BY <1>1 DEF ServiceInv, GoodEntry, NoEntry, GoodBody, BodyFields
<1>4. pc \in Fetching => GoodDecision' /\ GoodOutcome' /\ GoodInputs' /\ GoodHistory'
  <2> SUFFICES ASSUME pc \in Fetching PROVE GoodDecision' /\ GoodOutcome' /\ GoodInputs' /\ GoodHistory'
    OBVIOUS
  <2>1. GoodDecision /\ GoodOutcome /\ GoodInputs /\ GoodHistory
    BY DEF ServiceInv
  <2>2. GoodInputs'
    BY <1>1, <2>1 DEF GoodInputs
  <2> QED
    BY <1>1, <2>1, <2>2, SameDecision, SameOutcome, SameHistory
<1>5. pc \in {"resolve", "respond"} => AllWell'
  BY <1>1, SameCalls DEF ServiceInv, AllWell
<1> QED
  BY <1>1, <1>2, <1>3, <1>4, <1>5 DEF ServiceInv

LEMMA ServiceInvNext == ServiceInv /\ [Next]_vars => ServiceInv'
<1> SUFFICES ASSUME ServiceInv, [Next]_vars PROVE ServiceInv'
  OBVIOUS
<1> QED
  BY StutterGood, ArriveGood, HitGood, MissGood, RouteGood, TaskEndsGood, FetchFailsGood,
     FallbackFailsGood, FetchReturnsGood, FallBackGood, NoFallbackGood, resolveInFlightGood,
     RespondEmptyGood, RespondGood, ServeStaleGood, ReportErrorGood, ExpireGood,
     ExecutionFinishesGood
     DEF Next

LEMMA ServiceInvAlways == Spec => []ServiceInv
  BY ServiceInvInit, ServiceInvNext, PTL DEF Spec

-----------------------------------------------------------------------------
(* The theorems.                                                            *)

\* Over both fetches of a request, and whatever health routing went around,
\* the warnings of a loaded answer name every source that failed and no other,
\* and an answer with a warning is marked (loadResource, FanOut).
THEOREM WarningsNameTheFailed == Spec => []UnavailableNamed
<1>1. ServiceInv => UnavailableNamed
  BY DEF ServiceInv
<1> QED
  BY <1>1, ServiceInvAlways, PTL

\* A denial is heard before any fallback.
LEMMA DeniedAtFirst == ASSUME ServiceInv, pc = "failed", err = "notfound" PROVE rung = "preferred"
  BY DEF ServiceInv, OnTheLadder

\* What a request knows of its failure: nothing before it is routed, and once
\* it has failed there was a failure, a denial, or no source to ask.
ErrInv ==
  /\ pc \in {"lookup", "route"} => err = "none" /\ decision.target = "NONE"
  /\ pc \in Fetching => err # "no source"
  /\ pc \in {"fallback", "failed"} => err \in {"notfound", "no source"} \/ history.broken # {}

LEMMA ErrInvInit == Init => ErrInv
  BY DEF Init, ErrInv, Fetching

\* A call that failed for want of its source is in the history.
LEMMA FailureNoted ==
  ASSUME ServiceInv, FetchFails PROVE err' \in Failures /\ (err' = "notfound" \/ history'.broken # {})
<1>1. /\ pc = "fetch" /\ rung = "preferred" /\ requiredFailures # {} /\ err' = fanErr
      /\ history' = history
  BY DEF FetchFails
<1>2. history.broken = Bad
  BY <1>1 DEF ServiceInv, Fetching, GoodHistory
<1>3. PICK t \in TaskNames : fanErr = outcome[t] /\ outcome[t] \in Failures
  BY <1>1, FirstFailure
<1>4. outcome[t] \in {"unusable", "fault"} => sourceOf(t) \in Bad
  BY DEF Bad
<1> QED
  BY <1>1, <1>2, <1>3, <1>4 DEF Failures

\* A request on the fallback has left a source behind.
LEMMA FallbackNoted ==
  ASSUME ServiceInv, pc = "fetch", rung = "fallback" PROVE history.broken # {} /\ err = "unusable"
  BY DEF ServiceInv, Fetching, GoodHistory, OnTheLadder

LEMMA ErrInvNext == ServiceInv /\ ErrInv /\ [Next]_vars => ErrInv'
<1> SUFFICES ASSUME ServiceInv, ErrInv, [Next]_vars PROVE ErrInv'
  OBVIOUS
<1>1. CASE Arrive
  BY <1>1 DEF Arrive, ErrInv, Fetching, NoDecision
<1>2. CASE Hit \/ Respond \/ ServeStale \/ ReportError
  <2>1. pc' = "idle"
    BY <1>2 DEF Hit, Respond, ServeStale, ReportError, Say
  <2> QED
    BY <2>1 DEF ErrInv, Fetching
<1>3. CASE Miss
  BY <1>3 DEF Miss, ErrInv, Fetching
<1>4. CASE Route
  <2>1. pc = "route" /\ err = "none"
    BY <1>4 DEF Route, ErrInv
  <2>2. (pc' = "failed" /\ err' = "no source") \/ (pc' = "fetch" /\ err' = err)
    BY <1>4 DEF Route, Start
  <2> QED
    BY <2>1, <2>2 DEF ErrInv, Fetching
<1>5. CASE \E t \in TaskNames : TaskEnds(t)
  <2>1. pc = "fetch" /\ pc' = "fetch" /\ err' = err
    BY <1>5 DEF TaskEnds
  <2> QED
    BY <2>1 DEF ErrInv, Fetching
<1>6. CASE FetchFails
  <2>1. pc' \in {"failed", "fallback"}
    BY <1>6 DEF FetchFails
  <2> QED
    BY <1>6, <2>1, FailureNoted DEF ErrInv, Fetching, Failures
<1>7. CASE FallbackFails
  <2>1. pc = "fetch" /\ rung = "fallback" /\ pc' = "failed" /\ err' = err /\ history' = history
    BY <1>7 DEF FallbackFails
  <2> QED
    BY <2>1, FallbackNoted DEF ErrInv, Fetching
<1>8. CASE FetchReturns \/ resolveInFlight
  <2>1. pc \in Fetching /\ pc' \in {"resolve", "respond"} /\ err' = err
    BY <1>8 DEF FetchReturns, resolveInFlight, Fetching
  <2> QED
    BY <2>1 DEF ErrInv, Fetching
<1>9. CASE FallBack
  <2>1. pc = "fallback" /\ pc' = "fetch" /\ err' = err
    BY <1>9 DEF FallBack, Start
  <2> QED
    BY <2>1 DEF ErrInv, Fetching
<1>10. CASE NoFallback
  BY <1>10 DEF NoFallback, ErrInv, Fetching
<1>11. CASE RespondEmpty
  BY <1>11 DEF RespondEmpty, ErrInv, Fetching
<1>12. CASE Expire \/ ExecutionFinishes \/ UNCHANGED vars
  <2>1. UNCHANGED <<pc, err, decision, history>>
    BY <1>12 DEF Expire, ExecutionFinishes, vars
  <2> QED
    BY <2>1 DEF ErrInv
<1> QED
  BY <1>1, <1>2, <1>3, <1>4, <1>5, <1>6, <1>7, <1>8, <1>9, <1>10, <1>11, <1>12 DEF Next

\* What the ladder sees stays while these do.
LEMMA SameRung ==
  ASSUME UNCHANGED <<rung, decision, request>> PROVE rungTaken' = rungTaken
<1>1. bypassed' = bypassed
  BY DEF bypassed
<1> QED
  BY <1>1 DEF rungTaken

\* Before it is routed, a request stands where it began.
LEMMA AtFirst ==
  ASSUME rung = "preferred", decision.target = "NONE" PROVE rungTaken = "preferred"
  BY DEF rungTaken, Sources

\* Where a request that nobody has answered may stand.
LEMMA Standing ==
  ASSUME ServiceInv, pc # "idle"
  PROVE  rungTaken \in {"preferred", "narrowed", "rerouted", "fallback"}
           /\ (rung = "preferred" => rungTaken # "fallback")
  BY DEF ServiceInv, OnTheLadder, rungTaken

LEMMA LadderStep == ServiceInv /\ ErrInv /\ [Next]_vars => [Promise!Next]_(Promise!vars)
<1> SUFFICES ASSUME ServiceInv, ErrInv, [Next]_vars PROVE [Promise!Next]_(Promise!vars)
  OBVIOUS
<1> USE DEF Promise!vars
<1>1. CASE Arrive
  <2>1. PICK fs \in FieldSets, s \in BOOLEAN : request' = [fields |-> fs, strong |-> s]
    BY <1>1 DEF Arrive
  <2>2. answer'.kind = "pending" /\ answer.kind # "pending"
    BY <1>1 DEF Arrive, Pending, ServiceInv, OnTheLadder
  <2>3. rungTaken' = "preferred"
    BY <1>1 DEF Arrive, NoDecision, rungTaken, Sources
  <2>4. history'.broken = {} /\ err' = "none"
    <3>1. PICK w : w = world.latest
      OBVIOUS
    <3>2. history' = [NoHistory EXCEPT !.began = w]
      BY <1>1, <3>1 DEF Arrive
    <3> QED
      BY <1>1, <3>2 DEF Arrive, NoHistory
  <2>5. givenUp' = FALSE
    BY <2>4 DEF givenUp
  <2>6. Promise!Ask
    BY <2>1, <2>2, <2>3, <2>5 DEF Promise!Ask
  <2> QED
    BY <2>6 DEF Promise!Next
<1>2. CASE Hit
  <2>1. /\ answer.kind = "pending" /\ rung = "preferred" /\ rung' = "cache" /\ pc = "lookup"
        /\ request' = request /\ ~request.strong /\ entry # NoEntry
        /\ UNCHANGED <<history, err>>
    BY <1>2 DEF Hit, recalls, ServiceInv, OnTheLadder
  <2>2. rungTaken = "preferred" /\ rungTaken' = "cache"
    BY <2>1, AtFirst DEF ErrInv, rungTaken
  <2>3. ~givenUp /\ givenUp' = givenUp
    BY <2>1 DEF ServiceInv, ErrInv, givenUp
  <2>4. CASE entry.kind = "notfound"
    <3>1. answer'.kind = "notfound"
      BY <1>2, <2>4 DEF Hit, Say
    <3>2. Promise!Deny
      BY <2>1, <2>2, <2>3, <3>1 DEF Promise!Deny, Promise!FromCache
    <3> QED
      BY <3>2 DEF Promise!Next
  <2>5. CASE entry.kind # "notfound"
    <3>1. GoodBody(entry.body)
      BY <2>1, <2>5 DEF ServiceInv, GoodEntry
    <3>2. PICK m : answer' = [entry.body EXCEPT !.degraded = m]
      BY <1>2, <2>5 DEF Hit, Say
    <3>3. GoodBody(answer')
      BY <3>1, <3>2, Marked
    <3>4. answer'.kind = "value"
      BY <3>3 DEF GoodBody
    <3>5. Promise!Serve
      BY <2>1, <2>2, <2>3, <3>4 DEF Promise!Serve, Promise!FromCache
    <3> QED
      BY <3>5 DEF Promise!Next
  <2> QED
    BY <2>4, <2>5
<1>3. CASE Route
  <2>1. /\ pc = "route" /\ rung = "preferred" /\ answer.kind = "pending" /\ err = "none"
        /\ decision.target = "NONE" /\ history.broken = {}
        /\ UNCHANGED <<rung, request, answer>>
    BY <1>3 DEF Route, ServiceInv, OnTheLadder, ErrInv
  <2>2. history'.broken = history.broken
    <3>1. PICK down : history' = [history EXCEPT !.down = down]
      BY <1>3 DEF Route
    <3>2. history = [broken |-> history.broken, down |-> history.down,
                     began |-> history.began, unheard |-> history.unheard]
      BY DEF ServiceInv
    <3> QED
      BY <3>1, <3>2
  <2>3. rungTaken = "preferred" /\ givenUp = FALSE
    BY <2>1, AtFirst DEF givenUp
  <2>4. PICK d :
          /\ \E health \in [Sources -> {"up", "down"}] :
               Offered(d, health, request.fields, request.strong)
          /\ decision' = d
          /\ \/ d.target = "NONE" /\ err' = "no source"
             \/ d.target # "NONE" /\ err' = err
    <3>1. PICK health \in [Sources -> {"up", "down"}], target \in Kinds \cup {"BOTH"},
               fallback \in Kinds, name \in {"health.primary_unavailable", "another"} :
            LET d == [target |-> target, primary |-> primaryOf(target), fallback |-> fallback,
                      rule |-> name]
            IN  /\ Offered(d, health, request.fields, request.strong)
                /\ IF target = "NONE" THEN err' = "no source" /\ decision' = d
                   ELSE Start(d) /\ UNCHANGED err
      BY <1>3 DEF Route
    <3>2. PICK d :
            /\ d = [target |-> target, primary |-> primaryOf(target), fallback |-> fallback,
                    rule |-> name]
            /\ Offered(d, health, request.fields, request.strong)
            /\ IF target = "NONE" THEN err' = "no source" /\ decision' = d
               ELSE Start(d) /\ UNCHANGED err
      BY <3>1
    <3>3. d.target = target
      BY <3>2
    <3> QED
      BY <3>2, <3>3 DEF Start
  <2>5. CASE d.target = "NONE"
    <3>1. rungTaken' = "preferred"
      BY <2>1, <2>4, <2>5 DEF rungTaken, Sources
    <3>2. givenUp' = TRUE
      BY <2>4, <2>5 DEF givenUp
    <3>3. Promise!Break
      BY <2>1, <2>3, <3>1, <3>2 DEF Promise!Break
    <3> QED
      BY <3>3 DEF Promise!Next
  <2>6. CASE d.target # "NONE"
    <3>1. givenUp' = FALSE
      BY <2>1, <2>2, <2>4, <2>6 DEF givenUp
    <3>2. rungTaken' \in {"preferred", "narrowed", "rerouted"}
      BY <2>1 DEF rungTaken
    <3>3. rungTaken' = "rerouted" => ~request.strong
      <4>1. rungTaken' = "rerouted" => d.rule = "health.primary_unavailable"
        BY <2>1, <2>4 DEF rungTaken, bypassed
      <4> QED
        BY <2>4, <2>6, <4>1 DEF Offered
    <3>4. CASE rungTaken' = "preferred"
      BY <2>1, <2>3, <3>1, <3>4
    <3>5. CASE rungTaken' # "preferred"
      <4>1. Promise!Reroute
        BY <2>1, <2>3, <3>1, <3>2, <3>3, <3>5 DEF Promise!Reroute
      <4> QED
        BY <4>1 DEF Promise!Next
    <3> QED
      BY <3>4, <3>5
  <2> QED
    BY <2>5, <2>6
<1>4. CASE \E t \in TaskNames : TaskEnds(t)
  <2>1. PICK t \in TaskNames : TaskEnds(t)
    BY <1>4
  <2>2. pc = "fetch" /\ answer.kind = "pending" /\ UNCHANGED <<rung, decision, request, answer, err>>
    BY <2>1 DEF TaskEnds, ServiceInv, OnTheLadder
  <2>3. rungTaken' = rungTaken
    BY <2>2, SameRung
  <2>4. givenUp' = givenUp \/ givenUp' = TRUE
    <3>1. history.broken \subseteq history'.broken
      <4>1. PICK b : history' = history \/ history' = [history EXCEPT !.broken = history.broken \cup b]
        BY <2>1 DEF TaskEnds
      <4>2. history = [broken |-> history.broken, down |-> history.down,
                       began |-> history.began, unheard |-> history.unheard]
        BY DEF ServiceInv
      <4> QED
        BY <4>1, <4>2
    <3> QED
      BY <2>2, <3>1 DEF givenUp
  <2>5. CASE givenUp' = givenUp
    BY <2>2, <2>3, <2>5
  <2>6. CASE givenUp' = TRUE
    <3>1. Promise!Break
      BY <2>2, <2>3, <2>6 DEF Promise!Break
    <3> QED
      BY <3>1 DEF Promise!Next
  <2> QED
    BY <2>4, <2>5, <2>6
<1>5. CASE FallBack
  <2>1. /\ answer.kind = "pending" /\ rung = "preferred" /\ rung' = "fallback" /\ pc = "fallback"
        /\ UNCHANGED <<request, answer, history, err>> /\ ~request.strong /\ err = "unusable"
    BY <1>5 DEF FallBack, mayFallBack, ServiceInv, OnTheLadder
  <2>2. givenUp = TRUE /\ givenUp' = TRUE
    BY <2>1 DEF ErrInv, givenUp
  <2>3. rungTaken \in {"preferred", "narrowed", "rerouted"} /\ rungTaken' = "fallback"
    BY <2>1 DEF rungTaken
  <2>4. Promise!Descend
    BY <2>1, <2>2, <2>3 DEF Promise!Descend
  <2> QED
    BY <2>4 DEF Promise!Next
<1>6. CASE Respond
  <2>1. ServiceInv' /\ pc' = "idle" /\ entry'.body = answer' /\ entry'.kind = "value"
    BY <1>6, RespondGood DEF Respond, Say
  <2>2. answer'.kind = "value"
    BY <2>1 DEF ServiceInv, GoodEntry, NoEntry, GoodBody
  <2>3. answer.kind = "pending" /\ UNCHANGED <<rung, decision, request, history, err>>
    BY <1>6 DEF Respond, ServiceInv, OnTheLadder
  <2>4. rungTaken' = rungTaken /\ givenUp' = givenUp
    BY <2>3, SameRung DEF givenUp
  <2>5. Promise!Serve
    BY <2>2, <2>3, <2>4 DEF Promise!Serve
  <2> QED
    BY <2>5 DEF Promise!Next
<1>7. CASE ServeStale
  <2>1. /\ answer.kind = "pending" /\ rung' = "stale" /\ request' = request /\ ~request.strong
        /\ entry.kind = "value" /\ answer' = [entry.body EXCEPT !.degraded = TRUE]
        /\ pc = "failed" /\ err \in {"unusable", "no source"} /\ UNCHANGED <<history, err>>
    BY <1>7 DEF ServeStale, mayServeStale, Say, ServiceInv, OnTheLadder
  <2>2. GoodBody(entry.body)
    <3>1. GoodEntry(entry) /\ entry.kind = "value"
      BY <2>1 DEF ServiceInv
    <3> QED
      BY <3>1 DEF GoodEntry, NoEntry
  <2>3. GoodBody(answer')
    BY <2>1, <2>2, Marked
  <2>4. answer'.kind = "value"
    BY <2>3 DEF GoodBody
  <2>5. givenUp = TRUE /\ givenUp' = TRUE /\ rungTaken' = "stale"
    BY <2>1 DEF ErrInv, givenUp, rungTaken
  <2>6. Promise!Serve
    BY <2>1, <2>4, <2>5 DEF Promise!Serve
  <2> QED
    BY <2>6 DEF Promise!Next
<1>8. CASE ReportError
  <2>1. answer.kind = "pending" /\ pc = "failed" /\ UNCHANGED <<rung, decision, request, history, err>>
    BY <1>8 DEF ReportError, ServiceInv, OnTheLadder
  <2>2. rungTaken' = rungTaken /\ givenUp' = givenUp
    BY <2>1, SameRung DEF givenUp
  <2>3. CASE err = "notfound"
    <3>1. answer'.kind = "notfound"
      BY <1>8, <2>3 DEF ReportError, Say
    <3>2. rungTaken # "fallback"
      BY <2>1, <2>3, DeniedAtFirst, Standing
    <3>3. Promise!Deny
      BY <2>1, <2>2, <3>1, <3>2 DEF Promise!Deny
    <3> QED
      BY <3>3 DEF Promise!Next
  <2>4. CASE err # "notfound"
    <3>1. answer'.kind = "error"
      BY <1>8, <2>4 DEF ReportError, Say
    <3>2. givenUp = TRUE
      BY <2>1, <2>4 DEF ErrInv, givenUp
    <3>3. Promise!Fail
      BY <2>1, <2>2, <3>1, <3>2 DEF Promise!Fail
    <3> QED
      BY <3>3 DEF Promise!Next
  <2> QED
    BY <2>3, <2>4
<1>9. CASE FetchFails \/ RespondEmpty
  <2>1. pc \in Fetching /\ UNCHANGED <<rung, decision, request, answer, history>>
    BY <1>9 DEF FetchFails, RespondEmpty, Fetching
  <2>2. err # "no source" /\ err' # "no source"
    BY <1>9, <2>1, FailureNoted DEF ErrInv, RespondEmpty, Failures
  <2>3. rungTaken' = rungTaken /\ givenUp' = givenUp
    BY <2>1, <2>2, SameRung DEF givenUp
  <2> QED
    BY <2>1, <2>3
<1>10. CASE \/ Miss \/ FallbackFails \/ FetchReturns \/ NoFallback \/ resolveInFlight
            \/ Expire \/ ExecutionFinishes \/ UNCHANGED vars
  <2>1. UNCHANGED <<rung, decision, request, answer, err>>
    BY <1>10 DEF Miss, FallbackFails, FetchReturns, NoFallback, resolveInFlight, Expire,
                 ExecutionFinishes, vars
  <2>2. history'.broken = history.broken
    <3>1. history' = history \/ history' = [history EXCEPT !.unheard = TRUE]
      BY <1>10 DEF Miss, FallbackFails, FetchReturns, NoFallback, resolveInFlight, Expire,
                   ExecutionFinishes, vars
    <3>2. history = [broken |-> history.broken, down |-> history.down,
                     began |-> history.began, unheard |-> history.unheard]
      BY DEF ServiceInv
    <3> QED
      BY <3>1, <3>2
  <2>3. rungTaken' = rungTaken /\ givenUp' = givenUp
    BY <2>1, <2>2, SameRung DEF givenUp
  <2> QED
    BY <2>1, <2>3
<1> QED
  BY <1>1, <1>2, <1>3, <1>4, <1>5, <1>6, <1>7, <1>8, <1>9, <1>10 DEF Next

\* Every step of the application service is a step down the degradation ladder
\* or none at all (resourceView, loadResource, fallbackDecision, serveStale):
\* nothing is given up without a failure, strong consistency keeps to its
\* sources, and the fallback after a failed call never denies a resource.
THEOREM ServiceIsLadder == Spec => IsLadder
<1>1. Init => Promise!Init
  BY DEF Init, Promise!Init, NoDecision, NoHistory, rungTaken, givenUp, Sources
<1>2. Spec => []ErrInv
  BY ErrInvInit, ErrInvNext, ServiceInvAlways, PTL DEF Spec
<1> QED
  BY <1>1, <1>2, LadderStep, ServiceInvAlways, PTL DEF Spec, IsLadder, Promise!Spec


-----------------------------------------------------------------------------
(* What a request has seen of the workflow.                                 *)

\* The latest execution when the request began, and now: it can only have ended.
EndedSince ==
  \/ history.began = world.latest
  \/ history.began = "running" /\ world.latest = "finished"

\* An input is what a call brought back, of an instant of the request.
Seen ==
  /\ in.ops \in BOOLEAN
  /\ in.ops => outcome["ods.read"] = "ok"
  /\ in.latest = "none" \/ in.latest \in {history.began, world.latest}
  /\ outcome["eds.latest"] = "notfound" => world.latest = "none"

\* After a lookup that was answered, what was not taken does not run.
LookedUp ==
  policy.resolves /\ in.ops /\ in.latest = "none" /\ decision.target = "OPERATIONAL"
      /\ world.marker = "latest" /\ ~history.unheard =>
    world.latest # "running"

ViewInv ==
  /\ world \in World
  /\ pc # "idle" => EndedSince
  /\ pc \in Fetching => Seen
  /\ pc = "respond" => LookedUp
  /\ ViewsAgree

\* The order of the status as shipped (configs/bff.yaml).  A tenant may reverse
\* it; two views then differ when there is an execution and it does not run.
OperationalFirst == "status" \in Fields /\ Suppliers["status"][1] = "OPERATIONAL"

-----------------------------------------------------------------------------
(* Source precedence.                                                       *)

\* The candidate at the head of the order is its first.
LEMMA HeadIsFirst ==
  ASSUME NEW order \in Seq(Sources), order # <<>>, NEW candidates, order[1] \in candidates
  PROVE  named(order, candidates) # {} /\ firstInOrder(order, candidates) = order[1]
<1>1. PICK at : at = named(order, candidates)
  OBVIOUS
<1>2. 1 \in DOMAIN order /\ DOMAIN order = 1..Len(order)
  OBVIOUS
<1>3. 1 \in at /\ \A j \in at : j \in Nat /\ 1 <= j
  BY <1>1, <1>2 DEF named
<1>4. PICK k : k = CHOOSE i \in at : \A j \in at : i <= j
  OBVIOUS
<1>5. k \in at /\ \A j \in at : k <= j
  BY <1>3, <1>4
<1>6. k = 1
  BY <1>3, <1>5
<1>7. firstInOrder(order, candidates) = order[k]
  BY <1>1, <1>4 DEF firstInOrder
<1> QED
  BY <1>1, <1>3, <1>6, <1>7

\* A fresh operational status stands unless an execution runs.
LEMMA OperationalWins ==
  ASSUME OperationalFirst, NEW present, present \in SUBSET Sources, "OPERATIONAL" \in present,
         NEW stale, "OPERATIONAL" \notin stale
  PROVE  Resolve("status", present, stale, FALSE) = "OPERATIONAL"
<1>1. CASE present = {"OPERATIONAL"}
  <2>1. Cardinality(present) = 1
    BY <1>1, FS_Singleton
  <2>2. (CHOOSE s \in present : TRUE) = "OPERATIONAL"
    BY <1>1
  <2> QED
    BY <1>1, <2>1, <2>2 DEF Resolve
<1>2. CASE present # {"OPERATIONAL"}
  <2>1. Cardinality(present) # 1
    <3>1. present = {"OPERATIONAL", "EXECUTION"}
      BY <1>2 DEF Sources
    <3>2. IsFiniteSet({"EXECUTION"}) /\ Cardinality({"EXECUTION"}) = 1
      BY FS_Singleton
    <3>3. present = {"EXECUTION"} \cup {"OPERATIONAL"} /\ "OPERATIONAL" \notin {"EXECUTION"}
      BY <3>1
    <3>4. Cardinality(present) = 1 + 1
      BY <3>2, <3>3, FS_AddElement
    <3> QED
      BY <3>4
  <2>2. Suppliers["status"] \in Seq(Sources) /\ Suppliers["status"] # <<>>
    BY CatalogAssumption DEF OperationalFirst
  <2>3. PICK order : order = Suppliers["status"]
    OBVIOUS
  <2>4. /\ named(order, present \ stale) # {}
        /\ firstInOrder(order, present \ stale) = "OPERATIONAL"
    BY <2>2, <2>3, HeadIsFirst DEF OperationalFirst
  <2> QED
    BY <2>1, <2>3, <2>4 DEF Resolve
<1> QED
  BY <1>1, <1>2

LEMMA OperationalStatus ==
  ASSUME OperationalFirst, NEW i, i.ops, i.latest # "running", world.known, world.ops # "STALE"
  PROVE  mergedStatus(i) = "OPERATIONAL"
<1>1. PICK present : present = (IF i.ops /\ world.known THEN {"OPERATIONAL"} ELSE {})
          \cup (IF i.latest # "none" /\ world.predicts THEN {"EXECUTION"} ELSE {})
  OBVIOUS
<1>2. PICK stale : stale = IF i.ops /\ world.ops = "STALE" THEN {"OPERATIONAL"} ELSE {}
  OBVIOUS
<1>3. present \in SUBSET Sources /\ "OPERATIONAL" \in present /\ "OPERATIONAL" \notin stale
  BY <1>1, <1>2 DEF Sources
<1>4. running(i) = FALSE
  BY DEF running
<1>5. mergedStatus(i) = Resolve("status", present, stale, FALSE)
  BY <1>1, <1>2, <1>4 DEF mergedStatus
<1> QED
  BY <1>3, <1>5, OperationalWins

\* With an operational record, the status depends on the latest execution alone.
LEMMA StatusOfInputs ==
  ASSUME in.ops = TRUE PROVE mergedStatus(in) = statusOfBoth(in.latest)
<1>1. PICK l : l = in.latest
  OBVIOUS
<1>2. PICK i : i = [NoInputs EXCEPT !.ops = TRUE, !.latest = l]
  OBVIOUS
<1>3. i.ops = TRUE /\ i.latest = l
  BY <1>2 DEF NoInputs
<1>4. mergedStatus(in) = mergedStatus(i)
  BY <1>1, <1>3 DEF mergedStatus, running
<1> QED
  BY <1>1, <1>2, <1>4 DEF statusOfBoth

LEMMA StatusOfFresh ==
  ASSUME OperationalFirst, NEW l, l # "running", world.known, world.ops # "STALE"
  PROVE  statusOfBoth(l) = "OPERATIONAL"
<1>1. PICK i : i = [NoInputs EXCEPT !.ops = TRUE, !.latest = l]
  OBVIOUS
<1>2. i.ops /\ i.latest = l
  BY <1>1 DEF NoInputs
<1> QED
  BY <1>1, <1>2, OperationalStatus DEF statusOfBoth


-----------------------------------------------------------------------------
(* The answer agrees with a complete read.                                  *)

\* An unmarked answer omits no call that failed, and is not stale.
LEMMA Unmarked ==
  ASSUME ~body.partial, ~body.degraded
  PROVE  /\ omitted = {}
         /\ in.ops /\ decision.target = "OPERATIONAL" => world.ops # "STALE"
<1>1. omitted # {} => body.partial
  BY DEF body
<1>2. reportedFreshness = "STALE" /\ decision.target = "OPERATIONAL" => body.degraded
  BY DEF body
<1> QED
  BY <1>1, <1>2 DEF reportedFreshness

\* An operational record comes from a call that the decision asked for.
LEMMA AskedForOps ==
  ASSUME ServiceInv, ViewInv, pc = "respond", view # "executions", in.ops
  PROVE  decision.target \in {"OPERATIONAL", "BOTH"}
<1>1. GoodOutcome /\ Seen /\ GoodDecision
  BY DEF ServiceInv, ViewInv, Fetching
<1>2. "ods.read" \in tasksOf(decision)
  BY <1>1, TaskNamesAre DEF GoodOutcome, Seen
<1>3. Includes(decision.target, "OPERATIONAL")
  BY <1>2 DEF tasksOf, sourceOf
<1> QED
  BY <1>3 DEF Includes

\* A read of both sources that heard of no execution and omitted nothing was
\* told that there is none.
LEMMA ToldThereIsNone ==
  ASSUME ServiceInv, ViewInv, pc = "respond", decision.target = "BOTH", view \in {"details", "full"},
         in.latest = "none", omitted = {}
  PROVE  world.latest = "none"
<1>1. GoodOutcome /\ GoodInputs /\ AllWell /\ Seen
  BY DEF ServiceInv, ViewInv, Fetching
<1>2. "eds.latest" \in tasksOf(decision)
  <2>1. Includes(decision.target, sourceOf("eds.latest"))
    BY DEF Includes
  <2> QED
    BY <2>1, TaskNamesAre DEF tasksOf
<1>3. outcome["eds.latest"] \in Failures
  BY <1>1, <1>2, TaskNamesAre DEF GoodOutcome, GoodInputs, AllWell
<1>4. ~required("eds.latest")
  BY <1>1, <1>3, TaskNamesAre DEF AllWell
<1>5. outcome["eds.latest"] \notin {"unusable", "fault"}
  BY <1>4, TaskNamesAre DEF omitted
<1> QED
  BY <1>1, <1>3, <1>5 DEF Seen, Failures

\* A read of the operational source that took no execution saw none run.
LEMMA NoneRuns ==
  ASSUME ViewInv, pc = "respond", decision.target = "OPERATIONAL", in.ops, in.latest = "none",
         policy.resolves, ~history.unheard, history.began = "running" => world.marker = "latest"
  PROVE  world.latest # "running"
  BY DEF ViewInv, EndedSince, LookedUp

LEMMA RespondAgrees ==
  ASSUME OperationalFirst, ServiceInv, ViewInv, pc = "respond", view # "executions",
         in.ops, ~body.degraded, ~body.partial, world.known, policy.resolves, ~history.unheard,
         history.began = "running" => world.marker = "latest",
         decision.target = "BOTH" => view \in {"details", "full"}
  PROVE  mergedStatus(in) \in {statusOfBoth(history.began), statusOfBoth(world.latest)}
<1>1. Seen /\ in.ops = TRUE
  BY DEF ViewInv, Fetching, Seen
<1>2. mergedStatus(in) = statusOfBoth(in.latest)
  BY <1>1, StatusOfInputs
<1>3. CASE in.latest # "none"
  BY <1>1, <1>2, <1>3 DEF Seen
<1>4. CASE in.latest = "none" /\ decision.target = "BOTH"
  <2>1. world.latest = "none"
    BY <1>4, Unmarked, ToldThereIsNone
  <2> QED
    BY <1>2, <1>4, <2>1
<1>5. CASE in.latest = "none" /\ decision.target = "OPERATIONAL"
  <2>1. world.latest # "running" /\ world.ops # "STALE"
    BY <1>5, NoneRuns, Unmarked
  <2>2. statusOfBoth(in.latest) = "OPERATIONAL" /\ statusOfBoth(world.latest) = "OPERATIONAL"
    BY <1>5, <2>1, StatusOfFresh
  <2> QED
    BY <1>2, <2>2
<1> QED
  BY <1>3, <1>4, <1>5, AskedForOps


-----------------------------------------------------------------------------
(* Every step keeps what a request has seen.                                *)

\* An answer that is none, or was recalled, contradicts nothing.
LEMMA NotLoaded ==
  ASSUME answer'.kind # "value" \/ rung' \in {"cache", "stale"} PROVE ViewsAgree'
  BY DEF ViewsAgree, loaded

\* An answer that stands, while the sources stand.
LEMMA StillAgrees ==
  ASSUME ViewsAgree, UNCHANGED <<view, policy, world, rung, decision, in, answer, history>>
  PROVE  ViewsAgree'
  BY DEF ViewsAgree, loaded, statusOfBoth, mergedStatus, running

LEMMA StillSeen ==
  ASSUME Seen, UNCHANGED <<world, outcome, in>>, history'.began = history.began PROVE Seen'
  BY DEF Seen

LEMMA StillEnded ==
  ASSUME EndedSince, UNCHANGED world, history'.began = history.began PROVE EndedSince'
  BY DEF EndedSince

\* A request that goes on has no answer yet.
LEMMA Pends ==
  ASSUME ServiceInv, pc # "idle" PROVE answer.kind = "pending"
  BY DEF ServiceInv, OnTheLadder

\* A request that goes on while the sources stand.
LEMMA GoesOn ==
  ASSUME ServiceInv, ViewInv, pc # "idle", pc' # "idle", UNCHANGED <<world, answer>>,
         history'.began = history.began, pc' \in Fetching => Seen', pc' = "respond" => LookedUp'
  PROVE  ViewInv'
<1>1. answer'.kind = "pending"
  BY Pends
<1>2. ViewsAgree'
  BY <1>1, NotLoaded
<1>3. EndedSince'
  BY StillEnded DEF ViewInv
<1> QED
  BY <1>2, <1>3 DEF ViewInv

\* A request that is over.
LEMMA Over ==
  ASSUME ViewInv, pc' = "idle", UNCHANGED world, ViewsAgree' PROVE ViewInv'
  BY DEF ViewInv, Fetching

LEMMA ViewInvInit == Init => ViewInv
<1> SUFFICES ASSUME Init PROVE ViewInv
  OBVIOUS
<1>1. pc = "idle" /\ answer.kind = "nothing" /\ world \in World
  BY ServiceAssumption DEF Init
<1> QED
  BY <1>1 DEF ViewInv, Fetching, ViewsAgree, loaded

LEMMA ArriveSees == ASSUME ViewInv, Arrive PROVE ViewInv'
<1>1. PICK w : w = world.latest
  OBVIOUS
<1>2. history' = [NoHistory EXCEPT !.began = w] /\ world' = world /\ pc' = "lookup" /\ answer'.kind = "pending"
  BY <1>1 DEF Arrive, Pending
<1>3. history'.began = w
  BY <1>2 DEF NoHistory
<1>4. EndedSince'
  BY <1>1, <1>2, <1>3 DEF EndedSince
<1>5. ViewsAgree'
  BY <1>2, NotLoaded
<1> QED
  BY <1>2, <1>4, <1>5 DEF ViewInv, Fetching

\* A fetch that begins has seen nothing.
LEMMA BeginsUnseen == ASSUME NEW d, Start(d) PROVE Seen'
<1>1. /\ outcome' = [t \in TaskNames |-> IF t \in tasksOf(d) THEN "running" ELSE "not run"]
      /\ in' = [ops |-> FALSE, latest |-> "none", history |-> FALSE, view |-> FALSE]
  BY DEF Start, NoInputs
<1>2. outcome'["eds.latest"] # "notfound"
  BY <1>1, TaskNamesAre
<1> QED
  BY <1>1, <1>2 DEF Seen

LEMMA RouteSees == ASSUME ServiceInv, ViewInv, Route PROVE ViewInv'
<1>1. PICK down : history' = [history EXCEPT !.down = down]
  BY DEF Route
<1>2. history'.began = history.began
  BY <1>1 DEF ServiceInv
<1>3. pc' = "failed" \/ (\E d : Start(d))
  BY DEF Route
<1>4. (pc' = "failed" \/ pc' = "fetch") /\ (pc' \in Fetching => Seen')
  BY <1>3, BeginsUnseen DEF Start, Fetching
<1>5. pc = "route" /\ UNCHANGED <<world, answer>>
  BY DEF Route
<1> QED
  BY <1>2, <1>4, <1>5, GoesOn

\* A call brings back what the source holds when it answers.
LEMMA TaskEndsSees ==
  ASSUME ServiceInv, ViewInv, NEW t \in TaskNames, TaskEnds(t) PROVE ViewInv'
<1>1. PICK o \in truth(t) \cup {"unusable", "fault"} :
        /\ outcome' = [outcome EXCEPT ![t] = o]
        /\ in' = IF o # "ok" THEN in
                 ELSE CASE t = "ods.read" -> [in EXCEPT !.ops = TRUE]
                        [] t = "eds.latest" -> [in EXCEPT !.latest = world.latest]
                        [] t = "eds.history" -> [in EXCEPT !.history = world.latest # "none"]
                        [] t = "eds.view" -> [in EXCEPT !.view = TRUE]
        /\ history' = IF o \in {"unusable", "fault"}
                        THEN [history EXCEPT !.broken = @ \cup {sourceOf(t)}] ELSE history
  BY DEF TaskEnds
<1>2. pc = "fetch" /\ outcome[t] = "running" /\ UNCHANGED <<world, pc, answer>>
  BY DEF TaskEnds
<1>3. GoodOutcome /\ GoodInputs /\ Seen
  BY <1>2 DEF ServiceInv, ViewInv, Fetching
<1>4. history'.began = history.began
  <2>1. history' = history \/ \E b : history' = [history EXCEPT !.broken = b]
    BY <1>1
  <2> QED
    BY <2>1 DEF ServiceInv
<1>5. \A u \in TaskNames : outcome'[u] = IF u = t THEN o ELSE outcome[u]
  BY <1>1, <1>3 DEF GoodOutcome
<1>6. /\ t # "ods.read" => outcome'["ods.read"] = outcome["ods.read"]
      /\ t # "eds.latest" => outcome'["eds.latest"] = outcome["eds.latest"]
      /\ t = "ods.read" => outcome'["ods.read"] = o
      /\ t = "eds.latest" => outcome'["eds.latest"] = o
  BY <1>5, TaskNamesAre
<1>7. in = [ops |-> in.ops, latest |-> in.latest, history |-> in.history, view |-> in.view]
  BY <1>3 DEF GoodInputs
<1>8. Seen'
  <2>1. CASE o # "ok"
    <3>1. in' = in
      BY <1>1, <2>1
    <3>2. t = "eds.latest" /\ o = "notfound" => world.latest = "none"
      BY <1>1 DEF truth
    <3>3. in.ops => t # "ods.read"
      BY <1>2, <1>3 DEF Seen
    <3> QED
      BY <1>2, <1>3, <1>4, <1>6, <3>1, <3>2, <3>3 DEF Seen
  <2>2. CASE o = "ok" /\ t = "ods.read"
    <3>1. in' = [in EXCEPT !.ops = TRUE]
      BY <1>1, <2>2
    <3>2. in'.ops = TRUE /\ in'.latest = in.latest
      BY <1>7, <3>1
    <3> QED
      BY <1>2, <1>3, <1>4, <1>6, <2>2, <3>2 DEF Seen
  <2>3. CASE o = "ok" /\ t = "eds.latest"
    <3>1. in' = [in EXCEPT !.latest = world.latest]
      BY <1>1, <2>3
    <3>2. in'.ops = in.ops /\ in'.latest = world.latest
      BY <1>7, <3>1
    <3> QED
      BY <1>2, <1>3, <1>4, <1>6, <2>3, <3>2 DEF Seen
  <2>4. CASE o = "ok" /\ t \in {"eds.history", "eds.view"}
    <3>1. \E h : in' = [in EXCEPT !.history = h] \/ in' = [in EXCEPT !.view = h]
      BY <1>1, <2>4
    <3>2. in'.ops = in.ops /\ in'.latest = in.latest
      BY <1>7, <3>1
    <3> QED
      BY <1>2, <1>3, <1>4, <1>6, <2>4, <3>2 DEF Seen
  <2> QED
    BY <2>1, <2>2, <2>3, <2>4, TaskNamesAre
<1> QED
  BY <1>2, <1>4, <1>8, GoesOn


\* The lookup is answered, and what the marker names runs or not; or it is not
\* needed, or not answered.
LEMMA resolveInFlightSees == ASSUME ServiceInv, ViewInv, resolveInFlight PROVE ViewInv'
<1>1. pc = "resolve" /\ pc' = "respond" /\ UNCHANGED <<policy, world, decision, outcome, answer>>
  BY DEF resolveInFlight, fixed
<1>2. Seen /\ EndedSince /\ GoodInputs
  BY <1>1 DEF ServiceInv, ViewInv, Fetching
<1>3. in = [ops |-> in.ops, latest |-> in.latest, history |-> in.history, view |-> in.view]
  BY <1>2 DEF GoodInputs
<1>4. history = [broken |-> history.broken, down |-> history.down,
                 began |-> history.began, unheard |-> history.unheard]
  BY DEF ServiceInv
<1>5. CASE ~needsLookup /\ UNCHANGED <<in, history>>
  <2>1. Seen'
    BY <1>1, <1>2, <1>5, StillSeen
  <2>2. LookedUp'
    <3>1. decision.target = "OPERATIONAL" => ~Includes(decision.target, "EXECUTION")
      BY DEF Includes
    <3> QED
      BY <1>1, <1>5, <3>1 DEF LookedUp, needsLookup
  <2> QED
    BY <1>1, <1>5, <2>1, <2>2, GoesOn
<1>6. CASE /\ in' = IF world.marker = "latest" /\ world.latest = "running"
                      THEN [in EXCEPT !.latest = "running"] ELSE in
           /\ history' = history
  <2>1. CASE world.marker = "latest" /\ world.latest = "running"
    <3>1. in' = [in EXCEPT !.latest = "running"]
      BY <1>6, <2>1
    <3>2. in'.ops = in.ops /\ in'.latest = "running"
      BY <1>3, <3>1
    <3>3. Seen' /\ LookedUp'
      BY <1>1, <1>2, <1>6, <2>1, <3>2 DEF Seen, LookedUp
    <3> QED
      BY <1>1, <1>6, <3>3, GoesOn
  <2>2. CASE ~(world.marker = "latest" /\ world.latest = "running")
    <3>1. in' = in
      BY <1>6, <2>2
    <3>2. Seen'
      BY <1>1, <1>2, <1>6, <3>1, StillSeen
    <3>3. LookedUp'
      BY <1>1, <2>2 DEF LookedUp
    <3> QED
      BY <1>1, <1>6, <3>2, <3>3, GoesOn
  <2> QED
    BY <2>1, <2>2
<1>7. CASE history' = [history EXCEPT !.unheard = TRUE] /\ in' = in
  <2>1. history'.unheard = TRUE /\ history'.began = history.began
    BY <1>4, <1>7
  <2>2. Seen'
    BY <1>1, <1>2, <1>7, <2>1, StillSeen
  <2>3. LookedUp'
    BY <2>1 DEF LookedUp
  <2> QED
    BY <1>1, <2>1, <2>2, <2>3, GoesOn
<1> QED
  BY <1>5, <1>6, <1>7 DEF resolveInFlight

LEMMA RespondSees == ASSUME OperationalFirst, ServiceInv, ViewInv, Respond PROVE ViewInv'
<1>1. PICK b : b = IF view = "executions" THEN executionBody ELSE body
  OBVIOUS
<1>2. /\ pc = "respond" /\ pc' = "idle" /\ answer' = b
      /\ UNCHANGED <<view, policy, world, rung, decision, in, history>>
  BY <1>1 DEF Respond, Say, fixed
<1>3. ViewsAgree'
  <2>1. CASE view = "executions"
    BY <1>2, <2>1 DEF ViewsAgree, loaded
  <2>2. CASE view # "executions"
    <3>1. b = body /\ b.status = mergedStatus(in)
      BY <1>1, <2>2 DEF body
    <3>2. in.ops /\ ~b.degraded /\ ~b.partial /\ world.known /\ policy.resolves /\ ~history.unheard
            /\ (history.began = "running" => world.marker = "latest")
            /\ (decision.target = "BOTH" => view \in {"details", "full"}) =>
          b.status \in {statusOfBoth(history.began), statusOfBoth(world.latest)}
      BY <1>2, <2>2, <3>1, RespondAgrees
    <3>3. statusOfBoth(history.began)' = statusOfBoth(history.began)
      BY <1>2 DEF statusOfBoth, mergedStatus, running
    <3>4. statusOfBoth(world.latest)' = statusOfBoth(world.latest)
      BY <1>2 DEF statusOfBoth, mergedStatus, running
    <3> QED
      BY <1>2, <3>2, <3>3, <3>4 DEF ViewsAgree
  <2> QED
    BY <2>1, <2>2
<1> QED
  BY <1>2, <1>3, Over

\* The workflow ends: what was seen of it was seen when the request began.
LEMMA ExecutionFinishesSees == ASSUME ServiceInv, ViewInv, ExecutionFinishes PROVE ViewInv'
<1>1. /\ pc # "idle" /\ world.latest = "running" /\ world' = [world EXCEPT !.latest = "finished"]
      /\ UNCHANGED <<pc, outcome, in, answer, history>>
  BY DEF ExecutionFinishes
<1>2. world' \in World /\ world'.latest = "finished"
  BY <1>1 DEF ViewInv, World
<1>3. history.began = "running"
  BY <1>1 DEF ViewInv, EndedSince
<1>4. EndedSince' /\ LookedUp'
  BY <1>1, <1>2, <1>3 DEF EndedSince, LookedUp
<1>5. pc \in Fetching => Seen'
  BY <1>1, <1>2, <1>3 DEF ViewInv, Seen
<1>6. ViewsAgree'
  BY <1>1, Pends, NotLoaded
<1> QED
  BY <1>1, <1>2, <1>4, <1>5, <1>6 DEF ViewInv

LEMMA ViewInvNext ==
  ASSUME OperationalFirst PROVE ServiceInv /\ ViewInv /\ [Next]_vars => ViewInv'
<1> SUFFICES ASSUME ServiceInv, ViewInv, [Next]_vars PROVE ViewInv'
  OBVIOUS
<1>1. CASE Hit \/ ServeStale \/ ReportError
  <2>1. pc' = "idle" /\ world' = world
    BY <1>1 DEF Hit, ServeStale, ReportError, Say
  <2>2. answer'.kind # "value" \/ rung' \in {"cache", "stale"}
    BY <1>1 DEF Hit, ServeStale, ReportError, Say
  <2> QED
    BY <2>1, <2>2, NotLoaded, Over
<1>2. CASE Miss \/ FallbackFails \/ NoFallback \/ RespondEmpty
  <2>1. /\ pc # "idle" /\ pc' \in {"route", "failed"} /\ UNCHANGED <<world, answer, history>>
    BY <1>2 DEF Miss, FallbackFails, NoFallback, RespondEmpty
  <2> QED
    BY <2>1, GoesOn DEF Fetching
<1>3. CASE FetchFails \/ FetchReturns
  <2>1. /\ pc = "fetch" /\ pc' \in {"failed", "fallback", "resolve"}
        /\ UNCHANGED <<world, outcome, in, answer, history>>
    BY <1>3 DEF FetchFails, FetchReturns
  <2>2. Seen'
    BY <2>1, StillSeen DEF ViewInv, Fetching
  <2> QED
    BY <2>1, <2>2, GoesOn
<1>4. CASE FallBack
  <2>1. pc = "fallback" /\ UNCHANGED <<world, answer, history>> /\ \E d : Start(d)
    BY <1>4 DEF FallBack
  <2>2. pc' = "fetch" /\ Seen'
    BY <2>1, BeginsUnseen DEF Start
  <2> QED
    BY <2>1, <2>2, GoesOn
<1>5. CASE Expire
  <2>1. pc = "idle" /\ UNCHANGED <<view, policy, world, pc, rung, decision, in, answer, history>>
    BY <1>5 DEF Expire, fixed
  <2>2. ViewsAgree'
    BY <2>1, StillAgrees DEF ViewInv
  <2> QED
    BY <2>1, <2>2, Over
<1>6. CASE UNCHANGED vars
  <2>1. UNCHANGED <<view, policy, world, pc, rung, decision, outcome, in, answer, history>>
    BY <1>6 DEF vars
  <2>2. ViewsAgree'
    BY <2>1, StillAgrees DEF ViewInv
  <2>3. (EndedSince => EndedSince') /\ (Seen => Seen') /\ (LookedUp => LookedUp')
    BY <2>1 DEF EndedSince, Seen, LookedUp
  <2> QED
    BY <2>1, <2>2, <2>3 DEF ViewInv
<1> QED
  BY <1>1, <1>2, <1>3, <1>4, <1>5, <1>6, ArriveSees, RouteSees, TaskEndsSees,
     resolveInFlightSees, RespondSees, ExecutionFinishesSees
     DEF Next

\* With the status in the order as shipped, whatever else is configured and in
\* whatever order calls end and workflows finish, an unmarked answer takes its
\* status from the source that a complete read of both sources would have taken
\* it from (Merge, Resolve, resolveInFlight).
THEOREM ViewsDoNotContradict ==
  ASSUME OperationalFirst PROVE Spec => []ViewsAgree
<1>1. Init => ViewInv
  BY ViewInvInit
<1>2. ServiceInv /\ ViewInv /\ [Next]_vars => ViewInv'
  BY ViewInvNext
<1>3. ViewInv => ViewsAgree
  BY DEF ViewInv
<1> QED
  BY <1>1, <1>2, <1>3, ServiceInvAlways, PTL DEF Spec

=============================================================================
