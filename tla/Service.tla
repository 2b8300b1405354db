------------------------------- MODULE Service -------------------------------
(***************************************************************************)
(* One resource as the application service serves it                        *)
(* (internal/application/service.go), request after request of one type:    *)
(* cache lookup, routing, the concurrent source calls of a fan-out          *)
(* (internal/aggregation), the fallback at call time, the lookup of an      *)
(* execution in flight, the merge by source precedence (internal/policy),   *)
(* and the degradation ladder when all of it fails.                         *)
(*                                                                         *)
(* The router is what Catalog promises of it: any decision it may offer     *)
(* under the health found.  The cache is one key; how its entries age and   *)
(* how concurrent requests share a load is CacheManager.  The narrowing of  *)
(* the merged record to the endpoint's body is left out.                    *)
(***************************************************************************)
EXTENDS Catalog

CONSTANTS
  Views,      \* the endpoints: "full", "status", "configuration", "details", "executions"
  FieldSets,  \* what requests ask for (?fields=, or the defaults of the type)
  Worlds,     \* what the two sources may hold of the resource
  Policies,   \* required_sources, allow_stale, resolve_in_flight_execution
  Overrides   \* precedence.execution_overrides_when_running

\* The operational record: absent, or with the freshness its age has; whether
\* it knows the status; the execution its in-flight marker names.  The latest
\* execution, and whether it predicts a status.
World == [ops : {"absent", "FRESH", "STALE", "UNKNOWN"}, known : BOOLEAN,
          marker : {"none", "latest", "older"},
          latest : {"none", "running", "finished"}, predicts : BOOLEAN]

Policy == [required : [Sources -> {"unset", "yes", "no"}],
           allowStale : BOOLEAN, resolves : BOOLEAN]

ASSUME ServiceAssumption ==
  /\ Views \subseteq {"full", "status", "configuration", "details", "executions"}
  /\ \A fs \in FieldSets : fs \subseteq Fields /\ fs # {}
  /\ Worlds \subseteq World /\ Policies \subseteq Policy /\ Overrides \subseteq Fields

VARIABLES
  view, policy,  \* the endpoint and its configuration
  world,         \* what the sources hold
  entry,         \* what the cache holds
  pc, request,   \* the request being served
  rung,          \* the rung of the ladder it stands on
  decision,      \* the routing decision in force
  outcome,       \* of each source call of the fan-out
  in,            \* aggregation.Inputs: what the calls brought back
  err,           \* the error to report
  answer,        \* what was told to the caller
  history        \* read by properties only: see NoHistory

vars == <<view, policy, world, entry, pc, request, rung, decision, outcome, in, err, answer, history>>
fixed == <<view, policy>>

Tasks == <<"ods.read", "eds.latest", "eds.history", "eds.view">>
TaskNames == {Tasks[i] : i \in DOMAIN Tasks}
sourceOf(t) == IF t = "ods.read" THEN "OPERATIONAL" ELSE "EXECUTION"
Failures == {"notfound", "unusable", "fault"}

NoEntry == [kind |-> "none"]
NotFoundEntry == [kind |-> "notfound", live |-> TRUE]
Pending == [kind |-> "pending"]
NoDecision == [target |-> "NONE", primary |-> "NONE", fallback |-> "NONE", rule |-> "none"]
NoInputs == [ops |-> FALSE, latest |-> "none", history |-> FALSE, view |-> FALSE]
NoTasks == [t \in TaskNames |-> "not run"]

\* broken: the sources of which a call of this request failed.  down: the
\* sources that were unavailable when it was routed.  began: the latest
\* execution when it arrived.  unheard: the in-flight lookup got no answer.
NoHistory == [broken |-> {}, down |-> {}, began |-> "none", unheard |-> FALSE]

Init ==
  /\ view \in Views /\ policy \in Policies /\ world \in Worlds
  /\ entry = NoEntry
  /\ pc = "idle" /\ request = [fields |-> {}, strong |-> FALSE]
  /\ rung = "preferred" /\ decision = NoDecision
  /\ outcome = NoTasks /\ in = NoInputs /\ err = "none"
  /\ answer = [kind |-> "nothing"]
  /\ history = NoHistory

Say(a) == pc' = "idle" /\ answer' = a

-----------------------------------------------------------------------------
(* resourceView and executionView: the way in                               *)

Arrive ==
  /\ pc = "idle"
  /\ \E fs \in FieldSets, s \in BOOLEAN : request' = [fields |-> fs, strong |-> s]
  /\ pc' = "lookup"
  /\ rung' = "preferred" /\ decision' = NoDecision
  /\ outcome' = NoTasks /\ in' = NoInputs /\ err' = "none" /\ answer' = Pending
  /\ history' = [NoHistory EXCEPT !.began = world.latest]
  /\ UNCHANGED <<fixed, world, entry>>

\* load: strong requests do not look into the cache.
recalls == ~request.strong /\ entry # NoEntry /\ entry.live

\* envelopeFrom: the entry as it was stored, its age brought up to date.  The
\* key of a resource view is its type and its resource.
Hit ==
  /\ pc = "lookup"
  /\ recalls
  /\ rung' = "cache"
  /\ IF entry.kind = "notfound"
       THEN Say([kind |-> "notfound"])
       ELSE \E aged \in BOOLEAN :
              /\ aged => entry.fresh # "UNKNOWN"
              /\ Say([entry.body EXCEPT !.degraded = @ \/ aged \/ entry.fresh = "STALE"])
  /\ UNCHANGED <<fixed, world, entry, request, decision, outcome, in, err, history>>

Miss ==
  /\ pc = "lookup"
  /\ ~recalls
  /\ pc' = "route"
  /\ UNCHANGED <<fixed, world, entry, request, rung, decision, outcome, in, err, answer, history>>

-----------------------------------------------------------------------------
(* fetch                                                                    *)

\* The calls a decision needs.  An execution view makes its one call wherever
\* the decision points.
tasksOf(d) ==
  IF view = "executions" THEN {"eds.view"}
  ELSE {t \in TaskNames \ {"eds.view"} :
          /\ Includes(d.target, sourceOf(t))
          /\ t = "eds.latest" => view \in {"details", "full"} \/ d.target = "EXECUTION"
          /\ t = "eds.history" => view = "details"}

\* RequiresSource.  After a fallback the fallback source alone is required.
requiresSource(s) ==
  IF rung = "fallback" \/ policy.required[s] = "unset" THEN Includes(decision.target, s)
  ELSE policy.required[s] = "yes"

required(t) == CASE t = "eds.history" -> FALSE
                 [] t = "eds.view" -> TRUE
                 [] OTHER -> requiresSource(sourceOf(t))

Start(d) ==
  /\ decision' = d
  /\ outcome' = [t \in TaskNames |-> IF t \in tasksOf(d) THEN "running" ELSE "not run"]
  /\ in' = NoInputs
  /\ pc' = "fetch"

\* route, under the health found, and the first fetch.
Route ==
  /\ pc = "route"
  /\ \E health \in [Sources -> {"up", "down"}],
        target \in Kinds \cup {"BOTH"}, fallback \in Kinds,
        name \in {"health.primary_unavailable", "another"} :
       LET d == [target |-> target, primary |-> primaryOf(target), fallback |-> fallback, rule |-> name]
       IN  /\ Offered(d, health, request.fields, request.strong)
           /\ history' = [history EXCEPT !.down = {s \in Sources : health[s] = "down"}]
           /\ IF target = "NONE"
                THEN /\ err' = "no source"
                     /\ pc' = "failed"
                     /\ decision' = d
                     /\ UNCHANGED <<outcome, in>>
                ELSE Start(d) /\ UNCHANGED err
  /\ UNCHANGED <<fixed, world, entry, request, rung, answer>>

\* What a call brings back when the source answers.  The one execution that a
\* view asks for may be unknown, or belong to another resource.
truth(t) ==
  CASE t = "ods.read" -> IF world.ops = "absent" THEN {"notfound"} ELSE {"ok"}
    [] t = "eds.latest" -> IF world.latest = "none" THEN {"notfound"} ELSE {"ok"}
    [] t = "eds.history" -> IF world.latest = "none" THEN {"ok", "notfound"} ELSE {"ok"}
    [] t = "eds.view" -> {"ok", "notfound"}

\* A call ends.  Its answer, or a failure of the source, or one that says
\* nothing about the source.  Every task finishes; none cancels another.
TaskEnds(t) ==
  /\ pc = "fetch"
  /\ outcome[t] = "running"
  /\ \E o \in truth(t) \cup {"unusable", "fault"} :
       /\ outcome' = [outcome EXCEPT ![t] = o]
       /\ in' = IF o # "ok" THEN in
                ELSE CASE t = "ods.read" -> [in EXCEPT !.ops = TRUE]
                       [] t = "eds.latest" -> [in EXCEPT !.latest = world.latest]
                       [] t = "eds.history" -> [in EXCEPT !.history = world.latest # "none"]
                       [] t = "eds.view" -> [in EXCEPT !.view = TRUE]
       /\ history' = IF o \in {"unusable", "fault"}
                       THEN [history EXCEPT !.broken = @ \cup {sourceOf(t)}] ELSE history
  /\ UNCHANGED <<fixed, world, entry, pc, request, rung, decision, err, answer>>

\* FanOut's verdict once all tasks are done: the first required failure.
done == \A t \in TaskNames : outcome[t] # "running"
requiredFailures == {i \in DOMAIN Tasks : required(Tasks[i]) /\ outcome[Tasks[i]] \in Failures}
fanErr == outcome[Tasks[CHOOSE i \in requiredFailures : \A j \in requiredFailures : i <= j]]

\* An optional "not found" is an answer; any other optional failure is not.
omitted == {sourceOf(t) : t \in {u \in TaskNames : ~required(u) /\ outcome[u] \in {"unusable", "fault"}}}

FetchFails ==
  /\ pc = "fetch" /\ done /\ requiredFailures # {}
  /\ rung = "preferred"
  /\ err' = fanErr
  /\ pc' = IF view = "executions" THEN "failed" ELSE "fallback"
  /\ UNCHANGED <<fixed, world, entry, request, rung, decision, outcome, in, answer, history>>

\* Mutant: the fallback's own error is the one reported.
FallbackFailsVerbatim ==
  /\ pc = "fetch" /\ done /\ requiredFailures # {}
  /\ rung = "fallback"
  /\ err' = fanErr
  /\ pc' = "failed"
  /\ UNCHANGED <<fixed, world, entry, request, rung, decision, outcome, in, answer, history>>

\* The fallback fails too: the original error stands.
FallbackFails ==
  /\ pc = "fetch" /\ done /\ requiredFailures # {}
  /\ rung = "fallback"
  /\ pc' = "failed"
  /\ UNCHANGED <<fixed, world, entry, request, rung, decision, outcome, in, err, answer, history>>

FetchReturns ==
  /\ pc = "fetch" /\ done /\ requiredFailures = {}
  /\ pc' = "resolve"
  /\ UNCHANGED <<fixed, world, entry, request, rung, decision, outcome, in, err, answer, history>>

-----------------------------------------------------------------------------
(* fallbackDecision                                                         *)

mayFallBack ==
  /\ err = "unusable"
  /\ ~request.strong
  /\ decision.fallback \notin {"NONE", decision.primary}
  /\ ~(decision.target = "BOTH" /\ decision.fallback = "EXECUTION")

\* The fallback's health is asked for now.
FallBack ==
  /\ pc = "fallback"
  /\ mayFallBack
  /\ rung' = "fallback"
  /\ Start([decision EXCEPT !.target = decision.fallback, !.primary = decision.fallback,
                            !.fallback = "NONE", !.rule = "fallback"])
  /\ UNCHANGED <<fixed, world, entry, request, err, answer, history>>

\* Not permitted, or the fallback is not available.
NoFallback ==
  /\ pc = "fallback"
  /\ pc' = "failed"
  /\ UNCHANGED <<fixed, world, entry, request, rung, decision, outcome, in, err, answer, history>>

-----------------------------------------------------------------------------
(* resolveInFlight                                                          *)

\* Mutant: the lookup is made for both-source reads instead.
needsLookupOnBoth ==
  /\ policy.resolves /\ in.ops /\ world.marker # "none" /\ in.latest = "none"
  /\ Includes(decision.target, "EXECUTION")

needsLookup ==
  /\ policy.resolves /\ in.ops /\ world.marker # "none" /\ in.latest = "none"
  /\ ~Includes(decision.target, "EXECUTION")

\* The execution that the marker names, taken only if it is still running.
\* Best effort: an unavailable source or a failed lookup changes nothing.
resolveInFlight ==
  /\ pc = "resolve"
  /\ pc' = "respond"
  /\ \/ ~needsLookup /\ UNCHANGED <<in, history>>
     \/ /\ needsLookup
        /\ in' = IF world.marker = "latest" /\ world.latest = "running"
                   THEN [in EXCEPT !.latest = "running"] ELSE in
        /\ UNCHANGED history
     \/ /\ needsLookup
        /\ history' = [history EXCEPT !.unheard = TRUE]
        /\ UNCHANGED in
  /\ UNCHANGED <<fixed, world, entry, request, rung, decision, outcome, err, answer>>

-----------------------------------------------------------------------------
(* Merge and precedence                                                     *)

\* firstInOrder: the candidate that the order names first, if it names one.
named(order, candidates) == {i \in DOMAIN order : order[i] \in candidates}
firstInOrder(order, candidates) ==
  LET at == named(order, candidates) IN order[CHOOSE i \in at : \A j \in at : i <= j]

\* SourcePrecedencePolicy.Resolve.  The order of a field is its supplier list.
Resolve(field, present, stale, running) ==
  LET order == Suppliers[field]
  IN  CASE present = {} -> "NONE"
        [] Cardinality(present) = 1 -> CHOOSE s \in present : TRUE
        [] OTHER -> IF running /\ field \in Overrides THEN "EXECUTION"
                    ELSE IF named(order, present \ stale) # {} THEN firstInOrder(order, present \ stale)
                    ELSE IF named(order, present) # {} THEN firstInOrder(order, present)
                    ELSE "OPERATIONAL"

\* Mutant: the marker of the operational record is taken for a running
\* execution.
runningByMarker(i) == i.latest = "running" \/ (i.ops /\ world.marker # "none")

\* Only an execution that is in progress counts; a marker proves nothing.
running(i) == i.latest = "running"

\* Which source the status of the merged record comes from.
mergedStatus(i) ==
  Resolve("status",
          (IF i.ops /\ world.known THEN {"OPERATIONAL"} ELSE {})
            \cup (IF i.latest # "none" /\ world.predicts THEN {"EXECUTION"} ELSE {}),
          IF i.ops /\ world.ops = "STALE" THEN {"OPERATIONAL"} ELSE {},
          running(i))

\* Completeness: the requested fields the merged record has.  The narrow read
\* of the status endpoint brings no configuration.
populated ==
  {f \in Fields : CASE f = "status" -> mergedStatus(in) # "NONE"
                    [] f = "configuration" -> in.ops /\ view # "status"
                    [] f = "latestExecution" -> in.latest # "none"
                    [] f = "executionHistory" -> in.history
                    [] OTHER -> TRUE}

\* targetMissesRequiredFields
targetMisses ==
  \E f \in request.fields :
    \A i \in DOMAIN Suppliers[f] : ~Includes(decision.target, Suppliers[f][i])

-----------------------------------------------------------------------------
(* loadResource, the end: the answer and what it says about itself          *)

reportedFreshness == IF in.ops THEN world.ops ELSE "UNKNOWN"

\* Mutant: the warning names the source that answered.
bypassedPrimary == IF decision.rule = "health.primary_unavailable" THEN {decision.primary} ELSE {}

\* The source a routing-time fallback went around.
bypassed == IF decision.rule = "health.primary_unavailable" THEN {otherThan(decision.primary)} ELSE {}

\* A decision after a fallback targets the one source that did not fail.
fallbackFrom == IF rung = "fallback" THEN {otherThan(decision.primary)} ELSE {}

body ==
  LET partial == omitted # {} \/ targetMisses
  IN  [kind     |-> "value",
       status   |-> mergedStatus(in),
       has      |-> populated,
       warned   |-> bypassed \cup fallbackFrom \cup omitted,
       degraded |-> \/ reportedFreshness = "STALE" /\ decision.target = "OPERATIONAL"
                    \/ bypassed # {} \/ rung = "fallback",
       partial  |-> partial,
       lacking  |-> ~partial /\ ~(request.fields \subseteq populated)]

executionBody == [kind |-> "value", status |-> "NONE", has |-> Fields, warned |-> {},
                  degraded |-> FALSE, partial |-> FALSE, lacking |-> FALSE]

\* Nothing came back from anywhere.
empty == ~in.ops /\ in.latest = "none" /\ ~in.history /\ ~in.view

RespondEmpty ==
  /\ pc = "respond" /\ empty
  /\ err' = "notfound"
  /\ pc' = "failed"
  /\ UNCHANGED <<fixed, world, entry, request, rung, decision, outcome, in, answer, history>>

\* The answer is stored, strong requests included.
Respond ==
  /\ pc = "respond" /\ ~empty
  /\ LET b == IF view = "executions" THEN executionBody ELSE body
     IN  /\ Say(b)
         /\ entry' = [kind |-> "value", live |-> TRUE, body |-> b,
                      fresh |-> IF view = "executions" THEN "UNKNOWN" ELSE reportedFreshness]
  /\ UNCHANGED <<fixed, world, request, rung, decision, outcome, in, err, history>>

-----------------------------------------------------------------------------
(* The end of a request that failed                                         *)

\* serveStale, as far as it does not depend on the age of the entry.
mayServeStale ==
  /\ err \in {"unusable", "no source"}
  /\ policy.allowStale /\ ~request.strong
  /\ entry.kind = "value"

\* An old answer, with all it said about itself.
ServeStale ==
  /\ pc = "failed"
  /\ mayServeStale
  /\ rung' = "stale"
  /\ Say([entry.body EXCEPT !.degraded = TRUE])
  /\ UNCHANGED <<fixed, world, entry, request, decision, outcome, in, err, history>>

\* No stale answer, or it is past the ceiling: the error, remembered if it is
\* that there is no such resource.
ReportError ==
  /\ pc = "failed"
  /\ IF err = "notfound"
       THEN Say([kind |-> "notfound"]) /\ entry' = NotFoundEntry
       ELSE Say([kind |-> "error"]) /\ UNCHANGED entry
  /\ UNCHANGED <<fixed, world, request, rung, decision, outcome, in, err, history>>

-----------------------------------------------------------------------------
(* The environment                                                          *)

\* The entry outlives its ttl, or is evicted or invalidated.
Expire ==
  /\ pc = "idle" /\ entry # NoEntry
  /\ \/ entry' = NoEntry
     \/ entry # NoEntry /\ entry.live /\ entry' = [entry EXCEPT !.live = FALSE]
  /\ UNCHANGED <<fixed, world, pc, request, rung, decision, outcome, in, err, answer, history>>

\* The workflow ends while a request is being served; the operational record
\* does not know yet.
ExecutionFinishes ==
  /\ pc # "idle" /\ world.latest = "running"
  /\ world' = [world EXCEPT !.latest = "finished"]
  /\ UNCHANGED <<fixed, entry, pc, request, rung, decision, outcome, in, err, answer, history>>

Next ==
  \/ Arrive \/ Hit \/ Miss \/ Route
  \/ \E t \in TaskNames : TaskEnds(t)
  \/ FetchFails \/ FallbackFails \/ FetchReturns
  \/ FallBack \/ NoFallback \/ resolveInFlight
  \/ RespondEmpty \/ Respond \/ ServeStale \/ ReportError
  \/ Expire \/ ExecutionFinishes

Spec == Init /\ [][Next]_vars

-----------------------------------------------------------------------------
(* Properties                                                               *)

TypeOK ==
  /\ world \in World /\ policy \in Policy
  /\ entry.kind \in {"none", "notfound", "value"}
  /\ pc \in {"idle", "lookup", "route", "fetch", "fallback", "resolve", "respond", "failed"}
  /\ rung \in {"preferred", "fallback", "cache", "stale"}
  /\ decision.target \in Kinds \cup {"BOTH"} /\ decision.primary \in Kinds
  /\ \A t \in TaskNames : outcome[t] \in {"not run", "running", "ok"} \cup Failures
  /\ err \in {"none", "no source"} \cup Failures
  /\ pc = "idle" <=> answer # Pending
  /\ answer.kind = "value" => answer.warned \subseteq Sources

\* The rung of the ladder: the decision tells the preferred sources from what
\* was chosen in the place of one that is down.
rungTaken ==
  IF rung # "preferred" \/ decision.target \notin Sources THEN rung
  ELSE IF bypassed # {} THEN "rerouted"
  ELSE IF SourcesFor(request.fields) = Sources THEN "narrowed"
  ELSE rung

\* A call failed, or there was no source left to call.
givenUp == history.broken # {} \/ err = "no source"

\* The service implements the degradation ladder: one fallback at call time,
\* and only after a failure; its error, a "not found" included, never becomes
\* the answer; a stale answer and an error only after a failure; and a request
\* for strong consistency keeps to the sources it asked for.  A source chosen
\* when the request was routed may deny: see AbsenceConfirmed.
Promise == INSTANCE Ladder WITH rung <- rungTaken, said <- answer.kind,
                                strong <- request.strong, failed <- givenUp
IsLadder == Promise!Spec

\* An answer that was loaded for this request, not recalled.
loaded == answer.kind = "value" /\ rung \in {"preferred", "fallback"} /\ view # "executions"

\* The warnings of a loaded answer name every source that failed while it was
\* being assembled, over both fetches, and no source that was well; an answer
\* with such a warning is marked degraded or partial.
UnavailableNamed ==
  loaded =>
    /\ history.broken \subseteq answer.warned
    /\ answer.warned \subseteq history.broken \cup history.down
    /\ answer.warned # {} => answer.degraded \/ answer.partial

\* What a read of both sources would have made of the status, had the latest
\* execution been in state l.
statusOfBoth(l) == mergedStatus([NoInputs EXCEPT !.ops = TRUE, !.latest = l])

\* Two screens do not contradict each other while a workflow runs or ends: an
\* unmarked answer takes the status from the source that a complete read of
\* both sources would have taken it from at some instant of the request.  This
\* needs an operational record that knows the status (else there is nothing to
\* contradict), an in-flight marker that keeps up, a lookup that is answered,
\* and a route on which the code looks at the execution at all: a status or
\* configuration view routed to both sources does not.
ViewsAgree ==
  loaded /\ in.ops /\ ~answer.degraded /\ ~answer.partial
      /\ world.known /\ policy.resolves /\ ~history.unheard
      /\ (history.began = "running" => world.marker = "latest")
      /\ (decision.target = "BOTH" => view \in {"details", "full"}) =>
    answer.status \in {statusOfBoth(history.began), statusOfBoth(world.latest)}

\* What the table of negative caching says (spec/error-model.md): "not found",
\* and the entry that remembers it, comes from a source that said so, never
\* from one that failed.
NotFoundIsAnAnswer ==
  answer.kind = "notfound" /\ rung # "cache" =>
    \E t \in TaskNames : outcome[t] = "notfound" \/ (t = "eds.history" /\ outcome[t] = "ok")

\* What the same table says of absence: "not found" from one source while
\* another was unavailable is unconfirmed, so that the answer it is cached as
\* is not given while a source failed or was gone around.
AbsenceConfirmed ==
  answer.kind = "notfound" /\ rung # "cache" /\ view # "executions" =>
    history.broken = {} /\ bypassed = {}

\* What the comment on cache.Key says: whatever changes the response body, the
\* field selection included, is part of the key.  Hence an answer that is not
\* marked incomplete has every field that its request asked for.
FieldsAnnounced ==
  answer.kind = "value" /\ ~answer.partial /\ ~answer.lacking =>
    request.fields \subseteq answer.has

=============================================================================
