-------------------------------- MODULE Process --------------------------------
(***************************************************************************)
(* The life of the process: run and build (cmd/bff/main.go), the server     *)
(* (internal/api/server.go), the middleware chain                           *)
(* (internal/api/middleware/middleware.go) and the requests that pass it    *)
(* while the configuration is reloaded and the process is told to stop.     *)
(*                                                                         *)
(* net/http is external: Shutdown closes the listener and returns when no   *)
(* connection is busy or its context is done; it does not stop handlers.    *)
(***************************************************************************)
EXTENDS Gateway, FiniteSets

CONSTANTS
  Connections,  \* of clients of the public API
  Sent(_),      \* connection -> the requests it may carry
  Settings,     \* what a reload may put in force: [deny, rules]
  MaxReloads,   \* bound on the reloads
  MaxRequests   \* bound on the requests of a behaviour

ASSUME ProcessAssumption ==
  /\ MaxReloads \in Nat /\ MaxRequests \in Nat
  /\ \A c \in Connections : \A q \in Sent(c) : q.limit \in Int

Listeners == {"public", "admin"}

VARIABLES
  phase,      \* where run is
  open,       \* what is open: telemetry, the two adapters, the cache
  listener,   \* per listener: "none", "starting", "up", "failed", "broken" or "closed"
  errCh,      \* failures of listeners that run has not received
  signalled,  \* ctx of signal.NotifyContext is done
  ready,      \* Server.ready
  grace,      \* shutdownCtx: "none", "running" or "expired"
  conn,       \* per connection, the request on it
  settings,   \* what Config.Get returns
  reloads,    \* reloads so far
  accepted,   \* requests so far
  reply       \* what the last step answered to which request, if it did

procVars == <<phase, open, listener, errCh, signalled, ready, grace, conn, settings, reloads,
              accepted, reply>>
requestVars == <<conn, settings, reloads, accepted>>   \* left alone by run

Free == [stage |-> "idle"]
NoReply == [status |-> 0]

ProcInit ==
  /\ phase = "observability"
  /\ open = {}
  /\ listener = [l \in Listeners |-> "none"]
  /\ errCh = 0 /\ signalled = FALSE /\ ready = FALSE
  /\ grace = "none"
  /\ conn = [c \in Connections |-> Free]
  /\ settings \in Settings
  /\ reloads = 0 /\ accepted = 0
  /\ reply = NoReply

-----------------------------------------------------------------------------
(* run: observability, then build.  Whatever fails, what was opened before  *)
(* is closed, but not the cache; the deferred functions do the rest.        *)

Built == [observability |-> "telemetry", operational |-> "operational",
          execution |-> "execution", cache |-> "cache"]
NextStage == [observability |-> "operational", operational |-> "execution",
              execution |-> "cache", cache |-> "authenticator", authenticator |-> "starting"]

BuildStep ==
  /\ phase \in DOMAIN NextStage
  /\ open' = open \cup {Built[s] : s \in {phase} \cap DOMAIN Built}
  /\ phase' = NextStage[phase]
  /\ UNCHANGED <<listener, errCh, signalled, ready, grace, requestVars>>

BuildFails ==
  /\ phase \in DOMAIN NextStage
  /\ open' = open \ {"operational", "execution"}
  /\ phase' = IF "telemetry" \in open THEN "flushing" ELSE "exited"
  /\ UNCHANGED <<listener, errCh, signalled, ready, grace, requestVars>>

\* Start does not wait for the listeners.
Start ==
  /\ phase = "starting"
  /\ listener' = [l \in Listeners |-> "starting"]
  /\ phase' = "started"
  /\ UNCHANGED <<open, errCh, signalled, ready, grace, requestVars>>

MarkReady ==
  /\ phase = "started"
  /\ ready' = TRUE
  /\ phase' = "serving"
  /\ UNCHANGED <<open, listener, errCh, signalled, grace, requestVars>>

\* The select, which ends ctx after the failure of a listener; the grace period
\* begins.  Then Shutdown turns readiness off.
StopServing ==
  /\ phase = "serving"
  /\ \/ signalled /\ errCh' = errCh
     \/ errCh > 0 /\ errCh' = errCh - 1
  /\ signalled' = TRUE
  /\ grace' = "running"
  /\ phase' = "draining"
  /\ UNCHANGED <<open, listener, ready, requestVars>>

ShutdownPublic ==
  /\ phase = "draining"
  /\ ready' = FALSE
  /\ listener' = [listener EXCEPT !["public"] = "closed"]
  /\ phase' = "drainingPublic"
  /\ UNCHANGED <<open, errCh, signalled, grace, requestVars>>

Busy == {c \in Connections : conn[c] # Free}

\* Mutants: Shutdown returns at once, as Close would; or never mind the context.
DrainedAtOnce == TRUE
DrainedPatiently == Busy = {}

Drained == Busy = {} \/ grace = "expired"

\* public.Shutdown returns and admin.Shutdown is called; its handlers are short.
ShutdownAdmin ==
  /\ phase = "drainingPublic" /\ Drained
  /\ listener' = [listener EXCEPT !["admin"] = "closed"]
  /\ phase' = "closing"
  /\ UNCHANGED <<open, errCh, signalled, ready, grace, requestVars>>

\* cleanup, in its order.
Cleanup ==
  /\ phase = "closing"
  /\ \/ "operational" \in open /\ open' = open \ {"operational"}
     \/ open \cap {"operational", "execution"} = {"execution"} /\ open' = open \ {"execution"}
     \/ open = {"telemetry", "cache"} /\ open' = {"telemetry"}
  /\ phase' = IF open' = {"telemetry"} THEN "flushing" ELSE phase
  /\ UNCHANGED <<listener, errCh, signalled, ready, grace, requestVars>>

\* obs.Shutdown, within its five seconds; run returns, and what is left ends.
Exit ==
  /\ phase = "flushing"
  /\ open' = open \ {"telemetry"}
  /\ phase' = "exited"
  /\ conn' = [c \in Connections |-> Free]
  /\ UNCHANGED <<listener, errCh, signalled, ready, grace, settings, reloads, accepted>>

Run == \/ BuildStep \/ BuildFails \/ Start \/ MarkReady \/ StopServing
       \/ ShutdownPublic \/ ShutdownAdmin \/ Cleanup \/ Exit

-----------------------------------------------------------------------------
(* The listeners, the signal and the timer.                                 *)

\* A server that was shut down before it listened never does.
Listen(l) ==
  /\ listener[l] = "starting" /\ phase # "exited"
  /\ listener' = [listener EXCEPT ![l] = "up"]
  /\ UNCHANGED <<phase, open, errCh, signalled, ready, grace, requestVars>>

\* The address is taken, or Accept fails: connections that are already there
\* stay, and bring further requests until Shutdown closes them.
ListenerFails(l) ==
  /\ listener[l] \in {"starting", "up"} /\ phase # "exited"
  /\ listener' = [listener EXCEPT ![l] = IF @ = "starting" THEN "failed" ELSE "broken"]
  /\ errCh' = errCh + 1
  /\ UNCHANGED <<phase, open, signalled, ready, grace, requestVars>>

Signal ==
  /\ ~signalled /\ phase # "exited"
  /\ signalled' = TRUE
  /\ UNCHANGED <<phase, open, listener, errCh, ready, grace, requestVars>>

GraceExpires ==
  /\ grace = "running" /\ phase # "exited"
  /\ grace' = "expired"
  /\ UNCHANGED <<phase, open, listener, errCh, signalled, ready, requestVars>>

\* Provider.Watch, until the signal.
Reload(s) ==
  /\ reloads < MaxReloads /\ ~signalled /\ s # settings
  /\ phase \in {"starting", "started", "serving"}
  /\ settings' = s
  /\ reloads' = reloads + 1
  /\ UNCHANGED <<phase, open, listener, errCh, signalled, ready, grace, conn, accepted>>

-----------------------------------------------------------------------------
(* A request on its way through the chain.                                  *)

worldVars == <<phase, open, listener, errCh, signalled, ready, grace, settings, reloads>>

Alive == phase # "exited"

\* The request is answered, and the chain unwinds.
Answer(c, status) ==
  /\ conn' = [conn EXCEPT ![c] = Free]
  /\ reply' = [status |-> status, q |-> conn[c].q, deny |-> settings.deny]

GoOn(c, request) ==
  /\ conn' = [conn EXCEPT ![c] = request]
  /\ reply' = NoReply

\* Recover, Correlation, SecurityHeaders and AccessLog let everything pass.
AcceptRequest(c, q) ==
  /\ Alive /\ conn[c] = Free /\ listener["public"] \in {"up", "broken"} /\ accepted < MaxRequests
  /\ accepted' = accepted + 1
  /\ GoOn(c, [stage |-> "limit", q |-> q])
  /\ UNCHANGED worldVars

\* BodyLimit and RateLimit; the limiter may refuse.
Limit(c) ==
  /\ Alive /\ conn[c].stage = "limit"
  /\ \/ conn[c].q.large /\ Answer(c, 413)
     \/ ~conn[c].q.large /\ Answer(c, 429)
     \/ ~conn[c].q.large /\ GoOn(c, [stage |-> "authenticate", q |-> conn[c].q])
  /\ UNCHANGED <<worldVars, accepted>>

AuthenticateStep(c) ==
  /\ Alive /\ conn[c].stage = "authenticate"
  /\ LET q == conn[c].q  p == Authenticate(q)
     IN  IF Refused(p) THEN Answer(c, p.status)
         ELSE LET tenant == ResolveTenant(p, q.header)
              IN  IF Refused(tenant) THEN Answer(c, tenant.status)
                  ELSE GoOn(c, [stage |-> "serve", q |-> q, principal |-> p,
                                tenant |-> tenant.tenant])
  /\ UNCHANGED <<worldVars, accepted>>

\* The mux, and serve up to parse, under the configuration of the moment.
Serve(c) ==
  /\ Alive /\ conn[c].stage = "serve"
  /\ LET q == conn[c].q  p == conn[c].principal
     IN  IF q.route \notin Routes THEN Answer(c, 404)
         ELSE IF ~Authorize(p, permissionOf[q.route], settings.deny) THEN Answer(c, 403)
         ELSE LET in == parse(q, p)
              IN  IF Refused(in) THEN Answer(c, in.status)
                  ELSE GoOn(c, [stage |-> "classify", q |-> q, tenant |-> conn[c].tenant,
                                deny |-> settings.deny, in |-> in])
  /\ UNCHANGED <<worldVars, accepted>>

\* Classify reads the configuration again.
ClassifyStep(c) ==
  /\ Alive /\ conn[c].stage = "classify"
  /\ LET q == conn[c].q  cls == Classify(conn[c].in, typeOf[q.route], settings.rules)
     IN  IF Refused(cls) THEN Answer(c, cls.status)
         ELSE GoOn(c, [stage |-> "service", q |-> q, tenant |-> conn[c].tenant,
                       deny |-> conn[c].deny, cls |-> cls,
                       floor |-> settings.rules[cls.type].consistency])
  /\ UNCHANGED <<worldVars, accepted>>

\* The service answers, whole (200) or in part (206), or with an error; or it
\* panics, which Recover answers.  The Timeout bounds its context, not its run.
ServiceReturns(c) ==
  /\ Alive /\ conn[c].stage = "service"
  /\ \E status \in {200, 206, 404, 500, 503, 504} : Answer(c, status)
  /\ UNCHANGED <<worldVars, accepted>>

World ==
  \/ Run
  \/ \E l \in Listeners : Listen(l) \/ ListenerFails(l)
  \/ Signal \/ GraceExpires
  \/ \E s \in Settings : Reload(s)

Request(c) ==
  \/ \E q \in Sent(c) : AcceptRequest(c, q)
  \/ Limit(c) \/ AuthenticateStep(c) \/ Serve(c) \/ ClassifyStep(c) \/ ServiceReturns(c)

ProcNext ==
  \/ World /\ reply' = NoReply
  \/ \E c \in Connections : Request(c)

\* run goes on, its timer fires.  Nothing is assumed of requests.
ProcFairness == WF_procVars(Run /\ reply' = NoReply) /\ WF_procVars(GraceExpires /\ reply' = NoReply)

ProcSpec == ProcInit /\ [][ProcNext]_procVars /\ ProcFairness

-----------------------------------------------------------------------------
(* Properties                                                               *)

\* Who a request speaks for and what that caller may do, said without the chain.
Authentic(q) ==
  \/ AllowInsecure
  \/ /\ q.token # NoToken /\ q.token.valid
     /\ RequiredClaims \subseteq q.token.claims /\ q.token.tenant # ""
Claimed(q) == IF ~AllowInsecure THEN q.token.tenant ELSE IF q.header = "" THEN "local" ELSE q.header
Holds(q, perm) ==
  \E r \in DOMAIN RoleGrants : perm \in RoleGrants[r] /\ (AllowInsecure \/ r \in q.token.roles)
Entitled(q, deny) ==
  /\ Authentic(q) /\ q.header \in {"", Claimed(q)}
  /\ q.route \in Routes => Holds(q, permissionOf[q.route]) \/ ~deny
  /\ q.audit = "true" => Holds(q, "execution.audit.read")

\* Whatever reload falls between authorisation and classification, what reaches
\* the service acts for the tenant of the token and within its roles, asks for
\* known fields and for no more items than there may be, and is never less
\* consistent than the rule or the caller demands.  And only who is not entitled
\* is answered 401 or 403.
ServedAsEntitled ==
  /\ \A c \in Connections : conn[c].stage = "service" =>
       LET r == conn[c]
       IN  /\ Entitled(r.q, r.deny) /\ r.tenant = Claimed(r.q)
           /\ r.cls.fields # {} /\ r.cls.fields \subseteq KnownFields
           /\ r.cls.limit >= 1 /\ (MaxHistoryItems > 0 => r.cls.limit <= MaxHistoryItems)
           /\ r.cls.consistency >= ParseConsistency(r.floor)
           /\ r.cls.consistency >= ParseConsistency(r.q.consistency)
  /\ reply.status \in {401, 403} => ~Entitled(reply.q, reply.deny)

\* Nobody pulls the rug: while a request is under way the adapters, the cache and
\* the telemetry it uses are open, unless it has outlived the grace period.
DrainedBeforeClosing ==
  Busy # {} /\ grace # "expired" => open = {"telemetry", "operational", "execution", "cache"}

\* A signal, or the failure of a listener, ends the process, whether it is still
\* being built or serving, and whatever its requests do.
ShutdownEnds == signalled \/ errCh > 0 ~> phase = "exited"

=============================================================================
