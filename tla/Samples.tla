-------------------------------- MODULE Samples --------------------------------
(***************************************************************************)
(* Small configurations, documents and requests for the instances that TLC  *)
(* checks.                                                                  *)
(***************************************************************************)
EXTENDS ConfigRules, Gateway, TLC

-----------------------------------------------------------------------------
(* The provider's documents.                                                *)

Rule(ttl, cacheTTL, maxStale, allow, level) ==
  [ZeroRule EXCEPT !.ttl = ttl, !.cacheTTL = cacheTTL, !.maxStale = maxStale,
                   !.allowStale = allow, !.consistency = level]

\* One request type that may be answered stale, and one that may not.
SampleBuiltin ==
  [resource_status  |-> [Rule(1, 1, 2, TRUE, "bounded") EXCEPT !.preferred = "operational",
                                                               !.fallback = "execution"],
   execution_status |-> [Rule(1, 1, 0, FALSE, "strong") EXCEPT !.preferred = "execution",
                                                               !.perSource = {"execution"}]]

\* BFF_ROUTING__REQUEST_TYPES__EXECUTION_STATUS__CACHE_TTL
SampleEnviron == [execution_status |-> [cacheTTL |-> 1]]

GoodSource == [callTimeout |-> 2, retries |-> 3, baseBackoff |-> 1, maxBackoff |-> 1,
               minimumRequests |-> 1, window |-> 1, openTimeout |-> 1, halfOpenMaxCalls |-> 1,
               halfOpenSuccesses |-> 2, maxConcurrent |-> 1, acquireTimeout |-> 0]

GoodBlocks == [requestTimeout |-> 1, shutdownGrace |-> 1, noAuth |-> FALSE, environment |-> "prod",
               rps |-> 1, burst |-> 1, source |-> GoodSource, probeTimeout |-> 1,
               backend |-> "memory", staleGrace |-> 0,
               precedence |-> [status |-> {"operational", "execution"}], overrides |-> {"status"}]

GoodDefaults == [ZeroDefaults EXCEPT !.onUnknown = "operational", !.maxStale = 2,
                                     !.lookupTimeout = 1]

Plain == [kind |-> "document", readable |-> TRUE, tableIsNull |-> FALSE, table |-> <<>>, tenants |-> <<>>,
          defaults |-> GoodDefaults, blocks |-> GoodBlocks]

\* One violation of a block each, and a request_types that is no mapping.
Faulty == [limit    |-> [Plain EXCEPT !.blocks.burst = 0],
           open     |-> [Plain EXCEPT !.blocks.noAuth = TRUE],
           probe    |-> [Plain EXCEPT !.blocks.probeTimeout = 2],
           retries  |-> [Plain EXCEPT !.blocks.source.retries = 6],
           override |-> [Plain EXCEPT !.blocks.overrides = {"owner"}],
           lookup   |-> [Plain EXCEPT !.defaults.lookupTimeout = 0],
           null     |-> [Plain EXCEPT !.tableIsNull = TRUE],
           nobody   |-> [Plain EXCEPT !.tenants = "" :> [table |-> << >>, defaults |-> ZeroDefaults]],
           unknown  |-> [Plain EXCEPT !.tenants = "acme" :> [table |-> "audit" :> ZeroRule,
                                                             defaults |-> ZeroDefaults]]]

Edited == [plain    |-> Plain,
           named    |-> [Plain EXCEPT !.table = "resource_status" :> Rule(2, 1, 2, TRUE, "")],
           unparsed |-> [Plain EXCEPT !.readable = FALSE]]

-----------------------------------------------------------------------------
(* The process's requests.                                                  *)

SampleRoleGrants == [viewer |-> {"resource.read"},
                 auditor |-> {"resource.read", "execution.read", "execution.audit.read"}]

Token(tenant, roles) == [kind |-> "bearer", valid |-> TRUE, claims |-> {"sub"}, tenant |-> tenant,
                         roles |-> roles]

Simple == [route |-> "status", large |-> FALSE, token |-> Token("acme", {"viewer"}), header |-> "",
           wellFormed |-> TRUE, fields |-> {}, fieldCount |-> 0, limit |-> 0, audit |-> "",
           longCursor |-> FALSE, consistency |-> Unset]

\* The rules before and after a reload that also lifts the default deny.
SampleRules(level, fields) ==
  [t \in {typeOf[r] : r \in Routes} |-> [consistency |-> level, fields |-> fields]]
SampleSettings == {[deny |-> TRUE, rules |-> SampleRules("bounded", {"status"})],
               [deny |-> FALSE, rules |-> SampleRules("strong", {})]}

=============================================================================
