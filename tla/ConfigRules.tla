----------------------------- MODULE ConfigRules -----------------------------
(***************************************************************************)
(* The configuration (internal/config/config.go, load.go): how the layers   *)
(* built-in defaults, file, environment and tenant override are laid over   *)
(* one another, and what validation demands of the result.                  *)
(*                                                                         *)
(* As in the code a field that is not set holds the zero value of its type. *)
(* A duration may be negative: Duration.Parse takes "-5s".  Of a rule the   *)
(* two per-source maps, which are merged alike and checked for their names  *)
(* alike, are one field: an empty map is one that is not there, and the     *)
(* timeouts in per_source_timeout are positive, as validation demands.      *)
(* max_latency is left out.                                                 *)
(***************************************************************************)
EXTENDS Integers

CONSTANTS
  Builtin,   \* Default().Routing.RequestTypes: request type -> rule
  Environ    \* BFF_ROUTING__REQUEST_TYPES__*: request type -> the fields it sets

Names == {"", "none", "operational", "execution"}
Preferences == {"operational", "execution", "both"}
Levels == {"strong", "bounded", "eventual"}

\* RoutingRule{}: nothing set.
ZeroRule == [preferred |-> "", fallback |-> "", consistency |-> "", ttl |-> 0, cacheTTL |-> 0,
             maxStale |-> 0, allowStale |-> FALSE, perSource |-> {}]

\* RoutingDefaults{}: its booleans are pointers, so "" is "not mentioned".
ZeroDefaults == [onUnknown |-> "", maxStale |-> 0, allowStale |-> "", probes |-> "",
                 inFlight |-> "", lookupTimeout |-> 0, skewTolerance |-> 0]

\* A layer merged over another: the fields it sets count, and those that always do.
merged(base, layer, zero, always) ==
  [f \in DOMAIN base |-> IF f \in always \/ layer[f] # zero[f] THEN layer[f] ELSE base[f]]

parseSourceName(name) == name \in Names

boolOr(flag) == flag # "off"

-----------------------------------------------------------------------------
(* The layers below the tenant.                                             *)

\* A scalar is set in the document's tree; the mapping above it is made where
\* it is missing.
applyEnv(table) ==
  [t \in DOMAIN table \cup DOMAIN Environ |->
     LET rule == IF t \in DOMAIN table THEN table[t] ELSE ZeroRule
         set == IF t \in DOMAIN Environ THEN Environ[t] ELSE << >>
     IN  [f \in DOMAIN ZeroRule |-> IF f \in DOMAIN set THEN set[f] ELSE rule[f]]]

\* What a named rule leaves unset is restored, except ttl, cache_ttl and
\* allow_stale: there zero and false mean something.
completed(t, rule) ==
  IF t \notin DOMAIN Builtin THEN rule
  ELSE merged(Builtin[t], rule, ZeroRule, {"ttl", "cacheTTL", "allowStale"})

\* Mutant: a request type that the document does not name is gone.
mergeRoutingDefaultsNamed(table) == [t \in DOMAIN table |-> completed(t, table[t])]

\* A request type that the document does not name keeps its built-in rule.
mergeRoutingDefaults(table) ==
  [t \in DOMAIN table \cup DOMAIN Builtin |->
     IF t \in DOMAIN table THEN completed(t, table[t]) ELSE Builtin[t]]

-----------------------------------------------------------------------------
(* Validation.                                                              *)

\* What a whole rule and a patch have in common.
wellFormed(r) ==
  /\ parseSourceName(r.fallback)
  /\ r.ttl >= 0 /\ r.cacheTTL >= 0
  /\ r.ttl > 0 => r.cacheTTL <= r.ttl
  /\ r.maxStale > 0 /\ r.ttl > 0 => r.maxStale >= r.ttl
  /\ r.consistency \in Levels \cup {""}
  /\ ~(r.consistency = "strong" /\ r.allowStale)
  /\ \A s \in r.perSource : parseSourceName(s)

validateRule(r) ==
  /\ wellFormed(r)
  /\ r.preferred \in Preferences
  /\ r.allowStale => r.maxStale > 0

\* A tenant's patch is validated for itself; the rule it makes never is.
validatePartialRule(r) == wellFormed(r) /\ r.preferred \in Preferences \cup {""}

validateSourceCommon(c) ==
  /\ c.callTimeout > 0
  /\ c.retries \in 1..5
  /\ c.baseBackoff > 0 /\ c.maxBackoff >= c.baseBackoff
  /\ c.minimumRequests >= 1 /\ c.window > 0 /\ c.openTimeout > 0
  /\ c.halfOpenMaxCalls >= 1 /\ c.halfOpenSuccesses >= 1
  /\ c.maxConcurrent >= 1 /\ c.acquireTimeout >= 0

\* The blocks beside the routing table, with rate limiting and the resilience of
\* the sources switched on.  Ratios, and texts that need only be present, are
\* left out.
validateBlocks(b) ==
  /\ b.requestTimeout > 0 /\ b.shutdownGrace > 0
  /\ b.noAuth => b.environment \in {"local", "test"}
  /\ b.rps > 0 /\ b.burst >= b.rps
  /\ validateSourceCommon(b.source)
  /\ b.probeTimeout > 0 /\ b.probeTimeout < b.source.callTimeout
  /\ b.backend \in {"memory", "redis", "layered", "none"}
  /\ b.staleGrace >= 0
  /\ \A f \in DOMAIN b.precedence :
       b.precedence[f] # {} /\ \A s \in b.precedence[f] : parseSourceName(s)
  /\ b.overrides \subseteq DOMAIN b.precedence

\* A tenant's on_unknown_freshness, its precedence and its rate limit are taken
\* as they are.
Validate(c) ==
  /\ validateBlocks(c.blocks)
  /\ parseSourceName(c.defaults.onUnknown)
  /\ c.defaults.skewTolerance >= 0
  /\ boolOr(c.defaults.inFlight) => c.defaults.lookupTimeout > 0
  /\ c.table # <<>>
  /\ \A t \in DOMAIN c.table : validateRule(c.table[t])
  /\ \A n \in DOMAIN c.tenants :
       /\ n # ""
       /\ \A t \in DOMAIN c.tenants[n].table :
            t \in DOMAIN c.table /\ validatePartialRule(c.tenants[n].table[t])

\* load: "rejected" for a document that cannot be read, parsed or decoded, that
\* the environment cannot be applied to, or whose configuration is not valid.
\* A request_types of null is no mapping, and decodes to an empty table.
Rejected == [kind |-> "rejected"]

load(doc) ==
  LET named == IF doc.tableIsNull THEN <<>> ELSE applyEnv(doc.table)
      cfg == [kind |-> "config", blocks |-> doc.blocks, defaults |-> doc.defaults,
              table |-> mergeRoutingDefaults(named), tenants |-> doc.tenants]
  IN  IF doc.readable /\ ~(doc.tableIsNull /\ Environ # <<>>) /\ Validate(cfg)
        THEN cfg ELSE Rejected

-----------------------------------------------------------------------------
(* What a tenant sees.                                                      *)

Found(c, type) == type \in DOMAIN c.table

\* A tenant without an override, or without one for this type, has the rule as
\* it is.
Patched(c, tenant, type) ==
  tenant \in DOMAIN c.tenants /\ type \in DOMAIN c.tenants[tenant].table

\* Mutant: allow_stale is always taken from the patch.
ResolveRuleVerbatim(c, tenant, type) ==
  IF ~Patched(c, tenant, type) THEN c.table[type]
  ELSE merged(c.table[type], c.tenants[tenant].table[type], ZeroRule, {"allowStale"})

\* allow_stale is a plain boolean: it is taken from the patch when the patch
\* sets max_stale too, and only then.
ResolveRule(c, tenant, type) ==
  IF ~Patched(c, tenant, type) THEN c.table[type]
  ELSE LET base == c.table[type]
           patch == c.tenants[tenant].table[type]
       IN  [merged(base, patch, ZeroRule, {}) EXCEPT
              !.allowStale = (IF patch.maxStale # 0 THEN patch ELSE base).allowStale]

ResolveDefaults(c, tenant) ==
  IF tenant \notin DOMAIN c.tenants THEN c.defaults
  ELSE merged(c.defaults, c.tenants[tenant].defaults, ZeroDefaults, {})

=============================================================================
