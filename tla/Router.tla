-------------------------------- MODULE Router --------------------------------
(***************************************************************************)
(* The routing decision (internal/router/router.go): an ordered chain of    *)
(* eleven rules, the first that handles the request decides.  Each rule is  *)
(* an action: it either decides, or lets the request pass to the next link. *)
(*                                                                         *)
(* The health of the two sources is a snapshot taken before the chain runs. *)
(* The freshness probe runs lazily, at most once, in the first rule that    *)
(* asks; what it answers is the environment's choice.                       *)
(*                                                                         *)
(* rule and defs are the routing rule and the routing defaults with the     *)
(* tenant's overrides already merged in (ResolveRule, ResolveDefaults).     *)
(***************************************************************************)
EXTENDS Freshness, Catalog

CONSTANTS
  TTLs,          \* values of ttl, 0 included
  Ceilings,      \* values of max_stale, 0 (none) included
  SkewTolerance, \* defs.ClockSkewTolerance
  Now,           \* Request.Now
  Times          \* instants an observation may carry

ASSUME TimeAssumption ==
  /\ TTLs \subseteq Nat /\ Ceilings \subseteq Nat
  /\ SkewTolerance \in Nat
  /\ Now \in Nat \ {NoTime}
  /\ Times \subseteq Nat \ {NoTime}

\* The router does not tell "eventual" from "bounded".
Consistencies == {"bounded", "strong"}

\* What the classifier and the health snapshot hand to Select.
Request == [tenant : {"resolved", "missing"},
            fields : (SUBSET Fields) \ {{}},
            consistency : Consistencies,
            health : [Sources -> {"up", "down"}]]

\* A merged routing rule.  Validation asks for a ceiling wherever stale answers
\* are allowed, but a tenant's patch can take it away again.
Rule == [preferred : Sources \cup {"BOTH"}, fallback : Kinds, ttl : TTLs,
         maxStale : Ceilings, allowStale : BOOLEAN]

\* A tenant's on_unknown_freshness is not validated: anything may be there.
Defaults == [onUnknown : Kinds \cup {"CACHE", "unparseable"}, maxStale : Ceilings,
             allowStale : BOOLEAN, probes : BOOLEAN]

VARIABLES
  req, rule, defs,  \* the inputs of Select
  link,             \* the rule of the chain about to be tried
  preferred,        \* evalState.preferred
  fallback,         \* evalState.fallback
  pinned,           \* evalState.pinned
  fresh,            \* evalState.freshness, "todo" until evaluated
  decision          \* the Decision, "none yet" until a rule handles

inputs == <<req, rule, defs>>
vars == <<req, rule, defs, link, preferred, fallback, pinned, fresh, decision>>

Undecided == [target |-> "none yet"]
Unmeasured == [state |-> "todo"]

Init ==
  /\ req \in Request
  /\ rule \in Rule
  /\ defs \in Defaults
  /\ link = "resolve"
  /\ preferred = ParseSourceKind(rule.preferred)
  /\ fallback = ParseSourceKind(rule.fallback)
  /\ pinned = FALSE
  /\ fresh = Unmeasured
  /\ decision = Undecided

-----------------------------------------------------------------------------
(* The helpers of evalState.                                                *)

Up(kind) == kind \in Sources /\ req.health[kind] = "up"

targetFor(kind) == kind

strong == req.consistency = "strong"

\* Mutant: the allowance is taken as configured, strong consistency or not.
allowStaleConfigured == rule.allowStale \/ defs.allowStale

allowStale == ~strong /\ (rule.allowStale \/ defs.allowStale)
maxStale == IF rule.maxStale > 0 THEN rule.maxStale ELSE defs.maxStale

\* evaluateFreshness, the first time: the verdicts it may come to.
Verdicts ==
  IF rule.ttl <= 0
    THEN {[state |-> "STALE", age |-> 0, measured |-> FALSE]}
    ELSE IF ~defs.probes \/ ~Up("OPERATIONAL")
           THEN {[state |-> "UNKNOWN", age |-> 0, measured |-> FALSE]}
           ELSE LET seen == {Evaluate(o, rule.ttl, SkewTolerance, Now) : o \in Observation(Times)}
                IN  {[state |-> v.state, age |-> v.age, measured |-> TRUE] : v \in seen}
                      \cup {[state |-> "UNKNOWN", age |-> 0, measured |-> FALSE]}

-----------------------------------------------------------------------------
(* finish, and the two ways a rule ends.                                    *)

\* The configured fallback travels with the decision unless the fields pinned
\* the source set.
Decide(name, target, isPinned) ==
  /\ decision' = [target     |-> target,
                  rule       |-> name,
                  primary    |-> primaryOf(target),
                  fallback   |-> IF isPinned THEN "NONE" ELSE ParseSourceKind(rule.fallback),
                  allowStale |-> allowStale]
  /\ link' = "decided"

Pass(next) == link' = next /\ UNCHANGED decision

-----------------------------------------------------------------------------
(* Select, and rules 1 to 7                                                 *)

\* The request type has its rule; or the configuration was reloaded since the
\* request was classified, and the rule is gone.
resolveRule ==
  /\ link = "resolve"
  /\ \/ Pass("tenant_missing")
     \/ /\ decision' = [target |-> "NONE", rule |-> "guard.unconfigured_request_type",
                         primary |-> "NONE", fallback |-> "NONE",
                         allowStale |-> ~strong /\ defs.allowStale]
        /\ link' = "decided"
  /\ UNCHANGED <<inputs, preferred, fallback, pinned, fresh>>

ruleTenantMissing ==
  /\ link = "tenant_missing"
  /\ IF req.tenant = "missing"
       THEN Decide("guard.tenant_missing", "NONE", pinned)
       ELSE Pass("both_unavailable")
  /\ UNCHANGED <<inputs, preferred, fallback, pinned, fresh>>

ruleBothUnavailable ==
  /\ link = "both_unavailable"
  /\ IF \A s \in Sources : ~Up(s)
       THEN Decide("health.both_unavailable", "NONE", pinned)
       ELSE Pass("execution_only")
  /\ UNCHANGED <<inputs, preferred, fallback, pinned, fresh>>

\* Pins the execution source, and decides.
ruleFieldsExecOnly ==
  /\ link = "execution_only"
  /\ IF ~ExclusiveTo(req.fields, "EXECUTION")
       THEN Pass("operational_only") /\ UNCHANGED <<preferred, fallback, pinned>>
       ELSE IF ~Up("EXECUTION")
              THEN /\ Decide("fields.execution_only", "NONE", pinned)
                   /\ UNCHANGED <<preferred, fallback, pinned>>
              ELSE /\ preferred' = "EXECUTION"
                   /\ fallback' = "NONE"
                   /\ pinned' = TRUE
                   /\ Decide("fields.execution_only", "EXECUTION", TRUE)
  /\ UNCHANGED <<inputs, fresh>>

\* Pins the operational source, and lets the TTL rules decide.
ruleFieldsOpsOnly ==
  /\ link = "operational_only"
  /\ IF ~ExclusiveTo(req.fields, "OPERATIONAL")
       THEN Pass("span_both") /\ UNCHANGED <<preferred, fallback, pinned>>
       ELSE IF ~Up("OPERATIONAL")
              THEN /\ Decide("fields.operational_only", "NONE", pinned)
                   /\ UNCHANGED <<preferred, fallback, pinned>>
              ELSE /\ preferred' = "OPERATIONAL"
                   /\ fallback' = "NONE"
                   /\ pinned' = TRUE
                   /\ Pass("span_both")
  /\ UNCHANGED <<inputs, fresh>>

\* The healthy part of a pair of sources.
healthySide ==
  CASE Up("OPERATIONAL") /\ Up("EXECUTION") -> "BOTH"
    [] Up("OPERATIONAL") /\ ~Up("EXECUTION") -> "OPERATIONAL"
    [] OTHER -> "EXECUTION"

ruleFieldsSpanBoth ==
  /\ link = "span_both"
  /\ IF SourcesFor(req.fields) = Sources
       THEN Decide("fields.span_both", healthySide, pinned)
       ELSE Pass("strong")
  /\ UNCHANGED <<inputs, preferred, fallback, pinned, fresh>>

ruleStrongConsistency ==
  /\ link = "strong"
  /\ LET target == IF preferred = "NONE" THEN "OPERATIONAL" ELSE preferred
     IN  IF ~strong
           THEN Pass("primary_unavailable")
           ELSE Decide("consistency.strong_requires_operational",
                       IF Up(target) THEN target ELSE "NONE", pinned)
  /\ UNCHANGED <<inputs, preferred, fallback, pinned, fresh>>

\* "both" is read from the configured string.
prefersBoth == rule.preferred = "BOTH"

\* Mutant: one healthy side is enough for "both".
preferredHealthyOneSide ==
  IF prefersBoth THEN \E s \in Sources : Up(s) ELSE Up(preferred)

preferredHealthy ==
  IF prefersBoth THEN \A s \in Sources : Up(s) ELSE Up(preferred)

rulePrimaryUnavailable ==
  /\ link = "primary_unavailable"
  /\ IF (preferred = "NONE" /\ ~prefersBoth) \/ preferredHealthy
       THEN Pass("ttl_fresh")
       ELSE Decide("health.primary_unavailable",
                   IF Up(fallback) THEN targetFor(fallback)
                   ELSE IF prefersBoth THEN healthySide
                   ELSE "NONE",
                   pinned)
  /\ UNCHANGED <<inputs, preferred, fallback, pinned, fresh>>

-----------------------------------------------------------------------------
(* Rules 8 to 11                                                            *)

ruleTTLFresh ==
  /\ link = "ttl_fresh"
  /\ IF preferred # "OPERATIONAL"
       THEN Pass("ttl_stale") /\ UNCHANGED fresh
       ELSE \E v \in Verdicts :
              /\ fresh' = v
              /\ IF v.state = "FRESH"
                   THEN Decide("ttl.operational.fresh", "OPERATIONAL", pinned)
                   ELSE Pass("ttl_stale")
  /\ UNCHANGED <<inputs, preferred, fallback, pinned>>

\* Mutant: an age that was not measured is taken for zero.
beyondCeilingIfMeasured == maxStale > 0 /\ fresh.age > maxStale

\* An age that was not measured counts as beyond the ceiling.
beyondCeiling == maxStale > 0 /\ (rule.ttl <= 0 \/ fresh.age > maxStale)

ruleTTLStale ==
  /\ link = "ttl_stale"
  /\ IF preferred # "OPERATIONAL" \/ fresh.state # "STALE"
       THEN Pass("ttl_unknown")
       ELSE Decide("ttl.operational.stale",
                   IF Up(fallback) THEN targetFor(fallback)
                   ELSE IF allowStale /\ ~beyondCeiling /\ Up("OPERATIONAL") THEN "OPERATIONAL"
                   ELSE "NONE",
                   pinned)
  /\ UNCHANGED <<inputs, preferred, fallback, pinned, fresh>>

\* Mutant: the other side is never tried.
sameSource(kind) == kind

otherSource(kind) == IF kind = "EXECUTION" THEN "OPERATIONAL" ELSE "EXECUTION"

\* on_unknown_freshness: an unparseable value becomes the operational source,
\* and a pinned source set is never crossed.
unknownChoice ==
  IF pinned THEN preferred
  ELSE IF defs.onUnknown = "unparseable" THEN "OPERATIONAL" ELSE defs.onUnknown

ruleTTLUnknown ==
  /\ link = "ttl_unknown"
  /\ IF preferred # "OPERATIONAL" \/ fresh.state # "UNKNOWN"
       THEN Pass("default")
       ELSE Decide("ttl.unknown_freshness",
                   IF defs.onUnknown = "NONE" THEN "NONE"
                   ELSE IF Up(unknownChoice) THEN targetFor(unknownChoice)
                   ELSE IF ~pinned /\ Up(otherSource(unknownChoice))
                          THEN targetFor(otherSource(unknownChoice))
                   ELSE "NONE",
                   pinned)
  /\ UNCHANGED <<inputs, preferred, fallback, pinned, fresh>>

\* Mutant: the terminal rule goes by the parsed preference.
ruleDefaultParsed ==
  /\ link = "default"
  /\ preferred # "NONE"
  /\ Decide("default.preferred_source", preferred, pinned)
  /\ UNCHANGED <<inputs, preferred, fallback, pinned, fresh>>

ruleDefaultPreferred ==
  /\ link = "default"
  /\ Decide("default.preferred_source", rule.preferred, pinned)
  /\ UNCHANGED <<inputs, preferred, fallback, pinned, fresh>>

Next ==
  \/ resolveRule \/ ruleTenantMissing \/ ruleBothUnavailable
  \/ ruleFieldsExecOnly \/ ruleFieldsOpsOnly \/ ruleFieldsSpanBoth
  \/ ruleStrongConsistency \/ rulePrimaryUnavailable
  \/ ruleTTLFresh \/ ruleTTLStale \/ ruleTTLUnknown \/ ruleDefaultPreferred

Spec == Init /\ [][Next]_vars /\ WF_vars(Next)

-----------------------------------------------------------------------------
(* Properties                                                               *)

Links == {"resolve", "tenant_missing", "both_unavailable", "execution_only", "operational_only",
          "span_both", "strong", "primary_unavailable", "ttl_fresh", "ttl_stale",
          "ttl_unknown", "default", "decided"}

TypeOK ==
  /\ req \in Request
  /\ rule \in Rule
  /\ defs \in Defaults
  /\ link \in Links
  /\ preferred \in Kinds
  /\ fallback \in Kinds
  /\ pinned \in BOOLEAN
  /\ link = "decided" <=> decision # Undecided

Decided == link = "decided"

\* A record whose measured age is beyond its TTL is read from the operational
\* source only when that is permitted and within the ceiling, provided the
\* fallback is another source.
StaleWithinCeiling ==
  Decided /\ fresh # Unmeasured =>
    (fresh.state = "STALE" /\ decision.target = "OPERATIONAL" /\ fallback # "OPERATIONAL"
       => /\ rule.allowStale \/ defs.allowStale
          /\ ~strong
          /\ maxStale > 0 => fresh.measured /\ fresh.age <= maxStale)

\* What strong consistency asks for.
strongTarget == IF preferred = "NONE" THEN "OPERATIONAL" ELSE preferred

\* A request for strong consistency is never answered by way of the TTL rules
\* or of the configured fallback, and never carries a stale allowance.
StrongIsLive ==
  Decided /\ strong =>
    /\ fresh = Unmeasured
    /\ ~decision.allowStale
    /\ decision.target # "NONE" /\ SourcesFor(req.fields) # Sources =>
         decision.target = strongTarget

\* A source is given up on only for a reason: the chain answers NONE with one
\* source healthy only when the source of exclusive fields is down; or strong
\* consistency asks for the one that is down; or the record is stale, its
\* fallback down and the stale read forbidden; or a preferred source other than
\* "both" and its fallback are down; or the operator asked to fail rather than
\* guess.  One exception has no such reason and is what the code does: with
\* on_unknown_freshness "cache" only the execution source is tried.  See
\* ProbeOutageServed.
RefusalJustified ==
  Decided /\ decision.target = "NONE"
      /\ decision.rule \notin {"guard.tenant_missing", "guard.unconfigured_request_type"}
      /\ (\E s \in Sources : Up(s)) =>
    \/ \E s \in Sources : ExclusiveTo(req.fields, s) /\ ~Up(s)
    \/ strong /\ ~Up(strongTarget)
    \/ /\ fresh # Unmeasured /\ fresh.state = "STALE"
       /\ ~Up(fallback) /\ (~allowStale \/ beyondCeiling)
    \/ /\ fresh # Unmeasured /\ fresh.state = "UNKNOWN"
       /\ \/ defs.onUnknown = "NONE"
          \/ defs.onUnknown = "CACHE" /\ ~pinned /\ ~Up("EXECUTION")
    \/ ~prefersBoth /\ ~Up(preferred) /\ ~Up(fallback)

\* What the comments of ruleTTLUnknown claim: a probe outage does not become an
\* API outage, since the other side is tried before the request is given up.
\* It fails for on_unknown_freshness "cache".
ProbeOutageServed ==
  Decided /\ fresh # Unmeasured /\ fresh.state = "UNKNOWN" =>
    (decision.target = "NONE" => defs.onUnknown = "NONE" \/ ~Up(preferred))

\* What the application service relies on: see Catalog.
MeetsContract ==
  Decided => Offered(decision, req.health, req.fields, strong)

\* The chain is total.
AlwaysDecides == <>Decided

=============================================================================
