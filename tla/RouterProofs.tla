----------------------------- MODULE RouterProofs -----------------------------
(***************************************************************************)
(* Proofs about the routing decision, for every field catalogue, every rule *)
(* and every value of the times and ceilings.                               *)
(***************************************************************************)
EXTENDS Router, TLAPS

\* The links at which a fact established by an earlier one still counts.
AfterHealth == {"execution_only", "operational_only", "span_both", "strong",
                "primary_unavailable", "ttl_fresh", "ttl_stale", "ttl_unknown", "default"}
AfterExec == AfterHealth \ {"execution_only"}
AfterOps == AfterExec \ {"operational_only"}
AfterSpan == AfterOps \ {"span_both"}
AfterStrong == AfterSpan \ {"strong"}
AfterPrimary == AfterStrong \ {"primary_unavailable"}
AfterFresh == AfterPrimary \ {"ttl_fresh"}

InputsOK == req \in Request /\ rule \in Rule /\ defs \in Defaults

\* evalState: as configured, or pinned to the operational source.
Configured ==
  preferred = ParseSourceKind(rule.preferred) /\ fallback = ParseSourceKind(rule.fallback)
    /\ pinned = FALSE
Pinned ==
  preferred = "OPERATIONAL" /\ fallback = "NONE" /\ pinned = TRUE
    /\ Up("OPERATIONAL") /\ ExclusiveTo(req.fields, "OPERATIONAL")

\* A verdict of the freshness evaluation; one that was not measured has no age.
Measured(v) ==
  /\ v.state \in {"FRESH", "STALE", "UNKNOWN"}
  /\ v.age \in Nat /\ v.measured \in BOOLEAN
  /\ v.state = "STALE" /\ ~v.measured => rule.ttl <= 0

\* What is known of a request that no rule has decided yet.
Underway ==
  /\ decision = Undecided
  /\ link \in {"resolve", "tenant_missing", "both_unavailable", "execution_only",
               "operational_only"} => Configured
  /\ link \in AfterHealth => \E s \in Sources : Up(s)
  /\ link \in AfterExec => ~ExclusiveTo(req.fields, "EXECUTION")
  /\ link \in AfterOps =>
       Pinned \/ (Configured /\ ~ExclusiveTo(req.fields, "OPERATIONAL"))
  /\ link \in AfterSpan => SourcesFor(req.fields) # Sources
  /\ link \in AfterStrong => ~strong
  /\ link \in AfterPrimary => (preferred = "NONE" /\ ~prefersBoth) \/ preferredHealthy
  /\ link \notin AfterFresh => fresh = Unmeasured
  /\ link \in AfterFresh /\ preferred # "OPERATIONAL" => fresh = Unmeasured
  /\ link \in AfterFresh /\ preferred = "OPERATIONAL" =>
       Measured(fresh) /\ fresh.state \in {"STALE", "UNKNOWN"}
  /\ link = "ttl_unknown" /\ preferred = "OPERATIONAL" => fresh.state = "UNKNOWN"
  /\ link = "default" => preferred # "OPERATIONAL"

\* What is known of a decision.
Settled ==
  /\ decision # Undecided
  /\ StaleWithinCeiling /\ StrongIsLive /\ RefusalJustified /\ MeetsContract

Inv ==
  /\ InputsOK
  /\ link \in Links
  /\ preferred \in Kinds /\ fallback \in Kinds /\ pinned \in BOOLEAN
  /\ link # "decided" => Underway
  /\ link = "decided" => Settled

-----------------------------------------------------------------------------
(* The inputs and the helpers.                                              *)

\* The fields of the inputs.
LEMMA InputFields ==
  ASSUME InputsOK
  PROVE  /\ rule.preferred \in {"OPERATIONAL", "EXECUTION", "BOTH"}
         /\ rule.fallback \in {"OPERATIONAL", "EXECUTION", "NONE"}
         /\ rule.ttl \in Nat /\ rule.maxStale \in Nat /\ rule.allowStale \in BOOLEAN
         /\ defs.maxStale \in Nat /\ defs.allowStale \in BOOLEAN
         /\ defs.onUnknown \in {"OPERATIONAL", "EXECUTION", "NONE", "CACHE", "unparseable"}
         /\ req.health["OPERATIONAL"] \in {"up", "down"}
         /\ req.health["EXECUTION"] \in {"up", "down"}
         /\ req.fields # {} /\ req.fields \subseteq Fields
<1>1. /\ rule.preferred \in Sources \cup {"BOTH"} /\ rule.fallback \in Kinds
      /\ rule.ttl \in TTLs /\ rule.maxStale \in Ceilings /\ rule.allowStale \in BOOLEAN
  BY DEF InputsOK, Rule
<1>2. /\ defs.maxStale \in Ceilings /\ defs.allowStale \in BOOLEAN
      /\ defs.onUnknown \in Kinds \cup {"CACHE", "unparseable"}
  BY DEF InputsOK, Defaults
<1>3. /\ req.health \in [Sources -> {"up", "down"}]
      /\ req.fields \in (SUBSET Fields) \ {{}}
  BY DEF InputsOK, Request
<1>4. TTLs \subseteq Nat /\ Ceilings \subseteq Nat
  BY TimeAssumption
<1>5. req.health["OPERATIONAL"] \in {"up", "down"} /\ req.health["EXECUTION"] \in {"up", "down"}
  BY <1>3 DEF Sources
<1>6. req.fields # {} /\ req.fields \subseteq Fields
  BY <1>3
<1>7. /\ rule.preferred \in {"OPERATIONAL", "EXECUTION", "BOTH"}
      /\ rule.fallback \in {"OPERATIONAL", "EXECUTION", "NONE"}
      /\ defs.onUnknown \in {"OPERATIONAL", "EXECUTION", "NONE", "CACHE", "unparseable"}
  BY <1>1, <1>2 DEF Kinds, Sources
<1> QED
  BY <1>1, <1>2, <1>4, <1>5, <1>6, <1>7

\* A field with one supplier has it for the most authoritative.
LEMMA ExclusiveSource ==
  ASSUME NEW fields, NEW s \in Sources, ExclusiveTo(fields, s)
  PROVE  SourcesFor(fields) # Sources /\ SourcesFor(fields) = {s}
<1>1. \A f \in fields : Suppliers[f][1] = s
  BY DEF ExclusiveTo
<1>2. PICK f : f \in fields
  BY DEF ExclusiveTo
<1>3. SourcesFor(fields) = {s}
  BY <1>1, <1>2 DEF SourcesFor
<1> QED
  BY <1>3 DEF Sources

\* No fields are exclusive to both sources.
LEMMA OneExclusive ==
  ASSUME NEW fields, ExclusiveTo(fields, "EXECUTION") PROVE ~ExclusiveTo(fields, "OPERATIONAL")
<1>1. SourcesFor(fields) = {"EXECUTION"}
  BY ExclusiveSource DEF Sources
<1>2. SourcesFor(fields) # {"OPERATIONAL"}
  BY <1>1
<1> QED
  BY <1>2, ExclusiveSource DEF Sources

\* What the evaluation of an observation may come to.
LEMMA EvaluateGood ==
  ASSUME NEW o \in Observation(Times), NEW ttl \in Nat
  PROVE  LET v == Evaluate(o, ttl, SkewTolerance, Now)
         IN  v.state \in {"FRESH", "STALE", "UNKNOWN"} /\ v.age \in Nat
<1>0. o.lastUpdated \in Times \cup {NoTime} /\ o.sourceTime \in Times \cup {NoTime}
  BY DEF Observation
<1>1. o.lastUpdated \in Nat /\ o.sourceTime \in Nat /\ Now \in Nat
  <2>1. (\A t \in Times : t \in Nat) /\ Now \in Nat
    BY TimeAssumption
  <2>2. NoTime \in Nat
    BY DEF NoTime
  <2> QED
    BY <1>0, <2>1, <2>2
<1>2. reference(o, Now) \in Nat
  BY <1>1 DEF reference
<1> DEFINE raw == reference(o, Now) - o.lastUpdated
           age == IF raw < 0 THEN 0 ELSE raw
<1>3. age \in Nat
  BY <1>1, <1>2
<1> QED
  BY <1>3 DEF Evaluate, unknownVerdict

\* The freshness evaluation comes to a verdict, and an age that is not measured
\* makes a record stale only when the request type has no ttl.
LEMMA VerdictsGood == ASSUME InputsOK, NEW v \in Verdicts PROVE Measured(v)
<1>1. rule.ttl \in Nat
  BY InputFields
<1>2. CASE rule.ttl <= 0
  <2>1. v = [state |-> "STALE", age |-> 0, measured |-> FALSE]
    BY <1>2 DEF Verdicts
  <2>2. v.state = "STALE" /\ v.age = 0 /\ v.measured = FALSE
    BY <2>1
  <2>3. v.state \in {"FRESH", "STALE", "UNKNOWN"} /\ v.age \in Nat /\ v.measured \in BOOLEAN
    BY <2>1
  <2> QED
    BY <1>2, <2>3, Zenon DEF Measured
<1>3. CASE v = [state |-> "UNKNOWN", age |-> 0, measured |-> FALSE]
  BY <1>3 DEF Measured
<1>4. CASE \E o \in Observation(Times) :
             v = [state |-> Evaluate(o, rule.ttl, SkewTolerance, Now).state,
                  age |-> Evaluate(o, rule.ttl, SkewTolerance, Now).age, measured |-> TRUE]
  <2>1. PICK o \in Observation(Times) :
             v = [state |-> Evaluate(o, rule.ttl, SkewTolerance, Now).state,
                  age |-> Evaluate(o, rule.ttl, SkewTolerance, Now).age, measured |-> TRUE]
    BY <1>4
  <2>2. /\ Evaluate(o, rule.ttl, SkewTolerance, Now).state \in {"FRESH", "STALE", "UNKNOWN"}
        /\ Evaluate(o, rule.ttl, SkewTolerance, Now).age \in Nat
    BY <1>1, EvaluateGood
  <2>3. /\ v.state = Evaluate(o, rule.ttl, SkewTolerance, Now).state
        /\ v.age = Evaluate(o, rule.ttl, SkewTolerance, Now).age /\ v.measured = TRUE
    BY <2>1
  <2> QED
    BY <2>2, <2>3 DEF Measured
<1> QED
  BY <1>2, <1>3, <1>4 DEF Verdicts

\* The fields of a decision.
LEMMA DecideFields ==
  ASSUME NEW name, NEW target \in {"OPERATIONAL", "EXECUTION", "BOTH", "NONE"},
         NEW isPinned \in BOOLEAN, Decide(name, target, isPinned)
  PROVE  /\ link' = "decided" /\ decision' # Undecided
         /\ decision'.target = target /\ decision'.rule = name
         /\ decision'.primary = primaryOf(target)
         /\ decision'.fallback = IF isPinned THEN "NONE" ELSE ParseSourceKind(rule.fallback)
         /\ decision'.allowStale = allowStale
<1>1. /\ link' = "decided"
      /\ decision' = [target     |-> target,
                      rule       |-> name,
                      primary    |-> primaryOf(target),
                      fallback   |-> IF isPinned THEN "NONE" ELSE ParseSourceKind(rule.fallback),
                      allowStale |-> allowStale]
  BY DEF Decide
<1>2. decision'.target = target
  BY <1>1
<1>3. decision' # Undecided
  <2>1. Undecided.target = "none yet"
    BY DEF Undecided
  <2> QED
    BY <1>2, <2>1
<1> QED
  BY <1>1, <1>2, <1>3


\* A rule that decides: what is asked of it, in terms of the inputs and of what
\* it leaves in the evaluation state.
LEMMA Settle ==
  ASSUME Inv, UNCHANGED inputs, NEW name, NEW target \in {"OPERATIONAL", "EXECUTION", "BOTH", "NONE"},
         NEW isPinned \in BOOLEAN, Decide(name, target, isPinned),
         preferred' \in Kinds, fallback' \in Kinds, pinned' \in BOOLEAN,
         \* The sources it names are up, and those of exclusive fields.
         \A s \in Sources : Includes(target, s) => Up(s),
         \A s \in Sources : ExclusiveTo(req.fields, s) /\ target # "NONE" => target = s /\ isPinned,
         name = "health.primary_unavailable" /\ target # "NONE" =>
           /\ ~strong /\ SourcesFor(req.fields) # Sources
           /\ target # "BOTH" /\ ~Up(otherThan(target)) /\ otherThan(target) \in Sources,
         \* It keeps strong consistency away from freshness and fallback.
         strong => /\ fresh' = Unmeasured
                   /\ target # "NONE" /\ SourcesFor(req.fields) # Sources =>
                        target = IF preferred' = "NONE" THEN "OPERATIONAL" ELSE preferred',
         \* It reads stale data within the ceiling.
         fresh' # Unmeasured /\ fresh'.state = "STALE" /\ target = "OPERATIONAL" =>
           \/ allowStale /\ (maxStale > 0 => fresh'.measured /\ fresh'.age <= maxStale)
           \/ fallback' = "OPERATIONAL",
         RefusalJustified'
  PROVE  Inv'
<1>1. /\ link' = "decided" /\ decision' # Undecided
      /\ decision'.target = target /\ decision'.rule = name
      /\ decision'.primary = primaryOf(target)
      /\ decision'.fallback = IF isPinned THEN "NONE" ELSE ParseSourceKind(rule.fallback)
      /\ decision'.allowStale = allowStale
  BY DecideFields
<1>2. req' = req /\ rule' = rule /\ defs' = defs
  BY DEF inputs
<1>3. InputsOK /\ InputsOK'
  BY <1>2 DEF Inv, InputsOK
<1>4. StaleWithinCeiling'
  BY <1>1, <1>2 DEF StaleWithinCeiling, allowStale, strong, maxStale
<1>5. StrongIsLive'
  BY <1>1, <1>2 DEF StrongIsLive, strongTarget, allowStale, strong
<1>6. MeetsContract'
  <2>1. Offered(decision', req.health, req.fields, strong)
    <3>1. /\ decision'.target \in Kinds \cup {"BOTH"}
          /\ decision'.fallback \in Kinds
      BY <1>1 DEF Kinds, Sources, ParseSourceKind
    <3>2. \A s \in Sources : Includes(decision'.target, s) => req.health[s] = "up"
      BY <1>1 DEF Up
    <3>3. \A s \in Sources : ExclusiveTo(req.fields, s) /\ decision'.target # "NONE" =>
            decision'.target = s /\ decision'.fallback = "NONE"
      BY <1>1
    <3>4. decision'.rule = "health.primary_unavailable" /\ decision'.target # "NONE" =>
            /\ ~strong /\ SourcesFor(req.fields) # Sources
            /\ decision'.target # "BOTH" /\ req.health[otherThan(decision'.target)] = "down"
      <4>1. ASSUME NEW s \in Sources, ~Up(s) PROVE req.health[s] = "down"
        BY <1>3, <4>1, InputFields DEF Up, Sources
      <4> QED
        BY <1>1, <4>1
    <3> QED
      BY <1>1, <3>1, <3>2, <3>3, <3>4 DEF Offered
  <2> QED
    BY <1>2, <2>1 DEF MeetsContract, strong
<1> QED
  BY <1>1, <1>3, <1>4, <1>5, <1>6 DEF Inv, Settled, Links


\* A rule that passes the request on and leaves the evaluation state alone.
LEMMA PassOn ==
  ASSUME Inv, link # "decided", UNCHANGED <<inputs, preferred, fallback, pinned, fresh>>,
         NEW next \in Links \ {"decided"}, Pass(next), Underway'
  PROVE  Inv'
<1>1. link' = next /\ req' = req /\ rule' = rule /\ defs' = defs
  BY DEF Pass, inputs
<1> QED
  BY <1>1 DEF Inv, InputsOK

-----------------------------------------------------------------------------
(* The links of the chain.                                                  *)

LEMMA ResolveGood == ASSUME Inv, resolveRule PROVE Inv'
<1>1. /\ link = "resolve" /\ Underway /\ UNCHANGED <<inputs, preferred, fallback, pinned, fresh>>
      /\ req' = req /\ rule' = rule /\ defs' = defs
  BY DEF resolveRule, Inv, inputs
<1>2. CASE Pass("tenant_missing")
  <2>1. Underway'
    BY <1>1, <1>2 DEF Underway, Pass, Configured, AfterHealth, AfterExec, AfterOps, AfterSpan,
                      AfterStrong, AfterPrimary, AfterFresh
  <2> QED
    BY <1>1, <1>2, <2>1, PassOn DEF Links
<1>3. CASE /\ decision' = [target |-> "NONE", rule |-> "guard.unconfigured_request_type",
                           primary |-> "NONE", fallback |-> "NONE",
                           allowStale |-> ~strong /\ defs.allowStale]
           /\ link' = "decided"
  <2>1. /\ decision'.target = "NONE" /\ decision'.rule = "guard.unconfigured_request_type"
        /\ decision'.primary = "NONE" /\ decision'.fallback = "NONE"
        /\ decision'.allowStale = (~strong /\ defs.allowStale)
    BY <1>3
  <2>2. decision' # Undecided
    <3>1. Undecided.target = "none yet"
      BY DEF Undecided
    <3> QED
      BY <2>1, <3>1
  <2>3. fresh' = Unmeasured
    BY <1>1 DEF Underway, AfterHealth, AfterExec, AfterOps, AfterSpan, AfterStrong,
                AfterPrimary, AfterFresh
  <2>4. StaleWithinCeiling' /\ RefusalJustified'
    BY <2>1, <2>3 DEF StaleWithinCeiling, RefusalJustified
  <2>5. StrongIsLive'
    BY <1>1, <2>1, <2>3 DEF StrongIsLive, strong
  <2>6. MeetsContract'
    BY <1>1, <2>1 DEF MeetsContract, Offered, Kinds, Sources, Includes, primaryOf
  <2> QED
    BY <1>1, <1>3, <2>2, <2>4, <2>5, <2>6 DEF Inv, InputsOK, Settled, Links
<1> QED
  BY <1>2, <1>3 DEF resolveRule

LEMMA TenantMissingGood == ASSUME Inv, ruleTenantMissing PROVE Inv'
<1>1. /\ link = "tenant_missing" /\ Underway
      /\ UNCHANGED <<inputs, preferred, fallback, pinned, fresh>>
      /\ req' = req /\ rule' = rule /\ defs' = defs /\ pinned \in BOOLEAN
      /\ preferred \in Kinds /\ fallback \in Kinds
  BY DEF ruleTenantMissing, Inv, inputs
<1>2. fresh' = Unmeasured
  BY <1>1 DEF Underway, AfterHealth, AfterExec, AfterOps, AfterSpan, AfterStrong,
              AfterPrimary, AfterFresh
<1>3. CASE Pass("both_unavailable")
  <2>1. Underway'
    BY <1>1, <1>3 DEF Underway, Pass, Configured, AfterHealth, AfterExec, AfterOps, AfterSpan,
                      AfterStrong, AfterPrimary, AfterFresh
  <2> QED
    BY <1>1, <1>3, <2>1, PassOn DEF Links
<1>4. CASE Decide("guard.tenant_missing", "NONE", pinned)
  <2>1. RefusalJustified'
    BY <1>1, <1>4, DecideFields DEF RefusalJustified
  <2> QED
    BY <1>1, <1>2, <1>4, <2>1, Settle DEF Includes, Sources
<1> QED
  BY <1>3, <1>4 DEF ruleTenantMissing

LEMMA BothUnavailableGood == ASSUME Inv, ruleBothUnavailable PROVE Inv'
<1>1. /\ link = "both_unavailable" /\ Underway
      /\ UNCHANGED <<inputs, preferred, fallback, pinned, fresh>>
      /\ req' = req /\ rule' = rule /\ defs' = defs /\ pinned \in BOOLEAN
      /\ preferred \in Kinds /\ fallback \in Kinds
  BY DEF ruleBothUnavailable, Inv, inputs
<1>2. fresh' = Unmeasured
  BY <1>1 DEF Underway, AfterHealth, AfterExec, AfterOps, AfterSpan, AfterStrong,
              AfterPrimary, AfterFresh
<1>3. CASE Pass("execution_only") /\ \E s \in Sources : Up(s)
  <2>1. Underway'
    BY <1>1, <1>3 DEF Underway, Pass, Configured, AfterHealth, AfterExec, AfterOps, AfterSpan,
                      AfterStrong, AfterPrimary, AfterFresh, Up
  <2> QED
    BY <1>1, <1>3, <2>1, PassOn DEF Links
<1>4. CASE Decide("health.both_unavailable", "NONE", pinned) /\ \A s \in Sources : ~Up(s)
  <2>1. RefusalJustified'
    BY <1>1, <1>4 DEF RefusalJustified, Up
  <2> QED
    BY <1>1, <1>2, <1>4, <2>1, Settle DEF Includes, Sources
<1> QED
  BY <1>3, <1>4 DEF ruleBothUnavailable

LEMMA ExecOnlyGood == ASSUME Inv, ruleFieldsExecOnly PROVE Inv'
<1>1. /\ link = "execution_only" /\ Underway /\ UNCHANGED <<inputs, fresh>>
      /\ req' = req /\ rule' = rule /\ defs' = defs /\ pinned \in BOOLEAN
      /\ preferred \in Kinds /\ fallback \in Kinds
  BY DEF ruleFieldsExecOnly, Inv, inputs
<1>2. fresh' = Unmeasured
  BY <1>1 DEF Underway, AfterHealth, AfterExec, AfterOps, AfterSpan, AfterStrong,
              AfterPrimary, AfterFresh
<1>3. CASE /\ ~ExclusiveTo(req.fields, "EXECUTION") /\ Pass("operational_only")
           /\ UNCHANGED <<preferred, fallback, pinned>>
  <2>1. Underway'
    BY <1>1, <1>3 DEF Underway, Pass, Configured, AfterHealth, AfterExec, AfterOps, AfterSpan,
                      AfterStrong, AfterPrimary, AfterFresh, Up
  <2> QED
    BY <1>1, <1>3, <2>1, PassOn DEF Links
<1>4. CASE /\ ExclusiveTo(req.fields, "EXECUTION") /\ ~Up("EXECUTION")
           /\ Decide("fields.execution_only", "NONE", pinned)
           /\ UNCHANGED <<preferred, fallback, pinned>>
  <2>1. RefusalJustified'
    BY <1>1, <1>4 DEF RefusalJustified, Up, Sources
  <2> QED
    BY <1>1, <1>2, <1>4, <2>1, Settle DEF Includes, Sources
<1>5. CASE /\ ExclusiveTo(req.fields, "EXECUTION") /\ Up("EXECUTION")
           /\ preferred' = "EXECUTION" /\ fallback' = "NONE" /\ pinned' = TRUE
           /\ Decide("fields.execution_only", "EXECUTION", TRUE)
  <2>1. RefusalJustified'
    BY <1>1, <1>5, DecideFields DEF RefusalJustified
  <2>2. ~ExclusiveTo(req.fields, "OPERATIONAL")
    BY <1>5, OneExclusive
  <2> QED
    BY <1>1, <1>2, <1>5, <2>1, <2>2, Settle DEF Includes, Sources, Kinds
<1> QED
  BY <1>3, <1>4, <1>5 DEF ruleFieldsExecOnly

LEMMA OpsOnlyGood == ASSUME Inv, ruleFieldsOpsOnly PROVE Inv'
<1>1. /\ link = "operational_only" /\ Underway /\ UNCHANGED <<inputs, fresh>>
      /\ req' = req /\ rule' = rule /\ defs' = defs /\ pinned \in BOOLEAN
      /\ preferred \in Kinds /\ fallback \in Kinds /\ ~ExclusiveTo(req.fields, "EXECUTION")
  BY DEF ruleFieldsOpsOnly, Inv, inputs, Underway, AfterExec, AfterHealth
<1>2. fresh' = Unmeasured
  BY <1>1 DEF Underway, AfterHealth, AfterExec, AfterOps, AfterSpan, AfterStrong,
              AfterPrimary, AfterFresh
<1>3. CASE /\ ~ExclusiveTo(req.fields, "OPERATIONAL") /\ Pass("span_both")
           /\ UNCHANGED <<preferred, fallback, pinned>>
  <2>1. Underway'
    BY <1>1, <1>3 DEF Underway, Pass, Configured, AfterHealth, AfterExec, AfterOps, AfterSpan,
                      AfterStrong, AfterPrimary, AfterFresh, Up
  <2> QED
    BY <1>1, <1>3, <2>1, PassOn DEF Links
<1>4. CASE /\ ExclusiveTo(req.fields, "OPERATIONAL") /\ ~Up("OPERATIONAL")
           /\ Decide("fields.operational_only", "NONE", pinned)
           /\ UNCHANGED <<preferred, fallback, pinned>>
  <2>1. RefusalJustified'
    BY <1>1, <1>4 DEF RefusalJustified, Up, Sources
  <2> QED
    BY <1>1, <1>2, <1>4, <2>1, Settle DEF Includes, Sources
<1>5. CASE /\ ExclusiveTo(req.fields, "OPERATIONAL") /\ Up("OPERATIONAL")
           /\ preferred' = "OPERATIONAL" /\ fallback' = "NONE" /\ pinned' = TRUE
           /\ Pass("span_both")
  <2>1. Pinned'
    BY <1>1, <1>5 DEF Pinned, Up
  <2>2. Underway'
    BY <1>1, <1>5, <2>1 DEF Underway, Pass, AfterHealth, AfterExec, AfterOps, AfterSpan,
                      AfterStrong, AfterPrimary, AfterFresh, Up
  <2> QED
    BY <1>1, <1>5, <2>2 DEF Inv, InputsOK, Pass, Links, Kinds, Sources
<1> QED
  BY <1>3, <1>4, <1>5 DEF ruleFieldsOpsOnly


\* What holds once the field rules have let a request pass.
LEMMA Shape ==
  ASSUME Inv, link \in AfterOps
  PROVE  /\ Underway /\ InputsOK /\ ~ExclusiveTo(req.fields, "EXECUTION")
         /\ Up("OPERATIONAL") \/ Up("EXECUTION")
         /\ ~Up("NONE") /\ ~Up("CACHE")
         /\ preferred \in Kinds /\ fallback \in Kinds /\ pinned \in BOOLEAN
         /\ \/ /\ preferred = "OPERATIONAL" /\ fallback = "NONE" /\ pinned = TRUE
               /\ Up("OPERATIONAL") /\ ExclusiveTo(req.fields, "OPERATIONAL")
            \/ /\ preferred = ParseSourceKind(rule.preferred)
               /\ fallback = ParseSourceKind(rule.fallback)
               /\ pinned = FALSE /\ ~ExclusiveTo(req.fields, "OPERATIONAL")
         /\ link \in AfterSpan => SourcesFor(req.fields) # Sources
<1>1. link # "decided" /\ link \in AfterExec /\ link \in AfterHealth
  BY DEF AfterOps, AfterExec, AfterHealth
<1>2. Underway /\ InputsOK /\ preferred \in Kinds /\ fallback \in Kinds /\ pinned \in BOOLEAN
  BY <1>1 DEF Inv
<1>3. ~Up("NONE") /\ ~Up("CACHE")
  BY DEF Up, Sources
<1>4. /\ \E s \in Sources : Up(s)
      /\ ~ExclusiveTo(req.fields, "EXECUTION")
      /\ Pinned \/ (Configured /\ ~ExclusiveTo(req.fields, "OPERATIONAL"))
      /\ link \in AfterSpan => SourcesFor(req.fields) # Sources
  BY <1>1, <1>2 DEF Underway
<1>5. Up("OPERATIONAL") \/ Up("EXECUTION")
  BY <1>4 DEF Sources
<1> QED
  BY <1>2, <1>3, <1>4, <1>5 DEF Pinned, Configured

LEMMA SpanBothGood == ASSUME Inv, ruleFieldsSpanBoth PROVE Inv'
<1>0. link = "span_both" /\ link \in AfterOps
  BY DEF ruleFieldsSpanBoth, AfterOps, AfterExec, AfterHealth
<1>1. /\ UNCHANGED <<inputs, preferred, fallback, pinned, fresh>>
      /\ req' = req /\ rule' = rule /\ defs' = defs
  BY DEF ruleFieldsSpanBoth, inputs
<1>2. fresh' = Unmeasured
  BY <1>0, <1>1, Shape DEF Underway, AfterHealth, AfterExec, AfterOps, AfterSpan, AfterStrong,
              AfterPrimary, AfterFresh
<1>3. CASE SourcesFor(req.fields) # Sources /\ Pass("strong")
  <2>1. Underway'
    BY <1>0, <1>1, <1>3, Shape DEF Underway, Pass, Configured, Pinned, AfterHealth, AfterExec,
       AfterOps, AfterSpan, AfterStrong, AfterPrimary, AfterFresh, Up
  <2> QED
    BY <1>0, <1>1, <1>3, <2>1, PassOn DEF Links
<1>4. CASE SourcesFor(req.fields) = Sources /\ Decide("fields.span_both", healthySide, pinned)
  <2>1. ~ExclusiveTo(req.fields, "OPERATIONAL") /\ ~ExclusiveTo(req.fields, "EXECUTION")
    BY <1>4, ExclusiveSource DEF Sources
  <2>2. /\ healthySide \in {"OPERATIONAL", "EXECUTION", "BOTH", "NONE"} /\ healthySide # "NONE"
        /\ \A s \in Sources : Includes(healthySide, s) => Up(s)
    BY <1>0, Shape DEF healthySide, Sources, Includes
  <2>3. RefusalJustified'
    BY <1>0, <1>4, <2>2, Shape, DecideFields DEF RefusalJustified
  <2> QED
    BY <1>0, <1>1, <1>2, <1>4, <2>1, <2>2, <2>3, Shape, Settle DEF Sources
<1> QED
  BY <1>3, <1>4 DEF ruleFieldsSpanBoth

LEMMA StrongGood == ASSUME Inv, ruleStrongConsistency PROVE Inv'
<1>0. link = "strong" /\ link \in AfterOps /\ link \in AfterSpan
  BY DEF ruleStrongConsistency, AfterOps, AfterExec, AfterHealth, AfterSpan
<1>1. /\ UNCHANGED <<inputs, preferred, fallback, pinned, fresh>>
      /\ req' = req /\ rule' = rule /\ defs' = defs
  BY DEF ruleStrongConsistency, inputs
<1>2. fresh' = Unmeasured
  BY <1>0, <1>1, Shape DEF Underway, AfterHealth, AfterExec, AfterOps, AfterSpan, AfterStrong,
              AfterPrimary, AfterFresh
<1>3. CASE ~strong /\ Pass("primary_unavailable")
  <2>1. Underway'
    BY <1>0, <1>1, <1>3, Shape DEF Underway, Pass, Configured, Pinned, AfterHealth, AfterExec,
       AfterOps, AfterSpan, AfterStrong, AfterPrimary, AfterFresh, Up, strong
  <2> QED
    BY <1>0, <1>1, <1>3, <2>1, PassOn DEF Links
<1> DEFINE wanted == IF preferred = "NONE" THEN "OPERATIONAL" ELSE preferred
           target == IF Up(wanted) THEN wanted ELSE "NONE"
<1>4. CASE strong /\ Decide("consistency.strong_requires_operational", target, pinned)
  <2>1. target \in {"OPERATIONAL", "EXECUTION", "BOTH", "NONE"} /\ target # "BOTH"
        /\ (target # "NONE" => target = wanted)
        /\ \A s \in Sources : Includes(target, s) => Up(s)
    BY <1>0, Shape DEF Kinds, Sources, Includes
  <2>2. RefusalJustified'
    <3>1. decision'.target = target
      BY <1>0, <1>4, <2>1, Shape, DecideFields
    <3>2. target = "NONE" => ~Up(wanted)
      BY <1>0, Shape
    <3>3. strongTarget' = wanted /\ (Up(strongTarget)' <=> Up(wanted)) /\ strong'
      BY <1>1, <1>4 DEF strongTarget, strong, Up
    <3> QED
      BY <3>1, <3>2, <3>3 DEF RefusalJustified
  <2>3. \A s \in Sources : ExclusiveTo(req.fields, s) /\ target # "NONE" => target = s /\ pinned
    BY <1>0, <2>1, Shape DEF Sources
  <2>4. SourcesFor(req.fields) # Sources /\ preferred' = preferred /\ fallback' = fallback
        /\ pinned' = pinned /\ preferred \in Kinds /\ fallback \in Kinds /\ pinned \in BOOLEAN
    BY <1>0, <1>1, Shape
  <2> HIDE DEF target
  <2> QED
    BY <1>1, <1>2, <1>4, <2>1, <2>2, <2>3, <2>4, Settle
<1> QED
  BY <1>3, <1>4 DEF ruleStrongConsistency

LEMMA PrimaryUnavailableGood == ASSUME Inv, rulePrimaryUnavailable PROVE Inv'
<1>0. link = "primary_unavailable" /\ link \in AfterOps /\ link \in AfterSpan /\ link \in AfterStrong
  BY DEF rulePrimaryUnavailable, AfterOps, AfterExec, AfterHealth, AfterSpan, AfterStrong
<1>1. /\ UNCHANGED <<inputs, preferred, fallback, pinned, fresh>>
      /\ req' = req /\ rule' = rule /\ defs' = defs
  BY DEF rulePrimaryUnavailable, inputs
<1>2. fresh' = Unmeasured /\ ~strong
  BY <1>0, <1>1, Shape DEF Underway, AfterHealth, AfterExec, AfterOps, AfterSpan, AfterStrong,
              AfterPrimary, AfterFresh
<1>3. CASE /\ (preferred = "NONE" /\ ~prefersBoth) \/ preferredHealthy
           /\ Pass("ttl_fresh")
  <2>1. Underway'
    BY <1>0, <1>1, <1>2, <1>3, Shape DEF Underway, Pass, Configured, Pinned, AfterHealth,
       AfterExec, AfterOps, AfterSpan, AfterStrong, AfterPrimary, AfterFresh, Up, strong,
       prefersBoth, preferredHealthy
  <2> QED
    BY <1>0, <1>1, <1>3, <2>1, PassOn DEF Links
<1> DEFINE target == IF Up(fallback) THEN targetFor(fallback)
                     ELSE IF prefersBoth THEN healthySide ELSE "NONE"
<1>4. CASE /\ ~((preferred = "NONE" /\ ~prefersBoth) \/ preferredHealthy)
           /\ Decide("health.primary_unavailable", target, pinned)
  <2>0. /\ rule.preferred \in {"OPERATIONAL", "EXECUTION", "BOTH"}
        /\ rule.fallback \in {"OPERATIONAL", "EXECUTION", "NONE"}
    BY <1>0, Shape, InputFields
  <2>1. /\ target \in {"OPERATIONAL", "EXECUTION", "NONE"}
        /\ \A s \in Sources : Includes(target, s) => Up(s)
        /\ target # "NONE" => ~Up(otherThan(target)) /\ otherThan(target) \in Sources
        /\ target = "NONE" => ~prefersBoth /\ ~Up(preferred) /\ ~Up(fallback)
        /\ \A s \in Sources : ExclusiveTo(req.fields, s) /\ target # "NONE" => target = s /\ pinned
    BY <1>0, <1>4, <2>0, Shape DEF Kinds, Sources, Includes, targetFor, healthySide, prefersBoth,
                            preferredHealthy, otherThan, ParseSourceKind
  <2>2. decision'.target = target
    BY <1>0, <1>4, <2>1, Shape, DecideFields
  <2>3. /\ prefersBoth' = prefersBoth /\ Up(preferred)' = Up(preferred)
        /\ Up(fallback)' = Up(fallback)
    BY <1>1 DEF prefersBoth, Up
  <2> HIDE DEF target
  <2>4. RefusalJustified'
    BY <1>1, <2>1, <2>2, <2>3 DEF RefusalJustified
  <2>5. SourcesFor(req.fields) # Sources /\ preferred' = preferred /\ fallback' = fallback
        /\ pinned' = pinned /\ preferred \in Kinds /\ fallback \in Kinds /\ pinned \in BOOLEAN
    BY <1>0, <1>1, Shape
  <2> QED
    BY <1>1, <1>2, <1>4, <2>1, <2>4, <2>5, Settle
<1> QED
  BY <1>3, <1>4 DEF rulePrimaryUnavailable


\* What holds once the health rules have let a request pass.
LEMMA LateShape ==
  ASSUME Inv, link \in AfterPrimary
  PROVE  /\ link \in AfterOps /\ ~strong /\ SourcesFor(req.fields) # Sources
         /\ (preferred = "NONE" /\ ~prefersBoth) \/ preferredHealthy
         /\ rule.preferred \in {"OPERATIONAL", "EXECUTION", "BOTH"}
         /\ preferred = "OPERATIONAL" => Up("OPERATIONAL")
         /\ preferred # "OPERATIONAL" => Includes(rule.preferred, "EXECUTION") /\ Up("EXECUTION")
         /\ preferred # "OPERATIONAL" /\ Includes(rule.preferred, "OPERATIONAL") => Up("OPERATIONAL")
<1>1. link \in AfterOps /\ link \in AfterSpan /\ link \in AfterStrong
  BY DEF AfterPrimary, AfterStrong, AfterSpan, AfterOps
<1>2. /\ ~strong /\ SourcesFor(req.fields) # Sources
      /\ (preferred = "NONE" /\ ~prefersBoth) \/ preferredHealthy
  BY <1>1, Shape DEF Underway
<1>3. rule.preferred \in {"OPERATIONAL", "EXECUTION", "BOTH"}
  BY <1>1, Shape, InputFields
<1>4. /\ preferred = "OPERATIONAL" => Up("OPERATIONAL")
      /\ preferred # "OPERATIONAL" => Includes(rule.preferred, "EXECUTION") /\ Up("EXECUTION")
      /\ preferred # "OPERATIONAL" /\ Includes(rule.preferred, "OPERATIONAL") => Up("OPERATIONAL")
  BY <1>1, <1>2, <1>3, Shape DEF preferredHealthy, prefersBoth, Sources, ParseSourceKind, Includes
<1> QED
  BY <1>1, <1>2, <1>3, <1>4

LEMMA TTLFreshGood == ASSUME Inv, ruleTTLFresh PROVE Inv'
<1>0. link = "ttl_fresh" /\ link \in AfterOps /\ link \in AfterPrimary
  BY DEF ruleTTLFresh, AfterOps, AfterExec, AfterHealth, AfterSpan, AfterStrong, AfterPrimary
<1>1. /\ UNCHANGED <<inputs, preferred, fallback, pinned>>
      /\ req' = req /\ rule' = rule /\ defs' = defs
  BY DEF ruleTTLFresh, inputs
<1>2. fresh = Unmeasured
  BY <1>0, Shape DEF Underway, AfterHealth, AfterExec, AfterOps, AfterSpan, AfterStrong,
              AfterPrimary, AfterFresh
<1>3. ASSUME Pass("ttl_stale"),
             preferred # "OPERATIONAL" => fresh' = Unmeasured,
             preferred = "OPERATIONAL" => Measured(fresh') /\ fresh'.state \in {"STALE", "UNKNOWN"}
      PROVE  Inv'
  <2>1. Measured(fresh)' <=> Measured(fresh')
    BY <1>1 DEF Measured
  <2>2. Underway'
    BY <1>0, <1>1, <1>3, <2>1, Shape, LateShape DEF Underway, Pass, Configured, Pinned,
       AfterHealth, AfterExec, AfterOps, AfterSpan, AfterStrong, AfterPrimary, AfterFresh, Up,
       strong, prefersBoth, preferredHealthy
  <2> QED
    BY <1>0, <1>1, <1>3, <2>2, Shape DEF Inv, InputsOK, Pass, Links
<1>4. CASE preferred # "OPERATIONAL" /\ Pass("ttl_stale") /\ UNCHANGED fresh
  BY <1>2, <1>3, <1>4
<1>5. ASSUME preferred = "OPERATIONAL", NEW v \in Verdicts, fresh' = v,
             IF v.state = "FRESH" THEN Decide("ttl.operational.fresh", "OPERATIONAL", pinned)
                                  ELSE Pass("ttl_stale")
      PROVE  Inv'
  <2>1. Measured(v)
    BY <1>0, Shape, VerdictsGood
  <2>2. CASE v.state = "FRESH"
    <3>1. Decide("ttl.operational.fresh", "OPERATIONAL", pinned) /\ fresh'.state = "FRESH"
      BY <1>5, <2>2
    <3>2. RefusalJustified'
      BY <1>0, <3>1, Shape, DecideFields DEF RefusalJustified
    <3>3. \A s \in Sources : Includes("OPERATIONAL", s) => Up(s)
      BY <1>0, <1>5, LateShape DEF Includes, Sources
    <3>4. \A s \in Sources : ExclusiveTo(req.fields, s) => "OPERATIONAL" = s /\ pinned
      BY <1>0, Shape DEF Sources
    <3>5. ~strong /\ preferred' \in Kinds /\ fallback' \in Kinds /\ pinned' \in BOOLEAN
          /\ pinned \in BOOLEAN
      BY <1>0, <1>1, Shape, LateShape
    <3> QED
      BY <1>1, <3>1, <3>2, <3>3, <3>4, <3>5, Settle
  <2>3. CASE v.state # "FRESH"
    BY <1>3, <1>5, <2>1, <2>3 DEF Measured
  <2> QED
    BY <2>2, <2>3
<1> QED
  BY <1>4, <1>5 DEF ruleTTLFresh

LEMMA TTLStaleGood == ASSUME Inv, ruleTTLStale PROVE Inv'
<1>0. link = "ttl_stale" /\ link \in AfterOps /\ link \in AfterPrimary /\ link \in AfterFresh
  BY DEF ruleTTLStale, AfterOps, AfterExec, AfterHealth, AfterSpan, AfterStrong, AfterPrimary,
         AfterFresh
<1>1. /\ UNCHANGED <<inputs, preferred, fallback, pinned, fresh>>
      /\ req' = req /\ rule' = rule /\ defs' = defs
  BY DEF ruleTTLStale, inputs
<1>2. /\ preferred # "OPERATIONAL" => fresh = Unmeasured
      /\ preferred = "OPERATIONAL" => Measured(fresh) /\ fresh.state \in {"STALE", "UNKNOWN"}
  BY <1>0, Shape DEF Underway
<1>3. CASE (preferred # "OPERATIONAL" \/ fresh.state # "STALE") /\ Pass("ttl_unknown")
  <2>1. Measured(fresh)' <=> Measured(fresh)
    BY <1>1 DEF Measured
  <2>2. Underway'
    BY <1>0, <1>1, <1>2, <1>3, <2>1, Shape, LateShape DEF Underway, Pass, Configured, Pinned,
       AfterHealth, AfterExec, AfterOps, AfterSpan, AfterStrong, AfterPrimary, AfterFresh, Up,
       strong, prefersBoth, preferredHealthy
  <2> QED
    BY <1>0, <1>1, <1>3, <2>2, PassOn DEF Links
<1> DEFINE target == IF Up(fallback) THEN targetFor(fallback)
                     ELSE IF allowStale /\ ~beyondCeiling /\ Up("OPERATIONAL") THEN "OPERATIONAL"
                     ELSE "NONE"
<1>4. CASE /\ preferred = "OPERATIONAL" /\ fresh.state = "STALE"
           /\ Decide("ttl.operational.stale", target, pinned)
  <2>0. /\ rule.fallback \in {"OPERATIONAL", "EXECUTION", "NONE"}
        /\ rule.ttl \in Nat /\ rule.maxStale \in Nat /\ defs.maxStale \in Nat
        /\ Up("OPERATIONAL") /\ Measured(fresh)
    BY <1>0, <1>2, <1>4, Shape, LateShape, InputFields
  <2>1. /\ target \in {"OPERATIONAL", "EXECUTION", "NONE"}
        /\ \A s \in Sources : Includes(target, s) => Up(s)
        /\ target = "NONE" => ~Up(fallback) /\ (~allowStale \/ beyondCeiling)
        /\ target = "OPERATIONAL" => (allowStale /\ ~beyondCeiling) \/ fallback = "OPERATIONAL"
        /\ \A s \in Sources : ExclusiveTo(req.fields, s) /\ target # "NONE" => target = s /\ pinned
    BY <1>0, <1>4, <2>0, Shape DEF Kinds, Sources, Includes, targetFor, ParseSourceKind
  <2>2. decision'.target = target /\ fresh' = fresh
    BY <1>0, <1>1, <1>4, <2>1, Shape, DecideFields
  <2>3. /\ allowStale' = allowStale /\ beyondCeiling' = beyondCeiling
        /\ Up(fallback)' = Up(fallback)
    BY <1>1 DEF allowStale, beyondCeiling, maxStale, strong, Up
  <2>4. ~beyondCeiling => (maxStale > 0 => fresh.measured /\ fresh.age <= maxStale)
    <3>1. fresh.age \in Nat /\ maxStale \in Nat
      BY <2>0 DEF Measured, maxStale
    <3>2. ~beyondCeiling /\ maxStale > 0 => rule.ttl > 0 /\ fresh.age <= maxStale
      BY <2>0, <3>1 DEF beyondCeiling
    <3>3. rule.ttl > 0 => ~(rule.ttl <= 0)
      BY <2>0
    <3>4. rule.ttl > 0 => fresh.measured
      BY <1>4, <2>0, <3>3 DEF Measured
    <3> QED
      BY <3>2, <3>4
  <2> HIDE DEF target
  <2>5. fresh # Unmeasured
    <3>1. Unmeasured.state = "todo"
      BY DEF Unmeasured
    <3> QED
      BY <1>4, <3>1
  <2>6. RefusalJustified'
    BY <1>4, <2>1, <2>2, <2>3, <2>5 DEF RefusalJustified
  <2>7. /\ ~strong /\ preferred' \in Kinds /\ fallback' \in Kinds /\ pinned' \in BOOLEAN
        /\ pinned \in BOOLEAN /\ fallback' = fallback
    BY <1>0, <1>1, Shape, LateShape
  <2>8. target = "OPERATIONAL" =>
          \/ allowStale /\ (maxStale > 0 => fresh'.measured /\ fresh'.age <= maxStale)
          \/ fallback' = "OPERATIONAL"
    BY <2>1, <2>2, <2>4, <2>7
  <2> QED
    BY <1>1, <1>4, <2>1, <2>6, <2>7, <2>8, Settle
<1> QED
  BY <1>3, <1>4 DEF ruleTTLStale

LEMMA TTLUnknownGood == ASSUME Inv, ruleTTLUnknown PROVE Inv'
<1>0. link = "ttl_unknown" /\ link \in AfterOps /\ link \in AfterPrimary /\ link \in AfterFresh
  BY DEF ruleTTLUnknown, AfterOps, AfterExec, AfterHealth, AfterSpan, AfterStrong, AfterPrimary,
         AfterFresh
<1>1. /\ UNCHANGED <<inputs, preferred, fallback, pinned, fresh>>
      /\ req' = req /\ rule' = rule /\ defs' = defs
  BY DEF ruleTTLUnknown, inputs
<1>2. /\ preferred # "OPERATIONAL" => fresh = Unmeasured
      /\ preferred = "OPERATIONAL" => fresh.state = "UNKNOWN"
  BY <1>0, Shape DEF Underway
<1>3. CASE (preferred # "OPERATIONAL" \/ fresh.state # "UNKNOWN") /\ Pass("default")
  <2>1. preferred # "OPERATIONAL"
    BY <1>2, <1>3
  <2>2. Underway'
    BY <1>0, <1>1, <1>2, <1>3, <2>1, Shape, LateShape DEF Underway, Pass, Configured, Pinned,
       AfterHealth, AfterExec, AfterOps, AfterSpan, AfterStrong, AfterPrimary, AfterFresh, Up,
       strong, prefersBoth, preferredHealthy
  <2> QED
    BY <1>0, <1>1, <1>3, <2>2, PassOn DEF Links
<1> DEFINE target == IF defs.onUnknown = "NONE" THEN "NONE"
                     ELSE IF Up(unknownChoice) THEN targetFor(unknownChoice)
                     ELSE IF ~pinned /\ Up(otherSource(unknownChoice))
                            THEN targetFor(otherSource(unknownChoice))
                     ELSE "NONE"
<1>4. CASE /\ preferred = "OPERATIONAL" /\ fresh.state = "UNKNOWN"
           /\ Decide("ttl.unknown_freshness", target, pinned)
  <2>0. /\ defs.onUnknown \in {"OPERATIONAL", "EXECUTION", "NONE", "CACHE", "unparseable"}
        /\ Up("OPERATIONAL")
    BY <1>0, <1>4, Shape, LateShape, InputFields
  <2>1. /\ target \in {"OPERATIONAL", "EXECUTION", "NONE"}
        /\ \A s \in Sources : Includes(target, s) => Up(s)
        /\ target = "NONE" => \/ defs.onUnknown = "NONE"
                              \/ defs.onUnknown = "CACHE" /\ ~pinned /\ ~Up("EXECUTION")
        /\ \A s \in Sources : ExclusiveTo(req.fields, s) /\ target # "NONE" => target = s /\ pinned
    BY <1>0, <1>4, <2>0, Shape DEF Kinds, Sources, Includes, targetFor, unknownChoice, otherSource
  <2>2. decision'.target = target /\ fresh' = fresh
    BY <1>0, <1>1, <1>4, <2>1, Shape, DecideFields
  <2> HIDE DEF target
  <2>3. fresh # Unmeasured
    <3>1. Unmeasured.state = "todo"
      BY DEF Unmeasured
    <3> QED
      BY <1>4, <3>1
  <2>4. RefusalJustified'
    <3>1. Up("EXECUTION")' = Up("EXECUTION")
      BY <1>1 DEF Up
    <3> QED
      BY <1>1, <1>4, <2>1, <2>2, <2>3, <3>1 DEF RefusalJustified
  <2>5. /\ ~strong /\ preferred' \in Kinds /\ fallback' \in Kinds /\ pinned' \in BOOLEAN
        /\ pinned \in BOOLEAN /\ fresh'.state = "UNKNOWN"
    BY <1>0, <1>1, <1>4, Shape, LateShape
  <2> QED
    BY <1>1, <1>4, <2>1, <2>4, <2>5, Settle
<1> QED
  BY <1>3, <1>4 DEF ruleTTLUnknown

LEMMA DefaultGood == ASSUME Inv, ruleDefaultPreferred PROVE Inv'
<1>0. link = "default" /\ link \in AfterOps /\ link \in AfterPrimary /\ link \in AfterFresh
  BY DEF ruleDefaultPreferred, AfterOps, AfterExec, AfterHealth, AfterSpan, AfterStrong,
         AfterPrimary, AfterFresh
<1>1. /\ UNCHANGED <<inputs, preferred, fallback, pinned, fresh>>
      /\ req' = req /\ rule' = rule /\ defs' = defs
      /\ Decide("default.preferred_source", rule.preferred, pinned)
  BY DEF ruleDefaultPreferred, inputs
<1>2. preferred # "OPERATIONAL" /\ fresh' = Unmeasured
  BY <1>0, <1>1, Shape DEF Underway
<1>3. /\ rule.preferred \in {"OPERATIONAL", "EXECUTION", "BOTH"}
      /\ \A s \in Sources : Includes(rule.preferred, s) => Up(s)
      /\ \A s \in Sources : ~ExclusiveTo(req.fields, s)
  BY <1>0, <1>2, Shape, LateShape DEF Sources, Includes
<1>4. RefusalJustified'
  BY <1>0, <1>1, <1>3, Shape, DecideFields DEF RefusalJustified
<1>5. /\ ~strong /\ preferred' \in Kinds /\ fallback' \in Kinds /\ pinned' \in BOOLEAN
      /\ pinned \in BOOLEAN
  BY <1>0, <1>1, Shape, LateShape
<1> QED
  BY <1>1, <1>2, <1>3, <1>4, <1>5, Settle

-----------------------------------------------------------------------------

LEMMA InvInit == Init => Inv
<1> SUFFICES ASSUME Init PROVE Inv
  OBVIOUS
<1>1. InputsOK /\ link = "resolve"
  BY DEF Init, InputsOK
<1>2. Underway
  BY <1>1 DEF Init, Underway, Configured, AfterHealth, AfterExec, AfterOps, AfterSpan,
              AfterStrong, AfterPrimary, AfterFresh
<1>3. preferred \in Kinds /\ fallback \in Kinds /\ pinned \in BOOLEAN
  BY DEF Init, ParseSourceKind, Kinds, Sources
<1> QED
  BY <1>1, <1>2, <1>3 DEF Inv, Links

LEMMA InvNext == Inv /\ [Next]_vars => Inv'
<1> SUFFICES ASSUME Inv, [Next]_vars PROVE Inv'
  OBVIOUS
<1>1. CASE UNCHANGED vars
  <2>1. /\ req' = req /\ rule' = rule /\ defs' = defs /\ link' = link /\ preferred' = preferred
        /\ fallback' = fallback /\ pinned' = pinned /\ fresh' = fresh /\ decision' = decision
    BY <1>1 DEF vars
  <2>2. InputsOK' <=> InputsOK
    BY <2>1 DEF InputsOK
  <2>3. Underway' <=> Underway
    BY <2>1 DEF Underway, Configured, Pinned, Measured, Up, strong, prefersBoth, preferredHealthy
  <2>4. Settled' <=> Settled
    BY <2>1 DEF Settled, StaleWithinCeiling, StrongIsLive, RefusalJustified, MeetsContract,
                Decided, Up, strong, strongTarget, allowStale, maxStale, beyondCeiling,
                prefersBoth
  <2> QED
    BY <2>1, <2>2, <2>3, <2>4 DEF Inv
<1> QED
  BY <1>1, ResolveGood, TenantMissingGood, BothUnavailableGood, ExecOnlyGood, OpsOnlyGood,
     SpanBothGood, StrongGood, PrimaryUnavailableGood, TTLFreshGood, TTLStaleGood,
     TTLUnknownGood, DefaultGood DEF Next

LEMMA InvAlways == Spec => []Inv
  BY InvInit, InvNext, PTL DEF Spec

-----------------------------------------------------------------------------

\* A link of the chain at a time, the parsed kinds, and a decision exactly when
\* a rule has handled the request.
THEOREM TypeCorrect == Spec => []TypeOK
<1>1. Inv => TypeOK
  BY DEF Inv, InputsOK, Underway, Settled, TypeOK
<1> QED
  BY <1>1, InvAlways, PTL

\* For every catalogue, rule and ceiling: a record measured beyond its ttl is
\* read from the operational source only when that is permitted and within the
\* ceiling, unless the fallback itself is that source (ruleTTLStale).
THEOREM StaleReadsStayWithinTheCeiling == Spec => []StaleWithinCeiling
<1>1. Inv => StaleWithinCeiling
  BY DEF Inv, Settled, StaleWithinCeiling, Decided
<1> QED
  BY <1>1, InvAlways, PTL

\* Strong consistency never comes by way of the TTL rules or of the configured
\* fallback, and never carries a stale allowance (ruleStrongConsistency).
THEOREM StrongReadsAreLive == Spec => []StrongIsLive
<1>1. Inv => StrongIsLive
  BY DEF Inv, Settled, StrongIsLive, Decided
<1> QED
  BY <1>1, InvAlways, PTL

\* The chain answers NONE with a healthy source only for one of the five reasons
\* RefusalJustified lists, or in its one exception: a record of unknown freshness
\* with on_unknown_freshness "cache" and the execution source down
\* (ruleTTLUnknown).
THEOREM RefusalsAreJustified == Spec => []RefusalJustified
<1>1. Inv => RefusalJustified
  BY DEF Inv, Settled, RefusalJustified, Decided
<1> QED
  BY <1>1, InvAlways, PTL

\* Every decision is one the application service may rely on: what Service
\* assumes of a decision, the router delivers.
THEOREM ContractIsMet == Spec => []MeetsContract
<1>1. Inv => MeetsContract
  BY DEF Inv, Settled, MeetsContract, Decided
<1> QED
  BY <1>1, InvAlways, PTL

=============================================================================
