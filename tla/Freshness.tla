------------------------------ MODULE Freshness ------------------------------
(***************************************************************************)
(* The freshness calculation (internal/freshness/freshness.go, and          *)
(* Entry.EffectiveFreshness of internal/cache/cache.go): a TTL applied to an *)
(* observation.  Pure operators; the router, the probe memo and the response *)
(* cache are built on them.                                                 *)
(*                                                                         *)
(* Times are positive integers; NoTime is Go's zero time.                   *)
(***************************************************************************)
EXTENDS Integers

NoTime == 0

\* datasource.Observation, as far as the calculation reads it.
Observation(Times) ==
  [found : BOOLEAN, lastUpdated : Times \cup {NoTime}, sourceTime : Times \cup {NoTime}]

magnitude(d) == IF d < 0 THEN -d ELSE d

\* The clock the age is measured against: the source's own, if it told it.
reference(obs, now) == IF obs.sourceTime = NoTime THEN now ELSE obs.sourceTime

unknownVerdict(skewed) == [state |-> "UNKNOWN", age |-> 0, skewCorrected |-> skewed]

\* Evaluate
Evaluate(obs, ttl, skewTolerance, now) ==
  LET rawAge == reference(obs, now) - obs.lastUpdated
      age    == IF rawAge < 0 THEN 0 ELSE rawAge
      skewed == \/ obs.sourceTime # NoTime /\ magnitude(obs.sourceTime - now) > skewTolerance
                \/ rawAge < 0
  IN  IF ~obs.found \/ obs.lastUpdated = NoTime
        THEN unknownVerdict(FALSE)
        ELSE IF rawAge < -skewTolerance
               THEN unknownVerdict(TRUE)
               ELSE [state |-> IF ttl > 0 /\ age <= ttl THEN "FRESH" ELSE "STALE",
                     age |-> age,
                     skewCorrected |-> skewed]

\* EvaluateFreshness: for a record just read, without the source's clock.
EvaluateFreshness(observedAt, ttl, skewTolerance, now) ==
  Evaluate([found |-> observedAt # NoTime, lastUpdated |-> observedAt, sourceTime |-> NoTime],
           ttl, skewTolerance, now)

\* Entry.EffectiveFreshness: the age it was stored with, plus its time in the
\* cache; a verdict that was never established stays UNKNOWN.
EffectiveFreshness(verdict, ttl, timeInCache) ==
  LET age == verdict.age + timeInCache
  IN  [verdict EXCEPT !.age = age,
                      !.state = IF ttl > 0 /\ @ # "UNKNOWN"
                                  THEN IF age > ttl THEN "STALE" ELSE "FRESH"
                                  ELSE @]

=============================================================================
