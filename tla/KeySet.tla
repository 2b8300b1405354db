--------------------------------- MODULE KeySet ---------------------------------
(***************************************************************************)
(* The keys tokens are verified with: JWKSKeyProvider                       *)
(* (internal/security/auth.go) and the keys it can parse (jwk.go).          *)
(*                                                                         *)
(* The set is fetched when it is older than its ttl or a token names a key  *)
(* that is not in it, not more often than minRefreshInterval, and without   *)
(* the lock: requests that come meanwhile are answered from what there is.  *)
(* Which keys the identity provider publishes is the environment's choice;  *)
(* a published key of a kind parseJWK refuses is as good as none.           *)
(***************************************************************************)
EXTENDS Integers, FiniteSets

CONSTANTS
  Kids,          \* key ids
  Verifiers,     \* request goroutines inside Key
  KeyTTL,        \* ttl
  MinRefresh,    \* minRefreshInterval
  FetchTimeout,  \* the deadline of a fetch
  MaxMoment      \* bound: the last instant of a behaviour

\* 5 and 30 seconds in the code.
ASSUME KeyAssumption ==
  /\ KeyTTL \in Nat /\ MinRefresh \in Nat /\ FetchTimeout \in Nat /\ MaxMoment \in Nat
  /\ FetchTimeout < MinRefresh

VARIABLES
  moment,       \* the clock
  published,    \* the keys the identity provider publishes
  changed,      \* history: per key, when it was last published or withdrawn
  keys,         \* p.keys
  fetchedAt,    \* p.fetchedAt
  lastAttempt,  \* p.lastAttempt
  failed,       \* history: the last fetch that ended has failed
  verifier,     \* the calls of Key under way
  answer        \* what the last step told its caller, if it did

keyVars == <<moment, published, changed, keys, fetchedAt, lastAttempt, failed, verifier, answer>>

Quiet == [kind |-> "none"]
Away == [pc |-> "idle"]
LongAgo == -(KeyTTL + MinRefresh + 1)     \* Go's zero time

KeyInit ==
  /\ moment = 0
  /\ published \in (SUBSET Kids) \ {{}}
  /\ changed = [k \in Kids |-> LongAgo]
  /\ keys = {}
  /\ fetchedAt = LongAgo
  /\ lastAttempt = LongAgo
  /\ failed = FALSE
  /\ verifier = [v \in Verifiers |-> Away]
  /\ answer = Quiet

Accept(k) == [kind |-> "accepted", kid |-> k]
Refuse(k, throttled) == [kind |-> "refused", kid |-> k, throttled |-> throttled]
Returns(v, what) == /\ verifier' = [verifier EXCEPT ![v] = Away]
                    /\ answer' = what
GoesOn(v) == /\ verifier' = [verifier EXCEPT ![v] = [pc |-> "looking", kid |-> @.kid]]
             /\ answer' = Quiet

-----------------------------------------------------------------------------
(* Key                                                                      *)

\* Mutant of stale: a set that was fetched once is good for ever.
staleNever == fetchedAt = LongAgo

stale == moment - fetchedAt > KeyTTL

KnownFresh(v, k) ==
  /\ verifier[v].pc = "idle"
  /\ k \in keys /\ ~stale
  /\ answer' = Accept(k)
  /\ UNCHANGED <<moment, published, changed, keys, fetchedAt, lastAttempt, failed, verifier>>

Look(v, k) ==
  /\ verifier[v].pc = "idle"
  /\ ~(k \in keys /\ ~stale)
  /\ verifier' = [verifier EXCEPT ![v] = [pc |-> "refreshing", kid |-> k, known |-> k \in keys]]
  /\ answer' = Quiet
  /\ UNCHANGED <<moment, published, changed, keys, fetchedAt, lastAttempt, failed>>

\* An error of refresh matters only to a token whose key was not known.
Unrefreshed(v, throttled) ==
  IF verifier[v].known THEN GoesOn(v)
                       ELSE Returns(v, Refuse(verifier[v].kid, throttled))

FinalLook(v) ==
  /\ verifier[v].pc = "looking"
  /\ LET k == verifier[v].kid IN Returns(v, IF k \in keys THEN Accept(k) ELSE Refuse(k, FALSE))
  /\ UNCHANGED <<moment, published, changed, keys, fetchedAt, lastAttempt, failed>>

-----------------------------------------------------------------------------
(* refresh                                                                  *)

Throttled(v) ==
  /\ verifier[v].pc = "refreshing"
  /\ moment - lastAttempt < MinRefresh
  /\ Unrefreshed(v, TRUE)
  /\ UNCHANGED <<moment, published, changed, keys, fetchedAt, lastAttempt, failed>>

StartFetch(v) ==
  /\ verifier[v].pc = "refreshing"
  /\ moment - lastAttempt >= MinRefresh
  /\ verifier' = [verifier EXCEPT ![v] = [pc |-> "fetching", kid |-> @.kid, known |-> @.known,
                                          start |-> moment]]
  /\ answer' = Quiet

\* Mutant of Attempt: the attempt is noted when it has succeeded.
AttemptUnnoted(v) ==
  /\ StartFetch(v)
  /\ UNCHANGED <<moment, published, changed, keys, fetchedAt, lastAttempt, failed>>

\* The attempt is noted before the lock is given up.
Attempt(v) ==
  /\ StartFetch(v)
  /\ lastAttempt' = moment
  /\ UNCHANGED <<moment, published, changed, keys, fetchedAt, failed>>

EndpointAnswers(v) ==
  /\ verifier[v].pc = "fetching"
  /\ published # {}
  /\ verifier' = [verifier EXCEPT ![v] = [pc |-> "fetched", kid |-> @.kid, known |-> @.known,
                                          start |-> @.start, set |-> published]]
  /\ answer' = Quiet
  /\ UNCHANGED <<moment, published, changed, keys, fetchedAt, lastAttempt, failed>>

\* No answer in time, a bad one, or one without a usable key.
FetchFails(v) ==
  /\ verifier[v].pc \in {"fetching", "fetched"}
  /\ failed' = TRUE
  /\ Unrefreshed(v, FALSE)
  /\ UNCHANGED <<moment, published, changed, keys, fetchedAt, lastAttempt>>

Install(v) ==
  /\ verifier[v].pc = "fetched"
  /\ keys' = verifier[v].set
  /\ fetchedAt' = moment
  /\ failed' = FALSE
  /\ GoesOn(v)
  /\ UNCHANGED <<moment, published, changed, lastAttempt>>

-----------------------------------------------------------------------------

\* The identity provider publishes another set of keys.
Rotate(set) ==
  /\ set # published
  /\ published' = set
  /\ changed' = [k \in Kids |-> IF (k \in set) = (k \in published) THEN changed[k] ELSE moment]
  /\ answer' = Quiet
  /\ UNCHANGED <<moment, keys, fetchedAt, lastAttempt, failed, verifier>>

InFlight == {v \in Verifiers : verifier[v].pc \in {"fetching", "fetched"}}

\* Only a fetch takes time.
KeyTick ==
  /\ moment < MaxMoment
  /\ \A v \in Verifiers : verifier[v].pc # "idle" =>
        v \in InFlight /\ moment - verifier[v].start < FetchTimeout
  /\ moment' = moment + 1
  /\ answer' = Quiet
  /\ UNCHANGED <<published, changed, keys, fetchedAt, lastAttempt, failed, verifier>>

KeyNext ==
  \/ \E v \in Verifiers :
       \/ \E k \in Kids : KnownFresh(v, k) \/ Look(v, k)
       \/ Throttled(v) \/ Attempt(v) \/ EndpointAnswers(v) \/ FetchFails(v) \/ Install(v)
       \/ FinalLook(v)
  \/ \E set \in SUBSET Kids : Rotate(set)
  \/ KeyTick

KeySpec == KeyInit /\ [][KeyNext]_keyVars

-----------------------------------------------------------------------------
(* Properties                                                               *)

\* The throttle also serialises: no two fetches are ever under way, so that an
\* older set cannot replace a newer one.
OneFetch == Cardinality(InFlight) <= 1

LongerOf(a, b) == IF a > b THEN a ELSE b

\* While fetches succeed, the verdicts follow the identity provider.  A key it
\* publishes is refused, and one it has withdrawn accepted, for a bounded time
\* only, or while a refresh that another request started is still under way.
\* (A request that is turned away at the instant such a refresh ends may have
\* looked just before.)
KeysFollow ==
  LET since == moment - changed[answer.kid]
  IN  answer # Quiet /\ ~failed /\ InFlight = {} =>
        /\ answer.kind = "refused" /\ answer.kid \in published =>
             since <= MinRefresh + FetchTimeout \/ (answer.throttled /\ fetchedAt = moment)
        /\ answer.kind = "accepted" /\ answer.kid \notin published =>
             since <= LongerOf(KeyTTL, MinRefresh) + FetchTimeout

=============================================================================
