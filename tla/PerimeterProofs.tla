---------------------------- MODULE PerimeterProofs ----------------------------
(***************************************************************************)
(* Proofs about what surrounds a request on its way to the application      *)
(* service, for every number of requests, keys and tenants: the keys its    *)
(* token is verified with, the process that serves and drains it, the       *)
(* configuration it reads, and the limiter that lets it through.            *)
(***************************************************************************)
EXTENDS RateLimiter, KeySet, ConfigProvider, Process, FiniteSetTheorems, TLAPS

-----------------------------------------------------------------------------
(* The key set.                                                             *)

\* What a set of keys of an instant lacks or has too many of has changed since.
AsOf(set, at) == \A k \in Kids : (k \in set) # (k \in published) => changed[k] >= at

GoodVerifier(a) ==
  /\ a.pc \in {"idle", "refreshing", "fetching", "fetched", "looking"}
  /\ a.pc # "idle" => a.kid \in Kids
  /\ a.pc = "refreshing" => (a.kid \in keys /\ ~a.known => fetchedAt = moment)
  /\ a.pc \in {"fetching", "fetched"} =>
       a.start = lastAttempt /\ moment - lastAttempt <= FetchTimeout
  /\ a.pc = "fetched" => AsOf(a.set, a.start)
  /\ a.pc = "looking" => moment - lastAttempt < MinRefresh

OneFetcher == \A v, w \in Verifiers : v \in InFlight /\ w \in InFlight => v = w

\* When no fetch is under way and the last one was successful, its keys are in.
Installed == InFlight = {} /\ ~failed => fetchedAt >= lastAttempt

KeyInv ==
  /\ moment \in Int /\ lastAttempt \in Int /\ fetchedAt \in Int
  /\ lastAttempt <= moment /\ fetchedAt <= moment
  /\ changed = [k \in Kids |-> changed[k]] /\ \A k \in Kids : changed[k] \in Int
  /\ verifier = [v \in Verifiers |-> verifier[v]]
  /\ \A v \in Verifiers : GoodVerifier(verifier[v])
  /\ AsOf(keys, fetchedAt - FetchTimeout)
  /\ OneFetcher /\ Installed /\ KeysFollow

LEMMA KeyNumbers ==
  /\ KeyTTL \in Nat /\ MinRefresh \in Nat /\ FetchTimeout \in Nat /\ FetchTimeout < MinRefresh
  /\ LongAgo \in Int /\ LongAgo < 0
  BY KeyAssumption DEF LongAgo

\* A step that answers nobody.
LEMMA QuietFollows == ASSUME answer' = Quiet PROVE KeysFollow'
  BY DEF KeysFollow

\* One call of Key goes on, and touches nothing else but perhaps the history.
LEMMA OneVerifier ==
  ASSUME KeyInv, UNCHANGED <<moment, published, changed, keys, fetchedAt, lastAttempt>>,
         NEW v \in Verifiers, NEW a, verifier' = [verifier EXCEPT ![v] = a], GoodVerifier(a),
         a.pc \in {"fetching", "fetched"} => verifier[v].pc \in {"fetching", "fetched"},
         \/ failed'
         \/ /\ failed' = failed
            /\ verifier[v].pc \in {"fetching", "fetched"} => a.pc \in {"fetching", "fetched"},
         KeysFollow'
  PROVE  KeyInv'
<1>1. verifier' = [w \in Verifiers |-> IF w = v THEN a ELSE verifier[w]]
  BY DEF KeyInv
<1>2. verifier' = [w \in Verifiers |-> verifier'[w]]
  BY <1>1
<1>3. \A w \in Verifiers : GoodVerifier(verifier'[w])
  BY <1>1 DEF KeyInv
<1>4. \A w \in Verifiers : GoodVerifier(verifier[w])'
  BY <1>3 DEF GoodVerifier, AsOf
<1>5. \A w \in Verifiers : w \in InFlight' => w \in InFlight
  BY <1>1 DEF InFlight
<1>6. OneFetcher'
  BY <1>5 DEF OneFetcher, KeyInv
<1>7. Installed'
  <2> SUFFICES ASSUME ~failed', InFlight' = {} PROVE fetchedAt >= lastAttempt
    BY DEF Installed
  <2>1. \A w \in Verifiers : w \in InFlight => w \in InFlight'
    BY <1>1 DEF InFlight
  <2>2. InFlight = {}
    BY <2>1 DEF InFlight
  <2> QED
    BY <2>2 DEF KeyInv, Installed
<1>8. AsOf(keys, fetchedAt - FetchTimeout)'
  BY DEF KeyInv, AsOf
<1> QED
  BY <1>2, <1>4, <1>6, <1>7, <1>8 DEF KeyInv

\* Nothing but the answer changes.
LEMMA OnlyAnswers ==
  ASSUME KeyInv, UNCHANGED <<moment, published, changed, keys, fetchedAt, lastAttempt, failed, verifier>>,
         KeysFollow'
  PROVE  KeyInv'
<1>1. \A w \in Verifiers : GoodVerifier(verifier[w])'
  BY DEF KeyInv, GoodVerifier, AsOf
<1> QED
  BY <1>1 DEF KeyInv, AsOf, OneFetcher, Installed, InFlight

\* A token whose key is in a set that is not stale.
LEMMA KnownFreshGood ==
  ASSUME KeyInv, NEW v \in Verifiers, NEW k \in Kids, KnownFresh(v, k) PROVE KeyInv'
<1>1. /\ k \in keys /\ moment - fetchedAt <= KeyTTL /\ answer' = Accept(k)
      /\ UNCHANGED <<moment, published, changed, keys, fetchedAt, lastAttempt, failed, verifier>>
  BY KeyNumbers DEF KnownFresh, stale, KeyInv
<1>2. answer'.kind = "accepted" /\ answer'.kid = k
  BY <1>1 DEF Accept
<1>3. moment \in Int /\ fetchedAt \in Int /\ changed[k] \in Int
  BY DEF KeyInv
<1>4. k \notin published => changed[k] >= fetchedAt - FetchTimeout
  BY <1>1 DEF KeyInv, AsOf
<1>5. k \notin published => moment - changed[k] <= LongerOf(KeyTTL, MinRefresh) + FetchTimeout
  BY <1>1, <1>3, <1>4, KeyNumbers DEF LongerOf
<1>6. KeysFollow'
  BY <1>1, <1>2, <1>5 DEF KeysFollow
<1> QED
  BY <1>1, <1>6, OnlyAnswers

LEMMA LookGood ==
  ASSUME KeyInv, NEW v \in Verifiers, NEW k \in Kids, Look(v, k) PROVE KeyInv'
<1>1. PICK known : known = (k \in keys)
  OBVIOUS
<1>2. PICK a : a = [pc |-> "refreshing", kid |-> k, known |-> known]
  OBVIOUS
<1>3. /\ verifier' = [verifier EXCEPT ![v] = a] /\ answer' = Quiet
      /\ verifier[v].pc = "idle"
      /\ UNCHANGED <<moment, published, changed, keys, fetchedAt, lastAttempt, failed>>
  BY <1>1, <1>2 DEF Look
<1>4. a.pc = "refreshing" /\ a.kid = k /\ a.known = known
  BY <1>2
<1>5. GoodVerifier(a)
  BY <1>1, <1>4 DEF GoodVerifier
<1> QED
  BY <1>3, <1>4, <1>5, QuietFollows, OneVerifier

LEMMA AwayGood == GoodVerifier(Away) /\ Away.pc = "idle"
  BY DEF GoodVerifier, Away

\* The keys in hand are those of the last fetch, which is recent, unless a fetch
\* is under way or has failed.
LEMMA KeysAreRecent ==
  ASSUME KeyInv, ~failed, InFlight = {}, moment - lastAttempt < MinRefresh,
         NEW k \in Kids, (k \in keys) # (k \in published)
  PROVE  moment - changed[k] <= MinRefresh + FetchTimeout
<1>1. /\ moment \in Int /\ lastAttempt \in Int /\ fetchedAt \in Int /\ changed[k] \in Int
      /\ fetchedAt >= lastAttempt /\ changed[k] >= fetchedAt - FetchTimeout
  BY DEF KeyInv, Installed, AsOf
<1> QED
  BY <1>1, KeyNumbers

\* The last look, after a refresh, or after one that was not needed or not made.
LEMMA FinalLookGood == ASSUME KeyInv, NEW v \in Verifiers, FinalLook(v) PROVE KeyInv'
<1>1. PICK k : k = verifier[v].kid
  OBVIOUS
<1>2. /\ verifier[v].pc = "looking" /\ verifier' = [verifier EXCEPT ![v] = Away]
      /\ answer' = IF k \in keys THEN Accept(k) ELSE Refuse(k, FALSE)
      /\ UNCHANGED <<moment, published, changed, keys, fetchedAt, lastAttempt, failed>>
  BY <1>1 DEF FinalLook, Returns
<1>3. k \in Kids /\ moment - lastAttempt < MinRefresh
  BY <1>1, <1>2 DEF KeyInv, GoodVerifier
<1>4. /\ answer'.kid = k
      /\ answer'.kind = "accepted" => k \in keys
      /\ answer'.kind = "refused" => k \notin keys
  BY <1>2 DEF Accept, Refuse
<1>5. verifier' = [w \in Verifiers |-> IF w = v THEN Away ELSE verifier[w]]
  BY <1>2 DEF KeyInv
<1>6. InFlight' = {} => InFlight = {}
  <2>1. \A w \in Verifiers : w \in InFlight => w \in InFlight'
    BY <1>2, <1>5 DEF InFlight
  <2> QED
    BY <2>1 DEF InFlight
<1>7. moment \in Int /\ changed[k] \in Int
  BY <1>3 DEF KeyInv
<1>8. KeysFollow'
  <2> SUFFICES ASSUME ~failed, InFlight = {}
               PROVE  /\ answer'.kind = "refused" /\ k \in published =>
                           moment - changed[k] <= MinRefresh + FetchTimeout
                      /\ answer'.kind = "accepted" /\ k \notin published =>
                           moment - changed[k] <= LongerOf(KeyTTL, MinRefresh) + FetchTimeout
    BY <1>2, <1>4, <1>6 DEF KeysFollow
  <2>1. (k \in keys) # (k \in published) => moment - changed[k] <= MinRefresh + FetchTimeout
    BY <1>3, KeysAreRecent
  <2>2. MinRefresh + FetchTimeout <= LongerOf(KeyTTL, MinRefresh) + FetchTimeout
        /\ LongerOf(KeyTTL, MinRefresh) \in Int
    BY KeyNumbers DEF LongerOf
  <2> QED
    BY <1>4, <1>7, <2>1, <2>2, KeyNumbers
<1> QED
  BY <1>2, <1>8, AwayGood, OneVerifier

\* A call that was throttled, or whose fetch has failed, looks again at what
\* there is when its key was known.
LEMMA GoesOnGood ==
  ASSUME KeyInv, NEW v \in Verifiers, GoesOn(v), verifier[v].pc # "idle",
         moment - lastAttempt < MinRefresh,
         UNCHANGED <<moment, published, changed, keys, fetchedAt, lastAttempt>>,
         failed' \/ (failed' = failed /\ verifier[v].pc \notin {"fetching", "fetched"})
  PROVE  KeyInv'
<1>1. PICK a : a = [pc |-> "looking", kid |-> verifier[v].kid]
  OBVIOUS
<1>2. verifier' = [verifier EXCEPT ![v] = a] /\ answer' = Quiet
  BY <1>1 DEF GoesOn, KeyInv
<1>3. a.pc = "looking" /\ a.kid = verifier[v].kid
  BY <1>1
<1>4. GoodVerifier(a)
  BY <1>3 DEF GoodVerifier, KeyInv
<1> QED
  BY <1>2, <1>3, <1>4, QuietFollows, OneVerifier

\* Turned away by the throttle: the keys are recent, or have come in since the
\* call looked, at this very instant.
LEMMA ThrottledGood == ASSUME KeyInv, NEW v \in Verifiers, Throttled(v) PROVE KeyInv'
<1>1. /\ verifier[v].pc = "refreshing" /\ moment - lastAttempt < MinRefresh
      /\ UNCHANGED <<moment, published, changed, keys, fetchedAt, lastAttempt, failed>>
  BY DEF Throttled
<1>2. CASE GoesOn(v)
  BY <1>1, <1>2, GoesOnGood
<1>3. CASE ~verifier[v].known /\ Returns(v, Refuse(verifier[v].kid, TRUE))
  <2>1. PICK k : k = verifier[v].kid
    OBVIOUS
  <2>2. verifier' = [verifier EXCEPT ![v] = Away] /\ answer' = Refuse(k, TRUE)
    BY <1>3, <2>1 DEF Returns
  <2>3. answer'.kind = "refused" /\ answer'.kid = k /\ answer'.throttled
    BY <2>2 DEF Refuse
  <2>4. k \in Kids /\ (k \in keys => fetchedAt = moment)
    BY <1>1, <1>3, <2>1 DEF KeyInv, GoodVerifier
  <2>5. verifier' = [w \in Verifiers |-> IF w = v THEN Away ELSE verifier[w]]
    BY <2>2 DEF KeyInv
  <2>6. InFlight' = {} => InFlight = {}
    <3>1. \A w \in Verifiers : w \in InFlight => w \in InFlight'
      BY <1>1, <2>5 DEF InFlight
    <3> QED
      BY <3>1 DEF InFlight
  <2>7. ~failed /\ InFlight = {} /\ k \in published /\ k \notin keys =>
          moment - changed[k] <= MinRefresh + FetchTimeout
    BY <1>1, <2>4, KeysAreRecent
  <2>8. KeysFollow'
    BY <1>1, <2>3, <2>4, <2>6, <2>7 DEF KeysFollow
  <2> QED
    BY <1>1, <2>2, <2>8, AwayGood, OneVerifier
<1> QED
  BY <1>2, <1>3 DEF Throttled, Unrefreshed

\* A fetch begins: the attempt before it is too long ago to be under way.
LEMMA AttemptGood == ASSUME KeyInv, NEW v \in Verifiers, Attempt(v) PROVE KeyInv'
<1>1. PICK o : o = verifier[v]
  OBVIOUS
<1>2. PICK a : a = [pc |-> "fetching", kid |-> o.kid, known |-> o.known, start |-> moment]
  OBVIOUS
<1>3. /\ o.pc = "refreshing" /\ moment - lastAttempt >= MinRefresh
      /\ verifier' = [verifier EXCEPT ![v] = a] /\ answer' = Quiet /\ lastAttempt' = moment
      /\ UNCHANGED <<moment, published, changed, keys, fetchedAt, failed>>
  BY <1>1, <1>2 DEF Attempt, StartFetch, KeyInv
<1>4. a.pc = "fetching" /\ a.kid = o.kid /\ a.start = moment
  BY <1>2
<1>5. verifier' = [w \in Verifiers |-> IF w = v THEN a ELSE verifier[w]]
  BY <1>3 DEF KeyInv
<1>6. moment \in Int /\ lastAttempt \in Int /\ o.kid \in Kids /\ lastAttempt <= moment
  BY <1>1, <1>3 DEF KeyInv, GoodVerifier
<1>7. \A w \in Verifiers : verifier[w].pc \notin {"fetching", "fetched"}
  BY <1>3, <1>6, KeyNumbers DEF KeyInv, GoodVerifier
<1>8. \A w \in Verifiers : GoodVerifier(verifier[w])'
  <2> SUFFICES ASSUME NEW w \in Verifiers PROVE GoodVerifier(verifier[w])'
    OBVIOUS
  <2>1. CASE w = v
    <3>1. verifier'[w] = a
      BY <1>5, <2>1
    <3> QED
      BY <1>3, <1>4, <1>6, <3>1, KeyNumbers DEF GoodVerifier
  <2>2. CASE w # v
    <3>1. verifier'[w] = verifier[w] /\ verifier[w].pc \notin {"fetching", "fetched"}
      BY <1>5, <1>7, <2>2
    <3>2. GoodVerifier(verifier[w])
      BY DEF KeyInv
    <3>3. verifier[w].pc = "looking" => moment - lastAttempt < MinRefresh
      BY <3>2 DEF GoodVerifier
    <3> QED
      BY <1>3, <1>6, <3>1, <3>2, <3>3, KeyNumbers DEF GoodVerifier
  <2> QED
    BY <2>1, <2>2
<1>9. v \in InFlight' /\ \A w \in Verifiers : w \in InFlight' => w = v
  BY <1>4, <1>5, <1>7 DEF InFlight
<1>10. OneFetcher' /\ Installed'
  BY <1>9 DEF OneFetcher, Installed
<1>11. AsOf(keys, fetchedAt - FetchTimeout)'
  BY <1>3 DEF KeyInv, AsOf
<1>12. verifier' = [w \in Verifiers |-> verifier'[w]]
  BY <1>5
<1> QED
  BY <1>3, <1>6, <1>8, <1>10, <1>11, <1>12, QuietFollows DEF KeyInv

LEMMA EndpointAnswersGood == ASSUME KeyInv, NEW v \in Verifiers, EndpointAnswers(v) PROVE KeyInv'
<1>1. PICK o : o = verifier[v]
  OBVIOUS
<1>2. PICK a : a = [pc |-> "fetched", kid |-> o.kid, known |-> o.known, start |-> o.start,
                    set |-> published]
  OBVIOUS
<1>3. /\ o.pc = "fetching" /\ verifier' = [verifier EXCEPT ![v] = a] /\ answer' = Quiet
      /\ UNCHANGED <<moment, published, changed, keys, fetchedAt, lastAttempt, failed>>
  BY <1>1, <1>2 DEF EndpointAnswers, KeyInv
<1>4. a.pc = "fetched" /\ a.kid = o.kid /\ a.start = o.start /\ a.set = published
  BY <1>2
<1>5. GoodVerifier(o)
  BY <1>1 DEF KeyInv
<1>6. GoodVerifier(a)
  BY <1>3, <1>4, <1>5 DEF GoodVerifier, AsOf
<1> QED
  BY <1>1, <1>3, <1>4, <1>6, QuietFollows, OneVerifier

LEMMA FetchFailsGood == ASSUME KeyInv, NEW v \in Verifiers, FetchFails(v) PROVE KeyInv'
<1>1. /\ verifier[v].pc \in {"fetching", "fetched"} /\ failed'
      /\ UNCHANGED <<moment, published, changed, keys, fetchedAt, lastAttempt>>
  BY DEF FetchFails
<1>2. moment - lastAttempt < MinRefresh
  BY <1>1, KeyNumbers DEF KeyInv, GoodVerifier
<1>3. CASE GoesOn(v)
  BY <1>1, <1>2, <1>3, GoesOnGood
<1>4. CASE Returns(v, Refuse(verifier[v].kid, FALSE))
  <2>1. verifier' = [verifier EXCEPT ![v] = Away]
    BY <1>4 DEF Returns
  <2>2. KeysFollow'
    BY <1>1 DEF KeysFollow
  <2> QED
    BY <1>1, <2>1, <2>2, AwayGood, OneVerifier
<1> QED
  BY <1>3, <1>4 DEF FetchFails, Unrefreshed

\* A fetched set comes in: it is as old as its fetch, and no other is under way.
LEMMA InstallGood == ASSUME KeyInv, NEW v \in Verifiers, Install(v) PROVE KeyInv'
<1>1. PICK o : o = verifier[v]
  OBVIOUS
<1>2. PICK a : a = [pc |-> "looking", kid |-> o.kid]
  OBVIOUS
<1>3. /\ o.pc = "fetched" /\ keys' = o.set /\ fetchedAt' = moment /\ failed' = FALSE
      /\ verifier' = [verifier EXCEPT ![v] = a] /\ answer' = Quiet
      /\ UNCHANGED <<moment, published, changed, lastAttempt>>
  BY <1>1, <1>2 DEF Install, GoesOn, KeyInv
<1>4. a.pc = "looking" /\ a.kid = o.kid
  BY <1>2
<1>5. /\ moment \in Int /\ lastAttempt \in Int /\ lastAttempt <= moment
      /\ GoodVerifier(o) /\ \A k \in Kids : changed[k] \in Int
  BY <1>1 DEF KeyInv
<1>6. /\ o.kid \in Kids /\ o.start = lastAttempt /\ moment - lastAttempt <= FetchTimeout
      /\ AsOf(o.set, o.start)
  BY <1>3, <1>5 DEF GoodVerifier
<1>7. verifier' = [w \in Verifiers |-> IF w = v THEN a ELSE verifier[w]]
  BY <1>3 DEF KeyInv
<1>8. \A w \in Verifiers : w # v => verifier[w].pc \notin {"fetching", "fetched"}
  <2>1. v \in InFlight
    BY <1>1, <1>3 DEF InFlight
  <2> QED
    BY <2>1 DEF KeyInv, OneFetcher, InFlight
<1>9. \A w \in Verifiers : GoodVerifier(verifier[w])'
  <2> SUFFICES ASSUME NEW w \in Verifiers PROVE GoodVerifier(verifier[w])'
    OBVIOUS
  <2>1. CASE w = v
    <3>1. verifier'[w] = a
      BY <1>7, <2>1
    <3>2. moment - lastAttempt < MinRefresh
      BY <1>5, <1>6, KeyNumbers
    <3> QED
      BY <1>3, <1>4, <1>6, <3>1, <3>2 DEF GoodVerifier
  <2>2. CASE w # v
    <3>1. verifier'[w] = verifier[w] /\ verifier[w].pc \notin {"fetching", "fetched"}
      BY <1>7, <1>8, <2>2
    <3>2. GoodVerifier(verifier[w])
      BY DEF KeyInv
    <3> QED
      BY <1>3, <3>1, <3>2 DEF GoodVerifier
  <2> QED
    BY <2>1, <2>2
<1>10. \A w \in Verifiers : w \notin InFlight'
  BY <1>4, <1>7, <1>8 DEF InFlight
<1>11. OneFetcher' /\ Installed'
  BY <1>3, <1>5, <1>10 DEF OneFetcher, Installed
<1>12. AsOf(keys, fetchedAt - FetchTimeout)'
  <2> SUFFICES ASSUME NEW k \in Kids, (k \in o.set) # (k \in published)
               PROVE  changed[k] >= moment - FetchTimeout
    BY <1>3 DEF AsOf
  <2>1. changed[k] >= lastAttempt
    BY <1>6 DEF AsOf
  <2> QED
    BY <1>5, <1>6, <2>1, KeyNumbers
<1>13. verifier' = [w \in Verifiers |-> verifier'[w]]
  BY <1>7
<1> QED
  BY <1>3, <1>5, <1>9, <1>11, <1>12, <1>13, QuietFollows DEF KeyInv

\* The identity provider changes its keys: what differs from before is new now.
LEMMA RotateGood == ASSUME KeyInv, NEW set \in SUBSET Kids, Rotate(set) PROVE KeyInv'
<1>1. /\ published' = set /\ answer' = Quiet
      /\ changed' = [k \in Kids |-> IF (k \in set) = (k \in published) THEN changed[k] ELSE moment]
      /\ UNCHANGED <<moment, keys, fetchedAt, lastAttempt, failed, verifier>>
  BY DEF Rotate
<1>2. /\ moment \in Int /\ lastAttempt \in Int /\ fetchedAt \in Int /\ lastAttempt <= moment
      /\ \A k \in Kids : changed[k] \in Int
  BY DEF KeyInv
<1>3. /\ changed' = [k \in Kids |-> changed'[k]]
      /\ \A k \in Kids : changed'[k] \in Int
  BY <1>1, <1>2
<1>4. ASSUME NEW s, NEW at \in Int, at <= moment, AsOf(s, at)
      PROVE  AsOf(s, at)'
  <2> SUFFICES ASSUME NEW k \in Kids, (k \in s) # (k \in set) PROVE changed'[k] >= at
    BY <1>1 DEF AsOf
  <2>1. CASE (k \in set) = (k \in published)
    BY <1>1, <1>4, <2>1 DEF AsOf
  <2>2. CASE (k \in set) # (k \in published)
    BY <1>1, <1>2, <1>4, <2>2
  <2> QED
    BY <2>1, <2>2
<1>5. AsOf(keys, fetchedAt - FetchTimeout)'
  <2>1. fetchedAt <= moment
    BY DEF KeyInv
  <2>2. PICK s : s = keys
    OBVIOUS
  <2>3. PICK at : at = fetchedAt - FetchTimeout
    OBVIOUS
  <2>4. at \in Int /\ at <= moment
    BY <1>2, <2>1, <2>3, KeyNumbers
  <2>5. AsOf(s, at)'
    BY <1>4, <2>2, <2>3, <2>4 DEF KeyInv
  <2> QED
    BY <1>1, <2>2, <2>3, <2>5 DEF AsOf
<1>6. \A w \in Verifiers : GoodVerifier(verifier[w])'
  <2> SUFFICES ASSUME NEW w \in Verifiers PROVE GoodVerifier(verifier[w])'
    OBVIOUS
  <2>1. PICK a : a = verifier[w]
    OBVIOUS
  <2>2. GoodVerifier(a)
    BY <2>1 DEF KeyInv
  <2>3. a.pc = "fetched" => AsOf(a.set, a.start)'
    BY <1>2, <1>4, <2>2 DEF GoodVerifier
  <2>4. GoodVerifier(a)'
    BY <1>1, <2>2, <2>3 DEF GoodVerifier
  <2> QED
    BY <1>1, <2>1, <2>4 DEF GoodVerifier, AsOf
<1>7. OneFetcher' /\ Installed'
  BY <1>1 DEF OneFetcher, Installed, InFlight, KeyInv
<1> QED
  BY <1>1, <1>2, <1>3, <1>5, <1>6, <1>7, QuietFollows DEF KeyInv

\* The clock ticks only during a fetch, or when nobody is inside Key.
LEMMA KeyTickGood == ASSUME KeyInv, KeyTick PROVE KeyInv'
<1>1. /\ moment \in Int /\ lastAttempt \in Int /\ moment' = moment + 1 /\ answer' = Quiet
      /\ UNCHANGED <<published, changed, keys, fetchedAt, lastAttempt, failed, verifier>>
      /\ \A v \in Verifiers : verifier[v].pc # "idle" =>
           v \in InFlight /\ moment - verifier[v].start < FetchTimeout
  BY DEF KeyTick, KeyInv
<1>2. \A v \in Verifiers : GoodVerifier(verifier[v])'
  <2> SUFFICES ASSUME NEW v \in Verifiers PROVE GoodVerifier(verifier[v])'
    OBVIOUS
  <2>1. GoodVerifier(verifier[v])
    BY DEF KeyInv
  <2>2. CASE verifier[v].pc = "idle"
    BY <1>1, <2>2 DEF GoodVerifier
  <2>3. CASE verifier[v].pc # "idle"
    <3>1. verifier[v].pc \in {"fetching", "fetched"} /\ moment - verifier[v].start < FetchTimeout
      BY <1>1, <2>3 DEF InFlight
    <3>2. verifier[v].start = lastAttempt /\ moment' - lastAttempt <= FetchTimeout
      BY <1>1, <2>1, <3>1, KeyNumbers DEF GoodVerifier
    <3> QED
      BY <1>1, <2>1, <3>1, <3>2 DEF GoodVerifier, AsOf
  <2> QED
    BY <2>2, <2>3
<1>3. AsOf(keys, fetchedAt - FetchTimeout)' /\ OneFetcher' /\ Installed'
  BY <1>1 DEF KeyInv, AsOf, OneFetcher, Installed, InFlight
<1>4. moment' \in Int /\ lastAttempt <= moment' /\ fetchedAt <= moment'
  BY <1>1 DEF KeyInv
<1> QED
  BY <1>1, <1>2, <1>3, <1>4, QuietFollows DEF KeyInv

LEMMA KeyInvInit == KeyInit => KeyInv
<1> SUFFICES ASSUME KeyInit PROVE KeyInv
  OBVIOUS
<1>1. KeysFollow
  BY DEF KeyInit, KeysFollow
<1>2. \A v \in Verifiers : GoodVerifier(verifier[v]) /\ verifier[v].pc = "idle"
  BY AwayGood DEF KeyInit
<1>3. AsOf(keys, fetchedAt - FetchTimeout)
  BY KeyNumbers DEF KeyInit, AsOf
<1>4. OneFetcher /\ Installed
  BY <1>2, KeyNumbers DEF KeyInit, OneFetcher, Installed, InFlight
<1>5. /\ moment \in Int /\ lastAttempt \in Int /\ fetchedAt \in Int /\ lastAttempt <= moment
      /\ fetchedAt <= moment
  BY KeyNumbers DEF KeyInit
<1>6. /\ changed = [k \in Kids |-> changed[k]] /\ \A k \in Kids : changed[k] \in Int
      /\ verifier = [v \in Verifiers |-> verifier[v]]
  BY KeyNumbers DEF KeyInit
<1> QED
  BY <1>1, <1>2, <1>3, <1>4, <1>5, <1>6 DEF KeyInv

LEMMA KeyInvNext == KeyInv /\ [KeyNext]_keyVars => KeyInv'
<1> SUFFICES ASSUME KeyInv, [KeyNext]_keyVars PROVE KeyInv'
  OBVIOUS
<1>1. CASE UNCHANGED keyVars
  <2>1. KeysFollow'
    BY <1>1 DEF keyVars, KeyInv, KeysFollow, InFlight
  <2> QED
    BY <1>1, <2>1, OnlyAnswers DEF keyVars
<1> QED
  BY <1>1, KnownFreshGood, LookGood, ThrottledGood, AttemptGood, EndpointAnswersGood,
     FetchFailsGood, InstallGood, FinalLookGood, RotateGood, KeyTickGood DEF KeyNext

LEMMA KeyInvAlways == KeySpec => []KeyInv
  BY KeyInvInit, KeyInvNext, PTL DEF KeySpec

\* However many requests verify tokens at once, no two fetches of the key set
\* are under way: the throttle of JWKSKeyProvider.refresh serialises them.
THEOREM FetchesAreSerialised == KeySpec => []OneFetch
<1>1. KeyInv => OneFetch
  <2> SUFFICES ASSUME KeyInv PROVE OneFetch
    OBVIOUS
  <2>1. CASE InFlight = {}
    BY <2>1, FS_EmptySet DEF OneFetch
  <2>2. CASE InFlight # {}
    <3>1. PICK v : v \in InFlight
      BY <2>2
    <3>2. InFlight = {v}
      BY <3>1 DEF KeyInv, OneFetcher, InFlight
    <3>3. Cardinality({v}) = 1
      BY FS_Singleton
    <3> QED
      BY <3>2, <3>3 DEF OneFetch
  <2> QED
    BY <2>1, <2>2
<1> QED
  BY <1>1, KeyInvAlways, PTL

\* While fetches succeed, a published key is refused and a withdrawn one
\* accepted for a bounded time only (JWKSKeyProvider.Key, refresh).
THEOREM VerdictsFollowTheProvider == KeySpec => []KeysFollow
<1>1. KeyInv => KeysFollow
  BY DEF KeyInv
<1> QED
  BY <1>1, KeyInvAlways, PTL

-----------------------------------------------------------------------------
(* The life of the process.                                                 *)

AllOpen == {"telemetry", "operational", "execution", "cache"}
Building == {"observability", "operational", "execution", "cache", "authenticator", "starting"}
Serving == {"started", "serving", "draining", "drainingPublic"}

\* What is open, who listens and who is under way in each phase.
Life ==
  /\ phase \in Building \cup Serving \cup {"closing", "flushing", "exited"}
  /\ phase = "observability" => open = {}
  /\ phase = "operational" => open = {"telemetry"}
  /\ phase = "execution" => open = {"telemetry", "operational"}
  /\ phase = "cache" => open = {"telemetry", "operational", "execution"}
  /\ phase \in {"authenticator", "starting"} \cup Serving => open = AllOpen
  /\ phase \in Building => listener["public"] = "none"
  /\ phase \in {"drainingPublic", "closing", "flushing"} => listener["public"] \in {"none", "closed"}
  /\ phase \in {"closing", "flushing"} => Busy = {} \/ grace = "expired"
  /\ phase \in Building \cup {"exited"} => Busy = {}

LEMMA BuiltIs ==
  /\ DOMAIN Built = {"observability", "operational", "execution", "cache"}
  /\ Built["observability"] = "telemetry" /\ Built["operational"] = "operational"
  /\ Built["execution"] = "execution" /\ Built["cache"] = "cache"
  BY DEF Built

LEMMA NextStageIs ==
  /\ DOMAIN NextStage = {"observability", "operational", "execution", "cache", "authenticator"}
  /\ NextStage["observability"] = "operational" /\ NextStage["operational"] = "execution"
  /\ NextStage["execution"] = "cache" /\ NextStage["cache"] = "authenticator"
  /\ NextStage["authenticator"] = "starting"
  BY DEF NextStage

\* A request that has come as far as the service, as ServedAsEntitled demands it.
Entrusted(r) ==
  /\ Entitled(r.q, r.deny) /\ r.tenant = Claimed(r.q)
  /\ r.cls.fields # {} /\ r.cls.fields \subseteq KnownFields
  /\ r.cls.limit >= 1 /\ (MaxHistoryItems > 0 => r.cls.limit <= MaxHistoryItems)
  /\ r.cls.consistency >= ParseConsistency(r.floor)
  /\ r.cls.consistency >= ParseConsistency(r.q.consistency)

\* What each step of the chain has established about its request.
GoodConn(r) ==
  /\ r.stage \in {"idle", "limit", "authenticate", "serve", "classify", "service"}
  /\ r.stage = "idle" => r = Free
  /\ r.stage # "idle" => r.q.limit \in Int
  /\ r.stage = "serve" =>
       /\ Authentic(r.q) /\ r.q.header \in {"", Claimed(r.q)} /\ r.tenant = Claimed(r.q)
       /\ \A perm : perm \in r.principal.permissions <=> Holds(r.q, perm)
  /\ r.stage = "classify" =>
       /\ r.q.route \in Routes /\ Entitled(r.q, r.deny) /\ r.tenant = Claimed(r.q)
       /\ r.in.limit \in Int /\ r.in.consistency = r.q.consistency
  /\ r.stage = "service" => Entrusted(r)

GoodReply == reply.status \in {401, 403} => ~Entitled(reply.q, reply.deny)

ProcInv ==
  /\ conn = [c \in Connections |-> conn[c]] /\ \A c \in Connections : GoodConn(conn[c])
  /\ listener = [l \in Listeners |-> listener[l]]
  /\ Life /\ GoodReply

\* The process takes a step, and no request does.
LEMMA WorldStep ==
  ASSUME ProcInv, UNCHANGED conn, reply' = NoReply, Life',
         listener' = [l \in Listeners |-> listener'[l]]
  PROVE  ProcInv'
<1>1. GoodReply'
  BY DEF GoodReply, NoReply
<1> QED
  BY <1>1 DEF ProcInv

LEMMA SameListeners ==
  ASSUME ProcInv, UNCHANGED listener PROVE listener' = [l \in Listeners |-> listener'[l]]
  BY DEF ProcInv

LEMMA OneListener ==
  ASSUME ProcInv, NEW l \in Listeners, NEW s, listener' = [listener EXCEPT ![l] = s]
  PROVE  /\ listener' = [k \in Listeners |-> listener'[k]]
         /\ listener'["public"] = IF l = "public" THEN s ELSE listener["public"]
  BY DEF ProcInv, Listeners

LEMMA BuildStepGood == ASSUME ProcInv, BuildStep, reply' = NoReply PROVE ProcInv'
<1>1. /\ phase \in DOMAIN NextStage /\ phase' = NextStage[phase]
      /\ open' = open \cup {Built[s] : s \in {phase} \cap DOMAIN Built}
      /\ UNCHANGED <<listener, grace, conn>>
  BY DEF BuildStep, requestVars
<1>2. Busy' = Busy
  BY <1>1 DEF Busy
<1>3. CASE phase = "observability"
  <2>1. open' = open \cup {"telemetry"} /\ phase' = "operational"
    BY <1>1, <1>3, BuiltIs, NextStageIs
  <2> QED
    BY <1>1, <1>2, <1>3, <2>1, SameListeners, WorldStep DEF ProcInv, Life, Building, Serving, AllOpen
<1>4. CASE phase = "operational"
  <2>1. open' = open \cup {"operational"} /\ phase' = "execution"
    BY <1>1, <1>4, BuiltIs, NextStageIs
  <2> QED
    BY <1>1, <1>2, <1>4, <2>1, SameListeners, WorldStep DEF ProcInv, Life, Building, Serving, AllOpen
<1>5. CASE phase = "execution"
  <2>1. open' = open \cup {"execution"} /\ phase' = "cache"
    BY <1>1, <1>5, BuiltIs, NextStageIs
  <2> QED
    BY <1>1, <1>2, <1>5, <2>1, SameListeners, WorldStep DEF ProcInv, Life, Building, Serving, AllOpen
<1>6. CASE phase = "cache"
  <2>1. open' = open \cup {"cache"} /\ phase' = "authenticator"
    BY <1>1, <1>6, BuiltIs, NextStageIs
  <2> QED
    BY <1>1, <1>2, <1>6, <2>1, SameListeners, WorldStep DEF ProcInv, Life, Building, Serving, AllOpen
<1>7. CASE phase = "authenticator"
  <2>1. open' = open /\ phase' = "starting"
    BY <1>1, <1>7, BuiltIs, NextStageIs
  <2> QED
    BY <1>1, <1>2, <1>7, <2>1, SameListeners, WorldStep DEF ProcInv, Life, Building, Serving, AllOpen
<1> QED
  BY <1>1, <1>3, <1>4, <1>5, <1>6, <1>7, NextStageIs

\* The other steps of run, and those of the listeners, the signal and the timer.
LEMMA RunGood ==
  ASSUME ProcInv, reply' = NoReply,
         BuildFails \/ Start \/ MarkReady \/ StopServing \/ ShutdownPublic \/ ShutdownAdmin \/ Cleanup
  PROVE  ProcInv'
<1>1. UNCHANGED conn /\ Busy' = Busy
  BY DEF BuildFails, Start, MarkReady, StopServing, ShutdownPublic, ShutdownAdmin, Cleanup,
         requestVars, Busy
<1>2. CASE BuildFails
  <2>1. /\ phase \in Building /\ phase' \in {"flushing", "exited"} /\ UNCHANGED <<listener, grace>>
    BY <1>2, NextStageIs DEF BuildFails, Building
  <2>2. Life'
    BY <1>1, <2>1 DEF ProcInv, Life, Building, Serving
  <2> QED
    BY <1>1, <2>1, <2>2, SameListeners, WorldStep
<1>3. CASE Start
  <2>1. /\ phase = "starting" /\ listener' = [l \in Listeners |-> "starting"]
        /\ phase' = "started" /\ UNCHANGED open
    BY <1>3 DEF Start
  <2>2. Life'
    BY <1>1, <2>1 DEF ProcInv, Life, Building, Serving, AllOpen
  <2> QED
    BY <1>1, <2>1, <2>2, WorldStep
<1>4. CASE MarkReady
  <2>1. phase = "started" /\ phase' = "serving" /\ UNCHANGED <<open, listener, grace>>
    BY <1>4 DEF MarkReady
  <2>2. Life'
    BY <1>1, <2>1 DEF ProcInv, Life, Building, Serving, AllOpen
  <2> QED
    BY <1>1, <2>1, <2>2, SameListeners, WorldStep
<1>5. CASE StopServing
  <2>1. phase = "serving" /\ phase' = "draining" /\ UNCHANGED <<open, listener>>
    BY <1>5 DEF StopServing
  <2>2. Life'
    BY <1>1, <2>1 DEF ProcInv, Life, Building, Serving, AllOpen
  <2> QED
    BY <1>1, <2>1, <2>2, SameListeners, WorldStep
<1>6. CASE ShutdownPublic
  <2>1. /\ phase = "draining" /\ phase' = "drainingPublic" /\ UNCHANGED <<open, grace>>
        /\ listener' = [listener EXCEPT !["public"] = "closed"] /\ "public" \in Listeners
    BY <1>6 DEF ShutdownPublic, Listeners
  <2>2. listener' = [k \in Listeners |-> listener'[k]] /\ listener'["public"] = "closed"
    BY <2>1, OneListener
  <2>3. Life'
    BY <1>1, <2>1, <2>2 DEF ProcInv, Life, Building, Serving, AllOpen
  <2> QED
    BY <1>1, <2>2, <2>3, WorldStep
<1>7. CASE ShutdownAdmin
  <2>1. /\ phase = "drainingPublic" /\ phase' = "closing" /\ UNCHANGED <<open, grace>>
        /\ Busy = {} \/ grace = "expired"
        /\ listener' = [listener EXCEPT !["admin"] = "closed"] /\ "admin" \in Listeners
    BY <1>7 DEF ShutdownAdmin, Drained, Listeners
  <2>2. listener' = [k \in Listeners |-> listener'[k]] /\ listener'["public"] = listener["public"]
    BY <2>1, OneListener
  <2>3. Life'
    BY <1>1, <2>1, <2>2 DEF ProcInv, Life, Building, Serving
  <2> QED
    BY <1>1, <2>2, <2>3, WorldStep
<1>8. CASE Cleanup
  <2>1. phase = "closing" /\ phase' \in {"closing", "flushing"} /\ UNCHANGED <<listener, grace>>
    BY <1>8 DEF Cleanup
  <2>2. Life'
    BY <1>1, <2>1 DEF ProcInv, Life, Building, Serving
  <2> QED
    BY <1>1, <2>1, <2>2, SameListeners, WorldStep
<1> QED
  BY <1>2, <1>3, <1>4, <1>5, <1>6, <1>7, <1>8

LEMMA FreeConnGood == GoodConn(Free)
  BY DEF GoodConn, Free

\* The process ends, and its requests with it.
LEMMA ExitGood == ASSUME ProcInv, Exit, reply' = NoReply PROVE ProcInv'
<1>1. /\ phase' = "exited" /\ conn' = [c \in Connections |-> Free] /\ UNCHANGED listener
  BY DEF Exit
<1>2. Busy' = {}
  BY <1>1 DEF Busy
<1>3. Life'
  BY <1>1, <1>2 DEF Life, Building, Serving
<1>4. conn' = [c \in Connections |-> conn'[c]] /\ \A c \in Connections : GoodConn(conn'[c])
  BY <1>1, FreeConnGood
<1>5. GoodReply'
  BY DEF GoodReply, NoReply
<1> QED
  BY <1>1, <1>3, <1>4, <1>5, SameListeners DEF ProcInv

\* The listeners, the signal, the timer and the reloads.
LEMMA SurroundingsGood ==
  ASSUME ProcInv, reply' = NoReply,
         \/ \E l \in Listeners : Listen(l) \/ ListenerFails(l)
         \/ Signal \/ GraceExpires
         \/ \E s \in Settings : Reload(s)
  PROVE  ProcInv'
<1>1. ASSUME NEW l \in Listeners, NEW s, listener[l] \in {"starting", "up"},
             listener' = [listener EXCEPT ![l] = s], UNCHANGED <<phase, open, grace, conn>>
      PROVE  ProcInv'
  <2>1. /\ listener' = [k \in Listeners |-> listener'[k]]
        /\ listener'["public"] = IF l = "public" THEN s ELSE listener["public"]
    BY <1>1, OneListener
  <2>2. Busy' = Busy
    BY <1>1 DEF Busy
  <2>3. listener["public"] \in {"none", "closed"} => listener'["public"] = listener["public"]
    BY <1>1, <2>1
  <2>4. Life'
    BY <1>1, <2>2, <2>3 DEF ProcInv, Life, Building, Serving
  <2> QED
    BY <1>1, <2>1, <2>4, WorldStep
<1>2. ASSUME UNCHANGED <<phase, open, listener, conn>>, grace' \in {grace, "expired"}
      PROVE  ProcInv'
  <2>1. Busy' = Busy
    BY <1>2 DEF Busy
  <2>2. Life'
    BY <1>2, <2>1 DEF ProcInv, Life
  <2> QED
    BY <1>2, <2>2, SameListeners, WorldStep
<1>3. CASE \E l \in Listeners : Listen(l) \/ ListenerFails(l)
  BY <1>1, <1>3 DEF Listen, ListenerFails, requestVars
<1>4. CASE Signal \/ GraceExpires \/ \E s \in Settings : Reload(s)
  BY <1>2, <1>4 DEF Signal, GraceExpires, Reload, requestVars
<1> QED
  BY <1>3, <1>4

\* A request that is under way goes on or is answered.
LEMMA RequestStep ==
  ASSUME ProcInv, NEW c \in Connections, NEW r, conn[c].stage # "idle", GoodConn(r),
         conn' = [conn EXCEPT ![c] = r], GoodReply', UNCHANGED worldVars
  PROVE  ProcInv'
<1>1. conn' = [d \in Connections |-> IF d = c THEN r ELSE conn[d]]
  BY DEF ProcInv
<1>2. conn' = [d \in Connections |-> conn'[d]] /\ \A d \in Connections : GoodConn(conn'[d])
  BY <1>1 DEF ProcInv
<1>3. c \in Busy
  BY DEF Busy, Free
<1>4. UNCHANGED <<phase, open, listener, grace>>
  BY DEF worldVars
<1>5. Life'
  BY <1>3, <1>4 DEF ProcInv, Life
<1> QED
  BY <1>2, <1>4, <1>5, SameListeners DEF ProcInv

LEMMA AnswerGood ==
  ASSUME ProcInv, NEW c \in Connections, NEW status, conn[c].stage # "idle",
         Answer(c, status), UNCHANGED worldVars,
         status \in {401, 403} => ~Entitled(conn[c].q, settings.deny)
  PROVE  ProcInv'
<1>1. conn' = [conn EXCEPT ![c] = Free]
  BY DEF Answer
<1>2. reply'.status = status /\ reply'.q = conn[c].q /\ reply'.deny = settings.deny
  BY DEF Answer
<1>3. GoodReply'
  <2> SUFFICES ASSUME reply'.status \in {401, 403} PROVE ~Entitled(reply'.q, reply'.deny)
    BY DEF GoodReply, Entitled, Authentic, Claimed, Holds
  <2> QED
    BY <1>2
<1> QED
  BY <1>1, <1>3, FreeConnGood, RequestStep

LEMMA GoOnGood ==
  ASSUME ProcInv, NEW c \in Connections, NEW r, conn[c].stage # "idle",
         GoOn(c, r), UNCHANGED worldVars, GoodConn(r)
  PROVE  ProcInv'
<1>1. conn' = [conn EXCEPT ![c] = r] /\ GoodReply'
  BY DEF GoOn, GoodReply, NoReply
<1> QED
  BY <1>1, RequestStep

LEMMA AcceptRequestGood ==
  ASSUME ProcInv, NEW c \in Connections, NEW q \in Sent(c), AcceptRequest(c, q) PROVE ProcInv'
<1>1. PICK r : r = [stage |-> "limit", q |-> q]
  OBVIOUS
<1>2. /\ phase # "exited" /\ listener["public"] \in {"up", "broken"} /\ UNCHANGED worldVars
      /\ conn' = [conn EXCEPT ![c] = r] /\ reply' = NoReply
  BY <1>1 DEF AcceptRequest, Alive, GoOn
<1>3. r.stage = "limit" /\ r.q = q
  BY <1>1
<1>4. GoodConn(r)
  BY <1>3, ProcessAssumption DEF GoodConn
<1>5. conn' = [d \in Connections |-> IF d = c THEN r ELSE conn[d]]
  BY <1>2 DEF ProcInv
<1>6. conn' = [d \in Connections |-> conn'[d]] /\ \A d \in Connections : GoodConn(conn'[d])
  BY <1>4, <1>5 DEF ProcInv
<1>7. UNCHANGED <<phase, open, listener, grace>>
  BY <1>2 DEF worldVars
<1>8. Life'
  BY <1>2, <1>7 DEF ProcInv, Life, Building, Serving
<1>9. GoodReply'
  BY <1>2 DEF GoodReply, NoReply
<1> QED
  BY <1>6, <1>7, <1>8, <1>9, SameListeners DEF ProcInv

LEMMA LimitGood == ASSUME ProcInv, NEW c \in Connections, Limit(c) PROVE ProcInv'
<1>1. conn[c].stage = "limit" /\ UNCHANGED worldVars
  BY DEF Limit
<1>2. PICK r : r = [stage |-> "authenticate", q |-> conn[c].q]
  OBVIOUS
<1>3. r.stage = "authenticate" /\ r.q = conn[c].q
  BY <1>2
<1>4. GoodConn(r)
  BY <1>1, <1>3 DEF ProcInv, GoodConn
<1>5. Answer(c, 413) \/ Answer(c, 429) \/ GoOn(c, r)
  BY <1>2 DEF Limit
<1> QED
  BY <1>1, <1>4, <1>5, AnswerGood, GoOnGood

LEMMA PermissionsAre ==
  ASSUME NEW roles, NEW perm
  PROVE  perm \in permissionsFor(roles) <=>
           \E r \in DOMAIN RoleGrants : perm \in RoleGrants[r] /\ r \in roles
  BY DEF permissionsFor

\* Who authenticates speaks for the tenant of the token, with the permissions
\* of its roles; who does not is not entitled to anything.
LEMMA AuthenticateIs ==
  ASSUME NEW q, NEW p, p = Authenticate(q)
  PROVE  /\ ~Refused(p) => /\ Authentic(q) /\ p.tenant = Claimed(q)
                           /\ \A perm : perm \in p.permissions <=> Holds(q, perm)
         /\ Refused(p) => p.status = 401 /\ ~Authentic(q)
<1>1. CASE AllowInsecure
  <2>1. PICK t : t = IF q.header = "" THEN "local" ELSE q.header
    OBVIOUS
  <2>2. PICK ps : ps = permissionsFor(DOMAIN RoleGrants)
    OBVIOUS
  <2>3. p = [status |-> Ok, tenant |-> t, permissions |-> ps]
    BY <1>1, <2>1, <2>2 DEF Authenticate, insecurePrincipal
  <2>4. p.status = Ok /\ p.tenant = t /\ p.permissions = ps
    BY <2>3
  <2>5. \A perm : perm \in ps <=> Holds(q, perm)
    BY <1>1, <2>2, PermissionsAre DEF Holds
  <2>6. t = Claimed(q)
    BY <1>1, <2>1 DEF Claimed
  <2> QED
    BY <1>1, <2>4, <2>5, <2>6 DEF Refused, Authentic
<1>2. CASE ~AllowInsecure /\ ~Authentic(q)
  <2>1. p = Refusal(401)
    BY <1>2 DEF Authenticate, Authentic
  <2>2. p.status = 401
    BY <2>1 DEF Refusal
  <2> QED
    BY <1>2, <2>2 DEF Refused, Ok
<1>3. CASE ~AllowInsecure /\ Authentic(q)
  <2>1. PICK ps : ps = permissionsFor(q.token.roles)
    OBVIOUS
  <2>2. p = [status |-> Ok, tenant |-> q.token.tenant, permissions |-> ps]
    BY <1>3, <2>1 DEF Authenticate, Authentic
  <2>3. p.status = Ok /\ p.tenant = q.token.tenant /\ p.permissions = ps
    BY <2>2
  <2>4. \A perm : perm \in ps <=> Holds(q, perm)
    BY <1>3, <2>1, PermissionsAre DEF Holds
  <2>5. q.token.tenant = Claimed(q)
    BY <1>3 DEF Claimed
  <2> QED
    BY <1>3, <2>3, <2>4, <2>5 DEF Refused
<1> QED
  BY <1>1, <1>2, <1>3

LEMMA AuthenticateStepGood ==
  ASSUME ProcInv, NEW c \in Connections, AuthenticateStep(c) PROVE ProcInv'
<1>1. PICK q : q = conn[c].q
  OBVIOUS
<1>2. PICK p : p = Authenticate(q)
  OBVIOUS
<1>3. PICK tenant : tenant = ResolveTenant(p, q.header)
  OBVIOUS
<1>4. PICK r : r = [stage |-> "serve", q |-> q, principal |-> p, tenant |-> tenant.tenant]
  OBVIOUS
<1>5. /\ conn[c].stage = "authenticate" /\ UNCHANGED worldVars
      /\ IF Refused(p) THEN Answer(c, p.status)
         ELSE IF Refused(tenant) THEN Answer(c, tenant.status) ELSE GoOn(c, r)
  BY <1>1, <1>2, <1>3, <1>4 DEF AuthenticateStep
<1>6. q.limit \in Int
  BY <1>1, <1>5 DEF ProcInv, GoodConn
<1>7. CASE Refused(p)
  <2>1. ~Entitled(q, settings.deny)
    BY <1>2, <1>7, AuthenticateIs DEF Entitled
  <2> QED
    BY <1>1, <1>5, <1>7, <2>1, AnswerGood
<1>8. CASE ~Refused(p) /\ q.header \notin {"", p.tenant}
  <2>1. tenant = Refusal(403)
    BY <1>3, <1>8 DEF ResolveTenant
  <2>2. Refused(tenant)
    BY <2>1 DEF Refused, Refusal, Ok
  <2>3. ~Entitled(q, settings.deny)
    BY <1>2, <1>8, AuthenticateIs DEF Entitled
  <2> QED
    BY <1>1, <1>5, <1>8, <2>2, <2>3, AnswerGood
<1>9. CASE ~Refused(p) /\ q.header \in {"", p.tenant}
  <2>1. tenant = [status |-> Ok, tenant |-> p.tenant]
    BY <1>3, <1>9 DEF ResolveTenant
  <2>2. tenant.tenant = p.tenant /\ ~Refused(tenant)
    BY <2>1 DEF Refused
  <2>3. r.stage = "serve" /\ r.q = q /\ r.principal = p /\ r.tenant = p.tenant
    BY <1>4, <2>2
  <2>4. /\ Authentic(q) /\ p.tenant = Claimed(q)
        /\ \A perm : perm \in p.permissions <=> Holds(q, perm)
    BY <1>2, <1>9, AuthenticateIs
  <2>5. GoodConn(r)
    BY <1>6, <1>9, <2>3, <2>4 DEF GoodConn
  <2> QED
    BY <1>5, <1>9, <2>2, <2>5, GoOnGood
<1> QED
  BY <1>7, <1>8, <1>9

\* Parsing refuses with 403 only who asks for the audit without permission.
LEMMA ParseIs ==
  ASSUME NEW q, NEW p, NEW in, in = parse(q, p)
  PROVE  /\ ~Refused(in) => /\ q.audit = "true" => "execution.audit.read" \in p.permissions
                            /\ in.limit = q.limit /\ in.consistency = q.consistency
         /\ in.status # 401
         /\ in.status = 403 => q.audit = "true" /\ "execution.audit.read" \notin p.permissions
<1>1. PICK audit : audit = (q.audit = "true")
  OBVIOUS
<1>2. CASE in = Refusal(400)
  BY <1>2 DEF Refusal, Refused, Ok
<1>3. CASE in = Refusal(403) /\ q.audit = "true" /\ "execution.audit.read" \notin p.permissions
  BY <1>3 DEF Refusal, Refused, Ok
<1>4. CASE /\ in = [status |-> Ok, fields |-> q.fields, limit |-> q.limit, audit |-> audit,
                    consistency |-> q.consistency]
           /\ q.audit = "true" => "execution.audit.read" \in p.permissions
  BY <1>4 DEF Refused, Ok
<1> QED
  BY <1>1, <1>2, <1>3, <1>4 DEF parse

LEMMA ServeGood == ASSUME ProcInv, NEW c \in Connections, Serve(c) PROVE ProcInv'
<1>1. PICK q : q = conn[c].q
  OBVIOUS
<1>2. PICK p : p = conn[c].principal
  OBVIOUS
<1>3. PICK in : in = parse(q, p)
  OBVIOUS
<1>4. PICK r : r = [stage |-> "classify", q |-> q, tenant |-> conn[c].tenant,
                    deny |-> settings.deny, in |-> in]
  OBVIOUS
<1>5. /\ conn[c].stage = "serve" /\ UNCHANGED worldVars
      /\ IF q.route \notin Routes THEN Answer(c, 404)
         ELSE IF ~Authorize(p, permissionOf[q.route], settings.deny) THEN Answer(c, 403)
         ELSE IF Refused(in) THEN Answer(c, in.status) ELSE GoOn(c, r)
  BY <1>1, <1>2, <1>3, <1>4 DEF Serve
<1>6. /\ q.limit \in Int /\ Authentic(q) /\ q.header \in {"", Claimed(q)}
      /\ conn[c].tenant = Claimed(q)
      /\ \A perm : perm \in p.permissions <=> Holds(q, perm)
  BY <1>1, <1>2, <1>5 DEF ProcInv, GoodConn
<1>7. CASE q.route \notin Routes
  BY <1>5, <1>7, AnswerGood
<1>8. CASE q.route \in Routes /\ ~Authorize(p, permissionOf[q.route], settings.deny)
  <2>1. ~Entitled(q, settings.deny)
    BY <1>6, <1>8 DEF Authorize, Entitled
  <2> QED
    BY <1>1, <1>5, <1>8, <2>1, AnswerGood
<1>9. CASE q.route \in Routes /\ Authorize(p, permissionOf[q.route], settings.deny) /\ Refused(in)
  <2>1. /\ in.status # 401
        /\ in.status = 403 => q.audit = "true" /\ "execution.audit.read" \notin p.permissions
    BY <1>3, ParseIs
  <2>2. in.status \in {401, 403} => ~Entitled(q, settings.deny)
    <3> SUFFICES ASSUME in.status \in {401, 403} PROVE ~Entitled(q, settings.deny)
      OBVIOUS
    <3>1. in.status = 403
      BY <2>1
    <3>2. q.audit = "true" /\ "execution.audit.read" \notin p.permissions
      BY <2>1, <3>1
    <3>3. ~Holds(q, "execution.audit.read")
      BY <1>6, <3>2
    <3> QED
      BY <3>2, <3>3 DEF Entitled
  <2> QED
    BY <1>1, <1>5, <1>9, <2>2, AnswerGood
<1>10. CASE q.route \in Routes /\ Authorize(p, permissionOf[q.route], settings.deny) /\ ~Refused(in)
  <2>1. /\ r.stage = "classify" /\ r.q = q /\ r.tenant = conn[c].tenant
        /\ r.deny = settings.deny /\ r.in = in
    BY <1>4
  <2>2. Entitled(q, settings.deny)
    <3>1. q.audit = "true" => "execution.audit.read" \in p.permissions
      BY <1>3, <1>10, ParseIs
    <3>2. permissionOf[q.route] \in p.permissions \/ ~settings.deny
      BY <1>10 DEF Authorize
    <3> QED
      BY <1>6, <3>1, <3>2 DEF Entitled
  <2>3. in.limit = q.limit /\ in.consistency = q.consistency
    BY <1>3, <1>10, ParseIs
  <2>4. GoodConn(r)
    BY <1>6, <1>10, <2>1, <2>2, <2>3 DEF GoodConn
  <2> QED
    BY <1>5, <1>10, <2>4, GoOnGood
<1> QED
  BY <1>7, <1>8, <1>9, <1>10

LEMMA RanksAre == \A level : ParseConsistency(level) \in Int
  BY DEF ParseConsistency

LEMMA TypesHaveFields ==
  ASSUME NEW route \in Routes PROVE DefaultFieldsFor(typeOf[route]) # {}
<1>1. typeOf[route] \in {"resource_status", "resource_configuration", "resource_read",
                         "execution_status", "execution_history", "resource_details"}
  BY DEF Routes, typeOf
<1> QED
  BY <1>1 DEF DefaultFieldsFor

LEMMA LimitsAre ==
  ASSUME NEW in, in.limit \in Int
  PROVE  limitOf(in) >= 1 /\ (MaxHistoryItems > 0 => limitOf(in) <= MaxHistoryItems)
  BY GatewayAssumption DEF limitOf

\* A classification within every limit, and as strict as demanded.
Proper(cls, floor, asked) ==
  /\ cls.fields # {} /\ cls.fields \subseteq KnownFields
  /\ cls.limit >= 1 /\ (MaxHistoryItems > 0 => cls.limit <= MaxHistoryItems)
  /\ cls.consistency >= ParseConsistency(floor)
  /\ cls.consistency >= ParseConsistency(asked)

\* What the classifier lets pass asks for something, within every limit, and as
\* strictly as rule and caller demand.
LEMMA ClassifyIs ==
  ASSUME NEW in, NEW route \in Routes, NEW rules, NEW cls, in.limit \in Int,
         cls = Classify(in, typeOf[route], rules)
  PROVE  /\ Refused(cls) \/ Proper(cls, rules[cls.type].consistency, in.consistency)
         /\ cls.status \notin {401, 403}
<1>1. PICK type : type = typeOf[route]
  OBVIOUS
<1>2. PICK fields : fields = fieldsOf(in, rules[type], type)
  OBVIOUS
<1>3. PICK limit : limit = limitOf(in)
  OBVIOUS
<1>4. PICK rank : rank = Stricter(ParseConsistency(rules[type].consistency),
                                  ParseConsistency(in.consistency))
  OBVIOUS
<1>5. CASE cls = Refusal(400) \/ cls = Refusal(500)
  BY <1>5 DEF Refusal, Refused, Ok
<1>6. CASE /\ cls = [status |-> Ok, type |-> type, fields |-> fields, consistency |-> rank,
                     limit |-> limit, audit |-> in.audit]
           /\ fields \subseteq KnownFields
  <2>1. /\ cls.status = Ok /\ cls.type = type /\ cls.fields = fields /\ cls.consistency = rank
        /\ cls.limit = limit
    BY <1>6
  <2>2. fields # {}
    BY <1>1, <1>2, TypesHaveFields DEF fieldsOf
  <2>3. limit >= 1 /\ (MaxHistoryItems > 0 => limit <= MaxHistoryItems)
    BY <1>3, LimitsAre
  <2>4. /\ rank >= ParseConsistency(rules[type].consistency)
        /\ rank >= ParseConsistency(in.consistency)
    BY <1>4, RanksAre DEF Stricter
  <2> QED
    BY <1>6, <2>1, <2>2, <2>3, <2>4 DEF Ok, Proper
<1> QED
  BY <1>1, <1>2, <1>3, <1>4, <1>5, <1>6 DEF Classify

LEMMA ClassifyStepGood == ASSUME ProcInv, NEW c \in Connections, ClassifyStep(c) PROVE ProcInv'
<1>1. PICK o : o = conn[c]
  OBVIOUS
<1>2. PICK cls : cls = Classify(o.in, typeOf[o.q.route], settings.rules)
  OBVIOUS
<1>3. PICK floor : floor = settings.rules[cls.type].consistency
  OBVIOUS
<1>4. PICK r : r = [stage |-> "service", q |-> o.q, tenant |-> o.tenant, deny |-> o.deny,
                    cls |-> cls, floor |-> floor]
  OBVIOUS
<1>5. /\ o.stage = "classify" /\ UNCHANGED worldVars
      /\ IF Refused(cls) THEN Answer(c, cls.status) ELSE GoOn(c, r)
  BY <1>1, <1>2, <1>3, <1>4 DEF ClassifyStep
<1>6. /\ o.q.limit \in Int /\ o.q.route \in Routes /\ Entitled(o.q, o.deny)
      /\ o.tenant = Claimed(o.q) /\ o.in.limit \in Int /\ o.in.consistency = o.q.consistency
  BY <1>1, <1>5 DEF ProcInv, GoodConn
<1>7. PICK in : in = o.in /\ in.limit \in Int
  BY <1>6
<1>8. PICK route \in Routes : route = o.q.route
  BY <1>6
<1>9. PICK rules : rules = settings.rules
  OBVIOUS
<1>10. cls = Classify(in, typeOf[route], rules)
  BY <1>2, <1>7, <1>8, <1>9
<1>11. /\ Refused(cls) \/ Proper(cls, rules[cls.type].consistency, in.consistency)
       /\ cls.status \notin {401, 403}
  BY <1>7, <1>10, ClassifyIs
<1>12. CASE Refused(cls)
  BY <1>1, <1>5, <1>11, <1>12, AnswerGood
<1>13. CASE ~Refused(cls)
  <2>1. /\ r.stage = "service" /\ r.q = o.q /\ r.tenant = o.tenant /\ r.deny = o.deny
        /\ r.cls = cls /\ r.floor = floor
    BY <1>4
  <2>2. Proper(cls, floor, o.q.consistency)
    BY <1>3, <1>6, <1>7, <1>9, <1>11, <1>13
  <2>3. Entrusted(r)
    BY <1>6, <2>1, <2>2 DEF Entrusted, Proper
  <2>4. GoodConn(r)
    BY <1>6, <2>1, <2>3 DEF GoodConn
  <2> QED
    BY <1>1, <1>5, <1>13, <2>4, GoOnGood
<1> QED
  BY <1>12, <1>13

LEMMA ServiceReturnsGood ==
  ASSUME ProcInv, NEW c \in Connections, ServiceReturns(c) PROVE ProcInv'
<1>1. conn[c].stage = "service" /\ UNCHANGED worldVars
  BY DEF ServiceReturns
<1>2. PICK status \in {200, 206, 404, 500, 503, 504} : Answer(c, status)
  BY DEF ServiceReturns
<1>3. status \notin {401, 403}
  BY <1>2
<1> QED
  BY <1>1, <1>2, <1>3, AnswerGood

LEMMA ProcInvInit == ProcInit => ProcInv
<1> SUFFICES ASSUME ProcInit PROVE ProcInv
  OBVIOUS
<1>1. Busy = {} /\ listener["public"] = "none"
  BY DEF ProcInit, Busy, Listeners
<1>2. Life
  BY <1>1 DEF ProcInit, Life, Building, Serving
<1>3. GoodReply
  BY DEF ProcInit, GoodReply, NoReply
<1>4. conn = [c \in Connections |-> conn[c]] /\ \A c \in Connections : GoodConn(conn[c])
  BY FreeConnGood DEF ProcInit
<1>5. listener = [l \in Listeners |-> listener[l]]
  BY DEF ProcInit
<1> QED
  BY <1>2, <1>3, <1>4, <1>5 DEF ProcInv

LEMMA ProcInvNext == ProcInv /\ [ProcNext]_procVars => ProcInv'
<1> SUFFICES ASSUME ProcInv, [ProcNext]_procVars PROVE ProcInv'
  OBVIOUS
<1>1. CASE UNCHANGED procVars
  BY <1>1 DEF procVars, ProcInv, Life, GoodReply, Busy
<1>2. CASE World /\ reply' = NoReply
  BY <1>2, BuildStepGood, RunGood, ExitGood, SurroundingsGood DEF World, Run
<1>3. ASSUME NEW c \in Connections, Request(c) PROVE ProcInv'
  BY <1>3, AcceptRequestGood, LimitGood, AuthenticateStepGood, ServeGood, ClassifyStepGood,
     ServiceReturnsGood DEF Request
<1> QED
  BY <1>1, <1>2, <1>3 DEF ProcNext

LEMMA ProcInvAlways == ProcSpec => []ProcInv
  BY ProcInvInit, ProcInvNext, PTL DEF ProcSpec

\* For any number of connections, whatever falls together: while a request is
\* under way within the grace period, nothing it uses has been closed (run,
\* Server.Shutdown, the cleanup of build).
THEOREM DrainsBeforeItCloses == ProcSpec => []DrainedBeforeClosing
<1>1. ProcInv => DrainedBeforeClosing
  BY DEF ProcInv, Life, Building, Serving, AllOpen, DrainedBeforeClosing
<1> QED
  BY <1>1, ProcInvAlways, PTL

\* For any requests, roles and configurations, reloaded at any moment: what
\* reaches the service is within the caller's tenant, roles and limits and at
\* least as consistent as asked, and 401 and 403 are only for those who are not
\* entitled (Authenticate, ResolveTenant, Authorize, serve, Classify).
THEOREM ServiceSeesTheEntitled == ProcSpec => []ServedAsEntitled
<1>1. ProcInv => ServedAsEntitled
  BY DEF ProcInv, GoodConn, Entrusted, GoodReply, ServedAsEntitled
<1> QED
  BY <1>1, ProcInvAlways, PTL

-----------------------------------------------------------------------------
(* The configuration.                                                       *)

\* What a configuration in force has: a valid rule for every built-in request
\* type, and overrides as the decoder made them.
Sound(c) ==
  /\ \A t \in DOMAIN Builtin :
       /\ t \in DOMAIN c.table /\ validateRule(c.table[t])
       /\ "maxStale" \in DOMAIN c.table[t] /\ "allowStale" \in DOMAIN c.table[t]
  /\ \A n \in DOMAIN c.tenants : \A t \in DOMAIN c.tenants[n].table :
       Decoded(c.tenants[n].table[t])

GoodRequest(q) == q.pc # "idle" => q.type \in DOMAIN Builtin /\ starter = "running"

ConfigInv ==
  /\ file \in Documents \cup Revisions \cup {None}
  /\ starter \in {"loading", "loaded", "running", "refused"}
  /\ InForce => Sound(current)
  /\ watcher.pc = "loaded" => Sound(watcher.cfg)
  /\ forced.pc = "loaded" => Sound(forced.cfg)
  /\ GoodRequest(request)
  /\ RuleNeverLost

LEMMA ZeroRuleIs ==
  /\ "maxStale" \in DOMAIN ZeroRule /\ "allowStale" \in DOMAIN ZeroRule
  /\ ZeroRule["maxStale"] = 0
  BY DEF ZeroRule

LEMMA DecodedIs ==
  ASSUME NEW r, Decoded(r)
  PROVE  /\ "maxStale" \in DOMAIN r /\ "allowStale" \in DOMAIN r
         /\ r["maxStale"] \in Int
<1>1. DOMAIN r = DOMAIN ZeroRule
  BY DEF Decoded
<1> QED
  BY <1>1, ZeroRuleIs DEF Decoded

\* What is loaded has a complete, valid table.
LEMMA LoadIsSound ==
  ASSUME NEW doc \in Documents \cup Revisions, load(doc) # Rejected
  PROVE  Sound(load(doc))
<1>1. PICK named : named = IF doc.tableIsNull THEN <<>> ELSE applyEnv(doc.table)
  OBVIOUS
<1>2. PICK table : table = mergeRoutingDefaults(named)
  OBVIOUS
<1>3. PICK cfg : cfg = [kind |-> "config", blocks |-> doc.blocks, defaults |-> doc.defaults,
                        table |-> table, tenants |-> doc.tenants]
  OBVIOUS
<1>4. load(doc) = cfg /\ Validate(cfg)
  BY <1>1, <1>2, <1>3 DEF load
<1>5. cfg.table = table /\ cfg.tenants = doc.tenants
  BY <1>3
<1>6. table = [t \in DOMAIN named \cup DOMAIN Builtin |->
                 IF t \in DOMAIN named THEN completed(t, named[t]) ELSE Builtin[t]]
  BY <1>2 DEF mergeRoutingDefaults
<1>7. ASSUME NEW t \in DOMAIN Builtin
      PROVE  /\ t \in DOMAIN table
             /\ "maxStale" \in DOMAIN table[t] /\ "allowStale" \in DOMAIN table[t]
  <2>1. "maxStale" \in DOMAIN Builtin[t] /\ "allowStale" \in DOMAIN Builtin[t]
    BY DecodedIs, ProviderAssumption
  <2>2. DOMAIN completed(t, named[t]) = DOMAIN Builtin[t]
    BY DEF completed, merged
  <2>3. t \in DOMAIN table /\ DOMAIN table[t] = DOMAIN Builtin[t]
    BY <1>6, <2>2
  <2> QED
    BY <2>1, <2>3
<1>8. \A t \in DOMAIN table : validateRule(table[t])
  BY <1>4, <1>5 DEF Validate
<1>9. \A n \in DOMAIN doc.tenants : \A t \in DOMAIN doc.tenants[n].table :
        Decoded(doc.tenants[n].table[t])
  BY ProviderAssumption
<1> QED
  BY <1>4, <1>5, <1>7, <1>8, <1>9 DEF Sound

LEMMA LoadedIsSound ==
  ASSUME ConfigInv, NEW cfg, cfg = Load, cfg # Rejected PROVE Sound(cfg)
<1>1. file \in Documents \cup Revisions /\ cfg = load(file)
  BY DEF ConfigInv, Load
<1>2. PICK doc : doc = file
  OBVIOUS
<1>3. Sound(load(doc))
  BY <1>1, <1>2, LoadIsSound
<1> QED
  BY <1>1, <1>2, <1>3

\* The merge of an override that sets max_stale, and of one that does not.
LEMMA ResolvedStale ==
  ASSUME NEW c, Sound(c), NEW tenant, NEW type \in DOMAIN Builtin,
         ResolveRule(c, tenant, type).allowStale,
         ~(ResolveRule(c, tenant, type).maxStale < 0)
  PROVE  ResolveRule(c, tenant, type).maxStale > 0
<1>1. PICK base : base = c.table[type]
  OBVIOUS
<1>2. /\ "maxStale" \in DOMAIN base /\ "allowStale" \in DOMAIN base
      /\ base.allowStale => base.maxStale > 0
  BY <1>1 DEF Sound, validateRule
<1>3. CASE ~Patched(c, tenant, type)
  BY <1>1, <1>2, <1>3 DEF ResolveRule
<1>4. CASE Patched(c, tenant, type)
  <2>1. PICK patch : patch = c.tenants[tenant].table[type]
    OBVIOUS
  <2>2. Decoded(patch)
    BY <1>4, <2>1 DEF Sound, Patched
  <2>3. patch["maxStale"] \in Int
    BY <2>2, DecodedIs
  <2>4. PICK m : m = merged(base, patch, ZeroRule, {})
    OBVIOUS
  <2>5. PICK allow : allow = (IF patch.maxStale # 0 THEN patch ELSE base).allowStale
    OBVIOUS
  <2>6. ResolveRule(c, tenant, type) = [m EXCEPT !.allowStale = allow]
    BY <1>1, <1>4, <2>1, <2>4, <2>5 DEF ResolveRule
  <2>7. /\ DOMAIN m = DOMAIN base
        /\ m["maxStale"] = IF patch["maxStale"] # 0 THEN patch["maxStale"] ELSE base["maxStale"]
    BY <1>2, <2>4, ZeroRuleIs DEF merged
  <2>8. /\ ResolveRule(c, tenant, type).maxStale = m["maxStale"]
        /\ ResolveRule(c, tenant, type).allowStale = allow
    BY <1>2, <2>6, <2>7
  <2>9. CASE patch["maxStale"] # 0
    BY <2>3, <2>7, <2>8, <2>9
  <2>10. CASE patch["maxStale"] = 0
    <3>1. allow = base.allowStale
      BY <2>5, <2>10
    <3> QED
      BY <1>2, <2>7, <2>8, <2>10, <3>1
  <2> QED
    BY <2>9, <2>10
<1> QED
  BY <1>3, <1>4

LEMMA LaterIs == DOMAIN Later = {"ttl", "route", "evaluate", "stale"}
  BY DEF Later

LEMMA ConfigInvInit == ConfigInit => ConfigInv
<1> SUFFICES ASSUME ConfigInit PROVE ConfigInv
  OBVIOUS
<1>1. watcher.pc = "idle" /\ forced.pc = "idle" /\ request.pc = "idle"
  BY DEF ConfigInit, Waiting
<1>2. ~lost
  BY DEF ConfigInit
<1> QED
  BY <1>1, <1>2 DEF ConfigInit, ConfigInv, InForce, GoodRequest, RuleNeverLost

\* The provider starts.
LEMMA StartGood == ASSUME ConfigInv, StartLoad \/ StartHash PROVE ConfigInv'
<1>1. CASE StartLoad
  <2>1. PICK cfg : /\ cfg = Load /\ current' = cfg
                   /\ starter' = IF cfg = Rejected THEN "refused" ELSE "loaded"
    BY <1>1 DEF StartLoad
  <2>2. starter = "loading" /\ UNCHANGED <<file, watcher, forced, request, lost>>
    BY <1>1 DEF StartLoad
  <2>3. InForce' => Sound(current)'
    <3>1. cfg # Rejected => Sound(cfg)
      BY <2>1, LoadedIsSound
    <3>2. InForce' => cfg # Rejected
      BY <2>1 DEF InForce
    <3> QED
      BY <2>1, <3>1, <3>2 DEF Sound
  <2>4. starter' \in {"loading", "loaded", "running", "refused"}
    BY <2>1
  <2>5. GoodRequest(request)' /\ RuleNeverLost'
    BY <2>2 DEF ConfigInv, GoodRequest, RuleNeverLost
  <2> QED
    BY <2>2, <2>3, <2>4, <2>5 DEF ConfigInv, Sound
<1>2. CASE StartHash
  <2>1. /\ starter = "loaded" /\ starter' = "running"
        /\ UNCHANGED <<file, current, watcher, forced, request, lost>>
    BY <1>2 DEF StartHash
  <2>2. GoodRequest(request)' /\ RuleNeverLost'
    BY <2>1 DEF ConfigInv, GoodRequest, RuleNeverLost
  <2> QED
    BY <2>1, <2>2 DEF ConfigInv, InForce, Sound
<1> QED
  BY <1>1, <1>2

\* The watcher hashes, loads and swaps.
LEMMA WatchGood == ASSUME ConfigInv, Watch PROVE ConfigInv'
<1>1. UNCHANGED <<file, starter, forced, request, lost>>
  BY DEF Watch, WatchHash, WatchRefused, WatchLoad, WatchSwap
<1>2. /\ file' \in Documents \cup Revisions \cup {None}
      /\ starter' \in {"loading", "loaded", "running", "refused"}
      /\ forced'.pc = "loaded" => Sound(forced.cfg)'
      /\ GoodRequest(request)' /\ RuleNeverLost'
  BY <1>1 DEF ConfigInv, GoodRequest, RuleNeverLost, Sound
<1>3. CASE WatchHash
  <2>1. watcher'.pc = "changed" /\ UNCHANGED current
    BY <1>3 DEF WatchHash
  <2> QED
    BY <1>1, <1>2, <2>1 DEF ConfigInv, InForce, Sound
<1>4. CASE WatchRefused
  <2>1. watcher'.pc = "idle" /\ UNCHANGED current
    BY <1>4 DEF WatchRefused, Waiting
  <2> QED
    BY <1>1, <1>2, <2>1 DEF ConfigInv, InForce, Sound
<1>5. CASE WatchLoad
  <2>1. PICK cfg : /\ cfg = Load /\ cfg # Rejected
                   /\ watcher' = [pc |-> "loaded", hash |-> watcher.hash, cfg |-> cfg,
                                   from |-> hashFile]
    BY <1>5 DEF WatchLoad
  <2>2. watcher'.cfg = cfg /\ Sound(cfg)
    BY <2>1, LoadedIsSound
  <2>3. Sound(watcher.cfg)'
    BY <2>2 DEF Sound
  <2>4. UNCHANGED current
    BY <1>5 DEF WatchLoad
  <2> QED
    BY <1>1, <1>2, <2>3, <2>4 DEF ConfigInv, InForce, Sound
<1>6. CASE WatchSwap
  <2>1. watcher.pc = "loaded" /\ current' = watcher.cfg /\ watcher'.pc = "idle"
    BY <1>6 DEF WatchSwap, Waiting
  <2>2. Sound(current)'
    BY <2>1 DEF ConfigInv, Sound
  <2> QED
    BY <1>2, <2>1, <2>2 DEF ConfigInv
<1> QED
  BY <1>3, <1>4, <1>5, <1>6 DEF Watch

\* A forced reload.
LEMMA ReloadGood == ASSUME ConfigInv, ReloadLoad \/ ReloadSwap PROVE ConfigInv'
<1>1. UNCHANGED <<file, starter, watcher, request, lost>>
  BY DEF ReloadLoad, ReloadSwap
<1>2. /\ file' \in Documents \cup Revisions \cup {None}
      /\ starter' \in {"loading", "loaded", "running", "refused"}
      /\ watcher'.pc = "loaded" => Sound(watcher.cfg)'
      /\ GoodRequest(request)' /\ RuleNeverLost'
  BY <1>1 DEF ConfigInv, GoodRequest, RuleNeverLost, Sound
<1>3. CASE ReloadLoad
  <2>1. PICK cfg : /\ cfg = Load /\ cfg # Rejected
                   /\ forced' = [pc |-> "loaded", cfg |-> cfg, from |-> hashFile]
    BY <1>3 DEF ReloadLoad
  <2>2. forced'.cfg = cfg /\ Sound(cfg)
    BY <2>1, LoadedIsSound
  <2>3. Sound(forced.cfg)'
    BY <2>2 DEF Sound
  <2>4. UNCHANGED current
    BY <1>3 DEF ReloadLoad
  <2> QED
    BY <1>1, <1>2, <2>3, <2>4 DEF ConfigInv, InForce, Sound
<1>4. CASE ReloadSwap
  <2>1. forced.pc = "loaded" /\ current' = forced.cfg /\ forced'.pc = "idle"
    BY <1>4 DEF ReloadSwap, Waiting
  <2>2. Sound(current)'
    BY <2>1 DEF ConfigInv, Sound
  <2> QED
    BY <1>2, <2>1, <2>2 DEF ConfigInv
<1> QED
  BY <1>3, <1>4

LEMMA EditFileGood ==
  ASSUME ConfigInv, NEW doc \in Revisions \cup {None}, EditFile(doc) PROVE ConfigInv'
<1>1. file' = doc /\ UNCHANGED <<current, starter, watcher, forced, request, lost>>
  BY DEF EditFile
<1>2. GoodRequest(request)' /\ RuleNeverLost'
  BY <1>1 DEF ConfigInv, GoodRequest, RuleNeverLost
<1> QED
  BY <1>1, <1>2 DEF ConfigInv, InForce, Sound

\* A request reads the configuration of the moment, and finds its rule.
LEMMA ReadToClassifyGood ==
  ASSUME ConfigInv, NEW tenant, NEW type \in DOMAIN Builtin, ReadToClassify(tenant, type)
  PROVE  ConfigInv'
<1>1. /\ starter = "running" /\ lost' = (lost \/ ~Found(current, type))
      /\ request' = [pc |-> "ttl", tenant |-> tenant, type |-> type]
      /\ UNCHANGED <<file, current, starter, watcher, forced>>
  BY DEF ReadToClassify
<1>2. request'.type = type
  BY <1>1
<1>3. GoodRequest(request)'
  BY <1>1, <1>2 DEF GoodRequest
<1>4. Found(current, type)
  BY <1>1 DEF ConfigInv, InForce, Sound, Found
<1>5. ~lost'
  BY <1>1, <1>4 DEF ConfigInv, RuleNeverLost
<1> QED
  BY <1>1, <1>3, <1>5 DEF ConfigInv, InForce, Sound, RuleNeverLost

LEMMA ReadAgainGood == ASSUME ConfigInv, ReadAgain PROVE ConfigInv'
<1>1. /\ request.pc \in DOMAIN Later /\ UNCHANGED <<file, current, starter, watcher, forced>>
      /\ lost' = (lost \/ (request.pc # "evaluate" /\ ~Found(current, request.type)))
  BY DEF ReadAgain
<1>2. request.type \in DOMAIN Builtin /\ starter = "running"
  BY <1>1, LaterIs DEF ConfigInv, GoodRequest
<1>3. Found(current, request.type)
  BY <1>2 DEF ConfigInv, InForce, Sound, Found
<1>4. ~lost'
  BY <1>1, <1>3 DEF ConfigInv, RuleNeverLost
<1>5. \/ request' = Waiting
      \/ \E n : request' = [pc |-> n, tenant |-> request.tenant, type |-> request.type]
  BY DEF ReadAgain
<1>6. request'.pc = "idle" \/ request'.type = request.type
  BY <1>5 DEF Waiting
<1>7. GoodRequest(request)'
  BY <1>1, <1>2, <1>6 DEF GoodRequest
<1> QED
  BY <1>1, <1>4, <1>7 DEF ConfigInv, InForce, Sound, RuleNeverLost

LEMMA ConfigInvNext == ConfigInv /\ [ConfigNext]_configVars => ConfigInv'
<1> SUFFICES ASSUME ConfigInv, [ConfigNext]_configVars PROVE ConfigInv'
  OBVIOUS
<1>1. CASE UNCHANGED configVars
  BY <1>1 DEF configVars, ConfigInv, InForce, Sound, GoodRequest, RuleNeverLost
<1> QED
  BY <1>1, StartGood, WatchGood, ReloadGood, EditFileGood, ReadToClassifyGood, ReadAgainGood
     DEF ConfigNext

LEMMA ConfigInvAlways == ConfigSpec => []ConfigInv
  BY ConfigInvInit, ConfigInvNext, PTL DEF ConfigSpec

\* Whatever the files say and whenever they are reloaded, a request finds its
\* rule at every one of its reads (Provider.Get, ResolveRule).
THEOREM EveryReadFindsItsRule == ConfigSpec => []RuleNeverLost
<1>1. ConfigInv => RuleNeverLost
  BY DEF ConfigInv
<1> QED
  BY <1>1, ConfigInvAlways, PTL

\* Whatever the file, the environment and the override of a tenant say, a rule
\* that allows stale answers bounds their age, but for a negative max_stale in
\* the override (load, Validate, ResolveRule).
THEOREM StaleAnswersAreBounded == ConfigSpec => []StaleIsBounded
<1>1. ConfigInv => StaleIsBounded
  <2> SUFFICES ASSUME ConfigInv, InForce, NEW tenant \in Tenants, NEW type \in DOMAIN Builtin,
                      ResolveRule(current, tenant, type).allowStale,
                      ~patchedBelowZero(tenant, type)
               PROVE  ceiling(tenant, type) > 0
    BY DEF StaleIsBounded
  <2>1. Sound(current)
    BY DEF ConfigInv
  <2>2. PICK c : c = current
    OBVIOUS
  <2>3. ResolveRule(c, tenant, type).maxStale > 0
    BY <2>1, <2>2, ResolvedStale DEF patchedBelowZero
  <2>4. ceiling(tenant, type) = ResolveRule(c, tenant, type).maxStale
    <3>1. PICK m : m = ResolveRule(c, tenant, type).maxStale
      OBVIOUS
    <3>2. m # 0
      BY <2>3, <3>1
    <3> QED
      BY <2>2, <3>1, <3>2 DEF ceiling
  <2> QED
    BY <2>3, <2>4
<1> QED
  BY <1>1, ConfigInvAlways, PTL

-----------------------------------------------------------------------------
(* The rate limiter.                                                        *)

\* What one call that was overtaken may add to the allowance.
Overtaken == 1 + RPS * Stall

\* last may be ahead of seen by a call that came late and got nothing.
GoodBucket(b) ==
  /\ b.tokens \in Nat /\ b.last \in Int /\ b.seen \in Int
  /\ b.last <= time /\ b.last <= b.seen + Stall

GoodCall(a) ==
  /\ a.pc \in {"idle", "found", "missed"}
  /\ a.pc # "idle" =>
       /\ a.key \in BucketKeys
       /\ a.at \in Int /\ a.at <= time /\ time <= a.at + Stall
  /\ a.pc = "found" =>
       /\ a.bucket \in DOMAIN buckets
       /\ \A k \in DOMAIN limiters : limiters[k] = a.bucket => k = a.key

\* What was admitted and what is left in the bucket together is what the bucket
\* has got up to the last time it gave a token.
Covered(k, b) == admitted[k] + b.tokens <= Capacity + RPS * b.last + late[k] * Overtaken

\* A key that had a bucket and has none any more has used it up to be full again.
Recovered(k) == admitted[k] <= RPS * time + late[k] * Overtaken

LimiterInv ==
  /\ time \in Nat
  /\ \E n \in Nat : DOMAIN buckets = 1..n
  /\ buckets = [i \in DOMAIN buckets |-> buckets[i]]
  /\ \A i \in DOMAIN buckets : GoodBucket(buckets[i])
  /\ limiters = [k \in DOMAIN limiters |-> limiters[k]]
  /\ \A k \in DOMAIN limiters : k \in BucketKeys /\ limiters[k] \in DOMAIN buckets
  /\ \A j, k \in DOMAIN limiters : limiters[j] = limiters[k] => j = k
  /\ caller = [c \in Callers |-> caller[c]] /\ \A c \in Callers : GoodCall(caller[c])
  /\ admitted = [k \in BucketKeys |-> admitted[k]] /\ \A k \in BucketKeys : admitted[k] \in Nat
  /\ late = [k \in BucketKeys |-> late[k]] /\ \A k \in BucketKeys : late[k] \in Nat
  /\ \A k \in BucketKeys :
       IF k \in DOMAIN limiters THEN Covered(k, buckets[limiters[k]]) ELSE Recovered(k)

\* The bucket holds at least the token that a new one gives at once.
LEMMA CapacityIs == Capacity \in Nat /\ Capacity >= 1 /\ RPS \in Nat /\ RPS >= 1 /\ Stall \in Nat
  BY LimiterAssumption DEF Capacity

LEMMA OvertakenIs == Overtaken \in Nat /\ Overtaken >= 1 /\ Overtaken = 1 + RPS * Stall /\ RPS * Stall \in Nat
  BY CapacityIs DEF Overtaken

LEMMA Earned ==
  ASSUME NEW a \in Int, NEW b \in Int
  PROVE  /\ RPS * a \in Int /\ RPS * b \in Int
         /\ RPS * (a - b) = RPS * a - RPS * b
         /\ RPS * (a + b) = RPS * a + RPS * b
         /\ a <= b => RPS * a <= RPS * b
<1>1. RPS \in Nat
  BY CapacityIs
<1>2. RPS * a \in Int /\ RPS * b \in Int
  BY <1>1
<1>3. RPS * (a - b) = RPS * a - RPS * b /\ RPS * (a + b) = RPS * a + RPS * b
  BY <1>1
<1>4. a <= b => RPS * a <= RPS * b
  <2> SUFFICES ASSUME a <= b PROVE RPS * a <= RPS * b
    OBVIOUS
  <2>1. PICK d \in Nat : b = a + d
    <3>1. b - a \in Nat /\ b = a + (b - a)
      OBVIOUS
    <3> QED
      BY <3>1
  <2>2. RPS * d \in Nat
    BY <1>1
  <2>3. RPS * b = RPS * a + RPS * d
    BY <1>1, <2>1
  <2> QED
    BY <1>2, <2>2, <2>3
<1> QED
  BY <1>2, <1>3, <1>4

LEMMA LateOnce ==
  ASSUME NEW l \in Nat
  PROVE  l * Overtaken \in Nat /\ (l + 1) * Overtaken = l * Overtaken + Overtaken
  BY OvertakenIs

LEMMA RefilledIs ==
  ASSUME NEW b, b.tokens \in Nat, b.last \in Int, NEW at \in Int
  PROVE  /\ Refilled(b, at) \in Nat
         /\ at <= b.last => Refilled(b, at) <= b.tokens
         /\ at >= b.last => Refilled(b, at) <= b.tokens + (RPS * at - RPS * b.last)
<1>1. PICK t, l : t = b.tokens /\ l = b.last /\ t \in Nat /\ l \in Int
  OBVIOUS
<1>2. PICK e : e = IF at > l THEN RPS * (at - l) ELSE 0
  OBVIOUS
<1>3. e \in Nat /\ (at <= l => e = 0) /\ (at >= l => e = RPS * at - RPS * l)
  <2>1. CASE at > l
    <3>1. e = RPS * (at - l)
      BY <1>2, <2>1
    <3>2. e = RPS * at - RPS * l
      BY <1>1, <3>1, Earned
    <3>3. at - l \in Nat
      BY <1>1, <2>1
    <3>4. e \in Nat
      BY <3>1, <3>3, CapacityIs
    <3> QED
      BY <1>1, <2>1, <3>2, <3>4
  <2>2. CASE ~(at > l)
    <3>1. e = 0
      BY <1>2, <2>2
    <3>2. at >= l => at = l
      BY <1>1, <2>2
    <3>3. RPS * l \in Int
      BY <1>1, Earned
    <3> QED
      BY <3>1, <3>2, <3>3
  <2> QED
    BY <2>1, <2>2
<1>4. Refilled(b, at) = IF t + e > Capacity THEN Capacity ELSE t + e
  BY <1>1, <1>2 DEF Refilled
<1>5. Refilled(b, at) \in Nat /\ Refilled(b, at) <= t + e
  BY <1>1, <1>3, <1>4, CapacityIs
<1>6. at <= l => Refilled(b, at) <= t
  BY <1>1, <1>3, <1>5
<1>7. at >= l => Refilled(b, at) <= t + (RPS * at - RPS * l)
  BY <1>1, <1>3, <1>5
<1> QED
  BY <1>1, <1>5, <1>6, <1>7

\* A token taken in time comes out of what the bucket has earned; one that is
\* taken with an old clock reading costs what that reading earns twice.
LEMMA TakenIsCovered ==
  ASSUME NEW b, b.tokens \in Nat, b.last \in Int, NEW at \in Int, b.last <= at + Stall,
         NEW a \in Nat, NEW l \in Nat, Refilled(b, at) >= 1,
         a + b.tokens <= Capacity + RPS * b.last + l * Overtaken
  PROVE  /\ b.last <= at => a + 1 + (Refilled(b, at) - 1) <= Capacity + RPS * at + l * Overtaken
         /\ a + 1 + (Refilled(b, at) - 1) <= Capacity + RPS * at + (l + 1) * Overtaken
<1>1. PICK t, s, r : t = b.tokens /\ s = b.last /\ r = Refilled(b, at) /\ t \in Nat /\ s \in Int /\ r \in Nat
  BY RefilledIs
<1>2. /\ at <= s => r <= t
      /\ at >= s => r <= t + (RPS * at - RPS * s)
  BY <1>1, RefilledIs
<1>3. PICK pa, ps, pw, lo, o : /\ pa = RPS * at /\ ps = RPS * s /\ pw = RPS * Stall
                               /\ lo = l * Overtaken /\ o = Overtaken
  OBVIOUS
<1>4. pa \in Int /\ ps \in Int /\ pw \in Nat /\ lo \in Nat /\ o = 1 + pw
  BY <1>1, <1>3, Earned, OvertakenIs, LateOnce
<1>5. (l + 1) * Overtaken = lo + o
  BY <1>3, LateOnce
<1>6. ps <= pa + pw
  <2>1. RPS * s <= RPS * (at + Stall)
    BY <1>1, CapacityIs, Earned
  <2> QED
    BY <1>3, <2>1, CapacityIs, Earned
<1>7. a + t <= Capacity + ps + lo /\ Capacity \in Nat
  BY <1>1, <1>3, CapacityIs
<1>8. /\ at <= s => r <= t
      /\ at >= s => r <= t + (pa - ps)
  BY <1>2, <1>3
<1>9. s <= at => a + 1 + (r - 1) <= Capacity + pa + lo
  BY <1>1, <1>4, <1>7, <1>8
<1>10. a + 1 + (r - 1) <= Capacity + pa + (lo + o)
  BY <1>1, <1>4, <1>6, <1>7, <1>8
<1> QED
  BY <1>1, <1>3, <1>5, <1>9, <1>10

LEMMA LimiterInvInit == LimiterInit => LimiterInv
<1> SUFFICES ASSUME LimiterInit PROVE LimiterInv
  OBVIOUS
<1>1. DOMAIN buckets = 1..0 /\ DOMAIN limiters = {}
  BY DEF LimiterInit
<1>2. \E n \in Nat : DOMAIN buckets = 1..n
  BY <1>1
<1>3. \A c \in Callers : GoodCall(caller[c])
  BY DEF LimiterInit, Outside, GoodCall
<1>4. \A k \in BucketKeys : Recovered(k)
  <2>1. 0 * Overtaken = 0 /\ RPS * 0 = 0
    BY OvertakenIs, CapacityIs
  <2> QED
    BY <2>1 DEF LimiterInit, Recovered
<1>5. /\ buckets = [i \in DOMAIN buckets |-> buckets[i]]
      /\ limiters = [k \in DOMAIN limiters |-> limiters[k]]
      /\ \A i \in DOMAIN buckets : GoodBucket(buckets[i])
  BY <1>1 DEF LimiterInit
<1>6. /\ caller = [c \in Callers |-> caller[c]]
      /\ admitted = [k \in BucketKeys |-> admitted[k]]
      /\ late = [k \in BucketKeys |-> late[k]]
  BY DEF LimiterInit
<1>7. /\ time \in Nat
      /\ \A k \in BucketKeys : admitted[k] \in Nat /\ late[k] \in Nat
  BY DEF LimiterInit
<1> QED
  BY <1>1, <1>2, <1>3, <1>4, <1>5, <1>6, <1>7 DEF LimiterInv

\* What a step may add to the calls admitted without a bucket, or beside it.
LEMMA AddedLate ==
  ASSUME NEW a \in Nat, NEW l \in Nat, NEW x \in Int, a <= x + l * Overtaken
  PROVE  a + 1 <= x + (l + 1) * Overtaken
<1>1. PICK lo, o : lo = l * Overtaken /\ o = Overtaken
  OBVIOUS
<1>2. lo \in Nat /\ o \in Nat /\ o >= 1 /\ (l + 1) * Overtaken = lo + o
  BY <1>1, LateOnce, OvertakenIs
<1> QED
  BY <1>1, <1>2

LEMMA TakenIsGood ==
  ASSUME NEW b, GoodBucket(b), time \in Nat, NEW at \in Int, at <= time, time <= at + Stall
  PROVE  GoodBucket(Taken(b, at))
<1>1. Refilled(b, at) \in Nat
  BY RefilledIs DEF GoodBucket
<1>2. PICK r : r = Refilled(b, at) /\ r \in Nat
  BY <1>1
<1>3. CASE r >= 1
  <2>1. Taken(b, at) = [tokens |-> r - 1, last |-> at, seen |-> at]
    BY <1>2, <1>3 DEF Taken
  <2>2. r - 1 \in Nat /\ at <= at + Stall
    BY <1>2, <1>3, CapacityIs
  <2> QED
    BY <2>1, <2>2 DEF GoodBucket
<1>4. CASE ~(r >= 1)
  <2>1. Taken(b, at) = [tokens |-> b.tokens, last |-> b.last, seen |-> at]
    BY <1>2, <1>4 DEF Taken
  <2>2. b.last <= at + Stall
    BY CapacityIs DEF GoodBucket
  <2> QED
    BY <2>1, <2>2 DEF GoodBucket
<1> QED
  BY <1>3, <1>4

\* The invariant after a step that neither the clock nor the map of limiters takes.
LEMMA UseGood ==
  ASSUME LimiterInv, NEW c \in Callers, NEW id \in DOMAIN buckets, NEW evicted \in BOOLEAN,
         Use(c, id, evicted), caller[c].pc # "idle", UNCHANGED <<time, limiters, lastGC>>,
         \A k \in DOMAIN limiters : limiters[k] = id => k = caller[c].key,
         caller[c].key \notin DOMAIN limiters \/ limiters[caller[c].key] # id => evicted
  PROVE  LimiterInv'
<1>1. PICK at, key, b, r : /\ at = caller[c].at /\ key = caller[c].key /\ b = buckets[id]
                           /\ r = Refilled(buckets[id], caller[c].at) /\ r = Refilled(b, at)
  OBVIOUS
<1>2. /\ key \in BucketKeys /\ at \in Int /\ at <= time /\ time <= at + Stall
      /\ GoodBucket(b) /\ time \in Nat
  BY <1>1 DEF LimiterInv, GoodCall
<1>3. r \in Nat
  BY <1>1, <1>2, RefilledIs DEF GoodBucket
<1>4. PICK new : new = Taken(b, at)
  OBVIOUS
<1>5. buckets' = [buckets EXCEPT ![id] = new]
  BY <1>1, <1>4 DEF Use
<1>6. /\ DOMAIN buckets' = DOMAIN buckets /\ buckets'[id] = new
      /\ \A i \in DOMAIN buckets : i # id => buckets'[i] = buckets[i]
      /\ buckets' = [i \in DOMAIN buckets' |-> buckets'[i]]
  BY <1>5 DEF LimiterInv
<1>7. \A i \in DOMAIN buckets' : GoodBucket(buckets[i])'
  <2>1. GoodBucket(new)
    BY <1>2, <1>4, TakenIsGood
  <2> QED
    BY <1>6, <2>1 DEF LimiterInv, GoodBucket
<1>8. /\ caller' = [d \in Callers |-> caller'[d]]
      /\ \A d \in Callers : GoodCall(caller[d])'
  <2>1. caller' = [caller EXCEPT ![c] = Outside]
    BY DEF Use
  <2>2. \A d \in Callers : caller'[d] = IF d = c THEN Outside ELSE caller[d]
    BY <2>1 DEF LimiterInv
  <2>3. caller' = [d \in Callers |-> caller'[d]]
    BY <2>1 DEF LimiterInv
  <2>4. ASSUME NEW d \in Callers PROVE GoodCall(caller[d])'
    <3>1. CASE d = c
      BY <2>2, <3>1 DEF GoodCall, Outside
    <3>2. CASE d # c
      <4>1. PICK a : a = caller[d]
        OBVIOUS
      <4>2. GoodCall(a)
        BY <4>1 DEF LimiterInv
      <4>3. caller'[d] = a
        BY <2>2, <3>2, <4>1
      <4> QED
        BY <1>6, <4>2, <4>3 DEF GoodCall
    <3> QED
      BY <3>1, <3>2
  <2> QED
    BY <2>3, <2>4
<1>9. /\ Refilled(buckets[id], caller[c].at) = r /\ caller[c].key = key /\ caller[c].at = at
  BY <1>1
<1>10. admitted' = [admitted EXCEPT ![key] = IF (r >= 1) THEN @ + 1 ELSE @]
  BY <1>9 DEF Use
<1>11. late' = [late EXCEPT ![key] = IF (r >= 1) /\ (evicted \/ at < time) THEN @ + 1 ELSE @]
  BY <1>9 DEF Use
<1>12. /\ admitted' = [k \in BucketKeys |-> admitted'[k]]
       /\ \A k \in BucketKeys : k # key => admitted'[k] = admitted[k]
       /\ admitted'[key] = IF (r >= 1) THEN admitted[key] + 1 ELSE admitted[key]
  BY <1>2, <1>10 DEF LimiterInv
<1>13. /\ late' = [k \in BucketKeys |-> late'[k]]
       /\ \A k \in BucketKeys : k # key => late'[k] = late[k]
       /\ (r >= 1) /\ (evicted \/ at < time) => late'[key] = late[key] + 1
       /\ ~((r >= 1) /\ (evicted \/ at < time)) => late'[key] = late[key]
  BY <1>2, <1>11 DEF LimiterInv
<1>14. \A k \in BucketKeys : admitted'[k] \in Nat /\ late'[k] \in Nat
  <2>1. /\ \A k \in BucketKeys : admitted[k] \in Nat /\ late[k] \in Nat
    BY DEF LimiterInv
  <2>2. admitted'[key] \in Nat
    BY <1>2, <1>12, <2>1
  <2>3. late'[key] = late[key] \/ late'[key] = late[key] + 1
    BY <1>13
  <2>4. late'[key] \in Nat
    BY <1>2, <2>1, <2>3
  <2> QED
    BY <1>12, <1>13, <2>1, <2>2, <2>4
<1>15. ASSUME NEW k \in BucketKeys
       PROVE  (IF k \in DOMAIN limiters THEN Covered(k, buckets[limiters[k]]) ELSE Recovered(k))'
  <2>1. CASE k # key
    <3>1. CASE k \in DOMAIN limiters
      <4>1. limiters[k] \in DOMAIN buckets /\ limiters[k] # id
        BY <1>1, <2>1, <3>1 DEF LimiterInv
      <4>2. buckets'[limiters'[k]] = buckets[limiters[k]]
        BY <1>6, <4>1
      <4>3. Covered(k, buckets[limiters[k]])
        BY <3>1 DEF LimiterInv
      <4> QED
        BY <1>12, <1>13, <2>1, <3>1, <4>2, <4>3 DEF Covered
    <3>2. CASE k \notin DOMAIN limiters
      BY <1>12, <1>13, <2>1, <3>2 DEF LimiterInv, Recovered
    <3> QED
      BY <3>1, <3>2
  <2>2. CASE k = key
    <3>1. PICK a, l : a = admitted[key] /\ l = late[key] /\ a \in Nat /\ l \in Nat
      BY <1>2 DEF LimiterInv
    <3>2. CASE ~(r >= 1)
      <4>1. admitted'[k] = a /\ late'[k] = l
        BY <1>12, <1>13, <2>2, <3>1, <3>2
      <4>2. new.tokens = b.tokens /\ new.last = b.last
        BY <1>1, <1>4, <1>9, <3>2 DEF Taken
      <4>3. CASE k \in DOMAIN limiters
        <5>1. buckets'[limiters'[k]].tokens = buckets[limiters[k]].tokens
              /\ buckets'[limiters'[k]].last = buckets[limiters[k]].last
          BY <1>1, <1>6, <4>2, <4>3 DEF LimiterInv
        <5>2. Covered(k, buckets[limiters[k]])
          BY <4>3 DEF LimiterInv
        <5> QED
          BY <2>2, <3>1, <4>1, <4>3, <5>1, <5>2 DEF Covered
      <4>4. CASE k \notin DOMAIN limiters
        BY <2>2, <3>1, <4>1, <4>4 DEF LimiterInv, Recovered
      <4> QED
        BY <4>3, <4>4
    <3>3. CASE (r >= 1) /\ (evicted \/ at < time) /\ ~(k \in DOMAIN limiters /\ limiters[k] = id)
      <4>1. admitted'[k] = a + 1 /\ late'[k] = l + 1
        BY <1>12, <1>13, <2>2, <3>1, <3>3
      <4>2. CASE k \in DOMAIN limiters
        <5>1. PICK o : o = buckets[limiters[k]] /\ GoodBucket(o)
          BY <4>2 DEF LimiterInv
        <5>2. buckets'[limiters'[k]] = o
          BY <1>6, <3>3, <4>2, <5>1 DEF LimiterInv
        <5>3. a + o.tokens <= Capacity + RPS * o.last + l * Overtaken
          BY <2>2, <3>1, <4>2, <5>1 DEF LimiterInv, Covered
        <5>4. PICK x, t : x = RPS * o.last /\ t = o.tokens
          OBVIOUS
        <5>5. x \in Int /\ t \in Nat /\ Capacity \in Nat
          BY <5>1, <5>4, Earned, CapacityIs DEF GoodBucket
        <5>6. PICK lo : lo = l * Overtaken /\ lo \in Nat
          BY <3>1, LateOnce
        <5>7. a + t <= Capacity + x + lo
          BY <5>3, <5>4, <5>6
        <5>8. a <= (Capacity + x - t) + lo /\ Capacity + x - t \in Int
          BY <3>1, <5>5, <5>6, <5>7
        <5>9. a + 1 <= (Capacity + x - t) + (l + 1) * Overtaken
          BY <3>1, <5>6, <5>8, AddedLate
        <5>10. PICK lp : lp = (l + 1) * Overtaken /\ lp \in Int
          BY <3>1, LateOnce, OvertakenIs
        <5>11. a + 1 + t <= Capacity + x + lp
          BY <3>1, <5>5, <5>9, <5>10
        <5> QED
          BY <4>1, <4>2, <5>2, <5>4, <5>10, <5>11 DEF Covered
      <4>3. CASE k \notin DOMAIN limiters
        <5>1. a <= RPS * time + l * Overtaken /\ RPS * time \in Int
          BY <1>2, <2>2, <3>1, <4>3, Earned DEF LimiterInv, Recovered
        <5>2. a + 1 <= RPS * time + (l + 1) * Overtaken
          BY <3>1, <5>1, AddedLate
        <5> QED
          BY <4>1, <4>3, <5>2 DEF Recovered
      <4> QED
        BY <4>2, <4>3
    <3>4. CASE (r >= 1) /\ k \in DOMAIN limiters /\ limiters[k] = id
      <4>1. /\ new.tokens = r - 1 /\ new.last = at
            /\ r >= 1
        BY <1>1, <1>4, <1>9, <3>4 DEF Taken
      <4>2. a + b.tokens <= Capacity + RPS * b.last + l * Overtaken
        BY <1>1, <2>2, <3>1, <3>4 DEF LimiterInv, Covered
      <4>3. /\ b.tokens \in Nat /\ b.last \in Int /\ b.last <= time /\ b.last <= at + Stall
        BY <1>2, CapacityIs DEF GoodBucket
      <4>4. /\ b.last <= at => a + 1 + (r - 1) <= Capacity + RPS * at + l * Overtaken
            /\ a + 1 + (r - 1) <= Capacity + RPS * at + (l + 1) * Overtaken
        BY <1>1, <1>2, <3>1, <4>1, <4>2, <4>3, TakenIsCovered
      <4>5. buckets'[limiters'[k]] = new
        BY <1>6, <3>4
      <4>6. admitted'[k] = a + 1
        BY <1>12, <2>2, <3>1, <3>4
      <4>7. CASE evicted \/ at < time
        <5>1. late'[k] = l + 1
          BY <1>13, <2>2, <3>1, <3>4, <4>7
        <5> QED
          BY <3>4, <4>1, <4>4, <4>5, <4>6, <5>1 DEF Covered
      <4>8. CASE ~(evicted \/ at < time)
        <5>1. late'[k] = l /\ b.last <= at
          BY <1>2, <1>13, <2>2, <3>1, <3>4, <4>3, <4>8
        <5> QED
          BY <3>4, <4>1, <4>4, <4>5, <4>6, <5>1 DEF Covered
      <4> QED
        BY <4>7, <4>8
    <3>5. ~(k \in DOMAIN limiters /\ limiters[k] = id) => evicted
      BY <1>1, <2>2
    <3> QED
      BY <3>2, <3>3, <3>4, <3>5
  <2> QED
    BY <2>1, <2>2
<1>16. /\ time' \in Nat /\ \E n \in Nat : DOMAIN buckets' = 1..n
       /\ limiters' = [k \in DOMAIN limiters' |-> limiters'[k]]
       /\ \A k \in DOMAIN limiters' : k \in BucketKeys /\ limiters'[k] \in DOMAIN buckets'
       /\ \A j, k \in DOMAIN limiters' : limiters'[j] = limiters'[k] => j = k
  BY <1>6 DEF LimiterInv
<1> QED
  BY <1>6, <1>7, <1>8, <1>12, <1>13, <1>14, <1>15, <1>16 DEF LimiterInv

\* A call that a goroutine begins with keeps the others as they are.
LEMMA LookupGood ==
  ASSUME LimiterInv, NEW c \in Callers, NEW client \in Clients, Lookup(c, client)
  PROVE  LimiterInv'
<1>1. PICK k : k = keyOf(client) /\ k \in BucketKeys
  BY DEF BucketKeys
<1>2. PICK n : n = IF k \in DOMAIN limiters
                     THEN [pc |-> "found", key |-> k, at |-> time, bucket |-> limiters[k]]
                     ELSE [pc |-> "missed", key |-> k, at |-> time]
  OBVIOUS
<1>3. /\ caller' = [caller EXCEPT ![c] = n]
      /\ UNCHANGED <<time, limiters, buckets, lastGC, admitted, late>>
  BY <1>1, <1>2 DEF Lookup
<1>4. time \in Nat /\ time <= time + Stall
  BY CapacityIs DEF LimiterInv
<1>5. GoodCall(n)
  BY <1>1, <1>2, <1>4 DEF LimiterInv, GoodCall
<1>6. /\ caller' = [d \in Callers |-> caller'[d]]
      /\ \A d \in Callers : caller'[d] = IF d = c THEN n ELSE caller[d]
  BY <1>3 DEF LimiterInv
<1>7. \A d \in Callers : GoodCall(caller'[d])
  BY <1>5, <1>6 DEF LimiterInv
<1>8. \A d \in Callers : GoodCall(caller[d])'
  BY <1>3, <1>7 DEF GoodCall
<1> QED
  BY <1>3, <1>6, <1>8 DEF LimiterInv, GoodBucket, Covered, Recovered

LEMMA AllowFoundGood ==
  ASSUME LimiterInv, NEW c \in Callers, AllowFound(c) PROVE LimiterInv'
<1>1. PICK id : id = caller[c].bucket
  OBVIOUS
<1>2. /\ caller[c].pc = "found" /\ UNCHANGED <<time, limiters, lastGC>>
      /\ Use(c, id, ~(caller[c].key \in DOMAIN limiters /\ limiters[caller[c].key] = id))
  BY <1>1 DEF AllowFound
<1>3. /\ id \in DOMAIN buckets
      /\ \A k \in DOMAIN limiters : limiters[k] = id => k = caller[c].key
  BY <1>1, <1>2 DEF LimiterInv, GoodCall
<1>4. CASE caller[c].key \in DOMAIN limiters /\ limiters[caller[c].key] = id
  <2>1. Use(c, id, FALSE)
    BY <1>2, <1>4 DEF Use
  <2>2. /\ ~(caller[c].key \notin DOMAIN limiters \/ limiters[caller[c].key] # id)
        /\ caller[c].pc # "idle"
    BY <1>2, <1>4
  <2> QED
    BY <1>2, <1>3, <2>1, <2>2, UseGood
<1>5. CASE ~(caller[c].key \in DOMAIN limiters /\ limiters[caller[c].key] = id)
  <2>1. Use(c, id, TRUE)
    BY <1>2, <1>5 DEF Use
  <2> QED
    BY <1>2, <1>3, <2>1, UseGood
<1> QED
  BY <1>4, <1>5

LEMMA AllowMadeMeanwhileGood ==
  ASSUME LimiterInv, NEW c \in Callers, AllowMadeMeanwhile(c) PROVE LimiterInv'
<1>1. PICK id : id = limiters[caller[c].key]
  OBVIOUS
<1>2. /\ caller[c].pc = "missed" /\ caller[c].key \in DOMAIN limiters
      /\ Use(c, id, FALSE) /\ UNCHANGED <<time, limiters, lastGC>>
  BY <1>1 DEF AllowMadeMeanwhile
<1>3. /\ id \in DOMAIN buckets
      /\ \A k \in DOMAIN limiters : limiters[k] = id => k = caller[c].key
  BY <1>1, <1>2 DEF LimiterInv
<1>4. ~(caller[c].key \notin DOMAIN limiters \/ limiters[caller[c].key] # id)
  BY <1>1, <1>2
<1> QED
  BY <1>2, <1>3, <1>4, UseGood

\* A bucket that is idle for long enough to be swept would be full by now.
LEMMA IdleIsRecovered ==
  ASSUME NEW b, GoodBucket(b), time \in Nat, NEW k \in BucketKeys,
         admitted[k] \in Nat, late[k] \in Nat, Covered(k, b),
         NEW at \in Int, at <= time, at - b.seen > IdleEviction
  PROVE  Recovered(k)
<1>1. PICK a, l, t, s, w : /\ a = admitted[k] /\ l = late[k] /\ t = b.tokens /\ s = b.last
                           /\ w = IdleEviction + 1 - Stall
  OBVIOUS
<1>2. a \in Nat /\ l \in Nat /\ t \in Nat /\ s \in Int /\ w \in Int
  BY <1>1, LimiterAssumption DEF GoodBucket
<1>3. s <= time - w
  <2>1. b.seen \in Int /\ s <= b.seen + Stall /\ IdleEviction \in Nat /\ Stall \in Nat
    BY <1>1, LimiterAssumption DEF GoodBucket
  <2> QED
    BY <1>1, <1>2, <2>1
<1>4. Capacity <= RPS * w
  BY <1>1, LimiterAssumption
<1>5. PICK ps, pt, pw, lo : ps = RPS * s /\ pt = RPS * time /\ pw = RPS * w /\ lo = l * Overtaken
  OBVIOUS
<1>6. ps \in Int /\ pt \in Int /\ pw \in Int /\ lo \in Nat
  BY <1>2, <1>5, Earned, LateOnce
<1>7. ps <= pt - pw
  <2>1. time - w \in Int /\ RPS * (time - w) = pt - pw
    BY <1>2, <1>5, Earned
  <2>2. RPS * s <= RPS * (time - w)
    BY <1>2, <1>3, <2>1, Earned
  <2> QED
    BY <1>5, <2>1, <2>2
<1>8. a + t <= Capacity + ps + lo
  BY <1>1, <1>5 DEF Covered
<1>9. a <= pt + lo
  BY <1>2, <1>4, <1>5, <1>6, <1>7, <1>8, CapacityIs
<1> QED
  BY <1>1, <1>5, <1>9 DEF Recovered

\* What a sweep leaves is as it was, and who lost a bucket has recovered.
SweptWell(map) ==
  /\ map = [k \in DOMAIN map |-> map[k]]
  /\ \A k \in DOMAIN map : k \in DOMAIN limiters /\ map[k] = limiters[k]
  /\ \A k \in DOMAIN limiters : k \notin DOMAIN map => Recovered(k)

LEMMA SweptIs ==
  ASSUME LimiterInv, NEW at \in Int, at <= time PROVE SweptWell(Swept(at))
<1>1. CASE ~Sweeps(at)
  BY <1>1 DEF Swept, SweptWell, LimiterInv
<1>2. CASE Sweeps(at)
  <2>1. Swept(at) = [k \in {j \in DOMAIN limiters : ~idle(j, at)} |-> limiters[k]]
    BY <1>2 DEF Swept
  <2>2. ASSUME NEW k \in DOMAIN limiters, idle(k, at) PROVE Recovered(k)
    <3>1. PICK b : b = buckets[limiters[k]]
      OBVIOUS
    <3>2. /\ k \in BucketKeys /\ GoodBucket(b) /\ time \in Nat /\ Covered(k, b)
          /\ admitted[k] \in Nat /\ late[k] \in Nat
      BY <3>1 DEF LimiterInv
    <3>3. at - b.seen > IdleEviction
      BY <2>2, <3>1 DEF idle
    <3> QED
      BY <3>2, <3>3, IdleIsRecovered
  <2> QED
    BY <2>1, <2>2 DEF SweptWell
<1> QED
  BY <1>1, <1>2

LEMMA MissedIs ==
  ASSUME LimiterInv, NEW c \in Callers, Missed(c)
  PROVE  /\ caller[c].key \in BucketKeys /\ caller[c].key \notin DOMAIN limiters
         /\ caller[c].at \in Int /\ caller[c].at <= time /\ time <= caller[c].at + Stall
  BY DEF Missed, LimiterInv, GoodCall

LEMMA AllowFullGood ==
  ASSUME LimiterInv, NEW c \in Callers, AllowFull(c) PROVE LimiterInv'
<1>1. PICK m : m = Swept(caller[c].at)
  OBVIOUS
<1>2. /\ limiters' = m /\ caller' = [caller EXCEPT ![c] = Outside]
      /\ UNCHANGED <<time, buckets, admitted, late>> /\ Missed(c)
  BY <1>1 DEF AllowFull
<1>3. SweptWell(m)
  BY <1>1, <1>2, MissedIs, SweptIs
<1>4. /\ caller' = [d \in Callers |-> caller'[d]]
      /\ \A d \in Callers : caller'[d] = IF d = c THEN Outside ELSE caller[d]
  BY <1>2 DEF LimiterInv
<1>5. ASSUME NEW d \in Callers PROVE GoodCall(caller[d])'
  <2>1. CASE d = c
    BY <1>4, <2>1 DEF GoodCall, Outside
  <2>2. CASE d # c
    <3>1. PICK a : a = caller[d] /\ GoodCall(a)
      BY DEF LimiterInv
    <3>2. caller'[d] = a
      BY <1>4, <2>2, <3>1
    <3> QED
      BY <1>2, <1>3, <3>1, <3>2 DEF GoodCall, SweptWell
  <2> QED
    BY <2>1, <2>2
<1>6. ASSUME NEW k \in BucketKeys
      PROVE  (IF k \in DOMAIN limiters THEN Covered(k, buckets[limiters[k]]) ELSE Recovered(k))'
  BY <1>2, <1>3 DEF LimiterInv, SweptWell, Covered, Recovered
<1>7. /\ limiters' = [k \in DOMAIN limiters' |-> limiters'[k]]
      /\ \A k \in DOMAIN limiters' : k \in BucketKeys /\ limiters'[k] \in DOMAIN buckets'
      /\ \A j, k \in DOMAIN limiters' : limiters'[j] = limiters'[k] => j = k
  BY <1>2, <1>3 DEF LimiterInv, SweptWell
<1>8. \A i \in DOMAIN buckets' : GoodBucket(buckets[i])'
  BY <1>2 DEF LimiterInv, GoodBucket
<1> QED
  BY <1>2, <1>4, <1>5, <1>6, <1>7, <1>8 DEF LimiterInv

\* A new bucket owes nothing: whoever has none has recovered.
LEMMA NewIsCovered ==
  ASSUME NEW a \in Nat, NEW l \in Nat, time \in Nat, NEW at \in Int, at <= time, time <= at + Stall,
         a <= RPS * time + l * Overtaken
  PROVE  /\ at = time => a + 1 + (Capacity - 1) <= Capacity + RPS * at + l * Overtaken
         /\ a + 1 + (Capacity - 1) <= Capacity + RPS * at + (l + 1) * Overtaken
<1>1. PICK pa, pt, pw, lo, o : /\ pa = RPS * at /\ pt = RPS * time /\ pw = RPS * Stall
                               /\ lo = l * Overtaken /\ o = Overtaken
  OBVIOUS
<1>2. pa \in Int /\ pt \in Int /\ pw \in Nat /\ lo \in Nat /\ o = 1 + pw /\ Capacity \in Nat
  BY <1>1, Earned, OvertakenIs, LateOnce, CapacityIs
<1>3. (l + 1) * Overtaken = lo + o
  BY <1>1, LateOnce
<1>4. pt <= pa + pw
  <2>1. RPS * time <= RPS * (at + Stall)
    BY CapacityIs, Earned
  <2> QED
    BY <1>1, <2>1, CapacityIs, Earned
<1>5. a <= pt + lo
  BY <1>1
<1>6. a + 1 + (Capacity - 1) <= Capacity + pt + lo
  BY <1>2, <1>5
<1>7. a + 1 + (Capacity - 1) <= Capacity + pa + (lo + o)
  BY <1>2, <1>4, <1>5
<1> QED
  BY <1>1, <1>3, <1>6, <1>7

LEMMA FreshBucket ==
  ASSUME NEW n \in Nat
  PROVE  /\ Cardinality(1..n) = n /\ n + 1 \notin 1..n
         /\ (1..n) \cup {n + 1} = 1..(n + 1)
<1>1. Cardinality(1..n) = n
  BY FS_Interval
<1> QED
  BY <1>1

LEMMA AllowNewGood ==
  ASSUME LimiterInv, NEW c \in Callers, AllowNew(c) PROVE LimiterInv'
<1>1. PICK m, at, key, id, new :
        /\ m = Swept(caller[c].at) /\ at = caller[c].at /\ key = caller[c].key
        /\ id = Cardinality(DOMAIN buckets) + 1
        /\ new = [tokens |-> Capacity - 1, last |-> at, seen |-> at]
  OBVIOUS
<1>2. /\ limiters' = [j \in DOMAIN m \cup {key} |-> IF j = key THEN id ELSE m[j]]
      /\ buckets' = [i \in DOMAIN buckets \cup {id} |-> IF i = id THEN new ELSE buckets[i]]
      /\ admitted' = [admitted EXCEPT ![key] = @ + 1]
      /\ late' = [late EXCEPT ![key] = IF at < time THEN @ + 1 ELSE @]
      /\ caller' = [caller EXCEPT ![c] = Outside]
      /\ time' = time /\ Missed(c)
  BY <1>1 DEF AllowNew
<1>3. /\ key \in BucketKeys /\ key \notin DOMAIN limiters /\ time \in Nat
      /\ at \in Int /\ at <= time /\ time <= at + Stall
  BY <1>1, <1>2, MissedIs DEF LimiterInv
<1>4. SweptWell(m)
  BY <1>1, <1>3, SweptIs
<1>5. PICK n \in Nat : DOMAIN buckets = 1..n
  BY DEF LimiterInv
<1>6. id = n + 1 /\ id \notin DOMAIN buckets /\ DOMAIN buckets' = 1..(n + 1) /\ n + 1 \in Nat
  BY <1>1, <1>2, <1>5, FreshBucket
<1>7. /\ buckets' = [i \in DOMAIN buckets' |-> buckets'[i]]
      /\ DOMAIN buckets' = DOMAIN buckets \cup {id} /\ buckets'[id] = new
      /\ \A i \in DOMAIN buckets : buckets'[i] = buckets[i]
  BY <1>2, <1>6
<1>8. \A i \in DOMAIN buckets' : GoodBucket(buckets[i])'
  <2>1. new.tokens \in Nat /\ new.last = at /\ new.seen = at /\ at <= at + Stall
    BY <1>1, <1>3, CapacityIs
  <2>2. GoodBucket(new)
    BY <1>3, <2>1 DEF GoodBucket
  <2> QED
    BY <1>2, <1>7, <2>2 DEF LimiterInv, GoodBucket
<1>9. /\ DOMAIN limiters' = DOMAIN m \cup {key} /\ limiters'[key] = id
      /\ \A k \in DOMAIN m : k # key /\ limiters'[k] = limiters[k] /\ limiters'[k] # id
      /\ limiters' = [k \in DOMAIN limiters' |-> limiters'[k]]
  <2>1. \A k \in DOMAIN m : k # key /\ m[k] = limiters[k] /\ limiters[k] # id
    BY <1>3, <1>4, <1>6 DEF SweptWell, LimiterInv
  <2> QED
    BY <1>2, <2>1
<1>10. /\ \A k \in DOMAIN limiters' : k \in BucketKeys /\ limiters'[k] \in DOMAIN buckets'
       /\ \A j, k \in DOMAIN limiters' : limiters'[j] = limiters'[k] => j = k
  BY <1>3, <1>4, <1>7, <1>9 DEF LimiterInv, SweptWell
<1>11. /\ caller' = [d \in Callers |-> caller'[d]]
       /\ \A d \in Callers : caller'[d] = IF d = c THEN Outside ELSE caller[d]
  BY <1>2 DEF LimiterInv
<1>12. ASSUME NEW d \in Callers PROVE GoodCall(caller[d])'
  <2>1. CASE d = c
    BY <1>11, <2>1 DEF GoodCall, Outside
  <2>2. CASE d # c
    <3>1. PICK a : a = caller[d] /\ GoodCall(a)
      BY DEF LimiterInv
    <3>2. caller'[d] = a
      BY <1>11, <2>2, <3>1
    <3>3. a.pc = "found" => /\ a.bucket \in DOMAIN buckets'
                            /\ \A k \in DOMAIN limiters' : limiters'[k] = a.bucket => k = a.key
      <4> SUFFICES ASSUME a.pc = "found" PROVE /\ a.bucket \in DOMAIN buckets'
                                               /\ \A k \in DOMAIN limiters' :
                                                    limiters'[k] = a.bucket => k = a.key
        OBVIOUS
      <4>1. /\ a.bucket \in DOMAIN buckets /\ a.bucket # id
            /\ \A k \in DOMAIN limiters : limiters[k] = a.bucket => k = a.key
        BY <1>6, <3>1 DEF GoodCall
      <4>2. \A k \in DOMAIN m : k \in DOMAIN limiters
        BY <1>4 DEF SweptWell
      <4> QED
        BY <1>7, <1>9, <4>1, <4>2
    <3> QED
      BY <1>2, <3>1, <3>2, <3>3 DEF GoodCall
  <2> QED
    BY <2>1, <2>2
<1>13. PICK a, l : a = admitted[key] /\ l = late[key] /\ a \in Nat /\ l \in Nat
  BY <1>3 DEF LimiterInv
<1>14. /\ admitted' = [k \in BucketKeys |-> admitted'[k]] /\ admitted'[key] = a + 1
       /\ \A k \in BucketKeys : k # key => admitted'[k] = admitted[k]
  BY <1>2, <1>3, <1>13 DEF LimiterInv
<1>15. /\ late' = [k \in BucketKeys |-> late'[k]]
       /\ late'[key] = IF at < time THEN l + 1 ELSE l
       /\ \A k \in BucketKeys : k # key => late'[k] = late[k]
  BY <1>2, <1>3, <1>13 DEF LimiterInv
<1>16. \A k \in BucketKeys : admitted'[k] \in Nat /\ late'[k] \in Nat
  BY <1>13, <1>14, <1>15 DEF LimiterInv
<1>17. Covered(key, buckets[limiters[key]])'
  <2>1. a <= RPS * time + l * Overtaken
    BY <1>3, <1>13 DEF LimiterInv, Recovered
  <2>2. /\ at = time => a + 1 + (Capacity - 1) <= Capacity + RPS * at + l * Overtaken
        /\ a + 1 + (Capacity - 1) <= Capacity + RPS * at + (l + 1) * Overtaken
    BY <1>3, <1>13, <2>1, NewIsCovered
  <2>3. buckets'[limiters'[key]] = new /\ new.tokens = Capacity - 1 /\ new.last = at
    BY <1>1, <1>7, <1>9
  <2>4. CASE at < time
    BY <1>14, <1>15, <2>2, <2>3, <2>4 DEF Covered
  <2>5. CASE at = time
    <3>1. late'[key] = l
      BY <1>3, <1>15, <2>5
    <3> QED
      BY <1>14, <2>2, <2>3, <2>5, <3>1 DEF Covered
  <2> QED
    BY <1>3, <2>4, <2>5
<1>18. ASSUME NEW k \in BucketKeys
       PROVE  (IF k \in DOMAIN limiters THEN Covered(k, buckets[limiters[k]]) ELSE Recovered(k))'
  <2>1. CASE k = key
    BY <1>9, <1>17, <2>1
  <2>2. CASE k # key /\ k \in DOMAIN m
    <3>1. Covered(k, buckets[limiters[k]]) /\ limiters[k] \in DOMAIN buckets
      BY <1>4, <2>2 DEF LimiterInv, SweptWell
    <3>2. k \in DOMAIN limiters' /\ buckets'[limiters'[k]] = buckets[limiters[k]]
      BY <1>7, <1>9, <2>2, <3>1
    <3> QED
      BY <1>14, <1>15, <2>2, <3>1, <3>2 DEF Covered
  <2>3. CASE k # key /\ k \notin DOMAIN m
    <3>1. Recovered(k) /\ k \notin DOMAIN limiters'
      BY <1>4, <1>9, <2>3 DEF LimiterInv, SweptWell
    <3> QED
      BY <1>2, <1>14, <1>15, <2>3, <3>1 DEF Recovered
  <2> QED
    BY <2>1, <2>2, <2>3
<1> QED
  BY <1>2, <1>3, <1>6, <1>7, <1>8, <1>9, <1>10, <1>11, <1>12, <1>14, <1>15, <1>16, <1>18
     DEF LimiterInv

LEMMA LimiterTickGood == ASSUME LimiterInv, LimiterTick PROVE LimiterInv'
<1>1. /\ time' = time + 1 /\ UNCHANGED <<limiters, buckets, lastGC, caller, admitted, late>>
      /\ time \in Nat /\ time' \in Nat /\ time <= time'
  BY DEF LimiterTick, LimiterInv
<1>2. \A i \in DOMAIN buckets' : GoodBucket(buckets[i])'
  BY <1>1 DEF LimiterInv, GoodBucket
<1>3. ASSUME NEW c \in Callers PROVE GoodCall(caller[c])'
  <2>1. PICK a : a = caller[c] /\ GoodCall(a)
    BY DEF LimiterInv
  <2>2. a.pc # "idle" => time - a.at < Stall
    BY <2>1 DEF LimiterTick
  <2>3. a.pc # "idle" => a.at <= time' /\ time' <= a.at + Stall
    BY <1>1, <2>1, <2>2, CapacityIs DEF GoodCall
  <2> QED
    BY <1>1, <2>1, <2>3 DEF GoodCall
<1>4. ASSUME NEW k \in BucketKeys
      PROVE  (IF k \in DOMAIN limiters THEN Covered(k, buckets[limiters[k]]) ELSE Recovered(k))'
  <2>1. CASE k \in DOMAIN limiters
    BY <1>1, <2>1 DEF LimiterInv, Covered
  <2>2. CASE k \notin DOMAIN limiters
    <3>1. PICK a, lo, x, y : /\ a = admitted[k] /\ lo = late[k] * Overtaken
                             /\ x = RPS * time /\ y = RPS * time'
      OBVIOUS
    <3>2. a \in Nat /\ lo \in Nat /\ x \in Int /\ y \in Int /\ x <= y
      BY <1>1, <3>1, Earned, LateOnce DEF LimiterInv
    <3>3. a <= x + lo
      BY <2>2, <3>1 DEF LimiterInv, Recovered
    <3>4. a <= y + lo
      BY <3>2, <3>3
    <3> QED
      BY <1>1, <2>2, <3>1, <3>4 DEF Recovered
  <2> QED
    BY <2>1, <2>2
<1> QED
  BY <1>1, <1>2, <1>3, <1>4 DEF LimiterInv

LEMMA LimiterInvNext == LimiterInv /\ [LimiterNext]_limiterVars => LimiterInv'
<1> SUFFICES ASSUME LimiterInv, [LimiterNext]_limiterVars PROVE LimiterInv'
  OBVIOUS
<1>1. CASE UNCHANGED limiterVars
  <2>1. UNCHANGED <<time, limiters, buckets, caller, admitted, late>>
    BY <1>1 DEF limiterVars
  <2> QED
    BY <2>1 DEF LimiterInv, GoodBucket, GoodCall, Covered, Recovered
<1> QED
  BY <1>1, LookupGood, AllowFoundGood, AllowMadeMeanwhileGood, AllowFullGood, AllowNewGood,
     LimiterTickGood DEF LimiterNext, Allow

LEMMA LimiterInvAlways == LimiterSpec => []LimiterInv
  BY LimiterInvInit, LimiterInvNext, PTL DEF LimiterSpec

\* However calls, sweeps and the making of buckets interleave, a key is let
\* through no more often than burst and rate allow, but for the calls that the
\* clock or a sweep overtook (RateLimiter.Allow, gcLocked).
THEOREM NobodyExceedsTheAllowance == LimiterSpec => []AllowanceHeld
<1>1. LimiterInv => AllowanceHeld
  <2> SUFFICES ASSUME LimiterInv, NEW k \in BucketKeys
               PROVE  admitted[k] <= Capacity + RPS * time + late[k] * (1 + RPS * Stall)
    BY DEF AllowanceHeld
  <2>1. PICK a, lo, x : a = admitted[k] /\ lo = late[k] * Overtaken /\ x = RPS * time
    OBVIOUS
  <2>2. a \in Nat /\ lo \in Nat /\ x \in Int /\ Capacity \in Nat
    BY <2>1, Earned, LateOnce, CapacityIs DEF LimiterInv
  <2>3. a <= Capacity + x + lo
    <3>1. CASE k \in DOMAIN limiters
      <4>1. PICK t, y : t = buckets[limiters[k]].tokens /\ y = RPS * buckets[limiters[k]].last
        OBVIOUS
      <4>2. t \in Nat /\ y \in Int /\ y <= x
        BY <2>1, <3>1, <4>1, Earned DEF LimiterInv, GoodBucket
      <4>3. a + t <= Capacity + y + lo
        BY <2>1, <3>1, <4>1 DEF LimiterInv, Covered
      <4> QED
        BY <2>2, <4>2, <4>3
    <3>2. CASE k \notin DOMAIN limiters
      <4>1. a <= x + lo
        BY <2>1, <3>2 DEF LimiterInv, Recovered
      <4> QED
        BY <2>2, <4>1
    <3> QED
      BY <3>1, <3>2
  <2> QED
    BY <2>1, <2>3 DEF Overtaken
<1> QED
  BY <1>1, LimiterInvAlways, PTL

=============================================================================
