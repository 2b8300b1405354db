----------------------------- MODULE CacheManager -----------------------------
(***************************************************************************)
(* Cache-aside for one key: internal/cache/manager.go and memory.go, with   *)
(* the callers' side of it in internal/application/service.go (load, and    *)
(* the failure path of resourceView: serveStale and SetNegative).           *)
(*                                                                         *)
(* Requests miss, queue on the singleflight group and load from the         *)
(* sources; a request for strong consistency loads without looking;         *)
(* background refreshes replace an entry that nears its expiry.  Every      *)
(* cache operation, and the load between them, is a step of its own.        *)
(*                                                                         *)
(* asOf is the instant at which the data of an answer was read and its      *)
(* freshness evaluated.  The age the record had by then adds the same       *)
(* amount to the reported and to the true age, and is taken to be 0.        *)
(* The singleflight group is the Go library's (external).  The cross-process *)
(* lock is left out: losing it changes nothing, the loser loads anyway.     *)
(***************************************************************************)
EXTENDS Integers, FiniteSets

CONSTANTS
  Requests,        \* request goroutines
  Refreshers,      \* bound: background refresh goroutines alive at once
  CacheTTL,        \* the ttl of the request type, > 0
  NegativeTTL,     \* cfg.NegativeTTL, 0: no negative caching
  StaleGrace,      \* cfg.StaleGrace
  RefreshPercent,  \* cfg.Stampede.EarlyRefreshRatio
  MaxStale,        \* rule.MaxStale of a type that allows stale answers
  FailOpen,        \* cfg.FailOpen
  Budget,          \* server.request_timeout
  RefreshBudget,   \* refreshBudget
  MaxClock         \* bound: the last instant of a behaviour

ASSUME CacheAssumption ==
  /\ CacheTTL \in Nat \ {0} /\ NegativeTTL \in Nat /\ StaleGrace \in Nat
  /\ RefreshPercent \in 1..99 /\ MaxStale \in Nat /\ FailOpen \in BOOLEAN
  /\ Budget \in Nat /\ RefreshBudget \in Nat /\ MaxClock \in Nat

Longer(a, b) == IF a > b THEN a ELSE b

VARIABLES
  now,      \* the clock
  slot,     \* what the backend holds under the key
  flight,   \* the singleflight group: the request leading the call, or NoLeader
  req,      \* the requests
  refresh,  \* the background refreshes
  served    \* the answer the last step gave, if it gave one

vars == <<now, slot, flight, req, refresh, served>>

NoLeader == "nobody"
NoEntry == [kind |-> "none"]
Silence == [kind |-> "silence", how |-> "silence"]
Idle == [pc |-> "idle", strong |-> FALSE, gone |-> FALSE, start |-> 0,
         outcome |-> "none", asOf |-> 0]
Asleep == [phase |-> "idle", startedAt |-> 0, began |-> 0, asOf |-> 0, degraded |-> FALSE]

Init ==
  /\ now = 0
  /\ slot = NoEntry
  /\ flight = NoLeader
  /\ req = [p \in Requests |-> Idle]
  /\ refresh = [r \in Refreshers |-> Asleep]
  /\ served = Silence

-----------------------------------------------------------------------------
(* Entries                                                                  *)

\* Mutant: a degraded answer is kept like any other.
EntryUncapped(kind, asOf, degraded, ttl) ==
  [kind |-> kind, asOf |-> asOf, degraded |-> degraded, storedAt |-> now,
   ttl |-> ttl, expiresAt |-> now + ttl + StaleGrace]

\* store(): the entry is stamped now; a degraded or partial answer is kept for
\* the negative TTL at most; the backend keeps it for the grace beyond that.
Entry(kind, asOf, degraded, ttl) ==
  LET lifetime == IF degraded /\ NegativeTTL > 0 /\ ttl > NegativeTTL THEN NegativeTTL ELSE ttl
  IN  [kind |-> kind, asOf |-> asOf, degraded |-> degraded, storedAt |-> now,
       ttl |-> lifetime, expiresAt |-> now + lifetime + StaleGrace]

\* The backend may fail to take an entry; the caller does not notice.
Write(e) == slot' = e \/ UNCHANGED slot

\* The backend still has the entry.
Held == slot.kind # "none" /\ now <= slot.expiresAt

\* Mutant: get() takes whatever the backend still holds.
LiveHeld == Held

\* get(): held, and not logically expired.
Live == Held /\ now - slot.storedAt < slot.ttl

shouldEarlyRefresh ==
  slot.kind = "value" /\ (now - slot.storedAt) * 100 >= slot.ttl * RefreshPercent

\* What a caller is told, how it got it, how old the data is and how old the
\* cache says it is.
Answer(e, how) ==
  [kind |-> e.kind, how |-> how, degraded |-> e.degraded,
   age |-> now - e.asOf]
ErrorAnswer(causedBy) == [kind |-> "error", how |-> causedBy]

-----------------------------------------------------------------------------
(* GetOrLoad: the lookup                                                    *)

\* A hit that is far from its expiry, or whose refresh joins one that runs.
Hit(p) ==
  /\ req[p].pc = "idle"
  /\ Live
  /\ ~shouldEarlyRefresh \/ \A r \in Refreshers : refresh[r].phase # "idle"
  /\ served' = Answer(slot, "hit")
  /\ UNCHANGED <<now, slot, flight, req, refresh>>

\* A hit that also starts a background refresh.
HitAndRefresh(p, r) ==
  /\ req[p].pc = "idle"
  /\ Live
  /\ shouldEarlyRefresh
  /\ refresh[r].phase = "idle"
  /\ refresh' = [refresh EXCEPT ![r] = [Asleep EXCEPT !.phase = "spawned", !.startedAt = now]]
  /\ served' = Answer(slot, "hit")
  /\ UNCHANGED <<now, slot, flight, req>>

Arrive(p, at, wantsStrong) ==
  /\ req[p].pc = "idle"
  /\ req' = [req EXCEPT ![p] = [Idle EXCEPT !.pc = at, !.strong = wantsStrong, !.start = now]]

Miss(p) ==
  /\ ~Live
  /\ Arrive(p, "missed", FALSE)
  /\ served' = Silence
  /\ UNCHANGED <<now, slot, flight, refresh>>

\* The backend failed: with fail_open a miss, else the caller's error.
LookupErrorOpen(p) ==
  /\ FailOpen
  /\ Arrive(p, "missed", FALSE)
  /\ served' = Silence
  /\ UNCHANGED <<now, slot, flight, refresh>>

LookupErrorClosed(p) ==
  /\ ~FailOpen
  /\ req[p].pc = "idle"
  /\ served' = ErrorAnswer("backend")
  /\ UNCHANGED <<now, slot, flight, req, refresh>>

\* load() of the service: strong consistency does not look at the cache.
ArriveStrong(p) ==
  /\ Arrive(p, "loading", TRUE)
  /\ served' = Silence
  /\ UNCHANGED <<now, slot, flight, refresh>>

-----------------------------------------------------------------------------
(* GetOrLoad: the shared call                                               *)

Lead(p) ==
  /\ req[p].pc = "missed"
  /\ flight = NoLeader
  /\ flight' = p
  /\ req' = [req EXCEPT ![p].pc = "rechecking"]
  /\ served' = Silence
  /\ UNCHANGED <<now, slot, refresh>>

Wait(p) ==
  /\ req[p].pc = "missed"
  /\ flight # NoLeader
  /\ req' = [req EXCEPT ![p].pc = "waiting"]
  /\ served' = Silence
  /\ UNCHANGED <<now, slot, flight, refresh>>

\* The requests that end together with p's load.
Sharing(p) ==
  {p} \cup (IF req[p].strong THEN {} ELSE {q \in Requests : req[q].pc = "waiting"})

LeaveFlight(p) == flight' = IF flight = p THEN NoLeader ELSE flight

\* The call of p has an answer: it, and everybody who waited for it, have it.
Answered(p) ==
  /\ req' = [q \in Requests |-> IF q \in Sharing(p) THEN Idle ELSE req[q]]
  /\ LeaveFlight(p)

\* Another call may have filled the slot in the meantime.
RecheckHit(p) ==
  /\ req[p].pc = "rechecking"
  /\ Live
  /\ served' = Answer(slot, "shared")
  /\ Answered(p)
  /\ UNCHANGED <<now, slot, refresh>>

\* Mutant: the second look goes through GetOrLoad, and waits for its own call.
RecheckMissReentrant(p) ==
  /\ req[p].pc = "rechecking"
  /\ req' = [req EXCEPT ![p].pc = "waiting"]
  /\ served' = Silence
  /\ UNCHANGED <<now, slot, flight, refresh>>

\* A miss, or a backend error, which this second look ignores.
RecheckMiss(p) ==
  /\ req[p].pc = "rechecking"
  /\ req' = [req EXCEPT ![p].pc = "loading"]
  /\ served' = Silence
  /\ UNCHANGED <<now, slot, flight, refresh>>

\* The sources answered; the response is still to be put together.
LoadReturns(p) ==
  /\ req[p].pc = "loading"
  /\ \E outcome \in {"full", "degraded"} :
       req' = [req EXCEPT ![p] = [@ EXCEPT !.pc = "loaded", !.outcome = outcome, !.asOf = now]]
  /\ served' = Silence
  /\ UNCHANGED <<now, slot, flight, refresh>>

\* The load failed: nothing there, sources unusable, or the context of the
\* request that runs it is gone.  Everyone who shares the call shares that.
LoadFails(p) ==
  /\ req[p].pc = "loading"
  /\ \E outcome \in {"notfound", "error"} \cup (IF req[p].gone THEN {"cancelled"} ELSE {}) :
       req' = [q \in Requests |->
                 IF q \in Sharing(p)
                   THEN [req[q] EXCEPT !.pc = "failing", !.outcome = outcome, !.asOf = now]
                   ELSE req[q]]
  /\ LeaveFlight(p)
  /\ served' = Silence
  /\ UNCHANGED <<now, slot, refresh>>

Store(p) ==
  /\ req[p].pc = "loaded"
  /\ LET e == Entry("value", req[p].asOf, req[p].outcome = "degraded", CacheTTL)
     IN  Write(e) /\ served' = Answer(e, "shared")
  /\ Answered(p)
  /\ UNCHANGED <<now, refresh>>

-----------------------------------------------------------------------------
(* resourceView after an error: the last rung of the degradation ladder.    *)

Finish(p) ==
  /\ req[p].pc = "failing"
  /\ req' = [req EXCEPT ![p] = Idle]

\* Mutant of Usable: GetStale also returns a cached "not found".
UsableNegative(p) ==
  /\ ~req[p].strong
  /\ req[p].outcome # "notfound"
  /\ Held
  /\ MaxStale = 0 \/ now - slot.storedAt <= MaxStale

\* Mutant of Usable: the ceiling is counted from the expiry of the entry.
UsableSinceExpiry(p) ==
  /\ ~req[p].strong
  /\ req[p].outcome # "notfound"
  /\ Held
  /\ slot.kind = "value"
  /\ MaxStale = 0 \/ now - slot.storedAt - slot.ttl <= MaxStale

\* GetStale sees an expired entry, but never a cached "not found"; a ceiling
\* of 0 is none.
Usable(p) ==
  /\ ~req[p].strong
  /\ req[p].outcome # "notfound"
  /\ Held
  /\ slot.kind = "value"
  /\ MaxStale = 0 \/ now - slot.storedAt <= MaxStale

serveStale(p) ==
  /\ Finish(p)
  /\ Usable(p)
  /\ served' = Answer(slot, "stale")
  /\ UNCHANGED <<now, slot, flight, refresh>>

\* Mutant of SetNegative: the entry gets the lifetime of a real answer.
SetNegativeLong(p) ==
  /\ Finish(p)
  /\ req[p].outcome = "notfound"
  /\ LET e == Entry("negative", req[p].asOf, FALSE, CacheTTL)
     IN  Write(e) /\ served' = Answer(e, "shared")
  /\ UNCHANGED <<now, flight, refresh>>

\* Every caller of the failed call writes the negative entry for itself.
SetNegative(p) ==
  /\ Finish(p)
  /\ req[p].outcome = "notfound"
  /\ LET e == Entry("negative", req[p].asOf, FALSE, NegativeTTL)
     IN  /\ IF NegativeTTL > 0 THEN Write(e) ELSE UNCHANGED slot
         /\ served' = Answer(e, "shared")
  /\ UNCHANGED <<now, flight, refresh>>

\* Not every failure may be papered over, and the backend may fail once more.
ReportError(p) ==
  /\ Finish(p)
  /\ req[p].outcome # "notfound"
  /\ served' = ErrorAnswer(IF req[p].outcome = "cancelled" /\ ~req[p].gone
                             THEN "another's disconnect" ELSE "source")
  /\ UNCHANGED <<now, slot, flight, refresh>>

-----------------------------------------------------------------------------
(* backgroundRefresh                                                        *)

Flying(r) == refresh[r].phase \in {"loading", "loaded", "storing"}

\* The goroutine joins the refresh that runs, and ends with it, or runs one.
RefreshStarts(r) ==
  /\ refresh[r].phase = "spawned"
  /\ refresh' = [refresh EXCEPT ![r] = IF \E q \in Refreshers : Flying(q)
                                         THEN Asleep
                                         ELSE [@ EXCEPT !.phase = "loading", !.began = now]]
  /\ served' = Silence
  /\ UNCHANGED <<now, slot, flight, req>>

RefreshReturns(r) ==
  /\ refresh[r].phase = "loading"
  /\ \E bad \in BOOLEAN :
       refresh' = [refresh EXCEPT ![r] = [@ EXCEPT !.phase = "loaded", !.asOf = now,
                                                   !.degraded = bad]]
  /\ served' = Silence
  /\ UNCHANGED <<now, slot, flight, req>>

RefreshFails(r) ==
  /\ refresh[r].phase = "loading"
  /\ refresh' = [refresh EXCEPT ![r] = Asleep]
  /\ served' = Silence
  /\ UNCHANGED <<now, slot, flight, req>>

\* An entry stored since the refresh was triggered is kept.
StoredSince(r) == Live /\ slot.storedAt > refresh[r].startedAt

RefreshYields(r) ==
  /\ refresh[r].phase = "loaded"
  /\ StoredSince(r)
  /\ refresh' = [refresh EXCEPT ![r] = Asleep]
  /\ served' = Silence
  /\ UNCHANGED <<now, slot, flight, req>>

\* No such entry was seen: there is none, or the backend failed.
RefreshGoesOn(r) ==
  /\ refresh[r].phase = "loaded"
  /\ refresh' = [refresh EXCEPT ![r].phase = "storing"]
  /\ served' = Silence
  /\ UNCHANGED <<now, slot, flight, req>>

RefreshStores(r) ==
  /\ refresh[r].phase = "storing"
  /\ Write(Entry("value", refresh[r].asOf, refresh[r].degraded, CacheTTL))
  /\ refresh' = [refresh EXCEPT ![r] = Asleep]
  /\ served' = Silence
  /\ UNCHANGED <<now, flight, req>>

-----------------------------------------------------------------------------

\* Invalidate, InvalidateTenant, or eviction under the pressure of other keys.
Drop ==
  /\ slot # NoEntry
  /\ slot' = NoEntry
  /\ served' = Silence
  /\ UNCHANGED <<now, flight, req, refresh>>

\* The client of a request in progress disconnects.
Disconnect(p) ==
  /\ req[p].pc # "idle"
  /\ ~req[p].gone
  /\ req' = [req EXCEPT ![p].gone = TRUE]
  /\ served' = Silence
  /\ UNCHANGED <<now, slot, flight, refresh>>

\* Deadlines: nothing outlives its budget.
InBudget ==
  /\ \A p \in Requests : req[p].pc # "idle" => now - req[p].start < Budget
  /\ \A r \in Refreshers : Flying(r) => now - refresh[r].began < RefreshBudget

Tick ==
  /\ now < MaxClock
  /\ InBudget
  /\ now' = now + 1
  /\ served' = Silence
  /\ UNCHANGED <<slot, flight, req, refresh>>

Proceed(p) ==
  \/ Lead(p) \/ Wait(p) \/ RecheckHit(p) \/ RecheckMiss(p)
  \/ LoadReturns(p) \/ LoadFails(p) \/ Store(p)
  \/ serveStale(p) \/ SetNegative(p) \/ ReportError(p)

Request(p) ==
  \/ Hit(p) \/ (\E r \in Refreshers : HitAndRefresh(p, r))
  \/ Miss(p) \/ LookupErrorOpen(p) \/ LookupErrorClosed(p) \/ ArriveStrong(p)

Refresh(r) ==
  \/ RefreshStarts(r) \/ RefreshReturns(r) \/ RefreshFails(r)
  \/ RefreshYields(r) \/ RefreshGoesOn(r) \/ RefreshStores(r)

Next ==
  \/ \E p \in Requests : Request(p) \/ Proceed(p) \/ Disconnect(p)
  \/ \E r \in Refreshers : Refresh(r)
  \/ Drop
  \/ Tick

Spec == Init /\ [][Next]_vars

\* Goroutines that have work are scheduled, and a load ends (it has a deadline).
FairSpec == Spec /\ \A p \in Requests : WF_vars(Proceed(p))

-----------------------------------------------------------------------------
(* Properties                                                               *)

Instants == 0..MaxClock

TypeOK ==
  /\ now \in Instants
  /\ slot.kind \in {"none", "value", "negative"}
  /\ slot # NoEntry => slot.asOf \in 0..slot.storedAt /\ slot.storedAt \in 0..now
                       /\ slot.degraded \in BOOLEAN /\ slot.ttl \in 1..Longer(CacheTTL, NegativeTTL)
  /\ flight \in Requests \cup {NoLeader}
  /\ req \in [Requests -> [pc : {"idle", "missed", "waiting", "rechecking", "loading",
                                 "loaded", "failing"},
                           strong : BOOLEAN, gone : BOOLEAN, start : Instants,
                           outcome : {"none", "full", "degraded", "notfound", "error",
                                      "cancelled"},
                           asOf : Instants]]
  /\ refresh \in [Refreshers -> [phase : {"idle", "spawned", "loading", "loaded", "storing"},
                                 startedAt : Instants, began : Instants, asOf : Instants,
                                 degraded : BOOLEAN]]
  /\ served.kind \in {"silence", "value", "negative", "error"}

\* A cache hit shows data no older than the lifetime of its entry plus the
\* longest time a load may take, whichever of the concurrent loads and
\* refreshes filled the slot; degraded data is gone after the negative TTL.
HitAgeBounded ==
  served.kind = "value" /\ served.how = "hit" =>
    served.age < (IF served.degraded /\ NegativeTTL > 0 THEN NegativeTTL ELSE CacheTTL)
                   + Longer(Budget, RefreshBudget)

\* A cached "not found" is forgotten in bounded time, although every caller of
\* a failed call stores it anew, each when it gets to it.
NotFoundBounded ==
  served.kind = "negative" /\ served.how = "hit" => served.age < NegativeTTL + Budget

\* A stale answer is a real one, and its data is within the ceiling, give or
\* take the time its load took.
StaleServed ==
  served.how = "stale" =>
    /\ served.kind = "value"
    /\ MaxStale > 0 => served.age <= MaxStale + Longer(Budget, RefreshBudget)

\* Every request is answered, whatever becomes of the call it waits on.
AllAnswered == \A p \in Requests : req[p].pc # "idle" ~> req[p].pc = "idle"

=============================================================================
