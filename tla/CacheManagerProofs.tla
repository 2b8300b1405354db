-------------------------- MODULE CacheManagerProofs --------------------------
(***************************************************************************)
(* Proofs about the cache manager, for every number of requests and         *)
(* background refreshes, every lifetime and every budget.                   *)
(***************************************************************************)
EXTENDS CacheManager, TLAPS

ReqRecords == [pc : {"idle", "missed", "waiting", "rechecking", "loading", "loaded", "failing"},
               strong : BOOLEAN, gone : BOOLEAN, start : Nat,
               outcome : {"none", "full", "degraded", "notfound", "error", "cancelled"},
               asOf : Nat]

RefreshRecords == [phase : {"idle", "spawned", "loading", "loaded", "storing"},
                   startedAt : Nat, began : Nat, asOf : Nat, degraded : BOOLEAN]

Entries == [kind : {"value", "negative"}, asOf : Nat, degraded : BOOLEAN, storedAt : Nat,
            ttl : Nat, expiresAt : Nat]

\* A request at time t: within its budget, and what it has loaded was read
\* since it began.
GoodRequest(r, t) ==
  /\ r \in ReqRecords
  /\ r.start <= t /\ r.asOf <= t
  /\ r.pc # "idle" => t - r.start <= Budget
  /\ r.pc \in {"loaded", "failing"} => r.start <= r.asOf

\* A background refresh at time t: within its budget from the moment it loads,
\* and what it has loaded was read since then.
GoodRefresh(r, t) ==
  /\ r \in RefreshRecords
  /\ r.startedAt <= t /\ r.began <= t /\ r.asOf <= t
  /\ r.phase \in {"loading", "loaded", "storing"} => t - r.began <= RefreshBudget
  /\ r.phase \in {"loaded", "storing"} => r.began <= r.asOf

\* An entry: stored by now, with the lifetime of its kind, at most one load
\* after its data was read; a negative one within the budget of a request.
GoodEntry(e, t) ==
  /\ e \in Entries
  /\ e.asOf <= e.storedAt /\ e.storedAt <= t
  /\ e.ttl >= 1
  /\ e.kind = "value" =>
       /\ e.ttl <= CacheTTL
       /\ e.degraded /\ NegativeTTL > 0 => e.ttl <= NegativeTTL
       /\ e.storedAt - e.asOf <= Longer(Budget, RefreshBudget)
  /\ e.kind = "negative" => e.ttl <= NegativeTTL /\ e.storedAt - e.asOf <= Budget

\* What the last step told its caller.
Answers == HitAgeBounded /\ NotFoundBounded /\ StaleServed
             /\ served.kind \in {"silence", "value", "negative", "error"}

Inv ==
  /\ now \in Nat /\ now <= MaxClock
  /\ slot # NoEntry => GoodEntry(slot, now)
  /\ flight \in Requests \cup {NoLeader}
  /\ DOMAIN req = Requests /\ req = [p \in Requests |-> req[p]]
  /\ \A p \in Requests : GoodRequest(req[p], now)
  /\ DOMAIN refresh = Refreshers /\ refresh = [r \in Refreshers |-> refresh[r]]
  /\ \A r \in Refreshers : GoodRefresh(refresh[r], now)
  /\ Answers

\* A step that says nothing says nothing wrong.
LEMMA SilenceGood == ASSUME served' = Silence PROVE Answers'
  BY DEF Answers, HitAgeBounded, NotFoundBounded, StaleServed, Silence

\* An error says nothing about an age.
LEMMA ErrorGood == ASSUME NEW why \in {"backend", "source", "another's disconnect"},
                          served' = ErrorAnswer(why)
                   PROVE  Answers'
  BY DEF Answers, HitAgeBounded, NotFoundBounded, StaleServed, ErrorAnswer

\* The idle records.
LEMMA IdleGood ==
  /\ Idle \in ReqRecords /\ Idle.pc = "idle" /\ Idle.start = 0 /\ Idle.asOf = 0
  /\ Asleep \in RefreshRecords /\ Asleep.phase = "idle" /\ Asleep.startedAt = 0
  /\ Asleep.began = 0 /\ Asleep.asOf = 0
  /\ \A t \in Nat : GoodRequest(Idle, t) /\ GoodRefresh(Asleep, t)
<1>1. /\ Idle \in ReqRecords /\ Idle.pc = "idle" /\ Idle.start = 0 /\ Idle.asOf = 0
      /\ Asleep \in RefreshRecords /\ Asleep.phase = "idle" /\ Asleep.startedAt = 0
      /\ Asleep.began = 0 /\ Asleep.asOf = 0
  BY DEF Idle, Asleep, ReqRecords, RefreshRecords
<1> QED
  BY <1>1 DEF GoodRequest, GoodRefresh

\* There is no entry of kind "none".
LEMMA NoEntryKind == NoEntry.kind = "none" /\ \A t : ~GoodEntry(NoEntry, t)
<1>1. NoEntry.kind = "none"
  BY DEF NoEntry
<1>2. \A e \in Entries : e.kind \in {"value", "negative"}
  BY DEF Entries
<1> QED
  BY <1>1, <1>2 DEF GoodEntry

-----------------------------------------------------------------------------
(* The entries and the answers.                                             *)

\* The numbers of the configuration.
LEMMA Numbers ==
  /\ CacheTTL \in Nat /\ CacheTTL >= 1 /\ NegativeTTL \in Nat /\ StaleGrace \in Nat
  /\ MaxStale \in Nat /\ Budget \in Nat /\ RefreshBudget \in Nat /\ MaxClock \in Nat
  /\ Longer(Budget, RefreshBudget) \in Nat
  /\ Budget <= Longer(Budget, RefreshBudget)
  /\ RefreshBudget <= Longer(Budget, RefreshBudget)
  BY CacheAssumption DEF Longer

\* What store() makes of an answer read within a load is a good entry.
LEMMA ValueEntry ==
  ASSUME now \in Nat, NEW a \in Nat, a <= now,
         now - a <= Longer(Budget, RefreshBudget), NEW bad \in BOOLEAN
  PROVE  LET e == Entry("value", a, bad, CacheTTL)
         IN  GoodEntry(e, now) /\ e # NoEntry /\ e.kind = "value"
<1> DEFINE lifetime == IF bad /\ NegativeTTL > 0 /\ CacheTTL > NegativeTTL
                         THEN NegativeTTL ELSE CacheTTL
           e == [kind |-> "value", asOf |-> a, degraded |-> bad, storedAt |-> now,
                 ttl |-> lifetime, expiresAt |-> now + lifetime + StaleGrace]
<1>1. /\ lifetime \in Nat /\ lifetime >= 1 /\ lifetime <= CacheTTL
      /\ bad /\ NegativeTTL > 0 => lifetime <= NegativeTTL
  BY Numbers
<1>2. Entry("value", a, bad, CacheTTL) = e
  BY DEF Entry
<1> HIDE DEF lifetime
<1>3. now + lifetime + StaleGrace \in Nat
  BY <1>1, Numbers
<1>4. /\ e \in Entries /\ e.kind = "value" /\ e.asOf = a /\ e.degraded = bad /\ e.storedAt = now
      /\ e.ttl = lifetime
  BY <1>1, <1>3 DEF Entries
<1> HIDE DEF e
<1>5. GoodEntry(e, now)
  BY <1>1, <1>4, Numbers DEF GoodEntry
<1> QED
  BY <1>2, <1>4, <1>5, NoEntryKind

\* What SetNegative stores is a good entry.
LEMMA NegativeEntry ==
  ASSUME now \in Nat, NEW a \in Nat, a <= now, now - a <= Budget, NegativeTTL > 0
  PROVE  GoodEntry(Entry("negative", a, FALSE, NegativeTTL), now)
<1> DEFINE e == [kind |-> "negative", asOf |-> a, degraded |-> FALSE, storedAt |-> now,
                 ttl |-> NegativeTTL, expiresAt |-> now + NegativeTTL + StaleGrace]
<1>1. Entry("negative", a, FALSE, NegativeTTL) = e
  BY DEF Entry
<1>2. now + NegativeTTL + StaleGrace \in Nat /\ NegativeTTL \in Nat /\ NegativeTTL >= 1
  BY Numbers
<1>3. /\ e \in Entries /\ e.kind = "negative" /\ e.asOf = a /\ e.storedAt = now
      /\ e.ttl = NegativeTTL
  BY <1>2 DEF Entries
<1> HIDE DEF e
<1>4. GoodEntry(e, now)
  BY <1>2, <1>3, Numbers DEF GoodEntry
<1> QED
  BY <1>1, <1>4

\* The fields of an answer.
LEMMA AnswerFields ==
  ASSUME NEW e, NEW how, NEW s, s = Answer(e, how)
  PROVE  s.kind = e.kind /\ s.how = how /\ s.degraded = e.degraded /\ s.age = now - e.asOf
  BY DEF Answer

\* A hit on a live entry, told as a hit or to those who share a load.
LEMMA LiveGood ==
  ASSUME Inv, Live, NEW how \in {"hit", "shared"}, served' = Answer(slot, how)
  PROVE  Answers'
<1>1. slot # NoEntry /\ GoodEntry(slot, now) /\ slot \in Entries
  BY NoEntryKind DEF Live, Held, Inv, GoodEntry
<1>2. now - slot.storedAt < slot.ttl
  BY DEF Live
<1>3. /\ served'.kind = slot.kind /\ served'.how = how
      /\ served'.degraded = slot.degraded /\ served'.age = now - slot.asOf
  BY AnswerFields
<1>4. /\ now \in Nat /\ slot.storedAt \in Nat /\ slot.asOf \in Nat /\ slot.ttl \in Nat
      /\ slot.kind \in {"value", "negative"}
  BY <1>1 DEF Inv, Entries
<1>5. HitAgeBounded'
  <2> SUFFICES ASSUME slot.kind = "value"
               PROVE  now - slot.asOf <
                        (IF slot.degraded /\ NegativeTTL > 0 THEN NegativeTTL ELSE CacheTTL)
                          + Longer(Budget, RefreshBudget)
    BY <1>3 DEF HitAgeBounded
  <2>1. /\ slot.ttl <= CacheTTL
        /\ slot.degraded /\ NegativeTTL > 0 => slot.ttl <= NegativeTTL
        /\ slot.storedAt - slot.asOf <= Longer(Budget, RefreshBudget)
    BY <1>1 DEF GoodEntry
  <2> QED
    BY <2>1, <1>2, <1>4, Numbers
<1>6. NotFoundBounded'
  <2>1. slot.kind = "negative" => now - slot.asOf < NegativeTTL + Budget
    BY <1>1, <1>2, <1>4, Numbers DEF GoodEntry
  <2> QED
    BY <1>3, <2>1 DEF NotFoundBounded
<1>7. StaleServed'
  BY <1>3 DEF StaleServed
<1> QED
  BY <1>3, <1>4, <1>5, <1>6, <1>7 DEF Answers

\* An answer that was just stored.
LEMMA StoredGood ==
  ASSUME NEW e, e.kind \in {"value", "negative"}, served' = Answer(e, "shared")
  PROVE  Answers'
<1>1. served'.kind = e.kind /\ served'.how = "shared"
  BY AnswerFields
<1> QED
  BY <1>1 DEF Answers, HitAgeBounded, NotFoundBounded, StaleServed

\* A stale answer within the ceiling.
LEMMA StaleGood ==
  ASSUME Inv, NEW p \in Requests, Usable(p), served' = Answer(slot, "stale")
  PROVE  Answers'
<1>1. slot # NoEntry /\ GoodEntry(slot, now) /\ slot \in Entries /\ slot.kind = "value"
  BY NoEntryKind DEF Usable, Held, Inv, GoodEntry
<1>2. MaxStale = 0 \/ now - slot.storedAt <= MaxStale
  BY DEF Usable
<1>3. served'.kind = slot.kind /\ served'.how = "stale" /\ served'.age = now - slot.asOf
  BY AnswerFields
<1>4. now \in Nat /\ slot.storedAt \in Nat /\ slot.asOf \in Nat
  BY <1>1 DEF Inv, Entries
<1>5. MaxStale > 0 => now - slot.asOf <= MaxStale + Longer(Budget, RefreshBudget)
  BY <1>1, <1>2, <1>4, Numbers DEF GoodEntry
<1> QED
  BY <1>1, <1>3, <1>5 DEF Answers, HitAgeBounded, NotFoundBounded, StaleServed

-----------------------------------------------------------------------------
(* The steps.                                                               *)

\* A step that leaves time and the refreshes alone.
LEMMA RequestFrame ==
  ASSUME Inv, UNCHANGED <<now, refresh>>, slot' = slot \/ GoodEntry(slot', now),
         flight' \in Requests \cup {NoLeader},
         req' = [p \in Requests |-> req'[p]],
         \A p \in Requests : GoodRequest(req'[p], now),
         Answers'
  PROVE  Inv'
<1>1. DOMAIN req' = Requests
  BY Zenon
<1> QED
  BY <1>1 DEF Inv

\* One request moves.
LEMMA OneRequest ==
  ASSUME Inv, UNCHANGED <<now, refresh>>, slot' = slot \/ GoodEntry(slot', now),
         flight' \in Requests \cup {NoLeader}, Answers',
         NEW p \in Requests, NEW r, req' = [req EXCEPT ![p] = r], GoodRequest(r, now)
  PROVE  Inv'
<1>1. req' = [q \in Requests |-> IF q = p THEN r ELSE req[q]]
  BY DEF Inv
<1>2. req' = [q \in Requests |-> req'[q]] /\ \A q \in Requests : GoodRequest(req'[q], now)
  BY <1>1 DEF Inv
<1> QED
  BY <1>2, RequestFrame

\* A request arrives, at its lookup or straight at the sources.
LEMMA ArriveGood ==
  ASSUME Inv, NEW p \in Requests, NEW at \in {"missed", "loading"}, NEW s \in BOOLEAN,
         Arrive(p, at, s), UNCHANGED <<now, slot, flight, refresh>>, served' = Silence
  PROVE  Inv'
<1> DEFINE r == [Idle EXCEPT !.pc = at, !.strong = s, !.start = now]
<1>1. now \in Nat /\ flight \in Requests \cup {NoLeader}
  BY DEF Inv
<1>2. r \in ReqRecords /\ r.pc = at /\ r.start = now /\ r.asOf = 0
  BY <1>1, IdleGood DEF ReqRecords
<1>3. req' = [req EXCEPT ![p] = r]
  BY DEF Arrive
<1> HIDE DEF r
<1>4. GoodRequest(r, now)
  BY <1>1, <1>2, Numbers DEF GoodRequest
<1> QED
  BY <1>1, <1>3, <1>4, SilenceGood, OneRequest

\* A request moves on without having loaded anything.
LEMMA MoveOn ==
  ASSUME Inv, NEW p \in Requests, req[p].pc # "idle",
         NEW to \in {"waiting", "rechecking", "loading"},
         req' = [req EXCEPT ![p].pc = to], UNCHANGED <<now, slot, refresh>>,
         flight' \in Requests \cup {NoLeader}, served' = Silence
  PROVE  Inv'
<1> DEFINE r == [req[p] EXCEPT !.pc = to]
<1>1. now \in Nat /\ GoodRequest(req[p], now) /\ req[p] \in ReqRecords
  BY DEF Inv, GoodRequest
<1>2. r \in ReqRecords /\ r.pc = to /\ r.start = req[p].start /\ r.asOf = req[p].asOf
  BY <1>1 DEF ReqRecords
<1>3. req' = [req EXCEPT ![p] = r]
  OBVIOUS
<1> HIDE DEF r
<1>4. GoodRequest(r, now)
  BY <1>1, <1>2 DEF GoodRequest
<1> QED
  BY <1>3, <1>4, SilenceGood, OneRequest

\* The load of a shared call has ended well.
LEMMA AnsweredGood ==
  ASSUME Inv, NEW p \in Requests, Answered(p), UNCHANGED <<now, refresh>>,
         slot' = slot \/ GoodEntry(slot', now), Answers'
  PROVE  Inv'
<1>1. req' = [q \in Requests |-> IF q \in Sharing(p) THEN Idle ELSE req[q]]
  BY DEF Answered
<1>2. req' = [q \in Requests |-> req'[q]]
  BY <1>1
<1>3. \A q \in Requests : GoodRequest(req'[q], now)
  BY <1>1, IdleGood DEF Inv
<1>4. flight' \in Requests \cup {NoLeader}
  BY DEF Answered, LeaveFlight, Inv
<1> QED
  BY <1>2, <1>3, <1>4, RequestFrame

\* A failing request is done with.
LEMMA FinishGood ==
  ASSUME Inv, NEW p \in Requests, Finish(p), UNCHANGED <<now, flight, refresh>>,
         slot' = slot \/ GoodEntry(slot', now), Answers'
  PROVE  Inv'
<1>1. req' = [req EXCEPT ![p] = Idle] /\ now \in Nat /\ flight' \in Requests \cup {NoLeader}
  BY DEF Finish, Inv
<1>2. GoodRequest(Idle, now)
  BY <1>1, IdleGood
<1> QED
  BY <1>1, <1>2, OneRequest

\* The sources have answered a request.
LEMMA LoadReturnsGood == ASSUME Inv, NEW p \in Requests, LoadReturns(p) PROVE Inv'
<1>1. PICK outcome \in {"full", "degraded"} :
        req' = [req EXCEPT ![p] = [@ EXCEPT !.pc = "loaded", !.outcome = outcome, !.asOf = now]]
  BY DEF LoadReturns
<1> DEFINE r == [req[p] EXCEPT !.pc = "loaded", !.outcome = outcome, !.asOf = now]
<1>2. /\ now \in Nat /\ GoodRequest(req[p], now) /\ req[p] \in ReqRecords
      /\ flight \in Requests \cup {NoLeader} /\ req[p].pc = "loading"
  BY DEF Inv, GoodRequest, LoadReturns
<1>3. r \in ReqRecords /\ r.pc = "loaded" /\ r.start = req[p].start /\ r.asOf = now
  BY <1>2 DEF ReqRecords
<1>4. req' = [req EXCEPT ![p] = r]
  BY <1>1
<1> HIDE DEF r
<1>5. GoodRequest(r, now)
  BY <1>2, <1>3 DEF GoodRequest
<1>6. UNCHANGED <<now, slot, flight, refresh>> /\ served' = Silence
  BY DEF LoadReturns
<1> QED
  BY <1>2, <1>4, <1>5, <1>6, SilenceGood, OneRequest

\* A load has failed, for everyone who shares it.
LEMMA LoadFailsGood == ASSUME Inv, NEW p \in Requests, LoadFails(p) PROVE Inv'
<1>1. PICK outcome \in {"notfound", "error", "cancelled"} :
        req' = [q \in Requests |->
                  IF q \in Sharing(p)
                    THEN [req[q] EXCEPT !.pc = "failing", !.outcome = outcome, !.asOf = now]
                    ELSE req[q]]
  BY DEF LoadFails
<1>2. req[p].pc = "loading" /\ UNCHANGED <<now, slot, refresh>> /\ served' = Silence
  BY DEF LoadFails
<1>3. req' = [q \in Requests |-> req'[q]]
  BY <1>1
<1>4. \A q \in Requests : GoodRequest(req'[q], now)
  <2> TAKE q \in Requests
  <2>1. GoodRequest(req[q], now) /\ now \in Nat /\ req[q] \in ReqRecords
    BY DEF Inv, GoodRequest
  <2>2. CASE q \in Sharing(p)
    <3> DEFINE r == [req[q] EXCEPT !.pc = "failing", !.outcome = outcome, !.asOf = now]
    <3>1. req[q].pc # "idle"
      BY <1>2, <2>2 DEF Sharing
    <3>2. r \in ReqRecords /\ r.pc = "failing" /\ r.start = req[q].start /\ r.asOf = now
      BY <2>1 DEF ReqRecords
    <3>3. req'[q] = r
      BY <1>1, <2>2
    <3> HIDE DEF r
    <3> QED
      BY <2>1, <3>1, <3>2, <3>3 DEF GoodRequest
  <2>3. CASE q \notin Sharing(p)
    BY <2>1, <2>3, <1>1
  <2> QED
    BY <2>2, <2>3
<1>5. flight' \in Requests \cup {NoLeader}
  BY DEF LoadFails, LeaveFlight, Inv
<1> QED
  BY <1>2, <1>3, <1>4, <1>5, SilenceGood, RequestFrame

\* Writing an entry, or failing to.
LEMMA WriteGood ==
  ASSUME NEW e, GoodEntry(e, now), Write(e) PROVE slot' = slot \/ GoodEntry(slot', now)
  BY DEF Write

\* A loaded answer is stored, and told.
LEMMA StoreGood == ASSUME Inv, NEW p \in Requests, Store(p) PROVE Inv'
<1>1. /\ now \in Nat /\ req[p] \in ReqRecords /\ req[p].pc = "loaded"
      /\ req[p].asOf \in Nat /\ req[p].asOf <= now /\ req[p].start \in Nat
      /\ now - req[p].start <= Budget /\ req[p].start <= req[p].asOf
  BY DEF Inv, GoodRequest, Store, ReqRecords
<1>2. now - req[p].asOf <= Longer(Budget, RefreshBudget)
  BY <1>1, Numbers
<1> DEFINE e == Entry("value", req[p].asOf, req[p].outcome = "degraded", CacheTTL)
<1>3. GoodEntry(e, now) /\ e.kind = "value"
  BY <1>1, <1>2, ValueEntry
<1>4. /\ Write(e) /\ served' = Answer(e, "shared") /\ Answered(p)
      /\ UNCHANGED <<now, refresh>>
  BY DEF Store
<1> HIDE DEF e
<1>5. Answers'
  BY <1>3, <1>4, StoredGood
<1>6. slot' = slot \/ GoodEntry(slot', now)
  BY <1>3, <1>4, WriteGood
<1> QED
  BY <1>4, <1>5, <1>6, AnsweredGood

\* A "not found" is stored by everyone who was told of it.
LEMMA SetNegativeGood == ASSUME Inv, NEW p \in Requests, SetNegative(p) PROVE Inv'
<1>1. /\ now \in Nat /\ req[p] \in ReqRecords /\ req[p].pc = "failing"
      /\ req[p].asOf \in Nat /\ req[p].asOf <= now /\ req[p].start \in Nat
      /\ now - req[p].start <= Budget /\ req[p].start <= req[p].asOf
  BY DEF Inv, GoodRequest, SetNegative, Finish, ReqRecords
<1>2. now - req[p].asOf <= Budget
  BY <1>1, Numbers
<1> DEFINE e == Entry("negative", req[p].asOf, FALSE, NegativeTTL)
<1>3. e.kind = "negative"
  BY DEF Entry
<1>4. NegativeTTL > 0 => GoodEntry(e, now)
  BY <1>1, <1>2, NegativeEntry
<1>5. /\ IF NegativeTTL > 0 THEN Write(e) ELSE UNCHANGED slot
      /\ served' = Answer(e, "shared") /\ Finish(p) /\ UNCHANGED <<now, flight, refresh>>
  BY DEF SetNegative
<1> HIDE DEF e
<1>6. Answers'
  BY <1>3, <1>5, StoredGood
<1>7. slot' = slot \/ GoodEntry(slot', now)
  BY <1>4, <1>5, WriteGood
<1> QED
  BY <1>5, <1>6, <1>7, FinishGood


\* A client disconnects.
LEMMA DisconnectGood == ASSUME Inv, NEW p \in Requests, Disconnect(p) PROVE Inv'
<1> DEFINE r == [req[p] EXCEPT !.gone = TRUE]
<1>1. /\ now \in Nat /\ GoodRequest(req[p], now) /\ req[p] \in ReqRecords
      /\ flight \in Requests \cup {NoLeader}
  BY DEF Inv, GoodRequest
<1>2. r \in ReqRecords /\ r.pc = req[p].pc /\ r.start = req[p].start /\ r.asOf = req[p].asOf
  BY <1>1 DEF ReqRecords
<1>3. /\ req' = [req EXCEPT ![p] = r] /\ UNCHANGED <<now, slot, flight, refresh>>
      /\ served' = Silence
  BY DEF Disconnect
<1> HIDE DEF r
<1>4. GoodRequest(r, now)
  BY <1>1, <1>2 DEF GoodRequest
<1> QED
  BY <1>1, <1>3, <1>4, SilenceGood, OneRequest

\* The steps of a request already under way.
LEMMA ProceedGood == ASSUME Inv, NEW p \in Requests, Proceed(p) PROVE Inv'
<1>0. flight \in Requests \cup {NoLeader}
  BY DEF Inv
<1>1. CASE Lead(p)
  BY <1>1, MoveOn DEF Lead
<1>2. CASE Wait(p)
  BY <1>0, <1>2, MoveOn DEF Wait
<1>3. CASE RecheckHit(p)
  <2>1. Answers'
    BY <1>3, LiveGood DEF RecheckHit
  <2> QED
    BY <1>3, <2>1, AnsweredGood DEF RecheckHit
<1>4. CASE RecheckMiss(p)
  BY <1>0, <1>4, MoveOn DEF RecheckMiss
<1>5. CASE serveStale(p)
  <2>1. Answers'
    BY <1>5, StaleGood DEF serveStale
  <2> QED
    BY <1>5, <2>1, FinishGood DEF serveStale
<1>6. CASE ReportError(p)
  <2>1. PICK why \in {"backend", "source", "another's disconnect"} : served' = ErrorAnswer(why)
    BY <1>6 DEF ReportError
  <2>2. Answers'
    BY <2>1, ErrorGood
  <2> QED
    BY <1>6, <2>2, FinishGood DEF ReportError
<1> QED
  BY <1>1, <1>2, <1>3, <1>4, <1>5, <1>6, LoadReturnsGood, LoadFailsGood, StoreGood,
     SetNegativeGood DEF Proceed

-----------------------------------------------------------------------------
(* Background refreshes, invalidation and time.                             *)

\* One refresh moves.
LEMMA OneRefresh ==
  ASSUME Inv, UNCHANGED <<now, flight, req>>, slot' = slot \/ GoodEntry(slot', now), Answers',
         NEW r \in Refreshers, NEW n, refresh' = [refresh EXCEPT ![r] = n], GoodRefresh(n, now)
  PROVE  Inv'
<1>1. refresh' = [q \in Refreshers |-> IF q = r THEN n ELSE refresh[q]]
  BY DEF Inv
<1>2. refresh' = [q \in Refreshers |-> refresh'[q]] /\ DOMAIN refresh' = Refreshers
  BY <1>1
<1>3. \A q \in Refreshers : GoodRefresh(refresh'[q], now)
  BY <1>1 DEF Inv
<1> QED
  BY <1>2, <1>3 DEF Inv

\* A hit that spawns a refresh.
LEMMA HitAndRefreshGood ==
  ASSUME Inv, NEW p \in Requests, NEW r \in Refreshers, HitAndRefresh(p, r) PROVE Inv'
<1> DEFINE n == [Asleep EXCEPT !.phase = "spawned", !.startedAt = now]
<1>1. /\ now \in Nat /\ refresh' = [refresh EXCEPT ![r] = n]
      /\ UNCHANGED <<now, slot, flight, req>>
  BY DEF Inv, HitAndRefresh
<1>2. n \in RefreshRecords /\ n.phase = "spawned" /\ n.startedAt = now /\ n.began = 0 /\ n.asOf = 0
  BY <1>1, IdleGood DEF RefreshRecords
<1> HIDE DEF n
<1>3. GoodRefresh(n, now)
  BY <1>1, <1>2 DEF GoodRefresh
<1>4. Answers'
  BY LiveGood DEF HitAndRefresh
<1> QED
  BY <1>1, <1>3, <1>4, OneRefresh

\* The lookups.
LEMMA RequestGood == ASSUME Inv, NEW p \in Requests, Request(p) PROVE Inv'
<1>1. CASE Hit(p)
  <2>1. Answers' /\ UNCHANGED <<now, slot, flight, req, refresh>>
    BY <1>1, LiveGood DEF Hit
  <2> QED
    BY <2>1 DEF Inv
<1>2. CASE \E r \in Refreshers : HitAndRefresh(p, r)
  BY <1>2, HitAndRefreshGood
<1>3. CASE Miss(p)
  BY <1>3, ArriveGood DEF Miss
<1>4. CASE LookupErrorOpen(p)
  BY <1>4, ArriveGood DEF LookupErrorOpen
<1>5. CASE LookupErrorClosed(p)
  <2>1. Answers' /\ UNCHANGED <<now, slot, flight, req, refresh>>
    BY <1>5, ErrorGood DEF LookupErrorClosed
  <2> QED
    BY <2>1 DEF Inv
<1>6. CASE ArriveStrong(p)
  BY <1>6, ArriveGood DEF ArriveStrong
<1> QED
  BY <1>1, <1>2, <1>3, <1>4, <1>5, <1>6 DEF Request

\* The steps of a background refresh.
LEMMA RefreshGood == ASSUME Inv, NEW r \in Refreshers, Refresh(r) PROVE Inv'
<1>0. /\ now \in Nat /\ refresh[r] \in RefreshRecords /\ GoodRefresh(refresh[r], now)
      /\ GoodRefresh(Asleep, now)
  BY IdleGood DEF Inv, GoodRefresh
<1>1. CASE RefreshStarts(r)
  <2> DEFINE o == refresh[r]
             n == [o EXCEPT !.phase = "loading", !.began = now]
  <2>1. n \in RefreshRecords /\ n.phase = "loading" /\ n.began = now
        /\ n.startedAt = refresh[r].startedAt /\ n.asOf = refresh[r].asOf
    BY <1>0 DEF RefreshRecords
  <2>2. \/ refresh' = [refresh EXCEPT ![r] = Asleep]
        \/ refresh' = [refresh EXCEPT ![r] = n]
    BY <1>1 DEF RefreshStarts
  <2> HIDE DEF n
  <2>3. GoodRefresh(n, now)
    BY <1>0, <2>1, Numbers DEF GoodRefresh
  <2> QED
    BY <1>0, <1>1, <2>2, <2>3, SilenceGood, OneRefresh DEF RefreshStarts
<1>2. CASE RefreshReturns(r)
  <2>1. PICK bad \in BOOLEAN :
          refresh' = [refresh EXCEPT ![r] = [@ EXCEPT !.phase = "loaded", !.asOf = now,
                                                      !.degraded = bad]]
    BY <1>2 DEF RefreshReturns
  <2> DEFINE o == refresh[r]
             n == [o EXCEPT !.phase = "loaded", !.asOf = now, !.degraded = bad]
  <2>2. n \in RefreshRecords /\ n.phase = "loaded" /\ n.began = refresh[r].began
        /\ n.startedAt = refresh[r].startedAt /\ n.asOf = now
    BY <1>0 DEF RefreshRecords
  <2>3. refresh' = [refresh EXCEPT ![r] = n]
    BY <2>1
  <2> HIDE DEF n
  <2>4. refresh[r].phase = "loading" /\ UNCHANGED <<now, slot, flight, req>> /\ served' = Silence
    BY <1>2 DEF RefreshReturns
  <2>5. GoodRefresh(n, now)
    BY <1>0, <2>2, <2>4 DEF GoodRefresh
  <2> QED
    BY <2>3, <2>4, <2>5, SilenceGood, OneRefresh
<1>3. CASE RefreshFails(r)
  BY <1>0, <1>3, SilenceGood, OneRefresh DEF RefreshFails
<1>4. CASE RefreshYields(r)
  BY <1>0, <1>4, SilenceGood, OneRefresh DEF RefreshYields
<1>5. CASE RefreshGoesOn(r)
  <2> DEFINE o == refresh[r]
             n == [o EXCEPT !.phase = "storing"]
  <2>1. n \in RefreshRecords /\ n.phase = "storing" /\ n.began = refresh[r].began
        /\ n.startedAt = refresh[r].startedAt /\ n.asOf = refresh[r].asOf
    BY <1>0 DEF RefreshRecords
  <2>2. /\ refresh' = [refresh EXCEPT ![r] = n] /\ refresh[r].phase = "loaded"
        /\ UNCHANGED <<now, slot, flight, req>> /\ served' = Silence
    BY <1>5 DEF RefreshGoesOn
  <2> HIDE DEF n
  <2>3. GoodRefresh(n, now)
    BY <1>0, <2>1, <2>2 DEF GoodRefresh
  <2> QED
    BY <2>2, <2>3, SilenceGood, OneRefresh
<1>6. CASE RefreshStores(r)
  <2>1. /\ refresh[r].phase = "storing" /\ refresh[r].asOf \in Nat /\ refresh[r].asOf <= now
        /\ refresh[r].began \in Nat /\ now - refresh[r].began <= RefreshBudget
        /\ refresh[r].began <= refresh[r].asOf /\ refresh[r].degraded \in BOOLEAN
    BY <1>0, <1>6 DEF RefreshStores, GoodRefresh, RefreshRecords
  <2>2. now - refresh[r].asOf <= Longer(Budget, RefreshBudget)
    BY <1>0, <2>1, Numbers
  <2> DEFINE e == Entry("value", refresh[r].asOf, refresh[r].degraded, CacheTTL)
  <2>3. GoodEntry(e, now)
    BY <1>0, <2>1, <2>2, ValueEntry
  <2>4. /\ Write(e) /\ refresh' = [refresh EXCEPT ![r] = Asleep] /\ served' = Silence
        /\ UNCHANGED <<now, flight, req>>
    BY <1>6 DEF RefreshStores
  <2> HIDE DEF e
  <2>5. slot' = slot \/ GoodEntry(slot', now)
    BY <2>3, <2>4, WriteGood
  <2> QED
    BY <1>0, <2>4, <2>5, SilenceGood, OneRefresh
<1> QED
  BY <1>1, <1>2, <1>3, <1>4, <1>5, <1>6 DEF Refresh

\* The clock ticks only while nothing is out of its budget.
LEMMA TickGood == ASSUME Inv, Tick PROVE Inv'
<1>1. /\ now \in Nat /\ now < MaxClock /\ InBudget /\ now' = now + 1 /\ served' = Silence
      /\ UNCHANGED <<slot, flight, req, refresh>>
  BY DEF Inv, Tick
<1>2. Answers'
  BY <1>1, SilenceGood
<1>3. slot # NoEntry => GoodEntry(slot, now')
  BY <1>1 DEF Inv, GoodEntry, Entries
<1>4. ASSUME NEW p \in Requests PROVE GoodRequest(req[p], now')
  <2>1. GoodRequest(req[p], now) /\ req[p].start \in Nat /\ req[p].asOf \in Nat
    BY DEF Inv, GoodRequest, ReqRecords
  <2>2. req[p].pc # "idle" => now - req[p].start < Budget
    BY <1>1 DEF InBudget
  <2> QED
    BY <1>1, <2>1, <2>2, Numbers DEF GoodRequest
<1>5. ASSUME NEW r \in Refreshers PROVE GoodRefresh(refresh[r], now')
  <2>1. /\ GoodRefresh(refresh[r], now) /\ refresh[r].startedAt \in Nat
        /\ refresh[r].began \in Nat /\ refresh[r].asOf \in Nat
    BY DEF Inv, GoodRefresh, RefreshRecords
  <2>2. refresh[r].phase \in {"loading", "loaded", "storing"} =>
          now - refresh[r].began < RefreshBudget
    BY <1>1 DEF InBudget, Flying
  <2> QED
    BY <1>1, <2>1, <2>2, Numbers DEF GoodRefresh
<1>6. now' \in Nat /\ now' <= MaxClock
  BY <1>1, Numbers
<1> QED
  BY <1>1, <1>2, <1>3, <1>4, <1>5, <1>6 DEF Inv

LEMMA InvInit == Init => Inv
<1> SUFFICES ASSUME Init PROVE Inv
  OBVIOUS
<1>1. Answers
  BY DEF Init, Answers, HitAgeBounded, NotFoundBounded, StaleServed, Silence
<1>2. \A p \in Requests : GoodRequest(req[p], now)
  BY IdleGood DEF Init
<1>3. \A r \in Refreshers : GoodRefresh(refresh[r], now)
  BY IdleGood DEF Init
<1>4. req = [p \in Requests |-> req[p]] /\ refresh = [r \in Refreshers |-> refresh[r]]
  BY DEF Init
<1> QED
  BY <1>1, <1>2, <1>3, <1>4, Numbers DEF Init, Inv

LEMMA InvNext == Inv /\ [Next]_vars => Inv'
<1> SUFFICES ASSUME Inv, [Next]_vars PROVE Inv'
  OBVIOUS
<1>1. CASE Drop
  <2>1. Answers'
    BY <1>1, SilenceGood DEF Drop
  <2> QED
    BY <1>1, <2>1 DEF Drop, Inv
<1>2. ASSUME NEW p \in Requests, Request(p) \/ Proceed(p) \/ Disconnect(p) PROVE Inv'
  BY <1>2, RequestGood, ProceedGood, DisconnectGood
<1>3. CASE UNCHANGED vars
  <2>1. UNCHANGED <<now, slot, flight, req, refresh, served>>
    BY <1>3 DEF vars
  <2> QED
    BY <2>1 DEF Inv, Answers, HitAgeBounded, NotFoundBounded, StaleServed
<1> QED
  BY <1>1, <1>2, <1>3, RefreshGood, TickGood DEF Next

LEMMA InvAlways == Spec => []Inv
  BY InvInit, InvNext, PTL DEF Spec

-----------------------------------------------------------------------------

\* Every variable has its type, times never run past the clock, and an entry
\* that lives at all has a lifetime of at least one.
THEOREM TypeCorrect == Spec => []TypeOK
<1>1. ASSUME Inv PROVE TypeOK
  <2>1. slot.kind \in {"none", "value", "negative"}
    BY <1>1, NoEntryKind DEF Inv, GoodEntry, Entries
  <2>2. slot # NoEntry => slot.asOf \in 0..slot.storedAt /\ slot.storedAt \in 0..now
                          /\ slot.degraded \in BOOLEAN
                          /\ slot.ttl \in 1..Longer(CacheTTL, NegativeTTL)
    <3> SUFFICES ASSUME slot # NoEntry
                 PROVE  slot.asOf \in 0..slot.storedAt /\ slot.storedAt \in 0..now
                          /\ slot.degraded \in BOOLEAN
                          /\ slot.ttl \in 1..Longer(CacheTTL, NegativeTTL)
      OBVIOUS
    <3>1. GoodEntry(slot, now) /\ now \in Nat
      BY <1>1 DEF Inv
    <3>2. /\ slot.kind \in {"value", "negative"} /\ slot.asOf \in Nat /\ slot.storedAt \in Nat
          /\ slot.ttl \in Nat /\ slot.degraded \in BOOLEAN
      BY <3>1 DEF GoodEntry, Entries
    <3>3. slot.ttl >= 1 /\ (slot.ttl <= CacheTTL \/ slot.ttl <= NegativeTTL)
      BY <3>1, <3>2 DEF GoodEntry
    <3>4. slot.ttl \in 1..Longer(CacheTTL, NegativeTTL)
      BY <3>2, <3>3, Numbers DEF Longer
    <3>5. slot.asOf <= slot.storedAt /\ slot.storedAt <= now
      BY <3>1 DEF GoodEntry
    <3> QED
      BY <3>1, <3>2, <3>4, <3>5
  <2>3. ASSUME NEW p \in Requests
        PROVE  req[p] \in [pc : {"idle", "missed", "waiting", "rechecking", "loading",
                                 "loaded", "failing"},
                           strong : BOOLEAN, gone : BOOLEAN, start : Instants,
                           outcome : {"none", "full", "degraded", "notfound", "error",
                                      "cancelled"},
                           asOf : Instants]
    <3>1. /\ req[p] \in ReqRecords /\ req[p].start <= now /\ req[p].asOf <= now
          /\ now \in Nat /\ now <= MaxClock
      BY <1>1 DEF Inv, GoodRequest
    <3>2. req[p].start \in Nat /\ req[p].asOf \in Nat
      BY <3>1 DEF ReqRecords
    <3>3. req[p].start \in Instants /\ req[p].asOf \in Instants
      BY <3>1, <3>2, Numbers DEF Instants
    <3> QED
      BY <3>1, <3>3 DEF ReqRecords
  <2>4. ASSUME NEW r \in Refreshers
        PROVE  refresh[r] \in [phase : {"idle", "spawned", "loading", "loaded", "storing"},
                               startedAt : Instants, began : Instants, asOf : Instants,
                               degraded : BOOLEAN]
    <3>1. /\ refresh[r] \in RefreshRecords /\ refresh[r].startedAt <= now
          /\ refresh[r].began <= now /\ refresh[r].asOf <= now
          /\ now \in Nat /\ now <= MaxClock
      BY <1>1 DEF Inv, GoodRefresh
    <3>2. refresh[r].startedAt \in Nat /\ refresh[r].began \in Nat /\ refresh[r].asOf \in Nat
      BY <3>1 DEF RefreshRecords
    <3>3. /\ refresh[r].startedAt \in Instants /\ refresh[r].began \in Instants
          /\ refresh[r].asOf \in Instants
      BY <3>1, <3>2, Numbers DEF Instants
    <3> QED
      BY <3>1, <3>3 DEF RefreshRecords
  <2>5. now \in Instants
    BY <1>1, Numbers DEF Inv, Instants
  <2> QED
    BY <1>1, <2>1, <2>2, <2>3, <2>4, <2>5 DEF Inv, Answers, TypeOK
<1> QED
  BY <1>1, InvAlways, PTL

\* A hit shows data no older than the lifetime of its entry plus the longest
\* load, whichever of any number of loads and refreshes filled the slot, and
\* degraded data for the negative lifetime only (store, manager.go).
THEOREM HitsAreYoung == Spec => []HitAgeBounded
<1>1. Inv => HitAgeBounded
  BY DEF Inv, Answers
<1> QED
  BY <1>1, InvAlways, PTL

\* A cached "not found" is forgotten within its lifetime and one request
\* budget, although every caller of a failed call stores it anew (SetNegative).
THEOREM NotFoundIsForgotten == Spec => []NotFoundBounded
<1>1. Inv => NotFoundBounded
  BY DEF Inv, Answers
<1> QED
  BY <1>1, InvAlways, PTL

\* A stale answer is a real one, within the ceiling of its type and the time
\* its load took (serveStale, GetStale).
THEOREM StaleIsRealAndBounded == Spec => []StaleServed
<1>1. Inv => StaleServed
  BY DEF Inv, Answers
<1> QED
  BY <1>1, InvAlways, PTL

=============================================================================
