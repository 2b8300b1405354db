------------------------------- MODULE Breaker -------------------------------
(***************************************************************************)
(* The circuit breaker of one data source (internal/resilience/breaker.go). *)
(*                                                                         *)
(* Every exported method of the breaker runs under one mutex, so each is    *)
(* one atomic action; what interleaves is the calls.  A call is a           *)
(* goroutine: Allow admits it, it talks to the source for as long as it     *)
(* likes, and it ends with exactly one Record or Abstain.  Between the two  *)
(* the breaker may have opened, half-opened or closed any number of times,  *)
(* and the code does not remember in which state a call was admitted.       *)
(*                                                                         *)
(* One tick of the clock is one bucket duration, so bucketIndex(t) is the   *)
(* number of ticks since startedAt = 0.  The tally of rejected calls is not *)
(* kept (no decision reads it), its effect on the ring's slots is.          *)
(***************************************************************************)
EXTENDS Integers, FiniteSets, FiniteSetsExt

CONSTANTS
  Calls,              \* goroutines that may be inside the breaker at once
  BucketsPerWindow,   \* bucketsPerWindow, 10 in the code
  OpenTimeout,        \* cfg.OpenTimeout, in ticks
  MinimumRequests,    \* cfg.MinimumRequests
  FailurePercent,     \* cfg.FailureThreshold, as a percentage
  HalfOpenMaxCalls,   \* cfg.HalfOpenMaxCalls
  HalfOpenSuccesses,  \* cfg.HalfOpenSuccesses
  MaxClock,           \* bound: the last instant of a behaviour
  MaxTally            \* bound: outcomes recorded in one bucket

ASSUME CallsAssumption == IsFiniteSet(Calls)

\* What config validation demands of an enabled breaker.
ASSUME ConfigAssumption ==
  /\ BucketsPerWindow \in Nat \ {0}
  /\ OpenTimeout \in Nat \ {0}
  /\ MinimumRequests \in Nat \ {0}
  /\ FailurePercent \in 1..100
  /\ HalfOpenMaxCalls \in Nat \ {0}
  /\ HalfOpenSuccesses \in Nat \ {0}

ASSUME BoundsAssumption == MaxClock \in Nat /\ MaxTally \in Nat

VARIABLES
  mode,           \* cfg.Enabled, fixed when the breaker is built
  state,          \* Breaker.state
  buckets,        \* Breaker.buckets: the ring, slot -> bucket
  openedAt,       \* Breaker.openedAt
  halfOpenCalls,  \* Breaker.halfOpenCalls: probe slots taken
  halfOpenOK,     \* Breaker.halfOpenOK: successes in this half-open period
  now,            \* the clock
  ticket,         \* per call: NoTicket, or the half-open period it was admitted in
  \* History variables: read by properties only, never by a guard.
  epoch,          \* how many half-open periods there have been
  stragglers,     \* older calls that ended in the current half-open period
  log             \* instant -> outcomes recorded then, since the last close

code == <<state, openedAt, halfOpenCalls, halfOpenOK, epoch, stragglers>>
vars == <<mode, state, buckets, openedAt, halfOpenCalls, halfOpenOK, now,
          ticket, epoch, stragglers, log>>

NoTicket == -1
Slots == 0..(BucketsPerWindow - 1)
Instants == 0..MaxClock

Bucket == [index : Instants \cup {-1}, success : Nat, failure : Nat]
Ring == [Slots -> Bucket]
Tally == [success : Nat, failure : Nat]
Logs == [Instants -> Tally]
Tickets == [Calls -> Nat \cup {NoTicket}]
NoOutcome == [success |-> 0, failure |-> 0]
NoBucket == [index |-> -1, success |-> 0, failure |-> 0]

Running == {c \in Calls : ticket[c] # NoTicket}
Probes == {c \in Calls : ticket[c] = epoch}

Init ==
  /\ mode \in {"enabled", "disabled"}
  /\ state = "closed"
  /\ buckets = [s \in Slots |-> NoBucket]
  /\ openedAt = 0
  /\ halfOpenCalls = 0
  /\ halfOpenOK = 0
  /\ now = 0
  /\ ticket = [c \in Calls |-> NoTicket]
  /\ epoch = 0
  /\ stragglers = 0
  /\ log = [i \in Instants |-> NoOutcome]

-----------------------------------------------------------------------------
(* The ring of buckets.                                                     *)

\* Mutants: a decrement without the clamp, and a slot that is never returned.
decrUnclamped(n) == n - 1
decrLeaks(n) == n

decr(n) == IF n <= 0 THEN 0 ELSE n - 1

slotOf(idx) == idx % BucketsPerWindow

\* Mutant: the slot is re-indexed but its old tallies are kept.
RecycledKeepingTallies == [buckets EXCEPT ![slotOf(now)].index = now]

\* recordLocked finds the slot of this instant and recycles it when it still
\* holds an older bucket.
Recycled ==
  LET slot == slotOf(now)
  IN  IF buckets[slot].index = now
        THEN buckets
        ELSE [buckets EXCEPT ![slot] = [index |-> now, success |-> 0, failure |-> 0]]

recordSuccess == [Recycled EXCEPT ![slotOf(now)].success = @ + 1]
recordFailure == [Recycled EXCEPT ![slotOf(now)].failure = @ + 1]

\* The slots whose bucket lies inside the rolling window.
InWindow(bks) ==
  {s \in Slots : bks[s].index >= now - BucketsPerWindow + 1 /\ bks[s].index <= now}

windowSuccess(bks) == MapThenSumSet(LAMBDA s : bks[s].success, InWindow(bks))
windowFailure(bks) == MapThenSumSet(LAMBDA s : bks[s].failure, InWindow(bks))

\* The rule of shouldTripLocked for given tallies.
Trips(success, failure) ==
  /\ success + failure >= MinimumRequests
  /\ failure * 100 >= FailurePercent * (success + failure)

shouldTrip(bks) == Trips(windowSuccess(bks), windowFailure(bks))

\* Bound on the model: an outcome is recorded only while its bucket has room.
RoomToRecord ==
  LET b == Recycled[slotOf(now)] IN b.success + b.failure < MaxTally

-----------------------------------------------------------------------------
(* currentLocked: the lazy open -> half-open transition that every method    *)
(* but Abstain performs first.  Cur... is a field's value after it.          *)

TimerDue == state = "open" /\ now - openedAt >= OpenTimeout

CurState == IF TimerDue THEN "halfopen" ELSE state
CurCalls == IF TimerDue THEN 0 ELSE halfOpenCalls
CurOK    == IF TimerDue THEN 0 ELSE halfOpenOK
CurEpoch == IF TimerDue THEN epoch + 1 ELSE epoch
CurStragglers == IF TimerDue THEN 0 ELSE stragglers

\* What currentLocked alone leaves behind.
SettleTimer ==
  /\ state' = CurState
  /\ halfOpenCalls' = CurCalls
  /\ halfOpenOK' = CurOK
  /\ epoch' = CurEpoch
  /\ stragglers' = CurStragglers
  /\ UNCHANGED openedAt

\* Mutant: the success counter survives the transition.
TransitionToOpenKeepingOK ==
  /\ state' = "open"
  /\ openedAt' = now
  /\ halfOpenCalls' = 0
  /\ halfOpenOK' = CurOK
  /\ epoch' = CurEpoch
  /\ stragglers' = 0

\* transitionLocked(StateOpen)
TransitionToOpen ==
  /\ state' = "open"
  /\ openedAt' = now
  /\ halfOpenCalls' = 0
  /\ halfOpenOK' = 0
  /\ epoch' = CurEpoch
  /\ stragglers' = 0

\* transitionLocked(StateClosed): also forgets the window.
TransitionToClosed ==
  /\ state' = "closed"
  /\ halfOpenCalls' = 0
  /\ halfOpenOK' = 0
  /\ buckets' = [s \in Slots |-> NoBucket]
  /\ log' = [i \in Instants |-> NoOutcome]
  /\ epoch' = CurEpoch
  /\ stragglers' = 0
  /\ UNCHANGED openedAt

-----------------------------------------------------------------------------
(* Allow                                                                    *)

\* A disabled breaker admits every call.
AllowDisabled(c) ==
  /\ mode = "disabled"
  /\ ticket[c] = NoTicket
  /\ ticket' = [ticket EXCEPT ![c] = 0]
  /\ UNCHANGED <<mode, code, buckets, now, log>>

\* Mutant: the fast path does not look at the state.
AllowUnchecked(c) ==
  /\ mode = "enabled"
  /\ ticket[c] = NoTicket
  /\ ticket' = [ticket EXCEPT ![c] = 0]
  /\ UNCHANGED <<mode, code, buckets, now, log>>

AllowClosed(c) ==
  /\ mode = "enabled"
  /\ ticket[c] = NoTicket
  /\ CurState = "closed"
  /\ ticket' = [ticket EXCEPT ![c] = 0]
  /\ UNCHANGED <<mode, code, buckets, now, log>>

\* CIRCUIT_OPEN: the caller must not touch the source.
AllowRejectedOpen(c) ==
  /\ mode = "enabled"
  /\ ticket[c] = NoTicket
  /\ CurState = "open"
  /\ buckets' = Recycled
  /\ SettleTimer
  /\ UNCHANGED <<mode, now, ticket, log>>

\* breaker.half_open_saturated
AllowRejectedSaturated(c) ==
  /\ mode = "enabled"
  /\ ticket[c] = NoTicket
  /\ CurState = "halfopen"
  /\ CurCalls >= HalfOpenMaxCalls
  /\ buckets' = Recycled
  /\ SettleTimer
  /\ UNCHANGED <<mode, now, ticket, log>>

AllowProbe(c) ==
  /\ mode = "enabled"
  /\ ticket[c] = NoTicket
  /\ CurState = "halfopen"
  /\ CurCalls < HalfOpenMaxCalls
  /\ state' = CurState
  /\ halfOpenCalls' = CurCalls + 1
  /\ halfOpenOK' = CurOK
  /\ epoch' = CurEpoch
  /\ stragglers' = CurStragglers
  /\ ticket' = [ticket EXCEPT ![c] = CurEpoch]
  /\ UNCHANGED <<mode, buckets, openedAt, now, log>>

-----------------------------------------------------------------------------
(* Record and Abstain: the call ends.                                       *)

Ended(c) == ticket' = [ticket EXCEPT ![c] = NoTicket]

\* One more call admitted before this half-open period has ended in it.
LateBy(c) == IF ticket[c] = CurEpoch THEN 0 ELSE 1

\* The outcome of a call of a disabled breaker goes nowhere.
EndDisabled(c) ==
  /\ mode = "disabled"
  /\ ticket[c] # NoTicket
  /\ Ended(c)
  /\ UNCHANGED <<mode, code, buckets, now, log>>

CanRecord(c) == mode = "enabled" /\ ticket[c] # NoTicket /\ RoomToRecord

\* Record(nil) outside half-open: only the tally changes.
RecordOK(c) ==
  /\ CanRecord(c)
  /\ CurState # "halfopen"
  /\ buckets' = recordSuccess
  /\ log' = [log EXCEPT ![now].success = @ + 1]
  /\ SettleTimer
  /\ Ended(c)
  /\ UNCHANGED <<mode, now>>

\* Record(nil) in half-open, more successes needed.
RecordOKProbing(c) ==
  /\ CanRecord(c)
  /\ CurState = "halfopen"
  /\ CurOK + 1 < HalfOpenSuccesses
  /\ state' = CurState
  /\ halfOpenOK' = CurOK + 1
  /\ halfOpenCalls' = decr(CurCalls)
  /\ epoch' = CurEpoch
  /\ stragglers' = CurStragglers + LateBy(c)
  /\ buckets' = recordSuccess
  /\ log' = [log EXCEPT ![now].success = @ + 1]
  /\ Ended(c)
  /\ UNCHANGED <<mode, openedAt, now>>

\* Record(nil) in half-open, the last success needed: recordLocked runs before
\* transitionLocked, which then clears what it recorded.
RecordOKCloses(c) ==
  /\ CanRecord(c)
  /\ CurState = "halfopen"
  /\ CurOK + 1 >= HalfOpenSuccesses
  /\ TransitionToClosed
  /\ Ended(c)
  /\ UNCHANGED <<mode, now>>

\* Record(err) in half-open: a single failure re-opens.
RecordErrReopens(c) ==
  /\ CanRecord(c)
  /\ CurState = "halfopen"
  /\ buckets' = recordFailure
  /\ log' = [log EXCEPT ![now].failure = @ + 1]
  /\ TransitionToOpen
  /\ Ended(c)
  /\ UNCHANGED <<mode, now>>

\* Record(err) in closed, and the window now says trip.
RecordErrTrips(c) ==
  /\ CanRecord(c)
  /\ CurState = "closed"
  /\ shouldTrip(recordFailure)
  /\ buckets' = recordFailure
  /\ log' = [log EXCEPT ![now].failure = @ + 1]
  /\ TransitionToOpen
  /\ Ended(c)
  /\ UNCHANGED <<mode, now>>

\* Record(err) that changes nothing but the tally.
RecordErr(c) ==
  /\ CanRecord(c)
  /\ \/ CurState = "open"
     \/ CurState = "closed" /\ ~shouldTrip(recordFailure)
  /\ buckets' = recordFailure
  /\ log' = [log EXCEPT ![now].failure = @ + 1]
  /\ SettleTimer
  /\ Ended(c)
  /\ UNCHANGED <<mode, now>>

\* Abstain looks at the stored state, without currentLocked.
Abstain(c) ==
  /\ mode = "enabled"
  /\ ticket[c] # NoTicket
  /\ IF state = "halfopen"
       THEN /\ halfOpenCalls' = decr(halfOpenCalls)
            /\ stragglers' = stragglers + (IF ticket[c] = epoch THEN 0 ELSE 1)
       ELSE UNCHANGED <<halfOpenCalls, stragglers>>
  /\ Ended(c)
  /\ UNCHANGED <<mode, state, buckets, openedAt, halfOpenOK, now, epoch, log>>

-----------------------------------------------------------------------------

\* State(): the health snapshot of the router advances the timer too.
PollState ==
  /\ TimerDue
  /\ SettleTimer
  /\ UNCHANGED <<mode, buckets, now, ticket, log>>

Tick ==
  /\ now < MaxClock
  /\ now' = now + 1
  /\ UNCHANGED <<mode, code, buckets, ticket, log>>

Allow(c) ==
  \/ AllowDisabled(c)
  \/ AllowClosed(c)
  \/ AllowRejectedOpen(c)
  \/ AllowRejectedSaturated(c)
  \/ AllowProbe(c)

RecordSuccess(c) == RecordOK(c) \/ RecordOKProbing(c) \/ RecordOKCloses(c)

RecordFailure(c) == RecordErrReopens(c) \/ RecordErrTrips(c) \/ RecordErr(c)

Next ==
  \/ \E c \in Calls :
       Allow(c) \/ RecordSuccess(c) \/ RecordFailure(c) \/ Abstain(c) \/ EndDisabled(c)
  \/ PollState
  \/ Tick

Spec == Init /\ [][Next]_vars

-----------------------------------------------------------------------------
(* Properties                                                               *)

TypeOK ==
  /\ mode \in {"enabled", "disabled"}
  /\ state \in {"closed", "open", "halfopen"}
  /\ buckets \in Ring
  /\ openedAt \in Instants
  /\ halfOpenCalls \in 0..HalfOpenMaxCalls
  /\ halfOpenOK \in Nat
  /\ now \in Instants
  /\ ticket \in Tickets
  /\ epoch \in Nat
  /\ stragglers \in Nat
  /\ log \in Logs

\* No probe slot is ever leaked: a slot counted in halfOpenCalls belongs to a
\* probe of this half-open period that is still running, so that half-open can
\* never be full with nobody left to report.  And the number of probes in
\* flight exceeds the slots counted by at most the older calls that ended in
\* this period, each of which gave back a slot it had never taken.
SlotsConserved ==
  state = "halfopen" =>
    /\ halfOpenCalls <= Cardinality(Probes)
    /\ Cardinality(Probes) <= halfOpenCalls + stragglers

\* Half-open lasts only while more successes are needed, and neither counter
\* survives into another state: a later half-open period starts from zero.
ProbeCountersFresh ==
  /\ state = "halfopen" => halfOpenOK < HalfOpenSuccesses
  /\ state # "halfopen" => halfOpenCalls = 0 /\ halfOpenOK = 0

\* The reference definition of the rolling window: what was really recorded in
\* the last BucketsPerWindow instants since the breaker last closed.
Recent == {i \in Instants : i <= now /\ i > now - BucketsPerWindow}
trueSuccess(l) == MapThenSumSet(LAMBDA i : l[i].success, Recent)
trueFailure(l) == MapThenSumSet(LAMBDA i : l[i].failure, Recent)

\* The ring forgets nothing early and resurrects nothing: an instant of the
\* window is either the one its slot holds, with its exact tallies, or an
\* instant at which nothing was recorded.
RingExact ==
  \A i \in Recent :
    LET b == buckets[slotOf(i)]
    IN  log[i] = IF b.index = i
                   THEN [success |-> b.success, failure |-> b.failure]
                   ELSE NoOutcome

\* A failure recorded while closed opens the breaker exactly when the outcomes
\* of the true window say so: neither stale buckets nor a recycled slot can
\* trip it or hold it closed.
TripExact ==
  [][ \A c \in Calls :
        (state = "closed" /\ RecordFailure(c)) =>
          (state' = "open" <=> Trips(trueSuccess(log'), trueFailure(log'))) ]_vars

\* What the breaker implements: nobody is admitted while the circuit is open,
\* it opens only on a failure and closes only on a success in half-open.
Promise == INSTANCE Circuit WITH admitted <- Running
IsCircuit == Promise!Spec

=============================================================================
