------------------------------- MODULE ProbeMemo -------------------------------
(***************************************************************************)
(* The freshness manager (internal/freshness/freshness.go): probes of a     *)
(* record's age at the operational source, remembered for a moment.         *)
(*                                                                         *)
(* The mutex guards single map operations only; nothing is locked while a   *)
(* probe is under way.  Probes of one record may therefore overlap with     *)
(* each other, with an invalidation and with a flush of the full memo, and  *)
(* their answers arrive in any order.  The source stamps its answer with    *)
(* its own clock, which runs `skew' ahead of this process's.                *)
(***************************************************************************)
EXTENDS Freshness, FiniteSets

CONSTANTS
  Records,        \* tenant and resource
  Probers,        \* goroutines that assess a record
  MemoTTL,        \* probe_cache_ttl; 0 disables the memo
  MaxEntries,     \* maxEntries
  ProbeTimeout,   \* the deadline of one probe
  TTL,            \* the freshness ttl of the request type
  SkewTolerance,  \* clock_skew_tolerance
  Skews,          \* how far the source's clock may be ahead
  MaxClock        \* bound: the last instant of a behaviour

Epoch == 10      \* the first instant; leaves room for clocks that run behind

\* No clock runs so far behind that the time it tells is Go's zero time.
ASSUME MemoAssumption ==
  /\ MemoTTL \in Nat /\ MaxEntries \in Nat \ {0} /\ ProbeTimeout \in Nat /\ TTL \in Nat
  /\ SkewTolerance \in Nat /\ Skews \subseteq Int /\ MaxClock \in Nat
  /\ \A s \in Skews : Epoch + s > NoTime

VARIABLES
  clock,     \* this process's clock
  skew,      \* the source's clock minus this one
  tells,     \* whether the source reports its own time
  updated,   \* per record, when the source last wrote it (this process's clock);
             \* NoTime: it does not have the record
  memo,      \* the map: record to observation and instant of storing
  prober,    \* the probes under way
  verdict    \* the assessment the last step made, if it made one

memoVars == <<clock, skew, tells, updated, memo, prober, verdict>>

NoVerdict == [state |-> "none"]
Resting == [pc |-> "idle"]

MemoInit ==
  /\ clock = Epoch
  /\ skew \in Skews
  /\ tells \in BOOLEAN
  /\ updated \in [Records -> {NoTime, Epoch - 1}]
  /\ memo = << >>
  /\ prober = [p \in Probers |-> Resting]
  /\ verdict = NoVerdict

\* When the record was last written, by the source's clock.
Stamp(r) == IF updated[r] = NoTime THEN NoTime ELSE updated[r] + skew

\* What the source says of a record at this instant.  That it has none comes
\* without any time, and is remembered like every other answer.
Observed(r) ==
  LET there == updated[r] # NoTime
  IN  [found |-> there,
       lastUpdated |-> Stamp(r),
       sourceTime |-> IF there /\ tells THEN clock + skew ELSE NoTime]

\* Mutant of Remembered: an entry is used for as long as it is there.
RememberedForever(r) == r \in DOMAIN memo /\ MemoTTL > 0

\* The lookup finds an observation that is recent enough.
Remembered(r) == r \in DOMAIN memo /\ MemoTTL > 0 /\ clock - memo[r].storedAt < MemoTTL

\* Mutant of aged: the memoised pair is used as it is.
agedVerbatim(obs, elapsed) == obs

\* cachedProbe.age: the source's clock moves on while an observation is kept.
aged(obs, elapsed) ==
  IF obs.sourceTime = NoTime THEN obs ELSE [obs EXCEPT !.sourceTime = @ + elapsed]

\* Assess: the verdict, and what it is compared with: the age the record has.
Assessed(r, obs, since) ==
  LET v == Evaluate(obs, TTL, SkewTolerance, clock)
  IN  [record |-> r, since |-> since, trueAge |-> clock - updated[r],
       state |-> v.state, age |-> v.age]

-----------------------------------------------------------------------------
(* Probe                                                                    *)

FromMemo(p, r) ==
  /\ prober[p].pc = "idle"
  /\ Remembered(r)
  /\ verdict' = Assessed(r, aged(memo[r].obs, clock - memo[r].storedAt), memo[r].obs.lastUpdated)
  /\ UNCHANGED <<clock, skew, tells, updated, memo, prober>>

StartProbe(p, r) ==
  /\ prober[p].pc = "idle"
  /\ ~Remembered(r)
  /\ prober' = [prober EXCEPT ![p] = [pc |-> "asking", record |-> r, start |-> clock]]
  /\ verdict' = NoVerdict
  /\ UNCHANGED <<clock, skew, tells, updated, memo>>

\* The source reads the record; its answer is on the way.
SourceAnswers(p) ==
  /\ prober[p].pc = "asking"
  /\ prober' = [prober EXCEPT ![p] = [pc |-> "answered", record |-> @.record, start |-> @.start,
                                      obs |-> Observed(@.record)]]
  /\ verdict' = NoVerdict
  /\ UNCHANGED <<clock, skew, tells, updated, memo>>

\* The memo with the observation in it; a full one is emptied first.
Remember(r, obs) ==
  LET kept == IF Cardinality(DOMAIN memo) >= MaxEntries THEN << >> ELSE memo
  IN  [q \in DOMAIN kept \cup {r} |->
         IF q = r THEN [obs |-> obs, storedAt |-> clock] ELSE kept[q]]

ProbeReturns(p) ==
  /\ prober[p].pc = "answered"
  /\ memo' = IF MemoTTL > 0 THEN Remember(prober[p].record, prober[p].obs) ELSE memo
  /\ verdict' = Assessed(prober[p].record, prober[p].obs, prober[p].obs.lastUpdated)
  /\ prober' = [prober EXCEPT ![p] = Resting]
  /\ UNCHANGED <<clock, skew, tells, updated>>

\* An error: nothing is remembered, and the router applies its policy for an
\* unknown age.
ProbeFails(p) ==
  /\ prober[p].pc # "idle"
  /\ prober' = [prober EXCEPT ![p] = Resting]
  /\ verdict' = NoVerdict
  /\ UNCHANGED <<clock, skew, tells, updated, memo>>

\* Invalidate
Invalidate(r) ==
  /\ r \in DOMAIN memo
  /\ memo' = [q \in DOMAIN memo \ {r} |-> memo[q]]
  /\ verdict' = NoVerdict
  /\ UNCHANGED <<clock, skew, tells, updated, prober>>

-----------------------------------------------------------------------------
(* The source, and time                                                     *)

SourceWrites(r) ==
  /\ updated[r] # clock
  /\ updated' = [updated EXCEPT ![r] = clock]
  /\ verdict' = NoVerdict
  /\ UNCHANGED <<clock, skew, tells, memo, prober>>

MemoTick ==
  /\ clock < Epoch + MaxClock
  /\ \A p \in Probers : prober[p].pc # "idle" => clock - prober[p].start < ProbeTimeout
  /\ clock' = clock + 1
  /\ verdict' = NoVerdict
  /\ UNCHANGED <<skew, tells, updated, memo, prober>>

MemoNext ==
  \/ \E p \in Probers : \/ \E r \in Records : FromMemo(p, r) \/ StartProbe(p, r)
                        \/ SourceAnswers(p) \/ ProbeReturns(p) \/ ProbeFails(p)
  \/ \E r \in Records : Invalidate(r) \/ SourceWrites(r)
  \/ MemoTick

MemoSpec == MemoInit /\ [][MemoNext]_memoVars

-----------------------------------------------------------------------------
(* Properties                                                               *)

\* Where the source tells its time the clocks' difference cancels out.
ClockError == IF tells THEN 0 ELSE magnitude(skew)

\* A verdict may be late by the time its answer was under way, by nothing
\* else: a FRESH record is within its ttl up to that, through the memo or not,
\* and whatever overlaps.
FreshIsFresh ==
  verdict.state = "FRESH" => verdict.trueAge <= TTL + ProbeTimeout + ClockError

\* A write at the source, the first one too, is seen by every assessment made
\* later than the memo's ttl and one probe after it, although a probe that was answered
\* before the write may be stored after it, and after an invalidation.
WritesAreSeen ==
  verdict # NoVerdict =>
    \/ verdict.since = Stamp(verdict.record)
    \/ verdict.trueAge <= MemoTTL + ProbeTimeout

=============================================================================
