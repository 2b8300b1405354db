----------------------------- MODULE CachesProofs -----------------------------
(***************************************************************************)
(* Proofs about the freshness probe memo and about the two-tier cache, for  *)
(* every set of records, probes, keys and instances and for every ttl.      *)
(***************************************************************************)
EXTENDS Layered, ProbeMemo, TLAPS

-----------------------------------------------------------------------------
(* The probe memo.                                                          *)

\* obs is what the source said of record r at instant `at'.  A write since then
\* is no older than that instant.
SaidAt(obs, r, at) ==
  /\ at \in Int /\ at >= Epoch
  /\ obs \in [found : BOOLEAN, lastUpdated : Int, sourceTime : Int]
  /\ obs.found => /\ obs.lastUpdated - skew <= updated[r]
                  /\ obs.sourceTime = IF tells THEN at + skew ELSE NoTime
  /\ ~obs.found => obs.sourceTime = NoTime
  /\ obs.lastUpdated = Stamp(r) \/ updated[r] >= at

GoodMemo(m, r) ==
  /\ m.storedAt \in Int /\ m.storedAt <= clock
  /\ \E at \in Int : /\ SaidAt(m.obs, r, at)
                     /\ at <= m.storedAt /\ m.storedAt - at <= ProbeTimeout

GoodProber(b) ==
  /\ b.pc \in {"idle", "asking", "answered"}
  /\ b.pc # "idle" =>
       /\ b.record \in Records
       /\ b.start \in Int /\ b.start <= clock /\ clock - b.start <= ProbeTimeout
  /\ b.pc = "answered" =>
       \E at \in Int : SaidAt(b.obs, b.record, at) /\ b.start <= at /\ at <= clock

MemoInv ==
  /\ clock \in Int /\ clock >= Epoch
  /\ skew \in Skews /\ tells \in BOOLEAN
  /\ updated = [r \in Records |-> updated[r]]
  /\ \A r \in Records : updated[r] \in Int /\ updated[r] <= clock
  /\ memo = [r \in DOMAIN memo |-> memo[r]] /\ DOMAIN memo \subseteq Records
  /\ \A r \in DOMAIN memo : GoodMemo(memo[r], r)
  /\ prober = [p \in Probers |-> prober[p]]
  /\ \A p \in Probers : GoodProber(prober[p])
  /\ FreshIsFresh /\ WritesAreSeen

\* The numbers of the configuration, and what a clock may tell.
LEMMA MemoNumbers ==
  /\ MemoTTL \in Nat /\ ProbeTimeout \in Nat /\ TTL \in Nat /\ SkewTolerance \in Nat
  /\ Epoch \in Nat /\ NoTime = 0
  /\ \A s \in Skews : s \in Int /\ Epoch + s > 0
<1>1. Skews \subseteq Int /\ \A s \in Skews : Epoch + s > NoTime
  BY MemoAssumption
<1>2. NoTime = 0 /\ Epoch \in Nat
  BY DEF NoTime, Epoch
<1> QED
  BY <1>1, <1>2, MemoAssumption

\* A verdict of FRESH puts the computed age within the ttl.
LEMMA FreshAge ==
  ASSUME NEW obs, NEW now_ \in Int, obs.lastUpdated \in Int, obs.sourceTime \in Int,
         Evaluate(obs, TTL, SkewTolerance, now_).state = "FRESH"
  PROVE  obs.found /\ reference(obs, now_) - obs.lastUpdated <= TTL
<1>1. reference(obs, now_) \in Int
  BY DEF reference
<1> DEFINE raw == reference(obs, now_) - obs.lastUpdated
           age == IF raw < 0 THEN 0 ELSE raw
<1>2. raw \in Int /\ (raw > TTL => ~(age <= TTL))
  BY <1>1, MemoNumbers
<1>3. obs.found /\ age <= TTL
  BY DEF Evaluate, unknownVerdict
<1> QED
  BY <1>1, <1>2, <1>3, MemoNumbers

\* A step that gives no verdict.
LEMMA NoVerdictGood == ASSUME verdict' = NoVerdict PROVE FreshIsFresh' /\ WritesAreSeen'
  BY DEF NoVerdict, FreshIsFresh, WritesAreSeen

\* An observation of instant `at', assessed now: it is late by the time its
\* answer was under way, and never counts for longer than memo and probe last.
LEMMA AssessedGood ==
  ASSUME MemoInv, NEW r \in Records, NEW obs, NEW o, NEW at \in Int, NEW late \in Int,
         SaidAt(obs, r, at), at <= clock,
         late >= 0, late <= ProbeTimeout, clock - at <= MemoTTL + ProbeTimeout,
         o.lastUpdated = obs.lastUpdated, o.found = obs.found, o.sourceTime \in Int,
         obs.found => /\ o.sourceTime = IF tells THEN clock - late + skew ELSE NoTime
                      /\ o.sourceTime # NoTime \/ ~tells,
         verdict' = Assessed(r, o, obs.lastUpdated),
         UNCHANGED <<clock, skew, tells, updated>>
  PROVE  FreshIsFresh' /\ WritesAreSeen'
<1> DEFINE v == Evaluate(o, TTL, SkewTolerance, clock)
<1>1. /\ verdict'.record = r /\ verdict'.since = obs.lastUpdated
      /\ verdict'.trueAge = clock - updated[r] /\ verdict'.state = v.state
  BY DEF Assessed
<1>2. /\ clock \in Int /\ skew \in Int /\ updated[r] \in Int /\ updated[r] <= clock
      /\ obs.lastUpdated \in Int /\ (obs.found => obs.lastUpdated - skew <= updated[r])
      /\ obs.lastUpdated = Stamp(r) \/ updated[r] >= at
  BY MemoNumbers DEF MemoInv, SaidAt
<1>3. v.state = "FRESH" => clock - updated[r] <= TTL + ProbeTimeout + ClockError
  <2> SUFFICES ASSUME v.state = "FRESH"
               PROVE  clock - updated[r] <= TTL + ProbeTimeout + ClockError
    OBVIOUS
  <2>1. o.lastUpdated \in Int /\ o.sourceTime \in Int
    BY <1>2, MemoNumbers
  <2>2. obs.found /\ reference(o, clock) - o.lastUpdated <= TTL
    BY <1>2, <2>1, FreshAge
  <2>3. CASE tells
    <3>1. reference(o, clock) = clock - late + skew /\ ClockError = 0
      BY <2>2, <2>3 DEF reference, ClockError
    <3> QED
      BY <1>2, <2>1, <2>2, <3>1, MemoNumbers
  <2>4. CASE ~tells
    <3>1. reference(o, clock) = clock /\ ClockError = magnitude(skew)
      BY <2>2, <2>4 DEF reference, ClockError
    <3>2. magnitude(skew) \in Int /\ skew <= magnitude(skew)
      BY <1>2 DEF magnitude
    <3> QED
      BY <1>2, <2>1, <2>2, <3>1, <3>2, MemoNumbers
  <2> QED
    BY <2>3, <2>4
<1>4. obs.lastUpdated = Stamp(r) \/ clock - updated[r] <= MemoTTL + ProbeTimeout
  BY <1>2, MemoNumbers
<1> HIDE DEF v
<1>5. FreshIsFresh'
  BY <1>1, <1>3 DEF FreshIsFresh, ClockError
<1>6. WritesAreSeen'
  BY <1>1, <1>4 DEF WritesAreSeen, Stamp
<1> QED
  BY <1>5, <1>6


\* A step that leaves the source and the clock alone, with a good memo and good
\* probes after it.
LEMMA MemoFrame ==
  ASSUME MemoInv, UNCHANGED <<clock, skew, tells, updated>>,
         memo' = [r \in DOMAIN memo' |-> memo'[r]], DOMAIN memo' \subseteq Records,
         \A r \in DOMAIN memo' : GoodMemo(memo'[r], r),
         prober' = [p \in Probers |-> prober'[p]],
         \A p \in Probers : GoodProber(prober'[p]),
         FreshIsFresh' /\ WritesAreSeen'
  PROVE  MemoInv'
<1>1. \A r \in DOMAIN memo' : GoodMemo(memo[r], r)'
  BY DEF GoodMemo, SaidAt, Stamp
<1>2. \A p \in Probers : GoodProber(prober[p])'
  BY DEF GoodProber, SaidAt, Stamp
<1> QED
  BY <1>1, <1>2 DEF MemoInv

\* One probe moves.
LEMMA OneProber ==
  ASSUME MemoInv, UNCHANGED <<clock, skew, tells, updated, memo>>, verdict' = NoVerdict,
         NEW p \in Probers, NEW b, prober' = [prober EXCEPT ![p] = b], GoodProber(b)
  PROVE  MemoInv'
<1>1. prober' = [q \in Probers |-> IF q = p THEN b ELSE prober[q]]
  BY DEF MemoInv
<1>2. prober' = [q \in Probers |-> prober'[q]] /\ \A q \in Probers : GoodProber(prober'[q])
  BY <1>1 DEF MemoInv
<1>3. /\ memo' = [r \in DOMAIN memo' |-> memo'[r]] /\ DOMAIN memo' \subseteq Records
      /\ \A r \in DOMAIN memo' : GoodMemo(memo'[r], r)
  BY DEF MemoInv
<1> QED
  BY <1>2, <1>3, NoVerdictGood, MemoFrame

\* A verdict from the memo: the source's clock has moved on meanwhile.
LEMMA FromMemoGood ==
  ASSUME MemoInv, NEW p \in Probers, NEW r \in Records, FromMemo(p, r) PROVE MemoInv'
<1> DEFINE obs == memo[r].obs
           elapsed == clock - memo[r].storedAt
           o == aged(obs, elapsed)
<1>1. /\ r \in DOMAIN memo /\ MemoTTL > 0 /\ clock - memo[r].storedAt < MemoTTL
      /\ verdict' = Assessed(r, o, obs.lastUpdated)
      /\ UNCHANGED <<clock, skew, tells, updated, memo, prober>>
  BY DEF FromMemo, Remembered
<1>2. GoodMemo(memo[r], r) /\ clock \in Int /\ skew \in Skews /\ tells \in BOOLEAN
  BY <1>1 DEF MemoInv
<1>3. PICK at \in Int : /\ SaidAt(obs, r, at)
                        /\ at <= memo[r].storedAt /\ memo[r].storedAt - at <= ProbeTimeout
  BY <1>2 DEF GoodMemo
<1>4. memo[r].storedAt \in Int /\ memo[r].storedAt <= clock
  BY <1>2 DEF GoodMemo
<1>5. /\ obs.lastUpdated \in Int
      /\ obs.sourceTime = (IF obs.found /\ tells THEN at + skew ELSE NoTime)
      /\ at >= Epoch /\ obs \in [found : BOOLEAN, lastUpdated : Int, sourceTime : Int]
  BY <1>3 DEF SaidAt
<1>6. skew \in Int /\ Epoch + skew > 0 /\ Epoch \in Nat /\ NoTime = 0
  BY <1>2, MemoNumbers
<1> DEFINE late == memo[r].storedAt - at
<1>7. late \in Int /\ late >= 0 /\ late <= ProbeTimeout /\ clock - at <= MemoTTL + ProbeTimeout
      /\ at <= clock /\ elapsed \in Int /\ elapsed >= 0
  BY <1>1, <1>2, <1>3, <1>4, MemoNumbers
<1>8. /\ o.lastUpdated = obs.lastUpdated /\ o.found = obs.found /\ o.sourceTime \in Int
      /\ obs.found => /\ o.sourceTime = (IF tells THEN clock - late + skew ELSE NoTime)
                      /\ o.sourceTime # NoTime \/ ~tells
  <2>1. CASE obs.found /\ tells
    <3>1. obs.sourceTime = at + skew /\ at + skew \in Int /\ at + skew > 0
      BY <1>5, <1>6, <2>1
    <3> DEFINE moved == obs.sourceTime + elapsed
    <3>2. o = [obs EXCEPT !.sourceTime = moved]
      BY <1>6, <3>1 DEF aged
    <3>3. moved = clock - late + skew /\ moved # NoTime
      BY <1>2, <1>4, <1>6, <1>7, <3>1
    <3> HIDE DEF moved, late, elapsed
    <3>4. /\ o.lastUpdated = obs.lastUpdated /\ o.found = obs.found
          /\ o.sourceTime = moved /\ moved \in Int
      <4>1. moved \in Int
        BY <1>2, <1>6, <1>7, <3>1, <3>3
      <4> HIDE DEF obs, o
      <4> QED
        BY <1>5, <3>2, <4>1
    <3> QED
      BY <2>1, <3>3, <3>4
  <2>2. CASE ~(obs.found /\ tells)
    BY <1>5, <1>6, <2>2 DEF aged
  <2> QED
    BY <2>1, <2>2
<1> HIDE DEF obs, o, late, elapsed
<1>9. FreshIsFresh' /\ WritesAreSeen'
  BY <1>1, <1>3, <1>7, <1>8, AssessedGood
<1>10. /\ memo' = [q \in DOMAIN memo' |-> memo'[q]] /\ DOMAIN memo' \subseteq Records
       /\ \A q \in DOMAIN memo' : GoodMemo(memo'[q], q)
       /\ prober' = [q \in Probers |-> prober'[q]] /\ \A q \in Probers : GoodProber(prober'[q])
  BY <1>1 DEF MemoInv
<1> QED
  BY <1>1, <1>9, <1>10, MemoFrame


LEMMA StartProbeGood ==
  ASSUME MemoInv, NEW p \in Probers, NEW r \in Records, StartProbe(p, r) PROVE MemoInv'
<1> DEFINE b == [pc |-> "asking", record |-> r, start |-> clock]
<1>1. /\ prober' = [prober EXCEPT ![p] = b] /\ verdict' = NoVerdict
      /\ UNCHANGED <<clock, skew, tells, updated, memo>>
  BY DEF StartProbe
<1>2. b.pc = "asking" /\ b.record = r /\ b.start = clock
  OBVIOUS
<1> HIDE DEF b
<1>3. GoodProber(b)
  BY <1>2, MemoNumbers DEF GoodProber, MemoInv
<1> QED
  BY <1>1, <1>3, OneProber

\* The source's answer, of this instant.
LEMMA SourceAnswersGood == ASSUME MemoInv, NEW p \in Probers, SourceAnswers(p) PROVE MemoInv'
<1> DEFINE r == prober[p].record
           b == [pc |-> "answered", record |-> r, start |-> prober[p].start, obs |-> Observed(r)]
<1>1. /\ prober[p].pc = "asking" /\ prober' = [prober EXCEPT ![p] = b] /\ verdict' = NoVerdict
      /\ UNCHANGED <<clock, skew, tells, updated, memo>>
  BY DEF SourceAnswers
<1>2. b.pc = "answered" /\ b.record = r /\ b.start = prober[p].start /\ b.obs = Observed(r)
  OBVIOUS
<1>3. /\ r \in Records /\ prober[p].start \in Int /\ prober[p].start <= clock
      /\ clock - prober[p].start <= ProbeTimeout /\ clock \in Int /\ clock >= Epoch
      /\ updated[r] \in Int /\ updated[r] <= clock /\ skew \in Int /\ tells \in BOOLEAN
  BY <1>1, MemoNumbers DEF MemoInv, GoodProber
<1> DEFINE there == updated[r] # NoTime
           last == Stamp(r)
           told == IF there /\ tells THEN clock + skew ELSE NoTime
<1>4. /\ there \in BOOLEAN /\ last \in Int /\ told \in Int
      /\ there => last - skew <= updated[r]
  BY <1>3, MemoNumbers DEF Stamp
<1>5. Observed(r) = [found |-> there, lastUpdated |-> last, sourceTime |-> told]
  BY DEF Observed
<1> HIDE DEF b, there, last, told
<1>6. /\ Observed(r) \in [found : BOOLEAN, lastUpdated : Int, sourceTime : Int]
      /\ Observed(r).found = there /\ Observed(r).lastUpdated = last /\ Observed(r).sourceTime = told
  BY <1>4, <1>5
<1>7. SaidAt(Observed(r), r, clock)
  BY <1>3, <1>4, <1>6 DEF SaidAt, last, told
<1>8. GoodProber(b)
  BY <1>2, <1>3, <1>7 DEF GoodProber
<1> QED
  BY <1>1, <1>8, OneProber

LEMMA ProbeFailsGood == ASSUME MemoInv, NEW p \in Probers, ProbeFails(p) PROVE MemoInv'
<1>1. GoodProber(Resting)
  BY DEF Resting, GoodProber
<1> QED
  BY <1>1, OneProber DEF ProbeFails

\* The answer arrives, is remembered and assessed.
LEMMA ProbeReturnsGood == ASSUME MemoInv, NEW p \in Probers, ProbeReturns(p) PROVE MemoInv'
<1> DEFINE r == prober[p].record
           obs == prober[p].obs
<1>1. /\ prober[p].pc = "answered" /\ prober' = [prober EXCEPT ![p] = Resting]
      /\ memo' = IF MemoTTL > 0 THEN Remember(r, obs) ELSE memo
      /\ verdict' = Assessed(r, obs, obs.lastUpdated)
      /\ UNCHANGED <<clock, skew, tells, updated>>
  BY DEF ProbeReturns
<1>2. /\ r \in Records /\ prober[p].start \in Int /\ prober[p].start <= clock
      /\ clock - prober[p].start <= ProbeTimeout /\ clock \in Int
      /\ skew \in Int /\ tells \in BOOLEAN /\ Epoch + skew > 0 /\ Epoch \in Nat /\ NoTime = 0
  BY <1>1, MemoNumbers DEF MemoInv, GoodProber
<1>3. PICK at \in Int : SaidAt(obs, r, at) /\ prober[p].start <= at /\ at <= clock
  BY <1>1 DEF MemoInv, GoodProber
<1> DEFINE late == clock - at
<1>4. late \in Int /\ late >= 0 /\ late <= ProbeTimeout /\ clock - at <= MemoTTL + ProbeTimeout
  BY <1>2, <1>3, MemoNumbers
<1>5. /\ obs.sourceTime \in Int
      /\ obs.found => /\ obs.sourceTime = (IF tells THEN clock - late + skew ELSE NoTime)
                      /\ obs.sourceTime # NoTime \/ ~tells
  BY <1>2, <1>3 DEF SaidAt
<1>6. FreshIsFresh' /\ WritesAreSeen'
  <2> HIDE DEF late, obs, r
  <2> QED
    BY <1>1, <1>2, <1>3, <1>4, <1>5, AssessedGood
<1> DEFINE m == [obs |-> obs, storedAt |-> clock]
<1>7. GoodMemo(m, r)
  <2>1. m.obs = obs /\ m.storedAt = clock
    OBVIOUS
  <2> HIDE DEF m, obs, r
  <2> QED
    BY <1>2, <1>3, <1>4, <2>1 DEF GoodMemo
<1> DEFINE kept == IF Cardinality(DOMAIN memo) >= MaxEntries THEN << >> ELSE memo
<1>8. DOMAIN kept \subseteq DOMAIN memo /\ \A q \in DOMAIN kept : kept[q] = memo[q]
  <2>1. DOMAIN << >> = {}
    OBVIOUS
  <2> QED
    BY <2>1
<1>9. \/ memo' = [q \in DOMAIN kept \cup {r} |-> IF q = r THEN m ELSE kept[q]]
      \/ memo' = memo
  BY <1>1 DEF Remember
<1> HIDE DEF m, kept, obs, r
<1>10. /\ memo' = [q \in DOMAIN memo' |-> memo'[q]] /\ DOMAIN memo' \subseteq Records
       /\ \A q \in DOMAIN memo' : GoodMemo(memo'[q], q)
  BY <1>2, <1>7, <1>8, <1>9 DEF MemoInv
<1>11. prober' = [q \in Probers |-> IF q = p THEN Resting ELSE prober[q]]
  BY <1>1 DEF MemoInv
<1>12. GoodProber(Resting)
  BY DEF Resting, GoodProber
<1>13. prober' = [q \in Probers |-> prober'[q]] /\ \A q \in Probers : GoodProber(prober'[q])
  BY <1>11, <1>12 DEF MemoInv
<1> QED
  BY <1>1, <1>6, <1>10, <1>13, MemoFrame

LEMMA MemoInvalidateGood == ASSUME MemoInv, NEW r \in Records, Invalidate(r) PROVE MemoInv'
<1>1. /\ memo' = [q \in DOMAIN memo \ {r} |-> memo[q]] /\ verdict' = NoVerdict
      /\ UNCHANGED <<clock, skew, tells, updated, prober>>
  BY DEF Invalidate
<1>2. /\ memo' = [q \in DOMAIN memo' |-> memo'[q]] /\ DOMAIN memo' \subseteq Records
      /\ \A q \in DOMAIN memo' : GoodMemo(memo'[q], q)
  BY <1>1 DEF MemoInv
<1>3. prober' = [q \in Probers |-> prober'[q]] /\ \A q \in Probers : GoodProber(prober'[q])
  BY <1>1 DEF MemoInv
<1> QED
  BY <1>1, <1>2, <1>3, NoVerdictGood, MemoFrame

\* The source writes: what was said before is as old as this instant at most.
LEMMA SourceWritesGood == ASSUME MemoInv, NEW r \in Records, SourceWrites(r) PROVE MemoInv'
<1>1. /\ updated' = [updated EXCEPT ![r] = clock] /\ verdict' = NoVerdict
      /\ UNCHANGED <<clock, skew, tells, memo, prober>>
  BY DEF SourceWrites
<1>2. updated' = [q \in Records |-> IF q = r THEN clock ELSE updated[q]]
  BY <1>1 DEF MemoInv
<1>3. /\ updated' = [q \in Records |-> updated'[q]] /\ clock \in Int /\ skew \in Int
      /\ \A q \in Records : /\ updated[q] \in Int /\ updated[q] <= clock
                            /\ updated'[q] \in Int /\ updated'[q] <= clock
  BY <1>2, MemoNumbers DEF MemoInv
<1>4. ASSUME NEW obs, NEW q \in Records, NEW at \in Int, at <= clock, SaidAt(obs, q, at)
      PROVE  SaidAt(obs, q, at)'
  <2>1. obs.lastUpdated \in Int
    BY <1>4 DEF SaidAt
  <2>2. CASE q = r
    <3>1. updated'[q] = clock
      BY <1>2, <2>2
    <3> QED
      BY <1>1, <1>3, <1>4, <2>1, <3>1 DEF SaidAt, Stamp
  <2>3. CASE q # r
    <3>1. updated'[q] = updated[q]
      BY <1>2, <2>3
    <3> QED
      BY <1>1, <1>4, <3>1 DEF SaidAt, Stamp
  <2> QED
    BY <2>2, <2>3
<1>5. \A q \in DOMAIN memo' : GoodMemo(memo[q], q)'
  <2> SUFFICES ASSUME NEW q \in DOMAIN memo PROVE GoodMemo(memo[q], q)'
    BY <1>1
  <2>1. GoodMemo(memo[q], q) /\ q \in Records
    BY DEF MemoInv
  <2>2. PICK at \in Int : /\ SaidAt(memo[q].obs, q, at)
                          /\ at <= memo[q].storedAt /\ memo[q].storedAt - at <= ProbeTimeout
    BY <2>1 DEF GoodMemo
  <2>3. memo[q].storedAt \in Int /\ memo[q].storedAt <= clock
    BY <2>1 DEF GoodMemo
  <2>4. SaidAt(memo[q].obs, q, at)'
    <3>1. at <= clock
      BY <1>3, <2>2, <2>3
    <3>2. SaidAt(memo[q].obs, q, at) /\ UNCHANGED memo
      BY <1>1, <2>2
    <3> QED
      BY <1>4, <2>1, <3>1, <3>2
  <2> QED
    BY <1>1, <2>2, <2>3, <2>4 DEF GoodMemo
<1>6. \A p \in Probers : GoodProber(prober[p])'
  <2> SUFFICES ASSUME NEW p \in Probers PROVE GoodProber(prober[p])'
    OBVIOUS
  <2>1. GoodProber(prober[p])
    BY DEF MemoInv
  <2>2. prober[p].pc = "answered" =>
          \E at \in Int : /\ SaidAt(prober[p].obs, prober[p].record, at)'
                          /\ prober[p].start <= at /\ at <= clock
    <3> SUFFICES ASSUME prober[p].pc = "answered"
                 PROVE  \E at \in Int : /\ SaidAt(prober[p].obs, prober[p].record, at)'
                                        /\ prober[p].start <= at /\ at <= clock
      OBVIOUS
    <3>1. PICK at \in Int : /\ SaidAt(prober[p].obs, prober[p].record, at)
                            /\ prober[p].start <= at /\ at <= clock
      BY <2>1 DEF GoodProber
    <3>2. prober[p].record \in Records
      BY <2>1 DEF GoodProber
    <3>3. SaidAt(prober[p].obs, prober[p].record, at)'
      BY <1>1, <1>4, <3>1, <3>2
    <3> QED
      BY <3>1, <3>3
  <2> QED
    BY <1>1, <2>1, <2>2 DEF GoodProber
<1> QED
  BY <1>1, <1>3, <1>5, <1>6, NoVerdictGood DEF MemoInv

\* The clock ticks while every probe is within its deadline.
LEMMA MemoTickGood == ASSUME MemoInv, MemoTick PROVE MemoInv'
<1>1. /\ clock \in Int /\ clock' = clock + 1 /\ verdict' = NoVerdict
      /\ UNCHANGED <<skew, tells, updated, memo, prober>>
      /\ \A p \in Probers : prober[p].pc # "idle" => clock - prober[p].start < ProbeTimeout
  BY DEF MemoTick, MemoInv
<1>2. \A q \in Records : updated'[q] \in Int /\ updated'[q] <= clock'
  BY <1>1 DEF MemoInv
<1>3. \A q \in DOMAIN memo : GoodMemo(memo[q], q)'
  <2> SUFFICES ASSUME NEW q \in DOMAIN memo PROVE GoodMemo(memo[q], q)'
    OBVIOUS
  <2>1. GoodMemo(memo[q], q)
    BY DEF MemoInv
  <2> QED
    BY <1>1, <2>1 DEF GoodMemo, SaidAt, Stamp
<1>4. \A p \in Probers : GoodProber(prober[p])'
  <2> SUFFICES ASSUME NEW p \in Probers PROVE GoodProber(prober[p])'
    OBVIOUS
  <2>1. GoodProber(prober[p])
    BY DEF MemoInv
  <2>2. prober[p].pc # "idle" =>
          prober[p].start \in Int /\ prober[p].start <= clock' /\ clock' - prober[p].start <= ProbeTimeout
    BY <1>1, <2>1, MemoNumbers DEF GoodProber
  <2>3. prober[p].pc = "answered" =>
          \E at \in Int : /\ SaidAt(prober[p].obs, prober[p].record, at)'
                          /\ prober[p].start <= at /\ at <= clock'
    BY <1>1, <2>1 DEF GoodProber, SaidAt, Stamp
  <2> QED
    BY <1>1, <2>1, <2>2, <2>3 DEF GoodProber
<1>5. clock' \in Int /\ clock' >= Epoch
  BY <1>1, MemoNumbers DEF MemoInv
<1> QED
  BY <1>1, <1>2, <1>3, <1>4, <1>5, NoVerdictGood DEF MemoInv

LEMMA MemoInvInit == MemoInit => MemoInv
<1> SUFFICES ASSUME MemoInit PROVE MemoInv
  OBVIOUS
<1>1. FreshIsFresh /\ WritesAreSeen
  BY DEF MemoInit, NoVerdict, FreshIsFresh, WritesAreSeen
<1>2. DOMAIN memo = {} /\ memo = [r \in DOMAIN memo |-> memo[r]]
  BY DEF MemoInit
<1>3. \A p \in Probers : GoodProber(prober[p])
  BY DEF MemoInit, Resting, GoodProber
<1>4. prober = [p \in Probers |-> prober[p]] /\ updated = [r \in Records |-> updated[r]]
  BY DEF MemoInit
<1>5. \A r \in Records : updated[r] \in Int /\ updated[r] <= clock
  BY MemoNumbers DEF MemoInit
<1> QED
  BY <1>1, <1>2, <1>3, <1>4, <1>5, MemoNumbers DEF MemoInit, MemoInv

LEMMA MemoInvNext == MemoInv /\ [MemoNext]_memoVars => MemoInv'
<1> SUFFICES ASSUME MemoInv, [MemoNext]_memoVars PROVE MemoInv'
  OBVIOUS
<1>1. CASE UNCHANGED memoVars
  BY <1>1 DEF memoVars, MemoInv, GoodMemo, GoodProber, SaidAt, FreshIsFresh, WritesAreSeen,
              ClockError, Stamp
<1> QED
  BY <1>1, FromMemoGood, StartProbeGood, SourceAnswersGood, ProbeReturnsGood, ProbeFailsGood,
     MemoInvalidateGood, SourceWritesGood, MemoTickGood DEF MemoNext

LEMMA MemoInvAlways == MemoSpec => []MemoInv
  BY MemoInvInit, MemoInvNext, PTL DEF MemoSpec

\* A FRESH verdict is right up to the time one probe may take and, where the
\* source does not tell its time, the difference of the clocks; through the
\* memo or not, and however probes, flushes and invalidations overlap
\* (Manager.Assess, cachedProbe.age).
THEOREM FreshVerdictsAreRight == MemoSpec => []FreshIsFresh
<1>1. MemoInv => FreshIsFresh
  BY DEF MemoInv
<1> QED
  BY <1>1, MemoInvAlways, PTL

\* A write at the source is seen by every assessment made later than the memo's
\* ttl and one probe after it (Manager.Probe).
THEOREM WritesAreSeenInTime == MemoSpec => []WritesAreSeen
<1>1. MemoInv => WritesAreSeen
  BY DEF MemoInv
<1> QED
  BY <1>1, MemoInvAlways, PTL

-----------------------------------------------------------------------------
(* The two-tier cache.                                                      *)

GoodEntry(e) ==
  /\ e.version \in 1..version
  /\ e.storedAt \in Int /\ e.storedAt <= now
  /\ e.lifetime \in Nat

\* An item of the first tier is within its ttl, within its entry's life, and,
\* once Redis has lost the entry, within one ttl and one operation of the loss.
GoodItem(x) ==
  /\ GoodEntry(x.entry)
  /\ x.expiresAt \in Int /\ x.expiresAt <= now + L1TTL
  /\ x.expiresAt <= x.entry.storedAt + x.entry.lifetime + StaleGrace
  /\ left[x.entry.version] # Never => x.expiresAt <= left[x.entry.version] + L1TTL + OpTime

GoodTier(m) == \A k \in DOMAIN m.items : GoodItem(m.items[k])

\* What Redis holds it has not lost; it was written within one operation.
GoodHeld(h) ==
  h # Nothing =>
    /\ h.version = h.entry.version /\ GoodEntry(h.entry)
    /\ left[h.version] = Never
    /\ h.expiresAt \in Int
    /\ h.expiresAt <= h.entry.storedAt + OpTime + h.entry.lifetime + StaleGrace

Promotable(a) ==
  /\ GoodEntry(a.entry)
  /\ left[a.entry.version] # Never => left[a.entry.version] >= a.start
  /\ a.start <= a.entry.storedAt + OpTime + a.entry.lifetime + StaleGrace

Writable(a) ==
  GoodEntry(a.entry) /\ a.entry.storedAt = a.start /\ left[a.entry.version] = Never

GoodTask(a) ==
  /\ a.pc \in {"idle", "reading", "promoting", "writing", "deleting", "unlinking", "scanning"}
  /\ a.pc # "idle" => a.start \in Int /\ a.start <= now
  /\ a.pc \notin {"idle", "scanning"} => now - a.start <= OpTime
  /\ a.pc \in {"reading", "promoting", "deleting", "unlinking"} => a.at \in Instances
  /\ a.pc \in {"reading", "promoting", "writing", "unlinking"} => a.key \in Keys
  /\ a.pc \in {"deleting", "unlinking", "scanning"} => \A k \in a.todo : k \in Keys
  /\ a.pc = "promoting" => Promotable(a)
  /\ a.pc = "writing" => Writable(a)

\* Every entry is in one place at Redis, or on its way there once.
HeldApart == \A j, k \in Keys : j # k /\ l2[k] # Nothing => l2[j].version # l2[k].version

WritersApart ==
  \A t \in Tasks : task[t].pc = "writing" =>
    /\ \A k \in Keys : l2[k].version # task[t].entry.version
    /\ \A u \in Tasks : u # t /\ task[u].pc = "writing" =>
         task[u].entry.version # task[t].entry.version

LayeredInv ==
  /\ now \in Int /\ version \in 0..MaxVersion
  /\ left = [v \in 1..MaxVersion |-> left[v]]
  /\ \A v \in 1..MaxVersion : /\ left[v] \in Int /\ left[v] <= now
                              /\ v > version => left[v] = Never
  /\ l1 = [i \in Instances |-> l1[i]] /\ \A i \in Instances : GoodTier(l1[i])
  /\ l2 = [k \in Keys |-> l2[k]] /\ \A k \in Keys : GoodHeld(l2[k])
  /\ task = [t \in Tasks |-> task[t]] /\ \A t \in Tasks : GoodTask(task[t])
  /\ HeldApart /\ WritersApart
  /\ GoneIsGone /\ LifeNotProlonged


LEMMA LayeredNumbers ==
  /\ L1TTL \in Nat /\ StaleGrace \in Nat /\ OpTime \in Nat /\ MaxVersion \in Nat
  /\ Never = -1 /\ \A d \in Lifetimes : d \in Nat
  BY LayeredAssumption DEF Never

\* What Memory.Set leaves: items it had before, and the new one.
LEMMA KeptItems ==
  ASSUME NEW m, NEW k, NEW e, NEW ttl, NEW j \in DOMAIN Kept(m, k, e, ttl).items
  PROVE  \/ j \in DOMAIN m.items /\ Kept(m, k, e, ttl).items[j] = m.items[j]
         \/ ttl > 0 /\ Kept(m, k, e, ttl).items[j] = [entry |-> e, expiresAt |-> now + ttl]
<1>1. CASE ttl > 0
  <2> DEFINE all == MoveToFront(m.lru, k)
             lru == SubSeq(all, 1, IF Len(all) > MaxItems THEN MaxItems ELSE Len(all))
             new == [entry |-> e, expiresAt |-> now + ttl]
             dom == (DOMAIN m.items \cup {k}) \cap ToSet(lru)
             its == [q \in dom |-> IF q = k THEN new ELSE m.items[q]]
  <2>1. Kept(m, k, e, ttl) = [items |-> its, lru |-> lru]
    BY <1>1 DEF Kept
  <2> HIDE DEF lru, new
  <2>2. Kept(m, k, e, ttl).items = its
    BY <2>1
  <2>3. j \in dom /\ (j # k => j \in DOMAIN m.items)
    BY <2>2
  <2>4. its[j] = IF j = k THEN new ELSE m.items[j]
    BY <2>3
  <2> QED
    BY <1>1, <2>2, <2>3, <2>4 DEF new
<1>2. CASE ~(ttl > 0)
  <2>1. Kept(m, k, e, ttl) = m
    BY <1>2 DEF Kept
  <2> QED
    BY <2>1
<1> QED
  BY <1>1, <1>2

LEMMA WithoutGood == ASSUME NEW m, NEW ks, GoodTier(m) PROVE GoodTier(Without(m, ks))
<1> DEFINE its == [k \in DOMAIN m.items \ ks |-> m.items[k]]
           lru == SelectSeq(m.lru, LAMBDA k : k \notin ks)
<1>1. Without(m, ks) = [items |-> its, lru |-> lru]
  BY DEF Without
<1> HIDE DEF lru
<1>2. Without(m, ks).items = its
  BY <1>1
<1> QED
  BY <1>2 DEF GoodTier

\* A step that returns nothing.
LEMMA NothingGot == ASSUME got' = Nothing PROVE GoneIsGone' /\ LifeNotProlonged'
  BY DEF GoneIsGone, LifeNotProlonged

\* One tier changes, or one task moves.
LEMMA OneTier ==
  ASSUME LayeredInv, NEW i \in Instances, NEW m, GoodTier(m), l1' = [l1 EXCEPT ![i] = m]
  PROVE  l1' = [j \in Instances |-> l1'[j]] /\ \A j \in Instances : GoodTier(l1'[j])
<1>1. l1' = [j \in Instances |-> IF j = i THEN m ELSE l1[j]]
  BY DEF LayeredInv
<1> QED
  BY <1>1 DEF LayeredInv

LEMMA OneTask ==
  ASSUME LayeredInv, NEW t \in Tasks, NEW a, GoodTask(a), a.pc # "writing",
         task' = [task EXCEPT ![t] = a], UNCHANGED l2
  PROVE  /\ task' = [u \in Tasks |-> task'[u]] /\ \A u \in Tasks : GoodTask(task'[u])
         /\ WritersApart'
<1>1. task' = [u \in Tasks |-> IF u = t THEN a ELSE task[u]]
  BY DEF LayeredInv
<1>2. task' = [u \in Tasks |-> task'[u]] /\ \A u \in Tasks : GoodTask(task'[u])
  BY <1>1 DEF LayeredInv
<1>3. \A u \in Tasks : task'[u].pc = "writing" => u # t /\ task'[u] = task[u]
  BY <1>1
<1>4. WritersApart'
  BY <1>3 DEF LayeredInv, WritersApart
<1> QED
  BY <1>2, <1>4

\* A step that leaves the clock, Redis and its history alone.
LEMMA LayeredFrame ==
  ASSUME LayeredInv, UNCHANGED <<now, version, left, l2>>,
         l1' = [i \in Instances |-> l1'[i]], \A i \in Instances : GoodTier(l1'[i]),
         task' = [t \in Tasks |-> task'[t]], \A t \in Tasks : GoodTask(task'[t]), WritersApart',
         GoneIsGone' /\ LifeNotProlonged'
  PROVE  LayeredInv'
<1>1. \A i \in Instances : GoodTier(l1[i])'
  BY DEF GoodTier, GoodItem, GoodEntry
<1>2. \A t \in Tasks : GoodTask(task[t])'
  BY DEF GoodTask, Promotable, Writable, GoodEntry
<1>3. \A k \in Keys : GoodHeld(l2[k])'
  BY DEF LayeredInv, GoodHeld, GoodEntry
<1>4. HeldApart'
  BY DEF LayeredInv, HeldApart
<1> QED
  BY <1>1, <1>2, <1>3, <1>4 DEF LayeredInv

LEMMA FreeGood == GoodTask(Free) /\ Free.pc = "idle"
  BY DEF GoodTask, Free

\* The tiers as they are.
LEMMA SameTiers == ASSUME LayeredInv, UNCHANGED l1
                   PROVE  /\ l1' = [i \in Instances |-> l1'[i]]
                          /\ \A i \in Instances : GoodTier(l1'[i])
  BY DEF LayeredInv

-----------------------------------------------------------------------------

\* A hit in the first tier: the item is within all its bounds.
LEMMA GetL1Good ==
  ASSUME LayeredInv, NEW t \in Tasks, NEW i \in Instances, NEW k \in Keys, GetL1(t, i, k)
  PROVE  LayeredInv'
<1> DEFINE x == l1[i].items[k]
           lru == MoveToFront(l1[i].lru, k)
           m == [items |-> l1[i].items, lru |-> lru]
<1>1. /\ k \in DOMAIN l1[i].items /\ now <= x.expiresAt
      /\ got' = Told("L1", x.entry) /\ UNCHANGED <<now, l2, task, version, left>>
  BY DEF GetL1, Found
<1>2. l1' = [l1 EXCEPT ![i] = m]
  BY DEF GetL1, LayeredInv
<1> HIDE DEF lru
<1>3. m.items = l1[i].items
  OBVIOUS
<1>4. GoodTier(l1[i]) /\ GoodItem(x)
  BY <1>1 DEF LayeredInv, GoodTier
<1> HIDE DEF m, x
<1>5. GoodTier(m)
  BY <1>3, <1>4 DEF GoodTier
<1>6. /\ got'.tier = "L1" /\ got'.version = x.entry.version
      /\ got'.storedAt = x.entry.storedAt /\ got'.lifetime = x.entry.lifetime
  BY <1>1 DEF Told
<1>7. x.entry.version \in 1..MaxVersion /\ left[x.entry.version] \in Int /\ now \in Int
      /\ x.entry.storedAt \in Int /\ x.entry.lifetime \in Int /\ x.expiresAt \in Int
  BY <1>4, LayeredNumbers DEF LayeredInv, GoodItem, GoodEntry
<1>8. GoneIsGone'
  BY <1>1, <1>4, <1>6, <1>7, LayeredNumbers DEF GoneIsGone, GoodItem
<1>9. LifeNotProlonged'
  BY <1>1, <1>4, <1>6, <1>7, LayeredNumbers DEF LifeNotProlonged, GoodItem
<1>10. l1' = [j \in Instances |-> l1'[j]] /\ \A j \in Instances : GoodTier(l1'[j])
  BY <1>2, <1>5, OneTier
<1>11. /\ task' = [u \in Tasks |-> task'[u]] /\ \A u \in Tasks : GoodTask(task'[u])
       /\ WritersApart'
  BY <1>1 DEF LayeredInv, WritersApart
<1> QED
  BY <1>1, <1>8, <1>9, <1>10, <1>11, LayeredFrame

LEMMA MissL1Good ==
  ASSUME LayeredInv, NEW t \in Tasks, NEW i \in Instances, NEW k \in Keys, MissL1(t, i, k)
  PROVE  LayeredInv'
<1> DEFINE a == [pc |-> "reading", at |-> i, key |-> k, start |-> now]
           m == Without(l1[i], {k})
<1>1. /\ task' = [task EXCEPT ![t] = a] /\ got' = Nothing
      /\ UNCHANGED <<now, l2, version, left>>
  BY DEF MissL1
<1>2. l1' = [l1 EXCEPT ![i] = m]
  BY DEF MissL1, LayeredInv
<1>3. a.pc = "reading" /\ a.at = i /\ a.key = k /\ a.start = now
  OBVIOUS
<1> HIDE DEF a, m
<1>4. GoodTask(a)
  BY <1>3, LayeredNumbers DEF GoodTask, LayeredInv
<1>5. GoodTier(m)
  BY WithoutGood DEF LayeredInv, m
<1>6. l1' = [j \in Instances |-> l1'[j]] /\ \A j \in Instances : GoodTier(l1'[j])
  BY <1>2, <1>5, OneTier
<1>7. /\ task' = [u \in Tasks |-> task'[u]] /\ \A u \in Tasks : GoodTask(task'[u])
      /\ WritersApart'
  BY <1>1, <1>3, <1>4, OneTask
<1> QED
  BY <1>1, <1>6, <1>7, NothingGot, LayeredFrame

\* Redis answers with an entry it has not lost.
LEMMA ReadL2Good == ASSUME LayeredInv, NEW t \in Tasks, ReadL2(t) PROVE LayeredInv'
<1> DEFINE o == task[t]
           h == l2[o.key]
           a == [pc |-> "promoting", at |-> o.at, key |-> o.key, start |-> o.start,
                 entry |-> h.entry]
<1>1. /\ o.pc = "reading" /\ h # Nothing /\ now <= h.expiresAt
      /\ got' = Nothing /\ UNCHANGED <<now, l1, l2, version, left>>
  BY DEF ReadL2
<1>2. task' = [task EXCEPT ![t] = a]
  BY DEF ReadL2, LayeredInv
<1>3. /\ a.pc = "promoting" /\ a.at = o.at /\ a.key = o.key /\ a.start = o.start
      /\ a.entry = h.entry
  OBVIOUS
<1>4. GoodTask(o)
  BY DEF LayeredInv
<1>5. o.key \in Keys /\ o.at \in Instances /\ o.start \in Int /\ o.start <= now
      /\ now - o.start <= OpTime
  BY <1>1, <1>4 DEF GoodTask
<1>6. GoodHeld(h) /\ now \in Int
  BY <1>5 DEF LayeredInv
<1> HIDE DEF a, o, h
<1>7. /\ GoodEntry(h.entry) /\ left[h.entry.version] = Never
      /\ h.expiresAt \in Int
      /\ h.expiresAt <= h.entry.storedAt + OpTime + h.entry.lifetime + StaleGrace
      /\ h.entry.storedAt \in Int /\ h.entry.lifetime \in Int
  BY <1>1, <1>6 DEF GoodHeld, GoodEntry
<1>8. Promotable(a)
  BY <1>1, <1>3, <1>5, <1>6, <1>7, LayeredNumbers DEF Promotable
<1>9. GoodTask(a)
  BY <1>3, <1>5, <1>8 DEF GoodTask
<1>10. /\ task' = [u \in Tasks |-> task'[u]] /\ \A u \in Tasks : GoodTask(task'[u])
       /\ WritersApart'
  BY <1>1, <1>2, <1>3, <1>9, OneTask
<1> QED
  BY <1>1, <1>10, SameTiers, NothingGot, LayeredFrame

LEMMA MissL2Good == ASSUME LayeredInv, NEW t \in Tasks, MissL2(t) PROVE LayeredInv'
<1>1. /\ task' = [task EXCEPT ![t] = Free] /\ got' = Nothing
      /\ UNCHANGED <<now, l1, l2, version, left>>
  BY DEF MissL2
<1>2. /\ task' = [u \in Tasks |-> task'[u]] /\ \A u \in Tasks : GoodTask(task'[u])
      /\ WritersApart'
  BY <1>1, FreeGood, OneTask
<1> QED
  BY <1>1, <1>2, SameTiers, NothingGot, LayeredFrame


\* A promotion: if Redis has lost the entry meanwhile, it did so after the read
\* began, so the copy lives one ttl and one operation longer at most.
LEMMA PromoteGood == ASSUME LayeredInv, NEW t \in Tasks, Promote(t) PROVE LayeredInv'
<1> DEFINE o == task[t]
           e == o.entry
           ttl == remaining(e)
           new == [entry |-> e, expiresAt |-> now + ttl]
           m == Kept(l1[o.at], o.key, e, ttl)
<1>1. /\ o.pc = "promoting" /\ got' = Told("L2", e) /\ task' = [task EXCEPT ![t] = Free]
      /\ UNCHANGED <<now, l2, version, left>>
  BY DEF Promote
<1>2. GoodTask(o) /\ now \in Int
  BY DEF LayeredInv
<1>3. /\ o.at \in Instances /\ Promotable(o) /\ o.start \in Int /\ o.start <= now
      /\ now - o.start <= OpTime
  BY <1>1, <1>2 DEF GoodTask
<1>4. l1' = [l1 EXCEPT ![o.at] = m]
  BY <1>3 DEF Promote, LayeredInv
<1>5. /\ GoodEntry(e) /\ e.version \in 1..MaxVersion /\ left[e.version] \in Int
      /\ e.storedAt \in Int /\ e.lifetime \in Nat
      /\ left[e.version] # Never => left[e.version] >= o.start
      /\ o.start <= e.storedAt + OpTime + e.lifetime + StaleGrace
  BY <1>3, LayeredNumbers DEF Promotable, GoodEntry, LayeredInv
<1>6. ttl \in Int /\ ttl <= L1TTL /\ ttl <= e.lifetime - (now - e.storedAt)
  <2> HIDE DEF e, o
  <2> QED
    BY <1>2, <1>5, LayeredNumbers DEF remaining, Shorter
<1>7. GoodItem(new)
  <2> DEFINE exp == now + ttl
  <2> HIDE DEF ttl, e, o
  <2>1. /\ exp \in Int /\ exp <= now + L1TTL /\ exp <= e.storedAt + e.lifetime + StaleGrace
        /\ left[e.version] # Never => exp <= left[e.version] + L1TTL + OpTime
    BY <1>2, <1>3, <1>5, <1>6, LayeredNumbers
  <2> HIDE DEF exp
  <2>2. new.entry = e /\ new.expiresAt = exp
    BY DEF exp
  <2> HIDE DEF new
  <2> QED
    BY <1>5, <2>1, <2>2 DEF GoodItem
<1>8. GoodTier(l1[o.at])
  BY <1>3 DEF LayeredInv
<1> HIDE DEF ttl, e, new
<1>9. GoodTier(m)
  BY <1>7, <1>8, KeptItems DEF GoodTier, new
<1>10. /\ got'.tier = "L2" /\ got'.version = e.version
       /\ got'.storedAt = e.storedAt /\ got'.lifetime = e.lifetime
  BY <1>1 DEF Told
<1> HIDE DEF o, m
<1>11. GoneIsGone'
  BY <1>1, <1>2, <1>3, <1>5, <1>10, LayeredNumbers DEF GoneIsGone
<1>12. LifeNotProlonged'
  BY <1>1, <1>2, <1>3, <1>5, <1>10, LayeredNumbers DEF LifeNotProlonged
<1>13. l1' = [j \in Instances |-> l1'[j]] /\ \A j \in Instances : GoodTier(l1'[j])
  BY <1>3, <1>4, <1>9, OneTier
<1>14. /\ task' = [u \in Tasks |-> task'[u]] /\ \A u \in Tasks : GoodTask(task'[u])
       /\ WritersApart'
  BY <1>1, FreeGood, OneTask
<1> QED
  BY <1>1, <1>11, <1>12, <1>13, <1>14, LayeredFrame

LEMMA InvalidateKeysGood ==
  ASSUME LayeredInv, NEW t \in Tasks, NEW i \in Instances, NEW tenant, NEW resource,
         InvalidateKeys(t, i, tenant, resource)
  PROVE  LayeredInv'
<1> DEFINE ks == ResourceKeys(tenant, resource)
           a == [pc |-> "deleting", at |-> i, start |-> now, todo |-> ks]
<1>1. /\ task' = [task EXCEPT ![t] = a] /\ got' = Nothing
      /\ UNCHANGED <<now, l1, l2, version, left>>
  BY DEF InvalidateKeys
<1>2. \A k \in ks : k \in Keys
  BY DEF ResourceKeys
<1> HIDE DEF ks
<1>3. a.pc = "deleting" /\ a.at = i /\ a.start = now /\ a.todo = ks
  OBVIOUS
<1> HIDE DEF a
<1>4. GoodTask(a)
  BY <1>2, <1>3, LayeredNumbers DEF GoodTask, LayeredInv
<1>5. /\ task' = [u \in Tasks |-> task'[u]] /\ \A u \in Tasks : GoodTask(task'[u])
      /\ WritersApart'
  BY <1>1, <1>3, <1>4, OneTask
<1> QED
  BY <1>1, <1>5, SameTiers, NothingGot, LayeredFrame

LEMMA DeleteL1Good == ASSUME LayeredInv, NEW t \in Tasks, DeleteL1(t) PROVE LayeredInv'
<1> DEFINE o == task[t]
<1>1. o.pc = "deleting" /\ got' = Nothing /\ UNCHANGED <<now, l2, version, left>>
  BY DEF DeleteL1
<1>2. GoodTask(o) /\ now \in Int
  BY DEF LayeredInv
<1>3. o.at \in Instances /\ \A k \in o.todo : k \in Keys
  BY <1>1, <1>2 DEF GoodTask
<1>4. PICK k \in o.todo :
        /\ l1' = [l1 EXCEPT ![o.at] = Without(l1[o.at], {k})]
        /\ task' = [task EXCEPT ![t] = [pc |-> "unlinking", at |-> o.at, start |-> now,
                                        key |-> k, todo |-> o.todo \ {k}]]
  BY <1>3 DEF DeleteL1, LayeredInv
<1> DEFINE rest == o.todo \ {k}
           a == [pc |-> "unlinking", at |-> o.at, start |-> now, key |-> k, todo |-> rest]
<1>5. \A j \in rest : j \in Keys
  BY <1>3
<1>6. task' = [task EXCEPT ![t] = a]
  BY <1>4
<1> HIDE DEF rest
<1>7. a.pc = "unlinking" /\ a.at = o.at /\ a.start = now /\ a.key = k /\ a.todo = rest
  OBVIOUS
<1>8. GoodTier(Without(l1[o.at], {k}))
  BY <1>3, WithoutGood DEF LayeredInv
<1> HIDE DEF a, o
<1>9. GoodTask(a)
  BY <1>2, <1>3, <1>5, <1>7, LayeredNumbers DEF GoodTask
<1>10. l1' = [j \in Instances |-> l1'[j]] /\ \A j \in Instances : GoodTier(l1'[j])
  BY <1>3, <1>4, <1>8, OneTier
<1>11. /\ task' = [u \in Tasks |-> task'[u]] /\ \A u \in Tasks : GoodTask(task'[u])
       /\ WritersApart'
  BY <1>1, <1>6, <1>7, <1>9, OneTask
<1> QED
  BY <1>1, <1>10, <1>11, NothingGot, LayeredFrame

LEMMA DeletePrefixL1Good ==
  ASSUME LayeredInv, NEW t \in Tasks, NEW i \in Instances, NEW tenant,
         DeletePrefixL1(t, i, tenant)
  PROVE  LayeredInv'
<1> DEFINE ks == {k \in Keys : k.tenant = tenant}
           m == Without(l1[i], ks)
           a == [pc |-> "scanning", start |-> now, todo |-> ks]
<1>1. /\ task' = [task EXCEPT ![t] = a] /\ got' = Nothing
      /\ UNCHANGED <<now, l2, version, left>>
  BY DEF DeletePrefixL1
<1>2. l1' = [l1 EXCEPT ![i] = m]
  BY DEF DeletePrefixL1, LayeredInv
<1>3. \A k \in ks : k \in Keys
  OBVIOUS
<1> HIDE DEF ks
<1>4. a.pc = "scanning" /\ a.start = now /\ a.todo = ks
  OBVIOUS
<1> HIDE DEF a, ks, m
<1>5. GoodTask(a)
  BY <1>3, <1>4, LayeredNumbers DEF GoodTask, LayeredInv
<1>6. GoodTier(m)
  BY WithoutGood DEF LayeredInv, m
<1>7. l1' = [j \in Instances |-> l1'[j]] /\ \A j \in Instances : GoodTier(l1'[j])
  BY <1>2, <1>6, OneTier
<1>8. /\ task' = [u \in Tasks |-> task'[u]] /\ \A u \in Tasks : GoodTask(task'[u])
      /\ WritersApart'
  BY <1>1, <1>4, <1>5, OneTask
<1> QED
  BY <1>1, <1>7, <1>8, NothingGot, LayeredFrame

\* What is good stays good when the next version is given out.
LEMMA NextVersion ==
  ASSUME LayeredInv, version' = version + 1, UNCHANGED <<now, left>>
  PROVE  /\ \A x : GoodItem(x) => GoodItem(x)'
         /\ \A h : GoodHeld(h) => GoodHeld(h)'
         /\ \A a : GoodTask(a) => GoodTask(a)'
<1>1. ASSUME NEW e, GoodEntry(e) PROVE GoodEntry(e)'
  BY <1>1 DEF GoodEntry, LayeredInv
<1>2. ASSUME NEW x, GoodItem(x) PROVE GoodItem(x)'
  BY <1>1, <1>2 DEF GoodItem
<1>3. ASSUME NEW h, GoodHeld(h) PROVE GoodHeld(h)'
  BY <1>1, <1>3 DEF GoodHeld
<1>4. ASSUME NEW a, GoodTask(a) PROVE GoodTask(a)'
  BY <1>1, <1>4 DEF GoodTask, Promotable, Writable
<1> QED
  BY <1>2, <1>3, <1>4

\* A new entry: its version is the next one, which nothing holds.
LEMMA SetL1Good ==
  ASSUME LayeredInv, NEW t \in Tasks, NEW i \in Instances, NEW k \in Keys,
         NEW d \in Lifetimes, SetL1(t, i, k, d)
  PROVE  LayeredInv'
<1>1. PICK n : n = version + 1
  OBVIOUS
<1>2. PICK e : e = [version |-> n, storedAt |-> now, lifetime |-> d]
  OBVIOUS
<1>3. PICK ttl : ttl = Shorter(d + StaleGrace, L1TTL)
  OBVIOUS
<1>4. PICK new : new = [entry |-> e, expiresAt |-> now + ttl]
  OBVIOUS
<1>5. PICK m : m = Kept(l1[i], k, e, ttl)
  OBVIOUS
<1>6. PICK a : a = [pc |-> "writing", key |-> k, start |-> now, entry |-> e]
  OBVIOUS
<1>7. /\ version < MaxVersion /\ version' = n /\ got' = Nothing
      /\ task' = [task EXCEPT ![t] = a] /\ UNCHANGED <<now, l2, left>>
  BY <1>1, <1>2, <1>6 DEF SetL1
<1>8. l1' = [l1 EXCEPT ![i] = m]
  BY <1>1, <1>2, <1>3, <1>5 DEF SetL1, LayeredInv
<1>9. /\ now \in Int /\ d \in Nat /\ version \in 0..MaxVersion /\ n \in 1..MaxVersion
      /\ n > version /\ left[n] = Never
  <2>1. now \in Int /\ version \in 0..MaxVersion
    BY DEF LayeredInv
  <2>2. n \in 1..MaxVersion /\ n > version
    BY <1>1, <1>7, <2>1, LayeredNumbers
  <2>3. \A v \in 1..MaxVersion : v > version => left[v] = Never
    BY DEF LayeredInv
  <2> QED
    BY <2>1, <2>2, <2>3, LayeredNumbers
<1>10. ttl \in Int /\ ttl <= L1TTL /\ ttl <= d + StaleGrace
  BY <1>3, <1>9, LayeredNumbers DEF Shorter
<1>11. e.version = n /\ e.storedAt = now /\ e.lifetime = d
  BY <1>2
<1>12. GoodEntry(e)'
  <2>1. n \in 1..n
    BY <1>9
  <2> QED
    BY <1>7, <1>9, <1>11, <2>1 DEF GoodEntry
<1>13. GoodItem(new)'
  <2>1. new.entry = e /\ new.expiresAt = now + ttl
    BY <1>4
  <2>2. /\ new.expiresAt \in Int /\ new.expiresAt <= now + L1TTL
        /\ new.expiresAt <= e.storedAt + e.lifetime + StaleGrace
    BY <1>9, <1>10, <1>11, <2>1, LayeredNumbers
  <2> QED
    BY <1>7, <1>9, <1>11, <1>12, <2>1, <2>2 DEF GoodItem
<1>14. a.pc = "writing" /\ a.key = k /\ a.start = now /\ a.entry = e
  BY <1>6
<1>15. GoodTask(a)'
  BY <1>7, <1>9, <1>11, <1>12, <1>14, LayeredNumbers DEF GoodTask, Writable
<1>16. l1' = [j \in Instances |-> l1'[j]] /\ \A j \in Instances : GoodTier(l1[j])'
  <2>1. l1' = [j \in Instances |-> IF j = i THEN m ELSE l1[j]]
    BY <1>8 DEF LayeredInv
  <2>2. ASSUME NEW j \in Instances, NEW q \in DOMAIN l1'[j].items
        PROVE  GoodItem(l1'[j].items[q]) \/ l1'[j].items[q] = new
    <3>1. \A r \in Instances : \A p \in DOMAIN l1[r].items : GoodItem(l1[r].items[p])
      BY DEF LayeredInv, GoodTier
    <3>2. CASE j = i
      <4>1. l1'[j] = Kept(l1[i], k, e, ttl)
        BY <1>5, <2>1, <3>2
      <4> QED
        BY <1>4, <2>2, <3>1, <4>1, KeptItems
    <3>3. CASE j # i
      BY <2>1, <2>2, <3>1, <3>3
    <3> QED
      BY <3>2, <3>3
  <2>3. ASSUME NEW j \in Instances, NEW q \in DOMAIN l1'[j].items
        PROVE  GoodItem(l1[j].items[q])'
    <3>1. PICK x : x = l1'[j].items[q]
      OBVIOUS
    <3>2. GoodItem(x)'
      BY <1>1, <1>7, <1>13, <2>2, <2>3, <3>1, NextVersion
    <3> QED
      BY <3>1, <3>2 DEF GoodItem, GoodEntry
  <2> QED
    BY <2>1, <2>3 DEF GoodTier
<1>17. l2' = [j \in Keys |-> l2'[j]] /\ \A j \in Keys : GoodHeld(l2[j])'
  BY <1>1, <1>7, NextVersion DEF LayeredInv, GoodHeld, GoodEntry
<1>18. task' = [u \in Tasks |-> IF u = t THEN a ELSE task[u]]
  BY <1>7 DEF LayeredInv
<1>19. \A u \in Tasks : GoodTask(task[u])'
  <2> SUFFICES ASSUME NEW u \in Tasks PROVE GoodTask(task[u])'
    OBVIOUS
  <2>1. PICK b : b = task'[u]
    OBVIOUS
  <2>2. GoodTask(b)'
    BY <1>1, <1>7, <1>15, <1>18, <2>1, NextVersion DEF LayeredInv
  <2> QED
    BY <2>1, <2>2 DEF GoodTask, Promotable, Writable, GoodEntry
<1>20. /\ \A j \in Keys : l2[j].version # n
       /\ \A u \in Tasks : task[u].pc = "writing" => task[u].entry.version # n
  <2>1. \A j \in Keys : l2[j].version # n
    <3> SUFFICES ASSUME NEW j \in Keys PROVE l2[j].version # n
      OBVIOUS
    <3>1. CASE l2[j] = Nothing
      BY <1>9, <3>1 DEF Nothing
    <3>2. CASE l2[j] # Nothing
      <4>1. l2[j].version \in 1..version
        BY <3>2 DEF LayeredInv, GoodHeld, GoodEntry
      <4> QED
        BY <1>9, <4>1
    <3> QED
      BY <3>1, <3>2
  <2>2. \A u \in Tasks : task[u].pc = "writing" => task[u].entry.version \in 1..version
    BY DEF LayeredInv, GoodTask, Writable, GoodEntry
  <2> QED
    BY <1>9, <2>1, <2>2
<1>21. WritersApart'
  <2>1. ASSUME NEW u \in Tasks, task'[u].pc = "writing"
        PROVE  IF u = t THEN task'[u].entry.version = n ELSE task'[u] = task[u]
    BY <1>11, <1>14, <1>18
  <2>2. ASSUME NEW u \in Tasks, task'[u].pc = "writing", NEW j \in Keys
        PROVE  l2'[j].version # task'[u].entry.version
    BY <1>7, <1>20, <2>1, <2>2 DEF LayeredInv, WritersApart
  <2>3. ASSUME NEW u \in Tasks, task'[u].pc = "writing",
               NEW w \in Tasks, w # u, task'[w].pc = "writing"
        PROVE  task'[w].entry.version # task'[u].entry.version
    <3>1. CASE u = t
      BY <1>20, <2>1, <2>3, <3>1
    <3>2. CASE w = t
      BY <1>20, <2>1, <2>3, <3>2
    <3>3. CASE u # t /\ w # t
      BY <2>1, <2>3, <3>3 DEF LayeredInv, WritersApart
    <3> QED
      BY <3>1, <3>2, <3>3
  <2> QED
    BY <2>2, <2>3 DEF WritersApart
<1>22. HeldApart'
  BY <1>7 DEF LayeredInv, HeldApart
<1>23. /\ now' \in Int /\ version' \in 0..MaxVersion
       /\ left' = [v \in 1..MaxVersion |-> left'[v]]
       /\ \A v \in 1..MaxVersion : /\ left'[v] \in Int /\ left'[v] <= now'
                                   /\ v > version' => left'[v] = Never
  <2>1. /\ left = [v \in 1..MaxVersion |-> left[v]]
        /\ \A v \in 1..MaxVersion : /\ left[v] \in Int /\ left[v] <= now
                                    /\ v > version => left[v] = Never
    BY DEF LayeredInv
  <2> QED
    BY <1>1, <1>7, <1>9, <2>1, LayeredNumbers
<1>24. task' = [u \in Tasks |-> task'[u]]
  BY <1>18
<1> QED
  BY <1>7, <1>16, <1>17, <1>19, <1>21, <1>22, <1>23, <1>24, NothingGot DEF LayeredInv


\* Redis loses some entries now: items and promotions of theirs stay good, and
\* so does whatever Redis still holds or is about to be written.
LEMMA SomeLeave ==
  ASSUME LayeredInv, UNCHANGED <<now, version>>, NEW gone,
         \A v \in gone : left[v] = Never,
         left' = [v \in 1..MaxVersion |-> IF v \in gone THEN now ELSE left[v]],
         \A v \in gone : v <= version
  PROVE  /\ left' = [v \in 1..MaxVersion |-> left'[v]]
         /\ \A v \in 1..MaxVersion : /\ left'[v] \in Int /\ left'[v] <= now'
                                     /\ v > version' => left'[v] = Never
         /\ \A x : GoodItem(x) => GoodItem(x)'
         /\ \A h : GoodHeld(h) /\ h.version \notin gone => GoodHeld(h)'
         /\ \A a : GoodTask(a) /\ (a.pc = "writing" => a.entry.version \notin gone) => GoodTask(a)'
<1>1. /\ now \in Int /\ version \in 0..MaxVersion
      /\ \A v \in 1..MaxVersion : /\ left[v] \in Int /\ left[v] <= now
                                  /\ v > version => left[v] = Never
  BY DEF LayeredInv
<1>2. \A v \in 1..MaxVersion : left'[v] = IF v \in gone THEN now ELSE left[v]
  OBVIOUS
<1>3. \A v \in 1..MaxVersion : /\ left'[v] \in Int /\ left'[v] <= now'
                               /\ v > version' => left'[v] = Never
  <2> SUFFICES ASSUME NEW v \in 1..MaxVersion
               PROVE  left'[v] \in Int /\ left'[v] <= now' /\ (v > version' => left'[v] = Never)
    OBVIOUS
  <2>1. v \in Int /\ version \in Int /\ (v \in gone => v <= version)
    BY <1>1, LayeredNumbers
  <2> QED
    BY <1>1, <1>2, <2>1
<1>4. ASSUME NEW e, GoodEntry(e)
      PROVE  /\ GoodEntry(e)' /\ e.version \in 1..MaxVersion
             /\ e.storedAt \in Int /\ e.lifetime \in Int
  BY <1>1, <1>4, LayeredNumbers DEF GoodEntry
<1>5. ASSUME NEW x, GoodItem(x) PROVE GoodItem(x)'
  <2>1. GoodEntry(x.entry) /\ x.expiresAt \in Int /\ x.expiresAt <= now + L1TTL
    BY <1>5 DEF GoodItem
  <2>2. x.entry.version \in 1..MaxVersion /\ GoodEntry(x.entry)'
    BY <1>4, <2>1
  <2>3. left'[x.entry.version] # Never =>
          x.expiresAt <= left'[x.entry.version] + L1TTL + OpTime
    <3>1. CASE x.entry.version \in gone
      <4>1. left'[x.entry.version] = now
        BY <1>2, <2>2, <3>1
      <4> QED
        BY <1>1, <2>1, <4>1, LayeredNumbers
    <3>2. CASE x.entry.version \notin gone
      <4>1. left'[x.entry.version] = left[x.entry.version]
        BY <1>2, <2>2, <3>2
      <4> QED
        BY <1>5, <4>1 DEF GoodItem
    <3> QED
      BY <3>1, <3>2
  <2> QED
    BY <1>5, <2>2, <2>3 DEF GoodItem
<1>6. ASSUME NEW h, GoodHeld(h), h.version \notin gone PROVE GoodHeld(h)'
  <2> SUFFICES ASSUME h # Nothing PROVE GoodHeld(h)'
    BY DEF GoodHeld
  <2>1. h.version = h.entry.version /\ GoodEntry(h.entry)
    BY <1>6 DEF GoodHeld
  <2>2. h.version \in 1..MaxVersion /\ GoodEntry(h.entry)'
    BY <1>4, <2>1
  <2>3. left'[h.version] = left[h.version]
    BY <1>2, <1>6, <2>2
  <2> QED
    BY <1>6, <2>2, <2>3 DEF GoodHeld
<1>7. ASSUME NEW a, GoodTask(a), a.pc = "writing" => a.entry.version \notin gone
      PROVE  GoodTask(a)'
  <2>1. a.pc = "promoting" => Promotable(a)'
    <3> SUFFICES ASSUME a.pc = "promoting" PROVE Promotable(a)'
      OBVIOUS
    <3>1. Promotable(a) /\ a.start \in Int /\ a.start <= now
      BY <1>7 DEF GoodTask
    <3>2. GoodEntry(a.entry)' /\ a.entry.version \in 1..MaxVersion
      BY <1>4, <3>1 DEF Promotable
    <3>3. left'[a.entry.version] # Never => left'[a.entry.version] >= a.start
      BY <1>1, <1>2, <3>1, <3>2 DEF Promotable
    <3> QED
      BY <3>1, <3>2, <3>3 DEF Promotable
  <2>2. a.pc = "writing" => Writable(a)'
    <3> SUFFICES ASSUME a.pc = "writing" PROVE Writable(a)'
      OBVIOUS
    <3>1. Writable(a)
      BY <1>7 DEF GoodTask
    <3>2. GoodEntry(a.entry)' /\ a.entry.version \in 1..MaxVersion
      BY <1>4, <3>1 DEF Writable
    <3>3. left'[a.entry.version] = left[a.entry.version]
      BY <1>2, <1>7, <3>2
    <3> QED
      BY <3>1, <3>2, <3>3 DEF Writable
  <2> QED
    BY <1>7, <2>1, <2>2 DEF GoodTask
<1>8. left' = [v \in 1..MaxVersion |-> left'[v]]
  OBVIOUS
<1> QED
  BY <1>3, <1>5, <1>6, <1>7, <1>8

\* A step at Redis by one task, which then waits, goes on or is done: what some
\* keys held is lost, what the rest hold stays.
LEMMA RedisStep ==
  ASSUME LayeredInv, UNCHANGED <<now, version, l1>>, got' = Nothing,
         NEW gone, \A v \in gone : left[v] = Never /\ v <= version,
         left' = [v \in 1..MaxVersion |-> IF v \in gone THEN now ELSE left[v]],
         l2' = [k \in Keys |-> l2'[k]],
         \A k \in Keys : GoodHeld(l2[k])',
         HeldApart',
         NEW t \in Tasks, NEW a, task' = [task EXCEPT ![t] = a], GoodTask(a), a.pc # "writing",
         \A u \in Tasks : u # t /\ task[u].pc = "writing" =>
           /\ task[u].entry.version \notin gone
           /\ \A k \in Keys : l2'[k].version # task[u].entry.version
  PROVE  LayeredInv'
<1>1. task' = [u \in Tasks |-> IF u = t THEN a ELSE task[u]]
  BY DEF LayeredInv
<1>2. \A u \in Tasks : GoodTask(task[u])'
  <2> SUFFICES ASSUME NEW u \in Tasks PROVE GoodTask(task[u])'
    OBVIOUS
  <2>1. PICK b : b = task'[u]
    OBVIOUS
  <2>2. GoodTask(b) /\ (b.pc = "writing" => b.entry.version \notin gone)
    BY <1>1, <2>1 DEF LayeredInv
  <2>3. GoodTask(b)'
    BY <2>2, SomeLeave
  <2> QED
    BY <2>1, <2>3 DEF GoodTask, Promotable, Writable, GoodEntry
<1>3. \A i \in Instances : GoodTier(l1[i])'
  <2> SUFFICES ASSUME NEW i \in Instances, NEW q \in DOMAIN l1'[i].items
               PROVE  GoodItem(l1[i].items[q])'
    BY DEF GoodTier
  <2>1. PICK x : x = l1'[i].items[q]
    OBVIOUS
  <2>2. GoodItem(x)
    BY <2>1 DEF LayeredInv, GoodTier
  <2>3. GoodItem(x)'
    BY <2>2, SomeLeave
  <2> QED
    BY <2>1, <2>3 DEF GoodItem, GoodEntry
<1>4. \A u \in Tasks : task'[u].pc = "writing" => u # t /\ task'[u] = task[u]
  BY <1>1
<1>5. WritersApart'
  BY <1>4 DEF LayeredInv, WritersApart
<1>6. /\ left' = [v \in 1..MaxVersion |-> left'[v]]
      /\ \A v \in 1..MaxVersion : /\ left'[v] \in Int /\ left'[v] <= now'
                                  /\ v > version' => left'[v] = Never
  BY SomeLeave
<1>7. task' = [u \in Tasks |-> task'[u]]
  BY <1>1
<1>8. now' \in Int /\ version' \in 0..MaxVersion /\ l1' = [i \in Instances |-> l1'[i]]
  BY DEF LayeredInv
<1> QED
  BY <1>2, <1>3, <1>5, <1>6, <1>7, <1>8, NothingGot DEF LayeredInv


\* What Redis forgets under some keys is held under no other key, and no write
\* under way is of it.
LEMMA ForgottenIs ==
  ASSUME LayeredInv, NEW ks, \A k \in ks : k \in Keys, Forgotten(ks)
  PROVE  \E gone :
           /\ left' = [v \in 1..MaxVersion |-> IF v \in gone THEN now ELSE left[v]]
           /\ \A v \in gone : left[v] = Never /\ v <= version
           /\ \A j \in Keys : j \notin ks => l2[j].version \notin gone
           /\ \A u \in Tasks : task[u].pc = "writing" => task[u].entry.version \notin gone
<1> DEFINE gone == {v \in 1..MaxVersion : left[v] = Never /\ \E k \in ks : l2[k].version = v}
<1>1. left' = [v \in 1..MaxVersion |-> IF v \in gone THEN now ELSE left[v]]
  BY DEF Forgotten
<1>2. ASSUME NEW v \in gone
      PROVE  left[v] = Never /\ \E k \in ks : k \in Keys /\ l2[k] # Nothing /\ l2[k].version = v
  <2>1. v # 0
    BY LayeredNumbers
  <2>2. Nothing.version = 0
    BY DEF Nothing
  <2> QED
    BY <2>1, <2>2
<1> HIDE DEF gone
<1>3. ASSUME NEW v \in gone PROVE v <= version
  <2>1. PICK k \in ks : k \in Keys /\ l2[k] # Nothing /\ l2[k].version = v
    BY <1>2
  <2>2. v \in 1..version
    BY <2>1 DEF LayeredInv, GoodHeld, GoodEntry
  <2>3. version \in Int
    BY LayeredNumbers DEF LayeredInv
  <2> QED
    BY <2>2, <2>3
<1>4. \A j \in Keys : j \notin ks => l2[j].version \notin gone
  BY <1>2 DEF LayeredInv, HeldApart
<1>5. \A u \in Tasks : task[u].pc = "writing" => task[u].entry.version \notin gone
  BY <1>2 DEF LayeredInv, WritersApart
<1> QED
  BY <1>1, <1>2, <1>3, <1>4, <1>5

\* Redis unlinks some keys for a task.
LEMMA Unlinked ==
  ASSUME LayeredInv, UNCHANGED <<now, version, l1>>, got' = Nothing,
         NEW ks, \A k \in ks : k \in Keys, Forgotten(ks),
         l2' = [k \in Keys |-> IF k \in ks THEN Nothing ELSE l2[k]],
         NEW t \in Tasks, NEW a, task' = [task EXCEPT ![t] = a], GoodTask(a), a.pc # "writing"
  PROVE  LayeredInv'
<1>1. PICK gone :
        /\ left' = [v \in 1..MaxVersion |-> IF v \in gone THEN now ELSE left[v]]
        /\ \A v \in gone : left[v] = Never /\ v <= version
        /\ \A j \in Keys : j \notin ks => l2[j].version \notin gone
        /\ \A u \in Tasks : task[u].pc = "writing" => task[u].entry.version \notin gone
  BY ForgottenIs
<1>2. \A k \in Keys : GoodHeld(l2[k])'
  <2> SUFFICES ASSUME NEW k \in Keys PROVE GoodHeld(l2[k])'
    OBVIOUS
  <2>1. PICK h : h = l2'[k]
    OBVIOUS
  <2>2. GoodHeld(h)'
    <3>1. CASE h = Nothing
      BY <3>1 DEF GoodHeld
    <3>2. CASE h # Nothing
      <4>1. k \notin ks /\ h = l2[k]
        BY <2>1, <3>2
      <4>2. GoodHeld(h) /\ h.version \notin gone
        BY <1>1, <4>1 DEF LayeredInv
      <4> QED
        BY <1>1, <4>2, SomeLeave
    <3> QED
      BY <3>1, <3>2
  <2> QED
    BY <2>1, <2>2 DEF GoodHeld, GoodEntry
<1>3. HeldApart'
  <2> SUFFICES ASSUME NEW j \in Keys, NEW k \in Keys, j # k, l2'[k] # Nothing
               PROVE  l2'[j].version # l2'[k].version
    BY DEF HeldApart
  <2>1. l2'[k] = l2[k] /\ l2[k] # Nothing
    OBVIOUS
  <2>2. CASE j \notin ks
    BY <2>1, <2>2 DEF LayeredInv, HeldApart
  <2>3. CASE j \in ks
    <3>1. l2'[j].version = 0
      BY <2>3 DEF Nothing
    <3>2. l2[k].version \in 1..version
      BY <2>1 DEF LayeredInv, GoodHeld, GoodEntry
    <3>3. l2[k].version # 0
      BY <3>2, LayeredNumbers DEF LayeredInv
    <3> QED
      BY <2>1, <3>1, <3>3
  <2> QED
    BY <2>2, <2>3
<1>4. ASSUME NEW u \in Tasks, task[u].pc = "writing", NEW k \in Keys
      PROVE  l2'[k].version # task[u].entry.version
  <2>1. CASE k \in ks
    <3>1. l2'[k].version = 0
      BY <2>1 DEF Nothing
    <3>2. task[u].entry.version \in 1..version
      BY <1>4 DEF LayeredInv, GoodTask, Writable, GoodEntry
    <3>3. task[u].entry.version # 0
      BY <3>2, LayeredNumbers DEF LayeredInv
    <3> QED
      BY <3>1, <3>3
  <2>2. CASE k \notin ks
    BY <1>4, <2>2 DEF LayeredInv, WritersApart
  <2> QED
    BY <2>1, <2>2
<1>5. l2' = [k \in Keys |-> l2'[k]]
  OBVIOUS
<1> QED
  BY <1>1, <1>2, <1>3, <1>4, <1>5, RedisStep

\* The write reaches Redis: what the key held before is lost.
LEMMA SetL2Good == ASSUME LayeredInv, NEW t \in Tasks, SetL2(t) PROVE LayeredInv'
<1>1. PICK k : k = task[t].key
  OBVIOUS
<1>2. PICK e : e = task[t].entry
  OBVIOUS
<1>3. PICK new : new = [version |-> e.version, entry |-> e,
                        expiresAt |-> now + e.lifetime + StaleGrace]
  OBVIOUS
<1>4. /\ task[t].pc = "writing" /\ l2' = [l2 EXCEPT ![k] = new] /\ Forgotten({k})
      /\ task' = [task EXCEPT ![t] = Free] /\ got' = Nothing /\ UNCHANGED <<now, l1, version>>
  BY <1>1, <1>2, <1>3 DEF SetL2
<1>5. GoodTask(task[t]) /\ now \in Int
  BY DEF LayeredInv
<1>6. /\ k \in Keys /\ task[t].start \in Int /\ now - task[t].start <= OpTime
      /\ GoodEntry(e) /\ e.storedAt = task[t].start /\ left[e.version] = Never
  BY <1>1, <1>2, <1>4, <1>5 DEF GoodTask, Writable
<1>7. e.storedAt \in Int /\ e.lifetime \in Int /\ e.version \in 1..version
  BY <1>6 DEF GoodEntry
<1>8. PICK gone :
        /\ left' = [v \in 1..MaxVersion |-> IF v \in gone THEN now ELSE left[v]]
        /\ \A v \in gone : left[v] = Never /\ v <= version
        /\ \A j \in Keys : j \notin {k} => l2[j].version \notin gone
        /\ \A u \in Tasks : task[u].pc = "writing" => task[u].entry.version \notin gone
  BY <1>4, <1>6, ForgottenIs
<1>9. new.version = e.version /\ new.entry = e /\ new.expiresAt = now + e.lifetime + StaleGrace
  BY <1>3
<1>10. GoodHeld(new)
  BY <1>5, <1>6, <1>7, <1>9, LayeredNumbers DEF GoodHeld
<1>11. l2' = [j \in Keys |-> IF j = k THEN new ELSE l2[j]]
  BY <1>4 DEF LayeredInv
<1>12. \A j \in Keys : GoodHeld(l2[j])'
  <2> SUFFICES ASSUME NEW j \in Keys PROVE GoodHeld(l2[j])'
    OBVIOUS
  <2>1. PICK h : h = l2'[j]
    OBVIOUS
  <2>2. GoodHeld(h) /\ h.version \notin gone
    BY <1>2, <1>4, <1>8, <1>9, <1>10, <1>11, <2>1 DEF LayeredInv
  <2>3. GoodHeld(h)'
    BY <1>4, <1>8, <2>2, SomeLeave
  <2> QED
    BY <2>1, <2>3 DEF GoodHeld, GoodEntry
<1>13. \A j \in Keys : l2[j].version # e.version
  BY <1>2, <1>4 DEF LayeredInv, WritersApart
<1>14. HeldApart'
  <2> SUFFICES ASSUME NEW j \in Keys, NEW q \in Keys, j # q, l2'[q] # Nothing
               PROVE  l2'[j].version # l2'[q].version
    BY DEF HeldApart
  <2> QED
    BY <1>9, <1>11, <1>13 DEF LayeredInv, HeldApart
<1>15. ASSUME NEW u \in Tasks, u # t, task[u].pc = "writing", NEW j \in Keys
       PROVE  l2'[j].version # task[u].entry.version
  BY <1>2, <1>4, <1>9, <1>11, <1>15 DEF LayeredInv, WritersApart
<1>16. l2' = [j \in Keys |-> l2'[j]]
  BY <1>11
<1>17. \A u \in Tasks : u # t /\ task[u].pc = "writing" =>
         /\ task[u].entry.version \notin gone
         /\ \A j \in Keys : l2'[j].version # task[u].entry.version
  BY <1>8, <1>15
<1>18. GoodTask(Free) /\ Free.pc # "writing"
  BY FreeGood
<1>19. /\ left' = [v \in 1..MaxVersion |-> IF v \in gone THEN now ELSE left[v]]
       /\ \A v \in gone : left[v] = Never /\ v <= version
  BY <1>8
<1> QED
  BY <1>4, <1>12, <1>14, <1>16, <1>17, <1>18, <1>19, RedisStep

\* The write fails: Redis refuses the entry, which the first tier has.
LEMMA SetL2FailsGood == ASSUME LayeredInv, NEW t \in Tasks, SetL2Fails(t) PROVE LayeredInv'
<1>1. PICK e : e = task[t].entry
  OBVIOUS
<1>2. /\ task[t].pc = "writing" /\ left' = [left EXCEPT ![e.version] = now]
      /\ task' = [task EXCEPT ![t] = Free] /\ got' = Nothing /\ UNCHANGED <<now, l1, l2, version>>
  BY <1>1 DEF SetL2Fails
<1>3. GoodEntry(e) /\ left[e.version] = Never
  BY <1>1, <1>2 DEF LayeredInv, GoodTask, Writable
<1>4. PICK gone : gone = {e.version}
  OBVIOUS
<1>5. left' = [v \in 1..MaxVersion |-> IF v \in gone THEN now ELSE left[v]]
  BY <1>2, <1>4 DEF LayeredInv
<1>6. \A v \in gone : left[v] = Never /\ v <= version
  BY <1>3, <1>4, LayeredNumbers DEF GoodEntry, LayeredInv
<1>7. \A j \in Keys : GoodHeld(l2[j])'
  <2> SUFFICES ASSUME NEW j \in Keys PROVE GoodHeld(l2[j])'
    OBVIOUS
  <2>1. PICK h : h = l2'[j]
    OBVIOUS
  <2>2. GoodHeld(h) /\ h.version \notin gone
    BY <1>1, <1>2, <1>4, <2>1 DEF LayeredInv, WritersApart
  <2>3. GoodHeld(h)'
    BY <1>2, <1>5, <1>6, <2>2, SomeLeave
  <2> QED
    BY <2>1, <2>3 DEF GoodHeld, GoodEntry
<1>8. HeldApart' /\ l2' = [j \in Keys |-> l2'[j]]
  BY <1>2 DEF LayeredInv, HeldApart
<1>9. \A u \in Tasks : u # t /\ task[u].pc = "writing" =>
        /\ task[u].entry.version \notin gone
        /\ \A j \in Keys : l2'[j].version # task[u].entry.version
  BY <1>1, <1>2, <1>4 DEF LayeredInv, WritersApart
<1> QED
  BY <1>2, <1>5, <1>6, <1>7, <1>8, <1>9, FreeGood, RedisStep

LEMMA DeleteL2Good == ASSUME LayeredInv, NEW t \in Tasks, DeleteL2(t) PROVE LayeredInv'
<1>1. PICK o : o = task[t]
  OBVIOUS
<1>2. o.pc = "unlinking" /\ got' = Nothing /\ UNCHANGED <<now, l1, version>> /\ NextKey(t)
  BY <1>1 DEF DeleteL2
<1>3. GoodTask(o) /\ now \in Int
  BY <1>1 DEF LayeredInv
<1>4. o.at \in Instances /\ o.key \in Keys /\ \A k \in o.todo : k \in Keys
  BY <1>2, <1>3 DEF GoodTask
<1>5. PICK a : a = IF o.todo = {} THEN Free
                   ELSE [pc |-> "deleting", at |-> o.at, start |-> now, todo |-> o.todo]
  OBVIOUS
<1>6. task' = [task EXCEPT ![t] = a]
  BY <1>1, <1>2, <1>5 DEF NextKey, LayeredInv
<1>7. GoodTask(a) /\ a.pc # "writing"
  <2>1. CASE o.todo = {}
    BY <1>5, <2>1, FreeGood
  <2>2. CASE o.todo # {}
    <3>1. a.pc = "deleting" /\ a.at = o.at /\ a.start = now /\ a.todo = o.todo
      BY <1>5, <2>2
    <3> QED
      BY <1>3, <1>4, <3>1, LayeredNumbers DEF GoodTask
  <2> QED
    BY <2>1, <2>2
<1>8. CASE l2' = [l2 EXCEPT ![o.key] = Nothing] /\ Forgotten({o.key})
  <2>1. PICK ks : ks = {o.key}
    OBVIOUS
  <2>2. l2' = [k \in Keys |-> IF k \in ks THEN Nothing ELSE l2[k]]
    BY <1>8, <2>1 DEF LayeredInv
  <2>3. Forgotten(ks) /\ \A k \in ks : k \in Keys
    BY <1>4, <1>8, <2>1
  <2> QED
    BY <1>2, <1>6, <1>7, <2>2, <2>3, Unlinked
<1>9. CASE UNCHANGED <<l2, left>>
  <2>1. /\ task' = [u \in Tasks |-> task'[u]] /\ \A u \in Tasks : GoodTask(task'[u])
        /\ WritersApart'
    BY <1>6, <1>7, <1>9, OneTask
  <2> QED
    BY <1>2, <1>9, <2>1, SameTiers, NothingGot, LayeredFrame
<1> QED
  BY <1>1, <1>8, <1>9 DEF DeleteL2

LEMMA DeletePrefixL2Good ==
  ASSUME LayeredInv, NEW t \in Tasks, DeletePrefixL2(t) PROVE LayeredInv'
<1>1. PICK o : o = task[t]
  OBVIOUS
<1>2. o.pc = "scanning" /\ got' = Nothing /\ UNCHANGED <<now, l1, version>>
  BY <1>1 DEF DeletePrefixL2
<1>3. GoodTask(o) /\ now \in Int
  BY <1>1 DEF LayeredInv
<1>4. /\ o.start \in Int /\ o.start <= now
      /\ \A k \in o.todo : k \in Keys
  BY <1>2, <1>3 DEF GoodTask
<1>5. ASSUME NEW batch \in (SUBSET o.todo) \ {{}},
             l2' = [k \in Keys |-> IF k \in batch THEN Nothing ELSE l2[k]],
             Forgotten(batch),
             task' = [task EXCEPT ![t] = [pc |-> "scanning", start |-> o.start,
                                          todo |-> o.todo \ batch]]
      PROVE  LayeredInv'
  <2>1. PICK a : a = [pc |-> "scanning", start |-> o.start, todo |-> o.todo \ batch]
    OBVIOUS
  <2>2. a.pc = "scanning" /\ a.start = o.start /\ \A k \in a.todo : k \in o.todo
    BY <2>1
  <2>3. GoodTask(a)
    BY <1>4, <2>2 DEF GoodTask
  <2>4. \A k \in batch : k \in Keys
    BY <1>4
  <2> QED
    BY <1>2, <1>5, <2>1, <2>2, <2>3, <2>4, Unlinked
<1>6. CASE UNCHANGED <<l2, left>> /\ task' = [task EXCEPT ![t] = Free]
  <2>1. /\ task' = [u \in Tasks |-> task'[u]] /\ \A u \in Tasks : GoodTask(task'[u])
        /\ WritersApart'
    BY <1>6, FreeGood, OneTask
  <2> QED
    BY <1>2, <1>6, <2>1, SameTiers, NothingGot, LayeredFrame
<1>7. \/ UNCHANGED <<l2, left>> /\ task' = [task EXCEPT ![t] = Free]
      \/ \E batch \in (SUBSET o.todo) \ {{}} :
           /\ l2' = [k \in Keys |-> IF k \in batch THEN Nothing ELSE l2[k]]
           /\ Forgotten(batch)
           /\ task' = [task EXCEPT ![t] = [pc |-> "scanning", start |-> o.start,
                                           todo |-> o.todo \ batch]]
  BY <1>1 DEF DeletePrefixL2, LayeredInv
<1> QED
  BY <1>5, <1>6, <1>7

\* The clock ticks while every operation is within its deadline.
LEMMA LayeredTickGood == ASSUME LayeredInv, LayeredTick PROVE LayeredInv'
<1>1. /\ now \in Int /\ now' = now + 1 /\ got' = Nothing
      /\ UNCHANGED <<l1, l2, task, version, left>>
      /\ \A t \in Tasks : task[t].pc \notin {"idle", "scanning"} => now - task[t].start < OpTime
  BY DEF LayeredTick, LayeredInv, deadline
<1>2. ASSUME NEW e, GoodEntry(e) PROVE GoodEntry(e)'
  BY <1>1, <1>2 DEF GoodEntry
<1>3. ASSUME NEW x, GoodItem(x) PROVE GoodItem(x)'
  <2>1. x.expiresAt \in Int /\ x.expiresAt <= now' + L1TTL
    BY <1>1, <1>3, LayeredNumbers DEF GoodItem
  <2> QED
    BY <1>1, <1>2, <1>3, <2>1 DEF GoodItem
<1>4. \A i \in Instances : GoodTier(l1[i])'
  <2> SUFFICES ASSUME NEW i \in Instances, NEW q \in DOMAIN l1'[i].items
               PROVE  GoodItem(l1[i].items[q])'
    BY DEF GoodTier
  <2>1. PICK x : x = l1'[i].items[q]
    OBVIOUS
  <2>2. GoodItem(x)
    BY <1>1, <2>1 DEF LayeredInv, GoodTier
  <2>3. GoodItem(x)'
    BY <1>3, <2>2
  <2> QED
    BY <2>1, <2>3 DEF GoodItem, GoodEntry
<1>5. \A k \in Keys : GoodHeld(l2[k])'
  <2> SUFFICES ASSUME NEW k \in Keys PROVE GoodHeld(l2[k])'
    OBVIOUS
  <2>1. PICK h : h = l2'[k]
    OBVIOUS
  <2>2. GoodHeld(h)
    BY <1>1, <2>1 DEF LayeredInv
  <2>3. GoodHeld(h)'
    BY <1>1, <1>2, <2>2 DEF GoodHeld
  <2> QED
    BY <2>1, <2>3 DEF GoodHeld, GoodEntry
<1>6. \A t \in Tasks : GoodTask(task[t])'
  <2> SUFFICES ASSUME NEW t \in Tasks PROVE GoodTask(task[t])'
    OBVIOUS
  <2>1. PICK a : a = task'[t]
    OBVIOUS
  <2>2. GoodTask(a) /\ (a.pc \notin {"idle", "scanning"} => now - a.start < OpTime)
    BY <1>1, <2>1 DEF LayeredInv
  <2>3. /\ a.pc # "idle" => a.start \in Int /\ a.start <= now'
        /\ a.pc \notin {"idle", "scanning"} => now' - a.start <= OpTime
    BY <1>1, <2>2, LayeredNumbers DEF GoodTask
  <2>4. /\ a.pc = "promoting" => Promotable(a)'
        /\ a.pc = "writing" => Writable(a)'
    BY <1>1, <1>2, <2>2 DEF GoodTask, Promotable, Writable
  <2>5. GoodTask(a)'
    BY <2>2, <2>3, <2>4 DEF GoodTask
  <2> QED
    BY <2>1, <2>5 DEF GoodTask, Promotable, Writable, GoodEntry
<1>7. HeldApart' /\ WritersApart'
  BY <1>1 DEF LayeredInv, HeldApart, WritersApart
<1>8. \A v \in 1..MaxVersion : /\ left'[v] \in Int /\ left'[v] <= now'
                               /\ v > version' => left'[v] = Never
  BY <1>1 DEF LayeredInv
<1>9. now' \in Int
  BY <1>1
<1> QED
  BY <1>1, <1>4, <1>5, <1>6, <1>7, <1>8, <1>9, NothingGot DEF LayeredInv

LEMMA LayeredInvInit == LayeredInit => LayeredInv
<1> SUFFICES ASSUME LayeredInit PROVE LayeredInv
  OBVIOUS
<1>1. GoneIsGone /\ LifeNotProlonged
  BY DEF LayeredInit, GoneIsGone, LifeNotProlonged
<1>2. DOMAIN EmptyTier.items = {}
  BY DEF EmptyTier
<1>3. \A i \in Instances : GoodTier(l1[i])
  BY <1>2 DEF LayeredInit, GoodTier
<1>4. \A k \in Keys : GoodHeld(l2[k])
  BY DEF LayeredInit, GoodHeld
<1>5. \A t \in Tasks : GoodTask(task[t]) /\ task[t].pc = "idle"
  BY FreeGood DEF LayeredInit
<1>6. HeldApart /\ WritersApart
  BY <1>5 DEF LayeredInit, HeldApart, WritersApart
<1>7. /\ now \in Int /\ version \in 0..MaxVersion /\ left = [v \in 1..MaxVersion |-> left[v]]
      /\ \A v \in 1..MaxVersion : /\ left[v] \in Int /\ left[v] <= now
                                  /\ v > version => left[v] = Never
  BY LayeredNumbers DEF LayeredInit
<1>8. /\ l1 = [i \in Instances |-> l1[i]] /\ l2 = [k \in Keys |-> l2[k]]
      /\ task = [t \in Tasks |-> task[t]]
  BY DEF LayeredInit
<1> QED
  BY <1>1, <1>3, <1>4, <1>5, <1>6, <1>7, <1>8 DEF LayeredInv

LEMMA LayeredInvNext == LayeredInv /\ [LayeredNext]_layeredVars => LayeredInv'
<1> SUFFICES ASSUME LayeredInv, [LayeredNext]_layeredVars PROVE LayeredInv'
  OBVIOUS
<1>1. CASE UNCHANGED layeredVars
  <2>1. /\ UNCHANGED <<now, version, left, l2, l1, task, got>>
        /\ GoneIsGone' /\ LifeNotProlonged' /\ WritersApart'
    BY <1>1 DEF layeredVars, LayeredInv, GoneIsGone, LifeNotProlonged, WritersApart
  <2>2. task' = [t \in Tasks |-> task'[t]] /\ \A t \in Tasks : GoodTask(task'[t])
    BY <2>1 DEF LayeredInv
  <2> QED
    BY <2>1, <2>2, SameTiers, LayeredFrame
<1> QED
  BY <1>1, GetL1Good, MissL1Good, SetL1Good, InvalidateKeysGood, DeletePrefixL1Good, ReadL2Good,
     MissL2Good, PromoteGood, SetL2Good, SetL2FailsGood, DeleteL1Good, DeleteL2Good,
     DeletePrefixL2Good, LayeredTickGood DEF LayeredNext

LEMMA LayeredInvAlways == LayeredSpec => []LayeredInv
  BY LayeredInvInit, LayeredInvNext, PTL DEF LayeredSpec

\* What Redis has lost no instance serves for longer than the first tier's ttl
\* and one Redis operation, for any number of instances, keys and goroutines:
\* a promotion that crosses an invalidation revives an entry no longer
\* (Layered.Get, Layered.Delete, Layered.DeletePrefix).
THEOREM WhatIsGoneIsGone == LayeredSpec => []GoneIsGone
<1>1. LayeredInv => GoneIsGone
  BY DEF LayeredInv
<1> QED
  BY <1>1, LayeredInvAlways, PTL

\* No copy between the tiers prolongs an entry's life (remaining, Layered.Set).
THEOREM CopiesLiveNoLonger == LayeredSpec => []LifeNotProlonged
<1>1. LayeredInv => LifeNotProlonged
  BY DEF LayeredInv
<1> QED
  BY <1>1, LayeredInvAlways, PTL


=============================================================================
