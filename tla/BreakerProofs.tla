---------------------------- MODULE BreakerProofs ----------------------------
(***************************************************************************)
(* Proofs about the circuit breaker, for every set of calls, every ring     *)
(* size and every configuration that passes validation.                     *)
(***************************************************************************)
EXTENDS Breaker, TLAPS, FiniteSetTheorems

\* No multiple of n lies strictly between 0 and n.
LEMMA NoMultipleBetween ==
  ASSUME NEW n \in Nat \ {0}, NEW d \in Int
  PROVE  ~(0 < n * d /\ n * d < n)
<1>1. CASE d <= 0
  <2>1. n * d <= 0
    BY <1>1
  <2> QED
    BY <2>1
<1>2. CASE d >= 1
  <2>1. n * (d - 1) >= 0
    BY <1>2
  <2>2. n * d = n * (d - 1) + n
    OBVIOUS
  <2> QED
    BY <2>1, <2>2
<1> QED
  BY <1>1, <1>2

\* Two different indices less than a window apart never share a ring slot.
LEMMA ModDistinct ==
  ASSUME NEW n \in Nat \ {0}, NEW i \in Nat, NEW j \in Nat, i < j, j < i + n
  PROVE  i % n # j % n
<1>1. i = n * (i \div n) + (i % n) /\ i % n \in 0..(n-1) /\ i \div n \in Nat
  OBVIOUS
<1>2. j = n * (j \div n) + (j % n) /\ j % n \in 0..(n-1) /\ j \div n \in Nat
  OBVIOUS
<1> DEFINE p == i \div n
           q == j \div n
<1>3. SUFFICES ASSUME i % n = j % n PROVE FALSE
  OBVIOUS
<1>4. j - i = n * q - n * p
  BY <1>1, <1>2, <1>3
<1>5. n * q - n * p = n * (q - p)
  BY <1>1, <1>2
<1>6. 0 < n * (q - p) /\ n * (q - p) < n
  BY <1>4, <1>5
<1>7. q - p \in Int
  BY <1>1, <1>2
<1> HIDE DEF p, q
<1> QED
  BY <1>6, <1>7, NoMultipleBetween

\* The slot of an instant is a slot of the ring.
LEMMA SlotInRange ==
  ASSUME NEW i \in Instants PROVE slotOf(i) \in Slots /\ i \in Nat
  BY ConfigAssumption, BoundsAssumption DEF slotOf, Slots, Instants

-----------------------------------------------------------------------------
(* Type correctness.                                                        *)

\* The ring after recordLocked is again a ring.
LEMMA RingTyped ==
  ASSUME TypeOK
  PROVE  Recycled \in Ring /\ recordSuccess \in Ring /\ recordFailure \in Ring
<1>1. slotOf(now) \in Slots
  BY SlotInRange DEF TypeOK
<1>2. [index |-> now, success |-> 0, failure |-> 0] \in Bucket
  BY DEF TypeOK, Bucket
<1>3. Recycled \in Ring
  BY <1>1, <1>2 DEF TypeOK, Recycled, Ring
<1>4. \A r \in Ring, s \in Slots :
        /\ [r EXCEPT ![s].success = @ + 1] \in Ring
        /\ [r EXCEPT ![s].failure = @ + 1] \in Ring
  <2> TAKE r \in Ring, s \in Slots
  <2>1. r[s] \in Bucket
    BY DEF Ring
  <2>2. [r[s] EXCEPT !.success = @ + 1] \in Bucket /\ [r[s] EXCEPT !.failure = @ + 1] \in Bucket
    BY <2>1 DEF Bucket
  <2> QED
    BY <2>2 DEF Ring
<1> QED
  BY <1>1, <1>3, <1>4 DEF recordSuccess, recordFailure

\* Counting one more outcome at this instant keeps the log well typed.
LEMMA LogTyped ==
  ASSUME TypeOK
  PROVE  /\ [log EXCEPT ![now].success = @ + 1] \in Logs
         /\ [log EXCEPT ![now].failure = @ + 1] \in Logs
<1>1. now \in Instants /\ log \in Logs
  BY DEF TypeOK
<1>2. log[now] \in Tally
  BY <1>1 DEF Logs
<1>3. [log[now] EXCEPT !.success = @ + 1] \in Tally /\ [log[now] EXCEPT !.failure = @ + 1] \in Tally
  BY <1>2 DEF Tally
<1> QED
  BY <1>1, <1>3 DEF Logs

\* What currentLocked leaves behind is well typed.
LEMMA CurTyped ==
  ASSUME TypeOK
  PROVE  /\ CurState \in {"closed", "open", "halfopen"}
         /\ CurCalls \in 0..HalfOpenMaxCalls
         /\ CurOK \in Nat
         /\ CurEpoch \in Nat
         /\ CurStragglers \in Nat
  BY ConfigAssumption DEF TypeOK, CurState, CurCalls, CurOK, CurEpoch, CurStragglers

\* The empty ring and the empty log.
LEMMA EmptyTyped ==
  [s \in Slots |-> NoBucket] \in Ring /\ [i \in Instants |-> NoOutcome] \in Logs
<1>1. NoBucket \in Bucket /\ NoOutcome \in Tally
  BY DEF NoBucket, NoOutcome, Bucket, Tally
<1> QED
  BY <1>1 DEF Ring, Logs

\* Issuing and taking back a ticket.
LEMMA TicketTyped ==
  ASSUME TypeOK, NEW c \in Calls, NEW t \in Nat \cup {NoTicket}
  PROVE  [ticket EXCEPT ![c] = t] \in Tickets
  BY DEF TypeOK, Tickets

\* A new breaker is well typed.
LEMMA TypeInit == Init => TypeOK
<1> SUFFICES ASSUME Init PROVE TypeOK
  OBVIOUS
<1>1. 0 \in Instants /\ 0 \in 0..HalfOpenMaxCalls
  BY ConfigAssumption, BoundsAssumption DEF Instants
<1>2. [c \in Calls |-> NoTicket] \in Tickets
  BY DEF Tickets
<1> QED
  BY <1>1, <1>2, EmptyTyped DEF Init, TypeOK

\* Every method of the breaker, and the clock, keep it well typed.
LEMMA TypeNext == TypeOK /\ [Next]_vars => TypeOK'
<1> SUFFICES ASSUME TypeOK, [Next]_vars PROVE TypeOK'
  OBVIOUS
<1>r. Recycled \in Ring /\ recordSuccess \in Ring /\ recordFailure \in Ring
  BY RingTyped
<1>l. /\ [log EXCEPT ![now].success = @ + 1] \in Logs
      /\ [log EXCEPT ![now].failure = @ + 1] \in Logs
  BY LogTyped
<1>c. /\ CurState \in {"closed", "open", "halfopen"}
      /\ CurCalls \in 0..HalfOpenMaxCalls
      /\ CurOK \in Nat
      /\ CurEpoch \in Nat
      /\ CurStragglers \in Nat
  BY CurTyped
<1>t. ASSUME NEW c \in Calls PROVE /\ [ticket EXCEPT ![c] = NoTicket] \in Tickets
                                   /\ [ticket EXCEPT ![c] = 0] \in Tickets
                                   /\ [ticket EXCEPT ![c] = CurEpoch] \in Tickets
  BY <1>c, TicketTyped
<1>n. HalfOpenMaxCalls \in Nat /\ 0 \in 0..HalfOpenMaxCalls /\ 0 \in Nat
  BY ConfigAssumption
<1>1. ASSUME NEW c \in Calls, AllowDisabled(c) PROVE TypeOK'
  BY <1>1, <1>t DEF AllowDisabled, TypeOK, code
<1>2. ASSUME NEW c \in Calls, AllowClosed(c) PROVE TypeOK'
  BY <1>2, <1>t DEF AllowClosed, TypeOK, code
<1>3. ASSUME NEW c \in Calls, AllowRejectedOpen(c) PROVE TypeOK'
  BY <1>3, <1>r, <1>c DEF AllowRejectedOpen, SettleTimer, TypeOK
<1>4. ASSUME NEW c \in Calls, AllowRejectedSaturated(c) PROVE TypeOK'
  BY <1>4, <1>r, <1>c DEF AllowRejectedSaturated, SettleTimer, TypeOK
<1>5. ASSUME NEW c \in Calls, AllowProbe(c) PROVE TypeOK'
  <2>1. halfOpenCalls' \in 0..HalfOpenMaxCalls
    BY <1>5, <1>c, <1>n DEF AllowProbe
  <2> QED
    BY <2>1, <1>5, <1>c, <1>t DEF AllowProbe, TypeOK
<1>6. ASSUME NEW c \in Calls, RecordOK(c) PROVE TypeOK'
  BY <1>6, <1>r, <1>l, <1>c, <1>t DEF RecordOK, SettleTimer, Ended, TypeOK
<1>7. ASSUME NEW c \in Calls, RecordOKProbing(c) PROVE TypeOK'
  <2>1. /\ halfOpenCalls' \in 0..HalfOpenMaxCalls
        /\ halfOpenOK' \in Nat
        /\ stragglers' \in Nat
    BY <1>7, <1>c, <1>n DEF RecordOKProbing, LateBy, decr
  <2> QED
    BY <2>1, <1>7, <1>r, <1>l, <1>c, <1>t DEF RecordOKProbing, Ended, TypeOK
<1>8. ASSUME NEW c \in Calls, RecordOKCloses(c) PROVE TypeOK'
  BY <1>8, EmptyTyped, <1>c, <1>t, <1>n DEF RecordOKCloses, TransitionToClosed, Ended, TypeOK
<1>9. ASSUME NEW c \in Calls, RecordErrReopens(c) PROVE TypeOK'
  BY <1>9, <1>r, <1>l, <1>c, <1>t, <1>n DEF RecordErrReopens, TransitionToOpen, Ended, TypeOK
<1>10. ASSUME NEW c \in Calls, RecordErrTrips(c) PROVE TypeOK'
  BY <1>10, <1>r, <1>l, <1>c, <1>t, <1>n DEF RecordErrTrips, TransitionToOpen, Ended, TypeOK
<1>11. ASSUME NEW c \in Calls, RecordErr(c) PROVE TypeOK'
  BY <1>11, <1>r, <1>l, <1>c, <1>t DEF RecordErr, SettleTimer, Ended, TypeOK
<1>12. ASSUME NEW c \in Calls, Abstain(c) PROVE TypeOK'
  <2>1. halfOpenCalls' \in 0..HalfOpenMaxCalls /\ stragglers' \in Nat
    BY <1>12, <1>n DEF Abstain, decr, TypeOK
  <2> QED
    BY <2>1, <1>12, <1>t DEF Abstain, Ended, TypeOK
<1>13. ASSUME NEW c \in Calls, EndDisabled(c) PROVE TypeOK'
  BY <1>13, <1>t DEF EndDisabled, Ended, TypeOK, code
<1>14. CASE PollState
  BY <1>14, <1>c DEF PollState, SettleTimer, TypeOK
<1>15. CASE Tick
  BY <1>15, BoundsAssumption DEF Tick, TypeOK, code, Instants
<1>16. CASE UNCHANGED vars
  BY <1>16 DEF vars, TypeOK
<1> QED
  BY <1>1, <1>2, <1>3, <1>4, <1>5, <1>6, <1>7, <1>8, <1>9, <1>10, <1>11, <1>12,
     <1>13, <1>14, <1>15, <1>16
     DEF Next, Allow, RecordSuccess, RecordFailure

\* Type correctness of the breaker; in particular halfOpenCalls never exceeds
\* HalfOpenMaxCalls and never becomes negative.
THEOREM TypeCorrect == Spec => []TypeOK
  BY TypeInit, TypeNext, PTL DEF Spec

-----------------------------------------------------------------------------
(* Probe slots.                                                             *)

\* No call holds a ticket of a half-open period still to come, and a disabled
\* breaker never leaves closed.
TicketsPast == \A c \in Calls : ticket[c] <= epoch
DisabledIsClosed == mode = "disabled" => state = "closed"

SlotInv == TypeOK /\ ProbeCountersFresh /\ SlotsConserved /\ TicketsPast /\ DisabledIsClosed

\* The set of probes in flight is finite.
LEMMA ProbesFinite ==
  IsFiniteSet(Probes) /\ Cardinality(Probes) \in Nat
<1>1. Probes \subseteq Calls
  BY DEF Probes
<1> QED
  BY <1>1, CallsAssumption, FS_Subset, FS_CardinalityType

\* When the timer is due, the half-open period about to start has no probes.
LEMMA NoProbeYet ==
  ASSUME TypeOK, TicketsPast
  PROVE  /\ epoch \in Nat
         /\ \A c \in Calls : ticket[c] \in Int /\ ticket[c] # epoch + 1
  BY DEF TypeOK, TicketsPast, Tickets, NoTicket

\* A call that ends leaves the set of probes, if it was one.
LEMMA EndingShrinks ==
  ASSUME TypeOK, NEW c \in Calls, ticket[c] # NoTicket, Ended(c), UNCHANGED epoch
  PROVE  /\ Cardinality(Probes') \in Nat
         /\ Cardinality(Probes') =
              IF ticket[c] = epoch THEN Cardinality(Probes) - 1 ELSE Cardinality(Probes)
<1>1. epoch # NoTicket
  BY DEF TypeOK, NoTicket
<1>2. Probes' = Probes \ {c}
  BY <1>1 DEF Probes, Ended, TypeOK, Tickets
<1>n. Cardinality(Probes') \in Nat
  BY <1>2, ProbesFinite, FS_Subset, FS_CardinalityType
<1>3. CASE ticket[c] = epoch
  <2>1. c \in Probes
    BY <1>3 DEF Probes
  <2> QED
    BY <2>1, <1>2, <1>3, <1>n, ProbesFinite, FS_RemoveElement
<1>4. CASE ticket[c] # epoch
  <2>1. Probes' = Probes
    BY <1>2, <1>4 DEF Probes
  <2> QED
    BY <2>1, <1>4, <1>n
<1> QED
  BY <1>n, <1>3, <1>4

\* In a fresh half-open period a call that ends leaves no probe at all.
LEMMA EndingFresh ==
  ASSUME TypeOK, TicketsPast, NEW c \in Calls, Ended(c), epoch' = epoch + 1
  PROVE  Cardinality(Probes') = 0
<1>1. Probes' = {}
  BY NoProbeYet DEF Probes, Ended, TypeOK, Tickets, NoTicket
<1> QED
  BY <1>1, FS_EmptySet

\* What currentLocked does to the slots.
LEMMA SettleKeepsSlots ==
  ASSUME SlotInv, SettleTimer, UNCHANGED ticket
  PROVE  ProbeCountersFresh' /\ SlotsConserved' /\ TicketsPast'
<1>1. CASE TimerDue
  <2>1. /\ state' = "halfopen" /\ halfOpenCalls' = 0 /\ halfOpenOK' = 0
        /\ epoch' = epoch + 1 /\ stragglers' = 0
    BY <1>1 DEF SettleTimer, CurState, CurCalls, CurOK, CurEpoch, CurStragglers
  <2>2. Probes' = {}
    BY <2>1, NoProbeYet DEF SlotInv, Probes
  <2>3. Cardinality(Probes') = 0
    BY <2>2, FS_EmptySet
  <2>4. TicketsPast'
    BY <2>1, NoProbeYet DEF SlotInv, TicketsPast
  <2> QED
    BY <2>1, <2>3, <2>4, ConfigAssumption DEF ProbeCountersFresh, SlotsConserved
<1>2. CASE ~TimerDue
  <2>1. UNCHANGED <<state, halfOpenCalls, halfOpenOK, epoch, stragglers>>
    BY <1>2 DEF SettleTimer, CurState, CurCalls, CurOK, CurEpoch, CurStragglers
  <2> QED
    BY <2>1 DEF SlotInv, ProbeCountersFresh, SlotsConserved, TicketsPast, Probes
<1> QED
  BY <1>1, <1>2

\* A call that ends outside half-open, or ends half-open, disturbs no slot.
LEMMA QuietEnd ==
  ASSUME SlotInv, NEW c \in Calls, Ended(c), epoch' = CurEpoch,
         state' # "halfopen", halfOpenCalls' = 0, halfOpenOK' = 0
  PROVE  ProbeCountersFresh' /\ SlotsConserved' /\ TicketsPast'
<1>1. TicketsPast'
  BY NoProbeYet DEF SlotInv, TicketsPast, Ended, TypeOK, Tickets, NoTicket, CurEpoch
<1> QED
  BY <1>1 DEF ProbeCountersFresh, SlotsConserved

\* The accounting of probe slots is inductive: no interleaving of Allow, Record
\* and Abstain, and no lapse of the open timer, breaks it.
LEMMA SlotNext == SlotInv /\ TypeOK' /\ [Next]_vars => SlotInv'
<1> SUFFICES ASSUME SlotInv, TypeOK', [Next]_vars PROVE SlotInv'
  OBVIOUS
<1>a. TypeOK /\ ProbeCountersFresh /\ SlotsConserved /\ TicketsPast /\ DisabledIsClosed
  BY DEF SlotInv
<1>d. DisabledIsClosed' /\ (mode = "disabled" => UNCHANGED state)
  BY <1>a DEF DisabledIsClosed, Next, vars, Allow, RecordSuccess, RecordFailure,
              AllowDisabled, AllowClosed, AllowRejectedOpen, AllowRejectedSaturated,
              AllowProbe, RecordOK, RecordOKProbing, RecordOKCloses, RecordErrReopens,
              RecordErrTrips, RecordErr, Abstain, EndDisabled, PollState, Tick, code,
              CanRecord, SettleTimer, TimerDue, CurState
<1> SUFFICES ProbeCountersFresh' /\ SlotsConserved' /\ TicketsPast'
  BY <1>d DEF SlotInv
<1>q. ASSUME NEW c \in Calls, state = "closed", UNCHANGED code,
             ticket' = [ticket EXCEPT ![c] = 0] \/ ticket' = [ticket EXCEPT ![c] = NoTicket]
      PROVE  ProbeCountersFresh' /\ SlotsConserved' /\ TicketsPast'
  <2>1. TicketsPast'
    BY <1>q, <1>a DEF code, TicketsPast, TypeOK, Tickets, NoTicket
  <2> QED
    BY <2>1, <1>q, <1>a DEF code, ProbeCountersFresh, SlotsConserved
<1>1. ASSUME NEW c \in Calls, AllowDisabled(c)
      PROVE  ProbeCountersFresh' /\ SlotsConserved' /\ TicketsPast'
  BY <1>1, <1>a, <1>q DEF AllowDisabled, DisabledIsClosed
<1>2. ASSUME NEW c \in Calls, AllowClosed(c)
      PROVE  ProbeCountersFresh' /\ SlotsConserved' /\ TicketsPast'
  BY <1>2, <1>q DEF AllowClosed, CurState
<1>3. ASSUME NEW c \in Calls, AllowRejectedOpen(c) \/ AllowRejectedSaturated(c)
      PROVE  ProbeCountersFresh' /\ SlotsConserved' /\ TicketsPast'
  BY <1>3, SettleKeepsSlots DEF AllowRejectedOpen, AllowRejectedSaturated
<1>4. ASSUME NEW c \in Calls, AllowProbe(c)
      PROVE  ProbeCountersFresh' /\ SlotsConserved' /\ TicketsPast'
  <2>1. CASE TimerDue
    <3>1. /\ state' = "halfopen" /\ halfOpenCalls' = 1 /\ halfOpenOK' = 0
          /\ epoch' = epoch + 1 /\ stragglers' = 0
          /\ ticket' = [ticket EXCEPT ![c] = epoch + 1]
      BY <1>4, <2>1 DEF AllowProbe, CurState, CurCalls, CurOK, CurEpoch, CurStragglers
    <3>2. Probes' = {c}
      BY <3>1, <1>a, NoProbeYet DEF Probes, TypeOK, Tickets
    <3>3. Cardinality(Probes') = 1
      BY <3>2, FS_Singleton
    <3>4. TicketsPast'
      BY <3>1, <1>a, NoProbeYet DEF TicketsPast, TypeOK, Tickets
    <3> QED
      BY <3>1, <3>3, <3>4, ConfigAssumption DEF ProbeCountersFresh, SlotsConserved
  <2>2. CASE ~TimerDue
    <3>1. /\ state = "halfopen" /\ state' = "halfopen"
          /\ halfOpenCalls' = halfOpenCalls + 1 /\ UNCHANGED <<halfOpenOK, epoch, stragglers>>
          /\ ticket[c] = NoTicket
          /\ ticket' = [ticket EXCEPT ![c] = epoch]
      BY <1>4, <2>2 DEF AllowProbe, CurState, CurCalls, CurOK, CurEpoch, CurStragglers
    <3>2. c \notin Probes /\ Probes' = Probes \cup {c}
      BY <3>1, <1>a DEF Probes, TypeOK, Tickets, NoTicket
    <3>3. Cardinality(Probes') = Cardinality(Probes) + 1
      BY <3>2, ProbesFinite, FS_AddElement
    <3>4. TicketsPast'
      BY <3>1, <1>a, NoProbeYet DEF TicketsPast, TypeOK, Tickets
    <3> QED
      BY <3>1, <3>3, <3>4, <1>a, ProbesFinite DEF ProbeCountersFresh, SlotsConserved, TypeOK
  <2> QED
    BY <2>1, <2>2
<1>5. ASSUME NEW c \in Calls, RecordOK(c) \/ RecordErr(c)
      PROVE  ProbeCountersFresh' /\ SlotsConserved' /\ TicketsPast'
  <2>1. CurState # "halfopen" /\ SettleTimer /\ Ended(c)
    BY <1>5 DEF RecordOK, RecordErr
  <2>2. state' # "halfopen" /\ halfOpenCalls' = 0 /\ halfOpenOK' = 0 /\ epoch' = CurEpoch
    BY <2>1, <1>a DEF SettleTimer, CurState, CurCalls, CurOK, ProbeCountersFresh
  <2> QED
    BY <2>1, <2>2, QuietEnd
<1>6. ASSUME NEW c \in Calls, RecordOKProbing(c)
      PROVE  ProbeCountersFresh' /\ SlotsConserved' /\ TicketsPast'
  <2>0. Ended(c) /\ ticket[c] # NoTicket /\ state' = "halfopen"
    BY <1>6 DEF RecordOKProbing, CanRecord
  <2>1. TicketsPast'
    BY <1>6, <1>a, NoProbeYet
       DEF RecordOKProbing, TicketsPast, Ended, TypeOK, Tickets, NoTicket, CurEpoch
  <2>2. halfOpenOK' < HalfOpenSuccesses
    BY <1>6 DEF RecordOKProbing
  <2>3. CASE TimerDue
    <3>1. halfOpenCalls' = 0 /\ stragglers' = 1 /\ epoch' = epoch + 1
      BY <1>6, <2>3, <1>a, NoProbeYet
         DEF RecordOKProbing, CurCalls, CurEpoch, CurStragglers, LateBy, decr
    <3>2. Cardinality(Probes') = 0
      BY <2>0, <3>1, <1>a, EndingFresh
    <3> QED
      BY <2>0, <2>1, <2>2, <3>1, <3>2 DEF ProbeCountersFresh, SlotsConserved
  <2>4. CASE ~TimerDue
    <3>1. /\ state = "halfopen" /\ UNCHANGED epoch
          /\ halfOpenCalls' = decr(halfOpenCalls)
          /\ stragglers' = stragglers + (IF ticket[c] = epoch THEN 0 ELSE 1)
      BY <1>6, <2>4
         DEF RecordOKProbing, CurState, CurCalls, CurEpoch, CurStragglers, LateBy
    <3>2. /\ Cardinality(Probes') \in Nat
          /\ Cardinality(Probes') =
               IF ticket[c] = epoch THEN Cardinality(Probes) - 1 ELSE Cardinality(Probes)
      BY <2>0, <3>1, <1>a, EndingShrinks
    <3> QED
      BY <2>0, <2>1, <2>2, <3>1, <3>2, <1>a, ProbesFinite
         DEF ProbeCountersFresh, SlotsConserved, TypeOK, decr
  <2> QED
    BY <2>3, <2>4
<1>7. ASSUME NEW c \in Calls, RecordOKCloses(c) \/ RecordErrReopens(c) \/ RecordErrTrips(c)
      PROVE  ProbeCountersFresh' /\ SlotsConserved' /\ TicketsPast'
  <2>1. /\ Ended(c) /\ state' # "halfopen"
        /\ halfOpenCalls' = 0 /\ halfOpenOK' = 0 /\ epoch' = CurEpoch
    BY <1>7 DEF RecordOKCloses, RecordErrReopens, RecordErrTrips,
                TransitionToClosed, TransitionToOpen
  <2> QED
    BY <2>1, QuietEnd
<1>8. ASSUME NEW c \in Calls, Abstain(c)
      PROVE  ProbeCountersFresh' /\ SlotsConserved' /\ TicketsPast'
  <2>0. Ended(c) /\ ticket[c] # NoTicket /\ UNCHANGED <<state, halfOpenOK, epoch>>
    BY <1>8 DEF Abstain
  <2>1. TicketsPast'
    BY <2>0, <1>a, NoProbeYet DEF TicketsPast, Ended, TypeOK, Tickets, NoTicket
  <2>2. CASE state = "halfopen"
    <3>1. /\ halfOpenCalls' = decr(halfOpenCalls)
          /\ stragglers' = stragglers + (IF ticket[c] = epoch THEN 0 ELSE 1)
      BY <1>8, <2>2 DEF Abstain
    <3>2. /\ Cardinality(Probes') \in Nat
          /\ Cardinality(Probes') =
               IF ticket[c] = epoch THEN Cardinality(Probes) - 1 ELSE Cardinality(Probes)
      BY <2>0, <1>a, EndingShrinks
    <3> QED
      BY <2>0, <2>1, <2>2, <3>1, <3>2, <1>a, ProbesFinite
         DEF ProbeCountersFresh, SlotsConserved, TypeOK, decr
  <2>3. CASE state # "halfopen"
    <3>1. UNCHANGED halfOpenCalls
      BY <1>8, <2>3 DEF Abstain
    <3> QED
      BY <2>0, <2>1, <2>3, <3>1, <1>a DEF ProbeCountersFresh, SlotsConserved
  <2> QED
    BY <2>2, <2>3
<1>9. ASSUME NEW c \in Calls, EndDisabled(c)
      PROVE  ProbeCountersFresh' /\ SlotsConserved' /\ TicketsPast'
  BY <1>9, <1>a, <1>q DEF EndDisabled, Ended, DisabledIsClosed
<1>10. CASE PollState
  BY <1>10, SettleKeepsSlots DEF PollState
<1>11. CASE Tick \/ UNCHANGED vars
  <2>1. UNCHANGED <<state, halfOpenCalls, halfOpenOK, epoch, stragglers, ticket>>
    BY <1>11 DEF Tick, vars, code
  <2> QED
    BY <2>1, <1>a DEF ProbeCountersFresh, SlotsConserved, TicketsPast, Probes
<1> QED
  BY <1>1, <1>2, <1>3, <1>4, <1>5, <1>6, <1>7, <1>8, <1>9, <1>10, <1>11
     DEF Next, Allow, RecordSuccess, RecordFailure

\* A new breaker has no probes and no slots taken.
LEMMA SlotInit == Init => SlotInv
<1> SUFFICES ASSUME Init PROVE SlotInv
  OBVIOUS
<1>1. TypeOK
  BY TypeInit
<1>2. TicketsPast
  BY DEF Init, TicketsPast, NoTicket
<1> QED
  BY <1>1, <1>2 DEF Init, SlotInv, ProbeCountersFresh, SlotsConserved, DisabledIsClosed

\* The accounting of probe slots holds in every reachable state.
LEMMA SlotInvariant == Spec => []SlotInv
  BY SlotInit, SlotNext, TypeCorrect, PTL DEF Spec

\* No probe slot leaks, and the probes in flight outnumber the counted slots
\* by at most the stragglers of the period.
THEOREM SlotsAreConserved == Spec => []SlotsConserved
<1>1. SlotInv => SlotsConserved
  BY DEF SlotInv
<1> QED
  BY <1>1, SlotInvariant, PTL

\* Every half-open period starts from zero and ends when it has its successes.
THEOREM CountersAreFresh == Spec => []ProbeCountersFresh
<1>1. SlotInv => ProbeCountersFresh
  BY DEF SlotInv
<1> QED
  BY <1>1, SlotInvariant, PTL

-----------------------------------------------------------------------------
(* Refinement.                                                              *)

\* A new breaker is a closed circuit with nobody admitted.
LEMMA CircuitInit == Init => Promise!Init
  BY DEF Init, Promise!Init, Running

\* Issuing and taking back a ticket, seen from the circuit.
LEMMA TicketIsAdmission ==
  ASSUME TypeOK, NEW c \in Calls
  PROVE  /\ ticket[c] = NoTicket => c \notin Running
         /\ ticket[c] # NoTicket => c \in Running
         /\ Ended(c) => Running' = Running \ {c}
         /\ \A t \in Nat : ticket' = [ticket EXCEPT ![c] = t] => Running' = Running \cup {c}
         /\ UNCHANGED ticket => Running' = Running
  BY DEF TypeOK, Tickets, Running, Ended, NoTicket

\* currentLocked moves the circuit to a state an operation may find.
LEMMA CurIsFound == TypeOK => CurState \in Promise!Found
  BY DEF TypeOK, CurState, TimerDue, Promise!Found

\* Every method of the breaker is an operation of the circuit, or leaves it as
\* it is: the ring, the counters and the timer decide which, never more.
LEMMA CircuitNext ==
  SlotInv /\ [Next]_vars => [Promise!Next]_<<state, Running>>
<1> SUFFICES ASSUME SlotInv, [Next]_vars PROVE [Promise!Next]_<<state, Running>>
  OBVIOUS
<1>a. TypeOK /\ DisabledIsClosed
  BY DEF SlotInv
<1>f. CurState \in Promise!Found
  BY <1>a, CurIsFound
<1>e. 0 \in Nat /\ CurEpoch \in Nat
  BY <1>a, CurTyped
<1>1. ASSUME NEW c \in Calls, AllowDisabled(c) \/ AllowClosed(c)
      PROVE  Promise!Admit(c)
  <2>1. state = "closed" /\ UNCHANGED state
    BY <1>1, <1>a DEF AllowDisabled, AllowClosed, DisabledIsClosed, CurState, code
  <2>2. c \notin Running /\ Running' = Running \cup {c}
    BY <1>1, <1>a, <1>e, TicketIsAdmission DEF AllowDisabled, AllowClosed
  <2> QED
    BY <2>1, <2>2 DEF Promise!Admit, Promise!Found
<1>2. ASSUME NEW c \in Calls, AllowProbe(c)
      PROVE  Promise!Admit(c)
  <2>1. c \notin Running /\ Running' = Running \cup {c}
    BY <1>2, <1>a, <1>e, TicketIsAdmission DEF AllowProbe
  <2>2. state' = CurState /\ CurState # "open"
    BY <1>2 DEF AllowProbe
  <2> QED
    BY <2>1, <2>2, <1>f DEF Promise!Admit
<1>3. ASSUME NEW c \in Calls, AllowRejectedOpen(c) \/ AllowRejectedSaturated(c)
      PROVE  Promise!Reject(c)
  <2>1. c \notin Running /\ UNCHANGED Running
    BY <1>3, <1>a, TicketIsAdmission DEF AllowRejectedOpen, AllowRejectedSaturated
  <2>2. state' = CurState /\ CurState # "closed"
    BY <1>3 DEF AllowRejectedOpen, AllowRejectedSaturated, SettleTimer
  <2> QED
    BY <2>1, <2>2, <1>f DEF Promise!Reject
<1>4. ASSUME NEW c \in Calls, RecordSuccess(c)
      PROVE  Promise!Succeed(c)
  <2>1. Promise!Leave(c)
    BY <1>4, <1>a, TicketIsAdmission
       DEF RecordSuccess, RecordOK, RecordOKProbing, RecordOKCloses, CanRecord, Promise!Leave
  <2>2. state' = CurState \/ (CurState = "halfopen" /\ state' = "closed")
    BY <1>4 DEF RecordSuccess, RecordOK, RecordOKProbing, RecordOKCloses,
                SettleTimer, TransitionToClosed
  <2> QED
    BY <2>1, <2>2, <1>f DEF Promise!Succeed
<1>5. ASSUME NEW c \in Calls, RecordFailure(c)
      PROVE  Promise!Fail(c)
  <2>1. Promise!Leave(c)
    BY <1>5, <1>a, TicketIsAdmission
       DEF RecordFailure, RecordErr, RecordErrTrips, RecordErrReopens, CanRecord, Promise!Leave
  <2>2. \/ CurState # "halfopen" /\ state' = CurState
        \/ CurState # "open" /\ state' = "open"
    BY <1>5 DEF RecordFailure, RecordErr, RecordErrTrips, RecordErrReopens,
                SettleTimer, TransitionToOpen
  <2> QED
    BY <2>1, <2>2, <1>f DEF Promise!Fail
<1>6. ASSUME NEW c \in Calls, Abstain(c) \/ EndDisabled(c)
      PROVE  Promise!Withdraw(c)
  BY <1>6, <1>a, TicketIsAdmission DEF Abstain, EndDisabled, code, Promise!Withdraw, Promise!Leave
<1>7. CASE PollState
  <2>1. Promise!Cool
    BY <1>7 DEF PollState, SettleTimer, TimerDue, CurState, Running, Promise!Cool
  <2> QED
    BY <2>1 DEF Promise!Next
<1>8. CASE Tick \/ UNCHANGED vars
  BY <1>8 DEF Tick, vars, code, Running
<1> QED
  BY <1>1, <1>2, <1>3, <1>4, <1>5, <1>6, <1>7, <1>8 DEF Next, Allow, Promise!Next

\* The breaker implements Circuit: whatever its ring and counters hold, it
\* admits nobody while open, opens only on a failure and closes only on a
\* success that finds it half-open.
THEOREM BreakerIsCircuit == Spec => IsCircuit
  BY CircuitInit, CircuitNext, SlotInvariant, PTL DEF Spec, IsCircuit, Promise!Spec

-----------------------------------------------------------------------------
(* The rolling window.                                                      *)

\* RingExact for a given ring and log.
Exact(bks, l) ==
  \A i \in Recent :
    l[i] = IF bks[slotOf(i)].index = i
             THEN [success |-> bks[slotOf(i)].success, failure |-> bks[slotOf(i)].failure]
             ELSE NoOutcome

\* A bucket sits in the slot of its index, and no bucket is of the future.
Indexed(bks) ==
  \A s \in Slots : bks[s].index # -1 => bks[s].index <= now /\ slotOf(bks[s].index) = s

\* Nothing has been logged for an instant that has not come.
FutureBlank == \A i \in Instants : i > now => log[i] = NoOutcome

RingInv == TypeOK /\ Exact(buckets, log) /\ Indexed(buckets) /\ FutureBlank

\* Two instants of the window never share a slot.
LEMMA RecentSlots ==
  ASSUME TypeOK, NEW i \in Recent, i # now
  PROVE  i \in Instants /\ slotOf(i) # slotOf(now) /\ slotOf(i) \in Slots
<1>1. i \in Instants /\ i < now /\ now < i + BucketsPerWindow /\ i \in Nat /\ now \in Nat
  BY SlotInRange, ConfigAssumption DEF Recent, TypeOK
<1> QED
  BY <1>1, ModDistinct, SlotInRange, ConfigAssumption DEF slotOf

\* Recycling the slot of this instant loses nothing of the window.
LEMMA RecycledExact ==
  ASSUME RingInv
  PROVE  /\ Exact(Recycled, log)
         /\ Indexed(Recycled)
         /\ Recycled[slotOf(now)].index = now
<1>1. now \in Instants /\ slotOf(now) \in Slots /\ buckets \in Ring /\ now # -1 /\ now \in Nat
  BY SlotInRange DEF RingInv, TypeOK
<1>2. CASE buckets[slotOf(now)].index = now
  BY <1>1, <1>2 DEF Recycled, RingInv
<1>3. CASE buckets[slotOf(now)].index # now
  <2> DEFINE new == [index |-> now, success |-> 0, failure |-> 0]
  <2>1. Recycled = [buckets EXCEPT ![slotOf(now)] = new]
    BY <1>3 DEF Recycled
  <2>2. /\ Recycled[slotOf(now)] = new
        /\ \A s \in Slots : s # slotOf(now) => Recycled[s] = buckets[s]
    BY <1>1, <2>1 DEF Ring
  <2>3. Exact(Recycled, log)
    <3> SUFFICES ASSUME NEW i \in Recent
                 PROVE  log[i] = IF Recycled[slotOf(i)].index = i
                                   THEN [success |-> Recycled[slotOf(i)].success,
                                         failure |-> Recycled[slotOf(i)].failure]
                                   ELSE NoOutcome
      BY DEF Exact
    <3>1. CASE i = now
      <4>1. log[now] = NoOutcome
        BY <1>3, <3>1 DEF RingInv, Exact
      <4> QED
        BY <4>1, <3>1, <2>2 DEF NoOutcome
    <3>2. CASE i # now
      <4>1. slotOf(i) # slotOf(now) /\ slotOf(i) \in Slots
        BY <3>2, RecentSlots DEF RingInv
      <4>2. Recycled[slotOf(i)] = buckets[slotOf(i)]
        BY <4>1, <2>2
      <4> QED
        BY <4>2 DEF RingInv, Exact
    <3> QED
      BY <3>1, <3>2
  <2>4. Indexed(Recycled)
    BY <2>2, <1>1 DEF Indexed, RingInv
  <2> QED
    BY <2>2, <2>3, <2>4
<1> QED
  BY <1>2, <1>3

\* Recording an outcome in the ring and in the log keeps them in step.
LEMMA RecordExact ==
  ASSUME RingInv
  PROVE  /\ Exact(recordSuccess, [log EXCEPT ![now].success = @ + 1])
         /\ Exact(recordFailure, [log EXCEPT ![now].failure = @ + 1])
         /\ Indexed(recordSuccess)
         /\ Indexed(recordFailure)
<1>1. now \in Instants /\ slotOf(now) \in Slots /\ log \in Logs /\ now \in Recent
  BY SlotInRange, ConfigAssumption DEF RingInv, TypeOK, Recent
<1>2. Recycled \in Ring
  BY RingTyped DEF RingInv
<1> DEFINE b == Recycled[slotOf(now)]
<1>3. /\ recordSuccess[slotOf(now)] = [b EXCEPT !.success = @ + 1]
      /\ recordFailure[slotOf(now)] = [b EXCEPT !.failure = @ + 1]
      /\ \A s \in Slots : s # slotOf(now) =>
            recordSuccess[s] = Recycled[s] /\ recordFailure[s] = Recycled[s]
  BY <1>1, <1>2 DEF recordSuccess, recordFailure, Ring
<1>4. b \in Bucket /\ b.index = now
  BY <1>1, <1>2, RecycledExact DEF Ring
<1>5. log[now] = [success |-> b.success, failure |-> b.failure]
  BY <1>1, <1>4, RecycledExact DEF Exact
<1>6. /\ recordSuccess[slotOf(now)] = [index |-> now, success |-> b.success + 1, failure |-> b.failure]
      /\ recordFailure[slotOf(now)] = [index |-> now, success |-> b.success, failure |-> b.failure + 1]
  BY <1>3, <1>4 DEF Bucket
<1>7. Indexed(recordSuccess) /\ Indexed(recordFailure)
  <2>1. now \in Nat
    BY <1>1, SlotInRange
  <2> QED
    BY <2>1, <1>1, <1>3, <1>6, RecycledExact DEF Indexed
<1> DEFINE okLog == [log EXCEPT ![now].success = @ + 1]
           errLog == [log EXCEPT ![now].failure = @ + 1]
<1>8. /\ okLog[now] = [success |-> b.success + 1, failure |-> b.failure]
      /\ errLog[now] = [success |-> b.success, failure |-> b.failure + 1]
      /\ \A i \in Instants : i # now => okLog[i] = log[i] /\ errLog[i] = log[i]
  BY <1>1, <1>5 DEF Logs
<1> HIDE DEF okLog, errLog, b
<1>9. Exact(recordSuccess, okLog) /\ Exact(recordFailure, errLog)
  <2> SUFFICES ASSUME NEW i \in Recent
               PROVE  /\ okLog[i] = IF recordSuccess[slotOf(i)].index = i
                                      THEN [success |-> recordSuccess[slotOf(i)].success,
                                            failure |-> recordSuccess[slotOf(i)].failure]
                                      ELSE NoOutcome
                      /\ errLog[i] = IF recordFailure[slotOf(i)].index = i
                                       THEN [success |-> recordFailure[slotOf(i)].success,
                                             failure |-> recordFailure[slotOf(i)].failure]
                                       ELSE NoOutcome
    BY DEF Exact
  <2>1. CASE i = now
    BY <2>1, <1>6, <1>8
  <2>2. CASE i # now
    <3>1. i \in Instants /\ slotOf(i) # slotOf(now) /\ slotOf(i) \in Slots
      BY <2>2, RecentSlots DEF RingInv
    <3>2. /\ recordSuccess[slotOf(i)] = Recycled[slotOf(i)]
          /\ recordFailure[slotOf(i)] = Recycled[slotOf(i)]
          /\ okLog[i] = log[i] /\ errLog[i] = log[i]
      BY <3>1, <2>2, <1>3, <1>8
    <3>3. log[i] = IF Recycled[slotOf(i)].index = i
                     THEN [success |-> Recycled[slotOf(i)].success,
                           failure |-> Recycled[slotOf(i)].failure]
                     ELSE NoOutcome
      BY RecycledExact DEF Exact
    <3> QED
      BY <3>2, <3>3
  <2> QED
    BY <2>1, <2>2
<1> QED
  BY <1>7, <1>9 DEF okLog, errLog

\* The ring stays in step with what was recorded: recordLocked, the reset on
\* closing and the passing of time all keep it.
LEMMA RingNext == RingInv /\ TypeOK' /\ [Next]_vars => RingInv'
<1> SUFFICES ASSUME RingInv, TypeOK', [Next]_vars PROVE RingInv'
  OBVIOUS
<1>a. TypeOK /\ Exact(buckets, log) /\ Indexed(buckets) /\ FutureBlank
  BY DEF RingInv
<1>1. ASSUME UNCHANGED now, UNCHANGED log, UNCHANGED buckets \/ buckets' = Recycled
      PROVE  RingInv'
  BY <1>1, <1>a, RecycledExact DEF RingInv, Exact, Indexed, FutureBlank, Recent
<1>2. ASSUME UNCHANGED now,
             \/ buckets' = recordSuccess /\ log' = [log EXCEPT ![now].success = @ + 1]
             \/ buckets' = recordFailure /\ log' = [log EXCEPT ![now].failure = @ + 1]
      PROVE  RingInv'
  <2>1. Exact(buckets', log') /\ Indexed(buckets')
    BY <1>2, RecordExact
  <2>2. FutureBlank'
    BY <1>2, <1>a DEF FutureBlank, TypeOK, Logs, Instants
  <2> QED
    BY <1>2, <2>1, <2>2 DEF RingInv, Exact, Indexed, Recent
<1>3. ASSUME UNCHANGED now, buckets' = [s \in Slots |-> NoBucket],
             log' = [i \in Instants |-> NoOutcome]
      PROVE  RingInv'
  <2>1. \A i \in Recent : i \in Instants /\ slotOf(i) \in Slots /\ i # -1
    BY SlotInRange DEF Recent
  <2>2. Exact(buckets', log') /\ Indexed(buckets') /\ FutureBlank'
    BY <1>3, <2>1 DEF Exact, Indexed, FutureBlank, NoBucket
  <2> QED
    BY <1>3, <2>2 DEF RingInv, Exact, Indexed, Recent
<1>4. CASE Tick
  <2>1. now' = now + 1 /\ now' \in Instants /\ UNCHANGED <<buckets, log>>
    BY <1>4 DEF Tick, TypeOK
  <2>2. now \in Nat /\ now + 1 \in Nat /\ slotOf(now + 1) \in Slots
    BY <1>a, <2>1, SlotInRange DEF TypeOK
  <2>3. Indexed(buckets)' /\ FutureBlank'
    BY <2>1, <2>2, <1>a, BoundsAssumption
       DEF Indexed, FutureBlank, TypeOK, Ring, Bucket, Instants
  <2>4. buckets[slotOf(now + 1)].index # now + 1
    BY <2>2, <1>a DEF Indexed
  <2>5. log[now + 1] = NoOutcome
    BY <2>1, <2>2, <1>a DEF FutureBlank
  <2>6. \A i \in Recent' : i = now + 1 \/ i \in Recent
    BY <2>1, <2>2, ConfigAssumption, BoundsAssumption DEF Recent, Instants
  <2>7. Exact(buckets, log)'
    BY <2>1, <2>4, <2>5, <2>6, <1>a DEF Exact
  <2> QED
    BY <2>3, <2>7 DEF RingInv
<1>5. ASSUME NEW c \in Calls, Allow(c) PROVE RingInv'
  BY <1>1, <1>5 DEF Allow, AllowDisabled, AllowClosed, AllowRejectedOpen,
                    AllowRejectedSaturated, AllowProbe
<1>6. ASSUME NEW c \in Calls, RecordSuccess(c) PROVE RingInv'
  BY <1>2, <1>3, <1>6 DEF RecordSuccess, RecordOK, RecordOKProbing, RecordOKCloses,
                          TransitionToClosed
<1>7. ASSUME NEW c \in Calls, RecordFailure(c) PROVE RingInv'
  BY <1>2, <1>7 DEF RecordFailure, RecordErrReopens, RecordErrTrips, RecordErr
<1>8. ASSUME NEW c \in Calls, Abstain(c) \/ EndDisabled(c) PROVE RingInv'
  BY <1>1, <1>8 DEF Abstain, EndDisabled
<1>9. CASE PollState \/ UNCHANGED vars
  BY <1>1, <1>9 DEF PollState, vars
<1> QED
  BY <1>4, <1>5, <1>6, <1>7, <1>8, <1>9 DEF Next

\* A new breaker has an empty ring and nothing recorded.
LEMMA RingInit == Init => RingInv
<1> SUFFICES ASSUME Init PROVE RingInv
  OBVIOUS
<1>1. TypeOK
  BY TypeInit
<1>2. \A i \in Recent : i \in Instants /\ slotOf(i) \in Slots /\ i # -1
  BY SlotInRange DEF Recent
<1> QED
  BY <1>1, <1>2 DEF Init, RingInv, Exact, Indexed, FutureBlank, NoBucket

\* The ring of buckets is an exact record of the rolling window, for every
\* number of buckets.
THEOREM RingIsExact == Spec => []RingExact
<1>1. Spec => []RingInv
  BY RingInit, RingNext, TypeCorrect, PTL DEF Spec
<1>2. RingInv => RingExact
  BY DEF RingInv, Exact, RingExact
<1> QED
  BY <1>1, <1>2, PTL


-----------------------------------------------------------------------------
(* Sums over finite sets, as MapThenSumSet computes them.  What holds of     *)
(* every finite set is proved of a smallest set of which it does not hold.   *)

Least(x, T) == \A y \in T : ~(y \subseteq x /\ y # x)

\* A non-empty set of subsets of a finite set has a smallest member.
LEMMA Smallest ==
  ASSUME NEW S, IsFiniteSet(S), NEW T, T \subseteq SUBSET S, T # {}
  PROVE  \E x \in T : Least(x, T)
<1>1. IsWellFoundedOn(StrictSubsetOrdering(S), FiniteSubsetsOf(S))
  BY FS_StrictSubsetOrderingWellFounded
<1>2. T \subseteq FiniteSubsetsOf(S)
  BY FS_Subset DEF FiniteSubsetsOf
<1>3. PICK x \in T : \A y \in T : ~(<<y, x>> \in StrictSubsetOrdering(S))
  BY <1>1, <1>2, WFMin
<1> QED
  BY <1>3 DEF StrictSubsetOrdering, Least

\* The element that MapThenSumSet takes next.
taken(s) == CHOOSE x \in s : TRUE

\* g is the sum of w over every subset of S.
IsSum(g, S, w) ==
  g = [s \in SUBSET S |-> IF s = {} THEN 0 ELSE w[taken(s)] + g[s \ {taken(s)}]]

StepByStep(g, S, w) ==
  \A s \in SUBSET S :
    /\ s = {} => g[s] = 0
    /\ s # {} => taken(s) \in s /\ g[s] = w[taken(s)] + g[s \ {taken(s)}]

LEMMA SumSteps == ASSUME NEW g, NEW S, NEW w, IsSum(g, S, w) PROVE StepByStep(g, S, w)
<1>1. \A s \in SUBSET S : g[s] = IF s = {} THEN 0 ELSE w[taken(s)] + g[s \ {taken(s)}]
  BY DEF IsSum
<1>2. \A s \in SUBSET S : s # {} => taken(s) \in s
  BY DEF taken
<1> QED
  BY <1>1, <1>2 DEF StepByStep

SameOn(g, h, S) == \A s \in SUBSET S : g[s] = h[s]

\* A sum does not depend on the set it was set up for.
LEMMA SumUnique ==
  ASSUME NEW S, NEW R, IsFiniteSet(R), R \subseteq S, NEW w, NEW g, NEW h,
         IsSum(g, S, w), IsSum(h, R, w)
  PROVE  SameOn(g, h, R)
<1>1. PICK U : U = {s \in SUBSET R : g[s] # h[s]}
  OBVIOUS
<1> SUFFICES ASSUME U # {} PROVE FALSE
  BY <1>1 DEF SameOn
<1>2. U \subseteq SUBSET R
  BY <1>1
<1>3. PICK s \in U : Least(s, U)
  BY <1>2, Smallest
<1>4. s \in SUBSET R /\ s \in SUBSET S /\ g[s] # h[s]
  BY <1>1
<1>5. StepByStep(g, S, w)
  BY SumSteps
<1>6. StepByStep(h, R, w)
  BY SumSteps
<1>7. s # {}
  BY <1>4, <1>5, <1>6 DEF StepByStep
<1>8. PICK r : r = s \ {taken(s)}
  OBVIOUS
<1>9. taken(s) \in s /\ g[s] = w[taken(s)] + g[r]
  BY <1>4, <1>5, <1>7, <1>8 DEF StepByStep
<1>10. h[s] = w[taken(s)] + h[r]
  BY <1>4, <1>6, <1>7, <1>8 DEF StepByStep
<1>11. r \in SUBSET R /\ r \notin U
  BY <1>3, <1>4, <1>8, <1>9 DEF Least
<1>12. g[r] = h[r]
  BY <1>1, <1>11
<1> QED
  BY <1>4, <1>9, <1>10, <1>12

\* There is a sum: of a smallest set without one, the sums of its subsets make one.
LEMMA SumExists == ASSUME NEW S, IsFiniteSet(S), NEW w PROVE \E g : IsSum(g, S, w)
<1>1. PICK U : U = {s \in SUBSET S : ~\E g : IsSum(g, s, w)}
  OBVIOUS
<1> SUFFICES ASSUME U # {} PROVE FALSE
  BY <1>1
<1>2. U \subseteq SUBSET S
  BY <1>1
<1>3. PICK s \in U : Least(s, U)
  BY <1>2, Smallest
<1>4. s \in SUBSET S /\ ~\E g : IsSum(g, s, w)
  BY <1>1
<1>5. IsFiniteSet(s)
  BY <1>4, FS_Subset
<1> DEFINE of(r) == CHOOSE g : IsSum(g, r, w)
<1>6. \A r \in SUBSET s : r # s => IsSum(of(r), r, w)
  <2>1. \A r \in SUBSET s : r # s => \E g : IsSum(g, r, w)
    BY <1>1, <1>3, <1>4 DEF Least
  <2> QED
    BY <2>1
<1> HIDE DEF of
<1> DEFINE val(r) == IF r = {} THEN 0 ELSE w[taken(r)] + of(r \ {taken(r)})[r \ {taken(r)}]
           G == [r \in SUBSET s |-> val(r)]
<1>7. \A r \in SUBSET s : r # s => val(r) = of(r)[r]
  <2> TAKE r \in SUBSET s
  <2> HAVE r # s
  <2>1. IsSum(of(r), r, w)
    BY <1>6
  <2>2. StepByStep(of(r), r, w)
    BY <2>1, SumSteps
  <2>3. CASE r = {}
    BY <2>2, <2>3 DEF StepByStep
  <2>4. CASE r # {}
    <3>1. PICK q : q = r \ {taken(r)}
      OBVIOUS
    <3>2. taken(r) \in r /\ of(r)[r] = w[taken(r)] + of(r)[q]
      BY <2>2, <2>4, <3>1 DEF StepByStep
    <3>3. q \in SUBSET s /\ q # s /\ q \subseteq r
      BY <3>1, <3>2
    <3>4. IsSum(of(q), q, w)
      BY <1>6, <3>3
    <3>5. IsFiniteSet(q)
      BY <1>5, <3>3, FS_Subset
    <3>6. SameOn(of(r), of(q), q)
      BY <2>1, <3>3, <3>4, <3>5, SumUnique
    <3>7. of(r)[q] = of(q)[q]
      BY <3>6 DEF SameOn
    <3> QED
      BY <2>4, <3>1, <3>2, <3>7
  <2> QED
    BY <2>3, <2>4
<1>8. \A r \in SUBSET s : val(r) = IF r = {} THEN 0 ELSE w[taken(r)] + G[r \ {taken(r)}]
  <2> TAKE r \in SUBSET s
  <2>1. CASE r = {}
    BY <2>1
  <2>2. CASE r # {}
    <3>1. PICK q : q = r \ {taken(r)}
      OBVIOUS
    <3>2. taken(r) \in r
      BY <2>2 DEF taken
    <3>3. q \in SUBSET s /\ q # s
      BY <3>1, <3>2
    <3>4. G[q] = of(q)[q]
      BY <1>7, <3>3
    <3> QED
      BY <2>2, <3>1, <3>4
  <2> QED
    BY <2>1, <2>2
<1>9. IsSum(G, s, w)
  BY <1>8 DEF IsSum
<1> QED
  BY <1>4, <1>9

AnyOrder(g, S, w) ==
  \A s \in SUBSET S : g[s] \in Nat /\ \A y \in s : g[s] = w[y] + g[s \ {y}]

\* A sum of naturals is one, and its elements may be taken in any order.
LEMMA SumAnyOrder ==
  ASSUME NEW S, IsFiniteSet(S), NEW w \in [S -> Nat], NEW g, IsSum(g, S, w)
  PROVE  AnyOrder(g, S, w)
<1>1. PICK U : U = {s \in SUBSET S : ~(g[s] \in Nat /\ \A y \in s : g[s] = w[y] + g[s \ {y}])}
  OBVIOUS
<1> SUFFICES ASSUME U # {} PROVE FALSE
  BY <1>1 DEF AnyOrder
<1>2. U \subseteq SUBSET S
  BY <1>1
<1>3. PICK s \in U : Least(s, U)
  BY <1>2, Smallest
<1>4. s \in SUBSET S /\ ~(g[s] \in Nat /\ \A y \in s : g[s] = w[y] + g[s \ {y}])
  BY <1>1
<1>5. \A r \in SUBSET s : r # s => g[r] \in Nat /\ \A y \in r : g[r] = w[y] + g[r \ {y}]
  BY <1>1, <1>3, <1>4 DEF Least
<1>6. StepByStep(g, S, w)
  BY SumSteps
<1>7. s # {}
  <2>1. g[{}] = 0
    BY <1>6 DEF StepByStep
  <2> QED
    BY <1>4, <2>1
<1>8. PICK x : x = taken(s)
  OBVIOUS
<1>9. x \in s /\ g[s] = w[x] + g[s \ {x}]
  BY <1>4, <1>6, <1>7, <1>8 DEF StepByStep
<1>10. w[x] \in Nat /\ g[s \ {x}] \in Nat
  BY <1>4, <1>5, <1>9
<1>11. \A y \in s : g[s] = w[y] + g[s \ {y}]
  <2> TAKE y \in s
  <2>1. CASE y = x
    BY <1>9, <2>1
  <2>2. CASE y # x
    <3>1. PICK r : r = (s \ {x}) \ {y}
      OBVIOUS
    <3>2. y \in s \ {x} /\ x \in s \ {y} /\ (s \ {y}) \ {x} = r
      BY <1>9, <2>2, <3>1
    <3>3. g[s \ {x}] = w[y] + g[r]
      BY <1>5, <1>9, <3>1, <3>2
    <3>4. g[s \ {y}] = w[x] + g[r]
      BY <1>5, <3>2
    <3>5. r \in SUBSET s /\ r # s
      BY <1>9, <3>1
    <3>6. w[x] \in Nat /\ w[y] \in Nat /\ g[r] \in Nat
      BY <1>4, <1>5, <1>10, <3>5
    <3> QED
      BY <1>9, <3>3, <3>4, <3>6
  <2> QED
    BY <2>1, <2>2
<1>12. g[s] \in Nat
  BY <1>9, <1>10
<1> QED
  BY <1>4, <1>11, <1>12

\* What weighs nothing may be left out.
LEMMA SumOfWeights ==
  ASSUME NEW S, IsFiniteSet(S), NEW w, NEW g, AnyOrder(g, S, w),
         NEW A, A \subseteq S, \A x \in S \ A : w[x] = 0
  PROVE  g[S] = g[A]
<1>1. PICK U : U = {s \in SUBSET S : A \subseteq s /\ g[s] # g[A]}
  OBVIOUS
<1> SUFFICES ASSUME U # {} PROVE FALSE
  BY <1>1
<1>2. U \subseteq SUBSET S
  BY <1>1
<1>3. PICK s \in U : Least(s, U)
  BY <1>2, Smallest
<1>4. s \in SUBSET S /\ A \subseteq s /\ g[s] # g[A]
  BY <1>1
<1>5. PICK y \in s : y \notin A
  BY <1>4
<1>6. PICK r : r = s \ {y}
  OBVIOUS
<1>7. r \in SUBSET S /\ A \subseteq r /\ r \notin U
  BY <1>3, <1>4, <1>5, <1>6 DEF Least
<1>8. g[r] = g[A]
  BY <1>1, <1>7
<1>9. g[s] = w[y] + g[r] /\ g[r] \in Nat /\ w[y] = 0
  BY <1>4, <1>5, <1>6, <1>7 DEF AnyOrder
<1> QED
  BY <1>4, <1>8, <1>9

\* Sums of weights that match one to one are the same.
LEMMA SumMatched ==
  ASSUME NEW A, IsFiniteSet(A), NEW v, NEW f, AnyOrder(f, A, v), f[{}] = 0,
         NEW B, IsFiniteSet(B), NEW w, NEW g, AnyOrder(g, B, w), g[{}] = 0,
         NEW k \in [A -> B], \A x, y \in A : k[x] = k[y] => x = y,
         \A x \in A : w[k[x]] = v[x],
         \A z \in B : (\A x \in A : k[x] # z) => w[z] = 0
  PROVE  f[A] = g[B]
<1> DEFINE image(s) == {k[x] : x \in s}
<1>1. \A s \in SUBSET A : f[s] = g[image(s)]
  <2>1. PICK U : U = {s \in SUBSET A : f[s] # g[image(s)]}
    OBVIOUS
  <2> SUFFICES ASSUME U # {} PROVE FALSE
    BY <2>1
  <2>2. U \subseteq SUBSET A
    BY <2>1
  <2>3. PICK s \in U : Least(s, U)
    BY <2>2, Smallest
  <2>4. s \in SUBSET A /\ f[s] # g[image(s)]
    BY <2>1
  <2>5. s # {}
    <3>1. image({}) = {}
      OBVIOUS
    <3> QED
      BY <2>4, <3>1
  <2>6. PICK y \in s : TRUE
    BY <2>5
  <2>7. PICK r, b, c, z : r = s \ {y} /\ b = image(s) /\ c = image(s \ {y}) /\ z = k[y]
    OBVIOUS
  <2>8. r \in SUBSET A /\ r \notin U
    BY <2>3, <2>4, <2>7 DEF Least
  <2>9. f[r] = g[c]
    BY <2>1, <2>7, <2>8
  <2>10. f[s] = v[y] + f[r]
    BY <2>4, <2>7 DEF AnyOrder
  <2>11. b \in SUBSET B /\ z \in b /\ b \ {z} = c /\ w[z] = v[y]
    BY <2>4, <2>7
  <2>12. g[b] = w[z] + g[c]
    BY <2>11 DEF AnyOrder
  <2> QED
    BY <2>4, <2>7, <2>9, <2>10, <2>11, <2>12
<1>2. PICK b : b = image(A)
  OBVIOUS
<1>3. b \subseteq B /\ \A z \in B \ b : w[z] = 0
  BY <1>2
<1>4. g[B] = g[b]
  BY <1>3, SumOfWeights
<1> QED
  BY <1>1, <1>2, <1>4

\* The sums of the tallies of a, as the fold defines them.
successSum(a, S) ==
  CHOOSE g : g = [s \in SUBSET S |->
                    IF s = {} THEN 0 ELSE a[taken(s)].success + g[s \ {taken(s)}]]
failureSum(a, S) ==
  CHOOSE g : g = [s \in SUBSET S |->
                    IF s = {} THEN 0 ELSE a[taken(s)].failure + g[s \ {taken(s)}]]

\* What the breaker and the property sum are these sums.
LEMMA SumsAreFolds ==
  ASSUME NEW bks, NEW l, NEW W, W = InWindow(bks), NEW R, R = Recent
  PROVE  /\ windowSuccess(bks) = successSum(bks, W)[W]
         /\ windowFailure(bks) = failureSum(bks, W)[W]
         /\ trueSuccess(l) = successSum(l, R)[R]
         /\ trueFailure(l) = failureSum(l, R)[R]
<1>1. windowSuccess(bks) = successSum(bks, W)[W]
  BY DEF windowSuccess, MapThenSumSet, MapThenFoldSet, successSum, taken
<1>2. windowFailure(bks) = failureSum(bks, W)[W]
  BY DEF windowFailure, MapThenSumSet, MapThenFoldSet, failureSum, taken
<1>3. trueSuccess(l) = successSum(l, R)[R]
  BY DEF trueSuccess, MapThenSumSet, MapThenFoldSet, successSum, taken
<1>4. trueFailure(l) = failureSum(l, R)[R]
  BY DEF trueFailure, MapThenSumSet, MapThenFoldSet, failureSum, taken
<1> QED
  BY <1>1, <1>2, <1>3, <1>4

IsTally(f, S, w) == AnyOrder(f, S, w) /\ f[{}] = 0

LEMMA SumIsTally ==
  ASSUME NEW S, IsFiniteSet(S), NEW w \in [S -> Nat], NEW g, IsSum(g, S, w)
  PROVE  IsTally(g, S, w)
<1>1. AnyOrder(g, S, w)
  BY SumAnyOrder
<1>2. StepByStep(g, S, w)
  BY SumSteps
<1>3. g[{}] = 0
  BY <1>2 DEF StepByStep
<1> QED
  BY <1>1, <1>3 DEF IsTally

LEMMA SuccessTallied ==
  ASSUME NEW S, IsFiniteSet(S), NEW a, NEW w \in [S -> Nat], \A x \in S : w[x] = a[x].success
  PROVE  IsTally(successSum(a, S), S, w)
<1>1. PICK g : IsSum(g, S, w)
  BY SumExists
<1>2. \A s \in SUBSET S : s # {} => w[taken(s)] = a[taken(s)].success
  BY DEF taken
<1>3. \A h : IsSum(h, S, w) <=>
             h = [s \in SUBSET S |-> IF s = {} THEN 0 ELSE a[taken(s)].success + h[s \ {taken(s)}]]
  <2> TAKE h
  <2>1. [s \in SUBSET S |-> IF s = {} THEN 0 ELSE a[taken(s)].success + h[s \ {taken(s)}]]
          = [s \in SUBSET S |-> IF s = {} THEN 0 ELSE w[taken(s)] + h[s \ {taken(s)}]]
    BY <1>2
  <2> QED
    BY <2>1 DEF IsSum
<1>4. g = [s \in SUBSET S |-> IF s = {} THEN 0 ELSE a[taken(s)].success + g[s \ {taken(s)}]]
  BY <1>1, <1>3
<1>5. PICK h : h = successSum(a, S)
  OBVIOUS
<1>6. h = [s \in SUBSET S |-> IF s = {} THEN 0 ELSE a[taken(s)].success + h[s \ {taken(s)}]]
  BY <1>4, <1>5 DEF successSum
<1>7. IsSum(h, S, w)
  BY <1>3, <1>6
<1> QED
  BY <1>5, <1>7, SumIsTally

LEMMA FailureTallied ==
  ASSUME NEW S, IsFiniteSet(S), NEW a, NEW w \in [S -> Nat], \A x \in S : w[x] = a[x].failure
  PROVE  IsTally(failureSum(a, S), S, w)
<1>1. PICK g : IsSum(g, S, w)
  BY SumExists
<1>2. \A s \in SUBSET S : s # {} => w[taken(s)] = a[taken(s)].failure
  BY DEF taken
<1>3. \A h : IsSum(h, S, w) <=>
             h = [s \in SUBSET S |-> IF s = {} THEN 0 ELSE a[taken(s)].failure + h[s \ {taken(s)}]]
  <2> TAKE h
  <2>1. [s \in SUBSET S |-> IF s = {} THEN 0 ELSE a[taken(s)].failure + h[s \ {taken(s)}]]
          = [s \in SUBSET S |-> IF s = {} THEN 0 ELSE w[taken(s)] + h[s \ {taken(s)}]]
    BY <1>2
  <2> QED
    BY <2>1 DEF IsSum
<1>4. g = [s \in SUBSET S |-> IF s = {} THEN 0 ELSE a[taken(s)].failure + g[s \ {taken(s)}]]
  BY <1>1, <1>3
<1>5. PICK h : h = failureSum(a, S)
  OBVIOUS
<1>6. h = [s \in SUBSET S |-> IF s = {} THEN 0 ELSE a[taken(s)].failure + h[s \ {taken(s)}]]
  BY <1>4, <1>5 DEF failureSum
<1>7. IsSum(h, S, w)
  BY <1>3, <1>6
<1> QED
  BY <1>5, <1>7, SumIsTally

-----------------------------------------------------------------------------
(* The window of the ring is the true window.                               *)

\* A slot that was never used counts nothing.
Blank(bks) == \A s \in Slots : bks[s].index = -1 => bks[s].success = 0 /\ bks[s].failure = 0

\* The slots of the window that hold a bucket, and the instant of each.
Held(bks) == {s \in InWindow(bks) : bks[s].index # -1}

\* Weights match when a bucket held weighs as much as its instant, and neither
\* a slot nor an instant without a bucket weighs anything.
Match(bks, v, w) ==
  /\ \A s \in InWindow(bks) : bks[s].index = -1 => v[s] = 0
  /\ \A s \in Held(bks) : w[bks[s].index] = v[s]
  /\ \A i \in Recent : bks[slotOf(i)].index # i => w[i] = 0

LEMMA WindowsFinite == \A bks : IsFiniteSet(InWindow(bks)) /\ IsFiniteSet(Recent) /\ IsFiniteSet(Held(bks))
<1>1. IsFiniteSet(Slots) /\ IsFiniteSet(Instants)
  BY FS_Interval, ConfigAssumption, BoundsAssumption DEF Slots, Instants
<1>2. IsFiniteSet(Recent)
  <2>1. Recent \subseteq Instants
    BY DEF Recent
  <2> QED
    BY <1>1, <2>1, FS_Subset
<1>3. \A bks : IsFiniteSet(InWindow(bks)) /\ IsFiniteSet(Held(bks))
  <2> TAKE bks
  <2>1. InWindow(bks) \subseteq Slots /\ Held(bks) \subseteq Slots
    BY DEF InWindow, Held
  <2> QED
    BY <1>1, <2>1, FS_Subset
<1> QED
  BY <1>2, <1>3

\* The buckets held are those of the instants of the window, one to one.
LEMMA HeldAreRecent ==
  ASSUME TypeOK, NEW bks \in Ring, Indexed(bks)
  PROVE  /\ \A s \in Held(bks) : bks[s].index \in Recent /\ slotOf(bks[s].index) = s
         /\ \A i \in Recent : bks[slotOf(i)].index = i => slotOf(i) \in Held(bks)
<1>1. now \in Nat /\ BucketsPerWindow \in Nat
  BY SlotInRange, ConfigAssumption DEF TypeOK
<1>2. \A s \in Held(bks) : bks[s].index \in Recent /\ slotOf(bks[s].index) = s
  <2> TAKE s \in Held(bks)
  <2>1. /\ s \in Slots /\ bks[s].index # -1
        /\ bks[s].index >= now - BucketsPerWindow + 1 /\ bks[s].index <= now
    BY DEF Held, InWindow
  <2>2. bks[s].index \in Instants
    BY <2>1 DEF Ring, Bucket
  <2>3. bks[s].index \in Nat
    BY <2>2, SlotInRange
  <2>4. bks[s].index > now - BucketsPerWindow
    BY <1>1, <2>1, <2>3
  <2> QED
    BY <2>1, <2>2, <2>4 DEF Recent, Indexed
<1>3. \A i \in Recent : bks[slotOf(i)].index = i => slotOf(i) \in Held(bks)
  <2> TAKE i \in Recent
  <2> HAVE bks[slotOf(i)].index = i
  <2>1. i \in Instants /\ i <= now /\ i > now - BucketsPerWindow
    BY DEF Recent
  <2>2. slotOf(i) \in Slots /\ i \in Nat
    BY <2>1, SlotInRange
  <2>3. i >= now - BucketsPerWindow + 1 /\ i # -1
    BY <1>1, <2>1, <2>2
  <2> QED
    BY <2>1, <2>2, <2>3 DEF Held, InWindow
<1> QED
  BY <1>2, <1>3

\* Weights that match have the same sum.
LEMMA TalliesAgree ==
  ASSUME TypeOK, NEW bks \in Ring, Indexed(bks), NEW v, NEW w, Match(bks, v, w),
         NEW f, IsTally(f, InWindow(bks), v), NEW g, IsTally(g, Recent, w)
  PROVE  f[InWindow(bks)] = g[Recent]
<1>1. PICK A : A = Held(bks)
  OBVIOUS
<1>2. PICK k : k = [s \in A |-> bks[s].index]
  OBVIOUS
<1>3. A \subseteq InWindow(bks)
  BY <1>1 DEF Held
<1>4. f[InWindow(bks)] = f[A]
  <2>1. \A s \in InWindow(bks) \ A : v[s] = 0
    BY <1>1 DEF Held, Match
  <2>2. AnyOrder(f, InWindow(bks), v) /\ IsFiniteSet(InWindow(bks))
    BY WindowsFinite DEF IsTally
  <2> QED
    BY <1>3, <2>1, <2>2, SumOfWeights
<1>5. AnyOrder(f, A, v) /\ f[{}] = 0
  BY <1>3 DEF IsTally, AnyOrder
<1>6. AnyOrder(g, Recent, w) /\ g[{}] = 0
  BY DEF IsTally
<1>7. k \in [A -> Recent] /\ \A x, y \in A : k[x] = k[y] => x = y
  BY <1>1, <1>2, HeldAreRecent
<1>8. \A x \in A : w[k[x]] = v[x]
  BY <1>1, <1>2 DEF Match
<1>9. \A z \in Recent : (\A x \in A : k[x] # z) => w[z] = 0
  <2> TAKE z \in Recent
  <2> HAVE \A x \in A : k[x] # z
  <2>1. bks[slotOf(z)].index # z
    BY <1>1, <1>2, HeldAreRecent
  <2> QED
    BY <2>1 DEF Match
<1>10. IsFiniteSet(A) /\ IsFiniteSet(Recent)
  BY <1>1, WindowsFinite
<1>11. f[A] = g[Recent]
  BY <1>5, <1>6, <1>7, <1>8, <1>9, <1>10, SumMatched
<1> QED
  BY <1>4, <1>11


\* What a ring in step with a log counts in its window is what was recorded in
\* the true window.
LEMMA WindowIsTrue ==
  ASSUME TypeOK, NEW bks \in Ring, NEW l \in Logs, Exact(bks, l), Indexed(bks), Blank(bks)
  PROVE  windowSuccess(bks) = trueSuccess(l) /\ windowFailure(bks) = trueFailure(l)
<1>1. PICK W, R : W = InWindow(bks) /\ R = Recent
  OBVIOUS
<1>2. W \subseteq Slots /\ R \subseteq Instants /\ IsFiniteSet(W) /\ IsFiniteSet(R)
  BY <1>1, WindowsFinite DEF InWindow, Recent
<1>3. \A s \in W : bks[s] \in Bucket
  BY <1>2 DEF Ring
<1>4. \A i \in R : l[i] \in Tally
  BY <1>2 DEF Logs
<1>5. \A i \in R : l[i] = IF bks[slotOf(i)].index = i
                            THEN [success |-> bks[slotOf(i)].success, failure |-> bks[slotOf(i)].failure]
                            ELSE NoOutcome
  BY <1>1 DEF Exact
<1>6. \A s \in Held(bks) : /\ l[bks[s].index].success = bks[s].success
                           /\ l[bks[s].index].failure = bks[s].failure
  <2> TAKE s \in Held(bks)
  <2>1. PICK i, b : i = bks[s].index /\ b = bks[s]
    OBVIOUS
  <2>2. i \in R /\ slotOf(i) = s
    BY <1>1, <2>1, HeldAreRecent
  <2>3. l[i] = [success |-> b.success, failure |-> b.failure]
    BY <1>5, <2>1, <2>2
  <2>4. l[i].success = b.success /\ l[i].failure = b.failure
    BY <2>3
  <2> QED
    BY <2>1, <2>4
<1>7. \A i \in R : bks[slotOf(i)].index # i => l[i] = [success |-> 0, failure |-> 0]
  BY <1>5 DEF NoOutcome
<1>8. \A s \in Held(bks) : s \in W /\ bks[s].index \in R
  BY <1>1, HeldAreRecent DEF Held
<1>9. windowSuccess(bks) = trueSuccess(l)
  <2>1. PICK v, w : v = [s \in W |-> bks[s].success] /\ w = [i \in R |-> l[i].success]
    OBVIOUS
  <2>2. v \in [W -> Nat] /\ w \in [R -> Nat]
    BY <1>3, <1>4, <2>1 DEF Bucket, Tally
  <2>3. IsTally(successSum(bks, W), W, v)
    BY <1>2, <2>1, <2>2, SuccessTallied
  <2>4. IsTally(successSum(l, R), R, w)
    BY <1>2, <2>1, <2>2, SuccessTallied
  <2>5. Match(bks, v, w)
    <3>1. \A s \in W : bks[s].index = -1 => v[s] = 0
      BY <1>2, <2>1 DEF Blank
    <3>2. \A s \in Held(bks) : w[bks[s].index] = v[s]
      <4> TAKE s \in Held(bks)
      <4>1. PICK i : i = bks[s].index
        OBVIOUS
      <4>2. i \in R /\ s \in W
        BY <1>8, <4>1
      <4>3. l[i].success = bks[s].success
        BY <1>6, <4>1
      <4> QED
        BY <2>1, <4>1, <4>2, <4>3
    <3>3. \A i \in R : bks[slotOf(i)].index # i => w[i] = 0
      BY <1>7, <2>1
    <3> QED
      BY <1>1, <3>1, <3>2, <3>3 DEF Match
  <2>6. PICK f, g : f = successSum(bks, W) /\ g = successSum(l, R)
    OBVIOUS
  <2>7. f[W] = g[R]
    BY <1>1, <2>3, <2>4, <2>5, <2>6, TalliesAgree
  <2> QED
    BY <1>1, <2>6, <2>7, SumsAreFolds
<1>10. windowFailure(bks) = trueFailure(l)
  <2>1. PICK v, w : v = [s \in W |-> bks[s].failure] /\ w = [i \in R |-> l[i].failure]
    OBVIOUS
  <2>2. v \in [W -> Nat] /\ w \in [R -> Nat]
    BY <1>3, <1>4, <2>1 DEF Bucket, Tally
  <2>3. IsTally(failureSum(bks, W), W, v)
    BY <1>2, <2>1, <2>2, FailureTallied
  <2>4. IsTally(failureSum(l, R), R, w)
    BY <1>2, <2>1, <2>2, FailureTallied
  <2>5. Match(bks, v, w)
    <3>1. \A s \in W : bks[s].index = -1 => v[s] = 0
      BY <1>2, <2>1 DEF Blank
    <3>2. \A s \in Held(bks) : w[bks[s].index] = v[s]
      <4> TAKE s \in Held(bks)
      <4>1. PICK i : i = bks[s].index
        OBVIOUS
      <4>2. i \in R /\ s \in W
        BY <1>8, <4>1
      <4>3. l[i].failure = bks[s].failure
        BY <1>6, <4>1
      <4> QED
        BY <2>1, <4>1, <4>2, <4>3
    <3>3. \A i \in R : bks[slotOf(i)].index # i => w[i] = 0
      BY <1>7, <2>1
    <3> QED
      BY <1>1, <3>1, <3>2, <3>3 DEF Match
  <2>6. PICK f, g : f = failureSum(bks, W) /\ g = failureSum(l, R)
    OBVIOUS
  <2>7. f[W] = g[R]
    BY <1>1, <2>3, <2>4, <2>5, <2>6, TalliesAgree
  <2> QED
    BY <1>1, <2>6, <2>7, SumsAreFolds
<1> QED
  BY <1>9, <1>10

\* Recording leaves no tally in a slot that was never used.
LEMMA RecordBlank ==
  ASSUME TypeOK, Blank(buckets)
  PROVE  Blank(Recycled) /\ Blank(recordSuccess) /\ Blank(recordFailure)
<1>1. now \in Nat /\ slotOf(now) \in Slots /\ buckets \in Ring
  BY SlotInRange DEF TypeOK
<1>2. Recycled \in Ring
  BY RingTyped
<1>3. Blank(Recycled) /\ Recycled[slotOf(now)].index = now
  <2>1. CASE buckets[slotOf(now)].index = now
    BY <2>1 DEF Recycled
  <2>2. CASE buckets[slotOf(now)].index # now
    <3>1. Recycled = [buckets EXCEPT ![slotOf(now)] = [index |-> now, success |-> 0, failure |-> 0]]
      BY <2>2 DEF Recycled
    <3>2. /\ Recycled[slotOf(now)] = [index |-> now, success |-> 0, failure |-> 0]
          /\ \A s \in Slots : s # slotOf(now) => Recycled[s] = buckets[s]
      BY <1>1, <3>1 DEF Ring
    <3> QED
      BY <3>2 DEF Blank
  <2> QED
    BY <2>1, <2>2
<1>4. PICK b : b = Recycled[slotOf(now)]
  OBVIOUS
<1>5. b \in Bucket /\ b.index = now
  BY <1>1, <1>2, <1>3, <1>4 DEF Ring
<1>6. /\ recordSuccess[slotOf(now)] = [b EXCEPT !.success = @ + 1]
      /\ recordFailure[slotOf(now)] = [b EXCEPT !.failure = @ + 1]
      /\ \A s \in Slots : s # slotOf(now) =>
            recordSuccess[s] = Recycled[s] /\ recordFailure[s] = Recycled[s]
  BY <1>1, <1>2, <1>4 DEF recordSuccess, recordFailure, Ring
<1>7. recordSuccess[slotOf(now)].index = now /\ recordFailure[slotOf(now)].index = now
  BY <1>5, <1>6 DEF Bucket
<1>8. now # -1
  BY <1>1
<1>9. Blank(recordSuccess) /\ Blank(recordFailure)
  BY <1>3, <1>6, <1>7, <1>8 DEF Blank
<1> QED
  BY <1>3, <1>9

LEMMA BlankNext == TypeOK /\ Blank(buckets) /\ [Next]_vars => Blank(buckets)'
<1> SUFFICES ASSUME TypeOK, Blank(buckets), [Next]_vars PROVE Blank(buckets)'
  OBVIOUS
<1>1. \/ buckets' \in {buckets, Recycled, recordSuccess, recordFailure}
      \/ buckets' = [s \in Slots |-> NoBucket]
  BY DEF Next, vars, Allow, AllowDisabled, AllowClosed, AllowRejectedOpen, AllowRejectedSaturated,
         AllowProbe, RecordSuccess, RecordOK, RecordOKProbing, RecordOKCloses, TransitionToClosed,
         RecordFailure, RecordErrReopens, RecordErrTrips, RecordErr, Abstain, EndDisabled,
         PollState, Tick
<1>2. CASE buckets' \in {buckets, Recycled, recordSuccess, recordFailure}
  <2>1. Blank(buckets')
    BY <1>2, RecordBlank
  <2> QED
    BY <2>1 DEF Blank
<1>3. CASE buckets' = [s \in Slots |-> NoBucket]
  BY <1>3 DEF Blank, NoBucket
<1> QED
  BY <1>1, <1>2, <1>3

LEMMA BlankInit == Init => Blank(buckets)
  BY DEF Init, Blank, NoBucket

\* The verdict on a failure, while closed.
TripStep ==
  \A c \in Calls :
    (state = "closed" /\ RecordFailure(c)) =>
      (state' = "open" <=> Trips(trueSuccess(log'), trueFailure(log')))

LEMMA FailureVerdict == ASSUME RingInv, Blank(buckets) PROVE TripStep
<1> SUFFICES ASSUME NEW c \in Calls, state = "closed", RecordFailure(c)
             PROVE  state' = "open" <=> Trips(trueSuccess(log'), trueFailure(log'))
  BY DEF TripStep
<1>1. TypeOK
  BY DEF RingInv
<1>2. CurState = "closed"
  BY DEF CurState, TimerDue
<1>3. PICK l : l = [log EXCEPT ![now].failure = @ + 1]
  OBVIOUS
<1>4. log' = l
  BY <1>3 DEF RecordFailure, RecordErrReopens, RecordErrTrips, RecordErr
<1>5. /\ recordFailure \in Ring /\ l \in Logs /\ Exact(recordFailure, l)
      /\ Indexed(recordFailure) /\ Blank(recordFailure)
  BY <1>1, <1>3, RingTyped, LogTyped, RecordExact, RecordBlank
<1>6. /\ windowSuccess(recordFailure) = trueSuccess(l)
      /\ windowFailure(recordFailure) = trueFailure(l)
  BY <1>1, <1>5, WindowIsTrue
<1>7. shouldTrip(recordFailure) <=> Trips(trueSuccess(l), trueFailure(l))
  BY <1>6 DEF shouldTrip
<1>8. \/ shouldTrip(recordFailure) /\ state' = "open"
      \/ ~shouldTrip(recordFailure) /\ state' = "closed"
  BY <1>2 DEF RecordFailure, RecordErrReopens, RecordErrTrips, RecordErr, TransitionToOpen, SettleTimer
<1> QED
  BY <1>4, <1>7, <1>8

\* For every ring size, window and threshold, a failure recorded while closed
\* opens the breaker exactly when the outcomes really recorded in the window
\* say so (Record, shouldTripLocked).
THEOREM TripsAreExact == Spec => TripExact
<1>1. Spec => []RingInv
  BY RingInit, RingNext, TypeCorrect, PTL DEF Spec
<1>2. Spec => []Blank(buckets)
  BY BlankInit, BlankNext, TypeCorrect, PTL DEF Spec
<1>3. RingInv /\ Blank(buckets) => TripStep
  BY FailureVerdict
<1>4. Spec => [][TripStep]_vars
  BY <1>1, <1>2, <1>3, PTL
<1> QED
  BY <1>4 DEF TripExact, TripStep

=============================================================================
