---------------------------- MODULE BulkheadProofs ----------------------------
(***************************************************************************)
(* Proofs about the bulkhead, for every finite set of callers and every     *)
(* capacity of its two channels.                                            *)
(***************************************************************************)
EXTENDS Bulkhead, TLAPS, FiniteSetTheorems, SequenceTheorems

\* The callers that f places in S: In, of an arbitrary assignment of places.
Members(f, S) == {p \in Callers : f[p] \in S}

\* One, if a is in S.
One(a, S) == IF a \in S THEN 1 ELSE 0

\* How the number of callers in S changes when one caller moves.
LEMMA MoveCount ==
  ASSUME NEW f \in [Callers -> PC], NEW p \in Callers, NEW to \in PC, NEW S
  PROVE  /\ IsFiniteSet(Members(f, S))
         /\ Cardinality(Members(f, S)) \in Nat
         /\ Cardinality(Members([f EXCEPT ![p] = to], S))
              = Cardinality(Members(f, S)) - One(f[p], S) + One(to, S)
         /\ One(f[p], S) <= Cardinality(Members(f, S))
<1> DEFINE M == Members(f, S)
           g == [f EXCEPT ![p] = to]
<1>1. IsFiniteSet(M) /\ Cardinality(M) \in Nat
  <2>1. M \in SUBSET Callers
    BY DEF Members
  <2> QED
    BY <2>1, CallersAssumption, FS_Subset, FS_CardinalityType
<1>2. f[p] \in S => p \in M /\ Cardinality(M) # 0
  BY <1>1, FS_EmptySet DEF Members
<1>3. Members(g, S) = IF to \in S THEN M \cup {p} ELSE M \ {p}
  BY DEF Members
<1>4. f[p] \in S <=> p \in M
  BY DEF Members
<1>5. /\ Cardinality(M \cup {p}) = IF p \in M THEN Cardinality(M) ELSE Cardinality(M) + 1
      /\ Cardinality(M \ {p}) = IF p \in M THEN Cardinality(M) - 1 ELSE Cardinality(M)
  BY <1>1, FS_AddElement, FS_RemoveElement
<1> HIDE DEF M
<1> QED
  BY <1>1, <1>2, <1>3, <1>4, <1>5 DEF One, M

-----------------------------------------------------------------------------
(* The inductive invariant.                                                 *)

\* The senders asleep on the channel are exactly the callers asleep in the
\* select, each once.
SleepersQueued ==
  /\ \A i \in 1..Len(sendq) : pc[sendq[i]] = "blocked"
  /\ \A i, j \in 1..Len(sendq) : sendq[i] = sendq[j] => i = j
  /\ \A p \in Callers : pc[p] = "blocked" => \E i \in 1..Len(sendq) : sendq[i] = p

\* A sender sleeps only on a full channel.
NoLostWakeup == sendq # <<>> => sem = capSem

\* The gauge differs from the semaphore by the callers between the two.
GaugeExact ==
  inFlight = sem - Cardinality(In({"entering", "enteringQ"}))
                 + Cardinality(In({"releasing"}))

Inv == BulkheadTypeOK /\ TokensConserved /\ NoLostWakeup /\ SleepersQueued /\ GaugeExact

\* The counts of the invariant over an arbitrary assignment of places.
OwnerPC == {"entering", "enteringQ", "dequeuing", "held"}
QueuePC == {"queued", "blocked", "enteringQ", "dequeuing", "leaving"}
EnteringPC == {"entering", "enteringQ"}
ReleasingPC == {"releasing"}

Counted(f, s, w, g) ==
  /\ s = Cardinality(Members(f, OwnerPC))
  /\ w = Cardinality(Members(f, QueuePC))
  /\ g = s - Cardinality(Members(f, EnteringPC)) + Cardinality(Members(f, ReleasingPC))

\* The counts the invariant speaks of are those of the callers' places.
LEMMA CountedIsInvariant ==
  Counted(pc, sem, waitSlots, inFlight) <=> TokensConserved /\ GaugeExact
  BY DEF Counted, TokensConserved, GaugeExact, Owners, InQueue, In, Members,
         OwnerPC, QueuePC, EnteringPC, ReleasingPC

\* A caller that moves takes its tokens along.
LEMMA MoveCounted ==
  ASSUME NEW f \in [Callers -> PC], NEW p \in Callers, NEW to \in PC,
         NEW s \in Int, NEW w \in Int, NEW g \in Int, Counted(f, s, w, g)
  PROVE  LET ds == One(to, OwnerPC) - One(f[p], OwnerPC)
             dw == One(to, QueuePC) - One(f[p], QueuePC)
             de == One(to, EnteringPC) - One(f[p], EnteringPC)
             dr == One(to, ReleasingPC) - One(f[p], ReleasingPC)
         IN  /\ Counted([f EXCEPT ![p] = to], s + ds, w + dw, g + ds - de + dr)
             /\ f[p] \in OwnerPC => s >= 1
             /\ f[p] \in QueuePC => w >= 1
<1>1. \A a, S : One(a, S) \in Int
  BY DEF One
<1>2. /\ Cardinality(Members(f, OwnerPC)) \in Nat
      /\ Cardinality(Members([f EXCEPT ![p] = to], OwnerPC))
           = Cardinality(Members(f, OwnerPC)) - One(f[p], OwnerPC) + One(to, OwnerPC)
      /\ One(f[p], OwnerPC) <= Cardinality(Members(f, OwnerPC))
  BY MoveCount
<1>3. /\ Cardinality(Members(f, QueuePC)) \in Nat
      /\ Cardinality(Members([f EXCEPT ![p] = to], QueuePC))
           = Cardinality(Members(f, QueuePC)) - One(f[p], QueuePC) + One(to, QueuePC)
      /\ One(f[p], QueuePC) <= Cardinality(Members(f, QueuePC))
  BY MoveCount
<1>4. /\ Cardinality(Members(f, EnteringPC)) \in Nat
      /\ Cardinality(Members([f EXCEPT ![p] = to], EnteringPC))
           = Cardinality(Members(f, EnteringPC)) - One(f[p], EnteringPC) + One(to, EnteringPC)
  BY MoveCount
<1>5. /\ Cardinality(Members(f, ReleasingPC)) \in Nat
      /\ Cardinality(Members([f EXCEPT ![p] = to], ReleasingPC))
           = Cardinality(Members(f, ReleasingPC)) - One(f[p], ReleasingPC) + One(to, ReleasingPC)
  BY MoveCount
<1>6. f[p] \in OwnerPC => s >= 1
  BY <1>2 DEF Counted, One
<1>7. f[p] \in QueuePC => w >= 1
  BY <1>3 DEF Counted, One
<1> QED
  BY <1>1, <1>2, <1>3, <1>4, <1>5, <1>6, <1>7 DEF Counted


\* A step that moves a caller between places outside the channel's queue.
LEMMA MoveOutsideQueue ==
  ASSUME Inv, NEW p \in Callers, NEW from \in PC, NEW to \in PC, Moves(p, from, to),
         from # "blocked", to # "blocked", UNCHANGED sendq
  PROVE  SleepersQueued'
<1>1. sendq \in Seq(Callers) /\ pc \in [Callers -> PC]
  BY DEF Inv, BulkheadTypeOK
<1>2. \A i \in 1..Len(sendq) : sendq[i] \in Callers
  BY <1>1, ElementOfSeq
<1>3. \A q \in Callers : pc'[q] = IF q = p THEN to ELSE pc[q]
  BY <1>1 DEF Moves
<1> QED
  BY <1>2, <1>3 DEF Inv, SleepersQueued, Moves

\* A step that moves one caller keeps the counts if it changes the counters by
\* the tokens that caller takes or gives back.
LEMMA MoveKeepsCounts ==
  ASSUME Inv, NEW p \in Callers, NEW from \in PC, NEW to \in PC, Moves(p, from, to),
         sem' = sem + One(to, OwnerPC) - One(from, OwnerPC),
         waitSlots' = waitSlots + One(to, QueuePC) - One(from, QueuePC),
         inFlight' = inFlight + (One(to, OwnerPC) - One(from, OwnerPC))
                              - (One(to, EnteringPC) - One(from, EnteringPC))
                              + (One(to, ReleasingPC) - One(from, ReleasingPC))
  PROVE  /\ Counted(pc, sem, waitSlots, inFlight)'
         /\ pc' \in [Callers -> PC]
         /\ from \in OwnerPC => sem >= 1
         /\ from \in QueuePC => waitSlots >= 1
<1>1. pc \in [Callers -> PC] /\ sem \in Int /\ waitSlots \in Int /\ inFlight \in Int
  BY DEF Inv, BulkheadTypeOK, capSem, capQueue
<1>2. Counted(pc, sem, waitSlots, inFlight)
  BY CountedIsInvariant DEF Inv
<1>3. pc[p] = from /\ pc' = [pc EXCEPT ![p] = to]
  BY DEF Moves
<1>4. \A a, S : One(a, S) \in Int
  BY DEF One
<1>5. LET ds == One(to, OwnerPC) - One(pc[p], OwnerPC)
          dw == One(to, QueuePC) - One(pc[p], QueuePC)
          de == One(to, EnteringPC) - One(pc[p], EnteringPC)
          dr == One(to, ReleasingPC) - One(pc[p], ReleasingPC)
      IN  /\ Counted([pc EXCEPT ![p] = to], sem + ds, waitSlots + dw, inFlight + ds - de + dr)
          /\ pc[p] \in OwnerPC => sem >= 1
          /\ pc[p] \in QueuePC => waitSlots >= 1
  BY <1>1, <1>2, MoveCounted
<1>6. Counted(pc', sem', waitSlots', inFlight')
  <2>1. /\ sem' = sem + (One(to, OwnerPC) - One(pc[p], OwnerPC))
        /\ waitSlots' = waitSlots + (One(to, QueuePC) - One(pc[p], QueuePC))
        /\ inFlight' = inFlight + (One(to, OwnerPC) - One(pc[p], OwnerPC))
                                - (One(to, EnteringPC) - One(pc[p], EnteringPC))
                                + (One(to, ReleasingPC) - One(pc[p], ReleasingPC))
    BY <1>1, <1>3, <1>4
  <2> QED
    BY <1>3, <1>5, <2>1
<1> QED
  BY <1>1, <1>3, <1>5, <1>6 DEF Counted, Members


\* The counters of a state that meets the invariant are small integers, and the
\* counts bound them from below.
LEMMA CountersTyped ==
  ASSUME Inv
  PROVE  /\ capSem \in Nat /\ capSem >= 1 /\ capQueue \in Nat
         /\ sem \in Int /\ sem <= capSem
         /\ waitSlots \in Int /\ waitSlots <= capQueue /\ inFlight \in Int
         /\ pc \in [Callers -> PC] /\ sendq \in Seq(Callers)
         /\ mode \in {"enabled", "disabled"}
  BY CapacityAssumption DEF Inv, BulkheadTypeOK, capSem, capQueue

\* A step of one caller outside the channel's queue keeps the invariant if the
\* counters change with the caller's tokens, stay within the capacities, and
\* leave no free slot beside a sleeper.
LEMMA OneMoves ==
  ASSUME Inv, NEW p \in Callers, NEW from \in PC \ {"blocked"},
         NEW to \in PC \ {"blocked"}, Moves(p, from, to),
         sem' = sem + One(to, OwnerPC) - One(from, OwnerPC),
         waitSlots' = waitSlots + One(to, QueuePC) - One(from, QueuePC),
         inFlight' = inFlight + (One(to, OwnerPC) - One(from, OwnerPC))
                              - (One(to, EnteringPC) - One(from, EnteringPC))
                              + (One(to, ReleasingPC) - One(from, ReleasingPC)),
         sem' <= capSem, waitSlots' <= capQueue,
         sendq # <<>> => sem' = capSem,
         UNCHANGED <<mode, sendq>>
  PROVE  Inv'
<1>1. SleepersQueued'
  BY MoveOutsideQueue
<1>2. /\ Counted(pc, sem, waitSlots, inFlight)'
      /\ pc' \in [Callers -> PC]
      /\ from \in OwnerPC => sem >= 1
      /\ from \in QueuePC => waitSlots >= 1
  BY MoveKeepsCounts
<1>3. TokensConserved' /\ GaugeExact'
  BY <1>2, CountedIsInvariant, PTL
<1>4. BulkheadTypeOK'
  <2>1. sem' \in 0..capSem /\ waitSlots' \in 0..capQueue /\ inFlight' \in Int
    BY <1>2, CountersTyped DEF Inv, BulkheadTypeOK, One
  <2> QED
    BY <2>1, <1>2, CountersTyped DEF BulkheadTypeOK, capSem, capQueue
<1> QED
  BY <1>1, <1>3, <1>4 DEF Inv, NoLostWakeup, capSem

\* Acquire's steps, but for falling asleep.
LEMMA AcquireKeeps ==
  ASSUME Inv, NEW p \in Callers, AcquireStep(p), ~Block(p) PROVE Inv'
<1>t. /\ capSem \in Nat /\ capSem >= 1 /\ capQueue \in Nat
      /\ sem \in Int /\ sem <= capSem
      /\ waitSlots \in Int /\ waitSlots <= capQueue /\ inFlight \in Int
  BY CountersTyped
<1>w. sendq # <<>> => sem = capSem
  BY DEF Inv, NoLostWakeup
<1> USE DEF One, OwnerPC, QueuePC, EnteringPC, ReleasingPC, PC
<1>1. CASE AcquireDisabled(p)
  BY <1>1, <1>t, <1>w, OneMoves DEF AcquireDisabled
<1>2. CASE AcquireFast(p)
  BY <1>2, <1>t, <1>w, OneMoves DEF AcquireFast
<1>3. CASE MissFast(p)
  BY <1>3, <1>t, <1>w, OneMoves DEF MissFast
<1>4. CASE RejectQueueFull(p)
  BY <1>4, <1>t, <1>w, OneMoves DEF RejectQueueFull
<1>5. CASE JoinQueue(p)
  BY <1>5, <1>t, <1>w, OneMoves DEF JoinQueue
<1>6. CASE AcquireQueued(p)
  BY <1>6, <1>t, <1>w, OneMoves DEF AcquireQueued
<1>7. CASE Enter(p)
  <2>1. CASE Moves(p, "entering", "held")
    BY <1>7, <2>1, <1>t, <1>w, OneMoves DEF Enter
  <2>2. CASE Moves(p, "enteringQ", "dequeuing")
    BY <1>7, <2>2, <1>t, <1>w, OneMoves DEF Enter
  <2> QED
    BY <1>7, <2>1, <2>2 DEF Enter
<1>8. CASE LeaveQueue(p)
  <2>1. CASE Moves(p, "dequeuing", "held")
    BY <1>8, <2>1, <1>t, <1>w, OneMoves DEF LeaveQueue
  <2>2. CASE Moves(p, "leaving", "idle")
    BY <1>8, <2>2, <1>t, <1>w, OneMoves DEF LeaveQueue
  <2> QED
    BY <1>8, <2>1, <2>2 DEF LeaveQueue
<1> QED
  BY <1>1, <1>2, <1>3, <1>4, <1>5, <1>6, <1>7, <1>8 DEF AcquireStep

\* The steps of the release function, but for the hand-over to a sleeper.
LEMMA ReleaseKeeps ==
  ASSUME Inv, NEW p \in Callers, ReleaseDisabled(p) \/ ReleaseFree(p) \/ Exit(p)
  PROVE  Inv'
<1>t. /\ capSem \in Nat /\ capSem >= 1 /\ capQueue \in Nat
      /\ sem \in Int /\ sem <= capSem
      /\ waitSlots \in Int /\ waitSlots <= capQueue /\ inFlight \in Int
  BY CountersTyped
<1>w. sendq # <<>> => sem = capSem
  BY DEF Inv, NoLostWakeup
<1> USE DEF One, OwnerPC, QueuePC, EnteringPC, ReleasingPC, PC
<1>1. CASE ReleaseDisabled(p)
  BY <1>1, <1>t, <1>w, OneMoves DEF ReleaseDisabled
<1>2. CASE ReleaseFree(p)
  BY <1>2, <1>t, <1>w, OneMoves DEF ReleaseFree
<1>3. CASE Exit(p)
  BY <1>3, <1>t, <1>w, OneMoves DEF Exit
<1> QED
  BY <1>1, <1>2, <1>3

\* Falling asleep: the last in the queue, and only in front of a full channel.
LEMMA BlockKeeps ==
  ASSUME Inv, NEW p \in Callers, Block(p) PROVE Inv'
<1>t. /\ capSem \in Nat /\ sem \in Int /\ sem <= capSem
      /\ waitSlots \in Int /\ inFlight \in Int
      /\ pc \in [Callers -> PC] /\ sendq \in Seq(Callers)
  BY CountersTyped
<1>1. pc[p] = "queued" /\ pc' = [pc EXCEPT ![p] = "blocked"] /\ sendq' = Append(sendq, p)
  BY DEF Block, Moves
<1>2. /\ Counted(pc, sem, waitSlots, inFlight)'
      /\ pc' \in [Callers -> PC]
  BY <1>t, MoveKeepsCounts
     DEF Block, One, OwnerPC, QueuePC, EnteringPC, ReleasingPC, PC
<1>3. TokensConserved' /\ GaugeExact'
  BY <1>2, CountedIsInvariant, PTL
<1>4. /\ sendq' \in Seq(Callers)
      /\ Len(sendq') = Len(sendq) + 1 /\ Len(sendq) \in Nat
      /\ \A i \in 1..Len(sendq) : sendq'[i] = sendq[i] /\ sendq[i] \in Callers
      /\ sendq'[Len(sendq) + 1] = p
  BY <1>1, <1>t, AppendProperties, ElementOfSeq, LenProperties
<1>5. \A i \in 1..Len(sendq) : sendq[i] # p /\ pc'[sendq[i]] = "blocked"
  BY <1>1, <1>4, <1>t DEF Inv, SleepersQueued
<1>6. SleepersQueued'
  <2>1. \A i \in 1..Len(sendq') : pc'[sendq'[i]] = "blocked"
    <3> TAKE i \in 1..Len(sendq')
    <3>1. i \in 1..Len(sendq) \/ i = Len(sendq) + 1
      BY <1>4
    <3> QED
      BY <3>1, <1>1, <1>4, <1>5, <1>t
  <2>2. \A i, j \in 1..Len(sendq') : sendq'[i] = sendq'[j] => i = j
    <3> TAKE i, j \in 1..Len(sendq')
    <3>1. /\ i \in 1..Len(sendq) \/ i = Len(sendq) + 1
          /\ j \in 1..Len(sendq) \/ j = Len(sendq) + 1
      BY <1>4
    <3> QED
      BY <3>1, <1>4, <1>5 DEF Inv, SleepersQueued
  <2>3. \A q \in Callers : pc'[q] = "blocked" => \E i \in 1..Len(sendq') : sendq'[i] = q
    <3> SUFFICES ASSUME NEW q \in Callers, pc'[q] = "blocked"
                 PROVE  \E i \in 1..Len(sendq') : sendq'[i] = q
      OBVIOUS
    <3>1. CASE q = p
      BY <3>1, <1>4
    <3>2. CASE q # p
      <4>1. PICK i \in 1..Len(sendq) : sendq[i] = q
        BY <3>2, <1>1, <1>t DEF Inv, SleepersQueued
      <4> QED
        BY <4>1, <1>4
    <3> QED
      BY <3>1, <3>2
  <2> QED
    BY <2>1, <2>2, <2>3 DEF SleepersQueued
<1> QED
  BY <1>2, <1>3, <1>4, <1>6, <1>t DEF Inv, BulkheadTypeOK, NoLostWakeup, Block, capSem, capQueue

\* What is left of a queue without its k-th sender.
LEMMA Removed ==
  ASSUME NEW s \in Seq(Callers), NEW k \in 1..Len(s)
  PROVE  /\ RemoveAt(s, k) \in Seq(Callers)
         /\ Len(RemoveAt(s, k)) = Len(s) - 1
         /\ \A i \in 1..(Len(s) - 1) : RemoveAt(s, k)[i] = IF i < k THEN s[i] ELSE s[i + 1]
<1>0. Len(s) \in Nat /\ \A i \in 1..Len(s) : s[i] \in Callers
  BY ElementOfSeq, LenProperties
<1> DEFINE l == SubSeq(s, 1, k - 1)
           r == SubSeq(s, k + 1, Len(s))
<1>1. /\ l \in Seq(Callers) /\ Len(l) = k - 1
      /\ \A i \in 1..(k - 1) : l[i] = s[i]
  <2>1. 1 \in Int /\ k - 1 \in Int /\ \A i \in 1..(k - 1) : s[i] \in Callers
    BY <1>0
  <2>2. /\ l \in Seq(Callers)
        /\ Len(l) = IF 1 <= k - 1 THEN (k - 1) - 1 + 1 ELSE 0
        /\ \A i \in 1..((k - 1) - 1 + 1) : l[i] = s[1 + i - 1]
    BY <2>1, SubSeqProperties
  <2> QED
    BY <2>2
<1>2. /\ r \in Seq(Callers) /\ Len(r) = Len(s) - k
      /\ \A i \in 1..(Len(s) - k) : r[i] = s[k + i]
  <2>1. k + 1 \in Int /\ Len(s) \in Int /\ \A i \in (k + 1)..Len(s) : s[i] \in Callers
    BY <1>0
  <2>2. /\ r \in Seq(Callers)
        /\ Len(r) = IF k + 1 <= Len(s) THEN Len(s) - (k + 1) + 1 ELSE 0
        /\ \A i \in 1..(Len(s) - (k + 1) + 1) : r[i] = s[(k + 1) + i - 1]
    BY <2>1, SubSeqProperties
  <2> QED
    BY <2>2, <1>0
<1> HIDE DEF l, r
<1>3. /\ l \o r \in Seq(Callers)
      /\ Len(l \o r) = Len(l) + Len(r)
      /\ \A i \in 1..(Len(l) + Len(r)) :
           (l \o r)[i] = IF i <= Len(l) THEN l[i] ELSE r[i - Len(l)]
  BY <1>1, <1>2, ConcatProperties
<1>4. RemoveAt(s, k) = l \o r
  BY DEF RemoveAt, l, r
<1>5. \A i \in 1..(Len(s) - 1) : (l \o r)[i] = IF i < k THEN s[i] ELSE s[i + 1]
  <2> TAKE i \in 1..(Len(s) - 1)
  <2>1. (l \o r)[i] = IF i <= k - 1 THEN l[i] ELSE r[i - (k - 1)]
    BY <1>0, <1>1, <1>2, <1>3
  <2>2. i < k => l[i] = s[i]
    BY <1>1
  <2>3. i >= k => r[i - (k - 1)] = s[i + 1]
    BY <1>0, <1>2
  <2> QED
    BY <2>1, <2>2, <2>3
<1>6. Len(l \o r) = Len(s) - 1
  BY <1>0, <1>1, <1>2, <1>3
<1> QED
  BY <1>3, <1>4, <1>5, <1>6, Zenon

\* Taking the k-th sender p out of the queue, and out of "blocked".
LEMMA SleeperLeaves ==
  ASSUME Inv, NEW p \in Callers, NEW k \in 1..Len(sendq), sendq[k] = p,
         sendq' \in Seq(Callers), Len(sendq') = Len(sendq) - 1,
         \A i \in 1..(Len(sendq) - 1) : sendq'[i] = IF i < k THEN sendq[i] ELSE sendq[i + 1],
         \A q \in Callers : q # p => (pc'[q] = "blocked" <=> pc[q] = "blocked"),
         pc'[p] # "blocked"
  PROVE  SleepersQueued'
<1>0. sendq \in Seq(Callers) /\ Len(sendq) \in Nat
      /\ \A i \in 1..Len(sendq) : sendq[i] \in Callers
  BY ElementOfSeq, LenProperties DEF Inv, BulkheadTypeOK
<1> DEFINE old(i) == IF i < k THEN i ELSE i + 1
<1>1. \A i \in 1..Len(sendq') : old(i) \in 1..Len(sendq) /\ old(i) # k /\ sendq'[i] = sendq[old(i)]
  BY <1>0
<1>2. \A i, j \in 1..Len(sendq') : old(i) = old(j) => i = j
  BY <1>0
<1>3. \A n \in 1..Len(sendq) : n # k => \E i \in 1..Len(sendq') : old(i) = n
  <2> SUFFICES ASSUME NEW n \in 1..Len(sendq), n # k
               PROVE  \E i \in 1..Len(sendq') : old(i) = n
    OBVIOUS
  <2>1. CASE n < k
    <3>1. n \in 1..Len(sendq') /\ old(n) = n
      BY <2>1, <1>0
    <3> QED
      BY <3>1
  <2>2. CASE n > k
    <3>1. n - 1 \in 1..Len(sendq') /\ old(n - 1) = n
      BY <2>2, <1>0
    <3> QED
      BY <3>1
  <2> QED
    BY <2>1, <2>2, <1>0
<1> HIDE DEF old
<1>4. \A i \in 1..Len(sendq') : pc'[sendq'[i]] = "blocked"
  <2> TAKE i \in 1..Len(sendq')
  <2>1. sendq[old(i)] # p /\ sendq[old(i)] \in Callers /\ pc[sendq[old(i)]] = "blocked"
    BY <1>0, <1>1 DEF Inv, SleepersQueued
  <2> QED
    BY <2>1, <1>1
<1>5. \A i, j \in 1..Len(sendq') : sendq'[i] = sendq'[j] => i = j
  BY <1>1, <1>2 DEF Inv, SleepersQueued
<1>6. \A q \in Callers : pc'[q] = "blocked" => \E i \in 1..Len(sendq') : sendq'[i] = q
  <2> SUFFICES ASSUME NEW q \in Callers, pc'[q] = "blocked"
               PROVE  \E i \in 1..Len(sendq') : sendq'[i] = q
    OBVIOUS
  <2>1. PICK n \in 1..Len(sendq) : sendq[n] = q
    BY DEF Inv, SleepersQueued
  <2>2. n # k
    BY <2>1
  <2> QED
    BY <2>1, <2>2, <1>1, <1>3
<1> QED
  BY <1>4, <1>5, <1>6 DEF SleepersQueued

\* Giving up, before the select or asleep in it.
LEMMA GiveUpKeeps ==
  ASSUME Inv, NEW p \in Callers, TimesOut(p) PROVE Inv'
<1>t. /\ capSem \in Nat /\ capSem >= 1 /\ capQueue \in Nat
      /\ sem \in Int /\ sem <= capSem
      /\ waitSlots \in Int /\ waitSlots <= capQueue /\ inFlight \in Int
      /\ pc \in [Callers -> PC] /\ sendq \in Seq(Callers)
  BY CountersTyped
<1>w. sendq # <<>> => sem = capSem
  BY DEF Inv, NoLostWakeup
<1>1. CASE Moves(p, "queued", "leaving") /\ UNCHANGED sendq
  BY <1>1, <1>t, <1>w, OneMoves
     DEF TimesOut, One, OwnerPC, QueuePC, EnteringPC, ReleasingPC, PC
<1>2. ASSUME Moves(p, "blocked", "leaving"), NEW k \in DOMAIN sendq, sendq[k] = p,
             sendq' = RemoveAt(sendq, k)
      PROVE  Inv'
  <2>1. k \in 1..Len(sendq) /\ Len(sendq) \in Nat
    BY <1>2, <1>t, LenProperties
  <2>2. /\ sendq' \in Seq(Callers) /\ Len(sendq') = Len(sendq) - 1
        /\ \A i \in 1..(Len(sendq) - 1) :
             sendq'[i] = IF i < k THEN sendq[i] ELSE sendq[i + 1]
    BY <1>2, <2>1, <1>t, Removed
  <2>3. SleepersQueued'
    BY <1>2, <2>1, <2>2, <1>t, SleeperLeaves DEF Moves
  <2>4. Counted(pc, sem, waitSlots, inFlight)' /\ pc' \in [Callers -> PC]
    BY <1>2, <1>t, MoveKeepsCounts
       DEF TimesOut, One, OwnerPC, QueuePC, EnteringPC, ReleasingPC, PC
  <2>5. TokensConserved' /\ GaugeExact'
    BY <2>4, CountedIsInvariant, PTL
  <2>6. sendq # <<>>
    BY <2>1, EmptySeq
  <2> QED
    BY <2>2, <2>3, <2>4, <2>5, <2>6, <1>w
       DEF Inv, BulkheadTypeOK, NoLostWakeup, TimesOut, capSem, capQueue
<1> QED
  BY <1>1, <1>2 DEF TimesOut

\* What the hand-over does: the first sleeper becomes an owner in p's place.
LEMMA HandOverStep ==
  ASSUME Inv, NEW p \in Callers, ReleaseToWaiter(p)
  PROVE  /\ Head(sendq) \in Callers /\ Head(sendq) # p
         /\ pc[p] = "held" /\ pc[Head(sendq)] = "blocked"
         /\ pc' = [[pc EXCEPT ![p] = "releasing"] EXCEPT ![Head(sendq)] = "enteringQ"]
         /\ 1 \in 1..Len(sendq) /\ sendq[1] = Head(sendq)
         /\ Len(sendq) \in Nat /\ sendq' \in Seq(Callers)
         /\ Len(sendq') = Len(sendq) - 1
         /\ \A i \in 1..(Len(sendq) - 1) : sendq'[i] = sendq[i + 1]
<1>1. sendq \in Seq(Callers) /\ sendq # <<>> /\ sendq' = Tail(sendq)
  BY DEF Inv, BulkheadTypeOK, ReleaseToWaiter
<1>2. Len(sendq) \in Nat \ {0}
  BY <1>1, EmptySeq
<1>3. /\ Head(sendq) \in Callers /\ sendq[1] = Head(sendq)
      /\ Tail(sendq) \in Seq(Callers) /\ Len(Tail(sendq)) = Len(sendq) - 1
      /\ \A i \in 1..Len(Tail(sendq)) : Tail(sendq)[i] = sendq[i + 1]
  BY <1>1, HeadTailProperties
<1>4. pc[Head(sendq)] = "blocked"
  BY <1>2, <1>3 DEF Inv, SleepersQueued
<1>5. pc[p] = "held" /\ pc' = [[pc EXCEPT ![p] = "releasing"] EXCEPT ![Head(sendq)] = "enteringQ"]
  BY DEF ReleaseToWaiter
<1> QED
  BY <1>1, <1>2, <1>3, <1>4, <1>5

\* The hand-over of a slot to the first sleeper.
LEMMA HandOverKeeps ==
  ASSUME Inv, NEW p \in Callers, ReleaseToWaiter(p) PROVE Inv'
<1>t. /\ capSem \in Nat /\ capSem >= 1 /\ capQueue \in Nat
      /\ sem \in Int /\ waitSlots \in Int /\ inFlight \in Int
      /\ pc \in [Callers -> PC] /\ sendq \in Seq(Callers)
  BY CountersTyped
<1> DEFINE h == Head(sendq)
           mid == [pc EXCEPT ![p] = "releasing"]
<1>1. /\ h \in Callers /\ h # p /\ pc[p] = "held" /\ pc[h] = "blocked"
      /\ pc' = [mid EXCEPT ![h] = "enteringQ"]
      /\ 1 \in 1..Len(sendq) /\ sendq[1] = h
      /\ Len(sendq) \in Nat /\ sendq' \in Seq(Callers)
      /\ Len(sendq') = Len(sendq) - 1
      /\ \A i \in 1..(Len(sendq) - 1) : sendq'[i] = sendq[i + 1]
  BY HandOverStep
<1>2. mid \in [Callers -> PC] /\ mid[h] = "blocked" /\ pc' \in [Callers -> PC]
  BY <1>1, <1>t DEF PC
<1> HIDE DEF h, mid
<1>3. Counted(mid, sem - 1, waitSlots, inFlight)
  <2>1. Counted(pc, sem, waitSlots, inFlight)
    BY CountedIsInvariant DEF Inv
  <2>2. LET ds == One("releasing", OwnerPC) - One(pc[p], OwnerPC)
            dw == One("releasing", QueuePC) - One(pc[p], QueuePC)
            de == One("releasing", EnteringPC) - One(pc[p], EnteringPC)
            dr == One("releasing", ReleasingPC) - One(pc[p], ReleasingPC)
        IN  Counted([pc EXCEPT ![p] = "releasing"], sem + ds, waitSlots + dw,
                    inFlight + ds - de + dr)
    <3>1. "releasing" \in PC
      BY DEF PC
    <3> QED
      BY <2>1, <3>1, <1>t, MoveCounted
  <2>3. /\ One("releasing", OwnerPC) = 0 /\ One(pc[p], OwnerPC) = 1
        /\ One("releasing", QueuePC) = 0 /\ One(pc[p], QueuePC) = 0
        /\ One("releasing", EnteringPC) = 0 /\ One(pc[p], EnteringPC) = 0
        /\ One("releasing", ReleasingPC) = 1 /\ One(pc[p], ReleasingPC) = 0
    BY <1>1 DEF One, OwnerPC, QueuePC, EnteringPC, ReleasingPC
  <2>4. sem + (0 - 1) = sem - 1 /\ waitSlots + (0 - 0) = waitSlots
        /\ inFlight + (0 - 1) - (0 - 0) + (1 - 0) = inFlight
    BY <1>t
  <2> QED
    BY <2>2, <2>3, <2>4 DEF mid
<1>4. Counted(pc', sem, waitSlots, inFlight)
  <2>1. LET ds == One("enteringQ", OwnerPC) - One(mid[h], OwnerPC)
            dw == One("enteringQ", QueuePC) - One(mid[h], QueuePC)
            de == One("enteringQ", EnteringPC) - One(mid[h], EnteringPC)
            dr == One("enteringQ", ReleasingPC) - One(mid[h], ReleasingPC)
        IN  Counted([mid EXCEPT ![h] = "enteringQ"], (sem - 1) + ds, waitSlots + dw,
                    inFlight + ds - de + dr)
    <3>1. "enteringQ" \in PC /\ sem - 1 \in Int
      BY <1>t DEF PC
    <3> QED
      BY <3>1, <1>1, <1>2, <1>3, <1>t, MoveCounted
  <2>2. /\ One("enteringQ", OwnerPC) = 1 /\ One(mid[h], OwnerPC) = 0
        /\ One("enteringQ", QueuePC) = 1 /\ One(mid[h], QueuePC) = 1
        /\ One("enteringQ", EnteringPC) = 1 /\ One(mid[h], EnteringPC) = 0
        /\ One("enteringQ", ReleasingPC) = 0 /\ One(mid[h], ReleasingPC) = 0
    BY <1>2 DEF One, OwnerPC, QueuePC, EnteringPC, ReleasingPC
  <2>3. (sem - 1) + (1 - 0) = sem /\ waitSlots + (1 - 1) = waitSlots
        /\ inFlight + (1 - 0) - (1 - 0) + (0 - 0) = inFlight
    BY <1>t
  <2> QED
    BY <2>1, <2>2, <2>3, <1>1
<1>5. UNCHANGED <<mode, sem, waitSlots, inFlight>> /\ sendq # <<>>
  BY DEF ReleaseToWaiter
<1>6. TokensConserved' /\ GaugeExact'
  <2>1. Counted(pc, sem, waitSlots, inFlight)'
    BY <1>4, <1>5 DEF Counted, Members
  <2> QED
    BY <2>1, CountedIsInvariant, PTL
<1>7. SleepersQueued'
  <2>1. \A i \in 1..(Len(sendq) - 1) :
          sendq'[i] = IF i < 1 THEN sendq[i] ELSE sendq[i + 1]
    BY <1>1
  <2>2. /\ \A q \in Callers : q # h => (pc'[q] = "blocked" <=> pc[q] = "blocked")
        /\ pc'[h] # "blocked"
    BY <1>1, <1>2, <1>t DEF mid
  <2> QED
    BY <2>1, <2>2, <1>1, SleeperLeaves
<1> QED
  BY <1>1, <1>2, <1>5, <1>6, <1>7, <1>t
     DEF Inv, BulkheadTypeOK, NoLostWakeup, capSem, capQueue

\* A new bulkhead has no tokens out and nobody waiting.
LEMMA InvInit == BulkheadInit => Inv
<1> SUFFICES ASSUME BulkheadInit PROVE Inv
  OBVIOUS
<1>1. \A S : "idle" \notin S => In(S) = {}
  BY DEF BulkheadInit, In
<1>2. /\ Owners = {} /\ InQueue = {} /\ In({"entering", "enteringQ"}) = {}
      /\ In({"releasing"}) = {}
  BY <1>1 DEF Owners, InQueue
<1>3. <<>> \in Seq(Callers) /\ Len(<<>>) = 0
  BY EmptySeq
<1>4. BulkheadTypeOK
  BY <1>3, CapacityAssumption DEF BulkheadInit, BulkheadTypeOK, PC, capSem, capQueue
<1>5. TokensConserved /\ GaugeExact
  <2>1. Cardinality({}) = 0
    BY FS_EmptySet
  <2>2. /\ Cardinality(Owners) = 0 /\ Cardinality(InQueue) = 0
        /\ Cardinality(In({"entering", "enteringQ"})) = 0
        /\ Cardinality(In({"releasing"})) = 0
    BY <1>2, <2>1, Zenon
  <2> QED
    BY <2>2 DEF BulkheadInit, TokensConserved, GaugeExact
<1>6. NoLostWakeup /\ SleepersQueued
  BY <1>3 DEF BulkheadInit, NoLostWakeup, SleepersQueued
<1> QED
  BY <1>4, <1>5, <1>6 DEF Inv

\* Every step of every caller keeps the invariant.
LEMMA InvNext == Inv /\ [BulkheadNext]_bulkheadVars => Inv'
<1> SUFFICES ASSUME Inv, [BulkheadNext]_bulkheadVars PROVE Inv'
  OBVIOUS
<1>1. ASSUME NEW p \in Callers, AcquireStep(p) PROVE Inv'
  BY <1>1, AcquireKeeps, BlockKeeps
<1>2. ASSUME NEW p \in Callers, TimesOut(p) PROVE Inv'
  BY <1>2, GiveUpKeeps
<1>3. ASSUME NEW p \in Callers, ReleaseStep(p) PROVE Inv'
  BY <1>3, ReleaseKeeps, HandOverKeeps DEF ReleaseStep
<1>4. CASE UNCHANGED bulkheadVars
  BY <1>4 DEF bulkheadVars, Inv, BulkheadTypeOK, TokensConserved, NoLostWakeup,
              SleepersQueued, GaugeExact, Owners, InQueue, In
<1> QED
  BY <1>1, <1>2, <1>3, <1>4 DEF BulkheadNext

\* The invariant holds throughout.
LEMMA InvAlways == BulkheadSpec => []Inv
  BY InvInit, InvNext, PTL DEF BulkheadSpec

-----------------------------------------------------------------------------
(* The results.                                                             *)

\* The counters stay within the capacities of their channels.
THEOREM TypeCorrect == BulkheadSpec => []BulkheadTypeOK
<1>1. Inv => BulkheadTypeOK
  BY DEF Inv
<1> QED
  BY <1>1, InvAlways, PTL

\* No path through Acquire and release loses or duplicates a token of the
\* semaphore or of the queue.
THEOREM TokensAreConserved == BulkheadSpec => []TokensConserved
<1>1. Inv => TokensConserved
  BY DEF Inv
<1> QED
  BY <1>1, InvAlways, PTL

\* The gauge is off by exactly the callers between it and the semaphore, and a
\* source reported saturated has no more free slots than callers about to lower
\* the gauge.
THEOREM GaugeLagsByThoseBetween == BulkheadSpec => []GaugeLag
<1>1. Inv => GaugeLag
  <2> SUFFICES ASSUME Inv PROVE GaugeLag
    OBVIOUS
  <2>1. pc \in [Callers -> PC] /\ capSem \in Nat /\ sem \in Int
    BY CountersTyped
  <2>2. \A S : IsFiniteSet(In(S)) /\ Cardinality(In(S)) \in Nat
    <3> TAKE S
    <3>1. In(S) \in SUBSET Callers
      BY DEF In
    <3> QED
      BY <3>1, CallersAssumption, FS_Subset, FS_CardinalityType
  <2> DEFINE e == Cardinality(In({"entering", "enteringQ"}))
             r == Cardinality(In({"releasing"}))
  <2>3. e \in Nat /\ r \in Nat /\ inFlight = sem - e + r
    BY <2>2 DEF Inv, GaugeExact
  <2>4. Saturated => inFlight >= capSem
    BY DEF Saturated
  <2> HIDE DEF e, r
  <2>5. Saturated => capSem - sem <= r
    BY <2>1, <2>3, <2>4
  <2> QED
    BY <2>3, <2>5 DEF GaugeLag, e, r
<1> QED
  BY <1>1, InvAlways, PTL

\* A step that takes nobody's slot and gives none is a stutter of the semaphore.
LEMMA OwnersUnchanged ==
  ASSUME Inv, NEW p \in Callers, NEW from \in PC, NEW to \in PC, Moves(p, from, to),
         from \in OwnerPC <=> to \in OwnerPC
  PROVE  UNCHANGED Owners
<1>1. pc \in [Callers -> PC]
  BY CountersTyped
<1> QED
  BY <1>1 DEF Moves, Owners, In, OwnerPC

\* The channels and the gauge implement a counting semaphore of the configured
\* capacity: taking a slot, fast or from the queue, is an acquisition, a
\* receive with nobody waiting a release, a receive with a sleeper a hand-over,
\* and every other step leaves the owners alone.
THEOREM BulkheadIsSemaphore == BulkheadSpec => IsSemaphore
<1>1. BulkheadInit => Promise!Init
  BY DEF BulkheadInit, Promise!Init, Owners, In
<1>2. Inv /\ [BulkheadNext]_bulkheadVars => [Promise!Next]_Owners
  <2> SUFFICES ASSUME Inv, [BulkheadNext]_bulkheadVars PROVE [Promise!Next]_Owners
    OBVIOUS
  <2>t. pc \in [Callers -> PC] /\ sem = Cardinality(Owners)
    BY CountersTyped DEF Inv, TokensConserved
  <2>1. ASSUME NEW p \in Callers, NEW from \in PC \ OwnerPC, sem < capSem,
               NEW to \in OwnerPC, Moves(p, from, to)
        PROVE  Promise!Acquire(p)
    <3>1. p \notin Owners /\ Owners' = Owners \cup {p}
      BY <2>1, <2>t DEF Moves, Owners, In, OwnerPC
    <3>2. Promise!Cardinality(Owners) = Cardinality(Owners)
      BY Zenon DEF Promise!Cardinality, Cardinality
    <3> QED
      BY <2>1, <2>t, <3>1, <3>2 DEF Promise!Acquire
  <2>2. ASSUME NEW p \in Callers, AcquireStep(p) PROVE [Promise!Next]_Owners
    <3>1. CASE AcquireFast(p) \/ AcquireQueued(p)
      <4>1. Promise!Acquire(p)
        BY <3>1, <2>1 DEF AcquireFast, AcquireQueued, PC, OwnerPC
      <4> QED
        BY <4>1 DEF Promise!Next
    <3>2. CASE AcquireDisabled(p) \/ MissFast(p) \/ RejectQueueFull(p) \/ JoinQueue(p)
                 \/ Block(p) \/ Enter(p) \/ LeaveQueue(p)
      <4>1. PICK from \in PC, to \in PC :
              Moves(p, from, to) /\ (from \in OwnerPC <=> to \in OwnerPC)
        BY <3>2 DEF AcquireDisabled, MissFast, RejectQueueFull, JoinQueue, Block, Enter,
                    LeaveQueue, PC, OwnerPC
      <4> QED
        BY <4>1, OwnersUnchanged
    <3> QED
      BY <2>2, <3>1, <3>2 DEF AcquireStep
  <2>3. ASSUME NEW p \in Callers, TimesOut(p) PROVE [Promise!Next]_Owners
    <3>1. PICK from \in PC, to \in PC :
            Moves(p, from, to) /\ (from \in OwnerPC <=> to \in OwnerPC)
      BY <2>3 DEF TimesOut, PC, OwnerPC
    <3> QED
      BY <3>1, OwnersUnchanged
  <2>4. ASSUME NEW p \in Callers, ReleaseStep(p) PROVE [Promise!Next]_Owners
    <3>1. CASE ReleaseFree(p)
      <4>1. p \in Owners /\ Owners' = Owners \ {p}
        BY <3>1, <2>t DEF ReleaseFree, Moves, Owners, In
      <4> QED
        BY <4>1 DEF Promise!Release, Promise!Next
    <3>2. CASE ReleaseToWaiter(p)
      <4>1. /\ Head(sendq) \in Callers /\ Head(sendq) # p
            /\ pc[p] = "held" /\ pc[Head(sendq)] = "blocked"
            /\ pc' = [[pc EXCEPT ![p] = "releasing"] EXCEPT ![Head(sendq)] = "enteringQ"]
        BY <3>2, HandOverStep
      <4>2. \A q \in Callers : pc'[q] = IF q = Head(sendq) THEN "enteringQ"
                                        ELSE IF q = p THEN "releasing" ELSE pc[q]
        BY <4>1, <2>t
      <4>3. /\ p \in Owners /\ Head(sendq) \notin Owners
            /\ Owners' = (Owners \ {p}) \cup {Head(sendq)}
        <5> DEFINE h == Head(sendq)
        <5>1. /\ h \in Callers /\ h # p /\ pc[p] = "held" /\ pc[h] = "blocked"
              /\ \A q \in Callers : pc'[q] = IF q = h THEN "enteringQ"
                                            ELSE IF q = p THEN "releasing" ELSE pc[q]
          BY <4>1, <4>2
        <5> HIDE DEF h
        <5>2. p \in Owners /\ h \notin Owners /\ Owners' = (Owners \ {p}) \cup {h}
          BY <5>1 DEF Owners, In
        <5> QED
          BY <5>2 DEF h
      <4>4. Promise!HandOver(p, Head(sendq))
        BY <4>3 DEF Promise!HandOver
      <4> QED
        BY <4>1, <4>4 DEF Promise!Next
    <3>3. CASE ReleaseDisabled(p) \/ Exit(p)
      <4>1. PICK from \in PC, to \in PC :
              Moves(p, from, to) /\ (from \in OwnerPC <=> to \in OwnerPC)
        BY <3>3 DEF ReleaseDisabled, Exit, PC, OwnerPC
      <4> QED
        BY <4>1, OwnersUnchanged
    <3> QED
      BY <2>4, <3>1, <3>2, <3>3 DEF ReleaseStep
  <2>5. CASE UNCHANGED bulkheadVars
    BY <2>5 DEF bulkheadVars, Owners, In
  <2> QED
    BY <2>2, <2>3, <2>4, <2>5 DEF BulkheadNext
<1> QED
  BY <1>1, <1>2, InvAlways, PTL DEF BulkheadSpec, IsSemaphore, Promise!Spec

=============================================================================
