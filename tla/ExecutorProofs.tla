---------------------------- MODULE ExecutorProofs ----------------------------
(***************************************************************************)
(* Proofs about the calls of a data source, for every number of callers,    *)
(* every capacity of the bulkhead and every retry configuration.            *)
(***************************************************************************)
EXTENDS Executor, TLAPS, FiniteSetTheorems

PCs == {"idle", "acquired", "loop", "attempting", "sleeping", "ended", "releasing"}

Errs == {NoError, "client fault", "unusable", "invalid payload", "cancelled", "not attempted"}

Records == [pc : PCs, limit : Nat, elapsed : Nat, attempt : Nat, delay : Nat,
            gone : BOOLEAN, err : Errs]

\* What is known of a call without looking at the others: its counters are in
\* range, it starts the loop with no attempt made, it goes round again only
\* with a round left, and between two attempts what has passed and what is
\* left of the backoff are within the retry budget.
Sound(r) ==
  /\ r \in Records
  /\ r.elapsed <= r.limit
  /\ r.attempt <= attempts
  /\ r.delay <= MaxBackoff
  /\ r.pc = "acquired" => r.attempt = 0 /\ r.delay = 0
  /\ r.pc = "loop" => r.delay = 0
  /\ r.pc \in {"loop", "sleeping"} => r.attempt < attempts
  /\ r.pc \in {"loop", "sleeping"} /\ r.attempt >= 1 =>
       (r.elapsed + r.delay) * 100 < r.limit * BudgetPercent

InLoop == {c \in Calls : call[c].pc \in {"loop", "attempting", "sleeping", "ended"}}
Inside == {c \in Calls : call[c].pc # "idle"}

Inv ==
  /\ state \in {"closed", "open", "halfopen"}
  /\ DOMAIN call = Calls
  /\ call = [c \in Calls |-> call[c]]
  /\ \A c \in Calls : Sound(call[c])
  /\ admitted = InLoop
  /\ owners = Inside
  /\ Cardinality(owners) <= Slots

\* The loop has at least one round.
LEMMA AtLeastOne == attempts \in Nat \ {0}
  BY ExecutorAssumption DEF attempts

\* An idle call, as a record of its own fields.
LEMMA IdleFields ==
  /\ Idle \in Records /\ Idle.pc = "idle" /\ Idle.limit = 0 /\ Idle.elapsed = 0
  /\ Idle.attempt = 0 /\ Idle.delay = 0
  BY DEF Idle, Records, PCs, Errs

\* A call that has not begun, one that has a slot, and one on its way out.
LEMMA IdleSound ==
  /\ Sound(Idle)
  /\ Sound([Idle EXCEPT !.pc = "releasing"])
  /\ [Idle EXCEPT !.pc = "releasing"].pc = "releasing"
  /\ \A n \in Nat : /\ Sound([Idle EXCEPT !.pc = "acquired", !.limit = n])
                    /\ [Idle EXCEPT !.pc = "acquired", !.limit = n].pc = "acquired"
<1>1. Sound(Idle)
  BY IdleFields, AtLeastOne, ExecutorAssumption DEF Sound
<1>2. \A n \in Nat : /\ Sound([Idle EXCEPT !.pc = "acquired", !.limit = n])
                    /\ [Idle EXCEPT !.pc = "acquired", !.limit = n].pc = "acquired"
  <2> TAKE n \in Nat
  <2> DEFINE r == [Idle EXCEPT !.pc = "acquired", !.limit = n]
  <2>1. /\ r \in Records /\ r.pc = "acquired" /\ r.limit = n /\ r.elapsed = 0
        /\ r.attempt = 0 /\ r.delay = 0
    BY IdleFields DEF Records, PCs
  <2> HIDE DEF r
  <2>2. Sound(r) /\ r.pc = "acquired"
    BY <2>1, AtLeastOne, ExecutorAssumption DEF Sound
  <2> QED
    BY <2>2 DEF r
<1>3. Sound([Idle EXCEPT !.pc = "releasing"]) /\ [Idle EXCEPT !.pc = "releasing"].pc = "releasing"
  <2> DEFINE r == [Idle EXCEPT !.pc = "releasing"]
  <2>1. /\ r \in Records /\ r.pc = "releasing" /\ r.limit = 0 /\ r.elapsed = 0
        /\ r.attempt = 0 /\ r.delay = 0
    BY IdleFields DEF Records, PCs
  <2> HIDE DEF r
  <2>2. Sound(r) /\ r.pc = "releasing"
    BY <2>1, AtLeastOne, ExecutorAssumption DEF Sound
  <2> QED
    BY <2>2 DEF r
<1> QED
  BY <1>1, <1>2, <1>3

\* A step of one call within the loop, or within one side of it, leaves the
\* breaker and the bulkhead with what they hold.
LEMMA StepInside ==
  ASSUME Inv, NEW c \in Calls, NEW r, Sound(r), Become(c, r),
         r.pc # "idle", call[c].pc # "idle",
         r.pc \in {"loop", "attempting", "sleeping", "ended"}
           <=> call[c].pc \in {"loop", "attempting", "sleeping", "ended"},
         UNCHANGED <<state, admitted, owners>>
  PROVE  Inv'
<1>1. call' = [d \in Calls |-> IF d = c THEN r ELSE call[d]]
  BY DEF Inv, Become
<1>2. InLoop' = InLoop /\ Inside' = Inside
  BY <1>1 DEF InLoop, Inside
<1> QED
  BY <1>1, <1>2 DEF Inv
\* The context is done at the top of a round.
LEMMA GiveUpKeeps == ASSUME Inv, NEW c \in Calls, GiveUp(c) PROVE Inv'
<1> DEFINE o == call[c]
           n == [call[c] EXCEPT !.pc = "ended", !.err = IF @ = NoError THEN "not attempted" ELSE @]
<1>1. Sound(o) /\ o \in Records
  BY DEF Inv, Sound
<1>2. /\ n \in Records /\ n.limit = o.limit /\ n.pc = "ended"
      /\ n.attempt = o.attempt /\ n.elapsed = o.elapsed
      /\ n.delay = o.delay
  BY <1>1 DEF Records, PCs, Errs
<1>3. Become(c, n) /\ UNCHANGED <<state, admitted, owners>>
  BY DEF GiveUp
<1>4. o.pc # "idle"
  BY <1>1 DEF GiveUp, At
<1> HIDE DEF n
<1>5. Sound(n)
  BY <1>1, <1>2, AtLeastOne, ExecutorAssumption DEF Sound, Records, GiveUp, At
<1>6. n.pc # "idle" /\ (n.pc \in {"loop", "attempting", "sleeping", "ended"}
                         <=> o.pc \in {"loop", "attempting", "sleeping", "ended"})
  BY <1>2, <1>4 DEF GiveUp, At
<1> QED
  BY <1>3, <1>4, <1>5, <1>6, StepInside

\* Another attempt.
LEMMA AttemptKeeps == ASSUME Inv, NEW c \in Calls, Attempt(c) PROVE Inv'
<1> DEFINE o == call[c]
           n == [call[c] EXCEPT !.pc = "attempting", !.attempt = @ + 1]
<1>1. Sound(o) /\ o \in Records
  BY DEF Inv, Sound
<1>2. /\ n \in Records /\ n.limit = o.limit /\ n.pc = "attempting"
      /\ n.attempt = o.attempt + 1 /\ n.elapsed = o.elapsed
      /\ n.delay = o.delay
  <2> DEFINE a == o.attempt + 1
  <2>1. a \in Nat
    BY <1>1 DEF Records
  <2>2. n = [o EXCEPT !.pc = "attempting", !.attempt = a]
    OBVIOUS
  <2> HIDE DEF a, n
  <2>3. /\ n \in Records /\ n.limit = o.limit /\ n.pc = "attempting"
        /\ n.attempt = a /\ n.elapsed = o.elapsed /\ n.delay = o.delay
    BY <1>1, <2>1, <2>2 DEF Records, PCs
  <2> QED
    BY <2>3 DEF a
<1>3. Become(c, n) /\ UNCHANGED <<state, admitted, owners>>
  BY DEF Attempt
<1>4. o.pc # "idle"
  BY <1>1 DEF Attempt, At
<1> HIDE DEF n
<1>5. Sound(n)
  BY <1>1, <1>2, AtLeastOne, ExecutorAssumption DEF Sound, Records, Attempt, At
<1>6. n.pc # "idle" /\ (n.pc \in {"loop", "attempting", "sleeping", "ended"}
                         <=> o.pc \in {"loop", "attempting", "sleeping", "ended"})
  BY <1>2, <1>4 DEF Attempt, At
<1> QED
  BY <1>3, <1>4, <1>5, <1>6, StepInside

\* An attempt succeeds.
LEMMA SucceedsKeeps == ASSUME Inv, NEW c \in Calls, Succeeds(c) PROVE Inv'
<1> DEFINE o == call[c]
           n == [call[c] EXCEPT !.pc = "ended", !.err = NoError]
<1>1. Sound(o) /\ o \in Records
  BY DEF Inv, Sound
<1>2. /\ n \in Records /\ n.limit = o.limit /\ n.pc = "ended"
      /\ n.attempt = o.attempt /\ n.elapsed = o.elapsed
      /\ n.delay = o.delay
  BY <1>1 DEF Records, PCs, Errs
<1>3. Become(c, n) /\ UNCHANGED <<state, admitted, owners>>
  BY DEF Succeeds
<1>4. o.pc # "idle"
  BY <1>1 DEF Succeeds, At
<1> HIDE DEF n
<1>5. Sound(n)
  BY <1>1, <1>2, AtLeastOne, ExecutorAssumption DEF Sound, Records, Succeeds, At
<1>6. n.pc # "idle" /\ (n.pc \in {"loop", "attempting", "sleeping", "ended"}
                         <=> o.pc \in {"loop", "attempting", "sleeping", "ended"})
  BY <1>2, <1>4 DEF Succeeds, At
<1> QED
  BY <1>3, <1>4, <1>5, <1>6, StepInside

\* The backoff is over.
LEMMA WakeKeeps == ASSUME Inv, NEW c \in Calls, Wake(c) PROVE Inv'
<1> DEFINE o == call[c]
           n == [call[c] EXCEPT !.pc = "loop"]
<1>1. Sound(o) /\ o \in Records
  BY DEF Inv, Sound
<1>2. /\ n \in Records /\ n.limit = o.limit /\ n.pc = "loop"
      /\ n.attempt = o.attempt /\ n.elapsed = o.elapsed
      /\ n.delay = o.delay
  BY <1>1 DEF Records, PCs, Errs
<1>3. Become(c, n) /\ UNCHANGED <<state, admitted, owners>>
  BY DEF Wake, Goto
<1>4. o.pc # "idle"
  BY <1>1 DEF Wake, At
<1> HIDE DEF n
<1>5. Sound(n)
  BY <1>1, <1>2, AtLeastOne, ExecutorAssumption DEF Sound, Records, Wake, At
<1>6. n.pc # "idle" /\ (n.pc \in {"loop", "attempting", "sleeping", "ended"}
                         <=> o.pc \in {"loop", "attempting", "sleeping", "ended"})
  BY <1>2, <1>4 DEF Wake, At
<1> QED
  BY <1>3, <1>4, <1>5, <1>6, StepInside

\* The context ends during the backoff.
LEMMA SleepInterruptedKeeps == ASSUME Inv, NEW c \in Calls, SleepInterrupted(c) PROVE Inv'
<1> DEFINE o == call[c]
           n == [call[c] EXCEPT !.pc = "ended", !.delay = 0]
<1>1. Sound(o) /\ o \in Records
  BY DEF Inv, Sound
<1>2. /\ n \in Records /\ n.limit = o.limit /\ n.pc = "ended"
      /\ n.attempt = o.attempt /\ n.elapsed = o.elapsed
      /\ n.delay = 0
  BY <1>1 DEF Records, PCs, Errs
<1>3. Become(c, n) /\ UNCHANGED <<state, admitted, owners>>
  BY DEF SleepInterrupted
<1>4. o.pc # "idle"
  BY <1>1 DEF SleepInterrupted, At
<1> HIDE DEF n
<1>5. Sound(n)
  BY <1>1, <1>2, AtLeastOne, ExecutorAssumption DEF Sound, Records, SleepInterrupted, At
<1>6. n.pc # "idle" /\ (n.pc \in {"loop", "attempting", "sleeping", "ended"}
                         <=> o.pc \in {"loop", "attempting", "sleeping", "ended"})
  BY <1>2, <1>4 DEF SleepInterrupted, At
<1> QED
  BY <1>3, <1>4, <1>5, <1>6, StepInside

\* The client goes away.
LEMMA DisconnectKeeps == ASSUME Inv, NEW c \in Calls, Disconnect(c) PROVE Inv'
<1> DEFINE o == call[c]
           n == [call[c] EXCEPT !.gone = TRUE]
<1>1. Sound(o) /\ o \in Records
  BY DEF Inv, Sound
<1>2. /\ n \in Records /\ n.limit = o.limit /\ n.pc = o.pc
      /\ n.attempt = o.attempt /\ n.elapsed = o.elapsed
      /\ n.delay = o.delay
  BY <1>1 DEF Records, PCs, Errs
<1>3. Become(c, n) /\ UNCHANGED <<state, admitted, owners>>
  BY DEF Disconnect
<1>4. o.pc # "idle"
  BY <1>1 DEF Disconnect, At
<1> HIDE DEF n
<1>5. Sound(n)
  BY <1>1, <1>2, AtLeastOne, ExecutorAssumption DEF Sound, Records, Disconnect, At
<1>6. n.pc # "idle" /\ (n.pc \in {"loop", "attempting", "sleeping", "ended"}
                         <=> o.pc \in {"loop", "attempting", "sleeping", "ended"})
  BY <1>2, <1>4 DEF Disconnect, At
<1> QED
  BY <1>3, <1>4, <1>5, <1>6, StepInside

\* Time passes for one call.
LEMMA TickKeeps == ASSUME Inv, NEW c \in Calls, Tick(c) PROVE Inv'
<1> DEFINE o == call[c]
           n == [call[c] EXCEPT !.elapsed = @ + 1, !.delay = IF @ > 0 THEN @ - 1 ELSE 0]
<1>1. Sound(o) /\ o \in Records
  BY DEF Inv, Sound
<1>2. /\ n \in Records /\ n.limit = o.limit /\ n.pc = o.pc
      /\ n.attempt = o.attempt /\ n.elapsed = o.elapsed + 1
      /\ n.delay = IF o.delay > 0 THEN o.delay - 1 ELSE 0
  <2> DEFINE e == o.elapsed + 1
             d == IF o.delay > 0 THEN o.delay - 1 ELSE 0
  <2>1. e \in Nat /\ d \in Nat
    BY <1>1 DEF Records
  <2>2. n = [o EXCEPT !.elapsed = e, !.delay = d]
    OBVIOUS
  <2> HIDE DEF e, d, n
  <2>3. /\ n \in Records /\ n.limit = o.limit /\ n.pc = o.pc
        /\ n.attempt = o.attempt /\ n.elapsed = e /\ n.delay = d
    BY <1>1, <2>1, <2>2 DEF Records
  <2> QED
    BY <2>3 DEF e, d
<1>3. Become(c, n) /\ UNCHANGED <<state, admitted, owners>>
  BY DEF Tick
<1>4. o.pc # "idle"
  BY <1>1 DEF Tick, At
<1> HIDE DEF n
<1>5. Sound(n)
  BY <1>1, <1>2, AtLeastOne, ExecutorAssumption DEF Sound, Records, Tick, At
<1>6. n.pc # "idle" /\ (n.pc \in {"loop", "attempting", "sleeping", "ended"}
                         <=> o.pc \in {"loop", "attempting", "sleeping", "ended"})
  BY <1>2, <1>4 DEF Tick, At
<1> QED
  BY <1>3, <1>4, <1>5, <1>6, StepInside


\* What an attempt fails with is an error of the executor's vocabulary.
LEMMA ErrorsTyped == ASSUME NEW c \in Calls PROVE Errors(c) \subseteq Errs
<1>1. \A code : reaction(code) \in {"client fault", "unusable", "invalid payload"}
  BY DEF reaction
<1> QED
  BY <1>1 DEF Errors, Errs

\* An attempt fails for good.
LEMMA FailsKeeps == ASSUME Inv, NEW c \in Calls, Fails(c) PROVE Inv'
<1> DEFINE o == call[c]
<1>1. Sound(o) /\ o \in Records
  BY DEF Inv, Sound
<1>2. PICK err \in Errors(c) : Become(c, [call[c] EXCEPT !.pc = "ended", !.err = err])
  BY DEF Fails
<1> DEFINE n == [call[c] EXCEPT !.pc = "ended", !.err = err]
<1>3. /\ n \in Records /\ n.limit = o.limit /\ n.pc = "ended"
      /\ n.attempt = o.attempt /\ n.elapsed = o.elapsed /\ n.delay = o.delay
  <2>1. err \in Errs
    BY ErrorsTyped
  <2> QED
    BY <1>1, <2>1 DEF Records, PCs
<1>4. Become(c, n) /\ UNCHANGED <<state, admitted, owners>> /\ o.pc = "attempting"
  BY <1>2 DEF Fails, At
<1> HIDE DEF n
<1>5. Sound(n)
  BY <1>1, <1>3 DEF Sound
<1> QED
  BY <1>3, <1>4, <1>5, StepInside

\* An attempt fails, and the budget allows for a backoff and another.
LEMMA RetryKeeps == ASSUME Inv, NEW c \in Calls, FailsAndRetries(c) PROVE Inv'
<1> DEFINE o == call[c]
<1>1. Sound(o) /\ o \in Records
  BY DEF Inv, Sound
<1>2. PICK err \in Errors(c), delay \in Backoffs :
        /\ canAfford(c, delay)
        /\ Become(c, [call[c] EXCEPT !.pc = "sleeping", !.err = err, !.delay = delay])
  BY DEF FailsAndRetries
<1> DEFINE n == [call[c] EXCEPT !.pc = "sleeping", !.err = err, !.delay = delay]
<1>3. delay \in Nat /\ delay <= MaxBackoff
  BY ExecutorAssumption DEF Backoffs
<1>4. /\ n \in Records /\ n.limit = o.limit /\ n.pc = "sleeping"
      /\ n.attempt = o.attempt /\ n.elapsed = o.elapsed /\ n.delay = delay
  <2>1. err \in Errs
    BY ErrorsTyped
  <2> QED
    BY <1>1, <1>3, <2>1 DEF Records, PCs
<1>5. /\ Become(c, n) /\ UNCHANGED <<state, admitted, owners>> /\ o.pc = "attempting"
      /\ o.attempt < attempts
  BY <1>2 DEF FailsAndRetries, At
<1> HIDE DEF n
<1>6. Sound(n)
  BY <1>1, <1>2, <1>3, <1>4, <1>5 DEF Sound, canAfford
<1> QED
  BY <1>4, <1>5, <1>6, StepInside

\* A new caller gets a slot only while there is one.
LEMMA AcquireKeeps == ASSUME Inv, NEW c \in Calls, Acquire(c) PROVE Inv'
<1>1. PICK left \in Deadlines :
        Become(c, [Idle EXCEPT !.pc = "acquired", !.limit = withBoundedTimeout(left)])
  BY DEF Acquire
<1> DEFINE n == [Idle EXCEPT !.pc = "acquired", !.limit = withBoundedTimeout(left)]
<1>2. withBoundedTimeout(left) \in Nat
  BY ExecutorAssumption DEF withBoundedTimeout, Lesser
<1>3. Sound(n) /\ n.pc = "acquired"
  BY <1>2, IdleSound
<1>4. Become(c, n) /\ UNCHANGED <<state, admitted>> /\ call[c].pc = "idle"
  BY <1>1 DEF Acquire, At
<1> HIDE DEF n
<1>5. call' = [d \in Calls |-> IF d = c THEN n ELSE call[d]]
  BY <1>4 DEF Inv, Become
<1>6. InLoop' = InLoop /\ Inside' = Inside \cup {c} /\ c \notin Inside
  BY <1>3, <1>4, <1>5 DEF InLoop, Inside
<1>7. /\ owners' = owners \cup {c}
      /\ Bulkhead!Cardinality(owners) < Slots
  BY DEF Acquire, Bulkhead!Acquire
<1>8. Bulkhead!Cardinality(owners) = Cardinality(owners)
  BY Zenon DEF Bulkhead!Cardinality, Cardinality
<1>9. IsFiniteSet(owners) /\ Cardinality(owners) \in Nat
  <2>1. owners \in SUBSET Calls
    BY DEF Inv, Inside
  <2> QED
    BY <2>1, ExecutorAssumption, FS_Subset, FS_CardinalityType
<1>10. Cardinality(owners') <= Slots
  <2>1. Cardinality(owners \cup {c}) = IF c \in owners THEN Cardinality(owners)
                                                      ELSE Cardinality(owners) + 1
    BY <1>9, FS_AddElement
  <2>2. Cardinality(owners) < Slots
    BY <1>7, <1>8
  <2> QED
    BY <2>1, <2>2, <1>7, <1>9, ExecutorAssumption
<1> QED
  BY <1>3, <1>4, <1>5, <1>6, <1>7, <1>10 DEF Inv

\* The breaker stays one of its three states.
LEMMA StateTyped ==
  ASSUME Inv, NEW c \in Calls,
         Breaker!Admit(c) \/ Breaker!Reject(c) \/ Breaker!Succeed(c) \/ Breaker!Fail(c)
           \/ Breaker!Withdraw(c) \/ Breaker!Cool
  PROVE  state' \in {"closed", "open", "halfopen"}
  BY DEF Inv, Breaker!Admit, Breaker!Reject, Breaker!Succeed, Breaker!Fail, Breaker!Withdraw,
         Breaker!Cool, Breaker!Found

\* The breaker admits a call, and the loop begins.
LEMMA AllowKeeps == ASSUME Inv, NEW c \in Calls, Allow(c) PROVE Inv'
<1> DEFINE o == call[c]
           n == [call[c] EXCEPT !.pc = "loop"]
<1>1. Sound(o) /\ o \in Records /\ o.pc = "acquired"
  BY DEF Inv, Sound, Allow, At
<1>2. /\ n \in Records /\ n.limit = o.limit /\ n.pc = "loop"
      /\ n.attempt = o.attempt /\ n.elapsed = o.elapsed /\ n.delay = o.delay
  BY <1>1 DEF Records, PCs
<1>3. Become(c, n) /\ UNCHANGED owners /\ admitted' = admitted \cup {c}
  BY DEF Allow, Goto, Breaker!Admit
<1> HIDE DEF n
<1>4. Sound(n)
  BY <1>1, <1>2, AtLeastOne DEF Sound
<1>5. call' = [d \in Calls |-> IF d = c THEN n ELSE call[d]]
  BY <1>3 DEF Inv, Become
<1>6. InLoop' = InLoop \cup {c} /\ Inside' = Inside
  BY <1>1, <1>2, <1>5 DEF InLoop, Inside
<1>7. state' \in {"closed", "open", "halfopen"}
  BY StateTyped DEF Allow
<1> QED
  BY <1>3, <1>4, <1>5, <1>6, <1>7 DEF Inv

\* The breaker refuses a call, which then only has its slot to give back.
LEMMA RefusedKeeps == ASSUME Inv, NEW c \in Calls, Refused(c) PROVE Inv'
<1> DEFINE n == [Idle EXCEPT !.pc = "releasing"]
<1>1. Sound(n) /\ n.pc = "releasing"
  BY IdleSound
<1>2. Become(c, n) /\ UNCHANGED <<owners, admitted>> /\ call[c].pc = "acquired"
  BY DEF Refused, Return, At, Breaker!Reject
<1> HIDE DEF n
<1>3. call' = [d \in Calls |-> IF d = c THEN n ELSE call[d]]
  BY <1>2 DEF Inv, Become
<1>4. InLoop' = InLoop /\ Inside' = Inside
  BY <1>1, <1>2, <1>3 DEF InLoop, Inside
<1>5. state' \in {"closed", "open", "halfopen"}
  BY StateTyped DEF Refused
<1> QED
  BY <1>1, <1>2, <1>3, <1>4, <1>5 DEF Inv

\* The outcome is reported, and the breaker lets the call go.
LEMMA ReportKeeps == ASSUME Inv, NEW c \in Calls, Report(c) PROVE Inv'
<1> DEFINE n == [Idle EXCEPT !.pc = "releasing"]
<1>1. Sound(n) /\ n.pc = "releasing"
  BY IdleSound
<1>2. Breaker!Succeed(c) \/ Breaker!Withdraw(c) \/ Breaker!Fail(c)
  BY DEF Report
<1>3. /\ Become(c, n) /\ UNCHANGED owners /\ call[c].pc = "ended"
      /\ admitted' = admitted \ {c}
  BY <1>2 DEF Report, Return, At, Breaker!Succeed, Breaker!Withdraw, Breaker!Fail, Breaker!Leave
<1> HIDE DEF n
<1>4. call' = [d \in Calls |-> IF d = c THEN n ELSE call[d]]
  BY <1>3 DEF Inv, Become
<1>5. InLoop' = InLoop \ {c} /\ Inside' = Inside
  BY <1>1, <1>3, <1>4 DEF InLoop, Inside
<1>6. state' \in {"closed", "open", "halfopen"}
  BY <1>2, StateTyped
<1> QED
  BY <1>1, <1>3, <1>4, <1>5, <1>6 DEF Inv

\* The slot goes back.
LEMMA ReleaseKeeps == ASSUME Inv, NEW c \in Calls, Release(c) PROVE Inv'
<1>1. Become(c, Idle) /\ UNCHANGED <<state, admitted>> /\ call[c].pc = "releasing"
      /\ owners' = owners \ {c}
  BY DEF Release, At, Bulkhead!Release
<1>2. call' = [d \in Calls |-> IF d = c THEN Idle ELSE call[d]]
  BY <1>1 DEF Inv, Become
<1>3. InLoop' = InLoop /\ Inside' = Inside \ {c}
  BY <1>1, <1>2, IdleFields DEF InLoop, Inside
<1>4. Cardinality(owners') <= Slots
  <2>1. owners \in SUBSET Calls
    BY DEF Inv, Inside
  <2>2. IsFiniteSet(owners) /\ Cardinality(owners) \in Nat
    BY <2>1, ExecutorAssumption, FS_Subset, FS_CardinalityType
  <2>3. Cardinality(owners \ {c}) = IF c \in owners THEN Cardinality(owners) - 1
                                                   ELSE Cardinality(owners)
    BY <2>2, FS_RemoveElement
  <2>4. Cardinality(owners) <= Slots
    BY DEF Inv
  <2> QED
    BY <2>2, <2>3, <2>4, <1>1, ExecutorAssumption
<1> QED
  BY <1>1, <1>2, <1>3, <1>4, IdleSound DEF Inv

\* Nobody is in the executor at first.
LEMMA InvInit == Init => Inv
<1> SUFFICES ASSUME Init PROVE Inv
  OBVIOUS
<1>1. call = [c \in Calls |-> Idle] /\ state = "closed" /\ admitted = {} /\ owners = {}
  BY DEF Init, Breaker!Init, Bulkhead!Init
<1>2. \A c \in Calls : Sound(call[c]) /\ call[c].pc = "idle"
  BY <1>1, IdleFields, IdleSound
<1>3. InLoop = {} /\ Inside = {}
  BY <1>2 DEF InLoop, Inside
<1>4. Cardinality(owners) <= Slots
  BY <1>1, FS_EmptySet, ExecutorAssumption
<1> QED
  BY <1>1, <1>2, <1>3, <1>4 DEF Inv

\* Every step of every call keeps the invariant.
LEMMA InvNext == Inv /\ [Next]_vars => Inv'
<1> SUFFICES ASSUME Inv, [Next]_vars PROVE Inv'
  OBVIOUS
<1>1. ASSUME NEW c \in Calls, Acquire(c) \/ Disconnect(c) \/ Tick(c) PROVE Inv'
  BY <1>1, AcquireKeeps, DisconnectKeeps, TickKeeps
<1>2. ASSUME NEW c \in Calls, Proceed(c) PROVE Inv'
  BY <1>2, AllowKeeps, RefusedKeeps, GiveUpKeeps, AttemptKeeps, SucceedsKeeps, FailsKeeps,
     RetryKeeps, WakeKeeps, SleepInterruptedKeeps, ReportKeeps, ReleaseKeeps DEF Proceed
<1>3. CASE PollState
  <2>1. UNCHANGED <<admitted, owners, call>> /\ state' = "halfopen"
    BY <1>3 DEF PollState, Breaker!Cool
  <2> QED
    BY <2>1 DEF Inv, InLoop, Inside
<1>4. CASE UNCHANGED vars
  BY <1>4 DEF vars, Inv, InLoop, Inside
<1> QED
  BY <1>1, <1>2, <1>3, <1>4 DEF Next

\* The invariant holds throughout.
LEMMA InvAlways == Spec => []Inv
  BY InvInit, InvNext, PTL DEF Spec

-----------------------------------------------------------------------------
(* The results.                                                             *)

\* The counters of every call stay in range: time within the limit, rounds
\* within the configured attempts, backoff within its cap.
THEOREM TypeCorrect == Spec => []TypeOK
<1>1. Inv => TypeOK
  BY DEF Inv, TypeOK, Sound, Records, PCs, InLoop, Inside, Backoffs
<1> QED
  BY <1>1, InvAlways, PTL

\* Whatever way a call takes, breaker and bulkhead are charged and discharged in
\* pairs, and no more calls are at the source than the bulkhead has slots.
THEOREM CallsArePaired == Spec => []Paired
<1>1. Inv => Paired
  <2> SUFFICES ASSUME Inv PROVE Paired
    OBVIOUS
  <2>1. admitted = InLoop /\ owners = Inside /\ Cardinality(owners) <= Slots
    BY DEF Inv
  <2>2. Cardinality(admitted) <= Slots
    <3>1. owners \in SUBSET Calls /\ admitted \in SUBSET owners
      BY <2>1 DEF InLoop, Inside
    <3>2. IsFiniteSet(owners)
      BY <3>1, ExecutorAssumption, FS_Subset
    <3>3. /\ Cardinality(admitted) <= Cardinality(owners) /\ Cardinality(owners) \in Nat
          /\ Cardinality(admitted) \in Nat
      BY <3>1, <3>2, FS_Subset, FS_CardinalityType
    <3> QED
      BY <2>1, <3>3, ExecutorAssumption
  <2> QED
    BY <2>1, <2>2 DEF Paired, InLoop, Inside
<1> QED
  BY <1>1, InvAlways, PTL

\* The condition RetriesInBudget puts on a step.
WithinBudget ==
  \A c \in Calls : ~At(c, "attempting") /\ At(c, "attempting")' =>
    /\ ~Done(c)
    /\ call'[c].attempt > 1 => call[c].elapsed * 100 < call[c].limit * BudgetPercent

\* The place a step of call d brings another call c to is the one it was at.
LEMMA OthersStay ==
  ASSUME Inv, NEW c \in Calls, NEW d \in Calls, NEW r, Become(d, r), c # d
  PROVE  call'[c] = call[c]
  BY DEF Inv, Become

\* Only Attempt begins an attempt.
LEMMA OnlyAttempt ==
  ASSUME Inv, NEW d \in Calls,
         Acquire(d) \/ Proceed(d) \/ Disconnect(d) \/ Tick(d), ~Attempt(d),
         NEW c \in Calls, At(c, "attempting")'
  PROVE  At(c, "attempting")
<1>1. call[d] \in Records /\ DOMAIN call = Calls
  BY DEF Inv, Sound
<1>2. \E r : Become(d, r) /\ (r.pc = "attempting" => call[d].pc = "attempting")
  <2>1. CASE Acquire(d)
    <3>1. PICK left \in Deadlines :
            Become(d, [Idle EXCEPT !.pc = "acquired", !.limit = withBoundedTimeout(left)])
      BY <2>1 DEF Acquire
    <3>2. withBoundedTimeout(left) \in Nat
      BY ExecutorAssumption DEF withBoundedTimeout, Lesser
    <3>3. [Idle EXCEPT !.pc = "acquired", !.limit = withBoundedTimeout(left)].pc = "acquired"
      BY <3>2, IdleSound
    <3> QED
      BY <3>1, <3>3
  <2>2. CASE Allow(d) \/ Wake(d)
    <3>1. Become(d, [call[d] EXCEPT !.pc = "loop"])
      BY <2>2 DEF Allow, Wake, Goto
    <3>2. [call[d] EXCEPT !.pc = "loop"].pc = "loop"
      BY <1>1 DEF Records
    <3> QED
      BY <3>1, <3>2
  <2>3. CASE Refused(d) \/ Report(d)
    <3>1. Become(d, [Idle EXCEPT !.pc = "releasing"])
      BY <2>3 DEF Refused, Report, Return
    <3> QED
      BY <3>1, IdleSound
  <2>4. CASE GiveUp(d)
    <3> DEFINE r == [call[d] EXCEPT !.pc = "ended",
                                    !.err = IF @ = NoError THEN "not attempted" ELSE @]
    <3>1. Become(d, r) /\ r.pc = "ended"
      BY <2>4, <1>1 DEF GiveUp, Records
    <3> QED
      BY <3>1
  <2>5. CASE Succeeds(d)
    <3>1. /\ Become(d, [call[d] EXCEPT !.pc = "ended", !.err = NoError])
          /\ [call[d] EXCEPT !.pc = "ended", !.err = NoError].pc = "ended"
      BY <2>5, <1>1 DEF Succeeds, Records
    <3> QED
      BY <3>1
  <2>6. CASE Fails(d) \/ FailsAndRetries(d) \/ Disconnect(d) \/ Tick(d)
    <3>1. CASE Fails(d) \/ FailsAndRetries(d)
      <4>1. At(d, "attempting") /\ \E r : Become(d, r)
        BY <3>1 DEF Fails, FailsAndRetries
      <4> QED
        BY <4>1 DEF At
    <3>2. CASE Disconnect(d)
      <4>1. /\ Become(d, [call[d] EXCEPT !.gone = TRUE])
            /\ [call[d] EXCEPT !.gone = TRUE].pc = call[d].pc
        BY <3>2, <1>1 DEF Disconnect, Records
      <4> QED
        BY <4>1
    <3>3. CASE Tick(d)
      <4> DEFINE r == [call[d] EXCEPT !.elapsed = @ + 1, !.delay = IF @ > 0 THEN @ - 1 ELSE 0]
      <4>1. Become(d, r) /\ r.pc = call[d].pc
        BY <3>3, <1>1 DEF Tick, Records
      <4> QED
        BY <4>1
    <3> QED
      BY <2>6, <3>1, <3>2, <3>3
  <2>7. CASE SleepInterrupted(d)
    <3>1. /\ Become(d, [call[d] EXCEPT !.pc = "ended", !.delay = 0])
          /\ [call[d] EXCEPT !.pc = "ended", !.delay = 0].pc = "ended"
      BY <2>7, <1>1 DEF SleepInterrupted, Records
    <3> QED
      BY <3>1
  <2>8. CASE Release(d)
    <3>1. Become(d, Idle)
      BY <2>8 DEF Release
    <3> QED
      BY <3>1, IdleFields
  <2> QED
    BY <2>1, <2>2, <2>3, <2>4, <2>5, <2>6, <2>7, <2>8 DEF Proceed
<1>3. PICK r : Become(d, r) /\ (r.pc = "attempting" => call[d].pc = "attempting")
  BY <1>2
<1>4. call'[c] = IF c = d THEN r ELSE call[c]
  BY <1>1, <1>3 DEF Become
<1> QED
  BY <1>3, <1>4 DEF At

\* The source is called only for a request that still has time and a client, and
\* again only within the retry budget.
THEOREM RetriesStayInBudget == Spec => RetriesInBudget
<1>1. Inv /\ [Next]_vars => [WithinBudget]_vars
  <2> SUFFICES ASSUME Inv, Next PROVE WithinBudget
    OBVIOUS
  <2>1. ASSUME NEW d \in Calls, Attempt(d) PROVE WithinBudget
    <3> SUFFICES ASSUME NEW c \in Calls, ~At(c, "attempting"), At(c, "attempting")'
                 PROVE  /\ ~Done(c)
                        /\ call'[c].attempt > 1 =>
                             call[c].elapsed * 100 < call[c].limit * BudgetPercent
      BY DEF WithinBudget
    <3> DEFINE a == call[d].attempt + 1
               r == [call[d] EXCEPT !.pc = "attempting", !.attempt = a]
    <3>1. Become(d, r) /\ ~Done(d) /\ call[d].pc = "loop"
      BY <2>1 DEF Attempt, At
    <3>2. Sound(call[d]) /\ call[d] \in Records /\ a \in Nat
      BY DEF Inv, Sound, Records
    <3> HIDE DEF a
    <3>3. r.attempt = a
      BY <3>2 DEF Records
    <3> HIDE DEF r
    <3>4. c = d
      BY <3>1, OthersStay DEF At
    <3>5. call'[c].attempt = a
      BY <3>1, <3>3, <3>4 DEF Inv, Become
    <3>6. a > 1 => call[d].elapsed * 100 < call[d].limit * BudgetPercent
      BY <3>1, <3>2 DEF Sound, Records, a
    <3> QED
      BY <3>1, <3>4, <3>5, <3>6
  <2>2. ASSUME NEW d \in Calls, Acquire(d) \/ Proceed(d) \/ Disconnect(d) \/ Tick(d), ~Attempt(d)
        PROVE  WithinBudget
    BY <2>2, OnlyAttempt DEF WithinBudget
  <2>3. CASE PollState
    BY <2>3 DEF PollState, WithinBudget, At
  <2> QED
    BY <2>1, <2>2, <2>3 DEF Next
<1> QED
  BY <1>1, InvAlways, PTL DEF Spec, RetriesInBudget, WithinBudget

=============================================================================
