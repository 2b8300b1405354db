------------------------------- MODULE Executor -------------------------------
(***************************************************************************)
(* Calls of one data source (internal/resilience/executor.go and retry.go): *)
(* bulkhead, then circuit breaker, then a deadline, then the retry loop.    *)
(*                                                                         *)
(* The bulkhead and the breaker are the specifications that Bulkhead and    *)
(* Breaker implement, Semaphore and Circuit.  A caller that the bulkhead    *)
(* refuses has not changed anything and does not appear.  Every call of the *)
(* adapters is idempotent.                                                  *)
(*                                                                         *)
(* Each call has a clock of its own: elapsed since the retry loop began,    *)
(* limit the time it has.  Nothing compares the clocks of two calls.        *)
(***************************************************************************)
EXTENDS Integers, FiniteSets, Adapters

CONSTANTS
  Calls,          \* goroutines
  Slots,          \* cfg.Bulkhead.MaxConcurrent
  CallTimeout,    \* cfg.CallTimeout, or the override of the call; 0 is none
  Deadlines,      \* what may be left of the request's own time, 0 included
  MaxAttempts,    \* cfg.Retry.MaxAttempts when retries are enabled
  MaxBackoff,     \* cfg.Retry.MaxBackoff
  BudgetPercent   \* cfg.Retry.BudgetRatio

ASSUME ExecutorAssumption ==
  /\ IsFiniteSet(Calls)
  /\ Slots \in Nat \ {0} /\ CallTimeout \in Nat /\ Deadlines \subseteq Nat
  /\ MaxAttempts \in Nat /\ MaxBackoff \in Nat /\ BudgetPercent \in 1..100

VARIABLES
  state, admitted,  \* the breaker
  owners,           \* who has a slot of the bulkhead
  call              \* the calls

vars == <<state, admitted, owners, call>>

Breaker == INSTANCE Circuit
Bulkhead == INSTANCE Semaphore WITH Callers <- Calls, Capacity <- Slots

NoError == "none"
Idle == [pc |-> "idle", limit |-> 0, elapsed |-> 0, attempt |-> 0, delay |-> 0,
         gone |-> FALSE, err |-> NoError]

Init == Breaker!Init /\ Bulkhead!Init /\ call = [c \in Calls |-> Idle]

At(c, pc) == call[c].pc = pc
Become(c, r) == call' = [call EXCEPT ![c] = r]
Goto(c, pc) == Become(c, [call[c] EXCEPT !.pc = pc])
Return(c) == Become(c, [Idle EXCEPT !.pc = "releasing"])
Lesser(a, b) == IF a < b THEN a ELSE b

-----------------------------------------------------------------------------
(* Executor.call, before the retry loop                                     *)

\* withBoundedTimeout: the call's own timeout only ever shortens the request's.
withBoundedTimeout(left) == IF CallTimeout = 0 THEN left ELSE Lesser(left, CallTimeout)

Acquire(c) ==
  /\ At(c, "idle")
  /\ Bulkhead!Acquire(c)
  /\ \E left \in Deadlines :
       Become(c, [Idle EXCEPT !.pc = "acquired", !.limit = withBoundedTimeout(left)])
  /\ UNCHANGED <<state, admitted>>

Allow(c) ==
  /\ At(c, "acquired")
  /\ Breaker!Admit(c)
  /\ Goto(c, "loop")
  /\ UNCHANGED owners

\* The deferred release runs although the breaker refused.
Refused(c) ==
  /\ At(c, "acquired")
  /\ Breaker!Reject(c)
  /\ Return(c)
  /\ UNCHANGED owners

-----------------------------------------------------------------------------
(* Retrier.Do                                                               *)

attempts == IF MaxAttempts < 1 THEN 1 ELSE MaxAttempts

\* ctx.Err() # nil
Done(c) == call[c].gone \/ call[c].elapsed >= call[c].limit

\* The context is checked at the top of every round; a context that was done
\* before the first attempt counts as a timeout of the source.
GiveUp(c) ==
  /\ At(c, "loop")
  /\ Done(c)
  /\ Become(c, [call[c] EXCEPT !.pc = "ended",
                               !.err = IF @ = NoError THEN "not attempted" ELSE @])
  /\ UNCHANGED <<state, admitted, owners>>

\* Mutant: the rounds are not counted.
AttemptUncounted(c) ==
  /\ At(c, "loop")
  /\ ~Done(c)
  /\ Goto(c, "attempting")
  /\ UNCHANGED <<state, admitted, owners>>

Attempt(c) ==
  /\ At(c, "loop")
  /\ ~Done(c)
  /\ Become(c, [call[c] EXCEPT !.pc = "attempting", !.attempt = @ + 1])
  /\ UNCHANGED <<state, admitted, owners>>

\* The adapter's call returns without an error.
Succeeds(c) ==
  /\ At(c, "attempting")
  /\ Become(c, [call[c] EXCEPT !.pc = "ended", !.err = NoError])
  /\ UNCHANGED <<state, admitted, owners>>

\* What an attempt may fail with.  A cancelled call comes back as an unavailable
\* source that must not be retried.
Errors(c) == {reaction(code) : code \in Codes} \cup (IF call[c].gone THEN {"cancelled"} ELSE {})
IsRetryable(err) == err = "unusable"

\* backoff: exponential and jittered, anything up to the cap.
Backoffs == 0..MaxBackoff

\* Mutant: the backoff itself is not charged to the budget.
canAffordElapsed(c, delay) ==
  /\ call[c].elapsed * 100 < call[c].limit * BudgetPercent
  /\ call[c].elapsed + delay < call[c].limit

\* The retry budget, and the deadline, cover what has passed and the backoff.
canAfford(c, delay) ==
  /\ (call[c].elapsed + delay) * 100 < call[c].limit * BudgetPercent
  /\ call[c].elapsed + delay < call[c].limit

\* The attempt fails for good: last round, an error not to be retried, or no
\* time for another.
Fails(c) ==
  /\ At(c, "attempting")
  /\ \E err \in Errors(c) :
       /\ \/ call[c].attempt >= attempts
          \/ ~IsRetryable(err)
          \/ \E delay \in Backoffs : ~canAfford(c, delay)
       /\ Become(c, [call[c] EXCEPT !.pc = "ended", !.err = err])
  /\ UNCHANGED <<state, admitted, owners>>

FailsAndRetries(c) ==
  /\ At(c, "attempting")
  /\ call[c].attempt < attempts
  /\ \E err \in Errors(c), delay \in Backoffs :
       /\ IsRetryable(err)
       /\ canAfford(c, delay)
       /\ Become(c, [call[c] EXCEPT !.pc = "sleeping", !.err = err, !.delay = delay])
  /\ UNCHANGED <<state, admitted, owners>>

\* sleepCtx: the timer fires ...
Wake(c) ==
  /\ At(c, "sleeping")
  /\ call[c].delay = 0
  /\ Goto(c, "loop")
  /\ UNCHANGED <<state, admitted, owners>>

\* ... or the context ends first, and the last error stands.
SleepInterrupted(c) ==
  /\ At(c, "sleeping")
  /\ Done(c)
  /\ Become(c, [call[c] EXCEPT !.pc = "ended", !.delay = 0])
  /\ UNCHANGED <<state, admitted, owners>>

-----------------------------------------------------------------------------
(* Executor.call, after the retry loop                                      *)

\* Mutant: the outcome of a client fault is not reported at all.
ReportSkipping(c) ==
  /\ At(c, "ended")
  /\ LET err == call[c].err
     IN  \/ err = NoError /\ Breaker!Succeed(c)
         \/ err = "client fault" /\ UNCHANGED <<state, admitted>>
         \/ err # NoError /\ err # "client fault" /\ Breaker!Fail(c)
  /\ Return(c)
  /\ UNCHANGED owners

\* Record or Abstain.
Report(c) ==
  /\ At(c, "ended")
  /\ LET err == call[c].err
     IN  \/ err = NoError /\ Breaker!Succeed(c)
         \/ err = "client fault" /\ Breaker!Withdraw(c)
         \/ err # NoError /\ err # "client fault" /\ Breaker!Fail(c)
  /\ Return(c)
  /\ UNCHANGED owners

Release(c) ==
  /\ At(c, "releasing")
  /\ Bulkhead!Release(c)
  /\ Become(c, Idle)
  /\ UNCHANGED <<state, admitted>>

-----------------------------------------------------------------------------
(* The environment                                                          *)

\* The client of the request goes away.
Disconnect(c) ==
  /\ ~At(c, "idle")
  /\ ~call[c].gone
  /\ Become(c, [call[c] EXCEPT !.gone = TRUE])
  /\ UNCHANGED <<state, admitted, owners>>

\* Time passes for a call that is at the source or asleep.  A deadline or a
\* timer that is due takes effect before more time passes.
Tick(c) ==
  /\ call[c].elapsed < call[c].limit
  /\ At(c, "attempting") \/ (At(c, "sleeping") /\ call[c].delay > 0)
  /\ Become(c, [call[c] EXCEPT !.elapsed = @ + 1, !.delay = IF @ > 0 THEN @ - 1 ELSE 0])
  /\ UNCHANGED <<state, admitted, owners>>

Proceed(c) ==
  \/ Allow(c) \/ Refused(c)
  \/ GiveUp(c) \/ Attempt(c) \/ Succeeds(c) \/ Fails(c) \/ FailsAndRetries(c)
  \/ Wake(c) \/ SleepInterrupted(c)
  \/ Report(c) \/ Release(c)

\* The health poll of the router half-opens a circuit that is due.
PollState == Breaker!Cool /\ UNCHANGED <<owners, call>>

Next ==
  \/ \E c \in Calls : Acquire(c) \/ Proceed(c) \/ Disconnect(c) \/ Tick(c)
  \/ PollState

Spec == Init /\ [][Next]_vars

\* Goroutines are scheduled, an attempt ends (it has a deadline), and time
\* passes while someone sleeps.
FairSpec == Spec /\ \A c \in Calls : WF_vars(Proceed(c)) /\ WF_vars(Tick(c))

-----------------------------------------------------------------------------
(* Properties                                                               *)

TypeOK ==
  /\ state \in {"closed", "open", "halfopen"}
  /\ admitted \subseteq Calls
  /\ owners \subseteq Calls
  /\ \A c \in Calls :
       /\ call[c].pc \in {"idle", "acquired", "loop", "attempting", "sleeping", "ended", "releasing"}
       /\ call[c].elapsed \in 0..call[c].limit
       /\ call[c].attempt \in 0..attempts
       /\ call[c].delay \in Backoffs

\* Whatever path a call takes through refusal, retries, deadline and
\* disconnect, it is charged to the breaker exactly while it is in the retry
\* loop, and to the bulkhead exactly until it returns: no exit forgets to
\* report, reports twice or keeps its slot.
Paired ==
  /\ admitted = {c \in Calls : call[c].pc \in {"loop", "attempting", "sleeping", "ended"}}
  /\ owners = {c \in Calls : call[c].pc # "idle"}
  /\ Cardinality(admitted) <= Slots

\* The source is called only while its answer can still be used: never for a
\* request whose time is up or whose client had left before the attempt began,
\* and again only within the retry budget, backoffs included, so that retries
\* never use up the whole of a call's time.
RetriesInBudget ==
  [][ \A c \in Calls : ~At(c, "attempting") /\ At(c, "attempting")' =>
        /\ ~Done(c)
        /\ call'[c].attempt > 1 => call[c].elapsed * 100 < call[c].limit * BudgetPercent ]_vars

\* Every call returns.
CallsReturn == \A c \in Calls : ~At(c, "idle") ~> At(c, "idle")

=============================================================================
