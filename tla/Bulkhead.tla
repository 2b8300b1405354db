------------------------------- MODULE Bulkhead -------------------------------
(***************************************************************************)
(* The bulkhead of one data source (internal/resilience/bulkhead.go): a     *)
(* semaphore with a bounded queue in front of it, built from two buffered   *)
(* channels and an atomic gauge that follows the semaphore.                 *)
(*                                                                         *)
(* A caller is a goroutine.  Every channel operation and every atomic       *)
(* operation of the gauge is a step of its own, because other goroutines    *)
(* run between them: the semaphore is taken before the gauge is raised and  *)
(* given back before the gauge is lowered.  A channel's blocked senders     *)
(* queue first in, first out, and a receive hands the place it frees to the *)
(* first of them (the Go runtime's channel, external to the repository).    *)
(***************************************************************************)
EXTENDS Integers, FiniteSets, SequencesExt

CONSTANTS
  Callers,        \* goroutines
  MaxConcurrent,  \* cfg.MaxConcurrent: capacity of sem, at least 1
  MaxQueue        \* cfg.MaxQueue: capacity of waitSlots

ASSUME CallersAssumption == IsFiniteSet(Callers)
ASSUME CapacityAssumption == MaxConcurrent \in Int /\ MaxQueue \in Int

VARIABLES
  mode,       \* cfg.Enabled
  sem,        \* len(b.sem)
  waitSlots,  \* len(b.waitSlots)
  sendq,      \* goroutines blocked sending to b.sem, oldest first
  inFlight,   \* b.inFlight
  pc          \* where each caller is in Acquire or in release

bulkheadVars == <<mode, sem, waitSlots, sendq, inFlight, pc>>

\* NewBulkhead corrects a capacity below 1 and a queue below 0.
capSem == IF MaxConcurrent < 1 THEN 1 ELSE MaxConcurrent
capQueue == IF MaxQueue < 0 THEN 0 ELSE MaxQueue

PC == {"idle",        \* outside
       "pass",        \* inside a disabled bulkhead
       "missed",      \* the fast path found no free slot
       "queued",      \* has a wait slot, about to select
       "blocked",     \* asleep in the select, a sender in sendq
       "entering",    \* took a slot on the fast path, gauge not raised yet
       "enteringQ",   \* the same, from the queue: still has its wait slot
       "dequeuing",   \* gauge raised, wait slot still to be given back
       "leaving",     \* gave up, wait slot still to be given back
       "held",        \* Acquire has returned, the source is being called
       "releasing"}   \* slot given back, gauge not lowered yet

In(S) == {p \in Callers : pc[p] \in S}

Owners == In({"entering", "enteringQ", "dequeuing", "held"})
InQueue == In({"queued", "blocked", "enteringQ", "dequeuing", "leaving"})

BulkheadInit ==
  /\ mode \in {"enabled", "disabled"}
  /\ sem = 0
  /\ waitSlots = 0
  /\ sendq = <<>>
  /\ inFlight = 0
  /\ pc = [p \in Callers |-> "idle"]

Moves(p, from, to) == pc[p] = from /\ pc' = [pc EXCEPT ![p] = to]

-----------------------------------------------------------------------------
(* Acquire                                                                  *)

AcquireDisabled(p) ==
  /\ mode = "disabled"
  /\ Moves(p, "idle", "pass")
  /\ UNCHANGED <<mode, sem, waitSlots, sendq, inFlight>>

\* Mutant: the fast path does not look whether a slot is free.
AcquireFastUnguarded(p) ==
  /\ mode = "enabled"
  /\ sem' = sem + 1
  /\ Moves(p, "idle", "entering")
  /\ UNCHANGED <<mode, waitSlots, sendq, inFlight>>

\* Fast path: a free slot, no queueing.
AcquireFast(p) ==
  /\ mode = "enabled"
  /\ sem < capSem
  /\ sem' = sem + 1
  /\ Moves(p, "idle", "entering")
  /\ UNCHANGED <<mode, waitSlots, sendq, inFlight>>

MissFast(p) ==
  /\ mode = "enabled"
  /\ sem >= capSem
  /\ Moves(p, "idle", "missed")
  /\ UNCHANGED <<mode, sem, waitSlots, sendq, inFlight>>

\* bulkhead.queue_full
RejectQueueFull(p) ==
  /\ waitSlots >= capQueue
  /\ Moves(p, "missed", "idle")
  /\ UNCHANGED <<mode, sem, waitSlots, sendq, inFlight>>

JoinQueue(p) ==
  /\ waitSlots < capQueue
  /\ waitSlots' = waitSlots + 1
  /\ Moves(p, "missed", "queued")
  /\ UNCHANGED <<mode, sem, sendq, inFlight>>

\* The select finds a slot that became free in between ...
AcquireQueued(p) ==
  /\ sem < capSem
  /\ sem' = sem + 1
  /\ Moves(p, "queued", "enteringQ")
  /\ UNCHANGED <<mode, waitSlots, sendq, inFlight>>

\* ... or goes to sleep.
Block(p) ==
  /\ sem >= capSem
  /\ sendq' = Append(sendq, p)
  /\ Moves(p, "queued", "blocked")
  /\ UNCHANGED <<mode, sem, waitSlots, inFlight>>

\* The acquire timeout or the request's context fires, before the select or in
\* it; a sleeping sender is taken out of the channel's queue.
TimesOut(p) ==
  /\ \/ Moves(p, "queued", "leaving") /\ UNCHANGED sendq
     \/ /\ Moves(p, "blocked", "leaving")
        /\ \E i \in DOMAIN sendq : sendq[i] = p /\ sendq' = RemoveAt(sendq, i)
  /\ UNCHANGED <<mode, sem, waitSlots, inFlight>>

\* Mutant: a caller that comes from the queue does not raise the gauge.
EnterUncounted(p) ==
  /\ \/ inFlight' = inFlight + 1 /\ Moves(p, "entering", "held")
     \/ UNCHANGED inFlight /\ Moves(p, "enteringQ", "dequeuing")
  /\ UNCHANGED <<mode, sem, waitSlots, sendq>>

\* enter(): raise the gauge.
Enter(p) ==
  /\ inFlight' = inFlight + 1
  /\ \/ Moves(p, "entering", "held")
     \/ Moves(p, "enteringQ", "dequeuing")
  /\ UNCHANGED <<mode, sem, waitSlots, sendq>>

\* Mutant: only a caller that got a slot gives its wait slot back.
LeaveQueueOnSuccess(p) ==
  /\ \/ waitSlots' = waitSlots - 1 /\ Moves(p, "dequeuing", "held")
     \/ UNCHANGED waitSlots /\ Moves(p, "leaving", "idle")
  /\ UNCHANGED <<mode, sem, sendq, inFlight>>

\* The deferred receive from waitSlots, after a slot or after giving up.
LeaveQueue(p) ==
  /\ waitSlots' = waitSlots - 1
  /\ \/ Moves(p, "dequeuing", "held")
     \/ Moves(p, "leaving", "idle")
  /\ UNCHANGED <<mode, sem, sendq, inFlight>>

-----------------------------------------------------------------------------
(* The release function                                                     *)

ReleaseDisabled(p) ==
  /\ Moves(p, "pass", "idle")
  /\ UNCHANGED <<mode, sem, waitSlots, sendq, inFlight>>

\* <-b.sem with nobody waiting.
ReleaseFree(p) ==
  /\ sendq = <<>>
  /\ sem' = sem - 1
  /\ Moves(p, "held", "releasing")
  /\ UNCHANGED <<mode, waitSlots, sendq, inFlight>>

\* Mutant: the flag that makes a release idempotent is shared by all callers,
\* so that this release returns at once, as if it had been called before.
ReleaseForgotten(p) ==
  /\ sendq # <<>>
  /\ Moves(p, "held", "idle")
  /\ UNCHANGED <<mode, sem, waitSlots, sendq, inFlight>>

\* <-b.sem with a blocked sender: its element takes the freed place.
ReleaseToWaiter(p) ==
  /\ sendq # <<>>
  /\ pc[p] = "held"
  /\ sendq' = Tail(sendq)
  /\ pc' = [pc EXCEPT ![p] = "releasing", ![Head(sendq)] = "enteringQ"]
  /\ UNCHANGED <<mode, sem, waitSlots, inFlight>>

\* Lower the gauge.
Exit(p) ==
  /\ inFlight' = inFlight - 1
  /\ Moves(p, "releasing", "idle")
  /\ UNCHANGED <<mode, sem, waitSlots, sendq>>

\* The health signal the router reads.
Saturated == mode = "enabled" /\ inFlight >= capSem

-----------------------------------------------------------------------------

AcquireStep(p) ==
  \/ AcquireDisabled(p) \/ AcquireFast(p) \/ MissFast(p)
  \/ RejectQueueFull(p) \/ JoinQueue(p) \/ AcquireQueued(p) \/ Block(p)
  \/ Enter(p) \/ LeaveQueue(p)

ReleaseStep(p) == ReleaseDisabled(p) \/ ReleaseFree(p) \/ ReleaseToWaiter(p) \/ Exit(p)

BulkheadNext == \E p \in Callers : AcquireStep(p) \/ TimesOut(p) \/ ReleaseStep(p)

BulkheadSpec == BulkheadInit /\ [][BulkheadNext]_bulkheadVars

\* Goroutines are scheduled, a call to the source ends (its context has a
\* deadline), nobody is obliged to arrive, and no timeout is assumed to fire.
GoesOn(p) == (pc[p] # "idle" /\ AcquireStep(p)) \/ ReleaseStep(p)
BulkheadFairness == \A p \in Callers : WF_bulkheadVars(GoesOn(p))

BulkheadFairSpec == BulkheadSpec /\ BulkheadFairness

-----------------------------------------------------------------------------
(* Properties                                                               *)

BulkheadTypeOK ==
  /\ mode \in {"enabled", "disabled"}
  /\ sem \in 0..capSem
  /\ waitSlots \in 0..capQueue
  /\ sendq \in Seq(Callers)
  /\ inFlight \in Int
  /\ pc \in [Callers -> PC]

\* Tokens are neither lost nor duplicated, on any path through time-outs,
\* hand-overs and rejections: the semaphore holds one token per caller that
\* owns a slot, the queue one per caller that has not yet left it.
TokensConserved ==
  /\ sem = Cardinality(Owners)
  /\ waitSlots = Cardinality(InQueue)

\* The gauge the router takes for the semaphore is off by exactly the callers
\* that are between the two: behind by those entering, ahead by those leaving.
\* A source reported saturated has no more free slots than callers about to
\* lower the gauge.
GaugeLag ==
  /\ inFlight = sem - Cardinality(In({"entering", "enteringQ"}))
                    + Cardinality(In({"releasing"}))
  /\ Saturated => capSem - sem <= Cardinality(In({"releasing"}))

\* What the bulkhead implements.
Promise == INSTANCE Semaphore WITH Capacity <- capSem, owners <- Owners
IsSemaphore == Promise!Spec

\* A caller that has missed the fast path gets a slot or is turned away, even
\* if no timeout ever fires: whatever becomes free between its look at the fast
\* path and its select, every slot taken is given back and handed on in order
\* of arrival.
WaitersServed ==
  \A p \in Callers :
    pc[p] \in {"missed", "queued", "blocked", "leaving"} ~> pc[p] \in {"held", "idle"}

=============================================================================
