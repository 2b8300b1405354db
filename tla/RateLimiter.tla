------------------------------ MODULE RateLimiter ------------------------------
(***************************************************************************)
(* The rate limiter (internal/resilience/ratelimit.go): a token bucket per  *)
(* key, in a bounded map that is swept of idle buckets.                     *)
(*                                                                         *)
(* A call reads the clock and looks its bucket up under the read lock, then *)
(* uses what it found after the lock is gone; a miss takes the write lock   *)
(* and looks again.  In between other calls run, the clock moves on, and a  *)
(* sweep may evict the very bucket that was found.  The bucket itself is    *)
(* golang.org/x/time/rate (external): a call that is behind the bucket's    *)
(* clock earns nothing, and turns that clock back.                          *)
(***************************************************************************)
EXTENDS Integers, FiniteSets

CONSTANTS
  Clients,       \* what middleware.RateLimit passes as the tenant; "" is none
  Callers,       \* goroutines inside Allow
  RPS,           \* cfg.RPS
  Burst,         \* cfg.Burst; below 1 it is RPS
  PerTenant,     \* cfg.PerTenant
  MaxTenants,    \* cfg.MaxTenants; 0 is no bound
  IdleEviction,  \* idleEviction
  SweepEvery,    \* the minute between two sweeps
  Stall,         \* how long a call may take
  MaxBuckets,    \* bound: buckets made in a behaviour
  MaxTime        \* bound: the last instant of a behaviour

Capacity == IF Burst < 1 THEN RPS ELSE Burst

\* The last line: an idle bucket is kept until it is full again, and calls are
\* short beside that.  It is true of the configurations shipped (ten minutes of
\* idling refill any of their bursts); Validate does not demand it.
ASSUME LimiterAssumption ==
  /\ RPS \in Nat \ {0} /\ Burst \in Nat /\ PerTenant \in BOOLEAN /\ MaxTenants \in Nat
  /\ IdleEviction \in Nat /\ SweepEvery \in Nat /\ Stall \in Nat /\ MaxTime \in Nat
  /\ Capacity <= RPS * (IdleEviction + 1 - Stall)

VARIABLES
  time,      \* the clock
  limiters,  \* the map: key to the bucket it has
  buckets,   \* every bucket made, also those evicted while a call holds them
  lastGC,    \* when the map was last swept
  caller,    \* the calls under way
  admitted,  \* history: per key, the calls a bucket has admitted
  late       \* history: how many of them used an evicted bucket or an old clock

limiterVars == <<time, limiters, buckets, lastGC, caller, admitted, late>>

Outside == [pc |-> "idle"]

\* A caller without a tenant shares the global bucket.
keyOf(client) == IF PerTenant /\ client # "" THEN client ELSE "global"
BucketKeys == {keyOf(c) : c \in Clients}

LimiterInit ==
  /\ time = 0
  /\ limiters = << >>
  /\ buckets = << >>
  /\ lastGC = 0
  /\ caller = [c \in Callers |-> Outside]
  /\ admitted = [k \in BucketKeys |-> 0]
  /\ late = [k \in BucketKeys |-> 0]

-----------------------------------------------------------------------------
(* The bucket                                                               *)

Refilled(b, at) ==
  LET earned == IF at > b.last THEN RPS * (at - b.last) ELSE 0
  IN  IF b.tokens + earned > Capacity THEN Capacity ELSE b.tokens + earned

\* AllowN(at, 1), after touch(at).
Taken(b, at) ==
  IF Refilled(b, at) >= 1 THEN [tokens |-> Refilled(b, at) - 1, last |-> at, seen |-> at]
                          ELSE [tokens |-> b.tokens, last |-> b.last, seen |-> at]

\* The call of c uses bucket id and returns; evicted: the map no longer has it.
Use(c, id, evicted) ==
  LET at == caller[c].at  k == caller[c].key
      ok == Refilled(buckets[id], at) >= 1
  IN  /\ buckets' = [buckets EXCEPT ![id] = Taken(@, at)]
      /\ admitted' = [admitted EXCEPT ![k] = IF ok THEN @ + 1 ELSE @]
      /\ late' = [late EXCEPT ![k] = IF ok /\ (evicted \/ at < time) THEN @ + 1 ELSE @]
      /\ caller' = [caller EXCEPT ![c] = Outside]

-----------------------------------------------------------------------------
(* Allow                                                                    *)

\* The clock, then the lookup under the read lock.
Lookup(c, client) ==
  /\ caller[c].pc = "idle"
  /\ LET k == keyOf(client)
     IN  caller' = [caller EXCEPT ![c] =
                      IF k \in DOMAIN limiters
                        THEN [pc |-> "found", key |-> k, at |-> time, bucket |-> limiters[k]]
                        ELSE [pc |-> "missed", key |-> k, at |-> time]]
  /\ UNCHANGED <<time, limiters, buckets, lastGC, admitted, late>>

AllowFound(c) ==
  /\ caller[c].pc = "found"
  /\ Use(c, caller[c].bucket,
         ~(caller[c].key \in DOMAIN limiters /\ limiters[caller[c].key] = caller[c].bucket))
  /\ UNCHANGED <<time, limiters, lastGC>>

\* Under the write lock: another call has made the bucket meanwhile.
AllowMadeMeanwhile(c) ==
  /\ caller[c].pc = "missed"
  /\ caller[c].key \in DOMAIN limiters
  /\ Use(c, limiters[caller[c].key], FALSE)
  /\ UNCHANGED <<time, limiters, lastGC>>

\* Mutant of idle: a bucket that was not used since the last sweep is idle.
idleSoon(k, at) == at - buckets[limiters[k]].seen >= SweepEvery

idle(k, at) == at - buckets[limiters[k]].seen > IdleEviction

\* gcLocked: not within a minute of the last sweep.
Sweeps(at) == at - lastGC >= SweepEvery
Swept(at) ==
  IF Sweeps(at) THEN [k \in {j \in DOMAIN limiters : ~idle(j, at)} |-> limiters[k]] ELSE limiters

Full(map) == MaxTenants > 0 /\ Cardinality(DOMAIN map) >= MaxTenants

Missed(c) ==
  /\ caller[c].pc = "missed"
  /\ caller[c].key \notin DOMAIN limiters
  /\ lastGC' = IF Sweeps(caller[c].at) THEN caller[c].at ELSE lastGC

\* Nobody is idle and the map is full: the call is admitted unlimited.
AllowFull(c) ==
  /\ Missed(c)
  /\ Full(Swept(caller[c].at))
  /\ limiters' = Swept(caller[c].at)
  /\ caller' = [caller EXCEPT ![c] = Outside]
  /\ UNCHANGED <<time, buckets, admitted, late>>

\* A new bucket starts full, and gives its first token.
AllowNew(c) ==
  /\ Missed(c)
  /\ ~Full(Swept(caller[c].at))
  /\ Cardinality(DOMAIN buckets) < MaxBuckets
  /\ LET at == caller[c].at  k == caller[c].key  id == Cardinality(DOMAIN buckets) + 1
         new == [tokens |-> Capacity - 1, last |-> at, seen |-> at]
     IN  /\ limiters' = [j \in DOMAIN Swept(at) \cup {k} |-> IF j = k THEN id ELSE Swept(at)[j]]
         /\ buckets' = [i \in DOMAIN buckets \cup {id} |-> IF i = id THEN new ELSE buckets[i]]
         /\ admitted' = [admitted EXCEPT ![k] = @ + 1]
         /\ late' = [late EXCEPT ![k] = IF at < time THEN @ + 1 ELSE @]
  /\ caller' = [caller EXCEPT ![c] = Outside]
  /\ UNCHANGED time

Allow(c) == AllowFound(c) \/ AllowMadeMeanwhile(c) \/ AllowFull(c) \/ AllowNew(c)

LimiterTick ==
  /\ time < MaxTime
  /\ \A c \in Callers : caller[c].pc # "idle" => time - caller[c].at < Stall
  /\ time' = time + 1
  /\ UNCHANGED <<limiters, buckets, lastGC, caller, admitted, late>>

LimiterNext ==
  \/ \E c \in Callers : (\E client \in Clients : Lookup(c, client)) \/ Allow(c)
  \/ LimiterTick

LimiterSpec == LimiterInit /\ [][LimiterNext]_limiterVars

-----------------------------------------------------------------------------
(* Properties                                                               *)

\* Through concurrent creation, sweeps and evictions of buckets that calls
\* still hold, nobody is let through a bucket more often than burst and rate
\* allow.  Only a call that the clock or a sweep overtook may add to that, by
\* itself and by what its old clock reading earns a second time.
AllowanceHeld ==
  \A k \in BucketKeys :
    admitted[k] <= Capacity + RPS * time + late[k] * (1 + RPS * Stall)

=============================================================================
