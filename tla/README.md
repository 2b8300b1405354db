# A formal model of the TTL-aware backend-for-frontend

This directory holds TLA+ specifications of the service in `src/`, the TLC
configurations that check them on small instances, and TLAPS proofs of the
properties that must hold for every instance. `PROJECT.json` is the index: which
module models which lines, what every run checks, and where the code and its
documentation disagree.

The service answers read requests of a user interface from two data sources: an
*operational* source (gRPC, authoritative for current state, may lag) and an
*execution* source (HTTP, history of workflows). For every request it decides from
field ownership, source health and data freshness which of the two to ask, guards
each call with a bulkhead, a circuit breaker and retries, merges what comes back,
and keeps the answer in a cache that must not make old data look new.

## 1. Inventory

| Component | State | Operations | Interacts with |
|---|---|---|---|
| Circuit breaker (`resilience/breaker.go`) | state, ring of 10 buckets, openedAt, half-open slot and success counters, all under one mutex | Allow, Record, Abstain, State, Counts | executor (admission and outcome), router (health) |
| Bulkhead (`resilience/bulkhead.go`) | two buffered channels, atomic gauge | Acquire, release, Saturated | executor, router (health) |
| Executor and retrier (`resilience/executor.go`, `retry.go`) | none of their own; a deadline and an attempt counter per call | Call, Healthy; Do with backoff and budget | bulkhead, breaker, adapters |
| Rate limiter (`resilience/ratelimit.go`) | bounded map of token buckets, RW lock | Allow, eviction of idle tenants | middleware |
| Router (`router/router.go`) | per request: preferred and fallback source, pin, freshness verdict | Select: eleven ordered rules; finish | service, freshness manager, field catalogue |
| Field catalogue (`policy/fields.go`) | immutable | SourcesFor, ExclusiveTo | router, service |
| Freshness (`freshness/freshness.go`) | memo of probe answers, under a mutex that is not held while probing | Evaluate; Probe, Assess, Invalidate | router, operational adapter |
| Cache manager (`cache/manager.go`) | singleflight group, backend | GetOrLoad, Store, SetNegative, GetStale, Invalidate, background refresh | service, backends |
| Cache backends (`cache/memory.go`, `redis.go`, `Layered`) | LRU list and map; Redis; two levels | Get, Set, Delete, DeletePrefix | cache manager |
| Application service (`application/service.go`) | none; reads the configuration snapshot several times per request | resourceView, loadResource, fetch, fallbackDecision, resolveInFlight, serveStale, executionView | everything above |
| Aggregation (`aggregation/aggregator.go`) | results of the tasks of one request | FanOut, Merge, Completeness | service, precedence |
| Precedence (`policy/precedence.go`) | immutable | choice of the winning source for a field | aggregation |
| Classifier (`classifier/classifier.go`) | immutable | route and query to request type, fields, consistency | handlers |
| Configuration (`config/load.go`, `config.go`) | immutable snapshot | Load, validate, ResolveRule, ResolveDefaults | everyone |
| Configuration provider (`config/provider.go`) | atomic pointer, hash of the file last seen | Watch, Reload, Get, OnChange | everyone |
| Source adapters and mappers (`datasource/*`, `mapper/*`) | executor per source | one method per source call | service |
| HTTP layer (`api/*`) | none | middleware chain, handlers, envelope | service, authentication, rate limiter |
| Authentication (`security/*`) | cached key set with throttled refresh | token verification | middleware |
| Process (`cmd/bff/main.go`) | listeners | start, drain, stop | all |

What is hard in this system, and hence where the models look first:

* **Calls outlive the state that admitted them.** The breaker forgets in which
  state a call was admitted; its outcome arrives in another.
* **Two views of one resource.** The bulkhead's gauge follows its semaphore with
  a delay, and the router reads the gauge.
* **A chain of rules with shared scratch state.** One rule pins the source set and
  does not decide; ten others must respect the pin. Zero is a special value of
  almost every duration.
* **Shared work.** Singleflight makes one request's load everybody's, its failure
  and its cancellation included. Background refreshes race with foreground loads.
* **Ages that are computed in one place and stamped in another.**
* **Partial failure on every rung of the degradation ladder**: health routing,
  fallback at call time, stale cache, negative cache.
* **Locks that are given up for the slow part.** Probe memo, rate limiter, key set
  and the two cache tiers look something up, let go, and act on what they saw.
* **Configuration that changes underneath.** A request reads it up to five times; the
  watcher hashes the file and loads it in two reads; tenant overrides are validated
  apart from the rules they are laid over.
* **The end of the process**: requests, deferred functions and a timer at once.

What makes each component correct is stated as properties in its module; the
hazards behind them are listed, at the line where they bite, in `PROJECT.json`.

## 2. Modules

| Module | Models | Runs |
|---|---|---|
| `Circuit` | what a circuit breaker promises | implemented by `Breaker`, used by `Executor` |
| `Breaker` | circuit breaker | `breaker` (through `MCBreaker`) |
| `BreakerProofs` | theorems about `Breaker` | TLAPS |
| `Semaphore` | what a bulkhead promises | implemented by `Bulkhead`, used by `Executor` |
| `Bulkhead` | bulkhead, one step per channel or atomic operation | `source` (through `MCSource`) |
| `BulkheadProofs` | theorems about `Bulkhead` | TLAPS |
| `Adapters` | what the adapters and mappers make of a failure, and the reactions to error codes, as operators | used by `Executor` |
| `Executor` | executor and retry loop, over `Circuit` and `Semaphore` | `source` (through `MCSource`) |
| `ExecutorProofs` | theorems about `Executor` | TLAPS |
| `Freshness` | the freshness calculation, as operators | used by `Router` and `ProbeMemo` |
| `ProbeMemo` | freshness manager: probes remembered for a moment | `caches` (through `MCCaches`) |
| `Catalog` | sources, field catalogue, and what the service may rely on in a routing decision | used by `Router` and `Service` |
| `Router` | rule chain | `router`, `router_unknown` (through `MCRouter`) |
| `RouterProofs` | theorems about `Router` | TLAPS |
| `CacheManager` | cache-aside for one key, and the failure path of `resourceView` | `shared`, `cache_answers` (through `MCShared`) |
| `CacheManagerProofs` | theorems about `CacheManager` | TLAPS |
| `Layered` | two-tier cache: memory of each instance over a shared Redis, and invalidation | `caches` (through `MCCaches`) |
| `CachesProofs` | theorems about `ProbeMemo` and `Layered` | TLAPS |
| `Ladder` | the degradation ladder | implemented by `Service` |
| `Service` | application service, fan-out, merge of the status, over any decision `Catalog` offers | `service`, `service_notfound`, `service_fields`, `service_absence` (through `MCService`) |
| `ServiceProofs` | theorems about `Service` | TLAPS |
| `RateLimiter` | rate limiter | `shared` (through `MCShared`) |
| `KeySet` | the key set of the authenticator | `shared` (through `MCShared`) |
| `Gateway` | authentication, authorisation, parsing and classification of a request, as operators | used by `Process` |
| `ConfigRules` | layers of the configuration, validation, `ResolveRule`, as operators | used by `ConfigProvider` |
| `ConfigProvider` | configuration provider and the requests that read it | `lifecycle` (through `MCLifecycle`) |
| `Process` | startup, serving, reload, drain and exit, and the middleware chain | `lifecycle` (through `MCLifecycle`) |
| `PerimeterProofs` | theorems about `RateLimiter`, `KeySet`, `ConfigProvider` and `Process` | TLAPS |
| `Samples` | small documents and requests for `MCLifecycle` | |

Composition is by contract. `Executor` instantiates the abstract `Circuit` and
`Semaphore` that `Breaker` and `Bulkhead` are shown to implement. `Service` takes any
decision that satisfies `Catalog!Offered`, and the run `router` shows that the rule
chain decides nothing else (`MeetsContract`), which `ContractIsMet` proves for every
catalogue. `Process` takes what `Config.Get` returns
from a set of settings, and `ConfigProvider` is about what that can be.

`MCSource`, `MCShared`, `MCCaches` and `MCLifecycle` hold components that share no variable.
A variable `focus`, chosen at the start, says which of them a behaviour is about: the state
spaces add up and do not multiply, and nothing is lost, since no component reads another's
state. Definitions of `Bulkhead` carry its name (`BulkheadNext`), so that it can stand
beside `Executor`, and the steps of `Acquire` and of the release function are
`AcquireStep` and `ReleaseStep`.

**Breaker.** Every exported method runs under one mutex and is one action; the
disjuncts of `Allow` and `Record` follow the code's branches. One tick is one
bucket duration. `ticket` records which half-open period a call was admitted in;
`ticket`'s value, `epoch`, `stragglers` and `log` are history, read by properties
only. The lazy open-to-half-open transition (`currentLocked`) is in the `Cur...`
operators, which every action but `Abstain` goes through, as in the code.

**Bulkhead.** A goroutine's way through `Acquire` and the release function, with a
step per channel operation and per atomic operation of the gauge. The blocked
senders of the semaphore channel are a FIFO queue, and a receive hands its place
to the first of them; that is the Go runtime's channel and is marked external.

**Executor.** `call` from the acquired slot to its release, with `Retrier.Do`
inside: the check of the context at the top of every round, the attempt, the
backoff within budget and deadline, the interrupted sleep, and the report to the
breaker. A call has a clock of its own, since the code never compares two. An attempt
fails with any code that `Adapters` derives from a gRPC status, an HTTP status, a
transport error or a refused record, up to how executor and retrier react to it.

**Router.** A state machine that walks the chain, one action per rule. `Init` ranges
over every request, health snapshot, merged rule and merged defaults; the
freshness probe's answer is chosen in the rule that first asks for it, from every
observation over a small set of instants, pushed through `Freshness!Evaluate`.
A tenant's `on_unknown_freshness` is not validated by the code and ranges over
values that parse to no source.

**CacheManager.** One key. Requests look up, lead or join the singleflight call,
look again, load, store; failing ones go on to the stale and negative paths of
`resourceView`. Strong requests load without looking. Background refreshes are
goroutines of their own. Backend errors, evictions, invalidations, disconnects and
time may come between any two steps. `asOf` is the instant an answer's data was
read and aged; `served` is what the last step told a caller.

**Ladder.** What degradation means: the preferred sources; what is left of them, or the
configured fallback, if one is known to be down when the request is routed (`narrowed`,
`rerouted`); the fallback after a call has failed; an expired entry; an error. Each rung
below the preferred one has its condition: a fallback at call time, a stale answer and an
error need a failure (`failed`), strong requests take neither fallback nor stale answer,
and what follows a failed call never denies that the resource exists. A source that was
asked in place of one that is down may deny, and so may one that answers beside one that
failed: the ladder does not promise that absence is confirmed, and the runs
`service_absence` and `service_notfound` show that it is not. `Service` maps its decisions
to the first three rungs by what the decision says of itself (`rungTaken`).

**Service.** One resource, request after request of one endpoint: lookup, routing,
the tasks of the fan-out (each ends when and how it likes), FanOut's verdict over
required and optional tasks, the fallback at call time and its second fan-out, the
lookup of an execution in flight, the merge of the contested field (the status) by
source precedence, the completeness check, the warnings, and the stale and negative
paths. `world` is what the sources hold; a workflow may end while a request is
under way, and the operational record then lags. Concurrent requests of one key
are `CacheManager`'s subject, not this module's. `history` is read by properties
only.

**ProbeMemo.** The lookup, the answer of the source and its storing are three steps;
probes of one record overlap with each other, with `Invalidate`, with writes at the
source and with the flush of a full memo. The source stamps with its own clock, ahead
or behind, or not at all. A record may not exist yet: that is an answer without any time,
which is remembered like the others until the memo's ttl is over.

**Layered.** The step on the first tier and the step on Redis are apart, and so are the
answer of Redis and its promotion; a Redis operation takes up to its deadline and may
fail, a failed write applied or not. The memory of an instance is its map of items and
its LRU list, apart as in the code: `items` decides what is served, `lru` what is
evicted. `left` is history: when Redis lost or refused an
entry.

A Redis operation has the deadline of one operation, a scan ten times that.

**RateLimiter.** The lookup under the read lock and the use after it are two steps, so a
sweep may evict the bucket a call holds. The arithmetic of a bucket is that of
`golang.org/x/time/rate`, its going back with an old clock reading included. A caller
without a tenant shares the one bucket of those without (`keyOf`).

**KeySet.** `Key` and `refresh` with a fetch that takes time and holds no lock. Which keys
are published is the environment's choice at any moment.

**ConfigRules, ConfigProvider.** A rule is a record whose unset fields hold Go's zero
values, as in the code: `merged` lays one over another, field by field. `Decoded` says
what the YAML decoder makes of any rule: a record with all its fields, durations
being integers. The watcher's hash
and load are separate reads of a file that may change, or be missing, in between.
`unsure` is history. Checks of `Validate` that only concern what no decision of the model
reads are left out, the per-source timeouts among them; an empty tenant id is refused.

**Gateway, Process.** The handlers up to the service are operators that yield a record or
the status of a refusal; `Process` applies them one step at a time while reloads, the
signal, listener failures and the grace period come between. `http.Server.Shutdown` is
external and appears in `Drained`. A listener that fails before it is up never accepts;
one that fails later accepts nobody new, but the connections it has bring further requests
until `Shutdown` closes them. A request that the service has is answered in any way
or not at all: nothing is assumed of it.

## 3. What the runs show

| Run | Result | Bounds |
|---|---|---|
| `breaker` | implements `Circuit`; no leaked probe slot, fresh counters per half-open period, ring equal to the true rolling window, trips exactly when that window says so; a recovered source is re-admitted for good | 3 calls; a ring of 2 buckets over 4 instants, so that every slot is recycled and each of them holds something of an old window; half-open counts of 2 |
| `source` | the bulkhead implements `Semaphore`; tokens conserved, whoever waits gets a slot or runs out of time, gauge off by exactly the callers in between; of a call over that semaphore, slot, admission and outcome are paired on every exit, retries start within budget and deadline, and it returns | bulkhead: 4 callers for 2 slots and a queue of 2, so that one finds the queue full while those in front of it are handed their slots; calls: 3 for 2 slots; 2 attempts; timeout 3, request deadlines 0 and 5, so that either is the shorter; backoff up to 1; budget 60% |
| `router` | offers only healthy sources and only what the service relies on, holds the ceiling, keeps strong requests live, refuses only for the reasons listed, always decides | one field per kind of supplier list; ttl and ceiling zero and positive; ages on both sides of both |
| `shared` | a hit is never older than its entry's lifetime plus one load, a cached "not found" never than its own, and a stale answer is a real value within the ceiling and one load; nobody gets more than burst and rate; one fetch at a time; verdicts on keys follow what is published | cache: 2 requests, 1 refresh, ttl 2 for a value and 1 for a "not found" or a degraded one, a grace and a ceiling of 1, over 4 instants, so that entries outlive ttl and ceiling, and no client that leaves (`cache_answers` has them; a cancelled load leaves in the cache what a failed one does); limiter: a tenant and a caller without one in a map of 1, 3 buckets over 6 instants; keys: 2 over 7 instants with a ttl and a throttle of 2 |
| `cache_answers` | every request is answered | 2 requests, 1 refresh; fail-closed backend, no negative caching |
| `service` | implements `Ladder`; warnings name exactly the sources that failed; screens agree on the status while a workflow runs or ends | 3 endpoints, 3 field selections, 6 states of the sources, `required_sources` as shipped and unset |
| `caches` | what Redis lost is served no longer than the first tier's ttl and one operation; copies prolong no life; a FRESH verdict is late by at most one probe; a write is seen after the memo's ttl and one probe | 2 instances, 2 tasks, 2 keys in a memory of 1, 2 entries, so that eviction, promotion and a second write meet; 2 records in a memo of 1, 2 probes, a clock behind and one ahead |
| `lifecycle` | a request finds its rule under every reload; rules that allow stale answers bound them; hot reload converges; requests reach the service as entitled; what they use is open until they are drained; the process ends | provider: 2 changes of the file among valid, refused, unreadable and missing; rules: about 6000 documents, every patch of the file under every override of a tenant; process: 2 connections, 2 requests, 2 reloads, any listener may fail, the signal may come at any stage; gate: about 150 requests under two reloads |
| `router_unknown` | **violated**: with `on_unknown_freshness: cache` a probe outage makes the chain give up a request that a healthy operational source could serve | as `router` |
| `service_absence` | **violated**: while the operational source is down, the execution source's "not found" is answered, and cached, for a resource on which no workflow has run | the status endpoint, one such resource |
| `service_notfound` | **violated**: an outage of both sources is answered, and cached, as "not found" | the details endpoint |
| `service_fields` | **violated**: an answer for one field selection is recalled for another, unmarked | the details endpoint |

The bounds `MaxClock` and `MaxTally` stop the clock and the tallies; every other
constant is a configuration value of the service. Two or three actors suffice
because every hazard found involves at most a straggler, a newcomer and a timer.
`IdleEviction`, `SweepEvery`, `MinRefresh`, `FetchTimeout`, `L1TTL`, `OpTime`, `MemoTTL` and
`ProbeTimeout` keep the order they have in the code or in the shipped configuration.
Symmetry is used for interchangeable actors in runs without liveness. The three
endpoints of `service` differ in everything that decides what is fetched: one
operational read, all four kinds of task, an execution read past the router. The
sixth state of the sources, an execution that predicts nothing, is the one in which
precedence has a single candidate.

The violated runs state what a comment or a document says and show what the
code does instead; `PROJECT.json` quotes both. Milder disagreements are stated
as what does hold:

* Calls admitted before a half-open period may free probe slots they never took, so
  more probes than `half_open_max_calls` can be at the source. `SlotsConserved`
  bounds the excess by the stragglers of the period.
* `Saturated` may report a full bulkhead although slots are free, but no more of
  them than callers about to lower the gauge (`GaugeLag`, against the comment at
  `bulkhead.go:128`).
* An operational source that is its own fallback is served past the stale ceiling;
  `StaleWithinCeiling` says for which routes the ceiling holds.
* With `on_unknown_freshness: cache`, a value that `ParseSourceKind` accepts, the rule for
  unknown freshness tries only the execution source. `RefusalJustified` lists that as
  the one refusal without a reason; `router_unknown` states what the comments claim.
* A source chosen when a request is routed may answer "not found" while the preferred one
  is down. `Ladder` permits it; `service_absence` states what the documents claim.
* A background refresh checks and stores in two steps, and the time between reading
  the data and stamping the entry is lost. `HitAgeBounded` is therefore the
  lifetime of the entry plus one load, not the lifetime alone.
* A status or configuration view that is routed to both sources never asks for the
  execution; `ViewsAgree` exempts it. It also exempts an operational record that does not
  know the status, a lookup that got no answer, and a marker that has not kept up.
* A tenant's override with a negative `max_stale` passes validation and takes the
  ceiling away; `StaleIsBounded` exempts it.
* The watcher takes a file for known by the hash of an earlier read of it. `Converges` says
  that a file left alone comes into force unless that hash is of content that is neither in
  force nor refused (`unsure`), which has three causes: `NewFileProvider` hashes after it
  has loaded; a forced `Reload` undoes what the watcher has loaded; or the content comes
  back after a change between the watcher's hash and its load. The next change heals it.
* When the tenant map is full a new client is admitted without a limit; and a call
  that a sweep or the clock overtook may be admitted beyond the rate.
  `AllowanceHeld` counts what the buckets admit and charges the latter one by one.
* A fetch of keys that fails leaves the old set in use, and counts against the
  throttle; `KeysFollow` speaks of times when fetches succeed.

Disagreements met while modelling that no run states:

* A change between `NewFileProvider`'s load and its hash is never loaded
  (`provider.go:78` and `docs/runbook.md:18` say that a change is); see `Converges`.
* A valid override over a valid rule may resolve to a rule that `validateRule` would refuse:
  nobody validates the result (`load.go:593` says that the callers do). `StaleIsBounded`
  states what survives that.
* The shared load runs under its leader's context: a disconnect of the leader's client
  fails the waiters (`spec/architecture.md:397`, `spec/requirements.md:1479` say
  otherwise). `cache_answers` has such disconnects and shows that all are answered.
* A call cancelled by its client is recorded as a failure of the source
  (`spec/requirements.md:982`). `Executor` has it, as the outcome "cancelled".
* One request may see several configurations (`spec/requirements.md:1276` promises one
  snapshot); `RuleNeverLost` and `ServedAsEntitled` state what survives that.
* `mergeRoutingDefaults` does not restore `ttl`, `cache_ttl` and `allow_stale` of a rule
  that the file names.
* `Server.Start` returns before the listeners are up (comment at `server.go:238`); the
  limiter "per tenant in the service layer" of `middleware.go:209` does not exist; `build`
  leaves the cache open when the authenticator cannot be built; nothing waits for
  background refreshes at shutdown.

**Fairness.** `BulkheadFairSpec`: goroutines inside `Acquire` or holding a slot
proceed (the scheduler, and a deadline on every source call); nobody has to arrive
and no timeout has to fire. `Executor!FairSpec`: a call in progress proceeds, and
time passes for one that sleeps or is at the source; nobody has to call.
`CacheManager!FairSpec`: a request that is in the
system proceeds (its load has a deadline). `MCBreaker!RSpec`: calls are
admitted and end, the clock runs, and a call that can report success again and
again does (not every answer is a client fault for ever): strong fairness, the
only one used. `Router!Spec`: the chain is a loop and runs to its end.
`ConfigProvider!ConfigFairness`: startup goes on, the watcher's ticker ticks, and a
forced reload that has loaded swaps; nobody has to edit or to ask.
`Process!ProcFairness`: `run` goes on and its timer fires; nothing is assumed of
requests, listeners or signals. In `MCSource`, `MCShared` (`AnswersSpec`) and
`MCLifecycle` the fairness of each is stated for the behaviours about it.
Deadlock checking is off where the modelled activity ends: a decided request, an
exited process, and wherever the bounded clock or the bound on edits, requests or
entries stops the environment.

**Mutants.** Next to a definition stand operators named for a plausible mistake in
it (a missing clamp, a forgotten guard, a swapped order). They are not part of any
specification; each property is checked to fail when its mutant replaces the
definition.

## 4. What is proved

TLC shows a property on the instance its `.cfg` describes; the theorems show it for
every value of the constants that satisfies the named `ASSUME`s. A property is seldom
inductive by itself; each proof module states the invariant it needs, proves that it
holds initially and that every action keeps it (a lemma per action, `...Good`), and
reads the property off. `PROJECT.json` lists the results; here is the argument behind
each, and why the invariant says more than the property.

**Breaker** (`BreakerProofs`), for every finite set of calls, every ring size and every
configuration that passes validation.

* `TypeCorrect`: the type invariant. It is inductive by itself.
* `SlotsAreConserved`, `CountersAreFresh`: neither is inductive alone. The
  invariant `SlotInv` adds that no ticket is from a future half-open period
  (so a period that begins has no probes yet) and that a disabled breaker stays
  closed. A call that ends is either a probe of the period, and the set of probes
  shrinks with the counter, or a straggler, and the difference is charged to
  `stragglers`.
* `BreakerIsCircuit`: the breaker implements `Circuit`, with the calls that hold a
  ticket as the admitted ones. Every method maps to one operation of the circuit;
  the only fact needed beyond types is that a disabled breaker stays closed, and
  it comes from `SlotInv`.
* `RingIsExact`: `RingInv` adds that a bucket sits in the slot of its index, never
  lies in the future, and that nothing is logged for future instants. The core is
  arithmetic: two different instants less than one window apart never share a slot
  (`ModDistinct`), so recycling a slot loses nothing of the window.
* `TripsAreExact`: an action property. The code sums the counters of the slots that it
  finds recent; the property sums what was recorded at the instants of the window. By
  `RingInv` the slots that hold something recent and the instants at which something was
  recorded match one to one with equal counts, and a slot never used counts nothing
  (`Blank`, kept by every action). That two sums which match are equal, in whatever order
  they are taken, is proved of the folds themselves: a claim about all finite sets holds
  because a smallest set violating it (`Smallest`, from the well-foundedness of strict
  inclusion) would not be violated either.

**Bulkhead** (`BulkheadProofs`), for every capacity, queue and finite set of callers.

* `TokensAreConserved`, `GaugeLagsByThoseBetween`: one invariant carries both. It adds what
  the Go channel guarantees, that a sender sleeps only while the channel is full
  (`NoLostWakeup`), and `SleepersQueued`, that the channel's queue holds
  exactly the callers asleep in the select, each once; without it a hand-over could wake
  somebody who has left, or count a token twice. The counts change by at most one per
  step because a step moves one caller (`MoveCount`).
* `BulkheadIsSemaphore`: every step is a step of `Semaphore` or leaves the owners as they
  are; a hand-over is a release and an acquisition in one. A slot is taken only when one
  is free because the token count is the number of owners.

**Executor** (`ExecutorProofs`), over `Circuit` and `Semaphore`, for every configuration.

* `CallsArePaired`: the sets at the breaker and at the bulkhead are functions of where the
  calls are. The bound on admissions follows from the semaphore's, since whoever is
  admitted owns a slot.
* `RetriesStayInBudget`: an action property. The invariant adds, for a call on its way to
  another attempt, that what has passed *and what is left of the backoff* are within the
  budget: the code checks before the sleep, the property speaks of the time after it.

With the two refinements above, both results hold over the real breaker and bulkhead.

**Cache manager** (`CacheManagerProofs`), for any number of requests and refreshes.

* `HitsAreYoung`, `NotFoundIsForgotten`, `StaleIsRealAndBounded`: the invariant says of
  every entry that it was stored at most one load after its data was read, with the
  lifetime of its kind; and of every request and refresh under way that its data was read
  since it began and that it is within its budget. An entry is written by whoever comes
  last, so the bound needs both sides.

**Router** (`RouterProofs`), for every catalogue, request, rule, defaults and observation.

* `StaleReadsStayWithinTheCeiling`, `StrongReadsAreLive`, `RefusalsAreJustified`,
  `ContractIsMet`: the invariant `Underway` is what an undecided request has learnt at
  each link of the chain: what each rule that let it pass has excluded, whether the
  source is pinned, and what was measured. Each rule's lemma then shows that what it
  decides is permitted. `RefusalsAreJustified` includes the exception named above, so it
  says exactly when a refusal has no reason: `on_unknown_freshness` is "cache", nothing is
  pinned and the execution source is down.

**Probe memo and two-tier cache** (`CachesProofs`), for any number of records, probes, keys
and instances.

* `FreshVerdictsAreRight`, `WritesAreSeenInTime`: every observation, in the memo or on its
  way there, was said by the source at some instant within one probe of its storing
  (`SaidAt`), and whatever was written since is no older than that instant. An overlapping
  probe that is stored late is therefore old by one probe at most.
* `WhatIsGoneIsGone`, `CopiesLiveNoLonger`: an item of the first tier is within its ttl,
  within its entry's life and within one ttl and one operation of the loss of its entry.
  For that the invariant needs that Redis holds nothing it has lost, which needs that
  every entry is at Redis in one place or on its way there once (`HeldApart`,
  `WritersApart`).

**Service** (`ServiceProofs`), for every catalogue, policy, endpoint and state of the sources.

* `ServiceIsLadder`: the service implements `Ladder`. What is not obvious is that a request
  on the rung of the fallback cannot end with a "not found": the error it brought along is
  kept when the fallback fails, and a fallback that does not fail brings something back
  (`FallbackBrings`), since its one call is required and its answer is not empty. And that
  nothing is given up without a failure: whatever has an error to report has seen a call
  fail, or was routed nowhere, which the invariant ties to `history.broken`.
* `WarningsNameTheFailed`: the invariant ties the sources that failed to the outcomes of the
  calls of the current fetch, and after a fallback also to the source that was given up
  (`GoodHistory`). That the latter is one source, and the other one than the fallback,
  is what the conditions of `fallbackDecision` amount to.
* `ViewsDoNotContradict`: `ViewsAgree` speaks of two instants, so the invariant `ViewInv`
  says what each part of the state was seen as and when: a workflow only ends while the
  request is under way (`EndedSince`), what `in` holds was true at one of its instants
  (`Seen`), and after an in-flight lookup that was answered, an execution that was not
  taken over does not run (`LookedUp`). Then `Resolve` is compared with itself on what
  was read and on what a complete read would have brought. The theorem has one hypothesis,
  `OperationalFirst`: the status is taken from the operational source first, as
  `configs/bff.yaml` and `Default` have it. It is needed. Under an override that reverses
  the order, a view of the operational source alone and a view of both differ whenever an
  execution exists and none runs: a lookup takes over only one that does.

**Perimeter** (`PerimeterProofs`), for any number of calls, keys, connections and documents.

* `FetchesAreSerialised`: no lock is held across a fetch; that there is one at a time
  follows from the throttle being longer than the fetch's timeout, given that every fetch
  under way began at `lastAttempt`.
* `VerdictsFollowTheProvider`: what a set of keys as of an instant lacks or has too many of
  has changed since that instant (`AsOf`), for the installed set and for one on its way.
* `DrainsBeforeItCloses`: the invariant `Life` says what is open in every phase of `run`,
  and that the public listener is closed before anything is.
* `ServiceSeesTheEntitled`: what each stage of the chain has established about its request
  (`GoodConn`) survives reloads between the stages, since it speaks of the setting the
  stage itself has read.
* `EveryReadFindsItsRule`, `StaleAnswersAreBounded`: a configuration in force, or loaded and
  about to be, has a valid rule for every built-in type. The second then goes through the
  layers: validation makes the table's ceiling positive where stale answers are allowed,
  and an override changes it only to what is positive, or negative and exempted.
* `NobodyExceedsTheAllowance`: for a key with a bucket, what was admitted and what is left in
  it is covered by burst and by the rate up to the bucket's own clock (`Covered`); for a
  key without one, by the rate alone (`Recovered`), so that it may start with a full
  bucket again. A sweep leads from the first to the second because it spares what was
  used within `IdleEviction`, in which a bucket fills up. A call that comes with an old
  clock reading turns the bucket's clock back by at most `Stall`, and is charged for it.
  Calls that hold an evicted bucket hold nobody else's (`GoodCall`).

**Assumptions.** All are named `ASSUME`s, and TLC evaluates each in a run. They are what
configuration validation demands or the constructors correct; finiteness of sets of
callers; natural numbers as bounds of clocks, tallies and histories, which are arbitrary
and so restrict nothing; and these, which are facts about the code's own constants or its
libraries:

* `KeySet`: `FetchTimeout < MinRefresh` (30 seconds in `auth.go`; the client's timeout is 5);
* `RateLimiter`: a bucket fills up within `IdleEviction` less the time a call takes. It is
  true of the shipped configuration; `Validate` does not demand it;
* `ProbeMemo`: the source's clock, where it tells it, is past the zero of time;
* `ConfigProvider`: the built-in rules are valid, and overrides are what the decoder makes;
* `Process`: a requested limit that parses is an integer.

`OperationalFirst` is no `ASSUME` but a hypothesis of `ViewsDoNotContradict` alone: the
other theorems about the service hold for every order of precedence.

**Only model-checked:**

* everything that must eventually happen (`Recovery`, `WaitersServed`, `CallsReturn`,
  `AllAnswered`, `AlwaysDecides`, `Converges`, `ShutdownEnds`): liveness under fairness is
  beyond this prover.

Every other property of the passing runs is stated by a theorem. One of them says more
than its run can show: the clause of `LifeNotProlonged` on Redis (a third of an entry's
lifetimes does not fit into the 4 instants of `caches`).

No module declares a RECURSIVE operator.

## 5. Plan

The system is modelled as far as this project means to, and every safety property that
the passing runs check is proved. What remains with TLC alone is liveness.

### Not modelled

* Observability and correlation: no decision reads what they write.
* The text of things: YAML, JSON, cache keys, log lines, error messages, headers; the
  field-by-field conversions of the mappers; the values that `Default` ships.
* Signatures, the checks of the jwt library, the encodings of keys: external.
* The admin endpoints: they read state and change none.
* The cross-process lock of the cache manager: losing it changes nothing but load.
* The merge of fields other than the status: it follows the same pattern; the reporting
  of conflicts only logs.
* The demonstration sources, generated code and test helpers: not the service.
