-------------------------------- MODULE Layered --------------------------------
(***************************************************************************)
(* The two-tier cache: Layered (internal/cache/manager.go) over Memory      *)
(* (memory.go), one per instance of the service, and Redis (redis.go),      *)
(* which all instances share, with the invalidations of cache.go and        *)
(* Manager that go through it.                                              *)
(*                                                                         *)
(* Memory is locked for the length of one operation; between the step on    *)
(* the first tier and the step on the second, and between the answer of the *)
(* second and its promotion, any other operation of any instance may run.   *)
(* Every operation on Redis may fail, and a failed write may have been      *)
(* applied or not.  Redis is external; its deadline bounds how long an      *)
(* operation takes.                                                         *)
(***************************************************************************)
EXTENDS Integers, Sequences, SequencesExt

CONSTANTS
  Instances,   \* processes, each with its own first tier
  Keys,        \* cache keys: [tenant, resource, plain]; plain: no sub, no variant
  Tasks,       \* goroutines that use the cache
  MaxItems,    \* cfg.L1.MaxEntries
  L1TTL,       \* cfg.L1.TTL
  Lifetimes,   \* the lifetimes entries are stored with
  StaleGrace,  \* cfg.StaleGrace, by which the backend keeps entries longer
  OpTime,      \* the deadline of a Redis operation; a scan has ten times that
  MaxVersion,  \* bound: entries stored in a behaviour
  MaxNow       \* bound: the last instant of a behaviour

ASSUME LayeredAssumption ==
  /\ MaxItems \in Nat \ {0} /\ L1TTL \in Nat /\ Lifetimes \subseteq Nat \ {0}
  /\ StaleGrace \in Nat /\ OpTime \in Nat /\ MaxVersion \in Nat /\ MaxNow \in Nat

VARIABLES
  now,      \* the clock
  l1,       \* per instance, Memory: its items, and its lru, most recently used first
  l2,       \* per key, what Redis holds
  task,     \* the operations under way
  version,  \* the number of entries stored so far; each has its own
  left,     \* history: per entry, when Redis lost or refused it
  got       \* the entry the last step returned to a caller, if it did

layeredVars == <<now, l1, l2, task, version, left, got>>

Nothing == [version |-> 0]
EmptyTier == [items |-> << >>, lru |-> << >>]
Free == [pc |-> "idle"]
Never == -1

LayeredInit ==
  /\ now = 0
  /\ l1 = [i \in Instances |-> EmptyTier]
  /\ l2 = [k \in Keys |-> Nothing]
  /\ task = [t \in Tasks |-> Free]
  /\ version = 0
  /\ left = [v \in 1..MaxVersion |-> Never]
  /\ got = Nothing

-----------------------------------------------------------------------------
(* Memory                                                                   *)

\* removeLocked, for each of the keys.
Without(m, ks) == [items |-> [k \in DOMAIN m.items \ ks |-> m.items[k]],
                   lru |-> SelectSeq(m.lru, LAMBDA k : k \notin ks)]

\* MoveToFront, or PushFront of a new key.
MoveToFront(lru, k) == <<k>> \o SelectSeq(lru, LAMBDA j : j # k)

Found(i, k) == k \in DOMAIN l1[i].items /\ now <= l1[i].items[k].expiresAt

\* Memory.Set: a ttl of 0 stores nothing; the item becomes the most recently
\* used; what exceeds the bound goes from the other end.
Kept(m, k, e, ttl) ==
  LET all == MoveToFront(m.lru, k)
      lru == SubSeq(all, 1, IF Len(all) > MaxItems THEN MaxItems ELSE Len(all))
      new == [entry |-> e, expiresAt |-> now + ttl]
  IN  IF ttl > 0
        THEN [items |-> [j \in (DOMAIN m.items \cup {k}) \cap ToSet(lru) |->
                           IF j = k THEN new ELSE m.items[j]],
              lru |-> lru]
        ELSE m

Shorter(a, b) == IF a < b THEN a ELSE b

\* Redis gives up what it holds under these keys.
Forgotten(ks) ==
  left' = [v \in 1..MaxVersion |->
             IF left[v] = Never /\ \E k \in ks : l2[k].version = v THEN now ELSE left[v]]

\* What a caller gets, and from which tier.
Told(tier, e) ==
  [tier |-> tier, version |-> e.version, storedAt |-> e.storedAt, lifetime |-> e.lifetime]

-----------------------------------------------------------------------------
(* Layered.Get                                                              *)

\* Mutant of GetL1: a hit starts the first tier's ttl anew.
GetL1Sliding(t, i, k) ==
  /\ task[t].pc = "idle"
  /\ Found(i, k)
  /\ l1' = [l1 EXCEPT ![i] = Kept(@, k, @.items[k].entry, L1TTL)]
  /\ got' = Told("L1", l1[i].items[k].entry)
  /\ UNCHANGED <<now, l2, task, version, left>>

GetL1(t, i, k) ==
  /\ task[t].pc = "idle"
  /\ Found(i, k)
  /\ l1' = [l1 EXCEPT ![i] = [items |-> @.items, lru |-> MoveToFront(@.lru, k)]]
  /\ got' = Told("L1", l1[i].items[k].entry)
  /\ UNCHANGED <<now, l2, task, version, left>>

\* An expired item is removed when it is met.
MissL1(t, i, k) ==
  /\ task[t].pc = "idle"
  /\ ~Found(i, k)
  /\ l1' = [l1 EXCEPT ![i] = Without(@, {k})]
  /\ task' = [task EXCEPT ![t] = [pc |-> "reading", at |-> i, key |-> k, start |-> now]]
  /\ got' = Nothing
  /\ UNCHANGED <<now, l2, version, left>>

\* Redis still has it; the answer is on its way.
ReadL2(t) ==
  /\ task[t].pc = "reading"
  /\ l2[task[t].key] # Nothing
  /\ now <= l2[task[t].key].expiresAt
  /\ task' = [task EXCEPT ![t] = [pc |-> "promoting", at |-> @.at, key |-> @.key,
                                  start |-> @.start, entry |-> l2[@.key].entry]]
  /\ got' = Nothing
  /\ UNCHANGED <<now, l1, l2, version, left>>

\* Nothing there, or in an old format, or an error.
MissL2(t) ==
  /\ task[t].pc = "reading"
  /\ task' = [task EXCEPT ![t] = Free]
  /\ got' = Nothing
  /\ UNCHANGED <<now, l1, l2, version, left>>

\* Mutant of remaining: promotion starts a new life.
remainingAnew(e) == L1TTL

\* What the entry has left, capped by the ttl of the first tier.
remaining(e) == Shorter(e.lifetime - (now - e.storedAt), L1TTL)

Promote(t) ==
  /\ task[t].pc = "promoting"
  /\ l1' = [l1 EXCEPT ![task[t].at] = Kept(@, task[t].key, task[t].entry, remaining(task[t].entry))]
  /\ got' = Told("L2", task[t].entry)
  /\ task' = [task EXCEPT ![t] = Free]
  /\ UNCHANGED <<now, l2, version, left>>

-----------------------------------------------------------------------------
(* Layered.Set, as Manager.store calls it                                   *)

SetL1(t, i, k, lifetime) ==
  /\ task[t].pc = "idle"
  /\ version < MaxVersion
  /\ LET e == [version |-> version + 1, storedAt |-> now, lifetime |-> lifetime]
     IN  /\ l1' = [l1 EXCEPT ![i] = Kept(@, k, e, Shorter(lifetime + StaleGrace, L1TTL))]
         /\ task' = [task EXCEPT ![t] = [pc |-> "writing", key |-> k, start |-> now, entry |-> e]]
  /\ version' = version + 1
  /\ got' = Nothing
  /\ UNCHANGED <<now, l2, left>>

SetL2(t) ==
  /\ task[t].pc = "writing"
  /\ LET k == task[t].key  e == task[t].entry
     IN  /\ l2' = [l2 EXCEPT ![k] = [version |-> e.version, entry |-> e,
                                     expiresAt |-> now + e.lifetime + StaleGrace]]
         /\ Forgotten({k})
  /\ task' = [task EXCEPT ![t] = Free]
  /\ got' = Nothing
  /\ UNCHANGED <<now, l1, version>>

\* The write fails: the first tier keeps what the second never got.
SetL2Fails(t) ==
  /\ task[t].pc = "writing"
  /\ left' = [left EXCEPT ![task[t].entry.version] = now]
  /\ task' = [task EXCEPT ![t] = Free]
  /\ got' = Nothing
  /\ UNCHANGED <<now, l1, l2, version>>

-----------------------------------------------------------------------------
(* Invalidation                                                             *)

\* ResourceKeysForTypes
ResourceKeys(tenant, resource) ==
  {k \in Keys : k.tenant = tenant /\ k.resource = resource /\ k.plain}

\* Manager.Invalidate: one Layered.Delete after the other.
InvalidateKeys(t, i, tenant, resource) ==
  /\ task[t].pc = "idle"
  /\ ResourceKeys(tenant, resource) # {}
  /\ task' = [task EXCEPT ![t] = [pc |-> "deleting", at |-> i, start |-> now,
                                  todo |-> ResourceKeys(tenant, resource)]]
  /\ got' = Nothing
  /\ UNCHANGED <<now, l1, l2, version, left>>

DeleteL1(t) ==
  /\ task[t].pc = "deleting"
  /\ \E k \in task[t].todo :
       /\ l1' = [l1 EXCEPT ![task[t].at] = Without(@, {k})]
       /\ task' = [task EXCEPT ![t] = [pc |-> "unlinking", at |-> @.at, start |-> now,
                                       key |-> k, todo |-> @.todo \ {k}]]
  /\ got' = Nothing
  /\ UNCHANGED <<now, l2, version, left>>

\* The next key, also after an error, which is only counted.
NextKey(t) ==
  task' = [task EXCEPT ![t] = IF @.todo = {} THEN Free
                              ELSE [pc |-> "deleting", at |-> @.at, start |-> now, todo |-> @.todo]]

DeleteL2(t) ==
  /\ task[t].pc = "unlinking"
  /\ \/ l2' = [l2 EXCEPT ![task[t].key] = Nothing] /\ Forgotten({task[t].key})
     \/ UNCHANGED <<l2, left>>
  /\ NextKey(t)
  /\ got' = Nothing
  /\ UNCHANGED <<now, l1, version>>

\* InvalidateTenant: Layered.DeletePrefix with the tenant's prefix.  What comes
\* in while SCAN is under way it may find or miss.
DeletePrefixL1(t, i, tenant) ==
  /\ task[t].pc = "idle"
  /\ LET ks == {k \in Keys : k.tenant = tenant}
     IN  /\ l1' = [l1 EXCEPT ![i] = Without(@, ks)]
         /\ task' = [task EXCEPT ![t] = [pc |-> "scanning", start |-> now,
                                         todo |-> ks]]
  /\ got' = Nothing
  /\ UNCHANGED <<now, l2, version, left>>

\* A batch is unlinked; an error or the deadline ends the scan.
DeletePrefixL2(t) ==
  /\ task[t].pc = "scanning"
  /\ \/ \E batch \in (SUBSET task[t].todo) \ {{}} :
          /\ l2' = [k \in Keys |-> IF k \in batch THEN Nothing ELSE l2[k]]
          /\ Forgotten(batch)
          /\ task' = [task EXCEPT ![t] = [pc |-> "scanning", start |-> @.start,
                                          todo |-> @.todo \ batch]]
     \/ UNCHANGED <<l2, left>> /\ task' = [task EXCEPT ![t] = Free]
  /\ got' = Nothing
  /\ UNCHANGED <<now, l1, version>>

-----------------------------------------------------------------------------

deadline(pc) == IF pc = "scanning" THEN 10 * OpTime ELSE OpTime

LayeredTick ==
  /\ now < MaxNow
  /\ \A t \in Tasks : task[t].pc # "idle" => now - task[t].start < deadline(task[t].pc)
  /\ now' = now + 1
  /\ got' = Nothing
  /\ UNCHANGED <<l1, l2, task, version, left>>

LayeredNext ==
  \/ \E t \in Tasks :
       \/ \E i \in Instances :
            \/ \E k \in Keys : GetL1(t, i, k) \/ MissL1(t, i, k) \/ \E d \in Lifetimes : SetL1(t, i, k, d)
            \/ \E k \in Keys : InvalidateKeys(t, i, k.tenant, k.resource) \/ DeletePrefixL1(t, i, k.tenant)
       \/ ReadL2(t) \/ MissL2(t) \/ Promote(t)
       \/ SetL2(t) \/ SetL2Fails(t)
       \/ DeleteL1(t) \/ DeleteL2(t) \/ DeletePrefixL2(t)
  \/ LayeredTick

LayeredSpec == LayeredInit /\ [][LayeredNext]_layeredVars

-----------------------------------------------------------------------------
(* Properties                                                               *)

\* What Redis has lost, by a newer entry, an invalidation or a failed write,
\* no instance serves for longer than the first tier's ttl and one operation:
\* a promotion that crosses an invalidation revives an entry no longer.
GoneIsGone ==
  got # Nothing /\ left[got.version] # Never => now <= left[got.version] + L1TTL + OpTime

\* Copying an entry between tiers does not prolong its life: the first tier
\* never serves it beyond the lifetime and grace it was stored with, the
\* second only as long as its own write and the read were under way.
LifeNotProlonged ==
  got # Nothing =>
    now <= got.storedAt + got.lifetime + StaleGrace + (IF got.tier = "L1" THEN 0 ELSE 2 * OpTime)

=============================================================================
