------------------------------ MODULE Semaphore ------------------------------
(***************************************************************************)
(* What a bulkhead promises: a counting semaphore.  At most Capacity        *)
(* callers own a slot, a slot is owned from its acquisition to its release, *)
(* and a release may pass the slot straight to another caller.              *)
(***************************************************************************)
EXTENDS Integers, FiniteSets

CONSTANTS Callers, Capacity

VARIABLE owners

Init == owners = {}

Acquire(p) ==
  /\ p \notin owners
  /\ Cardinality(owners) < Capacity
  /\ owners' = owners \cup {p}

Release(p) ==
  /\ p \in owners
  /\ owners' = owners \ {p}

HandOver(p, q) ==
  /\ p \in owners
  /\ q \notin owners
  /\ owners' = (owners \ {p}) \cup {q}

Next ==
  \/ \E p \in Callers : Acquire(p) \/ Release(p)
  \/ \E p, q \in Callers : HandOver(p, q)

Spec == Init /\ [][Next]_owners

=============================================================================
