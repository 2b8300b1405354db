-------------------------------- MODULE Ladder --------------------------------
(***************************************************************************)
(* The degradation ladder that the application service promises: the        *)
(* preferred sources; in their place, if one is known to be down, what is    *)
(* left of them (narrowed) or the configured fallback (rerouted); the       *)
(* fallback after a call has failed; an expired cache entry; an error.      *)
(* What the router chooses for freshness counts as preferred.               *)
(*                                                                         *)
(* Nothing is given up without a failure: no fallback at call time, no      *)
(* stale answer and no error before one.  Strong consistency is answered by *)
(* the preferred sources or what is left of them.  A fallback after a       *)
(* failure never denies that a resource exists.  A source asked in place of *)
(* one that is down, and one that answers beside one that failed, may: the  *)
(* ladder does not promise that absence is confirmed.                       *)
(***************************************************************************)
VARIABLES
  rung,    \* "preferred", "narrowed", "rerouted", "fallback", "cache" or "stale"
  said,    \* "pending", "value", "notfound" or "error"; "nothing" at first
  strong,  \* whether the request asks for strong consistency
  failed   \* whether a call of it has failed, or no source was left to call

vars == <<rung, said, strong, failed>>

Init == rung = "preferred" /\ said = "nothing" /\ strong = FALSE /\ failed = FALSE

Ask ==
  /\ said # "pending"
  /\ said' = "pending"
  /\ rung' = "preferred"
  /\ strong' \in BOOLEAN
  /\ failed' = FALSE

\* A source is known to be down before anything is called.
Reroute ==
  /\ said = "pending" /\ rung = "preferred" /\ ~failed
  /\ rung' = "narrowed" \/ (~strong /\ rung' = "rerouted")
  /\ UNCHANGED <<said, strong, failed>>

Break ==
  /\ said = "pending"
  /\ failed' = TRUE
  /\ UNCHANGED <<rung, said, strong>>

\* One step down, once, after a failure, and never for a strong request.
Descend ==
  /\ said = "pending" /\ failed /\ ~strong
  /\ rung \in {"preferred", "narrowed", "rerouted"}
  /\ rung' = "fallback"
  /\ UNCHANGED <<said, strong, failed>>

\* The cache is looked at first, or last.
FromCache == ~strong /\ rung = "preferred" /\ ~failed /\ rung' = "cache"

Serve ==
  /\ said = "pending"
  /\ said' = "value"
  /\ rung' = rung \/ FromCache \/ (~strong /\ failed /\ rung' = "stale")
  /\ UNCHANGED <<strong, failed>>

Deny ==
  /\ said = "pending" /\ rung # "fallback"
  /\ said' = "notfound"
  /\ rung' = rung \/ FromCache
  /\ UNCHANGED <<strong, failed>>

Fail ==
  /\ said = "pending" /\ failed
  /\ said' = "error"
  /\ UNCHANGED <<rung, strong, failed>>

Next == Ask \/ Reroute \/ Break \/ Descend \/ Serve \/ Deny \/ Fail

Spec == Init /\ [][Next]_vars

=============================================================================
