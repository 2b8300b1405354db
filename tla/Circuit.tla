------------------------------- MODULE Circuit -------------------------------
(***************************************************************************)
(* What a circuit breaker promises, whatever it counts: the circuit opens   *)
(* only when a call fails, closes only when one succeeds after the circuit  *)
(* has half-opened, and admits nobody while it is open.  An admission or an *)
(* outcome may find that the open period is over; the circuit then          *)
(* half-opens in the same step.                                             *)
(***************************************************************************)
CONSTANT Calls

VARIABLES
  state,     \* "closed", "open" or "halfopen"
  admitted   \* the calls that are talking to the source

Init == state = "closed" /\ admitted = {}

\* The states an operation may find: an open circuit may be due.
Found == IF state = "open" THEN {"open", "halfopen"} ELSE {state}

Admit(c) ==
  /\ c \notin admitted
  /\ admitted' = admitted \cup {c}
  /\ \E s \in Found \ {"open"} : state' = s

Reject(c) ==
  /\ c \notin admitted
  /\ \E s \in Found \ {"closed"} : state' = s
  /\ UNCHANGED admitted

Leave(c) == c \in admitted /\ admitted' = admitted \ {c}

Succeed(c) ==
  /\ Leave(c)
  /\ \E s \in Found : \/ state' = s
                      \/ s = "halfopen" /\ state' = "closed"

Fail(c) ==
  /\ Leave(c)
  /\ \E s \in Found : \/ s # "halfopen" /\ state' = s
                      \/ s # "open" /\ state' = "open"

\* An outcome that says nothing about the source.
Withdraw(c) == Leave(c) /\ UNCHANGED state

Cool == state = "open" /\ state' = "halfopen" /\ UNCHANGED admitted

Next ==
  \/ \E c \in Calls : Admit(c) \/ Reject(c) \/ Succeed(c) \/ Fail(c) \/ Withdraw(c)
  \/ Cool

Spec == Init /\ [][Next]_<<state, admitted>>

=============================================================================
