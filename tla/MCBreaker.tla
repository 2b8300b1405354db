------------------------------ MODULE MCBreaker ------------------------------
(***************************************************************************)
(* Instance of Breaker for TLC, with a source that may recover.             *)
(*                                                                         *)
(* srcUp is the environment: from the moment it becomes true no failure is  *)
(* reported any more, neither by new calls nor by stragglers.  Client       *)
(* faults may still be.  It becomes true while there is still room on the   *)
(* bounded clock for one more OpenTimeout.  Until then every step of the    *)
(* breaker is possible.                                                     *)
(***************************************************************************)
EXTENDS Breaker

VARIABLE srcUp

allVars == <<vars, srcUp>>

RInit == Init /\ srcUp = FALSE

SourceRecovers ==
  /\ ~srcUp
  /\ now + OpenTimeout <= MaxClock
  /\ srcUp' = TRUE
  /\ UNCHANGED vars

\* With the source well, the time the bounded clock has left is kept for the
\* open timer: it does not run on while the circuit is closed or probing.
Elapse == Tick /\ (srcUp => CurState = "open")

RNext ==
  \/ /\ \/ \E c \in Calls : Allow(c) \/ RecordSuccess(c) \/ Abstain(c) \/ EndDisabled(c)
        \/ \E c \in Calls : ~srcUp /\ RecordFailure(c)
        \/ PollState
        \/ Elapse
     /\ UNCHANGED srcUp
  \/ SourceRecovers

\* Goroutines are scheduled (weak fairness on every call's admission and on
\* its end), the clock runs, and callers do not make client faults for ever:
\* a success that could be reported again and again is reported.
Fairness ==
  /\ WF_allVars(Elapse /\ UNCHANGED srcUp)
  /\ \A c \in Calls :
       /\ WF_allVars(Allow(c) /\ UNCHANGED srcUp)
       /\ WF_allVars((RecordSuccess(c) \/ Abstain(c)) /\ UNCHANGED srcUp)
       /\ SF_allVars(RecordSuccess(c) /\ UNCHANGED srcUp)

RSpec == RInit /\ [][RNext]_allVars /\ Fairness

\* A source that has recovered is re-admitted: whatever calls were in flight,
\* whatever probe slots they held, and however many client faults come in
\* between, the breaker ends up closed and stays so.
Recovery == srcUp ~> [](state = "closed")

=============================================================================
