-------------------------------- MODULE MCSource -------------------------------
(***************************************************************************)
(* Instance for TLC of what guards one data source: its bulkhead, and the   *)
(* calls that go through it.  The calls take the bulkhead for the semaphore *)
(* it implements, so that each behaviour is about one of the two.           *)
(***************************************************************************)
EXTENDS Executor, Bulkhead

VARIABLE focus

callVars == vars
sourceVars == <<focus, callVars, bulkheadVars>>

SourceInit == /\ Init /\ BulkheadInit
              /\ focus \in {"calls", "bulkhead"}
              /\ focus = "calls" => mode = "enabled"  \* plays no role there

OfCalls(A) == focus = "calls" /\ A /\ UNCHANGED <<focus, bulkheadVars>>
OfBulkhead(A) == focus = "bulkhead" /\ A /\ UNCHANGED <<focus, callVars>>

SourceNext == OfCalls(Next) \/ OfBulkhead(BulkheadNext)

\* The fairness of FairSpec and of BulkheadFairSpec, each for its own behaviours.
SourceFairness ==
  /\ \A c \in Calls : WF_sourceVars(OfCalls(Proceed(c))) /\ WF_sourceVars(OfCalls(Tick(c)))
  /\ \A p \in Callers : WF_sourceVars(OfBulkhead(GoesOn(p)))

SourceSpec == SourceInit /\ [][SourceNext]_sourceVars /\ SourceFairness

=============================================================================
