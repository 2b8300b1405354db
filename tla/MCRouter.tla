------------------------------- MODULE MCRouter -------------------------------
(***************************************************************************)
(* Instance of Router for TLC: one field per kind of supplier list that the *)
(* shipped configuration has.                                               *)
(***************************************************************************)
EXTENDS Router

MCSuppliers == [status          |-> <<"OPERATIONAL", "EXECUTION">>,
                configuration   |-> <<"OPERATIONAL">>,
                latestExecution |-> <<"EXECUTION">>]

MCTimes == 1..6

=============================================================================
