------------------------------ MODULE MCService ------------------------------
(***************************************************************************)
(* Instances of Service for TLC: one field per kind of supplier list, the   *)
(* ways a workflow and its in-flight marker can stand to each other, and     *)
(* required_sources as shipped and unset.                                   *)
(***************************************************************************)
EXTENDS Service

MCSuppliers == [status          |-> <<"OPERATIONAL", "EXECUTION">>,
                configuration   |-> <<"OPERATIONAL">>,
                latestExecution |-> <<"EXECUTION">>]

MCFieldSets == {{"status"}, {"configuration"}, {"status", "configuration", "latestExecution"}}
\* The fields of the details view.
MCDetails == {{"status", "configuration", "latestExecution"}}

Of(ops, known, marker, latest, predicts) ==
  [ops |-> ops, known |-> known, marker |-> marker, latest |-> latest, predicts |-> predicts]

\* A resource on which no workflow has run.
MCNeverRun == {Of("FRESH", TRUE, "none", "none", TRUE)}

\* Nothing; no workflow; one that runs, has ended, or was left behind in the
\* marker; sources that know no status.
MCWorlds == MCNeverRun \cup
            {Of("absent", TRUE, "none", "none", TRUE),
             Of("FRESH", TRUE, "latest", "running", TRUE),
             Of("FRESH", TRUE, "older", "finished", TRUE),
             Of("STALE", TRUE, "latest", "running", TRUE),
             Of("FRESH", FALSE, "latest", "running", TRUE),
             Of("UNKNOWN", TRUE, "latest", "running", FALSE)}

Optional == [OPERATIONAL |-> "yes", EXECUTION |-> "no"]
Unset == [s \in Sources |-> "unset"]
MCPolicies == {[required |-> Optional, allowStale |-> TRUE, resolves |-> TRUE],
               [required |-> Unset, allowStale |-> FALSE, resolves |-> TRUE]}

=============================================================================
