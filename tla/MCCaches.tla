-------------------------------- MODULE MCCaches --------------------------------
(***************************************************************************)
(* Instance of the two-tier cache and of the probe memo for TLC.  They      *)
(* share no state and neither calls the other, so nothing is lost by        *)
(* letting each behaviour be about one of them.                             *)
(***************************************************************************)
EXTENDS Layered, ProbeMemo

VARIABLE focus

vars == <<focus, layeredVars, memoVars>>

\* A plain view of a resource, and one with a variant in its key.
CacheKeys == {[tenant |-> "acme", resource |-> "r1", plain |-> p] : p \in BOOLEAN}

SourceSkews == {-2, 1}

Init == /\ LayeredInit /\ MemoInit
        /\ focus \in {"layered", "memo"}
        \* What plays no role:
        /\ focus = "layered" => tells /\ skew = 1 /\ \A r \in Records : updated[r] = NoTime

Next == \/ focus = "layered" /\ LayeredNext /\ UNCHANGED <<focus, memoVars>>
        \/ focus = "memo" /\ MemoNext /\ UNCHANGED <<focus, layeredVars>>

Spec == Init /\ [][Next]_vars

Symmetry == Permutations(Instances) \cup Permutations(Tasks)

=============================================================================
