------------------------------- MODULE Catalog -------------------------------
(***************************************************************************)
(* What the router and the application service share: the two sources, the *)
(* field catalogue (internal/policy/fields.go), and the routing decision    *)
(* (internal/router/router.go), with what the service may rely on in one.   *)
(***************************************************************************)
EXTENDS Integers, Sequences, FiniteSets

CONSTANT
  Suppliers  \* field -> the sources that can supply it, most authoritative first

Sources == {"OPERATIONAL", "EXECUTION"}
Kinds == Sources \cup {"NONE"}
Fields == DOMAIN Suppliers

ASSUME CatalogAssumption ==
  \A f \in Fields : Suppliers[f] \in Seq(Sources) /\ Suppliers[f] # <<>>

\* domain.ParseSourceKind: "both" is no source kind.
ParseSourceKind(name) == IF name \in Sources THEN name ELSE "NONE"

\* SourcesFor: the most authoritative supplier of each requested field.
SourcesFor(fields) == {Suppliers[f][1] : f \in fields}

\* ExclusiveTo: every requested field has one supplier, and it is the same.
ExclusiveTo(fields, source) ==
  fields # {} /\ \A f \in fields : Suppliers[f] = <<source>>

Includes(target, source) == target = source \/ target = "BOTH"

\* The primary source of a target, when the rule named none.
primaryOf(target) == CASE target = "BOTH" -> "OPERATIONAL" [] OTHER -> target

\* otherThan: the side that an answer of this one did not come from.
otherThan(kind) == CASE kind = "OPERATIONAL" -> "EXECUTION"
                     [] kind = "EXECUTION" -> "OPERATIONAL"
                     [] OTHER -> "NONE"

-----------------------------------------------------------------------------

\* A decision that Select may return: it names available sources only, keeps
\* exclusive fields with their source, and calls a source "primary unavailable"
\* only when the other one is down.
Offered(d, health, fields, strong) ==
  /\ d.target \in Kinds \cup {"BOTH"}
  /\ d.primary = primaryOf(d.target)
  /\ d.fallback \in Kinds
  /\ \A s \in Sources : Includes(d.target, s) => health[s] = "up"
  /\ \A s \in Sources :
       ExclusiveTo(fields, s) /\ d.target # "NONE" => d.target = s /\ d.fallback = "NONE"
  /\ d.rule = "health.primary_unavailable" /\ d.target # "NONE" =>
       /\ ~strong /\ SourcesFor(fields) # Sources
       /\ d.target # "BOTH" /\ health[otherThan(d.target)] = "down"

=============================================================================
