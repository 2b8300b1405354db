-------------------------------- MODULE Gateway --------------------------------
(***************************************************************************)
(* What a request must pass before the application service sees it, and     *)
(* what the service is then asked: the authenticator and the authorisation  *)
(* (internal/security/auth.go), the parsing of the request                  *)
(* (internal/api/handler/resource.go) and the classifier                    *)
(* (internal/classifier/classifier.go).                                     *)
(*                                                                         *)
(* A step that refuses a request yields the status it is answered with.     *)
(* Whether a token's signature, dates, issuer and audience are right is     *)
(* jwt's to say (external): "valid" in the token.  Path ids, the cursor and *)
(* the names of the query parameters are right or wrong.                    *)
(***************************************************************************)
EXTENDS Integers

CONSTANTS
  RoleGrants,       \* rbac.roles: role -> permissions
  AllowInsecure,    \* security.allow_insecure_no_auth
  RequiredClaims,   \* jwt.required_claims
  KnownFields,      \* the fields of the catalogue
  MaxFields,        \* 32 in the code
  HistoryPageSize,  \* sources.execution.history_page_size
  MaxHistoryItems   \* sources.execution.max_history_items; 0 is no bound

ASSUME GatewayAssumption ==
  /\ AllowInsecure \in BOOLEAN /\ MaxFields \in Nat
  /\ HistoryPageSize \in Nat \ {0} /\ MaxHistoryItems \in Nat

Ok == 200
Refusal(status) == [status |-> status]
Refused(x) == x.status # Ok

-----------------------------------------------------------------------------
(* security                                                                 *)

NoToken == [kind |-> "none"]     \* no Authorization header, or not a Bearer one

permissionsFor(roles) == UNION {RoleGrants[r] : r \in roles \cap DOMAIN RoleGrants}

\* Local development: every role, for the tenant that the header names.
insecurePrincipal(q) ==
  [status |-> Ok, tenant |-> IF q.header = "" THEN "local" ELSE q.header,
   permissions |-> permissionsFor(DOMAIN RoleGrants)]

Authenticate(q) ==
  IF AllowInsecure THEN insecurePrincipal(q)
  ELSE IF q.token = NoToken \/ ~q.token.valid THEN Refusal(401)
  ELSE IF ~(RequiredClaims \subseteq q.token.claims) \/ q.token.tenant = "" THEN Refusal(401)
  ELSE [status |-> Ok, tenant |-> q.token.tenant, permissions |-> permissionsFor(q.token.roles)]

\* Mutant: the header decides.
ResolveTenantAsked(p, header) ==
  [status |-> Ok, tenant |-> IF header # "" THEN header ELSE p.tenant]

\* A header that names another tenant than the token is refused.
ResolveTenant(p, header) ==
  IF header \notin {"", p.tenant} THEN Refusal(403) ELSE [status |-> Ok, tenant |-> p.tenant]

Authorize(p, perm, defaultDeny) == perm \in p.permissions \/ ~defaultDeny

-----------------------------------------------------------------------------
(* handler                                                                  *)

\* The patterns of publicRoutes, the classifier's table of request types, and
\* the permission that each handler asks for.
Routes == {"read", "status", "configuration", "details", "executions", "execution"}

typeOf == [read          |-> "resource_read",
           status        |-> "resource_status",
           configuration |-> "resource_configuration",
           details       |-> "resource_details",
           executions    |-> "execution_history",
           execution     |-> "execution_status"]

permissionOf == [r \in Routes |-> IF r \in {"executions", "execution"} THEN "execution.read"
                                                                     ELSE "resource.read"]

\* A limit of 0 is one that the query does not have; Unset likewise.  Which
\* fields there are too many of is counted.
Unset == "unset"

\* Every 400 comes before the 403 of includeAudit, except the cursor's.
parse(q, p) ==
  IF ~q.wellFormed \/ q.fieldCount > MaxFields \/ q.limit < 0 \/ q.audit = "bad" THEN Refusal(400)
  ELSE IF q.audit = "true" /\ "execution.audit.read" \notin p.permissions THEN Refusal(403)
  ELSE IF q.longCursor THEN Refusal(400)
  ELSE [status |-> Ok, fields |-> q.fields, limit |-> q.limit, audit |-> q.audit = "true",
        consistency |-> q.consistency]

-----------------------------------------------------------------------------
(* classifier                                                               *)

\* ParseConsistency, as a rank.
ParseConsistency(level) ==
  CASE level = "strong" -> 2 [] level = "bounded" -> 1 [] level \in {"eventual", Unset} -> 0
    [] OTHER -> -1

DefaultFieldsFor(type) ==
  CASE type = "resource_status" -> {"status"}
    [] type = "resource_configuration" -> {"configuration"}
    [] type = "resource_read" -> {"status", "configuration", "owner"}
    [] type = "execution_status" -> {"executionStatus", "workflowSteps"}
    [] type = "execution_history" -> {"executionHistory"}
    [] type = "resource_details" -> {"status", "configuration", "owner", "executionHistory"}

\* The caller's fields, or the rule's, or those of the request type.
fieldsOf(in, rule, type) ==
  IF in.fields # {} THEN in.fields
  ELSE IF rule.fields # {} THEN rule.fields ELSE DefaultFieldsFor(type)

limitOf(in) ==
  LET asked == IF in.limit <= 0 THEN HistoryPageSize ELSE in.limit
  IN  IF MaxHistoryItems > 0 /\ asked > MaxHistoryItems THEN MaxHistoryItems ELSE asked

Stricter(a, b) == IF a > b THEN a ELSE b

\* rules: what ResolveRule makes of the current configuration for the tenant.
Classify(in, type, rules) ==
  IF type \notin DOMAIN rules THEN Refusal(500)
  ELSE IF ~(fieldsOf(in, rules[type], type) \subseteq KnownFields) THEN Refusal(400)
  ELSE IF ParseConsistency(in.consistency) < 0 THEN Refusal(400)
  ELSE [status |-> Ok, type |-> type, fields |-> fieldsOf(in, rules[type], type),
        consistency |-> Stricter(ParseConsistency(rules[type].consistency),
                                 ParseConsistency(in.consistency)),
        limit |-> limitOf(in), audit |-> in.audit]

=============================================================================
