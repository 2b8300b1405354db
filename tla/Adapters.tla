------------------------------- MODULE Adapters -------------------------------
(***************************************************************************)
(* What the adapters of the two sources make of a failed call               *)
(* (internal/datasource/operational/adapter.go, execution/adapter.go), what *)
(* the mappers refuse (internal/mapper), and how the resilience layer reacts *)
(* to the codes of pkg/errs.                                                *)
(*                                                                         *)
(* A status of one protocol that is translated like another stands for it.  *)
(***************************************************************************)

\* gRPC statuses; "none" is an error that carries no status.
Statuses == {"NotFound", "InvalidArgument", "PermissionDenied", "Unauthenticated",
             "DeadlineExceeded", "ResourceExhausted", "Unavailable", "Unimplemented", "Internal",
             "none"}

classify(status) ==
  CASE status = "NotFound" -> "NOT_FOUND"
    [] status = "InvalidArgument" -> "INVALID_REQUEST"
    [] status = "PermissionDenied" -> "FORBIDDEN"
    [] status = "Unauthenticated" -> "UNAUTHENTICATED"
    [] status = "DeadlineExceeded" -> "UPSTREAM_TIMEOUT"
    [] status = "ResourceExhausted" -> "RATE_LIMITED"
    [] status = "Unimplemented" -> "SCHEMA_VERSION_MISMATCH"
    [] OTHER -> "UPSTREAM_UNAVAILABLE"

\* HTTP statuses that are not a success.
HTTPStatuses == {400, 401, 403, 404, 429, 500, 504}

classifyStatus(status) ==
  CASE status = 404 -> "NOT_FOUND"
    [] status = 401 -> "UNAUTHENTICATED"
    [] status = 403 -> "FORBIDDEN"
    [] status = 429 -> "RATE_LIMITED"
    [] status = 400 -> "INVALID_REQUEST"
    [] status = 504 -> "UPSTREAM_TIMEOUT"
    [] OTHER -> "UPSTREAM_UNAVAILABLE"

classifyTransport(timedOut) == IF timedOut THEN "UPSTREAM_TIMEOUT" ELSE "UPSTREAM_UNAVAILABLE"

\* get: the request could not be built, or the answer is no document.
get == {"INTERNAL", "UPSTREAM_INVALID_PAYLOAD"} \cup {classifyStatus(s) : s \in HTTPStatuses}
         \cup {classifyTransport(b) : b \in BOOLEAN}

\* One and Resource: a schema version that is not accepted, another tenant's
\* record, or one without its id.
mapped == {"SCHEMA_VERSION_MISMATCH", "TENANT_MISMATCH", "UPSTREAM_INVALID_PAYLOAD"}

\* Every code a call may fail with.  A cancelled call is apart from these.
Codes == {classify(s) : s \in Statuses} \cup get \cup mapped

-----------------------------------------------------------------------------
(* The reactions                                                            *)

isClientFault(code) ==
  code \in {"NOT_FOUND", "INVALID_REQUEST", "FORBIDDEN", "UNAUTHENTICATED", "TENANT_MISMATCH",
            "SCHEMA_VERSION_MISMATCH"}

defaultRetryable(code) ==
  code \in {"UPSTREAM_TIMEOUT", "UPSTREAM_UNAVAILABLE", "RATE_LIMITED", "NO_SOURCE_AVAILABLE"}

\* The codes that executor and retrier do not tell apart.
reaction(code) ==
  CASE isClientFault(code) -> "client fault"
    [] defaultRetryable(code) -> "unusable"
    [] OTHER -> "invalid payload"

=============================================================================
