SPECIFICATION Spec
CONSTANTS
  Builtin <- SampleBuiltin
  Environ <- SampleEnviron
  Revisions <- MCRevisions
  Documents <- MCDocuments
  Tenants = {"acme", "other"}
  MaxEdits = 2
  RoleGrants <- SampleRoleGrants
  AllowInsecure = FALSE
  RequiredClaims = {"sub"}
  KnownFields = {"status", "configuration", "owner", "executionStatus", "workflowSteps", "executionHistory"}
  MaxFields = 2
  HistoryPageSize = 2
  MaxHistoryItems = 4
  Sent <- MCSent
  Settings <- SampleSettings
  Connections = {"c1", "c2", "gate"}
  MaxReloads = 2
  MaxRequests = 2
INVARIANTS
  RuleNeverLost
  DrainedBeforeClosing
  StaleIsBounded
  ServedAsEntitled
PROPERTIES
  Converges
  ShutdownEnds
CHECK_DEADLOCK FALSE
