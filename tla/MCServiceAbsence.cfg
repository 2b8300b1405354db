SPECIFICATION Spec
CONSTANTS
  Views = {"status"}
  Suppliers <- MCSuppliers
  FieldSets <- MCFieldSets
  Worlds <- MCNeverRun
  Policies <- MCPolicies
  Overrides = {"status"}
INVARIANT
  AbsenceConfirmed
