SPECIFICATION Spec
CONSTANTS
  Views = {"status", "details", "executions"}
  Suppliers <- MCSuppliers
  FieldSets <- MCFieldSets
  Worlds <- MCWorlds
  Policies <- MCPolicies
  Overrides = {"status"}
INVARIANTS
  UnavailableNamed
  ViewsAgree
PROPERTY
  IsLadder
