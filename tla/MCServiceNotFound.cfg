SPECIFICATION Spec
CONSTANTS
  Views = {"details"}
  Suppliers <- MCSuppliers
  FieldSets <- MCDetails
  Worlds <- MCWorlds
  Policies <- MCPolicies
  Overrides = {"status"}
INVARIANT
  NotFoundIsAnAnswer
