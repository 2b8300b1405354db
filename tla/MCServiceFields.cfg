SPECIFICATION Spec
CONSTANTS
  Views = {"details"}
  Suppliers <- MCSuppliers
  FieldSets <- MCFieldSets
  Worlds <- MCWorlds
  Policies <- MCPolicies
  Overrides = {"status"}
INVARIANT
  FieldsAnnounced
