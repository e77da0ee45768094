\* "not" of a schema that an object fails to follow in one of its members.
SPECIFICATION Spec
CONSTANTS
  Definitions <- MCDefinitions
  Schemas <- NotSchemas
  Documents <- MCDocuments
  None = None
  Keys = {"a", "b"}
INVARIANTS
  NotOfRefused
