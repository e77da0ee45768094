\* All the schemas of MCSchemas with all the documents of MCDocuments.
SPECIFICATION Spec
CONSTANTS
  Definitions <- MCDefinitions
  Schemas <- MCSchemas
  Documents <- MCDocuments
  None = None
  Keys = {"a", "b"}
INVARIANTS
  TypeOK
  VerdictMatchesSchema
  EndsWithDocument
  ToldIfRefused
  DefaultsFilled
