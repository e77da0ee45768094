SPECIFICATION Spec
CONSTANTS
  Files = {"A", "B", "C"}
  Worlds <- MCWorlds
  First = "A"
  None = None
  Generic = Generic
  Arrays = Arrays
  Objects = Objects
  Numbers = Numbers
  Strings = Strings
  Booleans = Booleans
  Nulls = Nulls
  Plain = {"required", "objectLimit", "arrayLimit", "numberLimit", "stringLimit"}
  Types = {Objects}
  Keys = {"k"}
  Tokens = 5
  Deepest = 4
  Widest = 2
  Matching = 1
INVARIANTS
  ResolveAnswers
  ReferencesFind
  ValidatorsCounted
  NothingLeft
  FinishedSchema
PROPERTIES
  ResolveEnds
CHECK_DEADLOCK FALSE
