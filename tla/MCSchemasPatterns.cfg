SPECIFICATION BuildSpec
CONSTANTS
  None = None
  Generic = Generic
  Arrays = Arrays
  Objects = Objects
  Numbers = Numbers
  Strings = Strings
  Booleans = Booleans
  Nulls = Nulls
  Plain = {}
  Types = {}
  Keys = {"k"}
  Tokens = 6
  Deepest = 3
  Widest = 2
  Matching = 2
INVARIANTS
  SchemaStands
CHECK_DEADLOCK FALSE
