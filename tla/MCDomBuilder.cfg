\* Three levels of containers, two keys, arrays of two elements, one result.
SPECIFICATION DomSpec
CONSTANTS
  Blocks = {b1, b2, b3, b4}
  Names = {x, y, t}
  Text = t
  Handles = {h1, h2, h3, h4, h5, h6}
  Lost = {l1}
  MaxSize = 2
  Empty = t
  MaxDepth = 3
  MaxResults = 1
  Const = Const
  None = None
SYMMETRY Symmetry
INVARIANTS
  CallbacksFit
  OpenContainersLinked
  AllReleased
PROPERTIES
  ImplementsDocument
