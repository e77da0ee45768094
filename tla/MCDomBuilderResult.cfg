\* Two levels of containers; a document that fails after a value.
SPECIFICATION DomSpec
CONSTANTS
  Blocks = {b1, b2}
  Names = {x, t}
  Text = t
  Empty = t
  Handles = {h1, h2, h3, h4, h5}
  Lost = {l1}
  MaxSize = 1
  MaxDepth = 2
  MaxResults = 1
  Const = Const
  None = None
PROPERTIES
  ErrorGivesInvalid
