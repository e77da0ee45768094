\* jarray_append against what its documentation promises.
SPECIFICATION Spec
CONSTANTS
  Blocks = {b1, b2, b3}
  Names = {x}
  Handles = {h1, h2}
  Lost = {l1}
  MaxSize = 2
  Empty = x
  Const = Const
  None = None
PROPERTY AppendIsPut
