\* Two containers and a key, or three containers; arrays of two elements;
\* one constant before a call and up to three references to each value.
SPECIFICATION Spec
CONSTANTS
  Blocks = {b1, b2, b3}
  Names = {x}
  Handles = {h1, h2}
  Lost = {l1}
  MaxSize = 2
  Empty = x
  Const = Const
  None = None
CONSTRAINTS
  FewConstants
  FewReferences
SYMMETRY Symmetry
INVARIANTS
  CountsExact
  Acyclic
  NothingUnreachable
  WellFormed
