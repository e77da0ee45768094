\* Safety: three threads, so that two lookups can meet one destructor; two
\* names; three references; five blocks.
SPECIFICATION Spec
CONSTANTS
  Threads = {t1, t2, t3}
  Names = {x, y}
  Handles = {h1, h2, h3}
  Cells = {c1, c2, c3, c4, c5}
  None = None
SYMMETRY Symmetry
INVARIANTS
  TypeOK
  NoDanglingKey
  OneKeyPerName
  CountsExact
  StealRemovesSameKey
  DestroyedOnce
  NoLeak
