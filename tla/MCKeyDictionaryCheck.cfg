\* The counter check at the end of j_release, with two owners of one key.
SPECIFICATION Spec
CONSTANTS
  Threads = {t1, t2}
  Names = {x}
  Handles = {h1, h2}
  Cells = {c1, c2, c3}
  None = None
INVARIANT NeverComplains
