\* Refinement and liveness: three threads contend for one name.
SPECIFICATION FairSpec
CONSTANTS
  Threads = {t1, t2, t3}
  Names = {x}
  Handles = {h1, h2}
  Cells = {c1, c2, c3, c4}
  None = None
PROPERTIES
  ImplementsInternTable
  LookupsReturn
  DyingKeysFreed
