SPECIFICATION Spec
CONSTANTS
  MemSize = 4
  Blocks = {b1, b2, b3}
  Users = {u1, u2, u3}
  PoolSlots = 2
  Parsers = {p1, p2}
  Chunks = {c1, c2, c3}
  Strings = {s1, s2, s3}
  ChunkSize = 2
  Lengths = {1, 3}
  Elements = {1, 2, 3}
  Fillings <- MCFillings
  Manners <- MCManners
  Capacity = 7
  Splices = 2
  Width = 8
  IntWidth = 5
  ExpWidth = 6
  Mantissa = 3
  LongMantissa = 5
  Scale = 8
  Tolerance = 64
  Digits = {0, 1, 2, 8}
  TextLength = 6
  Nodes <- MCNodes
  Documents <- MCDocuments
  Questions <- MCQuestions
  Restarts = 1
  GenValues <- MCGenValues
  GenConstants = {"null"}
  Stringified = {"document", "list", "null"}
  Stringifiers = {w1, w2}
  YajlMaxDepth = 4
  GivenTables <- MCTables
  Ranks = {0, 1, 2, 3, 4}
  AsDouble <- MCAsDouble
  Duplications = 2
  CxxSchemas = {g1}
  CxxHandlers = {k1}
  CxxDocs = {d1, d2}
SYMMETRY Symmetry
INVARIANTS
  BlocksKeepContents
  ParsersAccounted
  StringsStand
  SplicedAsAsked
  NumberTold
  NumbersOrdered
  QueryAnswered
  TextsStand
  ErrorsTold
  ValuesOrdered
  CxxParserStands
