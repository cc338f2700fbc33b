SPECIFICATION Spec
CONSTANTS
  d1 = d1
  d2 = d2
  b1 = b1
  c1 = c1
  x = x
  y = y
  Absent = Absent
  Dead = Dead
  DocId = {d1, d2}
  BlobId = {b1}
  Content = {c1}
  Leaf = {x, y}
  Field <- MCField
  Val = {1}
  Proc = {1, 2}
  Dialects = {"sqlite", "postgres"}
  Calls <- MCCalls
  Indexes = {"f", "g"}
  NewIndexes <- MCNewIndexes
  DocTime <- MCDocTime
  Cutoffs = {2}
  NoGet = NoGet
  Filters <- MCFilters
  MaxCalls = 3
  MaxOps = 10
INVARIANTS
  IndexNeverStale
  ShippedIsLogged
  ReadsFindMatches
PROPERTIES
  SerialCommits
  LogGrows
CHECK_DEADLOCK FALSE
