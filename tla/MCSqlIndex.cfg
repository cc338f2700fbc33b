SPECIFICATION Spec
CONSTANTS
  d1 = d1
  d2 = d2
  b1 = b1
  c1 = c1
  x = x
  y = y
  Absent = Absent
  Dead = Dead
  DocId = {d1, d2}
  BlobId = {b1}
  Content = {c1}
  Leaf = {x, y}
  Field <- MCField
  Val = {1}
  Proc = {1}
  Dialects = {"sqlite"}
  Calls <- MCRestores
  Indexes = {}
  NewIndexes <- MCNoIndexes
  DocTime <- MCDocTime
  Cutoffs = {}
  NoGet = NoGet
  Filters = {}
  MaxCalls = 3
  MaxOps = 10
INVARIANT
  IndexFollowsDocs
CHECK_DEADLOCK FALSE
