SPECIFICATION Spec
CONSTANTS
  DocId = {d1}
  BlobId = {}
  Content = {c}
  Leaf = {x, y}
  Field <- MCField
  Val = {1}
  Absent = Absent
  Dead = Dead
  Node <- MCNode2
  Worker = {1, 2}
  Host <- MCOneHost
  First = 1
  Inputs <- MCInputs
  Kinds = {"deep", "shallow"}
  DocTime <- MCDocTime
  Cutoffs = {}
  Retainers = {}
  Importers = {}
  Modes = {}
  MayFailOver = FALSE
  Batch = 2
  MaxWrites = 2
  MaxMoves = 1
INVARIANTS
  DocsFollowLog
CHECK_DEADLOCK FALSE
