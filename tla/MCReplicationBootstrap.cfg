SPECIFICATION Spec
CONSTANTS
  DocId = {d1}
  BlobId = {}
  Content = {c}
  Leaf = {x}
  Field <- MCField
  Val = {1}
  Absent = Absent
  Dead = Dead
  Node <- MCNode2
  Worker = {1, 2}
  Host <- MCOneHost
  First = 1
  Inputs <- MCInputs
  Kinds = {"deep"}
  DocTime <- MCDocTime
  Cutoffs = {}
  Retainers = {}
  Importers = {2}
  Modes <- MCRestore
  MayFailOver = FALSE
  Batch = 2
  MaxWrites = 3
  MaxMoves = 1
INVARIANTS
  NeverRefused
CHECK_DEADLOCK FALSE
