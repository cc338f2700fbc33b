SPECIFICATION Spec
CONSTANTS
  DocId = {d1, d2}
  BlobId = {b}
  Content = {c}
  Leaf = {x, y}
  Field <- MCField
  Val = {1}
  Absent = Absent
  Dead = Dead
  Node <- MCNode2
  Worker = {1, 2}
  Host <- MCHosts
  First = 1
  Inputs <- MCInputs
  Kinds = {"deep"}
  DocTime <- MCDocTime
  Cutoffs = {2}
  Retainers <- MCNode2
  Importers <- MCNode2
  Modes <- MCModes
  MayFailOver = TRUE
  Batch = 2
  MaxWrites = 2
  MaxMoves = 2
INVARIANTS
  TypeOK
  LogInStep
  DocsFollowLog
CHECK_DEADLOCK FALSE
