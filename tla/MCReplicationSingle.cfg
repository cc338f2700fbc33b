SPECIFICATION FairSpec
CONSTANTS
  DocId = {d1}
  BlobId = {}
  Content = {c}
  Leaf = {x}
  Field <- MCField
  Val = {1}
  Absent = Absent
  Dead = Dead
  Node <- MCNode3
  Worker = {1, 2}
  Host <- MCOneHost
  First = 1
  Inputs <- MCInputs
  Kinds = {"deep"}
  DocTime <- MCDocTime
  Cutoffs = {2}
  Retainers = {1}
  Importers = {}
  Modes = {}
  MayFailOver = FALSE
  Batch = 2
  MaxWrites = 2
  MaxMoves = 1
INVARIANTS
  PrefixOfLeader
  NeverRefused
PROPERTIES
  IsOneLog
  CaughtUp
CHECK_DEADLOCK FALSE
