SPECIFICATION Spec
CONSTANTS
  DocId = {1, 2, 3, 4, 5, 6}
  BlobId = {}
  Content = {}
  Leaf = {"siteId", "createdAt", "status"}
  Field <- MCField
  Val = {1, 2}
  Absent = Absent
  Dead = Dead
  Site = {1, 2}
  NoSite = 0
  SiteRecord <- MCSites
  Pin <- MCPins
  JoinCode <- MCCodes
  AclRules <- MCRules
  Table = "orders"
  SiteScoped = TRUE
  NoHint = NoHint
  Service = {1, 2, 3}
  Cluster = {"offline", "online"}
  clusterId <- MCCluster
  writePrimary <- MCPrimary
  readFallbacks <- MCFallbacks
  timeField = "createdAt"
  Client = {c1, c2}
  Nobody = Nobody
  NoToken = NoToken
  NoCall = NoCall
  NoSub = NoSub
  Idle = Idle
  StoresAtStart <- MCStores
  LeadersAtStart <- MCLeaders
  DirectoryAtStart <- MCDirectory
  Budgets <- MCBudgets
INVARIANTS
  ViewsCatchUp
CHECK_DEADLOCK FALSE
