SPECIFICATION Spec
CONSTANTS
  A = A
  P = P
  D = D
  g1 = g1
  g2 = g2
  u = u
  guest = guest
  s1 = s1
  Node = {A, P, D}
  NoNode = NoNode
  NoPeer = NoPeer
  NoUser = NoUser
  FrameId = {1, 2, 3, 4, 5}
  Reaches <- MCReaches
  Local <- MCLocal
  Reverse <- MCReverse
  RoutesAtStart <- MCRoutes
  Requests <- MCRequests
  Budgets <- MCBudgets
  Group = {g1, g2}
  User = {u, guest}
  Command = {"work", "exec"}
  Bit = {}
  Scope = {s1}
  Unset = Unset
  Admin = {"a1"}
  Checker = {1, 2, 3, 4, 5}
  GuestGroup = g2
  GuestUser = guest
  NoGroup = NoGroup
  NoGrant = NoGrant
  Idle = Idle
  GroupsAtStart <- MCGroups
  GrantsAtStart <- MCGrants
  AdminOps <- MCAdminOps
CHECK_DEADLOCK FALSE
PROPERTIES
  DenyKept
