SPECIFICATION CoordSpec
CONSTANTS
  c1 = c1
  c2 = c2
  Cli = {c1, c2}
  Pid = {1, 2, 3, 4, 5, 6}
  Process = {c1, c2, 1, 2, 3, 4, 5, 6}
  Key = {1, 2}
  RowId = {1, 2, 3, 4, 5, 6}
  Absent = Absent
  NoRow = NoRow
  NoConfig = NoConfig
  NoProcess = NoProcess
  Gone = Gone
  Idle = Idle
  Budgets <- PromoteBudgets
CHECK_DEADLOCK FALSE
INVARIANTS
  OneStore
