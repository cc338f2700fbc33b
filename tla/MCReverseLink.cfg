SPECIFICATION FairSpec
CONSTANTS
  Conn = {1, 2}
  Req = {1, 2}
  Leased = {2}
  MaxFaults = 2
INVARIANTS
  TypeOK
  ClosedIsQuiet
  RunsInOrder
  NoneWaitsOnNone
PROPERTIES
  LinkKept
  LinkEndsAlone
CHECK_DEADLOCK FALSE
