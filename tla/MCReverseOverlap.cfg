SPECIFICATION FairSpec
CONSTANTS
  Conn = {1, 2}
  Req = {1, 2}
  Leased = {2}
  MaxFaults = 2
PROPERTIES
  LinkEnds
CHECK_DEADLOCK FALSE
