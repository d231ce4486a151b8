CONSTANTS
  Request = {r1}
  Config <- MoreConfigs
  Deleted = Deleted
  NoRow = NoRow
  NoReply = NoReply
  Header = {plain, cookie}
  Blocked = {cookie}
  MaxAsync = 1
SPECIFICATION FairSpec
CHECK_DEADLOCK FALSE
PROPERTIES
  EveryRequestEnds
