CONSTANTS
  Request = {r1}
  Config <- AllConfigs
  Deleted = Deleted
  NoRow = NoRow
  NoReply = NoReply
  Header = {plain, cookie}
  Blocked = {cookie}
  MaxAsync = 1
SPECIFICATION FairSpec
CHECK_DEADLOCK FALSE
INVARIANTS
  RecordedReplyIsSent
