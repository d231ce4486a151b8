CONSTANTS
  Request = {r1, r2}
  Config <- AllConfigs
  Deleted = Deleted
  NoRow = NoRow
  NoReply = NoReply
  Header = {}
  Blocked = {}
  MaxAsync = 1
SPECIFICATION Spec
SYMMETRY Symmetric
CHECK_DEADLOCK FALSE
INVARIANTS
  NoOrphanRows
  ForwardedOnceIfAccepted
  StartedForwardShows
  CleanStopClosesRecords
  SlotsAreRunningForwards
  RequestAnnouncedFirst
PROPERTIES
  ForwardRecordSettles
