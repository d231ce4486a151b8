CONSTANTS
  Request = {r1}
  Tab = {t1, t2}
  Slug = {s1, s2}
  NoSlug = NoSlug
  NoAnswer = NoAnswer
  Default = Default
  HoldTime = 1
  PendingTTL = 2
  MaxTime = 4
SPECIFICATION FairSpec
INVARIANTS
  PendingIffHeld
  ReplyFromOwnEndpoint
PROPERTIES
  ImplementsFirstAnswer
  EveryHeldRequestFinishes
