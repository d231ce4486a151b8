CONSTANTS
  Slug = {s1}
  Client = {c1}
  NoSlug = NoSlug
  NoBuffer = NoBuffer
  Blank = Blank
  Size = 3
  TTL = 1
  ChanCap = 2
  MaxSubscribers = 1
  MaxPublish = 4
  PublishUntil = 1
  MaxTime = 3
SPECIFICATION FairSpec
PROPERTIES
  CatchUpComplete
