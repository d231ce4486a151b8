CONSTANTS
  Slug = {s1}
  Client = {c1}
  NoSlug = NoSlug
  NoBuffer = NoBuffer
  Blank = Blank
  Size = 2
  TTL = 1
  ChanCap = 2
  MaxSubscribers = 1
  MaxPublish = 4
  PublishUntil = 2
  MaxTime = 4
SPECIFICATION FairSpec
PROPERTIES
  CatchUpComplete
  ImplementsCatchUpLog
  BuffersReclaimed
