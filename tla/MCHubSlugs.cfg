CONSTANTS
  Slug = {s1, s2}
  Client = {c1, c2}
  NoSlug = NoSlug
  NoBuffer = NoBuffer
  Blank = Blank
  Size = 2
  TTL = 0
  ChanCap = 2
  MaxSubscribers = 1
  MaxPublish = 3
  PublishUntil = 1
  MaxTime = 1
SPECIFICATION Spec
SYMMETRY Symmetric
INVARIANTS
  RegisteredIffOpen
  InOrderOfOwnSlug
  GapOnlyFromFullChannel
