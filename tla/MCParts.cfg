CONSTANTS
  Size = 3
  TTL = 1
  Blank = Blank
  Message = {m1, m2}
  MaxPush = 6
  MaxTime = 4
  Horizon = 7
  Worker = {w1, w2, w3}
  PoolSize = 2
  NoRuntime = NoRuntime
  Job = {j1, j2}
  MaxRetries = 2
  AllowPrivate = TRUE
  Address = {"private", "metadataIMDSv2"}
  Allowed = {j1}
  MaxServed = 4
  NoResult = NoResult
  Client = {a, b}
  Unit = 2
  Rate = 1
  Burst = 2
  MaxClients = 1
  ForgetAfter = 4
  MaxGranted = 5
  Body = {b1, b2}
  Id = {own, m1}
  OwnId = own
  Tolerance = 1
  LastTick = 2
  MaxMade = 2
  Settings <- MCSettings
  Nothing = Nothing
  Named = {s, t, p, q, junk}
  Host = {s, t, p, q}
  Trusted = {p, q}
  NoAddress = NoAddress
  MaxWritten = 2
  MaxHops = 2
SPECIFICATION PartsSpec
INVARIANTS
  SlotsMirrorHistory
  DrainIsRecentSuffix
  RuntimesBounded
  OnlyCleanHandedOut
  LeftoversAreLate
  AttemptsExplained
  WithinRate
  ResignedWasSigned
  ResignedVerifies
  SenderKnown
PROPERTY CallsReturn
CHECK_DEADLOCK FALSE
