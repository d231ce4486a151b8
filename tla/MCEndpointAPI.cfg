CONSTANTS
  Caller = {c1, c2}
  MaxEndpoints = 3
  Slug = {a, b, c}
  n0 = n0
  n1 = n1
  s0 = s0
  s1 = s1
  Name = {n0, n1}
  Secret = {s0, s1}
  Primary = k2
  Former = k1
  Forgotten = k0
  c1 = c1
  c2 = c2
  r1 = r1
  i1 = i1
  i2 = i2
  Instance = {i1, i2}
  Home <- MCHome
  Outdated = {i2}
  Attempts = 2
  PageSize = 1
  StoredKeys <- MCStoredKeys
  Sent <- MCSent
  Request = {r1}
  Busy = {1}
  NoKey = NoKey
  Plain = Plain
  NoSecret = NoSecret
  Kept = Kept
  Cleared = Cleared
  NoSignature = NoSignature
  Absent = Absent
  Done = Done
  Refused = Refused
  NoEndpoint = NoEndpoint
SPECIFICATION APISpec
INVARIANTS
  AnsweredChangesStay
  ErrorsLeaveNoEdit
  SecretsAtRest
  BuffersHaveOwner
SYMMETRY Symmetry
CHECK_DEADLOCK FALSE
