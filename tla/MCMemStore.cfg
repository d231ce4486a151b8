CONSTANTS
  Endpoint = {e1, e2}
  Request = {r1, r2, r3}
  Slug = {s1, s2}
  Config = {default}
  DefaultConfig = default
  NoConfig = NoConfig
  Client = {c}
  RowSize = {0, 1}
  MaxBytes = 1
  MaxCount = 2
  MaxStarts = 2
  MaxWrites = 5
SPECIFICATION Spec
SYMMETRY Symmetric
INVARIANTS
  IndexesAgree
  UnsavedIsDirty
  CleanCloseLosesNothing
PROPERTIES
  OnlyWholeSnapshots
  PrunesLikePostgres
CHECK_DEADLOCK FALSE
