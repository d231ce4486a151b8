CONSTANTS
  Call = {c1, c2}
  MaxRequests = 3
  Check = 2
  Page = 3
  MaxEdits = 1
  MaxFailures = 1
SPECIFICATION TabSpec
INVARIANT ShownOnce
PROPERTY NewestShown
