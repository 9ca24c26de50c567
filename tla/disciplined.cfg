SPECIFICATION DisciplinedSpec
CONSTANTS
  small = small
  large = large
  None = None
  Absent = Absent
  Torn = Torn
  Keys = {k1, k2}
  Contents = {small, large}
  Size <- MCSize
  Corrupt = {}
  Workers = {w1, w2}
  Ops = {"put", "copy", "upload", "tag", "delete", "batch", "sweep", "dropBucket", "makeBucket", "get"}
  Conds <- SomeConditions
  Declared = {TRUE}
  SameMs = TRUE
  Quota = 0
  MaxRequests = 4
  MaxCrashes = 0
INVARIANT RowMatchesBlob
PROPERTIES ImplementsAtomic 
CHECK_DEADLOCK FALSE
