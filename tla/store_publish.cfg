SPECIFICATION FairSpec
CONSTANTS
  small = small
  large = large
  None = None
  Absent = Absent
  Torn = Torn
  Keys = {k1, k2}
  Contents = {small, large}
  Size <- MCSize
  Corrupt = {}
  Workers = {w1, w2}
  Ops = {"put", "copy", "upload", "get"}
  Conds <- Unconditional
  Declared = {TRUE}
  SameMs = TRUE
  Quota = 0
  MaxRequests = 3
  MaxCrashes = 2
INVARIANT RowHasBlob
PROPERTY LitterRemoved
CHECK_DEADLOCK FALSE
