SPECIFICATION Spec
CONSTANTS
  small = small
  large = large
  None = None
  Absent = Absent
  Torn = Torn
  Keys = {k1, k2}
  Contents = {small, large, bad}
  Size <- MCSize
  Corrupt = {bad}
  Workers = {w1, w2}
  Ops = {"put", "copy", "tag", "delete", "batch", "sweep", "dropBucket", "makeBucket", "get"}
  Conds <- Unconditional
  Declared = {TRUE}
  SameMs = FALSE
  Quota = 0
  MaxRequests = 4
  MaxCrashes = 1
SYMMETRY Symmetry
INVARIANTS TypeOK  RowsVerified ChecksumOfContent
CHECK_DEADLOCK FALSE
