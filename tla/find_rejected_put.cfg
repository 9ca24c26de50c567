SPECIFICATION Spec
CONSTANTS
  small = small
  large = large
  None = None
  Absent = Absent
  Torn = Torn
  Keys = {k1}
  Contents = {small, large}
  Size <- MCSize
  Corrupt = {large}
  Workers = {w1}
  Ops = {"put"}
  Conds <- Unconditional
  Declared = {TRUE}
  SameMs = FALSE
  Quota = 0
  MaxRequests = 3
  MaxCrashes = 0
INVARIANT RowMatchesBlob
CHECK_DEADLOCK FALSE
