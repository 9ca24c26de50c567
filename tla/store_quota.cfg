SPECIFICATION Spec
CONSTANTS
  small = small
  large = large
  None = None
  Absent = Absent
  Torn = Torn
  Keys = {k1, k2, k3}
  Contents = {small, large}
  Size <- MCSize
  Corrupt = {}
  Workers = {w1, w2}
  Ops = {"put", "copy", "upload", "delete"}
  Conds <- Unconditional
  Declared = {TRUE, FALSE}
  SameMs = FALSE
  Quota = 2
  MaxRequests = 4
  MaxCrashes = 0
SYMMETRY Symmetry
INVARIANT QuotaOvershootBounded
CHECK_DEADLOCK FALSE
