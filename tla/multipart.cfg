SPECIFICATION FairSpec
CONSTANTS
  large = large
  bad = bad
  None = None
  Absent = Absent
  Torn = Torn
  Uploads = {u1}
  Parts = {1, 2, 3}
  Contents = {large, bad}
  Size <- MCSize
  Lists <- MCLists
  Corrupt = {bad}
  Workers = {w1, w2}
  Quota = 2
  MaxRequests = 4
  MaxCrashes = 1
INVARIANTS TypeOK AcknowledgedPartKept PartsOvershootBounded NoOrphanParts
PROPERTIES PublishedAsListed UploadsEnd
CHECK_DEADLOCK FALSE
