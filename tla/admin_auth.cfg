SPECIFICATION FairSpec
CONSTANTS
  Ips = {a, b}
  Tokens = {t1}
  Workers = {w1, w2}
  FailThreshold = 2
  GlobalThreshold = 6
  IpCooldown = 2
  GlobalCooldown = 1
  FailWindow = 3
  MaxCooldown = 2
  Ttl = 2
  MaxAge = 3
  Bounds <- MCBounds
INVARIANTS TypeOK SessionsExpire GlobalNeedsTwoSources
PROPERTIES DeletedStaysDeleted SessionsAndLocksEnd
CHECK_DEADLOCK FALSE
