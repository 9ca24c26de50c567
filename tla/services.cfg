SPECIFICATION ServicesSpec
CONSTANTS
  private = private
  public = public
  asset = asset
  site = site
  None = None
  Buckets = {private, public}
  FirstBuckets <- MCBuckets
  FirstKeys <- MCKeys
  FirstDomains <- MCDomains
  Hosts = {asset, site}
  SubdomainOf <- MCSubdomainOf
  Reqs = {client}
  Permissions = {"FULL", "READ_ONLY", "WRITE_ONLY"}
  Lifetimes = {0, 3}
  DefaultLife = 1
  MaxLife = 2
  Second = 2
  Skew = 1
  Clocks <- MCClocks
  Ops = {"get", "list", "put", "delete", "public", "buckets"}
  Credentials = {"none", "url", "header", "secret"}
  MaxTime = 3
  MaxChanges = 2
  Digits <- MCDigits
  Signatures <- MCSignatures
  Bodies <- MCBodies
  Ranges = {0, 1, 2, 5}
  MaxLine = 3
  MaxChunk = 2
  MaxPiece = 3
  Gets = {g1, g2}
  Pollers = {p1, p2}
  Retention = 2
  MaxClock = 4
  MaxPolls = 3
SYMMETRY Symmetry
INVARIANTS ServicesTypeOK  OnlySentPayload RangeServed Metered
CHECK_DEADLOCK FALSE
