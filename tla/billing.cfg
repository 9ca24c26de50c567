SPECIFICATION FairSpec
CONSTANTS
  StripeIds = {x, y}
  Subs = {s1, s2}
  Workers = {w1, w2}
  None = None
  Limits <- MCLimits
INVARIANTS TypeOK RowMatchesStripe PaidCustomerKnown 
PROPERTIES EventsAcknowledged
CHECK_DEADLOCK FALSE
