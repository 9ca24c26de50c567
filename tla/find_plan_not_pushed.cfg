SPECIFICATION Spec
CONSTANTS
  StripeIds = {x, y}
  Subs = {s1, s2}
  Workers = {w1, w2}
  None = None
  Limits <- MCLimits
INVARIANT QuotaFollowsPlan
CHECK_DEADLOCK FALSE
