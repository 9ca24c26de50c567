SPECIFICATION Spec
CONSTANTS
  Customers = {c1}
  Domains = {d1, d2}
  Ids = {i1, i2}
  Procs = {p1, p2}
  Ports <- MCPorts
  MaxPerCustomer = 1
  MaxActive = 2
  Smtp = FALSE
  MaxMishaps = 1
INVARIANTS TypeOK StatusMatchesContainer RoutesCatchUp  LimitHolds
SYMMETRY Symmetry
CHECK_DEADLOCK FALSE
