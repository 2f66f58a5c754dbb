\* One tenant's calls against the other tenant's keys.
CONSTANTS
  a = a
  b = b
  x1 = x1
  x2 = x2
  x3 = x3
  x4 = x4
  x5 = x5
  Tenants = {a, b}
  FirstTenants = {a, b}
  Ids = {x1, x2, x3, x4, x5}
  Capacity = 0
  MaxDecisions = 9
  MaxRefusals = 0
SYMMETRY Symmetry
SPECIFICATION Spec
CHECK_DEADLOCK FALSE
INVARIANT FloodEvictsOnlyOwn
