\* One tenant, a second provisioned later, and retries of forgotten keys.
CONSTANTS
  a = a
  b = b
  x1 = x1
  x2 = x2
  x3 = x3
  x4 = x4
  x5 = x5
  Tenants = {a, b}
  FirstTenants = {a}
  Ids = {x1, x2, x3, x4, x5}
  Capacity = 0
  MaxDecisions = 7
  MaxRefusals = 1
SYMMETRY Symmetry
SPECIFICATION Spec
CHECK_DEADLOCK FALSE
INVARIANTS
  FreshKeyKept
PROPERTY ShareKept
