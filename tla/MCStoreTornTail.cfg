\* A caller that goes on after a torn tail, and no I/O error.
CONSTANTS
  t1 = t1
  t2 = t2
  Tenants = {t1, t2}
  FirstTenants = {t1}
  Limit = 1
  MaxDecisions = 3
  MaxCrashes = 2
  MaxFaults = 0
  Threshold = 4
  RefuseTornTail = FALSE
SPECIFICATION Spec
CHECK_DEADLOCK FALSE
INVARIANT TornTailDiscarded
