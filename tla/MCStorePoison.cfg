\* The MCP server, one failed write.
CONSTANTS
  t1 = t1
  t2 = t2
  Tenants = {t1, t2}
  FirstTenants = {t1}
  Limit = 1
  MaxDecisions = 3
  MaxCrashes = 2
  MaxFaults = 1
  Threshold = 4
  RefuseTornTail = TRUE
SPECIFICATION Spec
CHECK_DEADLOCK FALSE
INVARIANT ReopenRollsBack
