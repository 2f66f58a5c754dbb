\* The process dies after an operator's audit is done and before it is settled.
CONSTANTS
  r1 = r1
  r2 = r2
  NoRequest = NoRequest
  Requests = {r1, r2}
  Ingests = {r1}
  Direct = {r2}
  Audits = {r2}
  Limit = 2
  MaxAttempts = 1
  MaxCrashes = 1
  MaxFaults = 0
  SplitCheckpoint = FALSE
SPECIFICATION Spec
CHECK_DEADLOCK FALSE
INVARIANT AuditWindowClosed
