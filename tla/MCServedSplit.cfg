\* Core's checkpoint fails between its two files.
CONSTANTS
  r1 = r1
  r2 = r2
  NoRequest = NoRequest
  Requests = {r1, r2}
  Ingests = {r1}
  Direct = {}
  Audits = {}
  Limit = 2
  MaxAttempts = 2
  MaxCrashes = 0
  MaxFaults = 1
  SplitCheckpoint = TRUE
SPECIFICATION Spec
CHECK_DEADLOCK FALSE
INVARIANT EffectOnce
