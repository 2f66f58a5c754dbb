\* Retries, crashes and I/O errors around the effect of two requests.
CONSTANTS
  r1 = r1
  r2 = r2
  NoRequest = NoRequest
  Requests = {r1, r2}
  Ingests = {r1}
  Direct = {r2}
  Audits = {}
  Limit = 2
  MaxAttempts = 3
  MaxCrashes = 2
  MaxFaults = 2
  SplitCheckpoint = FALSE
SPECIFICATION PartsSpec
CHECK_DEADLOCK FALSE
INVARIANTS
  EffectOnce
  RecordsTruthful
  ProjectionNotLost
  RefusalExplained
  TightSafe
  CapturedExactly
  FlushDelivers
PROPERTIES
  EffectGetsBilled
  RefinesContract
  CaptureDelivered
