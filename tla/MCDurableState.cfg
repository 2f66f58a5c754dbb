\* A parent and what is derived from it, generations 0 to 2.
CONSTANTS
  x = x
  y = y
  Assets = {x, y}
  Below <- MCBelow
  MaxGen = 2
  MaxBreaks = 3
SPECIFICATION PartsSpec
CHECK_DEADLOCK FALSE
INVARIANTS
  AckedGenerationKept
  PurgedPayloadGone
  AckedStaysReadable
  LedgerMatchesTrail
  RefusalExplained
  RetiredKeyUnneeded
PROPERTIES
  PurgeCompletes
  RefinesAuditLedger
  RotationResumes
