\* Approvals: every order of the digests of a renewal, a denial and an old record.
CONSTANTS
  a = a
  b = b
  Never = Never
  Count = 2
  Requests <- MCRequests
  Artifacts = {a, b}
  MaxNow = 1
  MaxFaults = 1
  MaxCrashes = 1
SPECIFICATION PartsSpec
CONSTRAINT Explored
CHECK_DEADLOCK FALSE
INVARIANTS
  AckedRevocationHolds
  BooksBalance
  RestoreFaithful
  ReplayExact
  TrailExplains
  NoSilentContradiction
  HistoryMatchesReplay
  AnchorSound
  JournalsKept
  QueriesExact
  DenialsHold
  RevocationsLoad
  SeatSoldOnce
  RevokedNotSold
PROPERTY
  SwitchTransacts
