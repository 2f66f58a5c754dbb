\* Two versions of the data or of the clock, two backups, a restore and any recoveries, with two
\* stops: a promotion cut short and a power loss, or the like.
CONSTANTS
  p1 = p1
  Publishers = {p1}
  Together = FALSE
  MaxHead = 1
  MaxClock = 1
  MaxChanges = 1
  MaxBackups = 2
  MaxRestores = 1
  MaxStops = 2
SPECIFICATION Spec
INVARIANTS
  BackupsComplete
  LiveDurable
PROPERTIES
  RecoveredWhole
  RecoveryCompletes
