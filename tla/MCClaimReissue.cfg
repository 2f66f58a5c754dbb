\* One code, one failed save, no edits.
CONSTANTS
  Codes = {1}
  Machines = {1, 2}
  MaxNow = 0
  MaxEdits = 0
  MaxFaults = 1
  MaxCrashes = 1
SPECIFICATION Spec
CHECK_DEADLOCK FALSE
INVARIANT TokenSurvives
