\* A renewal whose digest may be the smaller one.
CONSTANTS
  a = a
  b = b
  Never = Never
  Count = 2
  Requests <- MCRequests
  Artifacts = {a, b}
  MaxNow = 1
  MaxFaults = 0
  MaxCrashes = 0
SPECIFICATION Spec
CHECK_DEADLOCK FALSE
INVARIANT LiveApprovalSuffices
