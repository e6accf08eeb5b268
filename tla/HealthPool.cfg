\* A backend leaves the pool although nothing failed three times.
SPECIFICATION Spec
CONSTANTS
  quick = quick
  slow = slow
  Backends <- MCBackends
  FailuresToDown = 3
  SuccessesToUp = 2
  MaxOverlap <- MCMaxOverlap
PROPERTY LeavesPoolOnlyAfterFailures
