\* A timed-out read loses stdout while the child stays alive.
CONSTANTS
  r1 = r1
  r2 = r2
  Requests <- MCRequests
  MarkerRequests = {}
  MaxExecs = 3
  MaxSpawns = 2
INIT Init
NEXT Next
INVARIANT HealthyMeansReadable
\* Once the execute and reset budgets are spent the caller stops.
CHECK_DEADLOCK FALSE
