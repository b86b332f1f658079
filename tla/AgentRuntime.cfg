\* Two requests, none printing the terminator; three executes and two resets
\* cover a timeout followed by a late answer, a child exiting mid-answer, and
\* a failed respawn.
CONSTANTS
  r1 = r1
  r2 = r2
  Requests <- MCRequests
  MarkerRequests = {}
  MaxExecs = 3
  MaxSpawns = 2
INIT Init
NEXT Next
INVARIANT NoCrossTalk
\* Once the execute and reset budgets are spent the caller stops.
CHECK_DEADLOCK FALSE
