\* A started drain task, no storage failures: after shutdown() aborts it, are all accepted events stored?
CONSTANTS
  e1 = e1
  e2 = e2
  e3 = e3
  Events <- MCEvents
  QueueCap = 2
  BatchSize = 2
  MaxBatchId = 0
  MaxRestarts = 0
SYMMETRY MCSymmetry
SPECIFICATION Spec
CHECK_DEADLOCK FALSE
INVARIANT ShutdownFlushesAll
