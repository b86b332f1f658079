\* A full batch whose flush fails, with one more event queued: does the drain batch stay within batch_size?
CONSTANTS
  e1 = e1
  e2 = e2
  e3 = e3
  Events <- MCEvents
  QueueCap = 2
  BatchSize = 2
  MaxBatchId = 3
  MaxRestarts = 0
SYMMETRY MCSymmetry
SPECIFICATION Spec
CHECK_DEADLOCK FALSE
INVARIANT BatchWithinSize
