\* a restart reopens the store with the counter at 0: does every row still match its file?
CONSTANTS
  e1 = e1
  e2 = e2
  e3 = e3
  Events <- MCEvents
  QueueCap = 2
  BatchSize = 2
  MaxBatchId = 3
  MaxRestarts = 1
SYMMETRY MCSymmetry
SPECIFICATION Spec
CHECK_DEADLOCK FALSE
INVARIANT IndexedFilesIntact
