\* Record, drain, flush, storage failures, one crash and reopen, shutdown.
CONSTANTS
  e1 = e1
  e2 = e2
  e3 = e3
  Events <- MCEvents
  QueueCap = 2
  BatchSize = 2
  MaxBatchId = 3
  MaxRestarts = 1
SYMMETRY MCSymmetry
SPECIFICATION Spec
\* After shutdown() the recorder is dropped: "done" is a final state.
CHECK_DEADLOCK FALSE
INVARIANTS
  TypeOK
  StreamIntegrity
  SessionFilesIntact
