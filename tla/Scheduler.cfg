CONSTANTS
  w1 = w1
  w2 = w2
  t1 = t1
  t2 = t2
  t3 = t3
  NoTask = NoTask
  Workers <- MCWorkers
  Tasks <- MCTasks
  Exiting = {w1}
SPECIFICATION Spec
\* Once every task is taken, the workers wait on the Notify or have stopped.
CHECK_DEADLOCK FALSE
INVARIANTS
  TypeOK
  TaskAccounting
