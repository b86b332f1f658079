CONSTANTS
  w1 = w1
  w2 = w2
  t1 = t1
  t2 = t2
  t3 = t3
  NoTask = NoTask
  Workers <- MCWorkers
  Tasks <- MCTasks
  Exiting = {}
SPECIFICATION Spec
\* Once every task is taken, every worker waits on the Notify.
CHECK_DEADLOCK FALSE
PROPERTY
  TaskEventuallyTaken
