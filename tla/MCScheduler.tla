---------------------------- MODULE MCScheduler ----------------------------
(* Model-checking instance of the scheduler: two workers, three tasks.     *)
EXTENDS Scheduler

CONSTANTS w1, w2, t1, t2, t3

MCWorkers == {w1, w2}
MCTasks == {t1, t2, t3}

=============================================================================
