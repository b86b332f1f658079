----------------------------- MODULE Scheduler -----------------------------
(***************************************************************************)
(* The work-stealing scheduler of runtime/work_stealing.rs: a global       *)
(* crossbeam Injector, one FIFO Worker deque per worker, and one tokio     *)
(* Notify shared by all workers.                                           *)
(*                                                                         *)
(* No code path pushes into a Worker deque (submit and submit_batch push   *)
(* only to the injector), so worker.pop() and steal_from_others() always   *)
(* find nothing: get_task reduces to "steal from the injector, else wait   *)
(* on the Notify and loop".  Steal::Retry leaves everything unchanged and  *)
(* loops, so it is a stuttering step.                                      *)
(*                                                                         *)
(* tokio's Notify: notify_one() wakes one registered waiter if there is    *)
(* one, and otherwise stores a single permit (a second notify_one before   *)
(* the permit is taken is lost); a notified() future registers as a       *)
(* waiter when it is first polled, and completes at once if a permit is    *)
(* stored.  get_task finds the injector empty and only then creates and    *)
(* polls notified(), so a worker passes through a window (Park) in which   *)
(* it is neither looking at the injector nor registered.                   *)
(*                                                                         *)
(* The workers' callers are not in the repository (the scheduler is only   *)
(* re-exported); following spec 4.5 a worker calls get_task, runs the task *)
(* and calls get_task again, and a worker in Exiting may instead stop.     *)
(***************************************************************************)
EXTENDS Naturals, Sequences, SequencesExt, FiniteSets

CONSTANTS
  Workers,    \* worker ids 0 .. num_workers - 1
  Tasks,      \* the tasks the clients submit, each once
  Exiting,    \* workers whose caller may stop calling get_task
  NoTask      \* what running holds for a worker with no task

ASSUME WorkersAssumption == Workers # {} /\ IsFiniteSet(Workers)
ASSUME ExitingAssumption == Exiting \subseteq Workers
ASSUME NoTaskAssumption == NoTask \notin Tasks

(* A worker's place in the get_task loop and around it.                    *)
Check   == "check"    \* at the top of the loop: local pop, injector steal
Park    == "park"     \* everything was empty; notified() not yet polled
Waiting == "waiting"  \* registered as a waiter of the Notify
Busy    == "busy"     \* get_task returned a task, the caller runs it
Exited  == "exited"   \* the caller stopped calling get_task

VARIABLES
  injector,   \* the global Injector, oldest first
  wpc,        \* wpc[w]: the worker's place
  running,    \* running[w]: the task the worker's get_task returned
  permit,     \* the Notify holds a stored permit
  pending,    \* notify_one calls a submit_batch still has to make
  unsubmitted \* tasks no client has submitted yet

vars == <<injector, wpc, running, permit, pending, unsubmitted>>

TypeOK ==
  /\ injector \in Seq(Tasks)
  /\ wpc \in [Workers -> {Check, Park, Waiting, Busy, Exited}]
  /\ running \in [Workers -> Tasks \cup {NoTask}]
  /\ permit \in BOOLEAN
  /\ pending \in 0 .. Cardinality(Workers)
  /\ unsubmitted \in SUBSET Tasks

(* WorkStealingScheduler::new; every worker has called get_task.           *)
Init ==
  /\ injector = <<>>
  /\ wpc = [w \in Workers |-> Check]
  /\ running = [w \in Workers |-> NoTask]
  /\ permit = FALSE
  /\ pending = 0
  /\ unsubmitted = Tasks

(* Mutant: notify_waiters semantics, no permit is stored when nobody      *)
(* waits.                                                                  *)
NotifyNoPermit ==
  IF \E w \in Workers : wpc[w] = Waiting
  THEN \E w \in {v \in Workers : wpc[v] = Waiting} :
         /\ wpc' = [wpc EXCEPT ![w] = Check]
         /\ UNCHANGED permit
  ELSE UNCHANGED <<wpc, permit>>

(* Notify::notify_one: wake one registered waiter, or store the permit.    *)
NotifyOne ==
  IF \E w \in Workers : wpc[w] = Waiting
  THEN \E w \in {v \in Workers : wpc[v] = Waiting} :
         /\ wpc' = [wpc EXCEPT ![w] = Check]
         /\ UNCHANGED permit
  ELSE /\ permit' = TRUE
       /\ UNCHANGED wpc

(* submit(task): push onto the injector, then notify_one.                  *)
Submit(t) ==
  /\ pending = 0
  /\ t \in unsubmitted
  /\ unsubmitted' = unsubmitted \ {t}
  /\ injector' = Append(injector, t)
  /\ NotifyOne
  /\ UNCHANGED <<running, pending>>

(* Mutant: the notify loop runs 0..=min(count, num_workers).              *)
SubmitBatchNotifyOnce(batch) ==
  /\ pending = 0
  /\ batch # <<>>
  /\ ToSet(batch) \subseteq unsubmitted
  /\ unsubmitted' = unsubmitted \ ToSet(batch)
  /\ injector' = injector \o batch
  /\ pending' = 1 + IF Len(batch) < Cardinality(Workers) THEN Len(batch)
                    ELSE Cardinality(Workers)
  /\ UNCHANGED <<wpc, running, permit>>

(* submit_batch(tasks): push every task, then call notify_one              *)
(* min(count, num_workers) times (SubmitNotify, one call per step).        *)
SubmitBatch(batch) ==
  /\ pending = 0
  /\ batch # <<>>
  /\ ToSet(batch) \subseteq unsubmitted
  /\ unsubmitted' = unsubmitted \ ToSet(batch)
  /\ injector' = injector \o batch
  /\ pending' = IF Len(batch) < Cardinality(Workers) THEN Len(batch)
                ELSE Cardinality(Workers)
  /\ UNCHANGED <<wpc, running, permit>>

SubmitNotify ==
  /\ pending > 0
  /\ pending' = pending - 1
  /\ NotifyOne
  /\ UNCHANGED <<injector, running, unsubmitted>>

(* Mutant: the task is read from the injector but not removed.            *)
StealGlobalPeek(w) ==
  /\ wpc[w] = Check
  /\ injector # <<>>
  /\ running' = [running EXCEPT ![w] = Head(injector)]
  /\ wpc' = [wpc EXCEPT ![w] = Busy]
  /\ UNCHANGED <<injector, permit, pending, unsubmitted>>

(* get_task: the local deque is empty and global_queue.steal() succeeds.  *)
StealGlobal(w) ==
  /\ wpc[w] = Check
  /\ injector # <<>>
  /\ running' = [running EXCEPT ![w] = Head(injector)]
  /\ injector' = Tail(injector)
  /\ wpc' = [wpc EXCEPT ![w] = Busy]
  /\ UNCHANGED <<permit, pending, unsubmitted>>

(* get_task: the injector is empty and steal_from_others finds nothing.    *)
FindEmpty(w) ==
  /\ wpc[w] = Check
  /\ injector = <<>>
  /\ wpc' = [wpc EXCEPT ![w] = Park]
  /\ UNCHANGED <<injector, running, permit, pending, unsubmitted>>

(* get_task: the first poll of notified() takes a stored permit and the    *)
(* loop starts again, or registers the worker as a waiter.                 *)
PollNotified(w) ==
  /\ wpc[w] = Park
  /\ \/ /\ permit
        /\ permit' = FALSE
        /\ wpc' = [wpc EXCEPT ![w] = Check]
     \/ /\ ~permit
        /\ wpc' = [wpc EXCEPT ![w] = Waiting]
        /\ UNCHANGED permit
  /\ UNCHANGED <<injector, running, pending, unsubmitted>>

(* The caller ran the task and calls get_task again.                       *)
Finish(w) ==
  /\ wpc[w] = Busy
  /\ wpc' = [wpc EXCEPT ![w] = Check]
  /\ running' = [running EXCEPT ![w] = NoTask]
  /\ UNCHANGED <<injector, permit, pending, unsubmitted>>

(* The caller ran the task and stops.                                      *)
Exit(w) ==
  /\ w \in Exiting
  /\ wpc[w] = Busy
  /\ wpc' = [wpc EXCEPT ![w] = Exited]
  /\ running' = [running EXCEPT ![w] = NoTask]
  /\ UNCHANGED <<injector, permit, pending, unsubmitted>>

(* The submitting clients' batches: non-empty sequences of distinct tasks. *)
Batches == {b \in [1 .. 2 -> Tasks] : b[1] # b[2]}

Next ==
  \/ \E t \in Tasks : Submit(t)
  \/ \E b \in Batches : SubmitBatch(b)
  \/ SubmitNotify
  \/ \E w \in Workers :
       \/ StealGlobal(w)
       \/ FindEmpty(w)
       \/ PollNotified(w)
       \/ Finish(w)
       \/ Exit(w)

(* The tokio runtime keeps polling every task that is ready, and the       *)
(* submitting client finishes its notify loop; a worker's caller returns   *)
(* from a task (weak fairness of Finish or Exit).                          *)
Fairness ==
  /\ WF_vars(SubmitNotify)
  /\ \A w \in Workers :
       /\ WF_vars(StealGlobal(w))
       /\ WF_vars(FindEmpty(w))
       /\ WF_vars(PollNotified(w))
       /\ WF_vars(Finish(w) \/ Exit(w))

Spec == Init /\ [][Next]_vars /\ Fairness

-----------------------------------------------------------------------------
(* Properties                                                              *)

(* Every task handed to the scheduler is held by exactly one of: the       *)
(* injector (once) or one worker's get_task result, or it has been run.    *)
TaskAccounting ==
  /\ \A i, j \in DOMAIN injector : i # j => injector[i] # injector[j]
  /\ \A v, w \in Workers : running[v] = running[w] /\ running[v] # NoTask
                             => v = w
  /\ \A w \in Workers : running[w] # NoTask => running[w] \notin ToSet(injector)
  /\ \A w \in Workers : (running[w] # NoTask) <=> (wpc[w] = Busy)

(* Spec 4.5: get_task "never returns before it can yield a task" and a     *)
(* submission wakes waiters: a task sitting in the injector is eventually  *)
(* taken by some worker, as long as some worker is inside get_task.        *)
TaskEventuallyTaken ==
  \A t \in Tasks :
    t \in ToSet(injector) ~>
      \/ t \notin ToSet(injector)
      \/ \A w \in Workers : wpc[w] \in {Busy, Exited}

=============================================================================
