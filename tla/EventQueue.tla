------------------------------ MODULE EventQueue ------------------------------
(***************************************************************************)
(* The lock-free event queue of recording/event_queue.rs: a crossbeam      *)
(* ArrayQueue of bounded capacity and three relaxed atomic counters.       *)
(* ArrayQueue is linearizable, so each push and pop is one atomic step;    *)
(* the counter update that follows it is a separate atomic in the code but *)
(* is folded into the same step here (stats() is only a snapshot).         *)
(*                                                                         *)
(* The operators below are the queue's operations; the Recorder module     *)
(* uses them as parts of its own actions.                                  *)
(***************************************************************************)
EXTENDS Naturals, Sequences, RecordedEvents

CONSTANT
  QueueCap    \* RecorderConfig.max_queue_size: the ArrayQueue capacity

ASSUME QueueCapAssumption == QueueCap \in Nat \ {0}

VARIABLES
  queue,      \* the ArrayQueue contents, head first
  pushCount,  \* push_count: successful pushes
  popCount,   \* pop_count: successful pops
  dropCount   \* drop_count: pushes refused because the queue was full

queueVars == <<queue, pushCount, popCount, dropCount>>

QueueTypeOK ==
  /\ queue \in Seq(Events)
  /\ Len(queue) <= QueueCap
  /\ pushCount \in Nat
  /\ popCount \in Nat
  /\ dropCount \in Nat

(* EventQueue::new                                                         *)
QueueInit ==
  /\ queue = <<>>
  /\ pushCount = 0
  /\ popCount = 0
  /\ dropCount = 0

(* Mutant: the capacity check is off by one.                               *)
QueuePushPastCap(e) ==
  /\ Len(queue) <= QueueCap
  /\ queue' = Append(queue, e)
  /\ pushCount' = pushCount + 1
  /\ UNCHANGED <<popCount, dropCount>>

(* EventQueue::push, Ok branch: the ArrayQueue had room.                   *)
QueuePush(e) ==
  /\ Len(queue) < QueueCap
  /\ queue' = Append(queue, e)
  /\ pushCount' = pushCount + 1
  /\ UNCHANGED <<popCount, dropCount>>

(* EventQueue::push, Err branch: the queue is full, the event is handed    *)
(* back and drop_count is incremented.                                     *)
QueueDrop(e) ==
  /\ Len(queue) = QueueCap
  /\ dropCount' = dropCount + 1
  /\ UNCHANGED <<queue, pushCount, popCount>>

(* EventQueue::try_pop, Some branch: the head of the queue is taken.       *)
(* The caller reads the popped event as Head(queue).                       *)
QueuePop ==
  /\ queue # <<>>
  /\ queue' = Tail(queue)
  /\ popCount' = popCount + 1
  /\ UNCHANGED <<pushCount, dropCount>>

=============================================================================
