------------------------------ MODULE Recorder ------------------------------
(***************************************************************************)
(* The event recorder of recording/recorder.rs: producers call record(),   *)
(* which pushes into the EventQueue; one background drain task, spawned by *)
(* start(), moves events from the queue into an in-memory batch and hands  *)
(* full (or, on a tick or a flush notification, partial) batches to        *)
(* flush_batch, which compresses them and calls EventStorage::write_batch. *)
(*                                                                         *)
(* The drain task is a state machine over its await points:                *)
(*   Select  -- tokio::select! on interval.tick() / flush_notify.notified()*)
(*   Drain   -- the `while let Some(event) = queue.try_pop()` loop         *)
(*   Flush   -- entry of flush_batch: serialize and compress               *)
(*   Alloc   -- write_batch: batch_counter.lock().await                    *)
(*   Write   -- write_batch: fs::write(..).await                           *)
(*   Insert  -- write_batch: db.lock().await and the INSERT                *)
(* Every error of flush_batch is logged and the batch is kept; the task    *)
(* continues with the drain loop.                                          *)
(*                                                                         *)
(* The owner side: flush() calls notify_one(); shutdown() calls flush()    *)
(* (notify, then a 50 ms sleep) and then aborts the task.  A process crash *)
(* loses everything in memory and a new EventRecorder::new on the same     *)
(* base_dir reopens the store.                                             *)
(***************************************************************************)
EXTENDS EventQueue, BlobStore

CONSTANTS
  BatchSize,    \* RecorderConfig.batch_size
  MaxBatchId,   \* model bound: storage failures only while counter < MaxBatchId
  MaxRestarts   \* model bound on process restarts

ASSUME BatchSizeAssumption == BatchSize \in Nat \ {0}
ASSUME BoundsAssumption == MaxBatchId \in Nat /\ MaxRestarts \in Nat

(* Places of the drain task.                                               *)
Unstarted == "unstarted"
Select    == "select"
Drain     == "drain"
Flush     == "flush"
Alloc     == "alloc"
Write     == "write"
Insert    == "insert"
Stopped   == "stopped"

DrainPcs == {Unstarted, Select, Drain, Flush, Alloc, Write, Insert, Stopped}

(* The places where the running task is suspended on an .await:           *)
(* handle.abort() takes effect there (the drain loop and compression never *)
(* yield).                                                                 *)
AwaitPoints == {Select, Alloc, Write, Insert}

(* Places of the owner of the EventRecorder.                               *)
OwnerPcs == {"running", "flushing", "done"}

VARIABLES
  batch,        \* the drain task's Vec<Event>
  drainPc,      \* the drain task's place
  curId,        \* the batch id write_batch allocated in this attempt
  notifyPermit, \* the permit stored in flush_notify (Notify holds at most one)
  ownerPc,      \* the owner: running, inside shutdown() after notify, or done
  offered,      \* events already handed to record() (each is offered once)
  accepted,     \* history: the events record() accepted since the process
                \* started, in push order
  sessionStart, \* history: the number of index rows when the process started
  restarts      \* process restarts so far

recVars == <<batch, drainPc, curId, notifyPermit, ownerPc, offered, accepted,
             sessionStart, restarts>>
vars == <<queueVars, storeVars, recVars>>

-----------------------------------------------------------------------------

TypeOK ==
  /\ QueueTypeOK
  /\ StoreTypeOK
  /\ batch \in Seq(Events)
  /\ drainPc \in DrainPcs
  /\ curId \in Nat
  /\ notifyPermit \in BOOLEAN
  /\ ownerPc \in OwnerPcs
  /\ offered \in SUBSET Events
  /\ accepted \in Seq(Events)
  /\ sessionStart \in Nat
  /\ restarts \in 0 .. MaxRestarts

(* EventRecorder::new: a fresh queue, a store on an empty directory, no    *)
(* drain task yet.                                                         *)
Init ==
  /\ QueueInit
  /\ StoreInit
  /\ batch = <<>>
  /\ drainPc = Unstarted
  /\ curId = 0
  /\ notifyPermit = FALSE
  /\ ownerPc = "running"
  /\ offered = {}
  /\ accepted = <<>>
  /\ sessionStart = 0
  /\ restarts = 0

(* start(): tokio::spawn of the drain task.                                *)
Start ==
  /\ ownerPc = "running"
  /\ drainPc = Unstarted
  /\ drainPc' = Select
  /\ UNCHANGED <<queueVars, storeVars, batch, curId, notifyPermit, ownerPc,
                 offered, accepted, sessionStart, restarts>>

(* record(e): queue.push; Ok is accepted, Err(full) is returned as an      *)
(* error (the queue counts the drop).                                      *)
Record(e) ==
  /\ ownerPc = "running"
  /\ e \notin offered
  /\ offered' = offered \cup {e}
  /\ \/ QueuePush(e) /\ accepted' = Append(accepted, e)
     \/ QueueDrop(e) /\ UNCHANGED accepted
  /\ UNCHANGED <<storeVars, batch, drainPc, curId, notifyPermit, ownerPc,
                 sessionStart, restarts>>

(* flush(): flush_notify.notify_one() (the 50 ms sleep changes nothing).   *)
FlushCall ==
  /\ ownerPc = "running"
  /\ notifyPermit' = TRUE
  /\ UNCHANGED <<queueVars, storeVars, batch, drainPc, curId, ownerPc,
                 offered, accepted, sessionStart, restarts>>

(* Both select! branches: flush a non-empty batch, then drain the queue.   *)
AfterWake == drainPc' = IF batch # <<>> THEN Flush ELSE Drain

(* select!: interval.tick() completes.                                     *)
Tick ==
  /\ drainPc = Select
  /\ AfterWake
  /\ UNCHANGED <<queueVars, storeVars, batch, curId, notifyPermit, ownerPc,
                 offered, accepted, sessionStart, restarts>>

(* select!: flush_notify.notified() completes and consumes the permit.     *)
Notified ==
  /\ drainPc = Select
  /\ notifyPermit
  /\ notifyPermit' = FALSE
  /\ AfterWake
  /\ UNCHANGED <<queueVars, storeVars, batch, curId, ownerPc, offered,
                 accepted, sessionStart, restarts>>

(* Drain loop: try_pop returns an event, batch.push; flush when full.      *)
DrainPop ==
  /\ drainPc = Drain
  /\ QueuePop
  /\ batch' = Append(batch, Head(queue))
  /\ drainPc' = IF Len(batch') >= BatchSize THEN Flush ELSE Drain
  /\ UNCHANGED <<storeVars, curId, notifyPermit, ownerPc, offered, accepted,
                 sessionStart, restarts>>

(* Drain loop: try_pop returns None; back to select!.                      *)
DrainEmpty ==
  /\ drainPc = Drain
  /\ queue = <<>>
  /\ drainPc' = Select
  /\ UNCHANGED <<queueVars, storeVars, batch, curId, notifyPermit, ownerPc,
                 offered, accepted, sessionStart, restarts>>

(* flush_batch: serde_json::to_vec and compressor.compress succeed.        *)
Compress ==
  /\ drainPc = Flush
  /\ drainPc' = Alloc
  /\ UNCHANGED <<queueVars, storeVars, batch, curId, notifyPermit, ownerPc,
                 offered, accepted, sessionStart, restarts>>

(* flush_batch: serde_json::to_vec or Compressor::compress (zstd::encode_all) *)
(* fails; the error is logged, the batch kept, and the drain loop goes on. *)
CompressFail ==
  /\ drainPc = Flush
  /\ drainPc' = Drain
  /\ UNCHANGED <<queueVars, storeVars, batch, curId, notifyPermit, ownerPc,
                 offered, accepted, sessionStart, restarts>>

(* Mutant: write_batch formats the id without incrementing the counter.   *)
AllocBatchIdReuse ==
  /\ drainPc = Alloc
  /\ UNCHANGED storeVars
  /\ curId' = counter
  /\ drainPc' = Write
  /\ UNCHANGED <<queueVars, batch, notifyPermit, ownerPc, offered, accepted,
                 sessionStart, restarts>>

(* write_batch: the counter is locked, incremented and the id formatted.   *)
AllocBatchId ==
  /\ drainPc = Alloc
  /\ AllocateId
  /\ curId' = counter + 1
  /\ drainPc' = Write
  /\ UNCHANGED <<queueVars, batch, notifyPermit, ownerPc, offered, accepted,
                 sessionStart, restarts>>

(* write_batch: fs::write of the compressed batch succeeds.                *)
WriteOk ==
  /\ drainPc = Write
  /\ WriteFile(curId, batch)
  /\ drainPc' = Insert
  /\ UNCHANGED <<queueVars, batch, curId, notifyPermit, ownerPc, offered,
                 accepted, sessionStart, restarts>>

(* write_batch: fs::write fails, either before creating the file or after  *)
(* truncating it; the id is consumed, the batch kept.                      *)
WriteFail ==
  /\ drainPc = Write
  /\ counter < MaxBatchId
  /\ \/ UNCHANGED files
     \/ WriteFile(curId, <<>>)
  /\ drainPc' = Drain
  /\ UNCHANGED <<queueVars, counter, index, batch, curId, notifyPermit,
                 ownerPc, offered, accepted, sessionStart, restarts>>

(* Mutant: flush_batch returns Ok without clearing the batch.              *)
InsertOkKeepBatch ==
  /\ drainPc = Insert
  /\ InsertRow(curId, batch)
  /\ drainPc' = Drain
  /\ UNCHANGED <<queueVars, batch, curId, notifyPermit, ownerPc, offered,
                 accepted, sessionStart, restarts>>

(* write_batch: the INSERT succeeds; flush_batch updates the stats and     *)
(* clears the batch.                                                       *)
InsertOk ==
  /\ drainPc = Insert
  /\ InsertRow(curId, batch)
  /\ batch' = <<>>
  /\ drainPc' = Drain
  /\ UNCHANGED <<queueVars, curId, notifyPermit, ownerPc, offered, accepted,
                 sessionStart, restarts>>

(* write_batch: the INSERT fails; the file stays, the batch is kept.       *)
InsertFail ==
  /\ drainPc = Insert
  /\ counter < MaxBatchId
  /\ drainPc' = Drain
  /\ UNCHANGED <<queueVars, storeVars, batch, curId, notifyPermit, ownerPc,
                 offered, accepted, sessionStart, restarts>>

(* shutdown(): self.flush() notifies the drain task, then sleeps.          *)
ShutdownNotify ==
  /\ ownerPc = "running"
  /\ ownerPc' = "flushing"
  /\ notifyPermit' = TRUE
  /\ UNCHANGED <<queueVars, storeVars, batch, drainPc, curId, offered,
                 accepted, sessionStart, restarts>>

(* shutdown(): after the sleep, handle.abort(); the task stops at the      *)
(* await it is suspended on and its batch is dropped.  A file write        *)
(* already handed to the blocking pool still runs to completion.           *)
ShutdownAbort ==
  /\ ownerPc = "flushing"
  /\ drainPc \in AwaitPoints
  /\ ownerPc' = "done"
  /\ drainPc' = Stopped
  /\ batch' = <<>>
  /\ \/ UNCHANGED files
     \/ drainPc = Write /\ WriteFile(curId, batch)
  /\ UNCHANGED <<queueVars, counter, index, curId, notifyPermit, offered,
                 accepted, sessionStart, restarts>>

(* shutdown() before start(): writer_handle is None, nothing is aborted,   *)
(* and the queued events stay in the queue of the dropped recorder.        *)
ShutdownNoTask ==
  /\ ownerPc = "flushing"
  /\ drainPc = Unstarted
  /\ ownerPc' = "done"
  /\ UNCHANGED <<queueVars, storeVars, batch, drainPc, curId, notifyPermit,
                 offered, accepted, sessionStart, restarts>>

(* The process crashes at any point and EventRecorder::new reopens the     *)
(* same base_dir: memory is lost, a write in progress may leave a          *)
(* truncated file, and the batch counter starts again from 0.              *)
Restart ==
  /\ restarts < MaxRestarts
  /\ \/ UNCHANGED files
     \/ drainPc = Write /\ files' = [k \in DOMAIN files \cup {curId} |->
                                      IF k = curId THEN <<>> ELSE files[k]]
  /\ counter' = 0
  /\ UNCHANGED index
  /\ queue' = <<>> /\ pushCount' = 0 /\ popCount' = 0 /\ dropCount' = 0
  /\ batch' = <<>>
  /\ drainPc' = Unstarted
  /\ curId' = 0
  /\ notifyPermit' = FALSE
  /\ ownerPc' = "running"
  /\ restarts' = restarts + 1
  /\ accepted' = <<>>
  /\ sessionStart' = Len(index)
  /\ UNCHANGED offered

Next ==
  \/ Start
  \/ \E e \in Events : Record(e)
  \/ FlushCall
  \/ Tick
  \/ Notified
  \/ DrainPop
  \/ DrainEmpty
  \/ Compress
  \/ CompressFail
  \/ AllocBatchId
  \/ WriteOk
  \/ WriteFail
  \/ InsertOk
  \/ InsertFail
  \/ ShutdownNotify
  \/ ShutdownAbort
  \/ ShutdownNoTask
  \/ Restart

Spec == Init /\ [][Next]_vars

-----------------------------------------------------------------------------
(* Properties                                                              *)

(* The rows this process inserted, and what reading them back returns.    *)
SessionStream == StreamOf(SubSeq(index, sessionStart + 1, Len(index)))

(* Spec 7, ordering: reading back the batches this process indexed         *)
(* (list_batches, then read_batch of each) returns a prefix of the events  *)
(* record() accepted, in push order; and until shutdown nothing is lost or *)
(* duplicated: those batches, the drain batch and the queue together hold  *)
(* exactly the accepted events, in order, whatever fails in flush_batch or *)
(* write_batch.  A crash loses the memory of the process, so this is a     *)
(* statement about the current process lifetime.                           *)
StreamIntegrity ==
  /\ IsPrefix(SessionStream, accepted)
  /\ ownerPc # "done" => SessionStream \o batch \o queue = accepted

(* Spec I3 within one process lifetime: every event_batches row this      *)
(* process inserted names a batch file that holds exactly the batch the    *)
(* row was inserted for, whatever failed or was aborted in write_batch     *)
(* since: the ids handed out by batch_counter in one lifetime are never    *)
(* reused, so no later fs::write of a failed, retried or aborted flush     *)
(* overwrites a file a row already names.  Across a restart the counter    *)
(* starts again from 0 and this no longer holds (IndexedFilesIntact).      *)
SessionFilesIntact ==
  \A i \in sessionStart + 1 .. Len(index) :
    /\ index[i].bid \in DOMAIN files
    /\ files[index[i].bid] = index[i].data

(* The comment in shutdown() ("Flush remaining events") and spec 5        *)
(* ("aborts the drain task but only after a final flush attempt"): once    *)
(* shutdown() has aborted a started drain task that woke on its flush      *)
(* notification (the permit is consumed), every accepted event is stored.  *)
ShutdownFlushesAll ==
  ownerPc = "done" /\ drainPc = Stopped /\ ~notifyPermit
    => SessionStream = accepted

(* Spec 4.4, the drain task: it pops into its buffer only up to           *)
(* batch_size, and a batch whose flush failed is retried on the next tick. *)
(* The drain batch never holds more than batch_size events.                *)
BatchWithinSize ==
  Len(batch) <= BatchSize

=============================================================================
