------------------------------ MODULE BlobStore ------------------------------
(***************************************************************************)
(* The event storage of recording/storage.rs: compressed batch files in    *)
(* base_dir/events/ and one SQLite row per batch in event_batches.  The    *)
(* batch id comes from an in-memory counter that EventStorage::new sets    *)
(* to 0 whatever the directory already holds.                              *)
(*                                                                         *)
(* A file's bytes are abstracted to the batch of events they encode        *)
(* (compression is injective), so "the file has the byte length recorded  *)
(* in the row" becomes "the file holds the batch recorded in the row".     *)
(* The file path and the batch_id string are both functions of the         *)
(* counter value, so a batch is named by that number.                      *)
(***************************************************************************)
EXTENDS Naturals, Sequences, SequencesExt, RecordedEvents


VARIABLES
  counter,    \* batch_counter: the last id handed out by write_batch
  files,      \* files[n]: the events held by events/batch_<n>.zst
  index       \* event_batches rows in insertion (AUTOINCREMENT id) order

storeVars == <<counter, files, index>>

Batch == Seq(Events)

(* One event_batches row: batch_id, compressed_size (as the payload it     *)
(* measures) and event_count.                                              *)
Row == [bid : Nat, data : Batch, count : Nat]

StoreTypeOK ==
  /\ counter \in Nat
  /\ DOMAIN files \subseteq Nat \ {0}
  /\ \A n \in DOMAIN files : files[n] \in Batch
  /\ index \in Seq(Row)

(* EventStorage::new on an empty base_dir.                                 *)
StoreInit ==
  /\ counter = 0
  /\ files = [n \in {} |-> <<>>]
  /\ index = <<>>

(* EventStorage::new on a base_dir that already holds a session: the      *)
(* directories and the table are created "IF NOT EXISTS", so files and     *)
(* rows stay, and the counter starts again from 0.                         *)
StoreReopen ==
  /\ counter' = 0
  /\ UNCHANGED <<files, index>>

(* write_batch: lock the counter, increment it, format the id.             *)
AllocateId ==
  /\ counter' = counter + 1
  /\ UNCHANGED <<files, index>>

(* write_batch: fs::write(file_path, data) creates or truncates the file.  *)
WriteFile(n, data) ==
  /\ files' = [k \in DOMAIN files \cup {n} |->
                 IF k = n THEN data ELSE files[k]]
  /\ UNCHANGED <<counter, index>>

(* write_batch: INSERT INTO event_batches; event_count is written as 0     *)
(* ("TODO: Extract event count from batch").                               *)
InsertRow(n, data) ==
  /\ index' = Append(index, [bid |-> n, data |-> data, count |-> 0])
  /\ UNCHANGED <<counter, files>>

(* The events read back by read_batch for each of the rows, in order.     *)
StreamOf(rows) ==
  FlattenSeq([i \in DOMAIN rows |->
                IF rows[i].bid \in DOMAIN files THEN files[rows[i].bid]
                ELSE <<>>])

(* What list_batches followed by read_batch of every listed id returns.    *)
IndexedStream == StreamOf(index)

-----------------------------------------------------------------------------
(* Properties of the store                                                 *)

(* Durability order (spec 4.3: "writes the file fully before inserting the *)
(* index row"): every indexed batch names a file that exists, whatever     *)
(* failed or crashed between the two writes.                               *)
IndexedFileExists ==
  \A i \in DOMAIN index : index[i].bid \in DOMAIN files

(* Spec I3: for every indexed row the referenced file exists and holds     *)
(* exactly what the row says it holds.                                     *)
IndexedFilesIntact ==
  \A i \in DOMAIN index :
    /\ index[i].bid \in DOMAIN files
    /\ files[index[i].bid] = index[i].data

=============================================================================
