---------------------------- MODULE RecordedEvents ----------------------------
(***************************************************************************)
(* The Event values of recording/recorder.rs that flow through the queue,  *)
(* the drain buffer and the batch files.  An event is abstracted to an     *)
(* identity: no property of the recording pipeline looks at its fields.    *)
(***************************************************************************)
CONSTANT Events     \* the events producers may hand to record()

ASSUME EventsAssumption == Events # {}

=============================================================================
