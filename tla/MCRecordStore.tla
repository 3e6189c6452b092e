---- MODULE MCRecordStore ----
(***************************************************************************)
(* The requests of MCRecordWriter for RecordStore and SharedRecords.       *)
(***************************************************************************)
EXTENDS MCRecordWriter, RecordStore
====
