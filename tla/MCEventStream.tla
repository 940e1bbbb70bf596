---------------------------- MODULE MCEventStream ----------------------------
(* The instance of EventStream for TLC: its constants are all in the .cfg. *)
EXTENDS EventStream
=============================================================================
