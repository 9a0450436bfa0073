---------------------------- MODULE MCTraceFiles ----------------------------
(* The instance of TraceFiles for TLC. *)
EXTENDS TraceFiles
=============================================================================
