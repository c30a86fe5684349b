------------------------------ MODULE MCTraceLog ----------------------------
(* Instances of TraceLog for TLC.                                          *)
EXTENDS TraceLog
=============================================================================
