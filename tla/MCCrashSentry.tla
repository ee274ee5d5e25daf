---------------------------- MODULE MCCrashSentry ----------------------------
(* The main thread, the exception threads, which are created on it, and a  *)
(* worker thread.  Two crashes or user reports, which may overlap, and one *)
(* fault in a handler.                                                     *)
EXTENDS CrashSentry
CONSTANTS main, primary, secondary, worker
MCOrder == <<main, secondary, primary, worker>>
=============================================================================
