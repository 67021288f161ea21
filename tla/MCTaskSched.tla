---------------------------- MODULE MCTaskSched ----------------------------
(* TLC instance of TaskSched: the dispatcher, the shell and two sessions.   *)
EXTENDS TaskSched

MCId == 1 .. 4
=============================================================================
