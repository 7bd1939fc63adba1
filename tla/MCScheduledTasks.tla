-------------------------- MODULE MCScheduledTasks --------------------------
(* Small instances of ScheduledTasks.                                      *)
EXTENDS ScheduledTasks

CONSTANTS a, b, x
=============================================================================
