----------------------------- MODULE MCScheduler -----------------------------
(* Small instances of the process table for TLC. *)
EXTENDS Scheduler

\* Each constant's value is in the .cfg of the run.
MCSleepTimes == {0, 2}
NoIdle == {}
Idle == {1}
AnyPid == Pids \cup {NotAPid}
=============================================================================
