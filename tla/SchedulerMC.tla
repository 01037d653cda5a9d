---------------------------- MODULE SchedulerMC ----------------------------
(* Every dependency graph over three tasks and one Dockerfile. *)
EXTENDS Scheduler

MCUserTasks == {1, 2, 3}
MCServiceTasks == {4}
=============================================================================
