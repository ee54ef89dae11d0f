---- MODULE MCSchedulerService ----
(* SchedulerService for TLC: the constants are given in the config. *)
EXTENDS SchedulerService
====
