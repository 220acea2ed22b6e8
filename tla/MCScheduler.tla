---------------------------- MODULE MCScheduler ----------------------------
(* Instances of Scheduler: the agent's own goroutines, and with one more   *)
(* caller of RunOnce.                                                      *)
EXTENDS Scheduler
=============================================================================
