----------------------------- MODULE MCScheduler -----------------------------
(***************************************************************************)
(* Values for the constants of Scheduler that a cfg file cannot write.     *)
(***************************************************************************)
EXTENDS Scheduler

EveryTwoSeconds == [s \in Schedules |-> 2]
==============================================================================
