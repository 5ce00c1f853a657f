---------------------------- MODULE MCScheduler ----------------------------
(* The instance of Scheduler for TLC.                                      *)
EXTENDS Scheduler

RetryOne == [t \in Tasks |-> IF t = "a" THEN 1 ELSE 0]
OneEach == [u \in Users |-> u]
=============================================================================
