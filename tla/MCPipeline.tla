----------------------------- MODULE MCPipeline -----------------------------
(* The instance of Pipeline, and of the task queue below it, for TLC.      *)
EXTENDS Pipeline

\* t1 and t2 are of one id or row, one after the other; t3 is more urgent.
TwoIds == [t \in Tasks |-> IF t = "t3" THEN "i2" ELSE "i1"]
Urgent == [t \in Tasks |-> IF t = "t3" THEN 1 ELSE 0]
RetrySecond == [t \in Tasks |-> IF t = "t2" THEN 2 ELSE 0]
=============================================================================
