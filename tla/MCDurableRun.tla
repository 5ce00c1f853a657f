---------------------------- MODULE MCDurableRun ----------------------------
(* The instance of DurableRun for TLC.                                     *)
EXTENDS DurableRun

\* s2, s3 and w2 are about the second run, everything else about the first.
TwoRuns == [c \in Calls |-> IF c \in {"s2", "s3", "w2"} THEN "r2" ELSE "r1"]
\* Only the handlers of the first run save checkpoints.
FewNotes == [r \in Runs |-> IF r = "r1" THEN 1 ELSE 0]

\* A handler and its definition may be missing, of another version, without a
\* recovery contract, or able to resume or to reconcile.
SomeContracts == [c \in Recovers \cup Sweeps |->
                    CASE c = "v1" -> {"resume"}
                      [] c = "w1" -> {"missing", "reconcile"}
                      [] c = "w2" -> {"neither", "version"}]
=============================================================================
