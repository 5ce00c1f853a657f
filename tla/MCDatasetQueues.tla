--------------------------- MODULE MCDatasetQueues --------------------------
(* The instance of DatasetQueues for TLC.                                  *)
EXTENDS DatasetQueues

\* Operations are alike: they are called in the order of their numbers.  Any two
\* meet, and a third one, a query or a deletion, that stands in their way or waits
\* behind them.
InOrder(o) == \A p \in Ops : p < o => pc[p] # "idle"
Third(o) == o = 3 => op'[o].kind \in {"query", "delete"}

OrderedNext == \E o \in Ops : (InOrder(o) /\ Call(o) /\ Third(o)) \/ Work(o)
OrderedSpec == Init /\ [][OrderedNext]_vars /\ \A o \in Ops : WF_vars(Work(o))
=============================================================================
