SPECIFICATION FairSpec
CONSTANTS
  None = None
  Runs = {"r1", "r2"}
  Calls = {"s1", "s2", "s3", "v1", "k1", "w1", "w2"}
  Plays = {{"s1", "v1", "k1", "w1"}, {"s1", "s3", "w1", "w2"},
           {"s1", "s2", "v1", "w1", "w2"}}
  Target <- TwoRuns
  Starts = {"s1", "s2", "s3"}
  Cancels = {"k1"}
  Recovers = {"v1"}
  Sweeps = {"w1", "w2"}
  Signalled = {"s3"}
  Keyed = {"r1", "r2"}
  Contracts <- SomeContracts
  MaxSeq <- FewNotes
INVARIANTS OneHandler
PROPERTIES SettledStays RunsEnd
CHECK_DEADLOCK FALSE
