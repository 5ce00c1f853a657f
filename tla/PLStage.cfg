SPECIFICATION StageFairSpec
CONSTANTS
  None = None
  Tasks = {"t1", "t2", "t3"}
  Ids = {"i1", "i2"}
  Id <- TwoIds
  Prio <- Urgent
  Retry <- RetrySecond
  Signalled = {"t2"}
  Concurrency = 1
  Keep = 1
  Batch = 2
  Rival = Rival
  Shared = {"i2"}
  MayFail = TRUE
  Clients = {"plugin", "stage"}
INVARIANTS TasksAccounted HandlerOwnsRow
PROPERTIES Answered RowsMove
CHECK_DEADLOCK FALSE
