SPECIFICATION Spec
CONSTANTS
  None = None
  Browsers = {b1, b2}
  Requests = {"r1", "r2", "r3"}
  Workers = {w1, w2}
  Sessions = {"s1", "s2"}
  MaxCreating = 1
  MaxTries = 2
  Scenes <- PoolScenes
SYMMETRY Alike
INVARIANTS LocksMatchHandles OneLiveInstance NoLostWakeup NothingLeftBehind
CHECK_DEADLOCK FALSE
