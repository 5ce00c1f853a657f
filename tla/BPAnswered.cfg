SPECIFICATION FairSpec
CONSTANTS
  None = None
  Browsers = {b1, b2}
  Requests = {"r1", "r2"}
  Workers = {w1}
  Sessions = {"s1"}
  MaxCreating = 1
  MaxTries = 1
  Scenes <- Answers
PROPERTIES AcquireAnswered
CHECK_DEADLOCK FALSE
