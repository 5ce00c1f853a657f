SPECIFICATION FairSpec
CONSTANTS
  None = None
  Keys <- TwoKeys
  Calls = {"c1", "c2", "c3"}
  Requests = {}
  Tokens = {"c1", "c2", "c3"}
  Token <- OwnToken
  Kind <- AllSoft
  Parent <- NoParent
  Timed = {"c1"}
  Signalled = {"c1"}
  Takeovers = {"c2"}
  MayClear = TRUE
INVARIANTS NoIdleWithWaiters LeaseIsOwned
PROPERTIES FifoGrants AcquireSucceeds
