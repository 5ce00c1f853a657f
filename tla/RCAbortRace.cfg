SPECIFICATION Spec
CONSTANTS
  None = None
  Keys <- OneKey
  Calls = {"c1", "c2"}
  Requests = {}
  Tokens = {"c1", "c2"}
  Token <- OwnToken
  Kind <- AllSoft
  Parent <- NoParent
  Timed = {}
  Signalled = {"c2"}
  Takeovers = {}
  MayClear = FALSE
INVARIANTS FailedOwnsNothing
