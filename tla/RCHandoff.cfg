SPECIFICATION HandoffSpec
CONSTANTS
  None = None
  Keys <- TwoKeys
  Calls = {"c1", "c2", "c3"}
  Requests = {"r1", "r2"}
  Tokens = {"c1", "c3", "r1", "r2"}
  Token <- NestedToken
  Kind <- MixedKind
  Parent <- NestedParent
  Timed = {"c3"}
  Signalled = {}
  Takeovers = {}
  MayClear = TRUE
INVARIANTS OwnershipBacked PendingOwnerCurrent
PROPERTIES HumanKeepsControl ImplementsLease
