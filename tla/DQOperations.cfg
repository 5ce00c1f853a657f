SPECIFICATION OrderedSpec
CONSTANTS
  Datasets = {1, 2}
  Ops = {1, 2, 3}
  Kinds = {"query", "attached", "lookup", "dictionary", "export", "delete"}
  None = None
INVARIANTS InTurn QueuesForgotten AttachedInUse DeletedIsGone
PROPERTIES OperationsEnd
CHECK_DEADLOCK FALSE
