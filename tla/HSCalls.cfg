SPECIFICATION FairSpec
CONSTANTS
  None = None
  Sessions = {"r1", "r2", "m1", "m2"}
  Mcp = {"m1", "m2"}
  Calls = {"a", "b", "c", "own", "lent", "x", "y", "u", "v", "w"}
  Of <- SessionOf
  MaxQueueSize = 2
  Keys = {"shared", "own key"}
  KeyOf <- KeyOfCall
  Namespace <- KeyNamespace
  Target <- Closer
  Scenes = {{"r1", "r2", "a", "c", "delete"}, {"r1", "r2", "a", "c", "stop"}, {"r1", "a", "b", "own"}, {"r1", "own", "a", "delete"}, {"m1", "x", "y", "v", "crash"}, {"m1", "x", "v", "stop"}, {"m1", "m2", "u", "w", "x"}, {"r1", "r2", "own", "lent", "delete"}}
INVARIANTS TasksDoNotOverlap NotUnderCalls
PROPERTIES CallsAnswered BrowsersReturned
CHECK_DEADLOCK FALSE
