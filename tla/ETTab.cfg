SPECIFICATION TabSpec
CONSTANTS
  MaxBatch = 2
  Limit = 3
  MaxEvents = 6
  MaxFails = 2
  Scenes <- TabScenes
INVARIANTS DebuggerSettles CaptureIsServed EventsAreHeard
PROPERTIES QueueIsPosted
CHECK_DEADLOCK FALSE
