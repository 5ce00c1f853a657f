SPECIFICATION FairSpec
CONSTANTS
  None = None
  Tasks = {"once", "a", "b"}
  Once = {"once"}
  Missed = {"once", "a"}
  Keyed = {"a", "b"}
  Limited = {"a", "once"}
  Retry <- RetryOne
  Timers = {"f1", "f2"}
  Users = {"create", "pause", "resume", "cancel", "trigger", "dispose"}
  Op <- OneEach
  Scenes = {{"once", "create", "resume"}, {"once", "pause", "trigger"}, {"a", "pause", "resume"}, {"a", "trigger", "cancel"}, {"a", "create", "dispose"}, {"a", "b", "pause"}}
  Boot = "boot"
  MaxFires = 2
INVARIANTS OnceOnly ActiveHasTimer
PROPERTIES NothingHangs
CHECK_DEADLOCK FALSE
