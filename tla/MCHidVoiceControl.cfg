CONSTANTS
  k1 = k1
  k2 = k2
  Start = Start
  StopTasks = {k1, k2}
  Unload = Unload
SPECIFICATION LiveSpec
INVARIANTS TypeOK RemoteFollowsButton
PROPERTIES ReleaseEndsVoice
