CONSTANTS
  r1 = r1
  r2 = r2
  MaxPackets = 3
  MaxResponses = 2
  Runs = {r1, r2}
  NoRun = NoRun
CHECK_DEADLOCK FALSE
SPECIFICATION AtvvSpec
INVARIANTS TypeOK OneAtATime RecordingsFollowPress SoundIsWhole
PROPERTIES ReturnsToIdle
