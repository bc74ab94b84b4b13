CONSTANTS
  o1 = o1
  o2 = o2
  c1 = c1
  c2 = c2
  h1 = h1
  h2 = h2
  Openers = {o1, o2}
  Closers = {c1, c2}
  Unload = Unload
  Timers = {h1, h2}
  NoTimer = NoTimer
  MaxChannel = 2
SPECIFICATION LiveSpec
INVARIANTS TypeOK CaptureBounded
PROPERTIES CaptureEnds
