CONSTANTS
  p1 = p1
  p2 = p2
  m1 = m1
  m2 = m2
  r1 = r1
  r2 = r2
  Paths = {p1, p2}
  MapTasks = {m1, m2}
  RetryTasks = {r1, r2}
  NoTask = NoTask
  Stop = Stop
  Probes = 2
  Watchers = 2
  OpusRemote = FALSE
  FastReconnect = FALSE
SPECIFICATION Spec
SYMMETRY Symmetries
INVARIANTS TypeOK TrackedIsSubscribed EverySubscriptionOwned NeverForgotten
