\* Two poll goroutines after a quick off and on.
CONSTANTS
  s1 = s1
  s2 = s2
  s3 = s3
  e1 = e1
  e2 = e2
  p1 = p1
  p2 = p2
  NoSub = NoSub
  Sub = {s1, s2}
  Event = {e1}
  Poller = {p1, p2}
  BufferSize = 2
  QueueSize = 1
  PollLimit = 1
  MaxTime = 5
SYMMETRY Symmetric
SPECIFICATION Spec
INVARIANTS TypeOK PolledOnce PunctualPolled
CHECK_DEADLOCK FALSE
