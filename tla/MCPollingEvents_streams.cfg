\* Three streams come and go around one broadcast.
CONSTANTS
  s1 = s1
  s2 = s2
  s3 = s3
  e1 = e1
  e2 = e2
  p1 = p1
  p2 = p2
  NoSub = NoSub
  Sub = {s1, s2, s3}
  Event = {e1}
  Poller = {p1, p2}
  BufferSize = 1
  QueueSize = 1
  PollLimit = 1
  MaxTime = 3
SYMMETRY Symmetric
SPECIFICATION Spec
INVARIANTS SnapshotStable ExactSubscribers LazyPolling
CHECK_DEADLOCK FALSE
