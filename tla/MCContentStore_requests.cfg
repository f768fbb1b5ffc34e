\* Two uploads, two requests at a time, one channel, disciplined clients.
CONSTANTS
  c1 = c1
  c2 = c2
  u1 = u1
  u2 = u2
  n1 = n1
  n2 = n2
  r1 = r1
  r2 = r2
  Channel = {c1}
  NoChan = NoChan
  Upload = {u1, u2}
  Name = {n1}
  Req = {r1, r2}
  MaxPart = 2
  MaxMsg = 3
  MaxFile = 2
  BatchSize = 100
  Home <- HomeOne
  Ways <- Both
  Title <- OneTitle
  Target <- FirstFile
  Liberty = {}
SYMMETRY Slots
SPECIFICATION Spec
INVARIANTS PartsPresent Reassembles OneHolder StoreInv
PROPERTIES StaleCleanerNoLeak KeepsPromise
CHECK_DEADLOCK FALSE
