\* One upload, two names, two channels whose message ids repeat.
CONSTANTS
  c1 = c1
  c2 = c2
  u1 = u1
  u2 = u2
  n1 = n1
  n2 = n2
  r1 = r1
  r2 = r2
  Channel = {c1, c2}
  NoChan = NoChan
  Upload = {u1}
  Name = {n1, n2}
  Req = {r1}
  MaxPart = 1
  MaxMsg = 2
  MaxFile = 2
  BatchSize = 100
  Home <- HomeOne
  Ways <- Both
  Title <- OneTitle
  Target <- FirstFile
  Liberty = {}
SYMMETRY Slots
SPECIFICATION Spec
INVARIANTS NoFalseMissing SweepAfterPurge
PROPERTY KeepsPromise
CHECK_DEADLOCK FALSE
