\* Liveness of the two cleaners under fairness.
CONSTANTS
  c1 = c1
  c2 = c2
  u1 = u1
  u2 = u2
  n1 = n1
  n2 = n2
  r1 = r1
  r2 = r2
  Channel = {c1}
  NoChan = NoChan
  Upload = {u1, u2}
  Name = {n1}
  Req = {r1}
  MaxPart = 1
  MaxMsg = 2
  MaxFile = 1
  BatchSize = 100
  Home <- HomeOne
  Ways <- Both
  Title <- OneTitle
  Target <- FirstFile
  Liberty = {}
SPECIFICATION FairSpec
PROPERTIES AbandonedCleaned DeletedSwept
CHECK_DEADLOCK FALSE
