\* One upload: requests retried or without a channelId, rows older than the retention.
CONSTANTS
  c1 = c1
  c2 = c2
  u1 = u1
  u2 = u2
  n1 = n1
  n2 = n2
  r1 = r1
  r2 = r2
  Channel = {c1}
  NoChan = NoChan
  Upload = {u1}
  Name = {n1}
  Req = {r1, r2}
  MaxPart = 1
  MaxMsg = 2
  MaxFile = 1
  BatchSize = 1
  Home <- HomeOne
  Ways <- EveryWay
  Title <- OneTitle
  Target <- FirstFile
  Liberty = {"slow", "retry", "default"}
SYMMETRY Slots
SPECIFICATION Spec
INVARIANTS TypeOK RowXorFile
CHECK_DEADLOCK FALSE
