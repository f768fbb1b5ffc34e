CONSTANTS
  a = a
  b = b
  r1 = r1
  r2 = r2
  NoName = NoName
  Name = {a, b}
  Request = {r1, r2}
  MaxId = 3
  Depth = 2
  Changes = 3
  Before <- Drives
SYMMETRY Slots
SPECIFICATION TreeSpec
INVARIANTS TreeTypeOK RoundTrip SameFolder SizesAddUp
CHECK_DEADLOCK FALSE
