CONSTANTS
  Files <- SomeFiles
  BlockData = 2
  BlockHeader = 1
  FileHeader = 3
  MinChunk = 1
  MaxChunk = 4
  Concurrency = 2
  Buffers = 1
  CopyBuffer = 3
  Base = 2
  LowDigits = 2
  NonceDigits = 3
  Nonces <- TwoNonces
SPECIFICATION ReadSpec
INVARIANTS ReadTypeOK InOrder WholeUnlessDisturbed
PROPERTY DownloadEnds
CHECK_DEADLOCK FALSE
