CONSTANTS
  Entry = {1, 2, 3, 4}
  SortKey = {1, 2}
  MaxPage = 2
  Asked = {1, 2}
  ListChanges = 3
  Channel = {1, 2, 3}
  Caller = {1, 2}
  MaxBots = 2
  Calls = 3
  Slot = {1, 2}
  QueueCap = 2
  Requests = 3
  Session = {s1, s2}
  APIKey = {k1}
  NoSession = nosession
  Checker = {1, 2}
  Uses = 4
  Preset = {daily}
  SyncJob = {ours}
  NoJob = nojob
  Cron = {c0, c1, c2}
  Outdated = {c0}
  Default = c1
  Client = {1, 2}
  JobRequests = 4
  Instance = {1, 2}
  Event = {e1, e2}
  InboxSize = 1
  StreamSize = 1
  QueueSize = 1
  Trouble = 1
  Share = {h1}
  NoShare = noshare
  Visitor = {1, 2}
  Visits = 4
  MaxWork = 2
SPECIFICATION ServicesSpec
INVARIANTS ServicesTypeOK ListedOnce SomeSelected NothingRevived InStep StreamedOnce ClosedAfterUse
PROPERTY AttemptsEnd
CHECK_DEADLOCK FALSE
