SPECIFICATION FairSpec
CONSTANTS
  l1 = l1
  l2 = l2
  e1 = e1
  e2 = e2
  e3 = e3
  e4 = e4
  e5 = e5
  e6 = e6
  Loggers = {l1, l2}
  Worker = Worker
  Entries = {e1, e2, e3, e4, e5, e6}
  SizeOf <- MCSizeOf
  MaxEntrySize = 2
  BelowThreshold = {e6}
  MAX_BYTES_FOR_SINGLE_LOG_UPLOAD = 2
  HasLogSender = TRUE
  StopCalled = TRUE
  NoEntry = NoEntry
INVARIANTS
  TypeOK
  CounterMatchesRoot
  OvershootBound
PROPERTIES
  FullEntryAdded
