SPECIFICATION FFairSpec
CONSTANTS
  agent = agent
  worker = worker
  e1 = e1
  e2 = e2
  e3 = e3
  e4 = e4
  e5 = e5
  Loggers <- MCLoggers
  Worker <- MCWorker
  Entries = {e1, e2, e3, e4, e5}
  SizeOf <- MCSizeOf
  MaxEntrySize = 2
  BelowThreshold = {}
  MAX_BYTES_FOR_SINGLE_LOG_UPLOAD = 2
  HasLogSender = TRUE
  StopCalled = FALSE
  NoEntry = NoEntry
  WarnForwarded = TRUE
  Unowned = Unowned
PROPERTIES
  LogReturns
CHECK_DEADLOCK FALSE
