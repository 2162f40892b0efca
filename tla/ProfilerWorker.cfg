\* Nobody needs to stop the profiler, and the clock is bounded.
SPECIFICATION FairSpec
CONSTANTS
  c1 = c1
  c2 = c2
  Callers = {c1, c2}
  Intervals = {0, 1, 2}
  MAX_PARALLEL_METRICS = 1
  ExecutionMetrics = 2
  Slack = 1
  MaxMetrics = 3
  MaxStarts = 2
  MaxTime = 9
  Free = Free
INVARIANTS
  TypeOK
  StopNotTakenBack
  NoMetricLost
  BatchBound
  FinalUpload
  TimelyUpload
PROPERTIES
  StopReturns
CHECK_DEADLOCK FALSE
