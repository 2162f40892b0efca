-------------------------- MODULE ProfilerWorkerProofs --------------------------
(***************************************************************************)
(* Type correctness and safety of ProfilerWorker, for any number of        *)
(* threads that start and stop the profiler, any intervals and any time.   *)
(*                                                                         *)
(* IInv is inductive: the mutex tells which stop set the flag, metrics are *)
(* pending only while the worker collects them, and what the worker owes a *)
(* stop is ahead of it.                                                    *)
(***************************************************************************)
EXTENDS ProfilerWorker, FiniteSetTheorems, TLAPS

USE DEF timers, intervals, metrics, clocks, control, history,
        StartMayEnter, Notifies, PendingAfterSend

-------------------------------------------------------------------------------
(***************************************************************************)
(* Types.                                                                  *)
(***************************************************************************)

\* The wait of the worker is a number.
LEMMA WaitTimeType ==
  ASSUME TypeOK, Timeouts # {}
  PROVE  WaitTime \in Nat
<1>1. fInitialUploadInterval \in Nat /\ fInitialLogMaxInterval \in Nat
  BY WorkerAssumption DEF TypeOK
<1>2. \E w \in Timeouts : \A v \in Timeouts : w <= v
  <2>1. CASE fInitialUploadInterval \in Timeouts /\ fInitialLogMaxInterval \in Timeouts
    BY <1>1, <2>1 DEF Timeouts
  <2>2. CASE fInitialUploadInterval \notin Timeouts \/ fInitialLogMaxInterval \notin Timeouts
    BY <1>1, <2>2 DEF Timeouts
  <2> QED
    BY <2>1, <2>2
<1>3. WaitTime \in Timeouts
  BY <1>2 DEF WaitTime
<1> QED
  BY <1>1, <1>3 DEF Timeouts

\* The number of metrics in a root is a number.
LEMMA RootSize ==
  ASSUME TypeOK, MetricsInv
  PROVE  /\ Cardinality(fMetricsRoot) = fCurrentMetricsPending
         /\ Cardinality({}) = 0
         /\ Cardinality(1..(fCurrentMetricsPending + 1)) = fCurrentMetricsPending + 1
<1>1. fMetricsRoot = 1..fCurrentMetricsPending /\ fCurrentMetricsPending \in Nat
  BY DEF MetricsInv, NoMetricLost, TypeOK
<1>2. Cardinality(1..fCurrentMetricsPending) = fCurrentMetricsPending
  BY <1>1, FS_Interval
<1>3. Cardinality(1..(fCurrentMetricsPending + 1)) = fCurrentMetricsPending + 1
  BY <1>1, FS_Interval
<1> QED
  BY <1>1, <1>2, <1>3, FS_EmptySet

\* Every step keeps the types, given what is known of the metrics.
LEMMA TypeStep ==
  ASSUME TypeOK, MetricsInv, [Next]_vars
  PROVE  TypeOK'
<1> USE WorkerAssumption DEF TypeOK, Uploads
<1>1. ASSUME NEW c \in Callers, CallStart(c) \/ CallStop(c)
      PROVE  TypeOK'
  <2>1. call' \in [Callers -> {"idle", "start", "stop", "requested", "notified"}]
    BY <1>1 DEF CallStart, CallStop
  <2>2. starts' \in Nat
    BY <1>1 DEF CallStart, CallStop
  <2> QED
    BY <1>1, <2>1, <2>2 DEF CallStart, CallStop
<1>2. ASSUME NEW c \in Callers, CallerStep(c)
      PROVE  TypeOK'
  <2>1. CASE Start(c)
    BY <2>1 DEF Start
  <2>2. CASE StopRequest(c)
    BY <2>2 DEF StopRequest, Owes
  <2>3. CASE StopNotify(c)
    BY <2>3 DEF StopNotify
  <2>4. CASE StopFinish(c)
    BY <2>4 DEF StopFinish
  <2> QED
    BY <1>2, <2>1, <2>2, <2>3, <2>4 DEF CallerStep
<1>3. CASE WorkerStep
  <2>1. CASE WorkerHead
    BY <2>1 DEF WorkerHead
  <2>2. CASE WorkerWaits
    <3>1. wakeAt' \in Nat
      BY <2>2, WaitTimeType DEF WorkerWaits
    <3> QED
      BY <2>2, <3>1 DEF WorkerWaits
  <2>3. CASE WorkerWakes
    BY <2>3 DEF WorkerWakes
  <2>4. CASE MetricsDue
    BY <2>4 DEF MetricsDue
  <2>5. CASE setMetric
    <3>1. fMetricsRoot \ {} = fMetricsRoot /\ fMetricsRoot \ fMetricsRoot = {}
      OBVIOUS
    <3>2. unsent' \in Int
      BY <2>5, <3>1, RootSize DEF setMetric
    <3>3. fCurrentMetricsPending' \in Nat /\ fMetricsRoot' \subseteq Nat
      <4>1. CASE BatchFull
        BY <2>5, <4>1 DEF setMetric
      <4>2. CASE ~BatchFull
        BY <2>5, <4>2 DEF setMetric
      <4> QED
        BY <4>1, <4>2
    <3> QED
      BY <2>5, <3>2, <3>3 DEF setMetric
  <2>6. CASE sendMetricsOut
    BY <2>6, RootSize DEF sendMetricsOut
  <2>7. CASE LogsDue
    BY <2>7 DEF LogsDue
  <2> QED
    BY <1>3, <2>1, <2>2, <2>3, <2>4, <2>5, <2>6, <2>7 DEF WorkerStep
<1>4. CASE Tick
  BY <1>4 DEF Tick
<1>5. CASE UNCHANGED vars
  BY <1>5 DEF vars
<1> QED
  BY <1>1, <1>2, <1>3, <1>4, <1>5 DEF Next

-------------------------------------------------------------------------------
(***************************************************************************)
(* The mutex, the metrics and the uploads a stop waits for.                *)
(***************************************************************************)

\* Only the owner of the mutex changes the flag.
LEMMA MutexStep ==
  ASSUME TypeOK, MutexInv, [Next]_vars
  PROVE  MutexInv'
<1> USE WorkerAssumption DEF TypeOK, MutexInv
<1>1. ASSUME NEW c \in Callers, CallStart(c) \/ CallStop(c)
      PROVE  MutexInv'
  BY <1>1 DEF CallStart, CallStop
<1>2. ASSUME NEW c \in Callers, CallerStep(c)
      PROVE  MutexInv'
  BY <1>2 DEF CallerStep, Start, StopRequest, StopNotify, StopFinish
<1>3. CASE WorkerStep \/ Tick \/ UNCHANGED vars
  <2>1. UNCHANGED <<call, fThreadMutex, fShouldStop>>
    BY <1>3 DEF WorkerStep, WorkerHead, WorkerWaits, WorkerWakes, MetricsDue, setMetric,
       sendMetricsOut, LogsDue, Tick, vars
  <2> QED
    BY <2>1
<1> QED
  BY <1>1, <1>2, <1>3 DEF Next

\* A worker is there exactly when fThread is active, or has just ended.
LEMMA ThreadStep ==
  ASSUME TypeOK, MutexInv, ThreadInv, [Next]_vars
  PROVE  ThreadInv'
<1> USE WorkerAssumption DEF TypeOK, MutexInv, ThreadInv
<1>1. ASSUME NEW c \in Callers, CallStart(c) \/ CallStop(c)
      PROVE  ThreadInv'
  BY <1>1 DEF CallStart, CallStop
<1>2. ASSUME NEW c \in Callers, CallerStep(c)
      PROVE  ThreadInv'
  BY <1>2 DEF CallerStep, Start, StopRequest, StopNotify, StopFinish
<1>3. CASE WorkerStep
  BY <1>3 DEF WorkerStep, WorkerHead, WorkerWaits, WorkerWakes, MetricsDue, setMetric,
     sendMetricsOut, LogsDue
<1>4. CASE Tick \/ UNCHANGED vars
  BY <1>4 DEF Tick, vars
<1> QED
  BY <1>1, <1>2, <1>3, <1>4 DEF Next

\* The keys of the root are as many as the counter says.
LEMMA MetricsStep ==
  ASSUME TypeOK, ThreadInv, MetricsInv, [Next]_vars
  PROVE  MetricsInv'
<1> USE WorkerAssumption
<1>1. ASSUME UNCHANGED <<unsent, fMetricsRoot, fCurrentMetricsPending>>,
             worker = "metrics" => worker' = "metrics"
      PROVE  MetricsInv'
  BY <1>1 DEF MetricsInv, NoMetricLost, BatchBound
<1>2. ASSUME NEW c \in Callers, CallStart(c) \/ CallStop(c) \/ CallerStep(c)
      PROVE  MetricsInv'
  <2>1. CASE StopFinish(c)
    <3>1. fMetricsRoot = {} /\ fMetricsRoot' = {}
      BY <2>1 DEF StopFinish, MetricsInv, NoMetricLost
    <3> QED
      BY <1>1, <2>1, <3>1 DEF StopFinish
  <2>2. CASE Start(c)
    <3>1. worker = "ended"
      BY <2>2 DEF Start, ThreadInv
    <3> QED
      BY <1>1, <2>2, <3>1 DEF Start
  <2>3. CASE CallStart(c) \/ CallStop(c) \/ StopRequest(c) \/ StopNotify(c)
    BY <1>1, <2>3 DEF CallStart, CallStop, StopRequest, StopNotify
  <2> QED
    BY <1>2, <2>1, <2>2, <2>3 DEF CallerStep
<1>3. CASE setMetric
  <2>1. /\ fCurrentMetricsPending \in Nat /\ fMetricsRoot = 1..fCurrentMetricsPending
        /\ unsent = fCurrentMetricsPending /\ worker' = "metrics"
    BY <1>3, RootSize DEF setMetric, MetricsInv, NoMetricLost, TypeOK
  <2>2. CASE BatchFull
    <3>1. fMetricsRoot \ {} = fMetricsRoot
      OBVIOUS
    <3>2. /\ fCurrentMetricsPending' = 1 /\ fMetricsRoot' = {1}
          /\ unsent' = unsent + 1 - Cardinality(fMetricsRoot)
      BY <1>3, <2>2, <3>1 DEF setMetric
    <3>3. unsent' = 1
      BY <2>1, <3>2, RootSize
    <3>4. {1} = 1..1 /\ Cardinality({1}) = 1
      BY FS_Singleton
    <3> QED
      BY <2>1, <3>2, <3>3, <3>4 DEF MetricsInv, NoMetricLost, BatchBound
  <2>3. CASE ~BatchFull
    <3>1. fMetricsRoot \ fMetricsRoot = {}
      OBVIOUS
    <3>2. /\ fCurrentMetricsPending' = fCurrentMetricsPending + 1
          /\ fMetricsRoot' = fMetricsRoot \cup {fCurrentMetricsPending + 1}
          /\ unsent' = unsent + 1 - Cardinality({})
      BY <1>3, <2>3, <3>1 DEF setMetric
    <3>3. fMetricsRoot' = 1..(fCurrentMetricsPending + 1)
      BY <2>1, <3>2
    <3>4. unsent' = fCurrentMetricsPending + 1
      BY <2>1, <3>2, RootSize
    <3>5. Cardinality(fMetricsRoot') = fCurrentMetricsPending + 1
      BY <3>3, RootSize
    <3> QED
      BY <2>1, <2>3, <3>2, <3>3, <3>4, <3>5
      DEF MetricsInv, NoMetricLost, BatchBound, BatchFull
  <2> QED
    BY <2>2, <2>3
<1>4. CASE sendMetricsOut
  <2>1. unsent = fCurrentMetricsPending /\ fCurrentMetricsPending \in Nat
    BY RootSize DEF MetricsInv, NoMetricLost, TypeOK
  <2>2. unsent' = 0 /\ fMetricsRoot' = {} /\ fCurrentMetricsPending' = 0
    BY <1>4, <2>1, RootSize DEF sendMetricsOut
  <2>3. 1..0 = {}
    OBVIOUS
  <2> QED
    BY <2>2, <2>3, RootSize DEF MetricsInv, NoMetricLost, BatchBound
<1>5. CASE WorkerHead \/ WorkerWaits \/ WorkerWakes \/ MetricsDue \/ LogsDue
  BY <1>1, <1>5 DEF WorkerHead, WorkerWaits, WorkerWakes, MetricsDue, LogsDue
<1>6. CASE Tick \/ UNCHANGED vars
  BY <1>1, <1>6 DEF Tick, vars
<1> QED
  BY <1>2, <1>3, <1>4, <1>5, <1>6 DEF Next, WorkerStep

\* A worker that owes an upload to a stop cannot pass by it: the flag is set.
LEMMA OwedStep ==
  ASSUME TypeOK, MutexInv, ThreadInv, OwedInv, [Next]_vars
  PROVE  OwedInv'
<1> USE WorkerAssumption DEF TypeOK, MutexInv, OwedInv, Uploads
<1>1. ASSUME NEW c \in Callers, CallStart(c) \/ CallStop(c)
      PROVE  OwedInv'
  BY <1>1 DEF CallStart, CallStop
<1>2. ASSUME NEW c \in Callers, CallerStep(c)
      PROVE  OwedInv'
  <2>1. CASE Start(c)
    <3>1. fShouldStop = FALSE
      BY <2>1 DEF Start
    <3> QED
      BY <2>1, <3>1 DEF Start
  <2>2. CASE StopRequest(c)
    BY <2>2 DEF StopRequest, Owes
  <2>3. CASE StopNotify(c)
    BY <2>3 DEF StopNotify
  <2>4. CASE StopFinish(c)
    <3>1. owed = {}
      BY <2>4 DEF StopFinish
    <3> QED
      BY <2>4, <3>1 DEF StopFinish
  <2> QED
    BY <1>2, <2>1, <2>2, <2>3, <2>4 DEF CallerStep
<1>3. CASE WorkerStep
  <2>1. CASE WorkerHead \/ WorkerWaits \/ WorkerWakes \/ setMetric
    BY <2>1 DEF WorkerHead, WorkerWaits, WorkerWakes, setMetric
  <2>2. CASE MetricsDue
    BY <2>2 DEF MetricsDue, Due
  <2>3. CASE sendMetricsOut
    BY <2>3 DEF sendMetricsOut
  <2>4. CASE LogsDue
    BY <2>4 DEF LogsDue, Due
  <2> QED
    BY <1>3, <2>1, <2>2, <2>3, <2>4 DEF WorkerStep
<1>4. CASE Tick \/ UNCHANGED vars
  BY <1>4 DEF Tick, vars
<1> QED
  BY <1>1, <1>2, <1>3, <1>4 DEF Next

-------------------------------------------------------------------------------
(***************************************************************************)
(* How late an upload can be.                                              *)
(***************************************************************************)

\* The wait is the shortest of the intervals that are not off.
LEMMA WaitTimeShortest ==
  ASSUME TypeOK, NEW v \in Timeouts
  PROVE  WaitTime \in Nat /\ v \in Nat /\ WaitTime <= v
<1>1. fInitialUploadInterval \in Nat /\ fInitialLogMaxInterval \in Nat
  BY WorkerAssumption DEF TypeOK
<1>2. \E w \in Timeouts : \A u \in Timeouts : w <= u
  <2>1. CASE fInitialUploadInterval \in Timeouts /\ fInitialLogMaxInterval \in Timeouts
    BY <1>1, <2>1 DEF Timeouts
  <2>2. CASE fInitialUploadInterval \notin Timeouts \/ fInitialLogMaxInterval \notin Timeouts
    BY <1>1, <2>2 DEF Timeouts
  <2> QED
    BY <2>1, <2>2
<1>3. WaitTime \in Timeouts /\ \A u \in Timeouts : WaitTime <= u
  BY <1>2 DEF WaitTime
<1> QED
  BY <1>1, <1>3 DEF Timeouts

\* The intervals are what the constructor was given, and so is the wait.
LEMMA WaitTimeConstant ==
  ASSUME [Next]_vars
  PROVE  UNCHANGED <<fInitialUploadInterval, fInitialLogMaxInterval, Timeouts, WaitTime>>
<1>1. UNCHANGED <<fInitialUploadInterval, fInitialLogMaxInterval>>
  BY DEF Next, vars, CallStart, CallStop, CallerStep, Start, StopRequest, StopNotify,
     StopFinish, WorkerStep, WorkerHead, WorkerWaits, WorkerWakes, MetricsDue, setMetric,
     sendMetricsOut, LogsDue, Tick
<1>2. Timeouts' = Timeouts
  BY <1>1 DEF Timeouts
<1> QED
  BY <1>1, <1>2 DEF WaitTime

\* The worker is late by its delays only.
LEMMA ClockStep ==
  ASSUME TypeOK, ThreadInv, ClockInv, [Next]_vars
  PROVE  ClockInv'
<1> DEFINE W == WaitTime
<1>1. Timeouts # {} => W \in Nat
  BY WaitTimeType
<1>2. Timeouts' = Timeouts /\ W' = W
  BY WaitTimeConstant
<1> HIDE DEF W
<1> USE <1>1, <1>2, WorkerAssumption DEF TypeOK
<1>3. ASSUME NEW c \in Callers, CallStart(c) \/ CallStop(c) \/ CallerStep(c)
      PROVE  ClockInv'
  <2>1. CASE Start(c)
    BY <2>1 DEF Start, ThreadInv, ClockInv, W
  <2>2. CASE CallStart(c) \/ CallStop(c) \/ StopRequest(c) \/ StopNotify(c) \/ StopFinish(c)
    BY <2>2 DEF CallStart, CallStop, StopRequest, StopNotify, StopFinish, ClockInv, W
  <2> QED
    BY <1>3, <2>1, <2>2 DEF CallerStep
<1>4. CASE WorkerWaits
  BY <1>4 DEF WorkerWaits, ClockInv, W
<1>5. CASE WorkerWakes
  BY <1>5 DEF WorkerWakes, ClockInv, W
<1>6. CASE WorkerHead \/ MetricsDue \/ setMetric \/ sendMetricsOut \/ LogsDue
  BY <1>6 DEF WorkerHead, MetricsDue, setMetric, sendMetricsOut, LogsDue, ClockInv, W
<1>7. CASE Tick
  BY <1>7 DEF Tick, ClockInv, W
<1>8. CASE UNCHANGED vars
  BY <1>8 DEF vars, ClockInv, W
<1> QED
  BY <1>3, <1>4, <1>5, <1>6, <1>7, <1>8 DEF Next, WorkerStep

\* A timer that was seen is not over, and one that is yet to be seen not by much.
LEMMA TimerStep ==
  ASSUME TypeOK, ThreadInv, TimeInv, [Next]_vars
  PROVE  TimeInv'
<1> DEFINE W == WaitTime
<1>1. Timeouts # {} => W \in Nat
  BY WaitTimeType
<1>2. /\ Timeouts' = Timeouts /\ W' = W
      /\ UNCHANGED <<fInitialUploadInterval, fInitialLogMaxInterval>>
  BY WaitTimeConstant
<1>3. fInitialUploadInterval \in Nat /\ fInitialLogMaxInterval \in Nat
  BY WorkerAssumption DEF TypeOK
<1>4. ClockInv /\ ClockInv'
  BY ClockStep DEF TimeInv
<1> HIDE DEF W
<1> USE <1>1, <1>2, <1>3, <1>4, WorkerAssumption DEF TypeOK, TimerInv, Since
<1>5. ASSUME UNCHANGED <<begun, currentTime, timers>>,
             worker' # "ended" => worker # "ended",
             worker' # "awake" => worker # "awake"
      PROVE  TimeInv'
  BY <1>5 DEF TimeInv, W
<1>6. ASSUME NEW c \in Callers, CallStart(c) \/ CallStop(c) \/ CallerStep(c)
      PROVE  TimeInv'
  <2>1. CASE Start(c)
    <3>1. CASE worker' = "head" /\ begun' = now /\ currentTime' = now /\ UNCHANGED timers
      BY <3>1 DEF TimeInv, W
    <3>2. CASE UNCHANGED <<worker, begun, currentTime, timers>>
      BY <1>5, <3>2
    <3> QED
      BY <2>1, <3>1, <3>2 DEF Start
  <2>2. CASE CallStart(c) \/ CallStop(c) \/ StopRequest(c) \/ StopNotify(c) \/ StopFinish(c)
    BY <1>5, <2>2 DEF CallStart, CallStop, StopRequest, StopNotify, StopFinish
  <2> QED
    BY <1>6, <2>1, <2>2 DEF CallerStep
<1>7. CASE WorkerWakes
  <2>1. /\ worker = "waiting" /\ worker' = "awake" /\ currentTime' = now
        /\ UNCHANGED <<begun, timers>>
    BY <1>7 DEF WorkerWakes
  <2>2. Timeouts # {} => now <= currentTime + W + 2 * Slack
    BY <2>1 DEF ClockInv, W
  <2> QED
    BY <2>1, <2>2 DEF TimeInv, W
<1>8. CASE MetricsDue
  <2>1. /\ worker = "awake" /\ worker' \in {"metrics", "logs"}
        /\ UNCHANGED <<begun, currentTime>>
        /\ \/ fLastTimeMetricsSentOut' = currentTime
           \/ /\ UNCHANGED fLastTimeMetricsSentOut
              /\ fLastTimeMetricsSentOut + fInitialUploadInterval >= currentTime
    BY <1>8 DEF MetricsDue, Due
  <2> QED
    BY <2>1 DEF TimeInv, W
<1>9. CASE LogsDue
  <2>1. /\ worker = "logs" /\ worker' = "head"
        /\ UNCHANGED <<begun, currentTime, fLastTimeMetricsSentOut>>
    BY <1>9 DEF LogsDue
  <2> QED
    BY <2>1 DEF TimeInv, W
<1>10. CASE WorkerHead \/ WorkerWaits \/ setMetric \/ sendMetricsOut \/ Tick
  BY <1>5, <1>10 DEF WorkerHead, WorkerWaits, setMetric, sendMetricsOut, Tick
<1>11. CASE UNCHANGED vars
  BY <1>5, <1>11 DEF vars
<1> QED
  BY <1>6, <1>7, <1>8, <1>9, <1>10, <1>11 DEF Next, WorkerStep

\* Behind a timer that was seen there is one wait at most, and the delays around it.
LEMMA TimelyImplied == TypeOK /\ TimeInv => TimelyUpload
<1> SUFFICES ASSUME TypeOK, TimeInv, worker # "ended", NEW v \in Timeouts
             PROVE  now - Since(fLastTimeMetricsSentOut)
                      <= fInitialUploadInterval + v + 3 * Slack
  BY DEF TimelyUpload
<1> DEFINE W == WaitTime
<1>1. W \in Nat /\ v \in Nat /\ W <= v
  BY WaitTimeShortest
<1>2. fInitialUploadInterval \in Nat
  BY WorkerAssumption DEF TypeOK
<1>3. now <= currentTime + (IF worker = "waiting" THEN W + 2 * Slack ELSE Slack)
  BY <1>1, WorkerAssumption DEF TimeInv, ClockInv, TypeOK
<1> HIDE DEF W
<1> QED
  BY <1>1, <1>2, <1>3, WorkerAssumption DEF TimeInv, TimerInv, Since, TypeOK, W

-------------------------------------------------------------------------------
(***************************************************************************)
(* The theorems.                                                           *)
(***************************************************************************)

\* The inductive invariant holds at the start.
LEMMA IInvInit == Init => IInv
<1> SUFFICES ASSUME Init PROVE IInv
  OBVIOUS
<1>1. TypeOK
  <2>1. fMetricsRoot \subseteq Nat /\ unsent \in Int /\ owed \subseteq Uploads
    BY DEF Init
  <2>2. call \in [Callers -> {"idle", "start", "stop", "requested", "notified"}]
    BY DEF Init
  <2> QED
    BY <2>1, <2>2, WorkerAssumption DEF Init, TypeOK
<1>2. MetricsInv
  <2>1. 1..0 = {} /\ Cardinality({}) = 0
    BY FS_EmptySet
  <2> QED
    BY <2>1, WorkerAssumption DEF Init, MetricsInv, NoMetricLost, BatchBound
<1>3. MutexInv /\ ThreadInv /\ OwedInv
  BY WorkerAssumption DEF Init, MutexInv, ThreadInv, OwedInv
<1> QED
  BY <1>1, <1>2, <1>3 DEF IInv

\* IInv is an invariant of the specification.
THEOREM WorkerInvariance == Spec => []IInv
<1>1. IInv /\ [Next]_vars => IInv'
  BY TypeStep, MutexStep, ThreadStep, MetricsStep, OwedStep DEF IInv
<1> QED
  BY <1>1, IInvInit, PTL DEF Spec

\* Every variable keeps its type.
THEOREM WorkerTypeCorrect == Spec => []TypeOK
<1>1. IInv => TypeOK
  BY DEF IInv
<1> QED
  BY <1>1, WorkerInvariance, PTL

\* Metrics are neither lost nor overwritten on their way to the sender.
THEOREM MetricsSafety == Spec => []NoMetricLost
<1>1. IInv => NoMetricLost
  BY DEF IInv, MetricsInv
<1> QED
  BY <1>1, WorkerInvariance, PTL

\* No upload carries more than MAX_PARALLEL_METRICS + 1 metrics.
THEOREM BatchSafety == Spec => []BatchBound
<1>1. IInv => BatchBound
  BY DEF IInv, MetricsInv
<1> QED
  BY <1>1, WorkerInvariance, PTL

\* A worker that is stopped past the head of its loop uploads before it ends.
THEOREM FinalUploadSafety == Spec => []FinalUpload
<1>1. IInv => FinalUpload
  BY DEF IInv, TypeOK, OwedInv, FinalUpload, Uploads
<1> QED
  BY <1>1, WorkerInvariance, PTL

\* No start takes the flag of a stop back.
THEOREM StopSafety == Spec => []StopNotTakenBack
<1>1. IInv => StopNotTakenBack
  BY WorkerAssumption DEF IInv, MutexInv, StopNotTakenBack
<1> QED
  BY <1>1, WorkerInvariance, PTL

\* No upload of metrics is later than its interval, one wait and the worker's
\* delays, whatever the interval of the logs is (RemoteProfiler.cpp:243-265).
THEOREM TimelySafety == Spec => []TimelyUpload
<1>1. Init => TimeInv
  BY WorkerAssumption DEF Init, TimeInv, ClockInv, TimerInv
<1>2. IInv => TypeOK /\ ThreadInv
  BY DEF IInv
<1> QED
  BY <1>1, <1>2, TimerStep, TimelyImplied, WorkerInvariance, PTL DEF Spec
===============================================================================
