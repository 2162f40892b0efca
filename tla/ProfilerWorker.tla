---------------------------- MODULE ProfilerWorker ----------------------------
(***************************************************************************)
(* The worker thread of the RemoteProfiler: start creates it, stop asks it *)
(* to end and joins it, and doWork uploads the metrics and the logs when   *)
(* their intervals are over.                                               *)
(*                                                                         *)
(* Several threads may call start and stop.  fThreadMutex serialises them; *)
(* the worker takes no lock, it reads fShouldStop where it stands, once at *)
(* the head of its loop and once before either upload.  Thread and Signal  *)
(* are of the FleetWise platform library: release joins the thread, and a  *)
(* notify that finds nobody waiting ends the next wait.                    *)
(*                                                                         *)
(* Time is a number of ticks.  The worker is at most Slack ticks late when *)
(* its wait is over, and takes at most Slack ticks until it waits again.   *)
(* What sendLogsOut does is the subject of LogBuffer, and so is what stop  *)
(* does to the logs.                                                       *)
(***************************************************************************)
EXTENDS Integers, FiniteSets

CONSTANTS
  Callers,               \* the threads that call start and stop
  Intervals,             \* the upload intervals the constructor may be given
  MAX_PARALLEL_METRICS,
  ExecutionMetrics,      \* metrics collectExecutionEnvironmentMetrics always sets
  Slack,                 \* how late the worker may be
  MaxMetrics,            \* bound: metrics set in one round
  MaxStarts,             \* bound: calls of start
  MaxTime,               \* bound: the clock
  Free                   \* no owner of fThreadMutex

ASSUME WorkerAssumption ==
  /\ Free \notin Callers
  /\ Intervals \subseteq Nat
  /\ MAX_PARALLEL_METRICS \in Nat /\ ExecutionMetrics \in Nat
  /\ Slack \in Nat /\ MaxMetrics \in Nat /\ MaxStarts \in Nat /\ MaxTime \in Nat

VARIABLES
  fInitialUploadInterval, fInitialLogMaxInterval,
  fShouldStop,
  fThreadMutex,     \* its owner
  active,           \* fThread.isActive(): created and not yet released
  signal,           \* fWait was notified and nobody has seen it
  call,             \* where a caller is inside start or stop
  worker,           \* where the worker is in doWork
  now, wakeAt,      \* the clock, and when the worker's wait times out
  currentTime,      \* when the worker woke up last
  fLastTimeMetricsSentOut, fLastTimeMLogsSentOut,
  fMetricsRoot, fCurrentMetricsPending,
  made,             \* metrics set so far in this round
  unsent,           \* history: metrics set and not handed to the sender
  begun, starts,    \* history: when the worker was created; calls of start
  owed              \* history: uploads the worker still owes a stop

timers == <<fLastTimeMetricsSentOut, fLastTimeMLogsSentOut>>
intervals == <<fInitialUploadInterval, fInitialLogMaxInterval>>
metrics == <<fMetricsRoot, fCurrentMetricsPending, made, unsent>>
clocks == <<now, wakeAt, currentTime>>
control == <<fShouldStop, fThreadMutex, active, signal, call>>
history == <<begun, starts, owed>>
vars == <<intervals, control, worker, clocks, timers, metrics, history>>

Uploads == {"metrics", "logs"}

TypeOK ==
  /\ fInitialUploadInterval \in Intervals /\ fInitialLogMaxInterval \in Intervals
  /\ fShouldStop \in BOOLEAN /\ active \in BOOLEAN /\ signal \in BOOLEAN
  /\ fThreadMutex \in Callers \cup {Free}
  /\ call \in [Callers -> {"idle", "start", "stop", "requested", "notified"}]
  /\ worker \in {"ended", "head", "checked", "waiting", "awake", "metrics", "logs"}
  /\ now \in Nat /\ wakeAt \in Nat /\ currentTime \in Nat
  /\ fLastTimeMetricsSentOut \in Nat /\ fLastTimeMLogsSentOut \in Nat
  /\ fMetricsRoot \subseteq Nat /\ fCurrentMetricsPending \in Nat
  /\ made \in Nat /\ unsent \in Int
  /\ begun \in Nat /\ starts \in Nat
  /\ owed \subseteq Uploads

Init ==
  /\ fInitialUploadInterval \in Intervals /\ fInitialLogMaxInterval \in Intervals
  /\ fShouldStop = FALSE /\ active = FALSE /\ signal = FALSE
  /\ fThreadMutex = Free
  /\ call = [c \in Callers |-> "idle"] /\ worker = "ended"
  /\ now = 0 /\ wakeAt = 0 /\ currentTime = 0
  /\ fLastTimeMetricsSentOut = 0 /\ fLastTimeMLogsSentOut = 0
  /\ fMetricsRoot = {} /\ fCurrentMetricsPending = 0
  /\ made = 0 /\ unsent = 0
  /\ begun = 0 /\ starts = 0 /\ owed = {}

-------------------------------------------------------------------------------
(***************************************************************************)
(* start and stop.                                                         *)
(***************************************************************************)

\* start is called when no worker runs, or while a stop holds the mutex, and
\* by one thread at a time.  Without a metrics sender it does nothing.
CallStart(c) ==
  /\ call[c] = "idle" /\ starts < MaxStarts
  /\ ~active \/ fThreadMutex # Free
  /\ \A d \in Callers : call[d] # "start"
  /\ call' = [call EXCEPT ![c] = "start"]
  /\ starts' = starts + 1
  /\ UNCHANGED <<intervals, fShouldStop, fThreadMutex, active, signal, worker,
                 clocks, timers, metrics, begun, owed>>

\* Mutant: start without its lock_guard.
StartMayAlwaysEnter == TRUE

\* start waits for a stop to finish.
StartMayEnter == fThreadMutex = Free

\* Under the mutex, which nobody can see start take: the flag, then the thread,
\* which may fail to be created.
Start(c) ==
  /\ call[c] = "start" /\ StartMayEnter
  /\ fShouldStop' = FALSE
  /\ \/ /\ active' = TRUE /\ worker' = "head"
        /\ begun' = now /\ currentTime' = now
     \/ UNCHANGED <<active, worker, begun, currentTime>>
  /\ call' = [call EXCEPT ![c] = "idle"]
  /\ UNCHANGED <<intervals, fThreadMutex, signal, now, wakeAt, timers, metrics,
                 starts, owed>>

\* The check is made without the mutex.  Without a worker stop returns at once.
CallStop(c) ==
  /\ call[c] = "idle" /\ active
  /\ call' = [call EXCEPT ![c] = "stop"]
  /\ UNCHANGED <<intervals, fShouldStop, fThreadMutex, active, signal, worker,
                 clocks, timers, metrics, history>>

\* What a worker uploads before it ends, if it sees the flag from here on.
Owes ==
  CASE worker \in {"checked", "waiting", "awake"} -> Uploads
    [] worker \in {"metrics", "logs"} -> {"logs"}
    [] OTHER -> {}

StopRequest(c) ==
  /\ call[c] = "stop" /\ fThreadMutex = Free
  /\ fThreadMutex' = c
  /\ fShouldStop' = TRUE
  /\ owed' = Owes
  /\ call' = [call EXCEPT ![c] = "requested"]
  /\ UNCHANGED <<intervals, active, signal, worker, clocks, timers, metrics,
                 begun, starts>>

\* Mutant: a notify that finds nobody waiting is lost.
NotifiesWaiting == worker = "waiting"

\* A notify is kept for the next wait (WaitWithPredicate).
Notifies == TRUE

StopNotify(c) ==
  /\ call[c] = "requested"
  /\ signal' = Notifies
  /\ call' = [call EXCEPT ![c] = "notified"]
  /\ UNCHANGED <<intervals, fShouldStop, fThreadMutex, active, worker, clocks,
                 timers, metrics, history>>

\* release joins the worker, if there is still one; the rest of stop.  The
\* counter of the metrics is not reset with their root.  What stop does to the
\* logs before that is StopClearsRoot and StopZeroesCounter of LogBuffer.
StopFinish(c) ==
  /\ call[c] = "notified" /\ worker = "ended"
  /\ active' = FALSE
  /\ fMetricsRoot' = {}
  /\ fShouldStop' = FALSE
  /\ fThreadMutex' = Free
  /\ call' = [call EXCEPT ![c] = "idle"]
  /\ UNCHANGED <<intervals, signal, worker, clocks, timers,
                 fCurrentMetricsPending, made, unsent, history>>

-------------------------------------------------------------------------------
(***************************************************************************)
(* doWork.                                                                 *)
(***************************************************************************)

\* An interval of zero is no reason to wake up.
Timeouts == {fInitialUploadInterval, fInitialLogMaxInterval} \ {0}

\* Mutant: the longer one of the intervals.
WaitTimeLonger == CHOOSE w \in Timeouts : \A v \in Timeouts : v <= w

\* The shorter one; without any the worker waits until it is notified.
WaitTime == CHOOSE w \in Timeouts : \A v \in Timeouts : w <= v

WorkerHead ==
  /\ worker = "head"
  /\ worker' = IF fShouldStop THEN "ended" ELSE "checked"
  /\ UNCHANGED <<intervals, control, clocks, timers, metrics, history>>

WorkerWaits ==
  /\ worker = "checked"
  /\ worker' = "waiting"
  /\ wakeAt' = IF Timeouts = {} THEN now ELSE now + WaitTime
  /\ UNCHANGED <<intervals, control, now, currentTime, timers, metrics, history>>

WorkerWakes ==
  /\ worker = "waiting"
  /\ signal \/ (Timeouts # {} /\ now >= wakeAt)
  /\ worker' = "awake" /\ signal' = FALSE
  /\ currentTime' = now /\ wakeAt' = 0
  /\ UNCHANGED <<intervals, fShouldStop, fThreadMutex, active, call, now, timers,
                 metrics, history>>

\* Mutant: a stop is no reason to upload.
DueByTimeOnly(last, interval) == last + interval < currentTime

\* The comparison is strict: an interval that is just over is not over.
Due(last, interval) == fShouldStop \/ last + interval < currentTime

MetricsDue ==
  /\ worker = "awake"
  /\ IF Due(fLastTimeMetricsSentOut, fInitialUploadInterval)
     THEN /\ fLastTimeMetricsSentOut' = currentTime
          /\ worker' = "metrics"
     ELSE /\ worker' = "logs"
          /\ UNCHANGED fLastTimeMetricsSentOut
  /\ UNCHANGED <<intervals, control, clocks, fLastTimeMLogsSentOut, metrics,
                 history>>

\* Mutants: the counter runs on over the uploads; it is less a full batch.
PendingAfterSendRunsOn == fCurrentMetricsPending
PendingAfterSendLess == fCurrentMetricsPending - (MAX_PARALLEL_METRICS + 2)

\* fCurrentMetricsPending once sendMetricsOut is through.
PendingAfterSend == 0

\* Mutant: the metrics are sent only when twice as many are pending.
BatchFullTwice == fCurrentMetricsPending > 2 * MAX_PARALLEL_METRICS + 1

BatchFull == fCurrentMetricsPending > MAX_PARALLEL_METRICS

\* A metric of TraceModule or of collectExecutionEnvironmentMetrics.  The
\* error of a send is logged and forgotten.
setMetric ==
  /\ worker = "metrics" /\ made < MaxMetrics
  /\ LET pending == IF BatchFull THEN PendingAfterSend ELSE fCurrentMetricsPending
         root == IF BatchFull THEN {} ELSE fMetricsRoot
     IN /\ fCurrentMetricsPending' = pending + 1
        /\ fMetricsRoot' = root \cup {pending + 1}
        /\ unsent' = unsent + 1 - Cardinality(fMetricsRoot \ root)
  /\ made' = made + 1
  /\ UNCHANGED <<intervals, control, worker, clocks, timers, history>>

sendMetricsOut ==
  /\ worker = "metrics" /\ made >= ExecutionMetrics
  /\ unsent' = unsent - Cardinality(fMetricsRoot)
  /\ made' = 0
  /\ fMetricsRoot' = {} /\ fCurrentMetricsPending' = PendingAfterSend
  /\ owed' = owed \ {"metrics"}
  /\ worker' = "logs"
  /\ UNCHANGED <<intervals, control, clocks, timers, begun, starts>>

LogsDue ==
  /\ worker = "logs"
  /\ IF Due(fLastTimeMLogsSentOut, fInitialLogMaxInterval)
     THEN fLastTimeMLogsSentOut' = currentTime /\ owed' = owed \ {"logs"}
     ELSE UNCHANGED <<fLastTimeMLogsSentOut, owed>>
  /\ worker' = "head"
  /\ UNCHANGED <<intervals, control, clocks, fLastTimeMetricsSentOut, metrics,
                 begun, starts>>

\* Time passes as long as the worker is not overdue.
Tick ==
  /\ now < MaxTime
  /\ worker = "waiting" /\ Timeouts # {} => now < wakeAt + Slack
  /\ worker \notin {"ended", "waiting"} => now < currentTime + Slack
  /\ now' = now + 1
  /\ UNCHANGED <<intervals, control, worker, wakeAt, currentTime, timers, metrics,
                 history>>

-------------------------------------------------------------------------------
CallerStep(c) == Start(c) \/ StopRequest(c) \/ StopNotify(c) \/ StopFinish(c)

WorkerStep ==
  \/ WorkerHead \/ WorkerWaits \/ WorkerWakes
  \/ MetricsDue \/ setMetric \/ sendMetricsOut
  \/ LogsDue

Next ==
  \/ \E c \in Callers : CallStart(c) \/ CallStop(c) \/ CallerStep(c)
  \/ WorkerStep
  \/ Tick

Spec == Init /\ [][Next]_vars

\* Threads that can go on do.  fThreadMutex needs no strong fairness, for start
\* is called finitely often and each worker is stopped once.
Fairness == WF_vars(WorkerStep) /\ \A c \in Callers : WF_vars(CallerStep(c))

FairSpec == Spec /\ Fairness

-------------------------------------------------------------------------------
(***************************************************************************)
(* Properties.                                                             *)
(***************************************************************************)

\* Every metric of a round is handed to the sender or still in the root: no
\* key "metricN" is given twice, also across uploads and workers, and stop,
\* which clears the root but not the counter, finds both of them empty
\* (RemoteProfiler.cpp:60-74, 137-150, 199).
NoMetricLost ==
  /\ unsent = Cardinality(fMetricsRoot)
  /\ fMetricsRoot = 1..fCurrentMetricsPending

\* One upload carries at most one metric more than MAX_PARALLEL_METRICS
\* (RemoteProfiler.cpp:140, the comparison precedes the increment).
BatchBound == fCurrentMetricsPending <= MAX_PARALLEL_METRICS + 1

\* A stop that finds the worker past the head of its loop makes it upload the
\* metrics and the logs before it ends, whatever the intervals say
\* (RemoteProfiler.cpp:258-271).
FinalUpload == worker = "ended" => owed = {}

\* The interval between two uploads begins with the last one, or with the worker.
Since(last) == IF last < begun THEN begun ELSE last

\* While a worker runs the metrics are uploaded after their interval, one more
\* wait and the worker's own delays: a worker that is woken before the interval
\* is over, or just when it is, waits once more, but not longer than the shorter
\* of the two intervals, whatever the one of the logs is (RemoteProfiler.cpp:
\* 243-265).  Of the logs RemoteProfiler.h:54 says more, that their interval is a
\* maximum; the code does not keep it, and nothing weaker is stated here.
TimelyUpload ==
  worker # "ended" =>
    \A w \in Timeouts :
      now - Since(fLastTimeMetricsSentOut) <= fInitialUploadInterval + w + 3 * Slack

\* stop returns: its notify is not lost, and nobody takes its flag back before
\* the worker has seen it (RemoteProfiler.cpp:167-170, 191-202).
StopReturns == \A c \in Callers : call[c] = "stop" ~> call[c] = "idle"

\* While stop waits for the worker its flag stays set, whoever calls start or
\* stop meanwhile: start takes the flag back under the mutex that stop holds
\* (RemoteProfiler.cpp:167-170, 193-202).
StopNotTakenBack ==
  (\E c \in Callers : call[c] \in {"requested", "notified"}) => fShouldStop

-------------------------------------------------------------------------------
(***************************************************************************)
(* Why the safety properties hold.                                         *)
(***************************************************************************)

\* The mutex is owned by the stop that set the flag, and by nobody else.
MutexInv ==
  /\ \A c \in Callers :
       call[c] \in {"requested", "notified"} <=> fThreadMutex = c
  /\ fShouldStop <=> fThreadMutex # Free

\* A start under way finds no worker once it has the mutex.
ThreadInv ==
  /\ ~active => worker = "ended"
  /\ \A c \in Callers : call[c] = "start" => ~active \/ fThreadMutex # Free
  /\ \A c, d \in Callers : call[c] = "start" /\ call[d] = "start" => c = d

\* Metrics are pending while the worker collects them, and at no other time.
MetricsInv ==
  /\ NoMetricLost /\ BatchBound
  /\ worker # "metrics" => fCurrentMetricsPending = 0

\* What a worker still owes is ahead of it, and it owes nothing unless a stop
\* waits for it.
OwedInv ==
  /\ owed # {} => fShouldStop
  /\ "metrics" \in owed => worker \in {"checked", "waiting", "awake", "metrics"}
  /\ "logs" \in owed =>
       worker \in {"checked", "waiting", "awake", "metrics", "logs"}

\* How late the worker is.
ClockInv ==
  /\ begun <= now /\ currentTime <= now
  /\ worker # "ended" => begun <= currentTime
  /\ worker \notin {"ended", "waiting"} => now <= currentTime + Slack
  /\ worker = "waiting" /\ Timeouts # {} =>
       now <= wakeAt + Slack /\ wakeAt <= currentTime + WaitTime + Slack

\* When the worker looked at the timer of the metrics their interval was not over;
\* when it woke up after that, it was over by one wait at most.
TimerInv ==
  worker # "ended" /\ Timeouts # {} =>
    currentTime - Since(fLastTimeMetricsSentOut)
      <= fInitialUploadInterval
           + (IF worker = "awake" THEN WaitTime + 2 * Slack ELSE 0)

TimeInv == ClockInv /\ TimerInv

IInv == TypeOK /\ MutexInv /\ ThreadInv /\ MetricsInv /\ OwedInv
===============================================================================
