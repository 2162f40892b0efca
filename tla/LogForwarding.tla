----------------------------- MODULE LogForwarding -----------------------------
(***************************************************************************)
(* LogBuffer composed with the channel that its logs are sent on.  The     *)
(* logging module hands every message of the agent to logMessage of the    *)
(* RemoteProfiler, as its ILogger; so do the messages that AwsIotChannel   *)
(* and the RemoteProfiler log while they send the logs.                    *)
(*                                                                         *)
(* The text that sendLogsOut sends is always empty.  send therefore takes  *)
(* mConnectivityMutex, warns and returns WrongInputData, and sendLogsOut   *)
(* reports the error.  Either message is a call of logMessage inside the   *)
(* call that sends: the thread runs a new frame, which may find the buffer *)
(* full and send in its turn.                                              *)
(*                                                                         *)
(* The callers of LogBuffer are the frames <<thread, depth>>.  A thread is *)
(* in the innermost of its frames that is not idle.                        *)
(***************************************************************************)
EXTENDS LogBuffer

CONSTANTS
  WarnForwarded,  \* is fLogLevelThreshold at most LogLevel::Warning
  Unowned         \* nobody owns mConnectivityMutex

ASSUME ForwardAssumption ==
  /\ \A f \in Threads : f = <<f[1], f[2]>> /\ f[2] \in Nat /\ f[1] # Unowned
  /\ Worker[2] = 0
  /\ WarnForwarded \in BOOLEAN

VARIABLES
  mConnectivityMutex,  \* the thread that owns the mutex of the log channel
  phase                \* where a frame is in send and behind it

sendVars == <<mConnectivityMutex, phase>>
fvars == <<vars, sendVars>>

ThreadOf(f) == f[1]
Nested(f) == <<f[1], f[2] + 1>>
Outermost(f) == f[2] = 0

FTypeOK ==
  /\ mConnectivityMutex \in {ThreadOf(f) : f \in Threads} \cup {Unowned}
  /\ phase \in [Threads ->
       {"calling", "locked", "warned", "unlocked", "reported"}]

FInit ==
  /\ Init
  /\ mConnectivityMutex = Unowned
  /\ phase = [f \in Threads |-> "calling"]

-------------------------------------------------------------------------------
(***************************************************************************)
(* The frames of a thread.                                                 *)
(***************************************************************************)

Innermost(f) == Nested(f) \in Threads => pc[Nested(f)] = "idle"

logMessage(f, e) == LogFits(f, e) \/ LogFull(f, e)

\* What the logging module does with a message logged by frame f.  Bound: when
\* the entries or the frames are used up, the message is ignored.
Forward(f) ==
  \/ Nested(f) \in Loggers /\ \E e \in Entries : logMessage(Nested(f), e)
  \/ /\ Nested(f) \in Loggers => ~\E e \in Entries \ BelowThreshold : Fresh(e)
     /\ UNCHANGED vars

\* A message of any other part of the agent.
Log(f, e) ==
  /\ Outermost(f) /\ logMessage(f, e)
  /\ UNCHANGED sendVars

\* The worker's interval is over.
FlushLogs == Flush /\ UNCHANGED sendVars

\* A thread stops the profiler.
StopLogs == (StopClearsRoot \/ StopZeroesCounter) /\ UNCHANGED sendVars

\* A step of logMessage or sendLogsOut that is not inside send.
Buffer(f) ==
  /\ Innermost(f)
  /\ \/ CountEntry(f)
     \/ SerializeAndReset(f)
     \/ NothingToSend(f)
     \/ SomethingToSend(f)
     \/ AddAfterSend(f)
  /\ UNCHANGED sendVars

-------------------------------------------------------------------------------
(***************************************************************************)
(* AwsIotChannel::send with no data, and sendLogsOut behind it.            *)
(***************************************************************************)

In(f, p) == pc[f] = "sending" /\ phase[f] = p /\ Innermost(f)

To(f, p) == phase' = [phase EXCEPT ![f] = p]

\* Mutant: the mutex is owned by the call.
AcquiredByCall(f) == f

Acquired(f) == ThreadOf(f)

\* std::mutex: the thread that owns it waits for itself as well.
Lock(f) ==
  /\ In(f, "calling") /\ mConnectivityMutex = Unowned
  /\ mConnectivityMutex' = Acquired(f)
  /\ To(f, "locked") /\ UNCHANGED vars

\* Mutant: the message is logged as an error.
WarnMessageAsError(f) == Forward(f)

WarnMessage(f) == IF WarnForwarded THEN Forward(f) ELSE UNCHANGED vars

\* "No valid data provided", under the mutex.
Warn(f) ==
  /\ In(f, "locked")
  /\ WarnMessage(f)
  /\ To(f, "warned") /\ UNCHANGED mConnectivityMutex

\* Mutant: the mutex is given back when the send error was reported.
MutexAfterSendKept == mConnectivityMutex

\* The lock_guard of send ends with send.
MutexAfterSend == Unowned

Unlock(f) ==
  /\ In(f, "warned")
  /\ mConnectivityMutex' = MutexAfterSend
  /\ To(f, "unlocked") /\ UNCHANGED vars

\* " Send error", which is above every threshold but Off.
Report(f) ==
  /\ In(f, "unlocked")
  /\ Forward(f)
  /\ To(f, "reported") /\ UNCHANGED mConnectivityMutex

Return(f) ==
  /\ In(f, "reported")
  /\ Sent(f)
  /\ To(f, "calling") /\ UNCHANGED mConnectivityMutex

-------------------------------------------------------------------------------
FrameStep(f) ==
  Buffer(f) \/ Lock(f) \/ Warn(f) \/ Unlock(f) \/ Report(f) \/ Return(f)

FNext ==
  \/ \E f \in Loggers, e \in Entries : Log(f, e)
  \/ FlushLogs
  \/ StopLogs
  \/ \E f \in Threads : FrameStep(f)

FSpec == FInit /\ [][FNext]_fvars

\* A thread inside a call goes on.  The mutex needs no strong fairness: the
\* entries are finitely many.
FFairSpec == FSpec /\ \A f \in Threads : WF_fvars(FrameStep(f))

-------------------------------------------------------------------------------
(***************************************************************************)
(* Properties.                                                             *)
(***************************************************************************)

HoldsMutex(f) == phase[f] \in {"locked", "warned"}

\* One call at a time is inside send, of the thread that owns the mutex; where
\* warnings are not forwarded, that thread logs nothing before it gives the
\* mutex back (AwsIotChannel.cpp:156-168).
SendUnderMutex ==
  \A f \in Threads : HoldsMutex(f) =>
    /\ mConnectivityMutex = ThreadOf(f)
    /\ \A g \in Threads : HoldsMutex(g) => g = f
    /\ ~WarnForwarded => Innermost(f)

\* Each call of logMessage that found the buffer full returns, and so does each
\* flush of the worker, whoever else logs, and although the calls log
\* themselves: "Can be called from multiple threads" (RemoteProfiler.h:71).
LogReturns == \A f \in Threads : pc[f] = "full" ~> pc[f] = "idle"
===============================================================================
