-------------------------- MODULE LogForwardingProofs --------------------------
(***************************************************************************)
(* The log buffer keeps its bound when the calls that send it log          *)
(* themselves, and send is only ever inside one call, which keeps the      *)
(* mutex to itself where warnings are not forwarded.                       *)
(***************************************************************************)
EXTENDS LogForwarding, LogBufferProofs

-------------------------------------------------------------------------------
(***************************************************************************)
(* The composition implements the log buffer.                              *)
(***************************************************************************)

\* What is logged inside a call is a step of the log buffer, or nothing.
LEMMA ForwardIsLogStep ==
  ASSUME NEW f \in Threads, Forward(f)
  PROVE  [Next]_vars
  BY DEF Forward, logMessage, Next

\* Every step of the composition is a step of the log buffer or leaves it alone.
LEMMA ForwardingRefines == [FNext]_fvars => [Next]_vars
<1> SUFFICES ASSUME [FNext]_fvars
             PROVE  [Next]_vars
  OBVIOUS
<1>1. ASSUME NEW f \in Loggers, NEW e \in Entries, Log(f, e)
      PROVE  [Next]_vars
  BY <1>1 DEF Log, logMessage, Next
<1>2. CASE FlushLogs
  BY <1>2 DEF FlushLogs, Next
<1>3. ASSUME NEW f \in Threads, FrameStep(f)
      PROVE  [Next]_vars
  <2>1. CASE Buffer(f)
    BY <2>1 DEF Buffer, Next, ThreadStep
  <2>2. CASE Lock(f)
    BY <2>2 DEF Lock
  <2>3. CASE Warn(f)
    BY <2>3, ForwardIsLogStep DEF Warn, WarnMessage
  <2>4. CASE Unlock(f)
    BY <2>4 DEF Unlock
  <2>5. CASE Report(f)
    BY <2>5, ForwardIsLogStep DEF Report
  <2>6. CASE Return(f)
    BY <2>6 DEF Return, Next, ThreadStep
  <2> QED
    BY <1>3, <2>1, <2>2, <2>3, <2>4, <2>5, <2>6 DEF FrameStep
<1>4. CASE StopLogs
  BY <1>4 DEF StopLogs, Next
<1>5. CASE UNCHANGED fvars
  BY <1>5 DEF fvars
<1> QED
  BY <1>1, <1>2, <1>3, <1>4, <1>5 DEF FNext

\* With the logs of the calls that send forwarded to it, the log buffer still
\* behaves as LogBuffer says, each call a logger of its own
\* (RemoteProfiler.cpp:76-135).
THEOREM ForwardingImplementsLogBuffer == FSpec => Spec
<1>1. FInit => Init
  BY DEF FInit
<1> QED
  BY <1>1, ForwardingRefines, PTL DEF FSpec, Spec

\* So its overshoot is bounded by the calls of logMessage that can be open at
\* once, the nested ones included (RemoteProfiler.cpp:126-134).
THEOREM ForwardingOvershoot == FSpec => []OvershootBound
  BY ForwardingImplementsLogBuffer, OvershootSafety, PTL

\* And the counter still counts what is in the buffer, also when a message is
\* logged between the reset and the second critical section of the same call, and
\* when stop resets the buffer between the steps of these calls: unless that
\* reset overlapped with an add, until the next locked reset
\* (RemoteProfiler.cpp:116-132, 198).
THEOREM ForwardingCounter == FSpec => []CounterMatchesRoot
  BY ForwardingImplementsLogBuffer, CounterSafety, PTL

-------------------------------------------------------------------------------
(***************************************************************************)
(* send and its mutex.                                                     *)
(***************************************************************************)

SendInv == FTypeOK /\ SendUnderMutex

\* At the start nobody is inside send.
LEMMA SendInit == FInit => SendInv
  BY DEF FInit, SendInv, FTypeOK, SendUnderMutex, HoldsMutex

\* A call inside another one is the call of one frame only.
LEMMA NestedOnce ==
  ASSUME NEW f \in Threads, NEW g \in Threads, Nested(f) = Nested(g)
  PROVE  f = g
  BY ForwardAssumption DEF Nested

\* Forward only starts the call inside f, and does not touch the others.
LEMMA ForwardStarts ==
  ASSUME TypeOK, NEW f \in Threads, Forward(f), NEW g \in Threads, g # Nested(f)
  PROVE  pc'[g] = pc[g]
  BY DEF Forward, logMessage, LogFits, append, LogFull, TypeOK, vars

\* Every step keeps the mutex with the one call inside send.
LEMMA SendStep == TypeOK /\ SendInv /\ [FNext]_fvars => SendInv'
<1> SUFFICES ASSUME TypeOK, SendInv, [FNext]_fvars
             PROVE  SendInv'
  OBVIOUS
<1> USE DEF SendInv, FTypeOK, SendUnderMutex, HoldsMutex, ThreadOf
<1>1. ASSUME NEW f \in Loggers, NEW e \in Entries, Log(f, e)
      PROVE  SendInv'
  <2>1. UNCHANGED sendVars
    BY <1>1 DEF Log
  <2>2. ASSUME NEW g \in Threads, Innermost(g)
        PROVE  Innermost(g)'
    <3>1. Nested(g) # f
      BY <1>1, ForwardAssumption DEF Log, Outermost, Nested
    <3> QED
      BY <1>1, <2>2, <3>1 DEF Log, logMessage, LogFits, append, LogFull, Innermost, TypeOK
  <2> QED
    BY <2>1, <2>2 DEF sendVars
<1>2. CASE FlushLogs
  <2>1. UNCHANGED sendVars
    BY <1>2 DEF FlushLogs
  <2>2. ASSUME NEW g \in Threads, Innermost(g)
        PROVE  Innermost(g)'
    <3>1. Nested(g) # Worker
      BY ForwardAssumption DEF Nested
    <3> QED
      BY <1>2, <2>2, <3>1 DEF FlushLogs, Flush, Innermost, TypeOK
  <2> QED
    BY <2>1, <2>2 DEF sendVars
<1>3. ASSUME NEW f \in Threads, FrameStep(f)
      PROVE  SendInv'
  <2>1. CASE Buffer(f)
    <3>1. UNCHANGED sendVars
      BY <2>1 DEF Buffer
    <3>2. pc[f] # "idle" /\ \A g \in Threads \ {f} : pc'[g] = pc[g]
      BY <2>1 DEF Buffer, SerializeAndReset, NothingToSend, SomethingToSend,
                  AddAfterSend, appendAfterSend, append, CountEntry, TypeOK
    <3>3. ASSUME NEW g \in Threads, Innermost(g)
          PROVE  Innermost(g)'
      BY <3>2, <3>3 DEF Innermost, Nested
    <3> QED
      BY <3>1, <3>3 DEF sendVars
  <2>2. CASE Lock(f)
    <3>1. \A g \in Threads : ~HoldsMutex(g)
      BY <2>2, ForwardAssumption DEF Lock
    <3>2. \A g \in Threads : HoldsMutex(g)' => g = f
      BY <2>2, <3>1 DEF Lock, To
    <3>3. Innermost(f) /\ UNCHANGED pc
      BY <2>2 DEF Lock, In, vars
    <3> QED
      BY <2>2, <3>2, <3>3 DEF Lock, To, Acquired, Innermost
  <2>3. CASE Warn(f)
    <3>1. HoldsMutex(f) /\ UNCHANGED mConnectivityMutex
      BY <2>3 DEF Warn, In
    <3>2. \A g \in Threads : HoldsMutex(g)' => g = f
      BY <2>3, <3>1 DEF Warn, To
    <3>3. ~WarnForwarded => UNCHANGED pc
      BY <2>3 DEF Warn, WarnMessage, vars
    <3>4. Innermost(f)
      BY <2>3 DEF Warn, In
    <3>5. FTypeOK'
      BY <2>3 DEF Warn, To
    <3> QED
      BY <3>1, <3>2, <3>3, <3>4, <3>5 DEF Innermost
  <2>4. CASE Unlock(f)
    <3>1. HoldsMutex(f)
      BY <2>4 DEF Unlock, In
    <3>2. \A g \in Threads : ~HoldsMutex(g)'
      BY <2>4, <3>1 DEF Unlock, To
    <3> QED
      BY <2>4, <3>2 DEF Unlock, To, MutexAfterSend
  <2>5. CASE Report(f)
    <3>1. ~HoldsMutex(f) /\ UNCHANGED mConnectivityMutex
      BY <2>5 DEF Report, In
    <3>2. \A g \in Threads : HoldsMutex(g)' => HoldsMutex(g) /\ g # f
      BY <2>5, <3>1 DEF Report, To
    <3>3. ASSUME NEW g \in Threads, g # f, Innermost(g)
          PROVE  Innermost(g)'
      <4>1. Nested(g) # Nested(f)
        BY <3>3, NestedOnce
      <4> QED
        BY <2>5, <3>3, <4>1, ForwardStarts DEF Report, Innermost, Nested
    <3>4. FTypeOK'
      BY <2>5 DEF Report, To
    <3> QED
      BY <3>1, <3>2, <3>3, <3>4
  <2>6. CASE Return(f)
    <3>1. ~HoldsMutex(f) /\ UNCHANGED mConnectivityMutex /\ pc[f] # "idle"
      BY <2>6 DEF Return, In
    <3>2. \A g \in Threads : HoldsMutex(g)' => HoldsMutex(g)
      BY <2>6, <3>1 DEF Return, To
    <3>3. \A g \in Threads \ {f} : pc'[g] = pc[g]
      BY <2>6 DEF Return, Sent, TypeOK
    <3>4. ASSUME NEW g \in Threads, Innermost(g)
          PROVE  Innermost(g)'
      BY <3>1, <3>3, <3>4 DEF Innermost, Nested
    <3>5. FTypeOK'
      BY <2>6 DEF Return, To
    <3> QED
      BY <3>1, <3>2, <3>4, <3>5
  <2> QED
    BY <1>3, <2>1, <2>2, <2>3, <2>4, <2>5, <2>6 DEF FrameStep
<1>4. CASE StopLogs
  <2>1. UNCHANGED <<sendVars, pc>>
    BY <1>4 DEF StopLogs, StopClearsRoot, StopZeroesCounter
  <2> QED
    BY <2>1 DEF sendVars, Innermost
<1>5. CASE UNCHANGED fvars
  BY <1>5 DEF fvars, sendVars, vars, Innermost
<1> QED
  BY <1>1, <1>2, <1>3, <1>4, <1>5 DEF FNext

\* SendInv is an invariant of the composition.
LEMMA SendInvariance == FSpec => []SendInv
<1>1. FSpec => []TypeOK
  BY ForwardingImplementsLogBuffer, TypeCorrect, PTL
<1> QED
  BY <1>1, SendInit, SendStep, PTL DEF FSpec

\* Every variable of the composition keeps its type.
THEOREM ForwardingTypeCorrect == FSpec => [](TypeOK /\ FTypeOK)
<1>1. SendInv => FTypeOK
  BY DEF SendInv
<1> QED
  BY <1>1, SendInvariance, ForwardingImplementsLogBuffer, TypeCorrect, PTL

\* One call at a time is inside send, and its thread logs nothing under the
\* mutex unless warnings are forwarded (AwsIotChannel.cpp:156-168).
THEOREM SendSafety == FSpec => []SendUnderMutex
<1>1. SendInv => SendUnderMutex
  BY DEF SendInv
<1> QED
  BY <1>1, SendInvariance, PTL
===============================================================================
