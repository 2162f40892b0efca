-------------------------- MODULE ConnectivityProofs --------------------------
(***************************************************************************)
(* Type correctness and safety of Connectivity, for any number of threads, *)
(* channels and payloads.                                                  *)
(*                                                                         *)
(* IInv is inductive: a thread inside send works for a payload of its own, *)
(* owns the mutex of its channel past the alive check, and the destructor  *)
(* still has every channel with a module ahead of it.                      *)
(***************************************************************************)
EXTENDS Connectivity, TLAPS

USE DEF moduleVars, channelVars, subVars, sendVars, sdkVars,
        SubscribeLoop, OfflineAnswer, StoredAfter, Unused

-------------------------------------------------------------------------------
(***************************************************************************)
(* Types.                                                                  *)
(***************************************************************************)

\* The program starts in a state of the declared types.
LEMMA TypeInit == Init => TypeOK
<1> SUFFICES ASSUME Init PROVE TypeOK
  OBVIOUS
<1>1. <<>> \in Seq(Channels)
  OBVIOUS
<1>2. 0 \in 0..MaxReceived /\ <<>> \in Seq(StreamState)
  BY ConfigAssumption
<1> QED
  BY <1>1, <1>2 DEF Init, TypeOK, SendInside, SubInside, ConnectivityErrors

\* Setting an entry of a sequence of states leaves a sequence of the same length
\* with that entry.
LEMMA SetEntry ==
  ASSUME NEW s \in Seq(StreamState), NEW i \in 0..Len(s), NEW x \in StreamState
  PROVE  LET t == [s EXCEPT ![i] = x]
         IN  /\ t \in Seq(StreamState) /\ Len(t) = Len(s)
             /\ \A j \in 1..Len(s) : t[j] = IF j = i THEN x ELSE s[j]
<1> DEFINE t == [s EXCEPT ![i] = x]
<1>1. DOMAIN s = 1..Len(s) /\ Len(s) \in Nat /\ \A j \in 1..Len(s) : s[j] \in StreamState
  OBVIOUS
<1>2. t \in [1..Len(s) -> StreamState]
  BY <1>1
<1> QED
  BY <1>1, <1>2

\* The states of the operations of a channel, before and after the connection
\* breaks.
LEMMA BrokenStates ==
  ASSUME NEW s \in Seq(StreamState)
  PROVE  LET t == [i \in DOMAIN s |-> Broken(s[i])]
         IN  /\ t \in Seq(StreamState) /\ Len(t) = Len(s)
             /\ \A j \in 1..Len(s) : t[j] = Broken(s[j])
<1> DEFINE t == [i \in DOMAIN s |-> Broken(s[i])]
<1>1. DOMAIN s = 1..Len(s) /\ Len(s) \in Nat /\ \A j \in 1..Len(s) : s[j] \in StreamState
  OBVIOUS
<1>2. \A x \in StreamState : Broken(x) \in StreamState
  BY DEF Broken, StreamState
<1>3. t \in [1..Len(s) -> StreamState]
  BY <1>1, <1>2
<1> QED
  BY <1>1, <1>3

\* A sequence with one more entry is not empty.
LEMMA AppendNotEmpty ==
  ASSUME NEW s \in Seq(StreamState), NEW x \in StreamState
  PROVE  Append(s, x) # <<>>
<1>1. Append(s, x) \in Seq(StreamState) /\ Len(Append(s, x)) = Len(s) + 1 /\ Len(s) \in Nat
  OBVIOUS
<1>2. Len(<<>>) = 0
  OBVIOUS
<1>3. Len(Append(s, x)) # 0
  BY <1>1
<1> QED
  BY <1>2, <1>3

StreamsOK(st) == st \in [Channels -> Seq(StreamState)]

\* The operations stay well typed when the held one, or any one, is set, and when
\* the connection breaks.
LEMMA StreamsTyped ==
  ASSUME StreamsOK(streams)
  PROVE  /\ \A c \in Channels, x \in StreamState : SetHeld(c, x) => StreamsOK(streams')
         /\ \A c \in Channels : \A i \in DOMAIN streams[c], x \in StreamState :
              streams' = [streams EXCEPT ![c][i] = x] => StreamsOK(streams')
         /\ BreakStreams => StreamsOK(streams')
<1>1. ASSUME NEW c \in Channels, NEW x \in StreamState, NEW i \in 0..Len(streams[c]),
             streams' = [streams EXCEPT ![c][i] = x]
      PROVE  StreamsOK(streams')
  <2>1. streams[c] \in Seq(StreamState)
    BY DEF StreamsOK
  <2>2. [streams[c] EXCEPT ![i] = x] \in Seq(StreamState)
    BY <2>1, SetEntry
  <2> QED
    BY <1>1, <2>2 DEF StreamsOK
<1>2. ASSUME NEW c \in Channels
      PROVE  Len(streams[c]) \in 0..Len(streams[c]) /\ DOMAIN streams[c] \subseteq 0..Len(streams[c])
  BY DEF StreamsOK
<1>3. ASSUME BreakStreams PROVE StreamsOK(streams')
  <2>1. \A c \in Channels : [i \in DOMAIN streams[c] |-> Broken(streams[c][i])] \in Seq(StreamState)
    BY BrokenStates DEF StreamsOK
  <2> QED
    BY <1>3, <2>1 DEF BreakStreams, StreamsOK
<1> QED
  BY <1>1, <1>2, <1>3 DEF SetHeld

\* Every step keeps the types (all of the actions of Next).
LEMMA TypeStep == TypeOK /\ [Next]_vars => TypeOK'
<1> SUFFICES ASSUME TypeOK, [Next]_vars PROVE TypeOK'
  OBVIOUS
<1> USE ConfigAssumption, MessagesAssumption, ProcsDistinct
    DEF TypeOK, SendInside, SubInside, ConnectivityErrors, Procs
<1>1. ASSUME NEW p \in Threads, NEW m \in Messages, CallSend(p, m)
      PROVE  TypeOK'
  BY <1>1 DEF CallSend, EnterSend
<1>2. ASSUME NEW p \in Callers, NEW m \in Messages, SendStep(p, m)
      PROVE  TypeOK'
  <2> p \in Procs
    BY DEF Callers
  <2> USE DEF AtLock, Inside, SendReturn
  <2>1. CASE SendRefused(p, m)
    <3>1. CASE SendReturn(p, m, "NotConfigured")
      BY <2>1, <3>1 DEF SendRefused
    <3>2. CASE SendReturn(p, m, "WrongInputData")
      BY <2>1, <3>2 DEF SendRefused
    <3> QED
      BY <2>1, <3>1, <3>2 DEF SendRefused
  <2>2. CASE SendOffline(p, m)
    <3>1. stored' \in [Messages -> {"no", "persisted", "failed"}]
      BY <2>2 DEF SendOffline, storeData
    <3> QED
      BY <2>2, <3>1 DEF SendOffline
  <2>3. CASE SendChecked(p, m)
    BY <2>3 DEF SendChecked
  <2>4. CASE SendActivate(p, m)
    BY <2>4 DEF SendActivate
  <2>5. CASE SendActivated(p, m)
    BY <2>5 DEF SendActivated
  <2>6. CASE SendActivateFailed(p, m)
    BY <2>6 DEF SendActivateFailed
  <2>7. CASE SendAwaited(p, m)
    BY <2>7 DEF SendAwaited
  <2> QED
    BY <1>2, <2>1, <2>2, <2>3, <2>4, <2>5, <2>6, <2>7 DEF SendStep
<1>3. ASSUME NEW c \in Channels, SubscribeStep(c)
      PROVE  TypeOK'
  <2> USE DEF SubscribeReturn
  <2>1. CASE SubscribeRefused(c)
    <3>1. CASE SubscribeReturn(c, "NotConfigured")
      BY <2>1, <3>1 DEF SubscribeRefused
    <3>2. CASE SubscribeReturn(c, "NoConnection")
      BY <2>1, <3>2 DEF SubscribeRefused
    <3> QED
      BY <2>1, <3>1, <3>2 DEF SubscribeRefused
  <2>2. CASE SubscribeChecked(c)
    BY <2>2 DEF SubscribeChecked
  <2>3. CASE SubscribeActivate(c)
    <3>1. Append(streams[c], "created") \in Seq(StreamState)
      BY DEF StreamState
    <3> QED
      BY <2>3, <3>1 DEF SubscribeActivate
  <2>4. CASE SubscribeActivated(c)
    <3>1. streams' \in [Channels -> Seq(StreamState)]
      BY <2>4, StreamsTyped DEF SubscribeActivated, StreamsOK, StreamState
    <3> QED
      BY <2>4, <3>1 DEF SubscribeActivated
  <2>5. CASE SubscribeActivateFailed(c)
    <3>1. streams' \in [Channels -> Seq(StreamState)]
      BY <2>5, StreamsTyped DEF SubscribeActivateFailed, StreamsOK, StreamState
    <3> QED
      BY <2>5, <3>1 DEF SubscribeActivateFailed
  <2>6. CASE SubscribeAwaited(c)
    BY <2>6 DEF SubscribeAwaited
  <2> QED
    BY <1>3, <2>1, <2>2, <2>3, <2>4, <2>5, <2>6 DEF SubscribeStep
<1>4. CASE BootStep
  <2>1. CASE ConnectFailed
    BY <2>1 DEF ConnectFailed
  <2>2. CASE Connected
    BY <2>2 DEF Connected
  <2>3. CASE SubscribeNext
    <3>1. Head(loop) \in Channels /\ Tail(loop) \in Seq(Channels)
      BY <2>3 DEF SubscribeNext
    <3>2. ASSUME EnterSubscribe(Head(loop))
          PROVE  TypeOK'
      <4>1. subscribes' \in [Channels -> Nat]
        BY <3>1, <3>2 DEF EnterSubscribe
      <4> QED
        BY <2>3, <3>1, <3>2, <4>1 DEF SubscribeNext, EnterSubscribe
    <3>3. CASE ~mSubscribeAsynchronously[Head(loop)]
      BY <2>3, <3>1, <3>3 DEF SubscribeNext
    <3> HIDE DEF TypeOK
    <3> QED
      BY <2>3, <3>2, <3>3 DEF SubscribeNext
  <2>4. CASE ConnectReturns
    BY <2>4 DEF ConnectReturns
  <2>5. CASE InvalidateConnection
    BY <2>5 DEF InvalidateConnection
  <2>6. CASE EndDestructor
    <3>1. streams' \in [Channels -> Seq(StreamState)]
      BY <2>6, StreamsTyped DEF EndDestructor, StreamsOK
    <3> QED
      BY <2>6, <3>1 DEF EndDestructor
  <2> QED
    BY <1>3, <1>4, <2>1, <2>2, <2>3, <2>4, <2>5, <2>6 DEF BootStep
<1>5. CASE BootCall
  <2>1. ASSUME NEW c \in Channels, CreateNewChannel(c)
        PROVE  TypeOK'
    BY <2>1 DEF CreateNewChannel
  <2>2. ASSUME NEW c \in Channels, NEW valid \in BOOLEAN, NEW async \in BOOLEAN,
               setTopic(c, valid, async)
        PROVE  TypeOK'
    BY <2>2 DEF setTopic
  <2>3. ASSUME NEW c \in Channels, CallSubscribe(c)
        PROVE  TypeOK'
    BY <2>3 DEF CallSubscribe, EnterSubscribe
  <2>4. CASE Connect
    BY <2>4 DEF Connect
  <2>5. CASE StartDestructor
    BY <2>5 DEF StartDestructor
  <2> HIDE DEF TypeOK
  <2> QED
    BY <1>5, <2>1, <2>2, <2>3, <2>4, <2>5 DEF BootCall
<1>6. CASE Environment
  <2>1. ASSUME NEW m \in Messages, NucleusPublishes(m)
        PROVE  TypeOK'
    BY <2>1 DEF NucleusPublishes
  <2>2. ASSUME NEW c \in Channels, NEW i \in DOMAIN streams[c],
               NucleusOpensStream(c, i) \/ NucleusEndsStream(c, i)
        PROVE  TypeOK'
    <3>1. streams' \in [Channels -> Seq(StreamState)]
      BY <2>2, StreamsTyped DEF NucleusOpensStream, NucleusEndsStream, StreamsOK, StreamState
    <3> QED
      BY <2>2, <3>1 DEF NucleusOpensStream, NucleusEndsStream
  <2>3. CASE Disconnect
    <3>1. streams' \in [Channels -> Seq(StreamState)]
      BY <2>3, StreamsTyped DEF Disconnect, StreamsOK
    <3> QED
      BY <2>3, <3>1 DEF Disconnect
  <2>4. ASSUME NEW c \in Channels, OnStreamEvent(c)
        PROVE  TypeOK'
    <3>1. received' \in [Channels -> 0..MaxReceived]
      BY <2>4 DEF OnStreamEvent, onDataReceived
    <3>2. CASE UNCHANGED <<pc, sendVars>>
      BY <2>4, <3>1, <3>2 DEF OnStreamEvent, onDataReceived
    <3>3. ASSUME NEW m \in Messages, EnterSend(EventLoop, m)
          PROVE  TypeOK'
      BY <2>4, <3>1, <3>3 DEF OnStreamEvent, onDataReceived, EnterSend
    <3> HIDE DEF TypeOK
    <3> QED
      BY <2>4, <3>2, <3>3 DEF OnStreamEvent, onDataReceived
  <2> QED
    BY <1>6, <2>1, <2>2, <2>3, <2>4 DEF Environment
<1>7. CASE UNCHANGED vars
  BY <1>7 DEF vars
<1> QED
  BY <1>1, <1>2, <1>4, <1>5, <1>6, <1>7 DEF Next

-------------------------------------------------------------------------------
(***************************************************************************)
(* The bootstrap thread leaves the senders alone.                          *)
(***************************************************************************)

\* The senders are where they were, with the payloads they had.
SendersUntouched ==
  /\ UNCHANGED sendVars
  /\ \A p \in Procs : Active(p)' => Active(p) /\ pc'[p] = pc[p]
  /\ Created \subseteq Created'

\* A channel once created stays created.
LEMMA CreateKeeps ==
  ASSUME NEW s \in Seq(Channels), NEW c \in Channels
  PROVE  ToSet(Append(s, c)) = ToSet(s) \cup {c}
<1>1. DOMAIN Append(s, c) = 1..(Len(s) + 1) /\ DOMAIN s = 1..Len(s) /\ Len(s) \in Nat
  OBVIOUS
<1>2. \A i \in 1..Len(s) : Append(s, c)[i] = s[i]
  OBVIOUS
<1>3. Append(s, c)[Len(s) + 1] = c
  OBVIOUS
<1> QED
  BY <1>1, <1>2, <1>3 DEF ToSet

\* A loop that takes the head of a sequence has the tail ahead of it.
LEMMA TailSet ==
  ASSUME NEW s \in Seq(Channels), s # <<>>
  PROVE  ToSet(s) = ToSet(Tail(s)) \cup {Head(s)}
<1>1. DOMAIN Tail(s) = 1..(Len(s) - 1) /\ DOMAIN s = 1..Len(s) /\ Len(s) \in Nat /\ Len(s) >= 1
  OBVIOUS
<1>2. \A i \in 1..(Len(s) - 1) : Tail(s)[i] = s[i+1]
  OBVIOUS
<1>3. Head(s) = s[1]
  OBVIOUS
<1>4. \A i \in 2..Len(s) : i - 1 \in 1..(Len(s)-1) /\ Tail(s)[i-1] = s[i]
  BY <1>1, <1>2
<1>5. ToSet(s) \subseteq ToSet(Tail(s)) \cup {Head(s)}
  <2> SUFFICES ASSUME NEW i \in 1..Len(s), i # 1
               PROVE  s[i] \in ToSet(Tail(s))
    BY <1>1, <1>3 DEF ToSet
  <2> i - 1 \in 1..(Len(s) - 1) /\ Tail(s)[i - 1] = s[i]
    BY <1>1, <1>4
  <2> QED
    BY <1>1 DEF ToSet
<1>6. ToSet(Tail(s)) \cup {Head(s)} \subseteq ToSet(s)
  BY <1>1, <1>2, <1>3 DEF ToSet
<1> QED
  BY <1>5, <1>6

\* No step of the bootstrap thread moves a sender or touches a payload.
LEMMA BootLeavesSenders ==
  ASSUME TypeOK, CallInv, BootCall \/ BootStep
  PROVE  SendersUntouched
<1> USE ProcsDistinct DEF SendersUntouched, Active, SendInside, CallInv, Procs, TypeOK
<1>1. ASSUME NEW c \in Channels, CreateNewChannel(c)
      PROVE  SendersUntouched
  BY <1>1, CreateKeeps DEF CreateNewChannel, Created
<1>2. ASSUME NEW c \in Channels, NEW valid \in BOOLEAN, NEW async \in BOOLEAN,
             setTopic(c, valid, async)
      PROVE  SendersUntouched
  BY <1>2 DEF setTopic, Created
<1>3. ASSUME NEW c \in Channels, CallSubscribe(c)
      PROVE  SendersUntouched
  BY <1>3 DEF CallSubscribe, EnterSubscribe, Created
<1>5. CASE Connect
  BY <1>5 DEF Connect, Created
<1>6. CASE StartDestructor
  BY <1>6 DEF StartDestructor, Created
<1>7. CASE ConnectFailed
  BY <1>7 DEF ConnectFailed, Created
<1>8. CASE Connected
  BY <1>8 DEF Connected, Created
<1>9. CASE SubscribeNext
  BY <1>9 DEF SubscribeNext, EnterSubscribe, Created
<1>10. CASE ConnectReturns
  BY <1>10 DEF ConnectReturns, Created
<1>11. CASE InvalidateConnection
  BY <1>11 DEF InvalidateConnection, Created
<1>12. CASE EndDestructor
  BY <1>12 DEF EndDestructor, Created
<1>13. ASSUME NEW c \in Channels, SubscribeStep(c)
       PROVE  SendersUntouched
  BY <1>13 DEF SubscribeStep, SubscribeRefused, SubscribeChecked, SubscribeActivate,
     SubscribeActivated, SubscribeActivateFailed, SubscribeAwaited, SubscribeReturn, Created
<1> HIDE DEF SendersUntouched, CallInv, TypeOK
<1> QED
  BY <1>1, <1>2, <1>3, <1>5, <1>6, <1>7, <1>8, <1>9, <1>10, <1>11, <1>12, <1>13
  DEF BootCall, BootStep

-------------------------------------------------------------------------------
(***************************************************************************)
(* Senders and their payloads.                                             *)
(***************************************************************************)

\* A thread inside send keeps a payload of its own.
LEMMA CallStep ==
  ASSUME TypeOK, CallInv, PayloadInv, [Next]_vars
  PROVE  CallInv'
<1> USE ProcsDistinct, MessagesAssumption
    DEF CallInv, PayloadInv, TypeOK, Active, SendInside, Procs, Callers
<1>1. ASSUME NEW p \in Callers, NEW m \in Messages, EnterSend(p, m), pc[p] = "idle",
             UNCHANGED <<mChannels, mutex, mConnectivityModule, subChannel>>
      PROVE  CallInv'
  BY <1>1 DEF EnterSend, Created
<1>2. ASSUME NEW p \in Callers, NEW m \in Messages, SendStep(p, m)
      PROVE  CallInv'
  <2> USE DEF AtLock, Inside, SendReturn, Created
  <2>1. CASE SendRefused(p, m)
    <3>1. CASE SendReturn(p, m, "NotConfigured")
      BY <2>1, <3>1 DEF SendRefused
    <3>2. CASE SendReturn(p, m, "WrongInputData")
      BY <2>1, <3>2 DEF SendRefused
    <3> QED
      BY <2>1, <3>1, <3>2 DEF SendRefused
  <2>2. CASE SendOffline(p, m)
    BY <2>2 DEF SendOffline, storeData
  <2>3. CASE SendChecked(p, m)
    BY <2>3 DEF SendChecked, isAliveNotThreadSafe
  <2>4. CASE SendActivate(p, m)
    BY <2>4 DEF SendActivate
  <2>5. CASE SendActivated(p, m)
    BY <2>5 DEF SendActivated
  <2>6. CASE SendActivateFailed(p, m)
    BY <2>6 DEF SendActivateFailed
  <2>7. CASE SendAwaited(p, m)
    BY <2>7 DEF SendAwaited, SendResult
  <2> QED
    BY <1>2, <2>1, <2>2, <2>3, <2>4, <2>5, <2>6, <2>7 DEF SendStep
<1>3. CASE BootCall \/ BootStep
  BY <1>3, BootLeavesSenders DEF SendersUntouched
<1>4. ASSUME NEW m \in Messages, NucleusPublishes(m)
      PROVE  CallInv'
  BY <1>4 DEF NucleusPublishes, Created
<1>5. ASSUME UNCHANGED <<mChannels, mutex, mConnectivityModule, subChannel, pc, sendVars>>
      PROVE  CallInv'
  BY <1>5 DEF Created
<1> HIDE DEF CallInv
<1>6. ASSUME NEW p \in Threads, NEW m \in Messages, CallSend(p, m)
      PROVE  CallInv'
  BY <1>1, <1>6 DEF CallSend, Callers
<1>7. ASSUME NEW c \in Channels, OnStreamEvent(c)
      PROVE  CallInv'
  BY <1>1, <1>5, <1>7 DEF OnStreamEvent, onDataReceived, LoopFree, Callers
<1>8. ASSUME NEW c \in Channels, NEW i \in DOMAIN streams[c],
             NucleusOpensStream(c, i) \/ NucleusEndsStream(c, i)
      PROVE  CallInv'
  BY <1>5, <1>8 DEF NucleusOpensStream, NucleusEndsStream
<1>9. CASE Disconnect \/ UNCHANGED vars
  BY <1>5, <1>9 DEF Disconnect, vars
<1> QED
  BY <1>2, <1>3, <1>4, <1>6, <1>7, <1>8, <1>9 DEF Next, Environment

\* What was stored, published and answered stays consistent.
LEMMA PayloadStep ==
  ASSUME TypeOK, CallInv, PayloadInv, [Next]_vars
  PROVE  PayloadInv'
<1> USE ProcsDistinct, MessagesAssumption
    DEF CallInv, PayloadInv, TypeOK, Active, SendInside, Procs, Callers
<1>1. ASSUME NEW p \in Callers, NEW m \in Messages, EnterSend(p, m), pc[p] = "idle",
             UNCHANGED <<mChannels, mutex, mConnectivityModule, subChannel>>
      PROVE  PayloadInv'
  BY <1>1 DEF EnterSend, Created
<1>2. ASSUME NEW p \in Callers, NEW m \in Messages, SendStep(p, m)
      PROVE  PayloadInv'
  <2> USE DEF AtLock, Inside, SendReturn, Created
  <2>1. CASE SendRefused(p, m)
    <3>1. CASE SendReturn(p, m, "NotConfigured")
      BY <2>1, <3>1 DEF SendRefused
    <3>2. CASE SendReturn(p, m, "WrongInputData")
      BY <2>1, <3>2 DEF SendRefused
    <3> QED
      BY <2>1, <3>1, <3>2 DEF SendRefused
  <2>2. CASE SendOffline(p, m)
    BY <2>2 DEF SendOffline, storeData
  <2>3. CASE SendChecked(p, m)
    BY <2>3 DEF SendChecked, isAliveNotThreadSafe
  <2>4. CASE SendActivate(p, m)
    BY <2>4 DEF SendActivate
  <2>5. CASE SendActivated(p, m)
    BY <2>5 DEF SendActivated
  <2>6. CASE SendActivateFailed(p, m)
    BY <2>6 DEF SendActivateFailed
  <2>7. CASE SendAwaited(p, m)
    BY <2>7 DEF SendAwaited, SendResult
  <2> QED
    BY <1>2, <2>1, <2>2, <2>3, <2>4, <2>5, <2>6, <2>7 DEF SendStep
<1>3. CASE BootCall \/ BootStep
  BY <1>3, BootLeavesSenders DEF SendersUntouched
<1>4. ASSUME NEW m \in Messages, NucleusPublishes(m)
      PROVE  PayloadInv'
  BY <1>4 DEF NucleusPublishes, Created
<1>5. ASSUME UNCHANGED <<mChannels, mutex, mConnectivityModule, subChannel, pc, sendVars>>
      PROVE  PayloadInv'
  BY <1>5 DEF Created
<1> HIDE DEF PayloadInv
<1>6. ASSUME NEW p \in Threads, NEW m \in Messages, CallSend(p, m)
      PROVE  PayloadInv'
  BY <1>1, <1>6 DEF CallSend, Callers
<1>7. ASSUME NEW c \in Channels, OnStreamEvent(c)
      PROVE  PayloadInv'
  BY <1>1, <1>5, <1>7 DEF OnStreamEvent, onDataReceived, LoopFree, Callers
<1>8. ASSUME NEW c \in Channels, NEW i \in DOMAIN streams[c],
             NucleusOpensStream(c, i) \/ NucleusEndsStream(c, i)
      PROVE  PayloadInv'
  BY <1>5, <1>8 DEF NucleusOpensStream, NucleusEndsStream
<1>9. CASE Disconnect \/ UNCHANGED vars
  BY <1>5, <1>9 DEF Disconnect, vars
<1> QED
  BY <1>2, <1>3, <1>4, <1>6, <1>7, <1>8, <1>9 DEF Next, Environment

-------------------------------------------------------------------------------
(***************************************************************************)
(* The channel's mutex, the module and its destructor.                     *)
(***************************************************************************)

\* A thread past the alive check keeps the mutex, and its channel the module.
LEMMA LockStep ==
  ASSUME TypeOK, CallInv, LockInv, [Next]_vars
  PROVE  LockInv'
<1> USE ProcsDistinct, MessagesAssumption
    DEF CallInv, LockInv, TypeOK, Active, SendInside, SubInside, Procs, Callers
<1>1. ASSUME NEW p \in Callers, NEW m \in Messages, EnterSend(p, m), pc[p] = "idle",
             UNCHANGED <<mChannels, mutex, mConnectivityModule, subChannel>>
      PROVE  LockInv'
  BY <1>1 DEF EnterSend, Created
<1>2. ASSUME NEW p \in Callers, NEW m \in Messages, SendStep(p, m)
      PROVE  LockInv'
  <2> USE DEF AtLock, Inside, SendReturn, Created
  <2>1. CASE SendRefused(p, m)
    <3>1. CASE SendReturn(p, m, "NotConfigured")
      BY <2>1, <3>1 DEF SendRefused
    <3>2. CASE SendReturn(p, m, "WrongInputData")
      BY <2>1, <3>2 DEF SendRefused
    <3> QED
      BY <2>1, <3>1, <3>2 DEF SendRefused
  <2>2. CASE SendOffline(p, m)
    BY <2>2 DEF SendOffline, storeData
  <2>3. CASE SendChecked(p, m)
    BY <2>3 DEF SendChecked, isAliveNotThreadSafe
  <2>4. CASE SendActivate(p, m)
    BY <2>4 DEF SendActivate
  <2>5. CASE SendActivated(p, m)
    BY <2>5 DEF SendActivated
  <2>6. CASE SendActivateFailed(p, m)
    BY <2>6 DEF SendActivateFailed
  <2>7. CASE SendAwaited(p, m)
    BY <2>7 DEF SendAwaited, SendResult
  <2> QED
    BY <1>2, <2>1, <2>2, <2>3, <2>4, <2>5, <2>6, <2>7 DEF SendStep
<1>3. CASE BootCall \/ BootStep
  <2>1. SendersUntouched
    BY <1>3, BootLeavesSenders
  <2> USE <2>1 DEF SendersUntouched
  <2>2. CASE UNCHANGED <<mutex, mConnectivityModule, subChannel>> /\ pc' = pc
    BY <2>2
  <2>3. ASSUME NEW c \in Channels, EnterSubscribe(c), UNCHANGED <<mutex, mConnectivityModule>>
        PROVE  LockInv'
    BY <2>3 DEF EnterSubscribe
  <2>4. ASSUME NEW c \in Channels, SubscribeStep(c)
        PROVE  LockInv'
    <3> USE DEF SubscribeReturn
    <3>1. CASE SubscribeRefused(c)
      BY <2>4, <3>1 DEF SubscribeRefused
    <3>2. CASE SubscribeChecked(c)
      BY <2>4, <3>2 DEF SubscribeChecked
    <3>3. CASE SubscribeActivate(c)
      BY <2>4, <3>3 DEF SubscribeActivate
    <3>4. CASE SubscribeActivated(c)
      BY <2>4, <3>4 DEF SubscribeActivated
    <3>5. CASE SubscribeActivateFailed(c)
      BY <2>4, <3>5 DEF SubscribeActivateFailed
    <3>6. CASE SubscribeAwaited(c)
      BY <2>4, <3>6 DEF SubscribeAwaited
    <3> QED
      BY <2>4, <3>1, <3>2, <3>3, <3>4, <3>5, <3>6 DEF SubscribeStep
  <2>5. CASE SubscribeNext
    <3>1. Head(loop) \in Channels
      BY <2>5 DEF SubscribeNext
    <3> HIDE DEF LockInv
    <3> QED
      BY <2>2, <2>3, <2>5, <3>1 DEF SubscribeNext
  <2>6. CASE InvalidateConnection
    BY <2>6 DEF InvalidateConnection
  <2> HIDE DEF LockInv, SendersUntouched
  <2>7. CASE BootCall
    BY <2>2, <2>3, <2>7 DEF BootCall, CreateNewChannel, setTopic, CallSubscribe,
       Connect, StartDestructor
  <2>8. CASE ConnectFailed \/ Connected \/ ConnectReturns \/ EndDestructor
    BY <2>2, <2>8 DEF ConnectFailed, Connected, ConnectReturns, EndDestructor
  <2> QED
    BY <1>3, <2>4, <2>5, <2>6, <2>7, <2>8 DEF BootStep
<1>4. ASSUME NEW m \in Messages, NucleusPublishes(m)
      PROVE  LockInv'
  BY <1>4 DEF NucleusPublishes, Created
<1>5. ASSUME UNCHANGED <<mChannels, mutex, mConnectivityModule, subChannel, pc, sendVars>>
      PROVE  LockInv'
  BY <1>5 DEF Created
<1> HIDE DEF LockInv
<1>6. ASSUME NEW p \in Threads, NEW m \in Messages, CallSend(p, m)
      PROVE  LockInv'
  BY <1>1, <1>6 DEF CallSend, Callers
<1>7. ASSUME NEW c \in Channels, OnStreamEvent(c)
      PROVE  LockInv'
  BY <1>1, <1>5, <1>7 DEF OnStreamEvent, onDataReceived, LoopFree, Callers
<1>8. ASSUME NEW c \in Channels, NEW i \in DOMAIN streams[c],
             NucleusOpensStream(c, i) \/ NucleusEndsStream(c, i)
      PROVE  LockInv'
  BY <1>5, <1>8 DEF NucleusOpensStream, NucleusEndsStream
<1>9. CASE Disconnect \/ UNCHANGED vars
  BY <1>5, <1>9 DEF Disconnect, vars
<1> QED
  BY <1>2, <1>3, <1>4, <1>6, <1>7, <1>8, <1>9 DEF Next, Environment

\* The destructor leaves no module behind in a channel that it passed.
LEMMA DestructorStep ==
  ASSUME TypeOK, CallInv, DestructorInv, [Next]_vars
  PROVE  DestructorInv'
<1> USE DEF DestructorInv, TypeOK
<1>1. ASSUME UNCHANGED <<boot, loop, mChannels, mConnectivityModule>>
      PROVE  DestructorInv'
  BY <1>1 DEF Created
<1>2. ASSUME boot' \notin {"closing", "gone"}
      PROVE  DestructorInv'
  BY <1>2
<1>3. CASE StartDestructor
  BY <1>3 DEF StartDestructor, Created
<1>4. CASE InvalidateConnection
  <2>1. ToSet(loop) = ToSet(loop') \cup {Head(loop)}
    BY <1>4, TailSet DEF InvalidateConnection
  <2>2. mConnectivityModule' = [mConnectivityModule EXCEPT ![Head(loop)] = FALSE]
    BY <1>4 DEF InvalidateConnection
  <2>3. Created' = Created /\ Created \subseteq Channels /\ boot' = boot
    BY <1>4 DEF InvalidateConnection, Created, ToSet
  <2>4. \A c \in Channels : mConnectivityModule'[c] => mConnectivityModule[c] /\ c # Head(loop)
    BY <2>2
  <2> QED
    BY <1>4, <2>1, <2>3, <2>4 DEF InvalidateConnection
<1>5. CASE EndDestructor
  BY <1>5 DEF EndDestructor, Created, ToSet
<1> HIDE DEF DestructorInv, TypeOK
<1>6. CASE BootCall
  BY <1>2, <1>1, <1>3, <1>6 DEF BootCall, CreateNewChannel, setTopic, CallSubscribe,
     EnterSubscribe, Connect
<1>7. ASSUME NEW c \in Channels, SubscribeStep(c)
      PROVE  DestructorInv'
  BY <1>1, <1>7 DEF SubscribeStep, SubscribeRefused, SubscribeChecked, SubscribeActivate,
     SubscribeActivated, SubscribeActivateFailed, SubscribeAwaited
<1>8. CASE ConnectFailed \/ Connected \/ SubscribeNext \/ ConnectReturns
  BY <1>2, <1>8 DEF ConnectFailed, Connected, SubscribeNext, ConnectReturns
<1>9. ASSUME NEW p \in Callers, NEW m \in Messages, SendStep(p, m)
      PROVE  DestructorInv'
  BY <1>1, <1>9 DEF SendStep, SendRefused, SendOffline, SendChecked, SendActivate,
     SendActivated, SendActivateFailed, SendAwaited
<1>10. ASSUME NEW p \in Threads, NEW m \in Messages, CallSend(p, m)
       PROVE  DestructorInv'
  BY <1>1, <1>10 DEF CallSend
<1>11. CASE Environment
  BY <1>1, <1>11 DEF Environment, NucleusPublishes, NucleusOpensStream, NucleusEndsStream, Disconnect,
       OnStreamEvent, onDataReceived
<1>12. CASE UNCHANGED vars
  BY <1>1, <1>12 DEF vars
<1> QED
  BY <1>3, <1>4, <1>5, <1>6, <1>7, <1>8, <1>9, <1>10, <1>11, <1>12 DEF Next, BootStep

-------------------------------------------------------------------------------
(***************************************************************************)
(* The theorems.                                                           *)
(***************************************************************************)

\* The inductive invariant holds at the start.
LEMMA IInvInit == Init => IInv
<1> SUFFICES ASSUME Init PROVE IInv
  OBVIOUS
<1>1. Boot \in Procs
  BY DEF Procs
<1> QED
  BY <1>1, TypeInit DEF Init, IInv, CallInv, LockInv, DestructorInv, PayloadInv,
     Active, SendInside, SubInside

\* Every step keeps the inductive invariant.
LEMMA IInvStep == IInv /\ [Next]_vars => IInv'
  BY TypeStep, CallStep, PayloadStep, LockStep, DestructorStep DEF IInv

\* IInv is an invariant of the specification.
THEOREM Invariance == Spec => []IInv
  BY IInvInit, IInvStep, PTL DEF Spec

\* Every variable keeps its type.
THEOREM TypeCorrect == Spec => []TypeOK
<1>1. IInv => TypeOK
  BY DEF IInv
<1> QED
  BY <1>1, Invariance, PTL

\* The module is there for as long as any thread is inside send past its alive
\* check: the destructor waits for the channel's mutex.
THEOREM ModuleSafety == Spec => []ModuleOutlivesUse
<1>1. IInv => ModuleOutlivesUse
  <2> SUFFICES ASSUME IInv, NEW p \in Callers, pc[p] \in SendInside
               PROVE  /\ mConnectivityModule[ChannelOf[msg[p]]]
                      /\ boot # "gone"
    BY DEF ModuleOutlivesUse
  <2>1. p \in Procs
    BY DEF Callers, Procs
  <2>2. mConnectivityModule[ChannelOf[msg[p]]]
    BY <2>1 DEF IInv, LockInv
  <2>3. ChannelOf[msg[p]] \in Created
    BY <2>1 DEF IInv, CallInv, Active
  <2> QED
    BY <2>2, <2>3 DEF IInv, DestructorInv
<1> QED
  BY <1>1, Invariance, PTL

\* send answers Success only for a payload that the nucleus took.
THEOREM SuccessSafety == Spec => []SuccessOnlyIfPublished
<1>1. IInv => SuccessOnlyIfPublished
  BY DEF IInv, PayloadInv, SuccessOnlyIfPublished
<1> QED
  BY <1>1, Invariance, PTL

\* No payload is both on disk and published.
THEOREM StoreSafety == Spec => []NeverStoredAndPublished
<1>1. IInv => NeverStoredAndPublished
  BY DEF IInv, PayloadInv, NeverStoredAndPublished
<1> QED
  BY <1>1, Invariance, PTL

-------------------------------------------------------------------------------
(***************************************************************************)
(* subscribe.                                                              *)
(***************************************************************************)

\* What every step but one of subscribe leaves of the operations: the held one
\* is still held, and still opened if it was.
StreamsKept ==
  \A c \in Channels :
    /\ streams[c] # <<>> => streams'[c] # <<>>
    /\ Opened(c) => Opened(c)'

\* The nucleus and the loss of the connection leave that much.
LEMMA StreamsStep ==
  ASSUME TypeOK
  PROVE  /\ UNCHANGED streams => StreamsKept
         /\ \A c \in Channels : \A i \in DOMAIN streams[c] :
              NucleusOpensStream(c, i) \/ NucleusEndsStream(c, i) => StreamsKept
         /\ BreakStreams => StreamsKept
<1>1. \A c \in Channels : streams[c] \in Seq(StreamState)
  BY DEF TypeOK
<1>2. UNCHANGED streams => StreamsKept
  BY DEF StreamsKept, Opened, Held
<1>3. ASSUME NEW c \in Channels, NEW i \in DOMAIN streams[c],
             NucleusOpensStream(c, i) \/ NucleusEndsStream(c, i)
      PROVE  StreamsKept
  <2>1. PICK x \in {"open", "ended"} :
          /\ streams' = [streams EXCEPT ![c] = [streams[c] EXCEPT ![i] = x]]
    BY <1>3 DEF NucleusOpensStream, NucleusEndsStream
  <2> DEFINE t == [streams[c] EXCEPT ![i] = x]
  <2>2. i \in 1..Len(streams[c]) /\ i \in 0..Len(streams[c]) /\ x \in StreamState
    BY <1>1 DEF StreamState
  <2>3. /\ Len(t) = Len(streams[c]) /\ t \in Seq(StreamState)
        /\ \A j \in 1..Len(streams[c]) : t[j] = IF j = i THEN x ELSE streams[c][j]
    BY <1>1, <2>2, SetEntry
  <2> HIDE DEF t
  <2>4. streams' = [streams EXCEPT ![c] = t]
    BY <2>1 DEF t
  <2>5. streams'[c] = t /\ \A d \in Channels : d # c => streams'[d] = streams[d]
    BY <2>4 DEF TypeOK
  <2>6. t # <<>> /\ Last(t) = t[Len(streams[c])] /\ Len(streams[c]) \in 1..Len(streams[c])
    BY <1>1, <2>2, <2>3 DEF Last
  <2>7. Last(t) = x \/ Last(t) = Last(streams[c])
    BY <2>3, <2>6 DEF Last
  <2> QED
    BY <2>5, <2>6, <2>7 DEF StreamsKept, Opened, Held
<1>4. ASSUME BreakStreams
      PROVE  StreamsKept
  <2> SUFFICES ASSUME NEW c \in Channels, streams[c] # <<>>
               PROVE  streams'[c] # <<>> /\ (Opened(c) => Opened(c)')
    BY DEF StreamsKept, Opened, Held
  <2> DEFINE t == [i \in DOMAIN streams[c] |-> Broken(streams[c][i])]
  <2>1. /\ Len(t) = Len(streams[c]) /\ t \in Seq(StreamState)
        /\ \A j \in 1..Len(streams[c]) : t[j] = Broken(streams[c][j])
    BY <1>1, BrokenStates
  <2>2. streams'[c] = t
    BY <1>4 DEF BreakStreams
  <2> HIDE DEF t
  <2>3. Len(streams[c]) \in 1..Len(streams[c])
    BY <1>1
  <2>4. t # <<>> /\ Last(t) = Broken(Last(streams[c]))
    BY <1>1, <2>1, <2>3 DEF Last
  <2> QED
    BY <2>2, <2>4 DEF Opened, Held, Broken
<1> QED
  BY <1>2, <1>3, <1>4

\* A step that leaves the bootstrap thread alone, and of the operations what the
\* nucleus leaves, keeps what subscribe answered true.
LEMMA SubscribeStutter ==
  ASSUME TypeOK, SubInv, SubscribeReportsStream, pc'[Boot] = pc[Boot],
         UNCHANGED <<subChannel, subRet>>, StreamsKept
  PROVE  SubInv' /\ SubscribeReportsStream'
  BY DEF SubInv, SubscribeReportsStream, StreamsKept

\* Only the bootstrap thread replaces an operation, and it answers Success only
\* for the one that the channel holds.
LEMMA SubscribeInvStep ==
  ASSUME TypeOK, SubInv, SubscribeReportsStream, [Next]_vars
  PROVE  SubInv' /\ SubscribeReportsStream'
<1> USE ProcsDistinct, MessagesAssumption
<1>1. ASSUME NEW p \in Threads, NEW m \in Messages, CallSend(p, m)
      PROVE  SubInv' /\ SubscribeReportsStream'
  <2>1. pc'[Boot] = pc[Boot] /\ UNCHANGED <<subChannel, subRet, streams>>
    BY <1>1 DEF CallSend, EnterSend, subVars, sdkVars, TypeOK, Procs
  <2> QED
    BY <2>1, SubscribeStutter, StreamsStep
<1>2. ASSUME NEW p \in Callers, NEW m \in Messages, SendStep(p, m)
      PROVE  SubInv' /\ SubscribeReportsStream'
  <2>1. p # Boot
    BY DEF Callers
  <2>2. pc'[Boot] = pc[Boot] /\ UNCHANGED <<subChannel, subRet, streams>>
    BY <1>2, <2>1 DEF SendStep, SendRefused, SendOffline, SendChecked, SendActivate,
       SendActivated, SendActivateFailed, SendAwaited, SendReturn, AtLock, Inside,
       subVars, sdkVars, TypeOK, Procs
  <2> QED
    BY <2>2, SubscribeStutter, StreamsStep
<1>3. CASE BootCall
  <2>1. ASSUME NEW c \in Channels, CallSubscribe(c)
        PROVE  SubInv' /\ SubscribeReportsStream'
    <3>1. pc'[Boot] = "subEntry" /\ subChannel = NoChannel /\ subChannel' = c
          /\ UNCHANGED <<subRet, streams>>
      BY <2>1 DEF CallSubscribe, EnterSubscribe, BootIdle, SubInv, sdkVars, TypeOK, Procs
    <3> QED
      BY <3>1 DEF SubInv, SubscribeReportsStream, Opened, Held
  <2>2. CASE ~\E c \in Channels : CallSubscribe(c)
    <3>1. pc' = pc /\ UNCHANGED <<subChannel, subRet, streams>>
      BY <1>3, <2>2 DEF BootCall, CreateNewChannel, setTopic, Connect,
         StartDestructor, subVars, sdkVars
    <3> QED
      BY <3>1, SubscribeStutter, StreamsStep
  <2> QED
    BY <2>1, <2>2
<1>4. CASE BootStep
  <2>1. CASE SubscribeNext
    <3>1. CASE mSubscribeAsynchronously[Head(loop)]
      <4>1. pc'[Boot] = "subEntry" /\ subChannel = NoChannel
            /\ UNCHANGED <<subRet, streams>>
        BY <2>1, <3>1 DEF SubscribeNext, EnterSubscribe, BootIdle, SubInv, sdkVars,
           TypeOK, Procs
      <4> QED
        BY <4>1 DEF SubInv, SubscribeReportsStream, Opened, Held
    <3>2. CASE ~mSubscribeAsynchronously[Head(loop)]
      <4>1. pc' = pc /\ UNCHANGED <<subChannel, subRet, streams>>
        BY <2>1, <3>2 DEF SubscribeNext, subVars, sdkVars
      <4> QED
        BY <4>1, SubscribeStutter, StreamsStep
    <3> QED
      BY <3>1, <3>2
  <2>2. ASSUME NEW c \in Channels, SubscribeStep(c)
        PROVE  SubInv' /\ SubscribeReportsStream'
    <3>1. subChannel = c
      BY <2>2 DEF SubscribeStep, SubscribeRefused, SubscribeChecked, SubscribeActivate,
         SubscribeActivated, SubscribeActivateFailed, SubscribeAwaited
    <3> USE <3>1 DEF SubInv, SubscribeReportsStream, subVars, sdkVars, TypeOK, Procs
    <3>2. CASE SubscribeRefused(c)
      <4>1. /\ pc'[Boot] = "idle" /\ subChannel' = NoChannel /\ UNCHANGED streams
            /\ subRet'[c] # "Success"
            /\ \A d \in Channels : d # c => subRet'[d] = subRet[d]
        BY <3>2 DEF SubscribeRefused, SubscribeReturn
      <4> QED
        BY <4>1 DEF Opened, Held
    <3>3. CASE SubscribeChecked(c)
      BY <3>3 DEF SubscribeChecked, Opened, Held
    <3>4. CASE SubscribeActivate(c)
      <4>0. Append(streams[c], "created") # <<>>
        <5>1. streams[c] \in Seq(StreamState) /\ "created" \in StreamState
          BY DEF StreamState
        <5> HIDE DEF TypeOK
        <5> QED
          BY <5>1, AppendNotEmpty
      <4>1. /\ pc'[Boot] = "subActivating" /\ UNCHANGED <<subChannel, subRet>>
            /\ streams'[c] # <<>>
            /\ \A d \in Channels : d # c => streams'[d] = streams[d]
        BY <3>4, <4>0 DEF SubscribeActivate
      <4> QED
        BY <4>1 DEF Opened, Held
    <3>5. CASE SubscribeActivated(c)
      <4>1. streams[c] # <<>> /\ streams[c] \in Seq(StreamState)
        BY <3>5 DEF SubscribeActivated
      <4>2. [streams[c] EXCEPT ![Len(streams[c])] = "requested"] # <<>>
        BY <4>1, SetEntry DEF StreamState
      <4>3. /\ pc'[Boot] = "subAwaiting" /\ UNCHANGED <<subChannel, subRet>>
            /\ streams'[c] # <<>>
            /\ \A d \in Channels : d # c => streams'[d] = streams[d]
        BY <3>5, <4>2 DEF SubscribeActivated, SetHeld
      <4> QED
        BY <4>3 DEF Opened, Held
    <3>6. CASE SubscribeActivateFailed(c)
      <4>1. /\ pc'[Boot] = "idle" /\ subChannel' = NoChannel
            /\ subRet'[c] = "NoConnection"
            /\ \A d \in Channels : d # c => subRet'[d] = subRet[d] /\ streams'[d] = streams[d]
        BY <3>6 DEF SubscribeActivateFailed, SubscribeReturn, SetHeld
      <4> QED
        BY <4>1 DEF Opened, Held
    <3>7. CASE SubscribeAwaited(c)
      <4>1. PICK answer \in ConnectivityErrors :
              SubscribeResult(c, answer) /\ SubscribeReturn(c, answer)
        BY <3>7 DEF SubscribeAwaited
      <4>2. answer = "Success" => Opened(c)
        BY <4>1 DEF SubscribeResult
      <4>3. /\ pc'[Boot] = "idle" /\ subChannel' = NoChannel /\ UNCHANGED streams
            /\ subRet'[c] = answer
            /\ \A d \in Channels : d # c => subRet'[d] = subRet[d]
        BY <3>7, <4>1 DEF SubscribeAwaited, SubscribeReturn
      <4> QED
        BY <4>2, <4>3 DEF Opened, Held
    <3> HIDE DEF SubInv, SubscribeReportsStream
    <3> QED
      BY <2>2, <3>2, <3>3, <3>4, <3>5, <3>6, <3>7 DEF SubscribeStep
  <2>3. CASE ConnectFailed \/ Connected \/ ConnectReturns \/ InvalidateConnection
    <3>1. pc' = pc /\ UNCHANGED <<subChannel, subRet, streams>>
      BY <2>3 DEF ConnectFailed, Connected, ConnectReturns, InvalidateConnection,
         subVars, sdkVars
    <3> QED
      BY <3>1, SubscribeStutter, StreamsStep
  <2>4. CASE EndDestructor
    <3>1. pc' = pc /\ UNCHANGED <<subChannel, subRet>> /\ BreakStreams
      BY <2>4 DEF EndDestructor, subVars
    <3> QED
      BY <3>1, SubscribeStutter, StreamsStep
  <2> QED
    BY <1>4, <2>1, <2>2, <2>3, <2>4 DEF BootStep
<1>5. CASE Environment
  <2>1. UNCHANGED <<subChannel, subRet>> /\ pc'[Boot] = pc[Boot]
    BY <1>5 DEF Environment, NucleusPublishes, NucleusOpensStream, NucleusEndsStream,
       Disconnect, OnStreamEvent, onDataReceived, EnterSend, subVars, TypeOK, Procs
  <2>2. StreamsKept
    BY <1>5, StreamsStep DEF Environment, NucleusPublishes, Disconnect, OnStreamEvent,
       sdkVars
  <2> QED
    BY <2>1, <2>2, SubscribeStutter
<1>6. CASE UNCHANGED vars
  BY <1>6 DEF vars, subVars, sdkVars, SubInv, SubscribeReportsStream, Opened, Held
<1> QED
  BY <1>1, <1>2, <1>3, <1>4, <1>5, <1>6 DEF Next

\* When the last subscribe of a channel answered Success, the nucleus opened the
\* operation this call created, however many it replaced.
THEOREM SubscribeSafety == Spec => []SubscribeReportsStream
<1> DEFINE J == TypeOK /\ SubInv /\ SubscribeReportsStream
<1>1. Init => J
  BY TypeInit DEF Init, Procs, SubInv, SubscribeReportsStream
<1>2. J /\ [Next]_vars => J'
  BY TypeStep, SubscribeInvStep
<1>3. J => SubscribeReportsStream
  OBVIOUS
<1> QED
  BY <1>1, <1>2, <1>3, PTL DEF Spec

\* A step that leaves the channels, the loop and subscribe alone, but for what the
\* nucleus does with the operations.
LEMMA AsyncStutter ==
  ASSUME AsyncInv, StreamsKept,
         UNCHANGED <<mConnected, mChannels, mConnectivityModule, mTopicName,
                     mSubscribeAsynchronously, boot, loop, subChannel>>,
         Created \subseteq Channels
  PROVE  AsyncInv'
  BY DEF AsyncInv, Created, StreamsKept

\* A step inside subscribe: the channel it works for stays the one it works
\* for, gets an operation, or has no topic.
LEMMA AsyncSubscribe ==
  ASSUME TypeOK, SubInv, AsyncInv, NEW c \in Channels, SubscribeStep(c)
  PROVE  AsyncInv'
<1>0. /\ UNCHANGED <<mConnected, mChannels, mConnectivityModule, mTopicName,
                     mSubscribeAsynchronously, boot, loop>>
      /\ subChannel = c
  BY DEF SubscribeStep, SubscribeRefused, SubscribeChecked, SubscribeActivate,
     SubscribeActivated, SubscribeActivateFailed, SubscribeAwaited, moduleVars, channelVars
<1>1. Created \subseteq Channels /\ Created' = Created
  BY <1>0 DEF Created, ToSet, TypeOK
<1>2. \A d \in Channels : streams[d] # <<>> => streams'[d] # <<>>
  <2>1. ASSUME NEW x \in StreamState, SetHeld(c, x), NEW d \in Channels, streams[d] # <<>>
        PROVE  streams'[d] # <<>>
    <3>1. streams[c] \in Seq(StreamState)
      BY DEF TypeOK
    <3>2. CASE d = c
      <4>1. [streams[c] EXCEPT ![Len(streams[c])] = x] # <<>>
        BY <2>1, <3>1, <3>2, SetEntry
      <4> QED
        BY <2>1, <3>2, <4>1 DEF SetHeld, TypeOK
    <3> QED
      BY <2>1, <3>2 DEF SetHeld, TypeOK
  <2>2. CASE streams' = [streams EXCEPT ![c] = Append(@, "created")]
    BY <2>2 DEF TypeOK
  <2>3. \/ UNCHANGED streams \/ streams' = [streams EXCEPT ![c] = Append(@, "created")]
        \/ SetHeld(c, "requested") \/ SetHeld(c, "failed")
    BY DEF SubscribeStep, SubscribeRefused, SubscribeChecked, SubscribeActivate,
     SubscribeActivated, SubscribeActivateFailed, SubscribeAwaited, sdkVars
  <2> QED
    BY <2>1, <2>2, <2>3 DEF StreamState
<1>3. CASE subChannel' = c
  BY <1>0, <1>1, <1>2, <1>3 DEF AsyncInv
<1>4. CASE SubscribeRefused(c)
  <2>1. CASE ~mTopicName[c]
    BY <1>0, <1>1, <1>2, <2>1 DEF AsyncInv
  <2>2. CASE mTopicName[c] /\ ~isAliveNotThreadSafe(c)
    <3>1. boot # "subscribing"
      BY <2>2 DEF AsyncInv, isAliveNotThreadSafe, ModuleAlive
    <3> QED
      BY <1>0, <1>1, <1>2, <3>1 DEF AsyncInv
  <2> QED
    BY <1>4, <2>1, <2>2 DEF SubscribeRefused
<1>5. CASE pc[Boot] \in {"subActivating", "subAwaiting"}
  BY <1>0, <1>1, <1>2, <1>5 DEF AsyncInv, SubInv
<1> QED
  BY <1>0, <1>3, <1>4, <1>5 DEF SubscribeStep, SubscribeChecked, SubscribeActivate,
     SubscribeActivated, SubscribeActivateFailed, SubscribeAwaited, subVars

\* The loop of connect misses no channel that asked to be subscribed.
LEMMA AsyncStep ==
  ASSUME TypeOK, SubInv, AsyncInv, [Next]_vars
  PROVE  AsyncInv'
<1>1. CASE BootCall
  <2>1. ASSUME NEW c \in Channels, CreateNewChannel(c)
        PROVE  AsyncInv'
    <3>1. Created' = Created \cup {c}
      BY <2>1, CreateKeeps DEF CreateNewChannel, Created, TypeOK
    <3> QED
      BY <2>1, <3>1 DEF CreateNewChannel, AsyncInv
  <2>2. ASSUME NEW c \in Channels, NEW valid \in BOOLEAN, NEW async \in BOOLEAN,
               setTopic(c, valid, async)
        PROVE  AsyncInv'
    BY <2>2 DEF setTopic, AsyncInv, Created, TypeOK
  <2>3. ASSUME NEW c \in Channels, CallSubscribe(c)
        PROVE  AsyncInv'
    <3>1. boot \in {"setup", "running"} /\ subChannel = NoChannel
      BY <2>3 DEF CallSubscribe, BootIdle, SubInv
    <3> QED
      BY <2>3, <3>1 DEF CallSubscribe, EnterSubscribe, AsyncInv, Created
  <2>4. CASE Connect \/ StartDestructor
    BY <2>4 DEF Connect, StartDestructor, AsyncInv, Created, channelVars, sdkVars
  <2> QED
    BY <1>1, <2>1, <2>2, <2>3, <2>4 DEF BootCall
<1>2. CASE BootStep
  <2>1. CASE ConnectFailed \/ InvalidateConnection \/ EndDestructor
    BY <2>1 DEF ConnectFailed, InvalidateConnection, EndDestructor, AsyncInv, Created,
       channelVars
  <2>2. CASE Connected
    BY <2>2 DEF Connected, SubscribeLoop, AsyncInv, Created, channelVars
  <2>3. CASE SubscribeNext
    <3>1. ToSet(loop) = ToSet(loop') \cup {Head(loop)}
      BY <2>3, TailSet DEF SubscribeNext, TypeOK
    <3>2. Head(loop) \in Channels /\ subChannel = NoChannel
      BY <2>3 DEF SubscribeNext, BootIdle, SubInv, TypeOK
    <3>3. UNCHANGED <<mConnected, mChannels, channelVars, boot, streams>>
      BY <2>3 DEF SubscribeNext, sdkVars
    <3>4. mSubscribeAsynchronously[Head(loop)] => subChannel' = Head(loop)
      BY <2>3 DEF SubscribeNext, EnterSubscribe
    <3>5. boot = "subscribing" /\ Created' = Created /\ Created \subseteq Channels
      BY <2>3, <3>3 DEF SubscribeNext, Created, ToSet, TypeOK
    <3>6. ASSUME NEW c \in Created, mSubscribeAsynchronously[c], mTopicName[c]
          PROVE  streams[c] # <<>> \/ c \in ToSet(loop') \/ subChannel' = c
      <4>1. streams[c] # <<>> \/ c \in ToSet(loop)
        BY <3>2, <3>5, <3>6, MessagesAssumption DEF AsyncInv
      <4> QED
        BY <3>1, <3>4, <3>6, <4>1
    <3> QED
      BY <3>3, <3>5, <3>6 DEF AsyncInv, channelVars
  <2>4. CASE ConnectReturns
    <3>1. subChannel = NoChannel /\ ToSet(loop) = {}
      BY <2>4 DEF ConnectReturns, BootIdle, SubInv, ToSet
    <3>2. Created \subseteq Channels
      BY DEF Created, ToSet, TypeOK
    <3> QED
      BY <2>4, <3>1, <3>2, MessagesAssumption DEF ConnectReturns, AsyncInv, Created,
         channelVars, sdkVars
  <2> QED
    BY <1>2, <2>1, <2>2, <2>3, <2>4, AsyncSubscribe DEF BootStep
<1>0. Created \subseteq Channels
  BY DEF Created, ToSet, TypeOK
<1> USE DEF moduleVars, channelVars, subVars, sdkVars
<1>3. ASSUME NEW p \in Callers, NEW m \in Messages, SendStep(p, m)
      PROVE  AsyncInv'
  BY <1>0, <1>3, AsyncStutter, StreamsStep DEF SendStep, SendRefused, SendOffline,
     SendChecked, SendActivate, SendActivated, SendActivateFailed, SendAwaited
<1>4. ASSUME NEW p \in Threads, NEW m \in Messages, CallSend(p, m)
      PROVE  AsyncInv'
  BY <1>0, <1>4, AsyncStutter, StreamsStep DEF CallSend
<1>5. CASE Environment
  <2>1. UNCHANGED <<moduleVars, channelVars, subVars>>
    BY <1>5 DEF Environment, NucleusPublishes, NucleusOpensStream, NucleusEndsStream,
       Disconnect, OnStreamEvent
  <2>2. StreamsKept
    BY <1>5, StreamsStep DEF Environment, NucleusPublishes, Disconnect, OnStreamEvent
  <2> QED
    BY <1>0, <2>1, <2>2, AsyncStutter
<1>6. CASE UNCHANGED vars
  BY <1>0, <1>6, AsyncStutter, StreamsStep DEF vars
<1> QED
  BY <1>1, <1>2, <1>3, <1>4, <1>5, <1>6 DEF Next

\* connect returns true only after it made an operation for every channel with a
\* topic that asked to be subscribed.
THEOREM AsyncSafety == Spec => []AsyncChannelsSubscribed
<1> DEFINE J == TypeOK /\ SubInv /\ SubscribeReportsStream /\ AsyncInv
<1>1. Init => J
  BY TypeInit DEF Init, Procs, SubInv, SubscribeReportsStream, AsyncInv
<1>2. J /\ [Next]_vars => J'
  BY TypeStep, SubscribeInvStep, AsyncStep
<1>3. J => AsyncChannelsSubscribed
  BY DEF AsyncInv, AsyncChannelsSubscribed
<1> QED
  BY <1>1, <1>2, <1>3, PTL DEF Spec

-------------------------------------------------------------------------------
(***************************************************************************)
(* Connectivity implements Uplink.                                         *)
(***************************************************************************)

\* The mapped variables of Uplink.
Uplinked == {m \in Messages : op[m] = "published"}
Kept == {m \in Messages : stored[m] = "persisted"}

\* The channels start as Uplink does.
LEMMA UplinkStart == Init => UP!UplinkInit
  BY DEF Init, UP!UplinkInit

\* A step that leaves the payloads alone is a stuttering step of Uplink.
LEMMA UplinkStutter ==
  ASSUME UNCHANGED sendVars
  PROVE  UNCHANGED UP!upVars
  BY DEF UP!upVars

\* Every step of a thread inside send begins, ends or leaves a call of Uplink.
LEMMA UplinkSend ==
  ASSUME IInv, NEW p \in Callers, NEW m \in Messages, SendStep(p, m)
  PROVE  UP!UplinkNext \/ UNCHANGED UP!upVars
<1> p \in Procs
  BY DEF Callers, Procs
<1> USE DEF AtLock, Inside, SendReturn
<1>1. /\ ret[m] = "busy" /\ stored[m] = "no"
      /\ pc[p] \in {"entry", "checked"} => op[m] = "none"
      /\ pc[p] = "activating" => op[m] = "created"
  BY DEF SendStep, SendRefused, SendOffline, SendChecked, SendActivate, SendActivated,
     SendActivateFailed, SendAwaited, IInv, CallInv, Active, SendInside
<1>2. /\ ret \in [Messages -> {"none", "busy"} \cup ConnectivityErrors]
      /\ op \in [Messages -> {"none", "created", "failed", "lost", "sent", "published"}]
      /\ stored \in [Messages -> {"no", "persisted", "failed"}]
  BY DEF IInv, TypeOK
<1> DEFINE Ends(r) == /\ ret' = [ret EXCEPT ![m] = r]
                      /\ Uplinked' = Uplinked
                      /\ r = "Success" => m \in Uplinked
                      /\ r \in {"NotConfigured", "WrongInputData"} => m \notin Uplinked
                      /\ \/ Kept' = Kept
                         \/ r = "NoConnection" /\ m \notin Uplinked /\ Kept' = Kept \cup {m}
<1>3. ASSUME NEW r \in {"Success", "NoConnection", "NotConfigured", "WrongInputData"}, Ends(r)
      PROVE  UP!UplinkNext
  <2>1. UP!Return(m, r)
    BY <1>1, <1>3 DEF UP!Return, UP!Refusals, Uplinked, Kept
  <2> QED
    BY <2>1 DEF UP!UplinkNext, UP!Refusals
<1>4. CASE SendRefused(p, m)
  <2>1. op[m] = "none" /\ UNCHANGED <<op, stored>>
    BY <1>1, <1>4 DEF SendRefused
  <2>2. Ends("NotConfigured") \/ Ends("WrongInputData")
    BY <1>4, <2>1 DEF SendRefused, Uplinked, Kept
  <2> QED
    BY <1>3, <2>2
<1>5. CASE SendOffline(p, m)
  <2>1. op[m] = "none" /\ UNCHANGED op
    BY <1>1, <1>5 DEF SendOffline
  <2>2. Kept' = Kept \/ Kept' = Kept \cup {m}
    BY <1>1, <1>2, <1>5 DEF SendOffline, storeData, Kept
  <2>3. Ends("NoConnection")
    BY <1>5, <2>1, <2>2 DEF SendOffline, Uplinked
  <2> QED
    BY <1>3, <2>3
<1>6. CASE SendChecked(p, m)
  BY <1>6, UplinkStutter DEF SendChecked
<1>7. CASE SendActivate(p, m) \/ SendActivated(p, m)
  <2>1. Uplinked' = Uplinked
    BY <1>1, <1>2, <1>7 DEF SendActivate, SendActivated, Uplinked
  <2> QED
    BY <1>7, <2>1 DEF SendActivate, SendActivated, UP!upVars, Uplinked
<1>8. CASE SendActivateFailed(p, m)
  <2>1. Uplinked' = Uplinked /\ Kept' = Kept
    BY <1>1, <1>2, <1>8 DEF SendActivateFailed, Uplinked, Kept
  <2>2. Ends("NoConnection")
    BY <1>8, <2>1 DEF SendActivateFailed
  <2> QED
    BY <1>3, <2>2
<1>9. CASE SendAwaited(p, m)
  <2>1. PICK r \in {"Success", "NoConnection"} : SendResult(m, r) /\ SendReturn(p, m, r)
    BY <1>9 DEF SendAwaited, SendResult
  <2>2. Uplinked' = Uplinked /\ Kept' = Kept
    BY <1>9 DEF SendAwaited, Uplinked, Kept
  <2>3. Ends(r)
    BY <2>1, <2>2 DEF SendResult, Uplinked
  <2> QED
    BY <1>3, <2>3
<1> QED
  BY <1>4, <1>5, <1>6, <1>7, <1>8, <1>9 DEF SendStep

\* Every step of Connectivity is one of Uplink, or stutters.
LEMMA UplinkStep == IInv /\ [Next]_vars => [UP!UplinkNext]_UP!upVars
<1> SUFFICES ASSUME IInv, [Next]_vars
             PROVE  UP!UplinkNext \/ UNCHANGED UP!upVars
  OBVIOUS
<1>1. ASSUME NEW p \in Procs, NEW m \in Messages, EnterSend(p, m)
      PROVE  UP!UplinkNext
  <2>1. UP!Begin(m)
    BY <1>1 DEF EnterSend, UP!Begin
  <2> QED
    BY <2>1 DEF UP!UplinkNext
<1>2. ASSUME NEW p \in Threads, NEW m \in Messages, CallSend(p, m)
      PROVE  UP!UplinkNext
  BY <1>1, <1>2 DEF CallSend, Procs
<1>3. CASE BootCall \/ BootStep
  BY <1>3, BootLeavesSenders, UplinkStutter DEF SendersUntouched, IInv
<1>4. ASSUME NEW m \in Messages, NucleusPublishes(m)
      PROVE  UP!UplinkNext
  <2>1. op[m] = "sent" /\ op' = [op EXCEPT ![m] = "published"] /\ UNCHANGED <<ret, stored>>
    BY <1>4 DEF NucleusPublishes
  <2>2. ret[m] \in {"busy", "NoConnection"} /\ stored[m] # "persisted"
    BY <2>1 DEF IInv, TypeOK, PayloadInv, ConnectivityErrors
  <2>3. Uplinked' = Uplinked \cup {m} /\ Kept' = Kept /\ m \notin Uplinked \cup Kept
    BY <2>1, <2>2 DEF Uplinked, Kept, IInv, TypeOK
  <2>4. UP!Publish(m)
    BY <2>1, <2>2, <2>3 DEF UP!Publish, Uplinked, Kept
  <2> QED
    BY <2>4 DEF UP!UplinkNext
<1>5. ASSUME NEW c \in Channels, OnStreamEvent(c)
      PROVE  UP!UplinkNext \/ UNCHANGED UP!upVars
  <2>1. EventLoop \in Procs
    BY DEF Procs
  <2> QED
    BY <1>1, <1>5, <2>1, UplinkStutter DEF OnStreamEvent, onDataReceived
<1>6. ASSUME NEW c \in Channels, NEW i \in DOMAIN streams[c],
             NucleusOpensStream(c, i) \/ NucleusEndsStream(c, i)
      PROVE  UNCHANGED UP!upVars
  BY <1>6, UplinkStutter DEF NucleusOpensStream, NucleusEndsStream
<1>7. CASE Disconnect \/ UNCHANGED vars
  BY <1>7, UplinkStutter DEF Disconnect, vars
<1> QED
  BY <1>2, <1>3, <1>4, <1>5, <1>6, <1>7, UplinkSend DEF Next, Environment

\* The channels implement what ISender promises.
THEOREM Refinement == Spec => ImplementsUplink
  BY UplinkStart, UplinkStep, Invariance, PTL DEF Spec, ImplementsUplink, UP!UplinkSpec
===============================================================================
