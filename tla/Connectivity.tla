----------------------------- MODULE Connectivity -----------------------------
(***************************************************************************)
(* AwsIotConnectivityModule and its AwsIotChannels: the one Greengrass IPC *)
(* connection of the FleetWise agent, the channels that share it, and the  *)
(* threads that use them.                                                  *)
(*                                                                         *)
(* The bootstrap thread creates channels, sets their topics, connects,     *)
(* subscribes and in the end destroys the module.  Worker threads call     *)
(* send on the channels whenever they like, also before the connection is  *)
(* there and after the module is gone, for they share the ownership of a   *)
(* channel.  The SDK has one event loop thread (EventLoopGroup(1)): it     *)
(* resolves the futures of every IPC operation and runs the callbacks of   *)
(* the subscriptions, one thing at a time.                                 *)
(*                                                                         *)
(* A step of a thread runs to the next point where another thread could    *)
(* see or change what it touches: it takes mConnectivityMutex and checks,  *)
(* it uses the module it checked, it waits for a future.                   *)
(***************************************************************************)
EXTENDS Naturals, Sequences, SequencesExt

CONSTANTS
  Threads,            \* worker threads that call send
  Boot,               \* the bootstrap thread
  EventLoop,          \* the only thread of the SDK's event loop group
  Channels,           \* the channels that may be created
  Messages,           \* the payloads, each handed to send once
  ChannelOf,          \* the channel a payload is sent on
  Persistent,         \* payloads with CollectionSchemeParams.persist
  Unsendable,         \* payloads with no bytes, or more than getMaxSendSize()
  HasPayloadManager,  \* channels created with a PayloadManager
  CallbackSends,      \* may a listener call send from onDataReceived
  MaxReceived,        \* bound: stream events per channel
  MaxSubscribes,      \* bound: Boot calls subscribe on a channel itself only
                      \* while fewer calls than this were made, connect's included
  Free, NoMessage, NoChannel   \* no owner, no payload, no channel

Procs == Threads \cup {Boot, EventLoop}
Callers == Threads \cup (IF CallbackSends THEN {EventLoop} ELSE {})

ASSUME ProcsDistinct ==
  /\ Boot \notin Threads /\ EventLoop \notin Threads /\ Boot # EventLoop
  /\ Free \notin Procs
ASSUME MessagesAssumption ==
  /\ NoMessage \notin Messages /\ NoChannel \notin Channels
  /\ ChannelOf \in [Messages -> Channels]
  /\ Persistent \subseteq Messages /\ Unsendable \subseteq Messages
ASSUME ConfigAssumption ==
  /\ HasPayloadManager \subseteq Channels
  /\ CallbackSends \in BOOLEAN
  /\ MaxReceived \in Nat /\ MaxSubscribes \in Nat

VARIABLES
  \* AwsIotConnectivityModule
  mConnected,         \* what isAlive() of the module answers
  mChannels,          \* the channels created so far, in order
  boot,               \* where the bootstrap thread is in the module's life
  loop,               \* what is left of a "for channel : mChannels" loop
  \* AwsIotChannel
  mConnectivityModule,      \* is the channel's pointer to the module not null
  mTopicName,               \* is a non empty topic set
  mSubscribeAsynchronously,
  mutex,                    \* the owner of mConnectivityMutex
  \* the threads
  pc,                 \* where a thread is inside a call on a channel
  msg,                \* the payload of the send call a thread is in
  subChannel,         \* the channel of the subscribe call Boot is in
  ret,                \* what send returned for a payload
  subRet,             \* what the last subscribe of a channel returned
  subscribes,         \* how often subscribe was called on a channel
  \* the disk, the SDK and the Greengrass nucleus
  stored,             \* what storeData did with a payload
  ipc,                \* the connection to the nucleus
  op,                 \* the publish operation of a payload
  streams,            \* the subscribe operations of a channel, in order; the
                      \* channel holds the last one in mSubscribeOperation
  received            \* events the listeners of a channel were given

moduleVars == <<mConnected, mChannels, boot, loop>>
channelVars ==
  <<mConnectivityModule, mTopicName, mSubscribeAsynchronously>>
subVars == <<subChannel, subRet, subscribes>>
sendVars == <<msg, ret, stored, op>>
sdkVars == <<ipc, streams, received>>
vars == <<moduleVars, channelVars, mutex, pc, subVars, sendVars, sdkVars>>

Created == ToSet(mChannels)

\* The program counters inside send and inside subscribe, from the alive
\* check on (the thread relies on the module) and after it.
SendInside == {"checked", "activating", "awaiting"}
SubInside == {"subChecked", "subActivating", "subAwaiting"}

\* QuotaReached is returned nowhere.
ConnectivityErrors ==
  {"Success", "NoConnection", "NotConfigured", "WrongInputData"}

\* An operation is created, its request is written or not, the nucleus opens
\* its stream, and the stream ends.
StreamState == {"created", "failed", "requested", "open", "ended"}

TypeOK ==
  /\ mConnected \in BOOLEAN
  /\ mChannels \in Seq(Channels)
  /\ boot \in {"setup", "connecting", "subscribing", "running", "failed",
               "closing", "gone"}
  /\ loop \in Seq(Channels)
  /\ mConnectivityModule \in [Channels -> BOOLEAN]
  /\ mTopicName \in [Channels -> BOOLEAN]
  /\ mSubscribeAsynchronously \in [Channels -> BOOLEAN]
  /\ mutex \in [Channels -> Procs \cup {Free}]
  /\ pc \in [Procs -> {"idle", "entry", "subEntry"} \cup SendInside \cup SubInside]
  /\ msg \in [Procs -> Messages \cup {NoMessage}]
  /\ subChannel \in Channels \cup {NoChannel}
  /\ ret \in [Messages -> {"none", "busy"} \cup ConnectivityErrors]
  /\ subRet \in [Channels -> {"none"} \cup ConnectivityErrors]
  /\ subscribes \in [Channels -> Nat]
  /\ stored \in [Messages -> {"no", "persisted", "failed"}]
  /\ ipc \in {"absent", "connecting", "up", "down"}
  /\ op \in [Messages -> {"none", "created", "failed", "lost", "sent", "published"}]
  /\ streams \in [Channels -> Seq(StreamState)]
  /\ received \in [Channels -> 0..MaxReceived]

Init ==
  /\ mConnected = FALSE /\ mChannels = <<>>
  /\ boot = "setup" /\ loop = <<>>
  /\ mConnectivityModule = [c \in Channels |-> TRUE]
  /\ mTopicName = [c \in Channels |-> FALSE]
  /\ mSubscribeAsynchronously = [c \in Channels |-> FALSE]
  /\ mutex = [c \in Channels |-> Free]
  /\ pc = [p \in Procs |-> "idle"]
  /\ msg = [p \in Procs |-> NoMessage]
  /\ subChannel = NoChannel
  /\ ret = [m \in Messages |-> "none"]
  /\ subRet = [c \in Channels |-> "none"]
  /\ subscribes = [c \in Channels |-> 0]
  /\ stored = [m \in Messages |-> "no"]
  /\ ipc = "absent"
  /\ op = [m \in Messages |-> "none"]
  /\ streams = [c \in Channels |-> <<>>]
  /\ received = [c \in Channels |-> 0]

-------------------------------------------------------------------------------
(***************************************************************************)
(* Guards shared by send, subscribe and the module.                        *)
(***************************************************************************)

\* The module's own isAlive: the flag connect sets, nothing ever clears it.
ModuleAlive == mConnected

isAliveNotThreadSafe(c) == mConnectivityModule[c] /\ ModuleAlive

\* The event loop resolves futures and runs callbacks only between callbacks.
LoopFree == pc[EventLoop] = "idle"

BootIdle == pc[Boot] = "idle"

\* The operation that channel c holds has a stream in state s.  Replacing an
\* operation destroys it, and a destroyed one hands over no event and no result.
Held(c, s) == streams[c] # <<>> /\ Last(streams[c]) = s

SetHeld(c, s) == streams' = [streams EXCEPT ![c][Len(streams[c])] = s]

\* What the loss of the connection makes of the operations.
Broken(s) ==
  CASE s = "requested" -> "failed"
    [] s = "open" -> "ended"
    [] OTHER -> s

BreakStreams ==
  streams' = [c \in Channels |-> [i \in DOMAIN streams[c] |-> Broken(streams[c][i])]]

-------------------------------------------------------------------------------
(***************************************************************************)
(* The bootstrap thread sets up the channels and connects.                 *)
(***************************************************************************)

CreateNewChannel(c) ==
  /\ boot \in {"setup", "running"} /\ BootIdle
  /\ c \notin Created
  /\ mChannels' = Append(mChannels, c)
  /\ UNCHANGED <<mConnected, boot, loop, channelVars, mutex, pc,
                 subVars, sendVars, sdkVars>>

\* setTopic takes no lock: the contract is to call it before any other use of
\* the channel.  An empty topic is reported and assigned all the same.
\* Channels that subscribe asynchronously must exist before connect.
setTopic(c, valid, async) ==
  /\ boot \in {"setup", "running"} /\ BootIdle
  /\ c \in Created /\ subscribes[c] = 0
  /\ \A m \in Messages : ChannelOf[m] = c => ret[m] = "none"
  /\ async => boot = "setup"
  /\ mTopicName' = [mTopicName EXCEPT ![c] = valid]
  /\ mSubscribeAsynchronously' = [mSubscribeAsynchronously EXCEPT ![c] = async]
  /\ UNCHANGED <<moduleVars, mConnectivityModule, mutex, pc, subVars, sendVars,
                 sdkVars>>

Connect ==
  /\ boot = "setup" /\ BootIdle
  /\ mConnected' = FALSE
  /\ boot' = "connecting"
  /\ ipc' = "connecting"
  /\ UNCHANGED <<mChannels, loop, channelVars, mutex, pc, subVars, sendVars,
                 streams, received>>

\* No event loop group, no bootstrap, or Connect().get() gave an error.
ConnectFailed ==
  /\ boot = "connecting"
  /\ boot' = "failed"
  /\ ipc' = "absent"
  /\ UNCHANGED <<mConnected, mChannels, loop, channelVars, mutex,
                 pc, subVars, sendVars, streams, received>>

\* Mutant: the loop after connecting starts at the second channel.
SubscribeLoopSkipsFirst == SubSeq(mChannels, 2, Len(mChannels))

\* The channels that connect goes through in the end.
SubscribeLoop == mChannels

Connected ==
  /\ boot = "connecting"
  /\ mConnected' = TRUE
  /\ boot' = "subscribing"
  /\ loop' = SubscribeLoop
  /\ ipc' = "up"
  /\ UNCHANGED <<mChannels, channelVars, mutex, pc, subVars,
                 sendVars, streams, received>>

\* Enter subscribe of channel c.
EnterSubscribe(c) ==
  /\ subscribes' = [subscribes EXCEPT ![c] = @ + 1]
  /\ subChannel' = c
  /\ pc' = [pc EXCEPT ![Boot] = "subEntry"]
  /\ UNCHANGED subRet

\* The loop at the end of connect; what a subscribe returns is not looked at.
SubscribeNext ==
  /\ boot = "subscribing" /\ BootIdle
  /\ loop # <<>>
  /\ loop' = Tail(loop)
  /\ IF mSubscribeAsynchronously[Head(loop)]
     THEN EnterSubscribe(Head(loop))
     ELSE UNCHANGED <<pc, subVars>>
  /\ UNCHANGED <<mConnected, mChannels, boot, channelVars, mutex,
                 sendVars, sdkVars>>

ConnectReturns ==
  /\ boot = "subscribing" /\ BootIdle
  /\ loop = <<>>
  /\ boot' = "running"
  /\ UNCHANGED <<mConnected, mChannels, loop, channelVars, mutex,
                 pc, subVars, sendVars, sdkVars>>

\* The bootstrap thread calls subscribe on a channel itself, and may retry.
CallSubscribe(c) ==
  /\ boot \in {"setup", "running"} /\ BootIdle
  /\ c \in Created /\ subscribes[c] < MaxSubscribes
  /\ EnterSubscribe(c)
  /\ UNCHANGED <<moduleVars, channelVars, mutex, sendVars, sdkVars>>

-------------------------------------------------------------------------------
(***************************************************************************)
(* AwsIotChannel::subscribe, run by the bootstrap thread.                  *)
(***************************************************************************)

SubscribeReturn(c, r) ==
  /\ pc' = [pc EXCEPT ![Boot] = "idle"]
  /\ subRet' = [subRet EXCEPT ![c] = r]
  /\ mutex' = [mutex EXCEPT ![c] = Free]
  /\ subChannel' = NoChannel
  /\ UNCHANGED subscribes

\* No topic, or not alive: the lock is taken and given back in one step.
SubscribeRefused(c) ==
  /\ pc[Boot] = "subEntry" /\ subChannel = c
  /\ mutex[c] = Free
  /\ \/ ~mTopicName[c] /\ SubscribeReturn(c, "NotConfigured")
     \/ mTopicName[c] /\ ~isAliveNotThreadSafe(c) /\ SubscribeReturn(c, "NoConnection")
  /\ UNCHANGED <<moduleVars, channelVars, sendVars, sdkVars>>

SubscribeChecked(c) ==
  /\ pc[Boot] = "subEntry" /\ subChannel = c
  /\ mutex[c] = Free
  /\ mTopicName[c] /\ isAliveNotThreadSafe(c)
  /\ mutex' = [mutex EXCEPT ![c] = Boot]
  /\ pc' = [pc EXCEPT ![Boot] = "subChecked"]
  /\ UNCHANGED <<moduleVars, channelVars, subVars, sendVars, sdkVars>>

\* getConnection, a new stream handler and operation in place of the ones of
\* an earlier subscribe, and Activate.
SubscribeActivate(c) ==
  /\ pc[Boot] = "subChecked" /\ subChannel = c
  /\ streams' = [streams EXCEPT ![c] = Append(@, "created")]
  /\ pc' = [pc EXCEPT ![Boot] = "subActivating"]
  /\ UNCHANGED <<moduleVars, channelVars, mutex, subChannel, subRet, subscribes,
                 sendVars, ipc, received>>

\* The event loop resolves the future of Activate; there is no timeout here.
SubscribeActivated(c) ==
  /\ pc[Boot] = "subActivating" /\ subChannel = c
  /\ LoopFree /\ ipc = "up"
  /\ SetHeld(c, "requested")
  /\ pc' = [pc EXCEPT ![Boot] = "subAwaiting"]
  /\ UNCHANGED <<moduleVars, channelVars, mutex, subVars, sendVars, ipc, received>>

SubscribeActivateFailed(c) ==
  /\ pc[Boot] = "subActivating" /\ subChannel = c
  /\ LoopFree
  /\ SetHeld(c, "failed")
  /\ SubscribeReturn(c, "NoConnection")
  /\ UNCHANGED <<moduleVars, channelVars, sendVars, ipc, received>>

\* The nucleus opened the stream of the operation that channel c holds.
Opened(c) == Held(c, "open") \/ Held(c, "ended")

\* Mutants: the future of whichever operation of the channel has an answer,
\* also of a replaced one; a wait without a timeout.
SubscribeResultStale(c, r) ==
  \/ /\ r = "Success" /\ LoopFree
     /\ \E i \in DOMAIN streams[c] : streams[c][i] \in {"open", "ended"}
  \/ r = "NoConnection"
SubscribeResultUntimed(c, r) ==
  \/ r = "Success" /\ LoopFree /\ Opened(c)
  \/ r = "NoConnection" /\ ipc = "down"

\* What subscribe makes of the result it waits ten seconds for.  Without an
\* answer of the event loop it times out, whatever the nucleus does later: the
\* stream may open after that, and stays the channel's until the next call.
SubscribeResult(c, r) ==
  \/ r = "Success" /\ LoopFree /\ Opened(c)
  \/ r = "NoConnection"

SubscribeAwaited(c) ==
  /\ pc[Boot] = "subAwaiting" /\ subChannel = c
  /\ \E r \in ConnectivityErrors :
       SubscribeResult(c, r) /\ SubscribeReturn(c, r)
  /\ UNCHANGED <<moduleVars, channelVars, sendVars, sdkVars>>

-------------------------------------------------------------------------------
(***************************************************************************)
(* AwsIotChannel::send.                                                    *)
(***************************************************************************)

EnterSend(p, m) ==
  /\ ret[m] = "none" /\ ChannelOf[m] \in Created
  /\ ret' = [ret EXCEPT ![m] = "busy"]
  /\ msg' = [msg EXCEPT ![p] = m]
  /\ pc' = [pc EXCEPT ![p] = "entry"]
  /\ UNCHANGED <<stored, op>>

CallSend(p, m) ==
  /\ p \in Threads /\ pc[p] = "idle"
  /\ EnterSend(p, m)
  /\ UNCHANGED <<moduleVars, channelVars, mutex, subVars, sdkVars>>

\* The thread waits for the channel's mutex and is the next to get it.
AtLock(p, m) ==
  /\ pc[p] = "entry" /\ msg[p] = m
  /\ mutex[ChannelOf[m]] = Free

Inside(p, m, label) == pc[p] = label /\ msg[p] = m

SendReturn(p, m, r) ==
  /\ pc' = [pc EXCEPT ![p] = "idle"]
  /\ msg' = [msg EXCEPT ![p] = NoMessage]
  /\ ret' = [ret EXCEPT ![m] = r]
  /\ mutex' = [mutex EXCEPT ![ChannelOf[m]] = Free]

SendRefused(p, m) ==
  /\ AtLock(p, m)
  /\ \/ ~mTopicName[ChannelOf[m]] /\ SendReturn(p, m, "NotConfigured")
     \/ mTopicName[ChannelOf[m]] /\ m \in Unsendable
        /\ SendReturn(p, m, "WrongInputData")
  /\ UNCHANGED <<moduleVars, channelVars, subVars, stored, op, sdkVars>>

\* PayloadManager::storeData: nothing without persist, else the disk decides.
storeData(m) ==
  IF m \in Persistent
  THEN \E result \in {"persisted", "failed"} :
         stored' = [stored EXCEPT ![m] = result]
  ELSE UNCHANGED stored

\* Mutants: a stored payload reported as sent; a code the API has no use for.
OfflineAnswerSuccess == "Success"
OfflineAnswerQuota == "QuotaReached"

\* The caller is told the same whether its payload was stored or not.
OfflineAnswer == "NoConnection"

\* The only path on which a payload is stored.
SendOffline(p, m) ==
  /\ AtLock(p, m)
  /\ mTopicName[ChannelOf[m]] /\ m \notin Unsendable
  /\ ~isAliveNotThreadSafe(ChannelOf[m])
  /\ IF ChannelOf[m] \in HasPayloadManager THEN storeData(m) ELSE UNCHANGED stored
  /\ SendReturn(p, m, OfflineAnswer)
  /\ UNCHANGED <<moduleVars, channelVars, subVars, op, sdkVars>>

SendChecked(p, m) ==
  /\ AtLock(p, m)
  /\ mTopicName[ChannelOf[m]] /\ m \notin Unsendable
  /\ isAliveNotThreadSafe(ChannelOf[m])
  /\ mutex' = [mutex EXCEPT ![ChannelOf[m]] = p]
  /\ pc' = [pc EXCEPT ![p] = "checked"]
  /\ UNCHANGED <<moduleVars, channelVars, subVars, sendVars, sdkVars>>

\* getConnection, NewPublishToIoTCore and Activate.
SendActivate(p, m) ==
  /\ Inside(p, m, "checked")
  /\ op' = [op EXCEPT ![m] = "created"]
  /\ pc' = [pc EXCEPT ![p] = "activating"]
  /\ UNCHANGED <<moduleVars, channelVars, mutex, subVars, msg, ret, stored, sdkVars>>

\* The event loop wrote the request to the socket.
SendActivated(p, m) ==
  /\ Inside(p, m, "activating")
  /\ LoopFree /\ ipc = "up"
  /\ op' = [op EXCEPT ![m] = "sent"]
  /\ pc' = [pc EXCEPT ![p] = "awaiting"]
  /\ UNCHANGED <<moduleVars, channelVars, mutex, subVars, msg, ret, stored, sdkVars>>

\* The request was not written, for the connection is lost or for some other
\* reason; the payload is not stored on this path.
SendActivateFailed(p, m) ==
  /\ Inside(p, m, "activating")
  /\ LoopFree
  /\ op' = [op EXCEPT ![m] = IF ipc = "down" THEN "lost" ELSE "failed"]
  /\ SendReturn(p, m, "NoConnection")
  /\ UNCHANGED <<moduleVars, channelVars, subVars, stored, sdkVars>>

\* Mutants: a written request taken for a published one; no timeout.
SendResultOptimistic(m, r) ==
  r \in {"Success", "NoConnection"}
SendResultUntimed(m, r) ==
  \/ r = "Success" /\ LoopFree /\ ipc = "up" /\ op[m] = "published"
  \/ r = "NoConnection" /\ LoopFree /\ ipc = "down"

\* An error of the nucleus, an RPC error and ten seconds without an answer all
\* end in NoConnection.
SendResult(m, r) ==
  \/ r = "Success" /\ LoopFree /\ ipc = "up" /\ op[m] = "published"
  \/ r = "NoConnection"

\* Mutant: a payload without an answer is stored for a later upload.
StoredAfterStores(m, r) ==
  IF r = "NoConnection" THEN storeData(m) ELSE UNCHANGED stored

\* A payload is not stored for any outcome of the request.
StoredAfter(m, r) == UNCHANGED stored

SendAwaited(p, m) ==
  /\ Inside(p, m, "awaiting")
  /\ \E r \in ConnectivityErrors :
       SendResult(m, r) /\ SendReturn(p, m, r) /\ StoredAfter(m, r)
  /\ UNCHANGED <<moduleVars, channelVars, subVars, op, sdkVars>>

-------------------------------------------------------------------------------
(***************************************************************************)
(* The nucleus and the SDK.                                                *)
(***************************************************************************)

\* The nucleus takes a request that was written, now or after its sender gave
\* up; it may also reject it or never see it.
NucleusPublishes(m) ==
  /\ op[m] = "sent"
  /\ op' = [op EXCEPT ![m] = "published"]
  /\ UNCHANGED <<moduleVars, channelVars, mutex, pc, subVars, msg, ret, stored, sdkVars>>

\* The nucleus answers a subscription in its own time, also one of an operation
\* that subscribe gave up waiting for or replaced.
NucleusOpensStream(c, i) ==
  /\ streams[c][i] = "requested"
  /\ streams' = [streams EXCEPT ![c][i] = "open"]
  /\ UNCHANGED <<moduleVars, channelVars, mutex, pc, subVars, sendVars, ipc, received>>

\* A stream ends, because its operation was replaced or because the nucleus ends
\* it; the stream handler of the channel overrides nothing that would tell it.
NucleusEndsStream(c, i) ==
  /\ streams[c][i] = "open"
  /\ streams' = [streams EXCEPT ![c][i] = "ended"]
  /\ UNCHANGED <<moduleVars, channelVars, mutex, pc, subVars, sendVars, ipc, received>>

\* OnDisconnectCallback prints a line, and that is all.
Disconnect ==
  /\ ipc = "up"
  /\ ipc' = "down"
  /\ BreakStreams
  /\ UNCHANGED <<moduleVars, channelVars, mutex, pc, subVars, sendVars, received>>

\* What a listener does with the data.  It may send, which the event loop then
\* does inside the callback.
onDataReceived ==
  \/ UNCHANGED <<pc, sendVars>>
  \/ CallbackSends /\ \E m \in Messages : EnterSend(EventLoop, m)

\* A message of the topic arrives and the event loop runs the listeners.
OnStreamEvent(c) ==
  /\ Held(c, "open") /\ LoopFree
  /\ received[c] < MaxReceived
  /\ received' = [received EXCEPT ![c] = @ + 1]
  /\ onDataReceived
  /\ UNCHANGED <<moduleVars, channelVars, mutex, subVars, ipc, streams>>

-------------------------------------------------------------------------------
(***************************************************************************)
(* The module's destructor.                                                *)
(***************************************************************************)

StartDestructor ==
  /\ boot \in {"setup", "failed", "running"} /\ BootIdle
  /\ boot' = "closing"
  /\ loop' = mChannels
  /\ UNCHANGED <<mConnected, mChannels, channelVars, mutex, pc,
                 subVars, sendVars, sdkVars>>

\* Mutant: invalidateConnection without its lock_guard.
UnusedUnlocked(c) == TRUE

\* No thread is inside a call on the channel.
Unused(c) == mutex[c] = Free

\* invalidateConnection waits for that.
InvalidateConnection ==
  /\ boot = "closing" /\ loop # <<>>
  /\ Unused(Head(loop))
  /\ mConnectivityModule' = [mConnectivityModule EXCEPT ![Head(loop)] = FALSE]
  /\ loop' = Tail(loop)
  /\ UNCHANGED <<mConnected, mChannels, boot, mTopicName,
                 mSubscribeAsynchronously, mutex, pc, subVars, sendVars, sdkVars>>

\* The members are destroyed: the connection closes, no callback comes again.
EndDestructor ==
  /\ boot = "closing" /\ loop = <<>>
  /\ boot' = "gone"
  /\ ipc' = "absent"
  /\ BreakStreams
  /\ UNCHANGED <<mConnected, mChannels, loop, channelVars, mutex,
                 pc, subVars, sendVars, received>>

-------------------------------------------------------------------------------
SendStep(p, m) ==
  \/ SendRefused(p, m)
  \/ SendOffline(p, m)
  \/ SendChecked(p, m)
  \/ SendActivate(p, m)
  \/ SendActivated(p, m)
  \/ SendActivateFailed(p, m)
  \/ SendAwaited(p, m)

SubscribeStep(c) ==
  \/ SubscribeRefused(c)
  \/ SubscribeChecked(c)
  \/ SubscribeActivate(c)
  \/ SubscribeActivated(c)
  \/ SubscribeActivateFailed(c)
  \/ SubscribeAwaited(c)

\* What the bootstrap thread does inside a call, once it made the call.
BootStep ==
  \/ ConnectFailed
  \/ Connected
  \/ SubscribeNext
  \/ ConnectReturns
  \/ \E c \in Channels : SubscribeStep(c)
  \/ InvalidateConnection
  \/ EndDestructor

\* The calls the bootstrap thread decides to make.
BootCall ==
  \/ \E c \in Channels :
       \/ CreateNewChannel(c)
       \/ \E valid, async \in BOOLEAN : setTopic(c, valid, async)
       \/ CallSubscribe(c)
  \/ Connect
  \/ StartDestructor

Environment ==
  \/ \E m \in Messages : NucleusPublishes(m)
  \/ \E c \in Channels : \E i \in DOMAIN streams[c] :
       NucleusOpensStream(c, i) \/ NucleusEndsStream(c, i)
  \/ Disconnect
  \/ \E c \in Channels : OnStreamEvent(c)

Next ==
  \/ \E p \in Threads, m \in Messages : CallSend(p, m)
  \/ \E p \in Callers, m \in Messages : SendStep(p, m)
  \/ BootCall
  \/ BootStep
  \/ Environment

Spec == Init /\ [][Next]_vars

(***************************************************************************)
(* Fairness: a thread inside a call goes on.  This covers the futures: the *)
(* SDK resolves the one of Activate, with an error if the connection is    *)
(* lost, whenever its event loop is free, and wait_for ends after ten      *)
(* seconds.  Nothing is assumed of the nucleus, of the network, or of the  *)
(* calls that the threads decide to make.  The mutexes need no strong      *)
(* fairness, because the payloads and the subscribes are finitely many.    *)
(***************************************************************************)
Fairness ==
  /\ \A p \in Callers : WF_vars(\E m \in Messages : SendStep(p, m))
  /\ WF_vars(BootStep)

FairSpec == Spec /\ Fairness

-------------------------------------------------------------------------------
(***************************************************************************)
(* Properties.                                                             *)
(***************************************************************************)

\* While a thread is inside send, past the alive check, the channel still has
\* its module and the module still exists: the destructor cannot get past
\* invalidateConnection on that channel (AwsIotChannel.h:134).
ModuleOutlivesUse ==
  \A p \in Callers :
    pc[p] \in SendInside =>
      /\ mConnectivityModule[ChannelOf[msg[p]]]
      /\ boot # "gone"

\* send answers Success only for a payload that the nucleus took, never for
\* one that is merely written to the socket (AwsIotChannel.cpp:218-255).
SuccessOnlyIfPublished ==
  \A m \in Messages : ret[m] = "Success" => op[m] = "published"

\* A payload on disk is never also published, not even late, after its sender
\* gave up: the upload of the stored data would deliver it a second time.
NeverStoredAndPublished ==
  \A m \in Messages : stored[m] = "persisted" => op[m] # "published"

\* When the last subscribe of a channel answered Success, the nucleus opened the
\* stream of the very operation this call created, which the channel holds.  A
\* late answer to an operation that a retry replaced (AwsIotChannel.cpp:89-93)
\* is not taken for it.
SubscribeReportsStream ==
  \A c \in Channels :
    subRet[c] = "Success" /\ subChannel # c => Opened(c)

\* connect returns true only after it created a subscribe operation for every
\* channel that has a topic and asked for it in setTopic, also for one on which
\* subscribe was refused before (AwsIotConnectivityModule.cpp:91-97).
AsyncChannelsSubscribed ==
  boot = "running" =>
    \A c \in Created :
      mSubscribeAsynchronously[c] /\ mTopicName[c] => streams[c] # <<>>

\* send on a channel returns: no lock is held for ever, and no wait lasts for
\* ever (ISender.h:71, "The function will return fast ... It can be called from
\* any thread").
SendReturns ==
  \A p \in Callers : pc[p] = "entry" ~> pc[p] = "idle"

\* The destructor of the module ends, although the threads inside send hold the
\* mutexes it needs while they wait for the nucleus, and others queue for them.
DestructorCompletes ==
  boot = "closing" ~> boot = "gone"

\* connect returns, whatever becomes of the subscriptions it starts.
ConnectEnds ==
  boot = "connecting" ~> boot \in {"running", "failed"}

\* The channels deliver what ISender promises: see Uplink.
UP == INSTANCE Uplink WITH
  outcome <- ret,
  uplinked <- {m \in Messages : op[m] = "published"},
  kept <- {m \in Messages : stored[m] = "persisted"}
ImplementsUplink == UP!UplinkSpec

-------------------------------------------------------------------------------
(***************************************************************************)
(* Why the safety properties hold: what stays true of every thread inside  *)
(* a call, of every payload and of the destructor's loop.                  *)
(***************************************************************************)

Active(p) == pc[p] \in {"entry"} \cup SendInside

\* A thread inside send works for a payload of its own, whose channel exists
\* and whose fate is still open.  The bootstrap thread never sends.
CallInv ==
  /\ ~Active(Boot)
  /\ \A p \in Procs :
       Active(p) =>
         /\ msg[p] \in Messages
         /\ ret[msg[p]] = "busy" /\ stored[msg[p]] = "no"
         /\ pc[p] \in {"entry", "checked"} => op[msg[p]] = "none"
         /\ pc[p] = "activating" => op[msg[p]] = "created"
         /\ ChannelOf[msg[p]] \in Created
  /\ \A p, q \in Procs : Active(p) /\ Active(q) /\ p # q => msg[p] # msg[q]

\* Past its alive check a thread owns the mutex of a channel with a module.
LockInv ==
  /\ \A p \in Procs :
       pc[p] \in SendInside =>
         /\ mutex[ChannelOf[msg[p]]] = p
         /\ mConnectivityModule[ChannelOf[msg[p]]]
  /\ pc[Boot] \in SubInside => subChannel \in Channels /\ mutex[subChannel] = Boot

\* A created channel that still has its module is one the destructor has yet
\* to visit.
DestructorInv ==
  boot \in {"closing", "gone"} =>
    \A c \in Created : mConnectivityModule[c] => c \in ToSet(loop) /\ boot = "closing"

\* Only a payload that was never tried is stored.
PayloadInv ==
  \A m \in Messages :
    /\ ret[m] = "none" => op[m] = "none" /\ stored[m] = "no"
    /\ ret[m] \in {"NotConfigured", "WrongInputData"} => op[m] = "none"
    /\ ret[m] = "Success" => op[m] = "published"
    /\ stored[m] = "persisted" => op[m] = "none" /\ ret[m] = "NoConnection"

\* Outside subscribe the bootstrap thread works for no channel; inside, while it
\* waits for the nucleus, the channel holds an operation.
SubInv ==
  /\ pc[Boot] = "idle" => subChannel = NoChannel
  /\ pc[Boot] \in {"subActivating", "subAwaiting"} =>
       subChannel \in Channels /\ streams[subChannel] # <<>>

\* A channel with a topic that asked for it has an operation, is being
\* subscribed or is ahead of the loop; a channel asks when it exists and before
\* connect.  Until the destructor nothing is missing that subscribe checks for.
AsyncInv ==
  /\ \A c \in Channels \ Created : ~mSubscribeAsynchronously[c]
  /\ boot \notin {"closing", "gone"} => \A c \in Channels : mConnectivityModule[c]
  /\ boot \in {"subscribing", "running"} => mConnected
  /\ boot \in {"subscribing", "running"} =>
       \A c \in Created :
         mSubscribeAsynchronously[c] /\ mTopicName[c] =>
           \/ streams[c] # <<>>
           \/ boot = "subscribing" /\ (c \in ToSet(loop) \/ subChannel = c)

IInv == TypeOK /\ CallInv /\ LockInv /\ DestructorInv /\ PayloadInv

-------------------------------------------------------------------------------
(***************************************************************************)
(* What the documentation says and the code does not do.                   *)
(***************************************************************************)

\* ISender.h:38: persist "specifies if data needs to be persisted in case of
\* connection loss".  So a persistent payload whose send ended in NoConnection
\* and whose request could not be written, for there is no connection, was at
\* least handed to the disk.
PersistOnConnectionLoss ==
  \A m \in Persistent :
    ret[m] = "NoConnection" /\ op[m] \in {"none", "lost"}
      /\ ChannelOf[m] \in HasPayloadManager
    => stored[m] # "no"
===============================================================================
