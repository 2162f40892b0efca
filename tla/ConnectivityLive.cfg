\* Two threads contend for one channel with the bootstrap thread, which subscribes
\* it in connect and again, or twice after connect.
\* The program ends when the module is gone and every payload was sent.
SPECIFICATION FairSpec
CONSTANTS
  t1 = t1
  t2 = t2
  c1 = c1
  c2 = c2
  m1 = m1
  m2 = m2
  m3 = m3
  Threads = {t1, t2}
  Boot = Boot
  EventLoop = EventLoop
  Channels = {c1}
  Messages = {m1, m2, m3}
  ChannelOf <- OneChannel
  Persistent = {m1}
  Unsendable = {m3}
  HasPayloadManager = {c1}
  CallbackSends = FALSE
  MaxReceived = 1
  MaxSubscribes = 2
  Free = Free
  NoMessage = NoMessage
  NoChannel = NoChannel
INVARIANTS
  SubscribeReportsStream
PROPERTIES
  SendReturns
  DestructorCompletes
  ConnectEnds
CHECK_DEADLOCK FALSE
