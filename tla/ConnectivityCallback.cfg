\* A listener sends from onDataReceived.
\* The program ends when the module is gone and every payload was sent.
SPECIFICATION FairSpec
CONSTANTS
  t1 = t1
  t2 = t2
  c1 = c1
  c2 = c2
  m1 = m1
  m2 = m2
  m3 = m3
  Threads = {t1}
  Boot = Boot
  EventLoop = EventLoop
  Channels = {c1}
  Messages = {m1}
  ChannelOf <- OneChannel
  Persistent = {m1}
  Unsendable = {}
  HasPayloadManager = {c1}
  CallbackSends = TRUE
  MaxReceived = 1
  MaxSubscribes = 1
  Free = Free
  NoMessage = NoMessage
  NoChannel = NoChannel
PROPERTIES
  SendReturns
CHECK_DEADLOCK FALSE
