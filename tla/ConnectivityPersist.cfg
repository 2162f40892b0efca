\* One thread, one persistent payload.
\* The program ends when the module is gone and every payload was sent.
SPECIFICATION Spec
CONSTANTS
  t1 = t1
  t2 = t2
  c1 = c1
  c2 = c2
  m1 = m1
  m2 = m2
  m3 = m3
  Threads = {t1}
  Boot = Boot
  EventLoop = EventLoop
  Channels = {c1}
  Messages = {m1}
  ChannelOf <- OneChannel
  Persistent = {m1}
  Unsendable = {}
  HasPayloadManager = {c1}
  CallbackSends = FALSE
  MaxReceived = 0
  MaxSubscribes = 0
  Free = Free
  NoMessage = NoMessage
  NoChannel = NoChannel
INVARIANTS
  PersistOnConnectionLoss
CHECK_DEADLOCK FALSE
