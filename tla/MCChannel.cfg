SPECIFICATION Spec
CONSTANTS
  sender = sender
  receiver = receiver
  selector = selector
  direct = direct
  buffered = buffered
  v1 = v1
  v2 = v2
  size = 2
  Tasks = {sender, receiver, selector}
  Arrays = {sender, receiver, selector}
  Values = {v1, v2}
  NoTask = NoTask
  NoValue = NoValue
  MaxAlts = 3
  Pollers = {receiver, selector}
  Chans <- MCChans
  ArrayOf <- MCArrayOf
  bufsize <- MCbufsize
  AltLists <- MCAltLists
CHECK_DEADLOCK FALSE
INVARIANTS TypeOK QueuesMatchWaiters NoLostWakeup ReadyOnce NeverAborts RingBuffer
PROPERTY ImplementsSpec
