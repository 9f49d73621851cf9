SPECIFICATION Spec
CONSTANTS
  s1 = s1
  s2 = s2
  replica = replica
  reply1 = reply1
  reply2 = reply2
  alts1 = alts1
  stack = stack
  reply = reply
  Tasks = {s1, s2, replica}
  Chans = {reply1, reply2}
  Values = {reply}
  Arrays = {alts1, stack}
  NoTask = NoTask
  NoValue = NoValue
  MaxAlts = 1
  Pollers = {}
  ArrayOf <- MCArrayOf
  bufsize <- MCbufsize
  AltLists <- MCAltLists
CHECK_DEADLOCK FALSE
INVARIANT RingBuffer
