SPECIFICATION FdSpec
CONSTANTS
  main = main
  fdtask = fdtask
  w1 = w1
  w2 = w2
  NoTask = NoTask
  Main = main
  FdTask = fdtask
  Delays = {}
  TicksPerMs = 1
  PollCap = 1
  conn = conn
  listener = listener
  Fds = {conn, listener}
  NoHandle = NoHandle
  Tasks = {main, fdtask, w1, w2}
  UseCases <- OnlyServer
PROPERTY WokenByItsDescriptor
