SPECIFICATION FairSpec
CONSTANTS
  main = main
  fdtask = fdtask
  w1 = w1
  w2 = w2
  NoTask = NoTask
  Main = main
  FdTask = fdtask
  Delays = {0, 2}
  TicksPerMs = 2
  PollCap = 1
  Tasks <- ThreeTasks
PROPERTY SleepersWake
