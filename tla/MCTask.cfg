SPECIFICATION Spec
CONSTANTS
  main = main
  fdtask = fdtask
  w1 = w1
  w2 = w2
  NoTask = NoTask
  Main = main
  FdTask = fdtask
  Delays = {0, 1}
  TicksPerMs = 2
  PollCap = 1
  Tasks <- FourTasks
SYMMETRY Symmetric
INVARIANTS OnePlace CountExact SlotsMatch EndsOnlyWhenDone PollsOnlyWhenIdle
PROPERTIES WakesTheDue NoOvertaking
