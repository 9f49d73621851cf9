CONSTANTS
  Tasks = {t1, t2, t3, t4}
  NoTask = NoTask
SPECIFICATION FairSpec
INVARIANTS TypeOK Exclusive ListsMatch NobodyWaitsForFree
PROPERTIES EveryoneServed
CHECK_DEADLOCK FALSE
