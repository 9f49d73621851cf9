SPECIFICATION Spec
CONSTANTS
  Uuids = {"u1", "u2"}
  NoUuid = "none"
  Replicas = {"r1", "r2"}
  NoReplica = "none"
  RoleOf <- MCRoleOf
  MaxFaults = 2
  Items = {"a", "a2", "b", "c", "d", "e"}
  NULL = "NULL"
  KeyOf <- MCKeyOf
  HashOf <- MCHashOf
  Rank <- MCRank
  InitialBuckets = 1
  Capacity = 1
  MaxBuckets = 16
  Ints = {0, 1, 2}
  First = 1
  MaxSlots = 4
  Chars = {"a", " ", "/"}
  Blank = " "
  Slash = "/"
  BufLen = 3
  Room = 2
  MaxLens = {0, 1, 3}
  DefaultMax = 2
  Saved <- MCSaved
  Completions <- MCCompletions
  StoreKeys <- MCStoreKeys
  Values = {1, 2}
  NoValue = 0
  Errors <- MCErrors
  Step = 1000
  MaxTime = 6000
  Lengths = {1, 2, 3}
  MaxBytes = 6
INVARIANTS
  OneIdentity BootstrappedReplicasSurvive TableSound ArrayHoldsItems
  HistoryInBounds ScreenShowsTheLine KeysReadBack  ArrivesInOrder
PROPERTIES OnlyTheShownLineChanges
CHECK_DEADLOCK FALSE
