SPECIFICATION Spec
CONSTANTS
  Uuids = {u1}
  NoUuid = NoUuid
  l = l
  f = f
  Replicas = {l, f}
  NoReplica = NoReplica
  RoleOf <- MCRoleOf
  Requests <- MCRequests
  MaxFaults = 1
  Conns = {c1, c2}
  Timers = {k1, k2}
  NoTimer = NoTimer
INVARIANT WaitersHaveTimers
 
