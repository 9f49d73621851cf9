---------------------------- MODULE ServerProofs ----------------------------
(***************************************************************************)
(* Proofs about Boot and Server: the server has one identity and what it   *)
(* bootstrapped survives its crashes; that holds while the server runs, and *)
(* every replica that waits has the timer that ends its wait.  For any sets *)
(* of UUIDs, connections, replicas, timers and requests, and any number of *)
(* failures.                                                               *)
(***************************************************************************)
EXTENDS Server, FiniteSetTheorems, TLAPS

----------------------------------------------------------------------------
\* What the identity rests on: while taskmain starts, the UUID it has is the
\* only one that was ever served, and a file that names a UUID names that one.
StartAgrees ==
  /\ main = "write" => served = {} /\ uuidFile = "empty" /\ uuid \in Uuids
  /\ main \in {"settings", "replicas"} =>
       /\ uuid \in Uuids /\ served \subseteq {uuid}
       /\ uuidFile # "absent"
       /\ uuidFile \in Uuids => uuidFile = uuid

FileAgrees ==
  /\ served # {} => uuidFile # "absent"
  /\ uuidFile \in Uuids => served \subseteq {uuidFile}
  /\ \E u \in Uuids \cup {NoUuid} : served \subseteq {u}

\* What the survival rests on: an acknowledged replica is on disk.
AckedOnDisk == acked \subseteq onDisk

BootIInv ==
  /\ BootTypeOK
  /\ StartAgrees
  /\ FileAgrees
  /\ AckedOnDisk
  /\ BootstrappedReplicasSurvive

----------------------------------------------------------------------------
LEMMA TypeInit == BootInit => BootTypeOK
BY BootAssumption DEF BootInit, BootTypeOK, Keys

\* One conjunct per variable, over all actions
LEMMA TypeStep == BootTypeOK /\ StartAgrees /\ [BootNext]_bootVars => BootTypeOK'
<1> SUFFICES ASSUME BootTypeOK, StartAgrees, [BootNext]_bootVars PROVE BootTypeOK'
  OBVIOUS
<1> USE BootAssumption
<1>1. CASE Start
  BY <1>1 DEF Start, BootTypeOK, diskVars, historyVars
<1>2. CASE GetUuid
  BY <1>2 DEF GetUuid, isNew, fail, fault, BootTypeOK, diskVars, tableVars, historyVars
<1>3. CASE CreateUuidFile
  BY <1>3 DEF CreateUuidFile, fail, fault, BootTypeOK, tableVars, historyVars
<1>4. CASE WriteUuid
  <2>1. /\ main' \in {"settings", "failed"} /\ uuidFile' \in Uuids \cup {"absent", "empty"}
        /\ faults' \in 0..MaxFaults
    BY <1>4 DEF WriteUuid, fail, fault, BootTypeOK, StartAgrees
  <2> QED BY <1>4, <2>1 DEF WriteUuid, BootTypeOK, tableVars, historyVars
<1>5. CASE PrepareSettings
  BY <1>5 DEF PrepareSettings, fail, fault, BootTypeOK, diskVars, tableVars, historyVars
<1>6. CASE LoadReplicas
  <2>1. main' \in {"serve", "failed"} /\ table' \subseteq Replicas
    BY <1>6 DEF LoadReplicas, loadReplicas, fail, onDisk, BootTypeOK
  <2>2. faults' \in 0..MaxFaults
    BY <1>6 DEF LoadReplicas, loadReplicas, fail, fault, BootTypeOK
  <2>3. listed' \in BOOLEAN
    <3>1. listed' = listed \/ listed' = FALSE
      BY <1>6, Zenon DEF LoadReplicas, loadReplicas
    <3> QED BY <3>1 DEF BootTypeOK
  <2>4. served' \subseteq Uuids
    BY <1>6 DEF LoadReplicas, serve, BootTypeOK, StartAgrees
  <2>5. UNCHANGED <<uuid, uuidFile, db, making, acked>>
    BY <1>6 DEF LoadReplicas, diskVars
  <2> QED BY <2>1, <2>2, <2>3, <2>4, <2>5 DEF BootTypeOK
<1>7. CASE Generate
  BY <1>7 DEF Generate, BootTypeOK, diskVars, tableVars, historyVars
<1>8. CASE Put
  <2>1. db' \in [Replicas -> SUBSET Keys]
    BY <1>8 DEF Put, nextKey, BootTypeOK, Keys
  <2> QED BY <1>8, <2>1 DEF Put, BootTypeOK, tableVars, historyVars
<1>9. CASE PutFails
  BY <1>9 DEF PutFails, fault, BootTypeOK, diskVars, tableVars, historyVars
<1>10. CASE Bootstrapped
  BY <1>10 DEF Bootstrapped, BootTypeOK, diskVars
<1>11. CASE Crash
  BY <1>11 DEF Crash, BootTypeOK, diskVars, historyVars
<1>12. CASE UNCHANGED bootVars
  BY <1>12 DEF BootTypeOK, bootVars, diskVars, tableVars, historyVars
<1> QED
  BY <1>1, <1>2, <1>3, <1>4, <1>5, <1>6, <1>7, <1>8, <1>9, <1>10, <1>11, <1>12 DEF BootNext

----------------------------------------------------------------------------
LEMMA StartStep ==
  BootTypeOK /\ StartAgrees /\ FileAgrees /\ [BootNext]_bootVars => StartAgrees'
<1> SUFFICES ASSUME BootTypeOK, StartAgrees, FileAgrees, [BootNext]_bootVars
             PROVE  StartAgrees'
  OBVIOUS
<1> USE BootAssumption
<1>1. CASE Start
  BY <1>1 DEF Start, StartAgrees, BootTypeOK
<1>2. CASE GetUuid
  <2>1. CASE main' = "settings"
    <3>1. uuidFile \in Uuids /\ uuid' = uuidFile
      BY <1>2, <2>1 DEF GetUuid, isNew, fail, BootTypeOK
    <3> QED
      BY <1>2, <2>1, <3>1 DEF GetUuid, StartAgrees, FileAgrees, diskVars, historyVars
  <2> QED
    BY <1>2, <2>1 DEF GetUuid, fail, StartAgrees
<1>3. CASE CreateUuidFile
  BY <1>3 DEF CreateUuidFile, isNew, fail, StartAgrees, FileAgrees, historyVars
<1>4. CASE WriteUuid
  BY <1>4 DEF WriteUuid, fail, StartAgrees, historyVars
<1>5. CASE PrepareSettings
  BY <1>5 DEF PrepareSettings, fail, StartAgrees, diskVars, historyVars
<1>6. CASE LoadReplicas
  BY <1>6 DEF LoadReplicas, loadReplicas, fail, StartAgrees
<1>7. CASE Generate \/ Put \/ PutFails \/ Bootstrapped \/ UNCHANGED bootVars
  <2>1. UNCHANGED <<main, uuid, uuidFile, served>>
    BY <1>7 DEF Generate, Put, PutFails, Bootstrapped, bootVars, diskVars, historyVars
  <2> QED BY <2>1 DEF StartAgrees
<1>8. CASE Crash
  BY <1>8 DEF Crash, StartAgrees
<1> QED
  BY <1>1, <1>2, <1>3, <1>4, <1>5, <1>6, <1>7, <1>8 DEF BootNext

LEMMA FileStep ==
  BootTypeOK /\ StartAgrees /\ FileAgrees /\ [BootNext]_bootVars => FileAgrees'
<1> SUFFICES ASSUME BootTypeOK, StartAgrees, FileAgrees, [BootNext]_bootVars
             PROVE  FileAgrees'
  OBVIOUS
<1> USE BootAssumption
<1>1. CASE CreateUuidFile \/ WriteUuid
  <2>1. served = {} /\ served' = served
    BY <1>1 DEF CreateUuidFile, WriteUuid, isNew, StartAgrees, FileAgrees, historyVars
  <2> QED BY <2>1 DEF FileAgrees
<1>2. CASE LoadReplicas
  <2>1. /\ served' \subseteq {uuid} /\ uuid \in Uuids
        /\ uuidFile' = uuidFile /\ uuidFile # "absent"
        /\ uuidFile \in Uuids => uuidFile = uuid
    BY <1>2 DEF LoadReplicas, serve, StartAgrees, diskVars
  <2> QED BY <2>1 DEF FileAgrees
<1>3. CASE \/ Start \/ GetUuid \/ PrepareSettings \/ Generate \/ Put \/ PutFails
           \/ Bootstrapped \/ Crash \/ UNCHANGED bootVars
  <2>1. UNCHANGED <<uuidFile, served>>
    BY <1>3 DEF Start, GetUuid, PrepareSettings, Generate, Put, PutFails, Bootstrapped,
                Crash, bootVars, diskVars, historyVars
  <2> QED BY <2>1 DEF FileAgrees
<1> QED BY <1>1, <1>2, <1>3 DEF BootNext

\* Nothing of a replica is ever taken off the disk.
LEMMA DiskGrows ==
  BootTypeOK /\ [BootNext]_bootVars => \A r \in Replicas : db[r] \subseteq db'[r]
<1> SUFFICES ASSUME BootTypeOK, [BootNext]_bootVars, NEW r \in Replicas
             PROVE  db[r] \subseteq db'[r]
  OBVIOUS
<1>1. CASE Put
  BY <1>1 DEF Put, BootTypeOK
<1>2. CASE ~Put
  BY <1>2 DEF BootNext, Start, GetUuid, CreateUuidFile, WriteUuid, PrepareSettings,
              LoadReplicas, Generate, PutFails, Bootstrapped, Crash, bootVars, diskVars
<1> QED BY <1>1, <1>2

LEMMA AckedStep == BootIInv /\ [BootNext]_bootVars => AckedOnDisk'
<1> SUFFICES ASSUME BootIInv, [BootNext]_bootVars PROVE AckedOnDisk'
  OBVIOUS
<1>1. onDisk \subseteq onDisk'
  BY DiskGrows DEF BootIInv, onDisk
<1>2. CASE Bootstrapped
  <2>1. making \in Replicas /\ db[making] = Keys
    BY <1>2 DEF Bootstrapped, BootIInv, BootTypeOK
  <2>2. making \in onDisk
    BY <2>1 DEF onDisk, Keys
  <2> QED BY <1>1, <1>2, <2>2 DEF Bootstrapped, BootIInv, AckedOnDisk
<1>3. CASE ~Bootstrapped
  <2>1. acked' = acked
    BY <1>3 DEF BootNext, Start, GetUuid, CreateUuidFile, WriteUuid, PrepareSettings,
                LoadReplicas, Generate, Put, PutFails, Crash, bootVars, historyVars
  <2> QED BY <1>1, <2>1 DEF BootIInv, AckedOnDisk
<1> QED BY <1>2, <1>3

\* A start that lists the directory finds all that is on disk; while the
\* server runs the two grow together.
LEMMA SurviveStep == BootIInv /\ [BootNext]_bootVars => BootstrappedReplicasSurvive'
<1> SUFFICES ASSUME BootIInv, [BootNext]_bootVars PROVE BootstrappedReplicasSurvive'
  OBVIOUS
<1> USE DEF BootstrappedReplicasSurvive
<1>1. CASE LoadReplicas
  <2>1. acked' = acked
    BY <1>1 DEF LoadReplicas
  <2>2. main' = "serve" /\ listed' => table' = onDisk
    BY <1>1 DEF LoadReplicas, loadReplicas, fail
  <2> QED BY <2>1, <2>2 DEF BootIInv, AckedOnDisk
<1>2. CASE Bootstrapped
  BY <1>2 DEF Bootstrapped, BootIInv
<1>3. CASE Generate \/ Put \/ PutFails \/ UNCHANGED bootVars
  BY <1>3 DEF Generate, Put, PutFails, bootVars, tableVars, historyVars, BootIInv
<1>4. CASE Start \/ GetUuid \/ CreateUuidFile \/ WriteUuid \/ PrepareSettings \/ Crash
  BY <1>4 DEF Start, GetUuid, CreateUuidFile, WriteUuid, PrepareSettings, Crash, fail
<1> QED BY <1>1, <1>2, <1>3, <1>4 DEF BootNext

LEMMA InitIInv == BootInit => BootIInv
<1> SUFFICES ASSUME BootInit PROVE BootIInv
  OBVIOUS
<1>1. BootTypeOK
  BY TypeInit
<1>2. StartAgrees /\ AckedOnDisk /\ BootstrappedReplicasSurvive
  BY DEF BootInit, StartAgrees, AckedOnDisk, BootstrappedReplicasSurvive
<1>3. FileAgrees
  BY BootAssumption DEF BootInit, FileAgrees
<1> QED BY <1>1, <1>2, <1>3 DEF BootIInv

LEMMA StepIInv == BootIInv /\ [BootNext]_bootVars => BootIInv'
BY TypeStep, StartStep, FileStep, AckedStep, SurviveStep DEF BootIInv

LEMMA IInvImplies == BootIInv => OneIdentity
<1> SUFFICES ASSUME BootIInv PROVE OneIdentity
  OBVIOUS
<1>1. PICK u \in Uuids \cup {NoUuid} : served \subseteq {u}
  BY DEF BootIInv, FileAgrees
<1>2. IsFiniteSet({u}) /\ Cardinality({u}) = 1
  BY FS_Singleton
<1>3. Cardinality(served) <= Cardinality({u})
  BY <1>1, <1>2, FS_Subset
<1> QED BY <1>2, <1>3 DEF OneIdentity

----------------------------------------------------------------------------
\* The inductive invariant of the start of the server and of what it keeps on
\* disk.
THEOREM BootInvariant == BootSpec => []BootIInv
<1>1. BootInit => BootIInv
  BY InitIInv
<1>2. BootIInv /\ [BootNext]_bootVars => BootIInv'
  BY StepIInv
<1> QED BY <1>1, <1>2, PTL DEF BootSpec

\* Every variable keeps its type.
THEOREM BootTypeCorrect == BootSpec => []BootTypeOK
<1>1. BootIInv => BootTypeOK
  BY DEF BootIInv
<1> QED BY <1>1, BootInvariant, PTL

\* The server never accepts connections under two UUIDs.
THEOREM ServedUnderOneUuid == BootSpec => []OneIdentity
BY IInvImplies, BootInvariant, PTL

\* Whenever the server accepts connections and could list its databases, every
\* replica whose bootstrap succeeded is there.
THEOREM ReplicasSurvive == BootSpec => []BootstrappedReplicasSurvive
<1>1. BootIInv => BootstrappedReplicasSurvive
  BY DEF BootIInv
<1> QED BY <1>1, BootInvariant, PTL

----------------------------------------------------------------------------
\* The tasks of the replicas and their timers
ReplicaTypeOK ==
  /\ rtask \in [Replicas -> {"none", "role", "wait", "over"}]
  /\ timer \in [Timers -> Replicas \cup {NoReplica}]
  /\ current \in [Replicas -> Timers \cup {NoTimer}]

ServerIInv ==
  /\ BootIInv
  /\ ReplicaTypeOK
  /\ WaitersHaveTimers

\* What the server does to Boot's variables that Boot does not: it ends, or
\* reads a database in vain.
BesideBoot ==
  /\ main' \in {main, "over", "corrupt"}
  /\ faults' \in 0..MaxFaults
  /\ UNCHANGED <<uuid, diskVars, tableVars, making, historyVars>>

----------------------------------------------------------------------------
LEMMA BootSteps == BootTypeOK /\ [Next]_allVars => [BootNext]_bootVars \/ BesideBoot
<1> SUFFICES ASSUME BootTypeOK, [Next]_allVars
             PROVE  [BootNext]_bootVars \/ BesideBoot
  OBVIOUS
<1>1. CASE Booting \/ Load \/ EndBootstrap \/ Kill
  BY <1>1, Zenon DEF Booting, Load, EndBootstrap, Kill, BootNext
<1>2. CASE ShutDown
  BY <1>2, BootAssumption DEF ShutDown, fault, BesideBoot, BootTypeOK
<1>3. ASSUME NEW c \in Conns, Accept(c) \/ Connect(c) \/ Control(c) \/ Attach(c) \/ Read(c)
      PROVE  UNCHANGED bootVars
  BY <1>3 DEF Accept, Connect, Control, Attach, Read
<1>4. ASSUME NEW c \in Conns, Respond(c) PROVE [BootNext]_bootVars \/ BesideBoot
  <2>1. \/ UNCHANGED bootVars \/ Generate
        \/ /\ main' = "corrupt"
           /\ UNCHANGED <<uuid, diskVars, tableVars, making, faults, historyVars>>
    BY <1>4, Zenon DEF Respond
  <2> QED BY <2>1 DEF BesideBoot, BootNext, BootTypeOK
<1>5. ASSUME NEW r \in Replicas, Wait(r) PROVE UNCHANGED bootVars
  BY <1>5 DEF Wait
<1>6. ASSUME NEW r \in Replicas, NEW c \in Conns, Take(r, c) PROVE UNCHANGED bootVars
  BY <1>6 DEF Take
<1>7. ASSUME NEW r \in Replicas, Halt(r) PROVE BesideBoot
  BY <1>7, BootAssumption DEF Halt, fault, BesideBoot, BootTypeOK
<1>8. ASSUME NEW k \in Timers, Alarm(k) PROVE UNCHANGED bootVars
  BY <1>8 DEF Alarm
<1>9. CASE UNCHANGED allVars
  BY <1>9 DEF allVars
<1> QED
  BY <1>1, <1>2, <1>3, <1>4, <1>5, <1>6, <1>7, <1>8, <1>9 DEF Next

LEMMA BesideStep == BootIInv /\ BesideBoot => BootIInv'
<1> SUFFICES ASSUME BootIInv, BesideBoot PROVE BootIInv'
  OBVIOUS
<1> USE DEF BootIInv, BesideBoot, diskVars, tableVars, historyVars
<1>1. BootTypeOK'
  BY DEF BootTypeOK
<1>2. StartAgrees' /\ FileAgrees'
  BY DEF StartAgrees, FileAgrees
<1>3. AckedOnDisk' /\ BootstrappedReplicasSurvive'
  BY DEF AckedOnDisk, onDisk, BootstrappedReplicasSurvive
<1> QED BY <1>1, <1>2, <1>3

LEMMA BootStep == BootIInv /\ [Next]_allVars => BootIInv'
<1>1. BootIInv => BootTypeOK
  BY DEF BootIInv
<1> QED BY <1>1, BootSteps, BesideStep, StepIInv

----------------------------------------------------------------------------
\* A timer that is started was free, so it is nobody's current one that sleeps.
LEMMA Started ==
  ASSUME ReplicaTypeOK, WaitersHaveTimers, NEW r \in Replicas, start(r),
         NEW now \in {"role", "wait", "over"}, rtask' = [rtask EXCEPT ![r] = now]
  PROVE  ReplicaTypeOK' /\ WaitersHaveTimers'
<1>1. PICK k \in Timers : /\ timer[k] = NoReplica
                          /\ timer' = [timer EXCEPT ![k] = r]
                          /\ current' = [current EXCEPT ![r] = k]
  BY DEF start
<1>2. ReplicaTypeOK'
  BY <1>1 DEF ReplicaTypeOK
<1>3. ASSUME NEW s \in Replicas, rtask'[s] = "wait"
      PROVE  current'[s] # NoTimer /\ timer'[current'[s]] = s
  <2>1. CASE s = r
    BY <1>1, <2>1, ServerAssumption DEF ReplicaTypeOK
  <2>2. CASE s # r
    <3>1. current[s] # NoTimer /\ timer[current[s]] = s
      BY <1>3, <2>2 DEF ReplicaTypeOK, WaitersHaveTimers
    <3> QED BY <1>1, <2>2, <3>1, BootAssumption DEF ReplicaTypeOK
  <2> QED BY <2>1, <2>2
<1> QED BY <1>2, <1>3 DEF WaitersHaveTimers

\* A replica's task that goes on or ends does not wait.
LEMMA Stopped ==
  ASSUME ReplicaTypeOK, WaitersHaveTimers, NEW r \in Replicas,
         NEW now \in {"role", "over"}, rtask' = [rtask EXCEPT ![r] = now],
         UNCHANGED <<timer, current>>
  PROVE  ReplicaTypeOK' /\ WaitersHaveTimers'
BY DEF ReplicaTypeOK, WaitersHaveTimers

LEMMA Rang ==
  ASSUME ReplicaTypeOK, WaitersHaveTimers, NEW k \in Timers, Alarm(k)
  PROVE  ReplicaTypeOK' /\ WaitersHaveTimers'
<1> DEFINE r == timer[k]
<1>1. r \in Replicas
  BY DEF Alarm, ReplicaTypeOK
<1>2. timer' = [timer EXCEPT ![k] = NoReplica] /\ current' = current
  BY DEF Alarm
<1>3. \/ rtask' = rtask /\ ~(rtask[r] = "wait" /\ current[r] = k)
      \/ \E now \in {"role", "over"} : rtask' = [rtask EXCEPT ![r] = now]
  BY DEF Alarm, afterEvent
<1>4. ReplicaTypeOK'
  BY <1>1, <1>2, <1>3 DEF ReplicaTypeOK
<1>5. ASSUME NEW s \in Replicas, rtask'[s] = "wait"
      PROVE  current'[s] # NoTimer /\ timer'[current'[s]] = s
  <2>1. rtask[s] = "wait" /\ ~(s = r /\ current[r] = k)
    BY <1>1, <1>3, <1>5 DEF ReplicaTypeOK
  <2>2. current[s] # NoTimer /\ timer[current[s]] = s
    BY <2>1 DEF WaitersHaveTimers
  <2>3. current[s] # k
    BY <2>1, <2>2
  <2> QED BY <1>2, <2>2, <2>3 DEF ReplicaTypeOK
<1> QED BY <1>4, <1>5 DEF WaitersHaveTimers

LEMMA WaitersStep ==
  BootIInv /\ ReplicaTypeOK /\ WaitersHaveTimers /\ [Next]_allVars
    => ReplicaTypeOK' /\ WaitersHaveTimers'
<1> SUFFICES ASSUME BootIInv, ReplicaTypeOK, WaitersHaveTimers, [Next]_allVars
             PROVE  ReplicaTypeOK' /\ WaitersHaveTimers'
  OBVIOUS
<1>1. CASE UNCHANGED <<rtask, timer, current>>
  BY <1>1 DEF ReplicaTypeOK, WaitersHaveTimers
<1>2. CASE Load
  BY <1>2 DEF Load, ReplicaTypeOK, WaitersHaveTimers
<1>3. CASE EndBootstrap
  <2>1. CASE rtask' = rtask
    BY <1>1, <1>3, <2>1 DEF EndBootstrap
  <2>2. CASE rtask' # rtask
    <3>1. making \in Replicas /\ rtask' = [rtask EXCEPT ![making] = "role"]
      BY <1>3, <2>2 DEF EndBootstrap, Bootstrapped, BootIInv, BootTypeOK
    <3> QED BY <1>3, <3>1, Stopped DEF EndBootstrap
  <2> QED BY <2>1, <2>2
<1>4. CASE Kill
  BY <1>4 DEF Kill, Idle, ReplicaTypeOK, WaitersHaveTimers
<1>5. ASSUME NEW c \in Conns, Read(c)
      PROVE  ReplicaTypeOK' /\ WaitersHaveTimers'
  <2>1. CASE rtask' = rtask
    BY <1>1, <1>5, <2>1 DEF Read
  <2>2. CASE rtask' # rtask
    <3>1. /\ rtask[target(c)] = "wait"
          /\ rtask' = [rtask EXCEPT ![target(c)] = afterEvent(target(c))]
      BY <1>5, <2>2 DEF Read
    <3>2. target(c) \in Replicas
      BY <2>2, <3>1 DEF ReplicaTypeOK
    <3> QED BY <1>5, <3>1, <3>2, Stopped DEF Read, afterEvent
  <2> QED BY <2>1, <2>2
<1>6. ASSUME NEW r \in Replicas, Wait(r) PROVE ReplicaTypeOK' /\ WaitersHaveTimers'
  BY <1>6, Started DEF Wait
<1>7. ASSUME NEW r \in Replicas, NEW c \in Conns, Take(r, c)
      PROVE  ReplicaTypeOK' /\ WaitersHaveTimers'
  <2>1. start(r) /\ rtask' = [rtask EXCEPT ![r] = afterEvent(r)]
    BY <1>7 DEF Take
  <2>2. afterEvent(r) \in {"role", "wait", "over"}
    BY DEF afterEvent
  <2> QED BY <2>1, <2>2, Started
<1>8. ASSUME NEW r \in Replicas, Halt(r) PROVE ReplicaTypeOK' /\ WaitersHaveTimers'
  BY <1>8, Stopped DEF Halt
<1>9. ASSUME NEW k \in Timers, Alarm(k) PROVE ReplicaTypeOK' /\ WaitersHaveTimers'
  BY <1>9, Rang
<1>10. CASE Booting \/ ShutDown \/ UNCHANGED allVars
  BY <1>1, <1>10 DEF Booting, ShutDown, allVars, serverVars
<1>11. ASSUME NEW c \in Conns,
              Accept(c) \/ Connect(c) \/ Control(c) \/ Respond(c) \/ Attach(c)
       PROVE  ReplicaTypeOK' /\ WaitersHaveTimers'
  BY <1>1, <1>11 DEF Accept, Connect, Control, Respond, Attach
<1> QED
  BY <1>2, <1>3, <1>4, <1>5, <1>6, <1>7, <1>8, <1>9, <1>10, <1>11 DEF Next

LEMMA ServerInit == Init => ServerIInv
<1> SUFFICES ASSUME Init PROVE ServerIInv
  OBVIOUS
<1>1. BootIInv
  BY InitIInv DEF Init
<1>2. ReplicaTypeOK /\ WaitersHaveTimers
  BY DEF Init, Idle, ReplicaTypeOK, WaitersHaveTimers
<1> QED BY <1>1, <1>2 DEF ServerIInv

----------------------------------------------------------------------------
\* The inductive invariant of the running server.
THEOREM ServerInvariant == Spec => []ServerIInv
<1>1. Init => ServerIInv
  BY ServerInit
<1>2. ServerIInv /\ [Next]_allVars => ServerIInv'
  BY BootStep, WaitersStep DEF ServerIInv
<1> QED BY <1>1, <1>2, PTL DEF Spec

\* A replica that waits for an event has the timer that ends its wait.
THEOREM WaitsEnd == Spec => []WaitersHaveTimers
<1>1. ServerIInv => WaitersHaveTimers
  BY DEF ServerIInv
<1> QED BY <1>1, ServerInvariant, PTL

\* The clients, replicas and timers do not break what the start of the server
\* promises: one identity, and the replicas that were bootstrapped.
THEOREM ServerKeepsBoot == Spec => [](OneIdentity /\ BootstrappedReplicasSurvive)
<1>1. ServerIInv => OneIdentity /\ BootstrappedReplicasSurvive
  BY IInvImplies DEF ServerIInv, BootIInv
<1> QED BY <1>1, ServerInvariant, PTL
=============================================================================
