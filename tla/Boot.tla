-------------------------------- MODULE Boot --------------------------------
(***************************************************************************)
(* How tomatod starts and what it keeps on disk: taskmain up to its accept *)
(* loop (tomatod.c), the process UUID and the settings database            *)
(* (settings.c), the replicas' databases (bootstrap.c).                    *)
(*                                                                         *)
(* Nothing here switches tasks, so a step is what happens between two      *)
(* changes of the disk: the process may be killed between any two of them, *)
(* and starts again with what is on disk.                                  *)
(***************************************************************************)
EXTENDS Naturals, FiniteSets

CONSTANTS
  Uuids,       \* the process UUIDs that TDB_generate_uuid may return
  NoUuid,
  Replicas,    \* the UUIDs it may return for replicas
  NoReplica,
  RoleOf,      \* RoleOf[r]: the state r is bootstrapped with
  MaxFaults    \* how many calls of the system may fail

Roles == {"leader", "follower", "candidate", "halt"}

ASSUME BootAssumption ==
  /\ NoUuid \notin Uuids /\ NoReplica \notin Replicas
  /\ Uuids \cap {"absent", "empty"} = {}
  /\ RoleOf \in [Replicas -> Roles]
  /\ MaxFaults \in Nat

VARIABLES
  main,       \* where taskmain is
  uuid,       \* ctx->process_uuid
  uuidFile,   \* the process UUID file: "absent", "empty" (or not complete), or
              \* its content
  db,         \* db[r]: what is stored of r: its directory and its keys
  table,      \* ctx->replicas
  listed,     \* this start could list the directory of the databases
  making,     \* the replica that is being bootstrapped
  faults,     \* the calls that have failed
  served,     \* the UUIDs under which the server has accepted connections
  acked       \* the replicas whose bootstrap has returned TDB_SUCCESS

diskVars == <<uuidFile, db>>
tableVars == <<table, listed>>
historyVars == <<served, acked>>
bootVars == <<main, uuid, diskVars, tableVars, making, faults, historyVars>>

Keys == {"dir", "state", "term", "last_log_index"}

BootTypeOK ==
  /\ main \in {"down", "uuid", "write", "settings", "replicas", "serve", "over",
               "failed", "corrupt"}
  /\ uuid \in Uuids \cup {NoUuid}
  /\ uuidFile \in Uuids \cup {"absent", "empty"}
  /\ db \in [Replicas -> SUBSET Keys]
  /\ table \subseteq Replicas /\ listed \in BOOLEAN
  /\ making \in Replicas \cup {NoReplica}
  /\ faults \in 0..MaxFaults
  /\ served \subseteq Uuids
  /\ acked \subseteq Replicas

fault == faults < MaxFaults /\ faults' = faults + 1

\* taskexit(EXIT_FAILURE) of taskmain
fail == main' = "failed" /\ fault

----------------------------------------------------------------------------
\* ctx_init and the command line: -h, -v and whatever it does not know end
\* the process.
Start ==
  /\ main = "down"
  /\ main' \in {"uuid", "failed"}
  /\ uuid' = NoUuid /\ table' = {} /\ listed' = TRUE
  /\ UNCHANGED <<diskVars, making, faults, historyVars>>

\* access(): a new UUID is only for a process that never had a file.
isNew_IfEmpty == uuidFile \in {"absent", "empty"}
isNew == uuidFile = "absent"

\* A file that cannot be read, or not all of it, ends the start.
GetUuid ==
  /\ main = "uuid" /\ ~isNew
  /\ \/ /\ uuidFile # "empty"
        /\ uuid' = uuidFile /\ main' = "settings"
        /\ UNCHANGED faults
     \/ uuidFile = "empty" /\ main' = "failed" /\ UNCHANGED <<uuid, faults>>
     \/ fail /\ UNCHANGED uuid
  /\ UNCHANGED <<diskVars, tableVars, making, historyVars>>

\* TDB_configure_new_process_uuid up to the fopen that creates the file;
\* the UUID was generated before
CreateUuidFile ==
  /\ main = "uuid" /\ isNew
  /\ uuid' \in Uuids
  /\ \/ uuidFile' = "empty" /\ main' = "write" /\ UNCHANGED faults
     \/ fail /\ UNCHANGED uuidFile
  /\ UNCHANGED <<db, tableVars, making, historyVars>>

\* unlink of the file when the UUID is not safe, or fwrite and fclose, whose
\* own failure nobody sees
WriteUuid ==
  /\ main = "write"
  /\ \/ uuidFile' = uuid /\ main' = "settings" /\ UNCHANGED faults
     \/ UNCHANGED uuidFile /\ main' = "settings" /\ fault
     \/ uuidFile' \in {"absent", "empty"} /\ fail
  /\ UNCHANGED <<uuid, db, tableVars, making, historyVars>>

\* TDB_prepare_settings_db
PrepareSettings ==
  /\ main = "settings"
  /\ \/ main' = "replicas" /\ UNCHANGED faults
     \/ fail
  /\ UNCHANGED <<uuid, diskVars, tableVars, making, historyVars>>

\* TDB_bootstrap_replicas_from_disk: without the directory the server starts
\* empty; a replica that cannot be opened ends the start, but not the tasks of
\* those that were loaded before it; and so does a port that cannot be listened
\* on, after all of them.
onDisk == {r \in Replicas : "dir" \in db[r]}

loadReplicas_Skip ==
  \/ table' = onDisk /\ UNCHANGED listed /\ main' = "serve" /\ UNCHANGED faults
  \/ table' = {} /\ listed' = FALSE /\ main' = "serve" /\ fault
  \/ table' \in SUBSET onDisk /\ UNCHANGED listed /\ main' = "serve" /\ fault

loadReplicas ==
  \/ table' = onDisk /\ UNCHANGED listed /\ main' = "serve" /\ UNCHANGED faults
  \/ table' = {} /\ listed' = FALSE /\ main' = "serve" /\ fault
  \/ table' \in SUBSET onDisk /\ UNCHANGED listed /\ fail

\* ... and TDB_listen_and_accept up to its first netaccept
serve == served' = IF main' = "serve" THEN served \cup {uuid} ELSE served

LoadReplicas ==
  /\ main = "replicas"
  /\ loadReplicas
  /\ serve
  /\ UNCHANGED <<uuid, diskVars, making, acked>>

----------------------------------------------------------------------------
\* TDB_bootstrap_follower, and with another state the functions that bootstrap
\* leaders, called by a routing task.

Generate ==
  /\ main = "serve" /\ making = NoReplica
  /\ making' \in {r \in Replicas : db[r] = {}}
  /\ UNCHANGED <<main, uuid, diskVars, tableVars, faults, historyVars>>

\* the database is created, then one key after the other is put
nextKey(r) ==
  CASE "dir" \notin db[r] -> "dir"
    [] "dir" \in db[r] /\ "state" \notin db[r] -> "state"
    [] "state" \in db[r] /\ "term" \notin db[r] -> "term"
    [] OTHER -> "last_log_index"

Put ==
  /\ making # NoReplica /\ db[making] # Keys
  /\ db' = [db EXCEPT ![making] = @ \cup {nextKey(making)}]
  /\ UNCHANGED <<main, uuid, uuidFile, tableVars, making, faults, historyVars>>

\* TDB_ERROR: what is stored so far stays, without a task
PutFails ==
  /\ making # NoReplica /\ db[making] # Keys
  /\ fault
  /\ making' = NoReplica
  /\ UNCHANGED <<main, uuid, diskVars, tableVars, historyVars>>

\* taskcreate and HASH_ADD
Bootstrapped ==
  /\ making # NoReplica /\ db[making] = Keys
  /\ table' = table \cup {making}
  /\ acked' = acked \cup {making}
  /\ making' = NoReplica
  /\ UNCHANGED <<listed, main, uuid, diskVars, faults, served>>

\* The process is killed, and its memory gone; or it has ended.
Crash ==
  /\ main # "down"
  /\ main' = "down" /\ making' = NoReplica
  /\ uuid' = NoUuid /\ table' = {} /\ listed' = TRUE
  /\ UNCHANGED <<diskVars, faults, historyVars>>

BootInit ==
  /\ main = "down" /\ uuid = NoUuid
  /\ uuidFile = "absent"
  /\ db = [r \in Replicas |-> {}]
  /\ table = {} /\ listed = TRUE /\ making = NoReplica
  /\ faults = 0
  /\ served = {} /\ acked = {}

BootNext ==
  \/ Start \/ GetUuid \/ CreateUuidFile \/ WriteUuid
  \/ PrepareSettings \/ LoadReplicas
  \/ Generate \/ Put \/ PutFails \/ Bootstrapped
  \/ Crash

BootSpec == BootInit /\ [][BootNext]_bootVars

----------------------------------------------------------------------------
\* However often the server is killed while it writes its UUID file, and
\* whatever fails, it never accepts connections under two UUIDs: a file that
\* was created and not written stops it for good instead.
OneIdentity == Cardinality(served) <= 1

\* A replica whose bootstrap has succeeded is in the hash table whenever the
\* server accepts connections, after any number of crashes and failures, but
\* for a start that could not list the directory.
BootstrappedReplicasSurvive == main = "serve" /\ listed => acked \subseteq table
=============================================================================
