-------------------------------- MODULE Kvs --------------------------------
(***************************************************************************)
(* The key-value store (kvs.c, batch.c) on LevelDB (kvs_leveldb.c), with   *)
(* the comparator that decides which keys LevelDB takes for the same.      *)
(*                                                                         *)
(* TDB_kvs_put fails, as batches are stubs: what is stored was put by the  *)
(* database functions that the server calls, which are not in the tree.    *)
(***************************************************************************)
EXTENDS Integers, Sequences, FiniteSetsExt

CONSTANTS
  StoreKeys,  \* the keys in use, as sequences of characters
  Values, NoValue

PrefixFree(keys) ==
  \A a, b \in keys : a # b => \E i \in 1..Min({Len(a), Len(b)}) : a[i] # b[i]

\* As the names of what the consensus stores are.
ASSUME KvsAssumption ==
  /\ StoreKeys \subseteq Seq(Nat) /\ PrefixFree(StoreKeys)
  /\ NoValue \notin Values

VARIABLES
  handle,   \* "none", "open", "closed" or, after a failed TDB_kvs_init, "failed"
  entries,  \* what the database on disk holds, as pairs of a key and a value
  fetched,  \* what the last call returned: a status, and a value
  written   \* history: what was last stored under a key, if it was not deleted

kvsVars == <<handle, entries, fetched, written>>

Status == {"TDB_SUCCESS", "TDB_ERROR"}

KvsTypeOK ==
  /\ handle \in {"none", "open", "closed", "failed"}
  /\ entries \subseteq StoreKeys \X Values
  /\ fetched \in Status \X (Values \cup {NoValue})
  /\ written \in [StoreKeys -> Values \cup {NoValue}]

\* TDB_kvs_leveldb_comparator_compare: the first difference decides, and of a
\* key and its continuation neither is the smaller.
firstDifference(a, b, n) ==
  LET D == {i \in 1..n : a[i] # b[i]}
  IN IF D = {} THEN 0 ELSE a[Min(D)] - b[Min(D)]

compare_OneShort(a, b) == firstDifference(a, b, Min({Len(a), Len(b)}) - 1)
compare(a, b) == firstDifference(a, b, Min({Len(a), Len(b)}))

same(k) == {e \in entries : compare(e[1], k) = 0}

returns(status, value) == fetched' = <<status, value>>

----------------------------------------------------------------------------
\* A type that is not known, or a database that cannot be opened
KvsOpen ==
  /\ handle # "open"
  /\ \/ handle' = "open" /\ returns("TDB_SUCCESS", NoValue)
     \/ handle' = "failed" /\ returns("TDB_ERROR", NoValue)
  /\ UNCHANGED <<entries, written>>

KvsGet(k) ==
  /\ handle = "open"
  /\ \/ \E e \in same(k) : returns("TDB_SUCCESS", e[2])
     \/ returns("TDB_ERROR", NoValue)     \* none, or LevelDB cannot read it
  /\ UNCHANGED <<handle, entries, written>>

\* TDB_kvs_batch_append is a stub
KvsPut ==
  /\ handle = "open"
  /\ returns("TDB_ERROR", NoValue)
  /\ UNCHANGED <<handle, entries, written>>

\* The database functions of the server
Store(k, v) ==
  /\ handle = "open"
  /\ entries' = (entries \ same(k)) \cup {<<k, v>>}
  /\ written' = [written EXCEPT ![k] = v]
  /\ returns("TDB_SUCCESS", NoValue)
  /\ UNCHANGED handle

KvsDelete(k) ==
  /\ handle = "open"
  /\ \/ /\ entries' = entries \ same(k)
        /\ written' = [written EXCEPT ![k] = NoValue]
        /\ returns("TDB_SUCCESS", NoValue)
     \/ returns("TDB_ERROR", NoValue) /\ UNCHANGED <<entries, written>>
  /\ UNCHANGED handle

KvsClose ==
  /\ handle = "open"
  /\ handle' = "closed"
  /\ UNCHANGED <<entries, fetched, written>>

\* LevelDB refuses while the database is open, and TDB_kvs_destroy tells nobody.
KvsDestroy ==
  /\ handle \in {"open", "closed"}
  /\ \/ /\ handle = "closed" /\ entries' = {}
        /\ written' = [k \in StoreKeys |-> NoValue]
     \/ UNCHANGED <<entries, written>>
  /\ UNCHANGED <<handle, fetched>>

KvsInit ==
  /\ handle = "none" /\ entries = {} /\ fetched = <<"TDB_SUCCESS", NoValue>>
  /\ written = [k \in StoreKeys |-> NoValue]

KvsNext ==
  \/ KvsOpen \/ KvsPut \/ KvsClose \/ KvsDestroy
  \/ \E k \in StoreKeys : KvsGet(k) \/ KvsDelete(k) \/ \E v \in Values : Store(k, v)

KvsSpec == KvsInit /\ [][KvsNext]_kvsVars

----------------------------------------------------------------------------
\* Each of the keys in use has what was last stored under it, and nothing that
\* was stored or deleted under another: the comparator, which takes a key and
\* its continuation for the same, tells them apart.
KeysReadBack ==
  \A k \in StoreKeys :
    {e[2] : e \in same(k)} = IF written[k] = NoValue THEN {} ELSE {written[k]}
=============================================================================
