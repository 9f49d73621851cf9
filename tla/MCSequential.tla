---------------------------- MODULE MCSequential ----------------------------
(***************************************************************************)
(* The components that run alone, side by side: a behaviour is one of one  *)
(* of them, and the others stay as they are initially.                     *)
(***************************************************************************)
EXTENDS Boot, Hash, Array, LineEdit, Kvs, Interval, Stream

VARIABLE chosen

\* Boot: a leader and a follower
MCRoleOf == [r \in Replicas |-> IF r = "r1" THEN "leader" ELSE "follower"]

\* Hash: two items with one key; most keys in one bucket, however many there
\* are, so that the table ends up not growing
MCKeyOf == [i \in Items |-> IF i = "a2" THEN "a" ELSE i]
MCHashOf == [k \in HashKeys |-> CASE k = "c" -> 1 [] OTHER -> 0]
MCRank == [i \in Items |-> IF i \in {"a", "c", "e"} THEN 1 ELSE 0]

\* LineEdit: a line that may be completed to two others, or to none; a file
\* longer than the history
MCCompletions ==
  [c \in Chars |-> IF c = "a" THEN {<<>>, << <<"a", " ">>, <<"a">> >>} ELSE {<<>>}]
MCSaved == {<<>>, << <<"a">>, <<" ">>, <<"a", "a">>, <<" ", "a">> >>}

\* Kvs: as in ".../state", ".../term": a common prefix, then a difference
MCStoreKeys == {<<1, 1>>, <<1, 2>>, <<2>>}

\* Interval: estimated errors of the clock in milliseconds; a negative one is none
MCErrors == {0, 1, -2, 1500}

Idle(p) ==
  /\ p # "boot" => UNCHANGED bootVars
  /\ p # "hash" => UNCHANGED hashVars
  /\ p # "array" => UNCHANGED arrayVars
  /\ p # "edit" => UNCHANGED editVars
  /\ p # "kvs" => UNCHANGED kvsVars
  /\ p # "interval" => UNCHANGED intervalVars
  /\ p # "stream" => UNCHANGED streamVars

Init ==
  /\ BootInit /\ HashInit /\ ArrayInit /\ EditInit /\ KvsInit /\ IntervalInit /\ StreamInit
  /\ chosen \in {"boot", "hash", "array", "edit", "kvs", "interval", "stream"}

Next ==
  /\ \/ chosen = "boot" /\ BootNext
     \/ chosen = "hash" /\ HashNext
     \/ chosen = "array" /\ ArrayNext
     \/ chosen = "edit" /\ EditNext
     \/ chosen = "kvs" /\ KvsNext
     \/ chosen = "interval" /\ IntervalNext
     \/ chosen = "stream" /\ StreamNext
  /\ Idle(chosen)
  /\ UNCHANGED chosen

vars == <<bootVars, hashVars, arrayVars, editVars, kvsVars, intervalVars, streamVars, chosen>>

Spec == Init /\ [][Next]_vars
=============================================================================
