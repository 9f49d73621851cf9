------------------------------- MODULE Locks --------------------------------
(***************************************************************************)
(* The locks and condition variables of the coroutine library (qlock.c,    *)
(* rendez.c): a QLock, a Rendez whose l is that lock, and an RWLock.        *)
(*                                                                         *)
(* A task may be switched away from between any two of its calls, so every *)
(* task that is in none of them may make the next one at any time, and one *)
(* that was readied may go on at any time: an action is a call up to its    *)
(* return or taskswitch, or what follows the switch.  canqlock, canrlock   *)
(* and canwlock do what their blocking forms do when they need not block,  *)
(* and nothing otherwise.                                                  *)
(*                                                                         *)
(* The tasks keep to the manual: they unlock what they locked, sleep with  *)
(* the lock, and hold one lock at a time.                                  *)
(***************************************************************************)
EXTENDS Integers, Sequences, FiniteSets, Functions

CONSTANTS Tasks, NoTask

ASSUME LocksAssumption == IsFiniteSet(Tasks) /\ NoTask \notin Tasks

\* A definition with a suffix, as in grantReaders_First, is the definition
\* that follows it with a mistake: the properties are tested against it.

VARIABLES
  owner, waiting,      \* the QLock
  sleepers,            \* the Rendez's waiting
  readers, writer, rwaiting, wwaiting,    \* the RWLock
  pc,                  \* the call a task is in, or the lock it holds
  ready                \* the tasks in a call that were readied

qVars == <<owner, waiting>>
rwVars == <<readers, writer, rwaiting, wwaiting>>
vars == <<qVars, sleepers, rwVars, pc, ready>>

Calls == {"qlock", "sleep", "rlock", "wlock"}

TypeOK ==
  /\ owner \in Tasks \cup {NoTask}
  /\ writer \in Tasks \cup {NoTask}
  /\ readers \in Nat
  /\ {waiting, sleepers, rwaiting, wwaiting} \subseteq Seq(Tasks)
  /\ pc \in [Tasks -> Calls \cup {"none", "locked", "reading", "writing"}]
  /\ ready \subseteq Tasks
  /\ \A t \in ready : pc[t] \in Calls

----------------------------------------------------------------------------
\* QLock and Rendez

\* _qlock, with block
acquire(t) ==
  IF owner = NoTask
  THEN /\ owner' = t
       /\ pc' = [pc EXCEPT ![t] = "locked"]
       /\ UNCHANGED waiting
  ELSE /\ waiting' = Append(waiting, t)
       /\ pc' = [pc EXCEPT ![t] = "qlock"]
       /\ UNCHANGED owner

qlock(t) ==
  /\ pc[t] = "none"
  /\ acquire(t)
  /\ UNCHANGED <<sleepers, rwVars, ready>>

\* qunlock: the lock goes to the first in line, which is readied
release_ToNobody ==
  /\ owner' = NoTask
  /\ IF waiting = <<>> THEN UNCHANGED <<waiting, ready>>
     ELSE waiting' = Tail(waiting) /\ ready' = ready \cup {Head(waiting)}

release_StillListed ==
  /\ owner' = IF waiting = <<>> THEN NoTask ELSE Head(waiting)
  /\ ready' = (ready \cup {owner'}) \ {NoTask}
  /\ UNCHANGED waiting

release ==
  IF waiting = <<>>
  THEN owner' = NoTask /\ UNCHANGED <<waiting, ready>>
  ELSE /\ owner' = Head(waiting)
       /\ waiting' = Tail(waiting)
       /\ ready' = ready \cup {Head(waiting)}

qunlock(t) ==
  /\ pc[t] = "locked"
  /\ release
  /\ pc' = [pc EXCEPT ![t] = "none"]
  /\ UNCHANGED <<sleepers, rwVars>>

tasksleep(t) ==
  /\ pc[t] = "locked"
  /\ sleepers' = Append(sleepers, t)
  /\ release
  /\ pc' = [pc EXCEPT ![t] = "sleep"]
  /\ UNCHANGED rwVars

\* taskwakeup and taskwakeupall, with or without the lock
taskwakeup(t) ==
  /\ pc[t] \notin Calls
  /\ sleepers # <<>>
  /\ \/ sleepers' = Tail(sleepers) /\ ready' = ready \cup {Head(sleepers)}
     \/ sleepers' = <<>> /\ ready' = ready \cup Range(sleepers)
  /\ UNCHANGED <<qVars, rwVars, pc>>

\* _qlock, and tasksleep, which locks again, after the switch
qresume(t) ==
  /\ t \in ready
  /\ \/ /\ pc[t] = "qlock"
        /\ pc' = [pc EXCEPT ![t] = "locked"]
        /\ UNCHANGED qVars
     \/ pc[t] = "sleep" /\ acquire(t)
  /\ ready' = ready \ {t}
  /\ UNCHANGED <<sleepers, rwVars>>

----------------------------------------------------------------------------
\* RWLock

readersEnter_Greedy == writer = NoTask

readersEnter == writer = NoTask /\ wwaiting = <<>>

rlock(t) ==
  /\ pc[t] = "none"
  /\ IF readersEnter
     THEN /\ readers' = readers + 1
          /\ pc' = [pc EXCEPT ![t] = "reading"]
          /\ UNCHANGED rwaiting
     ELSE /\ rwaiting' = Append(rwaiting, t)
          /\ pc' = [pc EXCEPT ![t] = "rlock"]
          /\ UNCHANGED readers
  /\ UNCHANGED <<qVars, sleepers, writer, wwaiting, ready>>

wlock(t) ==
  /\ pc[t] = "none"
  /\ IF writer = NoTask /\ readers = 0
     THEN /\ writer' = t
          /\ pc' = [pc EXCEPT ![t] = "writing"]
          /\ UNCHANGED wwaiting
     ELSE /\ wwaiting' = Append(wwaiting, t)
          /\ pc' = [pc EXCEPT ![t] = "wlock"]
          /\ UNCHANGED writer
  /\ UNCHANGED <<qVars, sleepers, readers, rwaiting, ready>>

\* if(l->readers == 0 && (t = l->wwaiting.head) != nil)
grantWriter(woken) ==
  IF readers' = 0 /\ wwaiting # <<>>
  THEN /\ writer' = Head(wwaiting)
       /\ wwaiting' = Tail(wwaiting)
       /\ ready' = ready \cup woken \cup {Head(wwaiting)}
  ELSE /\ writer' = NoTask
       /\ UNCHANGED wwaiting
       /\ ready' = ready \cup woken

runlock(t) ==
  /\ pc[t] = "reading"
  /\ readers' = readers - 1
  /\ IF readers' = 0 THEN grantWriter({}) ELSE UNCHANGED <<writer, wwaiting, ready>>
  /\ pc' = [pc EXCEPT ![t] = "none"]
  /\ UNCHANGED <<qVars, sleepers, rwaiting>>

\* while((t = l->rwaiting.head) != nil)
grantReaders_First ==
  /\ readers' = readers + (IF rwaiting = <<>> THEN 0 ELSE 1)
  /\ rwaiting' = IF rwaiting = <<>> THEN <<>> ELSE Tail(rwaiting)

grantReaders ==
  /\ readers' = readers + Len(rwaiting)
  /\ rwaiting' = <<>>

wunlock(t) ==
  /\ pc[t] = "writing"
  /\ grantReaders
  /\ grantWriter({rwaiting[k] : k \in 1..(readers' - readers)})
  /\ pc' = [pc EXCEPT ![t] = "none"]
  /\ UNCHANGED <<qVars, sleepers>>

\* _rlock and _wlock after the switch
rwresume(t) ==
  /\ t \in ready
  /\ \/ pc[t] = "rlock" /\ pc' = [pc EXCEPT ![t] = "reading"]
     \/ pc[t] = "wlock" /\ pc' = [pc EXCEPT ![t] = "writing"]
  /\ ready' = ready \ {t}
  /\ UNCHANGED <<qVars, sleepers, rwVars>>

----------------------------------------------------------------------------
Init ==
  /\ owner = NoTask /\ waiting = <<>>
  /\ sleepers = <<>>
  /\ readers = 0 /\ writer = NoTask
  /\ rwaiting = <<>> /\ wwaiting = <<>>
  /\ pc = [t \in Tasks |-> "none"]
  /\ ready = {}

Resume(t) == qresume(t) \/ rwresume(t)

Next ==
  \E t \in Tasks :
    \/ qlock(t) \/ qunlock(t) \/ tasksleep(t) \/ taskwakeup(t)
    \/ rlock(t) \/ runlock(t) \/ wlock(t) \/ wunlock(t)
    \/ Resume(t)

Spec == Init /\ [][Next]_vars

FairSpec == Spec /\ \A t \in Tasks : WF_vars(Resume(t))

----------------------------------------------------------------------------
\* Properties

Holds == {"locked", "reading", "writing"}

Granted(call, held) ==
  {t \in Tasks : pc[t] = held \/ (pc[t] = call /\ t \in ready)}

Suspended(call) == {t \in Tasks : pc[t] = call /\ t \notin ready}

\* The README of libtask: a QLock is an exclusive lock, an RWLock lets in any
\* number of readers or one writer.  A task that was handed the lock and has
\* not run yet counts, and what the lock's fields say is who these tasks are,
\* so _qlock's "oops" and wunlock's "not locked" and "readers" cannot happen.
Exclusive ==
  /\ \A t \in Tasks : t \in Granted("qlock", "locked") <=> owner = t
  /\ \A t \in Tasks : t \in Granted("wlock", "writing") <=> writer = t
  /\ readers = Cardinality(Granted("rlock", "reading"))
  /\ writer # NoTask => readers = 0

\* Each list holds the tasks suspended in its call, once each: addtask and
\* deltask link a task into one list at a time, and nobody is dropped when the
\* lock is handed on.
ListsMatch ==
  \A w \in {<<waiting, "qlock">>, <<sleepers, "sleep">>,
            <<rwaiting, "rlock">>, <<wwaiting, "wlock">>} :
    IsInjective(w[1]) /\ Range(w[1]) = Suspended(w[2])

\* Nobody waits for a lock that nobody holds, and a reader only for a writer
\* that has the lock or came before it: no release leaves a waiter behind.
NobodyWaitsForFree ==
  /\ waiting # <<>> => owner # NoTask
  /\ wwaiting # <<>> => writer # NoTask \/ readers > 0
  /\ rwaiting # <<>> => writer # NoTask \/ wwaiting # <<>>

\* If whoever holds a lock gives it up again, whoever asks for one gets it, and
\* so does a sleeper that was woken: readers do not keep a writer out for ever,
\* nor writers a reader, nor callers of qlock a task that comes from tasksleep.
EveryoneServed ==
  (\A t \in Tasks : []<>(pc[t] \notin Holds)) =>
    \A t \in Tasks :
      (pc[t] \in Calls /\ (pc[t] = "sleep" => t \in ready)) ~> (pc[t] \in Holds)
=============================================================================
