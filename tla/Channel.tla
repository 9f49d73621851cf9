------------------------------ MODULE Channel ------------------------------
(***************************************************************************)
(* The channels of the coroutine library (src/src/common/task/channel.c)   *)
(* together with the part of the scheduler they call: taskswitch,          *)
(* taskready, taskyield and the dispatch loop of task.c.                   *)
(*                                                                         *)
(* A channel keeps a ring buffer and two arrays of pointers to the         *)
(* alternatives ("Alt") of the tasks blocked on it.  A pointer &a[i-1] is   *)
(* <<arr, i>>: an array of the caller's memory and an index into it (from  *)
(* 1 where the code counts from 0).  Which array a task passes to chanalt   *)
(* is ArrayOf[t]: _chanop uses one on the caller's stack, so every task     *)
(* has its own; a `static Alt alts[n]` of the program is one array that    *)
(* several tasks share.                                                    *)
(*                                                                         *)
(* The order of an Altarray is never observable (delarray swaps entries    *)
(* and altexec picks one with rand()), so it is a bag: queue[c, op][p] is   *)
(* how often the pointer p occurs in c->asend or c->arecv.                 *)
(***************************************************************************)
EXTENDS Integers, Sequences, FiniteSets

CONSTANTS
  Tasks,       \* the tasks of the process
  Chans,       \* the channels
  Values,      \* what is sent through them
  Arrays,      \* the Alt arrays of the program's memory
  ArrayOf,     \* ArrayOf[t]: the array task t passes to chanalt
  bufsize,     \* bufsize[c]: 0 for an unbuffered channel
  AltLists,    \* AltLists[t]: what t may put in its array before a call
  MaxAlts,     \* the longest of them
  Pollers,     \* the tasks that also end their arrays with CHANNOBLK
  NoTask,
  NoValue      \* what a receiver's destination holds before the receive

Dirs == {"CHANSND", "CHANRCV"}
Ops  == Dirs \cup {"CHANNOP"}
Alt  == {a \in [c : Chans, op : Ops, v : Values \cup {NoValue}] :
           a.op = "CHANSND" => a.v \in Values}
Ptr  == Arrays \X (1..MaxAlts)
Places == Chans \X Dirs

ASSUME ChannelAssumption ==
  /\ IsFiniteSet(Tasks) /\ NoTask \notin Tasks
  /\ NoValue \notin Values
  /\ MaxAlts \in Nat
  /\ bufsize \in [Chans -> Nat]
  /\ ArrayOf \in [Tasks -> Arrays]
  /\ AltLists \in [Tasks -> SUBSET Seq(Alt)]
  /\ \A t \in Tasks : \A l \in AltLists[t] : Len(l) <= MaxAlts

\* A definition with a suffix, as in altcanexec_OffByOne, is the definition
\* that follows it with a mistake: the invariants are tested against it.

VARIABLES
  alts,        \* alts[arr]: the entries c, op, v of the array
  alttask,     \* alttask[arr]: the task field of its entries
  xalt,        \* xalt[arr]: the entry that arr[0].xalt points to
  queue,       \* queue[c, op]: the bag c->asend or c->arecv
  buf, off, nbuf,   \* the ring buffer of each channel
  inalt,       \* inalt[t]: t is inside chanalt, past its taskswitch
  ret,         \* ret[t]: what its last chanalt returned (0: none yet)
  ready,       \* ready[t]: t->ready
  runq,        \* taskrunqueue
  running,     \* taskrunning, NoTask while the scheduler runs
  aborted      \* altdequeue or an assertion of altcopy ended the process

vars == <<alts, alttask, xalt, queue, buf, off, nbuf, inalt, ret, ready,
          runq, running, aborted>>
schedVars == <<ready, runq, running>>
chanVars == <<queue, buf, off, nbuf>>
memVars  == <<alts, alttask, xalt>>

TypeOK ==
  /\ alts \in [Arrays -> Seq(Alt)]
  /\ \A arr \in Arrays : Len(alts[arr]) <= MaxAlts
  /\ alttask \in [Arrays -> Tasks \cup {NoTask}]
  /\ xalt \in [Arrays -> Nat]
  /\ queue \in [Places -> [Ptr -> Nat]]
  /\ buf = [c \in Chans |-> buf[c]]
  /\ \A c \in Chans : buf[c] \in [0..(bufsize[c] - 1) -> Values \cup {NoValue}]
  /\ off \in [Chans -> Nat]
  /\ nbuf \in [Chans -> Nat]
  /\ inalt \in [Tasks -> BOOLEAN]
  /\ ret \in [Tasks -> Int]
  /\ ready \in [Tasks -> BOOLEAN]
  /\ runq \in Seq(Tasks)
  /\ running \in Tasks \cup {NoTask}
  /\ aborted \in BOOLEAN

----------------------------------------------------------------------------
\* The memory arrays and the channels' queues.

otherop(op) == IF op = "CHANSND" THEN "CHANRCV" ELSE "CHANSND"

At(mem, p)   == mem[p[1]][p[2]]
Home(mem, p) == <<At(mem, p).c, At(mem, p).op>>

\* chanarray(c, op)->n is not 0
Queued(c, op) == {p \in Ptr : queue[<<c, op>>][p] > 0}

\* The entries of arr from index i on that altqueue and altdequeue handle.
Entries(mem, arr, i) ==
  {p \in {arr} \X (i..Len(mem[arr])) : At(mem, p).op # "CHANNOP"}

altqueue_FirstOnly(mem, ps) ==
  queue' = [k \in Places |-> [p \in Ptr |->
              IF p \in ps /\ Home(mem, p) = k /\ p[2] = 1 THEN queue[k][p] + 1
                                                           ELSE queue[k][p]]]

altqueue(mem, ps) ==
  queue' = [k \in Places |-> [p \in Ptr |->
              IF p \in ps /\ Home(mem, p) = k THEN queue[k][p] + 1
                                              ELSE queue[k][p]]]

\* altdequeue(p) reaches "cannot find self in altdq"
cannotFind(mem, p) == queue[Home(mem, p)][p] = 0

altalldequeue(mem, ps) ==
  queue' = [k \in Places |-> [p \in Ptr |->
              IF p \in ps /\ Home(mem, p) = k THEN queue[k][p] - 1
                                              ELSE queue[k][p]]]

altcanexec_OffByOne(a) ==
  /\ a.op # "CHANNOP"
  /\ IF bufsize[a.c] = 0 THEN Queued(a.c, otherop(a.op)) # {}
     ELSE IF a.op = "CHANSND" THEN nbuf[a.c] <= bufsize[a.c]
     ELSE nbuf[a.c] >= 0

altcanexec(a) ==
  /\ a.op # "CHANNOP"
  /\ IF bufsize[a.c] = 0 THEN Queued(a.c, otherop(a.op)) # {}
     ELSE IF a.op = "CHANSND" THEN nbuf[a.c] < bufsize[a.c]
     ELSE nbuf[a.c] > 0

----------------------------------------------------------------------------
\* altcopy: s and r are sets of at most one pointer, {} for nil.

store(mem, ps, v) == [arr \in Arrays |-> [i \in DOMAIN mem[arr] |->
    IF <<arr, i>> \in ps THEN [mem[arr][i] EXCEPT !.v = v] ELSE mem[arr][i]]]

copyDirect(mem, c, s, r) ==
  /\ s # {} /\ r # {} /\ nbuf[c] = 0
  /\ \E p \in s : alts' = store(mem, r, At(mem, p).v)
  /\ UNCHANGED <<buf, off, nbuf>>

copyThroughBuffer(mem, c, s, r) ==
  LET taken == IF r = {} THEN 0 ELSE 1
      given == IF s = {} THEN 0 ELSE 1
      off1  == (off[c] + taken) % bufsize[c]
      last  == (off1 + nbuf[c] - taken) % bufsize[c]
  IN /\ ~(s # {} /\ r # {} /\ nbuf[c] = 0)
     /\ alts' = store(mem, r, buf[c][off[c]])
     /\ off'  = [off EXCEPT ![c] = off1]
     /\ nbuf' = [nbuf EXCEPT ![c] = @ - taken + given]
     /\ IF s = {} THEN buf' = buf
        ELSE \E p \in s : buf' = [buf EXCEPT ![c][last] = At(mem, p).v]

altcopy(mem, c, p, others) ==
  LET mine == {p}
      s == IF At(mem, p).op = "CHANSND" THEN mine ELSE others
      r == IF At(mem, p).op = "CHANSND" THEN others ELSE mine
  IN copyDirect(mem, c, s, r) \/ copyThroughBuffer(mem, c, s, r)

taskready(t) ==
  /\ ready' = [ready EXCEPT ![t] = TRUE]
  /\ runq' = Append(runq, t)

\* The process ends; nothing it wrote before matters any more.
abort ==
  /\ aborted' = TRUE
  /\ UNCHANGED <<memVars, chanVars, inalt, ret, schedVars>>

----------------------------------------------------------------------------
(***************************************************************************)
(* One call chanalt(a) of the running task t.  loaded, tagged and based    *)
(* are the arrays after its prologue: the caller's entries, and their      *)
(* task and xalt fields.  The three outcomes are an action each: one executable     *)
(* entry is executed at once, -1 is returned, or the task blocks.          *)
(***************************************************************************)
loaded(t, a) == [alts EXCEPT ![ArrayOf[t]] = a]
tagged(t) == [alttask EXCEPT ![ArrayOf[t]] = t]
based(t) == [xalt EXCEPT ![ArrayOf[t]] = 1]

\* The arrays with which t may call chanalt
calls(t) == AltLists[t]

CanCall(t) == running = t /\ ~aborted

executable(a) == {i \in DOMAIN a : altcanexec(a[i])}

\* altexec(&a[i]) when nobody waits on the other side of the channel
execAlone(t, a, i) ==
  /\ Queued(a[i].c, otherop(a[i].op)) = {}
  /\ altcopy(loaded(t, a), a[i].c, <<ArrayOf[t], i>>, {})
  /\ alttask' = tagged(t)
  /\ xalt' = based(t)
  /\ UNCHANGED <<queue, ready, runq, aborted>>

toDequeue_OtherOnly(t, a, other) == {other}

\* What altalldequeue(other->xalt) removes: other->xalt is the array's first
\* entry, but for the first entry itself whatever its xalt field points to.
toDequeue(t, a, other) ==
  Entries(loaded(t, a), other[1],
          IF other[2] = 1 THEN based(t)[other[1]] ELSE 1)

\* altcopy's assertion on the other's direction (an index past the array's
\* contents is at best its CHANEND entry), and altdequeue's search
execFails(t, a, i, other) ==
  \/ other[2] \notin DOMAIN loaded(t, a)[other[1]]
  \/ At(loaded(t, a), other).op # otherop(a[i].op)
  \/ \E p \in toDequeue(t, a, other) : cannotFind(loaded(t, a), p)

\* altexec(&a[i]) with the waiting entry that rand() chose
execWith(t, a, i, other) ==
  /\ ~execFails(t, a, i, other)
  /\ altcopy(loaded(t, a), a[i].c, <<ArrayOf[t], i>>, {other})
  /\ altalldequeue(loaded(t, a), toDequeue(t, a, other))
  /\ alttask' = tagged(t)
  /\ xalt' = [based(t) EXCEPT ![other[1]] = other[2]]
  /\ taskready(tagged(t)[other[1]])
  /\ UNCHANGED aborted

\* Some entry can proceed: rand() chooses which, and with whom.
AltProceed(t) ==
  /\ CanCall(t)
  /\ \E a \in calls(t) : \E i \in executable(a) :
       \/ /\ \/ execAlone(t, a, i)
             \/ \E other \in Queued(a[i].c, otherop(a[i].op)) :
                  execWith(t, a, i, other)
          /\ ret' = [ret EXCEPT ![t] = i]
          /\ UNCHANGED <<inalt, running>>
       \/ \E other \in Queued(a[i].c, otherop(a[i].op)) :
            execFails(t, a, i, other) /\ abort

\* No entry can proceed and the array ends with CHANNOBLK.
AltNoBlock(t) ==
  /\ CanCall(t) /\ t \in Pollers
  /\ \E a \in calls(t) :
       /\ executable(a) = {}
       /\ alts' = loaded(t, a)
  /\ alttask' = tagged(t)
  /\ xalt' = based(t)
  /\ ret' = [ret EXCEPT ![t] = -1]
  /\ UNCHANGED <<chanVars, inalt, schedVars, aborted>>

\* No entry can proceed and the array ends with CHANEND: the task queues all
\* of its entries and switches to the scheduler.
AltBlock(t) ==
  /\ CanCall(t)
  /\ \E a \in calls(t) :
       /\ executable(a) = {}
       /\ alts' = loaded(t, a)
       /\ altqueue(loaded(t, a), Entries(loaded(t, a), ArrayOf[t], 1))
  /\ alttask' = tagged(t)
  /\ xalt' = based(t)
  /\ inalt' = [inalt EXCEPT ![t] = TRUE]
  /\ running' = NoTask
  /\ UNCHANGED <<buf, off, nbuf, ret, ready, runq, aborted>>

\* taskyield
Yield(t) ==
  /\ CanCall(t)
  /\ taskready(t)
  /\ running' = NoTask
  /\ UNCHANGED <<memVars, chanVars, inalt, ret, aborted>>

\* taskscheduler runs the task at the head of the run queue; one that was
\* blocked in chanalt returns a[0].xalt - a from it.
Dispatch ==
  /\ running = NoTask /\ ~aborted /\ runq # <<>>
  /\ LET t == Head(runq) IN
       /\ running' = t
       /\ ready' = [ready EXCEPT ![t] = FALSE]
       /\ inalt' = [inalt EXCEPT ![t] = FALSE]
       /\ ret' = IF inalt[t] THEN [ret EXCEPT ![t] = xalt[ArrayOf[t]]] ELSE ret
  /\ runq' = Tail(runq)
  /\ UNCHANGED <<memVars, chanVars, aborted>>

\* chancreate for every channel, and taskcreate for every task in some order.
Init ==
  /\ alts = [arr \in Arrays |-> <<>>]
  /\ alttask = [arr \in Arrays |-> NoTask]
  /\ xalt = [arr \in Arrays |-> 1]
  /\ queue = [k \in Places |-> [p \in Ptr |-> 0]]
  /\ buf = [c \in Chans |-> [k \in 0..(bufsize[c] - 1) |-> NoValue]]
  /\ off = [c \in Chans |-> 0]
  /\ nbuf = [c \in Chans |-> 0]
  /\ inalt = [t \in Tasks |-> FALSE]
  /\ ret = [t \in Tasks |-> 0]
  /\ ready = [t \in Tasks |-> TRUE]
  /\ runq \in [1..Cardinality(Tasks) -> Tasks]
  /\ \A j, k \in DOMAIN runq : runq[j] = runq[k] => j = k
  /\ \A t \in Tasks : \E k \in DOMAIN runq : runq[k] = t
  /\ running = NoTask
  /\ aborted = FALSE

Next ==
  \/ Dispatch
  \/ \E t \in Tasks : AltProceed(t) \/ AltNoBlock(t) \/ AltBlock(t) \/ Yield(t)

Spec == Init /\ [][Next]_vars

----------------------------------------------------------------------------
(***************************************************************************)
(* What the library promises its tasks.                                    *)
(***************************************************************************)

\* t sleeps in chanalt and nobody has executed an entry of it yet
waiting(t) == inalt[t] /\ ~ready[t]

offered(t) == IF waiting(t) THEN alts[ArrayOf[t]] ELSE <<>>

\* Every task has an array of its own, as in chansend, chanrecv and the
\* other wrappers of chanalt.
OwnArrays == \A t, u \in Tasks : ArrayOf[t] = ArrayOf[u] => t = u

\* p is an entry of a sleeping task's array
sleepsAt(p) ==
  \E t \in Tasks :
    p[1] = ArrayOf[t] /\ waiting(t) /\ p[2] \in DOMAIN alts[p[1]]

\* The queues of the channels hold exactly the entries of the sleeping tasks,
\* each of them once: altalldequeue leaves no entry of a task behind that
\* another channel could complete a second time, and removes no other's.
QueuesMatchWaiters ==
  \A k \in Places, p \in Ptr :
    queue[k][p] = IF sleepsAt(p) /\ Home(alts, p) = k THEN 1 ELSE 0

\* The fields by which altexec finds the task to wake, and the entries to
\* dequeue, are still those the sleeping task wrote.
WaiterFields ==
  \A t \in Tasks :
    waiting(t) => alttask[ArrayOf[t]] = t /\ xalt[ArrayOf[t]] = 1

\* No wakeup is lost: no task sleeps on an operation that could proceed.  A
\* sender sleeps only on a full buffer, a receiver on an empty one, and no
\* sender and receiver of one unbuffered channel sleep at the same time.
NoLostWakeup ==
  \A t \in Tasks : \A i \in DOMAIN offered(t) :
    LET a == offered(t)[i] IN
      /\ a.op = "CHANSND" /\ bufsize[a.c] > 0 => nbuf[a.c] = bufsize[a.c]
      /\ a.op = "CHANRCV" /\ bufsize[a.c] > 0 => nbuf[a.c] = 0
      /\ bufsize[a.c] = 0 /\ a.op # "CHANNOP" =>
           \A u \in Tasks \ {t} : \A j \in DOMAIN offered(u) :
             ~(offered(u)[j].c = a.c /\ offered(u)[j].op = otherop(a.op))

\* A task is on the intrusive run queue at most once, exactly while its ready
\* flag is set, and never while it runs or sleeps: a second taskready of the
\* same task would tie the list into a loop.
ReadyOnce ==
  /\ \A j, k \in DOMAIN runq : runq[j] = runq[k] => j = k
  /\ \A t \in Tasks : ready[t] <=> \E k \in DOMAIN runq : runq[k] = t
  /\ \A t \in Tasks : running = t => ~ready[t] /\ ~inalt[t]

\* "cannot find self in altdq" and the assertions of altcopy are unreachable.
NeverAborts == ~aborted

\* The ring buffer never over- or underruns: every slot between off and
\* off + nbuf holds a sent value.
RingBuffer ==
  \A c \in Chans :
    /\ nbuf[c] <= bufsize[c]
    /\ off[c] < bufsize[c] \/ off[c] = 0
    /\ \A k \in 0..(nbuf[c] - 1) : buf[c][(off[c] + k) % bufsize[c]] \in Values

\* All of them together are inductive when every task has its own array.
IInv ==
  /\ TypeOK
  /\ QueuesMatchWaiters
  /\ WaiterFields
  /\ NoLostWakeup
  /\ ReadyOnce
  /\ NeverAborts
  /\ RingBuffer
=============================================================================
