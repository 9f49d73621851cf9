-------------------------------- MODULE Task --------------------------------
(***************************************************************************)
(* The scheduler of the coroutine library (task.c) and its sleepers        *)
(* (taskdelay, and the timers' half of fdtask, fd.c).                      *)
(*                                                                         *)
(* Only one task runs at a time, and everything it does up to its next     *)
(* taskswitch is atomic: an action is what a task does from one switch to  *)
(* the next, or one library call that does not switch.  The two intrusive  *)
(* lists, taskrunqueue and sleeping, are sequences; a task is on at most    *)
(* one of them because both use its next and prev fields (OnePlace).       *)
(*                                                                         *)
(* Times are relative to nsec(), so that the clock needs no bound:         *)
(* alarm[t] is alarmtime - nsec(), in ticks, and stays at -1 once it is     *)
(* past; the code never compares two alarm times that are both past.       *)
(***************************************************************************)
EXTENDS Integers, Sequences, FiniteSets

CONSTANTS
  Tasks,        \* the Task structs that may be allocated at the same time
  Main,         \* the task main() creates for taskmain
  FdTask,       \* the task that runs fdtask
  NoTask,
  Delays,       \* the milliseconds taskdelay is called with
  TicksPerMs,   \* the resolution of the clock
  PollCap       \* the longest epoll_wait, in milliseconds (5000)

ASSUME TaskAssumption ==
  /\ IsFiniteSet(Tasks) /\ NoTask \notin Tasks
  /\ Main \in Tasks /\ FdTask \in Tasks /\ Main # FdTask
  /\ Delays \subseteq Nat
  /\ TicksPerMs \in Nat \ {0}
  /\ PollCap \in Nat \ {0}

Forever == -1    \* epoll_wait's timeout when nobody sleeps

\* A definition with a suffix, as in tasksystem_Again, is the definition that
\* follows it with a mistake: the properties are tested against it.

VARIABLES
  pc,           \* pc[t]: what t does, or which call it is suspended in
  runq,         \* taskrunqueue
  running,      \* taskrunning, NoTask in the scheduler
  system,       \* the tasks whose system flag is set
  taskcount,    \* live tasks that keep the program alive
  alltask,      \* alltask[0 .. nalltask-1]
  slot,         \* slot[t]: t->alltaskslot, from 1
  ran,          \* ran[t]: tasknswitch - n - 1 of the taskyield t is in
  sleeping,     \* the list of sleepers
  alarm,        \* alarm[t]: t->alarmtime, less the current time
  sleepingcounted,
  startedfdtask,
  timeout,      \* what is left of fdtask's epoll_wait
  ended         \* "no", or how the process ended

schedVars == <<runq, running>>
countVars == <<system, taskcount, alltask, slot>>
sleepVars == <<sleeping, alarm, sleepingcounted, startedfdtask>>
vars == <<pc, schedVars, countVars, ran, sleepVars, timeout, ended>>

Users == Tasks \ {FdTask}
Live  == {t \in Tasks : pc[t] # "free"}
Sleepers == {t \in Tasks : pc[t] = "delay"}

TypeOK ==
  /\ pc \in [Tasks -> {"free", "start", "user", "yield", "delay", "switch",
                 "fdwait", "epoll"}]
  /\ runq \in Seq(Tasks)
  /\ running \in Tasks \cup {NoTask}
  /\ system \subseteq Tasks
  /\ taskcount \in Nat
  /\ alltask \in Seq(Tasks)
  /\ slot \in [Tasks -> Nat]
  /\ ran \in [Tasks -> Nat]
  /\ sleeping \in Seq(Tasks)
  /\ alarm \in [Tasks -> Nat \cup {-1}]
  /\ sleepingcounted \in Nat
  /\ startedfdtask \in BOOLEAN
  /\ timeout \in Nat \cup {Forever}
  /\ ended \in {"no", "exit", "stalled"}

----------------------------------------------------------------------------
\* taskcreate, tasksystem, taskyield, taskexit.

\* taskready: the tasks ts are added to the run queue in that order
addtask_AtHead(ts) == runq' = ts \o runq
addtask(ts) == runq' = runq \o ts

\* taskcreate of the tasks ts, in that order; extra counts more to keep the
\* program alive
taskcreate(ts, extra) ==
  /\ alltask' = alltask \o ts
  /\ slot' = [t \in Tasks |->
                IF \E k \in DOMAIN ts : ts[k] = t
                THEN Len(alltask) + (CHOOSE k \in DOMAIN ts : ts[k] = t)
                ELSE slot[t]]
  /\ addtask(ts)
  /\ taskcount' = taskcount + Len(ts) + extra

CanCall(t) == running = t /\ pc[t] = "user" /\ ended = "no"

Create(t) ==
  /\ CanCall(t)
  /\ \E u \in Users :
       /\ pc[u] = "free"
       /\ taskcreate(<<u>>, 0)
       /\ pc' = [pc EXCEPT ![u] = "start"]
  /\ UNCHANGED <<running, system, ran, sleepVars, timeout, ended>>

tasksystem_Again(t) ==
  /\ system' = system \cup {t}
  /\ taskcount' = taskcount - 1

tasksystem(t) ==
  /\ system' = system \cup {t}
  /\ taskcount' = IF t \in system THEN taskcount ELSE taskcount - 1

System(t) ==
  /\ CanCall(t)
  /\ tasksystem(t)
  /\ UNCHANGED <<pc, schedVars, alltask, slot, ran, sleepVars, timeout, ended>>

\* t goes behind the tasks ts on the run queue and switches to the scheduler
taskyield(t, ts) ==
  /\ addtask(ts \o <<t>>)
  /\ ran' = [ran EXCEPT ![t] = 0]
  /\ pc' = [u \in Tasks |-> IF u = t THEN "yield"
                            ELSE IF \E k \in DOMAIN ts : ts[k] = u THEN "user"
                            ELSE pc[u]]
  /\ running' = NoTask

Yield(t) ==
  /\ CanCall(t)
  /\ taskyield(t, <<>>)
  /\ UNCHANGED <<countVars, sleepVars, timeout, ended>>

\* taskswitch from chanalt, qlock, rlock, tasksleep ...
Park(t) ==
  /\ CanCall(t)
  /\ pc' = [pc EXCEPT ![t] = "switch"]
  /\ running' = NoTask
  /\ UNCHANGED <<runq, countVars, ran, sleepVars, timeout, ended>>

\* ... and the taskready that ends it
wakeable_Sleeper(u) == pc[u] \in {"switch", "delay"}
wakeable(u) == pc[u] = "switch"

Wake(t) ==
  /\ CanCall(t)
  /\ \E u \in Users :
       /\ wakeable(u)
       /\ addtask(<<u>>)
       /\ pc' = [pc EXCEPT ![u] = "user"]
  /\ UNCHANGED <<running, countVars, ran, sleepVars, timeout, ended>>

\* The last task of alltask moves to the slot of t.
freeSlot_NotMoved(t) ==
  LET last == alltask[Len(alltask)] IN
  /\ alltask' = SubSeq([alltask EXCEPT ![slot[t]] = last], 1, Len(alltask) - 1)
  /\ slot' = [slot EXCEPT ![t] = 0]

freeSlot(t) ==
  LET last == alltask[Len(alltask)] IN
  /\ alltask' = SubSeq([alltask EXCEPT ![slot[t]] = last], 1, Len(alltask) - 1)
  /\ slot' = [slot EXCEPT ![last] = slot[t], ![t] = 0]

\* taskexit, also at the end of taskstart, and the scheduler's free of the task
Exit(t) ==
  /\ CanCall(t)
  /\ freeSlot(t)
  /\ taskcount' = IF t \in system THEN taskcount ELSE taskcount - 1
  /\ system' = system \ {t}
  /\ pc' = [pc EXCEPT ![t] = "free"]
  /\ running' = NoTask
  /\ UNCHANGED <<runq, ran, sleepVars, timeout, ended>>

----------------------------------------------------------------------------
\* taskscheduler

Dispatch ==
  /\ running = NoTask /\ ended = "no" /\ taskcount # 0 /\ runq # <<>>
  /\ LET t == Head(runq) IN
       /\ running' = t
       /\ pc' = IF t = FdTask THEN pc ELSE [pc EXCEPT ![t] = "user"]
       /\ ran' = [u \in Tasks |-> IF u # t /\ pc[u] = "yield" THEN ran[u] + 1
                                  ELSE IF u = FdTask THEN ran[u]
                                  ELSE 0]
  /\ runq' = Tail(runq)
  /\ UNCHANGED <<countVars, sleepVars, timeout, ended>>

\* exit(taskexitval), or "no runnable tasks!" and exit(1)
End ==
  /\ running = NoTask /\ ended = "no"
  /\ \/ taskcount = 0 /\ ended' = "exit"
     \/ taskcount # 0 /\ runq = <<>> /\ ended' = "stalled"
  /\ UNCHANGED <<pc, schedVars, countVars, ran, sleepVars, timeout>>

----------------------------------------------------------------------------
\* fdwait and taskdelay.  Both start fdtask when it does not run yet.

startFdtask == IF startedfdtask THEN <<>> ELSE <<FdTask>>

suspend(t, where) ==
  /\ startedfdtask' = TRUE
  /\ pc' = [u \in Tasks |-> IF u = t THEN where
                            ELSE IF u = FdTask /\ ~startedfdtask THEN "start"
                            ELSE pc[u]]
  /\ running' = NoTask

\* Which descriptor t waits for, and how, is modelled in Fd.
fdwait(t) ==
  /\ CanCall(t)
  /\ taskcreate(startFdtask, 0)
  /\ suspend(t, "fdwait")
  /\ UNCHANGED <<system, ran, sleeping, alarm, sleepingcounted, timeout, ended>>

insertSleeper_AtEnd(t, when) == sleeping' = Append(sleeping, t)

\* t goes before the first sleeper that is due no earlier
insertSleeper(t, when) ==
  \E k \in 0..Len(sleeping) :
    /\ \A j \in 1..k : alarm[sleeping[j]] < when
    /\ k < Len(sleeping) => alarm[sleeping[k + 1]] >= when
    /\ sleeping' = SubSeq(sleeping, 1, k) \o <<t>>
                     \o SubSeq(sleeping, k + 1, Len(sleeping))

Delay(t) ==
  LET counted == IF t \in system THEN 0 ELSE 1
      extra   == IF counted = 1 /\ sleepingcounted = 0 THEN 1 ELSE 0
  IN /\ CanCall(t)
     /\ taskcreate(startFdtask, extra)
     /\ \E ms \in Delays :
          /\ insertSleeper(t, ms * TicksPerMs)
          /\ alarm' = [alarm EXCEPT ![t] = ms * TicksPerMs]
     /\ sleepingcounted' = sleepingcounted + counted
     /\ suspend(t, "delay")
     /\ UNCHANGED <<system, ran, timeout, ended>>

----------------------------------------------------------------------------
\* fdtask, from one taskswitch or blocking epoll_wait to the next.

FdRuns(where) == running = FdTask /\ pc[FdTask] = where /\ ended = "no"

FdStart ==
  /\ FdRuns("start")
  /\ tasksystem(FdTask)
  /\ taskyield(FdTask, <<>>)
  /\ UNCHANGED <<alltask, slot, sleepVars, timeout, ended>>

\* while(taskyield() > 0)
alone_OneOther == ran[FdTask] <= 1
alone == ran[FdTask] = 0

FdYieldAgain ==
  /\ FdRuns("yield") /\ ~alone
  /\ taskyield(FdTask, <<>>)
  /\ UNCHANGED <<countVars, sleepVars, timeout, ended>>

pollFor_NoCap ==
  LET first == alarm[Head(sleeping)] IN
  IF sleeping = <<>> \/ first > PollCap * TicksPerMs THEN Forever
  ELSE IF first <= 0 THEN 0
  ELSE (first \div TicksPerMs) * TicksPerMs

\* the milliseconds to the first alarm, rounded down
pollFor ==
  LET first == alarm[Head(sleeping)] IN
  IF sleeping = <<>> THEN Forever
  ELSE IF first <= 0 THEN 0
  ELSE IF first <= PollCap * TicksPerMs THEN (first \div TicksPerMs) * TicksPerMs
  ELSE PollCap * TicksPerMs

\* epoll_wait is called, and blocks the process for at most timeout
FdPoll ==
  /\ FdRuns("yield") /\ alone
  /\ timeout' = pollFor
  /\ pc' = [pc EXCEPT ![FdTask] = "epoll"]
  /\ UNCHANGED <<schedVars, countVars, ran, sleepVars, ended>>

\* EINTR, from a wait that blocks
FdInterrupted ==
  /\ FdRuns("epoll") /\ timeout # 0
  /\ timeout' = 0
  /\ taskyield(FdTask, <<>>)
  /\ UNCHANGED <<countVars, sleepVars, ended>>

\* epoll_wait returns: the tasks io, whose descriptors are ready, and then
\* the sleepers that are due are readied, and fdtask yields again.
FdReady(io) ==
  \E k \in 0..Len(sleeping) :
    LET due     == SubSeq(sleeping, 1, k)
        counted == Cardinality({j \in 1..k : sleeping[j] \notin system})
    IN /\ \A j \in 1..k : alarm[sleeping[j]] <= 0
       /\ k < Len(sleeping) => alarm[sleeping[k + 1]] > 0
       /\ sleeping' = SubSeq(sleeping, k + 1, Len(sleeping))
       /\ sleepingcounted' = sleepingcounted - counted
       /\ taskcount' = IF counted > 0 /\ sleepingcounted = counted
                       THEN taskcount - 1 ELSE taskcount
       /\ taskyield(FdTask, io \o due)
       /\ timeout' = 0
       /\ UNCHANGED <<system, alltask, slot, alarm, startedfdtask, ended>>

\* The orders in which epoll_wait can report the tasks ts
Orders(ts) ==
  {s \in UNION {[1..n -> ts] : n \in 0..Cardinality(ts)} :
     \A j, k \in DOMAIN s : s[j] = s[k] => j = k}

FdReturn ==
  /\ FdRuns("epoll")
  /\ \E io \in Orders({t \in Users : pc[t] = "fdwait"}) :
       /\ io # <<>> \/ timeout = 0
       /\ FdReady(io)

\* Time passes, whatever runs.
Tick ==
  /\ ended = "no"
  /\ timeout > 0 \/ \E t \in Tasks : alarm[t] > -1
  /\ alarm' = [t \in Tasks |-> IF alarm[t] > -1 THEN alarm[t] - 1 ELSE -1]
  /\ timeout' = IF timeout > 0 THEN timeout - 1 ELSE timeout
  /\ UNCHANGED <<pc, schedVars, countVars, ran, sleeping, sleepingcounted,
                 startedfdtask, ended>>

----------------------------------------------------------------------------
\* main: taskcreate(taskmainstart), then taskscheduler
Init ==
  /\ pc = [t \in Tasks |-> IF t = Main THEN "start" ELSE "free"]
  /\ runq = <<Main>>
  /\ running = NoTask
  /\ system = {}
  /\ taskcount = 1
  /\ alltask = <<Main>>
  /\ slot = [t \in Tasks |-> IF t = Main THEN 1 ELSE 0]
  /\ ran = [t \in Tasks |-> 0]
  /\ sleeping = <<>>
  /\ alarm = [t \in Tasks |-> -1]
  /\ sleepingcounted = 0
  /\ startedfdtask = FALSE
  /\ timeout = 0
  /\ ended = "no"

Call(t) ==
  Create(t) \/ System(t) \/ Yield(t) \/ Park(t) \/ Wake(t) \/ Exit(t) \/ Delay(t)
    \/ fdwait(t)

FdStep == FdStart \/ FdYieldAgain \/ FdPoll \/ FdInterrupted \/ FdReturn

Ended == ended # "no" /\ UNCHANGED vars

Next ==
  \/ Dispatch \/ End \/ Tick \/ FdStep \/ Ended
  \/ \E t \in Users : Call(t)

Spec == Init /\ [][Next]_vars

----------------------------------------------------------------------------
(***************************************************************************)
(* What the library promises its tasks.                                    *)
(***************************************************************************)

\* How often t is on the sequence s
times(t, s) == Cardinality({k \in DOMAIN s : s[k] = t})

\* Every task is in exactly one place, with the call it is suspended in: it
\* runs, or is on the run queue once, or on the sleeping list once, or was
\* switched away from by a caller that keeps it elsewhere.  Neither list ever
\* holds a task of the other (both link it through t->next and t->prev) or
\* one that was freed.
OnePlace ==
  \A t \in Tasks :
    /\ times(t, sleeping) = (IF pc[t] = "delay" THEN 1 ELSE 0)
    /\ times(t, runq) = (IF running # t /\ pc[t] \in {"start", "user", "yield"}
                         THEN 1 ELSE 0)
    /\ running = t => pc[t] \notin {"free", "delay", "switch", "fdwait"}

\* taskcount, which decides when the program is done, counts the live tasks
\* that are not system tasks, and one more while such a task sleeps: no path
\* through tasksystem, taskexit, taskdelay and fdtask counts a task twice.
CountExact ==
  LET counted == {t \in Sleepers : t \notin system} IN
  /\ sleepingcounted = Cardinality(counted)
  /\ taskcount = Cardinality(Live \ system) + (IF counted = {} THEN 0 ELSE 1)

\* alltaskslot names a task's own slot of alltask, also after the swap that
\* fills the slot of a task that exits.
SlotsMatch ==
  /\ Len(alltask) = Cardinality(Live)
  /\ \A t \in Live : slot[t] \in DOMAIN alltask /\ alltask[slot[t]] = t

\* The process ends only when it may: by itself with no non-system task left,
\* and as stalled only when all that is left is switched away for good, never
\* while a sleeper waits to be woken.
EndsOnlyWhenDone ==
  /\ ended = "exit" => Live \subseteq system
  /\ ended = "stalled" =>
       /\ Live # {} /\ Sleepers = {}
       /\ \A t \in Live : pc[t] = "switch"

\* fdtask blocks the whole process in epoll_wait only when nobody could run
\* ("we're the only one runnable", fd.c 138), and then never past the first
\* alarm by more than the clock has already gone.
PollsOnlyWhenIdle ==
  pc[FdTask] = "epoll" =>
    /\ runq = <<>>
    /\ timeout = Forever => Sleepers = {}
    /\ \A t \in Sleepers : timeout = 0 \/ timeout <= alarm[t]

\* The sleepers are in the order of their alarms, on which the early ends of
\* the loops of taskdelay and fdtask rely.
SleepersSorted ==
  \A j, k \in DOMAIN sleeping :
    j < k => alarm[sleeping[j]] <= alarm[sleeping[k]]

IInv ==
  /\ TypeOK
  /\ OnePlace
  /\ CountExact
  /\ SlotsMatch
  /\ EndsOnlyWhenDone
  /\ PollsOnlyWhenIdle
  /\ SleepersSorted

\* taskdelay gives up the CPU for at least ms milliseconds, and a return of
\* epoll_wait wakes everyone whose time has come, not only the first.
WakesTheDue ==
  [][/\ \A t \in Sleepers : pc'[t] # "delay" => alarm[t] <= 0
     /\ FdReturn => \A t \in Sleepers : pc'[t] = "delay" => alarm[t] > 0]_vars

\* The tasks that run before t does
ahead(t) ==
  {u \in Tasks : \E j, k \in DOMAIN runq : j < k /\ runq[j] = u /\ runq[k] = t}

\* taskyield: the task runs again once those that were ready have had their
\* turn; nobody, new, woken or yielding, ever overtakes it.
NoOvertaking ==
  [][\A t \in Tasks :
       (\E k \in DOMAIN runq : runq[k] = t) /\ (\E k \in DOMAIN runq' : runq'[k] = t)
         => ahead(t)' \subseteq ahead(t)]_vars

----------------------------------------------------------------------------
(***************************************************************************)
(* Fairness: the scheduler and fdtask run whenever they can, time passes,  *)
(* and every task that runs goes on to its next call of the library.       *)
(***************************************************************************)
Fairness ==
  /\ WF_vars(Dispatch) /\ WF_vars(End) /\ WF_vars(Tick)
  /\ WF_vars(FdStart) /\ WF_vars(FdYieldAgain) /\ WF_vars(FdPoll)
  /\ WF_vars(timeout = 0 /\ FdReturn)
  /\ \A t \in Users : WF_vars(Call(t))

FairSpec == Spec /\ Fairness

\* Every sleeper is woken, in a program that is idle again and again.  (While
\* some task is always ready, fdtask goes on yielding and never looks.)
SleepersWake ==
  []<>(pc[FdTask] = "epoll" \/ ended # "no") =>
    \A t \in Users : pc[t] = "delay" ~> (pc[t] # "delay" \/ ended # "no")
=============================================================================
