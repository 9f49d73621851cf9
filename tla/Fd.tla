--------------------------------- MODULE Fd ---------------------------------
(***************************************************************************)
(* Waiting for file descriptors (fd.c, the epoll half): fdwait, fdread,    *)
(* fdwrite, and what fdtask readies when epoll_wait returns.  Everything   *)
(* else of the scheduler is Task; the actions here are its actions with    *)
(* the interest list of the epoll instance and errno beside them.          *)
(*                                                                         *)
(* A registration is keyed by the descriptor that was added: fd itself, or *)
(* the duplicate <<fd, t>> that task t made of it because fd was already    *)
(* registered.  A task waits for one descriptor at a time.                 *)
(***************************************************************************)
EXTENDS Task

CONSTANTS
  Fds,       \* the descriptors
  UseCases,  \* the sets of <<t, fd, rw>>, task t reads or writes fd, considered
  NoHandle

Handles == Fds \cup (Fds \X Tasks)
Free == <<NoTask, "none">>

ASSUME FdAssumption ==
  /\ UseCases \subseteq SUBSET (Users \X Fds \X {"r", "w"})
  /\ NoHandle \notin Handles
  /\ Fds \cap (Fds \X Tasks) = {}

VARIABLES
  uses,     \* which task uses which descriptors, from the start
  reg,      \* reg[h]: the data.ptr and events epoll has for h, or Free
  handle,   \* handle[t]: what t's fdwait deletes when it is resumed
  inloop,   \* inloop[t]: the <<fd, rw>> of the fdread or fdwrite t is in
  io,       \* the <<fd, rw>> on which a transfer would not block
  eexist,   \* errno = EEXIST
  knot      \* the task at the head of the run queue whose prev is itself

fdVars == <<uses, reg, handle, inloop, io, eexist, knot>>
allVars == <<vars, fdVars>>

NotInLoop == <<NoHandle, "none">>

FdTypeOK ==
  /\ uses \in UseCases
  /\ reg \in [Handles -> {Free} \cup (Users \X {"r", "w"})]
  /\ handle \in [Tasks -> Handles \cup {NoHandle}]
  /\ inloop \in [Tasks -> {NotInLoop} \cup (Fds \X {"r", "w"})]
  /\ io \subseteq Fds \X {"r", "w"}
  /\ eexist \in BOOLEAN
  /\ knot \in Tasks \cup {NoTask}

fdOf(h) == IF h \in Fds THEN h ELSE h[1]

----------------------------------------------------------------------------
\* EPOLL_CTL_ADD of the descriptors hs, with data.ptr = t
add_ReadOnly(hs, t, rw) ==
  reg' = [h \in Handles |-> IF h \in hs THEN <<t, "r">> ELSE reg[h]]
add(hs, t, rw) ==
  reg' = [h \in Handles |-> IF h \in hs THEN <<t, rw>> ELSE reg[h]]

\* if(r < 0 || errno == EEXIST): fd is registered, or errno is from before
duped(fd, stale) == reg[fd] # Free \/ stale

added_NoDup(t, fd, stale) == {fd} \ {h \in Fds : reg[h] # Free}
added(t, fd, stale) ==
  ({fd} \ {h \in Fds : reg[h] # Free})
    \cup (IF duped(fd, stale) THEN {<<fd, t>>} ELSE {})

\* fdwait up to its taskswitch, with errno as its caller left it
register(t, fd, rw, stale) ==
  /\ fdwait(t)
  /\ add(added(t, fd, stale), t, rw)
  /\ handle' = [handle EXCEPT ![t] = IF duped(fd, stale) THEN <<fd, t>> ELSE fd]
  /\ eexist' = duped(fd, stale)
  /\ UNCHANGED <<uses, io, knot>>

\* EPOLL_CTL_DEL, and close of the duplicate, when fdwait is resumed
delete_Not(t) ==
  /\ handle' = [handle EXCEPT ![t] = NoHandle]
  /\ UNCHANGED reg
delete(t) ==
  /\ handle' = [handle EXCEPT ![t] = NoHandle]
  /\ reg' = [h \in Handles |-> IF h = handle[t] THEN Free ELSE reg[h]]

\* fdwait itself, as netaccept and netdial call it
FdWait(t) ==
  /\ inloop[t] = NotInLoop
  /\ \E u \in uses : u[1] = t /\ register(t, u[2], u[3], eexist)
  /\ UNCHANGED inloop

\* What t may transfer: what its loop is for, or anything when it starts one
Transfers(t) ==
  IF inloop[t] # NotInLoop THEN {inloop[t]}
  ELSE {f \in Fds \X {"r", "w"} : <<t, f[1], f[2]>> \in uses}

\* read, write: EAGAIN, which replaces errno, and fdwait
Block(t) ==
  \E f \in Transfers(t) \ io :
    /\ register(t, f[1], f[2], FALSE)
    /\ inloop' = [inloop EXCEPT ![t] = f]

\* read, write: some bytes, after which the descriptor may block; fdwrite
\* goes on when they were not all
Transfer(t) ==
  /\ CanCall(t)
  /\ \E f \in Transfers(t) \cap io :
       /\ io' \in {io, io \ {f}}
       /\ \/ inloop' = [inloop EXCEPT ![t] = NotInLoop]
          \/ f[2] = "w" /\ inloop' = [inloop EXCEPT ![t] = f]
  /\ UNCHANGED <<vars, uses, reg, handle, eexist, knot>>

\* The scheduler resumes a task; its fdwait deletes what it registered last.
\* deltask does not unlink a task whose prev is itself: it stays the head.
Resume ==
  /\ IF knot = NoTask THEN Dispatch
     ELSE /\ running = NoTask /\ ended = "no" /\ taskcount # 0
          /\ running' = knot
          /\ pc' = [pc EXCEPT ![knot] = "user"]
          /\ UNCHANGED <<runq, countVars, ran, sleepVars, timeout, ended>>
  /\ delete(Head(runq))
  /\ UNCHANGED <<uses, inloop, io, eexist, knot>>

\* What epoll_wait reports
events == {h \in Handles : reg[h] # Free /\ <<fdOf(h), reg[h][2]>> \in io}

Waits(t) == pc[t] \in {"fdwait", "switch"}

\* Adding a task to a list it is on damages the list; except in the case of
\* a knot, what follows is not modelled.
Corrupt ==
  /\ ended' = "corrupt"
  /\ UNCHANGED <<pc, schedVars, countVars, ran, sleepVars, timeout, fdVars>>

\* epoll_wait returns the events in some order, and fdtask readies the task of
\* each: once, or twice, or when it does not wait for anything.
FdEvents ==
  /\ FdRuns("epoll")
  /\ timeout = 0 \/ events # {}
  /\ \E s \in Orders(events) :
       LET woken == [k \in DOMAIN s |-> reg[s[k]][1]]
           From(i) == SubSeq(woken, i, Len(s))
           Distinct(ts) == \A j, k \in DOMAIN ts : ts[j] = ts[k] => j = k
           Fine(ts) == Distinct(ts) /\ \A k \in DOMAIN ts : Waits(ts[k])
           first == IF Len(s) > 1 /\ woken[1] = woken[2] THEN 2 ELSE 1
       IN /\ Len(s) = Cardinality(events)
          /\ IF Fine(From(first))
             THEN /\ FdReady(From(first))
                  /\ knot' = IF first = 2 THEN woken[1] ELSE NoTask
                  /\ UNCHANGED <<uses, reg, handle, inloop, io, eexist>>
             ELSE Corrupt

\* errno = 0
FdErrno ==
  /\ FdPoll
  /\ eexist' = FALSE
  /\ UNCHANGED <<uses, reg, handle, inloop, io, knot>>

\* The other end of a connection sends, reads or connects.
Arrive ==
  /\ ended = "no"
  /\ \E u \in uses : io' = io \cup {<<u[2], u[3]>>}
  /\ UNCHANGED <<vars, uses, reg, handle, inloop, eexist, knot>>

FdInit ==
  /\ Init
  /\ uses \in UseCases
  /\ reg = [h \in Handles |-> Free]
  /\ handle = [t \in Tasks |-> NoHandle]
  /\ inloop = [t \in Tasks |-> NotInLoop]
  /\ io = {}
  /\ eexist = FALSE
  /\ knot = NoTask

\* The calls that put the caller on a list, or free it, find it on one when it
\* is still the head of the run queue.
OtherCall(t) ==
  /\ inloop[t] = NotInLoop
  /\ \/ (Create(t) \/ System(t) \/ Park(t) \/ Wake(t)) /\ UNCHANGED fdVars
     \/ knot # t /\ (Yield(t) \/ Exit(t) \/ Delay(t)) /\ UNCHANGED fdVars
     \/ knot = t /\ CanCall(t) /\ Corrupt

FdCall(t) == FdWait(t) \/ Block(t) \/ Transfer(t) \/ OtherCall(t)

FdNext ==
  \/ Resume \/ FdErrno \/ FdEvents \/ Arrive
  \/ (End \/ Tick \/ FdStart \/ FdYieldAgain) /\ UNCHANGED fdVars
  \/ events = {} /\ FdInterrupted /\ UNCHANGED fdVars
  \/ Ended /\ UNCHANGED fdVars
  \/ \E t \in Users : FdCall(t)

FdSpec == FdInit /\ [][FdNext]_allVars

----------------------------------------------------------------------------
\* No descriptor is used by two tasks: fdwait never meets EEXIST.
OwnDescriptors == \A u, v \in uses : u[2] = v[2] => u[1] = v[1]

\* When no two tasks use one descriptor, epoll holds exactly one registration
\* for every task that waits in fdwait or is on its way out of it, the one that
\* its fdwait is going to delete, and none for anybody else.
RegistrationsMatchWaiters ==
  OwnDescriptors =>
    \A h \in Handles, t \in Users :
      reg[h][1] = t <=> handle[t] = h

\* Whoever shares descriptors with whom: a task that waits in fdwait has a
\* registration of its own, for the descriptor and the direction it waits
\* for, which nobody else's fdwait deletes.
WaitersRegistered ==
  \A t \in Users :
    pc[t] = "fdwait" =>
      /\ reg[handle[t]][1] = t
      /\ inloop[t] # NotInLoop => <<fdOf(handle[t]), reg[handle[t]][2]>> = inloop[t]

wokenByItsDescriptor ==
  \A t \in Users :
    running \in {FdTask, NoTask} /\ Waits(t) /\ pc'[t] = "user" =>
      /\ pc[t] = "fdwait"
      /\ <<fdOf(handle[t]), reg[handle[t]][2]>> \in io

\* fdwait "puts task to sleep while waiting for I/O to be possible on fd"
\* (README 117): fdtask and the scheduler resume a task, other than a sleeper,
\* only out of its fdwait and only when the descriptor will not block it.
WokenByItsDescriptor == [][wokenByItsDescriptor]_allVars

\* That is so when no two tasks use one descriptor.
OwnersWokenByTheirs == [][OwnDescriptors => wokenByItsDescriptor]_allVars

\* With the descriptors beside it, every step is still one of the scheduler
\* that Task describes: fdtask readies a task at most once, and only one that
\* waits in fdwait.
ImplementsTask == Init /\ [][OwnDescriptors => [Next]_vars]_allVars

\* Fairness of the scheduler, and of every task to go on.
FdFairness ==
  /\ WF_allVars(Resume) /\ WF_allVars(FdErrno) /\ WF_allVars(FdEvents)
  /\ WF_allVars((FdStart \/ FdYieldAgain) /\ UNCHANGED fdVars)
  /\ WF_allVars(Tick /\ UNCHANGED fdVars)
  /\ \A t \in Users : WF_allVars(FdCall(t))

FairFdSpec == FdSpec /\ FdFairness

\* A task that fdread or fdwrite has put to sleep is woken when it can go on,
\* in a program that is idle again and again.
ReadyIsWoken ==
  OwnDescriptors /\ []<>(pc[FdTask] = "epoll" \/ ended # "no") =>
    \A t \in Users :
      (pc[t] = "fdwait" /\ inloop[t] \in io) ~> (pc[t] # "fdwait" \/ ended # "no")
=============================================================================
