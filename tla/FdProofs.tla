------------------------------ MODULE FdProofs ------------------------------
(***************************************************************************)
(* Proofs about Fd, for any tasks and descriptors of which no two tasks    *)
(* use the same: epoll holds exactly what the waiting tasks are going to   *)
(* delete, fdtask readies a task only for its own descriptor, and every    *)
(* step is one of Task.  The last part needs no such condition: a task in   *)
(* fdwait keeps its registration however descriptors are shared.           *)
(***************************************************************************)
EXTENDS Fd, TaskProofs

(***************************************************************************)
(* What is registered and why.  A task has a handle from the time its      *)
(* fdwait switches until it is resumed; errno is never EEXIST, and no task  *)
(* is tied to the head of the run queue.                                   *)
(***************************************************************************)
Uses == uses \subseteq Users \X Fds \X {"r", "w"}

Loops ==
  \A t \in Users :
    inloop[t] # NotInLoop =>
      inloop[t] \in Fds \X {"r", "w"} /\ <<t, inloop[t][1], inloop[t][2]>> \in uses

\* t waits in fdwait, or was readied and has not run since.
InFdwait(t) == pc[t] = "fdwait" \/ (pc[t] = "user" /\ running # t)

Regs ==
  /\ handle \in [Tasks -> Fds \cup {NoHandle}] /\ handle[FdTask] = NoHandle
  /\ reg \in [Handles -> {Free} \cup (Users \X {"r", "w"})]
  /\ \A h \in Handles, t \in Users : reg[h][1] = t <=> handle[t] = h
  /\ \A t \in Users :
       handle[t] # NoHandle =>
         /\ InFdwait(t)
         /\ \E rw \in {"r", "w"} : <<t, handle[t], rw>> \in uses
  /\ \A t \in Users : pc[t] = "fdwait" => handle[t] # NoHandle
  /\ inloop \in [Tasks -> {NotInLoop} \cup (Fds \X {"r", "w"})]
  /\ \A t \in Users :
       pc[t] = "fdwait" /\ inloop[t] # NotInLoop =>
         <<handle[t], reg[handle[t]][2]>> = inloop[t]

Calm == eexist = FALSE /\ knot = NoTask

Owned == Uses /\ Loops /\ Regs /\ Calm

\* The registrations are left alone, and so is every task that has one.
LEMMA QuietOwned ==
  ASSUME Owned, UNCHANGED fdVars,
         \A t \in Users : handle[t] # NoHandle =>
           (InFdwait(t))' /\ (pc'[t] = "fdwait" => pc[t] = "fdwait"),
         \A t \in Users : pc'[t] = "fdwait" => pc[t] = "fdwait"
  PROVE  Owned'
<1>1. UNCHANGED <<uses, reg, handle, inloop, io, eexist, knot>>
  BY DEF fdVars
<1>2. Uses' /\ Loops' /\ Calm'
  BY <1>1 DEF Owned, Uses, Loops, Calm
<1>3. Regs'
  BY <1>1 DEF Owned, Regs
<1> QED BY <1>2, <1>3 DEF Owned

\* fdwait of a descriptor of t's
LEMMA RegisterOwned ==
  ASSUME OwnDescriptors, Roles, Owned, NEW t \in Users, NEW fd \in Fds, NEW rw \in {"r", "w"},
         <<t, fd, rw>> \in uses, register(t, fd, rw, FALSE),
         \/ inloop[t] = NotInLoop /\ UNCHANGED inloop
         \/ inloop' = [inloop EXCEPT ![t] = <<fd, rw>>]
  PROVE  Owned' /\ fdwait(t)
<1>1. /\ fdwait(t) /\ add(added(t, fd, FALSE), t, rw)
      /\ handle' = [handle EXCEPT ![t] = IF duped(fd, FALSE) THEN <<fd, t>> ELSE fd]
      /\ eexist' = duped(fd, FALSE)
      /\ UNCHANGED <<uses, io, knot>>
  BY DEF register
<1>2. /\ running = t /\ pc[t] = "user" /\ running' = NoTask /\ pc'[t] = "fdwait"
      /\ \A u \in Users : u # t => pc'[u] = pc[u]
  BY <1>1 DEF fdwait, CanCall, suspend, Users
<1>3. t \in Tasks /\ t # FdTask /\ FdTask \in Tasks /\ NoTask \notin Tasks /\ fd \in Handles
      /\ NoHandle \notin Handles /\ Fds \subseteq Handles
  BY TaskAssumption, FdAssumption DEF Users, Handles
<1>4. handle[t] = NoHandle
  BY <1>2 DEF Owned, Regs, InFdwait
<1>5. reg[fd] = Free
  <2>1. SUFFICES ASSUME reg[fd] # Free PROVE FALSE
    OBVIOUS
  <2>2. reg[fd] \in Users \X {"r", "w"}
    BY <1>3, <2>1 DEF Owned, Regs
  <2>3. PICK u \in Users : reg[fd][1] = u
    BY <2>2
  <2>4. handle[u] = fd
    BY <1>3, <2>3 DEF Owned, Regs
  <2>5. PICK r \in {"r", "w"} : <<u, fd, r>> \in uses
    BY <1>3, <2>4 DEF Owned, Regs
  <2>6. u = t
    BY <2>5 DEF OwnDescriptors
  <2> QED BY <1>3, <1>4, <2>4, <2>6
<1>6. ~duped(fd, FALSE) /\ added(t, fd, FALSE) = {fd}
  BY <1>5 DEF duped, added
<1>61. eexist' = FALSE
  <2>1. duped(fd, FALSE) \in BOOLEAN
    BY DEF duped
  <2> QED BY <1>1, <1>6, <2>1
<1>7. /\ handle' = [handle EXCEPT ![t] = fd]
      /\ reg' = [h \in Handles |-> IF h = fd THEN <<t, rw>> ELSE reg[h]]
  BY <1>1, <1>6 DEF add
<1>8. Uses' /\ Calm'
  BY <1>1, <1>61 DEF Owned, Uses, Calm
<1>9. Loops' /\ inloop' \in [Tasks -> {NotInLoop} \cup (Fds \X {"r", "w"})]
  <2>1. inloop \in [Tasks -> {NotInLoop} \cup (Fds \X {"r", "w"})]
    BY DEF Owned, Regs
  <2>2. CASE inloop' = inloop
    BY <1>1, <2>1, <2>2 DEF Owned, Loops
  <2>3. CASE inloop' = [inloop EXCEPT ![t] = <<fd, rw>>]
    BY <1>1, <1>3, <2>1, <2>3 DEF Owned, Loops, Users
  <2> QED BY <2>2, <2>3
<1>10. Regs'
  <2>1. handle' \in [Tasks -> Fds \cup {NoHandle}] /\ handle'[FdTask] = NoHandle
        /\ reg' \in [Handles -> {Free} \cup (Users \X {"r", "w"})]
        /\ handle'[t] = fd /\ reg'[fd] = <<t, rw>>
        /\ \A u \in Users : u # t => handle'[u] = handle[u]
        /\ \A h \in Handles : h # fd => reg'[h] = reg[h]
    BY <1>3, <1>7 DEF Owned, Regs, Users
  <2>2. \A u \in Users : u # t => handle[u] # fd
    BY <1>3, <1>5 DEF Owned, Regs, Free, Users
  <2>3. \A h \in Handles, u \in Users : reg'[h][1] = u <=> handle'[u] = h
    <3>1. ASSUME NEW h \in Handles, NEW u \in Users PROVE reg'[h][1] = u <=> handle'[u] = h
      <4>1. CASE h = fd
        BY <2>1, <2>2, <4>1
      <4>2. CASE h # fd /\ u = t
        <5>1. reg[h][1] # t
          BY <1>3, <1>4 DEF Owned, Regs
        <5>2. reg'[h] = reg[h]
          BY <1>7, <4>2
        <5>3. handle'[u] = fd
          BY <2>1, <4>2
        <5> QED BY <4>2, <5>1, <5>2, <5>3, Zenon
      <4>3. CASE h # fd /\ u # t
        BY <2>1, <4>3 DEF Owned, Regs
      <4> QED BY <4>1, <4>2, <4>3
    <3> QED BY <3>1
  <2>4. \A u \in Users :
          handle'[u] # NoHandle =>
            (InFdwait(u))' /\ \E r \in {"r", "w"} : <<u, handle'[u], r>> \in uses'
    <3>1. ASSUME NEW u \in Users, handle'[u] # NoHandle
          PROVE (InFdwait(u))' /\ \E r \in {"r", "w"} : <<u, handle'[u], r>> \in uses'
      <4>1. CASE u = t
        <5>1. (InFdwait(u))'
          BY <1>2, <4>1 DEF InFdwait
        <5>2. <<u, handle'[u], rw>> \in uses'
          <6>1. uses' = uses
            BY <1>1
          <6>2. handle'[u] = fd
            BY <2>1, <4>1
          <6> QED BY <4>1, <6>1, <6>2
        <5> QED BY <5>1, <5>2
      <4>2. CASE u # t
        BY <1>1, <1>2, <1>3, <2>1, <3>1, <4>2 DEF InFdwait, Owned, Regs, Users
      <4> QED BY <4>1, <4>2
    <3> QED BY <3>1
  <2>5. \A u \in Users : pc'[u] = "fdwait" => handle'[u] # NoHandle
    BY <1>2, <1>3, <2>1 DEF Owned, Regs
  <2>6. \A u \in Users : pc'[u] = "fdwait" /\ inloop'[u] # NotInLoop =>
                           <<handle'[u], reg'[handle'[u]][2]>> = inloop'[u]
    <3>1. ASSUME NEW u \in Users, pc'[u] = "fdwait", inloop'[u] # NotInLoop
          PROVE <<handle'[u], reg'[handle'[u]][2]>> = inloop'[u]
      <4>0. inloop \in [Tasks -> {NotInLoop} \cup (Fds \X {"r", "w"})] /\ u \in Tasks
        BY DEF Owned, Regs, Users
      <4>1. CASE u = t
        BY <1>3, <2>1, <3>1, <4>0, <4>1
      <4>2. CASE u # t
        <5>1. inloop'[u] = inloop[u] /\ pc[u] = "fdwait"
          BY <1>2, <1>3, <3>1, <4>0, <4>2
        <5>2. handle[u] \in Handles /\ handle[u] # fd
          BY <1>3, <2>2, <4>0, <4>2, <5>1 DEF Owned, Regs
        <5> QED BY <2>1, <3>1, <4>2, <5>1, <5>2 DEF Owned, Regs
      <4> QED BY <4>1, <4>2
    <3> QED BY <3>1
  <2> QED BY <1>9, <2>1, <2>3, <2>4, <2>5, <2>6 DEF Regs
<1> QED BY <1>1, <1>8, <1>9, <1>10 DEF Owned

\* The scheduler resumes a task, whose fdwait deletes its registration.
LEMMA ResumeOwned ==
  ASSUME Roles, Places, Owned, Resume PROVE Owned' /\ Dispatch
<1> DEFINE t == Head(runq)
<1>1. Dispatch /\ delete(t) /\ UNCHANGED <<uses, inloop, io, eexist, knot>>
  BY DEF Resume, Owned, Calm
<1>2. FdTask \in Tasks /\ NoTask \notin Tasks /\ NoHandle \notin Handles /\ Fds \subseteq Handles
      /\ Users \subseteq Tasks
  BY TaskAssumption, FdAssumption DEF Users, Handles
<1>3. t \in Ready
  <2>1. Lists(runq, Ready) /\ runq # <<>>
    BY <1>1 DEF Dispatch, Places
  <2>2. Len(runq) >= 1 /\ t = runq[1]
    BY <2>1, EmptySeq DEF Lists
  <2> QED BY <2>1, <2>2, ListsType
<1>4. /\ t \in Tasks /\ running' = t
      /\ pc' = IF t = FdTask THEN pc ELSE [pc EXCEPT ![t] = "user"]
  BY <1>1, <1>3 DEF Ready, Dispatch
<1> HIDE DEF t
<1>5. /\ \A u \in Users : u # t => pc'[u] = pc[u] /\ running' # u
      /\ t \in Users => pc'[t] = "user"
  BY <1>2, <1>4 DEF Roles, Users
<1>6. /\ handle' = [handle EXCEPT ![t] = NoHandle]
      /\ reg' = [h \in Handles |-> IF h = handle[t] THEN Free ELSE reg[h]]
  BY <1>1 DEF delete
<1>7. /\ handle' \in [Tasks -> Fds \cup {NoHandle}] /\ handle'[FdTask] = NoHandle
      /\ handle'[t] = NoHandle
      /\ \A u \in Users : u # t => handle'[u] = handle[u]
  BY <1>2, <1>4, <1>6 DEF Owned, Regs
<1>8. reg' \in [Handles -> {Free} \cup (Users \X {"r", "w"})]
  BY <1>6 DEF Owned, Regs
<1>9. \A h \in Handles, u \in Users : reg'[h][1] = u <=> handle'[u] = h
  <2>1. ASSUME NEW h \in Handles, NEW u \in Users PROVE reg'[h][1] = u <=> handle'[u] = h
    <3>1. reg[h][1] = u <=> handle[u] = h
      BY DEF Owned, Regs
    <3>2. t \in Users => (reg[h][1] = t <=> handle[t] = h)
      BY DEF Owned, Regs
    <3>3. t \notin Users => handle[t] = NoHandle
      BY <1>4 DEF Owned, Regs, Users
    <3>4. CASE h = handle[t]
      <4>1. reg'[h] = Free
        BY <1>6, <3>4
      <4>2. reg'[h][1] # u
        BY <1>2, <4>1 DEF Free
      <4>3. reg[h][1] = t /\ t \in Users
        BY <1>2, <3>2, <3>3, <3>4
      <4>4. handle'[u] # h
        BY <1>2, <1>7, <3>1, <4>3
      <4> QED BY <4>2, <4>4
    <3>5. CASE h # handle[t]
      <4>1. reg'[h] = reg[h]
        BY <1>6, <3>5
      <4>2. CASE u = t
        BY <1>2, <1>7, <3>1, <3>5, <4>1, <4>2, Zenon
      <4>3. CASE u # t
        BY <1>7, <3>1, <4>1, <4>3, Zenon
      <4> QED BY <4>2, <4>3
    <3> QED BY <3>4, <3>5
  <2> QED BY <2>1
<1>10. \A u \in Users :
         handle'[u] # NoHandle =>
           (InFdwait(u))' /\ \E rw \in {"r", "w"} : <<u, handle'[u], rw>> \in uses'
  BY <1>1, <1>5, <1>7 DEF Owned, Regs, InFdwait
<1>11. \A u \in Users : pc'[u] = "fdwait" => handle'[u] # NoHandle
  BY <1>5, <1>7 DEF Owned, Regs
<1>12. \A u \in Users : pc'[u] = "fdwait" /\ inloop'[u] # NotInLoop =>
                          <<handle'[u], reg'[handle'[u]][2]>> = inloop'[u]
  <2>1. ASSUME NEW u \in Users, pc'[u] = "fdwait", inloop'[u] # NotInLoop
        PROVE  <<handle'[u], reg'[handle'[u]][2]>> = inloop'[u]
    <3>1. u # t /\ pc[u] = "fdwait" /\ inloop'[u] = inloop[u] /\ handle'[u] = handle[u]
      BY <1>1, <1>5, <1>7, <2>1
    <3>2. handle[u] \in Handles
      BY <1>2, <3>1 DEF Owned, Regs
    <3>3. reg[handle[u]][1] = u
      BY <3>2 DEF Owned, Regs
    <3>4. handle[u] # handle[t]
      <4>1. CASE t \in Users
        <5>1. handle[u] = handle[t] => reg[handle[u]][1] = t
          BY <3>2, <4>1 DEF Owned, Regs
        <5> QED BY <3>1, <3>3, <5>1
      <4>2. CASE t \notin Users
        BY <1>2, <1>4, <3>2, <4>2 DEF Owned, Regs, Users
      <4> QED BY <4>1, <4>2
    <3>5. reg'[handle[u]] = reg[handle[u]]
      BY <1>6, <3>2, <3>4
    <3>6. <<handle[u], reg[handle[u]][2]>> = inloop[u]
      BY <2>1, <3>1 DEF Owned, Regs
    <3> QED BY <3>1, <3>5, <3>6
  <2> QED BY <2>1
<1>13. Uses' /\ Loops' /\ Calm'
  BY <1>1 DEF Owned, Uses, Loops, Calm
<1>14. Regs'
  BY <1>1, <1>7, <1>8, <1>9, <1>10, <1>11, <1>12 DEF Owned, Regs
<1> QED BY <1>1, <1>13, <1>14 DEF Owned

\* A transfer, or the other end of the connection
LEMMA TransferOwned ==
  ASSUME Owned, NEW t \in Users, Transfer(t) PROVE Owned' /\ UNCHANGED vars
<1>1. PICK f \in Transfers(t) \cap io :
        \/ inloop' = [inloop EXCEPT ![t] = NotInLoop]
        \/ inloop' = [inloop EXCEPT ![t] = f]
  BY DEF Transfer
<1>20. UNCHANGED vars
  BY DEF Transfer
<1>2. /\ CanCall(t)
      /\ uses' = uses /\ reg' = reg /\ handle' = handle /\ eexist' = eexist /\ knot' = knot
      /\ pc' = pc /\ running' = running
  BY DEF Transfer, vars, schedVars
<1>3. f \in Fds \X {"r", "w"} /\ <<t, f[1], f[2]>> \in uses
  BY DEF Transfers, Owned, Loops
<1>4. inloop \in [Tasks -> {NotInLoop} \cup (Fds \X {"r", "w"})] /\ t \in Tasks
  BY DEF Owned, Regs, Users
<1>5. /\ inloop' \in [Tasks -> {NotInLoop} \cup (Fds \X {"r", "w"})]
      /\ \A u \in Users : u # t => inloop'[u] = inloop[u]
      /\ inloop'[t] # NotInLoop => inloop'[t] = f
  BY <1>1, <1>3, <1>4 DEF Users
<1>6. Uses' /\ Calm'
  BY <1>2 DEF Owned, Uses, Calm
<1>7. Loops'
  <2>1. ASSUME NEW u \in Users, inloop'[u] # NotInLoop
        PROVE  inloop'[u] \in Fds \X {"r", "w"} /\ <<u, inloop'[u][1], inloop'[u][2]>> \in uses'
    <3>1. CASE u = t
      <4>1. inloop'[u] = f /\ uses' = uses
        BY <1>2, <1>5, <2>1, <3>1
      <4> QED BY <1>3, <3>1, <4>1
    <3>2. CASE u # t
      <4>1. inloop'[u] = inloop[u] /\ uses' = uses
        BY <1>2, <1>5, <3>2
      <4> QED BY <2>1, <4>1 DEF Owned, Loops
    <3> QED BY <3>1, <3>2
  <2> QED BY <2>1 DEF Loops
<1>8. pc[t] = "user"
  BY <1>2 DEF CanCall
<1>9. Regs'
  <2>1. /\ handle' = handle /\ reg' = reg /\ uses' = uses /\ pc' = pc /\ running' = running
        /\ inloop' \in [Tasks -> {NotInLoop} \cup (Fds \X {"r", "w"})]
        /\ \A u \in Users : u # t => inloop'[u] = inloop[u]
    BY <1>2, <1>5
  <2>2. \A u \in Users : pc'[u] = "fdwait" /\ inloop'[u] # NotInLoop =>
                          <<handle'[u], reg'[handle'[u]][2]>> = inloop'[u]
    <3>1. ASSUME NEW u \in Users, pc'[u] = "fdwait", inloop'[u] # NotInLoop
          PROVE  <<handle[u], reg[handle[u]][2]>> = inloop[u] /\ inloop'[u] = inloop[u]
      <4>1. pc[u] = "fdwait" /\ inloop'[u] = inloop[u]
        BY <1>8, <2>1, <3>1
      <4> QED BY <3>1, <4>1 DEF Owned, Regs
    <3> QED BY <2>1, <3>1
  <2>3. \A u \in Users : InFdwait(u)' <=> InFdwait(u)
    BY <2>1 DEF InFdwait
  <2> QED BY <2>1, <2>2, <2>3 DEF Owned, Regs
<1> QED BY <1>20, <1>6, <1>7, <1>9 DEF Owned

----------------------------------------------------------------------------
(***************************************************************************)
(* What epoll_wait reports.                                                *)
(***************************************************************************)
waiting == {t \in Users : pc[t] = "fdwait"}

\* While fdtask is in epoll_wait, every event is for one task, which waits for
\* it in fdwait, and no task has two.
LEMMA EventsAreWaiters ==
  ASSUME Roles, Places, Idle, Owned, FdRuns("epoll")
  PROVE  /\ \A u \in Users : handle[u] # NoHandle => u \in waiting
         /\ \A h \in events : reg[h][1] \in waiting
         /\ \A g, h \in events : reg[g][1] = reg[h][1] => g = h
         /\ IsFiniteSet(events) /\ IsFiniteSet(waiting)
<1>1. runq = <<>> /\ running = FdTask /\ FdTask \in Tasks /\ NoHandle \notin Handles
      /\ Users \subseteq Tasks /\ NoTask \notin Tasks
  BY TaskAssumption, FdAssumption DEF FdRuns, Idle, Users
<1>2. Ready = {}
  BY <1>1, EmptySeq DEF Places, Lists
<1>3. \A u \in Users : handle[u] # NoHandle => u \in waiting
  <2>1. ASSUME NEW u \in Users, handle[u] # NoHandle PROVE pc[u] = "fdwait"
    <3>1. InFdwait(u) /\ u # running
      BY <1>1, <2>1 DEF Owned, Regs, Users
    <3>2. u \notin Ready
      BY <1>2
    <3> QED BY <1>1, <3>1, <3>2 DEF InFdwait, Ready
  <2> QED BY <2>1 DEF waiting
<1>4. \A h \in events : h \in Handles /\ reg[h][1] \in Users /\ handle[reg[h][1]] = h
  <2>1. ASSUME NEW h \in events PROVE h \in Handles /\ reg[h][1] \in Users /\ handle[reg[h][1]] = h
    <3>1. h \in Handles /\ reg[h] # Free
      BY DEF events
    <3>2. reg[h] \in Users \X {"r", "w"}
      BY <3>1 DEF Owned, Regs
    <3>3. reg[h][1] \in Users
      BY <3>2
    <3> QED BY <3>1, <3>3 DEF Owned, Regs
  <2> QED BY <2>1
<1>5. \A h \in events : reg[h][1] \in waiting
  BY <1>1, <1>3, <1>4
<1>6. \A g, h \in events : reg[g][1] = reg[h][1] => g = h
  BY <1>4
<1>7. IsFiniteSet(Tasks) /\ IsFiniteSet(waiting)
  BY TaskAssumption, FS_Subset DEF waiting, Users
<1>8. IsFiniteSet(events)
  <2> DEFINE f == [h \in events |-> reg[h][1]]
  <2>1. f \in [events -> Tasks] /\ \A g, h \in events : f[g] = f[h] => g = h
    BY <1>1, <1>4, <1>6
  <2>2. f \in Injection(events, Tasks)
    BY <2>1 DEF Injection, IsInjective
  <2> QED BY <1>7, <2>2, FS_Injection
<1> QED BY <1>3, <1>5, <1>6, <1>7, <1>8

\* So fdtask readies each of them once, as Task's fdtask may.
LEMMA EventsOwned ==
  ASSUME Roles, Places, Idle, Owned, FdEvents
  PROVE  /\ FdReturn /\ UNCHANGED fdVars
         /\ \A u \in Users : pc'[u] # pc[u] => pc[u] = "delay" \/ \E h \in events : reg[h][1] = u
<1> DEFINE woken(s) == [k \in DOMAIN s |-> reg[s[k]][1]]
           From(s, i) == SubSeq(woken(s), i, Len(s))
           Distinct(ts) == \A j, k \in DOMAIN ts : ts[j] = ts[k] => j = k
           Fine(ts) == Distinct(ts) /\ \A k \in DOMAIN ts : Waits(ts[k])
           first(s) == IF Len(s) > 1 /\ woken(s)[1] = woken(s)[2] THEN 2 ELSE 1
<1>1. PICK s \in Orders(events) :
        /\ Len(s) = Cardinality(events)
        /\ IF Fine(From(s, first(s)))
           THEN /\ FdReady(From(s, first(s)))
                /\ knot' = IF first(s) = 2 THEN woken(s)[1] ELSE NoTask
                /\ UNCHANGED <<uses, reg, handle, inloop, io, eexist>>
           ELSE Corrupt
  BY DEF FdEvents
<1>2. FdRuns("epoll") /\ (timeout = 0 \/ events # {})
  BY DEF FdEvents
<1>3. /\ \A h \in events : reg[h][1] \in waiting
      /\ \A g, h \in events : reg[g][1] = reg[h][1] => g = h
      /\ IsFiniteSet(events) /\ IsFiniteSet(waiting)
  BY <1>2, EventsAreWaiters
<1>4. PICK n \in 0..Cardinality(events) : s \in [1..n -> events]
  BY DEF Orders
<1>5. /\ Cardinality(events) \in Nat /\ Cardinality(waiting) \in Nat
      /\ Cardinality(events) = 0 <=> events = {}
  BY <1>3, FS_CardinalityType, FS_EmptySet
<1>6. n \in Nat /\ s \in Seq(events) /\ Len(s) = n /\ DOMAIN s = 1..n
      /\ n = Cardinality(events)
  BY <1>1, <1>4, <1>5
<1>7. \A j, k \in 1..n : s[j] = s[k] => j = k
  BY <1>6 DEF Orders
<1> DEFINE w == woken(s)
<1>8. /\ w \in [1..n -> waiting] /\ w \in Seq(waiting) /\ Len(w) = n /\ DOMAIN w = 1..n
      /\ \A j, k \in 1..n : w[j] = w[k] => j = k
  <2>1. \A k \in 1..n : s[k] \in events /\ w[k] = reg[s[k]][1]
    BY <1>4, <1>6
  <2>2. w \in [1..n -> waiting]
    BY <1>3, <1>6, <2>1
  <2>3. \A j, k \in 1..n : w[j] = w[k] => j = k
    BY <1>3, <1>7, <2>1
  <2> QED BY <1>6, <2>2, <2>3
<1> HIDE DEF w
<1>9. first(s) = 1
  BY <1>6, <1>8 DEF w
<1>10. From(s, 1) = w
  BY <1>6, <1>8 DEF w
<1>11. Fine(w)
  BY <1>8 DEF Waits, waiting
<1>12. FdReady(w) /\ knot' = NoTask /\ UNCHANGED <<uses, reg, handle, inloop, io, eexist>>
  <2> HIDE DEF Fine, From, first
  <2>1. Fine(From(s, first(s))) /\ From(s, first(s)) = w /\ first(s) # 2
    BY <1>9, <1>10, <1>11
  <2> QED BY <1>1, <2>1
<1>13. w \in Orders(waiting)
  <2>1. w \in Injection(1..n, waiting)
    BY <1>8 DEF Injection, IsInjective
  <2>2. Cardinality(1..n) <= Cardinality(waiting) /\ Cardinality(1..n) = n
    BY <1>3, <1>6, <2>1, FS_Injection, FS_Interval
  <2>3. n \in 0..Cardinality(waiting)
    BY <1>5, <1>6, <2>2
  <2> QED BY <1>8, <2>3 DEF Orders
<1>16. \A u \in Users : pc'[u] # pc[u] => pc[u] = "delay" \/ \E h \in events : reg[h][1] = u
  <2>1. PICK k \in 0..Len(sleeping) : taskyield(FdTask, w \o SubSeq(sleeping, 1, k))
    BY <1>12 DEF FdReady
  <2> DEFINE due == SubSeq(sleeping, 1, k)
  <2>2. /\ due \in Seq(Tasks) /\ Len(due) = k /\ k \in Nat
        /\ \A j \in 1..k : due[j] \in Sleepers
    BY ListsType DEF Places, Lists
  <2> HIDE DEF due
  <2>3. /\ DOMAIN (w \o due) = 1..(n + k)
        /\ \A j \in 1..(n + k) : (w \o due)[j] = IF j <= n THEN w[j] ELSE due[j - n]
    BY <1>6, <1>8, <2>2
  <2>4. ASSUME NEW u \in Users, pc'[u] # pc[u]
        PROVE  pc[u] = "delay" \/ \E h \in events : reg[h][1] = u
    <3>1. PICK j \in 1..(n + k) : (w \o due)[j] = u
      BY <2>1, <2>3, <2>4 DEF taskyield, due, Users
    <3>2. CASE j <= n
      <4>1. j \in 1..n /\ w[j] = u
        BY <1>6, <2>3, <3>1, <3>2
      <4>2. s[j] \in events /\ w[j] = reg[s[j]][1]
        BY <1>4, <1>6, <4>1 DEF w
      <4> QED BY <4>1, <4>2
    <3>3. CASE j > n
      <4>1. j - n \in 1..k /\ due[j - n] = u
        <5>1. (w \o due)[j] = due[j - n]
          BY <1>6, <2>2, <2>3, <3>3
        <5>2. j - n \in 1..k
          BY <1>6, <2>2, <3>3
        <5> QED BY <3>1, <5>1, <5>2
      <4> QED BY <2>2, <4>1 DEF Sleepers
    <3> QED BY <1>6, <2>2, <3>2, <3>3
  <2> QED BY <2>4
<1>14. w # <<>> \/ timeout = 0
  BY <1>2, <1>5, <1>6, <1>8, EmptySeq
<1>15. FdReturn
  BY <1>2, <1>12, <1>13, <1>14 DEF FdReturn, waiting
<1> QED BY <1>12, <1>15, <1>16 DEF fdVars, Owned, Calm

----------------------------------------------------------------------------
(***************************************************************************)
(* The steps.                                                              *)
(***************************************************************************)

\* The calls that have nothing to do with descriptors
LEMMA OtherCallOwned ==
  ASSUME Roles, Owned, NEW t \in Users, OtherCall(t) PROVE Owned' /\ Call(t)
<1>1. t \in Tasks /\ knot # t
  BY TaskAssumption DEF Owned, Calm, Users
<1>2. /\ Create(t) \/ System(t) \/ Park(t) \/ Wake(t) \/ Yield(t) \/ Exit(t) \/ Delay(t)
      /\ UNCHANGED fdVars
  BY <1>1 DEF OtherCall
<1>3. running = t /\ pc[t] = "user" /\ running' \in {t, NoTask}
  BY <1>2 DEF Create, System, Park, Wake, Yield, Exit, Delay, CanCall, taskyield, suspend, schedVars
<1>4. \A u \in Users : pc'[u] # pc[u] =>
        /\ u = t \/ pc[u] \in {"free", "switch"}
        /\ pc'[u] # "fdwait"
  <2>1. pc \in [Tasks -> PcSet]
    BY DEF Roles
  <2>2. CASE Create(t)
    BY <2>1, <2>2 DEF Create, Users
  <2>3. CASE System(t)
    BY <2>3 DEF System
  <2>4. CASE Park(t)
    BY <1>1, <2>1, <2>4 DEF Park, Users
  <2>5. CASE Wake(t)
    BY <2>1, <2>5 DEF Wake, wakeable, Users
  <2>6. CASE Yield(t)
    <3>1. pc' = [u \in Tasks |-> IF u = t THEN "yield" ELSE pc[u]]
      BY <2>6, YieldsAlone DEF Yield, taskyield
    <3> QED BY <3>1 DEF Users
  <2>7. CASE Exit(t)
    BY <1>1, <2>1, <2>7 DEF Exit, Users
  <2>8. CASE Delay(t)
    BY <2>8 DEF Delay, suspend, Users
  <2> QED BY <1>2, <2>2, <2>3, <2>4, <2>5, <2>6, <2>7, <2>8
<1>5. \A u \in Users : handle[u] # NoHandle =>
        /\ u # t /\ pc[u] \in {"fdwait", "user"}
  BY <1>3 DEF Owned, Regs, InFdwait
<1>6. \A u \in Users : handle[u] # NoHandle => (InFdwait(u))' /\ (pc'[u] = "fdwait" => pc[u] = "fdwait")
  <2>1. ASSUME NEW u \in Users, handle[u] # NoHandle
        PROVE  (InFdwait(u))' /\ (pc'[u] = "fdwait" => pc[u] = "fdwait")
    <3>1. u # t /\ pc[u] \in {"fdwait", "user"} /\ pc'[u] = pc[u]
      BY <1>4, <1>5, <2>1
    <3>2. running' # u
      BY <1>3, <3>1, TaskAssumption DEF Users
    <3> QED BY <3>1, <3>2 DEF InFdwait
  <2> QED BY <2>1
<1>7. \A u \in Users : pc'[u] = "fdwait" => pc[u] = "fdwait"
  BY <1>4
<1> QED BY <1>2, <1>6, <1>7, QuietOwned DEF Call

LEMMA FdCallOwned ==
  ASSUME OwnDescriptors, Roles, Owned, NEW t \in Users, FdCall(t)
  PROVE  Owned' /\ (Call(t) \/ UNCHANGED vars)
<1>1. CASE FdWait(t)
  <2>1. PICK u \in uses : u[1] = t /\ register(t, u[2], u[3], FALSE)
    BY <1>1 DEF FdWait, Owned, Calm
  <2>2. u \in Users \X Fds \X {"r", "w"} /\ u = <<t, u[2], u[3]>>
    BY <2>1 DEF Owned, Uses
  <2>3. u[2] \in Fds /\ u[3] \in {"r", "w"} /\ <<t, u[2], u[3]>> \in uses
    BY <2>2
  <2>4. inloop[t] = NotInLoop /\ UNCHANGED inloop
    BY <1>1 DEF FdWait
  <2> QED BY <2>1, <2>3, <2>4, RegisterOwned DEF Call
<1>2. CASE Block(t)
  <2>1. PICK f \in Transfers(t) \ io :
          /\ register(t, f[1], f[2], FALSE)
          /\ inloop' = [inloop EXCEPT ![t] = f]
    BY <1>2 DEF Block
  <2>2. f \in Fds \X {"r", "w"} /\ <<t, f[1], f[2]>> \in uses
    BY DEF Transfers, Owned, Loops
  <2>3. f[1] \in Fds /\ f[2] \in {"r", "w"} /\ f = <<f[1], f[2]>>
    BY <2>2
  <2>4. inloop' = [inloop EXCEPT ![t] = <<f[1], f[2]>>]
    BY <2>1, <2>3
  <2> QED BY <2>1, <2>2, <2>3, <2>4, RegisterOwned DEF Call
<1> QED BY <1>1, <1>2, TransferOwned, OtherCallOwned DEF FdCall

\* The steps of fdtask, but for the return of epoll_wait, and of time
FdtaskOrTime ==
  \/ (End \/ Tick \/ FdStart \/ FdYieldAgain \/ FdInterrupted \/ Ended) /\ UNCHANGED fdVars
  \/ FdErrno

LEMMA FdtaskLeavesUsers ==
  ASSUME pc \in [Tasks -> PcSet], FdtaskOrTime
  PROVE  \A u \in Users : pc'[u] = pc[u] /\ (running # u => running' # u)
<1>1. End \/ Tick \/ FdStart \/ FdYieldAgain \/ FdInterrupted \/ Ended \/ FdPoll
  BY DEF FdtaskOrTime, FdErrno
<1>2. FdTask \in Tasks /\ NoTask \notin Tasks
  BY TaskAssumption
<1>3. CASE End \/ Tick \/ Ended
  BY <1>3 DEF End, Tick, Ended, vars, schedVars
<1>4. CASE FdPoll
  BY <1>2, <1>4 DEF FdPoll, schedVars, Users
<1>5. CASE FdStart \/ FdYieldAgain \/ FdInterrupted
  <2>1. taskyield(FdTask, <<>>)
    BY <1>5 DEF FdStart, FdYieldAgain, FdInterrupted
  <2>2. pc' = [u \in Tasks |-> IF u = FdTask THEN "yield" ELSE pc[u]] /\ running' = NoTask
    BY <2>1, YieldsAlone DEF taskyield
  <2> QED BY <1>2, <2>2 DEF Users
<1> QED BY <1>1, <1>3, <1>4, <1>5

LEMMA FdtaskOwned ==
  ASSUME Roles, Owned, FdtaskOrTime
  PROVE  Owned' /\ [Next]_vars
<1>1. UNCHANGED fdVars
  BY DEF FdtaskOrTime, FdErrno, fdVars, Owned, Calm
<1>2. End \/ Tick \/ FdStart \/ FdYieldAgain \/ FdInterrupted \/ Ended \/ FdPoll
  BY DEF FdtaskOrTime, FdErrno
<1>3. \A u \in Users : pc'[u] = pc[u] /\ (running # u => running' # u)
  BY FdtaskLeavesUsers DEF Roles
<1>4. \A u \in Users : handle[u] # NoHandle => (InFdwait(u))' /\ (pc'[u] = "fdwait" => pc[u] = "fdwait")
  BY <1>3 DEF Owned, Regs, InFdwait
<1> QED BY <1>1, <1>2, <1>3, <1>4, QuietOwned DEF Next, FdStep

LEMMA OwnedStep ==
  ASSUME OwnDescriptors, Inv, Owned, [FdNext]_allVars
  PROVE  Owned' /\ [Next]_vars
<1>1. Roles /\ Places /\ Idle
  BY DEF Inv
<1>2. CASE Resume
  BY <1>1, <1>2, ResumeOwned DEF Next
<1>3. CASE FdEvents
  <2>1. FdReturn /\ UNCHANGED fdVars /\ FdRuns("epoll")
    BY <1>1, <1>3, EventsOwned DEF FdReturn
  <2>2. \A u \in Users : pc'[u] # pc[u] => pc[u] \in {"fdwait", "delay"} /\ pc'[u] = "user"
    BY <1>1, <2>1, FdReturnPlaces
  <2>3. running' = NoTask /\ NoTask \notin Users
    BY <2>1, TaskAssumption DEF FdReturn, FdReady, taskyield, Users
  <2>4. \A u \in Users : handle[u] # NoHandle => pc[u] = "fdwait"
    BY <1>1, <2>1, EventsAreWaiters DEF waiting
  <2>5. \A u \in Users : handle[u] # NoHandle => (InFdwait(u))' /\ (pc'[u] = "fdwait" => pc[u] = "fdwait")
    BY <2>2, <2>3, <2>4 DEF InFdwait
  <2>6. \A u \in Users : pc'[u] = "fdwait" => pc[u] = "fdwait"
    BY <2>2
  <2> QED BY <2>1, <2>5, <2>6, QuietOwned DEF Next, FdStep
<1>4. CASE Arrive
  <2>1. UNCHANGED vars /\ UNCHANGED <<uses, reg, handle, inloop, eexist, knot>>
    BY <1>4 DEF Arrive
  <2>2. UNCHANGED <<pc, running>>
    BY <2>1 DEF vars, schedVars
  <2> QED BY <2>1, <2>2 DEF Owned, Uses, Loops, Regs, Calm, InFdwait
<1>5. CASE UNCHANGED allVars
  <2>1. UNCHANGED vars /\ UNCHANGED <<uses, reg, handle, inloop, eexist, knot>>
    BY <1>5 DEF allVars, fdVars
  <2>2. UNCHANGED <<pc, running>>
    BY <2>1 DEF vars, schedVars
  <2> QED BY <2>1, <2>2 DEF Owned, Uses, Loops, Regs, Calm, InFdwait
<1>6. ASSUME NEW t \in Users, FdCall(t) PROVE Owned' /\ [Next]_vars
  BY <1>1, <1>6, FdCallOwned DEF Next
<1>7. CASE FdtaskOrTime
  BY <1>1, <1>7, FdtaskOwned
<1> QED BY <1>2, <1>3, <1>4, <1>5, <1>6, <1>7 DEF FdNext, FdtaskOrTime

\* Whom fdtask and the scheduler resume
LEMMA ResumedOutOfFdwait ==
  ASSUME OwnDescriptors, Inv, Owned, [FdNext]_allVars PROVE wokenByItsDescriptor
<1>1. Roles /\ Places /\ Idle
  BY DEF Inv
<1> SUFFICES ASSUME NEW t \in Users, running \in {FdTask, NoTask}, Waits(t), pc'[t] = "user"
             PROVE  /\ pc[t] = "fdwait"
                    /\ <<fdOf(handle[t]), reg[handle[t]][2]>> \in io
  BY DEF wokenByItsDescriptor
<1>2. pc[t] \in {"fdwait", "switch"} /\ pc'[t] # pc[t] /\ t \in Tasks
  BY DEF Waits, Users
<1>3. ~Resume
  <2>1. SUFFICES ASSUME Resume PROVE FALSE
    OBVIOUS
  <2>2. Dispatch
    BY <1>1, <2>1, ResumeOwned
  <2>3. Lists(runq, Ready) /\ runq # <<>>
    BY <2>2 DEF Dispatch, Places, Inv
  <2>4. Len(runq) >= 1 /\ Head(runq) = runq[1]
    BY <2>3, EmptySeq DEF Lists
  <2>5. Head(runq) \in Ready
    BY <2>3, <2>4, ListsType
  <2>6. t # Head(runq)
    BY <1>2, <2>5 DEF Ready
  <2>7. pc'[t] = pc[t]
    BY <1>1, <2>2, <2>6 DEF Dispatch, Roles
  <2> QED BY <1>2, <2>7
<1>4. ~\E u \in Users : FdCall(u)
  <2>1. ASSUME NEW u \in Users, FdCall(u) PROVE FALSE
    <3>1. running = u
      BY <2>1 DEF FdCall, FdWait, Block, Transfer, OtherCall, register, fdwait, CanCall,
                  Create, System, Park, Wake, Yield, Exit, Delay
    <3> QED BY <3>1, TaskAssumption DEF Users
  <2> QED BY <2>1
<1>5. ~FdtaskOrTime
  BY <1>1, <1>2, FdtaskLeavesUsers DEF Roles
<1>6. ~Arrive /\ ~UNCHANGED allVars
  BY <1>2 DEF Arrive, allVars, vars
<1>7. FdEvents
  BY <1>3, <1>4, <1>5, <1>6 DEF FdNext, FdtaskOrTime
<1>8. PICK h \in events : reg[h][1] = t
  BY <1>1, <1>2, <1>7, EventsOwned
<1>9. handle[t] = h /\ <<fdOf(h), reg[h][2]>> \in io
  BY <1>8 DEF events, Owned, Regs
<1>10. pc[t] = "fdwait"
  <2>1. handle[t] # NoHandle
    BY <1>9, FdAssumption DEF events
  <2>2. FdRuns("epoll")
    BY <1>7 DEF FdEvents
  <2> QED BY <1>1, <2>1, <2>2, EventsAreWaiters DEF waiting
<1> QED BY <1>9, <1>10

LEMMA OwnedInit == FdInit => Inv /\ Owned
<1> SUFFICES ASSUME FdInit PROVE Inv /\ Owned
  OBVIOUS
<1>1. Inv
  BY InvInit DEF FdInit
<1>2. Uses /\ Loops /\ Calm
  BY FdAssumption DEF FdInit, Uses, Loops, Calm, Users
<1>3. FdTask \in Tasks /\ NoHandle \notin Handles /\ NoTask \notin Tasks
      /\ \A t \in Users : t \in Tasks /\ pc[t] # "fdwait"
  BY TaskAssumption, FdAssumption DEF FdInit, Init, Users
<1>4. Regs
  BY <1>3 DEF FdInit, Regs, Free, Users
<1> QED BY <1>1, <1>2, <1>4 DEF Owned

----------------------------------------------------------------------------
FdInv == OwnDescriptors => Inv /\ Owned

LEMMA FdInvStep == FdInv /\ [FdNext]_allVars => FdInv' /\ (OwnDescriptors => [Next]_vars)
<1> SUFFICES ASSUME FdInv, [FdNext]_allVars PROVE FdInv' /\ (OwnDescriptors => [Next]_vars)
  OBVIOUS
<1>1. uses' = uses
  <2>1. ASSUME NEW t \in Users, FdCall(t) PROVE uses' = uses
    BY <2>1 DEF FdCall, FdWait, Block, Transfer, OtherCall, register, Corrupt, fdVars
  <2> QED BY <2>1 DEF FdNext, Resume, FdErrno, FdEvents, Corrupt, Arrive, fdVars, allVars
<1>2. OwnDescriptors' = OwnDescriptors
  BY <1>1 DEF OwnDescriptors
<1>3. CASE OwnDescriptors
  BY <1>3, OwnedStep, InvStep DEF FdInv
<1> QED BY <1>2, <1>3 DEF FdInv

\* The inductive invariant: the scheduler's, and what is registered and why.
THEOREM FdInvariant == FdSpec => []FdInv
<1>1. FdInit => FdInv
  BY OwnedInit DEF FdInv
<1>2. FdInv /\ [FdNext]_allVars => FdInv'
  BY FdInvStep
<1> QED BY <1>1, <1>2, PTL DEF FdSpec

\* epoll holds one registration for each task in fdwait, the one it is going to
\* delete, and none for anybody else, if no two tasks use one descriptor.
THEOREM RegistrationsExact == FdSpec => []RegistrationsMatchWaiters
<1>1. FdInv => RegistrationsMatchWaiters
  BY DEF FdInv, Owned, Regs, RegistrationsMatchWaiters
<1> QED BY <1>1, FdInvariant, PTL

\* fdtask resumes a task out of its fdwait only, and only when its descriptor
\* will not block it, if no two tasks use one descriptor.
THEOREM OwnersWoken == FdSpec => OwnersWokenByTheirs
<1>1. FdInv /\ [FdNext]_allVars => [OwnDescriptors => wokenByItsDescriptor]_allVars
  BY ResumedOutOfFdwait DEF FdInv
<1> QED BY <1>1, FdInvariant, PTL DEF FdSpec, OwnersWokenByTheirs

\* With the descriptors beside it, every step is one of Task.
THEOREM FdImplementsTask == FdSpec => ImplementsTask
<1>1. FdInit => Init
  BY DEF FdInit
<1>2. FdInv /\ [FdNext]_allVars => [OwnDescriptors => [Next]_vars]_allVars
  BY FdInvStep
<1> QED BY <1>1, <1>2, FdInvariant, PTL DEF FdSpec, ImplementsTask

----------------------------------------------------------------------------
(***************************************************************************)
(* Whoever shares descriptors with whom: a task that waits in fdwait has   *)
(* a registration of its own.                                              *)
(***************************************************************************)
OwnHandle(t) == handle[t] \in Fds \/ \E fd \in Fds : handle[t] = <<fd, t>>

Held ==
  /\ Uses
  /\ handle \in [Tasks -> Handles \cup {NoHandle}] /\ handle[FdTask] = NoHandle
  /\ reg \in [Handles -> {Free} \cup (Users \X {"r", "w"})]
  /\ inloop \in [Tasks -> {NotInLoop} \cup (Fds \X {"r", "w"})]
  /\ \A t \in Users : handle[t] # NoHandle => reg[handle[t]][1] = t /\ OwnHandle(t)
  /\ \A t \in Users :
       pc[t] = "fdwait" =>
         /\ handle[t] # NoHandle
         /\ inloop[t] # NotInLoop => <<fdOf(handle[t]), reg[handle[t]][2]>> = inloop[t]

LEMMA QuietHeld ==
  ASSUME Held, UNCHANGED <<uses, reg, handle, inloop>>,
         \A u \in Users : pc'[u] = "fdwait" => pc[u] = "fdwait"
  PROVE  Held'
<1>1. uses' = uses /\ reg' = reg /\ handle' = handle /\ inloop' = inloop
  OBVIOUS
<1>2. \A u \in Users : OwnHandle(u)' = OwnHandle(u)
  BY <1>1 DEF OwnHandle
<1> QED BY <1>1, <1>2 DEF Held, Uses

\* fdwait registers the descriptor or a duplicate, whatever errno is.
LEMMA RegisterHeld ==
  ASSUME Held, NEW t \in Users, NEW fd \in Fds, NEW rw \in {"r", "w"}, NEW stale,
         register(t, fd, rw, stale),
         \/ inloop[t] = NotInLoop /\ UNCHANGED inloop
         \/ inloop' = [inloop EXCEPT ![t] = <<fd, rw>>]
  PROVE  Held'
<1> DEFINE own == IF duped(fd, stale) THEN <<fd, t>> ELSE fd
<1>1. t \in Tasks /\ t # FdTask /\ FdTask \in Tasks /\ NoTask \notin Tasks
      /\ NoHandle \notin Handles /\ Fds \subseteq Handles /\ Users \subseteq Tasks
  BY TaskAssumption, FdAssumption DEF Users, Handles
<1>2. <<fd, t>> \in Handles /\ <<fd, t>> \notin Fds
  BY <1>1, FdAssumption DEF Handles
<1>3. /\ handle' = [handle EXCEPT ![t] = own] /\ uses' = uses
      /\ reg' = [h \in Handles |-> IF h \in added(t, fd, stale) THEN <<t, rw>> ELSE reg[h]]
  BY DEF register, add
<1>4. fdwait(t)
  BY DEF register
<1>5. \A u \in Users : u # t => pc'[u] = pc[u]
  BY <1>4 DEF fdwait, suspend, Users
<1>6. own \in added(t, fd, stale) /\ own \in Handles /\ fdOf(own) = fd
  <2>1. CASE duped(fd, stale)
    BY <1>2, <2>1 DEF added, fdOf
  <2>2. CASE ~duped(fd, stale)
    BY <1>1, <2>2 DEF added, duped, fdOf
  <2> QED BY <2>1, <2>2
<1>7. own = fd \/ own = <<fd, t>>
  OBVIOUS
<1>8. \A h \in added(t, fd, stale) : h = <<fd, t>> \/ (h = fd /\ reg[h] = Free)
  BY DEF added
<1> HIDE DEF own
<1>9. /\ handle' \in [Tasks -> Handles \cup {NoHandle}] /\ handle'[FdTask] = NoHandle
      /\ handle'[t] = own
      /\ \A u \in Users : u # t => handle'[u] = handle[u]
  BY <1>1, <1>3, <1>6 DEF Held
<1>10. /\ reg' \in [Handles -> {Free} \cup (Users \X {"r", "w"})]
       /\ reg'[own] = <<t, rw>>
       /\ \A h \in Handles : h \notin added(t, fd, stale) => reg'[h] = reg[h]
  BY <1>3, <1>6 DEF Held
<1>11. inloop \in [Tasks -> {NotInLoop} \cup (Fds \X {"r", "w"})]
  BY DEF Held
<1>12. /\ inloop' \in [Tasks -> {NotInLoop} \cup (Fds \X {"r", "w"})]
       /\ inloop'[t] # NotInLoop => inloop'[t] = <<fd, rw>>
       /\ \A u \in Users : u # t => inloop'[u] = inloop[u]
  BY <1>1, <1>11
<1>13. \A u \in Users :
         u # t /\ handle[u] # NoHandle => handle[u] \in Handles /\ reg'[handle[u]] = reg[handle[u]]
  <2>1. ASSUME NEW u \in Users, u # t, handle[u] # NoHandle
        PROVE  handle[u] \in Handles /\ handle[u] \notin added(t, fd, stale)
    <3>1. handle[u] \in Handles /\ reg[handle[u]][1] = u /\ OwnHandle(u)
      BY <1>1, <2>1 DEF Held
    <3>2. handle[u] # <<fd, t>>
      BY <1>2, <2>1, <3>1 DEF OwnHandle
    <3>3. reg[handle[u]] # Free
      BY <1>1, <3>1 DEF Free
    <3> QED BY <1>8, <3>1, <3>2, <3>3
  <2> QED BY <1>10, <2>1
<1>14. \A u \in Users : handle'[u] # NoHandle => reg'[handle'[u]][1] = u /\ (OwnHandle(u))'
  <2>1. ASSUME NEW u \in Users, handle'[u] # NoHandle
        PROVE  reg'[handle'[u]][1] = u /\ (OwnHandle(u))'
    <3>1. CASE u = t
      <4>1. handle'[u] = own
        BY <1>9, <3>1
      <4>2. reg'[handle'[u]] = <<t, rw>>
        BY <1>10, <4>1
      <4>3. (OwnHandle(u))'
        BY <1>7, <3>1, <4>1 DEF OwnHandle
      <4> QED BY <3>1, <4>2, <4>3
    <3>2. CASE u # t
      <4>1. handle'[u] = handle[u]
        BY <1>9, <3>2
      <4>2. reg'[handle'[u]] = reg[handle[u]]
        BY <1>13, <2>1, <3>2, <4>1
      <4>3. reg[handle[u]][1] = u /\ OwnHandle(u)
        BY <2>1, <4>1 DEF Held
      <4>4. (OwnHandle(u))'
        BY <4>1, <4>3 DEF OwnHandle
      <4> QED BY <4>2, <4>3, <4>4
    <3> QED BY <3>1, <3>2
  <2> QED BY <2>1
<1>15. \A u \in Users :
         pc'[u] = "fdwait" =>
           /\ handle'[u] # NoHandle
           /\ inloop'[u] # NotInLoop => <<fdOf(handle'[u]), reg'[handle'[u]][2]>> = inloop'[u]
  <2>1. ASSUME NEW u \in Users, pc'[u] = "fdwait"
        PROVE  /\ handle'[u] # NoHandle
               /\ inloop'[u] # NotInLoop => <<fdOf(handle'[u]), reg'[handle'[u]][2]>> = inloop'[u]
    <3>1. CASE u = t
      <4>1. handle'[u] = own /\ own # NoHandle
        BY <1>1, <1>6, <1>9, <3>1
      <4>2. reg'[handle'[u]][2] = rw
        BY <1>10, <4>1
      <4> QED BY <1>6, <1>12, <3>1, <4>1, <4>2
    <3>2. CASE u # t
      <4>1. handle'[u] = handle[u] /\ inloop'[u] = inloop[u] /\ pc[u] = "fdwait"
        BY <1>5, <1>9, <1>12, <2>1, <3>2
      <4>2. handle[u] # NoHandle /\ reg'[handle[u]] = reg[handle[u]]
        BY <1>13, <3>2, <4>1 DEF Held
      <4> QED BY <4>1, <4>2 DEF Held
    <3> QED BY <3>1, <3>2
  <2> QED BY <2>1
<1>16. Uses'
  BY <1>3 DEF Held, Uses
<1> QED BY <1>9, <1>10, <1>12, <1>14, <1>15, <1>16 DEF Held

\* A task that is resumed deletes what it registered, and nothing else.
LEMMA DeleteHeld ==
  ASSUME Held, NEW t \in Tasks, delete(t), UNCHANGED <<uses, inloop>>,
         t \in Users => pc'[t] # "fdwait",
         \A u \in Users : pc'[u] = "fdwait" => pc[u] = "fdwait"
  PROVE  Held'
<1>1. NoHandle \notin Handles /\ Users \subseteq Tasks /\ FdTask \in Tasks /\ NoTask \notin Tasks
  BY TaskAssumption, FdAssumption DEF Users
<1>2. /\ handle' = [handle EXCEPT ![t] = NoHandle] /\ uses' = uses /\ inloop' = inloop
      /\ reg' = [h \in Handles |-> IF h = handle[t] THEN Free ELSE reg[h]]
  BY DEF delete
<1>3. /\ handle' \in [Tasks -> Handles \cup {NoHandle}] /\ handle'[FdTask] = NoHandle
      /\ reg' \in [Handles -> {Free} \cup (Users \X {"r", "w"})]
      /\ handle'[t] = NoHandle
      /\ \A u \in Users : u # t => handle'[u] = handle[u]
  BY <1>1, <1>2 DEF Held
<1>4. \A u \in Users :
        u # t /\ handle[u] # NoHandle => reg'[handle[u]] = reg[handle[u]]
  <2>1. ASSUME NEW u \in Users, u # t, handle[u] # NoHandle
        PROVE  reg'[handle[u]] = reg[handle[u]]
    <3>1. handle[u] \in Handles /\ reg[handle[u]][1] = u
      BY <1>1, <2>1 DEF Held
    <3>2. CASE t \in Users
      <4>1. handle[t] # NoHandle => reg[handle[t]][1] = t
        BY <3>2 DEF Held
      <4>2. handle[t] # handle[u]
        BY <2>1, <3>1, <4>1
      <4> QED BY <1>2, <3>1, <4>2
    <3>3. CASE t \notin Users
      <4>1. handle[t] = NoHandle
        BY <3>3 DEF Held, Users
      <4> QED BY <1>1, <1>2, <3>1, <4>1
    <3> QED BY <3>2, <3>3
  <2> QED BY <2>1
<1>5. \A u \in Users : handle'[u] # NoHandle => reg'[handle'[u]][1] = u /\ (OwnHandle(u))'
  <2>1. ASSUME NEW u \in Users, handle'[u] # NoHandle
        PROVE  reg'[handle'[u]][1] = u /\ (OwnHandle(u))'
    <3>1. u # t /\ handle'[u] = handle[u] /\ reg'[handle[u]] = reg[handle[u]]
      BY <1>3, <1>4, <2>1
    <3>2. reg[handle[u]][1] = u /\ OwnHandle(u)
      BY <2>1, <3>1 DEF Held
    <3>3. (OwnHandle(u))'
      BY <3>1, <3>2 DEF OwnHandle
    <3> QED BY <3>1, <3>2, <3>3
  <2> QED BY <2>1
<1>6. \A u \in Users :
        pc'[u] = "fdwait" =>
          /\ handle'[u] # NoHandle
          /\ inloop'[u] # NotInLoop => <<fdOf(handle'[u]), reg'[handle'[u]][2]>> = inloop'[u]
  <2>1. ASSUME NEW u \in Users, pc'[u] = "fdwait"
        PROVE  /\ handle'[u] # NoHandle
               /\ inloop'[u] # NotInLoop => <<fdOf(handle'[u]), reg'[handle'[u]][2]>> = inloop'[u]
    <3>1. u # t /\ pc[u] = "fdwait" /\ handle'[u] = handle[u] /\ inloop'[u] = inloop[u]
      BY <1>2, <1>3, <2>1
    <3>2. handle[u] # NoHandle /\ reg'[handle[u]] = reg[handle[u]]
      BY <1>4, <3>1 DEF Held
    <3> QED BY <3>1, <3>2 DEF Held
  <2> QED BY <2>1
<1>7. Uses' /\ inloop' \in [Tasks -> {NotInLoop} \cup (Fds \X {"r", "w"})]
  BY <1>2 DEF Held, Uses
<1> QED BY <1>3, <1>5, <1>6, <1>7 DEF Held

LEMMA CallHeld ==
  ASSUME Held, pc \in [Tasks -> PcSet], NEW t \in Users, FdCall(t) PROVE Held'
<1>1. CASE FdWait(t)
  <2>1. PICK u \in uses : u[1] = t /\ register(t, u[2], u[3], eexist)
    BY <1>1 DEF FdWait
  <2>2. u \in Users \X Fds \X {"r", "w"}
    BY DEF Held, Uses
  <2>3. u[2] \in Fds /\ u[3] \in {"r", "w"}
    BY <2>2
  <2>4. inloop[t] = NotInLoop /\ UNCHANGED inloop
    BY <1>1 DEF FdWait
  <2> QED BY <2>1, <2>3, <2>4, RegisterHeld
<1>2. CASE Block(t)
  <2>1. PICK f \in Transfers(t) \ io :
          /\ register(t, f[1], f[2], FALSE)
          /\ inloop' = [inloop EXCEPT ![t] = f]
    BY <1>2 DEF Block
  <2>2. f \in Fds \X {"r", "w"}
    BY DEF Transfers, Held, Users
  <2>3. f[1] \in Fds /\ f[2] \in {"r", "w"} /\ f = <<f[1], f[2]>>
    BY <2>2
  <2>4. inloop' = [inloop EXCEPT ![t] = <<f[1], f[2]>>]
    BY <2>1, <2>3
  <2> QED BY <2>1, <2>3, <2>4, RegisterHeld
<1>3. CASE Transfer(t)
  <2>1. PICK f \in Transfers(t) \cap io :
          \/ inloop' = [inloop EXCEPT ![t] = NotInLoop]
          \/ inloop' = [inloop EXCEPT ![t] = f]
    BY <1>3 DEF Transfer
  <2>2. f \in Fds \X {"r", "w"}
    BY DEF Transfers, Held, Users
  <2>3. inloop \in [Tasks -> {NotInLoop} \cup (Fds \X {"r", "w"})] /\ t \in Tasks
    BY DEF Held, Users
  <2>4. /\ inloop' \in [Tasks -> {NotInLoop} \cup (Fds \X {"r", "w"})]
        /\ \A u \in Users : u # t => inloop'[u] = inloop[u]
    BY <2>1, <2>2, <2>3 DEF Users
  <2>5. /\ uses' = uses /\ reg' = reg /\ handle' = handle /\ pc' = pc /\ pc[t] = "user"
    BY <1>3 DEF Transfer, CanCall, vars
  <2>6. \A u \in Users : OwnHandle(u)' = OwnHandle(u)
    BY <2>5 DEF OwnHandle
  <2>7. \A u \in Users : pc'[u] = "fdwait" => pc[u] = "fdwait" /\ inloop'[u] = inloop[u]
    BY <2>4, <2>5
  <2> QED BY <2>4, <2>5, <2>6, <2>7 DEF Held, Uses
<1>4. CASE OtherCall(t)
  <2>1. UNCHANGED <<uses, reg, handle, inloop>>
    BY <1>4 DEF OtherCall, Corrupt, fdVars
  <2>2. \A u \in Users : pc'[u] = "fdwait" => pc[u] = "fdwait"
    <3>1. CASE Yield(t)
      <4>1. pc' = [u \in Tasks |-> IF u = t THEN "yield" ELSE pc[u]]
        BY <3>1, YieldsAlone DEF Yield, taskyield
      <4> QED BY <4>1 DEF Users
    <3>2. CASE Delay(t)
      BY <3>2 DEF Delay, suspend, Users
    <3>3. CASE Create(t) \/ Wake(t)
      BY <3>3 DEF Create, Wake, Users
    <3>4. CASE Park(t) \/ Exit(t)
      BY <3>4 DEF Park, Exit, Users
    <3>5. CASE System(t) \/ Corrupt
      BY <3>5 DEF System, Corrupt
    <3> QED BY <1>4, <3>1, <3>2, <3>3, <3>4, <3>5 DEF OtherCall
  <2> QED BY <2>1, <2>2, QuietHeld
<1> QED BY <1>1, <1>2, <1>3, <1>4 DEF FdCall

(***************************************************************************)
(* As long as no task is tied to the head of the run queue and no list is  *)
(* damaged, the scheduler's lists are as Task has them: only the tasks     *)
(* that epoll_wait readies may wait for something else.  A tied task is at *)
(* the head for good, and nobody else is resumed.                          *)
(***************************************************************************)
Untied == knot = NoTask /\ ended # "corrupt"

Tied ==
  /\ knot \in Users /\ pc \in [Tasks -> PcSet]
  /\ runq \in Seq(Tasks) /\ runq # <<>> /\ Head(runq) = knot
  /\ running \in {NoTask, knot}

Lined ==
  /\ Untied => Roles /\ Places /\ Idle
  /\ knot # NoTask => Tied

LEMMA HeadStays ==
  ASSUME NEW r \in Seq(Tasks), r # <<>>, NEW ts \in Seq(Tasks)
  PROVE  r \o ts \in Seq(Tasks) /\ r \o ts # <<>> /\ Head(r \o ts) = Head(r)
<1>1. Len(r) \in Nat \ {0} /\ Len(ts) \in Nat
  BY EmptySeq
<1>2. r \o ts \in Seq(Tasks) /\ Len(r \o ts) = Len(r) + Len(ts) /\ (r \o ts)[1] = r[1]
  BY <1>1
<1>3. Head(r) = r[1] /\ Head(r \o ts) = (r \o ts)[1]
  BY <1>1, <1>2
<1> QED BY <1>1, <1>2, <1>3, EmptySeq

\* epoll_wait's events are readied, or one of them damages a list.
LEMMA EventsLined ==
  ASSUME Roles, Places, Idle, Held, Untied, FdEvents PROVE Lined' /\ Held'
<1> DEFINE woken(s) == [k \in DOMAIN s |-> reg[s[k]][1]]
           From(s, i) == SubSeq(woken(s), i, Len(s))
           Distinct(ts) == \A j, k \in DOMAIN ts : ts[j] = ts[k] => j = k
           Fine(ts) == Distinct(ts) /\ \A k \in DOMAIN ts : Waits(ts[k])
           first(s) == IF Len(s) > 1 /\ woken(s)[1] = woken(s)[2] THEN 2 ELSE 1
<1>1. PICK s \in Orders(events) :
        /\ Len(s) = Cardinality(events)
        /\ IF Fine(From(s, first(s)))
           THEN /\ FdReady(From(s, first(s)))
                /\ knot' = IF first(s) = 2 THEN woken(s)[1] ELSE NoTask
                /\ UNCHANGED <<uses, reg, handle, inloop, io, eexist>>
           ELSE Corrupt
  BY DEF FdEvents
<1>2. FdRuns("epoll") /\ NoTask \notin Tasks /\ FdTask \in Tasks /\ Users \subseteq Tasks
  BY TaskAssumption DEF FdEvents, Users
<1>3. UNCHANGED <<uses, reg, handle, inloop>>
  BY <1>1 DEF Corrupt, fdVars
<1>4. CASE Corrupt
  <2>1. pc' = pc /\ knot' = NoTask /\ ended' = "corrupt"
    BY <1>4 DEF Corrupt, Untied, fdVars
  <2> QED BY <1>3, <2>1, QuietHeld DEF Lined, Untied
<1>5. CASE Fine(From(s, first(s))) /\ FdReady(From(s, first(s)))
           /\ knot' = IF first(s) = 2 THEN woken(s)[1] ELSE NoTask
  <2>1. PICK n \in 0..Cardinality(events) : s \in [1..n -> events]
    BY DEF Orders
  <2>2. n \in Int /\ Len(s) \in Nat /\ DOMAIN s = 1..Len(s) /\ s \in [1..Len(s) -> events]
    <3>1. CASE n \in Nat
      BY <2>1, <3>1
    <3>2. CASE n \notin Nat
      BY <2>1, <3>2
    <3> QED BY <3>1, <3>2
  <2> DEFINE w == woken(s)
             L == Len(s)
  <2>3. w \in [1..L -> Users] /\ w \in Seq(Users) /\ Len(w) = L /\ L \in Nat
    <3>1. \A k \in 1..L : reg[s[k]] \in Users \X {"r", "w"}
      <4>1. \A h \in events : reg[h] \in Users \X {"r", "w"}
        BY DEF events, Held
      <4>2. \A k \in 1..L : s[k] \in events
        BY <2>2
      <4> QED BY <4>1, <4>2
    <3>2. w \in [1..L -> Users]
      BY <2>2, <3>1
    <3> QED BY <2>2, <3>2
  <2> HIDE DEF w
  <2>4. PICK f \in {1, 2} :
          /\ f = first(s)
          /\ f = 2 => L > 1 /\ w[1] = w[2]
    BY DEF w
  <2>41. f \in {1, 2} /\ (f = 2 => L > 1 /\ w[1] = w[2]) /\ L \in Nat /\ Len(w) = L
    BY <2>3, <2>4
  <2> DEFINE ts == From(s, f)
  <2>5. /\ ts \in Seq(Users) /\ Len(ts) \in Nat /\ DOMAIN ts = 1..Len(ts)
        /\ f = 2 => Len(ts) >= 1 /\ ts[1] = w[2]
    <3>1. ts = SubSeq(w, f, L)
      BY DEF w
    <3> HIDE DEF ts, L
    <3>2. /\ ts \in Seq(Users) /\ Len(ts) \in Nat
          /\ f = 2 => Len(ts) = L - 1
      <4>1. CASE f = 1
        <5>1. SubSeq(w, 1, L) = w
          BY <2>3
        <5> QED BY <2>3, <2>41, <3>1, <4>1, <5>1
      <4>2. CASE f = 2
        <5>1. SubSeq(w, 2, L) \in Seq(Users) /\ Len(SubSeq(w, 2, L)) = L - 1
          BY <2>3, <2>41, <4>2
        <5> QED BY <2>41, <3>1, <4>2, <5>1
      <4> QED BY <2>41, <4>1, <4>2
    <3>3. f = 2 => ts[1] = w[2]
      <4>1. SUFFICES ASSUME f = 2 PROVE SubSeq(w, 2, L)[1] = w[2]
        BY <3>1
      <4> QED BY <2>3, <2>41, <4>1
    <3>4. DOMAIN ts = 1..Len(ts)
      BY <3>2
    <3> QED BY <2>41, <3>2, <3>3, <3>4
  <2>6. Fine(ts) /\ FdReady(ts)
    BY <1>5, <2>4
  <2>7. knot' = IF f = 2 THEN w[1] ELSE NoTask
    BY <1>5, <2>4 DEF w
  <2> HIDE DEF ts
  <2> DEFINE S == {ts[j] : j \in 1..Len(ts)}
  <2>8. Lists(ts, S) /\ S \subseteq Users
    <3>1. ts \in Seq(Tasks)
      BY <1>2, <2>5
    <3>2. \A j, k \in 1..Len(ts) : ts[j] = ts[k] => j = k
      BY <2>5, <2>6
    <3> QED BY <2>5, <3>1, <3>2 DEF Lists
  <2>9. \A u \in S : pc[u] \in {"fdwait", "switch"}
    BY <2>5, <2>6 DEF Waits
  <2> HIDE DEF S
  <2>10. /\ Roles' /\ Places'
         /\ \A u \in Users : pc'[u] # pc[u] => pc'[u] = "user"
    BY <1>2, <2>6, <2>8, <2>9, FdReadyPlaces
  <2>11. PICK k \in 0..Len(sleeping) : taskyield(FdTask, ts \o SubSeq(sleeping, 1, k))
    BY <2>6 DEF FdReady
  <2> DEFINE due == SubSeq(sleeping, 1, k)
  <2>12. due \in Seq(Tasks) /\ ts \in Seq(Tasks)
    BY <2>8, ListSplit DEF Places, Lists
  <2> HIDE DEF due
  <2>13. ts \o due \in Seq(Tasks)
    BY <2>12
  <2>14. Idle'
    BY <2>11, <2>13, FdYieldsIdle DEF due
  <2>15. ASSUME knot' # NoTask PROVE Tied'
    <3>1. f = 2 /\ knot' = ts[1] /\ knot' \in Users /\ ts # <<>>
      BY <1>2, <2>3, <2>4, <2>5, <2>7, <2>15, EmptySeq
    <3>2. runq = <<>> /\ runq' = runq \o ((ts \o due) \o <<FdTask>>) /\ running' = NoTask
      BY <1>2, <2>11 DEF taskyield, addtask, Idle, FdRuns, due
    <3>3. <<FdTask>> \in Seq(Tasks)
      BY <1>2
    <3>4. ts \o due # <<>> /\ Head(ts \o due) = Head(ts)
      BY <2>12, <3>1, HeadStays
    <3> DEFINE q == (ts \o due) \o <<FdTask>>
    <3>5. q \in Seq(Tasks) /\ q # <<>> /\ Head(q) = Head(ts)
      BY <2>13, <3>3, <3>4, HeadStays
    <3> HIDE DEF q
    <3>6. runq' = q
      BY <3>2, <3>5 DEF q
    <3>7. Head(ts) = ts[1]
      BY <2>12, <3>1
    <3> QED BY <2>10, <3>1, <3>2, <3>5, <3>6, <3>7 DEF Tied, Roles
  <2>16. \A u \in Users : pc'[u] = "fdwait" => pc[u] = "fdwait"
    BY <2>10
  <2> QED BY <1>3, <2>10, <2>14, <2>15, <2>16, QuietHeld DEF Lined
<1> QED BY <1>1, <1>4, <1>5

\* Everything else is a step of Task, as long as no task is tied.
LEMMA OthersLined ==
  ASSUME Lined, Held, Untied, [FdNext]_allVars, ~FdEvents PROVE Lined' /\ Held'
<1>1. Roles /\ Places /\ Idle /\ knot = NoTask /\ pc \in [Tasks -> PcSet]
  BY DEF Lined, Untied, Roles
<1>2. NoTask \notin Tasks /\ Users \subseteq Tasks
  BY TaskAssumption DEF Users
<1>3. knot' = NoTask /\ [Next]_vars
  <2>1. ASSUME NEW t \in Users, FdCall(t) PROVE knot' = knot /\ (Call(t) \/ UNCHANGED vars)
    <3>1. knot # t
      BY <1>1, <1>2
    <3> QED BY <2>1, <3>1 DEF FdCall, FdWait, Block, Transfer, OtherCall, register, Call, fdVars
  <2>2. CASE Resume
    BY <1>1, <2>2 DEF Resume, Next
  <2>3. CASE FdErrno
    BY <1>1, <2>3 DEF FdErrno, Next, FdStep
  <2>4. CASE Arrive \/ UNCHANGED allVars
    BY <1>1, <2>4 DEF Arrive, allVars, fdVars
  <2>5. CASE (End \/ Tick \/ FdStart \/ FdYieldAgain \/ FdInterrupted \/ Ended) /\ UNCHANGED fdVars
    BY <1>1, <2>5 DEF Next, FdStep, fdVars
  <2> QED BY <1>1, <2>1, <2>2, <2>3, <2>4, <2>5 DEF FdNext, Next
<1>4. Roles' /\ Places' /\ Idle'
  BY <1>1, <1>3, PlacesStep, IdleStep
<1>5. Held'
  <2>1. CASE Resume
    <3> DEFINE t == Head(runq)
    <3>1. Dispatch /\ delete(t) /\ UNCHANGED <<uses, inloop>>
      BY <1>1, <2>1 DEF Resume
    <3>2. t \in Tasks
      <4>1. Lists(runq, Ready) /\ runq # <<>>
        BY <1>1, <3>1 DEF Dispatch, Places
      <4>2. Len(runq) >= 1 /\ t = runq[1]
        BY <4>1, EmptySeq DEF Lists
      <4> QED BY <4>1, <4>2, ListsType DEF Ready
    <3>3. pc' = IF t = FdTask THEN pc ELSE [pc EXCEPT ![t] = "user"]
      BY <3>1 DEF Dispatch
    <3> HIDE DEF t
    <3>4. /\ t \in Users => pc'[t] # "fdwait"
          /\ \A u \in Users : pc'[u] = "fdwait" => pc[u] = "fdwait"
      BY <1>1, <1>2, <3>2, <3>3 DEF Users
    <3> QED BY <3>1, <3>2, <3>4, DeleteHeld
  <2>2. CASE FdtaskOrTime
    <3>1. UNCHANGED <<uses, reg, handle, inloop>>
      BY <2>2 DEF FdtaskOrTime, FdErrno, fdVars
    <3> QED BY <1>1, <2>2, <3>1, FdtaskLeavesUsers, QuietHeld
  <2>3. CASE Arrive \/ UNCHANGED allVars
    <3>1. UNCHANGED <<uses, reg, handle, inloop>> /\ pc' = pc
      BY <2>3 DEF Arrive, allVars, fdVars, vars
    <3> QED BY <3>1, QuietHeld
  <2>4. ASSUME NEW t \in Users, FdCall(t) PROVE Held'
    BY <1>1, <2>4, CallHeld
  <2> QED BY <2>1, <2>2, <2>3, <2>4 DEF FdNext, FdtaskOrTime
<1> QED BY <1>3, <1>4, <1>5 DEF Lined

\* A tied task stays at the head of the run queue, and only it is resumed.
LEMMA TiedStays ==
  ASSUME Tied, Held, [FdNext]_allVars PROVE knot' = knot /\ Tied' /\ Held'
<1>1. /\ knot \in Users /\ knot \in Tasks /\ knot # FdTask /\ knot # NoTask /\ running # FdTask
      /\ NoTask \notin Tasks /\ FdTask \in Tasks /\ Users \subseteq Tasks
  BY TaskAssumption DEF Tied, Users
<1>2. pc \in [Tasks -> PcSet]
  BY DEF Tied
<1>3. ASSUME NEW ts \in Seq(Tasks), runq' = runq \o ts, running' \in {NoTask, knot},
             pc' \in [Tasks -> PcSet], knot' = knot
      PROVE  knot' = knot /\ Tied'
  BY <1>3, HeadStays DEF Tied
<1>4. ASSUME UNCHANGED <<runq, running, pc, knot>> PROVE knot' = knot /\ Tied'
  BY <1>4 DEF Tied
<1>5. CASE Resume
  <2>1. /\ running' = knot /\ pc' = [pc EXCEPT ![knot] = "user"] /\ runq' = runq
        /\ delete(knot) /\ UNCHANGED <<uses, inloop>> /\ knot' = knot
    BY <1>1, <1>5 DEF Resume, Tied
  <2>2. Tied'
    BY <1>1, <1>2, <2>1 DEF Tied, PcSet
  <2>3. pc'[knot] # "fdwait" /\ \A u \in Users : pc'[u] = "fdwait" => pc[u] = "fdwait"
    BY <1>1, <1>2, <2>1
  <2> QED BY <1>1, <2>1, <2>2, <2>3, DeleteHeld
<1>6. ASSUME NEW t \in Users, FdCall(t) PROVE knot' = knot /\ Tied' /\ Held'
  <2>1. Held'
    BY <1>2, <1>6, CallHeld
  <2>2. ASSUME fdwait(t), knot' = knot PROVE knot' = knot /\ Tied'
    <3>1. running' = NoTask /\ runq' = runq \o startFdtask
      BY <2>2 DEF fdwait, suspend, taskcreate, addtask
    <3>2. startFdtask \in Seq(Tasks)
      BY <1>1, EmptySeq DEF startFdtask
    <3>3. pc' \in [Tasks -> PcSet]
      BY <1>2, <2>2 DEF fdwait, suspend, PcSet
    <3> QED BY <1>3, <2>2, <3>1, <3>2, <3>3
  <2>3. CASE FdWait(t) \/ Block(t)
    <3>1. fdwait(t) /\ knot' = knot
      BY <2>3 DEF FdWait, Block, register
    <3> QED BY <2>1, <2>2, <3>1
  <2>4. CASE Transfer(t)
    <3>1. UNCHANGED <<runq, running, pc, knot>>
      BY <2>4 DEF Transfer, vars, schedVars
    <3> QED BY <1>4, <2>1, <3>1
  <2>5. CASE OtherCall(t)
    <3>1. CASE (Create(t) \/ System(t) \/ Park(t) \/ Wake(t)) /\ UNCHANGED fdVars
      <4>1. knot' = knot /\ running' \in {NoTask, running}
        BY <3>1 DEF fdVars, Create, System, Park, Wake, schedVars
      <4>2. running' \in {NoTask, knot}
        BY <4>1 DEF Tied
      <4>3. CASE Create(t) \/ Wake(t)
        <5>1. PICK u \in Users : runq' = runq \o <<u>> /\ pc' \in {[pc EXCEPT ![u] = "start"], [pc EXCEPT ![u] = "user"]}
          BY <4>3 DEF Create, Wake, taskcreate, addtask
        <5>2. <<u>> \in Seq(Tasks) /\ pc' \in [Tasks -> PcSet]
          BY <1>1, <1>2, <5>1 DEF PcSet
        <5> QED BY <1>3, <2>1, <4>1, <4>2, <5>1, <5>2
      <4>4. CASE System(t) \/ Park(t)
        <5>1. runq' = runq /\ pc' \in [Tasks -> PcSet]
          BY <1>2, <4>4 DEF System, Park, schedVars, PcSet
        <5> QED BY <2>1, <4>1, <4>2, <5>1 DEF Tied
      <4> QED BY <3>1, <4>3, <4>4
    <3>2. CASE knot # t /\ (Yield(t) \/ Exit(t) \/ Delay(t)) /\ UNCHANGED fdVars
      <4>1. running = t /\ knot # t /\ t \in Tasks
        BY <1>1, <3>2 DEF Yield, Exit, Delay, CanCall
      <4> QED BY <1>1, <4>1 DEF Tied
    <3>3. CASE Corrupt
      <4>1. UNCHANGED <<runq, running, pc, knot>>
        BY <3>3 DEF Corrupt, schedVars, fdVars
      <4> QED BY <1>4, <2>1, <4>1
    <3> QED BY <2>5, <3>1, <3>2, <3>3 DEF OtherCall
  <2> QED BY <1>6, <2>3, <2>4, <2>5 DEF FdCall
<1>7. CASE UNCHANGED allVars \/ Arrive \/ ((End \/ Tick \/ Ended) /\ UNCHANGED fdVars)
  <2>1. UNCHANGED <<runq, running, pc, knot>> /\ UNCHANGED <<uses, reg, handle, inloop>>
    BY <1>7 DEF allVars, Arrive, End, Tick, Ended, vars, schedVars, fdVars
  <2> QED BY <1>4, <2>1, QuietHeld
<1>8. ~FdErrno /\ ~FdEvents /\ ~FdStart /\ ~FdYieldAgain /\ ~FdInterrupted
  BY <1>1 DEF FdErrno, FdPoll, FdEvents, FdStart, FdYieldAgain, FdInterrupted, FdRuns
<1> QED BY <1>5, <1>6, <1>7, <1>8 DEF FdNext

\* Nothing happens in a process whose lists are damaged.
LEMMA CorruptStays ==
  ASSUME ended = "corrupt", [FdNext]_allVars PROVE UNCHANGED <<vars, fdVars>>
<1>1. ~\E t \in Users : FdCall(t)
  BY DEF FdCall, FdWait, Block, Transfer, OtherCall, register, fdwait, CanCall,
         Create, System, Park, Wake, Yield, Exit, Delay
<1>2. /\ ~Resume /\ ~FdErrno /\ ~FdEvents /\ ~Arrive /\ ~End /\ ~Tick
      /\ ~FdStart /\ ~FdYieldAgain /\ ~FdInterrupted
  BY DEF Resume, Dispatch, FdErrno, FdPoll, FdEvents, Arrive, End, Tick, FdStart, FdYieldAgain,
         FdInterrupted, FdRuns
<1> QED BY <1>1, <1>2 DEF FdNext, Ended, allVars

LEMMA LinedStep == Lined /\ Held /\ [FdNext]_allVars => Lined' /\ Held'
<1> SUFFICES ASSUME Lined, Held, [FdNext]_allVars PROVE Lined' /\ Held'
  OBVIOUS
<1>1. CASE knot # NoTask
  BY <1>1, TiedStays DEF Lined, Untied
<1>2. CASE Untied
  BY <1>2, EventsLined, OthersLined DEF Lined
<1>3. CASE knot = NoTask /\ ended = "corrupt"
  <2>1. UNCHANGED vars /\ UNCHANGED fdVars
    BY <1>3, CorruptStays
  <2>2. knot' = NoTask /\ ended' = "corrupt" /\ UNCHANGED <<uses, reg, handle, inloop, pc>>
    BY <1>3, <2>1 DEF vars, fdVars
  <2> QED BY <2>2, QuietHeld DEF Lined, Untied
<1> QED BY <1>1, <1>2, <1>3 DEF Untied

LEMMA LinedInit == FdInit => Lined /\ Held
<1> SUFFICES ASSUME FdInit PROVE Lined /\ Held
  OBVIOUS
<1>1. Inv /\ Owned
  BY OwnedInit
<1>2. Lined
  BY <1>1 DEF Lined, Inv, FdInit
<1>3. FdTask \in Tasks /\ NoHandle \notin Handles /\ NoTask \notin Tasks
      /\ \A t \in Users : t \in Tasks /\ pc[t] # "fdwait"
  BY TaskAssumption, FdAssumption DEF FdInit, Init, Users
<1>4. Held
  BY <1>1, <1>3 DEF FdInit, Held, Owned, Free, Users
<1> QED BY <1>2, <1>4

\* Whatever is shared, and whatever errno is left behind: a task that waits in
\* fdwait has a registration of its own, for what it waits for, which nobody
\* else's fdwait deletes.
THEOREM WaitersStayRegistered == FdSpec => []WaitersRegistered
<1>1. Held => WaitersRegistered
  BY DEF Held, WaitersRegistered
<1> QED BY <1>1, LinedInit, LinedStep, PTL DEF FdSpec

=============================================================================
