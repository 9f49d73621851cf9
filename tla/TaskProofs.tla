----------------------------- MODULE TaskProofs -----------------------------
(***************************************************************************)
(* Proofs about Task, for any tasks, delays and resolutions of the clock:  *)
(* the two lists and the slots of alltask are exact, taskcount counts what *)
(* it should, the process ends and blocks only when it may, and nobody is  *)
(* overtaken.                                                              *)
(***************************************************************************)
EXTENDS Task, FiniteSetTheorems, SequenceTheorems, TLAPS

\* The list s holds the tasks of S, once each.
Lists(s, S) ==
  /\ s \in Seq(Tasks)
  /\ \A j, k \in 1..Len(s) : s[j] = s[k] => j = k
  /\ \A t : t \in S <=> \E k \in 1..Len(s) : s[k] = t

----------------------------------------------------------------------------
\* Lists of tasks

LEMMA ListsType ==
  ASSUME NEW s, NEW S, Lists(s, S)
  PROVE  /\ Len(s) \in Nat /\ DOMAIN s = 1..Len(s) /\ S \subseteq Tasks
         /\ \A k \in 1..Len(s) : s[k] \in S
BY DEF Lists

LEMMA ListNone == Lists(<<>>, {})
BY EmptySeq DEF Lists

LEMMA ListOne == ASSUME NEW t \in Tasks PROVE Lists(<<t>>, {t})
BY DEF Lists

\* addtask of each task of a list, none of which is on the other one
LEMMA ListConcat ==
  ASSUME NEW r, NEW R, Lists(r, R), NEW s, NEW S, Lists(s, S), R \cap S = {}
  PROVE  Lists(r \o s, R \cup S)
<1> DEFINE c == r \o s
<1>1. r \in Seq(Tasks) /\ s \in Seq(Tasks) /\ Len(r) \in Nat /\ Len(s) \in Nat
  BY DEF Lists
<1>2. /\ c \in Seq(Tasks) /\ Len(c) = Len(r) + Len(s)
      /\ \A i \in 1..(Len(r) + Len(s)) : c[i] = IF i <= Len(r) THEN r[i] ELSE s[i - Len(r)]
  BY <1>1, ConcatProperties
<1> HIDE DEF c
<1>3. \A i \in 1..Len(r) : c[i] = r[i] /\ r[i] \in R
  BY <1>1, <1>2 DEF Lists
<1>4. \A i \in 1..Len(s) : c[Len(r) + i] = s[i] /\ s[i] \in S
  BY <1>1, <1>2 DEF Lists
<1>5. ASSUME NEW i \in 1..Len(c), ~(i <= Len(r))
      PROVE  i - Len(r) \in 1..Len(s) /\ i = Len(r) + (i - Len(r))
  BY <1>1, <1>2, <1>5
<1>6. ASSUME NEW i \in 1..Len(c), NEW j \in 1..Len(c), c[i] = c[j] PROVE i = j
  <2>1. CASE i <= Len(r) /\ j <= Len(r)
    BY <1>1, <1>2, <1>3, <1>6, <2>1 DEF Lists
  <2>2. CASE ~(i <= Len(r)) /\ ~(j <= Len(r))
    <3>1. /\ i - Len(r) \in 1..Len(s) /\ j - Len(r) \in 1..Len(s)
          /\ s[i - Len(r)] = s[j - Len(r)]
      BY <1>4, <1>5, <1>6, <2>2
    <3>2. i - Len(r) = j - Len(r)
      BY <3>1 DEF Lists
    <3> QED BY <1>1, <1>2, <3>2
  <2>3. CASE i <= Len(r) /\ ~(j <= Len(r))
    <3>1. c[i] \in R
      BY <1>1, <1>2, <1>3, <2>3
    <3>2. c[j] \in S
      BY <1>4, <1>5, <2>3
    <3> QED BY <1>6, <3>1, <3>2
  <2>4. CASE ~(i <= Len(r)) /\ j <= Len(r)
    <3>1. c[i] \in S
      BY <1>4, <1>5, <2>4
    <3>2. c[j] \in R
      BY <1>1, <1>2, <1>3, <2>4
    <3> QED BY <1>6, <3>1, <3>2
  <2> QED BY <2>1, <2>2, <2>3, <2>4
<1>7. ASSUME NEW t, t \in R \cup S PROVE \E k \in 1..Len(c) : c[k] = t
  <2>1. CASE t \in R
    <3>1. PICK k \in 1..Len(r) : r[k] = t
      BY <2>1 DEF Lists
    <3>2. k \in 1..Len(c) /\ c[k] = t
      BY <1>1, <1>2, <1>3, <3>1
    <3> QED BY <3>2
  <2>2. CASE t \in S
    <3>1. PICK k \in 1..Len(s) : s[k] = t
      BY <2>2 DEF Lists
    <3>2. Len(r) + k \in 1..Len(c) /\ c[Len(r) + k] = t
      BY <1>1, <1>2, <1>4, <3>1
    <3> QED BY <3>2
  <2> QED BY <1>7, <2>1, <2>2
<1>8. ASSUME NEW k \in 1..Len(c) PROVE c[k] \in R \cup S
  BY <1>1, <1>2, <1>3, <1>4, <1>5
<1> QED BY <1>2, <1>6, <1>7, <1>8 DEF Lists, c

\* A part of a list, and what is behind it
LEMMA ListSplit ==
  ASSUME NEW s, NEW S, Lists(s, S), NEW k \in 0..Len(s)
  PROVE  LET R == {s[j] : j \in 1..k}
         IN /\ R \subseteq S
            /\ Lists(SubSeq(s, 1, k), R)
            /\ Lists(SubSeq(s, k + 1, Len(s)), S \ R)
<1> DEFINE a == SubSeq(s, 1, k)
           b == SubSeq(s, k + 1, Len(s))
           R == {s[j] : j \in 1..k}
<1>1. s \in Seq(Tasks) /\ Len(s) \in Nat /\ k \in Nat
  BY DEF Lists
<1>2. a \in Seq(Tasks) /\ Len(a) = k /\ \A i \in 1..k : a[i] = s[i]
  BY <1>1
<1>3. b \in Seq(Tasks) /\ Len(b) = Len(s) - k /\ \A i \in 1..(Len(s) - k) : b[i] = s[k + i]
  BY <1>1
<1> HIDE DEF a, b
<1>4. R \subseteq S
  BY <1>1 DEF Lists
<1>5. Lists(a, R)
  BY <1>1, <1>2 DEF Lists
<1>6. Lists(b, S \ R)
  <2>1. ASSUME NEW i \in 1..Len(b), NEW j \in 1..Len(b), b[i] = b[j] PROVE i = j
    <3>1. k + i \in 1..Len(s) /\ k + j \in 1..Len(s) /\ s[k + i] = s[k + j]
      BY <1>1, <1>3, <2>1
    <3>2. k + i = k + j
      BY <3>1 DEF Lists
    <3> QED BY <1>1, <1>3, <3>2
  <2>2. ASSUME NEW i \in 1..Len(b) PROVE b[i] \in S \ R
    <3>1. k + i \in 1..Len(s) /\ b[i] = s[k + i] /\ \A j \in 1..k : j # k + i /\ j \in 1..Len(s)
      BY <1>1, <1>3
    <3> QED BY <3>1 DEF Lists
  <2>3. ASSUME NEW t \in S \ R PROVE \E i \in 1..Len(b) : b[i] = t
    <3>1. PICK j \in 1..Len(s) : s[j] = t
      BY DEF Lists
    <3>2. ~(j \in 1..k)
      BY <2>3, <3>1
    <3>3. j - k \in 1..Len(b) /\ k + (j - k) = j
      BY <1>1, <1>3, <3>2
    <3>4. b[j - k] = t
      BY <1>3, <3>1, <3>3
    <3> QED BY <3>3, <3>4
  <2> QED BY <1>3, <2>1, <2>2, <2>3 DEF Lists
<1> QED BY <1>4, <1>5, <1>6 DEF a, b

LEMMA ListTail ==
  ASSUME NEW s, NEW S, Lists(s, S), s # <<>>
  PROVE  Head(s) \in S /\ Lists(Tail(s), S \ {Head(s)})
<1>1. s \in Seq(Tasks) /\ Len(s) \in Nat \ {0}
  BY EmptySeq DEF Lists
<1>2. Head(s) = s[1] /\ Tail(s) = SubSeq(s, 1 + 1, Len(s))
  BY <1>1, TailIsSubSeq
<1>3. 1 \in 0..Len(s) /\ {s[j] : j \in 1..1} = {s[1]}
  BY <1>1
<1>4. Lists(SubSeq(s, 1 + 1, Len(s)), S \ {s[j] : j \in 1..1})
  BY <1>3, ListSplit
<1> QED BY <1>1, <1>2, <1>3, <1>4 DEF Lists

----------------------------------------------------------------------------
(***************************************************************************)
(* The places of the tasks.                                                *)
(***************************************************************************)
PcSet == {"free", "start", "user", "yield", "delay", "switch", "fdwait", "epoll"}

\* Who is on the run queue
Ready == {t \in Tasks : running # t /\ pc[t] \in {"start", "user", "yield"}}

\* Who runs what; fdtask never calls what its users call.
Roles ==
  /\ pc \in [Tasks -> PcSet]
  /\ running \in Tasks \cup {NoTask}
  /\ \A t \in Users : running = t => pc[t] = "user"
  /\ \A t \in Users : pc[t] # "epoll"
  /\ pc[FdTask] \in {"free", "start", "yield", "epoll"}
  /\ running = FdTask => pc[FdTask] # "free"
  /\ pc[FdTask] = "epoll" => running = FdTask
  /\ startedfdtask = (pc[FdTask] # "free")
  /\ \A t \in Users : pc[t] \in {"delay", "fdwait"} => startedfdtask

Places == Lists(runq, Ready) /\ Lists(sleeping, Sleepers)

\* Some tasks are added to the run queue.
LEMMA QueueGrows ==
  ASSUME Places, NEW ts, NEW S, Lists(ts, S), S \cap Ready = {},
         addtask(ts), Ready' = Ready \cup S
  PROVE  Lists(runq', Ready')
BY ListConcat DEF Places, addtask

\* taskyield: the tasks ts are readied, and the caller behind them.
LEMMA YieldPlaces ==
  ASSUME Roles, Places, NEW t \in Tasks, running = t, NEW ts, NEW S, Lists(ts, S),
         S \cap Ready = {}, t \notin S, taskyield(t, ts)
  PROVE  /\ Lists(runq', Ready')
         /\ running' = NoTask
         /\ pc' = [u \in Tasks |-> IF u = t THEN "yield" ELSE IF u \in S THEN "user" ELSE pc[u]]
<1>1. \A u \in Tasks : u \in S <=> \E k \in DOMAIN ts : ts[k] = u
  BY ListsType DEF Lists
<1>2. pc' = [u \in Tasks |-> IF u = t THEN "yield" ELSE IF u \in S THEN "user" ELSE pc[u]]
  BY <1>1 DEF taskyield
<1>3. running' = NoTask /\ NoTask \notin Tasks /\ S \subseteq Tasks
  BY TaskAssumption, ListsType DEF taskyield
<1>4. Lists(ts \o <<t>>, S \cup {t})
  BY ListConcat, ListOne
<1>5. Ready' = Ready \cup (S \cup {t})
  BY <1>2, <1>3 DEF Ready, Roles
<1>6. (S \cup {t}) \cap Ready = {}
  BY DEF Ready
<1> QED BY <1>2, <1>3, <1>4, <1>5, <1>6, QueueGrows DEF taskyield

\* fdwait and taskdelay switch away from t and start fdtask if need be.
LEMMA SuspendPlaces ==
  ASSUME Roles, Places, NEW t \in Users, CanCall(t), NEW where \in {"fdwait", "delay"},
         addtask(startFdtask), suspend(t, where)
  PROVE  /\ Lists(runq', Ready')
         /\ Roles'
         /\ pc'[t] = where
         /\ \A u \in Users : u # t => pc'[u] = pc[u]
<1> DEFINE S == IF startedfdtask THEN {} ELSE {FdTask}
<1>0. t \in Tasks /\ FdTask \in Tasks /\ t # FdTask /\ NoTask \notin Tasks
  BY TaskAssumption DEF Users
<1>1. Lists(startFdtask, S)
  BY <1>0, ListNone, ListOne DEF startFdtask
<1>2. /\ pc' = [u \in Tasks |-> IF u = t THEN where
                                ELSE IF u = FdTask /\ ~startedfdtask THEN "start" ELSE pc[u]]
      /\ running' = NoTask /\ startedfdtask' = TRUE
      /\ running = t /\ pc[t] = "user"
  BY DEF suspend, CanCall
<1>3. Ready' = Ready \cup S
  BY <1>0, <1>2 DEF Ready, Roles
<1>4. S \cap Ready = {}
  BY DEF Ready, Roles
<1>5. Lists(runq', Ready')
  BY <1>1, <1>3, <1>4, QueueGrows
<1>6. Roles'
  BY <1>0, <1>2 DEF Roles, PcSet, Users
<1> QED BY <1>0, <1>2, <1>5, <1>6 DEF Users

LEMMA CreatePlaces ==
  ASSUME Roles, Places, NEW t \in Users, Create(t) PROVE Roles' /\ Places'
<1>1. PICK u \in Users : /\ pc[u] = "free" /\ taskcreate(<<u>>, 0)
                         /\ pc' = [pc EXCEPT ![u] = "start"]
  BY DEF Create
<1>2. UNCHANGED <<running, sleeping, startedfdtask>> /\ u \in Tasks
  BY DEF Create, sleepVars, Users
<1>3. Ready' = Ready \cup {u} /\ {u} \cap Ready = {} /\ Sleepers' = Sleepers
  BY <1>1, <1>2 DEF Ready, Sleepers, Roles
<1>4. Lists(runq', Ready')
  BY <1>1, <1>2, <1>3, QueueGrows, ListOne DEF taskcreate
<1>5. Roles'
  BY <1>1, <1>2 DEF Roles, PcSet, Users
<1> QED BY <1>2, <1>3, <1>4, <1>5 DEF Places

LEMMA SwitchPlaces ==
  ASSUME Roles, Places, NEW t \in Users, Yield(t) \/ Park(t) \/ Wake(t) \/ Exit(t)
  PROVE  Roles' /\ Places'
<1>0. /\ running = t /\ pc[t] = "user" /\ t \in Tasks /\ t # FdTask /\ NoTask \notin Tasks
      /\ UNCHANGED <<sleeping, startedfdtask>>
  BY TaskAssumption DEF Yield, Park, Wake, Exit, CanCall, Users, sleepVars
<1>1. CASE Yield(t)
  <2>1. /\ Lists(runq', Ready') /\ running' = NoTask
        /\ pc' = [u \in Tasks |-> IF u = t THEN "yield" ELSE IF u \in {} THEN "user" ELSE pc[u]]
    BY <1>0, <1>1, ListNone, YieldPlaces DEF Yield
  <2>2. Sleepers' = Sleepers
    BY <1>0, <2>1 DEF Sleepers
  <2>3. Roles'
    <3>1. pc' \in [Tasks -> PcSet]
      BY <2>1 DEF Roles, PcSet
    <3>2. \A u \in Tasks : u # t => pc'[u] = pc[u]
      BY <2>1
    <3>3. pc'[t] = "yield" /\ FdTask \in Tasks
      BY <1>0, <2>1, TaskAssumption
    <3> QED BY <1>0, <2>1, <3>1, <3>2, <3>3 DEF Roles, Users
  <2> QED BY <1>0, <2>1, <2>2, <2>3 DEF Places
<1>2. CASE Park(t) \/ Exit(t)
  <2>1. /\ running' = NoTask /\ runq' = runq
        /\ pc' = [pc EXCEPT ![t] = "switch"] \/ pc' = [pc EXCEPT ![t] = "free"]
    BY <1>2 DEF Park, Exit
  <2>2. Sleepers' = Sleepers /\ Ready' = Ready
    BY <1>0, <2>1 DEF Sleepers, Ready, Roles
  <2>3. Roles'
    <3>1. pc' \in [Tasks -> PcSet]
      BY <2>1 DEF Roles, PcSet
    <3>2. \A u \in Tasks : u # t => pc'[u] = pc[u]
      BY <2>1 DEF Roles
    <3>3. pc'[t] \in {"switch", "free"} /\ FdTask \in Tasks
      BY <1>0, <2>1, TaskAssumption DEF Roles
    <3> QED BY <1>0, <2>1, <3>1, <3>2, <3>3 DEF Roles, Users
  <2> QED BY <1>0, <2>1, <2>2, <2>3 DEF Places
<1>3. CASE Wake(t)
  <2>1. PICK u \in Users : pc[u] = "switch" /\ addtask(<<u>>) /\ pc' = [pc EXCEPT ![u] = "user"]
    BY <1>3 DEF Wake, wakeable
  <2>2. running' = running /\ u \in Tasks
    BY <1>3 DEF Wake, Users
  <2>3. Ready' = Ready \cup {u} /\ {u} \cap Ready = {} /\ Sleepers' = Sleepers
    BY <1>0, <2>1, <2>2 DEF Ready, Sleepers, Roles
  <2>4. Lists(runq', Ready')
    BY <2>1, <2>2, <2>3, QueueGrows, ListOne
  <2>5. Roles'
    BY <1>0, <2>1, <2>2 DEF Roles, PcSet, Users
  <2> QED BY <1>0, <2>3, <2>4, <2>5 DEF Places
<1> QED BY <1>1, <1>2, <1>3

LEMMA DispatchPlaces == Roles /\ Places /\ Dispatch => Roles' /\ Places'
<1> SUFFICES ASSUME Roles, Places, Dispatch PROVE Roles' /\ Places'
  OBVIOUS
<1> DEFINE t == Head(runq)
<1>1. /\ running = NoTask /\ runq # <<>> /\ running' = t /\ runq' = Tail(runq)
      /\ pc' = IF t = FdTask THEN pc ELSE [pc EXCEPT ![t] = "user"]
      /\ UNCHANGED <<sleeping, startedfdtask>>
  BY DEF Dispatch, sleepVars
<1>2. t \in Ready /\ Lists(runq', Ready \ {t})
  BY <1>1, ListTail DEF Places
<1>3. t \in Tasks /\ pc[t] \in {"start", "user", "yield"} /\ NoTask \notin Tasks
  BY <1>2, TaskAssumption DEF Ready
<1> HIDE DEF t
<1>4. Ready' = Ready \ {t} /\ Sleepers' = Sleepers
  BY <1>1, <1>3 DEF Ready, Sleepers, Roles
<1>5. Roles'
  <2>1. pc' \in [Tasks -> PcSet]
    BY <1>1, <1>3 DEF Roles, PcSet
  <2>2. \A u \in Tasks : u # t => pc'[u] = pc[u]
    BY <1>1 DEF Roles
  <2>3. IF t = FdTask THEN pc'[t] = pc[t] ELSE pc'[t] = "user"
    BY <1>1, <1>3 DEF Roles
  <2>4. FdTask \in Tasks /\ pc'[FdTask] = pc[FdTask]
    BY <2>2, <2>3, TaskAssumption
  <2> QED BY <1>1, <1>3, <2>1, <2>2, <2>3, <2>4 DEF Roles, Users
<1> QED BY <1>1, <1>2, <1>4, <1>5 DEF Places

LEMMA WaitPlaces ==
  ASSUME Roles, Places, NEW t \in Users, fdwait(t)
  PROVE  Roles' /\ Places'
<1>1. /\ CanCall(t) /\ addtask(startFdtask) /\ suspend(t, "fdwait") /\ sleeping' = sleeping
  BY DEF fdwait, taskcreate
<1>2. /\ Lists(runq', Ready') /\ Roles' /\ pc'[t] = "fdwait"
      /\ \A u \in Users : u # t => pc'[u] = pc[u]
  BY <1>1, SuspendPlaces
<1>3. Sleepers' = Sleepers
  BY <1>1, <1>2 DEF Sleepers, Users, Roles, CanCall
<1> QED BY <1>1, <1>2, <1>3 DEF Places

\* taskdelay puts the caller somewhere into the sleeping list.
LEMMA InsertedList ==
  ASSUME NEW s, NEW S, Lists(s, S), NEW k \in 0..Len(s), NEW t \in Tasks, t \notin S
  PROVE  Lists(SubSeq(s, 1, k) \o <<t>> \o SubSeq(s, k + 1, Len(s)), S \cup {t})
<1> DEFINE R == {s[j] : j \in 1..k}
           a == SubSeq(s, 1, k)
           b == SubSeq(s, k + 1, Len(s))
<1>1. R \subseteq S /\ Lists(a, R) /\ Lists(b, S \ R)
  BY ListSplit
<1> HIDE DEF R, a, b
<1>2. Lists(a \o <<t>>, R \cup {t})
  BY <1>1, ListOne, ListConcat
<1>3. (R \cup {t}) \cap (S \ R) = {} /\ (R \cup {t}) \cup (S \ R) = S \cup {t}
  BY <1>1
<1>4. Lists((a \o <<t>>) \o b, S \cup {t})
  BY <1>1, <1>2, <1>3, ListConcat
<1> QED BY <1>4 DEF a, b

LEMMA DelayPlaces ==
  ASSUME Roles, Places, NEW t \in Users, Delay(t)
  PROVE  Roles' /\ Places'
<1>1. /\ CanCall(t) /\ addtask(startFdtask) /\ suspend(t, "delay")
      /\ \E k \in 0..Len(sleeping) :
           sleeping' = SubSeq(sleeping, 1, k) \o <<t>> \o SubSeq(sleeping, k + 1, Len(sleeping))
  BY DEF Delay, taskcreate, insertSleeper
<1>2. /\ Lists(runq', Ready') /\ Roles' /\ pc'[t] = "delay"
      /\ \A u \in Users : u # t => pc'[u] = pc[u]
  BY <1>1, SuspendPlaces
<1>3. t \in Tasks /\ t \notin Sleepers /\ Sleepers' = Sleepers \cup {t}
  BY <1>1, <1>2 DEF Sleepers, Users, Roles, CanCall
<1>4. Lists(sleeping', Sleepers \cup {t})
  BY <1>1, <1>3, InsertedList DEF Places
<1> QED BY <1>2, <1>3, <1>4 DEF Places

----------------------------------------------------------------------------
\* fdtask

LEMMA FdYieldPlaces ==
  ASSUME Roles, Places, FdStart \/ FdYieldAgain \/ FdInterrupted
  PROVE  Roles' /\ Places'
<1>1. /\ running = FdTask /\ pc[FdTask] \in {"start", "yield", "epoll"}
      /\ taskyield(FdTask, <<>>) /\ UNCHANGED <<sleeping, startedfdtask>>
      /\ FdTask \in Tasks /\ NoTask \notin Tasks
  BY TaskAssumption DEF FdStart, FdYieldAgain, FdInterrupted, FdRuns, sleepVars
<1>2. /\ Lists(runq', Ready') /\ running' = NoTask
      /\ pc' = [u \in Tasks |-> IF u = FdTask THEN "yield" ELSE IF u \in {} THEN "user" ELSE pc[u]]
  BY <1>1, ListNone, YieldPlaces
<1>3. /\ pc'[FdTask] = "yield" /\ pc' \in [Tasks -> PcSet]
      /\ \A u \in Tasks : u # FdTask => pc'[u] = pc[u]
  BY <1>1, <1>2 DEF Roles, PcSet
<1>4. Sleepers' = Sleepers
  BY <1>1, <1>3 DEF Sleepers
<1>5. Roles'
  BY <1>1, <1>2, <1>3 DEF Roles, Users
<1> QED BY <1>1, <1>2, <1>4, <1>5 DEF Places

LEMMA FdPollPlaces ==
  ASSUME Roles, Places, FdPoll PROVE Roles' /\ Places'
<1>1. /\ running = FdTask /\ pc[FdTask] = "yield" /\ pc' = [pc EXCEPT ![FdTask] = "epoll"]
      /\ UNCHANGED <<runq, running, sleeping, startedfdtask>> /\ FdTask \in Tasks
  BY TaskAssumption DEF FdPoll, FdRuns, sleepVars, schedVars
<1>2. /\ pc'[FdTask] = "epoll" /\ pc' \in [Tasks -> PcSet]
      /\ \A u \in Tasks : u # FdTask => pc'[u] = pc[u]
  BY <1>1 DEF Roles, PcSet
<1>3. Sleepers' = Sleepers /\ Ready' = Ready
  BY <1>1, <1>2 DEF Sleepers, Ready
<1>4. Roles'
  BY <1>1, <1>2 DEF Roles, Users
<1> QED BY <1>1, <1>3, <1>4 DEF Places

LEMMA OrderIsList ==
  ASSUME NEW W \in SUBSET Tasks, NEW s \in Orders(W)
  PROVE  Lists(s, {s[j] : j \in 1..Len(s)}) /\ {s[j] : j \in 1..Len(s)} \subseteq W
<1>1. Cardinality(W) \in Nat
  BY TaskAssumption, FS_Subset, FS_CardinalityType
<1>2. PICK n \in 0..Cardinality(W) : s \in [1..n -> W]
  BY DEF Orders
<1>3. n \in Nat /\ s \in Seq(W) /\ Len(s) = n /\ DOMAIN s = 1..n
  BY <1>1, <1>2
<1>4. \A j, k \in 1..Len(s) : s[j] = s[k] => j = k
  BY <1>3 DEF Orders
<1>5. \A j \in 1..Len(s) : s[j] \in W
  BY <1>2, <1>3
<1>6. s \in Seq(Tasks)
  BY <1>3
<1> QED BY <1>4, <1>5, <1>6 DEF Lists

\* What epoll_wait's return readies: the tasks io and the sleepers R.
LEMMA FdReadyPlaces ==
  ASSUME Roles, Places, FdRuns("epoll"), NEW io, NEW S, Lists(io, S), S \subseteq Users,
         \A u \in S : pc[u] \in {"fdwait", "switch"}, FdReady(io)
  PROVE  /\ Roles' /\ Places'
         /\ \A u \in Users : pc'[u] # pc[u] => (u \in S \/ pc[u] = "delay") /\ pc'[u] = "user"
<1>2. PICK k \in 0..Len(sleeping) :
        /\ sleeping' = SubSeq(sleeping, k + 1, Len(sleeping))
        /\ taskyield(FdTask, io \o SubSeq(sleeping, 1, k))
        /\ startedfdtask' = startedfdtask
  BY DEF FdReady
<1> DEFINE R == {sleeping[j] : j \in 1..k}
<1>4. /\ R \subseteq Sleepers /\ Lists(SubSeq(sleeping, 1, k), R)
      /\ Lists(sleeping', Sleepers \ R)
  BY <1>2, ListSplit DEF Places
<1> HIDE DEF R
<1>5. S \cap R = {}
  BY <1>4 DEF Sleepers
<1>6. Lists(io \o SubSeq(sleeping, 1, k), S \cup R)
  BY <1>4, <1>5, ListConcat
<1>7. running = FdTask /\ FdTask \in Tasks /\ NoTask \notin Tasks /\ pc[FdTask] = "epoll"
  BY TaskAssumption DEF FdRuns
<1>8. (S \cup R) \cap Ready = {} /\ FdTask \notin S \cup R
  BY <1>4, <1>7 DEF Ready, Sleepers, Users
<1>9. /\ Lists(runq', Ready') /\ running' = NoTask
      /\ pc' = [u \in Tasks |-> IF u = FdTask THEN "yield" ELSE IF u \in S \cup R THEN "user" ELSE pc[u]]
  BY <1>2, <1>6, <1>7, <1>8, YieldPlaces
<1>10. /\ pc'[FdTask] = "yield" /\ pc' \in [Tasks -> PcSet]
       /\ \A u \in Users : pc'[u] = IF u \in S \cup R THEN "user" ELSE pc[u]
  BY <1>7, <1>9 DEF Roles, PcSet, Users
<1>11. Sleepers' = Sleepers \ R
  <2>1. \A u \in Users : pc'[u] = "delay" <=> pc[u] = "delay" /\ u \notin R
    BY <1>4, <1>10 DEF Sleepers
  <2> QED BY <1>7, <1>10, <2>1 DEF Sleepers, Users
<1>12. Roles'
  BY <1>2, <1>7, <1>9, <1>10 DEF Roles, Users
<1>13. \A u \in R : pc[u] = "delay"
  BY <1>4 DEF Sleepers
<1> QED BY <1>4, <1>9, <1>10, <1>11, <1>12, <1>13 DEF Places

LEMMA FdReturnPlaces ==
  ASSUME Roles, Places, FdReturn
  PROVE  /\ Roles' /\ Places'
         /\ \A u \in Users : pc'[u] # pc[u] => pc[u] \in {"fdwait", "delay"} /\ pc'[u] = "user"
<1> DEFINE W == {t \in Users : pc[t] = "fdwait"}
<1>1. PICK io \in Orders(W) : FdReady(io) /\ FdRuns("epoll")
  BY DEF FdReturn
<1> DEFINE S == {io[j] : j \in 1..Len(io)}
<1>2. Lists(io, S) /\ S \subseteq W
  BY OrderIsList DEF Users
<1> HIDE DEF S
<1>3. S \subseteq Users /\ \A u \in S : pc[u] \in {"fdwait", "switch"}
  BY <1>2
<1> QED BY <1>1, <1>2, <1>3, FdReadyPlaces

LEMMA PlacesStep == Roles /\ Places /\ [Next]_vars => Roles' /\ Places'
<1> SUFFICES ASSUME Roles, Places, [Next]_vars PROVE Roles' /\ Places'
  OBVIOUS
<1>1. ASSUME UNCHANGED <<pc, runq, running, sleeping, startedfdtask>> PROVE Roles' /\ Places'
  BY <1>1 DEF Roles, Places, Ready, Sleepers, Lists
<1>2. ASSUME NEW t \in Users, Call(t) PROVE Roles' /\ Places'
  <2>1. CASE System(t)
    BY <1>1, <2>1 DEF System, schedVars, sleepVars
  <2> QED BY <1>2, <2>1, CreatePlaces, SwitchPlaces, WaitPlaces, DelayPlaces DEF Call
<1>3. CASE FdStep
  BY <1>3, FdYieldPlaces, FdPollPlaces, FdReturnPlaces DEF FdStep
<1>4. CASE End \/ Tick \/ Ended \/ UNCHANGED vars
  BY <1>1, <1>4 DEF End, Tick, Ended, vars, schedVars, sleepVars
<1> QED BY <1>2, <1>3, <1>4, DispatchPlaces DEF Next

LEMMA PlacesInit == Init => Roles /\ Places
<1> SUFFICES ASSUME Init PROVE Roles /\ Places
  OBVIOUS
<1>1. Main \in Tasks /\ FdTask \in Tasks /\ Main # FdTask /\ NoTask \notin Tasks
  BY TaskAssumption
<1>2. Lists(<<Main>>, {Main}) /\ Lists(<<>>, {})
  BY <1>1, ListOne, ListNone
<1>3. Ready = {Main} /\ Sleepers = {}
  BY <1>1 DEF Init, Ready, Sleepers
<1>4. Roles
  BY <1>1 DEF Init, Roles, PcSet, Users
<1> QED BY <1>2, <1>3, <1>4 DEF Init, Places

----------------------------------------------------------------------------
\* times, of a list

LEMMA TimesOnList ==
  ASSUME NEW s, NEW S, Lists(s, S), NEW t
  PROVE  times(t, s) = IF t \in S THEN 1 ELSE 0
<1> DEFINE K == {k \in DOMAIN s : s[k] = t}
<1>1. CASE t \in S
  <2>1. PICK k \in DOMAIN s : s[k] = t
    BY <1>1, ListsType DEF Lists
  <2>2. K = {k}
    BY <2>1, ListsType DEF Lists
  <2> QED BY <1>1, <2>2, FS_Singleton DEF times
<1>2. CASE t \notin S
  <2>1. K = {}
    BY <1>2, ListsType
  <2> QED BY <1>2, <2>1, FS_EmptySet DEF times
<1> QED BY <1>1, <1>2

\* Every task is in exactly one place: taskready, taskyield, taskdelay, fdtask
\* and the scheduler keep it so, whatever is called in which order.
THEOREM TasksInOnePlace == Spec => []OnePlace
<1>1. Roles /\ Places => OnePlace
  <2> SUFFICES ASSUME Roles, Places, NEW t \in Tasks
               PROVE  /\ times(t, sleeping) = (IF pc[t] = "delay" THEN 1 ELSE 0)
                      /\ times(t, runq) = (IF running # t /\ pc[t] \in {"start", "user", "yield"}
                                           THEN 1 ELSE 0)
                      /\ running = t => pc[t] \notin {"free", "delay", "switch", "fdwait"}
    BY DEF OnePlace
  <2>1. times(t, sleeping) = (IF t \in Sleepers THEN 1 ELSE 0)
    BY TimesOnList DEF Places
  <2>2. times(t, runq) = (IF t \in Ready THEN 1 ELSE 0)
    BY TimesOnList DEF Places
  <2>3. running = t => pc[t] \notin {"free", "delay", "switch", "fdwait"}
    BY DEF Roles, Users
  <2> QED BY <2>1, <2>2, <2>3 DEF Sleepers, Ready
<1> QED BY <1>1, PlacesInit, PlacesStep, PTL DEF Spec

----------------------------------------------------------------------------
(***************************************************************************)
(* The slots of alltask.                                                   *)
(***************************************************************************)
Slots ==
  /\ Lists(alltask, Live)
  /\ slot \in [Tasks -> Nat]
  /\ \A i \in 1..Len(alltask) : slot[alltask[i]] = i

LEMMA TaskcreateSlots ==
  ASSUME Slots, NEW ts, NEW S, Lists(ts, S), S \cap Live = {}, NEW extra,
         taskcreate(ts, extra), Live' = Live \cup S
  PROVE  Slots'
<1>1. Lists(alltask', Live')
  BY ListConcat DEF Slots, taskcreate
<1>2. /\ ts \in Seq(Tasks) /\ alltask \in Seq(Tasks) /\ Len(ts) \in Nat /\ Len(alltask) \in Nat
      /\ DOMAIN ts = 1..Len(ts)
  BY ListsType DEF Lists, Slots
<1>3. /\ Len(alltask') = Len(alltask) + Len(ts)
      /\ \A i \in 1..(Len(alltask) + Len(ts)) :
           alltask'[i] = IF i <= Len(alltask) THEN alltask[i] ELSE ts[i - Len(alltask)]
  BY <1>2, ConcatProperties DEF taskcreate
<1>4. \A k \in DOMAIN ts : (CHOOSE j \in DOMAIN ts : ts[j] = ts[k]) = k
  <2> TAKE k \in DOMAIN ts
  <2>1. \A j \in DOMAIN ts : ts[j] = ts[k] <=> j = k
    BY <1>2 DEF Lists
  <2> QED BY <2>1
<1>5. \A t \in Tasks : slot'[t] = IF \E k \in DOMAIN ts : ts[k] = t
                                  THEN Len(alltask) + (CHOOSE k \in DOMAIN ts : ts[k] = t)
                                  ELSE slot[t]
  BY DEF taskcreate
<1>6. \A k \in DOMAIN ts : ts[k] \in Tasks /\ ts[k] \in S /\ slot'[ts[k]] = Len(alltask) + k
  BY <1>2, <1>4, <1>5, ListsType
<1>7. \A t \in Tasks : t \notin S => slot'[t] = slot[t]
  BY <1>5, <1>6
<1>8. slot' \in [Tasks -> Nat]
  <2>1. slot' = [t \in Tasks |-> slot'[t]]
    BY DEF taskcreate
  <2>2. ASSUME NEW t \in S PROVE slot'[t] \in Nat
    <3>1. PICK k \in DOMAIN ts : ts[k] = t
      BY <1>2 DEF Lists
    <3> QED BY <1>2, <1>6, <3>1
  <2>3. ASSUME NEW t \in Tasks, t \notin S PROVE slot'[t] \in Nat
    BY <1>7, <2>3 DEF Slots
  <2> QED BY <2>1, <2>2, <2>3
<1>9. ASSUME NEW i \in 1..Len(alltask') PROVE slot'[alltask'[i]] = i
  <2>1. CASE i <= Len(alltask)
    <3>1. alltask'[i] = alltask[i] /\ i \in 1..Len(alltask)
      BY <1>2, <1>3, <2>1
    <3>2. alltask[i] \in Live /\ alltask[i] \in Tasks
      BY <3>1, ListsType DEF Slots, Live
    <3> QED BY <1>7, <3>1, <3>2 DEF Slots
  <2>2. CASE ~(i <= Len(alltask))
    <3>1. i - Len(alltask) \in 1..Len(ts) /\ alltask'[i] = ts[i - Len(alltask)]
      BY <1>2, <1>3, <2>2
    <3> QED BY <1>2, <1>6, <3>1
  <2> QED BY <2>1, <2>2
<1> QED BY <1>1, <1>8, <1>9 DEF Slots

\* The last task moves to the slot of the one that exits.
LEMMA FreeSlots ==
  ASSUME Slots, NEW t \in Live, freeSlot(t), Live' = Live \ {t}
  PROVE  Slots'
<1> DEFINE n == Len(alltask)
           i == slot[t]
           last == alltask[n]
<1>1. alltask \in Seq(Tasks) /\ n \in Nat /\ t \in Tasks
  BY DEF Slots, Lists, Live
<1>2. i \in 1..n /\ alltask[i] = t
  BY DEF Slots, Lists
<1>3. last \in Live /\ last \in Tasks /\ slot[last] = n /\ n \in 1..n
  BY <1>1, <1>2, ListsType DEF Slots, Live
<1>4. /\ alltask' \in Seq(Tasks) /\ Len(alltask') = n - 1
      /\ \A j \in 1..(n - 1) : alltask'[j] = IF j = i THEN last ELSE alltask[j]
  <2> DEFINE a == [alltask EXCEPT ![i] = last]
  <2>1. a \in Seq(Tasks) /\ Len(a) = n /\ \A j \in 1..n : a[j] = IF j = i THEN last ELSE alltask[j]
    BY <1>1, <1>2, <1>3
  <2>2. alltask' = SubSeq(a, 1, n - 1)
    BY DEF freeSlot
  <2> HIDE DEF a
  <2> QED BY <1>1, <1>2, <2>1, <2>2
<1>5. /\ slot' \in [Tasks -> Nat]
      /\ \A u \in Tasks : slot'[u] = IF u = t THEN 0 ELSE IF u = last THEN i ELSE slot[u]
  BY <1>1, <1>3 DEF freeSlot, Slots
<1> HIDE DEF n, i, last
<1>6. \A j, k \in 1..n : alltask[j] = alltask[k] => j = k
  BY DEF Slots, Lists, n
<1>7. \A j \in 1..n : alltask[j] \in Live /\ alltask[j] \in Tasks /\ slot[alltask[j]] = j
  BY ListsType DEF Slots, Live, n
<1>8. last = alltask[n]
  BY DEF last
<1>9. ASSUME NEW j \in 1..(n - 1)
      PROVE  alltask'[j] \in Live \ {t} /\ slot'[alltask'[j]] = j
  <2>1. j \in 1..n /\ j # n
    BY <1>1, <1>9
  <2>2. CASE j = i
    BY <1>2, <1>3, <1>4, <1>5, <1>6, <1>8, <2>1, <2>2
  <2>3. CASE j # i
    BY <1>2, <1>3, <1>4, <1>5, <1>6, <1>7, <1>8, <2>1, <2>3
  <2> QED BY <2>2, <2>3
<1>10. ASSUME NEW u \in Live \ {t} PROVE \E j \in 1..(n - 1) : alltask'[j] = u
  <2>1. PICK j \in 1..n : alltask[j] = u
    BY DEF Slots, Lists, n
  <2>2. j # i
    BY <1>2, <2>1
  <2>3. CASE j = n
    <3>1. i \in 1..(n - 1) /\ alltask'[i] = u
      BY <1>1, <1>2, <1>4, <1>8, <2>1, <2>2, <2>3
    <3> QED BY <3>1
  <2>4. CASE j # n
    <3>1. j \in 1..(n - 1) /\ alltask'[j] = u
      BY <1>1, <1>4, <2>1, <2>2, <2>4
    <3> QED BY <3>1
  <2> QED BY <2>3, <2>4
<1>11. \A j, k \in 1..(n - 1) : alltask'[j] = alltask'[k] => j = k
  BY <1>9
<1> QED BY <1>4, <1>5, <1>9, <1>10, <1>11 DEF Slots, Lists

----------------------------------------------------------------------------
(***************************************************************************)
(* Which tasks a step creates, frees, puts to sleep or wakes.              *)
(***************************************************************************)
Quiet == Live' = Live /\ Sleepers' = Sleepers /\ UNCHANGED <<countVars, sleepingcounted>>

QuietStep ==
  \/ \E t \in Users : Yield(t) \/ Park(t) \/ Wake(t)
  \/ Dispatch \/ FdYieldAgain \/ FdPoll \/ FdInterrupted
  \/ End \/ Tick \/ Ended \/ UNCHANGED vars

LEMMA YieldsAlone ==
  ASSUME Roles, NEW t \in Tasks, taskyield(t, <<>>)
  PROVE  pc'[t] = "yield" /\ \A u \in Tasks : u # t => pc'[u] = pc[u]
BY DEF taskyield

LEMMA QuietIsQuiet == ASSUME Roles, Places, QuietStep PROVE Quiet
<1> USE DEF Quiet, Live, Sleepers
<1>0. FdTask \in Tasks
  BY TaskAssumption
<1>1. ASSUME NEW t \in Users, Yield(t) PROVE Quiet
  <2>1. pc[t] = "user" /\ UNCHANGED <<countVars, sleepingcounted>> /\ taskyield(t, <<>>)
    BY <1>1 DEF Yield, CanCall, sleepVars
  <2> QED BY <2>1, YieldsAlone DEF Users
<1>2. ASSUME NEW t \in Users, Park(t) PROVE Quiet
  <2>1. pc[t] = "user" /\ UNCHANGED <<countVars, sleepingcounted>>
    BY <1>2 DEF Park, CanCall, sleepVars
  <2> QED BY <1>2, <2>1 DEF Park, Roles
<1>3. ASSUME NEW t \in Users, Wake(t) PROVE Quiet
  <2>1. PICK u \in Users : pc[u] = "switch" /\ pc' = [pc EXCEPT ![u] = "user"]
    BY <1>3 DEF Wake, wakeable
  <2>2. UNCHANGED <<countVars, sleepingcounted>>
    BY <1>3 DEF Wake, sleepVars
  <2> QED BY <2>1, <2>2 DEF Roles
<1>4. CASE Dispatch
  <2>1. Head(runq) \in Ready
    BY <1>4, ListTail DEF Dispatch, Places
  <2>2. pc[Head(runq)] \in {"start", "user", "yield"}
    BY <2>1 DEF Ready
  <2>3. /\ pc' = pc \/ pc' = [pc EXCEPT ![Head(runq)] = "user"]
        /\ UNCHANGED <<countVars, sleepingcounted>>
    BY <1>4 DEF Dispatch, sleepVars
  <2> QED BY <2>2, <2>3 DEF Roles
<1>5. CASE FdYieldAgain \/ FdInterrupted
  <2>1. /\ pc[FdTask] \in {"yield", "epoll"} /\ taskyield(FdTask, <<>>)
        /\ UNCHANGED <<countVars, sleepingcounted>>
    BY <1>5 DEF FdYieldAgain, FdInterrupted, FdRuns, sleepVars
  <2> QED BY <1>0, <2>1, YieldsAlone
<1>6. CASE FdPoll
  <2>1. /\ pc[FdTask] = "yield" /\ pc' = [pc EXCEPT ![FdTask] = "epoll"]
        /\ UNCHANGED <<countVars, sleepingcounted>>
    BY <1>6 DEF FdPoll, FdRuns, sleepVars
  <2> QED BY <1>0, <2>1 DEF Roles
<1>7. CASE End \/ Tick \/ Ended \/ UNCHANGED vars
  BY <1>7 DEF End, Tick, Ended, vars, sleepVars
<1> QED BY <1>1, <1>2, <1>3, <1>4, <1>5, <1>6, <1>7 DEF QuietStep

\* The task that is created, in Create
LEMMA CreateKinds ==
  ASSUME Roles, NEW t \in Users, Create(t)
  PROVE  \E u \in Tasks : /\ u \notin Live /\ taskcreate(<<u>>, 0)
                          /\ Live' = Live \cup {u} /\ Sleepers' = Sleepers
                          /\ UNCHANGED <<system, sleepingcounted>>
<1>1. PICK u \in Users : /\ pc[u] = "free" /\ taskcreate(<<u>>, 0)
                         /\ pc' = [pc EXCEPT ![u] = "start"]
  BY DEF Create
<1>2. u \in Tasks /\ u \notin Live /\ Live' = Live \cup {u} /\ Sleepers' = Sleepers
  BY <1>1 DEF Live, Sleepers, Users, Roles
<1>3. UNCHANGED <<system, sleepingcounted>>
  BY DEF Create, sleepVars
<1> QED BY <1>1, <1>2, <1>3

\* ... and in fdwait and taskdelay
fdtaskIfNew == IF startedfdtask THEN {} ELSE {FdTask}

LEMMA SuspendKinds ==
  ASSUME Roles, NEW t \in Users, CanCall(t), NEW where \in {"fdwait", "delay"},
         suspend(t, where)
  PROVE  /\ Lists(startFdtask, fdtaskIfNew) /\ fdtaskIfNew \cap Live = {}
         /\ Live' = Live \cup fdtaskIfNew
         /\ t \in Live /\ t \notin Sleepers
         /\ Sleepers' = IF where = "delay" THEN Sleepers \cup {t} ELSE Sleepers
<1>1. FdTask \in Tasks /\ t \in Tasks /\ t # FdTask
  BY TaskAssumption DEF Users
<1>2. Lists(startFdtask, fdtaskIfNew)
  BY <1>1, ListNone, ListOne DEF startFdtask, fdtaskIfNew
<1>3. pc[t] = "user" /\ (startedfdtask <=> pc[FdTask] # "free") /\ pc[FdTask] # "delay"
  BY DEF CanCall, Roles
<1>4. \A u \in Tasks : pc'[u] = IF u = t THEN where
                                ELSE IF u = FdTask /\ ~startedfdtask THEN "start" ELSE pc[u]
  BY DEF suspend
<1>5. fdtaskIfNew \cap Live = {} /\ Live' = Live \cup fdtaskIfNew
  BY <1>1, <1>3, <1>4 DEF Live, fdtaskIfNew
<1>6. t \in Live /\ t \notin Sleepers
  BY <1>1, <1>3 DEF Live, Sleepers
<1>7. Sleepers' = IF where = "delay" THEN Sleepers \cup {t} ELSE Sleepers
  BY <1>1, <1>3, <1>4 DEF Sleepers
<1> QED BY <1>2, <1>5, <1>6, <1>7

LEMMA ExitKinds ==
  ASSUME Roles, NEW t \in Users, Exit(t)
  PROVE  /\ t \in Live /\ t \notin Sleepers /\ freeSlot(t)
         /\ Live' = Live \ {t} /\ Sleepers' = Sleepers
         /\ system' = system \ {t} /\ sleepingcounted' = sleepingcounted
<1>1. t \in Tasks /\ pc[t] = "user" /\ pc' = [pc EXCEPT ![t] = "free"]
  BY DEF Exit, CanCall, Users
<1>2. freeSlot(t) /\ system' = system \ {t} /\ sleepingcounted' = sleepingcounted
  BY DEF Exit, sleepVars
<1> QED BY <1>1, <1>2 DEF Live, Sleepers, Roles

LEMMA SystemKinds ==
  ASSUME Roles, NEW t \in Tasks, (t \in Users /\ System(t)) \/ (t = FdTask /\ FdStart)
  PROVE  /\ t \in Live /\ t \notin Sleepers /\ tasksystem(t)
         /\ Live' = Live /\ Sleepers' = Sleepers
         /\ UNCHANGED <<alltask, slot, sleepingcounted>>
<1>1. CASE t \in Users /\ System(t)
  BY <1>1 DEF System, CanCall, Live, Sleepers, sleepVars
<1>2. CASE t = FdTask /\ FdStart
  <2>1. /\ pc[t] = "start" /\ tasksystem(t) /\ taskyield(t, <<>>)
        /\ UNCHANGED <<alltask, slot, sleepingcounted>>
    BY <1>2 DEF FdStart, FdRuns, sleepVars
  <2>2. pc'[t] = "yield" /\ \A u \in Tasks : u # t => pc'[u] = pc[u]
    BY <2>1, YieldsAlone
  <2> QED BY <2>1, <2>2 DEF Live, Sleepers
<1> QED BY <1>1, <1>2

\* epoll_wait's return wakes the first k sleepers.
LEMMA ReturnKinds ==
  ASSUME Roles, Places, FdReturn
  PROVE  /\ Live' = Live
         /\ UNCHANGED <<system, alltask, slot>>
         /\ \E k \in 0..Len(sleeping) :
              LET counted == Cardinality({j \in 1..k : sleeping[j] \notin system})
              IN /\ {sleeping[j] : j \in 1..k} \subseteq Sleepers
                 /\ Sleepers' = Sleepers \ {sleeping[j] : j \in 1..k}
                 /\ sleepingcounted' = sleepingcounted - counted
                 /\ taskcount' = IF counted > 0 /\ sleepingcounted = counted
                                 THEN taskcount - 1 ELSE taskcount
<1>1. PICK io \in Orders({t \in Users : pc[t] = "fdwait"}) : FdReady(io)
  BY DEF FdReturn
<1> DEFINE counted(k) == Cardinality({j \in 1..k : sleeping[j] \notin system})
<1>2. PICK k \in 0..Len(sleeping) :
        /\ sleeping' = SubSeq(sleeping, k + 1, Len(sleeping))
        /\ sleepingcounted' = sleepingcounted - counted(k)
        /\ taskcount' = IF counted(k) > 0 /\ sleepingcounted = counted(k)
                        THEN taskcount - 1 ELSE taskcount
        /\ UNCHANGED <<system, alltask, slot>>
        /\ taskyield(FdTask, io \o SubSeq(sleeping, 1, k))
  BY <1>1 DEF FdReady
<1> DEFINE R == {sleeping[j] : j \in 1..k}
<1>3. R \subseteq Sleepers /\ Lists(sleeping', Sleepers \ R)
  BY <1>2, ListSplit DEF Places
<1>4. /\ Lists(sleeping', Sleepers')
      /\ \A u \in Users : pc'[u] # pc[u] => pc[u] \in {"fdwait", "delay"} /\ pc'[u] = "user"
  BY FdReturnPlaces DEF Places
<1> HIDE DEF R, counted
<1>5. Sleepers' = Sleepers \ R
  BY <1>3, <1>4 DEF Lists
<1>6. Live' = Live
  <2>1. FdTask \in Tasks /\ pc[FdTask] = "epoll" /\ pc'[FdTask] = "yield"
    BY <1>2, TaskAssumption DEF FdReturn, FdRuns, taskyield
  <2>2. \A u \in Users : pc'[u] = "free" <=> pc[u] = "free"
    BY <1>4
  <2> QED BY <2>1, <2>2 DEF Live, Users
<1> QED BY <1>2, <1>3, <1>5, <1>6 DEF R, counted

\* Next, by what a step does to the sets of tasks
LEMMA StepKinds ==
  ASSUME [Next]_vars
  PROVE  \/ QuietStep \/ FdStart \/ FdReturn
         \/ \E t \in Users : Create(t) \/ System(t) \/ Exit(t) \/ Delay(t) \/ fdwait(t)
BY DEF Next, Call, FdStep, QuietStep

LEMMA SlotsStep ==
  ASSUME Roles, Places, Slots, [Next]_vars PROVE Slots'
<1>1. CASE QuietStep
  BY <1>1, QuietIsQuiet DEF Quiet, Slots, Lists, countVars
<1>2. ASSUME NEW t \in Users, Create(t) PROVE Slots'
  <2>1. PICK u \in Tasks : u \notin Live /\ taskcreate(<<u>>, 0) /\ Live' = Live \cup {u}
    BY <1>2, CreateKinds
  <2>2. Lists(<<u>>, {u}) /\ {u} \cap Live = {}
    BY <2>1, ListOne
  <2> QED BY <2>1, <2>2, TaskcreateSlots
<1>3. ASSUME NEW t \in Users, Delay(t) \/ fdwait(t) PROVE Slots'
  <2>1. ASSUME NEW extra, NEW where \in {"fdwait", "delay"},
               taskcreate(startFdtask, extra), CanCall(t), suspend(t, where)
        PROVE  Slots'
    BY <2>1, SuspendKinds, TaskcreateSlots
  <2>2. CASE Delay(t)
    BY <2>1, <2>2 DEF Delay
  <2>3. CASE fdwait(t)
    BY <2>1, <2>3 DEF fdwait
  <2> QED BY <1>3, <2>2, <2>3
<1>4. ASSUME NEW t \in Users, Exit(t) PROVE Slots'
  BY <1>4, ExitKinds, FreeSlots
<1>5. ASSUME NEW t \in Tasks, (t \in Users /\ System(t)) \/ (t = FdTask /\ FdStart) PROVE Slots'
  <2>1. Live' = Live /\ UNCHANGED <<alltask, slot>>
    BY <1>5, SystemKinds
  <2> QED BY <2>1 DEF Slots, Lists
<1>6. CASE FdReturn
  <2>1. Live' = Live /\ UNCHANGED <<alltask, slot>>
    BY <1>6, ReturnKinds
  <2> QED BY <2>1 DEF Slots, Lists
<1>7. CASE FdStart
  BY <1>5, <1>7, TaskAssumption
<1>8. ASSUME NEW t \in Users, System(t) PROVE Slots'
  <2>1. t \in Tasks
    BY DEF Users
  <2> QED BY <1>5, <1>8, <2>1
<1> QED BY <1>1, <1>2, <1>3, <1>4, <1>6, <1>7, <1>8, StepKinds

LEMMA SlotsInit == Init => Slots
<1> SUFFICES ASSUME Init PROVE Slots
  OBVIOUS
<1>1. Main \in Tasks /\ Lists(<<Main>>, {Main})
  BY TaskAssumption, ListOne
<1>2. Live = {Main}
  BY <1>1 DEF Init, Live
<1> QED BY <1>1, <1>2 DEF Init, Slots

LEMMA ListCardinality ==
  ASSUME NEW s, NEW S, Lists(s, S) PROVE Cardinality(S) = Len(s)
<1>1. Len(s) \in Nat /\ DOMAIN s = 1..Len(s)
  BY ListsType
<1>2. s \in [1..Len(s) -> S]
  BY <1>1, ListsType DEF Lists
<1>3. s \in Bijection(1..Len(s), S)
  BY <1>2 DEF Lists, Bijection, Injection, Surjection, IsInjective
<1> QED BY <1>1, <1>3, FS_CountingElements DEF ExistsBijection

\* alltaskslot names a task's own slot of alltask, whoever has exited before.
THEOREM SlotsAreExact == Spec => []SlotsMatch
<1>1. Slots => SlotsMatch
  <2> SUFFICES ASSUME Slots PROVE SlotsMatch
    OBVIOUS
  <2>1. Len(alltask) = Cardinality(Live)
    BY ListCardinality DEF Slots
  <2>2. ASSUME NEW t \in Live PROVE slot[t] \in DOMAIN alltask /\ alltask[slot[t]] = t
    <3>1. PICK i \in 1..Len(alltask) : alltask[i] = t
      BY DEF Slots, Lists
    <3> QED BY <3>1, ListsType DEF Slots
  <2> QED BY <2>1, <2>2 DEF SlotsMatch
<1>2. Spec => [](Roles /\ Places)
  BY PlacesInit, PlacesStep, PTL DEF Spec
<1>3. Roles /\ Places /\ Slots /\ [Next]_vars => Slots'
  BY SlotsStep
<1> QED BY <1>1, <1>2, <1>3, SlotsInit, PTL DEF Spec

----------------------------------------------------------------------------
(***************************************************************************)
(* taskcount.                                                              *)
(***************************************************************************)
Counted == system \subseteq Live /\ CountExact

LEMMA Finite == ASSUME NEW S, S \subseteq Tasks PROVE IsFiniteSet(S) /\ Cardinality(S) \in Nat
BY TaskAssumption, FS_Subset, FS_CardinalityType

\* What CountExact says, in numbers: the tasks that are counted and the
\* sleepers among them
LEMMA CountsTypes ==
  LET live == Live \ system  asleep == Sleepers \ system IN
  /\ IsFiniteSet(live) /\ IsFiniteSet(asleep)
  /\ Cardinality(live) \in Nat /\ Cardinality(asleep) \in Nat
  /\ Cardinality(asleep) = 0 <=> asleep = {}
BY Finite, FS_EmptySet DEF Live, Sleepers

LEMMA CountMeans ==
  CountExact <=>
    LET live == Live \ system  asleep == Sleepers \ system IN
    /\ sleepingcounted = Cardinality(asleep)
    /\ taskcount = Cardinality(live) + (IF asleep = {} THEN 0 ELSE 1)
<1>1. {t \in Sleepers : t \notin system} = Sleepers \ system
  OBVIOUS
<1> QED BY <1>1 DEF CountExact

LEMMA SuspendCount ==
  ASSUME Roles, Counted, NEW t \in Users, Delay(t) \/ fdwait(t) PROVE Counted'
<1> DEFINE n == Cardinality(Live \ system)
           m == Cardinality(Sleepers \ system)
           sys == t \in system
           F == fdtaskIfNew
<1>1. CanCall(t) /\ UNCHANGED system
  BY DEF Delay, fdwait
<1>2. PICK where \in {"fdwait", "delay"} :
        /\ suspend(t, where)
        /\ where = "fdwait" => taskcreate(startFdtask, 0) /\ sleepingcounted' = sleepingcounted
        /\ where = "delay" => /\ sleepingcounted' = sleepingcounted + (IF sys THEN 0 ELSE 1)
                              /\ taskcreate(startFdtask,
                                   IF ~sys /\ sleepingcounted = 0 THEN 1 ELSE 0)
  <2>1. CASE fdwait(t)
    BY <2>1 DEF fdwait
  <2>2. CASE Delay(t)
    BY <2>2 DEF Delay
  <2> QED BY <2>1, <2>2
<1>3. /\ Lists(startFdtask, F) /\ F \cap Live = {}
      /\ Live' = Live \cup F /\ t \in Live /\ t \notin Sleepers
      /\ Sleepers' = IF where = "delay" THEN Sleepers \cup {t} ELSE Sleepers
  BY <1>1, <1>2, SuspendKinds
<1>4. system' \subseteq Live'
  BY <1>1, <1>3 DEF Counted
<1>5. Len(startFdtask) \in Nat /\ Cardinality((Live \ system) \cup F) = n + Len(startFdtask)
  <2>1. CASE startedfdtask
    <3>1. F = {} /\ Len(startFdtask) = 0 /\ (Live \ system) \cup F = Live \ system
      BY <2>1 DEF fdtaskIfNew, startFdtask
    <3> QED BY <3>1, CountsTypes
  <2>2. CASE ~startedfdtask
    <3>1. F = {FdTask} /\ Len(startFdtask) = 1 /\ FdTask \notin Live \ system
      BY <1>3, <2>2 DEF fdtaskIfNew, startFdtask
    <3>2. Cardinality((Live \ system) \cup {FdTask}) = n + 1
      BY <3>1, CountsTypes, FS_AddElement
    <3> HIDE DEF n, F
    <3> QED BY <3>1, <3>2
  <2> HIDE DEF n, F
  <2> QED BY <2>1, <2>2
<1>6. Live' \ system' = (Live \ system) \cup F
  BY <1>1, <1>3 DEF Counted
<1>7. Cardinality(Live' \ system') = n + Len(startFdtask)
  BY <1>5, <1>6
<1>8. Sleepers' \ system' = IF where = "delay" /\ ~sys THEN (Sleepers \ system) \cup {t}
                            ELSE Sleepers \ system
  BY <1>1, <1>3
<1>9. /\ Cardinality(Sleepers' \ system') = IF where = "delay" /\ ~sys THEN m + 1 ELSE m
      /\ Sleepers' \ system' = {} <=> m = 0 /\ ~(where = "delay" /\ ~sys)
  BY <1>3, <1>8, CountsTypes, FS_AddElement
<1>10. /\ sleepingcounted = m /\ m \in Nat /\ n \in Nat
       /\ taskcount = n + (IF m = 0 THEN 0 ELSE 1)
  BY CountMeans, CountsTypes DEF Counted
<1> HIDE DEF n, m, sys, F
<1>11. sleepingcounted' = Cardinality(Sleepers' \ system')
  BY <1>2, <1>9, <1>10
<1>12. taskcount' = taskcount + Len(startFdtask)
                      + (IF where = "delay" /\ ~sys /\ sleepingcounted = 0 THEN 1 ELSE 0)
  BY <1>2 DEF taskcreate
<1>13. taskcount' = Cardinality(Live' \ system') + (IF Sleepers' \ system' = {} THEN 0 ELSE 1)
  <2>1. CASE where = "delay" /\ ~sys
    <3>1. Sleepers' \ system' # {}
      BY <1>9, <2>1
    <3>2. taskcount' = n + (IF m = 0 THEN 0 ELSE 1) + Len(startFdtask) + (IF m = 0 THEN 1 ELSE 0)
      BY <1>10, <1>12, <2>1
    <3> QED BY <1>5, <1>7, <1>10, <3>1, <3>2
  <2>2. CASE ~(where = "delay" /\ ~sys)
    <3>1. Sleepers' \ system' = {} <=> m = 0
      BY <1>9, <2>2
    <3>2. taskcount' = n + (IF m = 0 THEN 0 ELSE 1) + Len(startFdtask)
      <4>1. ~(where = "delay" /\ ~sys /\ sleepingcounted = 0)
        BY <2>2
      <4>2. taskcount' = taskcount + Len(startFdtask) + 0
        BY <1>12, <4>1
      <4> QED BY <1>5, <1>10, <4>2
    <3> QED BY <1>5, <1>7, <1>10, <3>1, <3>2
  <2> QED BY <2>1, <2>2
<1>14. {u \in Sleepers' : u \notin system'} = Sleepers' \ system'
  OBVIOUS
<1> QED BY <1>4, <1>11, <1>13, <1>14 DEF Counted, CountExact

\* A step that adds or removes one counted task, or none, and no sleeper
LEMMA CountMoves ==
  ASSUME Counted, system' \subseteq Live', Sleepers' \ system' = Sleepers \ system,
         sleepingcounted' = sleepingcounted, NEW d \in Int,
         Cardinality(Live' \ system') = Cardinality(Live \ system) + d,
         taskcount' = taskcount + d
  PROVE  Counted'
<1> DEFINE k == IF Sleepers \ system = {} THEN 0 ELSE 1
           n == Cardinality(Live \ system)
<1>1. /\ sleepingcounted = Cardinality(Sleepers \ system) /\ taskcount = n + k
      /\ n \in Nat /\ k \in Nat
  BY CountMeans, CountsTypes DEF Counted
<1>2. {t \in Sleepers' : t \notin system'} = Sleepers \ system
  OBVIOUS
<1>3. taskcount' = Cardinality(Live' \ system') + k
  <2> HIDE DEF n, k
  <2>1. Cardinality(Live' \ system') = n + d
    BY DEF n
  <2>2. taskcount' = (n + k) + d
    BY <1>1
  <2> QED BY <1>1, <2>1, <2>2
<1> QED BY <1>1, <1>2, <1>3 DEF Counted, CountExact

LEMMA SystemCount ==
  ASSUME Counted, NEW t \in Live, t \notin Sleepers, tasksystem(t),
         Live' = Live, Sleepers' = Sleepers, sleepingcounted' = sleepingcounted
  PROVE  Counted'
<1> DEFINE d == IF t \in system THEN 0 ELSE -1
<1>1. Live' \ system' = (Live \ system) \ {t} /\ Sleepers' \ system' = Sleepers \ system
  BY DEF tasksystem
<1>2. system' \subseteq Live'
  BY DEF tasksystem, Counted
<1>3. /\ IsFiniteSet(Live \ system) /\ Cardinality(Live \ system) \in Nat
      /\ taskcount \in Int
  BY CountMeans, CountsTypes DEF Counted
<1>4. Cardinality(Live' \ system') = Cardinality(Live \ system) + d
  <2>1. t \in Live \ system <=> t \notin system
    OBVIOUS
  <2>2. Cardinality((Live \ system) \ {t}) = IF t \in Live \ system THEN Cardinality(Live \ system) - 1
                                             ELSE Cardinality(Live \ system)
    BY <1>3, FS_RemoveElement
  <2> QED BY <1>1, <1>3, <2>1, <2>2
<1>5. taskcount' = taskcount + d
  BY <1>3 DEF tasksystem
<1> HIDE DEF d
<1>6. d \in Int
  BY DEF d
<1> QED BY <1>1, <1>2, <1>4, <1>5, <1>6, CountMoves

LEMMA CallCount ==
  ASSUME Roles, Counted, NEW t \in Users, Create(t) \/ System(t) \/ Exit(t) PROVE Counted'
<1>0. /\ IsFiniteSet(Live \ system) /\ Cardinality(Live \ system) \in Nat
      /\ taskcount \in Int
  BY CountMeans, CountsTypes DEF Counted
<1>1. CASE Create(t)
  <2>1. PICK u \in Tasks : /\ u \notin Live /\ taskcreate(<<u>>, 0)
                           /\ Live' = Live \cup {u} /\ Sleepers' = Sleepers
                           /\ UNCHANGED <<system, sleepingcounted>>
    BY <1>1, CreateKinds
  <2>2. Live' \ system' = (Live \ system) \cup {u} /\ u \notin Live \ system
    BY <2>1 DEF Counted
  <2>3. Cardinality(Live' \ system') = Cardinality(Live \ system) + 1
    BY <1>0, <2>2, FS_AddElement
  <2>4. taskcount' = taskcount + 1
    BY <1>0, <2>1 DEF taskcreate
  <2>5. Sleepers' \ system' = Sleepers \ system /\ system' \subseteq Live' /\ 1 \in Int
    BY <2>1 DEF Counted
  <2> QED BY <2>1, <2>3, <2>4, <2>5, CountMoves
<1>2. CASE System(t)
  <2>1. t \in Tasks
    BY DEF Users
  <2> QED BY <1>2, <2>1, SystemKinds, SystemCount
<1>3. CASE Exit(t)
  <2> DEFINE d == IF t \in system THEN 0 ELSE -1
  <2>1. /\ t \in Live /\ t \notin Sleepers /\ Live' = Live \ {t} /\ Sleepers' = Sleepers
        /\ system' = system \ {t} /\ sleepingcounted' = sleepingcounted
        /\ taskcount' = IF t \in system THEN taskcount ELSE taskcount - 1
    BY <1>3, ExitKinds DEF Exit
  <2>2. Live' \ system' = (Live \ system) \ {t} /\ system' \subseteq Live'
    BY <2>1 DEF Counted
  <2>3. Sleepers' \ system' = Sleepers \ system
    BY <2>1
  <2>4. t \in Live \ system <=> t \notin system
    BY <2>1
  <2>5. Cardinality((Live \ system) \ {t}) = IF t \in Live \ system THEN Cardinality(Live \ system) - 1
                                             ELSE Cardinality(Live \ system)
    BY <1>0, FS_RemoveElement
  <2>6. Cardinality(Live' \ system') = Cardinality(Live \ system) + d
    <3>1. Cardinality(Live' \ system') = Cardinality((Live \ system) \ {t})
      BY <2>2
    <3> QED BY <1>0, <2>4, <2>5, <3>1
  <2>7. taskcount' = taskcount + d /\ d \in Int
    BY <1>0, <2>1
  <2> HIDE DEF d
  <2> QED BY <2>1, <2>2, <2>3, <2>6, <2>7, CountMoves
<1> QED BY <1>1, <1>2, <1>3

LEMMA FdStartCount == ASSUME Roles, Counted, FdStart PROVE Counted'
BY SystemKinds, SystemCount, TaskAssumption

\* The woken sleepers that are counted are as many as their places in the list.
LEMMA CountedPlaces ==
  ASSUME Places, NEW k \in 0..Len(sleeping)
  PROVE  Cardinality({j \in 1..k : sleeping[j] \notin system})
           = Cardinality({sleeping[j] : j \in 1..k} \ system)
<1> DEFINE J == {j \in 1..k : sleeping[j] \notin system}
           R == {sleeping[j] : j \in 1..k} \ system
           f == [j \in J |-> sleeping[j]]
<1>1. Len(sleeping) \in Nat /\ k \in Nat /\ J \subseteq 1..Len(sleeping)
  BY ListsType DEF Places
<1>2. f \in [J -> R]
  OBVIOUS
<1>3. \A i, j \in J : f[i] = f[j] => i = j
  BY <1>1 DEF Places, Lists
<1>4. \A t \in R : \E j \in J : f[j] = t
  OBVIOUS
<1> HIDE DEF f
<1>5. f \in Bijection(J, R)
  BY <1>2, <1>3, <1>4 DEF Bijection, Injection, Surjection, IsInjective
<1>6. IsFiniteSet(J)
  <2>1. IsFiniteSet(1..k)
    BY <1>1, FS_Interval
  <2> QED BY <2>1, FS_Subset
<1> QED BY <1>5, <1>6, FS_Bijection DEF ExistsBijection

\* A part of a finite set, and what is left of it
LEMMA SplitCardinality ==
  ASSUME NEW S, IsFiniteSet(S), NEW R \in SUBSET S
  PROVE  /\ Cardinality(S) \in Nat /\ Cardinality(R) \in Nat /\ Cardinality(S \ R) \in Nat
         /\ Cardinality(S) = Cardinality(R) + Cardinality(S \ R)
<1>1. IsFiniteSet(R) /\ IsFiniteSet(S \ R)
  BY FS_Subset
<1>2. Cardinality(R \cup (S \ R)) = Cardinality(R) + Cardinality(S \ R) - Cardinality(R \cap (S \ R))
  BY <1>1, FS_Union
<1>3. R \cup (S \ R) = S /\ R \cap (S \ R) = {}
  OBVIOUS
<1>4. Cardinality(S) = Cardinality(R) + Cardinality(S \ R) - 0
  BY <1>2, <1>3, FS_EmptySet
<1>5. Cardinality(S) \in Nat /\ Cardinality(R) \in Nat /\ Cardinality(S \ R) \in Nat
  BY <1>1, FS_CardinalityType
<1> QED BY <1>4, <1>5

LEMMA ReturnCount == ASSUME Roles, Places, Counted, FdReturn PROVE Counted'
<1>1. Live' = Live /\ system' = system
  BY ReturnKinds
<1>2. PICK k \in 0..Len(sleeping) :
        LET counted == Cardinality({j \in 1..k : sleeping[j] \notin system})
        IN /\ {sleeping[j] : j \in 1..k} \subseteq Sleepers
           /\ Sleepers' = Sleepers \ {sleeping[j] : j \in 1..k}
           /\ sleepingcounted' = sleepingcounted - counted
           /\ taskcount' = IF counted > 0 /\ sleepingcounted = counted
                           THEN taskcount - 1 ELSE taskcount
  BY ReturnKinds
<1> DEFINE R == {sleeping[j] : j \in 1..k}
           A == Sleepers \ system
           W == R \ system
           n == Cardinality(Live \ system)
<1>3. Cardinality({j \in 1..k : sleeping[j] \notin system}) = Cardinality(W)
  BY CountedPlaces
<1>4. /\ R \subseteq Sleepers /\ Sleepers' = Sleepers \ R
      /\ sleepingcounted' = sleepingcounted - Cardinality(W)
      /\ taskcount' = IF Cardinality(W) > 0 /\ sleepingcounted = Cardinality(W)
                      THEN taskcount - 1 ELSE taskcount
  BY <1>2, <1>3
<1> HIDE DEF R
<1>5. /\ IsFiniteSet(A) /\ n \in Nat /\ sleepingcounted = Cardinality(A)
      /\ taskcount = n + (IF A = {} THEN 0 ELSE 1)
  BY CountMeans, CountsTypes DEF Counted
<1>6. W \subseteq A /\ {u \in Sleepers' : u \notin system'} = A \ W /\ Live' \ system' = Live \ system
  BY <1>1, <1>4
<1> HIDE DEF A, W, n
<1>7. /\ Cardinality(A) \in Nat /\ Cardinality(W) \in Nat /\ Cardinality(A \ W) \in Nat
      /\ Cardinality(A) = Cardinality(W) + Cardinality(A \ W)
  BY <1>5, <1>6, SplitCardinality
<1>8. /\ A \ W = {} <=> Cardinality(A \ W) = 0
      /\ A = {} <=> Cardinality(A) = 0
  BY <1>5, FS_EmptySet, FS_Subset
<1>9. sleepingcounted' = Cardinality(A \ W)
  BY <1>4, <1>5, <1>7
<1>10. taskcount' = n + (IF A \ W = {} THEN 0 ELSE 1)
  BY <1>4, <1>5, <1>7, <1>8
<1> QED BY <1>1, <1>6, <1>9, <1>10 DEF Counted, CountExact, n

LEMMA CountedStep == ASSUME Roles, Places, Counted, [Next]_vars PROVE Counted'
<1>1. CASE QuietStep
  BY <1>1, QuietIsQuiet DEF Quiet, Counted, CountExact, countVars
<1>2. ASSUME NEW t \in Users, Create(t) \/ System(t) \/ Exit(t) \/ Delay(t) \/ fdwait(t)
      PROVE  Counted'
  BY <1>2, CallCount, SuspendCount
<1> QED BY <1>1, <1>2, FdStartCount, ReturnCount, StepKinds

LEMMA CountedInit == Init => Counted
<1> SUFFICES ASSUME Init PROVE Counted
  OBVIOUS
<1>1. Live = {Main} /\ Sleepers = {} /\ system = {} /\ taskcount = 1 /\ sleepingcounted = 0
  BY TaskAssumption DEF Init, Live, Sleepers
<1>2. Cardinality(Live \ system) = 1 /\ {t \in Sleepers : t \notin system} = {}
  BY <1>1, FS_Singleton
<1> QED BY <1>1, <1>2, FS_EmptySet DEF Counted, CountExact

\* taskcount is exact, whichever of its five places has changed it.
THEOREM CountsAreExact == Spec => []CountExact
<1>1. Spec => [](Roles /\ Places)
  BY PlacesInit, PlacesStep, PTL DEF Spec
<1>2. Roles /\ Places /\ Counted /\ [Next]_vars => Counted'
  BY CountedStep
<1>3. Counted => CountExact
  BY DEF Counted
<1> QED BY <1>1, <1>2, <1>3, CountedInit, PTL DEF Spec

----------------------------------------------------------------------------
(***************************************************************************)
(* The end of the process.                                                 *)
(***************************************************************************)
Ends == ended \in {"no", "exit", "stalled"} /\ EndsOnlyWhenDone

\* Everybody but fdtask waits for good when nobody can run, and fdtask can
\* run once it was started.
LEMMA EndIsDone == ASSUME Roles, Places, Counted, End PROVE Ends'
<1>1. running = NoTask /\ Live' = Live /\ Sleepers' = Sleepers /\ pc' = pc /\ system' = system
  BY DEF End, Live, Sleepers, countVars
<1>2. /\ IsFiniteSet(Live \ system) /\ Cardinality(Live \ system) \in Nat
      /\ taskcount = Cardinality(Live \ system) + (IF Sleepers \ system = {} THEN 0 ELSE 1)
  BY CountMeans, CountsTypes DEF Counted
<1>3. CASE taskcount = 0 /\ ended' = "exit"
  <2>1. Live \ system = {}
    BY <1>2, <1>3, FS_EmptySet
  <2> QED BY <1>1, <1>3, <2>1 DEF Ends, EndsOnlyWhenDone
<1>4. CASE taskcount # 0 /\ runq = <<>> /\ ended' = "stalled"
  <2>1. Ready = {}
    BY <1>4, EmptySeq DEF Places, Lists
  <2>2. NoTask \notin Tasks /\ FdTask \in Tasks
    BY TaskAssumption
  <2>3. pc[FdTask] = "free" /\ ~startedfdtask
    BY <1>1, <2>1, <2>2 DEF Ready, Roles
  <2>4. \A t \in Users : pc[t] \in {"free", "switch"}
    BY <1>1, <2>1, <2>2, <2>3 DEF Ready, Roles, PcSet, Users
  <2>5. Sleepers = {} /\ \A t \in Live : pc[t] = "switch"
    BY <2>3, <2>4 DEF Sleepers, Live, Users
  <2>6. Live # {}
    <3>1. Cardinality(Live \ system) # 0
      BY <1>2, <1>4, <2>5
    <3> QED BY <3>1, FS_EmptySet
  <2> QED BY <1>1, <1>4, <2>5, <2>6 DEF Ends, EndsOnlyWhenDone
<1> QED BY <1>3, <1>4 DEF End

LEMMA EndsStep == ASSUME Roles, Places, Counted, Ends, [Next]_vars PROVE Ends'
<1>1. ASSUME ended = "no", ended' = "no" PROVE Ends'
  BY <1>1 DEF Ends, EndsOnlyWhenDone
<1>2. CASE Ended \/ UNCHANGED vars
  <2>1. UNCHANGED <<pc, system, ended>>
    BY <1>2 DEF Ended, vars, countVars
  <2> QED BY <2>1 DEF Ends, EndsOnlyWhenDone, Live, Sleepers
<1>3. CASE Dispatch \/ Tick
  BY <1>1, <1>3 DEF Dispatch, Tick
<1>4. CASE FdStep
  BY <1>1, <1>4 DEF FdStep, FdRuns, FdStart, FdYieldAgain, FdPoll, FdInterrupted, FdReturn, FdReady
<1>5. ASSUME NEW t \in Users, Call(t) PROVE Ends'
  BY <1>1, <1>5 DEF Call, CanCall, Create, System, Yield, Park, Wake, Exit, Delay, fdwait
<1> QED BY <1>2, <1>3, <1>4, <1>5, EndIsDone DEF Next

\* The process ends by itself only without a task that counts, and as stalled
\* only when everybody was switched away for good.
THEOREM EndsWhenDone == Spec => []EndsOnlyWhenDone
<1>1. Spec => [](Roles /\ Places)
  BY PlacesInit, PlacesStep, PTL DEF Spec
<1>2. Roles /\ Places /\ Counted /\ [Next]_vars => Counted'
  BY CountedStep
<1>3. Roles /\ Places /\ Counted /\ Ends /\ [Next]_vars => Ends'
  BY EndsStep
<1>4. Init => Ends
  BY DEF Init, Ends, EndsOnlyWhenDone
<1>5. Ends => EndsOnlyWhenDone
  BY DEF Ends
<1> QED BY <1>1, <1>2, <1>3, <1>4, <1>5, CountedInit, PTL DEF Spec

----------------------------------------------------------------------------
(***************************************************************************)
(* When fdtask blocks the process.                                         *)
(***************************************************************************)

\* When nobody has run since its taskyield, fdtask is the last one ready.
JustYielded ==
  pc[FdTask] = "yield" /\ ran[FdTask] = 0 =>
    \/ running = FdTask /\ runq = <<>>
    \/ running = NoTask /\ runq # <<>> /\ runq[Len(runq)] = FdTask

Idle ==
  /\ ran \in [Tasks -> Nat]
  /\ JustYielded
  /\ pc[FdTask] = "epoll" => runq = <<>>

\* The calls of other tasks: fdtask has not just yielded.
LEMMA CallIdle ==
  ASSUME Roles, Idle, NEW t \in Users, Call(t) PROVE Idle'
<1>1. running = t /\ pc[t] = "user" /\ t \in Tasks /\ t # FdTask /\ FdTask \in Tasks
      /\ NoTask \notin Tasks
  BY TaskAssumption DEF Call, CanCall, Create, System, Yield, Park, Wake, Exit, Delay, fdwait, Users
<1>2. ~(pc[FdTask] = "yield" /\ ran[FdTask] = 0) /\ pc[FdTask] # "epoll"
  BY <1>1 DEF Idle, JustYielded, Roles
<1>3. ran' \in [Tasks -> Nat] /\ ran'[FdTask] = ran[FdTask]
  <2>1. CASE Yield(t)
    BY <1>1, <2>1 DEF Yield, taskyield, Idle
  <2>2. CASE ~Yield(t)
    BY <2>2 DEF Call, Create, System, Park, Wake, Exit, Delay, fdwait, Idle
  <2> QED BY <2>1, <2>2
<1>4. pc'[FdTask] = pc[FdTask] \/ pc'[FdTask] = "start"
  <2>1. CASE Create(t) \/ Wake(t)
    BY <1>1, <2>1 DEF Create, Wake, Users, Roles
  <2>2. CASE Yield(t)
    BY <1>1, <2>2, YieldsAlone DEF Yield
  <2>3. CASE Park(t) \/ Exit(t) \/ System(t)
    BY <1>1, <2>3 DEF Park, Exit, System, Roles
  <2>4. CASE Delay(t) \/ fdwait(t)
    BY <1>1, <2>4 DEF Delay, fdwait, suspend
  <2> QED BY <2>1, <2>2, <2>3, <2>4 DEF Call
<1> QED BY <1>2, <1>3, <1>4 DEF Idle, JustYielded

LEMMA DispatchIdle == ASSUME Roles, Places, Idle, Dispatch PROVE Idle'
<1> DEFINE t == Head(runq)
<1>1. /\ running = NoTask /\ runq # <<>> /\ running' = t /\ runq' = Tail(runq)
      /\ pc' = IF t = FdTask THEN pc ELSE [pc EXCEPT ![t] = "user"]
      /\ ran' = [u \in Tasks |-> IF u # t /\ pc[u] = "yield" THEN ran[u] + 1
                                 ELSE IF u = FdTask THEN ran[u] ELSE 0]
  BY DEF Dispatch
<1>2. FdTask \in Tasks /\ NoTask \notin Tasks
  BY TaskAssumption
<1>3. ran' \in [Tasks -> Nat]
  BY <1>1 DEF Idle
<1>4. pc[FdTask] # "epoll" /\ pc'[FdTask] = pc[FdTask]
  BY <1>1, <1>2 DEF Roles
<1>5. CASE t # FdTask
  BY <1>1, <1>2, <1>3, <1>4, <1>5 DEF Idle, JustYielded
<1>6. CASE t = FdTask /\ pc[FdTask] = "yield" /\ ran[FdTask] = 0
  <2>1. runq \in Seq(Tasks) /\ Len(runq) \in Nat \ {0} /\ runq[1] = FdTask
    BY <1>1, <1>6, EmptySeq DEF Places, Lists
  <2>2. runq[Len(runq)] = FdTask
    BY <1>1, <1>2, <1>6 DEF Idle, JustYielded
  <2>3. Len(runq) = 1
    <3>1. 1 \in 1..Len(runq) /\ Len(runq) \in 1..Len(runq) /\ runq[1] = runq[Len(runq)]
      BY <2>1, <2>2
    <3> QED BY <3>1 DEF Places, Lists
  <2>4. runq' = <<>>
    BY <1>1, <2>1, <2>3
  <2> QED BY <1>1, <1>3, <1>4, <1>6, <2>4 DEF Idle, JustYielded
<1>7. CASE t = FdTask /\ ~(pc[FdTask] = "yield" /\ ran[FdTask] = 0)
  BY <1>1, <1>2, <1>3, <1>4, <1>7 DEF Idle, JustYielded
<1> QED BY <1>5, <1>6, <1>7

\* fdtask yields behind the tasks ts.
LEMMA FdYieldsIdle ==
  ASSUME Places, Idle, NEW ts \in Seq(Tasks), taskyield(FdTask, ts) PROVE Idle'
<1>2. /\ runq' = runq \o (ts \o <<FdTask>>) /\ running' = NoTask
      /\ ran' = [ran EXCEPT ![FdTask] = 0] /\ pc'[FdTask] = "yield"
  BY TaskAssumption DEF taskyield, addtask
<1>3. runq \in Seq(Tasks) /\ ts \o <<FdTask>> \in Seq(Tasks) /\ Len(ts \o <<FdTask>>) = Len(ts) + 1
      /\ (ts \o <<FdTask>>)[Len(ts) + 1] = FdTask
  BY TaskAssumption DEF Places, Lists
<1>4. runq' # <<>> /\ runq'[Len(runq')] = FdTask
  <2> DEFINE q == ts \o <<FdTask>>
  <2>1. Len(ts) \in Nat /\ Len(runq) \in Nat
    BY <1>3
  <2> HIDE DEF q
  <2>2. Len(runq \o q) = Len(runq) + Len(q) /\ (runq \o q)[Len(runq) + Len(q)] = q[Len(q)]
    BY <1>3, <2>1 DEF q
  <2> QED BY <1>2, <1>3, <2>1, <2>2, EmptySeq DEF q
<1>5. ran' \in [Tasks -> Nat]
  BY <1>2 DEF Idle
<1> QED BY <1>2, <1>4, <1>5 DEF Idle, JustYielded

LEMMA FdIdle == ASSUME Roles, Places, Idle, FdStep PROVE Idle'
<1>1. FdTask \in Tasks /\ NoTask \notin Tasks /\ running = FdTask
  BY TaskAssumption DEF FdStep, FdStart, FdYieldAgain, FdPoll, FdInterrupted, FdReturn, FdRuns
<1>2. CASE FdPoll
  <2>1. /\ pc[FdTask] = "yield" /\ ran[FdTask] = 0 /\ UNCHANGED <<runq, running, ran>>
        /\ pc' = [pc EXCEPT ![FdTask] = "epoll"]
    BY <1>2 DEF FdPoll, FdRuns, alone, schedVars
  <2>2. runq = <<>>
    BY <1>1, <2>1 DEF Idle, JustYielded
  <2> QED BY <1>1, <2>1, <2>2 DEF Idle, JustYielded, Roles
<1>3. CASE ~FdPoll
  <2>1. PICK ts : taskyield(FdTask, ts) /\ ts \in Seq(Tasks)
    <3>1. CASE FdReturn
      <4>1. PICK io \in Orders({t \in Users : pc[t] = "fdwait"}) : FdReady(io)
        BY <3>1 DEF FdReturn
      <4>2. PICK k \in 0..Len(sleeping) : taskyield(FdTask, io \o SubSeq(sleeping, 1, k))
        BY <4>1 DEF FdReady
      <4>3. io \in Seq(Tasks)
        BY OrderIsList DEF Lists, Users
      <4>4. SubSeq(sleeping, 1, k) \in Seq(Tasks)
        BY ListSplit DEF Places, Lists
      <4>5. io \o SubSeq(sleeping, 1, k) \in Seq(Tasks)
        BY <4>3, <4>4, ConcatProperties
      <4> QED BY <4>2, <4>5
    <3>2. CASE ~FdReturn
      <4>1. taskyield(FdTask, <<>>) /\ <<>> \in Seq(Tasks)
        BY <1>3, <3>2, EmptySeq DEF FdStep, FdStart, FdYieldAgain, FdInterrupted
      <4> QED BY <4>1
    <3> QED BY <3>1, <3>2
  <2> QED BY <2>1, FdYieldsIdle
<1> QED BY <1>2, <1>3

LEMMA IdleStep == ASSUME Roles, Places, Idle, [Next]_vars PROVE Idle'
<1>1. CASE End \/ Tick \/ Ended \/ UNCHANGED vars
  <2>1. UNCHANGED <<pc, runq, running, ran>>
    BY <1>1 DEF End, Tick, Ended, vars, schedVars
  <2> QED BY <2>1 DEF Idle, JustYielded
<1> QED BY <1>1, CallIdle, DispatchIdle, FdIdle DEF Next

----------------------------------------------------------------------------
(***************************************************************************)
(* Alarms.                                                                 *)
(***************************************************************************)
Alarms ==
  /\ alarm \in [Tasks -> Nat \cup {-1}]
  /\ timeout \in Nat \cup {-1}
  /\ \A j, k \in 1..Len(sleeping) : j < k => alarm[sleeping[j]] <= alarm[sleeping[k]]
  /\ pc[FdTask] = "epoll" =>
       /\ timeout = -1 => sleeping = <<>>
       /\ \A j \in 1..Len(sleeping) : timeout = 0 \/ timeout <= alarm[sleeping[j]]

\* taskdelay keeps the sleepers in order.
LEMMA DelayAlarms == ASSUME Roles, Places, Alarms, NEW t \in Users, Delay(t) PROVE Alarms'
<1>1. PICK ms \in Delays : /\ insertSleeper(t, ms * TicksPerMs)
                           /\ alarm' = [alarm EXCEPT ![t] = ms * TicksPerMs]
  BY DEF Delay
<1> DEFINE when == ms * TicksPerMs
           n == Len(sleeping)
<1>2. /\ t \in Tasks /\ FdTask \in Tasks /\ t # FdTask /\ running = t /\ pc[t] = "user"
      /\ timeout' = timeout /\ NoTask \notin Tasks
  BY TaskAssumption DEF Users, Delay, CanCall
<1>3. when \in Nat
  <2>1. ms \in Nat /\ TicksPerMs \in Nat
    BY TaskAssumption
  <2> QED BY <2>1
<1>4. sleeping \in Seq(Tasks) /\ n \in Nat
  BY DEF Places, Lists
<1>5. \A j \in 1..n : sleeping[j] \in Tasks /\ sleeping[j] # t
  BY <1>2, ListsType DEF Places, Sleepers
<1> HIDE DEF when, n
<1>6. PICK k \in 0..n :
        /\ \A j \in 1..k : alarm[sleeping[j]] < when
        /\ k < n => alarm[sleeping[k + 1]] >= when
        /\ sleeping' = SubSeq(sleeping, 1, k) \o <<t>> \o SubSeq(sleeping, k + 1, n)
  BY <1>1 DEF insertSleeper, when, n
<1>7. /\ alarm' \in [Tasks -> Nat \cup {-1}] /\ alarm'[t] = when
      /\ \A u \in Tasks : u # t => alarm'[u] = alarm[u]
  BY <1>1, <1>2, <1>3 DEF Alarms, when
<1>8. /\ Len(sleeping') = n + 1
      /\ \A j \in 1..(n + 1) : sleeping'[j] = IF j <= k THEN sleeping[j]
                                              ELSE IF j = k + 1 THEN t ELSE sleeping[j - 1]
  <2> DEFINE a == SubSeq(sleeping, 1, k)
             b == SubSeq(sleeping, k + 1, n)
             c == a \o <<t>>
  <2>1. k \in Nat /\ k <= n /\ t \in Tasks
    BY <1>2, <1>4
  <2>2. a \in Seq(Tasks) /\ Len(a) = k /\ \A j \in 1..k : a[j] = sleeping[j]
    BY <1>4, <2>1 DEF n
  <2>3. b \in Seq(Tasks) /\ Len(b) = n - k /\ \A j \in 1..(n - k) : b[j] = sleeping[k + j]
    BY <1>4, <2>1 DEF n
  <2> HIDE DEF a, b
  <2>4. /\ c \in Seq(Tasks) /\ Len(c) = k + 1
        /\ \A j \in 1..(k + 1) : c[j] = IF j <= k THEN a[j] ELSE t
    BY <2>1, <2>2
  <2> HIDE DEF c
  <2>5. Len(c \o b) = Len(c) + Len(b) /\ \A j \in 1..(Len(c) + Len(b)) :
          (c \o b)[j] = IF j <= Len(c) THEN c[j] ELSE b[j - Len(c)]
    BY <2>3, <2>4, ConcatProperties
  <2>6. sleeping' = c \o b
    BY <1>6 DEF a, b, c
  <2>7. ASSUME NEW j \in 1..(n + 1)
        PROVE  sleeping'[j] = IF j <= k THEN sleeping[j]
                              ELSE IF j = k + 1 THEN t ELSE sleeping[j - 1]
    <3>1. CASE j <= k + 1
      BY <1>4, <2>1, <2>2, <2>3, <2>4, <2>5, <2>6, <3>1
    <3>2. CASE ~(j <= k + 1)
      <4>1. j - (k + 1) \in 1..(n - k) /\ k + (j - (k + 1)) = j - 1
        BY <1>4, <2>1, <3>2
      <4>2. sleeping'[j] = b[j - (k + 1)]
        BY <1>4, <2>1, <2>3, <2>4, <2>5, <2>6, <3>2
      <4> QED BY <1>4, <2>1, <2>3, <3>2, <4>1, <4>2
    <3> QED BY <3>1, <3>2
  <2>8. Len(sleeping') = n + 1
    BY <1>4, <2>1, <2>3, <2>4, <2>5, <2>6
  <2> QED BY <2>7, <2>8
<1>9. \A j \in 1..n : alarm[sleeping[j]] \in Nat \cup {-1}
  BY <1>5 DEF Alarms
<1>10. \A j \in 1..n : j > k => alarm[sleeping[j]] >= when
  <2> SUFFICES ASSUME NEW j \in 1..n, j > k PROVE alarm[sleeping[j]] >= when
    OBVIOUS
  <2>1. k + 1 \in 1..n /\ alarm[sleeping[k + 1]] >= when /\ k + 1 <= j
    BY <1>4, <1>6
  <2>2. k + 1 = j \/ alarm[sleeping[k + 1]] <= alarm[sleeping[j]]
    BY <1>4, <2>1 DEF Alarms, n
  <2> QED BY <1>3, <1>9, <2>1, <2>2
<1>11. ASSUME NEW i \in 1..(n + 1), NEW j \in 1..(n + 1), i < j
       PROVE  alarm'[sleeping'[i]] <= alarm'[sleeping'[j]]
  <2> DEFINE old(x) == IF x <= k THEN x ELSE x - 1
  <2>1. \A x \in 1..(n + 1) : x # k + 1 =>
          /\ old(x) \in 1..n /\ sleeping'[x] = sleeping[old(x)]
          /\ alarm'[sleeping'[x]] = alarm[sleeping[old(x)]]
    BY <1>4, <1>5, <1>7, <1>8
  <2>2. alarm'[sleeping'[k + 1]] = when
    BY <1>4, <1>7, <1>8
  <2>3. CASE i # k + 1 /\ j # k + 1
    <3>1. old(i) < old(j)
      BY <1>4, <1>11, <2>3
    <3> HIDE DEF old
    <3> QED BY <2>1, <2>3, <3>1 DEF Alarms, n
  <2>4. CASE i = k + 1
    <3>1. old(j) \in 1..n /\ old(j) > k /\ alarm'[sleeping'[j]] = alarm[sleeping[old(j)]]
      BY <1>4, <1>11, <2>1, <2>4
    <3> HIDE DEF old
    <3> QED BY <1>3, <1>9, <1>10, <2>2, <2>4, <3>1
  <2>5. CASE j = k + 1
    <3>1. i \in 1..k /\ i # k + 1 /\ old(i) = i
      BY <1>4, <1>11, <2>5
    <3>2. i \in 1..n /\ alarm'[sleeping'[i]] = alarm[sleeping[i]] /\ alarm[sleeping[i]] < when
      BY <1>6, <2>1, <3>1
    <3> QED BY <1>3, <1>9, <2>2, <2>5, <3>2
  <2> QED BY <2>3, <2>4, <2>5
<1>12. pc'[FdTask] # "epoll"
  <2>1. suspend(t, "delay")
    BY DEF Delay
  <2> QED BY <1>2, <2>1 DEF suspend, Roles
<1> QED BY <1>2, <1>7, <1>8, <1>11, <1>12 DEF Alarms

LEMMA RoundedDown ==
  ASSUME NEW a \in Nat, NEW b \in Nat \ {0}
  PROVE  (a \div b) * b \in Nat /\ (a \div b) * b <= a
<1> DEFINE q == a \div b
<1>1. q \in Int /\ a = b * q + (a % b) /\ a % b \in 0..(b - 1)
  BY SMT
<1> HIDE DEF q
<1>2. q >= 0
  BY <1>1, SMT
<1>3. b * q = q * b /\ q * b \in Int /\ q * b <= a
  BY <1>1, <1>2, SMT
<1>4. q * b >= 0
  <2>1. \A x, y \in Nat : x * y \in Nat
    OBVIOUS
  <2>2. q \in Nat /\ b \in Nat
    BY <1>1, <1>2
  <2>3. q * b \in Nat
    BY <2>1, <2>2, Zenon
  <2> QED BY <2>3
<1> QED BY <1>3, <1>4 DEF q

LEMMA PollAlarms == ASSUME Roles, Places, Alarms, FdPoll PROVE Alarms'
<1>1. timeout' = pollFor /\ UNCHANGED <<sleeping, alarm>>
  BY DEF FdPoll, sleepVars
<1>2. sleeping \in Seq(Tasks) /\ Len(sleeping) \in Nat
  BY DEF Places, Lists
<1> DEFINE first == alarm[Head(sleeping)]
           cap == PollCap * TicksPerMs
<1>3. cap \in Nat /\ TicksPerMs \in Nat \ {0}
  <2>1. PollCap \in Nat /\ TicksPerMs \in Nat
    BY TaskAssumption
  <2> QED BY <2>1, TaskAssumption
<1>4. CASE sleeping = <<>>
  <2>1. timeout' = -1 /\ Len(sleeping) = 0
    BY <1>1, <1>4 DEF pollFor, Forever
  <2> QED BY <1>1, <1>4, <2>1 DEF Alarms
<1>5. CASE sleeping # <<>>
  <2>1. /\ 1 \in 1..Len(sleeping) /\ first = alarm[sleeping[1]] /\ sleeping[1] \in Tasks
    BY <1>2, <1>5, EmptySeq
  <2>2. first \in Nat \cup {-1} /\ \A j \in 1..Len(sleeping) :
           alarm[sleeping[j]] \in Nat \cup {-1}
    BY <1>2, <2>1 DEF Alarms
  <2>3. \A j \in 1..Len(sleeping) : first <= alarm[sleeping[j]]
    <3> TAKE j \in 1..Len(sleeping)
    <3>1. CASE j = 1
      BY <2>1, <2>2, <3>1
    <3>2. CASE j # 1
      <4>1. 1 < j
        BY <1>2, <3>2
      <4> QED BY <2>1, <4>1 DEF Alarms
    <3> QED BY <3>1, <3>2
  <2>4. pollFor = IF first <= 0 THEN 0 ELSE IF first <= cap
                  THEN (first \div TicksPerMs) * TicksPerMs ELSE cap
    BY <1>5 DEF pollFor
  <2> HIDE DEF first, cap
  <2>5. pollFor \in Nat /\ (pollFor = 0 \/ pollFor <= first)
    <3>1. CASE first <= 0
      BY <2>4, <3>1
    <3>2. CASE ~(first <= 0) /\ first <= cap
      <4>1. first \in Nat /\ pollFor = (first \div TicksPerMs) * TicksPerMs
        BY <2>2, <2>4, <3>2
      <4> QED BY <1>3, <4>1, RoundedDown
    <3>3. CASE ~(first <= 0) /\ ~(first <= cap)
      BY <1>3, <2>2, <2>4, <3>3
    <3> QED BY <3>1, <3>2, <3>3
  <2>6. \A j \in 1..Len(sleeping) : pollFor = 0 \/ pollFor <= alarm[sleeping[j]]
    BY <2>2, <2>3, <2>5
  <2>7. timeout' \in Nat /\ timeout' # -1
    BY <1>1, <2>5
  <2> QED BY <1>1, <2>6, <2>7 DEF Alarms
<1> QED BY <1>4, <1>5

LEMMA TickAlarms == ASSUME Roles, Places, Alarms, Tick PROVE Alarms'
<1>1. /\ alarm' = [t \in Tasks |-> IF alarm[t] > -1 THEN alarm[t] - 1 ELSE -1]
      /\ timeout' = IF timeout > 0 THEN timeout - 1 ELSE timeout
      /\ UNCHANGED <<pc, sleeping>>
  BY DEF Tick
<1>2. \A t \in Tasks : alarm[t] \in Nat \cup {-1}
  BY DEF Alarms
<1>3. alarm' \in [Tasks -> Nat \cup {-1}]
  <2>1. \A t \in Tasks : (IF alarm[t] > -1 THEN alarm[t] - 1 ELSE -1) \in Nat \cup {-1}
    BY <1>2
  <2> QED BY <1>1, <2>1
<1>4. timeout' \in Nat \cup {-1}
  BY <1>1 DEF Alarms
<1>5. \A j \in 1..Len(sleeping) : sleeping[j] \in Tasks
  BY DEF Places, Lists
<1>6. \A t, u \in Tasks : alarm[t] <= alarm[u] => alarm'[t] <= alarm'[u]
  BY <1>1, <1>2
<1>7. \A t \in Tasks : timeout = 0 \/ timeout <= alarm[t] => timeout' = 0 \/ timeout' <= alarm'[t]
  <2> TAKE t \in Tasks
  <2>1. timeout \in Nat \cup {-1} /\ alarm[t] \in Nat \cup {-1}
    BY DEF Alarms
  <2>2. alarm'[t] = IF alarm[t] > -1 THEN alarm[t] - 1 ELSE -1
    BY <1>1
  <2> QED BY <1>1, <2>1, <2>2
<1>8. timeout' = -1 => timeout = -1
  BY <1>1 DEF Alarms
<1>9. \A j, k \in 1..Len(sleeping') : j < k => alarm'[sleeping'[j]] <= alarm'[sleeping'[k]]
  BY <1>1, <1>5, <1>6 DEF Alarms
<1>10. pc'[FdTask] = "epoll" =>
         /\ timeout' = -1 => sleeping' = <<>>
         /\ \A j \in 1..Len(sleeping') : timeout' = 0 \/ timeout' <= alarm'[sleeping'[j]]
  BY <1>1, <1>5, <1>7, <1>8 DEF Alarms
<1> QED BY <1>3, <1>4, <1>9, <1>10 DEF Alarms

LEMMA ReturnAlarms == ASSUME Roles, Places, Alarms, FdReturn PROVE Alarms'
<1>1. PICK io \in Orders({t \in Users : pc[t] = "fdwait"}) : FdReady(io)
  BY DEF FdReturn
<1>2. PICK k \in 0..Len(sleeping) :
        /\ sleeping' = SubSeq(sleeping, k + 1, Len(sleeping))
        /\ taskyield(FdTask, io \o SubSeq(sleeping, 1, k))
        /\ timeout' = 0 /\ alarm' = alarm
  BY <1>1 DEF FdReady
<1>3. sleeping \in Seq(Tasks) /\ Len(sleeping) \in Nat /\ k \in Nat
  BY DEF Places, Lists
<1>4. /\ Len(sleeping') = Len(sleeping) - k
      /\ \A j \in 1..(Len(sleeping) - k) : sleeping'[j] = sleeping[k + j]
  BY <1>2, <1>3
<1>5. \A i, j \in 1..Len(sleeping') : i < j => alarm'[sleeping'[i]] <= alarm'[sleeping'[j]]
  <2> SUFFICES ASSUME NEW i \in 1..Len(sleeping'), NEW j \in 1..Len(sleeping'), i < j
               PROVE  alarm'[sleeping'[i]] <= alarm'[sleeping'[j]]
    OBVIOUS
  <2>1. k + i \in 1..Len(sleeping) /\ k + j \in 1..Len(sleeping) /\ k + i < k + j
    BY <1>3, <1>4
  <2> QED BY <1>2, <1>4, <2>1 DEF Alarms
<1>6. pc'[FdTask] = "yield"
  BY <1>2, TaskAssumption DEF taskyield
<1> QED BY <1>2, <1>5, <1>6 DEF Alarms

LEMMA AlarmsStep == ASSUME Roles, Places, Alarms, [Next]_vars PROVE Alarms'
<1>0. FdTask \in Tasks
  BY TaskAssumption
<1>1. ASSUME UNCHANGED <<sleeping, alarm>>, timeout' = timeout \/ timeout' = 0,
             pc'[FdTask] = "epoll" => pc[FdTask] = "epoll" /\ timeout' = timeout
      PROVE  Alarms'
  BY <1>1 DEF Alarms
<1>2. CASE FdStart \/ FdYieldAgain \/ FdInterrupted
  <2>1. /\ taskyield(FdTask, <<>>) /\ UNCHANGED <<sleeping, alarm>>
        /\ timeout' = timeout \/ timeout' = 0
    BY <1>2 DEF FdStart, FdYieldAgain, FdInterrupted, sleepVars
  <2>2. pc'[FdTask] = "yield"
    BY <1>0, <2>1, YieldsAlone
  <2> QED BY <1>1, <2>1, <2>2
<1>3. CASE Dispatch
  <2>1. /\ UNCHANGED <<sleeping, alarm, timeout>>
        /\ pc' = IF Head(runq) = FdTask THEN pc ELSE [pc EXCEPT ![Head(runq)] = "user"]
    BY <1>3 DEF Dispatch, sleepVars
  <2>2. pc'[FdTask] = pc[FdTask]
    BY <1>0, <2>1 DEF Roles
  <2> QED BY <1>1, <2>1, <2>2
<1>4. CASE End \/ Ended \/ UNCHANGED vars
  <2>1. UNCHANGED <<sleeping, alarm, timeout, pc>>
    BY <1>4 DEF End, Ended, vars, sleepVars
  <2> QED BY <1>1, <2>1
<1>5. ASSUME NEW t \in Users, Call(t), ~Delay(t) PROVE Alarms'
  <2>1. running = t /\ t # FdTask /\ UNCHANGED <<sleeping, alarm, timeout>>
    BY <1>5 DEF Call, CanCall, Create, System, Yield, Park, Wake, Exit, fdwait, Users, sleepVars
  <2>2. Roles'
    BY <1>5, PlacesStep DEF Next
  <2>3. running' # FdTask
    <3>1. running' \in {t, NoTask}
      BY <1>5, <2>1 DEF Call, Create, System, Yield, Park, Wake, Exit, fdwait, taskyield, suspend,
                        schedVars
    <3> QED BY <2>1, <3>1, TaskAssumption
  <2> QED BY <1>1, <2>1, <2>2, <2>3 DEF Roles
<1>6. ASSUME NEW t \in Users, Call(t) PROVE Alarms'
  BY <1>5, <1>6, DelayAlarms
<1> QED BY <1>2, <1>3, <1>4, <1>6, PollAlarms, TickAlarms, ReturnAlarms DEF Next, FdStep

\* fdtask blocks the process only when nobody could run, and never past the
\* first alarm.
THEOREM PollsWhenIdle == Spec => []PollsOnlyWhenIdle
<1>1. Spec => [](Roles /\ Places)
  BY PlacesInit, PlacesStep, PTL DEF Spec
<1>2. Roles /\ Places /\ Idle /\ Alarms /\ [Next]_vars => Idle' /\ Alarms'
  BY IdleStep, AlarmsStep
<1>3. Init => Idle /\ Alarms
  <2> SUFFICES ASSUME Init PROVE Idle /\ Alarms
    OBVIOUS
  <2>1. FdTask \in Tasks /\ pc[FdTask] \in {"start", "free"} /\ sleeping = <<>>
    BY TaskAssumption DEF Init
  <2> QED BY <2>1 DEF Init, Idle, JustYielded, Alarms
<1>4. Places /\ Idle /\ Alarms => PollsOnlyWhenIdle
  <2> SUFFICES ASSUME Places, Idle, Alarms, pc[FdTask] = "epoll"
               PROVE  /\ runq = <<>>
                      /\ timeout = Forever => Sleepers = {}
                      /\ \A t \in Sleepers : timeout = 0 \/ timeout <= alarm[t]
    BY DEF PollsOnlyWhenIdle
  <2>1. timeout = Forever => Sleepers = {}
    BY EmptySeq DEF Alarms, Places, Lists, Forever
  <2>2. \A t \in Sleepers : \E j \in 1..Len(sleeping) : sleeping[j] = t
    BY DEF Places, Lists
  <2> QED BY <2>1, <2>2 DEF Idle, Alarms
<1> QED BY <1>1, <1>2, <1>3, <1>4, PTL DEF Spec

----------------------------------------------------------------------------
(***************************************************************************)
(* The whole invariant, and what a step may never do.                      *)
(***************************************************************************)
Inv == Roles /\ Places /\ Slots /\ Counted /\ Ends /\ Idle /\ Alarms

LEMMA InvInit == Init => Inv
<1> SUFFICES ASSUME Init PROVE Inv
  OBVIOUS
<1>1. FdTask \in Tasks /\ pc[FdTask] \in {"start", "free"} /\ sleeping = <<>>
  BY TaskAssumption DEF Init
<1>2. Idle /\ Alarms /\ Ends
  BY <1>1 DEF Init, Idle, JustYielded, Alarms, Ends, EndsOnlyWhenDone
<1> QED BY <1>2, PlacesInit, SlotsInit, CountedInit DEF Inv

LEMMA InvStep == Inv /\ [Next]_vars => Inv'
BY PlacesStep, SlotsStep, CountedStep, EndsStep, IdleStep, AlarmsStep DEF Inv

\* The inductive invariant of the scheduler: no call of the library and no step
\* of fdtask or the scheduler breaks it.
THEOREM TaskInvariant == Spec => []Inv
BY InvInit, InvStep, PTL DEF Spec

\* Every variable keeps its type.
THEOREM TaskTypeCorrect == Spec => []TypeOK
<1>1. Inv => TypeOK
  <2> SUFFICES ASSUME Inv PROVE TypeOK
    OBVIOUS
  <2>1. taskcount \in Nat /\ sleepingcounted \in Nat
    <3>1. /\ sleepingcounted = Cardinality(Sleepers \ system)
          /\ taskcount = Cardinality(Live \ system) + (IF Sleepers \ system = {} THEN 0 ELSE 1)
      BY CountMeans DEF Inv, Counted
    <3>2. Cardinality(Sleepers \ system) \in Nat /\ Cardinality(Live \ system) \in Nat
      BY CountsTypes
    <3> QED BY <3>1, <3>2
  <2>2. system \subseteq Tasks
    BY DEF Inv, Counted, Live
  <2>3. runq \in Seq(Tasks) /\ sleeping \in Seq(Tasks) /\ alltask \in Seq(Tasks)
    BY DEF Inv, Places, Slots, Lists
  <2>4. pc \in [Tasks -> PcSet] /\ running \in Tasks \cup {NoTask} /\ startedfdtask \in BOOLEAN
    BY DEF Inv, Roles
  <2>5. /\ slot \in [Tasks -> Nat] /\ ran \in [Tasks -> Nat]
        /\ alarm \in [Tasks -> Nat \cup {-1}] /\ timeout \in Nat \cup {-1}
        /\ ended \in {"no", "exit", "stalled"}
    BY DEF Inv, Slots, Idle, Alarms, Ends
  <2> QED BY <2>1, <2>2, <2>3, <2>4, <2>5 DEF TypeOK, PcSet, Forever
<1> QED BY <1>1, TaskInvariant, PTL

\* A task that was on the run queue and still is was not overtaken.
LEMMA NobodyPasses ==
  ASSUME Places, Places', NEW ts, NEW S, Lists(ts, S), addtask(ts) \/ UNCHANGED runq,
         NEW t \in Tasks, \E k \in DOMAIN runq : runq[k] = t
  PROVE  ahead(t)' \subseteq ahead(t)
<1>1. /\ runq \in Seq(Tasks) /\ ts \in Seq(Tasks) /\ Len(runq) \in Nat /\ Len(ts) \in Nat
      /\ DOMAIN runq = 1..Len(runq) /\ DOMAIN runq' = 1..Len(runq')
  BY ListsType DEF Places, Lists
<1>2. CASE addtask(ts)
  <2>1. /\ Len(runq') = Len(runq) + Len(ts)
        /\ \A i \in 1..Len(runq) : i \in 1..Len(runq') /\ runq'[i] = runq[i]
    BY <1>1, <1>2, ConcatProperties DEF addtask
  <2>2. PICK m \in 1..Len(runq) : runq[m] = t
    BY <1>1
  <2>3. ASSUME NEW u \in Tasks, NEW j \in 1..Len(runq'), NEW k \in 1..Len(runq'),
               j < k, runq'[j] = u, runq'[k] = t
        PROVE  u \in ahead(t)
    <3>1. k = m
      BY <2>1, <2>2, <2>3 DEF Places, Lists
    <3>2. j \in 1..Len(runq) /\ runq[j] = u
      BY <1>1, <2>1, <2>3, <3>1
    <3> QED BY <1>1, <2>2, <2>3, <3>1, <3>2 DEF ahead
  <2> QED BY <1>1, <2>3 DEF ahead
<1>3. CASE UNCHANGED runq
  BY <1>3 DEF ahead
<1> QED BY <1>2, <1>3

LEMMA NobodyPassesTheHead ==
  ASSUME Places, runq # <<>>, runq' = Tail(runq), NEW t \in Tasks
  PROVE  ahead(t)' \subseteq ahead(t)
<1>1. runq \in Seq(Tasks) /\ Len(runq) \in Nat \ {0} /\ DOMAIN runq = 1..Len(runq)
  BY EmptySeq DEF Places, Lists
<1>2. /\ Len(runq') = Len(runq) - 1 /\ DOMAIN runq' = 1..(Len(runq) - 1)
      /\ \A i \in 1..(Len(runq) - 1) : runq'[i] = runq[i + 1]
  BY <1>1
<1>3. ASSUME NEW u \in Tasks, NEW j \in DOMAIN runq', NEW k \in DOMAIN runq',
             j < k, runq'[j] = u, runq'[k] = t
      PROVE  u \in ahead(t)
  <2>1. /\ j + 1 \in DOMAIN runq /\ k + 1 \in DOMAIN runq /\ j + 1 < k + 1
        /\ runq[j + 1] = u /\ runq[k + 1] = t
    BY <1>1, <1>2, <1>3
  <2> QED BY <2>1 DEF ahead
<1> QED BY <1>3 DEF ahead

\* What a step adds to the run queue is a list.
LEMMA QueueSteps ==
  ASSUME Inv, [Next]_vars
  PROVE  \/ Dispatch
         \/ UNCHANGED runq
         \/ \E ts, S : Lists(ts, S) /\ addtask(ts)
<1>0. FdTask \in Tasks /\ Users \subseteq Tasks
  BY TaskAssumption DEF Users
<1>1. ASSUME NEW t \in Tasks, taskyield(t, <<>>) PROVE \E ts, S : Lists(ts, S) /\ addtask(ts)
  <2>1. Lists(<<>> \o <<t>>, {} \cup {t})
    BY ListNone, ListOne, ListConcat
  <2>2. addtask(<<>> \o <<t>>)
    BY <1>1 DEF taskyield
  <2> QED BY <2>1, <2>2
<1>2. ASSUME NEW t \in Users, Call(t)
      PROVE  UNCHANGED runq \/ \E ts, S : Lists(ts, S) /\ addtask(ts)
  <2>1. CASE Create(t) \/ Wake(t)
    <3>1. PICK u \in Users : addtask(<<u>>)
      BY <2>1 DEF Create, Wake, taskcreate
    <3>2. Lists(<<u>>, {u})
      BY <1>0, ListOne
    <3> QED BY <3>1, <3>2
  <2>2. CASE Yield(t)
    <3>1. t \in Tasks /\ taskyield(t, <<>>)
      BY <1>0, <2>2 DEF Yield
    <3> QED BY <1>1, <3>1
  <2>3. CASE System(t) \/ Park(t) \/ Exit(t)
    BY <2>3 DEF System, Park, Exit, schedVars
  <2>4. CASE Delay(t) \/ fdwait(t)
    <3>1. addtask(startFdtask)
      BY <2>4 DEF Delay, fdwait, taskcreate
    <3>2. Lists(startFdtask, fdtaskIfNew)
      BY <1>0, ListNone, ListOne DEF startFdtask, fdtaskIfNew
    <3> QED BY <3>1, <3>2
  <2> QED BY <1>2, <2>1, <2>2, <2>3, <2>4 DEF Call
<1>3. CASE FdReturn
  <2>1. PICK io \in Orders({u \in Users : pc[u] = "fdwait"}) : FdReady(io)
    BY <1>3 DEF FdReturn
  <2>2. PICK k \in 0..Len(sleeping) : taskyield(FdTask, io \o SubSeq(sleeping, 1, k))
    BY <2>1 DEF FdReady
  <2> DEFINE S == {io[j] : j \in 1..Len(io)}
             R == {sleeping[j] : j \in 1..k}
             due == SubSeq(sleeping, 1, k)
  <2>3. Lists(io, S) /\ S \subseteq {u \in Users : pc[u] = "fdwait"}
    BY <1>0, OrderIsList
  <2>4. Lists(due, R) /\ R \subseteq Sleepers
    BY ListSplit DEF Inv, Places
  <2>5. pc[FdTask] = "epoll"
    BY <1>3 DEF FdReturn, FdRuns
  <2>6. addtask((io \o due) \o <<FdTask>>)
    BY <2>2 DEF taskyield
  <2> HIDE DEF S, R, due
  <2>7. S \cap R = {} /\ (S \cup R) \cap {FdTask} = {}
    BY <2>3, <2>4, <2>5 DEF Sleepers
  <2>8. Lists(io \o due, S \cup R)
    BY <2>3, <2>4, <2>7, ListConcat
  <2>9. Lists((io \o due) \o <<FdTask>>, (S \cup R) \cup {FdTask})
    BY <1>0, <2>7, <2>8, ListConcat, ListOne
  <2> QED BY <2>6, <2>9
<1>4. CASE FdStep /\ ~FdReturn
  BY <1>0, <1>1, <1>4 DEF FdStep, FdStart, FdYieldAgain, FdInterrupted, FdPoll, schedVars
<1>5. CASE End \/ Tick \/ Ended \/ UNCHANGED vars
  BY <1>5 DEF End, Tick, Ended, vars, schedVars
<1> QED BY <1>2, <1>3, <1>4, <1>5 DEF Next

\* Nobody, new, woken or yielding, ever overtakes a task on the run queue.
THEOREM NobodyOvertakes == Spec => NoOvertaking
<1> DEFINE A == \A t \in Tasks :
                  (\E k \in DOMAIN runq : runq[k] = t) /\ (\E k \in DOMAIN runq' : runq'[k] = t)
                    => ahead(t)' \subseteq ahead(t)
<1>1. Inv /\ Inv' /\ [Next]_vars => A
  <2> SUFFICES ASSUME Inv, Inv', [Next]_vars, NEW t \in Tasks,
                      \E k \in DOMAIN runq : runq[k] = t
               PROVE  ahead(t)' \subseteq ahead(t)
    OBVIOUS
  <2>1. Places /\ Places'
    BY DEF Inv
  <2>2. CASE Dispatch
    BY <2>1, <2>2, NobodyPassesTheHead DEF Dispatch
  <2>3. CASE UNCHANGED runq
    BY <2>1, <2>3, ListNone, NobodyPasses
  <2>4. CASE \E ts, S : Lists(ts, S) /\ addtask(ts)
    BY <2>1, <2>4, NobodyPasses
  <2> QED BY <2>2, <2>3, <2>4, QueueSteps
<1>2. Inv /\ Inv' /\ [Next]_vars => [A]_vars
  BY <1>1
<1> QED BY <1>2, TaskInvariant, PTL DEF Spec, NoOvertaking

\* A return of epoll_wait takes the sleepers up to the first that is not due.
LEMMA ReturnWakes ==
  ASSUME Inv, FdReturn
  PROVE  /\ \A t \in Sleepers : pc'[t] # "delay" => alarm[t] <= 0
         /\ \A t \in Sleepers : pc'[t] = "delay" => alarm[t] > 0
<1>1. PICK io \in Orders({t \in Users : pc[t] = "fdwait"}) : FdReady(io)
  BY DEF FdReturn
<1>2. PICK k \in 0..Len(sleeping) :
        /\ \A j \in 1..k : alarm[sleeping[j]] <= 0
        /\ k < Len(sleeping) => alarm[sleeping[k + 1]] > 0
        /\ sleeping' = SubSeq(sleeping, k + 1, Len(sleeping))
  BY <1>1 DEF FdReady
<1>3. /\ sleeping \in Seq(Tasks) /\ Len(sleeping) \in Nat /\ k \in Nat
      /\ \A j \in 1..Len(sleeping) : alarm[sleeping[j]] \in Int
  BY DEF Inv, Places, Lists, Alarms
<1>4. \A j \in 1..Len(sleeping) : j > k => alarm[sleeping[j]] > 0
  <2> SUFFICES ASSUME NEW j \in 1..Len(sleeping), j > k PROVE alarm[sleeping[j]] > 0
    OBVIOUS
  <2>1. k + 1 \in 1..Len(sleeping) /\ alarm[sleeping[k + 1]] > 0
    BY <1>2, <1>3
  <2>2. k + 1 = j \/ alarm[sleeping[k + 1]] <= alarm[sleeping[j]]
    BY <1>3, <2>1 DEF Inv, Alarms
  <2> QED BY <1>3, <2>1, <2>2
<1> DEFINE R == {sleeping[j] : j \in 1..k}
<1>5. R \subseteq Sleepers /\ Lists(sleeping', Sleepers \ R)
  BY <1>2, ListSplit DEF Inv, Places
<1>6. Lists(sleeping', Sleepers')
  BY FdReturnPlaces DEF Inv, Places
<1>7. Sleepers' = Sleepers \ R
  <2> HIDE DEF R
  <2> QED BY <1>5, <1>6 DEF Lists
<1>8. \A t \in Sleepers : pc'[t] = "delay" <=> t \notin R
  <2> HIDE DEF R
  <2> QED BY <1>7 DEF Sleepers
<1>9. \A t \in R : alarm[t] <= 0
  BY <1>2
<1>10. \A t \in Sleepers : t \notin R => alarm[t] > 0
  <2> TAKE t \in Sleepers
  <2>1. PICK j \in 1..Len(sleeping) : sleeping[j] = t
    BY DEF Inv, Places, Lists
  <2>2. t \notin R => j > k
    BY <1>3, <2>1
  <2> QED BY <1>4, <2>1, <2>2
<1> QED BY <1>8, <1>9, <1>10

LEMMA OthersWakeNobody ==
  ASSUME Inv, [Next]_vars, ~FdReturn PROVE Sleepers \subseteq Sleepers'
<1>1. Roles /\ Places /\ FdTask \in Tasks /\ Users \subseteq Tasks
  BY TaskAssumption DEF Inv, Users
<1>2. CASE QuietStep
  BY <1>1, <1>2, QuietIsQuiet DEF Quiet
<1>3. CASE FdStart
  BY <1>1, <1>3, SystemKinds
<1>4. ASSUME NEW t \in Users, Create(t) \/ System(t) \/ Exit(t) PROVE Sleepers \subseteq Sleepers'
  <2>1. t \in Tasks
    BY <1>1
  <2> QED BY <1>1, <1>4, <2>1, CreateKinds, SystemKinds, ExitKinds
<1>5. ASSUME NEW t \in Users, Delay(t) \/ fdwait(t) PROVE Sleepers \subseteq Sleepers'
  <2>1. ASSUME NEW where \in {"fdwait", "delay"}, CanCall(t), suspend(t, where)
        PROVE  Sleepers \subseteq Sleepers'
    BY <1>1, <2>1, SuspendKinds
  <2>2. CASE Delay(t)
    BY <2>1, <2>2 DEF Delay
  <2>3. CASE fdwait(t)
    BY <2>1, <2>3 DEF fdwait
  <2> QED BY <1>5, <2>2, <2>3
<1> QED BY <1>2, <1>3, <1>4, <1>5, StepKinds

\* A sleeper is not woken before its time, and every one whose time has come
\* is woken by the next return of epoll_wait.
THEOREM SleepersWokenInTime == Spec => WakesTheDue
<1> DEFINE A == /\ \A t \in Sleepers : pc'[t] # "delay" => alarm[t] <= 0
                /\ FdReturn => \A t \in Sleepers : pc'[t] = "delay" => alarm[t] > 0
<1>1. Inv /\ [Next]_vars => A
  <2> SUFFICES ASSUME Inv, [Next]_vars PROVE A
    OBVIOUS
  <2>1. CASE FdReturn
    BY <2>1, ReturnWakes
  <2>2. CASE ~FdReturn
    BY <2>2, OthersWakeNobody DEF Sleepers
  <2> QED BY <2>1, <2>2
<1>2. Inv /\ [Next]_vars => [A]_vars
  BY <1>1
<1> QED BY <1>2, TaskInvariant, PTL DEF Spec, WakesTheDue
=============================================================================
