--------------------------- MODULE ChannelProofs ---------------------------
(***************************************************************************)
(* Proofs about Channel: its invariants and, in the second part, that      *)
(* channel.c implements ChannelSpec, for any number of tasks and channels, *)
(* any buffer sizes and any lists of alternatives, when no two tasks share *)
(* an array.                                                               *)
(***************************************************************************)
EXTENDS ChannelRefinement, FiniteSetTheorems, SequenceTheorems, TLAPS

\* Indices of the ring buffer stay inside it and advance one by one.
LEMMA RingIndex ==
  ASSUME NEW n \in Nat \ {0}, NEW x \in Nat
  PROVE  /\ x % n \in 0..(n - 1)
         /\ x < n => x % n = x
         /\ x >= n /\ x < 2 * n => x % n = x - n
  BY SMT

\* The initial states satisfy the inductive invariant.
LEMMA InitIInv == Init => IInv
  <1> SUFFICES ASSUME Init PROVE IInv
    OBVIOUS
  <1> USE ChannelAssumption
  <1>1. Cardinality(Tasks) \in Nat
    BY FS_CardinalityType
  <1>2. runq \in Seq(Tasks)
    <2>1. runq \in [1..Cardinality(Tasks) -> Tasks]
      BY DEF Init
    <2>2. runq \in UNION {[1..n -> Tasks] : n \in Nat}
      BY <1>1, <2>1, Zenon
    <2> QED
      BY <2>2, SeqDef, Zenon
  <1>3. TypeOK
    <2>1. alts \in [Arrays -> Seq(Alt)] /\ \A arr \in Arrays : Len(alts[arr]) <= MaxAlts
      BY DEF Init
    <2>2. queue \in [Places -> [Ptr -> Nat]]
      BY DEF Init
    <2>3. /\ buf = [c \in Chans |-> buf[c]]
          /\ \A c \in Chans : buf[c] \in [0..(bufsize[c] - 1) -> Values \cup {NoValue}]
      BY DEF Init
    <2>4. /\ alttask \in [Arrays -> Tasks \cup {NoTask}]
          /\ xalt \in [Arrays -> Nat]
      BY DEF Init
    <2>5. off \in [Chans -> Nat] /\ nbuf \in [Chans -> Nat]
      BY DEF Init
    <2>6. ret \in [Tasks -> Int] /\ running \in Tasks \cup {NoTask}
      BY DEF Init
    <2>7. inalt \in [Tasks -> BOOLEAN] /\ ready \in [Tasks -> BOOLEAN]
      BY DEF Init
    <2>8. aborted \in BOOLEAN
      BY DEF Init
    <2> QED
      BY <1>2, <2>1, <2>2, <2>3, <2>4, <2>5, <2>6, <2>7, <2>8 DEF TypeOK
  <1>4. \A t \in Tasks : ~waiting(t)
    BY DEF Init, waiting
  <1>5. QueuesMatchWaiters /\ WaiterFields /\ NoLostWakeup
    BY <1>4 DEF Init, QueuesMatchWaiters, WaiterFields, NoLostWakeup,
                sleepsAt, offered
  <1>6. ReadyOnce /\ NeverAborts
    BY DEF Init, ReadyOnce, NeverAborts
  <1>7. RingBuffer
    BY DEF Init, RingBuffer
  <1> QED
    BY <1>3, <1>5, <1>6, <1>7 DEF IInv

\* Moving off forward by one renumbers the slots behind it.
LEMMA RingAdvance ==
  ASSUME NEW n \in Nat \ {0}, NEW o \in 0..(n - 1), NEW k \in 0..(n - 1)
  PROVE  (((o + 1) % n) + k) % n = (o + k + 1) % n
  <1>1. CASE o + 1 < n
    <2>1. (o + 1) % n = o + 1
      <3>1. o + 1 \in Nat
        OBVIOUS
      <3> QED
        BY <1>1, <3>1, RingIndex, Zenon
    <2>2. (o + 1) + k = o + k + 1
      OBVIOUS
    <2> QED
      BY <2>1, <2>2
  <1>2. CASE o + 1 = n
    <2>1. (o + 1) % n = 0 /\ k % n = k
      BY <1>2, RingIndex
    <2>2. (n + k) % n = k
      BY RingIndex
    <2> QED
      BY <1>2, <2>1, <2>2
  <1>3. o + 1 < n \/ o + 1 = n
    OBVIOUS
  <1> QED
    BY <1>1, <1>2, <1>3, Zenon

\* The indices of copyThroughBuffer: o is off, b is nbuf, tk and gv say whether
\* there are a receiver and a sender.
LEMMA RingArithmetic ==
  ASSUME NEW n \in Nat \ {0}, NEW o \in 0..(n - 1), NEW b \in 0..n,
         NEW tk \in {0, 1}, NEW gv \in {0, 1},
         tk = 1 => b > 0, tk = 0 => b < n
  PROVE  /\ (o + tk) % n \in 0..(n - 1)
         /\ (((o + tk) % n) + b - tk) % n \in 0..(n - 1)
         /\ b - tk + gv \in 0..n
         /\ \A k \in 0..(b - tk - 1) :
              (((o + tk) % n) + k) % n = (o + (k + tk)) % n /\ k + tk \in 0..(b - 1)
         /\ \A k \in Nat : (o + k) % n \in 0..(n - 1)
  <1> DEFINE o1 == (o + tk) % n
  <1>1. \A k \in Nat : o + k \in Nat /\ (o + k) % n \in 0..(n - 1)
    <2> TAKE k \in Nat
    <2>1. o + k \in Nat
      OBVIOUS
    <2> QED
      BY <2>1, RingIndex, Zenon
  <1>2. o1 \in 0..(n - 1)
    BY <1>1
  <1>3. (o1 + b - tk) % n \in 0..(n - 1)
    <2>1. o1 + b - tk \in Nat
      BY <1>2
    <2> QED
      BY <2>1, RingIndex, Zenon
  <1>4. ASSUME NEW k \in 0..(b - tk - 1)
        PROVE  (o1 + k) % n = (o + (k + tk)) % n /\ k + tk \in 0..(b - 1)
    <2>1. CASE tk = 0
      <3>1. o1 = o
        BY <2>1, RingIndex
      <3>2. o + (k + tk) = o + k /\ k + tk = k
        BY <2>1
      <3> QED
        BY <2>1, <3>1, <3>2
    <2>2. CASE tk = 1
      <3>1. k \in 0..(n - 1) /\ o + (k + tk) = o + k + 1
        BY <2>2
      <3>2. (((o + 1) % n) + k) % n = (o + k + 1) % n
        BY <3>1, RingAdvance
      <3>3. k + tk \in 0..(b - 1)
        BY <2>2
      <3> QED
        BY <2>2, <3>1, <3>2, <3>3, Zenon
    <2> QED
      BY <2>1, <2>2
  <1> QED
    BY <1>1, <1>2, <1>3, <1>4

\* store writes values only: the entries keep their channel and direction.
LEMMA StoreKeeps ==
  ASSUME NEW m \in [Arrays -> Seq(Alt)], NEW ps, NEW v \in Values
  PROVE  /\ store(m, ps, v) \in [Arrays -> Seq(Alt)]
         /\ \A arr \in Arrays :
              /\ Len(store(m, ps, v)[arr]) = Len(m[arr])
              /\ DOMAIN store(m, ps, v)[arr] = DOMAIN m[arr]
              /\ \A i \in DOMAIN m[arr] :
                   /\ store(m, ps, v)[arr][i].c = m[arr][i].c
                   /\ store(m, ps, v)[arr][i].op = m[arr][i].op
  <1> DEFINE new(arr) == [i \in DOMAIN m[arr] |->
          IF <<arr, i>> \in ps THEN [m[arr][i] EXCEPT !.v = v] ELSE m[arr][i]]
  <1>1. ASSUME NEW arr \in Arrays
        PROVE  /\ new(arr) \in Seq(Alt)
               /\ Len(new(arr)) = Len(m[arr])
               /\ DOMAIN new(arr) = DOMAIN m[arr]
    <2>1. m[arr] \in Seq(Alt) /\ Len(m[arr]) \in Nat /\ DOMAIN m[arr] = 1..Len(m[arr])
      OBVIOUS
    <2>2. new(arr) \in [1..Len(m[arr]) -> Alt]
      <3>1. ASSUME NEW i \in 1..Len(m[arr]) PROVE new(arr)[i] \in Alt
        <4>1. m[arr][i] \in Alt
          BY <2>1, ElementOfSeq
        <4> QED
          BY <2>1, <4>1 DEF Alt
      <3> QED
        BY <2>1, <3>1
    <2>3. new(arr) \in UNION {[1..n -> Alt] : n \in Nat}
      BY <2>1, <2>2, Zenon
    <2>4. new(arr) \in Seq(Alt)
      BY <2>3, SeqDef, Zenon
    <2> QED
      BY <2>1, <2>2, <2>4
  <1>2. \A arr \in Arrays : \A i \in DOMAIN m[arr] :
           new(arr)[i].c = m[arr][i].c /\ new(arr)[i].op = m[arr][i].op
    BY DEF Alt
  <1>3. store(m, ps, v) = [arr \in Arrays |-> new(arr)]
    BY DEF store
  <1> HIDE DEF new
  <1> QED
    BY <1>1, <1>2, <1>3

\* An array that store is not told to write to stays as it is.
LEMMA StoreElsewhere ==
  ASSUME NEW mm \in [Arrays -> Seq(Alt)], NEW pp, NEW vv, NEW aa \in Arrays,
         \A p \in pp : p[1] # aa
  PROVE  store(mm, pp, vv)[aa] = mm[aa]
  <1>1. \A i \in DOMAIN mm[aa] : <<aa, i>> \notin pp
    OBVIOUS
  <1>2. store(mm, pp, vv)[aa] = [i \in DOMAIN mm[aa] |-> mm[aa][i]]
    BY <1>1 DEF store
  <1>3. mm[aa] \in Seq(Alt)
    OBVIOUS
  <1>4. mm[aa] = [i \in DOMAIN mm[aa] |-> mm[aa][i]]
    BY <1>3
  <1> QED
    BY <1>2, <1>4

\* Whatever is stored into one array only, the others are as before.
LEMMA StoreInto ==
  ASSUME NEW mm \in [Arrays -> Seq(Alt)], NEW aa \in Arrays, NEW pp, NEW vv,
         \A q \in pp : q[1] = aa, pp # {} => vv \in Values
  PROVE  /\ store(mm, pp, vv) \in [Arrays -> Seq(Alt)]
         /\ \A x \in Arrays : Len(store(mm, pp, vv)[x]) = Len(mm[x])
         /\ \A x \in Arrays : x # aa => store(mm, pp, vv)[x] = mm[x]
  <1>1. ASSUME NEW x \in Arrays, x # aa PROVE store(mm, pp, vv)[x] = mm[x]
    <2>1. \A q \in pp : q[1] # x
      BY <1>1
    <2> QED
      BY <2>1, StoreElsewhere
  <1>2. CASE pp = {}
    <2>1. store(mm, pp, vv)[aa] = mm[aa]
      BY <1>2, StoreElsewhere
    <2>2. store(mm, pp, vv) = [x \in Arrays |-> store(mm, pp, vv)[x]]
      BY DEF store
    <2> QED
      BY <1>1, <2>1, <2>2
  <1>3. CASE pp # {}
    BY <1>1, <1>3, StoreKeeps
  <1> QED
    BY <1>2, <1>3

\* The running task neither waits nor is queued to run, and its calls touch no
\* other task's array.
LEMMA CallerAwake ==
  ASSUME IInv, NEW t \in Tasks, CanCall(t)
  PROVE  running = t /\ ~ready[t] /\ ~inalt[t] /\ ~waiting(t)
  BY DEF IInv, ReadyOnce, CanCall, waiting

\* What a task may call chanalt with is a list of alternatives that fits.
LEMMA CallsAreAlts ==
  ASSUME NEW t \in Tasks, NEW a \in calls(t)
  PROVE  a \in Seq(Alt) /\ Len(a) <= MaxAlts
  BY ChannelAssumption DEF calls

\* The prologue of chanalt writes the caller's array and no other.
LEMMA LoadKeepsOthers ==
  ASSUME IInv, OwnArrays, NEW t \in Tasks, NEW a \in calls(t)
  PROVE  /\ loaded(t, a) \in [Arrays -> Seq(Alt)]
         /\ \A arr \in Arrays : Len(loaded(t, a)[arr]) <= MaxAlts
         /\ loaded(t, a)[ArrayOf[t]] = a
         /\ \A arr \in Arrays : arr # ArrayOf[t] => loaded(t, a)[arr] = alts[arr]
         /\ \A u \in Tasks : u # t => ArrayOf[u] # ArrayOf[t]
  <1> USE ChannelAssumption
  <1>1. alts \in [Arrays -> Seq(Alt)] /\ ArrayOf[t] \in Arrays /\ a \in Seq(Alt)
        /\ Len(a) <= MaxAlts
    BY CallsAreAlts DEF IInv, TypeOK
  <1>2. \A u \in Tasks : u # t => ArrayOf[u] # ArrayOf[t]
    BY DEF OwnArrays
  <1> QED
    BY <1>1, <1>2 DEF IInv, TypeOK, loaded

\* Calls that queue nothing and wake nobody leave every sleeper as it was.
LEMMA SleepersKept ==
  ASSUME IInv, NEW t \in Tasks, ~waiting(t), ~waiting(t)',
         OwnArrays,
         \A u \in Tasks \ {t} :
           /\ waiting(u)' <=> waiting(u)
           /\ alts'[ArrayOf[u]] = alts[ArrayOf[u]]
           /\ alttask'[ArrayOf[u]] = alttask[ArrayOf[u]]
           /\ xalt'[ArrayOf[u]] = xalt[ArrayOf[u]],
         UNCHANGED queue
  PROVE  /\ QueuesMatchWaiters' /\ WaiterFields'
         /\ \A u \in Tasks : offered(u)' = offered(u)
         /\ UNCHANGED <<buf, off, nbuf>> => NoLostWakeup' /\ RingBuffer'
  <1>1. \A u \in Tasks : waiting(u)' <=> waiting(u)
    OBVIOUS
  <1>2. \A u \in Tasks : offered(u)' = offered(u)
    BY <1>1 DEF offered
  <1>3. \A p \in Ptr : sleepsAt(p)' <=> sleepsAt(p)
    BY <1>1 DEF sleepsAt
  <1>4. \A p \in Ptr : sleepsAt(p) => Home(alts, p)' = Home(alts, p)
    BY DEF sleepsAt, Home, At
  <1>5. QueuesMatchWaiters'
    BY <1>3, <1>4 DEF IInv, QueuesMatchWaiters
  <1>6. WaiterFields'
    BY <1>1 DEF IInv, WaiterFields
  <1>7. UNCHANGED nbuf => NoLostWakeup'
    BY <1>1, <1>2 DEF IInv, NoLostWakeup
  <1>8. UNCHANGED <<buf, off, nbuf>> => RingBuffer'
    BY DEF IInv, RingBuffer
  <1> QED
    BY <1>2, <1>5, <1>6, <1>7, <1>8

\* taskready of a task that is not on the run queue appends it, once.
LEMMA TaskReadyKeeps ==
  ASSUME IInv, NEW t \in Tasks, ~ready[t], taskready(t)
  PROVE  /\ runq' \in Seq(Tasks) /\ ready' \in [Tasks -> BOOLEAN]
         /\ \A u \in Tasks : ready'[u] <=> u = t \/ ready[u]
         /\ \A j, k \in DOMAIN runq' : runq'[j] = runq'[k] => j = k
         /\ \A u \in Tasks : ready'[u] <=> \E k \in DOMAIN runq' : runq'[k] = u
  <1>1. /\ runq \in Seq(Tasks) /\ runq' = Append(runq, t)
        /\ ready \in [Tasks -> BOOLEAN] /\ ready' = [ready EXCEPT ![t] = TRUE]
    BY DEF IInv, TypeOK, taskready
  <1>2. /\ \A j, k \in DOMAIN runq : runq[j] = runq[k] => j = k
        /\ \A u \in Tasks : ready[u] <=> \E k \in DOMAIN runq : runq[k] = u
    BY DEF IInv, ReadyOnce
  <1>3. /\ DOMAIN runq' = 1..(Len(runq) + 1) /\ DOMAIN runq = 1..Len(runq)
        /\ Len(runq) \in Nat /\ runq'[Len(runq) + 1] = t
        /\ \A k \in DOMAIN runq : runq'[k] = runq[k]
    BY <1>1
  <1>4. \A j, k \in DOMAIN runq' : runq'[j] = runq'[k] => j = k
    BY <1>1, <1>2
  <1>5. \A u \in Tasks : ready'[u] <=> u = t \/ ready[u]
    BY <1>1
  <1>6. \A u \in Tasks : (\E k \in DOMAIN runq' : runq'[k] = u)
                        <=> u = t \/ \E k \in DOMAIN runq : runq[k] = u
    BY <1>3
  <1>7. runq' \in Seq(Tasks) /\ ready' \in [Tasks -> BOOLEAN]
    BY <1>1
  <1> QED
    BY <1>2, <1>4, <1>5, <1>6, <1>7

\* taskyield
LEMMA YieldStep ==
  ASSUME IInv, OwnArrays, NEW t \in Tasks, Yield(t)
  PROVE  IInv'
  <1> USE ChannelAssumption
  <1>1. ~ready[t] /\ ~inalt[t] /\ ~waiting(t) /\ running = t
    BY CallerAwake DEF Yield
  <1>2. TypeOK'
    BY DEF IInv, TypeOK, Yield, taskready, memVars, chanVars
  <1>3. ReadyOnce'
    <2>1. taskready(t) /\ running' = NoTask
      BY DEF Yield
    <2> QED
      BY <1>1, <2>1, TaskReadyKeeps DEF ReadyOnce
  <1>4. NeverAborts'
    BY DEF IInv, NeverAborts, Yield
  <1>5. \A u \in Tasks : waiting(u)' <=> waiting(u)
    BY <1>1 DEF IInv, TypeOK, waiting, Yield, taskready
  <1>6. QueuesMatchWaiters' /\ WaiterFields' /\ NoLostWakeup' /\ RingBuffer'
    BY <1>1, <1>5, SleepersKept DEF Yield, memVars, chanVars
  <1> QED
    BY <1>2, <1>3, <1>4, <1>6 DEF IInv

\* The scheduler's dispatch
LEMMA DispatchStep ==
  ASSUME IInv, OwnArrays, Dispatch
  PROVE  IInv'
  <1> USE ChannelAssumption
  <1>0. runq \in Seq(Tasks) /\ runq # <<>> /\ Head(runq) \in Tasks
    BY DEF IInv, TypeOK, Dispatch
  <1> PICK t \in Tasks : t = Head(runq)
    BY <1>0
  <1>1. /\ runq \in Seq(Tasks) /\ runq # <<>> /\ t = runq[1]
        /\ 1 \in DOMAIN runq /\ ready[t] /\ ~waiting(t)
    BY <1>0 DEF IInv, ReadyOnce, waiting
  <1>2. /\ running' = t
        /\ ready' = [ready EXCEPT ![t] = FALSE]
        /\ inalt' = [inalt EXCEPT ![t] = FALSE]
        /\ ret' = IF inalt[t] THEN [ret EXCEPT ![t] = xalt[ArrayOf[t]]] ELSE ret
        /\ runq' = Tail(runq)
        /\ UNCHANGED <<alts, alttask, xalt, queue, buf, off, nbuf, aborted>>
    BY DEF Dispatch, memVars, chanVars
  <1>3. TypeOK'
    <2>1. ret' \in [Tasks -> Int]
      BY <1>1, <1>2 DEF IInv, TypeOK
    <2>2. runq' \in Seq(Tasks)
      BY <1>1, <1>2
    <2> QED
      BY <1>1, <1>2, <2>1, <2>2 DEF IInv, TypeOK
  <1>4. ReadyOnce'
    <2>1. /\ DOMAIN runq = 1..Len(runq) /\ Len(runq) \in Nat /\ Len(runq) >= 1
          /\ DOMAIN runq' = 1..(Len(runq) - 1)
          /\ \A k \in DOMAIN runq' : runq'[k] = runq[k + 1]
      BY <1>1, <1>2
    <2>2. \A k \in DOMAIN runq : runq[k] = t <=> k = 1
      BY <1>1 DEF IInv, ReadyOnce
    <2>3. \A j, k \in DOMAIN runq' : runq'[j] = runq'[k] => j = k
      BY <2>1 DEF IInv, ReadyOnce
    <2>4. ASSUME NEW u \in Tasks
          PROVE  ready'[u] <=> \E k \in DOMAIN runq' : runq'[k] = u
      <3>1. CASE u = t
        <4>1. ~ready'[t]
          BY <1>1, <1>2 DEF IInv, TypeOK
        <4>2. \A k \in DOMAIN runq' : k + 1 \in DOMAIN runq /\ k + 1 # 1
          BY <2>1
        <4>3. \A k \in DOMAIN runq' : runq'[k] # t
          BY <2>1, <2>2, <4>2
        <4> QED
          BY <3>1, <4>1, <4>3
      <3>2. CASE u # t
        <4>1. ready'[u] <=> ready[u]
          BY <1>1, <1>2, <3>2 DEF IInv, TypeOK
        <4>2. (\E k \in DOMAIN runq : runq[k] = u) <=>
              (\E k \in DOMAIN runq' : runq'[k] = u)
          <5>1. ASSUME NEW k \in DOMAIN runq, runq[k] = u
                PROVE  \E j \in DOMAIN runq' : runq'[j] = u
            <6>1. k # 1
              BY <2>2, <3>2, <5>1
            <6>2. k - 1 \in DOMAIN runq' /\ runq'[k - 1] = runq[k]
              BY <2>1, <6>1
            <6> QED
              BY <5>1, <6>2
          <5> QED
            BY <2>1, <5>1
        <4> QED
          BY <4>1, <4>2 DEF IInv, ReadyOnce
      <3> QED
        BY <3>1, <3>2
    <2>5. \A u \in Tasks : running' = u => ~ready'[u] /\ ~inalt'[u]
      BY <1>1, <1>2 DEF IInv, TypeOK
    <2> QED
      BY <2>3, <2>4, <2>5 DEF ReadyOnce
  <1>5. NeverAborts'
    BY <1>2 DEF IInv, NeverAborts
  <1>6. ~waiting(t)' /\ \A u \in Tasks \ {t} : waiting(u)' <=> waiting(u)
    <2>1. /\ inalt \in [Tasks -> BOOLEAN] /\ ready \in [Tasks -> BOOLEAN]
          /\ ready' = [ready EXCEPT ![t] = FALSE]
          /\ inalt' = [inalt EXCEPT ![t] = FALSE]
      BY <1>2 DEF IInv, TypeOK
    <2>2. ~inalt'[t] /\ \A u \in Tasks \ {t} : inalt'[u] <=> inalt[u]
      BY <1>1, <2>1
    <2>3. \A u \in Tasks \ {t} : ready'[u] <=> ready[u]
      BY <1>1, <2>1
    <2> QED
      BY <2>2, <2>3 DEF waiting
  <1>7. QueuesMatchWaiters' /\ WaiterFields' /\ NoLostWakeup' /\ RingBuffer'
    BY <1>1, <1>2, <1>6, SleepersKept
  <1> QED
    BY <1>3, <1>4, <1>5, <1>7 DEF IInv

\* chanalt on a CHANNOBLK list of which nothing can proceed
LEMMA NoBlockStep ==
  ASSUME IInv, OwnArrays, NEW t \in Tasks, AltNoBlock(t)
  PROVE  IInv'
  <1> USE ChannelAssumption
  <1>1. running = t /\ ~ready[t] /\ ~inalt[t] /\ ~waiting(t)
    BY CallerAwake DEF AltNoBlock
  <1>2. PICK a \in calls(t) : alts' = loaded(t, a)
    BY DEF AltNoBlock
  <1>3. /\ alttask' = tagged(t) /\ xalt' = based(t)
        /\ ret' = [ret EXCEPT ![t] = -1]
        /\ UNCHANGED <<queue, buf, off, nbuf, inalt, ready, runq, running, aborted>>
    BY DEF AltNoBlock, chanVars, schedVars
  <1>4. TypeOK'
    BY <1>2, <1>3, LoadKeepsOthers DEF IInv, TypeOK, tagged, based
  <1>5. ReadyOnce' /\ NeverAborts'
    BY <1>3 DEF IInv, ReadyOnce, NeverAborts
  <1>6. \A u \in Tasks : waiting(u)' <=> waiting(u)
    BY <1>3 DEF waiting
  <1>7. \A u \in Tasks \ {t} :
           /\ alts'[ArrayOf[u]] = alts[ArrayOf[u]]
           /\ alttask'[ArrayOf[u]] = alttask[ArrayOf[u]]
           /\ xalt'[ArrayOf[u]] = xalt[ArrayOf[u]]
    BY <1>2, <1>3, LoadKeepsOthers DEF IInv, TypeOK, tagged, based
  <1>8. QueuesMatchWaiters' /\ WaiterFields' /\ NoLostWakeup' /\ RingBuffer'
    BY <1>1, <1>3, <1>6, <1>7, SleepersKept
  <1> QED
    BY <1>4, <1>5, <1>8 DEF IInv

\* What a sleeper offers are the entries of its array.
LEMMA OfferedAlt ==
  ASSUME IInv, NEW u \in Tasks, NEW j \in DOMAIN offered(u)
  PROVE  /\ waiting(u) /\ offered(u) = alts[ArrayOf[u]]
         /\ offered(u)[j] \in Alt
         /\ offered(u)[j].c \in Chans /\ offered(u)[j].op \in Ops
  <1>1. waiting(u) /\ offered(u) = alts[ArrayOf[u]]
    BY DEF offered
  <1>2. alts[ArrayOf[u]] \in Seq(Alt)
    BY ChannelAssumption DEF IInv, TypeOK
  <1>3. offered(u)[j] \in Alt
    BY <1>1, <1>2, ElementOfSeq
  <1> QED
    BY <1>1, <1>3 DEF Alt

\* The entries of the sleepers are queued ...
LEMMA SleeperQueued ==
  ASSUME IInv, NEW u \in Tasks, waiting(u), NEW j \in DOMAIN alts[ArrayOf[u]],
         NEW c \in Chans, NEW op \in Dirs,
         alts[ArrayOf[u]][j].c = c, alts[ArrayOf[u]][j].op = op
  PROVE  <<ArrayOf[u], j>> \in Queued(c, op)
  <1> USE ChannelAssumption
  <1> DEFINE p == <<ArrayOf[u], j>>
             k == <<c, op>>
  <1>1. p \in Ptr /\ k \in Places
    <2>1. alts[ArrayOf[u]] \in Seq(Alt) /\ Len(alts[ArrayOf[u]]) <= MaxAlts
      BY DEF IInv, TypeOK
    <2>2. j \in 1..MaxAlts
      BY <2>1
    <2> QED
      BY <2>2 DEF Ptr, Places
  <1>2. sleepsAt(p) /\ Home(alts, p) = k
    BY DEF sleepsAt, Home, At
  <1>3. queue[k][p] = 1
    BY <1>1, <1>2 DEF IInv, QueuesMatchWaiters
  <1> QED
    BY <1>1, <1>3 DEF Queued

\* ... and nothing else is.
LEMMA QueuedSleeper ==
  ASSUME IInv, NEW c \in Chans, NEW op \in Dirs, NEW p \in Queued(c, op)
  PROVE  /\ p \in Ptr
         /\ \E u \in Tasks :
              /\ p[1] = ArrayOf[u] /\ waiting(u) /\ p[2] \in DOMAIN alts[p[1]]
              /\ alts[p[1]][p[2]].c = c /\ alts[p[1]][p[2]].op = op
  <1>1. p \in Ptr /\ <<c, op>> \in Places /\ queue[<<c, op>>][p] > 0
    BY DEF Queued, Places
  <1>2. sleepsAt(p) /\ Home(alts, p) = <<c, op>>
    BY <1>1 DEF IInv, QueuesMatchWaiters
  <1>3. alts[p[1]][p[2]].c = c /\ alts[p[1]][p[2]].op = op
    BY <1>2 DEF Home, At
  <1> QED
    BY <1>1, <1>2, <1>3 DEF sleepsAt

\* What a list of which nothing can proceed says about the sleepers.
LEMMA NothingExecutable ==
  ASSUME IInv, NEW t \in Tasks, NEW a \in calls(t), executable(a) = {},
         NEW i \in DOMAIN a, a[i].op # "CHANNOP"
  PROVE  /\ a[i].c \in Chans /\ a[i].op \in Dirs
         /\ a[i].op = "CHANSND" /\ bufsize[a[i].c] > 0 => nbuf[a[i].c] = bufsize[a[i].c]
         /\ a[i].op = "CHANRCV" /\ bufsize[a[i].c] > 0 => nbuf[a[i].c] = 0
         /\ bufsize[a[i].c] = 0 =>
              \A u \in Tasks : waiting(u) => \A j \in DOMAIN alts[ArrayOf[u]] :
                ~(alts[ArrayOf[u]][j].c = a[i].c /\ alts[ArrayOf[u]][j].op = otherop(a[i].op))
  <1> USE ChannelAssumption
  <1>1. a \in Seq(Alt) /\ a[i] \in Alt /\ ~altcanexec(a[i])
    <2>1. a \in Seq(Alt) /\ ~altcanexec(a[i])
      BY CallsAreAlts DEF executable
    <2> QED
      BY <2>1, ElementOfSeq
  <1>2. a[i].c \in Chans /\ a[i].op \in Dirs /\ otherop(a[i].op) \in Dirs
    BY <1>1 DEF Alt, Ops, Dirs, otherop
  <1>3. /\ bufsize[a[i].c] \in Nat /\ nbuf[a[i].c] \in Nat
        /\ nbuf[a[i].c] <= bufsize[a[i].c]
    BY <1>2 DEF IInv, TypeOK, RingBuffer
  <1>4. ASSUME bufsize[a[i].c] = 0, NEW u \in Tasks, waiting(u),
               NEW j \in DOMAIN alts[ArrayOf[u]],
               alts[ArrayOf[u]][j].c = a[i].c,
               alts[ArrayOf[u]][j].op = otherop(a[i].op)
        PROVE  FALSE
    <2>1. <<ArrayOf[u], j>> \in Queued(a[i].c, otherop(a[i].op))
      BY <1>2, <1>4, SleeperQueued
    <2> QED
      BY <1>1, <1>4, <2>1 DEF altcanexec
  <1>5. a[i].op = "CHANSND" /\ bufsize[a[i].c] > 0 => nbuf[a[i].c] = bufsize[a[i].c]
    BY <1>1, <1>3 DEF altcanexec
  <1>6. a[i].op = "CHANRCV" /\ bufsize[a[i].c] > 0 => nbuf[a[i].c] = 0
    BY <1>1, <1>3 DEF altcanexec
  <1> QED
    BY <1>2, <1>4, <1>5, <1>6

\* A pointer is an entry of the task that owns its array, and of no other.
LEMMA EntryOwner ==
  ASSUME OwnArrays, NEW t \in Tasks, NEW p \in Ptr
  PROVE  /\ p[1] = ArrayOf[t] => (sleepsAt(p) <=> waiting(t) /\ p[2] \in DOMAIN alts[p[1]])
         /\ p[1] = ArrayOf[t] =>
              (sleepsAt(p)' <=> waiting(t)' /\ p[2] \in DOMAIN alts'[p[1]])
         /\ p = <<p[1], p[2]>> /\ p[1] \in Arrays /\ p[2] \in 1..MaxAlts
  BY DEF OwnArrays, sleepsAt, Ptr

\* chanalt on a CHANEND list of which nothing can proceed
LEMMA BlockStep ==
  ASSUME IInv, OwnArrays, NEW t \in Tasks, AltBlock(t)
  PROVE  IInv'
  <1> USE ChannelAssumption
  <1> DEFINE arr == ArrayOf[t]
  <1>1. running = t /\ ~ready[t] /\ ~inalt[t] /\ ~waiting(t)
    BY CallerAwake DEF AltBlock
  <1>2. PICK a \in calls(t) :
          /\ executable(a) = {}
          /\ alts' = loaded(t, a)
          /\ altqueue(loaded(t, a), Entries(loaded(t, a), arr, 1))
    BY DEF AltBlock
  <1>3. /\ alttask' = tagged(t) /\ xalt' = based(t)
        /\ inalt' = [inalt EXCEPT ![t] = TRUE] /\ running' = NoTask
        /\ UNCHANGED <<buf, off, nbuf, ret, ready, runq, aborted>>
    BY DEF AltBlock
  <1>4. /\ alts' \in [Arrays -> Seq(Alt)]
        /\ \A x \in Arrays : Len(alts'[x]) <= MaxAlts
        /\ alts'[arr] = a /\ arr \in Arrays
        /\ \A x \in Arrays : x # arr => alts'[x] = alts[x]
        /\ \A u \in Tasks : u # t => ArrayOf[u] # arr
        /\ a \in Seq(Alt) /\ Len(a) \in Nat /\ DOMAIN a = 1..Len(a)
    BY <1>2, LoadKeepsOthers
  <1>5. queue \in [Places -> [Ptr -> Nat]]
    BY DEF IInv, TypeOK
  <1>6. /\ waiting(t)'
        /\ \A u \in Tasks \ {t} : waiting(u)' <=> waiting(u)
    <2>1. inalt \in [Tasks -> BOOLEAN]
      BY DEF IInv, TypeOK
    <2> QED
      BY <1>1, <1>3, <2>1 DEF waiting
  <1>7. \A k \in Places, p \in Ptr :
          queue'[k][p] = IF p \in Entries(alts', arr, 1) /\ Home(alts', p) = k
                         THEN queue[k][p] + 1 ELSE queue[k][p]
    BY <1>2 DEF altqueue
  <1>8. TypeOK'
    <2>1. queue' \in [Places -> [Ptr -> Nat]]
      BY <1>2, <1>5 DEF altqueue
    <2>2. alttask' \in [Arrays -> Tasks \cup {NoTask}] /\ xalt' \in [Arrays -> Nat]
      BY <1>3 DEF IInv, TypeOK, tagged, based
    <2>3. inalt' \in [Tasks -> BOOLEAN]
      BY <1>3 DEF IInv, TypeOK
    <2> QED
      BY <1>3, <1>4, <2>1, <2>2, <2>3 DEF IInv, TypeOK
  <1>9. ASSUME NEW k \in Places, NEW p \in Ptr
        PROVE  queue'[k][p] = IF sleepsAt(p)' /\ Home(alts', p) = k THEN 1 ELSE 0
    <2>1. queue[k][p] = IF sleepsAt(p) /\ Home(alts, p) = k THEN 1 ELSE 0
      BY DEF IInv, QueuesMatchWaiters
    <2>2. CASE p[1] = arr
      <3>1. queue[k][p] = 0
        BY <1>1, <2>1, <2>2, EntryOwner
      <3>2. sleepsAt(p)' <=> p[2] \in 1..Len(a)
        BY <1>4, <1>6, <2>2, EntryOwner
      <3>3. p \in Entries(alts', arr, 1) <=> p[2] \in 1..Len(a) /\ At(alts', p).op # "CHANNOP"
        BY <1>4, <2>2, EntryOwner DEF Entries
      <3>4. Home(alts', p) = k => At(alts', p).op # "CHANNOP"
        BY DEF Home, Places, Dirs
      <3> QED
        BY <1>7, <3>1, <3>2, <3>3, <3>4
    <2>3. CASE p[1] # arr
      <3>1. p \notin Entries(alts', arr, 1)
        BY <2>3 DEF Entries
      <3>2. p[1] \in Arrays /\ alts'[p[1]] = alts[p[1]]
        BY <1>4, <2>3, EntryOwner
      <3>3. sleepsAt(p)' <=> sleepsAt(p)
        BY <1>4, <1>6, <2>3, <3>2 DEF sleepsAt
      <3>4. Home(alts', p) = Home(alts, p)
        BY <3>2 DEF Home, At
      <3> QED
        BY <1>7, <2>1, <3>1, <3>3, <3>4
    <2> QED
      BY <2>2, <2>3
  <1>10. QueuesMatchWaiters'
    BY <1>9 DEF QueuesMatchWaiters
  <1>11. WaiterFields'
    <2>1. alttask'[arr] = t /\ xalt'[arr] = 1
      BY <1>3, <1>4 DEF IInv, TypeOK, tagged, based
    <2>2. \A u \in Tasks \ {t} : /\ alttask'[ArrayOf[u]] = alttask[ArrayOf[u]]
                                 /\ xalt'[ArrayOf[u]] = xalt[ArrayOf[u]]
      BY <1>3, <1>4 DEF IInv, TypeOK, tagged, based
    <2> QED
      BY <1>6, <2>1, <2>2 DEF IInv, WaiterFields
  <1>12. NoLostWakeup'
    <2>1. offered(t)' = a /\ \A u \in Tasks \ {t} : offered(u)' = offered(u)
      BY <1>4, <1>6 DEF offered
    <2>2. \A u \in Tasks : DOMAIN offered(u) # {} => waiting(u) /\ offered(u) = alts[ArrayOf[u]]
      BY DEF offered
    <2>3. ASSUME NEW u \in Tasks, NEW i \in DOMAIN offered(u)',
                 NEW x, x = offered(u)'[i]
          PROVE  /\ x.op = "CHANSND" /\ bufsize[x.c] > 0 => nbuf[x.c] = bufsize[x.c]
                 /\ x.op = "CHANRCV" /\ bufsize[x.c] > 0 => nbuf[x.c] = 0
      <3>1. CASE u = t
        BY <1>2, <2>1, <2>3, <3>1, NothingExecutable
      <3>2. CASE u # t
        BY <2>1, <2>3, <3>2 DEF IInv, NoLostWakeup
      <3> QED
        BY <3>1, <3>2
    <2>4. ASSUME NEW u \in Tasks, NEW i \in DOMAIN offered(u)',
                 NEW w \in Tasks \ {u}, NEW j \in DOMAIN offered(w)',
                 NEW x, x = offered(u)'[i], NEW y, y = offered(w)'[j],
                 bufsize[x.c] = 0, x.op # "CHANNOP",
                 y.c = x.c, y.op = otherop(x.op)
          PROVE  FALSE
      <3>1. CASE u = t
        <4>1. offered(w) = alts[ArrayOf[w]] /\ waiting(w) /\ offered(w)' = offered(w)
          BY <2>1, <2>2, <2>4, <3>1
        <4> QED
          BY <1>2, <2>1, <2>4, <3>1, <4>1, NothingExecutable
      <3>2. CASE w = t
        <4>1. offered(u) = alts[ArrayOf[u]] /\ waiting(u) /\ offered(u)' = offered(u)
          BY <2>1, <2>2, <2>4, <3>2
        <4>2. y.op # "CHANNOP" /\ y.op \in Dirs /\ x.op \in Ops
          <5>1. x \in Alt
            BY <2>4, <4>1 DEF IInv, TypeOK
          <5> QED
            BY <2>4, <5>1 DEF Alt, Ops, Dirs, otherop
        <4>3. x.op = otherop(y.op)
          BY <2>4, <4>2 DEF Ops, Dirs, otherop
        <4> QED
          BY <1>2, <2>1, <2>4, <3>2, <4>1, <4>2, <4>3, NothingExecutable
      <3>3. CASE u # t /\ w # t
        BY <2>1, <2>4, <3>3 DEF IInv, NoLostWakeup
      <3> QED
        BY <3>1, <3>2, <3>3
    <2> QED
      BY <1>3, <2>3, <2>4 DEF NoLostWakeup
  <1>13. ReadyOnce' /\ NeverAborts' /\ RingBuffer'
    BY <1>3 DEF IInv, ReadyOnce, NeverAborts, RingBuffer
  <1> QED
    BY <1>8, <1>10, <1>11, <1>12, <1>13 DEF IInv

\* What the ring buffers alone need, whoever shares an array with whom.
RingIInv ==
  /\ alts \in [Arrays -> Seq(Alt)]
  /\ buf = [c \in Chans |-> buf[c]]
  /\ \A c \in Chans : buf[c] \in [0..(bufsize[c] - 1) -> Values \cup {NoValue}]
  /\ off \in [Chans -> Nat] /\ nbuf \in [Chans -> Nat]
  /\ RingBuffer

LEMMA RingOf == IInv => RingIInv
  BY DEF IInv, TypeOK, RingIInv

\* A transfer through the ring buffer keeps the slots in use filled with sent
\* values, takes the oldest one for the receiver and adds the sender's.
LEMMA BufferMoves ==
  ASSUME RingIInv, NEW c \in Chans, bufsize[c] > 0, NEW m, NEW s, NEW r,
         copyThroughBuffer(m, c, s, r),
         \A p \in s : At(m, p).v \in Values,
         r # {} => nbuf[c] > 0,
         r = {} => nbuf[c] < bufsize[c]
  PROVE  /\ RingBuffer'
         /\ buf' = [d \in Chans |-> buf'[d]]
         /\ \A d \in Chans : buf'[d] \in [0..(bufsize[d] - 1) -> Values \cup {NoValue}]
         /\ off' \in [Chans -> Nat] /\ nbuf' \in [Chans -> Nat]
         /\ nbuf'[c] = nbuf[c] - (IF r = {} THEN 0 ELSE 1) + (IF s = {} THEN 0 ELSE 1)
         /\ \A d \in Chans \ {c} : nbuf'[d] = nbuf[d]
         /\ \E w : alts' = store(m, r, w) /\ (r # {} => w \in Values)
  <1> USE ChannelAssumption
  <1> DEFINE taken == IF r = {} THEN 0 ELSE 1
             given == IF s = {} THEN 0 ELSE 1
             off1  == (off[c] + taken) % bufsize[c]
             last  == (off1 + nbuf[c] - taken) % bufsize[c]
  <1>1. /\ off \in [Chans -> Nat] /\ nbuf \in [Chans -> Nat]
        /\ buf = [d \in Chans |-> buf[d]]
        /\ \A d \in Chans : buf[d] \in [0..(bufsize[d] - 1) -> Values \cup {NoValue}]
        /\ bufsize \in [Chans -> Nat]
    BY DEF RingIInv
  <1> DEFINE n == bufsize[c]
             o == off[c]
             b == nbuf[c]
  <1>2. n \in Nat \ {0} /\ o \in 0..(n - 1) /\ b \in 0..n
    <2>1. n \in Nat /\ n > 0 /\ o \in Nat /\ b \in Nat
      BY <1>1
    <2>2. b <= n /\ (o < n \/ o = 0)
      BY DEF RingIInv, RingBuffer
    <2> HIDE DEF n, o, b
    <2> QED
      BY <2>1, <2>2
  <1>3. \A k \in 0..(b - 1) : buf[c][(o + k) % n] \in Values
    BY DEF RingIInv, RingBuffer
  <1>4. r # {} => buf[c][o] \in Values
    <2>1. ASSUME r # {} PROVE o % n = o /\ 0 \in 0..(b - 1) /\ o + 0 = o
      BY <1>1, <1>2, <2>1, RingIndex
    <2> QED
      BY <1>3, <2>1
  <1>5. /\ alts' = store(m, r, buf[c][o])
        /\ off' = [off EXCEPT ![c] = off1]
        /\ nbuf' = [nbuf EXCEPT ![c] = b - taken + given]
        /\ IF s = {} THEN buf' = buf
           ELSE \E p \in s : buf' = [buf EXCEPT ![c][last] = At(m, p).v]
    BY DEF copyThroughBuffer
  <1>6. /\ off1 \in 0..(n - 1) /\ last \in 0..(n - 1)
        /\ b - taken + given \in 0..n
        /\ \A k \in 0..(b - taken - 1) :
             (off1 + k) % n = (o + (k + taken)) % n /\ k + taken \in 0..(b - 1)
        /\ \A k \in Nat : (o + k) % n \in 0..(n - 1)
    <2>1. /\ taken \in {0, 1} /\ given \in {0, 1}
          /\ taken = 1 => b > 0
          /\ taken = 0 => b < n
      OBVIOUS
    <2>2. off1 = (o + taken) % n /\ last = (off1 + b - taken) % n
      OBVIOUS
    <2> HIDE DEF taken, given, off1, last, n, o, b
    <2>3. /\ (o + taken) % n \in 0..(n - 1)
          /\ (((o + taken) % n) + b - taken) % n \in 0..(n - 1)
          /\ b - taken + given \in 0..n
          /\ \A k \in 0..(b - taken - 1) :
               (((o + taken) % n) + k) % n = (o + (k + taken)) % n /\ k + taken \in 0..(b - 1)
          /\ \A k \in Nat : (o + k) % n \in 0..(n - 1)
      BY <1>2, <2>1, RingArithmetic, Zenon
    <2> QED
      BY <2>2, <2>3
  <1>7. /\ buf' = [d \in Chans |-> buf'[d]]
        /\ \A d \in Chans : buf'[d] \in [0..(bufsize[d] - 1) -> Values \cup {NoValue}]
        /\ \A d \in Chans \ {c} : buf'[d] = buf[d]
        /\ \A x \in 0..(n - 1) : buf[c][x] \in Values => buf'[c][x] \in Values
        /\ s # {} => buf'[c][last] \in Values
    <2>1. CASE s = {}
      BY <1>1, <1>5, <2>1
    <2>2. CASE s # {}
      <3>1. PICK p \in s : buf' = [buf EXCEPT ![c][last] = At(m, p).v]
        BY <1>5, <2>2
      <3> DEFINE v == At(m, p).v
      <3>2. v \in Values
        OBVIOUS
      <3> HIDE DEF v, last
      <3>3. buf' = [d \in Chans |-> IF d = c THEN [buf[c] EXCEPT ![last] = v] ELSE buf[d]]
        BY <1>1, <3>1 DEF v
      <3>4. /\ [buf[c] EXCEPT ![last] = v] \in [0..(n - 1) -> Values \cup {NoValue}]
            /\ \A x \in 0..(n - 1) : [buf[c] EXCEPT ![last] = v][x]
                                     = IF x = last THEN v ELSE buf[c][x]
        BY <1>1, <1>6, <3>2
      <3> QED
        BY <1>1, <1>6, <3>2, <3>3, <3>4
    <2> QED
      BY <2>1, <2>2
  <1>8. nbuf'[c] = b - taken + given /\ off'[c] = off1
        /\ \A d \in Chans \ {c} : nbuf'[d] = nbuf[d] /\ off'[d] = off[d]
    BY <1>1, <1>5
  <1>9. n \in Nat /\ taken \in {0, 1} /\ given \in {0, 1}
        /\ last = (off1 + b - taken) % n
    BY <1>1
  <1> HIDE DEF n, o, b, off1, last, taken, given
  <1>10. off' \in [Chans -> Nat] /\ nbuf' \in [Chans -> Nat]
    BY <1>1, <1>2, <1>5, <1>6
  <1>11. ASSUME NEW k \in 0..(b - taken + given - 1)
         PROVE  buf'[c][(off1 + k) % n] \in Values
    <2>1. CASE k \in 0..(b - taken - 1)
      <3>1. (off1 + k) % n = (o + (k + taken)) % n /\ k + taken \in 0..(b - 1)
        BY <1>6, <2>1
      <3>2. (o + (k + taken)) % n \in 0..(n - 1)
        BY <1>2, <1>6, <3>1
      <3>3. buf[c][(o + (k + taken)) % n] \in Values
        BY <1>3, <3>1
      <3> QED
        BY <1>7, <3>1, <3>2, <3>3
    <2>2. CASE k \notin 0..(b - taken - 1)
      <3>1. k = b - taken /\ given = 1
        BY <1>2, <1>9, <2>2
      <3>2. off1 + k = off1 + b - taken
        BY <1>2, <1>6, <1>9, <3>1
      <3>3. s # {}
        BY <3>1 DEF given
      <3> QED
        BY <1>7, <1>9, <3>2, <3>3
    <2> QED
      BY <2>1, <2>2
  <1>12. RingBuffer'
    <2>1. ASSUME NEW d \in Chans, d # c
          PROVE  /\ nbuf'[d] <= bufsize[d]
                 /\ off'[d] < bufsize[d] \/ off'[d] = 0
                 /\ \A k \in 0..(nbuf'[d] - 1) :
                      buf'[d][(off'[d] + k) % bufsize[d]] \in Values
      BY <1>7, <1>8, <2>1 DEF RingIInv, RingBuffer
    <2>2. /\ nbuf'[c] <= bufsize[c]
          /\ off'[c] < bufsize[c]
          /\ \A k \in 0..(nbuf'[c] - 1) :
               buf'[c][(off'[c] + k) % bufsize[c]] \in Values
      <3>1. nbuf'[c] \in 0..n /\ off'[c] \in 0..(n - 1) /\ n \in Nat
        BY <1>6, <1>8, <1>9
      <3>2. \A k \in 0..(nbuf'[c] - 1) : buf'[c][(off'[c] + k) % n] \in Values
        <4>1. ASSUME NEW k \in 0..(nbuf'[c] - 1)
              PROVE  buf'[c][(off'[c] + k) % n] \in Values
          <5>1. k \in 0..(b - taken + given - 1)
            BY <1>2, <1>8, <1>9
          <5> QED
            BY <1>8, <1>11, <5>1, Zenon
        <4> QED
          BY <4>1, Zenon
      <3> QED
        BY <3>1, <3>2 DEF n
    <2> QED
      BY <2>1, <2>2 DEF RingBuffer
  <1> QED
    BY <1>4, <1>5, <1>7, <1>8, <1>10, <1>12 DEF n, o, b, taken, given

\* chanalt when an entry can proceed and nobody waits on the other side
LEMMA AloneStep ==
  ASSUME IInv, OwnArrays, NEW t \in Tasks, CanCall(t),
         NEW a \in calls(t), NEW i \in executable(a), execAlone(t, a, i),
         ret' = [ret EXCEPT ![t] = i], UNCHANGED <<inalt, running>>
  PROVE  IInv'
  <1> USE ChannelAssumption
  <1> DEFINE arr == ArrayOf[t]
             c == a[i].c
             p == <<arr, i>>
  <1> PICK m : m = loaded(t, a)
    OBVIOUS
  <1>1. running = t /\ ~ready[t] /\ ~inalt[t] /\ ~waiting(t)
    BY CallerAwake
  <1>2. /\ i \in DOMAIN a /\ i \in Nat /\ altcanexec(a[i]) /\ a[i] \in Alt
        /\ c \in Chans /\ a[i].op \in Dirs /\ otherop(a[i].op) \in Dirs
        /\ a[i].op = "CHANSND" => a[i].v \in Values
    <2>1. i \in DOMAIN a /\ altcanexec(a[i]) /\ a \in Seq(Alt)
      BY CallsAreAlts DEF executable
    <2>2. a[i] \in Alt /\ i \in Nat
      BY <2>1, ElementOfSeq
    <2>3. a[i].op # "CHANNOP"
      BY <2>1 DEF altcanexec
    <2> QED
      BY <2>1, <2>2, <2>3 DEF Alt, Ops, Dirs, otherop
  <1>3. /\ m \in [Arrays -> Seq(Alt)] /\ \A x \in Arrays : Len(m[x]) <= MaxAlts
        /\ m[arr] = a /\ arr \in Arrays
        /\ \A x \in Arrays : x # arr => m[x] = alts[x]
        /\ \A u \in Tasks : u # t => ArrayOf[u] # arr /\ ArrayOf[u] \in Arrays
    BY LoadKeepsOthers
  <1>4. /\ Queued(c, otherop(a[i].op)) = {}
        /\ altcopy(m, c, p, {})
        /\ alttask' = tagged(t) /\ xalt' = based(t)
        /\ UNCHANGED <<queue, ready, runq, aborted>>
    BY DEF execAlone
  <1>5. /\ bufsize[c] \in Nat /\ bufsize[c] > 0 /\ nbuf[c] \in Nat
        /\ a[i].op = "CHANSND" => nbuf[c] < bufsize[c]
        /\ a[i].op = "CHANRCV" => nbuf[c] > 0
    BY <1>2, <1>4 DEF altcanexec, IInv, TypeOK
  <1> DEFINE s == IF a[i].op = "CHANSND" THEN {p} ELSE {}
             r == IF a[i].op = "CHANSND" THEN {} ELSE {p}
  <1>6. At(m, p) = a[i]
    BY <1>3 DEF At
  <1>7. copyThroughBuffer(m, c, s, r)
    BY <1>4, <1>6 DEF altcopy, copyDirect
  <1>8. /\ RingBuffer'
        /\ buf' = [d \in Chans |-> buf'[d]]
        /\ \A d \in Chans : buf'[d] \in [0..(bufsize[d] - 1) -> Values \cup {NoValue}]
        /\ off' \in [Chans -> Nat] /\ nbuf' \in [Chans -> Nat]
        /\ \A d \in Chans \ {c} : nbuf'[d] = nbuf[d]
        /\ \E w : alts' = store(m, r, w) /\ (r # {} => w \in Values)
    <2>1. \A q \in s : At(m, q).v \in Values
      BY <1>2, <1>6
    <2>2. r # {} => nbuf[c] > 0
      BY <1>2, <1>5 DEF Dirs
    <2>3. r = {} => nbuf[c] < bufsize[c]
      BY <1>5
    <2> HIDE DEF s, r, c
    <2> QED
      BY <1>2, <1>5, <1>7, <2>1, <2>2, <2>3, RingOf, BufferMoves
  <1>9. /\ alts' \in [Arrays -> Seq(Alt)]
        /\ \A x \in Arrays : Len(alts'[x]) <= MaxAlts
        /\ \A x \in Arrays : x # arr => alts'[x] = alts[x]
    <2> PICK w : alts' = store(m, r, w) /\ (r # {} => w \in Values)
      BY <1>8
    <2>1. \A q \in r : q[1] = arr
      OBVIOUS
    <2> HIDE DEF c, r
    <2>2. /\ store(m, r, w) \in [Arrays -> Seq(Alt)]
          /\ \A x \in Arrays : Len(store(m, r, w)[x]) = Len(m[x])
          /\ \A x \in Arrays : x # arr => store(m, r, w)[x] = m[x]
      <3>1. m \in [Arrays -> Seq(Alt)]
        BY <1>3
      <3>2. arr \in Arrays
        BY <1>3
      <3>3. r # {} => w \in Values
        OBVIOUS
      <3> HIDE ChannelAssumption DEF arr
      <3> QED
        BY <2>1, <3>1, <3>2, <3>3, StoreInto
    <2> QED
      BY <1>3, <2>2
  <1>10. TypeOK'
    <2>1. alttask' \in [Arrays -> Tasks \cup {NoTask}] /\ xalt' \in [Arrays -> Nat]
      BY <1>4 DEF IInv, TypeOK, tagged, based
    <2>2. ret' \in [Tasks -> Int]
      BY <1>2 DEF IInv, TypeOK
    <2> HIDE DEF c
    <2> QED
      BY <1>4, <1>8, <1>9, <2>1, <2>2 DEF IInv, TypeOK
  <1>11. ReadyOnce' /\ NeverAborts'
    BY <1>4 DEF IInv, ReadyOnce, NeverAborts
  <1>12. \A u \in Tasks : waiting(u)' <=> waiting(u)
    BY <1>4 DEF waiting
  <1>13. \A u \in Tasks \ {t} :
           /\ alts'[ArrayOf[u]] = alts[ArrayOf[u]]
           /\ alttask'[ArrayOf[u]] = alttask[ArrayOf[u]]
           /\ xalt'[ArrayOf[u]] = xalt[ArrayOf[u]]
    BY <1>3, <1>4, <1>9 DEF IInv, TypeOK, tagged, based
  <1>14. /\ QueuesMatchWaiters' /\ WaiterFields'
         /\ \A u \in Tasks : offered(u)' = offered(u)
    BY <1>1, <1>4, <1>12, <1>13, SleepersKept
  <1>15. ASSUME NEW u \in Tasks, NEW j \in DOMAIN offered(u),
                offered(u)[j].op # "CHANNOP"
         PROVE  offered(u)[j].c # c
    <2>1. waiting(u) /\ offered(u) = alts[ArrayOf[u]]
      BY <1>15 DEF offered
    <2>2. offered(u)[j].op \in Dirs
      BY <1>15, OfferedAlt DEF Ops
    <2>3. ASSUME offered(u)[j].c = c PROVE FALSE
      <3>1. CASE offered(u)[j].op = a[i].op
        <4>1. a[i].op = "CHANSND" => nbuf[c] = bufsize[c]
          BY <1>5, <2>3, <3>1 DEF IInv, NoLostWakeup
        <4>2. a[i].op = "CHANRCV" => nbuf[c] = 0
          BY <1>5, <2>3, <3>1 DEF IInv, NoLostWakeup
        <4> QED
          BY <1>2, <1>5, <4>1, <4>2 DEF Dirs
      <3>2. CASE offered(u)[j].op # a[i].op
        <4>1. offered(u)[j].op = otherop(a[i].op)
          BY <1>2, <2>2, <3>2 DEF otherop, Dirs
        <4>2. <<ArrayOf[u], j>> \in Queued(c, otherop(a[i].op))
          BY <1>2, <2>1, <2>3, <4>1, SleeperQueued
        <4> QED
          BY <1>4, <4>2
      <3> QED
        BY <3>1, <3>2
    <2> QED
      BY <2>3
  <1>16. NoLostWakeup'
    <2>1. ASSUME NEW u \in Tasks, NEW j \in DOMAIN offered(u)
          PROVE  offered(u)[j].op # "CHANNOP" /\ offered(u)[j].c \in Chans
                   => nbuf'[offered(u)[j].c] = nbuf[offered(u)[j].c]
      BY <1>8, <1>15
    <2>2. ASSUME NEW u \in Tasks, NEW j \in DOMAIN offered(u)
          PROVE  offered(u)[j].c \in Chans
      BY OfferedAlt
    <2>3. ASSUME NEW u \in Tasks, NEW j \in DOMAIN offered(u), NEW x, x = offered(u)[j]
          PROVE  /\ x.op = "CHANSND" /\ bufsize[x.c] > 0 => nbuf'[x.c] = bufsize[x.c]
                 /\ x.op = "CHANRCV" /\ bufsize[x.c] > 0 => nbuf'[x.c] = 0
      BY <2>1, <2>2, <2>3 DEF IInv, NoLostWakeup
    <2> QED
      BY <1>14, <2>3 DEF IInv, NoLostWakeup
  <1> QED
    BY <1>8, <1>10, <1>11, <1>14, <1>16 DEF IInv

\* What altexec finds when it executes entry i with a sleeping partner.
LEMMA PartnerFacts ==
  ASSUME IInv, OwnArrays, NEW t \in Tasks, CanCall(t),
         NEW a \in calls(t), NEW i \in executable(a),
         NEW other \in Queued(a[i].c, otherop(a[i].op))
  PROVE  /\ i \in DOMAIN a /\ i \in Nat /\ a[i] \in Alt /\ altcanexec(a[i])
         /\ a[i].c \in Chans /\ a[i].op \in Dirs
         /\ other \in Ptr
         /\ \E u \in Tasks \ {t} :
              /\ other[1] = ArrayOf[u] /\ ArrayOf[u] # ArrayOf[t]
              /\ waiting(u) /\ other[2] \in DOMAIN alts[ArrayOf[u]]
              /\ alts[ArrayOf[u]][other[2]].c = a[i].c
              /\ alts[ArrayOf[u]][other[2]].op = otherop(a[i].op)
              /\ toDequeue(t, a, other) = Entries(alts, ArrayOf[u], 1)
              /\ tagged(t)[ArrayOf[u]] = u
  <1>1. i \in DOMAIN a /\ altcanexec(a[i]) /\ a \in Seq(Alt)
    BY CallsAreAlts DEF executable
  <1>2. a[i] \in Alt /\ i \in Nat
    BY <1>1, ElementOfSeq
  <1>3. a[i].op # "CHANNOP"
    BY <1>1 DEF altcanexec
  <1>4. a[i].c \in Chans /\ a[i].op \in Dirs /\ otherop(a[i].op) \in Dirs
    BY <1>2, <1>3 DEF Alt, Ops, Dirs, otherop
  <1>5. other \in Ptr
    BY <1>4, QueuedSleeper
  <1>6. PICK u \in Tasks :
          /\ other[1] = ArrayOf[u] /\ waiting(u) /\ other[2] \in DOMAIN alts[other[1]]
          /\ alts[other[1]][other[2]].c = a[i].c
          /\ alts[other[1]][other[2]].op = otherop(a[i].op)
    BY <1>4, QueuedSleeper
  <1>7. u # t
    BY <1>6, CallerAwake
  <1>8. ArrayOf[u] # ArrayOf[t] /\ loaded(t, a)[ArrayOf[u]] = alts[ArrayOf[u]]
    BY <1>7, LoadKeepsOthers, ChannelAssumption
  <1>9. alttask[ArrayOf[u]] = u /\ xalt[ArrayOf[u]] = 1
    BY <1>6 DEF IInv, WaiterFields
  <1>10. tagged(t)[ArrayOf[u]] = u /\ based(t)[ArrayOf[u]] = 1
    BY <1>8, <1>9, ChannelAssumption DEF tagged, based, IInv, TypeOK
  <1>11. toDequeue(t, a, other) = Entries(alts, ArrayOf[u], 1)
    BY <1>6, <1>8, <1>10 DEF toDequeue, Entries, At
  <1> QED
    BY <1>1, <1>2, <1>4, <1>5, <1>6, <1>7, <1>8, <1>10, <1>11

\* altdequeue always finds the entry it looks for, and altcopy's assertions hold.
LEMMA NeverFails ==
  ASSUME IInv, OwnArrays, NEW t \in Tasks, CanCall(t),
         NEW a \in calls(t), NEW i \in executable(a),
         NEW other \in Queued(a[i].c, otherop(a[i].op))
  PROVE  ~execFails(t, a, i, other)
  <1>1. PICK u \in Tasks \ {t} :
          /\ other[1] = ArrayOf[u] /\ ArrayOf[u] # ArrayOf[t]
          /\ waiting(u) /\ other[2] \in DOMAIN alts[ArrayOf[u]]
          /\ alts[ArrayOf[u]][other[2]].op = otherop(a[i].op)
          /\ toDequeue(t, a, other) = Entries(alts, ArrayOf[u], 1)
    BY PartnerFacts
  <1>2. loaded(t, a)[ArrayOf[u]] = alts[ArrayOf[u]]
    BY <1>1, LoadKeepsOthers, ChannelAssumption
  <1>3. alts[ArrayOf[u]] \in Seq(Alt) /\ Len(alts[ArrayOf[u]]) <= MaxAlts
    BY ChannelAssumption DEF IInv, TypeOK
  <1>4. ASSUME NEW p \in Entries(alts, ArrayOf[u], 1)
        PROVE  ~cannotFind(loaded(t, a), p)
    <2>1. /\ p = <<ArrayOf[u], p[2]>> /\ p[2] \in 1..Len(alts[ArrayOf[u]])
          /\ alts[ArrayOf[u]][p[2]].op # "CHANNOP"
      BY DEF Entries, At
    <2>2. alts[ArrayOf[u]][p[2]] \in Alt /\ p[2] \in DOMAIN alts[ArrayOf[u]]
      BY <1>3, <2>1, ElementOfSeq
    <2>3. /\ alts[ArrayOf[u]][p[2]].c \in Chans
          /\ alts[ArrayOf[u]][p[2]].op \in Dirs
      BY <2>1, <2>2 DEF Alt, Ops
    <2>4. p \in Queued(alts[ArrayOf[u]][p[2]].c, alts[ArrayOf[u]][p[2]].op)
      BY <1>1, <2>1, <2>2, <2>3, SleeperQueued
    <2>5. Home(loaded(t, a), p) = <<alts[ArrayOf[u]][p[2]].c, alts[ArrayOf[u]][p[2]].op>>
      BY <1>2, <2>1 DEF Home, At
    <2>6. queue[Home(loaded(t, a), p)][p] > 0
      BY <2>4, <2>5 DEF Queued
    <2> QED
      BY <2>6 DEF cannotFind
  <1>5. other[2] \in DOMAIN loaded(t, a)[other[1]]
    BY <1>1, <1>2
  <1>6. At(loaded(t, a), other).op = otherop(a[i].op)
    BY <1>1, <1>2 DEF At
  <1> QED
    BY <1>1, <1>4, <1>5, <1>6 DEF execFails

\* The data movement of a two-party altexec: one entry is written with the
\* sent value, and the number of buffered values stays the same.
LEMMA PartnerCopy ==
  ASSUME IInv, OwnArrays, NEW t \in Tasks, CanCall(t),
         NEW a \in calls(t), NEW i \in executable(a),
         NEW other \in Queued(a[i].c, otherop(a[i].op)),
         NEW m, m = loaded(t, a),
         altcopy(m, a[i].c, <<ArrayOf[t], i>>, {other})
  PROVE  /\ RingBuffer'
         /\ buf' = [d \in Chans |-> buf'[d]]
         /\ \A d \in Chans : buf'[d] \in [0..(bufsize[d] - 1) -> Values \cup {NoValue}]
         /\ off' \in [Chans -> Nat] /\ nbuf' = nbuf
         /\ \E r, w : /\ \A q \in r : q[1] \in {ArrayOf[t], other[1]}
                     /\ w \in Values /\ alts' = store(m, r, w)
  <1> DEFINE c == a[i].c
             p == <<ArrayOf[t], i>>
             s == IF a[i].op = "CHANSND" THEN {p} ELSE {other}
             r == IF a[i].op = "CHANSND" THEN {other} ELSE {p}
  <1>1. /\ c \in Chans /\ a[i].op \in Dirs /\ a[i] \in Alt /\ i \in DOMAIN a
        /\ other \in Ptr /\ altcanexec(a[i])
    BY PartnerFacts
  <1>2. PICK u \in Tasks \ {t} :
          /\ other[1] = ArrayOf[u] /\ ArrayOf[u] # ArrayOf[t]
          /\ waiting(u) /\ other[2] \in DOMAIN alts[ArrayOf[u]]
          /\ alts[ArrayOf[u]][other[2]].c = c
          /\ alts[ArrayOf[u]][other[2]].op = otherop(a[i].op)
    BY PartnerFacts
  <1>3. At(m, p) = a[i] /\ At(m, other) = alts[ArrayOf[u]][other[2]]
    BY <1>2, LoadKeepsOthers, ChannelAssumption DEF At
  <1>4. alts[ArrayOf[u]][other[2]] \in Alt
    <2>1. alts[ArrayOf[u]] \in Seq(Alt)
      BY ChannelAssumption DEF IInv, TypeOK
    <2> QED
      BY <1>2, <2>1, ElementOfSeq
  <1>5. \E q \in s : s = {q} /\ At(m, q).v \in Values
    <2>1. CASE a[i].op = "CHANSND"
      BY <1>1, <1>3, <2>1 DEF Alt
    <2>2. CASE a[i].op = "CHANRCV"
      BY <1>2, <1>3, <1>4, <2>2 DEF Alt, otherop
    <2> QED
      BY <1>1, <2>1, <2>2 DEF Dirs
  <1>6. copyDirect(m, c, s, r) \/ copyThroughBuffer(m, c, s, r)
    BY <1>3 DEF altcopy
  <1>7. /\ bufsize[c] \in Nat /\ nbuf[c] \in Nat /\ nbuf[c] <= bufsize[c]
        /\ nbuf \in [Chans -> Nat]
    BY <1>1, ChannelAssumption DEF IInv, TypeOK, RingBuffer
  <1>8. r # {} /\ s # {} /\ \A q \in r : q[1] \in {ArrayOf[t], other[1]}
    OBVIOUS
  <1>9. CASE copyDirect(m, c, s, r)
    <2>1. PICK q \in s : alts' = store(m, r, At(m, q).v)
      BY <1>9 DEF copyDirect
    <2>2. At(m, q).v \in Values
      BY <1>5, <2>1
    <2>3. UNCHANGED <<buf, off, nbuf>>
      BY <1>9 DEF copyDirect
    <2>4. RingBuffer'
      BY <2>3 DEF IInv, RingBuffer
    <2>5. /\ buf' = [d \in Chans |-> buf'[d]]
          /\ \A d \in Chans : buf'[d] \in [0..(bufsize[d] - 1) -> Values \cup {NoValue}]
          /\ off' \in [Chans -> Nat]
      BY <2>3 DEF IInv, TypeOK
    <2> QED
      BY <1>8, <2>1, <2>2, <2>3, <2>4, <2>5
  <1>10. CASE copyThroughBuffer(m, c, s, r)
    <2>1. nbuf[c] > 0 /\ bufsize[c] > 0
      BY <1>7, <1>8, <1>10 DEF copyThroughBuffer
    <2>2. \A q \in s : At(m, q).v \in Values
      BY <1>5
    <2> HIDE DEF c, s, r
    <2>3. /\ RingBuffer'
          /\ buf' = [d \in Chans |-> buf'[d]]
          /\ \A d \in Chans : buf'[d] \in [0..(bufsize[d] - 1) -> Values \cup {NoValue}]
          /\ off' \in [Chans -> Nat] /\ nbuf' \in [Chans -> Nat]
          /\ nbuf'[c] = nbuf[c] - (IF r = {} THEN 0 ELSE 1) + (IF s = {} THEN 0 ELSE 1)
          /\ \A d \in Chans \ {c} : nbuf'[d] = nbuf[d]
          /\ \E w : alts' = store(m, r, w) /\ (r # {} => w \in Values)
      <3>1. (r # {} => nbuf[c] > 0) /\ (r = {} => nbuf[c] < bufsize[c])
        BY <1>8, <2>1
      <3>2. c \in Chans
        BY <1>1
      <3> QED
        BY <1>10, <2>1, <2>2, <3>1, <3>2, RingOf, BufferMoves
    <2>4. nbuf'[c] = nbuf[c]
      BY <1>7, <1>8, <2>3
    <2>5. nbuf' = nbuf
      BY <1>7, <2>3, <2>4
    <2> QED
      BY <1>8, <2>3, <2>5
  <1> QED
    BY <1>6, <1>9, <1>10

\* chanalt when an entry can proceed with a sleeping partner
LEMMA WithStep ==
  ASSUME IInv, OwnArrays, NEW t \in Tasks, CanCall(t),
         NEW a \in calls(t), NEW i \in executable(a),
         NEW other \in Queued(a[i].c, otherop(a[i].op)),
         execWith(t, a, i, other),
         ret' = [ret EXCEPT ![t] = i], UNCHANGED <<inalt, running>>
  PROVE  IInv'
  <1> DEFINE arr == ArrayOf[t]
  <1> PICK m : m = loaded(t, a)
    OBVIOUS
  <1>1. running = t /\ ~ready[t] /\ ~inalt[t] /\ ~waiting(t)
    BY CallerAwake
  <1>2. PICK u \in Tasks \ {t} :
          /\ other[1] = ArrayOf[u] /\ ArrayOf[u] # arr
          /\ waiting(u) /\ other[2] \in DOMAIN alts[ArrayOf[u]]
          /\ alts[ArrayOf[u]][other[2]].c = a[i].c
          /\ alts[ArrayOf[u]][other[2]].op = otherop(a[i].op)
          /\ toDequeue(t, a, other) = Entries(alts, ArrayOf[u], 1)
          /\ tagged(t)[ArrayOf[u]] = u
    BY PartnerFacts
  <1>3. /\ altcopy(m, a[i].c, <<arr, i>>, {other})
        /\ altalldequeue(m, Entries(alts, ArrayOf[u], 1))
        /\ alttask' = tagged(t)
        /\ xalt' = [based(t) EXCEPT ![ArrayOf[u]] = other[2]]
        /\ taskready(u)
        /\ UNCHANGED aborted
    BY <1>2 DEF execWith
  <1>4. /\ i \in Nat /\ other \in Ptr /\ other[2] \in Nat
        /\ arr \in Arrays /\ ArrayOf[u] \in Arrays
    BY PartnerFacts, ChannelAssumption DEF Ptr
  <1>5. /\ RingBuffer'
        /\ buf' = [d \in Chans |-> buf'[d]]
        /\ \A d \in Chans : buf'[d] \in [0..(bufsize[d] - 1) -> Values \cup {NoValue}]
        /\ off' \in [Chans -> Nat] /\ nbuf' = nbuf
        /\ \E r, w : /\ \A q \in r : q[1] \in {arr, other[1]}
                    /\ w \in Values /\ alts' = store(m, r, w)
    <2>1. altcopy(m, a[i].c, <<ArrayOf[t], i>>, {other})
      BY <1>3
    <2> HIDE DEF arr
    <2>2. /\ RingBuffer'
          /\ buf' = [d \in Chans |-> buf'[d]]
          /\ \A d \in Chans : buf'[d] \in [0..(bufsize[d] - 1) -> Values \cup {NoValue}]
          /\ off' \in [Chans -> Nat] /\ nbuf' = nbuf
          /\ \E r, w : /\ \A q \in r : q[1] \in {ArrayOf[t], other[1]}
                      /\ w \in Values /\ alts' = store(m, r, w)
      BY <2>1, PartnerCopy
    <2> QED
      BY <2>2 DEF arr
  <1>6. /\ m \in [Arrays -> Seq(Alt)] /\ \A x \in Arrays : Len(m[x]) <= MaxAlts
        /\ \A x \in Arrays : x # arr => m[x] = alts[x]
        /\ \A w \in Tasks : w # t => ArrayOf[w] # arr
        /\ \A w \in Tasks : w # u => ArrayOf[w] # ArrayOf[u]
        /\ \A w \in Tasks : ArrayOf[w] \in Arrays
    BY LoadKeepsOthers, ChannelAssumption DEF OwnArrays
  <1>7. PICK r, w : /\ \A q \in r : q[1] \in {arr, other[1]}
                   /\ w \in Values /\ alts' = store(m, r, w)
    BY <1>5
  <1>8. /\ alts' \in [Arrays -> Seq(Alt)]
        /\ \A x \in Arrays : Len(alts'[x]) <= MaxAlts
        /\ \A x \in Arrays : x # arr /\ x # ArrayOf[u] => alts'[x] = alts[x]
    <2>1. \A x \in Arrays : Len(store(m, r, w)[x]) = Len(m[x])
      BY <1>6, <1>7, StoreKeeps
    <2>2. store(m, r, w) \in [Arrays -> Seq(Alt)]
      BY <1>6, <1>7, StoreKeeps
    <2>3. ASSUME NEW x \in Arrays, x # arr, x # ArrayOf[u]
          PROVE  store(m, r, w)[x] = m[x]
      <3>1. \A q \in r : q[1] # x
        BY <1>2, <1>7, <2>3
      <3>2. m \in [Arrays -> Seq(Alt)]
        BY <1>6
      <3> QED
        BY <2>3, <3>1, <3>2, StoreElsewhere
    <2> QED
      BY <1>6, <1>7, <2>1, <2>2, <2>3
  <1>9. /\ runq' \in Seq(Tasks) /\ ready' \in [Tasks -> BOOLEAN]
        /\ \A x \in Tasks : ready'[x] <=> x = u \/ ready[x]
        /\ \A j, k \in DOMAIN runq' : runq'[j] = runq'[k] => j = k
        /\ \A x \in Tasks : ready'[x] <=> \E k \in DOMAIN runq' : runq'[k] = x
    <2>1. ~ready[u]
      BY <1>2 DEF waiting
    <2> QED
      BY <1>3, <2>1, TaskReadyKeeps
  <1>10. /\ ~waiting(t)' /\ ~waiting(u)'
         /\ \A x \in Tasks : x # u => (waiting(x)' <=> waiting(x))
    BY <1>1, <1>9 DEF waiting
  <1>11. queue \in [Places -> [Ptr -> Nat]]
    BY DEF IInv, TypeOK
  <1>12. queue' = [k \in Places |-> [q \in Ptr |->
           IF q \in Entries(alts, ArrayOf[u], 1) /\ Home(m, q) = k
           THEN queue[k][q] - 1 ELSE queue[k][q]]]
    BY <1>3 DEF altalldequeue
  <1>13. ASSUME NEW k \in Places, NEW q \in Ptr
         PROVE  queue'[k][q] = IF sleepsAt(q)' /\ Home(alts', q) = k THEN 1 ELSE 0
    <2>1. queue[k][q] = IF sleepsAt(q) /\ Home(alts, q) = k THEN 1 ELSE 0
      BY DEF IInv, QueuesMatchWaiters
    <2>2. queue'[k][q] = IF q \in Entries(alts, ArrayOf[u], 1) /\ Home(m, q) = k
                         THEN queue[k][q] - 1 ELSE queue[k][q]
      BY <1>12
    <2>3. CASE q[1] = ArrayOf[u]
      <3>1. ~sleepsAt(q)'
        BY <1>10, <2>3, EntryOwner
      <3>2. sleepsAt(q) <=> q[2] \in DOMAIN alts[ArrayOf[u]]
        BY <1>2, <2>3, EntryOwner
      <3>3. alts[ArrayOf[u]] \in Seq(Alt) /\ m[ArrayOf[u]] = alts[ArrayOf[u]]
        BY <1>2, <1>4, <1>6 DEF IInv, TypeOK
      <3>4. Home(m, q) = Home(alts, q) /\ At(m, q) = At(alts, q)
        BY <2>3, <3>3 DEF Home, At
      <3>5. Home(alts, q) = k => At(alts, q).op # "CHANNOP"
        BY DEF Home, Places, Dirs
      <3>6. q \in Entries(alts, ArrayOf[u], 1)
              <=> q[2] \in DOMAIN alts[ArrayOf[u]] /\ At(alts, q).op # "CHANNOP"
        BY <2>3, <3>3, EntryOwner DEF Entries
      <3> QED
        BY <2>1, <2>2, <3>1, <3>2, <3>4, <3>5, <3>6
    <2>4. CASE q[1] # ArrayOf[u]
      <3>1. q \notin Entries(alts, ArrayOf[u], 1)
        BY <2>4 DEF Entries
      <3>2. CASE q[1] = arr
        <4>1. ~sleepsAt(q) /\ ~sleepsAt(q)'
          BY <1>1, <1>10, <3>2, EntryOwner
        <4> QED
          BY <2>1, <2>2, <3>1, <4>1
      <3>3. CASE q[1] # arr
        <4>1. q[1] \in Arrays /\ alts'[q[1]] = alts[q[1]]
          BY <1>8, <2>4, <3>3, EntryOwner
        <4>2. sleepsAt(q)' <=> sleepsAt(q)
          BY <1>10, <2>4, <4>1 DEF sleepsAt
        <4>3. Home(alts', q) = Home(alts, q)
          BY <4>1 DEF Home, At
        <4> QED
          BY <2>1, <2>2, <3>1, <4>2, <4>3
      <3> QED
        BY <3>2, <3>3
    <2> QED
      BY <2>3, <2>4
  <1>14. QueuesMatchWaiters'
    BY <1>13 DEF QueuesMatchWaiters
  <1>15. queue' \in [Places -> [Ptr -> Nat]]
    <2>1. ASSUME NEW k \in Places, NEW q \in Ptr PROVE queue'[k][q] \in Nat
      BY <1>13
    <2> QED
      BY <1>12, <2>1
  <1>16. TypeOK'
    <2>1. alttask' \in [Arrays -> Tasks \cup {NoTask}]
      BY <1>3 DEF IInv, TypeOK, tagged
    <2>2. xalt' \in [Arrays -> Nat]
      BY <1>3, <1>4 DEF IInv, TypeOK, based
    <2>3. ret' \in [Tasks -> Int]
      BY <1>4 DEF IInv, TypeOK
    <2> QED
      BY <1>3, <1>5, <1>8, <1>9, <1>15, <2>1, <2>2, <2>3 DEF IInv, TypeOK
  <1>17. WaiterFields'
    <2>1. ASSUME NEW x \in Tasks \ {t, u}
          PROVE  /\ alttask'[ArrayOf[x]] = alttask[ArrayOf[x]]
                 /\ xalt'[ArrayOf[x]] = xalt[ArrayOf[x]]
      <3>1. ArrayOf[x] \in Arrays /\ ArrayOf[x] # arr /\ ArrayOf[x] # ArrayOf[u]
        BY <1>6, <2>1
      <3> QED
        BY <1>3, <3>1 DEF IInv, TypeOK, tagged, based
    <2> QED
      BY <1>10, <2>1 DEF IInv, WaiterFields
  <1>18. NoLostWakeup'
    <2>1. ASSUME NEW x \in Tasks
          PROVE  offered(x)' = offered(x) \/ offered(x)' = <<>>
      <3>1. CASE x \in {t, u}
        BY <1>10, <3>1 DEF offered
      <3>2. CASE x \notin {t, u}
        BY <1>6, <1>8, <1>10, <3>2 DEF offered
      <3> QED
        BY <3>1, <3>2
    <2>2. \A x \in Tasks : \A j \in DOMAIN offered(x)' :
            j \in DOMAIN offered(x) /\ offered(x)'[j] = offered(x)[j]
      BY <2>1
    <2> QED
      BY <1>5, <2>2 DEF IInv, NoLostWakeup
  <1>19. ReadyOnce' /\ NeverAborts'
    <2>1. \A x \in Tasks : running' = x => ~ready'[x] /\ ~inalt'[x]
      <3>1. running' = t /\ ~inalt'[t] /\ ~ready'[t]
        BY <1>1, <1>2, <1>9
      <3> QED
        BY <3>1
    <2> QED
      BY <1>3, <1>9, <2>1 DEF IInv, ReadyOnce, NeverAborts
  <1> QED
    BY <1>5, <1>14, <1>16, <1>17, <1>18, <1>19 DEF IInv

\* chanalt when an entry can proceed
LEMMA ProceedStep ==
  ASSUME IInv, OwnArrays, NEW t \in Tasks, AltProceed(t)
  PROVE  IInv'
  <1>1. CanCall(t)
    BY DEF AltProceed
  <1>2. PICK a \in calls(t) : \E i \in executable(a) :
          \/ /\ \/ execAlone(t, a, i)
                \/ \E other \in Queued(a[i].c, otherop(a[i].op)) :
                     execWith(t, a, i, other)
             /\ ret' = [ret EXCEPT ![t] = i]
             /\ UNCHANGED <<inalt, running>>
          \/ \E other \in Queued(a[i].c, otherop(a[i].op)) :
               execFails(t, a, i, other) /\ abort
    BY DEF AltProceed
  <1>3. ASSUME NEW i \in executable(a),
               ret' = [ret EXCEPT ![t] = i], UNCHANGED <<inalt, running>>
        PROVE  /\ execAlone(t, a, i) => IInv'
               /\ \A other \in Queued(a[i].c, otherop(a[i].op)) :
                    execWith(t, a, i, other) => IInv'
    BY <1>1, <1>3, AloneStep, WithStep
  <1>4. \A i \in executable(a) : \A other \in Queued(a[i].c, otherop(a[i].op)) :
          ~execFails(t, a, i, other)
    BY <1>1, NeverFails
  <1> QED
    BY <1>2, <1>3, <1>4

\* The inductive invariant is preserved by every step.
LEMMA StepIInv == IInv /\ OwnArrays /\ [Next]_vars => IInv'
  <1> SUFFICES ASSUME IInv, OwnArrays, [Next]_vars PROVE IInv'
    OBVIOUS
  <1>1. CASE Dispatch
    BY <1>1, DispatchStep
  <1>2. ASSUME NEW t \in Tasks, AltProceed(t) PROVE IInv'
    BY <1>2, ProceedStep
  <1>3. ASSUME NEW t \in Tasks, AltNoBlock(t) PROVE IInv'
    BY <1>3, NoBlockStep
  <1>4. ASSUME NEW t \in Tasks, AltBlock(t) PROVE IInv'
    BY <1>4, BlockStep
  <1>5. ASSUME NEW t \in Tasks, Yield(t) PROVE IInv'
    BY <1>5, YieldStep
  <1>6. CASE UNCHANGED vars
    BY <1>6 DEF vars, IInv, TypeOK, QueuesMatchWaiters, sleepsAt, WaiterFields,
                NoLostWakeup, offered, waiting, ReadyOnce, NeverAborts, RingBuffer,
                Home, At
  <1> QED
    BY <1>1, <1>2, <1>3, <1>4, <1>5, <1>6 DEF Next

\* IInv holds of every reachable state when no two tasks share an Alt array:
\* the channels' queues and the sleeping tasks agree at all times.
THEOREM ChannelInvariant == ASSUME OwnArrays PROVE Spec => []IInv
  <1>1. Init => IInv
    BY InitIInv
  <1>2. IInv /\ [Next]_vars => IInv'
    BY StepIInv
  <1> QED
    BY <1>1, <1>2, PTL DEF Spec

\* Every variable of the channels and of the run queue keeps its type: in
\* particular off and nbuf stay natural numbers (altcopy).
THEOREM ChannelTypeCorrect == ASSUME OwnArrays PROVE Spec => []TypeOK
  BY ChannelInvariant, PTL DEF IInv

\* asend and arecv hold exactly the entries of the tasks asleep in chanalt, once
\* each, so a wakeup never reaches a task through a stale entry (altalldequeue).
THEOREM QueuesAreWaiters == ASSUME OwnArrays PROVE Spec => []QueuesMatchWaiters
  BY ChannelInvariant, PTL DEF IInv

\* No task sleeps on an operation that could proceed (chanalt, altexec).
THEOREM WakeupsAreNotLost == ASSUME OwnArrays PROVE Spec => []NoLostWakeup
  BY ChannelInvariant, PTL DEF IInv

\* No task is put on the intrusive run queue twice (taskready, altexec).
THEOREM TasksReadiedOnce == ASSUME OwnArrays PROVE Spec => []ReadyOnce
  BY ChannelInvariant, PTL DEF IInv

\* altdequeue always finds its entry: the process is never aborted.
THEOREM ChannelNeverAborts == ASSUME OwnArrays PROVE Spec => []NeverAborts
  BY ChannelInvariant, PTL DEF IInv

\* What altcopy moves are values that were sent, wherever the partner's entry is.
LEMMA CopyKeepsRing ==
  ASSUME RingIInv, NEW t \in Tasks, NEW a \in calls(t), NEW i \in executable(a), NEW others,
         NEW m, m = loaded(t, a), altcopy(m, a[i].c, <<ArrayOf[t], i>>, others),
         others = {} => bufsize[a[i].c] > 0,
         others # {} => \E o \in Ptr : /\ others = {o} /\ o[2] \in DOMAIN m[o[1]]
                                      /\ At(m, o).op = otherop(a[i].op)
  PROVE  RingIInv'
  <1> USE ChannelAssumption
  <1> DEFINE p == <<ArrayOf[t], i>>
             s == IF a[i].op = "CHANSND" THEN {p} ELSE others
             r == IF a[i].op = "CHANSND" THEN others ELSE {p}
  <1>1. /\ i \in DOMAIN a /\ altcanexec(a[i]) /\ a \in Seq(Alt) /\ a[i] \in Alt
        /\ ArrayOf[t] \in Arrays
    <2>1. i \in DOMAIN a /\ altcanexec(a[i]) /\ a \in Seq(Alt)
      BY CallsAreAlts DEF executable
    <2> QED
      BY <2>1, ElementOfSeq
  <1>2. PICK c \in Chans : c = a[i].c
    BY <1>1 DEF Alt
  <1>3. a[i].op \in Dirs /\ (a[i].op = "CHANSND" => a[i].v \in Values)
    BY <1>1 DEF Alt, Ops, Dirs, altcanexec
  <1>4. m \in [Arrays -> Seq(Alt)] /\ m[ArrayOf[t]] = a
    BY <1>1 DEF loaded, RingIInv
  <1>5. At(m, p) = a[i]
    BY <1>4 DEF At
  <1>6. \A q \in s : At(m, q).v \in Values
    <2>1. CASE a[i].op = "CHANSND"
      BY <1>3, <1>5, <2>1
    <2>2. CASE a[i].op = "CHANRCV" /\ others # {}
      <3>1. PICK o \in Ptr : /\ others = {o} /\ o[2] \in DOMAIN m[o[1]]
                             /\ At(m, o).op = otherop(a[i].op)
        BY <2>2
      <3>2. m[o[1]] \in Seq(Alt)
        BY <1>4, <3>1 DEF Ptr
      <3>3. At(m, o) \in Alt
        BY <3>1, <3>2, ElementOfSeq DEF At
      <3>4. At(m, o).v \in Values
        BY <2>2, <3>1, <3>3 DEF Alt, otherop
      <3> QED
        BY <2>2, <3>1, <3>4
    <2>3. CASE a[i].op = "CHANRCV" /\ others = {}
      BY <2>3
    <2> QED
      BY <1>3, <2>1, <2>2, <2>3 DEF Dirs
  <1>7. nbuf[c] \in Nat /\ bufsize[c] \in Nat /\ nbuf[c] <= bufsize[c]
    BY DEF RingIInv, RingBuffer
  <1>8. copyDirect(m, c, s, r) \/ copyThroughBuffer(m, c, s, r)
    BY <1>2, <1>5 DEF altcopy
  <1>9. s # {} \/ r # {}
    OBVIOUS
  <1>10. CASE copyDirect(m, c, s, r)
    <2>1. PICK q \in s : alts' = store(m, r, At(m, q).v)
      BY <1>10 DEF copyDirect
    <2>2. PICK v \in Values : v = At(m, q).v
      BY <1>6
    <2>3. alts' \in [Arrays -> Seq(Alt)]
      BY <1>4, <2>1, <2>2, StoreKeeps
    <2> QED
      BY <1>10, <2>3 DEF copyDirect, RingIInv, RingBuffer
  <1>11. CASE copyThroughBuffer(m, c, s, r)
    <2>1. bufsize[c] > 0
      <3>1. CASE others = {}
        BY <1>2, <3>1
      <3>2. CASE others # {}
        <4>1. s # {} /\ r # {}
          BY <3>2
        <4>2. nbuf[c] # 0
          BY <1>11, <4>1 DEF copyThroughBuffer
        <4> QED
          BY <1>7, <4>2
      <3> QED
        BY <3>1, <3>2
    <2>2. r # {} => nbuf[c] > 0
      <3>1. CASE s # {}
        BY <1>7, <1>11, <3>1 DEF copyThroughBuffer
      <3>2. CASE s = {}
        <4>1. a[i].op = "CHANRCV"
          BY <1>3, <3>2 DEF Dirs
        <4> QED
          BY <1>1, <1>2, <1>7, <2>1, <4>1 DEF altcanexec
      <3> QED
        BY <3>1, <3>2
    <2>3. r = {} => nbuf[c] < bufsize[c]
      <3>1. r = {} => a[i].op = "CHANSND"
        OBVIOUS
      <3> QED
        BY <1>1, <1>2, <1>7, <2>1, <3>1 DEF altcanexec
    <2> HIDE DEF s, r
    <2>4. /\ RingBuffer'
          /\ buf' = [d \in Chans |-> buf'[d]]
          /\ \A d \in Chans : buf'[d] \in [0..(bufsize[d] - 1) -> Values \cup {NoValue}]
          /\ off' \in [Chans -> Nat] /\ nbuf' \in [Chans -> Nat]
          /\ \E w : alts' = store(m, r, w) /\ (r # {} => w \in Values)
      BY <1>6, <1>11, <2>1, <2>2, <2>3, BufferMoves
    <2>5. alts' \in [Arrays -> Seq(Alt)]
      <3>1. PICK w : alts' = store(m, r, w) /\ (r # {} => w \in Values)
        BY <2>4
      <3>2. CASE r # {}
        BY <1>4, <3>1, <3>2, StoreKeeps
      <3>3. CASE r = {}
        <4>1. \A q \in r : q[1] = ArrayOf[t]
          BY <3>3
        <4> QED
          BY <1>1, <1>4, <3>1, <3>3, <4>1, StoreInto
      <3> QED
        BY <3>2, <3>3
    <2> QED
      BY <2>4, <2>5 DEF RingIInv
  <1> QED
    BY <1>8, <1>10, <1>11

LEMMA RingStep == RingIInv /\ [Next]_vars => RingIInv'
  <1> SUFFICES ASSUME RingIInv, [Next]_vars PROVE RingIInv'
    OBVIOUS
  <1> USE DEF RingIInv, RingBuffer
  <1>1. CASE Dispatch
    BY <1>1 DEF Dispatch, memVars, chanVars
  <1>2. ASSUME NEW t \in Tasks, NEW a \in calls(t) PROVE loaded(t, a) \in [Arrays -> Seq(Alt)]
    BY CallsAreAlts, ChannelAssumption DEF loaded
  <1>3. ASSUME NEW t \in Tasks, AltProceed(t) PROVE RingIInv'
    <2>0. PICK a \in calls(t) : \E i \in executable(a) :
            \/ execAlone(t, a, i)
            \/ \E other \in Queued(a[i].c, otherop(a[i].op)) :
                 execWith(t, a, i, other) \/ abort
      BY <1>3 DEF AltProceed
    <2>1. PICK i \in executable(a) :
            \/ execAlone(t, a, i)
            \/ \E other \in Queued(a[i].c, otherop(a[i].op)) :
                 execWith(t, a, i, other) \/ abort
      BY <2>0
    <2> PICK m : m = loaded(t, a)
      OBVIOUS
    <2> HIDE DEF RingIInv, RingBuffer
    <2>2. CASE execAlone(t, a, i)
      <3>1. altcopy(m, a[i].c, <<ArrayOf[t], i>>, {})
        BY <2>2 DEF execAlone
      <3>2. altcanexec(a[i]) /\ a[i] \in Alt
        BY CallsAreAlts, ElementOfSeq DEF executable
      <3>3. bufsize[a[i].c] > 0
        <4>1. bufsize[a[i].c] # 0
          BY <2>2, <3>2 DEF altcanexec, execAlone
        <4>2. bufsize[a[i].c] \in Nat
          BY <3>2, ChannelAssumption DEF Alt
        <4> QED
          BY <4>1, <4>2
      <3>4. PICK none : none = {}
        OBVIOUS
      <3> QED
        BY <3>1, <3>3, <3>4, CopyKeepsRing
    <2>3. ASSUME NEW other \in Queued(a[i].c, otherop(a[i].op)), execWith(t, a, i, other)
          PROVE  RingIInv'
      <3>1. PICK others : others = {other}
        OBVIOUS
      <3>2. altcopy(m, a[i].c, <<ArrayOf[t], i>>, others)
        BY <2>3, <3>1 DEF execWith
      <3>3. /\ other \in Ptr /\ other[2] \in DOMAIN m[other[1]]
            /\ At(m, other).op = otherop(a[i].op)
        BY <2>3 DEF execWith, execFails, Queued
      <3> QED
        BY <3>1, <3>2, <3>3, CopyKeepsRing
    <2>4. CASE abort
      BY <2>4 DEF abort, memVars, chanVars, RingIInv, RingBuffer
    <2> QED
      BY <2>1, <2>2, <2>3, <2>4
  <1>4. ASSUME NEW t \in Tasks, AltNoBlock(t) PROVE RingIInv'
    BY <1>2, <1>4 DEF AltNoBlock, chanVars
  <1>5. ASSUME NEW t \in Tasks, AltBlock(t) PROVE RingIInv'
    BY <1>2, <1>5 DEF AltBlock
  <1>6. ASSUME NEW t \in Tasks, Yield(t) PROVE RingIInv'
    BY <1>6 DEF Yield, memVars, chanVars
  <1>7. CASE UNCHANGED vars
    BY <1>7 DEF vars
  <1> QED
    BY <1>1, <1>3, <1>4, <1>5, <1>6, <1>7 DEF Next

\* The ring buffer stays within its bounds and its slots in use hold sent
\* values (altcopy), also when tasks share an Alt array, as the replicas' send
\* tasks do: what goes wrong then is never a buffer.
THEOREM RingBufferSound == Spec => []RingBuffer
  <1>1. Init => RingIInv
    BY InitIInv, RingOf
  <1>2. RingIInv => RingBuffer
    BY DEF RingIInv
  <1> QED
    BY <1>1, <1>2, RingStep, PTL DEF Spec

----------------------------------------------------------------------------
(***************************************************************************)
(* The ring buffer read from off is a FIFO.                                *)
(***************************************************************************)

LEMMA RingWraps ==
  ASSUME NEW n \in Nat \ {0}, NEW x \in Nat, x < 2 * n
  PROVE  x % n = IF x < n THEN x ELSE x - n
  <1>1. CASE x < n
    BY <1>1, RingIndex
  <1>2. CASE x >= n
    BY <1>2, RingIndex
  <1> QED
    BY <1>1, <1>2

\* Two positions less than n apart are different slots.
LEMMA RingDistinct ==
  ASSUME NEW n \in Nat \ {0}, NEW o \in 0..(n - 1), NEW j \in Nat, NEW k \in Nat,
         j < k, k < n
  PROVE  (o + j) % n # (o + k) % n
  <1> PICK x \in Nat, y \in Nat : x = o + j /\ y = o + k
    OBVIOUS
  <1>1. x < y /\ y < x + n /\ x < 2 * n /\ y < 2 * n
    OBVIOUS
  <1>2. x % n = IF x < n THEN x ELSE x - n
    BY <1>1, RingWraps
  <1>3. y % n = IF y < n THEN y ELSE y - n
    BY <1>1, RingWraps
  <1> PICK X \in Int, Y \in Int : X = x % n /\ Y = y % n
    BY <1>2, <1>3
  <1>4. X # Y
    BY <1>1, <1>2, <1>3
  <1> QED
    BY <1>4

\* What is left of q when a value is taken from its head, or one is added at
\* its end, or both.
Moved(q, tk, gv, v) ==
  LET l == IF gv = 0 THEN q ELSE Append(q, v) IN IF tk = 0 THEN l ELSE Tail(l)

LEMMA ShiftedSeq ==
  ASSUME NEW S, NEW q \in Seq(S), NEW v \in S, NEW q2 \in Seq(S),
         NEW tk \in {0, 1}, NEW gv \in {0, 1}, tk = 1 => Len(q) > 0,
         Len(q2) = Len(q) - tk + gv,
         \A k \in 1..(Len(q) - tk) : q2[k] = q[k + tk],
         gv = 1 => q2[Len(q) - tk + 1] = v
  PROVE  q2 = Moved(q, tk, gv, v)
  <1> DEFINE l == IF gv = 0 THEN q ELSE Append(q, v)
             L == Len(q)
  <1>1. L \in Nat
    OBVIOUS
  <1>2. /\ l \in Seq(S) /\ Len(l) = L + gv
        /\ \A k \in 1..L : l[k] = q[k]
        /\ gv = 1 => l[L + 1] = v
    OBVIOUS
  <1> HIDE DEF l
  <1>3. \A k \in 1..(L - tk + gv) : q2[k] = l[k + tk]
    <2>1. ASSUME NEW k \in 1..(L - tk + gv) PROVE q2[k] = l[k + tk]
      <3>1. CASE k <= L - tk
        <4>1. k \in 1..(L - tk) /\ k + tk \in 1..L
          BY <1>1, <3>1
        <4> QED
          BY <1>2, <4>1
      <3>2. CASE k > L - tk
        <4>1. gv = 1 /\ k = L - tk + 1 /\ k + tk = L + 1
          BY <1>1, <3>2
        <4> QED
          BY <1>2, <4>1
      <3> QED
        BY <1>1, <3>1, <3>2
    <2> QED
      BY <2>1
  <1>4. CASE tk = 0
    <2>1. Len(q2) = Len(l) /\ \A k \in 1..Len(q2) : q2[k] = l[k]
      BY <1>1, <1>2, <1>3, <1>4
    <2>2. q2 = l
      BY <1>2, <2>1, SeqEqual
    <2> QED
      BY <1>4, <2>2 DEF Moved, l
  <1>5. CASE tk = 1
    <2>1. Len(l) > 0 /\ L > 0 /\ Len(l) \in Nat
      BY <1>1, <1>2, <1>5
    <2>2. /\ Tail(l) \in Seq(S) /\ Len(Tail(l)) = Len(l) - 1
          /\ \A k \in 1..(Len(l) - 1) : Tail(l)[k] = l[k + 1]
      BY <1>2, <2>1
    <2>3. Len(q2) = Len(Tail(l)) /\ \A k \in 1..Len(q2) : q2[k] = Tail(l)[k]
      BY <1>1, <1>2, <1>3, <1>5, <2>2
    <2>4. q2 = Tail(l)
      BY <2>2, <2>3, SeqEqual
    <2> QED
      BY <1>5, <2>4 DEF Moved, l
  <1> QED
    BY <1>4, <1>5

\* The values of a channel, in the order in which they were sent.
LEMMA FifoIsSeq ==
  ASSUME IInv, NEW c \in Chans
  PROVE  /\ fifoOf(c) \in Seq(Values) /\ Len(fifoOf(c)) = nbuf[c] /\ nbuf[c] \in Nat
         /\ \A k \in 1..nbuf[c] :
              fifoOf(c)[k] = buf[c][(off[c] + k - 1) % bufsize[c]]
         /\ nbuf[c] > 0 => Head(fifoOf(c)) = buf[c][off[c]]
  <1> DEFINE n == bufsize[c]
             o == off[c]
             b == nbuf[c]
             f(k) == buf[c][(o + k - 1) % n]
  <1>1. n \in Nat /\ o \in Nat /\ b \in Nat /\ b <= n /\ (o < n \/ o = 0)
    BY ChannelAssumption DEF IInv, TypeOK, RingBuffer
  <1>2. \A k \in 1..b : f(k) \in Values
    <2>1. ASSUME NEW k \in 1..b PROVE f(k) \in Values
      <3>1. k - 1 \in 0..(b - 1) /\ o + k - 1 = o + (k - 1)
        BY <1>1
      <3>2. buf[c][(o + (k - 1)) % n] \in Values
        BY <3>1 DEF IInv, RingBuffer
      <3> QED
        BY <3>1, <3>2
    <2> QED
      BY <2>1
  <1>3. fifoOf(c) = [k \in 1..b |-> f(k)]
    BY DEF fifoOf
  <1>4. b > 0 => f(1) = buf[c][o]
    <2>1. ASSUME b > 0 PROVE (o + 1 - 1) % n = o
      <3>1. o + 1 - 1 = o /\ n \in Nat \ {0} /\ o < n
        BY <1>1, <2>1
      <3> QED
        BY <1>1, <3>1, RingIndex
    <2> QED
      BY <2>1
  <1> HIDE DEF f, o, n, b
  <1>5. /\ fifoOf(c) \in Seq(Values) /\ Len(fifoOf(c)) = b
        /\ \A k \in 1..b : fifoOf(c)[k] = f(k)
    BY <1>1, <1>2, <1>3
  <1>6. b > 0 => Head(fifoOf(c)) = f(1)
    <2>1. ASSUME b > 0 PROVE Head(fifoOf(c)) = fifoOf(c)[1] /\ 1 \in 1..b
      BY <1>1, <1>5, <2>1
    <2> QED
      BY <1>5, <2>1
  <1> QED
    BY <1>1, <1>4, <1>5, <1>6 DEF f, o, n, b

\* What altcopy does to the buffer of c, and to no other.
LEMMA FifoMoves ==
  ASSUME IInv, NEW c \in Chans, bufsize[c] > 0, NEW m, NEW s, NEW r,
         NEW v \in Values, copyThroughBuffer(m, c, s, r),
         \A p \in s : At(m, p).v = v,
         r # {} => nbuf[c] > 0,
         r = {} => nbuf[c] < bufsize[c]
  PROVE  /\ fifoOf(c)' = Moved(fifoOf(c), IF r = {} THEN 0 ELSE 1,
                               IF s = {} THEN 0 ELSE 1, v)
         /\ alts' = store(m, r, buf[c][off[c]])
         /\ \A d \in Chans \ {c} : fifoOf(d)' = fifoOf(d)
  <1> USE ChannelAssumption
  <1> DEFINE taken == IF r = {} THEN 0 ELSE 1
             given == IF s = {} THEN 0 ELSE 1
             off1  == (off[c] + taken) % bufsize[c]
             last  == (off1 + nbuf[c] - taken) % bufsize[c]
             n == bufsize[c]
             o == off[c]
             b == nbuf[c]
  <1>1. /\ off \in [Chans -> Nat] /\ nbuf \in [Chans -> Nat]
        /\ buf = [d \in Chans |-> buf[d]]
        /\ \A d \in Chans : buf[d] \in [0..(bufsize[d] - 1) -> Values \cup {NoValue}]
        /\ bufsize \in [Chans -> Nat]
    BY DEF IInv, TypeOK
  <1>2. n \in Nat \ {0} /\ o \in 0..(n - 1) /\ b \in 0..n
    BY <1>1 DEF IInv, RingBuffer
  <1>3. /\ alts' = store(m, r, buf[c][o])
        /\ off' = [off EXCEPT ![c] = off1]
        /\ nbuf' = [nbuf EXCEPT ![c] = b - taken + given]
        /\ IF s = {} THEN buf' = buf
           ELSE \E p \in s : buf' = [buf EXCEPT ![c][last] = At(m, p).v]
    BY DEF copyThroughBuffer
  <1>4. /\ taken \in {0, 1} /\ given \in {0, 1} /\ (given = 0 <=> s = {})
        /\ taken = 1 => b > 0
        /\ taken = 0 => b < n
        /\ off1 = (o + taken) % n /\ last = (off1 + b - taken) % n
    OBVIOUS
  <1>5. /\ \A d \in Chans \ {c} : nbuf'[d] = nbuf[d] /\ off'[d] = off[d]
        /\ nbuf'[c] = b - taken + given /\ off'[c] = off1
    BY <1>1, <1>3
  <1> HIDE DEF n, o, b, off1, last, taken, given
  <1>6. /\ off1 \in 0..(n - 1) /\ last \in 0..(n - 1)
        /\ \A k \in 0..(b - taken - 1) :
             (off1 + k) % n = (o + (k + taken)) % n /\ k + taken \in 0..(b - 1)
        /\ \A k \in Nat : (o + k) % n \in 0..(n - 1)
    <2>1. /\ (o + taken) % n \in 0..(n - 1)
          /\ (((o + taken) % n) + b - taken) % n \in 0..(n - 1)
          /\ b - taken + given \in 0..n
          /\ \A k \in 0..(b - taken - 1) :
               (((o + taken) % n) + k) % n = (o + (k + taken)) % n /\ k + taken \in 0..(b - 1)
          /\ \A k \in Nat : (o + k) % n \in 0..(n - 1)
      <3>1. /\ taken \in {0, 1} /\ given \in {0, 1}
            /\ taken = 1 => b > 0
            /\ taken = 0 => b < n
        BY <1>4
      <3> QED
        BY <1>2, <3>1, RingArithmetic, Zenon
    <2> QED
      BY <1>4, <2>1
  <1>7. /\ \A d \in Chans \ {c} : buf'[d] = buf[d]
        /\ \A x \in 0..(n - 1) : x # last => buf'[c][x] = buf[c][x]
        /\ given = 0 => buf'[c] = buf[c]
        /\ given = 1 => buf'[c][last] = v
    <2>1. CASE s = {}
      BY <1>3, <1>4, <2>1
    <2>2. CASE s # {}
      <3>1. PICK p \in s : buf' = [buf EXCEPT ![c][last] = At(m, p).v]
        BY <1>3, <2>2
      <3>2. At(m, p).v = v
        BY <3>1
      <3>3. buf' = [d \in Chans |-> IF d = c THEN [buf[c] EXCEPT ![last] = v] ELSE buf[d]]
        BY <1>1, <3>1, <3>2
      <3>4. \A x \in 0..(n - 1) : [buf[c] EXCEPT ![last] = v][x]
                                     = IF x = last THEN v ELSE buf[c][x]
        BY <1>1 DEF n
      <3> QED
        BY <1>4, <1>6, <2>2, <3>3, <3>4
    <2> QED
      BY <2>1, <2>2
  <1>8. \A d \in Chans \ {c} : fifoOf(d)' = fifoOf(d)
    BY <1>5, <1>7 DEF fifoOf
  <1> DEFINE q == fifoOf(c)
             q2 == fifoOf(c)'
  <1>9. /\ q \in Seq(Values) /\ Len(q) = b
        /\ \A k \in 1..b : q[k] = buf[c][(o + k - 1) % n]
    BY FifoIsSeq DEF b, o, n
  <1>10. q2 = [k \in 1..(b - taken + given) |-> buf'[c][(off1 + k - 1) % n]]
    BY <1>5 DEF fifoOf, n
  <1> HIDE DEF q, q2
  <1>11. \A k \in 1..(b - taken) : q2[k] = q[k + taken]
    <2>1. ASSUME NEW k \in 1..(b - taken) PROVE q2[k] = q[k + taken]
      <3> PICK j \in 0..(b - taken - 1) : j = k - 1
        BY <1>2, <1>4
      <3>1. /\ off1 + k - 1 = off1 + j /\ o + (k + taken) - 1 = o + (j + taken)
            /\ k \in 1..(b - taken + given) /\ k + taken \in 1..b
        BY <1>2, <1>4, <1>6
      <3>2. (off1 + j) % n = (o + (j + taken)) % n /\ j + taken \in Nat
        BY <1>6
      <3>3. (off1 + j) % n # last
        <4>1. j \in Nat /\ b - taken \in Nat /\ j < b - taken /\ b - taken < n
          BY <1>2, <1>4
        <4>2. (off1 + j) % n # (off1 + (b - taken)) % n
          BY <1>2, <1>6, <4>1, RingDistinct
        <4>3. off1 + (b - taken) = off1 + b - taken
          BY <1>2, <1>4, <1>6
        <4> QED
          BY <1>4, <4>2, <4>3
      <3>4. (off1 + j) % n \in 0..(n - 1)
        BY <1>6, <3>2
      <3>5. q2[k] = buf'[c][(off1 + j) % n]
        BY <1>10, <3>1
      <3>6. q[k + taken] = buf[c][(o + (j + taken)) % n]
        BY <1>9, <3>1
      <3> QED
        BY <1>7, <3>2, <3>3, <3>4, <3>5, <3>6
    <2> QED
      BY <2>1
  <1>12. given = 1 => q2[b - taken + 1] = v
    <2>1. SUFFICES ASSUME given = 1 PROVE q2[b - taken + 1] = v
      OBVIOUS
    <2>2. /\ b - taken + 1 \in 1..(b - taken + given)
          /\ off1 + (b - taken + 1) - 1 = off1 + b - taken
      BY <1>2, <1>4, <1>6, <2>1
    <2>3. q2[b - taken + 1] = buf'[c][(off1 + (b - taken + 1) - 1) % n]
      BY <1>10, <2>2
    <2> QED
      BY <1>4, <1>7, <2>1, <2>2, <2>3
  <1>13. q2 \in Seq(Values) /\ Len(q2) = Len(q) - taken + given
    <2>1. b - taken + given \in Nat /\ b - taken \in Nat
      BY <1>2, <1>4
    <2>2. \A k \in 1..(b - taken + given) : q2[k] \in Values
      <3>1. ASSUME NEW k \in 1..(b - taken + given) PROVE q2[k] \in Values
        <4>1. CASE k \in 1..(b - taken)
          <5>1. k + taken \in 1..Len(q)
            BY <1>2, <1>4, <1>9, <4>1
          <5> QED
            BY <1>9, <1>11, <4>1, <5>1, ElementOfSeq
        <4>2. CASE k \notin 1..(b - taken)
          <5>1. given = 1 /\ k = b - taken + 1
            BY <1>2, <1>4, <4>2
          <5> QED
            BY <1>12, <5>1
        <4> QED
          BY <4>1, <4>2
      <3> QED
        BY <3>1
    <2>3. q2 \in [1..(b - taken + given) -> Values]
      BY <1>10, <2>2
    <2>4. q2 \in Seq(Values)
      <3>1. q2 \in UNION {[1..k -> Values] : k \in Nat}
        BY <2>1, <2>3, Zenon
      <3> QED
        BY <3>1, SeqDef, Zenon
    <2>5. Len(q2) = b - taken + given
      BY <2>1, <2>3, <2>4
    <2> QED
      BY <1>9, <2>4, <2>5
  <1>14. q2 = Moved(q, taken, given, v)
    <2>1. taken = 1 => Len(q) > 0
      BY <1>4, <1>9
    <2>2. /\ \A k \in 1..(Len(q) - taken) : q2[k] = q[k + taken]
          /\ given = 1 => q2[Len(q) - taken + 1] = v
      BY <1>9, <1>11, <1>12
    <2>3. taken \in {0, 1} /\ given \in {0, 1}
      BY <1>4
    <2>4. q \in Seq(Values)
      BY <1>9
    <2> QED
      <3> PICK Q \in Seq(Values), Q2 \in Seq(Values), tk \in {0, 1}, gv \in {0, 1} :
              Q = q /\ Q2 = q2 /\ tk = taken /\ gv = given
        BY <1>13, <2>3, <2>4
      <3>1. tk = 1 => Len(Q) > 0
        BY <2>1
      <3>2. Len(Q2) = Len(Q) - tk + gv
        BY <1>13
      <3>3. \A k \in 1..(Len(Q) - tk) : Q2[k] = Q[k + tk]
        BY <2>2
      <3>4. gv = 1 => Q2[Len(Q) - tk + 1] = v
        BY <2>2
      <3>5. Q2 = Moved(Q, tk, gv, v)
        BY <3>1, <3>2, <3>3, <3>4, ShiftedSeq, SMTT(30)
      <3> QED
        BY <3>5
  <1> QED
    BY <1>3, <1>8, <1>14 DEF q, q2, taken, given, o

\* A value that is handed from a sender to a receiver goes through the FIFO.
LEMMA HandedOver ==
  ASSUME IInv, NEW c \in Chans, NEW m, NEW s, NEW r, NEW v \in Values,
         s # {}, r # {}, \A p \in s : At(m, p).v = v,
         copyDirect(m, c, s, r) \/ copyThroughBuffer(m, c, s, r)
  PROVE  /\ fifoOf(c)' = Abs!Left(fifoOf(c), v)
         /\ alts' = store(m, r, Abs!Received(fifoOf(c), v))
         /\ \A d \in Chans \ {c} : fifoOf(d)' = fifoOf(d)
         /\ Abs!Received(fifoOf(c), v) \in Values
  <1> DEFINE q == fifoOf(c)
  <1>1. /\ q \in Seq(Values) /\ Len(q) = nbuf[c] /\ nbuf[c] \in Nat
        /\ nbuf[c] > 0 => Head(q) = buf[c][off[c]]
    BY FifoIsSeq
  <1>2. bufsize[c] \in Nat /\ nbuf[c] <= bufsize[c]
    BY ChannelAssumption DEF IInv, TypeOK, RingBuffer
  <1>3. CASE copyDirect(m, c, s, r)
    <2>1. PICK p \in s : alts' = store(m, r, At(m, p).v)
      BY <1>3 DEF copyDirect
    <2>2. nbuf[c] = 0 /\ UNCHANGED <<buf, off, nbuf>> /\ alts' = store(m, r, v)
      BY <1>3, <2>1 DEF copyDirect
    <2>3. \A d \in Chans : fifoOf(d)' = fifoOf(d)
      BY <2>2 DEF fifoOf
    <2> HIDE DEF q
    <2>4. q = <<>>
      BY <1>1, <2>2
    <2>5. Abs!Received(q, v) = v /\ Abs!Left(q, v) = q
      BY <2>4 DEF Abs!Received, Abs!Left
    <2> QED
      BY <2>2, <2>3, <2>5 DEF q
  <1>4. CASE copyThroughBuffer(m, c, s, r)
    <2>1. nbuf[c] > 0 /\ bufsize[c] > 0
      BY <1>1, <1>2, <1>4 DEF copyThroughBuffer
    <2>2. /\ fifoOf(c)' = Moved(fifoOf(c), IF r = {} THEN 0 ELSE 1,
                                IF s = {} THEN 0 ELSE 1, v)
          /\ alts' = store(m, r, buf[c][off[c]])
          /\ \A d \in Chans \ {c} : fifoOf(d)' = fifoOf(d)
      BY <1>4, <2>1, FifoMoves
    <2> HIDE DEF q
    <2>3. Head(Append(q, v)) = Head(q) /\ Head(q) \in Values
      BY <1>1, <2>1
    <2>4. Abs!Received(q, v) = buf[c][off[c]] /\ Abs!Received(q, v) \in Values
      BY <1>1, <2>1, <2>3 DEF Abs!Received
    <2>5. fifoOf(c)' = Abs!Left(fifoOf(c), v)
      BY <2>2 DEF Moved, Abs!Left
    <2> QED
      BY <2>2, <2>4, <2>5 DEF q
  <1> QED
    BY <1>3, <1>4

----------------------------------------------------------------------------
(***************************************************************************)
(* What can happen in ChannelSpec is what altcanexec finds.                *)
(***************************************************************************)

\* The partners of an alternative are the entries in the opposite queue.
LEMMA PartnersQueued ==
  ASSUME IInv, NEW a \in Alt, a.op \in Dirs
  PROVE  /\ Abs!Partners(a) = {} <=> Queued(a.c, otherop(a.op)) = {}
         /\ \A u \in Tasks : waiting(u) =>
              \A j \in DOMAIN alts[ArrayOf[u]] :
                /\ alts[ArrayOf[u]][j].c = a.c
                /\ alts[ArrayOf[u]][j].op = otherop(a.op)
                => <<u, j>> \in Abs!Partners(a)
  <1>1. a.c \in Chans /\ otherop(a.op) \in Dirs /\ otherop(a.op) # a.op
    BY DEF Alt, Dirs, otherop
  <1>2. ASSUME NEW u \in Tasks, waiting(u), NEW j \in DOMAIN alts[ArrayOf[u]],
               alts[ArrayOf[u]][j].c = a.c,
               alts[ArrayOf[u]][j].op = otherop(a.op)
        PROVE  <<u, j>> \in Abs!Partners(a)
    <2>1. offered(u) = alts[ArrayOf[u]]
      BY <1>2 DEF offered
    <2>2. <<u, j>> \in UNION {{w} \X DOMAIN [x \in Tasks |-> offered(x)][w] : w \in Tasks}
      BY <1>2, <2>1
    <2>3. Abs!Opposite(a, offered(u)[j])
      BY <1>2, <2>1 DEF Abs!Opposite, otherop, Dirs
    <2> QED
      BY <2>2, <2>3 DEF Abs!Partners
  <1>3. ASSUME NEW p \in Queued(a.c, otherop(a.op)) PROVE Abs!Partners(a) # {}
    <2>1. PICK u \in Tasks :
            /\ p[1] = ArrayOf[u] /\ waiting(u) /\ p[2] \in DOMAIN alts[p[1]]
            /\ alts[p[1]][p[2]].c = a.c
            /\ alts[p[1]][p[2]].op = otherop(a.op)
      BY <1>1, QueuedSleeper
    <2> QED
      BY <1>2, <2>1
  <1>4. ASSUME NEW p \in Abs!Partners(a) PROVE Queued(a.c, otherop(a.op)) # {}
    <2>1. PICK u \in Tasks : p \in {u} \X DOMAIN offered(u)
      BY <1>4 DEF Abs!Partners
    <2>2. p[1] = u /\ p[2] \in DOMAIN offered(u)
      BY <2>1
    <2>3. Abs!Opposite(a, offered(u)[p[2]])
      BY <1>4, <2>2 DEF Abs!Partners
    <2>4. waiting(u) /\ offered(u) = alts[ArrayOf[u]]
      BY <2>2, OfferedAlt
    <2>5. /\ alts[ArrayOf[u]][p[2]].c = a.c
          /\ alts[ArrayOf[u]][p[2]].op = otherop(a.op)
      BY <2>3, <2>4 DEF Abs!Opposite, otherop, Dirs
    <2> QED
      BY <1>1, <2>2, <2>4, <2>5, SleeperQueued
  <1> QED
    BY <1>2, <1>3, <1>4

LEMMA HappensIfExecutable ==
  ASSUME IInv, NEW a \in Alt
  PROVE  Abs!CanHappen(a) <=> altcanexec(a)
  <1>1. a.c \in Chans /\ a.op \in Ops /\ bufsize[a.c] \in Nat
    BY ChannelAssumption DEF Alt
  <1>2. /\ fifoOf(a.c) \in Seq(Values) /\ Len(fifoOf(a.c)) = nbuf[a.c]
        /\ nbuf[a.c] \in Nat
    BY <1>1, FifoIsSeq
  <1>3. fifoOf(a.c) # <<>> <=> nbuf[a.c] > 0
    BY <1>2
  <1>4. CASE a.op = "CHANNOP"
    BY <1>4 DEF Abs!CanHappen, altcanexec
  <1>5. CASE a.op \in Dirs
    <2>1. Abs!Partners(a) = {} <=> Queued(a.c, otherop(a.op)) = {}
      BY <1>5, PartnersQueued
    <2> QED
      BY <1>1, <1>2, <1>3, <1>5, <2>1 DEF Abs!CanHappen, altcanexec, Dirs
  <1> QED
    BY <1>1, <1>4, <1>5 DEF Ops

\* A call of which nothing is executable is one of which nothing can happen.
LEMMA NothingHappens ==
  ASSUME IInv, NEW t \in Tasks, NEW a \in calls(t), executable(a) = {}
  PROVE  \A i \in DOMAIN a : ~Abs!CanHappen(a[i])
  <1>1. a \in Seq(Alt)
    BY CallsAreAlts
  <1>2. \A i \in DOMAIN a : a[i] \in Alt /\ ~altcanexec(a[i])
    BY <1>1, ElementOfSeq DEF executable
  <1> QED
    BY <1>2, HappensIfExecutable

----------------------------------------------------------------------------
(***************************************************************************)
(* Each action of Channel is one of ChannelSpec, or changes nothing there.  *)
(***************************************************************************)
absVars == <<[c \in Chans |-> fifoOf(c)], [t \in Tasks |-> offered(t)],
             [t \in Tasks |-> resultOf(t)]>>

\* A task whose array and flags are left alone has the offer and result it had.
LEMMA ViewKept ==
  ASSUME NEW u \in Tasks, waiting(u)' <=> waiting(u), inalt'[u] = inalt[u],
         ret'[u] = ret[u], xalt'[ArrayOf[u]] = xalt[ArrayOf[u]],
         alts'[ArrayOf[u]] = alts[ArrayOf[u]]
  PROVE  offered(u)' = offered(u) /\ resultOf(u)' = resultOf(u)
  BY DEF offered, resultOf

LEMMA YieldStutters ==
  ASSUME IInv, NEW t \in Tasks, Yield(t) PROVE UNCHANGED absVars
  <1>1. /\ ~inalt[t] /\ taskready(t)
        /\ UNCHANGED <<alts, xalt, buf, off, nbuf, inalt, ret>>
    BY CallerAwake DEF Yield, memVars, chanVars
  <1>2. ready' = [ready EXCEPT ![t] = TRUE] /\ ready \in [Tasks -> BOOLEAN]
    BY <1>1 DEF taskready, IInv, TypeOK
  <1>3. \A u \in Tasks : offered(u)' = offered(u) /\ resultOf(u)' = resultOf(u)
    <2>1. \A u \in Tasks : waiting(u)' <=> waiting(u)
      BY <1>1, <1>2 DEF waiting
    <2> QED
      BY <1>1, <2>1, ViewKept
  <1>4. \A c \in Chans : fifoOf(c)' = fifoOf(c)
    BY <1>1 DEF fifoOf
  <1> QED
    BY <1>3, <1>4 DEF absVars

LEMMA DispatchStutters ==
  ASSUME IInv, Dispatch PROVE UNCHANGED absVars
  <1>1. runq \in Seq(Tasks) /\ runq # <<>> /\ Head(runq) \in Tasks
    BY DEF IInv, TypeOK, Dispatch
  <1> PICK t \in Tasks : t = Head(runq)
    BY <1>1
  <1>2. /\ ready' = [ready EXCEPT ![t] = FALSE]
        /\ inalt' = [inalt EXCEPT ![t] = FALSE]
        /\ ret' = IF inalt[t] THEN [ret EXCEPT ![t] = xalt[ArrayOf[t]]] ELSE ret
        /\ UNCHANGED <<alts, xalt, buf, off, nbuf>>
    BY DEF Dispatch, memVars, chanVars
  <1>3. /\ ready \in [Tasks -> BOOLEAN] /\ inalt \in [Tasks -> BOOLEAN]
        /\ ret \in [Tasks -> Int]
    BY DEF IInv, TypeOK
  <1>4. ready[t]
    <2>1. t = runq[1] /\ 1 \in DOMAIN runq
      BY <1>1
    <2> QED
      BY <2>1 DEF IInv, ReadyOnce
  <1>5. ~waiting(t) /\ ~waiting(t)'
    BY <1>2, <1>3, <1>4 DEF waiting
  <1>6. ASSUME NEW u \in Tasks
        PROVE  offered(u)' = offered(u) /\ resultOf(u)' = resultOf(u)
    <2>1. CASE u = t
      <3>1. offered(u)' = offered(u)
        BY <1>5, <2>1 DEF offered
      <3>2. inalt'[t] = FALSE /\ ret'[t] = IF inalt[t] THEN xalt[ArrayOf[t]] ELSE ret[t]
        BY <1>2, <1>3
      <3>3. resultOf(t)' = resultOf(t)
        BY <1>2, <1>5, <3>2 DEF resultOf
      <3> QED
        BY <2>1, <3>1, <3>3
    <2>2. CASE u # t
      <3>1. /\ ready'[u] = ready[u] /\ inalt'[u] = inalt[u] /\ ret'[u] = ret[u]
            /\ xalt' = xalt /\ alts' = alts
        BY <1>2, <1>3, <2>2
      <3>2. waiting(u)' <=> waiting(u)
        BY <3>1 DEF waiting
      <3> QED
        BY <3>1, <3>2, ViewKept
    <2> QED
      BY <2>1, <2>2
  <1>7. \A c \in Chans : fifoOf(c)' = fifoOf(c)
    BY <1>2 DEF fifoOf
  <1> QED
    BY <1>6, <1>7 DEF absVars

\* What a call of t leaves of the other tasks, when it writes t's array only.
LEMMA OthersKept ==
  ASSUME IInv, OwnArrays, NEW t \in Tasks, NEW u \in Tasks \ {t},
         alts'[ArrayOf[u]] = alts[ArrayOf[u]], xalt' = based(t),
         inalt'[u] = inalt[u], ret'[u] = ret[u], ready'[u] = ready[u]
  PROVE  offered(u)' = offered(u) /\ resultOf(u)' = resultOf(u)
  <1>1. xalt'[ArrayOf[u]] = xalt[ArrayOf[u]]
    BY ChannelAssumption DEF based, OwnArrays, IInv, TypeOK
  <1>2. waiting(u)' <=> waiting(u)
    BY DEF waiting
  <1> QED
    BY <1>1, <1>2, ViewKept

LEMMA NoBlockGivesUp ==
  ASSUME IInv, OwnArrays, NEW t \in Tasks, AltNoBlock(t) PROVE Abs!GiveUp(t)
  <1>1. running = t /\ ~waiting(t) /\ ~inalt[t]
    BY CallerAwake DEF AltNoBlock
  <1>2. PICK a \in calls(t) : executable(a) = {} /\ alts' = loaded(t, a)
    BY DEF AltNoBlock
  <1>3. /\ xalt' = based(t) /\ ret' = [ret EXCEPT ![t] = -1]
        /\ UNCHANGED <<buf, off, nbuf, inalt, ready>>
    BY DEF AltNoBlock, chanVars, schedVars
  <1>4. a \in AltLists[t] /\ \A i \in DOMAIN a : ~Abs!CanHappen(a[i])
    BY <1>2, NothingHappens DEF calls
  <1>5. ret \in [Tasks -> Int]
    BY DEF IInv, TypeOK
  <1>6. \A u \in Tasks \ {t} : offered(u)' = offered(u) /\ resultOf(u)' = resultOf(u)
    <2> TAKE u \in Tasks \ {t}
    <2>1. alts'[ArrayOf[u]] = alts[ArrayOf[u]]
      BY <1>2, LoadKeepsOthers, ChannelAssumption
    <2> QED
      BY <1>3, <1>5, <2>1, OthersKept
  <1>7. offered(t) = <<>> /\ offered(t)' = <<>> /\ resultOf(t)' = Abs!Blocked
    <2>1. ~waiting(t)' /\ ret'[t] = -1 /\ ~inalt'[t]
      BY <1>1, <1>3, <1>5 DEF waiting
    <2> QED
      BY <1>1, <2>1 DEF offered, resultOf, Abs!Blocked
  <1>8. \A c \in Chans : fifoOf(c)' = fifoOf(c)
    BY <1>3 DEF fifoOf
  <1> QED
    BY <1>4, <1>6, <1>7, <1>8 DEF Abs!GiveUp

LEMMA BlockSleeps ==
  ASSUME IInv, OwnArrays, NEW t \in Tasks, AltBlock(t) PROVE Abs!Sleep(t)
  <1>1. running = t /\ ~ready[t] /\ ~waiting(t)
    BY CallerAwake DEF AltBlock
  <1>2. PICK a \in calls(t) : executable(a) = {} /\ alts' = loaded(t, a)
    BY DEF AltBlock
  <1>3. /\ xalt' = based(t) /\ inalt' = [inalt EXCEPT ![t] = TRUE]
        /\ UNCHANGED <<buf, off, nbuf, ret, ready>>
    BY DEF AltBlock
  <1>4. a \in AltLists[t] /\ \A i \in DOMAIN a : ~Abs!CanHappen(a[i])
    BY <1>2, NothingHappens DEF calls
  <1>5. inalt \in [Tasks -> BOOLEAN]
    BY DEF IInv, TypeOK
  <1>6. \A u \in Tasks \ {t} : offered(u)' = offered(u) /\ resultOf(u)' = resultOf(u)
    <2> TAKE u \in Tasks \ {t}
    <2>1. alts'[ArrayOf[u]] = alts[ArrayOf[u]]
      BY <1>2, LoadKeepsOthers, ChannelAssumption
    <2> QED
      BY <1>3, <1>5, <2>1, OthersKept
  <1>7. offered(t) = <<>> /\ offered(t)' = a /\ resultOf(t)' = Abs!NoResult
    <2>1. waiting(t)'
      BY <1>1, <1>3, <1>5 DEF waiting
    <2>2. alts'[ArrayOf[t]] = a
      BY <1>2, LoadKeepsOthers
    <2> QED
      BY <1>1, <2>1, <2>2 DEF offered, resultOf, Abs!NoResult
  <1>8. \A c \in Chans : fifoOf(c)' = fifoOf(c)
    BY <1>3 DEF fifoOf
  <1> QED
    BY <1>4, <1>6, <1>7, <1>8 DEF Abs!Sleep

\* What every call that executes an entry knows of it.
LEMMA EntryFacts ==
  ASSUME IInv, OwnArrays, NEW t \in Tasks, NEW a \in calls(t), NEW i \in executable(a)
  PROVE  /\ i \in DOMAIN a /\ i \in Nat /\ i > 0 /\ a[i] \in Alt
         /\ altcanexec(a[i]) /\ Abs!CanHappen(a[i])
         /\ a[i].c \in Chans /\ a[i].op \in Dirs
         /\ a[i].op = "CHANSND" => a[i].v \in Values
         /\ At(loaded(t, a), <<ArrayOf[t], i>>) = a[i]
  <1>1. i \in DOMAIN a /\ altcanexec(a[i]) /\ a \in Seq(Alt)
    BY CallsAreAlts DEF executable
  <1>2. a[i] \in Alt /\ i \in Nat /\ i > 0
    BY <1>1, ElementOfSeq
  <1>3. a[i].op # "CHANNOP"
    BY <1>1 DEF altcanexec
  <1>4. a[i].c \in Chans /\ a[i].op \in Dirs /\ (a[i].op = "CHANSND" => a[i].v \in Values)
    BY <1>2, <1>3 DEF Alt, Ops, Dirs
  <1>5. At(loaded(t, a), <<ArrayOf[t], i>>) = a[i]
    BY LoadKeepsOthers DEF At
  <1> QED
    BY <1>1, <1>2, <1>4, <1>5, HappensIfExecutable

\* altexec with nobody on the other side
LEMMA AloneProceeds ==
  ASSUME IInv, OwnArrays, NEW t \in Tasks, CanCall(t),
         NEW a \in calls(t), NEW i \in executable(a), execAlone(t, a, i),
         ret' = [ret EXCEPT ![t] = i], UNCHANGED <<inalt, running>>
  PROVE  Abs!Proceed(t)
  <1> DEFINE c == a[i].c
             p == <<ArrayOf[t], i>>
             s == IF a[i].op = "CHANSND" THEN {p} ELSE {}
             r == IF a[i].op = "CHANSND" THEN {} ELSE {p}
             w == buf[c][off[c]]
  <1> PICK m : m = loaded(t, a)
    OBVIOUS
  <1>1. running = t /\ ~ready[t] /\ ~inalt[t] /\ ~waiting(t)
    BY CallerAwake
  <1>2. /\ i \in DOMAIN a /\ i \in Nat /\ i > 0 /\ a[i] \in Alt
        /\ altcanexec(a[i]) /\ Abs!CanHappen(a[i])
        /\ c \in Chans /\ a[i].op \in Dirs
        /\ a[i].op = "CHANSND" => a[i].v \in Values
        /\ At(m, p) = a[i]
    BY EntryFacts
  <1>3. /\ m \in [Arrays -> Seq(Alt)] /\ m[ArrayOf[t]] = a /\ ArrayOf[t] \in Arrays
        /\ \A x \in Arrays : x # ArrayOf[t] => m[x] = alts[x]
        /\ \A u \in Tasks \ {t} : ArrayOf[u] # ArrayOf[t] /\ ArrayOf[u] \in Arrays
    BY LoadKeepsOthers, ChannelAssumption
  <1>4. /\ Queued(c, otherop(a[i].op)) = {} /\ altcopy(m, c, p, {})
        /\ xalt' = based(t) /\ UNCHANGED ready
    BY DEF execAlone
  <1>5. /\ bufsize[c] > 0 /\ nbuf[c] \in Nat
        /\ a[i].op = "CHANSND" => nbuf[c] < bufsize[c]
        /\ a[i].op = "CHANRCV" => nbuf[c] > 0
    BY <1>2, <1>4, ChannelAssumption DEF altcanexec, IInv, TypeOK
  <1>6. copyThroughBuffer(m, c, s, r)
    BY <1>2, <1>4 DEF altcopy, copyDirect
  <1>7. \E v \in Values :
          /\ fifoOf(c)' = Moved(fifoOf(c), IF r = {} THEN 0 ELSE 1,
                                IF s = {} THEN 0 ELSE 1, v)
          /\ \A q \in s : At(m, q).v = v
          /\ alts' = store(m, r, w)
          /\ \A d \in Chans \ {c} : fifoOf(d)' = fifoOf(d)
    <2>1. \E v \in Values : \A q \in s : At(m, q).v = v
      <3>1. CASE a[i].op = "CHANSND"
        BY <1>2, <3>1
      <3>2. CASE a[i].op = "CHANRCV"
        <4>1. Head(fifoOf(c)) \in Values
          BY <1>2, <1>5, <3>2, FifoIsSeq
        <4> QED
          BY <3>2, <4>1
      <3> QED
        BY <1>2, <3>1, <3>2 DEF Dirs
    <2>2. PICK v \in Values : \A q \in s : At(m, q).v = v
      BY <2>1
    <2>3. (r # {} => nbuf[c] > 0) /\ (r = {} => nbuf[c] < bufsize[c])
      BY <1>2, <1>5 DEF Dirs
    <2> HIDE DEF s, r, c
    <2>4. /\ fifoOf(c)' = Moved(fifoOf(c), IF r = {} THEN 0 ELSE 1,
                                IF s = {} THEN 0 ELSE 1, v)
          /\ alts' = store(m, r, w)
          /\ \A d \in Chans \ {c} : fifoOf(d)' = fifoOf(d)
      BY <1>2, <1>5, <1>6, <2>2, <2>3, FifoMoves
    <2> QED
      BY <2>2, <2>4
  <1>8. \A u \in Tasks \ {t} : offered(u)' = offered(u) /\ resultOf(u)' = resultOf(u)
    <2> TAKE u \in Tasks \ {t}
    <2>1. alts'[ArrayOf[u]] = alts[ArrayOf[u]]
      <3>1. \A q \in r : q[1] # ArrayOf[u]
        BY <1>3
      <3> HIDE DEF r, w, c
      <3>2. alts' = store(m, r, w)
        BY <1>7
      <3> QED
        BY <1>3, <3>1, <3>2, StoreElsewhere
    <2>2. ret \in [Tasks -> Int]
      BY DEF IInv, TypeOK
    <2> QED
      BY <1>4, <2>1, <2>2, OthersKept
  <1>9. offered(t) = <<>> /\ offered(t)' = <<>>
    <2>1. ~waiting(t)'
      BY <1>1, <1>4 DEF waiting
    <2> QED
      BY <1>1, <2>1 DEF offered
  <1>10. resultOf(t)' = alts'[ArrayOf[t]][i]
    <2>1. ~waiting(t)' /\ ~inalt'[t] /\ ret'[t] = i
      BY <1>1, <1>4 DEF waiting, IInv, TypeOK
    <2> QED
      BY <1>2, <2>1 DEF resultOf
  <1>11. alts'[ArrayOf[t]][i] = IF r = {} THEN a[i] ELSE [a[i] EXCEPT !.v = w]
    <2>1. alts' = store(m, r, w)
      BY <1>7
    <2>2. store(m, r, w)[ArrayOf[t]][i] = IF p \in r THEN [m[ArrayOf[t]][i] EXCEPT !.v = w]
                                          ELSE m[ArrayOf[t]][i]
      <3> HIDE DEF r, w
      <3>1. m \in [Arrays -> Seq(Alt)] /\ ArrayOf[t] \in Arrays /\ i \in DOMAIN m[ArrayOf[t]]
        BY <1>2, <1>3
      <3>2. \A x \in Arrays : \A j \in DOMAIN m[x] :
              store(m, r, w)[x][j] = IF <<x, j>> \in r THEN [m[x][j] EXCEPT !.v = w]
                                                        ELSE m[x][j]
        BY DEF store
      <3> QED
        BY <3>1, <3>2, Zenon
    <2> QED
      BY <1>3, <2>1, <2>2
  <1>12. Abs!Alone(t, a[i])
    <2>1. Abs!Partners(a[i]) = {}
      BY <1>2, <1>4, PartnersQueued
    <2>2. \A d \in Chans \ {c} : fifoOf(d)' = fifoOf(d)
      BY <1>7
    <2>3. CASE a[i].op = "CHANSND"
      <3>1. fifoOf(c)' = Append(fifoOf(c), a[i].v)
        <4>1. PICK v \in Values : /\ fifoOf(c)' = Moved(fifoOf(c), 0, 1, v)
                                  /\ At(m, p).v = v
          BY <1>7, <2>3
        <4> QED
          BY <1>2, <4>1 DEF Moved
      <3>2. resultOf(t)' = a[i]
        BY <1>10, <1>11, <2>3
      <3> HIDE DEF c
      <3>3. [d \in Chans |-> fifoOf(d)']
              = [[d \in Chans |-> fifoOf(d)] EXCEPT ![c] = Append(@, a[i].v)]
        BY <1>2, <2>2, <3>1
      <3>4. [u \in Tasks |-> resultOf(u)']
              = [[u \in Tasks |-> resultOf(u)] EXCEPT ![t] = a[i]]
        BY <1>8, <3>2
      <3> QED
        BY <1>8, <1>9, <2>1, <2>3, <3>3, <3>4 DEF Abs!Alone, c
    <2>4. CASE a[i].op = "CHANRCV"
      <3>1. fifoOf(c)' = Tail(fifoOf(c))
        <4>1. PICK v \in Values : fifoOf(c)' = Moved(fifoOf(c), 1, 0, v)
          BY <1>7, <2>4
        <4> QED
          BY <4>1 DEF Moved
      <3>2. Head(fifoOf(c)) = w
        BY <1>2, <1>5, <2>4, FifoIsSeq
      <3>3. resultOf(t)' = [a[i] EXCEPT !.v = Head(fifoOf(c))]
        BY <1>10, <1>11, <2>4, <3>2
      <3> HIDE DEF c
      <3>4. [d \in Chans |-> fifoOf(d)']
              = [[d \in Chans |-> fifoOf(d)] EXCEPT ![c] = Tail(@)]
        BY <1>2, <2>2, <3>1
      <3>5. [u \in Tasks |-> resultOf(u)']
              = [[u \in Tasks |-> resultOf(u)] EXCEPT
                   ![t] = [a[i] EXCEPT !.v = Head([d \in Chans |-> fifoOf(d)][c])]]
        BY <1>2, <1>8, <3>3
      <3> QED
        BY <1>8, <1>9, <2>1, <2>4, <3>4, <3>5 DEF Abs!Alone, c
    <2> QED
      BY <1>2, <2>3, <2>4 DEF Dirs
  <1> QED
    BY <1>2, <1>9, <1>12 DEF Abs!Proceed, calls

\* altexec with a sleeping partner
LEMMA TogetherProceeds ==
  ASSUME IInv, OwnArrays, NEW t \in Tasks, CanCall(t),
         NEW a \in calls(t), NEW i \in executable(a),
         NEW other \in Queued(a[i].c, otherop(a[i].op)),
         execWith(t, a, i, other),
         ret' = [ret EXCEPT ![t] = i], UNCHANGED <<inalt, running>>
  PROVE  Abs!Proceed(t)
  <1> DEFINE c == a[i].c
             p == <<ArrayOf[t], i>>
             s == IF a[i].op = "CHANSND" THEN {p} ELSE {other}
             r == IF a[i].op = "CHANSND" THEN {other} ELSE {p}
  <1> PICK m : m = loaded(t, a)
    OBVIOUS
  <1>1. running = t /\ ~ready[t] /\ ~inalt[t] /\ ~waiting(t)
    BY CallerAwake
  <1>2. /\ i \in DOMAIN a /\ i \in Nat /\ i > 0 /\ a[i] \in Alt
        /\ Abs!CanHappen(a[i])
        /\ c \in Chans /\ a[i].op \in Dirs
        /\ a[i].op = "CHANSND" => a[i].v \in Values
        /\ At(m, p) = a[i]
    BY EntryFacts
  <1>3. /\ m \in [Arrays -> Seq(Alt)] /\ m[ArrayOf[t]] = a /\ ArrayOf[t] \in Arrays
        /\ \A x \in Arrays : x # ArrayOf[t] => m[x] = alts[x]
        /\ \A x \in Tasks \ {t} : ArrayOf[x] # ArrayOf[t] /\ ArrayOf[x] \in Arrays
    BY LoadKeepsOthers, ChannelAssumption
  <1>4. PICK u \in Tasks \ {t} :
          /\ other[1] = ArrayOf[u] /\ waiting(u)
          /\ other[2] \in DOMAIN alts[ArrayOf[u]]
          /\ alts[ArrayOf[u]][other[2]].c = c
          /\ alts[ArrayOf[u]][other[2]].op = otherop(a[i].op)
          /\ tagged(t)[ArrayOf[u]] = u
    BY PartnerFacts
  <1> DEFINE j == other[2]
             b == alts[ArrayOf[u]][j]
             v == IF a[i].op = "CHANSND" THEN a[i].v ELSE b.v
             w == Abs!Received(fifoOf(c), v)
  <1>5. other = <<ArrayOf[u], j>> /\ other \in Ptr
    BY <1>4, PartnerFacts DEF Ptr
  <1>6. m[ArrayOf[u]] = alts[ArrayOf[u]] /\ At(m, other) = b
    BY <1>3, <1>4 DEF At
  <1>7. b \in Alt /\ j \in Nat /\ j > 0 /\ j \in DOMAIN m[ArrayOf[u]]
    <2>1. alts[ArrayOf[u]] \in Seq(Alt)
      BY ChannelAssumption DEF IInv, TypeOK
    <2>2. j \in 1..MaxAlts
      BY <1>5 DEF Ptr
    <2> QED
      BY <1>4, <1>6, <2>1, <2>2, ElementOfSeq, ChannelAssumption
  <1>8. v \in Values
    <2>1. CASE a[i].op = "CHANSND"
      BY <1>2, <2>1
    <2>2. CASE a[i].op = "CHANRCV"
      BY <1>4, <1>7, <2>2 DEF Alt, otherop
    <2> QED
      BY <1>2, <2>1, <2>2 DEF Dirs
  <1>9. /\ altcopy(m, c, p, {other}) /\ ready' = [ready EXCEPT ![u] = TRUE]
        /\ xalt' = [based(t) EXCEPT ![ArrayOf[u]] = j]
    BY <1>4 DEF execWith, taskready
  <1>10. /\ fifoOf(c)' = Abs!Left(fifoOf(c), v)
         /\ alts' = store(m, r, w)
         /\ \A d \in Chans \ {c} : fifoOf(d)' = fifoOf(d)
    <2>1. /\ copyDirect(m, c, s, r) \/ copyThroughBuffer(m, c, s, r)
          /\ s # {} /\ r # {}
      BY <1>2, <1>9 DEF altcopy
    <2>2. \A q \in s : At(m, q).v = v
      BY <1>2, <1>6
    <2>3. c \in Chans
      BY <1>2
    <2> HIDE DEF s, r, c, v
    <2> PICK V \in Values : V = v
      BY <1>8
    <2>4. \A q \in s : At(m, q).v = V
      BY <2>2
    <2>5. /\ fifoOf(c)' = Abs!Left(fifoOf(c), V)
          /\ alts' = store(m, r, Abs!Received(fifoOf(c), V))
          /\ \A d \in Chans \ {c} : fifoOf(d)' = fifoOf(d)
      BY <2>1, <2>3, <2>4, HandedOver
    <2> QED
      BY <2>5
  <1>11. /\ ready \in [Tasks -> BOOLEAN] /\ inalt \in [Tasks -> BOOLEAN]
         /\ ret \in [Tasks -> Int] /\ xalt \in [Arrays -> Nat]
    BY DEF IInv, TypeOK
  <1>12. /\ ret'[t] = i /\ \A x \in Tasks \ {t} : ret'[x] = ret[x]
         /\ ready'[u] /\ \A x \in Tasks \ {u} : ready'[x] = ready[x]
         /\ xalt'[ArrayOf[u]] = j
    BY <1>3, <1>9, <1>11 DEF based
  <1>13. \A x \in Tasks \ {t, u} : offered(x)' = offered(x) /\ resultOf(x)' = resultOf(x)
    <2> TAKE x \in Tasks \ {t, u}
    <2>1. ArrayOf[x] # ArrayOf[t] /\ ArrayOf[x] # ArrayOf[u] /\ ArrayOf[x] \in Arrays
      BY <1>3 DEF OwnArrays
    <2>2. alts'[ArrayOf[x]] = alts[ArrayOf[x]]
      <3>1. \A q \in r : q[1] # ArrayOf[x]
        BY <1>4, <2>1
      <3> HIDE DEF r, w, c
      <3>2. alts' = store(m, r, w)
        BY <1>10
      <3>3. m \in [Arrays -> Seq(Alt)] /\ ArrayOf[x] \in Arrays
        BY <1>3, <2>1
      <3>4. store(m, r, w)[ArrayOf[x]] = m[ArrayOf[x]]
        BY <3>1, <3>3, StoreElsewhere
      <3>5. m[ArrayOf[x]] = alts[ArrayOf[x]]
        BY <1>3, <2>1
      <3> QED
        BY <3>2, <3>4, <3>5
    <2>3. xalt'[ArrayOf[x]] = xalt[ArrayOf[x]]
      BY <1>9, <1>11, <2>1 DEF based
    <2>4. waiting(x)' <=> waiting(x)
      BY <1>12 DEF waiting
    <2> QED
      BY <1>12, <2>2, <2>3, <2>4, ViewKept
  <1>14. /\ offered(t) = <<>> /\ offered(t)' = <<>>
         /\ offered(u) = alts[ArrayOf[u]] /\ offered(u)' = <<>>
         /\ resultOf(t)' = alts'[ArrayOf[t]][i]
         /\ resultOf(u)' = alts'[ArrayOf[u]][j]
    <2>1. ~waiting(t)' /\ ~inalt'[t] /\ ~waiting(u)' /\ inalt'[u]
      BY <1>1, <1>4, <1>12 DEF waiting
    <2> HIDE DEF j
    <2> QED
      BY <1>1, <1>2, <1>4, <1>7, <1>12, <2>1 DEF offered, resultOf
  <1>15. /\ resultOf(t)' = IF a[i].op = "CHANSND" THEN a[i] ELSE [a[i] EXCEPT !.v = w]
         /\ resultOf(u)' = IF b.op = "CHANSND" THEN b ELSE [b EXCEPT !.v = w]
    <2>1. \A x \in Arrays : \A k \in DOMAIN m[x] :
            alts'[x][k] = IF <<x, k>> \in r THEN [m[x][k] EXCEPT !.v = w] ELSE m[x][k]
      <3> HIDE DEF r, w
      <3> QED
        BY <1>10 DEF store
    <2>2. /\ alts'[ArrayOf[t]][i] = IF p \in r THEN [a[i] EXCEPT !.v = w] ELSE a[i]
          /\ alts'[ArrayOf[u]][j] = IF other \in r THEN [b EXCEPT !.v = w] ELSE b
      <3> HIDE DEF r, w
      <3>1. /\ ArrayOf[t] \in Arrays /\ i \in DOMAIN m[ArrayOf[t]]
            /\ m[ArrayOf[t]][i] = a[i]
        BY <1>2, <1>3
      <3>2. /\ ArrayOf[u] \in Arrays /\ j \in DOMAIN m[ArrayOf[u]]
            /\ m[ArrayOf[u]][j] = b /\ other = <<ArrayOf[u], j>>
        BY <1>3, <1>5, <1>6, <1>7
      <3> HIDE DEF b, j
      <3>3. alts'[ArrayOf[t]][i] = IF p \in r THEN [a[i] EXCEPT !.v = w] ELSE a[i]
        BY <2>1, <3>1
      <3>4. alts'[ArrayOf[u]][j] = IF other \in r THEN [b EXCEPT !.v = w] ELSE b
        BY <2>1, <3>2
      <3> QED
        BY <3>3, <3>4
    <2>3. p # other
      BY <1>3, <1>5
    <2>4. /\ p \in r <=> a[i].op # "CHANSND"
          /\ other \in r <=> a[i].op = "CHANSND"
          /\ b.op = "CHANSND" <=> a[i].op # "CHANSND"
      BY <1>2, <1>4, <2>3 DEF otherop, Dirs
    <2> HIDE DEF r, w, p, b
    <2> QED
      BY <1>14, <2>2, <2>4
  <1>16. Abs!Together(t, a[i], <<u, j>>)
    <2> HIDE DEF c, j
    <2>1. [d \in Chans |-> fifoOf(d)']
            = [[d \in Chans |-> fifoOf(d)] EXCEPT ![c] = Abs!Left(fifoOf(c), v)]
      BY <1>2, <1>10
    <2>2. [x \in Tasks |-> offered(x)']
            = [[x \in Tasks |-> offered(x)] EXCEPT ![u] = <<>>]
      BY <1>13, <1>14
    <2>3. [x \in Tasks |-> resultOf(x)']
            = [[x \in Tasks |-> resultOf(x)] EXCEPT
                 ![t] = IF a[i].op = "CHANSND" THEN a[i] ELSE [a[i] EXCEPT !.v = w],
                 ![u] = IF b.op = "CHANSND" THEN b ELSE [b EXCEPT !.v = w]]
      BY <1>13, <1>15
    <2>4. offered(u)[j] = b /\ [x \in Tasks |-> offered(x)][u][j] = b
      BY <1>14
    <2>5. a[i].c = c /\ b = offered(u)[j] /\ v = IF a[i].op = "CHANSND" THEN a[i].v ELSE b.v
      BY <2>4 DEF c
    <2> HIDE DEF b, v
    <2> QED
      BY <1>2, <2>1, <2>2, <2>3, <2>5 DEF Abs!Together
  <1>17. <<u, j>> \in Abs!Partners(a[i])
    BY <1>2, <1>4, PartnersQueued
  <1> QED
    BY <1>2, <1>14, <1>16, <1>17 DEF Abs!Proceed, calls

----------------------------------------------------------------------------
LEMMA StepRefines ==
  IInv /\ OwnArrays /\ [Next]_vars => [Abs!Next]_Abs!vars
  <1> SUFFICES ASSUME IInv, OwnArrays, [Next]_vars PROVE [Abs!Next]_Abs!vars
    OBVIOUS
  <1>1. CASE Dispatch
    BY <1>1, DispatchStutters DEF absVars, Abs!vars
  <1>2. ASSUME NEW t \in Tasks, AltProceed(t) PROVE Abs!Proceed(t)
    <2>1. CanCall(t)
      BY <1>2 DEF AltProceed
    <2>2. PICK a \in calls(t) : \E i \in executable(a) :
            \/ /\ \/ execAlone(t, a, i)
                  \/ \E other \in Queued(a[i].c, otherop(a[i].op)) :
                       execWith(t, a, i, other)
               /\ ret' = [ret EXCEPT ![t] = i]
               /\ UNCHANGED <<inalt, running>>
            \/ \E other \in Queued(a[i].c, otherop(a[i].op)) :
                 execFails(t, a, i, other) /\ abort
      BY <1>2 DEF AltProceed
    <2>3. PICK i \in executable(a) :
            /\ \/ execAlone(t, a, i)
               \/ \E other \in Queued(a[i].c, otherop(a[i].op)) :
                    execWith(t, a, i, other)
            /\ ret' = [ret EXCEPT ![t] = i]
            /\ UNCHANGED <<inalt, running>>
      BY <2>1, <2>2, NeverFails
    <2> QED
      BY <2>1, <2>3, AloneProceeds, TogetherProceeds
  <1>3. ASSUME NEW t \in Tasks, AltNoBlock(t) PROVE Abs!GiveUp(t)
    BY <1>3, NoBlockGivesUp
  <1>4. ASSUME NEW t \in Tasks, AltBlock(t) PROVE Abs!Sleep(t)
    BY <1>4, BlockSleeps
  <1>5. ASSUME NEW t \in Tasks, Yield(t) PROVE UNCHANGED Abs!vars
    BY <1>5, YieldStutters DEF absVars, Abs!vars
  <1>6. CASE UNCHANGED vars
    BY <1>6 DEF vars, Abs!vars, fifoOf, offered, resultOf, waiting
  <1> QED
    BY <1>1, <1>2, <1>3, <1>4, <1>5, <1>6 DEF Next, Abs!Next

LEMMA InitRefines == Init => Abs!Init
  <1> SUFFICES ASSUME Init PROVE Abs!Init
    OBVIOUS
  <1>1. \A c \in Chans : fifoOf(c) = <<>>
    BY DEF Init, fifoOf
  <1>2. \A t \in Tasks : offered(t) = <<>>
    BY DEF Init, offered, waiting
  <1>3. \A t \in Tasks : resultOf(t) = Abs!NoResult
    BY DEF Init, resultOf, Abs!NoResult
  <1> QED
    BY <1>1, <1>2, <1>3 DEF Abs!Init

\* channel.c implements the channels' abstract specification, whatever the
\* tasks, the buffers and the alternatives, if every task calls chanalt with an
\* array of its own: values come out in the order they were sent, each once, and
\* the index a task is told is that of the alternative that happened.
THEOREM ChannelImplementsSpec == ASSUME OwnArrays PROVE Spec => ImplementsSpec
  <1>1. Init => Abs!Init
    BY InitRefines
  <1>2. IInv /\ [Next]_vars => [Abs!Next]_Abs!vars
    BY StepRefines
  <1> QED
    BY <1>1, <1>2, ChannelInvariant, PTL DEF Spec, ImplementsSpec, Abs!Spec
=============================================================================
