---------------------------- MODULE LocksProofs -----------------------------
(***************************************************************************)
(* Proofs about Locks, for any number of tasks: the locks exclude, every   *)
(* waiter is in its list once, and nobody waits for a lock that is free.   *)
(***************************************************************************)
EXTENDS Locks, FiniteSetTheorems, SequenceTheorems, TLAPS

\* The inductive invariant: that a lock is handed to a task that waits for it
\* needs ListsMatch, that nobody else holds it then needs Exclusive, and that
\* only the writers wait when the last reader leaves needs NobodyWaitsForFree.
IInv == TypeOK /\ Exclusive /\ ListsMatch /\ NobodyWaitsForFree

\* w lists the tasks of S, once each.
Lists(w, S) == w \in Seq(Tasks) /\ IsInjective(w) /\ Range(w) = S

----------------------------------------------------------------------------
\* Lists of tasks

\* addtask of a task that is not in the list.
LEMMA ListAppend ==
  ASSUME NEW w, NEW S, Lists(w, S), NEW t \in Tasks, t \notin S
  PROVE  Lists(Append(w, t), S \cup {t}) /\ Append(w, t) # <<>>
  <1> DEFINE a == Append(w, t)
  <1>1. w \in Seq(Tasks) /\ Range(w) = {w[k] : k \in 1..Len(w)}
    BY RangeEquality DEF Lists
  <1>2. /\ a \in Seq(Tasks) /\ Len(a) = Len(w) + 1 /\ a[Len(w) + 1] = t
        /\ \A k \in 1..Len(w) : a[k] = w[k]
        /\ a # <<>>
    BY <1>1, AppendProperties
  <1>3. Len(w) \in Nat /\ DOMAIN w = 1..Len(w) /\ DOMAIN a = 1..(Len(w) + 1)
    BY <1>1, <1>2, LenProperties
  <1>4. Range(a) = {a[k] : k \in 1..(Len(w) + 1)}
    BY <1>2, RangeEquality
  <1> HIDE DEF a
  <1>5. Range(a) = S \cup {t}
    BY <1>1, <1>2, <1>3, <1>4 DEF Lists
  <1>6. IsInjective(a)
    <2> SUFFICES ASSUME NEW i \in DOMAIN a, NEW j \in DOMAIN a, a[i] = a[j]
                 PROVE  i = j
      BY DEF IsInjective
    <2>1. \A k \in 1..Len(w) : w[k] # t
      BY <1>1 DEF Lists
    <2>2. \A k, l \in 1..Len(w) : w[k] = w[l] => k = l
      BY <1>3 DEF Lists, IsInjective
    <2> QED
      BY <1>2, <1>3, <2>1, <2>2
  <1> QED
    BY <1>2, <1>5, <1>6 DEF Lists, a

\* deltask of the head.
LEMMA ListTail ==
  ASSUME NEW w, NEW S, Lists(w, S), w # <<>>
  PROVE  Head(w) \in S /\ Head(w) \in Tasks /\ Lists(Tail(w), S \ {Head(w)})
  <1> DEFINE a == Tail(w)
  <1>1. w \in Seq(Tasks) /\ Range(w) = {w[k] : k \in 1..Len(w)}
    BY RangeEquality DEF Lists
  <1>2. Len(w) \in Nat \ {0} /\ DOMAIN w = 1..Len(w) /\ Head(w) = w[1]
    BY <1>1, LenProperties, EmptySeq
  <1>3. /\ a \in Seq(Tasks) /\ Len(a) = Len(w) - 1 /\ Head(w) \in Tasks
        /\ \A k \in 1..Len(a) : a[k] = w[k + 1]
    BY <1>1, HeadTailProperties
  <1>4. Range(a) = {a[k] : k \in 1..(Len(w) - 1)} /\ DOMAIN a = 1..(Len(w) - 1)
    BY <1>3, RangeEquality, LenProperties
  <1>5. \A k, l \in 1..Len(w) : w[k] = w[l] => k = l
    BY <1>2 DEF Lists, IsInjective
  <1>6. Head(w) \in S
    BY <1>1, <1>2 DEF Lists
  <1> HIDE DEF a
  <1>7. Range(a) = S \ {Head(w)}
    <2>1. ASSUME NEW x \in Range(a) PROVE x \in S /\ x # Head(w)
      <3>1. PICK k \in 1..(Len(w) - 1) : x = a[k]
        BY <1>4
      <3>2. x = w[k + 1] /\ k + 1 \in 1..Len(w) /\ k + 1 # 1 /\ 1 \in 1..Len(w)
        BY <1>2, <1>3, <3>1
      <3> QED
        BY <1>1, <1>2, <1>5, <3>2 DEF Lists
    <2>2. ASSUME NEW x \in S, x # Head(w) PROVE x \in Range(a)
      <3>1. PICK k \in 1..Len(w) : x = w[k]
        BY <1>1 DEF Lists
      <3>2. k # 1
        BY <1>2, <2>2, <3>1
      <3>3. k - 1 \in 1..(Len(w) - 1) /\ a[k - 1] = w[k]
        BY <1>2, <1>3, <3>2
      <3> QED
        BY <1>4, <3>1, <3>3
    <2> QED
      BY <2>1, <2>2
  <1>8. IsInjective(a)
    <2> SUFFICES ASSUME NEW i \in DOMAIN a, NEW j \in DOMAIN a, a[i] = a[j]
                 PROVE  i = j
      BY DEF IsInjective
    <2> QED
      BY <1>2, <1>3, <1>4, <1>5
  <1> QED
    BY <1>3, <1>6, <1>7, <1>8 DEF Lists, a

\* A list is empty when it lists nobody.
LEMMA ListEmpty ==
  /\ Lists(<<>>, {})
  /\ \A w, S : Lists(w, S) => (w = <<>> <=> S = {})
  <1>1. <<>> \in Seq(Tasks) /\ DOMAIN <<>> = {}
    BY EmptySeq
  <1>2. Range(<<>>) = {} /\ IsInjective(<<>>)
    BY <1>1 DEF Range, IsInjective
  <1>3. ASSUME NEW w, NEW S, Lists(w, S), w # <<>>
        PROVE  S # {}
    BY <1>3, ListTail
  <1> QED
    BY <1>1, <1>2, <1>3 DEF Lists

\* A list is as long as the set it lists.
LEMMA ListLen ==
  ASSUME NEW w, NEW S, Lists(w, S)
  PROVE  Len(w) = Cardinality(S) /\ IsFiniteSet(S)
         /\ S = {w[k] : k \in 1..Len(w)}
  <1>1. w \in Seq(Tasks) /\ Range(w) = {w[k] : k \in 1..Len(w)}
    BY RangeEquality DEF Lists
  <1>2. Len(w) \in Nat /\ w \in [1..Len(w) -> S] /\ DOMAIN w = 1..Len(w)
    BY <1>1, LenProperties DEF Lists
  <1>3. w \in Bijection(1..Len(w), S)
    BY <1>1, <1>2 DEF Lists, Bijection, Injection, Surjection, IsInjective
  <1>4. IsFiniteSet(1..Len(w)) /\ Cardinality(1..Len(w)) = Len(w)
    BY <1>2, FS_Interval
  <1> QED
    BY <1>1, <1>3, <1>4, FS_Bijection DEF ExistsBijection, Lists

----------------------------------------------------------------------------
\* The state of the tasks

\* ListsMatch, list by list.
Match ==
  /\ Lists(waiting, Suspended("qlock")) /\ Lists(sleepers, Suspended("sleep"))
  /\ Lists(rwaiting, Suspended("rlock")) /\ Lists(wwaiting, Suspended("wlock"))

LEMMA MatchIsListsMatch ==
  TypeOK => (Match <=> ListsMatch)
  BY DEF TypeOK, Match, ListsMatch, Lists

\* There are finitely many tasks in a call.
LEMMA GrantedFinite ==
  ASSUME NEW call, NEW held
  PROVE  /\ IsFiniteSet(Granted(call, held)) /\ Granted(call, held) \subseteq Tasks
         /\ Cardinality(Granted(call, held)) \in Nat
         /\ Cardinality(Granted(call, held)) = 0 <=> Granted(call, held) = {}
  <1>1. Granted(call, held) \subseteq Tasks
    BY DEF Granted
  <1>2. IsFiniteSet(Granted(call, held))
    BY <1>1, LocksAssumption, FS_Subset
  <1> QED
    BY <1>1, <1>2, FS_CardinalityType, FS_EmptySet

\* The initial states satisfy the inductive invariant.
LEMMA InitIInv == Init => IInv
  <1> SUFFICES ASSUME Init PROVE IInv
    OBVIOUS
  <1>1. TypeOK
    BY EmptySeq DEF Init, TypeOK, Calls
  <1>2. /\ \A c \in Calls : Suspended(c) = {}
        /\ \A c \in Calls, h \in Holds : Granted(c, h) = {}
    BY DEF Init, Suspended, Granted, Calls, Holds
  <1>3. Match
    BY <1>2, ListEmpty DEF Init, Match, Calls
  <1>4. Exclusive
    BY <1>2, FS_EmptySet, LocksAssumption DEF Init, Exclusive, Calls, Holds
  <1>5. NobodyWaitsForFree
    BY DEF Init, NobodyWaitsForFree
  <1> QED
    BY <1>1, <1>3, <1>4, <1>5, MatchIsListsMatch DEF IInv

\* _qlock takes the lock when it is free and queues its caller otherwise.  The
\* caller is in neither of the lists of the mutex.
LEMMA AcquireStep ==
  ASSUME IInv, NEW t \in Tasks, acquire(t), UNCHANGED <<sleepers, rwVars>>,
         \/ pc[t] = "none" /\ ready' = ready
         \/ pc[t] = "sleep" /\ t \in ready /\ ready' = ready \ {t}
  PROVE  IInv'
  <1> USE DEF IInv, rwVars
  <1>1. TypeOK'
    <2>1. waiting' \in Seq(Tasks) /\ owner' \in Tasks \cup {NoTask}
      <3>1. waiting \in Seq(Tasks) /\ owner \in Tasks \cup {NoTask}
        BY DEF TypeOK
      <3>2. Append(waiting, t) \in Seq(Tasks)
        BY <3>1, AppendProperties
      <3> QED
        BY <3>1, <3>2 DEF acquire
    <2>2. pc' \in [Tasks -> Calls \cup {"none", "locked", "reading", "writing"}]
      BY DEF TypeOK, acquire, Calls
    <2>3. \A u \in ready' : pc'[u] \in Calls
      BY DEF TypeOK, acquire, Calls
    <2> QED
      BY <2>1, <2>2, <2>3 DEF TypeOK
  <1>2. /\ Granted("rlock", "reading")' = Granted("rlock", "reading")
        /\ Granted("wlock", "writing")' = Granted("wlock", "writing")
        /\ Suspended("sleep")' = Suspended("sleep")
        /\ Suspended("rlock")' = Suspended("rlock")
        /\ Suspended("wlock")' = Suspended("wlock")
    BY DEF acquire, Granted, Suspended, TypeOK
  <1>3. CASE owner = NoTask
    <2>1. owner' = t /\ waiting' = waiting /\ pc' = [pc EXCEPT ![t] = "locked"]
      BY <1>3 DEF acquire
    <2>2. /\ Granted("qlock", "locked")' = Granted("qlock", "locked") \cup {t}
          /\ Suspended("qlock")' = Suspended("qlock")
      BY <2>1 DEF Granted, Suspended, TypeOK
    <2>3. Match'
      BY <1>2, <2>1, <2>2, MatchIsListsMatch DEF Match
    <2>4. Exclusive'
      BY <1>2, <1>3, <2>1, <2>2, LocksAssumption DEF Exclusive, TypeOK
    <2>5. NobodyWaitsForFree'
      BY <2>1, LocksAssumption DEF NobodyWaitsForFree
    <2> QED
      BY <1>1, <2>3, <2>4, <2>5, MatchIsListsMatch, PTL
  <1>4. CASE owner # NoTask
    <2>1. /\ owner' = owner /\ waiting' = Append(waiting, t)
          /\ pc' = [pc EXCEPT ![t] = "qlock"]
      BY <1>4 DEF acquire
    <2>2. /\ Granted("qlock", "locked")' = Granted("qlock", "locked")
          /\ Suspended("qlock")' = Suspended("qlock") \cup {t}
          /\ t \notin Suspended("qlock")
      BY <2>1 DEF Granted, Suspended, TypeOK, Calls
    <2>3. Match'
      BY <1>2, <2>1, <2>2, MatchIsListsMatch, ListAppend DEF Match
    <2>4. Exclusive'
      BY <1>2, <2>1, <2>2 DEF Exclusive
    <2>5. NobodyWaitsForFree'
      BY <1>4, <2>1 DEF NobodyWaitsForFree
    <2> QED
      BY <1>1, <2>3, <2>4, <2>5, MatchIsListsMatch, PTL
  <1> QED
    BY <1>3, <1>4

\* qunlock and tasksleep give the lock to the first in line, which had not been
\* readied.
LEMMA ReleaseStep ==
  ASSUME IInv, NEW t \in Tasks, pc[t] = "locked", release,
         UNCHANGED rwVars,
         \/ pc' = [pc EXCEPT ![t] = "none"] /\ sleepers' = sleepers
         \/ pc' = [pc EXCEPT ![t] = "sleep"] /\ sleepers' = Append(sleepers, t)
  PROVE  IInv'
  <1> USE DEF IInv, rwVars
  <1> DEFINE h == Head(waiting)
  <1>1. /\ Match /\ t \notin ready /\ owner = t
        /\ Suspended("sleep")' = Suspended("sleep") \cup (IF pc'[t] = "sleep" THEN {t} ELSE {})
        /\ t \notin Suspended("sleep")
    <2>1. t \notin ready
      BY DEF TypeOK, Calls
    <2>2. owner = t
      BY DEF Exclusive, Granted
    <2>3. \A u \in Suspended("qlock") : pc[u] = "qlock"
      BY DEF Suspended
    <2>4. waiting # <<>> => h \in Suspended("qlock")
      BY MatchIsListsMatch, ListTail DEF Match
    <2>5. waiting # <<>> => pc[h] = "qlock" /\ h \notin ready
      BY <2>4 DEF Suspended
    <2>6. Suspended("sleep")' = Suspended("sleep") \cup (IF pc'[t] = "sleep" THEN {t} ELSE {})
      BY <2>1, <2>5 DEF Suspended, release, TypeOK
    <2> QED
      BY <2>1, <2>2, <2>6, MatchIsListsMatch DEF Suspended
  <1>2. Lists(sleepers, Suspended("sleep"))'
    <2>1. CASE sleepers' = sleepers /\ pc' = [pc EXCEPT ![t] = "none"]
      <3>1. pc'[t] = "none"
        BY <2>1 DEF TypeOK
      <3> QED
        BY <1>1, <2>1, <3>1 DEF Match
    <2>2. CASE sleepers' = Append(sleepers, t) /\ pc' = [pc EXCEPT ![t] = "sleep"]
      <3>1. pc'[t] = "sleep"
        BY <2>2 DEF TypeOK
      <3> QED
        BY <1>1, <2>2, <3>1, ListAppend DEF Match
    <2> QED
      BY <2>1, <2>2
  <1>3. CASE waiting = <<>>
    <2>1. owner' = NoTask /\ waiting' = waiting /\ ready' = ready
      BY <1>3 DEF release
    <2>2. /\ Granted("qlock", "locked")' = Granted("qlock", "locked") \ {t}
          /\ Granted("rlock", "reading")' = Granted("rlock", "reading")
          /\ Granted("wlock", "writing")' = Granted("wlock", "writing")
          /\ \A c \in {"qlock", "rlock", "wlock"} : Suspended(c)' = Suspended(c)
      BY <1>1, <2>1 DEF Granted, Suspended, TypeOK
    <2>3. Match'
      BY <1>1, <1>2, <2>1, <2>2 DEF Match
    <2>4. Exclusive'
      BY <1>1, <2>1, <2>2, LocksAssumption DEF Exclusive
    <2>5. TypeOK'
      <3>1. sleepers' \in Seq(Tasks)
        BY <1>2 DEF Lists
      <3>2. /\ pc' \in [Tasks -> Calls \cup {"none", "locked", "reading", "writing"}]
            /\ \A u \in ready' : pc'[u] \in Calls
        BY <1>1, <2>1 DEF TypeOK, Calls
      <3> QED
        BY <2>1, <3>1, <3>2 DEF TypeOK
    <2>6. NobodyWaitsForFree'
      BY <1>3, <2>1 DEF NobodyWaitsForFree
    <2> QED
      BY <2>3, <2>4, <2>5, <2>6, MatchIsListsMatch, PTL
  <1>4. CASE waiting # <<>>
    <2>1. owner' = h /\ waiting' = Tail(waiting) /\ ready' = ready \cup {h}
      BY <1>4 DEF release
    <2>2. /\ h \in Tasks /\ h \in Suspended("qlock")
          /\ Lists(Tail(waiting), Suspended("qlock") \ {h})
      BY <1>1, <1>4, ListTail DEF Match
    <2>3. pc[h] = "qlock" /\ h \notin ready /\ h # t
      BY <2>2 DEF Suspended
    <2> HIDE DEF h
    <2>4. /\ Granted("qlock", "locked")' = (Granted("qlock", "locked") \ {t}) \cup {h}
          /\ Granted("rlock", "reading")' = Granted("rlock", "reading")
          /\ Granted("wlock", "writing")' = Granted("wlock", "writing")
          /\ \A c \in {"rlock", "wlock"} : Suspended(c)' = Suspended(c)
          /\ Suspended("qlock")' = Suspended("qlock") \ {h}
      BY <1>1, <2>1, <2>2, <2>3 DEF Granted, Suspended, TypeOK
    <2>5. Match'
      BY <1>1, <1>2, <2>1, <2>2, <2>4 DEF Match
    <2>6. Exclusive'
      BY <1>1, <2>1, <2>2, <2>4, LocksAssumption DEF Exclusive
    <2>7. TypeOK'
      <3>1. sleepers' \in Seq(Tasks) /\ waiting' \in Seq(Tasks)
        BY <2>5 DEF Match, Lists
      <3>2. pc' \in [Tasks -> Calls \cup {"none", "locked", "reading", "writing"}]
        BY DEF TypeOK, Calls
      <3>3. \A u \in ready' : pc'[u] \in Calls
        BY <1>1, <2>1, <2>2, <2>3 DEF TypeOK, Calls
      <3> QED
        BY <2>1, <2>2, <3>1, <3>2, <3>3 DEF TypeOK
    <2>8. NobodyWaitsForFree'
      BY <2>1, <2>2, LocksAssumption DEF NobodyWaitsForFree
    <2> QED
      BY <2>5, <2>6, <2>7, <2>8, MatchIsListsMatch, PTL
  <1> QED
    BY <1>3, <1>4

\* taskwakeup readies the first sleeper, or all of them.
LEMMA WakeStep ==
  ASSUME IInv, NEW t \in Tasks, taskwakeup(t)
  PROVE  IInv'
  <1> USE DEF IInv, qVars, rwVars
  <1>1. Match /\ sleepers # <<>> /\ UNCHANGED <<qVars, rwVars, pc>>
    BY MatchIsListsMatch DEF taskwakeup
  <1>2. PICK W \in SUBSET Suspended("sleep") :
          ready' = ready \cup W /\ Lists(sleepers', Suspended("sleep") \ W)
    <2>1. CASE sleepers' = Tail(sleepers) /\ ready' = ready \cup {Head(sleepers)}
      <3>1. /\ Head(sleepers) \in Suspended("sleep")
            /\ Lists(sleepers', Suspended("sleep") \ {Head(sleepers)})
        BY <1>1, <2>1, ListTail DEF Match
      <3>2. {Head(sleepers)} \in SUBSET Suspended("sleep")
        BY <3>1
      <3> QED
        BY <2>1, <3>1, <3>2, Zenon
    <2>2. CASE sleepers' = <<>> /\ ready' = ready \cup Range(sleepers)
      <3>1. Range(sleepers) = Suspended("sleep")
        BY <1>1 DEF Match, Lists
      <3>2. Suspended("sleep") \ Range(sleepers) = {}
        BY <3>1
      <3>3. Lists(sleepers', Suspended("sleep") \ Range(sleepers))
        BY <2>2, <3>2, ListEmpty, Zenon
      <3>4. Range(sleepers) \in SUBSET Suspended("sleep")
        BY <3>1
      <3> QED
        BY <2>2, <3>3, <3>4, Zenon
    <2> QED
      BY <2>1, <2>2 DEF taskwakeup
  <1>3. /\ \A u \in W : u \in Tasks /\ pc[u] = "sleep"
        /\ Suspended("sleep")' = Suspended("sleep") \ W
    BY <1>1, <1>2 DEF Suspended
  <1>4. /\ Granted("qlock", "locked")' = Granted("qlock", "locked")
        /\ Granted("rlock", "reading")' = Granted("rlock", "reading")
        /\ Granted("wlock", "writing")' = Granted("wlock", "writing")
        /\ \A c \in {"qlock", "rlock", "wlock"} : Suspended(c)' = Suspended(c)
    BY <1>1, <1>2, <1>3 DEF Granted, Suspended
  <1>5. Match'
    BY <1>1, <1>2, <1>3, <1>4 DEF Match
  <1>6. TypeOK'
    <2>1. sleepers' \in Seq(Tasks)
      BY <1>2 DEF Lists
    <2>2. ready' \subseteq Tasks /\ \A u \in ready' : pc'[u] \in Calls
      BY <1>1, <1>2, <1>3 DEF TypeOK, Calls
    <2> QED
      BY <1>1, <2>1, <2>2 DEF TypeOK
  <1>7. Exclusive' /\ NobodyWaitsForFree'
    BY <1>1, <1>4 DEF Exclusive, NobodyWaitsForFree
  <1> QED
    BY <1>5, <1>6, <1>7, MatchIsListsMatch, PTL

\* A task that was handed a lock goes on with it.
LEMMA HandedStep ==
  ASSUME IInv, NEW t \in Tasks, t \in ready,
         NEW call, NEW held,
         <<call, held>> \in
           {<<"qlock", "locked">>, <<"rlock", "reading">>, <<"wlock", "writing">>},
         pc[t] = call, pc' = [pc EXCEPT ![t] = held], ready' = ready \ {t},
         UNCHANGED <<qVars, sleepers, rwVars>>
  PROVE  IInv'
  <1> USE DEF IInv, qVars, rwVars
  <1>1. \/ call = "qlock" /\ held = "locked"
        \/ call = "rlock" /\ held = "reading"
        \/ call = "wlock" /\ held = "writing"
    OBVIOUS
  <1>2. /\ Granted("qlock", "locked")' = Granted("qlock", "locked")
        /\ Granted("rlock", "reading")' = Granted("rlock", "reading")
        /\ Granted("wlock", "writing")' = Granted("wlock", "writing")
        /\ \A c \in Calls : Suspended(c)' = Suspended(c)
    BY <1>1 DEF Granted, Suspended, TypeOK, Calls
  <1>3. Match'
    BY <1>2, MatchIsListsMatch DEF Match, Calls
  <1>4. TypeOK'
    <2>1. pc' \in [Tasks -> Calls \cup {"none", "locked", "reading", "writing"}]
      BY <1>1 DEF TypeOK, Calls
    <2>2. ready' \subseteq Tasks /\ \A u \in ready' : pc'[u] \in Calls
      BY <1>1 DEF TypeOK, Calls
    <2> QED
      BY <2>1, <2>2 DEF TypeOK
  <1>5. Exclusive' /\ NobodyWaitsForFree'
    BY <1>2 DEF Exclusive, NobodyWaitsForFree
  <1> QED
    BY <1>3, <1>4, <1>5, MatchIsListsMatch, PTL

\* _rlock: a reader comes in or is queued.
LEMMA RlockStep ==
  ASSUME IInv, NEW t \in Tasks, rlock(t)
  PROVE  IInv'
  <1> USE DEF IInv, qVars
  <1>1. /\ Match /\ pc[t] = "none" /\ t \notin ready
        /\ UNCHANGED <<qVars, sleepers, writer, wwaiting, ready>>
    BY MatchIsListsMatch DEF rlock, TypeOK, Calls
  <1>2. CASE writer = NoTask /\ wwaiting = <<>>
    <2>1. /\ readers' = readers + 1 /\ pc' = [pc EXCEPT ![t] = "reading"]
          /\ rwaiting' = rwaiting
      BY <1>2 DEF rlock, readersEnter
    <2>2. /\ Granted("rlock", "reading")' = Granted("rlock", "reading") \cup {t}
          /\ t \notin Granted("rlock", "reading")
          /\ Granted("qlock", "locked")' = Granted("qlock", "locked")
          /\ Granted("wlock", "writing")' = Granted("wlock", "writing")
          /\ \A c \in Calls : Suspended(c)' = Suspended(c)
      BY <1>1, <2>1 DEF Granted, Suspended, TypeOK, Calls
    <2>3. Match'
      BY <1>1, <2>1, <2>2 DEF Match, Calls
    <2>4. TypeOK'
      BY <1>1, <2>1 DEF TypeOK, Calls
    <2>5. Cardinality(Granted("rlock", "reading") \cup {t})
            = Cardinality(Granted("rlock", "reading")) + 1
      BY <2>2, GrantedFinite, FS_AddElement
    <2>6. Exclusive'
      BY <1>1, <1>2, <2>1, <2>2, <2>5 DEF Exclusive
    <2>7. NobodyWaitsForFree'
      BY <1>1, <1>2, <2>1 DEF NobodyWaitsForFree
    <2> QED
      BY <2>3, <2>4, <2>6, <2>7, MatchIsListsMatch, PTL
  <1>3. CASE ~(writer = NoTask /\ wwaiting = <<>>)
    <2>1. /\ rwaiting' = Append(rwaiting, t) /\ pc' = [pc EXCEPT ![t] = "rlock"]
          /\ readers' = readers
      BY <1>3 DEF rlock, readersEnter
    <2>2. /\ Granted("rlock", "reading")' = Granted("rlock", "reading")
          /\ Granted("qlock", "locked")' = Granted("qlock", "locked")
          /\ Granted("wlock", "writing")' = Granted("wlock", "writing")
          /\ \A c \in {"qlock", "sleep", "wlock"} : Suspended(c)' = Suspended(c)
          /\ Suspended("rlock")' = Suspended("rlock") \cup {t}
          /\ t \notin Suspended("rlock")
      BY <1>1, <2>1 DEF Granted, Suspended, TypeOK, Calls
    <2>3. Match'
      BY <1>1, <2>1, <2>2, ListAppend DEF Match
    <2>4. TypeOK'
      <3>1. rwaiting' \in Seq(Tasks)
        BY <2>3 DEF Match, Lists
      <3>2. pc' \in [Tasks -> Calls \cup {"none", "locked", "reading", "writing"}]
        BY <2>1 DEF TypeOK, Calls
      <3>3. \A u \in ready' : pc'[u] \in Calls
        BY <1>1, <2>1 DEF TypeOK, Calls
      <3> QED
        BY <1>1, <2>1, <3>1, <3>2, <3>3 DEF TypeOK
    <2>5. Exclusive'
      BY <1>1, <2>1, <2>2 DEF Exclusive
    <2>6. NobodyWaitsForFree'
      BY <1>1, <1>3, <2>1 DEF NobodyWaitsForFree
    <2> QED
      BY <2>3, <2>4, <2>5, <2>6, MatchIsListsMatch, PTL
  <1> QED
    BY <1>2, <1>3

\* _wlock: a writer comes in or is queued.
LEMMA WlockStep ==
  ASSUME IInv, NEW t \in Tasks, wlock(t)
  PROVE  IInv'
  <1> USE DEF IInv, qVars
  <1>1. /\ Match /\ pc[t] = "none" /\ t \notin ready
        /\ UNCHANGED <<qVars, sleepers, readers, rwaiting, ready>>
    BY MatchIsListsMatch DEF wlock, TypeOK, Calls
  <1>2. CASE writer = NoTask /\ readers = 0
    <2>1. /\ writer' = t /\ pc' = [pc EXCEPT ![t] = "writing"]
          /\ wwaiting' = wwaiting
      BY <1>2 DEF wlock
    <2>2. /\ Granted("wlock", "writing")' = Granted("wlock", "writing") \cup {t}
          /\ Granted("qlock", "locked")' = Granted("qlock", "locked")
          /\ Granted("rlock", "reading")' = Granted("rlock", "reading")
          /\ \A c \in Calls : Suspended(c)' = Suspended(c)
      BY <1>1, <2>1 DEF Granted, Suspended, TypeOK, Calls
    <2>3. Match'
      BY <1>1, <2>1, <2>2 DEF Match, Calls
    <2>4. TypeOK'
      BY <1>1, <2>1 DEF TypeOK, Calls
    <2>5. Exclusive'
      BY <1>1, <1>2, <2>1, <2>2, LocksAssumption DEF Exclusive
    <2>6. NobodyWaitsForFree'
      BY <1>1, <2>1, LocksAssumption DEF NobodyWaitsForFree
    <2> QED
      BY <2>3, <2>4, <2>5, <2>6, MatchIsListsMatch, PTL
  <1>3. CASE ~(writer = NoTask /\ readers = 0)
    <2>1. /\ wwaiting' = Append(wwaiting, t) /\ pc' = [pc EXCEPT ![t] = "wlock"]
          /\ writer' = writer
      BY <1>3 DEF wlock
    <2>2. /\ Granted("rlock", "reading")' = Granted("rlock", "reading")
          /\ Granted("qlock", "locked")' = Granted("qlock", "locked")
          /\ Granted("wlock", "writing")' = Granted("wlock", "writing")
          /\ \A c \in {"qlock", "sleep", "rlock"} : Suspended(c)' = Suspended(c)
          /\ Suspended("wlock")' = Suspended("wlock") \cup {t}
          /\ t \notin Suspended("wlock")
      BY <1>1, <2>1 DEF Granted, Suspended, TypeOK, Calls
    <2>3. Lists(wwaiting, Suspended("wlock"))' /\ wwaiting' # <<>>
      BY <1>1, <2>1, <2>2, ListAppend DEF Match
    <2>4. Match'
      BY <1>1, <2>1, <2>2, <2>3 DEF Match
    <2>5. TypeOK'
      <3>1. wwaiting' \in Seq(Tasks)
        BY <2>3 DEF Lists
      <3>2. pc' \in [Tasks -> Calls \cup {"none", "locked", "reading", "writing"}]
        BY <2>1 DEF TypeOK, Calls
      <3>3. \A u \in ready' : pc'[u] \in Calls
        BY <1>1, <2>1 DEF TypeOK, Calls
      <3> QED
        BY <1>1, <2>1, <3>1, <3>2, <3>3 DEF TypeOK
    <2>6. Exclusive'
      BY <1>1, <2>1, <2>2 DEF Exclusive
    <2>7. NobodyWaitsForFree'
      <3>1. readers \in Nat
        BY DEF TypeOK
      <3> QED
        BY <1>1, <1>3, <2>1, <2>3, <3>1 DEF NobodyWaitsForFree
    <2> QED
      BY <2>4, <2>5, <2>6, <2>7, MatchIsListsMatch, PTL
  <1> QED
    BY <1>2, <1>3

\* A task t leaves the RWLock and the readers R and the writers W are readied.
LEMMA LeaveSets ==
  ASSUME TypeOK, NEW t \in Tasks, pc[t] \in {"reading", "writing"},
         NEW R \in SUBSET Suspended("rlock"), NEW W \in SUBSET Suspended("wlock"),
         pc' = [pc EXCEPT ![t] = "none"], ready' = (ready \cup R) \cup W
  PROVE  /\ Granted("qlock", "locked")' = Granted("qlock", "locked")
         /\ Granted("rlock", "reading")' = (Granted("rlock", "reading") \ {t}) \cup R
         /\ Granted("wlock", "writing")' = (Granted("wlock", "writing") \ {t}) \cup W
         /\ \A c \in {"qlock", "sleep"} : Suspended(c)' = Suspended(c)
         /\ Suspended("rlock")' = Suspended("rlock") \ R
         /\ Suspended("wlock")' = Suspended("wlock") \ W
         /\ pc' \in [Tasks -> Calls \cup {"none", "locked", "reading", "writing"}]
         /\ ready' \subseteq Tasks /\ \A u \in ready' : pc'[u] \in Calls
  <1>1. /\ \A u \in R : u \in Tasks /\ u # t /\ pc[u] = "rlock"
        /\ \A u \in W : u \in Tasks /\ u # t /\ pc[u] = "wlock"
        /\ t \notin ready
    BY DEF Suspended, TypeOK, Calls
  <1>2. pc' \in [Tasks -> Calls \cup {"none", "locked", "reading", "writing"}]
    BY DEF TypeOK, Calls
  <1>3. \A u \in Tasks : pc'[u] = IF u = t THEN "none" ELSE pc[u]
    BY DEF TypeOK
  <1>4. ready' \subseteq Tasks /\ \A u \in ready' : pc'[u] \in Calls
    BY <1>1, <1>3 DEF TypeOK, Calls
  <1> QED
    BY <1>1, <1>2, <1>3, <1>4 DEF Granted, Suspended

\* The writer in front gets the lock when no reader has it.
LEMMA GrantWriter ==
  ASSUME TypeOK, Match, NEW R, grantWriter(R)
  PROVE  \E W \in SUBSET Suspended("wlock") :
           /\ ready' = (ready \cup R) \cup W
           /\ Lists(wwaiting', Suspended("wlock") \ W)
           /\ \/ W = {} /\ writer' = NoTask /\ wwaiting' = wwaiting
                 /\ (readers' = 0 => wwaiting = <<>>)
              \/ W = {writer'} /\ writer' \in Tasks /\ readers' = 0
  <1>1. CASE readers' = 0 /\ wwaiting # <<>>
    <2>1. /\ writer' = Head(wwaiting) /\ wwaiting' = Tail(wwaiting)
          /\ ready' = (ready \cup R) \cup {writer'}
      BY <1>1 DEF grantWriter
    <2>2. /\ writer' \in Suspended("wlock") /\ writer' \in Tasks
          /\ Lists(wwaiting', Suspended("wlock") \ {writer'})
      BY <1>1, <2>1, ListTail DEF Match
    <2>3. {writer'} \in SUBSET Suspended("wlock")
      BY <2>2
    <2> QED
      BY <1>1, <2>1, <2>2, <2>3, Zenon
  <1>2. CASE ~(readers' = 0 /\ wwaiting # <<>>)
    <2>1. writer' = NoTask /\ wwaiting' = wwaiting /\ ready' = (ready \cup R) \cup {}
      BY <1>2 DEF grantWriter
    <2>2. Lists(wwaiting', Suspended("wlock") \ {})
      BY <2>1 DEF Match
    <2> QED
      BY <1>2, <2>1, <2>2
  <1> QED
    BY <1>1, <1>2

\* runlock: the last reader lets a writer in.
LEMMA RunlockStep ==
  ASSUME IInv, NEW t \in Tasks, runlock(t)
  PROVE  IInv'
  <1> USE DEF IInv, qVars
  <1> DEFINE reading == Granted("rlock", "reading")
  <1>1. /\ Match /\ pc[t] = "reading" /\ pc' = [pc EXCEPT ![t] = "none"]
        /\ readers' = readers - 1
        /\ UNCHANGED <<qVars, sleepers, rwaiting>>
    BY MatchIsListsMatch DEF runlock
  <1>2. t \in reading
    BY <1>1 DEF Granted
  <1>3. /\ readers' = Cardinality(reading \ {t}) /\ readers \in Nat \ {0}
        /\ readers' \in Nat /\ writer = NoTask
    <2>1. Cardinality(reading \ {t}) = Cardinality(reading) - 1
      BY <1>2, GrantedFinite, FS_RemoveElement
    <2>2. readers = Cardinality(reading) /\ readers \in Nat /\ readers # 0
      BY <1>2, GrantedFinite DEF Exclusive
    <2> QED
      BY <1>1, <2>1, <2>2 DEF Exclusive
  <1>4. PICK W \in SUBSET Suspended("wlock") :
          /\ ready' = (ready \cup {}) \cup W
          /\ Lists(wwaiting', Suspended("wlock") \ W)
          /\ \/ W = {} /\ writer' = NoTask /\ wwaiting' = wwaiting
                /\ (readers' = 0 => wwaiting = <<>>)
             \/ W = {writer'} /\ writer' \in Tasks /\ readers' = 0
    <2>1. CASE readers' = 0
      <3>1. grantWriter({})
        BY <2>1 DEF runlock
      <3> QED
        BY <1>1, <3>1, GrantWriter, Zenon
    <2>2. CASE readers' # 0
      <3>1. writer' = NoTask /\ wwaiting' = wwaiting /\ ready' = (ready \cup {}) \cup {}
        BY <1>3, <2>2 DEF runlock
      <3>2. Lists(wwaiting', Suspended("wlock") \ {})
        BY <1>1, <3>1 DEF Match
      <3> QED
        BY <2>2, <3>1, <3>2
    <2> QED
      BY <2>1, <2>2
  <1>5. {} \in SUBSET Suspended("rlock")
    OBVIOUS
  <1>6. /\ Granted("qlock", "locked")' = Granted("qlock", "locked")
        /\ Granted("rlock", "reading")' = reading \ {t}
        /\ Granted("wlock", "writing")' = (Granted("wlock", "writing") \ {t}) \cup W
        /\ \A c \in {"qlock", "sleep"} : Suspended(c)' = Suspended(c)
        /\ Suspended("rlock")' = Suspended("rlock")
        /\ Suspended("wlock")' = Suspended("wlock") \ W
        /\ pc' \in [Tasks -> Calls \cup {"none", "locked", "reading", "writing"}]
        /\ ready' \subseteq Tasks /\ \A u \in ready' : pc'[u] \in Calls
    <2>1. pc[t] \in {"reading", "writing"}
      BY <1>1
    <2>2. /\ Granted("rlock", "reading")' = (reading \ {t}) \cup {}
          /\ Suspended("rlock")' = Suspended("rlock") \ {}
          /\ Granted("qlock", "locked")' = Granted("qlock", "locked")
          /\ Granted("wlock", "writing")' = (Granted("wlock", "writing") \ {t}) \cup W
          /\ \A c \in {"qlock", "sleep"} : Suspended(c)' = Suspended(c)
          /\ Suspended("wlock")' = Suspended("wlock") \ W
          /\ pc' \in [Tasks -> Calls \cup {"none", "locked", "reading", "writing"}]
          /\ ready' \subseteq Tasks /\ \A u \in ready' : pc'[u] \in Calls
      BY <1>1, <1>4, <1>5, <2>1, LeaveSets, Zenon
    <2> HIDE DEF reading
    <2> QED
      BY <2>2
  <1>7. Match'
    BY <1>1, <1>4, <1>6 DEF Match
  <1>8. TypeOK'
    <2>1. wwaiting' \in Seq(Tasks)
      BY <1>4 DEF Lists
    <2>2. writer' \in Tasks \cup {NoTask}
      BY <1>4
    <2> QED
      BY <1>1, <1>3, <1>6, <2>1, <2>2 DEF TypeOK
  <1>9. Exclusive'
    <2>1. Granted("wlock", "writing") = {}
      BY <1>3, LocksAssumption DEF Exclusive, Granted
    <2>2. \A u \in Tasks : u \in Granted("wlock", "writing")' <=> writer' = u
      BY <1>4, <1>6, <2>1, LocksAssumption
    <2>3. \A u \in Tasks : u \in Granted("qlock", "locked")' <=> owner' = u
      BY <1>1, <1>6 DEF Exclusive
    <2>4. readers' = Cardinality(Granted("rlock", "reading")')
      BY <1>3, <1>6
    <2>5. writer' # NoTask => readers' = 0
      BY <1>4
    <2> QED
      BY <2>2, <2>3, <2>4, <2>5 DEF Exclusive
  <1>10. NobodyWaitsForFree'
    BY <1>1, <1>3, <1>4, LocksAssumption DEF NobodyWaitsForFree
  <1> QED
    BY <1>7, <1>8, <1>9, <1>10, MatchIsListsMatch, PTL

\* wunlock: the readers that wait come in, or else a writer.
LEMMA WunlockStep ==
  ASSUME IInv, NEW t \in Tasks, wunlock(t)
  PROVE  IInv'
  <1> USE DEF IInv, qVars
  <1> DEFINE R == Suspended("rlock")
  <1>1. /\ Match /\ pc[t] = "writing" /\ pc' = [pc EXCEPT ![t] = "none"]
        /\ readers' = readers + Len(rwaiting) /\ rwaiting' = <<>>
        /\ UNCHANGED <<qVars, sleepers>>
    BY MatchIsListsMatch DEF wunlock, grantReaders
  <1>2. writer = t /\ readers = 0 /\ Granted("rlock", "reading") = {}
    <2>1. writer = t
      BY <1>1 DEF Exclusive, Granted
    <2> QED
      BY <2>1, LocksAssumption, GrantedFinite DEF Exclusive
  <1>3. /\ readers' = Cardinality(R) /\ readers' \in Nat
        /\ R = {rwaiting[k] : k \in 1..(readers' - readers)}
        /\ (readers' = 0 <=> R = {})
    <2>1. Len(rwaiting) = Cardinality(R) /\ IsFiniteSet(R)
          /\ R = {rwaiting[k] : k \in 1..Len(rwaiting)}
      BY <1>1, ListLen DEF Match
    <2>2. Cardinality(R) \in Nat /\ (Cardinality(R) = 0 <=> R = {})
      BY <2>1, FS_CardinalityType, FS_EmptySet
    <2>3. readers' = Cardinality(R) /\ readers' - readers = Len(rwaiting)
      BY <1>1, <1>2, <2>1, <2>2
    <2> QED
      BY <2>1, <2>2, <2>3
  <1>4. PICK W \in SUBSET Suspended("wlock") :
          /\ ready' = (ready \cup R) \cup W
          /\ Lists(wwaiting', Suspended("wlock") \ W)
          /\ \/ W = {} /\ writer' = NoTask /\ wwaiting' = wwaiting
                /\ (readers' = 0 => wwaiting = <<>>)
             \/ W = {writer'} /\ writer' \in Tasks /\ readers' = 0
    <2>1. grantWriter(R)
      BY <1>3 DEF wunlock
    <2> HIDE DEF R
    <2> QED
      BY <1>1, <2>1, GrantWriter, Zenon
  <1>5. R \in SUBSET Suspended("rlock")
    OBVIOUS
  <1>6. /\ Granted("qlock", "locked")' = Granted("qlock", "locked")
        /\ Granted("rlock", "reading")' = (Granted("rlock", "reading") \ {t}) \cup R
        /\ Granted("wlock", "writing")' = (Granted("wlock", "writing") \ {t}) \cup W
        /\ \A c \in {"qlock", "sleep"} : Suspended(c)' = Suspended(c)
        /\ Suspended("rlock")' = Suspended("rlock") \ R
        /\ Suspended("wlock")' = Suspended("wlock") \ W
        /\ pc' \in [Tasks -> Calls \cup {"none", "locked", "reading", "writing"}]
        /\ ready' \subseteq Tasks /\ \A u \in ready' : pc'[u] \in Calls
    <2> HIDE DEF R
    <2> QED
      BY <1>1, <1>4, <1>5, LeaveSets
  <1>7. Match'
    <2>1. Suspended("rlock")' = {}
      BY <1>6
    <2> QED
      BY <1>1, <1>4, <1>6, <2>1, ListEmpty DEF Match
  <1>8. TypeOK'
    <2>1. wwaiting' \in Seq(Tasks) /\ rwaiting' \in Seq(Tasks)
      BY <1>4, <1>7 DEF Lists, Match
    <2>2. writer' \in Tasks \cup {NoTask}
      BY <1>4
    <2> QED
      BY <1>1, <1>3, <1>6, <2>1, <2>2 DEF TypeOK
  <1>9. Exclusive'
    <2>1. Granted("wlock", "writing") \ {t} = {}
      BY <1>2 DEF Exclusive, Granted
    <2>2. Granted("rlock", "reading")' = R
      BY <1>2, <1>6
    <2>3. \A u \in Tasks : u \in Granted("wlock", "writing")' <=> writer' = u
      BY <1>4, <1>6, <2>1, LocksAssumption
    <2>4. \A u \in Tasks : u \in Granted("qlock", "locked")' <=> owner' = u
      BY <1>1, <1>6 DEF Exclusive
    <2>5. writer' # NoTask => readers' = 0
      BY <1>4
    <2> QED
      BY <1>3, <2>2, <2>3, <2>4, <2>5 DEF Exclusive
  <1>10. NobodyWaitsForFree'
    <2>1. wwaiting' # <<>> => writer' # NoTask \/ readers' > 0
      BY <1>3, <1>4, LocksAssumption
    <2> QED
      BY <1>1, <2>1 DEF NobodyWaitsForFree
  <1> QED
    BY <1>7, <1>8, <1>9, <1>10, MatchIsListsMatch, PTL

----------------------------------------------------------------------------
\* Every step preserves the inductive invariant.
LEMMA NextIInv == IInv /\ [Next]_vars => IInv'
  <1> SUFFICES ASSUME IInv, [Next]_vars PROVE IInv'
    OBVIOUS
  <1>1. ASSUME NEW t \in Tasks, qlock(t) PROVE IInv'
    BY <1>1, AcquireStep DEF qlock
  <1>2. ASSUME NEW t \in Tasks, qunlock(t) PROVE IInv'
    BY <1>2, ReleaseStep DEF qunlock
  <1>3. ASSUME NEW t \in Tasks, tasksleep(t) PROVE IInv'
    BY <1>3, ReleaseStep DEF tasksleep
  <1>4. ASSUME NEW t \in Tasks, taskwakeup(t) PROVE IInv'
    BY <1>4, WakeStep
  <1>5. ASSUME NEW t \in Tasks, qresume(t) PROVE IInv'
    <2>1. CASE pc[t] = "qlock"
      BY <1>5, <2>1, HandedStep DEF qresume
    <2>2. CASE pc[t] = "sleep"
      BY <1>5, <2>2, AcquireStep DEF qresume
    <2> QED
      BY <1>5, <2>1, <2>2 DEF qresume
  <1>6. ASSUME NEW t \in Tasks, rlock(t) \/ runlock(t) PROVE IInv'
    BY <1>6, RlockStep, RunlockStep
  <1>7. ASSUME NEW t \in Tasks, wlock(t) \/ wunlock(t) PROVE IInv'
    BY <1>7, WlockStep, WunlockStep
  <1>8. ASSUME NEW t \in Tasks, rwresume(t) PROVE IInv'
    BY <1>8, HandedStep DEF rwresume
  <1>9. ASSUME UNCHANGED vars PROVE IInv'
    BY <1>9 DEF IInv, TypeOK, Exclusive, ListsMatch, NobodyWaitsForFree,
                vars, qVars, rwVars, Granted, Suspended
  <1> QED
    BY <1>1, <1>2, <1>3, <1>4, <1>5, <1>6, <1>7, <1>8, <1>9 DEF Next, Resume

\* The inductive invariant holds, for any number of tasks.
THEOREM LocksInvariant == Spec => []IInv
  BY InitIInv, NextIInv, PTL DEF Spec

\* Every variable keeps its type.
THEOREM LocksTypeCorrect == Spec => []TypeOK
  <1>1. IInv => TypeOK
    BY DEF IInv
  <1> QED
    BY <1>1, LocksInvariant, PTL

\* The locks exclude, and their fields name those who hold them: the aborts of
\* _qlock and wunlock are unreachable.
THEOREM LocksExclude == Spec => []Exclusive
  <1>1. IInv => Exclusive
    BY DEF IInv
  <1> QED
    BY <1>1, LocksInvariant, PTL

\* The lists hold exactly the tasks suspended in the calls, once each.
THEOREM WaitersAreListed == Spec => []ListsMatch
  <1>1. IInv => ListsMatch
    BY DEF IInv
  <1> QED
    BY <1>1, LocksInvariant, PTL

\* No waiter is left behind by a release.
THEOREM NoWaiterLeftBehind == Spec => []NobodyWaitsForFree
  <1>1. IInv => NobodyWaitsForFree
    BY DEF IInv
  <1> QED
    BY <1>1, LocksInvariant, PTL
=============================================================================
