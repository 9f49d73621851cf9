---------------------------- MODULE TimerProofs ----------------------------
(***************************************************************************)
(* Proofs about Timer: its alarm is never early and comes at most once, for *)
(* any times, any width of an int and any lateness of taskdelay.           *)
(***************************************************************************)
EXTENDS Timer, SequenceTheorems, WellFoundedInduction, TLAPS

\* A time of the list, as an int
Time == (-Half)..(Half - 1)

\* How long a time of the list keeps the task from its alarm at least: what is
\* below zero is taken for a number above INT_MAX when it comes first.
remains(v) == IF v >= 0 THEN v ELSE Half

Listed(times, e) == \E k \in 1..Len(times) : remains(times[k]) - e >= owed

Running == pc \in {"none", "ready", "sleep"}

\* While time is owed, a message or a time of the list stands for it.
Vouched ==
  Running =>
    \/ owed = 0
    \/ \E k \in 1..Len(chan) : chan[k] >= owed
    \/ Listed(t, elapsed)

\* The sleep is as long as the first time, which is there to be counted down.
Sleeping ==
  /\ pc = "sleep" => t # <<>> /\ left + elapsed = unsigned(Head(t))
  /\ pc \in {"none", "ready"} => t = <<>>

\* The task exits with its alarm.
OneAlarm == alarms <= 1 /\ (Running => alarms = 0)

TimerIInv ==
  /\ TypeOK
  /\ t \in Seq(Time)
  /\ owed < Half
  /\ pc = "none" => owed = 0
  /\ Sleeping
  /\ OneAlarm
  /\ Vouched

----------------------------------------------------------------------------
\* Numbers of a machine word.

LEMMA Divided ==
  ASSUME NEW m \in Int, NEW w \in Nat \ {0}
  PROVE  m % w \in 0..(w - 1) /\ m \div w \in Int /\ m = w * (m \div w) + (m % w)
OBVIOUS

LEMMA Signed ==
  ASSUME NEW n \in Int
  PROVE  /\ signed(n) \in Time
         /\ n \in Time => signed(n) = n
         /\ n < -Half /\ n >= -2 * Half => signed(n) = n + 2 * Half
<1> DEFINE m == n + Half
           W == 2 * Half
<1>1. Half \in Nat \ {0} /\ W \in Nat \ {0} /\ m \in Int
  BY TimerAssumption
<1> HIDE DEF m, W
<1>2. m % W \in 0..(W - 1) /\ m = W * (m \div W) + (m % W) /\ m \div W \in Int
  BY <1>1, Divided
<1>3. signed(n) = (m % W) - Half
  BY DEF signed, unsigned, m, W
<1> DEFINE q == m \div W
           r == m % W
<1>4. q \in Int /\ r \in 0..(W - 1) /\ m = W * q + r
  BY <1>2
<1> HIDE DEF q, r
<1>5. ASSUME n \in Time PROVE r = m
  <2>1. m \in 0..(W - 1)
    BY <1>1, <1>5 DEF Time, m, W
  <2> QED BY <1>1, <2>1 DEF r
<1>6. ASSUME n < -Half, n >= -2 * Half PROVE r = m + W
  <2>1. m + W \in 0..(W - 1) /\ m < 0 /\ m >= -W
    BY <1>1, <1>6 DEF m, W
  <2>2. q = -1
    <3>1. CASE q >= 0
      <4>1. W * q >= 0
        BY <1>1, <1>4, <3>1
      <4> QED BY <1>1, <1>4, <2>1, <4>1
    <3>2. CASE q <= -2
      <4>1. W * q <= W * (-2)
        BY <1>1, <1>4, <3>2
      <4> QED BY <1>1, <1>4, <2>1, <4>1
    <3> QED BY <1>4, <3>1, <3>2
  <2> QED BY <1>1, <1>4, <2>2
<1>7. signed(n) = r - Half
  BY <1>3 DEF r
<1> QED BY <1>1, <1>4, <1>5, <1>6, <1>7 DEF Time, m, W

LEMMA Unsigned ==
  ASSUME NEW v \in Time
  PROVE  unsigned(v) \in Nat /\ unsigned(v) >= remains(v)
<1>1. Half \in Nat \ {0} /\ 2 * Half \in Nat \ {0} /\ v \in Int
  BY TimerAssumption DEF Time
<1>2. v >= 0 => v % (2 * Half) = v
  BY <1>1 DEF Time
<1>3. CASE v < 0
  <2>1. signed(v - Half) = (v - Half) + 2 * Half
    <3>1. v - Half \in Int /\ v - Half < -Half /\ v - Half >= -2 * Half
      BY <1>1, <1>3 DEF Time
    <3> QED BY <3>1, Signed
  <2>2. signed(v - Half) = unsigned(v) - Half
    <3>1. (v - Half) + Half = v
      BY <1>1
    <3> QED BY <3>1 DEF signed
  <2>3. unsigned(v) \in Int
    BY <1>1 DEF unsigned
  <2>4. unsigned(v) = v + 2 * Half
    BY <1>1, <2>1, <2>2, <2>3
  <2> QED BY <1>1, <1>3, <2>4 DEF remains, Time
<1> QED BY <1>1, <1>2, <1>3 DEF remains, unsigned

----------------------------------------------------------------------------
\* Induction over the natural numbers, for a set of them.
LEMMA NatInduct ==
  ASSUME NEW S \in SUBSET Nat, 0 \in S, \A n \in S : n + 1 \in S
  PROVE  S = Nat
<1> SUFFICES ASSUME Nat \ S # {} PROVE FALSE
  OBVIOUS
<1> DEFINE R == OpToRel(<, Nat)
           C == Nat \ S
<1>1. IsWellFoundedOn(R, Nat)
  BY NatLessThanWellFounded
<1>2. \A x, y \in Nat : y < x => <<y, x>> \in R
  BY DEF OpToRel
<1> HIDE DEF R
<1>3. C \in SUBSET Nat /\ C # {}
  OBVIOUS
<1> HIDE DEF C
<1>4. PICK x \in C : \A y \in C : ~(<<y, x>> \in R)
  BY <1>1, <1>3, WFMin, Zenon
<1>5. x \in Nat /\ ~(x \in S)
  BY <1>4 DEF C
<1>6. x # 0 /\ x - 1 \in Nat /\ x - 1 < x
  BY <1>5
<1>7. x - 1 \in S
  BY <1>2, <1>4, <1>5, <1>6 DEF C
<1>8. (x - 1) + 1 \in S
  BY <1>7
<1> QED BY <1>5, <1>8

\* The pass visits the times one after the other.
Pass(f, times, e) ==
  f = [i \in 0..Len(times) |-> IF i = 0 THEN times ELSE visit(f[i - 1], i, e)]

LEMMA PassUnfolds ==
  ASSUME NEW times \in Seq(Time), NEW e \in Int
  PROVE  \E f : Pass(f, times, e) /\ pass(times, e) = f[Len(times)]
<1> DEFINE Upto(g, n) == g = [i \in 0..n |-> IF i = 0 THEN times ELSE visit(g[i - 1], i, e)]
           S == {n \in Nat : \E g : Upto(g, n)}
<1>1. 0 \in S
  <2> DEFINE g == [i \in 0..0 |-> times]
  <2>1. \A i \in 0..0 : i = 0
    OBVIOUS
  <2>2. Upto(g, 0)
    BY <2>1
  <2> QED BY <2>2
<1>2. ASSUME NEW n \in S PROVE n + 1 \in S
  <2>1. n \in Nat /\ n + 1 \in Nat
    OBVIOUS
  <2>2. PICK g : Upto(g, n)
    OBVIOUS
  <2> DEFINE h == [i \in 0..(n + 1) |-> IF i <= n THEN g[i] ELSE visit(g[n], n + 1, e)]
  <2>3. ASSUME NEW i \in 0..(n + 1)
        PROVE  h[i] = IF i = 0 THEN times ELSE visit(h[i - 1], i, e)
    <3>1. CASE i = 0
      BY <2>1, <2>2, <3>1
    <3>2. CASE i # 0 /\ i <= n
      <4>1. i \in 0..n /\ i - 1 \in 0..n /\ i - 1 \in 0..(n + 1) /\ i - 1 <= n
        BY <2>1, <3>2
      <4>2. h[i] = g[i] /\ h[i - 1] = g[i - 1]
        BY <3>2, <4>1
      <4>3. g[i] = IF i = 0 THEN times ELSE visit(g[i - 1], i, e)
        BY <2>2, <4>1
      <4> QED BY <3>2, <4>2, <4>3
    <3>3. CASE i = n + 1
      <4>1. i - 1 = n /\ n \in 0..(n + 1) /\ ~(i <= n) /\ i # 0
        BY <2>1, <3>3
      <4>2. h[i - 1] = g[n]
        BY <2>1, <4>1
      <4>3. h[i] = visit(g[n], n + 1, e)
        BY <4>1
      <4> QED BY <3>3, <4>1, <4>2, <4>3
    <3> QED BY <2>1, <3>1, <3>2, <3>3
  <2> HIDE DEF h
  <2>4. h = [i \in 0..(n + 1) |-> h[i]]
    BY DEF h
  <2>5. h = [i \in 0..(n + 1) |-> IF i = 0 THEN times ELSE visit(h[i - 1], i, e)]
    BY <2>3, <2>4
  <2> QED BY <2>1, <2>5
<1>3. S = Nat
  <2>1. S \in SUBSET Nat
    OBVIOUS
  <2> HIDE DEF S
  <2> QED BY <1>1, <1>2, <2>1, NatInduct
<1>4. Len(times) \in S
  <2>1. Len(times) \in Nat
    OBVIOUS
  <2> HIDE DEF S
  <2> QED BY <1>3, <2>1
<1>5. \E f : Pass(f, times, e)
  BY <1>4 DEF Pass
<1> DEFINE after == CHOOSE f : Pass(f, times, e)
<1>6. Pass(after, times, e)
  BY <1>5
<1>7. pass(times, e) = after[Len(times)]
  BY DEF pass, Pass
<1> QED BY <1>6, <1>7

----------------------------------------------------------------------------
\* A visit keeps what vouches for the time that is owed: what it counts down
\* is still long enough, and when it erases the first it leaves the time that
\* it has just made negative.

\* The times up to i are counted down, or skipped; the others are not yet.
Stage(s, i, e) ==
  /\ s \in Seq(Time)
  /\ \E k \in 1..Len(s) : remains(s[k]) - (IF k <= i THEN 0 ELSE e) >= owed

\* The first time is over when the task wakes up.
FirstIsOver(s, i, e) == i = 0 => Len(s) >= 1 /\ remains(s[1]) <= e

LEMMA VisitKeeps ==
  ASSUME NEW s, NEW i \in Nat, NEW e \in Nat, e < Half, owed \in Nat, 0 < owed, owed < Half,
         Stage(s, i, e), FirstIsOver(s, i, e)
  PROVE  Stage(visit(s, i + 1, e), i + 1, e)
<1> DEFINE n == i + 1
           v == signed(s[n] - e)
           r == [s EXCEPT ![n] = v]
<1>1. PICK k \in 1..Len(s) : remains(s[k]) - (IF k <= i THEN 0 ELSE e) >= owed
  BY DEF Stage
<1>2. s \in Seq(Time) /\ Half \in Nat \ {0} /\ n \in Nat \ {0} /\ Len(s) \in Nat
  BY TimerAssumption DEF Stage
<1>3. \A j \in 1..Len(s) : s[j] \in Time /\ remains(s[j]) \in 0..Half
  <2>1. \A j \in 1..Len(s) : s[j] \in Time
    BY <1>2
  <2> QED BY <1>2, <2>1 DEF Time, remains
<1>4. CASE n > Len(s)
  <2>1. visit(s, n, e) = s
    BY <1>4 DEF visit
  <2>2. k <= i
    BY <1>2, <1>4
  <2> QED BY <1>1, <1>2, <2>1, <2>2 DEF Stage
<1>5. CASE n <= Len(s)
  <2>1. n \in 1..Len(s) /\ s[n] \in Time
    BY <1>2, <1>3, <1>5
  <2>2. s[n] - e \in Int /\ v \in Time
    <3>1. s[n] - e \in Int
      BY <1>2, <2>1 DEF Time
    <3> QED BY <3>1, Signed
  <2> HIDE DEF v
  <2>3. /\ r \in Seq(Time) /\ Len(r) = Len(s) /\ r[n] = v
        /\ \A j \in 1..Len(s) : j # n => r[j] = s[j]
    BY <1>2, <2>1, <2>2
  <2> HIDE DEF r
  <2>4. k = n => remains(v) >= owed
    <3> SUFFICES ASSUME k = n PROVE remains(v) >= owed
      OBVIOUS
    <3>1. remains(s[n]) - e >= owed
      BY <1>1, <1>2
    <3>2. CASE s[n] >= 0
      <4>1. s[n] - e \in Time /\ s[n] - e >= owed
        BY <1>2, <2>1, <3>1, <3>2 DEF remains, Time
      <4>2. v = s[n] - e
        BY <2>2, <4>1, Signed DEF v
      <4> QED BY <1>2, <4>1, <4>2 DEF remains, Time
    <3>3. CASE s[n] < 0 /\ s[n] - e >= -Half
      <4>1. s[n] - e \in Time
        BY <1>2, <2>1, <3>3 DEF Time
      <4>2. v = s[n] - e
        BY <2>2, <4>1, Signed DEF v
      <4> QED BY <1>2, <2>1, <3>3, <4>2 DEF remains, Time
    <3>4. CASE s[n] < 0 /\ s[n] - e < -Half
      <4>1. s[n] - e >= -2 * Half
        BY <1>2, <2>1 DEF Time
      <4>2. v = (s[n] - e) + 2 * Half
        BY <2>2, <3>4, <4>1, Signed DEF v
      <4>3. remains(s[n]) = Half
        BY <1>2, <2>1, <3>4 DEF remains, Time
      <4> QED BY <1>2, <2>1, <3>1, <4>1, <4>2, <4>3 DEF remains, Time
    <3> QED BY <1>2, <2>1, <3>2, <3>3, <3>4 DEF Time
  <2>5. k \in 1..Len(r) /\ remains(r[k]) - (IF k <= n THEN 0 ELSE e) >= owed
    <3>1. CASE k = n
      <4>1. remains(r[k]) = remains(v) /\ remains(v) \in Nat
        BY <1>2, <2>2, <2>3, <3>1 DEF remains, Time
      <4> QED BY <1>2, <2>3, <2>4, <3>1, <4>1
    <3>2. CASE k # n
      <4>1. r[k] = s[k]
        BY <2>3, <3>2
      <4>2. k <= n <=> k <= i
        BY <1>2, <3>2
      <4> QED BY <1>1, <2>3, <4>1, <4>2
    <3> QED BY <3>1, <3>2
  <2>6. CASE ~(v < 0)
    <3>1. visit(s, n, e) = r
      BY <1>2, <1>5, <2>6, SMT DEF visit, v, r
    <3> QED BY <2>3, <2>5, <3>1 DEF Stage
  <2>7. CASE v < 0
    <3>1. visit(s, n, e) = Tail(r)
      BY <1>2, <1>5, <2>7, SMT DEF visit, v, r
    <3>2. /\ Tail(r) \in Seq(Time) /\ Len(Tail(r)) = Len(s) - 1
          /\ \A j \in 1..(Len(s) - 1) : Tail(r)[j] = r[j + 1]
      <4>1. r # <<>>
        BY <1>2, <2>1, <2>3
      <4> QED BY <1>2, <2>3, <4>1
    <3>3. PICK m \in 2..Len(s) : remains(r[m]) - (IF m <= n THEN 0 ELSE e) >= owed
      <4>1. CASE k # 1
        BY <1>2, <2>3, <2>5, <4>1
      <4>2. CASE k = 1 /\ n # 1
        <5>1. n \in 2..Len(s) /\ r[n] < 0
          BY <1>2, <2>1, <2>3, <2>7, <4>2
        <5>2. remains(r[n]) = Half
          BY <1>2, <2>2, <2>3, <5>1 DEF remains, Time
        <5> QED BY <1>2, <5>1, <5>2
      <4>3. CASE k = 1 /\ n = 1
        <5>1. i = 0 /\ remains(s[1]) <= e /\ remains(s[1]) - e >= owed
          BY <1>1, <1>2, <4>3 DEF FirstIsOver
        <5> QED BY <1>2, <1>3, <2>1, <4>3, <5>1
      <4> QED BY <4>1, <4>2, <4>3
    <3> DEFINE j == m - 1
    <3>4. j \in 1..Len(Tail(r)) /\ Tail(r)[j] = r[m]
      BY <1>2, <3>2
    <3>5. remains(Tail(r)[j]) - (IF j <= n THEN 0 ELSE e) >= owed
      <4>1. remains(r[m]) \in Int
        <5>1. r[m] \in Time
          BY <1>2, <2>3
        <5> QED BY <1>2, <5>1 DEF remains, Time
      <4> QED BY <1>2, <3>3, <3>4, <4>1
    <3> HIDE DEF j
    <3> QED BY <3>1, <3>2, <3>4, <3>5 DEF Stage
  <2> QED BY <2>2, <2>6, <2>7
<1> QED BY <1>2, <1>4, <1>5

\* Whatever the pass skips and erases, a list of ints is left.
LEMMA PassType ==
  ASSUME NEW times \in Seq(Time), NEW e \in Int
  PROVE  pass(times, e) \in Seq(Time)
<1>1. PICK f : Pass(f, times, e) /\ pass(times, e) = f[Len(times)]
  BY PassUnfolds
<1> DEFINE S == {i \in Nat : i <= Len(times) => f[i] \in Seq(Time)}
<1>2. Len(times) \in Nat
  OBVIOUS
<1>3. \A i \in 0..Len(times) : f[i] = IF i = 0 THEN times ELSE visit(f[i - 1], i, e)
  BY <1>1 DEF Pass
<1>4. 0 \in S
  BY <1>2, <1>3
<1>5. ASSUME NEW i \in S PROVE i + 1 \in S
  <2> SUFFICES ASSUME i + 1 <= Len(times) PROVE f[i + 1] \in Seq(Time)
    OBVIOUS
  <2> DEFINE s == f[i]
             v == signed(s[i + 1] - e)
             r == [s EXCEPT ![i + 1] = v]
  <2>1. s \in Seq(Time) /\ i \in Nat /\ Len(s) \in Nat
    BY <1>2
  <2>2. f[i + 1] = visit(s, i + 1, e)
    <3>1. i + 1 \in 0..Len(times) /\ i + 1 # 0 /\ (i + 1) - 1 = i
      BY <1>2, <2>1
    <3> QED BY <1>3, <3>1
  <2> HIDE DEF s
  <2>3. CASE i + 1 > Len(s)
    BY <2>1, <2>2, <2>3 DEF visit
  <2>4. CASE i + 1 <= Len(s)
    <3>1. i + 1 \in 1..Len(s) /\ s[i + 1] \in Time
      BY <2>1, <2>4
    <3>2. v \in Time
      <4>1. s[i + 1] - e \in Int
        BY <3>1, TimerAssumption DEF Time
      <4> QED BY <4>1, Signed
    <3> HIDE DEF v
    <3>3. r \in Seq(Time) /\ Len(r) = Len(s) /\ r # <<>>
      BY <2>1, <3>1, <3>2
    <3>4. visit(s, i + 1, e) \in {r, Tail(r)}
      BY <2>1, <2>4, SMT DEF visit, v
    <3> HIDE DEF r
    <3>5. Tail(r) \in Seq(Time)
      BY <3>3
    <3> QED BY <2>2, <3>3, <3>4, <3>5
  <2> QED BY <2>1, <2>3, <2>4
<1>6. S = Nat
  <2>1. S \in SUBSET Nat
    OBVIOUS
  <2> HIDE DEF S
  <2> QED BY <1>4, <1>5, <2>1, NatInduct
<1>7. Len(times) \in S
  <2> HIDE DEF S
  <2> QED BY <1>2, <1>6
<1> QED BY <1>1, <1>2, <1>7

LEMMA PassKeeps ==
  ASSUME NEW times \in Seq(Time), NEW e \in Nat, owed \in Nat, 0 < owed, owed < Half,
         Listed(times, e), remains(times[1]) <= e
  PROVE  Listed(pass(times, signed(e)), 0)
<1>1. Half \in Nat \ {0} /\ Len(times) \in Nat
  BY TimerAssumption
<1>2. PICK k \in 1..Len(times) : remains(times[k]) - e >= owed
  BY DEF Listed
<1>3. e < Half
  <2>1. times[k] \in Time
    OBVIOUS
  <2> QED BY <1>1, <1>2, <2>1 DEF remains, Time
<1>4. signed(e) = e
  <2>1. e \in Time /\ e \in Int
    BY <1>1, <1>3 DEF Time
  <2> QED BY <2>1, Signed
<1>5. PICK f : Pass(f, times, e) /\ pass(times, e) = f[Len(times)]
  BY PassUnfolds
<1>6. \A i \in 0..Len(times) : f[i] = IF i = 0 THEN times ELSE visit(f[i - 1], i, e)
  BY <1>5 DEF Pass
<1> DEFINE S == {i \in Nat : i <= Len(times) => Stage(f[i], i, e) /\ FirstIsOver(f[i], i, e)}
<1>7. 0 \in S
  <2>1. f[0] = times
    BY <1>1, <1>6
  <2>2. Stage(times, 0, e)
    BY <1>2 DEF Stage
  <2>3. FirstIsOver(times, 0, e)
    BY <1>1, <1>2 DEF FirstIsOver
  <2> QED BY <2>1, <2>2, <2>3
<1>8. ASSUME NEW i \in S PROVE i + 1 \in S
  <2> SUFFICES ASSUME i + 1 <= Len(times)
               PROVE  Stage(f[i + 1], i + 1, e) /\ FirstIsOver(f[i + 1], i + 1, e)
    OBVIOUS
  <2>1. i \in Nat /\ Stage(f[i], i, e) /\ FirstIsOver(f[i], i, e)
    BY <1>1
  <2>2. Stage(visit(f[i], i + 1, e), i + 1, e)
    <3> HIDE DEF S
    <3>1. PICK s : s = f[i]
      OBVIOUS
    <3> QED BY <1>3, <2>1, <3>1, VisitKeeps
  <2>3. f[i + 1] = visit(f[i], i + 1, e)
    <3>1. i + 1 \in 0..Len(times) /\ i + 1 # 0 /\ (i + 1) - 1 = i
      BY <1>1, <2>1
    <3> QED BY <1>6, <3>1
  <2>4. FirstIsOver(f[i + 1], i + 1, e)
    BY <2>1 DEF FirstIsOver
  <2> QED BY <2>2, <2>3, <2>4
<1>9. Len(times) \in S
  <2>1. S \in SUBSET Nat
    OBVIOUS
  <2> HIDE DEF S
  <2>2. S = Nat
    BY <1>7, <1>8, <2>1, NatInduct
  <2> QED BY <1>1, <2>2
<1>10. Stage(pass(times, e), Len(times), e)
  BY <1>1, <1>5, <1>9
<1> DEFINE s == pass(times, e)
<1>11. PICK m \in 1..Len(s) : remains(s[m]) - (IF m <= Len(times) THEN 0 ELSE e) >= owed
  BY <1>10 DEF Stage
<1>12. remains(s[m]) - 0 >= owed
  <2>1. s[m] \in Time
    BY PassType
  <2> QED BY <1>1, <1>11, <2>1 DEF remains, Time
<1> QED BY <1>4, <1>12 DEF Listed

----------------------------------------------------------------------------
LEMMA TimerInit == Init => TimerIInv
BY TimerAssumption DEF Init, TimerIInv, TypeOK, Sleeping, OneAlarm, Vouched, Running, Time

\* A message does not undo what vouches for the time that is owed.
LEMMA SendKeeps ==
  ASSUME TimerIInv, NEW m \in Delays \cup {Cancel}, send(m), m <= owed', owed' \in Nat,
         owed' = owed \/ owed' = m, owed' < Half, t' = t, elapsed' = elapsed, left' = left,
         alarms' = alarms, pc' \in {"none", "ready", "sleep", "done", "freed"},
         (pc' = pc /\ pc # "none") \/ (pc = "none" /\ pc' = "ready")
  PROVE  TimerIInv'
<1>1. Half \in Nat \ {0} /\ Delays \subseteq 0..(Half - 1) /\ m \in Int
  BY TimerAssumption DEF Cancel
<1>2. /\ chan \in Seq(Delays \cup {Cancel}) /\ Len(chan) \in Nat /\ chan' = Append(chan, m)
      /\ requests' = requests + 1 /\ Len(chan) < Backlog
  BY DEF TimerIInv, TypeOK, send
<1>3. /\ chan' \in Seq(Delays \cup {Cancel}) /\ Len(chan') = Len(chan) + 1
      /\ \A k \in 1..Len(chan) : chan'[k] = chan[k]
      /\ chan'[Len(chan) + 1] = m
  BY <1>2
<1>4. TypeOK'
  BY <1>2, <1>3, TimerAssumption DEF TimerIInv, TypeOK
<1>5. Sleeping' /\ OneAlarm'
  BY DEF TimerIInv, Sleeping, OneAlarm, Running
<1>6. Vouched'
  <2> SUFFICES ASSUME Running', owed' # 0
               PROVE  (\E k \in 1..Len(chan') : chan'[k] >= owed') \/ Listed(t, elapsed)'
    BY DEF Vouched
  <2>1. CASE owed' = m
    <3>1. Len(chan) + 1 \in 1..Len(chan') /\ chan'[Len(chan) + 1] >= owed'
      BY <1>1, <1>2, <1>3, <2>1
    <3> QED BY <3>1
  <2>2. CASE owed' = owed
    <3>1. (\E k \in 1..Len(chan) : chan[k] >= owed) \/ Listed(t, elapsed)
      BY <2>2 DEF TimerIInv, Vouched, Running
    <3>2. ASSUME NEW k \in 1..Len(chan), chan[k] >= owed
          PROVE  \E j \in 1..Len(chan') : chan'[j] >= owed'
      <4>1. k \in 1..Len(chan') /\ chan'[k] >= owed'
        BY <1>2, <1>3, <2>2, <3>2
      <4> QED BY <4>1
    <3>3. ASSUME Listed(t, elapsed) PROVE Listed(t, elapsed)'
      BY <2>2, <3>3 DEF Listed
    <3> QED BY <3>1, <3>2, <3>3
  <2> QED BY <2>1, <2>2
<1> QED BY <1>4, <1>5, <1>6 DEF TimerIInv

LEMMA RequestKeeps ==
  ASSUME TimerIInv, NEW ms \in Delays, request(ms), t' = t, elapsed' = elapsed, left' = left,
         alarms' = alarms, pc' \in {"none", "ready", "sleep", "done", "freed"},
         (pc' = pc /\ pc # "none") \/ (pc = "none" /\ pc' = "ready")
  PROVE  TimerIInv'
<1>1. ms \in Nat /\ ms < Half /\ owed \in Nat /\ owed < Half
  BY TimerAssumption DEF TimerIInv, TypeOK
<1>2. /\ ms <= owed' /\ owed' \in Nat /\ owed' < Half /\ (owed' = owed \/ owed' = ms)
      /\ send(ms)
  BY <1>1 DEF request
<1> QED BY <1>2, SendKeeps

LEMMA CancelKeeps == TimerIInv /\ cancel => TimerIInv'
<1> SUFFICES ASSUME TimerIInv, cancel PROVE TimerIInv'
  OBVIOUS
<1>1. /\ send(Cancel) /\ Cancel <= owed' /\ owed' \in Nat /\ owed' = owed /\ owed' < Half
      /\ t' = t /\ elapsed' = elapsed /\ left' = left /\ alarms' = alarms
      /\ pc' = pc /\ pc # "none" /\ pc \in {"none", "ready", "sleep", "done", "freed"}
  BY DEF cancel, TimerIInv, TypeOK, Cancel
<1> QED BY <1>1, SendKeeps

\* The list that the task makes of what it has and of what was sent
LEMMA LoopKeeps ==
  ASSUME TimerIInv, Running, NEW times \in Seq(Time), loop(times), requests' = requests,
         owed' = owed, owed = 0 \/ (\E k \in 1..Len(chan) : chan[k] >= owed) \/ Listed(times, 0)
  PROVE  /\ TimerIInv'
         /\ alarms' > alarms => owed = 0
<1>1. Half \in Nat \ {0} /\ Delays \subseteq 0..(Half - 1)
  BY TimerAssumption
<1>2. /\ chan \in Seq(Delays \cup {Cancel}) /\ Len(chan) \in Nat /\ DOMAIN chan = 1..Len(chan)
      /\ owed \in Nat /\ owed < Half /\ alarms = 0 /\ Len(times) \in Nat
      /\ left \in Int /\ elapsed \in Nat /\ t \in Seq(Time) /\ requests \in Nat /\ t \in Seq(Int)
  BY DEF TimerIInv, TypeOK, OneAlarm
<1>3. CASE \E k \in DOMAIN chan : chan[k] = Cancel
  <2>1. /\ pc' = "freed" /\ chan' = chan /\ t' = t /\ left' = left /\ elapsed' = elapsed
        /\ alarms' = alarms
    BY <1>3 DEF loop
  <2>2. TypeOK'
    BY <2>1 DEF TimerIInv, TypeOK
  <2> QED BY <1>2, <2>1, <2>2 DEF TimerIInv, Sleeping, OneAlarm, Vouched, Running
<1>4. CASE ~(\E k \in DOMAIN chan : chan[k] = Cancel)
  <2>1. /\ t' = times \o chan /\ chan' = <<>> /\ elapsed' = 0
        /\ IF t' # <<>>
           THEN pc' = "sleep" /\ left' = unsigned(Head(t')) /\ alarms' = alarms
           ELSE pc' = "done" /\ left' = 0 /\ alarms' = alarms + 1
    BY <1>4, Zenon DEF loop
  <2>2. chan \in Seq(Time)
    <3>1. ASSUME NEW k \in 1..Len(chan) PROVE chan[k] \in Time
      <4>1. chan[k] \in Delays \cup {Cancel}
        BY <1>2
      <4>2. chan[k] # Cancel
        BY <1>2, <1>4, Zenon
      <4>3. chan[k] \in 0..(Half - 1)
        BY <1>1, <4>1, <4>2, Zenon
      <4> QED BY <1>1, <4>3 DEF Time
    <3> QED BY <1>2, <3>1
  <2>3. /\ t' \in Seq(Time) /\ Len(t') = Len(times) + Len(chan)
        /\ \A k \in 1..Len(times) : t'[k] = times[k]
        /\ \A k \in 1..Len(chan) : t'[Len(times) + k] = chan[k]
    BY <1>2, <2>1, <2>2
  <2>4. t' \in Seq(Int)
    <3>1. Time \subseteq Int
      BY <1>1 DEF Time
    <3>2. PICK l \in Seq(Time) : l = t'
      BY <2>3
    <3>3. \A k \in 1..Len(l) : l[k] \in Time
      OBVIOUS
    <3>4. \A k \in 1..Len(l) : l[k] \in Int
      BY <3>1, <3>3, Zenon
    <3>5. l \in Seq(Int)
      BY <3>4
    <3> QED BY <3>2, <3>5
  <2>5. owed = 0 \/ \E k \in 1..Len(t') : remains(t'[k]) - 0 >= owed
    <3>1. ASSUME NEW k \in 1..Len(chan), chan[k] >= owed
          PROVE  \E j \in 1..Len(t') : remains(t'[j]) - 0 >= owed
      <4> DEFINE j == Len(times) + k
      <4>1. j \in 1..Len(t') /\ t'[j] = chan[k] /\ chan[k] \in Time
        BY <1>2, <2>2, <2>3
      <4>2. remains(t'[j]) - 0 >= owed
        BY <1>1, <1>2, <3>1, <4>1 DEF remains, Time
      <4> QED BY <4>1, <4>2
    <3>2. ASSUME Listed(times, 0)
          PROVE  \E j \in 1..Len(t') : remains(t'[j]) - 0 >= owed
      <4>1. PICK k \in 1..Len(times) : remains(times[k]) - 0 >= owed
        BY <3>2 DEF Listed
      <4>2. k \in 1..Len(t') /\ t'[k] = times[k]
        BY <1>2, <2>3
      <4> QED BY <4>1, <4>2
    <3> QED BY <3>1, <3>2
  <2>6. CASE t' # <<>>
    <3>1. Head(t') = t'[1] /\ t'[1] \in Time
      BY <1>2, <2>3, <2>6
    <3>2. pc' = "sleep" /\ left' = unsigned(Head(t')) /\ alarms' = alarms
      BY <2>1, <2>6
    <3>3. left' \in Nat
      BY <3>1, <3>2, Unsigned
    <3>4. TypeOK'
      <4>1. chan' \in Seq(Delays \cup {Cancel}) /\ Len(chan') = 0
        BY <2>1
      <4> QED BY <1>2, <2>1, <2>4, <3>2, <3>3, <4>1, TimerAssumption DEF TypeOK
    <3>5. Sleeping' /\ OneAlarm'
      BY <1>2, <2>1, <2>6, <3>2, <3>3 DEF Sleeping, OneAlarm
    <3>6. Vouched'
      BY <2>1, <2>5 DEF Vouched, Listed
    <3> QED BY <1>2, <2>3, <3>2, <3>4, <3>5, <3>6 DEF TimerIInv
  <2>7. CASE t' = <<>>
    <3>1. owed = 0
      BY <1>2, <2>5, <2>7
    <3>2. pc' = "done" /\ left' = 0 /\ alarms' = 1
      BY <1>2, <2>1, <2>7
    <3>3. TypeOK'
      <4>1. chan' \in Seq(Delays \cup {Cancel}) /\ Len(chan') = 0
        BY <2>1
      <4> QED BY <1>2, <2>1, <2>4, <3>2, <4>1, TimerAssumption DEF TypeOK
    <3> QED BY <1>2, <2>3, <3>1, <3>2, <3>3 DEF TimerIInv, Sleeping, OneAlarm, Vouched, Running
  <2> QED BY <2>6, <2>7
<1> QED BY <1>3, <1>4

LEMMA TaskKeeps == TimerIInv /\ task => TimerIInv' /\ (alarms' > alarms => owed = 0)
<1> SUFFICES ASSUME TimerIInv, task PROVE TimerIInv' /\ (alarms' > alarms => owed = 0)
  OBVIOUS
<1>1. /\ t \in Seq(Time) /\ requests' = requests /\ owed' = owed /\ owed \in Nat /\ owed < Half
      /\ left \in Int /\ elapsed \in Nat
  BY DEF TimerIInv, TypeOK, task
<1>2. CASE pc = "ready" /\ loop(t)
  <2>1. Running /\ t = <<>>
    BY <1>2 DEF Running, TimerIInv, Sleeping
  <2>2. owed = 0 \/ (\E k \in 1..Len(chan) : chan[k] >= owed) \/ Listed(t, 0)
    BY <2>1 DEF TimerIInv, Vouched, Listed
  <2> QED BY <1>1, <1>2, <2>1, <2>2, LoopKeeps
<1>3. CASE pc = "sleep" /\ left <= 0 /\ loop(pass(t, signed(elapsed)))
  <2> DEFINE times == pass(t, signed(elapsed))
  <2>1. Running /\ t # <<>> /\ left + elapsed = unsigned(Head(t))
    BY <1>3 DEF Running, TimerIInv, Sleeping
  <2>2. times \in Seq(Time)
    <3>1. signed(elapsed) \in Int
      <4>1. elapsed \in Int
        BY <1>1
      <4>2. signed(elapsed) \in Time
        BY <4>1, Signed
      <4> QED BY <4>2, TimerAssumption DEF Time
    <3> QED BY <1>1, <3>1, PassType
  <2>3. remains(t[1]) <= elapsed
    <3>1. t[1] \in Time /\ Head(t) = t[1]
      BY <1>1, <2>1
    <3>2. unsigned(t[1]) \in Nat /\ unsigned(t[1]) >= remains(t[1])
      BY <3>1, Unsigned
    <3>3. remains(t[1]) \in Int
      BY <3>1, TimerAssumption DEF remains, Time
    <3> QED BY <1>1, <1>3, <2>1, <3>1, <3>2, <3>3
  <2>4. owed = 0 \/ (\E k \in 1..Len(chan) : chan[k] >= owed) \/ Listed(times, 0)
    <3>1. owed = 0 \/ (\E k \in 1..Len(chan) : chan[k] >= owed) \/ Listed(t, elapsed)
      BY <2>1 DEF TimerIInv, Vouched
    <3>2. ASSUME owed # 0, Listed(t, elapsed) PROVE Listed(times, 0)
      <4>1. PICK l \in Seq(Time), e \in Nat : l = t /\ e = elapsed
        BY <1>1
      <4>2. 0 < owed
        BY <1>1, <3>2
      <4>3. Listed(l, e) /\ remains(l[1]) <= e
        BY <2>3, <3>2, <4>1
      <4> HIDE DEF Listed
      <4>4. Listed(pass(l, signed(e)), 0)
        BY <1>1, <4>2, <4>3, PassKeeps
      <4> QED BY <4>1, <4>4
    <3> QED BY <3>1, <3>2
  <2>5. loop(times)
    BY <1>3
  <2> HIDE DEF times
  <2> QED BY <1>1, <2>1, <2>2, <2>4, <2>5, LoopKeeps
<1> QED BY <1>2, <1>3 DEF task

\* A millisecond less is owed, and a millisecond more is slept.
LEMMA TickKeeps == TimerIInv /\ Tick => TimerIInv'
<1> SUFFICES ASSUME TimerIInv, Tick PROVE TimerIInv'
  OBVIOUS
<1>1. /\ chan' = chan /\ t' = t /\ pc' = pc /\ alarms' = alarms /\ requests' = requests
      /\ owed' = IF owed > 0 THEN owed - 1 ELSE 0
      /\ IF pc = "sleep" THEN left' = left - 1 /\ elapsed' = elapsed + 1
         ELSE left' = left /\ elapsed' = elapsed
  BY DEF Tick
<1>2. /\ owed \in Nat /\ owed < Half /\ left \in Int /\ elapsed \in Nat /\ t \in Seq(Time)
      /\ chan \in Seq(Delays \cup {Cancel}) /\ Half \in Nat
      /\ \A k \in 1..Len(chan) : chan[k] \in Int
  <2>1. Delays \cup {Cancel} \subseteq Int /\ Half \in Nat
    BY TimerAssumption DEF Cancel
  <2> QED BY <2>1 DEF TimerIInv, TypeOK
<1>3. owed' \in Nat /\ owed' < Half /\ owed' <= owed /\ left' \in Int /\ elapsed' \in Nat
  BY <1>1, <1>2
<1>4. TypeOK'
  BY <1>1, <1>3 DEF TimerIInv, TypeOK
<1>5. Sleeping'
  <2>1. left' + elapsed' = left + elapsed
    BY <1>1, <1>2
  <2> QED BY <1>1, <2>1 DEF TimerIInv, Sleeping
<1>6. OneAlarm' /\ (pc = "none" => owed' = 0)
  BY <1>1 DEF TimerIInv, OneAlarm, Running
<1>7. Vouched'
  <2> SUFFICES ASSUME Running, owed' # 0
               PROVE  (\E k \in 1..Len(chan) : chan[k] >= owed') \/ Listed(t, elapsed)'
    BY <1>1 DEF Vouched, Running
  <2>1. owed' = owed - 1 /\ owed # 0
    BY <1>1, <1>2
  <2>2. (\E k \in 1..Len(chan) : chan[k] >= owed) \/ Listed(t, elapsed)
    BY <2>1 DEF TimerIInv, Vouched
  <2>3. CASE \E k \in 1..Len(chan) : chan[k] >= owed
    BY <1>2, <2>1, <2>3
  <2>4. CASE Listed(t, elapsed)
    <3>1. PICK k \in 1..Len(t) : remains(t[k]) - elapsed >= owed
      BY <2>4 DEF Listed
    <3>2. t[k] \in Time /\ remains(t[k]) \in Int
      BY <1>2 DEF remains, Time
    <3>3. remains(t[k]) - elapsed' >= owed'
      BY <1>1, <1>2, <2>1, <3>1, <3>2
    <3> QED BY <1>1, <3>3 DEF Listed
  <2> QED BY <2>2, <2>3, <2>4
<1> QED BY <1>1, <1>3, <1>4, <1>5, <1>6, <1>7 DEF TimerIInv

LEMMA TimerStep ==
  TimerIInv /\ [Next]_vars => TimerIInv' /\ (alarms' > alarms => owed = 0)
<1> SUFFICES ASSUME TimerIInv, [Next]_vars
             PROVE  TimerIInv' /\ (alarms' > alarms => owed = 0)
  OBVIOUS
<1>1. alarms \in Nat /\ (alarms' = alarms => ~(alarms' > alarms))
  BY DEF TimerIInv, TypeOK
<1>2. CASE start
  <2>1. PICK ms \in Delays : request(ms)
    BY <1>2 DEF start
  <2>2. /\ pc = "none" /\ pc' = "ready" /\ t' = t /\ left' = left /\ elapsed' = elapsed
        /\ alarms' = alarms
    BY <1>2 DEF start
  <2> QED BY <1>1, <2>1, <2>2, RequestKeeps
<1>3. CASE reset
  <2>1. PICK ms \in Delays : request(ms)
    BY <1>3 DEF reset
  <2>2. /\ pc # "none" /\ pc' = pc /\ t' = t /\ left' = left /\ elapsed' = elapsed
        /\ alarms' = alarms /\ pc \in {"none", "ready", "sleep", "done", "freed"}
    BY <1>3 DEF reset, TimerIInv, TypeOK
  <2> QED BY <1>1, <2>1, <2>2, RequestKeeps
<1>4. CASE cancel
  <2>1. alarms' = alarms
    BY <1>4 DEF cancel
  <2> QED BY <1>1, <1>4, <2>1, CancelKeeps
<1>5. CASE task
  BY <1>5, TaskKeeps
<1>6. CASE Tick
  <2>1. alarms' = alarms
    BY <1>6 DEF Tick
  <2> QED BY <1>1, <1>6, <2>1, TickKeeps
<1>7. CASE UNCHANGED vars
  BY <1>1, <1>7 DEF vars, TimerIInv, TypeOK, Sleeping, OneAlarm, Vouched, Listed, Running
<1> QED BY <1>2, <1>3, <1>4, <1>5, <1>6, <1>7 DEF Next

LEMMA TimerInvariant == Spec => []TimerIInv
BY TimerInit, TimerStep, PTL DEF Spec

\* The state is of its types: the times of the list are ints, and timer_chan
\* holds no more than its buffer does.
THEOREM TimerTyped == Spec => []TypeOK
<1>1. TimerIInv => TypeOK
  BY DEF TimerIInv
<1> QED BY <1>1, TimerInvariant, PTL

\* The task of a timer sends one alarm at most (chansendul, timer.c 108), so
\* the buffer of alarm_chan always has room for it and the task never waits there.
THEOREM AlarmHasRoom == Spec => [](alarms <= Backlog)
<1>1. TimerIInv => alarms <= Backlog
  BY TimerAssumption DEF TimerIInv, TypeOK, OneAlarm
<1> QED BY <1>1, TimerInvariant, PTL

\* When the alarm is sent, every time that was asked for is over: resets may
\* come at any moment of a sleep, the pass over the list may skip times, erase
\* the wrong one and let a negative one come first, and an int may wrap.
THEOREM AlarmOnTime == Spec => AlarmNotEarly
<1>1. TimerIInv /\ [Next]_vars => [alarms' > alarms => owed = 0]_vars
  BY TimerStep
<1> QED BY <1>1, TimerInvariant, PTL DEF Spec, AlarmNotEarly
=============================================================================
