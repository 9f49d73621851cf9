-------------------------- MODULE SequentialProofs --------------------------
(***************************************************************************)
(* Proofs about parts that run alone: the time intervals, the key-value    *)
(* store, the streams, the array and the hash table, for any clock errors, *)
(* keys, lengths, elements and items.                                      *)
(***************************************************************************)
EXTENDS Interval, Kvs, Stream, Array, Hash, SequenceTheorems, FiniteSetTheorems,
  WellFoundedInduction, TLAPS

----------------------------------------------------------------------------
\* Time intervals.  An interval holds the time at which it was taken.

Holds(i, t) == i.earliest \in Int /\ i.latest \in Int /\ i.earliest <= t /\ t <= i.latest

IntervalIInv ==
  /\ time \in Nat /\ stamp.at \in Nat /\ stamp.at <= time
  /\ Holds(stamp, stamp.at)
  /\ answer.now \in Nat /\ answer.now <= time
  /\ ChecksAreSound

\* The error is counted a thousand times, so it covers what the clock is off.
LEMMA DeltaCovers ==
  ASSUME NEW e \in Int PROVE delta(e) \in Int /\ abs(e) \in Nat /\ abs(e) <= delta(e)
<1>1. abs(e) \in Nat
  BY DEF abs
<1> DEFINE q == abs(e) \div 1000
           m == abs(e) % 1000
<1>2. q \in Int /\ m \in 0..999 /\ abs(e) = 1000 * q + m
  BY <1>1, SMT
<1>3. delta(e) = q * 1000000 + m * 1000
  BY SMT DEF delta
<1> HIDE DEF q, m
<1>4. q * 1000000 + m * 1000 = 1000 * abs(e)
  BY <1>1, <1>2, SMT
<1> QED BY <1>1, <1>3, <1>4, SMT

LEMMA IntervalsHold ==
  ASSUME time \in Nat, NEW i \in Intervals PROVE Holds(i, time) /\ i.at = time
<1>1. PICK d \in {-1, 0, 1}, e \in Errors : i = now(time + d * abs(e), e)
  BY DEF Intervals
<1>2. delta(e) \in Int /\ abs(e) \in Nat /\ abs(e) <= delta(e)
  BY DeltaCovers, IntervalAssumption
<1>3. PICK x \in {-abs(e), 0, abs(e)} : i = now(time + x, e)
  <2>1. d * abs(e) \in {-abs(e), 0, abs(e)}
    BY <1>2
  <2> QED BY <1>1, <2>1, Zenon
<1>4. /\ i.earliest = (time + x) - delta(e) /\ i.latest = (time + x) + delta(e)
      /\ i.at = time
  BY <1>3, Zenon DEF now
<1> QED BY <1>2, <1>3, <1>4 DEF Holds

LEMMA IntervalStep == IntervalIInv /\ [IntervalNext]_intervalVars => IntervalIInv'
<1> SUFFICES ASSUME IntervalIInv, [IntervalNext]_intervalVars PROVE IntervalIInv'
  OBVIOUS
<1> USE DEF IntervalIInv
<1>1. CASE Pass
  BY <1>1, IntervalAssumption DEF Pass, Holds, ChecksAreSound
<1>2. CASE Now
  BY <1>2, IntervalsHold DEF Now, ChecksAreSound, Holds
<1>3. ASSUME NEW mode_ \in {"before", "after"}, Check(mode_) PROVE IntervalIInv'
  <2>1. PICK i \in Intervals :
          answer' = [mode |-> mode_, success |-> check(mode_, stamp, i), now |-> time]
    BY <1>3 DEF Check
  <2>2. Holds(i, time)
    BY IntervalsHold
  <2>3. time' = time /\ stamp' = stamp
    BY <1>3 DEF Check
  <2>4. CASE mode_ = "before"
    <3>1. answer'.success <=> stamp.latest < i.earliest
      BY <2>1, <2>4 DEF check
    <3> QED BY <2>1, <2>2, <2>3, <2>4, <3>1 DEF Holds, ChecksAreSound
  <2>5. CASE mode_ = "after"
    <3>1. answer'.success <=> i.earliest < stamp.latest
      BY <2>1, <2>5 DEF check
    <3> QED BY <2>1, <2>2, <2>3, <2>5, <3>1 DEF Holds, ChecksAreSound
  <2> QED BY <2>4, <2>5
<1>4. CASE UNCHANGED intervalVars
  BY <1>4 DEF intervalVars, Holds, ChecksAreSound
<1> QED BY <1>1, <1>2, <1>3, <1>4 DEF IntervalNext

\* What the checks say of an interval and the present is so, however far off
\* the clock is, within the error that it admits.
THEOREM ChecksSound == IntervalSpec => []ChecksAreSound
<1>1. IntervalInit => IntervalIInv
  BY DEF IntervalInit, IntervalIInv, Holds, ChecksAreSound
<1>2. IntervalIInv => ChecksAreSound
  BY DEF IntervalIInv
<1> QED BY <1>1, <1>2, IntervalStep, PTL DEF IntervalSpec

----------------------------------------------------------------------------
\* The key-value store.

LEMMA NatMin ==
  ASSUME NEW S \in SUBSET Nat, S # {} PROVE Min(S) \in S /\ \A n \in S : Min(S) <= n
<1> DEFINE R == OpToRel(<, Nat)
<1>1. IsWellFoundedOn(R, Nat)
  BY NatLessThanWellFounded
<1>2. \A x, y \in Nat : y < x => <<y, x>> \in R
  BY DEF OpToRel
<1> HIDE DEF R
<1>3. PICK x \in S : \A y \in S : ~(<<y, x>> \in R)
  BY <1>1, WFMin, Zenon
<1>4. ASSUME NEW y \in S PROVE x <= y
  <2>1. ~(y < x)
    BY <1>2, <1>3, Zenon
  <2> QED BY <2>1
<1> QED BY <1>3, <1>4, Zenon DEF Min

\* Induction over a set of numbers
LEMMA NatInduct ==
  ASSUME NEW S \in SUBSET Nat, 0 \in S, \A n \in S : n + 1 \in S
  PROVE  S = Nat
<1> SUFFICES ASSUME Nat \ S # {} PROVE FALSE
  OBVIOUS
<1> DEFINE C == Nat \ S
<1>1. C \in SUBSET Nat /\ C # {}
  OBVIOUS
<1> HIDE DEF C
<1>2. Min(C) \in C /\ \A n \in C : Min(C) <= n
  BY <1>1, NatMin
<1>3. PICK x \in C : \A n \in C : x <= n
  BY <1>2, Zenon
<1>4. x \in Nat /\ ~(x \in S)
  BY <1>3 DEF C
<1>5. x # 0 /\ x - 1 \in Nat /\ ~(x <= x - 1)
  BY <1>4
<1>6. x - 1 \in S
  BY <1>3, <1>5 DEF C
<1>7. (x - 1) + 1 \in S
  BY <1>6
<1> QED BY <1>4, <1>7

\* Among keys of which none continues another the comparator is right.
LEMMA CompareTellsApart ==
  ASSUME NEW p \in StoreKeys, NEW q \in StoreKeys
  PROVE  compare(p, q) = 0 <=> p = q
<1> DEFINE n == Min({Len(p), Len(q)})
           D == {i \in 1..n : p[i] # q[i]}
<1>1. p \in Seq(Nat) /\ q \in Seq(Nat)
  BY KvsAssumption
<1>2. n \in {Len(p), Len(q)} /\ n <= Len(p) /\ n <= Len(q)
  <2>1. {Len(p), Len(q)} \in SUBSET Nat /\ {Len(p), Len(q)} # {}
    BY <1>1
  <2> QED BY <2>1, NatMin
<1> HIDE DEF n
<1>3. CASE p = q
  <2>1. D = {}
    BY <1>3
  <2> QED BY <1>3, <2>1 DEF compare, firstDifference, n
<1>4. CASE p # q
  <2>1. D # {}
    BY <1>4, KvsAssumption DEF PrefixFree, n
  <2>2. D \in SUBSET Nat
    BY <1>1, <1>2
  <2>3. Min(D) \in D
    BY <2>1, <2>2, NatMin
  <2>4. p[Min(D)] \in Nat /\ q[Min(D)] \in Nat /\ p[Min(D)] # q[Min(D)]
    BY <1>1, <1>2, <2>3
  <2>5. compare(p, q) = p[Min(D)] - q[Min(D)]
    BY <2>1 DEF compare, firstDifference, n
  <2> QED BY <1>4, <2>4, <2>5
<1> QED BY <1>3, <1>4

\* What is stored under each key, or nothing
Stored(k) == {e \in entries : e[1] = k}

KvsIInv ==
  /\ entries \subseteq StoreKeys \X Values
  /\ written \in [StoreKeys -> Values \cup {NoValue}]
  /\ \A k \in StoreKeys :
       Stored(k) = IF written[k] = NoValue THEN {} ELSE {<<k, written[k]>>}

LEMMA SameIsStored ==
  ASSUME KvsIInv, NEW k \in StoreKeys PROVE same(k) = Stored(k)
<1>1. \A e \in entries : e[1] \in StoreKeys
  BY DEF KvsIInv
<1> QED BY <1>1, CompareTellsApart DEF same, Stored

LEMMA KvsStep == KvsIInv /\ [KvsNext]_kvsVars => KvsIInv'
<1> SUFFICES ASSUME KvsIInv, [KvsNext]_kvsVars PROVE KvsIInv'
  OBVIOUS
<1> USE DEF KvsIInv
<1>1. CASE UNCHANGED <<entries, written>>
  BY <1>1 DEF Stored
<1>2. ASSUME NEW k \in StoreKeys, NEW v \in Values, Store(k, v) PROVE KvsIInv'
  <2>1. /\ entries' = (entries \ Stored(k)) \cup {<<k, v>>}
        /\ written' = [written EXCEPT ![k] = v]
    BY <1>2, SameIsStored DEF Store
  <2>2. v # NoValue
    BY KvsAssumption
  <2>3. ASSUME NEW j \in StoreKeys
        PROVE  Stored(j)' = IF written'[j] = NoValue THEN {} ELSE {<<j, written'[j]>>}
    <3>1. CASE j = k
      BY <2>1, <2>2, <3>1 DEF Stored
    <3>2. CASE j # k
      <4>1. Stored(j)' = Stored(j)
        BY <2>1, <3>2 DEF Stored
      <4> QED BY <2>1, <3>2, <4>1
    <3> QED BY <3>1, <3>2
  <2> QED BY <2>1, <2>3
<1>3. ASSUME NEW k \in StoreKeys, KvsDelete(k) PROVE KvsIInv'
  <2>1. CASE /\ entries' = entries \ Stored(k)
             /\ written' = [written EXCEPT ![k] = NoValue]
    <3>1. ASSUME NEW j \in StoreKeys
          PROVE  Stored(j)' = IF written'[j] = NoValue THEN {} ELSE {<<j, written'[j]>>}
      BY <2>1 DEF Stored
    <3> QED BY <2>1, <3>1
  <2> QED BY <1>1, <1>3, <2>1, SameIsStored DEF KvsDelete
<1>4. CASE KvsDestroy
  BY <1>1, <1>4 DEF KvsDestroy, Stored
<1>5. CASE KvsOpen \/ KvsPut \/ KvsClose \/ UNCHANGED kvsVars
  BY <1>1, <1>5 DEF KvsOpen, KvsPut, KvsClose, kvsVars
<1>6. ASSUME NEW k \in StoreKeys, KvsGet(k) PROVE KvsIInv'
  BY <1>1, <1>6 DEF KvsGet
<1> QED BY <1>2, <1>3, <1>4, <1>5, <1>6 DEF KvsNext

LEMMA KvsIInvImplies == KvsIInv => KeysReadBack
<1> SUFFICES ASSUME KvsIInv, NEW k \in StoreKeys
             PROVE  {e[2] : e \in same(k)} =
                      IF written[k] = NoValue THEN {} ELSE {written[k]}
  BY DEF KeysReadBack
<1>1. same(k) = IF written[k] = NoValue THEN {} ELSE {<<k, written[k]>>}
  BY SameIsStored DEF KvsIInv
<1>2. CASE written[k] = NoValue
  BY <1>1, <1>2
<1>3. CASE written[k] # NoValue
  <2>1. same(k) = {<<k, written[k]>>}
    BY <1>1, <1>3
  <2>2. \A e \in {<<k, written[k]>>} : e[2] = written[k]
    OBVIOUS
  <2>3. {e[2] : e \in {<<k, written[k]>>}} = {written[k]}
    BY <2>2, Zenon
  <2> QED BY <1>3, <2>1, <2>3
<1> QED BY <1>2, <1>3

\* Every key reads back what was last stored under it, for any set of keys of
\* which none continues another.
THEOREM KvsReadsBack == KvsSpec => []KeysReadBack
<1>1. KvsInit => KvsIInv
  BY DEF KvsInit, KvsIInv, Stored
<1> QED BY <1>1, KvsIInvImplies, KvsStep, PTL DEF KvsSpec

----------------------------------------------------------------------------
\* The streams.  What has arrived and what is on its way are the bytes from 1
\* on, up to where the writer is in its buffer, as long as no interrupt has made
\* it start a buffer again.

sent == received \o wire

StreamIInv ==
  /\ given \in Nat /\ rlen \in Nat
  /\ wbuf \in Seq(Nat) /\ wrote \in 0..Len(wbuf)
  /\ wire \in Seq(Nat) /\ received \in Seq(Nat)
  /\ wbuf = <<>> => wrote = 0
  /\ closed => wbuf = <<>>
  /\ ~torn =>
       /\ \A i \in 1..Len(sent) : sent[i] = i
       /\ ~closed => /\ Len(sent) + Len(wbuf) = given + wrote
                     /\ \A i \in 1..Len(wbuf) : wbuf[i] = Len(sent) - wrote + i

LEMMA WriteStep == StreamIInv /\ Write => StreamIInv'
<1> SUFFICES ASSUME StreamIInv, Write PROVE StreamIInv'
  OBVIOUS
<1>1. PICK m \in 1..(Len(wbuf) - wrote) :
        /\ wire' = wire \o part(m)
        /\ IF wrote + m = Len(wbuf)
           THEN wbuf' = <<>> /\ wrote' = 0
           ELSE wrote' = wrote + m /\ UNCHANGED wbuf
  BY DEF Write
<1>2. UNCHANGED <<given, closed, rlen, received, torn>> /\ wbuf # <<>>
  BY DEF Write
<1>3. /\ part(m) \in Seq(Nat) /\ Len(part(m)) = m
      /\ \A i \in 1..m : part(m)[i] = wbuf[wrote + i]
  <2>1. \A i \in (wrote + 1)..(wrote + m) : wbuf[i] \in Nat
    BY <1>1 DEF StreamIInv
  <2>2. wrote + 1 \in Int /\ wrote + m \in Int /\ wrote + m - (wrote + 1) + 1 = m
    BY <1>1 DEF StreamIInv
  <2> QED BY <1>1, <2>1, <2>2, SubSeqProperties DEF part, StreamIInv
<1>4. sent' = sent \o part(m) /\ sent \in Seq(Nat)
  <2>1. received \in Seq(Nat) /\ wire \in Seq(Nat)
    BY DEF StreamIInv
  <2>2. received' = received /\ wire' = wire \o part(m)
    BY <1>1, <1>2
  <2>3. (received \o wire) \o part(m) = received \o (wire \o part(m))
    BY <1>3, <2>1, ConcatAssociative
  <2> QED BY <2>1, <2>2, <2>3, ConcatProperties DEF sent
<1>5. /\ Len(sent') = Len(sent) + m
      /\ \A i \in 1..Len(sent) : sent'[i] = sent[i]
      /\ \A i \in 1..m : sent'[Len(sent) + i] = part(m)[i]
  BY <1>1, <1>3, <1>4, ConcatProperties
<1>6. wire' \in Seq(Nat) /\ wbuf' \in Seq(Nat) /\ wrote' \in 0..Len(wbuf')
  <2>1. wire' \in Seq(Nat)
    BY <1>1, <1>3, ConcatProperties DEF StreamIInv
  <2>2. CASE wrote + m = Len(wbuf)
    <3>1. wbuf' = <<>> /\ wrote' = 0
      BY <1>1, <2>2
    <3>2. <<>> \in Seq(Nat) /\ Len(<<>>) = 0
      BY EmptySeq
    <3> QED BY <2>1, <3>1, <3>2
  <2>3. CASE wrote + m # Len(wbuf)
    BY <1>1, <2>1, <2>3 DEF StreamIInv
  <2> QED BY <2>2, <2>3
<1>7. ASSUME ~torn
      PROVE  /\ \A i \in 1..Len(sent') : sent'[i] = i
             /\ Len(sent') + Len(wbuf') = given + wrote'
             /\ \A i \in 1..Len(wbuf') : wbuf'[i] = Len(sent') - wrote' + i
  <2>1. /\ ~closed
        /\ \A i \in 1..Len(sent) : sent[i] = i
        /\ Len(sent) + Len(wbuf) = given + wrote
        /\ \A i \in 1..Len(wbuf) : wbuf[i] = Len(sent) - wrote + i
    BY <1>2, <1>7 DEF StreamIInv
  <2>2. Len(sent) \in Nat /\ Len(wbuf) \in Nat /\ wrote \in Nat /\ given \in Nat /\ m \in Nat
    BY <1>1, <1>4 DEF StreamIInv
  <2>3. \A i \in 1..m : part(m)[i] = Len(sent) + i
    <3> SUFFICES ASSUME NEW i \in 1..m PROVE part(m)[i] = Len(sent) + i
      OBVIOUS
    <3>1. wrote + i \in 1..Len(wbuf)
      BY <1>1, <2>2
    <3>2. wbuf[wrote + i] = Len(sent) - wrote + (wrote + i)
      BY <2>1, <3>1
    <3>3. part(m)[i] = wbuf[wrote + i]
      BY <1>3
    <3> QED BY <2>2, <3>2, <3>3
  <2>4. ASSUME NEW i \in 1..Len(sent') PROVE sent'[i] = i
    <3>1. CASE i <= Len(sent)
      BY <1>5, <2>1, <2>2, <3>1
    <3>2. CASE i > Len(sent)
      <4>1. i - Len(sent) \in 1..m /\ i = Len(sent) + (i - Len(sent))
        BY <1>1, <1>5, <2>2, <2>4, <3>2
      <4> QED BY <1>5, <2>2, <2>3, <4>1
    <3> QED BY <2>2, <3>1, <3>2
  <2>5. CASE wrote + m = Len(wbuf)
    <3>1. wbuf' = <<>> /\ wrote' = 0 /\ Len(wbuf') = 0
      BY <1>1, <2>5, EmptySeq
    <3>2. Len(sent') + Len(wbuf') = given + wrote'
      BY <1>5, <2>1, <2>2, <2>5, <3>1
    <3>3. \A i \in 1..Len(wbuf') : wbuf'[i] = Len(sent') - wrote' + i
      BY <3>1
    <3> QED BY <2>4, <3>2, <3>3
  <2>6. CASE wrote + m # Len(wbuf)
    <3>1. wbuf' = wbuf /\ wrote' = wrote + m
      BY <1>1, <2>6
    <3>2. Len(sent') + Len(wbuf') = given + wrote'
      <4>1. Len(sent') = Len(sent) + m /\ Len(wbuf') = Len(wbuf)
        BY <1>5, <3>1
      <4> QED BY <2>1, <2>2, <3>1, <4>1
    <3>3. \A i \in 1..Len(wbuf') : wbuf'[i] = Len(sent') - wrote' + i
      BY <1>5, <2>1, <2>2, <3>1
    <3> QED BY <2>4, <3>2, <3>3
  <2> QED BY <2>5, <2>6
<1>8. (wbuf' = <<>> => wrote' = 0) /\ (closed' => wbuf' = <<>>)
  BY <1>1, <1>2 DEF StreamIInv
<1> QED BY <1>2, <1>6, <1>7, <1>8 DEF StreamIInv

LEMMA WriteBufferStep == StreamIInv /\ WriteBuffer => StreamIInv'
<1> SUFFICES ASSUME StreamIInv, WriteBuffer PROVE StreamIInv'
  OBVIOUS
<1>1. PICK n \in Lengths : given' = given + n /\ wbuf' = [i \in 1..n |-> given + i]
  BY DEF WriteBuffer
<1>2. /\ wbuf = <<>> /\ wrote = 0 /\ wrote' = 0 /\ ~closed
      /\ UNCHANGED <<wire, closed, rlen, received, torn>>
  BY DEF WriteBuffer, StreamIInv
<1>3. given \in Nat /\ n \in Nat /\ n # 0
  BY StreamAssumption DEF StreamIInv
<1>4. wbuf' \in Seq(Nat) /\ Len(wbuf') = n /\ \A i \in 1..n : wbuf'[i] = given + i
  BY <1>1, <1>3
<1>5. Len(wbuf) = 0 /\ sent' = sent /\ Len(sent) \in Nat
  BY <1>2, EmptySeq, ConcatProperties DEF sent, StreamIInv
<1>6. ~torn => Len(sent) = given
  BY <1>2, <1>3, <1>5 DEF StreamIInv
<1>7. wbuf' # <<>>
  BY <1>3, <1>4, EmptySeq
<1>8. /\ given' \in Nat /\ rlen' \in Nat
      /\ wrote' \in 0..Len(wbuf')
      /\ wire' \in Seq(Nat) /\ received' \in Seq(Nat)
  BY <1>1, <1>2, <1>3, <1>4 DEF StreamIInv
<1>9. ~torn => \A i \in 1..Len(sent') : sent'[i] = i
  BY <1>5 DEF StreamIInv
<1>10. ~torn => Len(sent') + Len(wbuf') = given' + wrote'
  BY <1>1, <1>2, <1>3, <1>4, <1>5, <1>6
<1>11. ~torn => \A i \in 1..Len(wbuf') : wbuf'[i] = Len(sent') - wrote' + i
  BY <1>2, <1>3, <1>4, <1>5, <1>6
<1> QED BY <1>2, <1>4, <1>7, <1>8, <1>9, <1>10, <1>11 DEF StreamIInv

\* What is read is no longer on its way.
LEMMA ReadStep == StreamIInv /\ Read => StreamIInv'
<1> SUFFICES ASSUME StreamIInv, Read PROVE StreamIInv'
  OBVIOUS
<1>1. PICK m \in 1..Min({rlen, Len(wire)}) :
        /\ received' = received \o SubSeq(wire, 1, m)
        /\ wire' = SubSeq(wire, m + 1, Len(wire))
        /\ rlen' = rlen - m
  BY DEF Read
<1>2. UNCHANGED <<given, wbuf, wrote, closed, torn>>
  BY DEF Read
<1>3. received \in Seq(Nat) /\ wire \in Seq(Nat) /\ rlen \in Nat /\ Len(wire) \in Nat
  BY DEF StreamIInv
<1>4. m \in 1..Len(wire) /\ m <= rlen
  <2>1. {rlen, Len(wire)} \in SUBSET Nat /\ {rlen, Len(wire)} # {}
    BY <1>3
  <2>2. Min({rlen, Len(wire)}) \in Nat /\ Min({rlen, Len(wire)}) <= rlen
        /\ Min({rlen, Len(wire)}) <= Len(wire)
    BY <2>1, NatMin
  <2> QED BY <1>1, <1>3, <2>2
<1> DEFINE front == SubSeq(wire, 1, m)
           back == SubSeq(wire, m + 1, Len(wire))
<1>5. front \in Seq(Nat) /\ back \in Seq(Nat)
  BY <1>3, <1>4
<1>6. front \o back = wire
  <2>1. 1 \in 1..(Len(wire) + 1) /\ m \in (1 - 1)..Len(wire) /\ Len(wire) \in m..Len(wire)
    BY <1>3, <1>4
  <2>2. front \o back = SubSeq(wire, 1, Len(wire))
    BY <1>3, <2>1, ConcatAdjacentSubSeq
  <2> QED BY <1>3, <2>2, SubSeqFull
<1>7. received' = received \o front /\ wire' = back
  BY <1>1
<1> HIDE DEF front, back
<1>8. sent' = sent
  <2>1. (received \o front) \o back = received \o (front \o back)
    BY <1>3, <1>5, ConcatAssociative
  <2> QED BY <1>6, <1>7, <2>1 DEF sent
<1>9. received' \in Seq(Nat) /\ wire' \in Seq(Nat) /\ rlen' \in Nat
  <2>1. received' \in Seq(Nat)
    BY <1>3, <1>5, <1>7, ConcatProperties
  <2>2. rlen' \in Nat
    BY <1>1, <1>3, <1>4
  <2> QED BY <1>5, <1>7, <2>1, <2>2
<1> QED BY <1>2, <1>8, <1>9 DEF StreamIInv

LEMMA StreamStep == StreamIInv /\ [StreamNext]_streamVars => StreamIInv'
<1> SUFFICES ASSUME StreamIInv, [StreamNext]_streamVars PROVE StreamIInv'
  OBVIOUS
<1>1. CASE WriteBuffer \/ Write \/ Read
  BY <1>1, WriteBufferStep, WriteStep, ReadStep
<1>2. CASE WriteInterrupted
  <2>1. CASE wrote = 0
    BY <1>2, <2>1 DEF WriteInterrupted, StreamIInv, sent
  <2>2. CASE wrote # 0
    <3>1. Len(wbuf) \in Nat /\ wrote > 0
      BY <2>2 DEF StreamIInv
    <3>2. torn' /\ wrote' = 0 /\ wbuf' = wbuf
      BY <1>2, <3>1, Zenon DEF WriteInterrupted
    <3> QED BY <1>2, <3>1, <3>2 DEF WriteInterrupted, StreamIInv
  <2> QED BY <2>1, <2>2
<1>3. CASE WriteFails
  <2>1. wbuf' = <<>> /\ wrote' = 0 /\ closed'
        /\ UNCHANGED <<given, wire, rlen, received, torn>>
    BY <1>3 DEF WriteFails
  <2>2. <<>> \in Seq(Nat) /\ Len(<<>>) = 0
    BY EmptySeq
  <2>3. sent' = sent
    BY <2>1 DEF sent
  <2> QED BY <2>1, <2>2, <2>3 DEF StreamIInv
<1>4. CASE ReadBuffer
  <2>1. rlen' \in Nat
    BY <1>4, StreamAssumption DEF ReadBuffer
  <2> QED BY <1>4, <2>1 DEF ReadBuffer, StreamIInv, sent
<1>5. CASE ReadFails
  BY <1>5 DEF ReadFails, StreamIInv, sent
<1>6. CASE UNCHANGED streamVars
  BY <1>6 DEF streamVars, StreamIInv, sent
<1> QED BY <1>1, <1>2, <1>3, <1>4, <1>5, <1>6 DEF StreamNext

LEMMA StreamStart == StreamInit => StreamIInv
<1> SUFFICES ASSUME StreamInit PROVE StreamIInv
  OBVIOUS
<1>1. <<>> \in Seq(Nat) /\ Len(<<>>) = 0
  BY EmptySeq
<1>2. sent = <<>>
  BY <1>1, ConcatEmptySeq DEF StreamInit, sent
<1> QED BY <1>1, <1>2 DEF StreamInit, StreamIInv

LEMMA StreamIInvImplies == StreamIInv => ArrivesInOrder
<1> SUFFICES ASSUME StreamIInv, ~torn, NEW i \in 1..Len(received) PROVE received[i] = i
  BY DEF ArrivesInOrder
<1>1. i \in 1..Len(sent) /\ sent[i] = received[i]
  BY ConcatProperties DEF sent, StreamIInv
<1> QED BY <1>1 DEF StreamIInv

\* Every byte arrives once and in order, however the buffers, of any lengths,
\* are cut into parts, unless an interrupt hits fdwrite after its first part.
THEOREM StreamsInOrder == StreamSpec => []ArrivesInOrder
BY StreamStart, StreamStep, StreamIInvImplies, PTL DEF StreamSpec

----------------------------------------------------------------------------
\* The array.  It holds a sequence: slot k - 1 has its k-th element, and the
\* array is as long as the sequence.

Arrays == [i : Nat, n : Nat, d : UNION {[0..(n - 1) -> Ints] : n \in Nat}]

IsArray(x) ==
  /\ x \in Arrays
  /\ x.i <= x.n /\ x.d \in [0..(x.n - 1) -> Ints]

HoldsSeq(x, s) ==
  /\ IsArray(x)
  /\ s \in Seq(Ints) /\ Len(s) = x.i
  /\ \A k \in 1..x.i : x.d[k - 1] = s[k]

ArrayIInv == a.i <= MaxSlots /\ HoldsSeq(a, items)

\* The slots that the loop of utarray_reserve tries, from c on
Doubled(f, c) == f = [k \in 0..MaxSlots |-> IF k > 0 THEN 2 * f[k - 1] ELSE c]

LEMMA DoubledExists ==
  ASSUME NEW c PROVE \E f : Doubled(f, c)
<1> DEFINE Upto(g, n) == g = [k \in 0..n |-> IF k > 0 THEN 2 * g[k - 1] ELSE c]
           S == {n \in Nat : \E g : Upto(g, n)}
<1>1. 0 \in S
  <2> DEFINE g == [k \in 0..0 |-> c]
  <2>1. \A k \in 0..0 : ~(k > 0)
    OBVIOUS
  <2>2. Upto(g, 0)
    BY <2>1
  <2> QED BY <2>2
<1>2. ASSUME NEW n \in S PROVE n + 1 \in S
  <2>1. n \in Nat /\ n + 1 \in Nat
    OBVIOUS
  <2>2. PICK g : Upto(g, n)
    OBVIOUS
  <2> DEFINE h == [k \in 0..(n + 1) |-> IF k <= n THEN g[k] ELSE 2 * g[n]]
  <2>3. ASSUME NEW k \in 0..(n + 1)
        PROVE  h[k] = IF k > 0 THEN 2 * h[k - 1] ELSE c
    <3>1. CASE ~(k > 0)
      BY <2>1, <2>2, <3>1
    <3>2. CASE k > 0 /\ k <= n
      <4>1. k \in 0..n /\ k - 1 \in 0..n /\ k - 1 \in 0..(n + 1) /\ k - 1 <= n
        BY <2>1, <3>2
      <4>2. h[k] = g[k] /\ h[k - 1] = g[k - 1]
        BY <3>2, <4>1
      <4>3. g[k] = IF k > 0 THEN 2 * g[k - 1] ELSE c
        BY <2>2, <4>1
      <4> QED BY <3>2, <4>2, <4>3
    <3>3. CASE k = n + 1
      <4>1. k - 1 = n /\ n \in 0..(n + 1) /\ ~(k <= n) /\ k > 0
        BY <2>1, <3>3
      <4>2. h[k - 1] = g[n]
        BY <2>1, <4>1
      <4> QED BY <4>1, <4>2
    <3> QED BY <2>1, <3>1, <3>2, <3>3
  <2> HIDE DEF h
  <2>4. h = [k \in 0..(n + 1) |-> h[k]]
    BY DEF h
  <2>5. h = [k \in 0..(n + 1) |-> IF k > 0 THEN 2 * h[k - 1] ELSE c]
    BY <2>3, <2>4
  <2> QED BY <2>1, <2>5
<1>3. S = Nat
  <2>1. S \in SUBSET Nat
    OBVIOUS
  <2> HIDE DEF S
  <2> QED BY <1>1, <1>2, <2>1, NatInduct
<1>4. MaxSlots \in S
  <2>1. MaxSlots \in Nat
    BY ArrayAssumption
  <2> HIDE DEF S
  <2> QED BY <1>3, <2>1
<1> QED BY <1>4 DEF Doubled

\* Doubling reaches any length.
LEMMA DoubledGrows ==
  ASSUME NEW c \in Nat \ {0}, NEW f, Doubled(f, c)
  PROVE  \A k \in 0..MaxSlots : f[k] \in Nat /\ f[k] > k
<1> DEFINE S == {k \in Nat : k <= MaxSlots => f[k] \in Nat /\ f[k] > k}
<1>1. MaxSlots \in Nat
  BY ArrayAssumption
<1>2. \A k \in 0..MaxSlots : f[k] = IF k > 0 THEN 2 * f[k - 1] ELSE c
  BY DEF Doubled
<1>3. 0 \in S
  BY <1>1, <1>2
<1>4. ASSUME NEW k \in S PROVE k + 1 \in S
  <2> SUFFICES ASSUME k + 1 <= MaxSlots PROVE f[k + 1] \in Nat /\ f[k + 1] > k + 1
    OBVIOUS
  <2>1. f[k] \in Nat /\ f[k] > k /\ k \in Nat
    BY <1>1
  <2>2. f[k + 1] = 2 * f[k]
    <3>1. k + 1 \in 0..MaxSlots /\ k + 1 > 0 /\ (k + 1) - 1 = k
      BY <1>1, <2>1
    <3> QED BY <1>2, <3>1
  <2> QED BY <2>1, <2>2
<1>5. S = Nat
  <2>1. S \in SUBSET Nat
    OBVIOUS
  <2> HIDE DEF S
  <2> QED BY <1>3, <1>4, <2>1, NatInduct
<1>6. ASSUME NEW k \in 0..MaxSlots PROVE f[k] \in Nat /\ f[k] > k
  <2>1. k \in Nat /\ k <= MaxSlots
    BY <1>1
  <2>2. k \in S
    <3> HIDE DEF S
    <3> QED BY <1>5, <2>1
  <2> QED BY <2>1, <2>2
<1> QED BY <1>6

\* There is room afterwards, and what was stored is there.
LEMMA ReserveHolds ==
  ASSUME NEW x, NEW s, HoldsSeq(x, s), NEW by \in Int, x.i + by <= MaxSlots
  PROVE  HoldsSeq(reserve(x, by), s) /\ x.i + by <= reserve(x, by).n
<1> DEFINE c == IF x.n = 0 THEN First ELSE x.n
           y == reserve(x, by)
<1>1. /\ x \in Arrays /\ x.i \in Nat /\ x.n \in Nat /\ x.i <= x.n
      /\ x.d \in [0..(x.n - 1) -> Ints] /\ MaxSlots \in Nat /\ c \in Nat \ {0} /\ 0 \in Ints
  BY ArrayAssumption DEF HoldsSeq, IsArray, Arrays
<1>2. CASE x.i + by <= x.n
  <2>1. y = x
    BY <1>2, Zenon DEF reserve
  <2> QED BY <1>2, <2>1
<1>3. CASE ~(x.i + by <= x.n)
  <2> DEFINE f == CHOOSE g : Doubled(g, c)
             N == {m \in {f[k] : k \in 0..MaxSlots} : x.i + by <= m}
             n == Min(N)
  <2>1. Doubled(f, c)
    BY DoubledExists
  <2>2. y = [x EXCEPT !.n = n, !.d = [k \in 0..(n - 1) |-> IF k < x.n THEN x.d[k] ELSE 0]]
    BY <1>3, Zenon DEF reserve, Doubled
  <2> HIDE DEF c, f
  <2>3. \A k \in 0..MaxSlots : f[k] \in Nat /\ f[k] > k
    BY <1>1, <2>1, DoubledGrows
  <2>4. N \in SUBSET Nat /\ N # {}
    <3>1. MaxSlots \in 0..MaxSlots
      BY <1>1
    <3>2. f[MaxSlots] \in Nat /\ f[MaxSlots] > MaxSlots
      BY <2>3, <3>1
    <3>3. x.i + by <= f[MaxSlots]
      BY <1>1, <3>2
    <3> QED BY <2>3, <3>1, <3>3
  <2> HIDE DEF N
  <2>5. n \in N
    BY <2>4, NatMin
  <2>6. n \in Nat /\ x.i + by <= n
    BY <2>4, <2>5 DEF N
  <2> HIDE DEF n
  <2>7. x.n <= n
    BY <1>1, <1>3, <2>6
  <2> DEFINE d == [k \in 0..(n - 1) |-> IF k < x.n THEN x.d[k] ELSE 0]
  <2>8. d \in [0..(n - 1) -> Ints] /\ \A k \in 0..(x.n - 1) : d[k] = x.d[k]
    <3>1. \A k \in 0..(n - 1) : (IF k < x.n THEN x.d[k] ELSE 0) \in Ints
      BY <1>1, <2>6
    <3>2. \A k \in 0..(x.n - 1) : k \in 0..(n - 1) /\ k < x.n
      BY <1>1, <2>6, <2>7
    <3> QED BY <3>1, <3>2
  <2> HIDE DEF d
  <2>9. y.i = x.i /\ y.n = n /\ y.d = d /\ y \in Arrays
    <3>1. y = [x EXCEPT !.n = n, !.d = d]
      BY <2>2 DEF d
    <3>2. d \in UNION {[0..(m - 1) -> Ints] : m \in Nat}
      BY <2>6, <2>8, Zenon
    <3> HIDE DEF y
    <3> QED BY <1>1, <2>6, <3>1, <3>2 DEF Arrays
  <2> HIDE DEF y
  <2>10. IsArray(y)
    BY <1>1, <2>6, <2>7, <2>8, <2>9 DEF IsArray
  <2>11. ASSUME NEW k \in 1..x.i PROVE y.d[k - 1] = s[k]
    <3>1. k - 1 \in 0..(x.n - 1)
      BY <1>1
    <3>2. x.d[k - 1] = s[k]
      BY DEF HoldsSeq
    <3> QED BY <2>8, <2>9, <3>1, <3>2
  <2>12. s \in Seq(Ints) /\ Len(s) = y.i
    BY <2>9 DEF HoldsSeq
  <2> QED BY <2>6, <2>9, <2>10, <2>11, <2>12 DEF HoldsSeq, y
<1> QED BY <1>2, <1>3

\* It keeps its length even where there is no room to be had.
LEMMA ReserveKeeps ==
  ASSUME NEW x \in Arrays, NEW by
  PROVE  \E N, D : reserve(x, by) \in [i : {x.i}, n : N, d : D]
<1>1. x \in [i : {x.i}, n : {x.n}, d : {x.d}]
  BY DEF Arrays
<1>2. ASSUME NEW n, NEW d PROVE [x EXCEPT !.n = n, !.d = d] \in [i : {x.i}, n : {n}, d : {d}]
  BY DEF Arrays
<1>3. reserve(x, by) = x \/ \E n, d : reserve(x, by) = [x EXCEPT !.n = n, !.d = d]
  BY Zenon DEF reserve
<1>4. CASE reserve(x, by) = x
  BY <1>1, <1>4
<1>5. CASE \E n, d : reserve(x, by) = [x EXCEPT !.n = n, !.d = d]
  <2>1. PICK n, d : reserve(x, by) = [x EXCEPT !.n = n, !.d = d]
    BY <1>5
  <2>2. reserve(x, by) \in [i : {x.i}, n : {n}, d : {d}]
    BY <1>2, <2>1
  <2> QED BY <2>2
<1> QED BY <1>3, <1>4, <1>5

\* The macros move and copy within the slots that there are.
Shifted(d, n, to, from, len) ==
  [k \in 0..(n - 1) |-> IF to <= k /\ k < to + len THEN d[from + (k - to)] ELSE d[k]]

Overwritten(d, n, to, s, l) ==
  [k \in 0..(n - 1) |-> IF to <= k /\ k < to + l THEN s[k - to + 1] ELSE d[k]]

LEMMA Moves ==
  ASSUME NEW n \in Nat, NEW d \in [0..(n - 1) -> Ints], NEW to \in Nat, NEW from \in Nat,
         NEW len \in Nat, to + len <= n, from + len <= n
  PROVE  /\ memmove(d, to, from, len) \in [0..(n - 1) -> Ints]
         /\ memmove(d, to, from, len) = Shifted(d, n, to, from, len)
<1>1. DOMAIN d = 0..(n - 1)
  OBVIOUS
<1>2. ASSUME NEW k \in 0..(n - 1)
      PROVE  (k \in to..(to + len - 1)) <=> (to <= k /\ k < to + len)
  OBVIOUS
<1>3. ASSUME NEW k \in 0..(n - 1)
      PROVE  (IF to <= k /\ k < to + len THEN d[from + (k - to)] ELSE d[k]) \in Ints
  <2>1. CASE to <= k /\ k < to + len
    <3>1. from + (k - to) \in 0..(n - 1)
      BY <2>1
    <3> QED BY <2>1, <3>1
  <2>2. d[k] \in Ints
    OBVIOUS
  <2> QED BY <2>1, <2>2
<1>4. memmove(d, to, from, len) = Shifted(d, n, to, from, len)
  BY <1>1, <1>2, Zenon DEF memmove, Shifted
<1>5. Shifted(d, n, to, from, len) \in [0..(n - 1) -> Ints]
  BY <1>3, Zenon DEF Shifted
<1> QED BY <1>4, <1>5

LEMMA Copies ==
  ASSUME NEW n \in Nat, NEW d \in [0..(n - 1) -> Ints], NEW to \in Nat,
         NEW s \in Seq(Ints), NEW l \in Nat, l = Len(s), to + l <= n
  PROVE  /\ memcpy(d, to, s) \in [0..(n - 1) -> Ints]
         /\ memcpy(d, to, s) = Overwritten(d, n, to, s, l)
<1>1. DOMAIN d = 0..(n - 1)
  OBVIOUS
<1>2. ASSUME NEW k \in 0..(n - 1)
      PROVE  (k \in to..(to + l - 1)) <=> (to <= k /\ k < to + l)
  OBVIOUS
<1>3. ASSUME NEW k \in 0..(n - 1)
      PROVE  (IF to <= k /\ k < to + l THEN s[k - to + 1] ELSE d[k]) \in Ints
  <2>1. ASSUME to <= k, k < to + l PROVE s[k - to + 1] \in Ints
    <3>1. k - to + 1 \in 1..Len(s)
      BY <2>1
    <3> QED BY <3>1, ElementOfSeq
  <2>2. d[k] \in Ints
    OBVIOUS
  <2> QED BY <2>1, <2>2, Zenon
<1>4. memcpy(d, to, s) = Overwritten(d, n, to, s, l)
  BY <1>1, <1>2, Zenon DEF memcpy, Overwritten
<1>5. Overwritten(d, n, to, s, l) \in [0..(n - 1) -> Ints]
  BY <1>3, Zenon DEF Overwritten
<1> QED BY <1>4, <1>5

LEMMA Zeros ==
  ASSUME NEW n \in Nat
  PROVE  /\ [k \in 1..n |-> 0] \in Seq(Ints) /\ Len([k \in 1..n |-> 0]) = n
         /\ \A k \in 1..n : [l \in 1..n |-> 0][k] = 0
<1>1. 0 \in Ints
  BY ArrayAssumption
<1>2. [k \in 1..n |-> 0] \in [1..n -> Ints]
  BY <1>1
<1>3. [k \in 1..n |-> 0] \in Seq(Ints)
  BY <1>2, SeqDef
<1> QED BY <1>3

LEMMA ResizeHolds ==
  ASSUME NEW x, NEW s, HoldsSeq(x, s), NEW num \in 0..MaxSlots,
         NEW r \in Seq(Ints), Len(r) = num,
         \A k \in 1..num : r[k] = IF k <= x.i THEN s[k] ELSE 0
  PROVE  HoldsSeq(resize(x, num), r)
<1>1. /\ x \in Arrays /\ x.i \in Nat /\ x.n \in Nat /\ x.i <= x.n
      /\ x.d \in [0..(x.n - 1) -> Ints] /\ MaxSlots \in Nat /\ num \in Nat
  BY ArrayAssumption DEF HoldsSeq, IsArray, Arrays
<1> DEFINE z == resize(x, num)
<1>2. CASE x.i < num
  <2> DEFINE y == reserve(x, num - x.i)
             zs == [k \in 1..(num - x.i) |-> 0]
  <2>1. HoldsSeq(y, s) /\ num <= y.n
    <3>1. num - x.i \in Int /\ x.i + (num - x.i) = num /\ num <= MaxSlots
      BY <1>1, <1>2
    <3> QED BY <3>1, ReserveHolds
  <2>2. z = [y EXCEPT !.d = memcpy(@, x.i, zs), !.i = num]
    BY <1>2, Zenon DEF resize
  <2> HIDE DEF y
  <2>3. y \in Arrays /\ y.i \in Nat /\ y.n \in Nat /\ y.i = x.i /\ y.d \in [0..(y.n - 1) -> Ints]
    BY <2>1 DEF HoldsSeq, IsArray, Arrays
  <2>4. PICK n \in Nat, i \in Nat : n = y.n /\ i = x.i
    BY <1>1, <2>3
  <2>5. zs \in Seq(Ints) /\ Len(zs) = num - i /\ \A k \in 1..(num - i) : zs[k] = 0
    <3>1. num - i \in Nat /\ zs = [k \in 1..(num - i) |-> 0]
      BY <1>1, <1>2, <2>4
    <3> HIDE DEF zs
    <3>2. PICK w \in Nat : w = num - i
      BY <3>1
    <3> QED BY <3>1, <3>2, Zeros
  <2> HIDE DEF zs
  <2> DEFINE d == memcpy(y.d, i, zs)
  <2>6. /\ d \in [0..(n - 1) -> Ints]
        /\ \A k \in 0..(n - 1) : d[k] = IF i <= k /\ k < i + Len(zs) THEN zs[k - i + 1] ELSE y.d[k]
    <3>1. i + (num - i) <= n /\ num - i \in Nat /\ num - i = Len(zs)
      BY <1>1, <1>2, <2>1, <2>4, <2>5
    <3>2. PICK e : e = y.d
      OBVIOUS
    <3>3. e \in [0..(n - 1) -> Ints]
      BY <2>3, <2>4, <3>2
    <3>4. PICK l \in Nat : l = num - i
      BY <3>1
    <3>5. i + l <= n /\ l = Len(zs) /\ d = memcpy(e, i, zs)
      BY <3>1, <3>2, <3>4
    <3> HIDE DEF d
    <3>6. d \in [0..(n - 1) -> Ints]
      BY <2>5, <3>3, <3>5, Copies
    <3>7. d = Overwritten(e, n, i, zs, l)
      BY <2>5, <3>3, <3>5, Copies
    <3> QED BY <3>2, <3>5, <3>6, <3>7 DEF Overwritten
  <2> HIDE DEF d
  <2>7. z.i = num /\ z.n = n /\ z.d = d /\ z \in Arrays
    <3>1. z = [y EXCEPT !.d = d, !.i = num]
      BY <2>2, <2>4 DEF d
    <3>2. d \in UNION {[0..(m - 1) -> Ints] : m \in Nat}
      BY <2>6, Zenon
    <3> HIDE DEF z
    <3> QED BY <1>1, <2>3, <2>4, <3>1, <3>2 DEF Arrays
  <2> HIDE DEF z
  <2>8. IsArray(z)
    BY <2>1, <2>4, <2>6, <2>7 DEF IsArray
  <2>9. ASSUME NEW k \in 1..num PROVE z.d[k - 1] = r[k]
    <3>1. k - 1 \in 0..(n - 1) /\ k \in Nat
      BY <1>1, <2>1, <2>4
    <3>2. CASE k <= i
      <4>1. ~(i <= k - 1) /\ k \in 1..y.i
        BY <2>3, <2>4, <3>1, <3>2
      <4>2. y.d[k - 1] = s[k]
        BY <2>1, <4>1 DEF HoldsSeq
      <4> QED BY <2>4, <2>6, <2>7, <3>1, <3>2, <4>1, <4>2
    <3>3. CASE ~(k <= i)
      <4>1. i <= k - 1 /\ k - 1 < i + Len(zs) /\ (k - 1) - i + 1 \in 1..(num - i)
        BY <1>1, <2>4, <2>5, <3>1, <3>3
      <4>2. d[k - 1] = 0
        BY <2>5, <2>6, <3>1, <4>1
      <4> QED BY <2>4, <2>7, <3>3, <4>2
    <3> QED BY <3>2, <3>3
  <2> QED BY <2>7, <2>8, <2>9 DEF HoldsSeq, z
<1>3. CASE ~(x.i < num)
  <2>1. z = [x EXCEPT !.i = num]
    BY <1>3, Zenon DEF resize
  <2>2. z.i = num /\ z.n = x.n /\ z.d = x.d /\ z \in Arrays
    <3> HIDE DEF z
    <3> QED BY <1>1, <2>1 DEF Arrays
  <2> HIDE DEF z
  <2>3. IsArray(z)
    BY <1>1, <1>3, <2>2 DEF IsArray
  <2>4. ASSUME NEW k \in 1..num PROVE z.d[k - 1] = r[k]
    <3>1. k \in 1..x.i /\ k <= x.i
      BY <1>1, <1>3
    <3> QED BY <2>2, <3>1 DEF HoldsSeq
  <2> QED BY <2>2, <2>3, <2>4 DEF HoldsSeq, z
<1> QED BY <1>2, <1>3

\* Room for u at j within the array, and u there.
Opened(z, j, u) == [z EXCEPT !.d = memmove(@, j + Len(u), j, z.i - j)]

Put(w, j, u) == [w EXCEPT !.d = memcpy(@, j, u), !.i = @ + Len(u)]

\* r is t with u behind its first j elements.
Spliced(r, t, j, u) ==
  /\ Len(r) = Len(t) + Len(u)
  /\ \A k \in 1..Len(r) :
       r[k] = IF k <= j THEN t[k] ELSE IF k <= j + Len(u) THEN u[k - j] ELSE t[k - Len(u)]

LEMMA RoomHolds ==
  ASSUME NEW z, NEW t, HoldsSeq(z, t), NEW j \in 0..z.i, NEW u \in Seq(Ints),
         z.i + Len(u) <= z.n, NEW r \in Seq(Ints), Spliced(r, t, j, u)
  PROVE  HoldsSeq(Put(Opened(z, j, u), j, u), r)
<1> DEFINE w == Opened(z, j, u)
           v == Put(w, j, u)
<1>0. /\ w = [z EXCEPT !.d = memmove(@, j + Len(u), j, z.i - j)]
      /\ v = [w EXCEPT !.d = memcpy(@, j, u), !.i = @ + Len(u)]
  BY Zenon DEF Opened, Put
<1> HIDE DEF w, v
<1>1. /\ z \in Arrays /\ z.i \in Nat /\ z.n \in Nat /\ z.i <= z.n
      /\ z.d \in [0..(z.n - 1) -> Ints]
  BY DEF HoldsSeq, IsArray, Arrays
<1>2. PICK i \in Nat, n \in Nat, l \in Nat, e \in [0..(z.n - 1) -> Ints] :
        i = z.i /\ n = z.n /\ l = Len(u) /\ e = z.d
  BY <1>1, LenProperties
<1>3. j \in Nat /\ j <= i /\ i + l <= n /\ i - j \in Nat /\ e \in [0..(n - 1) -> Ints]
  BY <1>1, <1>2
<1> DEFINE f == memmove(e, j + l, j, i - j)
           g == memcpy(f, j, u)
<1>4. /\ f \in [0..(n - 1) -> Ints]
      /\ \A k \in 0..(n - 1) :
           f[k] = IF j + l <= k /\ k < j + l + (i - j) THEN e[j + (k - (j + l))] ELSE e[k]
  <2>1. PICK to \in Nat, len \in Nat : to = j + l /\ len = i - j
    BY <1>3
  <2>2. to + len <= n /\ j + len <= n
    BY <1>3, <2>1
  <2>3. f = memmove(e, to, j, len)
    BY <2>1
  <2> HIDE DEF f
  <2>4. f \in [0..(n - 1) -> Ints]
    BY <1>3, <2>2, <2>3, Moves
  <2>5. f = Shifted(e, n, to, j, len)
    <3>1. n \in Nat /\ e \in [0..(n - 1) -> Ints] /\ to \in Nat /\ j \in Nat /\ len \in Nat
      BY <1>3
    <3>2. memmove(e, to, j, len) = Shifted(e, n, to, j, len)
      BY <2>2, <3>1, Moves, SMTT(30)
    <3> QED BY <2>3, <3>2
  <2> QED BY <2>1, <2>4, <2>5 DEF Shifted
<1> HIDE DEF f
<1>5. /\ g \in [0..(n - 1) -> Ints]
      /\ \A k \in 0..(n - 1) : g[k] = IF j <= k /\ k < j + l THEN u[k - j + 1] ELSE f[k]
  <2>1. j + l <= n /\ l = Len(u)
    BY <1>2, <1>3
  <2> HIDE DEF g
  <2>2. n \in Nat /\ f \in [0..(n - 1) -> Ints] /\ j \in Nat /\ l \in Nat
    BY <1>3, <1>4
  <2>3. g = memcpy(f, j, u)
    BY DEF g
  <2>4. g \in [0..(n - 1) -> Ints]
    BY <2>1, <2>2, <2>3, Copies
  <2>5. g = Overwritten(f, n, j, u, l)
    <3>1. memcpy(f, j, u) = Overwritten(f, n, j, u, l)
      BY <2>1, <2>2, Copies, SMTT(30)
    <3> QED BY <2>3, <3>1
  <2> QED BY <2>4, <2>5 DEF Overwritten
<1> HIDE DEF g
<1>6. v.i = i + l /\ v.n = n /\ v.d = g /\ v \in Arrays
  <2>1. w = [z EXCEPT !.d = f]
    BY <1>0, <1>2 DEF f
  <2>2. /\ f \in UNION {[0..(m - 1) -> Ints] : m \in Nat}
        /\ g \in UNION {[0..(m - 1) -> Ints] : m \in Nat}
    BY <1>4, <1>5, Zenon
  <2>3. w \in Arrays /\ w.i = i /\ w.n = n /\ w.d = f
    BY <1>1, <1>2, <2>1, <2>2 DEF Arrays
  <2>4. v = [w EXCEPT !.d = g, !.i = i + l]
    BY <1>0, <1>2, <2>3 DEF g
  <2>5. i + l \in Nat
    OBVIOUS
  <2>6. v \in Arrays
    BY <2>2, <2>3, <2>4, <2>5 DEF Arrays
  <2> QED BY <2>3, <2>4, <2>6 DEF Arrays
<1>7. IsArray(v)
  BY <1>3, <1>5, <1>6 DEF IsArray
<1>8. Len(r) = i + l
  BY <1>2 DEF Spliced, HoldsSeq
<1>9. ASSUME NEW k \in 1..(i + l) PROVE v.d[k - 1] = r[k]
  <2>1. k \in Nat /\ k - 1 \in 0..(n - 1) /\ k \in 1..Len(r)
    BY <1>2, <1>3, <1>8
  <2>2. r[k] = IF k <= j THEN t[k] ELSE IF k <= j + l THEN u[k - j] ELSE t[k - l]
    BY <1>2, <2>1 DEF Spliced
  <2>3. \A m \in 1..i : e[m - 1] = t[m]
    BY <1>2 DEF HoldsSeq
  <2>4. CASE k <= j
    <3>1. ~(j <= k - 1) /\ ~(j + l <= k - 1) /\ k \in 1..i
      BY <1>3, <2>1, <2>4
    <3>2. g[k - 1] = e[k - 1]
      BY <1>4, <1>5, <2>1, <3>1
    <3> QED BY <1>6, <2>2, <2>3, <2>4, <3>1, <3>2
  <2>5. CASE ~(k <= j) /\ k <= j + l
    <3>1. j <= k - 1 /\ k - 1 < j + l /\ (k - 1) - j + 1 = k - j
      BY <1>3, <2>1, <2>5
    <3>2. g[k - 1] = u[k - j]
      BY <1>5, <2>1, <3>1
    <3> QED BY <1>6, <2>2, <2>5, <3>2
  <2>6. CASE ~(k <= j) /\ ~(k <= j + l)
    <3>0. k \in Nat /\ j \in Nat /\ l \in Nat /\ i \in Nat /\ k <= i + l /\ ~(k <= j + l)
      BY <1>3, <2>1, <2>6
    <3>1. /\ ~(k - 1 < j + l) /\ j + l <= k - 1 /\ k - 1 < j + l + (i - j)
          /\ j + ((k - 1) - (j + l)) = (k - l) - 1 /\ k - l \in 1..i
      BY <3>0
    <3>2. g[k - 1] = e[(k - l) - 1]
      BY <1>4, <1>5, <2>1, <3>1
    <3> QED BY <1>6, <2>2, <2>3, <2>6, <3>1, <3>2
  <2> QED BY <2>4, <2>5, <2>6
<1>10. HoldsSeq(v, r)
  BY <1>6, <1>7, <1>9, <1>8 DEF HoldsSeq
<1> QED BY <1>10 DEF v, w

\* r is s, filled up with zeros to j if it is shorter, with u at j.
Inserted(r, s, j, u) ==
  \A k \in 1..Len(r) :
    r[k] = IF k <= j THEN IF k <= Len(s) THEN s[k] ELSE 0
           ELSE IF k <= j + Len(u) THEN u[k - j] ELSE s[k - Len(u)]

LEMMA InsertHolds ==
  ASSUME NEW x, NEW s, HoldsSeq(x, s), NEW u \in Seq(Ints), u # <<>>, NEW j \in 0..MaxSlots,
         inserta(x, u, j).i <= MaxSlots,
         NEW m \in Nat, m = IF j > x.i THEN j ELSE x.i,
         NEW r \in Seq(Ints), Len(r) = m + Len(u), Inserted(r, s, j, u)
  PROVE  HoldsSeq(inserta(x, u, j), r)
<1> DEFINE t == [k \in 1..m |-> IF k <= x.i THEN s[k] ELSE 0]
           z == IF j > x.i THEN resize(x, j) ELSE x
           y == reserve(z, Len(u))
           w == [y EXCEPT !.d = memmove(@, j + Len(u), j, IF j < y.i THEN y.i - j ELSE 0)]
           v == [w EXCEPT !.d = memcpy(@, j, u), !.i = @ + Len(u)]
<1>1. inserta(x, u, j) = v
  BY Zenon DEF inserta, room
<1>2. x.i \in Nat /\ j \in Nat /\ j <= MaxSlots /\ MaxSlots \in Nat /\ Len(u) \in Nat
  BY ArrayAssumption, LenProperties DEF HoldsSeq, IsArray, Arrays
<1>3. s \in Seq(Ints) /\ Len(s) = x.i /\ 0 \in Ints
  BY ArrayAssumption DEF HoldsSeq
<1>4. /\ t \in Seq(Ints) /\ Len(t) = m
      /\ \A k \in 1..m : t[k] = IF k <= x.i THEN s[k] ELSE 0
  <2>1. ASSUME NEW k \in 1..m PROVE (IF k <= x.i THEN s[k] ELSE 0) \in Ints
    <3>1. CASE k <= x.i
      <4>1. k \in 1..Len(s)
        BY <1>2, <1>3, <3>1
      <4> QED BY <1>3, <3>1, <4>1, ElementOfSeq
    <3> QED BY <1>3, <3>1
  <2>2. t \in [1..m -> Ints]
    BY <2>1, Zenon
  <2>3. t \in Seq(Ints)
    <3>1. t \in UNION {[1..n -> Ints] : n \in Nat}
      BY <2>2, Zenon
    <3> HIDE DEF t
    <3> QED BY <3>1, SeqDef, Zenon
  <2> QED BY <2>3
<1> HIDE DEF t
<1>5. HoldsSeq(z, t) /\ z.i = m
  <2>1. CASE j > x.i
    <3>1. m = j /\ z = resize(x, j)
      BY <2>1
    <3> HIDE DEF z
    <3>2. HoldsSeq(z, t)
      BY <1>4, <3>1, ResizeHolds
    <3> QED BY <1>4, <3>1, <3>2 DEF HoldsSeq
  <2>2. CASE ~(j > x.i)
    <3>1. m = x.i /\ z = x
      BY <2>2
    <3> HIDE DEF z
    <3>2. \A k \in 1..x.i : x.d[k - 1] = t[k]
      <4>1. \A k \in 1..x.i : k <= x.i
        BY <1>2
      <4> QED BY <1>4, <3>1, <4>1 DEF HoldsSeq
    <3> QED BY <1>4, <3>1, <3>2 DEF HoldsSeq
  <2> QED BY <2>1, <2>2
<1> HIDE DEF z
<1>6. m + Len(u) <= MaxSlots
  <2>1. z \in Arrays
    BY <1>5 DEF HoldsSeq, IsArray
  <2>2. PICK N, D : y \in [i : {m}, n : N, d : D]
    BY <1>5, <2>1, ReserveKeeps
  <2> HIDE DEF y
  <2>3. PICK E : w \in [i : {m}, n : N, d : E]
    <3>1. PICK e : e = memmove(y.d, j + Len(u), j, IF j < y.i THEN y.i - j ELSE 0)
      OBVIOUS
    <3>2. w = [y EXCEPT !.d = e]
      BY <3>1
    <3>3. w \in [i : {m}, n : N, d : {e}]
      BY <2>2, <3>2
    <3> QED BY <3>3
  <2> HIDE DEF w
  <2>4. v.i = m + Len(u)
    <3>1. PICK e : e = memcpy(w.d, j, u)
      OBVIOUS
    <3>2. w.i = m
      BY <2>3
    <3>3. v = [w EXCEPT !.d = e, !.i = m + Len(u)]
      BY <3>1, <3>2
    <3> HIDE DEF v
    <3> QED BY <2>3, <3>3
  <2> QED BY <1>1, <2>4
<1>7. HoldsSeq(y, t) /\ m + Len(u) <= y.n
  <2>1. PICK l \in Int : l = Len(u)
    BY <1>2
  <2>2. z.i + l <= MaxSlots
    BY <1>5, <1>6, <2>1
  <2>3. HoldsSeq(reserve(z, l), t) /\ z.i + l <= reserve(z, l).n
    BY <1>5, <2>2, ReserveHolds
  <2> QED BY <1>5, <2>1, <2>3
<1> HIDE DEF y
<1>8. y.i = m /\ j <= m
  BY <1>2, <1>4, <1>7 DEF HoldsSeq
<1>9. w = [y EXCEPT !.d = memmove(@, j + Len(u), j, y.i - j)]
  <2>1. (IF j < y.i THEN y.i - j ELSE 0) = y.i - j
    BY <1>2, <1>8
  <2> QED BY <2>1, Zenon
<1> HIDE DEF w
<1>10. \A k \in 1..Len(r) :
         r[k] = IF k <= j THEN t[k] ELSE IF k <= j + Len(u) THEN u[k - j] ELSE t[k - Len(u)]
  <2> SUFFICES ASSUME NEW k \in 1..Len(r)
               PROVE  r[k] = IF k <= j THEN t[k]
                             ELSE IF k <= j + Len(u) THEN u[k - j] ELSE t[k - Len(u)]
    OBVIOUS
  <2>1. PICK l \in Nat, i \in Nat : l = Len(u) /\ i = x.i
    BY <1>2
  <2>2. k \in Nat /\ 1 <= k /\ k <= m + l
    BY <2>1
  <2>3. r[k] = IF k <= j THEN IF k <= i THEN s[k] ELSE 0
               ELSE IF k <= j + l THEN u[k - j] ELSE s[k - l]
    BY <1>3, <2>1 DEF Inserted
  <2>4. CASE k <= j
    <3>1. k \in 1..m
      BY <1>2, <1>8, <2>2, <2>4
    <3> QED BY <1>4, <2>1, <2>3, <2>4, <3>1
  <2>5. CASE ~(k <= j) /\ k <= j + l
    BY <2>1, <2>3, <2>5
  <2>6. CASE ~(k <= j) /\ ~(k <= j + l)
    <3>1. m = i
      BY <1>2, <2>1, <2>2, <2>6
    <3>2. k - l \in 1..m /\ k - l <= i
      BY <1>2, <2>2, <2>6, <3>1
    <3>3. t[k - l] = s[k - l]
      BY <1>4, <2>1, <3>2
    <3> QED BY <2>1, <2>3, <2>6, <3>3
  <2> QED BY <2>4, <2>5, <2>6
<1> HIDE DEF v
<1>11. /\ j \in 0..y.i /\ y.i + Len(u) <= y.n /\ Spliced(r, t, j, u)
       /\ v = Put(Opened(y, j, u), j, u)
  BY <1>2, <1>4, <1>7, <1>8, <1>9, <1>10 DEF v, Spliced, Put, Opened
<1>12. HoldsSeq(v, r)
  BY <1>7, <1>11, RoomHolds
<1> QED BY <1>1, <1>12

LEMMA EraseHolds ==
  ASSUME NEW x, NEW s, HoldsSeq(x, s), NEW pos \in Nat, NEW len \in Nat, pos + len <= x.i,
         NEW r \in Seq(Ints), Len(r) = x.i - len,
         \A k \in 1..Len(r) : r[k] = IF k <= pos THEN s[k] ELSE s[k + len]
  PROVE  HoldsSeq(erase(x, pos, len), r)
<1>1. /\ x \in Arrays /\ x.i \in Nat /\ x.n \in Nat /\ x.i <= x.n
      /\ x.d \in [0..(x.n - 1) -> Ints]
  BY DEF HoldsSeq, IsArray, Arrays
<1>2. PICK i \in Nat, n \in Nat, e \in [0..(x.n - 1) -> Ints] : i = x.i /\ n = x.n /\ e = x.d
  BY <1>1
<1> DEFINE d == IF i > pos + len THEN memmove(e, pos, pos + len, i - (pos + len)) ELSE e
           z == erase(x, pos, len)
<1>3. i <= n /\ pos + len <= i /\ e \in [0..(n - 1) -> Ints] /\ i - len \in Nat
  BY <1>1, <1>2
<1>4. /\ d \in [0..(n - 1) -> Ints]
      /\ \A k \in 0..(n - 1) :
           k < i - len => d[k] = IF k < pos THEN e[k] ELSE e[k + len]
  <2>1. CASE i > pos + len
    <3>1. PICK from \in Nat, l \in Nat : from = pos + len /\ l = i - (pos + len)
      BY <2>1
    <3>2. pos + l <= n /\ from + l <= n
      BY <1>3, <3>1
    <3>3. d = memmove(e, pos, from, l)
      BY <2>1, <3>1
    <3> HIDE DEF d
    <3>4. memmove(e, pos, from, l) = Shifted(e, n, pos, from, l)
      BY <1>3, <3>2, Moves, SMTT(30)
    <3>5. d \in [0..(n - 1) -> Ints]
      BY <1>3, <3>2, <3>3, Moves
    <3>6. ASSUME NEW k \in 0..(n - 1), k < i - len
          PROVE  d[k] = IF k < pos THEN e[k] ELSE e[k + len]
      <4>1. d[k] = IF pos <= k /\ k < pos + l THEN e[from + (k - pos)] ELSE e[k]
        BY <3>3, <3>4 DEF Shifted
      <4>2. pos <= k => k < pos + l /\ from + (k - pos) = k + len
        BY <1>3, <3>1, <3>6
      <4>3. pos <= k <=> ~(k < pos)
        OBVIOUS
      <4> QED BY <4>1, <4>2, <4>3
    <3> QED BY <3>5, <3>6
  <2>2. CASE ~(i > pos + len)
    <3>1. d = e
      BY <2>2
    <3> HIDE DEF d
    <3>2. ASSUME NEW k \in 0..(n - 1), k < i - len PROVE k < pos
      BY <1>3, <2>2, <3>2
    <3> QED BY <1>3, <3>1, <3>2
  <2> QED BY <2>1, <2>2
<1>5. z = [x EXCEPT !.d = d, !.i = i - len]
  BY <1>2, Zenon DEF erase
<1> HIDE DEF d, z
<1>6. z.i = i - len /\ z.n = n /\ z.d = d /\ z \in Arrays
  <2>1. d \in UNION {[0..(m - 1) -> Ints] : m \in Nat}
    BY <1>4, Zenon
  <2> QED BY <1>1, <1>2, <1>3, <1>5, <2>1 DEF Arrays
<1>7. IsArray(z)
  BY <1>3, <1>4, <1>6 DEF IsArray
<1>8. ASSUME NEW k \in 1..(i - len) PROVE z.d[k - 1] = r[k]
  <2>1. k - 1 \in 0..(n - 1) /\ k - 1 < i - len /\ k \in Nat /\ k \in 1..Len(r)
    BY <1>2, <1>3
  <2>2. r[k] = IF k <= pos THEN s[k] ELSE s[k + len]
    BY <2>1
  <2>3. d[k - 1] = IF k - 1 < pos THEN e[k - 1] ELSE e[(k - 1) + len]
    BY <1>4, <2>1
  <2>4. \A m \in 1..i : e[m - 1] = s[m]
    BY <1>2 DEF HoldsSeq
  <2>5. k \in 1..i /\ k + len \in 1..i /\ (k + len) - 1 = (k - 1) + len
    BY <1>3, <2>1
  <2>6. k - 1 < pos <=> k <= pos
    BY <2>1
  <2> QED BY <1>6, <2>2, <2>3, <2>4, <2>5, <2>6
<1>9. HoldsSeq(z, r)
  BY <1>2, <1>6, <1>7, <1>8 DEF HoldsSeq
<1> QED BY <1>9 DEF z

\* The sequence that the calls make, element by element
LEMMA FirstOf ==
  ASSUME NEW s \in Seq(Ints), NEW n \in 0..Len(s)
  PROVE  /\ SubSeq(s, 1, n) \in Seq(Ints) /\ Len(SubSeq(s, 1, n)) = n
         /\ \A k \in 1..n : SubSeq(s, 1, n)[k] = s[k]
<1>1. PICK l \in Nat : l = Len(s)
  BY LenProperties
<1>2. \A k \in 1..n : s[k] \in Ints
  BY <1>1, ElementOfSeq
<1>3. /\ SubSeq(s, 1, n) \in Seq(Ints) /\ Len(SubSeq(s, 1, n)) = IF 1 <= n THEN n - 1 + 1 ELSE 0
      /\ \A k \in 1..(n - 1 + 1) : SubSeq(s, 1, n)[k] = s[1 + k - 1]
  BY <1>1, <1>2, SubSeqProperties
<1> QED BY <1>1, <1>3

LEMMA RestOf ==
  ASSUME NEW s \in Seq(Ints), NEW m \in Nat
  PROVE  /\ SubSeq(s, m + 1, Len(s)) \in Seq(Ints)
         /\ Len(SubSeq(s, m + 1, Len(s))) = IF m <= Len(s) THEN Len(s) - m ELSE 0
         /\ \A k \in 1..(Len(s) - m) : SubSeq(s, m + 1, Len(s))[k] = s[k + m]
<1>1. PICK l \in Nat : l = Len(s)
  BY LenProperties
<1>2. \A k \in (m + 1)..l : s[k] \in Ints
  <2> SUFFICES ASSUME NEW k \in (m + 1)..l PROVE s[k] \in Ints
    OBVIOUS
  <2>1. k \in 1..Len(s)
    BY <1>1
  <2> QED BY <2>1, ElementOfSeq
<1>3. PICK f \in Int : f = m + 1
  OBVIOUS
<1>4. /\ SubSeq(s, f, l) \in Seq(Ints) /\ Len(SubSeq(s, f, l)) = IF f <= l THEN l - f + 1 ELSE 0
      /\ \A k \in 1..(l - f + 1) : SubSeq(s, f, l)[k] = s[f + k - 1]
  BY <1>2, <1>3, SubSeqProperties
<1>5. \A k \in 1..(l - m) : SubSeq(s, f, l)[k] = s[k + m]
  <2> SUFFICES ASSUME NEW k \in 1..(l - m) PROVE SubSeq(s, f, l)[k] = s[k + m]
    OBVIOUS
  <2>1. k \in 1..(l - f + 1) /\ f + k - 1 = k + m
    BY <1>3
  <2> QED BY <1>4, <2>1
<1>6. Len(SubSeq(s, f, l)) = IF m <= l THEN l - m ELSE 0
  BY <1>3, <1>4
<1> QED BY <1>1, <1>3, <1>4, <1>5, <1>6

LEMMA FilledUp ==
  ASSUME items \in Seq(Ints), NEW num \in Nat
  PROVE  /\ SubSeq(filled(num), 1, num) \in Seq(Ints) /\ Len(SubSeq(filled(num), 1, num)) = num
         /\ \A k \in 1..num :
              SubSeq(filled(num), 1, num)[k] = IF k <= Len(items) THEN items[k] ELSE 0
<1>1. PICK l \in Nat : l = Len(items)
  BY LenProperties
<1> DEFINE zs == [k \in 1..(num - Len(items)) |-> 0]
<1>2. PICK n \in Nat : n = IF num <= l THEN 0 ELSE num - l
  <2>1. (IF num <= l THEN 0 ELSE num - l) \in Nat
    OBVIOUS
  <2> QED BY <2>1, Zenon
<1>3. zs \in Seq(Ints) /\ Len(zs) = n /\ \A k \in 1..n : zs[k] = 0
  <2>1. 1..(num - Len(items)) = 1..n
    BY <1>1, <1>2
  <2>2. zs = [k \in 1..n |-> 0]
    BY <2>1
  <2> HIDE DEF zs
  <2> QED BY <2>2, Zeros
<1>4. filled(num) = items \o zs
  BY Zenon DEF filled
<1> HIDE DEF zs
<1>5. /\ filled(num) \in Seq(Ints) /\ Len(filled(num)) = l + n
      /\ \A k \in 1..(l + n) : filled(num)[k] = IF k <= l THEN items[k] ELSE zs[k - l]
  <2>1. PICK u \in Seq(Ints), v \in Seq(Ints) : u = items /\ v = zs
    BY <1>3
  <2>2. /\ u \o v \in Seq(Ints) /\ Len(u \o v) = Len(u) + Len(v)
        /\ \A k \in 1..(Len(u) + Len(v)) : (u \o v)[k] = IF k <= Len(u) THEN u[k] ELSE v[k - Len(u)]
    BY ConcatProperties
  <2> QED BY <1>1, <1>3, <1>4, <2>1, <2>2
<1>6. num \in 0..Len(filled(num))
  BY <1>2, <1>5
<1>7. /\ SubSeq(filled(num), 1, num) \in Seq(Ints) /\ Len(SubSeq(filled(num), 1, num)) = num
      /\ \A k \in 1..num : SubSeq(filled(num), 1, num)[k] = filled(num)[k]
  <2>1. PICK f \in Seq(Ints) : f = filled(num)
    BY <1>5
  <2> QED BY <1>6, <2>1, FirstOf
<1>8. ASSUME NEW k \in 1..num PROVE filled(num)[k] = IF k <= l THEN items[k] ELSE 0
  <2>1. k \in 1..(l + n) /\ (~(k <= l) => k - l \in 1..n)
    BY <1>2
  <2> QED BY <1>3, <1>5, <2>1
<1> QED BY <1>1, <1>7, <1>8

LEMMA NoneStored == <<>> \in Seq(Ints) /\ Len(<<>>) = 0
BY EmptySeq, Zenon

LEMMA EmptyHolds ==
  ASSUME NEW x, x \in {[a EXCEPT !.i = 0], [i |-> 0, n |-> 0, d |-> <<>>]}, a \in Arrays,
         a.d \in [0..(a.n - 1) -> Ints]
  PROVE  HoldsSeq(x, <<>>)
<1>1. <<>> \in Seq(Ints) /\ Len(<<>>) = 0
  BY NoneStored
<1>2. IsArray(x) /\ x.i = 0
  <2>1. CASE x = [a EXCEPT !.i = 0]
    BY <2>1 DEF IsArray, Arrays
  <2>2. CASE x = [i |-> 0, n |-> 0, d |-> <<>>]
    <3>1. <<>> \in [0..(0 - 1) -> Ints]
      OBVIOUS
    <3>2. <<>> \in UNION {[0..(m - 1) -> Ints] : m \in Nat}
      BY <3>1
    <3> QED BY <2>2, <3>1, <3>2 DEF IsArray, Arrays
  <2> QED BY <2>1, <2>2
<1> QED BY <1>1, <1>2 DEF HoldsSeq

LEMMA InsertStep ==
  ASSUME ArrayIInv, NEW s \in Seq(Ints), NEW j \in 0..MaxSlots, Insert(s, j), a'.i <= MaxSlots
  PROVE  HoldsSeq(a', items')
<1>1. CASE s = <<>>
  <2>1. a' = a /\ items' = items
    BY <1>1, Zenon DEF Insert, inserta
  <2> QED BY <2>1 DEF ArrayIInv
<1>2. CASE s # <<>>
  <2>1. a.i \in Nat /\ j \in Nat /\ items \in Seq(Ints) /\ Len(items) = a.i /\ HoldsSeq(a, items)
    BY ArrayAssumption DEF ArrayIInv, HoldsSeq, IsArray, Arrays
  <2>2. PICK i \in Nat, l \in Nat : i = a.i /\ l = Len(s)
    BY <2>1, LenProperties
  <2> DEFINE p == SubSeq(filled(j), 1, j)
             q == SubSeq(items, j + 1, Len(items))
             r == (p \o s) \o q
  <2>3. /\ p \in Seq(Ints) /\ Len(p) = j
        /\ \A k \in 1..j : p[k] = IF k <= Len(items) THEN items[k] ELSE 0
    BY <2>1, FilledUp
  <2>4. /\ q \in Seq(Ints) /\ Len(q) = IF j <= Len(items) THEN Len(items) - j ELSE 0
        /\ \A k \in 1..(Len(items) - j) : q[k] = items[k + j]
    BY <2>1, RestOf
  <2>5. items' = r
    BY <1>2, Zenon DEF Insert
  <2> HIDE DEF p, q
  <2>6. PICK b : b = p \o s
    OBVIOUS
  <2>7. /\ b \in Seq(Ints) /\ Len(b) = j + l
        /\ \A k \in 1..(j + l) : b[k] = IF k <= j THEN p[k] ELSE s[k - j]
    BY <2>2, <2>3, <2>6, ConcatProperties
  <2>8. PICK m \in Nat : m = IF j > i THEN j ELSE i
    <3>1. (IF j > i THEN j ELSE i) \in Nat
      BY <2>1
    <3> QED BY <3>1, Zenon
  <2>9. j + l + Len(q) = m + l /\ Len(q) = m - j
    <3>1. Len(q) = IF j <= i THEN i - j ELSE 0
      BY <2>1, <2>2, <2>4
    <3>2. j \in Nat /\ Len(q) = m - j
      BY <2>1, <2>8, <3>1
    <3> QED BY <3>2
  <2>10. /\ b \o q \in Seq(Ints) /\ Len(b \o q) = m + l
         /\ \A k \in 1..(m + l) : (b \o q)[k] = IF k <= j + l THEN b[k] ELSE q[k - (j + l)]
    <3>1. /\ b \o q \in Seq(Ints) /\ Len(b \o q) = Len(b) + Len(q)
          /\ \A k \in 1..(Len(b) + Len(q)) :
               (b \o q)[k] = IF k <= Len(b) THEN b[k] ELSE q[k - Len(b)]
      BY <2>4, <2>7, ConcatProperties
    <3> QED BY <2>7, <2>9, <3>1
  <2>11. r = b \o q
    BY <2>6
  <2> HIDE DEF r
  <2>12. ASSUME NEW k \in 1..Len(r)
         PROVE  r[k] = IF k <= j THEN IF k <= a.i THEN items[k] ELSE 0
                       ELSE IF k <= j + Len(s) THEN s[k - j] ELSE items[k - Len(s)]
    <3>1. k \in Nat /\ 1 <= k /\ k \in 1..(m + l)
      BY <2>10, <2>11
    <3>2. r[k] = IF k <= j + l THEN b[k] ELSE q[k - (j + l)]
      BY <2>10, <2>11, <3>1
    <3>3. CASE k <= j
      <4>1. k \in 1..j /\ k \in 1..(j + l) /\ k <= j + l
        BY <2>1, <3>1, <3>3
      <4>2. r[k] = p[k]
        BY <2>7, <3>2, <3>3, <4>1
      <4> QED BY <2>1, <2>3, <3>3, <4>1, <4>2
    <3>4. CASE ~(k <= j) /\ k <= j + l
      <4>1. k \in 1..(j + l)
        BY <3>1, <3>4
      <4> QED BY <2>2, <2>7, <3>2, <3>4, <4>1
    <3>5. CASE ~(k <= j) /\ ~(k <= j + l)
      <4>1. m = i /\ k - (j + l) \in 1..(i - j) /\ (k - (j + l)) + j = k - l
        BY <2>1, <2>8, <3>1, <3>5
      <4>2. q[k - (j + l)] = items[k - l]
        BY <2>1, <2>2, <2>4, <4>1
      <4> QED BY <2>2, <3>2, <3>5, <4>2
    <3> QED BY <3>3, <3>4, <3>5
  <2>13. a' = inserta(a, s, j)
    BY DEF Insert
  <2>14. /\ r \in Seq(Ints) /\ Len(r) = m + Len(s) /\ m = IF j > a.i THEN j ELSE a.i
         /\ inserta(a, s, j).i <= MaxSlots
    BY <2>2, <2>8, <2>10, <2>11, <2>13
  <2>15. HoldsSeq(inserta(a, s, j), r)
    <3>1. Inserted(r, items, j, s)
      BY <2>1, <2>12 DEF Inserted
    <3> QED BY <1>2, <2>1, <2>14, <3>1, InsertHolds
  <2> QED BY <2>5, <2>13, <2>15
<1> QED BY <1>1, <1>2

\* The calls of ArrayNext, one by one
LEMMA ArrayStep ==
  ASSUME ArrayIInv, ArrayNext PROVE HoldsSeq(a', items')
<1>1. /\ a \in Arrays /\ a.i \in Nat /\ a.i <= MaxSlots /\ a.d \in [0..(a.n - 1) -> Ints]
      /\ items \in Seq(Ints) /\ Len(items) = a.i /\ HoldsSeq(a, items)
      /\ MaxSlots \in Nat /\ 0 \in Ints
  BY ArrayAssumption DEF ArrayIInv, HoldsSeq, IsArray, Arrays
<1>2. a'.i <= MaxSlots
  BY DEF ArrayNext
<1>3. PICK i \in Nat : i = a.i
  BY <1>1
<1>4. ASSUME NEW p \in Ints, PushBack(p) PROVE HoldsSeq(a', items')
  <2>0. PICK r, u : r = Append(items, p) /\ u = <<p>>
    OBVIOUS
  <2>1. /\ r \in Seq(Ints) /\ Len(r) = i + 1 /\ r[i + 1] = p
        /\ \A k \in 1..i : r[k] = items[k]
    BY <1>1, <1>3, <2>0, AppendProperties
  <2>2. u \in Seq(Ints) /\ Len(u) = 1 /\ u # <<>> /\ u[1] = p
    BY <2>0
  <2>3. a' = inserta(a, u, i) /\ items' = r
    BY <1>3, <1>4, <2>0 DEF PushBack
  <2>4. PICK j \in 0..MaxSlots, m \in Nat : j = i /\ m = i
    BY <1>1, <1>3
  <2>5. ASSUME NEW k \in 1..Len(r)
        PROVE  r[k] = IF k <= j THEN IF k <= a.i THEN items[k] ELSE 0
                      ELSE IF k <= j + Len(u) THEN u[k - j] ELSE items[k - Len(u)]
    <3>1. CASE k <= j
      <4>1. k \in 1..i
        BY <2>4, <3>1
      <4> QED BY <1>3, <2>1, <2>4, <3>1, <4>1
    <3>2. CASE ~(k <= j)
      <4>1. k = i + 1 /\ k - j = 1
        BY <2>1, <2>4, <3>2
      <4> QED BY <2>1, <2>2, <2>4, <3>2, <4>1
    <3> QED BY <3>1, <3>2
  <2>6. /\ Len(r) = m + Len(u) /\ m = IF j > a.i THEN j ELSE a.i
        /\ a' = inserta(a, u, j) /\ inserta(a, u, j).i <= MaxSlots
    BY <1>2, <1>3, <2>1, <2>2, <2>3, <2>4
  <2>7. HoldsSeq(inserta(a, u, j), r)
    <3>1. Inserted(r, items, j, u)
      BY <1>1, <2>5 DEF Inserted
    <3> QED BY <1>1, <2>1, <2>2, <2>6, <3>1, InsertHolds
  <2> QED BY <2>3, <2>6, <2>7
<1>5. ASSUME ExtendBack PROVE HoldsSeq(a', items')
  <2> DEFINE r == Append(items, 0)
  <2>1. /\ r \in Seq(Ints) /\ Len(r) = i + 1 /\ r[i + 1] = 0
        /\ \A k \in 1..i : r[k] = items[k]
    BY <1>1, <1>3, AppendProperties
  <2>2. PICK num \in Nat : num = i + 1
    OBVIOUS
  <2>3. a' = resize(a, num) /\ items' = r
    BY <1>3, <1>5, <2>2 DEF ExtendBack
  <2>4. num <= MaxSlots
    <3>1. i < num /\ a.i < num
      BY <1>3, <2>2
    <3>2. PICK N, D : reserve(a, num - a.i) \in [i : {a.i}, n : N, d : D]
      BY <1>1, ReserveKeeps
    <3> DEFINE y == reserve(a, num - a.i)
    <3>3. resize(a, num) = [y EXCEPT !.d = memcpy(@, a.i, [k \in 1..(num - a.i) |-> 0]), !.i = num]
      BY <3>1, Zenon DEF resize
    <3> HIDE DEF y
    <3>4. PICK e : e = memcpy(y.d, a.i, [k \in 1..(num - a.i) |-> 0])
      OBVIOUS
    <3>5. resize(a, num) = [y EXCEPT !.d = e, !.i = num] /\ y \in [i : {a.i}, n : N, d : D]
      BY <3>2, <3>3, <3>4 DEF y
    <3>6. resize(a, num).i = num
      BY <3>5
    <3> QED BY <1>2, <2>3, <3>6
  <2> HIDE DEF r
  <2>5. \A k \in 1..num : r[k] = IF k <= a.i THEN items[k] ELSE 0
    <3> SUFFICES ASSUME NEW k \in 1..num PROVE r[k] = IF k <= i THEN items[k] ELSE 0
      BY <1>3
    <3>1. (k <= i => k \in 1..i) /\ (~(k <= i) => k = i + 1)
      BY <2>2
    <3> QED BY <2>1, <3>1
  <2>6. num \in 0..MaxSlots /\ Len(r) = num
    BY <1>1, <2>1, <2>2, <2>4
  <2>7. HoldsSeq(resize(a, num), r)
    BY <1>1, <2>1, <2>5, <2>6, ResizeHolds
  <2> QED BY <2>3, <2>7
<1>6. ASSUME PopBack PROVE HoldsSeq(a', items')
  <2>1. a.i > 0 /\ a' = [a EXCEPT !.i = a.i - 1] /\ items' = SubSeq(items, 1, Len(items) - 1)
    BY <1>6 DEF PopBack, Front
  <2>2. PICK n \in Nat : n = i - 1
    BY <1>3, <2>1
  <2>3. a'.i = n /\ a'.n = a.n /\ a'.d = a.d /\ a' \in Arrays
    BY <1>1, <1>3, <2>1, <2>2 DEF Arrays
  <2>4. a.i <= a.n /\ a.n \in Nat
    BY <1>1 DEF HoldsSeq, IsArray, Arrays
  <2>5. IsArray(a')
    BY <1>1, <1>3, <2>2, <2>3, <2>4 DEF IsArray
  <2>6. n \in 0..Len(items) /\ items' = SubSeq(items, 1, n)
    BY <1>1, <1>3, <2>1, <2>2
  <2>7. items' \in Seq(Ints) /\ Len(items') = n /\ \A k \in 1..n : items'[k] = items[k]
    BY <1>1, <2>6, FirstOf
  <2>8. \A k \in 1..n : k \in 1..a.i
    BY <1>3, <2>2
  <2> QED BY <1>1, <2>3, <2>5, <2>7, <2>8 DEF HoldsSeq
<1>7. ASSUME Empty PROVE HoldsSeq(a', items')
  BY <1>1, <1>7, EmptyHolds DEF Empty
<1>8. ASSUME NEW s \in {<<>>} \cup {<<p>> : p \in Ints} \cup {<<p, q>> : p \in Ints, q \in Ints},
             NEW j \in 0..MaxSlots, Insert(s, j)
      PROVE  HoldsSeq(a', items')
  <2>1. CASE s = <<>>
    <3>1. s \in Seq(Ints)
      BY <2>1, NoneStored
    <3> QED BY <1>2, <1>8, <3>1, InsertStep
  <2>2. ASSUME NEW p \in Ints, s = <<p>> PROVE s \in Seq(Ints)
    BY <2>2
  <2>3. ASSUME NEW p \in Ints, NEW q \in Ints, s = <<p, q>> PROVE s \in Seq(Ints)
    BY <2>3
  <2>4. CASE s # <<>>
    <3>1. s \in Seq(Ints)
      BY <2>2, <2>3, <2>4
    <3> QED BY <1>2, <1>8, <3>1, InsertStep
  <2> QED BY <2>1, <2>4
<1>9. ASSUME NEW num \in 0..MaxSlots, Resize(num) PROVE HoldsSeq(a', items')
  <2>1. num \in Nat
    BY <1>1
  <2>2. PICK r : r = SubSeq(filled(num), 1, num)
    OBVIOUS
  <2>3. /\ r \in Seq(Ints) /\ Len(r) = num
        /\ \A k \in 1..num : r[k] = IF k <= a.i THEN items[k] ELSE 0
    BY <1>1, <2>1, <2>2, FilledUp
  <2>4. a' = resize(a, num) /\ items' = r
    BY <1>9, <2>2 DEF Resize
  <2>5. HoldsSeq(resize(a, num), r)
    BY <1>1, <2>3, ResizeHolds
  <2> QED BY <2>4, <2>5
<1>10. ASSUME NEW pos \in 0..a.i, NEW len \in 0..a.i, Erase(pos, len)
       PROVE  HoldsSeq(a', items')
  <2>1. /\ pos \in Nat /\ len \in Nat /\ pos + len <= i /\ a' = erase(a, pos, len)
        /\ items' = SubSeq(items, 1, pos) \o SubSeq(items, pos + len + 1, Len(items))
    BY <1>3, <1>10 DEF Erase
  <2>2. PICK m \in Nat : m = pos + len
    BY <2>1
  <2>3. PICK p, q : p = SubSeq(items, 1, pos) /\ q = SubSeq(items, m + 1, Len(items))
    OBVIOUS
  <2>4. p \in Seq(Ints) /\ Len(p) = pos /\ \A k \in 1..pos : p[k] = items[k]
    <3>1. pos \in 0..Len(items)
      BY <1>1
    <3> QED BY <1>1, <2>3, <3>1, FirstOf
  <2>5. /\ q \in Seq(Ints) /\ Len(q) = i - m
        /\ \A k \in 1..(i - m) : q[k] = items[k + m]
    <3>1. /\ q \in Seq(Ints) /\ Len(q) = IF m <= Len(items) THEN Len(items) - m ELSE 0
          /\ \A k \in 1..(Len(items) - m) : q[k] = items[k + m]
      BY <1>1, <2>2, <2>3, RestOf
    <3> QED BY <1>1, <1>3, <2>1, <2>2, <3>1
  <2>6. items' = p \o q
    BY <2>1, <2>2, <2>3
  <2>7. /\ p \o q \in Seq(Ints) /\ Len(p \o q) = Len(p) + Len(q)
        /\ \A k \in 1..(Len(p) + Len(q)) :
             (p \o q)[k] = IF k <= Len(p) THEN p[k] ELSE q[k - Len(p)]
    BY <2>4, <2>5, ConcatProperties
  <2>8. PICK r : r = p \o q
    OBVIOUS
  <2>9. r \in Seq(Ints) /\ Len(r) = i - len
    BY <2>1, <2>2, <2>4, <2>5, <2>7, <2>8
  <2>10. ASSUME NEW k \in 1..Len(r) PROVE r[k] = IF k <= pos THEN items[k] ELSE items[k + len]
    <3>1. k \in 1..(Len(p) + Len(q)) /\ k \in Nat /\ 1 <= k /\ k <= i - len
      BY <2>1, <2>7, <2>8, <2>9
    <3>2. r[k] = IF k <= pos THEN p[k] ELSE q[k - pos]
      BY <2>4, <2>7, <2>8, <3>1
    <3>3. /\ k <= pos => k \in 1..pos
          /\ ~(k <= pos) => k - pos \in 1..(i - m) /\ (k - pos) + m = k + len
      BY <2>1, <2>2, <3>1
    <3> QED BY <2>4, <2>5, <3>2, <3>3
  <2>11. HoldsSeq(erase(a, pos, len), r)
    BY <1>1, <1>3, <2>1, <2>9, <2>10, EraseHolds
  <2> QED BY <2>1, <2>6, <2>8, <2>11
<1> QED BY <1>4, <1>5, <1>6, <1>7, <1>8, <1>9, <1>10 DEF ArrayNext

LEMMA ArrayInvariant == ArraySpec => []ArrayIInv
<1>1. ArrayInit => ArrayIInv
  <2> SUFFICES ASSUME ArrayInit PROVE ArrayIInv
    OBVIOUS
  <2>1. a = [i |-> 0, n |-> 0, d |-> <<>>] /\ items = <<>> /\ a.i <= MaxSlots
    BY ArrayAssumption DEF ArrayInit
  <2>2. <<>> \in [0..(0 - 1) -> Ints]
    OBVIOUS
  <2>3. <<>> \in UNION {[0..(m - 1) -> Ints] : m \in Nat}
    BY <2>2
  <2>4. a \in Arrays /\ a.d \in [0..(a.n - 1) -> Ints]
    BY <2>1, <2>2, <2>3 DEF Arrays
  <2> QED BY <2>1, <2>4, EmptyHolds DEF ArrayIInv
<1>2. ArrayIInv /\ [ArrayNext]_arrayVars => ArrayIInv'
  <2> SUFFICES ASSUME ArrayIInv, [ArrayNext]_arrayVars PROVE ArrayIInv'
    OBVIOUS
  <2>1. CASE ArrayNext
    <3>1. HoldsSeq(a', items') /\ a'.i <= MaxSlots
      BY <2>1, ArrayStep DEF ArrayNext
    <3> QED BY <3>1 DEF ArrayIInv, HoldsSeq, IsArray
  <2>2. CASE UNCHANGED arrayVars
    <3>1. a' = a /\ items' = items
      BY <2>2 DEF arrayVars
    <3> QED BY <3>1 DEF ArrayIInv, HoldsSeq, IsArray
  <2> QED BY <2>1, <2>2
<1> QED BY <1>1, <1>2, PTL DEF ArraySpec

\* The array and its history keep their types: d has n slots, all of them int.
THEOREM ArrayTyped == ArraySpec => []ArrayTypeOK
<1>1. ArrayIInv => ArrayTypeOK
  BY ArrayAssumption DEF ArrayIInv, HoldsSeq, IsArray, Arrays, ArrayTypeOK
<1> QED BY <1>1, ArrayInvariant, PTL

\* Through growth by any number of doublings and moves up and down, for any
\* elements and length, the slots in use hold what was stored, in its order
\* (utarray_reserve, utarray_inserta, utarray_erase).
THEOREM ArrayKeepsItems == ArraySpec => []ArrayHoldsItems
<1>1. ArrayIInv => ArrayHoldsItems
  <2> SUFFICES ASSUME ArrayIInv PROVE ArrayHoldsItems
    OBVIOUS
  <2>1. a.i \in Nat /\ a.i <= a.n /\ items \in Seq(Ints) /\ Len(items) = a.i
    BY DEF ArrayIInv, HoldsSeq, IsArray, Arrays
  <2>2. \A k \in 1..a.i : a.d[k - 1] = items[k]
    BY DEF ArrayIInv, HoldsSeq
  <2>3. items = [k \in 1..a.i |-> items[k]]
    BY <2>1, LenProperties
  <2>4. contents = items
    BY <2>2, <2>3, Zenon DEF contents
  <2> QED BY <2>1, <2>4 DEF ArrayHoldsItems
<1> QED BY <1>1, ArrayInvariant, PTL

----------------------------------------------------------------------------
\* The hash table.  First, recursive functions: f[0] = c, and f[k] is made of k
\* and f[k - 1].
Unrolls(f, N, c, F) == f = [k \in 0..N |-> IF k = 0 THEN c ELSE F[k][f[k - 1]]]

\* There is such a function, so a definition of that form has the values it asks for.
LEMMA Unrolled ==
  ASSUME NEW T, NEW c \in T, NEW F \in [Nat -> [T -> T]], NEW N \in Nat
  PROVE  \E f \in [0..N -> T] : Unrolls(f, N, c, F)
<1> DEFINE S == {n \in Nat : \E f \in [0..n -> T] : Unrolls(f, n, c, F)}
<1>1. 0 \in S
  <2> DEFINE f == [k \in 0..0 |-> c]
  <2>1. f \in [0..0 -> T] /\ \A k \in 0..0 : k = 0
    OBVIOUS
  <2>2. Unrolls(f, 0, c, F)
    BY <2>1 DEF Unrolls
  <2> QED BY <2>1, <2>2
<1>2. ASSUME NEW n \in S PROVE n + 1 \in S
  <2>1. n \in Nat /\ n + 1 \in Nat
    OBVIOUS
  <2>2. PICK g \in [0..n -> T] : Unrolls(g, n, c, F)
    OBVIOUS
  <2> DEFINE h == [k \in 0..(n + 1) |-> IF k <= n THEN g[k] ELSE F[n + 1][g[n]]]
  <2>3. h \in [0..(n + 1) -> T]
    <3>1. g[n] \in T /\ F[n + 1] \in [T -> T]
      BY <2>1
    <3>2. ASSUME NEW k \in 0..(n + 1) PROVE (IF k <= n THEN g[k] ELSE F[n + 1][g[n]]) \in T
      BY <2>1, <3>1
    <3> QED BY <3>2
  <2>4. ASSUME NEW k \in 0..(n + 1)
        PROVE  h[k] = IF k = 0 THEN c ELSE F[k][h[k - 1]]
    <3>1. \A j \in 0..n : g[j] = IF j = 0 THEN c ELSE F[j][g[j - 1]]
      BY <2>2 DEF Unrolls
    <3>2. CASE k <= n
      <4>1. k \in 0..n /\ (k # 0 => k - 1 \in 0..n /\ k - 1 \in 0..(n + 1) /\ k - 1 <= n)
        BY <2>1, <3>2
      <4>2. h[k] = g[k] /\ (k # 0 => h[k - 1] = g[k - 1])
        BY <3>2, <4>1
      <4> QED BY <3>1, <4>1, <4>2
    <3>3. CASE ~(k <= n)
      <4>1. k = n + 1 /\ k - 1 = n /\ n \in 0..(n + 1) /\ k # 0 /\ n <= n
        BY <2>1, <3>3
      <4>2. h[k - 1] = g[n]
        BY <4>1
      <4> QED BY <3>3, <4>1, <4>2
    <3> QED BY <3>2, <3>3
  <2> HIDE DEF h
  <2>5. h = [k \in 0..(n + 1) |-> h[k]]
    BY <2>3
  <2>6. Unrolls(h, n + 1, c, F)
    BY <2>4, <2>5 DEF Unrolls
  <2> QED BY <2>1, <2>3, <2>6
<1>3. S = Nat
  <2>1. S \in SUBSET Nat
    OBVIOUS
  <2> HIDE DEF S
  <2> QED BY <1>1, <1>2, <2>1, NatInduct
<1> QED BY <1>3

\* The bucket of a hash value among n is the one among 2n, reduced.
LEMMA Remainder ==
  ASSUME NEW x \in Nat, NEW n \in Nat \ {0}
  PROVE  /\ x % n \in 0..(n - 1) /\ x \div n \in Nat
         /\ x = n * (x \div n) + (x % n)
<1>1. x % n \in 0..(n - 1)
  BY SMT
<1>2. x = n * (x \div n) + (x % n)
  BY SMT
<1>3. x \div n \in Nat
  BY SMT
<1> QED BY <1>1, <1>2, <1>3

LEMMA RemainderOf ==
  ASSUME NEW q \in Nat, NEW r \in Nat, NEW n \in Nat \ {0}, r < n
  PROVE  (n * q + r) % n = r
BY SMT

LEMMA Halved ==
  ASSUME NEW x \in Nat, NEW n \in Nat \ {0}
  PROVE  (x % (2 * n)) % n = x % n
<1>1. PICK m \in Nat \ {0} : m = 2 * n
  OBVIOUS
<1>2. PICK q \in Nat, y \in Nat : x = m * q + y /\ y = x % m
  <2>1. /\ x % m \in 0..(m - 1) /\ x \div m \in Nat
        /\ x = m * (x \div m) + (x % m)
    BY Remainder
  <2>2. 0..(m - 1) \subseteq Nat
    OBVIOUS
  <2> QED BY <2>1, <2>2, Zenon
<1>3. PICK e \in Nat, r \in 0..(n - 1) : y = n * e + r /\ r = y % n
  <2>1. /\ y % n \in 0..(n - 1) /\ y \div n \in Nat
        /\ y = n * (y \div n) + (y % n)
    BY Remainder
  <2> QED BY <2>1, Zenon
<1>4. x = n * (2 * q + e) + r
  <2>1. (2 * n) * q = n * (2 * q)
    OBVIOUS
  <2>2. n * (2 * q + e) = n * (2 * q) + n * e
    OBVIOUS
  <2>3. x = (2 * n) * q + (n * e + r)
    BY <1>1, <1>2, <1>3, Zenon
  <2>4. PICK u \in Nat, v \in Nat : u = n * (2 * q) /\ v = n * e
    OBVIOUS
  <2>5. x = u + (v + r) /\ n * (2 * q + e) = u + v
    BY <2>1, <2>2, <2>3, <2>4, Zenon
  <2>6. u + (v + r) = (u + v) + r
    OBVIOUS
  <2> QED BY <2>5, <2>6, Zenon
<1>5. (n * (2 * q + e) + r) % n = r
  <2>1. 2 * q + e \in Nat /\ r \in Nat /\ r < n
    OBVIOUS
  <2> QED BY <2>1, RemainderOf
<1> QED BY <1>1, <1>2, <1>3, <1>4, <1>5, Zenon

\* A pass of the sort.  After k items p, q and r are like this, and the items
\* Given are those merged so far.
Merging(size, m, k) ==
  /\ m \in [p : Nat, q : Nat, r : Nat]
  /\ m.r - 2 * size <= m.p /\ m.p <= m.r - size /\ m.r - size <= m.q /\ m.q <= m.r
  /\ ~(m.p = m.r - size /\ m.q = m.r)
  /\ 2 * size < m.r /\ m.p + m.q = k + 1 + (m.r - size)

Given(size, m, x) == x < m.p \/ (m.r - size <= x /\ x < m.q)

source(s, size, m) == IF takesFirst(s, size, m) THEN m.p ELSE m.q

\* The item that is taken was not yet, and Given stays right.
LEMMA TakenOnce ==
  ASSUME NEW s \in Seq(Items), NEW size \in Nat \ {0}, NEW k \in Nat, NEW m, Merging(size, m, k)
  PROVE  /\ Merging(size, taken(s, size, m), k + 1)
         /\ source(s, size, m) \in Nat \ {0} /\ ~Given(size, m, source(s, size, m))
         /\ Given(size, taken(s, size, m), source(s, size, m))
         /\ \A x \in Nat : Given(size, m, x) => Given(size, taken(s, size, m), x)
         /\ k < Len(s) => source(s, size, m) <= Len(s)
<1>1. PICK p \in Nat, q \in Nat, r \in Nat : p = m.p /\ q = m.q /\ r = m.r
  BY DEF Merging
<1>2. m = [p |-> p, q |-> q, r |-> r]
  BY <1>1 DEF Merging
<1>3. /\ r - 2 * size <= p /\ p <= r - size /\ r - size <= q /\ q <= r
      /\ ~(p = r - size /\ q = r) /\ 2 * size < r /\ p + q = k + 1 + (r - size)
  BY <1>1 DEF Merging
<1>4. Len(s) \in Nat
  BY LenProperties
<1>5. PICK u \in Nat, v \in Nat, p2 \in Nat, q2 \in Nat, r2 \in Nat :
        /\ u = source(s, size, m) /\ taken(s, size, m) = [p |-> p2, q |-> q2, r |-> r2]
        /\ \/ p < r - size /\ u = p /\ v = p + 1 /\ IF v = r - size /\ q = r
              THEN p2 = r /\ q2 = r + size /\ r2 = r + 2 * size ELSE p2 = v /\ q2 = q /\ r2 = r
           \/ (p = r - size \/ (q # r /\ q <= Len(s)))
              /\ u = q /\ v = q + 1 /\ IF p = r - size /\ v = r
              THEN p2 = r /\ q2 = r + size /\ r2 = r + 2 * size ELSE p2 = p /\ q2 = v /\ r2 = r
  <2>1. /\ r + size \in Nat /\ r + 2 * size \in Nat /\ p + 1 \in Nat /\ q + 1 \in Nat
    OBVIOUS
  <2>2. CASE takesFirst(s, size, m)
    <3>1. p < r - size /\ source(s, size, m) = p
      BY <1>1, <2>2 DEF takesFirst, source
    <3>2. CASE p + 1 = r - size /\ q = r
      <4>1. taken(s, size, m) = [p |-> r, q |-> r + size, r |-> r + 2 * size]
        BY <1>2, <2>2, <3>2 DEF taken
      <4> QED BY <2>1, <3>1, <3>2, <4>1, Zenon
    <3>3. CASE ~(p + 1 = r - size /\ q = r)
      <4>1. taken(s, size, m) = [p |-> p + 1, q |-> q, r |-> r]
        BY <1>2, <2>2, <3>3 DEF taken
      <4> QED BY <2>1, <3>1, <3>3, <4>1, Zenon
    <3> QED BY <3>2, <3>3
  <2>3. CASE ~takesFirst(s, size, m)
    <3>1. source(s, size, m) = q /\ (p = r - size \/ (q # r /\ q <= Len(s)))
      BY <1>1, <1>3, <1>4, <2>3 DEF takesFirst, source
    <3>2. CASE p = r - size /\ q + 1 = r
      <4>1. taken(s, size, m) = [p |-> r, q |-> r + size, r |-> r + 2 * size]
        BY <1>2, <2>3, <3>2 DEF taken
      <4> QED BY <2>1, <3>1, <3>2, <4>1, Zenon
    <3>3. CASE ~(p = r - size /\ q + 1 = r)
      <4>1. taken(s, size, m) = [p |-> p, q |-> q + 1, r |-> r]
        BY <1>2, <2>3, <3>3 DEF taken
      <4> QED BY <2>1, <3>1, <3>3, <4>1, Zenon
    <3> QED BY <3>2, <3>3
  <2> QED BY <2>2, <2>3
<1>6. PICK y : y = [p |-> p2, q |-> q2, r |-> r2]
  OBVIOUS
<1>7. /\ y \in [p : Nat, q : Nat, r : Nat] /\ y.p = p2 /\ y.q = q2 /\ y.r = r2
      /\ taken(s, size, m) = y
  BY <1>5, <1>6
<1>8. Merging(size, y, k + 1)
  BY <1>3, <1>5, <1>7 DEF Merging
<1>9. /\ \A x \in Nat : Given(size, m, x) <=> (x < p \/ (r - size <= x /\ x < q))
      /\ \A x \in Nat : Given(size, y, x) <=> (x < p2 \/ (r2 - size <= x /\ x < q2))
  BY <1>1, <1>7, Zenon DEF Given
<1>10. /\ u # 0 /\ ~Given(size, m, u) /\ Given(size, y, u)
       /\ \A x \in Nat : Given(size, m, x) => Given(size, y, x)
  <2>1. u # 0 /\ ~(u < p \/ (r - size <= u /\ u < q)) /\ (u < p2 \/ (r2 - size <= u /\ u < q2))
    BY <1>3, <1>5
  <2>2. ASSUME NEW x \in Nat, x < p \/ (r - size <= x /\ x < q)
        PROVE  x < p2 \/ (r2 - size <= x /\ x < q2)
    BY <1>3, <1>5, <2>2
  <2> QED BY <1>9, <2>1, <2>2
<1>11. k < Len(s) => u <= Len(s)
  BY <1>3, <1>4, <1>5
<1> QED BY <1>5, <1>7, <1>8, <1>10, <1>11

\* Numbers up to n that are n different ones are all of them.
LEMMA InjectionOnto ==
  ASSUME NEW n \in Nat, NEW f \in [1..n -> 1..n], \A i, j \in 1..n : f[i] = f[j] => i = j
  PROVE  \A i \in 1..n : \E j \in 1..n : f[j] = i
<1>1. f \in Injection(1..n, 1..n)
  BY DEF Injection, IsInjective
<1>2. IsFiniteSet(1..n)
  BY FS_Interval
<1>3. f \in Surjection(1..n, 1..n)
  BY <1>1, <1>2, FS_Injection
<1> QED BY <1>3 DEF Surjection

\* t has the items of s, in some order.
Shuffles(t, s) ==
  /\ t \in Seq(Items) /\ Len(t) = Len(s) /\ Range(t) = Range(s)
  /\ \A i, j \in 1..Len(t) : t[i] = t[j] => i = j

LEMMA PassShuffles ==
  ASSUME NEW s \in Seq(Items), \A i, j \in 1..Len(s) : s[i] = s[j] => i = j, NEW size \in Nat \ {0}
  PROVE  Shuffles(pass(s, size), s)
<1> DEFINE c == [p |-> 1, q |-> 1 + size, r |-> 1 + 2 * size]
           Runs(f) == f = [k \in 0..Len(s) |-> IF k = 0 THEN c ELSE taken(s, size, f[k - 1])]
           at == CHOOSE f : Runs(f)
           N == Len(s)
<1>1. N \in Nat /\ Merging(size, c, 0)
  BY LenProperties DEF Merging
<1>2. pass(s, size) = [k \in 1..N |-> s[source(s, size, at[k - 1])]]
  BY Zenon DEF pass, source
<1>3. Runs(at)
  <2> DEFINE T == {m \in [p : Nat, q : Nat, r : Nat] : \E k \in Nat : Merging(size, m, k)}
             F == [k \in Nat |-> [m \in T |-> taken(s, size, m)]]
  <2>1. c \in T
    BY <1>1 DEF Merging
  <2>2. ASSUME NEW m \in T PROVE taken(s, size, m) \in T
    <3>1. PICK k \in Nat : Merging(size, m, k)
      OBVIOUS
    <3>2. Merging(size, taken(s, size, m), k + 1) /\ k + 1 \in Nat
      BY <3>1, TakenOnce
    <3> QED BY <3>2 DEF Merging
  <2> HIDE DEF T, c
  <2>3. F \in [Nat -> [T -> T]]
    BY <2>2
  <2>4. PICK f \in [0..N -> T] : Unrolls(f, N, c, F)
    BY <1>1, <2>1, <2>3, Unrolled
  <2>5. ASSUME NEW k \in 0..N PROVE f[k] = IF k = 0 THEN c ELSE taken(s, size, f[k - 1])
    <3>1. f[k] = IF k = 0 THEN c ELSE F[k][f[k - 1]]
      BY <2>4 DEF Unrolls
    <3>2. CASE k # 0
      <4>1. k - 1 \in 0..N /\ k \in Nat
        BY <1>1, <3>2
      <4> QED BY <3>1, <3>2, <4>1
    <3> QED BY <3>1, <3>2
  <2>6. f = [k \in 0..N |-> f[k]]
    OBVIOUS
  <2>7. Runs(f)
    BY <2>5, <2>6
  <2> QED BY <2>7, Zenon
<1> HIDE DEF at, c
<1>4. \A k \in 0..N : Merging(size, at[k], k)
  <2> DEFINE S == {k \in Nat : k <= N => Merging(size, at[k], k)}
  <2>1. 0 \in S
    BY <1>1, <1>3
  <2>2. ASSUME NEW k \in S PROVE k + 1 \in S
    <3> SUFFICES ASSUME k + 1 <= N PROVE Merging(size, at[k + 1], k + 1)
      OBVIOUS
    <3>1. Merging(size, at[k], k) /\ k \in Nat
      BY <1>1
    <3>2. at[k + 1] = taken(s, size, at[k])
      <4>1. k + 1 \in 0..N /\ k + 1 # 0 /\ (k + 1) - 1 = k
        BY <1>1, <3>1
      <4> QED BY <1>3, <4>1
    <3> QED BY <3>1, <3>2, TakenOnce
  <2> HIDE DEF S
  <2>3. S \in SUBSET Nat
    BY DEF S
  <2>4. S = Nat
    BY <2>1, <2>2, <2>3, NatInduct
  <2> QED BY <1>1, <2>4 DEF S
<1> DEFINE src == [k \in 1..N |-> source(s, size, at[k - 1])]
<1>5. ASSUME NEW k \in 1..N
      PROVE  /\ k - 1 \in 0..N /\ at[k] = taken(s, size, at[k - 1])
             /\ src[k] \in 1..N /\ ~Given(size, at[k - 1], src[k])
             /\ Given(size, at[k], src[k])
             /\ \A x \in Nat : Given(size, at[k - 1], x) => Given(size, at[k], x)
  <2>1. k - 1 \in 0..N /\ k - 1 \in Nat /\ k - 1 < N /\ k \in 0..N /\ k # 0
    BY <1>1
  <2>2. at[k] = taken(s, size, at[k - 1])
    BY <1>3, <2>1
  <2>3. Merging(size, at[k - 1], k - 1)
    BY <1>4, <2>1
  <2>4. src[k] = source(s, size, at[k - 1])
    OBVIOUS
  <2> HIDE DEF src
  <2>5. /\ source(s, size, at[k - 1]) \in Nat \ {0}
        /\ ~Given(size, at[k - 1], source(s, size, at[k - 1]))
        /\ Given(size, taken(s, size, at[k - 1]), source(s, size, at[k - 1]))
        /\ \A x \in Nat : Given(size, at[k - 1], x) => Given(size, taken(s, size, at[k - 1]), x)
        /\ source(s, size, at[k - 1]) <= N
    BY <2>1, <2>3, TakenOnce
  <2>6. src[k] \in 1..N
    BY <1>1, <2>4, <2>5
  <2> QED BY <2>1, <2>2, <2>4, <2>5, <2>6, Zenon
<1> HIDE DEF src
<1>6. \A i \in 1..N : \A k \in 0..N : i <= k => Given(size, at[k], src[i])
  <2> SUFFICES ASSUME NEW i \in 1..N PROVE \A k \in 0..N : i <= k => Given(size, at[k], src[i])
    OBVIOUS
  <2> DEFINE S == {k \in Nat : k <= N /\ i <= k => Given(size, at[k], src[i])}
  <2>1. 0 \in S
    OBVIOUS
  <2>2. ASSUME NEW k \in S PROVE k + 1 \in S
    <3> SUFFICES ASSUME k + 1 <= N, i <= k + 1 PROVE Given(size, at[k + 1], src[i])
      OBVIOUS
    <3>1. k \in Nat /\ k + 1 \in 1..N /\ (k + 1) - 1 = k
      BY <1>1
    <3>2. CASE i = k + 1
      BY <1>5, <3>2
    <3>3. CASE i # k + 1
      <4>1. i <= k /\ k <= N
        BY <1>1, <3>1, <3>3
      <4>2. Given(size, at[k], src[i])
        BY <4>1
      <4>3. src[i] \in Nat
        BY <1>5
      <4> QED BY <1>5, <3>1, <4>2, <4>3
    <3> QED BY <3>2, <3>3
  <2> HIDE DEF S
  <2>3. S \in SUBSET Nat
    BY DEF S
  <2>4. S = Nat
    BY <2>1, <2>2, <2>3, NatInduct
  <2> QED BY <1>1, <2>4 DEF S
<1>7. ASSUME NEW i \in 1..N, NEW j \in 1..N, src[i] = src[j], i < j PROVE FALSE
  <2>1. j - 1 \in 0..N /\ i <= j - 1
    BY <1>1, <1>7
  <2>2. Given(size, at[j - 1], src[i])
    BY <1>6, <2>1
  <2> QED BY <1>5, <1>7, <2>2
<1>8. \A i, j \in 1..N : src[i] = src[j] => i = j
  <2> SUFFICES ASSUME NEW i \in 1..N, NEW j \in 1..N, src[i] = src[j], i # j PROVE FALSE
    OBVIOUS
  <2>1. i < j \/ j < i
    BY <1>1
  <2> QED BY <1>7, <2>1
<1>9. src \in [1..N -> 1..N]
  <2>1. \A k \in 1..N : src[k] \in 1..N
    BY <1>5
  <2> QED BY <2>1 DEF src
<1>10. \A i \in 1..N : \E j \in 1..N : src[j] = i
  BY <1>1, <1>8, <1>9, InjectionOnto
<1> DEFINE t == pass(s, size)
<1>11. /\ t \in [1..N -> Items] /\ \A k \in 1..N : t[k] = s[src[k]]
  <2>1. t = [k \in 1..N |-> s[src[k]]]
    <3>1. \A k \in 1..N : src[k] = source(s, size, at[k - 1])
      BY DEF src
    <3> QED BY <1>2, <3>1
  <2>2. \A k \in 1..N : s[src[k]] \in Items
    BY <1>9, ElementOfSeq
  <2> HIDE DEF t
  <2> QED BY <2>1, <2>2
<1> HIDE DEF t
<1>12. t \in Seq(Items) /\ Len(t) = N
  BY <1>1, <1>11
<1>13. Range(t) = Range(s)
  <2>1. Range(t) = {t[k] : k \in 1..N} /\ Range(s) = {s[k] : k \in 1..N}
    BY <1>12, RangeEquality
  <2>2. ASSUME NEW k \in 1..N PROVE \E i \in 1..N : t[k] = s[i]
    BY <1>9, <1>11
  <2>3. ASSUME NEW k \in 1..N PROVE \E i \in 1..N : t[i] = s[k]
    BY <1>10, <1>11
  <2>4. ASSUME NEW x PROVE x \in Range(t) <=> x \in Range(s)
    <3>1. x \in Range(t) => \E k \in 1..N : x = t[k]
      BY <2>1
    <3>2. x \in Range(s) => \E k \in 1..N : x = s[k]
      BY <2>1
    <3>3. \A k \in 1..N : t[k] \in Range(t) /\ s[k] \in Range(s)
      BY <2>1
    <3>4. ASSUME x \in Range(t) PROVE x \in Range(s)
      <4>1. PICK k \in 1..N : x = t[k]
        BY <3>1, <3>4
      <4>2. PICK i \in 1..N : t[k] = s[i]
        BY <2>2
      <4> QED BY <3>3, <4>1, <4>2
    <3>5. ASSUME x \in Range(s) PROVE x \in Range(t)
      <4>1. PICK k \in 1..N : x = s[k]
        BY <3>2, <3>5
      <4>2. PICK i \in 1..N : t[i] = s[k]
        BY <2>3
      <4> QED BY <3>3, <4>1, <4>2
    <3> QED BY <3>4, <3>5
  <2> QED BY <2>4
<1>14. \A i, j \in 1..N : t[i] = t[j] => i = j
  BY <1>8, <1>9, <1>11
<1> QED BY <1>12, <1>13, <1>14 DEF Shuffles, t

\* Sorting neither loses an item nor takes one twice.
LEMMA SortShuffles ==
  ASSUME NEW s \in Seq(Items), \A i, j \in 1..Len(s) : s[i] = s[j] => i = j
  PROVE  Shuffles(sort(s), s)
<1> DEFINE again(l) ==
             IF l.size < Len(s) THEN [of |-> pass(l.of, l.size), size |-> 2 * l.size] ELSE l
           c == [of |-> s, size |-> 1]
           Runs(f) == f = [k \in 0..Len(s) |-> IF k = 0 THEN c ELSE again(f[k - 1])]
           run == CHOOSE f : Runs(f)
           N == Len(s)
           T == {l \in [of : Seq(Items), size : Nat \ {0}] : Shuffles(l.of, s)}
<1>1. N \in Nat
  BY LenProperties
<1>2. sort(s) = run[N].of
  BY Zenon DEF sort
<1>3. c \in T
  <2>1. Shuffles(s, s)
    BY DEF Shuffles
  <2> QED BY <2>1
<1>4. ASSUME NEW l \in T PROVE again(l) \in T
  <2>1. CASE l.size < Len(s)
    <3>1. /\ l.of \in Seq(Items) /\ Len(l.of) = Len(s) /\ Range(l.of) = Range(s)
          /\ \A i, j \in 1..Len(l.of) : l.of[i] = l.of[j] => i = j
      BY DEF Shuffles
    <3>2. l.size \in Nat \ {0} /\ 2 * l.size \in Nat \ {0}
      OBVIOUS
    <3>3. Shuffles(pass(l.of, l.size), l.of)
      BY <3>1, <3>2, PassShuffles
    <3>4. Shuffles(pass(l.of, l.size), s) /\ pass(l.of, l.size) \in Seq(Items)
      BY <3>1, <3>3 DEF Shuffles
    <3> QED BY <2>1, <3>2, <3>4
  <2>2. CASE ~(l.size < Len(s))
    BY <2>2
  <2> QED BY <2>1, <2>2
<1> HIDE DEF T, c, again
<1>5. Runs(run)
  <2> DEFINE F == [k \in Nat |-> [m \in T |-> again(m)]]
  <2>1. F \in [Nat -> [T -> T]]
    BY <1>4
  <2>2. PICK f \in [0..N -> T] : Unrolls(f, N, c, F)
    BY <1>1, <1>3, <2>1, Unrolled
  <2>3. ASSUME NEW k \in 0..N PROVE f[k] = IF k = 0 THEN c ELSE again(f[k - 1])
    <3>1. f[k] = IF k = 0 THEN c ELSE F[k][f[k - 1]]
      BY <2>2 DEF Unrolls
    <3>2. CASE k # 0
      <4>1. k - 1 \in 0..N /\ k \in Nat
        BY <1>1, <3>2
      <4> QED BY <3>1, <3>2, <4>1
    <3> QED BY <3>1, <3>2
  <2>4. f = [k \in 0..N |-> f[k]]
    OBVIOUS
  <2>5. Runs(f)
    BY <2>3, <2>4
  <2> QED BY <2>5, Zenon
<1> HIDE DEF run
<1>6. N \in {k \in Nat : k <= N => run[k] \in T}
  <2> DEFINE S == {k \in Nat : k <= N => run[k] \in T}
  <2>1. 0 \in S
    BY <1>1, <1>3, <1>5
  <2>2. ASSUME NEW k \in S PROVE k + 1 \in S
    <3> SUFFICES ASSUME k + 1 <= N PROVE run[k + 1] \in T
      OBVIOUS
    <3>1. run[k] \in T /\ k + 1 \in 0..N /\ k + 1 # 0 /\ (k + 1) - 1 = k
      BY <1>1
    <3>2. run[k + 1] = again(run[k])
      BY <1>5, <3>1
    <3> QED BY <1>4, <3>1, <3>2
  <2> HIDE DEF S
  <2>3. S \in SUBSET Nat
    BY DEF S
  <2>4. S = Nat
    BY <2>1, <2>2, <2>3, NatInduct
  <2> QED BY <1>1, <2>4 DEF S
<1>7. run[N] \in T
  BY <1>1, <1>6
<1> QED BY <1>2, <1>7 DEF T

\* A chain that holds the items of T, and a table of n buckets for those of S
Chain(c, T) ==
  /\ c \in Seq(Items) /\ Range(c) = T
  /\ \A i, j \in 1..Len(c) : c[i] = c[j] => i = j

LEMMA ChainItems ==
  ASSUME NEW c \in Seq(Items)
  PROVE  /\ Len(c) \in Nat /\ DOMAIN c = 1..Len(c)
         /\ \A k \in 1..Len(c) : c[k] \in Items /\ c[k] \in Range(c)
         /\ \A x : x \in Range(c) => \E k \in 1..Len(c) : x = c[k]
<1>1. Len(c) \in Nat /\ DOMAIN c = 1..Len(c) /\ Range(c) = {c[k] : k \in 1..Len(c)}
  BY LenProperties, RangeEquality
<1>2. \A k \in 1..Len(c) : c[k] \in Items
  BY ElementOfSeq
<1> QED BY <1>1, <1>2

LEMMA NoChain == Chain(<<>>, {})
<1>1. <<>> \in Seq(Items) /\ Len(<<>>) = 0
  OBVIOUS
<1>2. Range(<<>>) = {}
  <2>1. ASSUME NEW x, x \in Range(<<>>) PROVE FALSE
    <3>1. PICK k \in 1..Len(<<>>) : x = <<>>[k]
      BY <1>1, <2>1, ChainItems
    <3> QED BY <1>1, <3>1
  <2> QED BY <2>1
<1> QED BY <1>1, <1>2 DEF Chain

\* One more item in front
LEMMA Longer ==
  ASSUME NEW c, NEW T, Chain(c, T), NEW i \in Items, i \notin T
  PROVE  Chain(<<i>> \o c, T \cup {i})
<1> DEFINE d == <<i>> \o c
<1>1. c \in Seq(Items) /\ <<i>> \in Seq(Items) /\ Len(<<i>>) = 1 /\ <<i>>[1] = i
  BY DEF Chain
<1>2. Len(c) \in Nat
  BY <1>1, LenProperties
<1>3. /\ d \in Seq(Items) /\ Len(d) = 1 + Len(c)
      /\ \A k \in 1..(1 + Len(c)) : d[k] = IF k <= 1 THEN i ELSE c[k - 1]
  BY <1>1, ConcatProperties
<1> HIDE DEF d
<1>4. \A k \in 1..Len(d) : k # 1 => k - 1 \in 1..Len(c) /\ d[k] = c[k - 1] /\ d[k] \in T
  BY <1>1, <1>2, <1>3, ChainItems DEF Chain
<1>5. d[1] = i /\ 1 \in 1..Len(d)
  BY <1>2, <1>3
<1>6. ASSUME NEW j \in 1..Len(d), NEW k \in 1..Len(d), d[j] = d[k] PROVE j = k
  <2>1. CASE j = 1 \/ k = 1
    BY <1>4, <1>5, <1>6, <2>1
  <2>2. CASE j # 1 /\ k # 1
    <3>1. j - 1 \in 1..Len(c) /\ k - 1 \in 1..Len(c) /\ c[j - 1] = c[k - 1]
      BY <1>4, <1>6, <2>2
    <3>2. j - 1 = k - 1
      BY <3>1 DEF Chain
    <3> QED BY <1>2, <1>3, <3>2
  <2> QED BY <2>1, <2>2
<1>7. ASSUME NEW x PROVE x \in Range(d) <=> x \in T \cup {i}
  <2>1. ASSUME x \in Range(d) PROVE x \in T \cup {i}
    BY <1>3, <1>4, <1>5, <2>1, ChainItems
  <2>2. ASSUME x \in T PROVE x \in Range(d)
    <3>1. PICK k \in 1..Len(c) : x = c[k]
      BY <1>1, <2>2, ChainItems DEF Chain
    <3>2. k + 1 \in 1..Len(d) /\ d[k + 1] = c[k]
      BY <1>2, <1>3
    <3> QED BY <1>3, <3>1, <3>2, ChainItems
  <2>3. i \in Range(d)
    BY <1>3, <1>5, ChainItems
  <2> QED BY <2>1, <2>2, <2>3
<1> QED BY <1>3, <1>6, <1>7 DEF Chain, d

\* The items of a chain that go to bucket b when there are twice as many
LEMMA SplitHolds ==
  ASSUME NEW c, NEW T, Chain(c, T), NEW n, NEW b
  PROVE  Chain(split(c, n, b), {i \in T : bucket(i, 2 * n) = b})
<1> DEFINE Runs(f) == f = [k \in 0..Len(c) |->
             IF k = 0 THEN <<>>
             ELSE IF bucket(c[k], 2 * n) = b THEN <<c[k]>> \o f[k - 1] ELSE f[k - 1]]
           moved == CHOOSE f : Runs(f)
           N == Len(c)
           Seen(k) == {i \in T : bucket(i, 2 * n) = b /\ \E j \in 1..k : i = c[j]}
<1>1. N \in Nat /\ c \in Seq(Items)
  BY LenProperties DEF Chain
<1>2. split(c, n, b) = moved[N]
  BY Zenon DEF split
<1>3. Runs(moved)
  <2> DEFINE F == [k \in Nat |-> [m \in Seq(Items) |->
                     IF k \in 1..N /\ bucket(c[k], 2 * n) = b THEN <<c[k]>> \o m ELSE m]]
  <2>1. F \in [Nat -> [Seq(Items) -> Seq(Items)]]
    <3>1. ASSUME NEW k \in Nat, NEW m \in Seq(Items)
          PROVE  (IF k \in 1..N /\ bucket(c[k], 2 * n) = b THEN <<c[k]>> \o m ELSE m) \in Seq(Items)
      <4>1. CASE k \in 1..N
        <5>1. <<c[k]>> \in Seq(Items)
          BY <1>1, <4>1, ElementOfSeq
        <5>2. <<c[k]>> \o m \in Seq(Items)
          BY <5>1, ConcatProperties
        <5> QED BY <5>2
      <4>2. CASE k \notin 1..N
        BY <4>2
      <4> QED BY <4>1, <4>2
    <3> QED BY <3>1
  <2>2. <<>> \in Seq(Items)
    BY NoChain DEF Chain
  <2>3. PICK f \in [0..N -> Seq(Items)] : Unrolls(f, N, <<>>, F)
    BY <1>1, <2>1, <2>2, Unrolled
  <2>4. ASSUME NEW k \in 0..N
        PROVE  f[k] = IF k = 0 THEN <<>>
                      ELSE IF bucket(c[k], 2 * n) = b THEN <<c[k]>> \o f[k - 1] ELSE f[k - 1]
    <3>1. f[k] = IF k = 0 THEN <<>> ELSE F[k][f[k - 1]]
      BY <2>3 DEF Unrolls
    <3>2. CASE k # 0
      <4>1. k - 1 \in 0..N /\ k \in Nat /\ k \in 1..N
        BY <1>1, <3>2
      <4>2. f[k - 1] \in Seq(Items)
        BY <4>1
      <4> QED BY <3>1, <3>2, <4>1, <4>2
    <3> QED BY <3>1, <3>2
  <2>5. f = [k \in 0..N |-> f[k]]
    OBVIOUS
  <2>6. Runs(f)
    BY <2>4, <2>5, Zenon
  <2> QED BY <2>6, Zenon
<1> HIDE DEF moved
<1>4. N \in {k \in Nat : k <= N => Chain(moved[k], Seen(k))}
  <2> DEFINE S == {k \in Nat : k <= N => Chain(moved[k], Seen(k))}
  <2>1. 0 \in S
    <3>1. moved[0] = <<>> /\ Seen(0) = {}
      BY <1>1, <1>3
    <3> QED BY <3>1, NoChain
  <2>2. ASSUME NEW k \in S PROVE k + 1 \in S
    <3> SUFFICES ASSUME k + 1 <= N PROVE Chain(moved[k + 1], Seen(k + 1))
      OBVIOUS
    <3>1. k \in Nat /\ k + 1 \in 1..N /\ k + 1 \in 0..N /\ k + 1 # 0 /\ (k + 1) - 1 = k
      BY <1>1
    <3>2. Chain(moved[k], Seen(k))
      BY <1>1
    <3>3. c[k + 1] \in T /\ c[k + 1] \in Items
      BY <1>1, <3>1, ChainItems DEF Chain
    <3>4. c[k + 1] \notin Seen(k)
      <4>1. \A j \in 1..k : j \in 1..N /\ j # k + 1
        BY <1>1, <3>1
      <4> QED BY <3>1, <4>1 DEF Chain
    <3>5. moved[k + 1] = IF bucket(c[k + 1], 2 * n) = b THEN <<c[k + 1]>> \o moved[k] ELSE moved[k]
      BY <1>3, <3>1
    <3>6. \A j : j \in 1..(k + 1) <=> (j \in 1..k \/ j = k + 1)
      BY <3>1
    <3>7. CASE bucket(c[k + 1], 2 * n) = b
      <4>1. Seen(k + 1) = Seen(k) \cup {c[k + 1]}
        BY <3>3, <3>6, <3>7
      <4> HIDE DEF Seen
      <4> QED BY <3>2, <3>3, <3>4, <3>5, <3>7, <4>1, Longer
    <3>8. CASE bucket(c[k + 1], 2 * n) # b
      <4>1. Seen(k + 1) = Seen(k)
        BY <3>6, <3>8
      <4> QED BY <3>2, <3>5, <3>8, <4>1
    <3> QED BY <3>7, <3>8
  <2> HIDE DEF S
  <2>3. S \in SUBSET Nat
    BY DEF S
  <2>4. S = Nat
    BY <2>1, <2>2, <2>3, NatInduct
  <2> QED BY <1>1, <2>4 DEF S
<1>5. Chain(moved[N], Seen(N))
  BY <1>1, <1>4
<1>6. Seen(N) = {i \in T : bucket(i, 2 * n) = b}
  BY <1>1, ChainItems DEF Chain
<1> QED BY <1>2, <1>5, <1>6

Table(t, n, S) ==
  /\ n \in Nat \ {0} /\ S \subseteq Items
  /\ t \in [tail : Items \cup {NULL}, items : Nat,
            chain : [0..(n - 1) -> Seq(Items)], mult : [0..(n - 1) -> Nat],
            ineffective : Nat, noexpand : BOOLEAN]
  /\ \A b \in 0..(n - 1) : Chain(t.chain[b], {i \in S : bucket(i, n) = b})

LEMMA Buckets ==
  ASSUME NEW i \in Items, NEW n \in Nat \ {0}
  PROVE  bucket(i, n) \in 0..(n - 1) /\ bucket(i, 2 * n) % n = bucket(i, n)
<1>1. HashOf[KeyOf[i]] \in Nat
  BY HashAssumption DEF HashKeys
<1> QED BY <1>1, Remainder, Halved DEF bucket

\* numBuckets counts the buckets, which are 0 .. n-1.
LEMMA HowMany ==
  ASSUME NEW t, NEW n, NEW S, Table(t, n, S)
  PROVE  numBuckets(t) = n /\ DOMAIN t.chain = 0..(n - 1) /\ DOMAIN t.mult = 0..(n - 1)
<1>1. n \in Nat \ {0} /\ DOMAIN t.chain = 0..(n - 1) /\ DOMAIN t.mult = 0..(n - 1)
  BY DEF Table
<1>2. Cardinality(0..(n - 1)) = n
  <2>1. Cardinality(0..(n - 1)) = IF 0 > n - 1 THEN 0 ELSE (n - 1) - 0 + 1
    BY <1>1, FS_Interval
  <2> QED BY <1>1, <2>1
<1> QED BY <1>1, <1>2 DEF numBuckets

LEMMA Quotient ==
  ASSUME NEW x \in Nat, NEW n \in Nat \ {0}, x >= n
  PROVE  x \div n \in Nat \ {0}
<1>1. x \div n \in Nat
  BY SMT
<1>2. x \div n >= 1
  BY SMT
<1> QED BY <1>1, <1>2

\* Each item is in one of the two halves of its chain, and in the one where its
\* key will be looked for.
LEMMA ExpandHolds ==
  ASSUME NEW t, NEW n, NEW S, Table(t, n, S), t.items # 0
  PROVE  /\ Table(expand(t), 2 * n, S)
         /\ expand(t).tail = t.tail /\ expand(t).items = t.items
<1> DEFINE N == numBuckets(t)
<1>0. N = n
  BY HowMany
<1>1. /\ N \in Nat \ {0} /\ 2 * N \in Nat \ {0} /\ t.items \in Nat \ {0}
      /\ Table(t, N, S)
  <2>1. Table(t, N, S)
    BY <1>0
  <2> HIDE DEF N
  <2>2. N \in Nat \ {0} /\ t.items \in Nat \ {0}
    BY <2>1 DEF Table
  <2> QED BY <2>1, <2>2
<1> DEFINE chain == [b \in 0..(2 * N - 1) |-> split(t.chain[b % N], N, b)]
           ideal == (t.items + 2 * N - 1) \div (2 * N)
           mult == [b \in 0..(2 * N - 1) |->
                      IF Len(chain[b]) > ideal THEN Len(chain[b]) \div ideal ELSE 0]
<1>2. PICK bad, no : /\ bad \in Nat /\ no \in BOOLEAN
        /\ expand(t) = [t EXCEPT !.chain = chain, !.mult = mult, !.ineffective = bad,
                                 !.noexpand = no]
  <2> DEFINE beyond(b) == Max({0, Len(chain[b]) - ideal})
             wrong == IF MapThenSumSet(beyond, DOMAIN chain) > t.items \div 2
                      THEN t.ineffective + 1 ELSE 0
  <2>1. wrong \in Nat
    BY DEF Table
  <2>2. DOMAIN chain = 0..(2 * N - 1)
    OBVIOUS
  <2>3. expand(t) = [t EXCEPT !.chain = chain, !.mult = mult, !.ineffective = wrong,
                              !.noexpand = t.noexpand \/ wrong > 1]
    BY <2>2, Zenon DEF expand
  <2>4. (t.noexpand \/ wrong > 1) \in BOOLEAN
    OBVIOUS
  <2> HIDE DEF wrong, chain, mult
  <2> QED BY <2>1, <2>3, <2>4, Zenon
<1> HIDE DEF N
<1>3. ideal \in Nat \ {0}
  <2>1. t.items + 2 * N - 1 \in Nat /\ t.items + 2 * N - 1 >= 2 * N
    BY <1>1
  <2> QED BY <1>1, <2>1, Quotient
<1>4. ASSUME NEW b \in 0..(2 * N - 1)
      PROVE  Chain(chain[b], {i \in S : bucket(i, 2 * N) = b})
  <2>1. b \in Nat /\ b % N \in 0..(N - 1)
    BY <1>1, Remainder
  <2>2. Chain(t.chain[b % N], {i \in S : bucket(i, N) = b % N})
    <3>1. PICK e \in 0..(N - 1) : e = b % N
      BY <2>1
    <3>2. Chain(t.chain[e], {i \in S : bucket(i, N) = e})
      BY <1>1 DEF Table
    <3> QED BY <3>1, <3>2, Zenon
  <2>3. Chain(split(t.chain[b % N], N, b),
              {i \in {i \in S : bucket(i, N) = b % N} : bucket(i, 2 * N) = b})
    BY <2>2, SplitHolds
  <2>4. ASSUME NEW i \in S, bucket(i, 2 * N) = b PROVE bucket(i, N) = b % N
    BY <1>1, <2>4, Buckets, Zenon DEF Table
  <2>5. {i \in {i \in S : bucket(i, N) = b % N} : bucket(i, 2 * N) = b}
          = {i \in S : bucket(i, 2 * N) = b}
    BY <2>4
  <2>6. chain[b] = split(t.chain[b % N], N, b)
    OBVIOUS
  <2> QED BY <2>3, <2>5, <2>6, Zenon
<1> HIDE DEF chain, ideal
<1>5. chain \in [0..(2 * N - 1) -> Seq(Items)]
  <2>1. \A b \in 0..(2 * N - 1) : chain[b] \in Seq(Items)
    BY <1>4 DEF Chain
  <2>2. chain = [b \in 0..(2 * N - 1) |-> chain[b]]
    BY DEF chain
  <2> QED BY <2>1, <2>2
<1>6. mult \in [0..(2 * N - 1) -> Nat]
  <2>1. ASSUME NEW b \in 0..(2 * N - 1)
        PROVE  (IF Len(chain[b]) > ideal THEN Len(chain[b]) \div ideal ELSE 0) \in Nat
    <3>1. Len(chain[b]) \in Nat
      BY <1>5, LenProperties
    <3>2. CASE Len(chain[b]) > ideal
      <4>1. Len(chain[b]) \div ideal \in Nat
        BY <1>3, <3>1, Remainder
      <4> QED BY <4>1, <3>2
    <3>3. CASE ~(Len(chain[b]) > ideal)
      BY <3>3
    <3> QED BY <3>2, <3>3
  <2> QED BY <2>1
<1> HIDE DEF mult
<1> DEFINE u == expand(t)
<1>7. /\ u \in [tail : Items \cup {NULL}, items : Nat,
                chain : [0..(2 * N - 1) -> Seq(Items)], mult : [0..(2 * N - 1) -> Nat],
                ineffective : Nat, noexpand : BOOLEAN]
      /\ u.chain = chain /\ u.tail = t.tail /\ u.items = t.items
  BY <1>2, <1>5, <1>6 DEF Table
<1> HIDE DEF u
<1>8. Table(u, 2 * N, S)
  BY <1>1, <1>4, <1>7 DEF Table
<1> QED BY <1>0, <1>7, <1>8 DEF u

LEMMA AddedToBucket ==
  ASSUME NEW t, NEW n, NEW S, Table(t, n, S), t.items # 0, NEW i \in Items, i \notin S
  PROVE  \E m : /\ Table(addToBucket(t, i), m, S \cup {i})
                /\ addToBucket(t, i).tail = t.tail /\ addToBucket(t, i).items = t.items
<1>1. n \in Nat \ {0} /\ numBuckets(t) = n /\ S \subseteq Items
  BY HowMany DEF Table
<1> DEFINE b == bucket(i, numBuckets(t))
           u == [t EXCEPT !.chain[b] = <<i>> \o @]
<1>2. b = bucket(i, n) /\ b \in 0..(n - 1)
  BY <1>1, Buckets
<1>3. addToBucket(t, i) = u \/ addToBucket(t, i) = expand(u)
  BY Zenon DEF addToBucket
<1> HIDE DEF b
<1>4. PICK c \in [0..(n - 1) -> Seq(Items)] : c = t.chain
  BY DEF Table
<1>5. Chain(c[b], {j \in S : bucket(j, n) = b})
  BY <1>2, <1>4 DEF Table
<1>6. Chain(<<i>> \o c[b], {j \in S : bucket(j, n) = b} \cup {i})
  <2>1. i \notin {j \in S : bucket(j, n) = b}
    OBVIOUS
  <2> QED BY <1>5, <2>1, Longer
<1> DEFINE d == [c EXCEPT ![b] = <<i>> \o c[b]]
<1>7. /\ d \in [0..(n - 1) -> Seq(Items)] /\ d[b] = <<i>> \o c[b]
      /\ \A e \in 0..(n - 1) : e # b => d[e] = c[e]
  <2>1. <<i>> \o c[b] \in Seq(Items)
    BY <1>6 DEF Chain
  <2> QED BY <1>2, <2>1
<1>8. u = [t EXCEPT !.chain = d]
  BY <1>4
<1> HIDE DEF d, u
<1>9. /\ u \in [tail : Items \cup {NULL}, items : Nat,
                chain : [0..(n - 1) -> Seq(Items)], mult : [0..(n - 1) -> Nat],
                ineffective : Nat, noexpand : BOOLEAN]
      /\ u.chain = d /\ u.tail = t.tail /\ u.items = t.items
  BY <1>7, <1>8 DEF Table
<1>10. ASSUME NEW e \in 0..(n - 1)
       PROVE  Chain(d[e], {j \in S \cup {i} : bucket(j, n) = e})
  <2>1. CASE e = b
    <3>1. {j \in S \cup {i} : bucket(j, n) = e} = {j \in S : bucket(j, n) = b} \cup {i}
      BY <1>2, <2>1
    <3> QED BY <1>6, <1>7, <2>1, <3>1
  <2>2. CASE e # b
    <3>1. {j \in S \cup {i} : bucket(j, n) = e} = {j \in S : bucket(j, n) = e}
      BY <1>2, <2>2
    <3>2. Chain(c[e], {j \in S : bucket(j, n) = e})
      BY <1>4 DEF Table
    <3>3. d[e] = c[e]
      BY <1>7, <2>2
    <3> QED BY <3>1, <3>2, <3>3
  <2> QED BY <2>1, <2>2
<1>11. Table(u, n, S \cup {i})
  <2>1. S \cup {i} \subseteq Items
    BY <1>1
  <2> QED BY <1>1, <1>9, <1>10, <2>1 DEF Table
<1>12. /\ Table(expand(u), 2 * n, S \cup {i})
       /\ expand(u).tail = u.tail /\ expand(u).items = u.items
  BY <1>9, <1>11, ExpandHolds
<1>13. CASE addToBucket(t, i) = u
  BY <1>9, <1>11, <1>13
<1>14. CASE addToBucket(t, i) = expand(u)
  BY <1>9, <1>12, <1>14
<1> QED BY <1>3, <1>13, <1>14 DEF u

LEMMA InTable ==
  ASSUME NEW n, NEW S, Table(tbl, n, S) PROVE inTable = S
<1>1. /\ n \in Nat \ {0} /\ S \subseteq Items /\ DOMAIN tbl.chain = 0..(n - 1)
      /\ \A b \in 0..(n - 1) : Range(tbl.chain[b]) = {i \in S : bucket(i, n) = b}
  BY HowMany DEF Table, Chain
<1>2. \A i \in S : bucket(i, n) \in 0..(n - 1)
  BY <1>1, Buckets
<1>3. ASSUME NEW x PROVE x \in inTable <=> \E b \in 0..(n - 1) : x \in Range(tbl.chain[b])
  BY <1>1 DEF inTable
<1>4. ASSUME NEW x PROVE x \in inTable <=> x \in S
  <2>1. ASSUME x \in S PROVE x \in inTable
    BY <1>1, <1>2, <1>3, <2>1
  <2>2. ASSUME x \in inTable PROVE x \in S
    BY <1>1, <1>3, <2>2
  <2> QED BY <2>1, <2>2
<1> QED BY <1>4

\* A key is found where it is looked for.
LEMMA Found ==
  ASSUME NEW n, NEW S, Table(tbl, n, S), head # NULL, NEW k \in HashKeys,
         \A i, j \in S : KeyOf[i] = KeyOf[j] => i = j
  PROVE  /\ find(k) = NULL => \A i \in S : KeyOf[i] # k
         /\ find(k) # NULL => find(k) \in S /\ KeyOf[find(k)] = k
         /\ \A i \in S : KeyOf[i] = k => find(k) = i
<1>1. n \in Nat \ {0} /\ numBuckets(tbl) = n /\ S \subseteq Items
  BY HowMany DEF Table
<1> DEFINE c == tbl.chain[HashOf[k] % numBuckets(tbl)]
           I == {j \in 1..Len(c) : KeyOf[c[j]] = k}
<1>2. find(k) = LET i == IF I # {} THEN Min(I) ELSE 0
                IN IF head = NULL \/ i = 0 THEN NULL ELSE c[i]
  BY Zenon DEF find, SelectInSeq
<1>3. PICK b \in 0..(n - 1) : b = HashOf[k] % numBuckets(tbl)
  <2>1. HashOf[k] \in Nat
    BY HashAssumption
  <2> QED BY <1>1, <2>1, Remainder
<1>4. Chain(c, {i \in S : bucket(i, n) = b})
  BY <1>3 DEF Table
<1> HIDE DEF c
<1>5. c \in Seq(Items) /\ Range(c) = {i \in S : bucket(i, n) = b}
  BY <1>4 DEF Chain
<1>6. CASE I = {}
  <2>1. find(k) = NULL
    BY <1>2, <1>6
  <2>2. ASSUME NEW i \in S, KeyOf[i] = k PROVE FALSE
    <3>1. bucket(i, n) = b
      BY <1>1, <1>3, <2>2 DEF bucket
    <3>2. PICK j \in 1..Len(c) : i = c[j]
      BY <1>5, <3>1, ChainItems
    <3> QED BY <1>6, <2>2, <3>2
  <2> QED BY <2>1, <2>2
<1>7. CASE I # {}
  <2>1. Min(I) \in I
    <3>1. I \in SUBSET Nat
      BY <1>5, LenProperties
    <3> HIDE DEF I
    <3> QED BY <1>7, <3>1, NatMin
  <2>2. PICK j \in 1..Len(c) : j = Min(I) /\ KeyOf[c[j]] = k
    BY <2>1
  <2>3. j # 0 /\ c[j] \in S /\ NULL \notin S
    BY <1>1, <1>5, ChainItems, HashAssumption
  <2>4. find(k) = c[j]
    <3> HIDE DEF I
    <3> QED BY <1>2, <1>7, <2>2, <2>3
  <2> QED BY <2>2, <2>3, <2>4
<1> QED BY <1>6, <1>7

\* RemoveAt moves what lies behind p.
LEMMA Dropped ==
  ASSUME NEW c \in Seq(Items), NEW p \in 1..Len(c)
  PROVE  /\ RemoveAt(c, p) \in Seq(Items) /\ Len(RemoveAt(c, p)) = Len(c) - 1
         /\ \A k \in 1..(Len(c) - 1) :
              RemoveAt(c, p)[k] = IF k < p THEN c[k] ELSE c[k + 1]
<1> DEFINE x == SubSeq(c, 1, p - 1)
           y == SubSeq(c, p + 1, Len(c))
           N == Len(c)
<1>1. N \in Nat /\ p \in Nat /\ 1 <= p /\ p <= N /\ \A k \in 1..N : c[k] \in Items
  BY LenProperties, ElementOfSeq
<1>2. /\ x \in Seq(Items) /\ Len(x) = p - 1 /\ \A k \in 1..(p - 1) : x[k] = c[k]
  <2>1. 1 \in Int /\ p - 1 \in Int /\ \A k \in 1..(p - 1) : c[k] \in Items
    BY <1>1
  <2>2. /\ x \in Seq(Items) /\ Len(x) = IF 1 <= p - 1 THEN (p - 1) - 1 + 1 ELSE 0
        /\ \A k \in 1..((p - 1) - 1 + 1) : x[k] = c[1 + k - 1]
    BY <2>1, SubSeqProperties
  <2> HIDE DEF x
  <2> QED BY <1>1, <2>2
<1>3. /\ y \in Seq(Items) /\ Len(y) = N - p /\ \A k \in 1..(N - p) : y[k] = c[p + k]
  <2>1. p + 1 \in Int /\ N \in Int /\ \A k \in (p + 1)..N : c[k] \in Items
    BY <1>1
  <2>2. /\ y \in Seq(Items) /\ Len(y) = IF p + 1 <= N THEN N - (p + 1) + 1 ELSE 0
        /\ \A k \in 1..(N - (p + 1) + 1) : y[k] = c[p + 1 + k - 1]
    BY <2>1, SubSeqProperties
  <2> HIDE DEF y
  <2> QED BY <1>1, <2>2
<1>4. RemoveAt(c, p) = x \o y
  BY DEF RemoveAt
<1> HIDE DEF x, y
<1>5. /\ x \o y \in Seq(Items) /\ Len(x \o y) = Len(x) + Len(y)
      /\ \A k \in 1..(Len(x) + Len(y)) :
           (x \o y)[k] = IF k <= Len(x) THEN x[k] ELSE y[k - Len(x)]
  BY <1>2, <1>3, ConcatProperties
<1>6. Len(x) + Len(y) = N - 1
  BY <1>1, <1>2, <1>3
<1>7. ASSUME NEW k \in 1..(N - 1) PROVE (x \o y)[k] = IF k < p THEN c[k] ELSE c[k + 1]
  <2>1. CASE k < p
    <3>1. k \in 1..(p - 1)
      BY <1>1, <2>1
    <3> QED BY <1>2, <1>5, <1>6, <2>1, <3>1
  <2>2. CASE ~(k < p)
    <3>1. k - (p - 1) \in 1..(N - p) /\ p + (k - (p - 1)) = k + 1 /\ ~(k <= p - 1)
      BY <1>1, <2>2
    <3> QED BY <1>2, <1>3, <1>5, <1>6, <2>2, <3>1
  <2> QED BY <2>1, <2>2
<1> HIDE DEF N
<1> QED BY <1>4, <1>5, <1>6, <1>7 DEF N

LEMMA Shorter ==
  ASSUME NEW c, NEW T, Chain(c, T), NEW p \in 1..Len(c)
  PROVE  Chain(RemoveAt(c, p), T \ {c[p]})
<1> DEFINE d == RemoveAt(c, p)
           N == Len(c)
<1>1. N \in Nat /\ c \in Seq(Items) /\ Range(c) = T /\ p \in 1..N
  BY LenProperties DEF Chain
<1>2. /\ d \in Seq(Items) /\ Len(d) = N - 1
      /\ \A k \in 1..(N - 1) : d[k] = IF k < p THEN c[k] ELSE c[k + 1]
  BY <1>1, Dropped
<1> HIDE DEF d
<1>3. ASSUME NEW k \in 1..Len(d)
      PROVE  \E j \in 1..N : d[k] = c[j] /\ j # p /\ j = IF k < p THEN k ELSE k + 1
  BY <1>1, <1>2
<1>4. ASSUME NEW i \in 1..Len(d), NEW j \in 1..Len(d), d[i] = d[j] PROVE i = j
  <2>1. PICK e \in 1..N : d[i] = c[e] /\ e = IF i < p THEN i ELSE i + 1
    BY <1>3
  <2>2. PICK f \in 1..N : d[j] = c[f] /\ f = IF j < p THEN j ELSE j + 1
    BY <1>3
  <2>3. e = f
    BY <1>4, <2>1, <2>2 DEF Chain
  <2> QED BY <1>1, <1>2, <2>1, <2>2, <2>3
<1>5. ASSUME NEW x PROVE x \in Range(d) <=> x \in T \ {c[p]}
  <2>1. ASSUME x \in Range(d) PROVE x \in T \ {c[p]}
    <3>1. PICK k \in 1..Len(d) : x = d[k]
      BY <1>2, <2>1, ChainItems
    <3>2. PICK j \in 1..N : d[k] = c[j] /\ j # p
      BY <1>3
    <3> QED BY <1>1, <3>1, <3>2, ChainItems DEF Chain
  <2>2. ASSUME x \in T \ {c[p]} PROVE x \in Range(d)
    <3>1. PICK k \in 1..N : x = c[k]
      BY <1>1, <2>2, ChainItems
    <3>2. CASE k < p
      <4>1. k \in 1..Len(d) /\ d[k] = c[k]
        BY <1>1, <1>2, <3>2
      <4> QED BY <1>2, <3>1, <4>1, ChainItems
    <3>3. CASE ~(k < p)
      <4>1. k # p
        BY <2>2, <3>1
      <4>2. k - 1 \in 1..(N - 1) /\ ~(k - 1 < p) /\ (k - 1) + 1 = k
        BY <1>1, <3>3, <4>1
      <4>3. d[k - 1] = c[k] /\ k - 1 \in 1..Len(d)
        BY <1>2, <4>2
      <4> QED BY <1>2, <3>1, <4>3, ChainItems
    <3> QED BY <3>2, <3>3
  <2> QED BY <2>1, <2>2
<1> QED BY <1>2, <1>4, <1>5 DEF Chain, d

\* Where an item is in a sequence that has it once
LEMMA Position ==
  ASSUME NEW s \in Seq(Items), \A i, j \in 1..Len(s) : s[i] = s[j] => i = j,
         NEW p \in 1..Len(s)
  PROVE  SelectInSeq(s, LAMBDA j : j = s[p]) = p
<1> DEFINE I == {k \in 1..Len(s) : s[k] = s[p]}
<1>1. I = {p}
  OBVIOUS
<1>2. SelectInSeq(s, LAMBDA j : j = s[p]) = IF I # {} THEN Min(I) ELSE 0
  BY Zenon DEF SelectInSeq
<1>3. Min(I) \in I
  <2>1. Len(s) \in Nat
    BY LenProperties
  <2>2. I \in SUBSET Nat /\ I # {}
    BY <1>1, <2>1
  <2> HIDE DEF I
  <2> QED BY <2>2, NatMin
<1> HIDE DEF I
<1> QED BY <1>1, <1>2, <1>3

\* HASH_DEL_IN_BKT takes the item and no other out of its chain.
LEMMA Removed ==
  ASSUME NEW c, NEW T, Chain(c, T), NEW i \in T
  PROVE  Chain(RemoveFirst(c, i), T \ {i})
<1>1. PICK p \in 1..Len(c) : i = c[p]
  BY ChainItems DEF Chain
<1>2. SelectInSeq(c, LAMBDA j : j = c[p]) = p
  BY Position DEF Chain
<1>3. RemoveFirst(c, i) = RemoveAt(c, p)
  <2>1. RemoveFirst(c, c[p]) = RemoveAt(c, SelectInSeq(c, LAMBDA j : j = c[p]))
    BY Zenon DEF RemoveFirst
  <2> QED BY <1>1, <1>2, <2>1, Zenon
<1> QED BY <1>1, <1>3, Shorter

\* The list from h on links the items of s.
Linked(h, nx, pv, s) ==
  /\ nx \in [Items -> Items \cup {NULL}] /\ pv \in [Items -> Items \cup {NULL}]
  /\ s \in Seq(Items) /\ \A i, j \in 1..Len(s) : s[i] = s[j] => i = j
  /\ h = IF Len(s) = 0 THEN NULL ELSE s[1]
  /\ \A k \in 1..Len(s) : /\ nx[s[k]] = IF k = Len(s) THEN NULL ELSE s[k + 1]
                          /\ pv[s[k]] = IF k = 1 THEN NULL ELSE s[k - 1]

LEMMA LinkedItems ==
  ASSUME NEW h, NEW nx, NEW pv, NEW s, Linked(h, nx, pv, s)
  PROVE  /\ Len(s) \in Nat /\ Range(s) \subseteq Items
         /\ \A k \in 1..Len(s) : s[k] \in Items /\ s[k] # NULL /\ s[k] \in Range(s)
         /\ \A x : x \in Range(s) => \E k \in 1..Len(s) : x = s[k]
BY ChainItems, HashAssumption DEF Linked

LEMMA Appended ==
  ASSUME NEW h, NEW nx, NEW pv, NEW s, Linked(h, nx, pv, s), NEW i \in Items, i \notin Range(s),
         NEW e, e = IF Len(s) = 0 THEN NULL ELSE s[Len(s)],
         NEW f, f = [j \in Items |-> IF j = e THEN i ELSE IF j = i THEN NULL ELSE nx[j]],
         NEW g, g = [j \in Items |-> IF j = i THEN e ELSE pv[j]]
  PROVE  /\ Linked(IF h = NULL THEN i ELSE h, f, g, Append(s, i))
         /\ Len(Append(s, i)) = Len(s) + 1 /\ Append(s, i)[Len(s) + 1] = i
         /\ Range(Append(s, i)) = Range(s) \cup {i}
<1> DEFINE t == Append(s, i)
           N == Len(s)
<1>1. /\ N \in Nat /\ s \in Seq(Items) /\ NULL \notin Items
      /\ \A k \in 1..N : s[k] \in Items /\ s[k] # i
  <2>1. /\ N \in Nat /\ \A k \in 1..N : s[k] \in Items /\ s[k] \in Range(s)
    BY LinkedItems
  <2>2. s \in Seq(Items) /\ NULL \notin Items
    BY HashAssumption DEF Linked
  <2> QED BY <2>1, <2>2
<1>2. /\ t \in Seq(Items) /\ Len(t) = N + 1 /\ t[N + 1] = i
      /\ \A k \in 1..N : t[k] = s[k]
  BY <1>1, AppendProperties
<1> HIDE DEF t
<1>3. e \in Items \cup {NULL} /\ e # i /\ (N # 0 => N \in 1..N /\ e = s[N])
  BY <1>1
<1>4. /\ f \in [Items -> Items \cup {NULL}] /\ g \in [Items -> Items \cup {NULL}]
      /\ \A j \in Items : /\ f[j] = IF j = e THEN i ELSE IF j = i THEN NULL ELSE nx[j]
                          /\ g[j] = IF j = i THEN e ELSE pv[j]
  BY <1>3 DEF Linked
<1>5. \A k \in 1..Len(t) : k # N + 1 => k \in 1..N /\ t[k] = s[k] /\ s[k] # i
  BY <1>1, <1>2
<1>6. \A j, k \in 1..Len(t) : t[j] = t[k] => j = k
  BY <1>2, <1>5 DEF Linked
<1>7. (IF h = NULL THEN i ELSE h) = IF Len(t) = 0 THEN NULL ELSE t[1]
  <2>1. CASE N = 0
    BY <1>2, <2>1 DEF Linked
  <2>2. CASE N # 0
    <3>1. 1 \in 1..N /\ h = s[1] /\ h # NULL /\ Len(t) # 0
      BY <1>1, <1>2, <2>2 DEF Linked
    <3> QED BY <1>2, <3>1
  <2> QED BY <2>1, <2>2
<1>8. ASSUME NEW k \in 1..Len(t)
      PROVE  /\ f[t[k]] = IF k = Len(t) THEN NULL ELSE t[k + 1]
             /\ g[t[k]] = IF k = 1 THEN NULL ELSE t[k - 1]
  <2>1. CASE k = N + 1
    <3>1. f[i] = NULL /\ g[i] = e
      BY <1>3, <1>4
    <3>2. e = IF k = 1 THEN NULL ELSE t[k - 1]
      <4>1. CASE N = 0
        BY <2>1, <4>1
      <4>2. CASE N # 0
        <5>1. k # 1 /\ k - 1 = N
          BY <1>1, <2>1, <4>2
        <5> QED BY <1>2, <1>3, <4>2, <5>1
      <4> QED BY <4>1, <4>2
    <3> QED BY <1>2, <2>1, <3>1, <3>2
  <2>2. CASE k # N + 1
    <3>1. k \in 1..N /\ t[k] = s[k] /\ s[k] \in Items /\ s[k] # i /\ k # Len(t)
      BY <1>1, <1>2, <1>5, <2>2
    <3>2. g[t[k]] = IF k = 1 THEN NULL ELSE t[k - 1]
      <4>1. g[s[k]] = pv[s[k]]
        BY <1>4, <3>1
      <4>2. pv[s[k]] = IF k = 1 THEN NULL ELSE s[k - 1]
        BY <3>1 DEF Linked
      <4>3. k # 1 => k - 1 \in 1..N
        BY <1>1, <3>1
      <4> QED BY <1>2, <3>1, <4>1, <4>2, <4>3
    <3>3. CASE k = N
      <4>1. s[k] = e
        BY <1>1, <1>3, <3>1, <3>3
      <4>2. f[s[k]] = i
        BY <1>4, <3>1, <4>1
      <4> QED BY <1>2, <3>1, <3>2, <3>3, <4>2
    <3>4. CASE k # N
      <4>1. s[k] # e
        <5>1. N # 0 /\ N \in 1..N /\ e = s[N]
          BY <1>1, <1>3, <3>1
        <5> QED BY <3>1, <3>4, <5>1 DEF Linked
      <4>2. f[s[k]] = nx[s[k]]
        BY <1>4, <3>1, <4>1
      <4>3. nx[s[k]] = s[k + 1]
        BY <3>1, <3>4 DEF Linked
      <4>4. k + 1 \in 1..N
        BY <1>1, <3>1, <3>4
      <4> QED BY <1>2, <3>1, <3>2, <4>2, <4>3, <4>4
    <3> QED BY <3>3, <3>4
  <2> QED BY <2>1, <2>2
<1>9. ASSUME NEW x PROVE x \in Range(t) <=> x \in Range(s) \cup {i}
  <2>1. ASSUME x \in Range(t) PROVE x \in Range(s) \cup {i}
    BY <1>1, <1>2, <1>5, <2>1, ChainItems
  <2>2. ASSUME x \in Range(s) PROVE x \in Range(t)
    <3>1. PICK k \in 1..N : x = s[k]
      BY <1>1, <2>2, ChainItems
    <3>2. k \in 1..Len(t) /\ t[k] = s[k]
      BY <1>1, <1>2
    <3> QED BY <1>2, <3>1, <3>2, ChainItems
  <2>3. i \in Range(t)
    <3>1. N + 1 \in 1..Len(t)
      BY <1>1, <1>2
    <3> QED BY <1>2, <3>1, ChainItems
  <2> QED BY <2>1, <2>2, <2>3
<1>10. Linked(IF h = NULL THEN i ELSE h, f, g, t)
  BY <1>2, <1>4, <1>6, <1>7, <1>8 DEF Linked
<1> QED BY <1>2, <1>9, <1>10 DEF t

LEMMA Unlinked ==
  ASSUME NEW h, NEW nx, NEW pv, NEW s, Linked(h, nx, pv, s), NEW p \in 1..Len(s), Len(s) # 1,
         NEW i, i = s[p],
         NEW f, f = [j \in Items |-> IF j = i THEN NULL ELSE IF j = pv[i] THEN nx[i] ELSE nx[j]],
         NEW g, g = [j \in Items |-> IF j = i THEN NULL ELSE IF j = nx[i] THEN pv[i] ELSE pv[j]]
  PROVE  Linked(IF pv[i] = NULL THEN nx[i] ELSE h, f, g, RemoveAt(s, p))
<1> DEFINE t == RemoveAt(s, p)
           N == Len(s)
<1>1. /\ N \in Nat /\ p \in 1..N /\ s \in Seq(Items) /\ NULL \notin Items /\ i \in Items
      /\ \A k \in 1..N : s[k] \in Items /\ (k # p => s[k] # i)
  BY LinkedItems, HashAssumption DEF Linked
<1>2. /\ t \in Seq(Items) /\ Len(t) = N - 1
      /\ \A k \in 1..(N - 1) : t[k] = IF k < p THEN s[k] ELSE s[k + 1]
  BY <1>1, Dropped
<1>3. \A j, k \in 1..Len(t) : t[j] = t[k] => j = k
  <2>1. Chain(s, Range(s))
    BY <1>1 DEF Chain, Linked
  <2> HIDE DEF N
  <2> QED BY <2>1, Shorter DEF Chain
<1> HIDE DEF t
<1>4. /\ nx[i] = IF p = N THEN NULL ELSE s[p + 1]
      /\ pv[i] = IF p = 1 THEN NULL ELSE s[p - 1]
  BY <1>1 DEF Linked
<1>5. /\ f \in [Items -> Items \cup {NULL}] /\ g \in [Items -> Items \cup {NULL}]
      /\ \A j \in Items :
           /\ f[j] = IF j = i THEN NULL ELSE IF j = pv[i] THEN nx[i] ELSE nx[j]
           /\ g[j] = IF j = i THEN NULL ELSE IF j = nx[i] THEN pv[i] ELSE pv[j]
  <2>1. nx[i] \in Items \cup {NULL} /\ pv[i] \in Items \cup {NULL}
    BY <1>1 DEF Linked
  <2> QED BY <2>1 DEF Linked
<1>6. \A k \in 1..N : s[k] = pv[i] <=> k = p - 1
  <2>1. CASE p = 1
    BY <1>1, <1>4, <2>1
  <2>2. CASE p # 1
    <3>1. p - 1 \in 1..N /\ pv[i] = s[p - 1]
      BY <1>1, <1>4, <2>2
    <3> QED BY <3>1 DEF Linked
  <2> QED BY <2>1, <2>2
<1>7. \A k \in 1..N : s[k] = nx[i] <=> k = p + 1
  <2>1. CASE p = N
    BY <1>1, <1>4, <2>1
  <2>2. CASE p # N
    <3>1. p + 1 \in 1..N /\ nx[i] = s[p + 1]
      BY <1>1, <1>4, <2>2
    <3> QED BY <3>1 DEF Linked
  <2> QED BY <2>1, <2>2
<1>8. \A k \in 1..N : k # p =>
        /\ f[s[k]] = IF k = p - 1 THEN nx[i] ELSE IF k = N THEN NULL ELSE s[k + 1]
        /\ g[s[k]] = IF k = p + 1 THEN pv[i] ELSE IF k = 1 THEN NULL ELSE s[k - 1]
  <2> SUFFICES ASSUME NEW k \in 1..N, k # p
               PROVE  /\ f[s[k]] = IF k = p - 1 THEN nx[i] ELSE IF k = N THEN NULL ELSE s[k + 1]
                      /\ g[s[k]] = IF k = p + 1 THEN pv[i] ELSE IF k = 1 THEN NULL ELSE s[k - 1]
    OBVIOUS
  <2>1. s[k] \in Items /\ s[k] # i
    BY <1>1
  <2>2. /\ f[s[k]] = IF k = p - 1 THEN nx[i] ELSE nx[s[k]]
        /\ g[s[k]] = IF k = p + 1 THEN pv[i] ELSE pv[s[k]]
    BY <1>5, <1>6, <1>7, <2>1
  <2>3. /\ nx[s[k]] = IF k = N THEN NULL ELSE s[k + 1]
        /\ pv[s[k]] = IF k = 1 THEN NULL ELSE s[k - 1]
    BY DEF Linked
  <2> QED BY <2>2, <2>3
<1>9. ASSUME NEW k \in 1..Len(t)
      PROVE  /\ f[t[k]] = IF k = Len(t) THEN NULL ELSE t[k + 1]
             /\ g[t[k]] = IF k = 1 THEN NULL ELSE t[k - 1]
  <2>1. k \in Nat /\ 1 <= k /\ k <= N - 1 /\ p \in Nat /\ 1 <= p /\ p <= N
    BY <1>1, <1>2
  <2>2. PICK e \in 1..N : e # p /\ t[k] = s[e] /\ e = IF k < p THEN k ELSE k + 1
    BY <1>1, <1>2, <2>1
  <2>3. f[t[k]] = IF k = Len(t) THEN NULL ELSE t[k + 1]
    <3>1. f[s[e]] = IF e = p - 1 THEN nx[i] ELSE IF e = N THEN NULL ELSE s[e + 1]
      BY <1>8, <2>2
    <3>2. CASE k = N - 1
      <4>1. (e = p - 1 /\ p = N) \/ (e # p - 1 /\ e = N)
        BY <1>1, <2>1, <2>2, <3>2
      <4> QED BY <1>2, <1>4, <2>2, <3>1, <3>2, <4>1
    <3>3. CASE k # N - 1
      <4>1. t[k + 1] = IF k + 1 < p THEN s[k + 1] ELSE s[k + 2]
        BY <1>1, <1>2, <2>1, <3>3
      <4>2. CASE k + 1 < p
        BY <1>1, <1>2, <2>1, <2>2, <3>1, <3>3, <4>1, <4>2
      <4>3. CASE k + 1 = p
        <5>1. e = p - 1 /\ p # N /\ p + 1 = k + 2
          BY <1>1, <2>1, <2>2, <3>3, <4>3
        <5> QED BY <1>2, <1>4, <2>2, <3>1, <3>3, <4>1, <4>3, <5>1
      <4>4. CASE k >= p
        <5>1. e = k + 1 /\ e # p - 1 /\ e # N /\ e + 1 = k + 2 /\ ~(k + 1 < p)
          BY <1>1, <2>1, <2>2, <3>3, <4>4
        <5> QED BY <1>2, <2>2, <3>1, <3>3, <4>1, <5>1
      <4> QED BY <2>1, <4>2, <4>3, <4>4
    <3> QED BY <3>2, <3>3
  <2>4. g[t[k]] = IF k = 1 THEN NULL ELSE t[k - 1]
    <3>1. g[s[e]] = IF e = p + 1 THEN pv[i] ELSE IF e = 1 THEN NULL ELSE s[e - 1]
      BY <1>8, <2>2
    <3>2. CASE k = 1
      <4>1. (e = p + 1 /\ p = 1) \/ (e # p + 1 /\ e = 1)
        BY <1>1, <2>1, <2>2, <3>2
      <4> QED BY <1>4, <2>2, <3>1, <3>2, <4>1
    <3>3. CASE k # 1
      <4>1. t[k - 1] = IF k - 1 < p THEN s[k - 1] ELSE s[k]
        BY <1>1, <1>2, <2>1, <3>3
      <4>2. CASE k < p
        <5>1. e = k /\ e # p + 1 /\ e # 1 /\ k - 1 < p
          BY <2>1, <2>2, <3>3, <4>2
        <5> QED BY <2>2, <3>1, <3>3, <4>1, <5>1
      <4>3. CASE k = p
        <5>1. e = p + 1 /\ p # 1 /\ k - 1 < p
          BY <2>1, <2>2, <3>3, <4>3
        <5> QED BY <1>4, <2>2, <3>1, <3>3, <4>1, <4>3, <5>1
      <4>4. CASE k > p
        <5>1. e = k + 1 /\ e # p + 1 /\ e # 1 /\ e - 1 = k /\ ~(k - 1 < p)
          BY <2>1, <2>2, <3>3, <4>4
        <5> QED BY <2>2, <3>1, <3>3, <4>1, <5>1
      <4> QED BY <2>1, <4>2, <4>3, <4>4
    <3> QED BY <3>2, <3>3
  <2> QED BY <2>3, <2>4
<1>10. (IF pv[i] = NULL THEN nx[i] ELSE h) = IF Len(t) = 0 THEN NULL ELSE t[1]
  <2>1. N - 1 # 0 /\ N # 0 /\ 1 \in 1..(N - 1) /\ h = s[1]
    <3>1. PICK n \in Nat : n = N /\ n # 1 /\ p \in 1..n
      BY <1>1
    <3>2. n - 1 # 0 /\ n # 0 /\ 1 \in 1..(n - 1)
      BY <3>1
    <3> QED BY <3>1, <3>2 DEF Linked
  <2>2. t[1] = IF 1 < p THEN s[1] ELSE s[2]
    BY <1>2, <2>1
  <2>3. CASE p = 1
    <3>1. pv[i] = NULL /\ nx[i] = s[2] /\ p # N
      BY <1>1, <1>4, <2>1, <2>3
    <3> QED BY <1>2, <2>1, <2>2, <2>3, <3>1
  <2>4. CASE p # 1
    <3>1. p - 1 \in 1..N /\ 1 < p
      BY <1>1, <2>4
    <3>2. pv[i] = s[p - 1] /\ pv[i] # NULL
      BY <1>1, <1>4, <2>4, <3>1
    <3> QED BY <1>2, <2>1, <2>2, <3>1, <3>2
  <2> QED BY <2>3, <2>4
<1>11. Linked(IF pv[i] = NULL THEN nx[i] ELSE h, f, g, t)
  BY <1>2, <1>3, <1>5, <1>9, <1>10 DEF Linked
<1> QED BY <1>11 DEF t

\* The list x has the items of s, each with a key of its own.
Keeps(x, s) ==
  /\ x = [head |-> x.head, next |-> x.next, prev |-> x.prev, tbl |-> x.tbl]
  /\ Linked(x.head, x.next, x.prev, s)
  /\ \A i, j \in Range(s) : KeyOf[i] = KeyOf[j] => i = j
  /\ x.tbl.tail = (IF Len(s) = 0 THEN NULL ELSE s[Len(s)]) /\ x.tbl.items = Len(s)
  /\ \E n : Table(x.tbl, n, Range(s))

LEMMA EmptyTable ==
  Table(emptyTable, InitialBuckets, {}) /\ emptyTable.items = 0 /\ emptyTable.tail = NULL
<1>1. InitialBuckets \in Nat \ {0}
  BY HashAssumption
<1>2. <<>> \in Seq(Items)
  BY NoChain DEF Chain
<1>3. /\ [b \in 0..(InitialBuckets - 1) |-> <<>>] \in [0..(InitialBuckets - 1) -> Seq(Items)]
      /\ [b \in 0..(InitialBuckets - 1) |-> 0] \in [0..(InitialBuckets - 1) -> Nat]
  BY <1>2
<1>4. emptyTable \in [tail : Items \cup {NULL}, items : Nat,
            chain : [0..(InitialBuckets - 1) -> Seq(Items)],
            mult : [0..(InitialBuckets - 1) -> Nat], ineffective : Nat, noexpand : BOOLEAN]
  BY <1>3 DEF emptyTable
<1>5. ASSUME NEW b \in 0..(InitialBuckets - 1)
      PROVE  Chain(emptyTable.chain[b], {i \in {} : bucket(i, InitialBuckets) = b})
  <2>1. emptyTable.chain[b] = <<>>
    BY DEF emptyTable
  <2>2. {i \in {} : bucket(i, InitialBuckets) = b} = {}
    OBVIOUS
  <2> QED BY <2>1, <2>2, NoChain
<1>6. emptyTable.items = 0 /\ emptyTable.tail = NULL
  BY DEF emptyTable
<1> QED BY <1>1, <1>4, <1>5, <1>6 DEF Table

LEMMA EmptyKeeps == Keeps(emptyList, <<>>)
<1>1. <<>> \in Seq(Items) /\ Len(<<>>) = 0 /\ Range(<<>>) = {}
  BY NoChain DEF Chain
<1>2. /\ emptyList.head = NULL /\ emptyList.tbl = emptyTable
      /\ emptyList.next \in [Items -> Items \cup {NULL}]
      /\ emptyList.prev \in [Items -> Items \cup {NULL}]
      /\ emptyList = [head |-> emptyList.head, next |-> emptyList.next,
                      prev |-> emptyList.prev, tbl |-> emptyList.tbl]
  BY DEF emptyList
<1>3. Linked(emptyList.head, emptyList.next, emptyList.prev, <<>>)
  BY <1>1, <1>2 DEF Linked
<1>4. /\ Table(emptyList.tbl, InitialBuckets, {})
      /\ emptyList.tbl.items = 0 /\ emptyList.tbl.tail = NULL
  BY <1>2, EmptyTable
<1> QED BY <1>1, <1>2, <1>3, <1>4 DEF Keeps

\* The buckets do not depend on the end of the list and the number of items.
Relabel(t, e, k) == [t EXCEPT !.tail = e, !.items = k]

LEMMA Relabelled ==
  ASSUME NEW t, NEW n, NEW S, Table(t, n, S), NEW e \in Items \cup {NULL}, NEW k \in Nat
  PROVE  /\ Table(Relabel(t, e, k), n, S)
         /\ Relabel(t, e, k).tail = e /\ Relabel(t, e, k).items = k
<1> DEFINE u == Relabel(t, e, k)
<1>1. /\ u \in [tail : Items \cup {NULL}, items : Nat,
                chain : [0..(n - 1) -> Seq(Items)], mult : [0..(n - 1) -> Nat],
                ineffective : Nat, noexpand : BOOLEAN]
      /\ u.chain = t.chain /\ u.tail = e /\ u.items = k
  BY DEF Table, Relabel
<1> HIDE DEF u
<1>2. Table(u, n, S)
  BY <1>1 DEF Table
<1> QED BY <1>1, <1>2 DEF u

\* HASH_ADD, HASH_DELETE and HASH_SRT keep the list and the buckets in step.
LEMMA AddKeeps ==
  ASSUME NEW x, NEW s, Keeps(x, s), NEW i \in Items, i \notin Range(s),
         \A j \in Range(s) : KeyOf[j] # KeyOf[i]
  PROVE  Keeps(add(x, i), Append(s, i))
<1>1. PICK h, nx, pv, t : x = [head |-> h, next |-> nx, prev |-> pv, tbl |-> t]
  BY DEF Keeps
<1>2. x.head = h /\ x.next = nx /\ x.prev = pv /\ x.tbl = t
  BY <1>1
<1> DEFINE e == IF Len(s) = 0 THEN NULL ELSE s[Len(s)]
           f == [j \in Items |-> IF j = e THEN i ELSE IF j = i THEN NULL ELSE nx[j]]
           g == [j \in Items |-> IF j = i THEN e ELSE pv[j]]
           r == Append(s, i)
           hd == IF h = NULL THEN i ELSE h
<1>3. Linked(h, nx, pv, s) /\ t.tail = e /\ t.items = Len(s) /\ \E n : Table(t, n, Range(s))
  BY <1>2 DEF Keeps
<1>4. /\ Linked(hd, f, g, r) /\ Len(r) = Len(s) + 1 /\ r[Len(s) + 1] = i
      /\ Range(r) = Range(s) \cup {i}
  <2> HIDE DEF e
  <2>1. e = IF Len(s) = 0 THEN NULL ELSE s[Len(s)]
    BY DEF e
  <2> QED BY <1>3, <2>1, Appended
<1>5. Len(s) \in Nat /\ Len(s) + 1 \in Nat /\ Len(s) + 1 # 0 /\ NULL \notin Items
  BY <1>3, LinkedItems, HashAssumption
<1>6. h = NULL <=> Len(s) = 0
  <2>1. Len(s) # 0 => 1 \in 1..Len(s)
    BY <1>5
  <2>2. h = IF Len(s) = 0 THEN NULL ELSE s[1]
    BY <1>3 DEF Linked
  <2>3. Len(s) # 0 => s[1] # NULL
    BY <1>3, <2>1, LinkedItems
  <2> QED BY <2>2, <2>3
<1>7. PICK u, n : /\ append(x, i) = [head |-> hd, next |-> f, prev |-> g, tbl |-> u]
                 /\ u.tail = i /\ u.items = Len(s)
                 /\ Table(u, n, Range(s))
  <2>1. CASE Len(s) = 0
    <3> DEFINE u == [emptyTable EXCEPT !.tail = i]
    <3>1. append(x, i) = [x EXCEPT !.head = i, !.next[i] = NULL, !.prev[i] = NULL, !.tbl = u]
      BY <1>2, <1>6, <2>1 DEF append
    <3>2. f = [nx EXCEPT ![i] = NULL] /\ g = [pv EXCEPT ![i] = NULL]
      BY <1>3, <1>5, <2>1 DEF Linked
    <3>3. Range(s) = {}
      BY <1>3, <2>1, LinkedItems
    <3>4. u = Relabel(emptyTable, i, 0)
      BY EmptyTable DEF Table, Relabel
    <3>5. Table(u, InitialBuckets, Range(s)) /\ u.tail = i /\ u.items = Len(s)
      <4>1. Table(emptyTable, InitialBuckets, {}) /\ i \in Items \cup {NULL} /\ 0 \in Nat
        BY EmptyTable
      <4> HIDE DEF u
      <4>2. Table(u, InitialBuckets, {}) /\ u.tail = i /\ u.items = 0
        BY <3>4, <4>1, Relabelled
      <4> QED BY <2>1, <3>3, <4>2
    <3>6. append(x, i) = [head |-> hd, next |-> f, prev |-> g, tbl |-> u]
      <4> HIDE DEF u, f, g
      <4> QED BY <1>1, <1>6, <2>1, <3>1, <3>2
    <3> HIDE DEF u, f, g, hd
    <3> QED BY <3>5, <3>6
  <2>2. CASE Len(s) # 0
    <3> DEFINE u == [t EXCEPT !.tail = i]
    <3>1. append(x, i) = [x EXCEPT !.next[i] = NULL, !.next[e] = i, !.prev[i] = e, !.tbl.tail = i]
      BY <1>2, <1>3, <1>6, <2>2 DEF append
    <3>2. f = [[nx EXCEPT ![i] = NULL] EXCEPT ![e] = i] /\ g = [pv EXCEPT ![i] = e]
      <4>1. e \in Items /\ e # i
        <5>1. Len(s) \in 1..Len(s)
          BY <1>5, <2>2
        <5> QED BY <1>3, <2>2, <5>1, LinkedItems
      <4> HIDE DEF e
      <4> QED BY <1>3, <4>1 DEF Linked
    <3>3. PICK n : Table(t, n, Range(s))
      BY <1>3
    <3>4. u = Relabel(t, i, Len(s))
      BY <1>3, <3>3 DEF Table, Relabel
    <3>5. Table(u, n, Range(s)) /\ u.tail = i /\ u.items = Len(s)
      <4>1. i \in Items \cup {NULL}
        OBVIOUS
      <4>2. /\ Table(Relabel(t, i, Len(s)), n, Range(s))
            /\ Relabel(t, i, Len(s)).tail = i /\ Relabel(t, i, Len(s)).items = Len(s)
        <5>1. PICK k \in Nat : k = Len(s)
          BY <1>5
        <5>2. /\ Table(Relabel(t, i, k), n, Range(s))
              /\ Relabel(t, i, k).tail = i /\ Relabel(t, i, k).items = k
          BY <3>3, <4>1, Relabelled
        <5> QED BY <5>1, <5>2
      <4> HIDE DEF u
      <4> QED BY <3>4, <4>2
    <3>6. append(x, i) = [head |-> hd, next |-> f, prev |-> g, tbl |-> u]
      <4>1. hd = h
        BY <1>6, <2>2
      <4> HIDE DEF f, g, e, hd
      <4> QED BY <1>1, <3>1, <3>2, <4>1
    <3> HIDE DEF u, f, g, hd
    <3> QED BY <3>5, <3>6
  <2> QED BY <2>1, <2>2
<1> HIDE DEF e, f, g, r, hd
<1> DEFINE v == [u EXCEPT !.items = @ + 1]
           w == addToBucket(v, i)
<1>8. Table(v, n, Range(s)) /\ v.tail = i /\ v.items = Len(s) + 1
  <2>1. v = Relabel(u, i, Len(s) + 1)
    BY <1>7 DEF Table, Relabel
  <2>2. i \in Items \cup {NULL}
    OBVIOUS
  <2>3. /\ Table(Relabel(u, i, Len(s) + 1), n, Range(s))
        /\ Relabel(u, i, Len(s) + 1).tail = i /\ Relabel(u, i, Len(s) + 1).items = Len(s) + 1
    <3>1. PICK k \in Nat : k = Len(s) + 1
      BY <1>5
    <3>2. /\ Table(Relabel(u, i, k), n, Range(s))
          /\ Relabel(u, i, k).tail = i /\ Relabel(u, i, k).items = k
      BY <1>7, <2>2, Relabelled
    <3> QED BY <3>1, <3>2
  <2> HIDE DEF v
  <2> QED BY <2>1, <2>3
<1> HIDE DEF v
<1>9. PICK m : Table(w, m, Range(s) \cup {i}) /\ w.tail = i /\ w.items = Len(s) + 1
  BY <1>5, <1>8, AddedToBucket
<1>10. add(x, i) = [head |-> hd, next |-> f, prev |-> g, tbl |-> w]
  <2>1. PICK y : y = append(x, i)
    OBVIOUS
  <2>2. add(x, i) = [y EXCEPT !.tbl = addToBucket([y.tbl EXCEPT !.items = y.tbl.items + 1], i)]
    <3>1. add(x, i) = [append(x, i) EXCEPT !.tbl =
                         addToBucket([append(x, i).tbl EXCEPT !.items = @ + 1], i)]
      BY Zenon DEF add
    <3> QED BY <2>1, <3>1
  <2>3. y = [head |-> hd, next |-> f, prev |-> g, tbl |-> u]
    BY <1>7, <2>1
  <2>4. y.tbl = u
    BY <2>3
  <2>5. add(x, i) = [y EXCEPT !.tbl = w]
    BY <2>2, <2>4 DEF v
  <2> HIDE DEF w
  <2> QED BY <2>3, <2>5
<1> HIDE DEF w
<1>11. \A j, k \in Range(r) : KeyOf[j] = KeyOf[k] => j = k
  BY <1>4 DEF Keeps
<1>12. Keeps([head |-> hd, next |-> f, prev |-> g, tbl |-> w], r)
  BY <1>4, <1>5, <1>9, <1>11 DEF Keeps
<1> QED BY <1>10, <1>12 DEF r

LEMMA DeletedInBucket ==
  ASSUME NEW t, NEW n, NEW S, Table(t, n, S), NEW i \in S
  PROVE  /\ Table(deleteInBucket(t, i), n, S \ {i})
         /\ deleteInBucket(t, i).tail = t.tail /\ deleteInBucket(t, i).items = t.items
<1>1. n \in Nat \ {0} /\ numBuckets(t) = n /\ S \subseteq Items /\ i \in Items
  BY HowMany DEF Table
<1>2. PICK b \in 0..(n - 1) : b = bucket(i, n)
  BY <1>1, Buckets
<1>3. PICK c \in [0..(n - 1) -> Seq(Items)] : c = t.chain
  BY DEF Table
<1>4. Chain(RemoveFirst(c[b], i), {j \in S : bucket(j, n) = b} \ {i})
  <2>1. Chain(c[b], {j \in S : bucket(j, n) = b}) /\ i \in {j \in S : bucket(j, n) = b}
    BY <1>2, <1>3 DEF Table
  <2> QED BY <2>1, Removed
<1> DEFINE d == [c EXCEPT ![b] = RemoveFirst(c[b], i)]
           u == deleteInBucket(t, i)
<1>5. /\ d \in [0..(n - 1) -> Seq(Items)] /\ d[b] = RemoveFirst(c[b], i)
      /\ \A f \in 0..(n - 1) : f # b => d[f] = c[f]
  <2>1. RemoveFirst(c[b], i) \in Seq(Items)
    BY <1>4 DEF Chain
  <2> QED BY <2>1
<1>6. u = [t EXCEPT !.chain = d]
  <2>1. u = [t EXCEPT !.chain[b] = RemoveFirst(@, i)]
    BY <1>1, <1>2 DEF deleteInBucket
  <2> HIDE DEF u
  <2> QED BY <1>3, <2>1 DEF Table
<1> HIDE DEF d, u
<1>7. /\ u \in [tail : Items \cup {NULL}, items : Nat,
                chain : [0..(n - 1) -> Seq(Items)], mult : [0..(n - 1) -> Nat],
                ineffective : Nat, noexpand : BOOLEAN]
      /\ u.chain = d /\ u.tail = t.tail /\ u.items = t.items
  BY <1>5, <1>6 DEF Table
<1>8. ASSUME NEW f \in 0..(n - 1)
      PROVE  Chain(d[f], {j \in S \ {i} : bucket(j, n) = f})
  <2>1. CASE f = b
    <3>1. {j \in S \ {i} : bucket(j, n) = f} = {j \in S : bucket(j, n) = b} \ {i}
      BY <2>1
    <3> QED BY <1>4, <1>5, <2>1, <3>1
  <2>2. CASE f # b
    <3>1. {j \in S \ {i} : bucket(j, n) = f} = {j \in S : bucket(j, n) = f}
      BY <1>2, <2>2
    <3>2. Chain(c[f], {j \in S : bucket(j, n) = f})
      BY <1>3 DEF Table
    <3>3. d[f] = c[f]
      BY <1>5, <2>2
    <3> QED BY <3>1, <3>2, <3>3
  <2> QED BY <2>1, <2>2
<1>9. Table(u, n, S \ {i})
  <2>1. S \ {i} \subseteq Items
    BY <1>1
  <2> QED BY <1>1, <1>7, <1>8, <2>1 DEF Table
<1> QED BY <1>7, <1>9 DEF u

LEMMA DeleteKeeps ==
  ASSUME NEW x, NEW s, Keeps(x, s), NEW i \in Range(s)
  PROVE  \E r : Keeps(delete(x, i), r) /\ Range(r) = Range(s) \ {i}
<1>1. PICK h, nx, pv, t : x = [head |-> h, next |-> nx, prev |-> pv, tbl |-> t]
  BY DEF Keeps
<1>2. x.head = h /\ x.next = nx /\ x.prev = pv /\ x.tbl = t
  BY <1>1
<1>3. /\ Linked(h, nx, pv, s)
      /\ t.tail = (IF Len(s) = 0 THEN NULL ELSE s[Len(s)]) /\ t.items = Len(s)
  BY <1>2 DEF Keeps
<1>4. PICK n : Table(t, n, Range(s))
  BY <1>2 DEF Keeps
<1>5. PICK N \in Nat : N = Len(s)
  BY <1>3, LinkedItems
<1>6. PICK p \in 1..N : i = s[p]
  BY <1>3, <1>5, LinkedItems
<1>7. /\ Range(s) \subseteq Items /\ NULL \notin Items /\ s \in Seq(Items)
      /\ \A k \in 1..N : s[k] \in Items /\ s[k] # NULL
  <2>1. s \in Seq(Items)
    BY <1>3 DEF Linked
  <2> QED BY <1>3, <1>5, <2>1, LinkedItems, HashAssumption
<1>8. /\ nx[i] = IF p = N THEN NULL ELSE s[p + 1]
      /\ pv[i] = IF p = 1 THEN NULL ELSE s[p - 1]
      /\ \A j, k \in 1..N : s[j] = s[k] => j = k
  BY <1>3, <1>5, <1>6 DEF Linked
<1>9. CASE N = 1
  <2>1. pv[i] = NULL /\ nx[i] = NULL /\ p = 1
    BY <1>6, <1>8, <1>9
  <2>2. delete(x, i) = emptyList
    BY <1>2, <2>1 DEF delete
  <2>3. Range(s) \ {i} = {}
    <3>1. ASSUME NEW j, j \in Range(s) PROVE j = i
      <4>1. PICK k \in 1..Len(s) : j = s[k]
        BY <1>3, <3>1, LinkedItems
      <4> QED BY <1>5, <1>6, <1>9, <2>1, <4>1
    <3> QED BY <3>1
  <2>4. Range(<<>>) = {}
    BY NoChain DEF Chain
  <2> QED BY <2>2, <2>3, <2>4, EmptyKeeps
<1>10. CASE N # 1
  <2>1. ~(pv[i] = NULL /\ nx[i] = NULL)
    <3>1. p # 1 => p - 1 \in 1..N /\ pv[i] # NULL
      BY <1>7, <1>8
    <3>2. p # N => p + 1 \in 1..N /\ nx[i] # NULL
      BY <1>7, <1>8
    <3> QED BY <1>10, <3>1, <3>2
  <2>2. delete(x, i) = unlink(x, i)
    BY <1>2, <2>1 DEF delete
  <2> DEFINE hd == IF pv[i] = NULL THEN nx[i] ELSE h
             f == [j \in Items |-> IF j = i THEN NULL ELSE IF j = pv[i] THEN nx[i] ELSE nx[j]]
             g == [j \in Items |-> IF j = i THEN NULL ELSE IF j = nx[i] THEN pv[i] ELSE pv[j]]
             e == newTail(x, i)
             v == Relabel(t, e, N - 1)
             u == deleteInBucket(v, i)
             r == RemoveAt(s, p)
  <2>3. Linked(hd, f, g, r)
    BY <1>3, <1>5, <1>6, <1>10, Unlinked
  <2>4. Len(r) = N - 1 /\ \A k \in 1..(N - 1) : r[k] = IF k < p THEN s[k] ELSE s[k + 1]
    BY <1>5, <1>7, Dropped
  <2>5. Range(r) = Range(s) \ {i}
    <3>1. Chain(s, Range(s))
      BY <1>5, <1>7, <1>8 DEF Chain
    <3>2. Chain(r, Range(s) \ {s[p]})
      BY <1>5, <3>1, Shorter
    <3> QED BY <1>6, <3>2 DEF Chain
  <2>6. e = r[N - 1] /\ e \in Items /\ N - 1 \in Nat /\ N - 1 # 0
    <3>1. N \in 1..N /\ N - 1 \in 1..N /\ N - 1 \in 1..(N - 1) /\ t.tail = s[N]
      BY <1>3, <1>5, <1>10
    <3>2. e = IF s[N] = i THEN pv[i] ELSE s[N]
      BY <1>2, <3>1 DEF newTail
    <3>3. CASE p = N
      <4>1. e = s[N - 1]
        BY <1>6, <1>8, <1>10, <3>2, <3>3
      <4>2. N - 1 < p
        BY <3>3
      <4> QED BY <1>7, <2>4, <3>1, <4>1, <4>2
    <3>4. CASE p # N
      <4>1. e = s[N]
        BY <1>6, <1>8, <3>1, <3>2, <3>4
      <4>2. ~(N - 1 < p) /\ N - 1 + 1 = N
        BY <3>4
      <4> QED BY <1>7, <2>4, <3>1, <4>1, <4>2
    <3> HIDE DEF e
    <3> QED BY <3>1, <3>3, <3>4
  <2>7. unlink(x, i) = [head |-> hd, next |-> f, prev |-> g, tbl |-> u]
    <3> DEFINE F == [j \in Items |-> CASE j = i -> NULL
                                      [] j = x.prev[i] -> x.next[i]
                                      [] OTHER -> x.next[j]]
               G == [j \in Items |-> CASE j = i -> NULL
                                      [] j = x.next[i] -> x.prev[i]
                                      [] OTHER -> x.prev[j]]
               first == IF x.prev[i] = NULL THEN x.next[i] ELSE x.head
               w == [x.tbl EXCEPT !.tail = e, !.items = @ - 1]
    <3>1. i # pv[i] /\ i # nx[i]
      <4>1. p # 1 => p - 1 \in 1..N /\ p - 1 # p
        OBVIOUS
      <4>2. p # N => p + 1 \in 1..N /\ p + 1 # p
        OBVIOUS
      <4> QED BY <1>6, <1>7, <1>8, <4>1, <4>2
    <3>2. F = f /\ G = g
      <4>1. ASSUME NEW j \in Items PROVE F[j] = f[j] /\ G[j] = g[j]
        BY <1>2, <3>1
      <4> QED BY <4>1
    <3>3. v = w /\ first = hd
      BY <1>2, <1>3, <1>4, <1>5 DEF Relabel, Table
    <3>4. unlink(x, i) = [head |-> first, next |-> F, prev |-> G, tbl |-> deleteInBucket(w, i)]
      BY Zenon DEF unlink
    <3> HIDE DEF F, G, f, g, hd, first, e, v, w
    <3> QED BY <3>2, <3>3, <3>4
  <2> HIDE DEF hd, f, g, e, u, v, r
  <2>8. Table(u, n, Range(r)) /\ u.tail = e /\ u.items = N - 1
    <3>1. PICK k \in Nat : k = N - 1
      BY <2>6
    <3>2. e \in Items \cup {NULL}
      BY <2>6
    <3>3. /\ Table(Relabel(t, e, k), n, Range(s))
          /\ Relabel(t, e, k).tail = e /\ Relabel(t, e, k).items = k
      BY <1>4, <3>2, Relabelled
    <3>4. Table(v, n, Range(s)) /\ v.tail = e /\ v.items = N - 1
      BY <3>1, <3>3 DEF v
    <3>5. Table(u, n, Range(s) \ {i}) /\ u.tail = v.tail /\ u.items = v.items
      BY <3>4, DeletedInBucket DEF u
    <3> QED BY <2>5, <3>4, <3>5
  <2>9. \A j, k \in Range(r) : KeyOf[j] = KeyOf[k] => j = k
    BY <2>5 DEF Keeps
  <2>10. Keeps([head |-> hd, next |-> f, prev |-> g, tbl |-> u], r)
    BY <2>3, <2>4, <2>6, <2>8, <2>9 DEF Keeps
  <2> QED BY <2>2, <2>5, <2>7, <2>10
<1> QED BY <1>9, <1>10

\* There are no more items in a list than there are.
LEMMA NotMore ==
  ASSUME NEW h, NEW nx, NEW pv, NEW s, Linked(h, nx, pv, s)
  PROVE  Cardinality(Items) \in Nat /\ Len(s) \in 0..Cardinality(Items)
<1>1. PICK N \in Nat : N = Cardinality(Items)
  BY FS_CardinalityType, HashAssumption
<1>2. PICK L \in Nat : L = Len(s)
  BY LinkedItems
<1>3. s \in Injection(1..L, Items)
  <2>1. s \in Seq(Items)
    BY DEF Linked
  <2>2. s \in [1..L -> Items]
    BY <1>2, <2>1, LenProperties
  <2> QED BY <1>2, <2>2 DEF Linked, Injection, IsInjective
<1>4. Cardinality(1..L) <= Cardinality(Items)
  BY <1>3, FS_Injection, HashAssumption
<1>5. Cardinality(1..L) = IF 1 > L THEN 0 ELSE L - 1 + 1
  BY FS_Interval
<1> QED BY <1>1, <1>2, <1>4, <1>5

\* Following the list gives the items in their order.
LEMMA Ordered ==
  ASSUME NEW s, Linked(head, next, prev, s) PROVE order = s
<1> DEFINE after(i) == IF i = NULL THEN NULL ELSE next[i]
           Runs(f) == f = [k \in 0..Cardinality(Items) |-> IF k = 0 THEN head ELSE after(f[k - 1])]
           at == CHOOSE f : Runs(f)
           T == Items \cup {NULL}
           M == {Cardinality(Items)} \cup {n \in 0..Cardinality(Items) : at[n] = NULL}
<1>1. order = [k \in 1..Min(M) |-> at[k - 1]]
  BY Zenon DEF order
<1>2. PICK N \in Nat : N = Cardinality(Items)
  BY FS_CardinalityType, HashAssumption
<1>3. PICK L \in Nat : L = Len(s)
  BY LinkedItems
<1>4. /\ s \in Seq(Items) /\ NULL \notin Items /\ next \in [Items -> T]
      /\ \A k \in 1..L : s[k] \in Items /\ s[k] # NULL
  BY <1>3, LinkedItems, HashAssumption DEF Linked
<1>5. L <= N
  BY <1>2, <1>3, NotMore
<1>6. Runs(at)
  <2> DEFINE F == [k \in Nat |-> [i \in T |-> after(i)]]
  <2>1. \A i \in T : after(i) \in T
    BY <1>4
  <2>2. head \in T
    <3>1. L # 0 => 1 \in 1..L
      OBVIOUS
    <3> QED BY <1>3, <1>4, <3>1 DEF Linked
  <2> HIDE DEF T, after
  <2>3. F \in [Nat -> [T -> T]]
    BY <2>1
  <2>4. PICK f \in [0..N -> T] : Unrolls(f, N, head, F)
    BY <2>2, <2>3, Unrolled
  <2>5. ASSUME NEW k \in 0..N PROVE f[k] = IF k = 0 THEN head ELSE after(f[k - 1])
    <3>1. f[k] = IF k = 0 THEN head ELSE F[k][f[k - 1]]
      BY <2>4 DEF Unrolls
    <3>2. CASE k # 0
      <4>1. k - 1 \in 0..N /\ k \in Nat
        BY <3>2
      <4> QED BY <3>1, <3>2, <4>1
    <3> QED BY <3>1, <3>2
  <2>6. f = [k \in 0..N |-> f[k]]
    OBVIOUS
  <2>7. Runs(f)
    BY <1>2, <2>5, <2>6
  <2> QED BY <2>7, Zenon
<1> HIDE DEF at
<1>7. \A k \in 0..N : at[k] = IF k < L THEN s[k + 1] ELSE NULL
  <2> DEFINE S == {k \in Nat : k <= N => at[k] = IF k < L THEN s[k + 1] ELSE NULL}
  <2>1. 0 \in S
    <3>1. at[0] = head
      BY <1>2, <1>6
    <3> QED BY <1>3, <3>1 DEF Linked
  <2>2. ASSUME NEW k \in S PROVE k + 1 \in S
    <3> SUFFICES ASSUME k + 1 <= N
                 PROVE  at[k + 1] = IF k + 1 < L THEN s[k + 1 + 1] ELSE NULL
      OBVIOUS
    <3>1. k \in Nat /\ at[k] = IF k < L THEN s[k + 1] ELSE NULL
      OBVIOUS
    <3>2. at[k + 1] = after(at[k])
      <4>1. k + 1 \in 0..N /\ k + 1 # 0 /\ (k + 1) - 1 = k
        BY <3>1
      <4> QED BY <1>2, <1>6, <4>1
    <3>3. CASE k < L
      <4>1. k + 1 \in 1..L
        BY <3>1, <3>3
      <4>2. next[s[k + 1]] = IF k + 1 = L THEN NULL ELSE s[k + 1 + 1]
        BY <1>3, <4>1 DEF Linked
      <4>3. k + 1 < L <=> k + 1 # L
        BY <3>1, <3>3
      <4> QED BY <1>4, <3>1, <3>2, <3>3, <4>1, <4>2, <4>3
    <3>4. CASE ~(k < L)
      BY <3>1, <3>2, <3>4
    <3> QED BY <3>3, <3>4
  <2> HIDE DEF S
  <2>3. S \in SUBSET Nat
    BY DEF S
  <2>4. S = Nat
    BY <2>1, <2>2, <2>3, NatInduct
  <2> QED BY <2>4 DEF S
<1>8. Min(M) = L
  <2>1. M \in SUBSET Nat /\ M # {}
    BY <1>2
  <2>2. L \in M
    <3>1. L \in 0..N /\ at[L] = NULL
      BY <1>5, <1>7
    <3> QED BY <1>2, <3>1
  <2>3. \A n \in M : L <= n
    <3>1. \A n \in 0..N : at[n] = NULL => L <= n
      <4> SUFFICES ASSUME NEW n \in 0..N, n < L PROVE at[n] # NULL
        OBVIOUS
      <4>1. n + 1 \in 1..L
        OBVIOUS
      <4> QED BY <1>4, <1>7, <4>1
    <3> QED BY <1>2, <1>5, <3>1
  <2> HIDE DEF M
  <2>4. Min(M) \in M /\ \A n \in M : Min(M) <= n
    BY <2>1, NatMin
  <2>5. PICK m \in Nat : m = Min(M)
    BY <2>1, <2>4
  <2>6. m <= L /\ L <= m
    BY <2>2, <2>3, <2>4, <2>5, Zenon
  <2> QED BY <2>5, <2>6
<1>9. order = [k \in 1..L |-> at[k - 1]]
  BY <1>1, <1>8
<1>10. ASSUME NEW k \in 1..L PROVE order[k] = s[k]
  <2>1. k - 1 \in 0..N /\ k - 1 < L /\ (k - 1) + 1 = k
    BY <1>5
  <2> QED BY <1>7, <1>9, <2>1
<1>11. order \in Seq(Items) /\ Len(order) = L
  <2>1. \A k \in 1..L : order[k] \in Items
    BY <1>4, <1>10
  <2>2. order = [k \in 1..L |-> order[k]]
    BY <1>9
  <2>3. order \in [1..L -> Items]
    BY <2>1, <2>2
  <2> QED BY <2>3
<1> QED BY <1>3, <1>4, <1>10, <1>11, SeqEqual

LEMMA SortKeeps ==
  ASSUME NEW s, Keeps(list, s), Sort PROVE Keeps(list', sort(s))
<1> DEFINE t == sort(s)
           at(i) == SelectInSeq(t, LAMBDA j : j = i)
           neighbour(i, d) == LET k == at(i) + d IN IF k \in 1..Len(t) THEN t[k] ELSE NULL
<1>1. /\ Linked(head, next, prev, s)
      /\ \A i, j \in Range(s) : KeyOf[i] = KeyOf[j] => i = j
      /\ tbl.items = Len(s)
  BY DEF Keeps, list
<1>2. PICK n : Table(tbl, n, Range(s))
  BY DEF Keeps, list
<1>3. order = s /\ inTable = Range(s)
  BY <1>1, <1>2, Ordered, InTable
<1>4. /\ head # NULL /\ head' = t[1]
      /\ next' = [i \in Items |-> IF i \in inTable THEN neighbour(i, 1) ELSE next[i]]
      /\ prev' = [i \in Items |-> IF i \in inTable THEN neighbour(i, -1) ELSE prev[i]]
      /\ tbl' = [tbl EXCEPT !.tail = t[Len(t)]]
  BY <1>3, Zenon DEF Sort, Last
<1>5. /\ t \in Seq(Items) /\ Len(t) = Len(s) /\ Range(t) = Range(s)
      /\ \A i, j \in 1..Len(t) : t[i] = t[j] => i = j
  <2>1. s \in Seq(Items) /\ \A i, j \in 1..Len(s) : s[i] = s[j] => i = j
    BY <1>1 DEF Linked
  <2> QED BY <2>1, SortShuffles DEF Shuffles
<1> HIDE DEF t
<1>6. PICK L \in Nat \ {0} : L = Len(t)
  BY <1>1, <1>4, <1>5, LinkedItems DEF Linked
<1>7. /\ NULL \notin Items /\ 1 \in 1..L /\ L \in 1..L
      /\ \A k \in 1..L : t[k] \in Items /\ t[k] \in Range(s)
  BY <1>5, <1>6, ChainItems, HashAssumption
<1>8. \A k \in 1..L : at(t[k]) = k
  BY <1>5, <1>6, Position
<1> HIDE DEF at
<1>9. ASSUME NEW k \in 1..L
      PROVE  /\ next'[t[k]] = IF k = L THEN NULL ELSE t[k + 1]
             /\ prev'[t[k]] = IF k = 1 THEN NULL ELSE t[k - 1]
  <2>1. t[k] \in Items /\ t[k] \in inTable
    BY <1>3, <1>7
  <2>2. next'[t[k]] = neighbour(t[k], 1) /\ prev'[t[k]] = neighbour(t[k], -1)
    BY <1>4, <2>1
  <2>3. /\ neighbour(t[k], 1) = IF k + 1 \in 1..L THEN t[k + 1] ELSE NULL
        /\ neighbour(t[k], -1) = IF k - 1 \in 1..L THEN t[k - 1] ELSE NULL
    BY <1>6, <1>8
  <2>4. (k + 1 \in 1..L <=> k # L) /\ (k - 1 \in 1..L <=> k # 1)
    OBVIOUS
  <2> QED BY <2>2, <2>3, <2>4
<1>10. next' \in [Items -> Items \cup {NULL}] /\ prev' \in [Items -> Items \cup {NULL}]
  <2>1. \A i, d : neighbour(i, d) \in Items \cup {NULL}
    BY <1>6, <1>7
  <2>2. \A i \in Items : next[i] \in Items \cup {NULL} /\ prev[i] \in Items \cup {NULL}
    BY <1>1 DEF Linked
  <2> HIDE DEF neighbour
  <2> QED BY <1>4, <2>1, <2>2
<1>11. Linked(head', next', prev', t)
  BY <1>4, <1>5, <1>6, <1>9, <1>10 DEF Linked
<1>12. Table(tbl', n, Range(t)) /\ tbl'.tail = t[Len(t)] /\ tbl'.items = Len(t)
  <2>1. PICK e \in Items \cup {NULL} : e = t[Len(t)]
    BY <1>6, <1>7
  <2>2. tbl' = Relabel(tbl, e, L)
    BY <1>1, <1>2, <1>4, <1>5, <1>6, <2>1 DEF Relabel, Table
  <2>3. /\ Table(Relabel(tbl, e, L), n, Range(s))
        /\ Relabel(tbl, e, L).tail = e /\ Relabel(tbl, e, L).items = L
    BY <1>2, Relabelled
  <2> QED BY <1>5, <1>6, <2>1, <2>2, <2>3
<1> DEFINE x == [head |-> head', next |-> next', prev |-> prev', tbl |-> tbl']
<1>13. Keeps(x, t)
  BY <1>1, <1>5, <1>6, <1>11, <1>12 DEF Keeps
<1>14. list' = x
  BY DEF list
<1> HIDE DEF x
<1> QED BY <1>13, <1>14 DEF t

\* The inductive invariant
HashIInv == \E s : Keeps(list, s)

\* A call leaves what it has made of the list.
LEMMA Becomes ==
  ASSUME NEW x, NEW s, Keeps(x, s), becomes(x) PROVE HashIInv'
<1>1. /\ x = [head |-> x.head, next |-> x.next, prev |-> x.prev, tbl |-> x.tbl]
      /\ head' = x.head /\ next' = x.next /\ prev' = x.prev /\ tbl' = x.tbl
  BY DEF Keeps, becomes
<1>2. list' = [head |-> head', next |-> next', prev |-> prev', tbl |-> tbl']
  BY DEF list
<1>3. list' = x
  BY <1>1, <1>2, Zenon
<1> QED BY <1>3 DEF HashIInv

LEMMA HashStep == HashIInv /\ [HashNext]_hashVars => HashIInv'
<1> SUFFICES ASSUME HashIInv, [HashNext]_hashVars PROVE HashIInv'
  OBVIOUS
<1>1. PICK s : Keeps(list, s)
  BY DEF HashIInv
<1>2. PICK n : Table(tbl, n, Range(s))
  BY <1>1 DEF Keeps, list
<1>3. /\ Linked(head, next, prev, s) /\ Range(s) \subseteq Items
      /\ \A i, j \in Range(s) : KeyOf[i] = KeyOf[j] => i = j
  <2>1. /\ Linked(head, next, prev, s)
        /\ \A i, j \in Range(s) : KeyOf[i] = KeyOf[j] => i = j
    BY <1>1 DEF Keeps, list
  <2> QED BY <2>1, LinkedItems
<1>4. inTable = Range(s)
  BY <1>2, InTable
<1>5. ASSUME NEW i \in Items
      PROVE  /\ find(KeyOf[i]) = NULL => \A j \in Range(s) : KeyOf[j] # KeyOf[i]
             /\ find(KeyOf[i]) # NULL => /\ find(KeyOf[i]) \in Range(s)
                                         /\ KeyOf[find(KeyOf[i])] = KeyOf[i]
  <2>1. CASE head = NULL
    <3>1. find(KeyOf[i]) = NULL
      BY <2>1, Zenon DEF find
    <3>2. ASSUME NEW j \in Range(s) PROVE FALSE
      <4>1. PICK k \in 1..Len(s) : TRUE
        BY <1>3, LinkedItems
      <4>2. Len(s) # 0 /\ 1 \in 1..Len(s)
        BY <1>3, <4>1, LinkedItems
      <4>3. s[1] # NULL
        BY <1>3, <4>2, LinkedItems
      <4> QED BY <1>3, <2>1, <4>2, <4>3 DEF Linked
    <3> QED BY <3>1, <3>2
  <2>2. CASE head # NULL
    <3>1. KeyOf[i] \in HashKeys
      BY DEF HashKeys
    <3> QED BY <1>2, <1>3, <2>2, <3>1, Found
  <2> QED BY <2>1, <2>2
<1>6. ASSUME NEW i \in Items, Add(i) PROVE HashIInv'
  <2>1. i \notin Range(s) /\ \A j \in Range(s) : KeyOf[j] # KeyOf[i]
    BY <1>4, <1>5, <1>6 DEF Add
  <2>2. Keeps(add(list, i), Append(s, i)) /\ becomes(add(list, i))
    BY <1>1, <1>6, <2>1, AddKeeps DEF Add
  <2> QED BY <2>2, Becomes
<1>7. ASSUME NEW i \in Items, Delete(i) PROVE HashIInv'
  <2>1. i \in Range(s) /\ becomes(delete(list, i))
    BY <1>4, <1>7 DEF Delete
  <2>2. PICK r : Keeps(delete(list, i), r)
    BY <1>1, <2>1, DeleteKeeps
  <2> QED BY <2>1, <2>2, Becomes
<1>8. ASSUME NEW i \in Items, Replace(i) PROVE HashIInv'
  <2>1. PICK old : /\ old = find(KeyOf[i]) /\ i \notin Range(s) /\ old # NULL
                   /\ becomes(add(delete(list, old), i))
    BY <1>4, <1>8 DEF Replace
  <2>2. old \in Range(s) /\ KeyOf[old] = KeyOf[i]
    BY <1>5, <2>1
  <2>3. PICK r : Keeps(delete(list, old), r) /\ Range(r) = Range(s) \ {old}
    BY <1>1, <2>2, DeleteKeeps
  <2>4. i \notin Range(r) /\ \A j \in Range(r) : KeyOf[j] # KeyOf[i]
    BY <1>3, <2>1, <2>2, <2>3
  <2>5. Keeps(add(delete(list, old), i), Append(r, i))
    BY <2>3, <2>4, AddKeeps
  <2> QED BY <2>1, <2>5, Becomes
<1>9. CASE Clear
  BY <1>9, EmptyKeeps, Becomes DEF Clear
<1>10. CASE Sort
  BY <1>1, <1>10, SortKeeps DEF HashIInv
<1>11. CASE UNCHANGED hashVars
  <2>1. list' = list
    BY <1>11 DEF hashVars, list
  <2> QED BY <1>1, <2>1 DEF HashIInv
<1> QED BY <1>6, <1>7, <1>8, <1>9, <1>10, <1>11 DEF HashNext

LEMMA HashStart == HashInit => HashIInv
<1> SUFFICES ASSUME HashInit PROVE HashIInv
  OBVIOUS
<1>1. /\ head = emptyList.head /\ next = emptyList.next /\ prev = emptyList.prev
      /\ tbl = emptyList.tbl
  BY DEF HashInit, emptyList
<1>2. emptyList = [head |-> emptyList.head, next |-> emptyList.next,
                  prev |-> emptyList.prev, tbl |-> emptyList.tbl]
  BY EmptyKeeps DEF Keeps
<1>3. list = emptyList
  BY <1>1, <1>2, Zenon DEF list
<1> QED BY <1>3, EmptyKeeps DEF HashIInv

LEMMA HashIInvTypes == HashIInv => HashTypeOK
<1> SUFFICES ASSUME NEW s, Keeps(list, s) PROVE HashTypeOK
  BY DEF HashIInv
<1>1. Linked(head, next, prev, s) /\ tbl.items = Len(s) /\ \E n : Table(tbl, n, Range(s))
  BY DEF Keeps, list
<1>2. tbl.items \in 0..Cardinality(Items)
  BY <1>1, NotMore
<1>3. /\ next \in [Items -> Items \cup {NULL}] /\ prev \in [Items -> Items \cup {NULL}]
      /\ head \in Items \cup {NULL}
  <2>1. Len(s) # 0 => 1 \in 1..Len(s)
    BY <1>1, LinkedItems
  <2> QED BY <1>1, <2>1, LinkedItems DEF Linked
<1>4. /\ tbl.tail \in Items \cup {NULL}
      /\ \A b \in DOMAIN tbl.chain : tbl.chain[b] \in Seq(Items) /\ tbl.mult[b] \in Nat
  BY <1>1 DEF Table
<1> QED BY <1>2, <1>3, <1>4 DEF HashTypeOK

LEMMA HashIInvImplies == HashIInv => TableSound
<1> SUFFICES ASSUME NEW s, Keeps(list, s), head # NULL PROVE TableSound
  BY DEF HashIInv, TableSound
<1>1. /\ Linked(head, next, prev, s) /\ tbl.items = Len(s)
      /\ \A i, j \in Range(s) : KeyOf[i] = KeyOf[j] => i = j
      /\ tbl.tail = (IF Len(s) = 0 THEN NULL ELSE s[Len(s)])
  BY DEF Keeps, list
<1>2. PICK n : Table(tbl, n, Range(s))
  BY DEF Keeps, list
<1>3. order = s /\ inTable = Range(s)
  BY <1>1, <1>2, Ordered, InTable
<1>4. PICK L \in Nat \ {0} : L = Len(s)
  BY <1>1, LinkedItems DEF Linked
<1>5. 1 \in 1..L /\ L \in 1..L /\ head = s[1] /\ tbl.tail = s[L]
  BY <1>1, <1>4 DEF Linked
<1>6. prev[head] = NULL /\ next[tbl.tail] = NULL
  BY <1>1, <1>4, <1>5 DEF Linked
<1>7. ASSUME NEW k \in 1..(L - 1) PROVE prev[s[k + 1]] = s[k]
  <2>1. k + 1 \in 1..L /\ k + 1 # 1 /\ (k + 1) - 1 = k
    OBVIOUS
  <2> QED BY <1>1, <1>4, <2>1 DEF Linked
<1>8. IsInjective(s)
  <2>1. s \in Seq(Items) /\ \A i, j \in 1..Len(s) : s[i] = s[j] => i = j
    BY <1>1 DEF Linked
  <2>2. DOMAIN s = 1..Len(s)
    BY <2>1, LenProperties
  <2> QED BY <2>1, <2>2 DEF IsInjective
<1>9. ASSUME NEW i \in Range(s) PROVE find(KeyOf[i]) = i
  <2>1. KeyOf[i] \in HashKeys
    BY <1>1, LinkedItems DEF HashKeys
  <2> QED BY <1>1, <1>2, <2>1, Found
<1> QED BY <1>1, <1>3, <1>4, <1>5, <1>6, <1>7, <1>8, <1>9 DEF TableSound, Last

LEMMA HashInvariant == HashSpec => []HashIInv
BY HashStart, HashStep, PTL DEF HashSpec

\* The fields of the table and its lists hold items, of which it has so many.
THEOREM HashTyped == HashSpec => []HashTypeOK
BY HashInvariant, HashIInvTypes, PTL

\* Whatever items a table is given, in whatever order they are added, replaced,
\* deleted, cleared and sorted (uthash.h): the list of the application's order
\* is whole in both directions and ends at the table's tail, it holds exactly
\* the items of the chains, and every one of them is found by its key.
THEOREM HashStaysSound == HashSpec => []TableSound
BY HashInvariant, HashIInvImplies, PTL
=============================================================================
