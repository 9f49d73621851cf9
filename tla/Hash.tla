-------------------------------- MODULE Hash --------------------------------
(***************************************************************************)
(* The hash table that tomatod keeps its replicas in (uthash.h): a doubly  *)
(* linked list of the items in the order they were added, and an array of  *)
(* buckets that doubles when one of them gets too long.                    *)
(***************************************************************************)
EXTENDS Integers, Sequences, SequencesExt, FiniteSetsExt

CONSTANTS
  Items, NULL,
  KeyOf,           \* the key of an item
  Rank,            \* what a comparison function of HASH_SORT compares
  HashOf,          \* HASH_FCN: the hash value of a key
  InitialBuckets,  \* HASH_INITIAL_NUM_BUCKETS
  Capacity,        \* HASH_BKT_CAPACITY_THRESH
  MaxBuckets       \* bound: no item is added that makes the table grow beyond

HashKeys == {KeyOf[i] : i \in Items}

ASSUME HashAssumption ==
  /\ IsFiniteSet(Items) /\ NULL \notin Items
  /\ DOMAIN KeyOf = Items /\ Rank \in [Items -> Nat]
  /\ HashOf \in [HashKeys -> Nat]
  /\ InitialBuckets \in Nat \ {0} /\ Capacity \in Nat \ {0} /\ MaxBuckets \in Nat

VARIABLES
  head, next, prev,  \* the items in the order they were added
  tbl                \* UT_hash_table, with its buckets' chains and expand_mult

hashVars == <<head, next, prev, tbl>>

emptyTable ==
  [tail |-> NULL, items |-> 0,
   chain |-> [b \in 0..(InitialBuckets - 1) |-> <<>>],
   mult |-> [b \in 0..(InitialBuckets - 1) |-> 0],
   ineffective |-> 0, noexpand |-> FALSE]

\* HASH_TO_BKT masks the hash value: there are a power of two buckets.
numBuckets(t) == Cardinality(DOMAIN t.chain)
bucket(i, n) == HashOf[KeyOf[i]] % n
inTable == UNION {Range(tbl.chain[b]) : b \in DOMAIN tbl.chain}

HashTypeOK ==
  /\ head \in Items \cup {NULL}
  /\ next \in [Items -> Items \cup {NULL}] /\ prev \in [Items -> Items \cup {NULL}]
  /\ tbl.tail \in Items \cup {NULL} /\ tbl.items \in 0..Cardinality(Items)
  /\ \A b \in DOMAIN tbl.chain : tbl.chain[b] \in Seq(Items) /\ tbl.mult[b] \in Nat

----------------------------------------------------------------------------
\* HASH_FIND_IN_BKT
find(k) ==
  LET chain == tbl.chain[HashOf[k] % numBuckets(tbl)]
      i == SelectInSeq(chain, LAMBDA x : KeyOf[x] = k)
  IN IF head = NULL \/ i = 0 THEN NULL ELSE chain[i]

\* HASH_EXPAND_BUCKETS: each chain is split into two, whose items change their
\* order.  Chains longer than the ideal get a multiple of the capacity; when
\* more than half of the items are beyond the ideal for a second time, the
\* table stops growing.
split(chain, n, b) ==
  LET moved[k \in 0..Len(chain)] ==
        IF k = 0 THEN <<>>
        ELSE IF bucket(chain[k], 2 * n) = b THEN <<chain[k]>> \o moved[k - 1]
        ELSE moved[k - 1]
  IN moved[Len(chain)]

expand(t) ==
  LET n       == numBuckets(t)
      chain   == [b \in 0..(2 * n - 1) |-> split(t.chain[b % n], n, b)]
      ideal   == (t.items + 2 * n - 1) \div (2 * n)
      beyond(b) == Max({0, Len(chain[b]) - ideal})
      bad     == IF MapThenSumSet(beyond, DOMAIN chain) > t.items \div 2
                 THEN t.ineffective + 1 ELSE 0
  IN [t EXCEPT !.chain = chain,
               !.mult = [b \in DOMAIN chain |->
                           IF Len(chain[b]) > ideal THEN Len(chain[b]) \div ideal ELSE 0],
               !.ineffective = bad,
               !.noexpand = @ \/ bad > 1]

\* HASH_ADD_TO_BKT
addToBucket(t, i) ==
  LET b == bucket(i, numBuckets(t))
      u == [t EXCEPT !.chain[b] = <<i>> \o @]
  IN IF Len(u.chain[b]) >= (u.mult[b] + 1) * Capacity /\ ~u.noexpand THEN expand(u) ELSE u

----------------------------------------------------------------------------
\* The macros, on the list x = [head, next, prev, tbl].

list == [head |-> head, next |-> next, prev |-> prev, tbl |-> tbl]

emptyList ==
  [head |-> NULL, next |-> [i \in Items |-> NULL], prev |-> [i \in Items |-> NULL],
   tbl |-> emptyTable]

becomes(x) == head' = x.head /\ next' = x.next /\ prev' = x.prev /\ tbl' = x.tbl

append(x, i) ==
  IF x.head = NULL
  THEN [x EXCEPT !.head = i, !.next[i] = NULL, !.prev[i] = NULL,
                 !.tbl = [emptyTable EXCEPT !.tail = i]]
  ELSE [x EXCEPT !.next[i] = NULL, !.next[x.tbl.tail] = i, !.prev[i] = x.tbl.tail,
                 !.tbl.tail = i]

add(x, i) ==
  LET y == append(x, i)
      t == [y.tbl EXCEPT !.items = @ + 1]
  IN [y EXCEPT !.tbl = addToBucket(t, i)]

\* The last item takes the table with it.  What an item points to that is no
\* longer in the table nobody reads: it is NULL here.
newTail_Stays(x, i) == x.tbl.tail
newTail(x, i) == IF x.tbl.tail = i THEN x.prev[i] ELSE x.tbl.tail

\* HASH_DEL_IN_BKT
deleteInBucket(t, i) == [t EXCEPT !.chain[bucket(i, numBuckets(t))] = RemoveFirst(@, i)]

unlink(x, i) ==
  LET t == [x.tbl EXCEPT !.tail = newTail(x, i), !.items = @ - 1]
  IN [head |-> IF x.prev[i] = NULL THEN x.next[i] ELSE x.head,
      next |-> [j \in Items |-> CASE j = i -> NULL
                                 [] j = x.prev[i] -> x.next[i]
                                 [] OTHER -> x.next[j]],
      prev |-> [j \in Items |-> CASE j = i -> NULL
                                 [] j = x.next[i] -> x.prev[i]
                                 [] OTHER -> x.prev[j]],
      tbl |-> deleteInBucket(t, i)]

delete(x, i) ==
  IF x.prev[i] = NULL /\ x.next[i] = NULL
  THEN emptyList
  ELSE unlink(x, i)

----------------------------------------------------------------------------
\* What a program may do: an item is in the table once, and so is a key, as
\* the replicas' UUIDs are.

Add(i) ==
  /\ i \notin inTable /\ find(KeyOf[i]) = NULL
  /\ becomes(add(list, i))

Delete(i) ==
  /\ i \in inTable
  /\ becomes(delete(list, i))

Replace(i) ==
  LET old == find(KeyOf[i])
  IN /\ i \notin inTable /\ old # NULL
     /\ becomes(add(delete(list, old), i))

Clear ==
  /\ head # NULL
  /\ becomes(emptyList)

\* HASH_SRT.  A pass merges the runs of size items two by two: p is the next
\* item of a first run, q that of the second one, which ends before r.
before(i, j) == Rank[i] <= Rank[j]

takesFirst(s, size, m) ==
  m.p < m.r - size /\ (m.q = m.r \/ m.q > Len(s) \/ before(s[m.p], s[m.q]))

taken(s, size, m) ==
  LET x == IF takesFirst(s, size, m) THEN [m EXCEPT !.p = @ + 1] ELSE [m EXCEPT !.q = @ + 1]
  IN IF x.p = m.r - size /\ x.q = m.r
     THEN [p |-> m.r, q |-> m.r + size, r |-> m.r + 2 * size] ELSE x

pass(s, size) ==
  LET at[k \in 0..Len(s)] ==
        IF k = 0 THEN [p |-> 1, q |-> 1 + size, r |-> 1 + 2 * size] ELSE taken(s, size, at[k - 1])
  IN [k \in 1..Len(s) |-> s[LET m == at[k - 1] IN IF takesFirst(s, size, m) THEN m.p ELSE m.q]]

\* Passes until one run is left; there are less of them than items.
sort(s) ==
  LET again(l) ==
        IF l.size < Len(s) THEN [of |-> pass(l.of, l.size), size |-> 2 * l.size] ELSE l
      run[k \in 0..Len(s)] ==
        IF k = 0 THEN [of |-> s, size |-> 1] ELSE again(run[k - 1])
  IN run[Len(s)].of

\* The items in the order of the list: as many as there are at most
order ==
  LET N == Cardinality(Items)
      after(i) == IF i = NULL THEN NULL ELSE next[i]
      at[k \in 0..N] == IF k = 0 THEN head ELSE after(at[k - 1])
  IN [k \in 1..Min({N} \cup {n \in 0..N : at[n] = NULL}) |-> at[k - 1]]

Sort ==
  LET s == sort(order)
      neighbour(i, d) ==
        LET k == SelectInSeq(s, LAMBDA j : j = i) + d IN IF k \in 1..Len(s) THEN s[k] ELSE NULL
  IN /\ head # NULL
     /\ head' = s[1]
     /\ next' = [i \in Items |-> IF i \in inTable THEN neighbour(i, 1) ELSE next[i]]
     /\ prev' = [i \in Items |-> IF i \in inTable THEN neighbour(i, -1) ELSE prev[i]]
     /\ tbl' = [tbl EXCEPT !.tail = Last(s)]

HashInit ==
  /\ head = emptyList.head /\ next = emptyList.next /\ prev = emptyList.prev
  /\ tbl = emptyTable

HashNext ==
  /\ Clear \/ Sort \/ \E i \in Items : Add(i) \/ Delete(i) \/ Replace(i)
  /\ numBuckets(tbl') <= MaxBuckets

HashSpec == HashInit /\ [][HashNext]_hashVars

----------------------------------------------------------------------------
\* HASH_FSCK and more: after any sequence of calls the list and the buckets
\* hold the same items, each one is in the bucket where its key is looked for,
\* and the table knows their number and the end of the list.
TableSound ==
  head # NULL =>
    /\ Range(order) = inTable /\ Len(order) = tbl.items /\ IsInjective(order)
    /\ prev[head] = NULL /\ next[tbl.tail] = NULL /\ tbl.tail = Last(order)
    /\ \A k \in 1..(Len(order) - 1) : prev[order[k + 1]] = order[k]
    /\ \A i \in inTable : find(KeyOf[i]) = i
=============================================================================
