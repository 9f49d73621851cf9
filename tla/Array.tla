------------------------------- MODULE Array -------------------------------
(***************************************************************************)
(* The dynamic array that a timer keeps its times in (utarray.h), with     *)
(* ut_int_icd: no constructors, elements are copied byte by byte.  A call  *)
(* is a macro that runs to its end; out of memory, the process exits.      *)
(***************************************************************************)
EXTENDS Naturals, Sequences, SequencesExt, FiniteSetsExt

CONSTANTS
  Ints,     \* what is stored
  First,    \* the slots of the first allocation
  MaxSlots  \* bound: no call makes the array longer

ASSUME ArrayAssumption ==
  /\ Ints \subseteq Nat /\ 0 \in Ints
  /\ First \in Nat \ {0} /\ MaxSlots \in Nat

VARIABLES
  a,      \* the array: i of its n slots d are in use
  items   \* history: what the calls have made of a sequence

arrayVars == <<a, items>>

ArrayTypeOK ==
  /\ a.i \in 0..MaxSlots /\ a.n \in Nat /\ a.d \in [0..(a.n - 1) -> Ints]
  /\ items \in Seq(Ints)

contents == [k \in 1..a.i |-> a.d[k - 1]]

----------------------------------------------------------------------------
\* The macros, on an array x.

\* realloc keeps what was there; the new slots are not read before they are
\* written, and 0 here.  Any length in bounds is reached in MaxSlots doublings.
reserve(x, by) ==
  LET doubled[k \in 0..MaxSlots] ==
        IF k > 0 THEN 2 * doubled[k - 1] ELSE IF x.n = 0 THEN First ELSE x.n
      n == Min({s \in {doubled[k] : k \in 0..MaxSlots} : x.i + by <= s})
  IN IF x.i + by <= x.n THEN x
     ELSE [x EXCEPT !.n = n, !.d = [k \in 0..(n - 1) |-> IF k < x.n THEN x.d[k] ELSE 0]]

memmove(d, to, from, len) ==
  [k \in DOMAIN d |-> IF k \in to..(to + len - 1) THEN d[from + (k - to)] ELSE d[k]]

memcpy(d, to, s) ==
  [k \in DOMAIN d |-> IF k \in to..(to + Len(s) - 1) THEN s[k - to + 1] ELSE d[k]]

resize(x, num) ==
  LET y == reserve(x, num - x.i)
  IN IF x.i < num
     THEN [y EXCEPT !.d = memcpy(@, x.i, [k \in 1..(num - x.i) |-> 0]), !.i = num]
     ELSE [x EXCEPT !.i = num]

\* utarray_insert when s is one element, utarray_inserta when it is an array:
\* what lies at j and behind it makes room.
room_Short(x, len, j) ==
  LET y == reserve(IF j > x.i THEN resize(x, j) ELSE x, len)
  IN [y EXCEPT !.d = memmove(@, j + 1, j, IF j < y.i THEN y.i - j ELSE 0)]

room(x, len, j) ==
  LET y == reserve(IF j > x.i THEN resize(x, j) ELSE x, len)
  IN [y EXCEPT !.d = memmove(@, j + len, j, IF j < y.i THEN y.i - j ELSE 0)]

inserta(x, s, j) ==
  IF s = <<>> THEN x
  ELSE [room(x, Len(s), j) EXCEPT !.d = memcpy(@, j, s), !.i = @ + Len(s)]

erase(x, pos, len) ==
  [x EXCEPT !.d = IF x.i > pos + len THEN memmove(@, pos, pos + len, x.i - (pos + len)) ELSE @,
            !.i = @ - len]

----------------------------------------------------------------------------
PushBack(p) ==
  /\ a' = inserta(a, <<p>>, a.i)
  /\ items' = Append(items, p)

ExtendBack ==
  /\ a' = resize(a, a.i + 1)
  /\ items' = Append(items, 0)

PopBack ==
  /\ a.i > 0
  /\ a' = [a EXCEPT !.i = @ - 1]
  /\ items' = Front(items)

\* A position behind the end is filled up to with zeros.
filled(num) == items \o [k \in 1..(num - Len(items)) |-> 0]

Insert(s, j) ==
  /\ a' = inserta(a, s, j)
  /\ items' = IF s = <<>> THEN items
              ELSE SubSeq(filled(j), 1, j) \o s \o SubSeq(items, j + 1, Len(items))

Resize(num) ==
  /\ a' = resize(a, num)
  /\ items' = SubSeq(filled(num), 1, num)

Erase(pos, len) ==
  /\ pos + len <= a.i
  /\ a' = erase(a, pos, len)
  /\ items' = SubSeq(items, 1, pos) \o SubSeq(items, pos + len + 1, Len(items))

\* utarray_clear; utarray_done and utarray_new give back the slots as well.
Empty ==
  /\ a' \in {[a EXCEPT !.i = 0], [i |-> 0, n |-> 0, d |-> <<>>]}
  /\ items' = <<>>

ArrayInit ==
  /\ a = [i |-> 0, n |-> 0, d |-> <<>>]
  /\ items = <<>>

\* The arrays of two elements stand for all that may be inserted at once.
ArrayNext ==
  /\ \/ \E p \in Ints : PushBack(p)
     \/ ExtendBack \/ PopBack \/ Empty
     \/ \E s \in {<<>>} \cup {<<p>> : p \in Ints} \cup {<<p, q>> : p \in Ints, q \in Ints},
           j \in 0..MaxSlots : Insert(s, j)
     \/ \E num \in 0..MaxSlots : Resize(num)
     \/ \E pos \in 0..a.i, len \in 0..a.i : Erase(pos, len)
  /\ a'.i <= MaxSlots

ArraySpec == ArrayInit /\ [][ArrayNext]_arrayVars

----------------------------------------------------------------------------
\* Through growth and moves the slots in use hold what was stored, in its
\* order: no call moves an element too few, one too far or behind the array.
ArrayHoldsItems == a.i <= a.n /\ contents = items
=============================================================================
