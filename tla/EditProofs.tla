----------------------------- MODULE EditProofs -----------------------------
(***************************************************************************)
(* Proofs about LineEdit: the history stays in its bounds and loses         *)
(* nothing, and the terminal shows the line, for any lines, widths,        *)
(* lengths, completions and history file.                                  *)
(***************************************************************************)
EXTENDS LineEdit, SequenceTheorems, WellFoundedInduction, TLAPS

----------------------------------------------------------------------------
\* The history of the shell.  Its lengths do not depend on what its lines are.

IsList(s) == \E S : s \in Seq(S)

HistoryIInv ==
  /\ IsList(history)
  /\ maxLen \in Nat \ {0}
  /\ "index" \in DOMAIN l /\ l.index \in Nat
  /\ HistoryInBounds

LEMMA ListLen ==
  ASSUME NEW s, IsList(s) PROVE Len(s) \in Nat
BY DEF IsList

LEMMA ListAppend ==
  ASSUME NEW s, IsList(s), NEW e
  PROVE  IsList(Append(s, e)) /\ Len(Append(s, e)) = Len(s) + 1
<1>1. PICK S : s \in Seq(S)
  BY DEF IsList
<1>2. s \in Seq(S \cup {e})
  BY <1>1, SeqMonotonic
<1>3. Append(s, e) \in Seq(S \cup {e}) /\ Len(Append(s, e)) = Len(s) + 1
  BY <1>2, AppendProperties
<1> QED BY <1>3 DEF IsList

LEMMA ListTail ==
  ASSUME NEW s, IsList(s), Len(s) > 0
  PROVE  IsList(Tail(s)) /\ Len(Tail(s)) = Len(s) - 1
<1>1. PICK S : s \in Seq(S)
  BY DEF IsList
<1>2. s # <<>>
  BY EmptySeq
<1>3. Tail(s) \in Seq(S) /\ Len(Tail(s)) = Len(s) - 1
  BY <1>1, <1>2, HeadTailProperties
<1> QED BY <1>3 DEF IsList

LEMMA ListSubSeq ==
  ASSUME NEW s, IsList(s), NEW m \in Nat \ {0}, NEW n \in Nat, n <= Len(s), m <= n + 1
  PROVE  IsList(SubSeq(s, m, n)) /\ Len(SubSeq(s, m, n)) = n - m + 1
<1>1. PICK S : s \in Seq(S)
  BY DEF IsList
<1>2. Len(s) \in Nat /\ \A i \in m..n : s[i] \in S
  BY <1>1
<1>3. SubSeq(s, m, n) \in Seq(S) /\ Len(SubSeq(s, m, n)) = IF m <= n THEN n - m + 1 ELSE 0
  BY <1>2, SubSeqProperties
<1> QED BY <1>3 DEF IsList

LEMMA ListExcept ==
  ASSUME NEW s, IsList(s), NEW i \in 1..Len(s), NEW e
  PROVE  IsList([s EXCEPT ![i] = e]) /\ Len([s EXCEPT ![i] = e]) = Len(s)
<1>1. PICK S : s \in Seq(S)
  BY DEF IsList
<1>2. s \in Seq(S \cup {e})
  BY <1>1, SeqMonotonic
<1>3. [s EXCEPT ![i] = e] \in Seq(S \cup {e}) /\ Len([s EXCEPT ![i] = e]) = Len(s)
  BY <1>2, ExceptSeq
<1> QED BY <1>3 DEF IsList

\* No operation of the editor moves to another entry.
SameEntry(s, t) == "index" \in DOMAIN t /\ t.index = s.index

LEMMA EditKeepsEntry ==
  ASSUME NEW s, "index" \in DOMAIN s, NEW t \in edited(s) PROVE SameEntry(s, t)
<1> USE DEF SameEntry, refresh
<1>1. CASE t \in {left(s), right(s), deleteChar(s), backspace(s)}
  BY <1>1 DEF left, right, deleteChar, backspace
<1>2. CASE t \in {deletePrevWord(s), clear(s), kill(s), home(s), end(s), refresh(s), s}
  BY <1>2 DEF deletePrevWord, clear, kill, home, end
<1>3. CASE t = swap(s)
  BY <1>3 DEF swap
<1>4. ASSUME NEW c \in Chars, t = insert(s, c) PROVE SameEntry(s, t)
  BY <1>4 DEF insert
<1> QED BY <1>1, <1>2, <1>3, <1>4 DEF edited

LEMMA AddInBounds ==
  ASSUME HistoryIInv, NEW line
  PROVE  /\ IsList(historyAdd(history, line))
         /\ Len(historyAdd(history, line)) \in 1..maxLen
<1> DEFINE h == IF Len(history) = maxLen THEN Tail(history) ELSE history
<1>1. IsList(history) /\ Len(history) \in Nat /\ Len(history) <= maxLen /\ maxLen \in Nat \ {0}
  BY ListLen DEF HistoryIInv, HistoryInBounds
<1>2. IsList(h) /\ Len(h) \in 0..(maxLen - 1)
  <2>1. CASE Len(history) = maxLen
    BY <1>1, <2>1, ListTail
  <2>2. CASE Len(history) # maxLen
    BY <1>1, <2>2
  <2> QED BY <2>1, <2>2
<1> HIDE DEF h
<1>3. IsList(Append(h, line)) /\ Len(Append(h, line)) = Len(h) + 1
  BY <1>2, ListAppend
<1> QED BY <1>1, <1>2, <1>3 DEF historyAdd, h

LEMMA BrowseInBounds ==
  ASSUME HistoryIInv, NEW s, SameEntry(l, s), l.index < Len(history),
         NEW i \in Int, browse(s, i), UNCHANGED maxLen
  PROVE  /\ IsList(history') /\ Len(history') = Len(history)
         /\ "index" \in DOMAIN l' /\ l'.index \in Nat /\ l'.index < Len(history')
<1>1. IsList(history) /\ Len(history) \in Nat /\ l.index \in Nat
  BY ListLen DEF HistoryIInv
<1>2. CASE Len(history) <= 1
  BY <1>1, <1>2 DEF browse, SameEntry
<1>3. CASE ~(Len(history) <= 1)
  <2> DEFINE e == entry(s, s.index)
  <2>1. e \in 1..Len(history)
    BY <1>1 DEF entry, SameEntry
  <2>2. history' = [history EXCEPT ![e] = s.buf]
    BY <1>3 DEF browse, historyNext
  <2> HIDE DEF e
  <2>3. IsList(history') /\ Len(history') = Len(history)
    BY <1>1, <2>1, <2>2, ListExcept
  <2>4. CASE i \in 0..(Len(history) - 1)
    <3>1. "index" \in DOMAIN l' /\ l'.index = i
      BY <1>3, <2>4 DEF browse, refresh, SameEntry
    <3> QED BY <1>1, <2>3, <2>4, <3>1
  <2>5. CASE i \notin 0..(Len(history) - 1)
    <3>1. l' = s
      BY <1>3, <2>5 DEF browse
    <3> QED BY <1>1, <2>3, <3>1 DEF SameEntry
  <2> QED BY <2>4, <2>5
<1> QED BY <1>2, <1>3

LEMMA KeyInBounds ==
  ASSUME HistoryIInv, Editing, NEW s, SameEntry(l, s), Key(s)
  PROVE  HistoryIInv'
<1>1. /\ IsList(history) /\ Len(history) \in Nat /\ Len(history) <= maxLen
      /\ maxLen \in Nat \ {0} /\ l.index \in Nat /\ l.index < Len(history)
  BY ListLen DEF HistoryIInv, HistoryInBounds
<1>2. CASE Edit(s)
  <2>1. "index" \in DOMAIN l' /\ l'.index = l.index
    BY <1>2, EditKeepsEntry DEF Edit, SameEntry
  <2> QED BY <1>1, <1>2, <2>1 DEF Edit, HistoryIInv, HistoryInBounds
<1>3. CASE Browse(s)
  <2>1. maxLen' = maxLen /\ (browse(s, s.index + 1) \/ browse(s, s.index - 1))
    BY <1>3 DEF Browse
  <2>2. s.index + 1 \in Int /\ s.index - 1 \in Int
    BY <1>1 DEF SameEntry
  <2>3. /\ IsList(history') /\ Len(history') = Len(history)
        /\ "index" \in DOMAIN l' /\ l'.index \in Nat /\ l'.index < Len(history')
    BY <1>1, <2>1, <2>2, BrowseInBounds
  <2> QED BY <1>1, <2>1, <2>3 DEF HistoryIInv, HistoryInBounds
<1>4. CASE Enter(s)
  <2>1. history' = SubSeq(history, 1, Len(history) - 1)
    BY <1>4 DEF Enter, Front
  <2>2. IsList(history') /\ Len(history') = Len(history) - 1
    <3> DEFINE n == Len(history) - 1
    <3>1. n \in Nat /\ n <= Len(history) /\ 1 <= n + 1 /\ n - 1 + 1 = n /\ 1 \in Nat \ {0}
      BY <1>1
    <3>2. history' = SubSeq(history, 1, n)
      BY <2>1
    <3> HIDE DEF n
    <3>3. IsList(history') /\ Len(history') = n
      BY <1>1, <3>1, <3>2, ListSubSeq
    <3> QED BY <3>3 DEF n
  <2>3. ~Editing' /\ maxLen' = maxLen /\ l' = s
    BY <1>4 DEF Enter, leave, Editing
  <2> QED BY <1>1, <2>2, <2>3 DEF HistoryIInv, HistoryInBounds, SameEntry
<1>5. CASE Quit(s)
  <2>1. ~Editing' /\ UNCHANGED <<history, maxLen>> /\ l' = s
    BY <1>5 DEF Quit, leave, Editing
  <2> QED BY <1>1, <2>1 DEF HistoryIInv, HistoryInBounds, SameEntry
<1> QED BY <1>2, <1>3, <1>4, <1>5 DEF Key

LEMMA AcceptedSame == HistoryIInv => SameEntry(l, accepted) /\ SameEntry(l, l)
BY DEF HistoryIInv, SameEntry, accepted

LEMMA HangUpInBounds == HistoryIInv /\ HangUp => HistoryIInv'
<1> SUFFICES ASSUME HistoryIInv, HangUp PROVE HistoryIInv'
  OBVIOUS
<1>1. ~Editing' /\ UNCHANGED <<history, maxLen>> /\ l' \in {l, accepted}
  BY DEF HangUp, hangUp, leave, Editing
<1>2. SameEntry(l, l')
  BY <1>1, AcceptedSame
<1> QED BY <1>1, <1>2 DEF HistoryIInv, HistoryInBounds, SameEntry

LEMMA EscapeInBounds == HistoryIInv /\ Escape => HistoryIInv'
<1> SUFFICES ASSUME HistoryIInv, Escape PROVE HistoryIInv'
  OBVIOUS
<1> DEFINE s == refresh(l)
<1>1. SameEntry(l, s) /\ Editing /\ maxLen' = maxLen
  BY DEF Escape, SameEntry, refresh, HistoryIInv, Editing
<1>2. /\ Len(history) \in Nat /\ maxLen \in Nat \ {0} /\ Len(history) <= maxLen
      /\ l.index \in Nat /\ l.index < Len(history) /\ "index" \in DOMAIN s
  BY <1>1, ListLen DEF HistoryIInv, HistoryInBounds, SameEntry
<1>3. CASE l' \in {s, left(s), right(s), deleteChar(s)} /\ UNCHANGED history
  <2>1. l' \in edited(s)
    BY <1>3 DEF edited
  <2>2. SameEntry(s, l')
    BY <1>2, <2>1, EditKeepsEntry
  <2>3. "index" \in DOMAIN l' /\ l'.index = l.index
    BY <1>1, <2>2 DEF SameEntry
  <2> QED BY <1>1, <1>2, <1>3, <2>3 DEF HistoryIInv, HistoryInBounds
<1>4. CASE browse(s, s.index + 1) \/ browse(s, s.index - 1)
  <2>1. s.index + 1 \in Int /\ s.index - 1 \in Int
    BY <1>1, <1>2 DEF SameEntry
  <2>2. /\ IsList(history') /\ Len(history') = Len(history)
        /\ "index" \in DOMAIN l' /\ l'.index \in Nat /\ l'.index < Len(history')
    BY <1>1, <1>2, <1>4, <2>1, BrowseInBounds
  <2> QED BY <1>1, <1>2, <2>2 DEF HistoryIInv, HistoryInBounds
<1> QED BY <1>3, <1>4 DEF Escape

\* Completions are shown in the screen alone.
LEMMA TabInBounds == HistoryIInv /\ (Tab \/ TabAgain) => HistoryIInv'
<1> SUFFICES ASSUME HistoryIInv, Tab \/ TabAgain PROVE HistoryIInv'
  OBVIOUS
<1>1. Editing /\ UNCHANGED <<history, maxLen>>
  BY DEF Tab, TabAgain, Editing
<1>2. PICK w : l' = [l EXCEPT !.screen = w]
  BY DEF Tab, TabAgain
<1>3. "index" \in DOMAIN l' /\ l'.index = l.index
  BY <1>2 DEF HistoryIInv
<1> QED BY <1>1, <1>3 DEF HistoryIInv, HistoryInBounds

LEMMA LoadInBounds ==
  ASSUME HistoryIInv, NEW lines \in Saved
  PROVE  IsList(historyLoad(lines)) /\ Len(historyLoad(lines)) <= maxLen
<1> DEFINE n == Len(lines)
           m == IF n > maxLen THEN n - maxLen + 1 ELSE 1
<1>1. IsList(lines) /\ n \in Nat /\ maxLen \in Nat \ {0}
  BY EditAssumption, ListLen DEF IsList, HistoryIInv
<1>2. m \in Nat \ {0} /\ m <= n + 1 /\ n - m + 1 <= maxLen
  BY <1>1
<1> HIDE DEF n, m
<1>3. IsList(SubSeq(lines, m, n)) /\ Len(SubSeq(lines, m, n)) = n - m + 1
  <2>1. n <= Len(lines)
    BY <1>1 DEF n
  <2> QED BY <1>1, <1>2, <2>1, ListSubSeq
<1> QED BY <1>2, <1>3 DEF historyLoad, m, n

LEMMA MaxLenInBounds ==
  ASSUME HistoryIInv, NEW len \in Nat, historySetMaxLen(len)
  PROVE  IsList(history') /\ maxLen' \in Nat \ {0} /\ Len(history') <= maxLen'
<1>1. IsList(history) /\ Len(history) \in Nat /\ Len(history) <= maxLen /\ maxLen \in Nat \ {0}
  BY ListLen DEF HistoryIInv, HistoryInBounds
<1>2. CASE len < 1
  BY <1>1, <1>2 DEF historySetMaxLen
<1>3. CASE ~(len < 1)
  <2> DEFINE n == Len(history)
             m == IF n > len THEN n - len + 1 ELSE 1
  <2>1. m \in Nat \ {0} /\ m <= n + 1 /\ n - m + 1 <= len
    BY <1>1, <1>3
  <2>2. history' = SubSeq(history, m, n) /\ maxLen' = len
    BY <1>3 DEF historySetMaxLen
  <2> HIDE DEF m
  <2>3. IsList(history') /\ Len(history') = n - m + 1
    BY <1>1, <2>1, <2>2, ListSubSeq
  <2> QED BY <1>3, <2>1, <2>2, <2>3
<1> QED BY <1>2, <1>3

LEMMA HistoryStep == HistoryIInv /\ [EditNext]_editVars => HistoryIInv'
<1> SUFFICES ASSUME HistoryIInv, [EditNext]_editVars PROVE HistoryIInv'
  OBVIOUS
<1> USE DEF HistoryIInv, HistoryInBounds
<1>1. CASE KeyPress
  BY <1>1, KeyInBounds, AcceptedSame DEF KeyPress, Editing
<1>2. CASE HangUp \/ Escape \/ Tab \/ TabAgain
  BY <1>2, HangUpInBounds, EscapeInBounds, TabInBounds
<1>3. CASE StartShell
  <2>1. ~Editing' /\ UNCHANGED <<l, maxLen>>
    BY <1>3 DEF StartShell, Editing
  <2>2. CASE UNCHANGED history
    BY <2>1, <2>2
  <2>3. CASE \E lines \in Saved : history' = historyLoad(lines)
    BY <2>1, <2>3, LoadInBounds
  <2> QED BY <1>3, <2>2, <2>3 DEF StartShell
<1>4. CASE Prompt
  <2>1. /\ l' = empty /\ maxLen' = maxLen
        /\ IsList(history') /\ Len(history') \in 1..maxLen
    BY <1>4, AddInBounds DEF Prompt
  <2>2. "index" \in DOMAIN l' /\ l'.index = 0
    BY <2>1 DEF empty
  <2> QED BY <2>1, <2>2
<1>5. CASE ReadLine
  <2>1. ~Editing' /\ UNCHANGED <<history, maxLen>>
    BY <1>5 DEF ReadLine, Editing
  <2>2. "index" \in DOMAIN l' /\ l'.index \in Nat
    BY <1>5 DEF ReadLine, empty
  <2> QED BY <2>1, <2>2
<1>6. CASE Dispatch
  <2>1. ~Editing' /\ "index" \in DOMAIN l' /\ l'.index \in Nat
    BY <1>6 DEF Dispatch, Editing, empty
  <2>2. CASE UNCHANGED <<history, maxLen>>
    BY <2>1, <2>2
  <2>3. CASE \E len \in MaxLens : historySetMaxLen(len)
    BY <2>1, <2>3, MaxLenInBounds, EditAssumption
  <2>4. CASE maxLen' = maxLen /\ history' = historyAdd(history, l.buf)
    <3>1. IsList(history') /\ Len(history') \in 1..maxLen
      BY <2>4, AddInBounds
    <3> QED BY <2>1, <2>4, <3>1
  <2> QED BY <1>6, <2>2, <2>3, <2>4 DEF Dispatch
<1>7. CASE UNCHANGED editVars
  BY <1>7 DEF editVars, Editing
<1> QED BY <1>1, <1>2, <1>3, <1>4, <1>5, <1>6, <1>7 DEF EditNext

LEMMA HistoryStart == EditInit => HistoryIInv
<1> SUFFICES ASSUME EditInit PROVE HistoryIInv
  OBVIOUS
<1>1. IsList(history) /\ Len(history) = 0
  BY EmptySeq DEF EditInit, IsList
<1>2. ~Editing /\ "index" \in DOMAIN l /\ l.index = 0 /\ maxLen \in Nat \ {0}
  BY EditAssumption DEF EditInit, Editing, empty
<1> QED BY <1>1, <1>2 DEF HistoryIInv, HistoryInBounds

\* The history never outgrows its array and always has the entry that the
\* editor is at, for any lines, lengths, completions and history file.
THEOREM HistoryStaysInBounds == EditSpec => []HistoryInBounds
<1>1. HistoryIInv => HistoryInBounds
  BY DEF HistoryIInv
<1> QED BY <1>1, HistoryStart, HistoryStep, PTL DEF EditSpec

----------------------------------------------------------------------------
\* The editor.  What the terminal shows is the window of the line that the
\* cursor is in, also after the one key that writes a character only.

Screens == [text : Seq(Chars), col : Nat]

Editors ==
  {s \in [buf : Seq(Chars), pos : Nat, index : Nat, screen : Screens] : s.pos <= Len(s.buf)}

\* A window starts at from, ends at to, and has the cursor's column.
Shows(s) ==
  LET text == s.screen.text
      from == s.pos - s.screen.col
      to   == from + Len(text)
  IN /\ s.screen.col <= s.pos /\ s.screen.col < Room
     /\ to <= Len(s.buf)
     /\ text = SubSeq(s.buf, from + 1, to)
     /\ to = Len(s.buf) \/ Len(text) = Room

\* What is shown while completions are offered is what a key would accept.
ScreenIInv ==
  /\ mode \in {"start", "prompt", "edit", "complete", "entered", "over", "overrun"}
  /\ tty \in BOOLEAN
  /\ l \in Editors
  /\ offers \in Seq(Lines) /\ offer \in 0..Len(offers)
  /\ history \in Seq(Lines)
  /\ mode # "overrun" => l.buf \in Lines
  /\ mode = "edit" => Shows(l)
  /\ mode = "complete" => l.screen = window(accepted)

LEMMA LinesAre ==
  /\ \A s \in Lines : s \in Seq(Chars) /\ Len(s) < BufLen
  /\ \A s \in Seq(Chars) : Len(s) < BufLen => s \in Lines
<1>1. BufLen \in Nat \ {0}
  BY EditAssumption
<1>2. ASSUME NEW s \in Lines PROVE s \in Seq(Chars) /\ Len(s) < BufLen
  <2>1. PICK n \in 0..(BufLen - 1) : s \in [1..n -> Chars]
    BY DEF Lines
  <2>2. n \in Nat
    BY <1>1
  <2>3. s \in Seq(Chars) /\ Len(s) = n
    BY <2>1, <2>2
  <2> QED BY <1>1, <2>1, <2>3
<1>3. ASSUME NEW s \in Seq(Chars), Len(s) < BufLen PROVE s \in Lines
  <2>1. s \in [1..Len(s) -> Chars] /\ Len(s) \in 0..(BufLen - 1)
    BY <1>1, <1>3, LenProperties
  <2> QED BY <2>1, Zenon DEF Lines
<1> QED BY <1>2, <1>3

\* The least of a set of numbers, and the greatest of a bounded one
LEMMA NatMin ==
  ASSUME NEW S \in SUBSET Nat, S # {} PROVE Min(S) \in S /\ \A n \in S : Min(S) <= n
<1> DEFINE R == OpToRel(<, Nat)
<1>1. IsWellFoundedOn(R, Nat)
  BY NatLessThanWellFounded
<1>2. \A x, y \in Nat : y < x => <<y, x>> \in R
  BY DEF OpToRel
<1> HIDE DEF R
<1>3. PICK x \in S : \A y \in S : ~(<<y, x>> \in R)
  BY <1>1, WFMin, Zenon
<1>4. ASSUME NEW y \in S PROVE x <= y
  <2>1. ~(y < x)
    BY <1>2, <1>3, Zenon
  <2> QED BY <2>1
<1> QED BY <1>3, <1>4, Zenon DEF Min

LEMMA NatMax ==
  ASSUME NEW n \in Nat, NEW S \in SUBSET (0..n), S # {} PROVE Max(S) \in S
<1> DEFINE C == {n - x : x \in S}
<1>1. C \in SUBSET Nat /\ C # {}
  OBVIOUS
<1>2. Min(C) \in C /\ \A c \in C : Min(C) <= c
  <2> HIDE DEF C
  <2> QED BY <1>1, NatMin
<1>3. PICK x \in S : Min(C) = n - x
  BY <1>2
<1>4. ASSUME NEW y \in S PROVE x >= y
  <2>1. n - y \in C
    OBVIOUS
  <2>2. n - x <= n - y
    BY <1>2, <1>3, <2>1
  <2>3. x \in 0..n /\ y \in 0..n
    OBVIOUS
  <2> QED BY <2>2, <2>3
<1> QED BY <1>4, Zenon DEF Max

LEMMA PartOf ==
  ASSUME NEW S, NEW s \in Seq(S), NEW m \in Nat \ {0}, NEW n \in Nat, n <= Len(s)
  PROVE  /\ SubSeq(s, m, n) \in Seq(S)
         /\ Len(SubSeq(s, m, n)) = IF m <= n THEN n - m + 1 ELSE 0
<1>1. \A i \in m..n : s[i] \in S
  BY LenProperties
<1> QED BY <1>1, SubSeqProperties

LEMMA WindowShows ==
  ASSUME NEW s \in Editors
  PROVE  /\ window(s) \in Screens
         /\ refresh(s) \in Editors
         /\ refresh(s).buf = s.buf /\ refresh(s).index = s.index
         /\ Shows(refresh(s))
<1> DEFINE n    == Len(s.buf)
           from == IF s.pos < Room THEN 0 ELSE s.pos - Room + 1
           to   == Min({n, from + Room})
           text == SubSeq(s.buf, from + 1, to)
<1>1. /\ s \in [buf : Seq(Chars), pos : Nat, index : Nat, screen : Screens]
      /\ s.buf \in Seq(Chars) /\ n \in Nat /\ s.pos \in Nat /\ s.pos <= n /\ Room \in Nat \ {0}
  BY EditAssumption DEF Editors
<1>2. from \in Nat /\ from <= s.pos /\ s.pos - from < Room
  BY <1>1
<1>3. to \in {n, from + Room} /\ to <= n /\ to <= from + Room
  <2>1. {n, from + Room} \in SUBSET Nat /\ {n, from + Room} # {}
    BY <1>1, <1>2
  <2> HIDE DEF n, from
  <2>2. to \in {n, from + Room} /\ \A x \in {n, from + Room} : to <= x
    BY <2>1, NatMin
  <2> QED BY <2>2
<1>4. window(s) = [text |-> text, col |-> s.pos - from]
  BY DEF window
<1> HIDE DEF n, from, to
<1>5. to \in Nat /\ from <= to
  BY <1>1, <1>2, <1>3
<1>6. text \in Seq(Chars) /\ Len(text) = to - from
  <2>1. from + 1 \in Nat \ {0} /\ to <= Len(s.buf)
    BY <1>2, <1>3 DEF n
  <2>2. text \in Seq(Chars) /\ Len(text) = IF from + 1 <= to THEN to - (from + 1) + 1 ELSE 0
    BY <1>1, <1>5, <2>1, PartOf
  <2> QED BY <1>2, <1>5, <2>2
<1>7. s.pos - from \in Nat /\ s.pos - (s.pos - from) = from
  BY <1>1, <1>2
<1>8. window(s) \in Screens
  BY <1>4, <1>6, <1>7 DEF Screens
<1> DEFINE r == refresh(s)
<1>9. /\ r.buf = s.buf /\ r.pos = s.pos /\ r.index = s.index /\ r.screen = window(s)
      /\ r \in [buf : Seq(Chars), pos : Nat, index : Nat, screen : Screens]
  BY <1>1, <1>8 DEF refresh
<1> HIDE DEF r
<1>10. r \in Editors
  BY <1>1, <1>9 DEF Editors, n
<1>11. r.screen.text = text /\ r.screen.col = s.pos - from
  <2> HIDE DEF text
  <2>1. window(s) = [text |-> text, col |-> s.pos - from]
    BY <1>4 DEF text
  <2> QED BY <1>9, <2>1
<1>12. Shows(r)
  <2>1. from + Len(text) = to /\ from + 1 \in Nat
    BY <1>2, <1>5, <1>6
  <2>2. s.pos - from <= s.pos
    BY <1>1, <1>2
  <2>3. to = n \/ Len(text) = Room
    BY <1>1, <1>2, <1>3, <1>6
  <2> HIDE DEF text
  <2>4. text = SubSeq(s.buf, from + 1, to)
    BY DEF text
  <2> QED BY <1>2, <1>3, <1>7, <1>9, <1>11, <2>1, <2>2, <2>3, <2>4 DEF Shows, n
<1> QED BY <1>8, <1>9, <1>10, <1>12 DEF r

\* A line with a character more, or with a part of it taken out
LEMMA Inserted ==
  ASSUME NEW S, NEW s \in Seq(S), NEW i \in 1..(Len(s) + 1), NEW e \in S
  PROVE  /\ InsertAt(s, i, e) \in Seq(S) /\ Len(InsertAt(s, i, e)) = Len(s) + 1
         /\ i = Len(s) + 1 => InsertAt(s, i, e) = Append(s, e)
<1>1. Len(s) \in Nat /\ i \in Nat \ {0} /\ i - 1 \in Nat /\ i - 1 <= Len(s)
  OBVIOUS
<1> DEFINE a == SubSeq(s, 1, i - 1)
           b == SubSeq(s, i, Len(s))
<1>2. a \in Seq(S) /\ Len(a) = i - 1
  <2>1. a \in Seq(S) /\ Len(a) = IF 1 <= i - 1 THEN (i - 1) - 1 + 1 ELSE 0
    BY <1>1, PartOf
  <2> QED BY <1>1, <2>1
<1>3. b \in Seq(S) /\ Len(b) = Len(s) - i + 1
  <2>1. b \in Seq(S) /\ Len(b) = IF i <= Len(s) THEN Len(s) - i + 1 ELSE 0
    BY <1>1, PartOf
  <2> QED BY <1>1, <2>1
<1>4. InsertAt(s, i, e) = (a \o <<e>>) \o b
  BY DEF InsertAt
<1>5. i = Len(s) + 1 => a = s /\ b = <<>>
  <2> SUFFICES ASSUME i = Len(s) + 1 PROVE a = s /\ b = <<>>
    OBVIOUS
  <2>1. i - 1 = Len(s)
    BY <1>1
  <2>2. SubSeq(s, 1, Len(s)) = s
    BY SubSeqFull
  <2>3. Len(b) = 0
    BY <1>1, <1>3
  <2> QED BY <1>3, <2>1, <2>2, <2>3, EmptySeq
<1> HIDE DEF a, b
<1>6. /\ (a \o <<e>>) \o b \in Seq(S)
      /\ Len((a \o <<e>>) \o b) = Len(a) + 1 + Len(b)
  BY <1>2, <1>3
<1>7. Len(b) + Len(a) + 1 = Len(s) + 1
  BY <1>1, <1>2, <1>3
<1>8. i = Len(s) + 1 => (a \o <<e>>) \o b = Append(s, e)
  BY <1>2, <1>3, <1>5
<1> QED BY <1>1, <1>2, <1>3, <1>4, <1>6, <1>7, <1>8

LEMMA CutOut ==
  ASSUME NEW S, NEW s \in Seq(S), NEW m \in 0..Len(s), NEW n \in m..Len(s)
  PROVE  /\ SubSeq(s, 1, m) \o SubSeq(s, n + 1, Len(s)) \in Seq(S)
         /\ Len(SubSeq(s, 1, m) \o SubSeq(s, n + 1, Len(s))) = Len(s) - (n - m)
<1>1. Len(s) \in Nat /\ m \in Nat /\ n \in Nat /\ n + 1 \in Nat \ {0} /\ m <= Len(s) /\ n <= Len(s)
  OBVIOUS
<1> DEFINE a == SubSeq(s, 1, m)
           b == SubSeq(s, n + 1, Len(s))
<1>2. a \in Seq(S) /\ Len(a) = IF 1 <= m THEN m - 1 + 1 ELSE 0
  BY <1>1, PartOf
<1>3. b \in Seq(S) /\ Len(b) = IF n + 1 <= Len(s) THEN Len(s) - (n + 1) + 1 ELSE 0
  BY <1>1, PartOf
<1> HIDE DEF a, b
<1>4. a \o b \in Seq(S) /\ Len(a \o b) = Len(a) + Len(b)
  BY <1>2, <1>3, ConcatProperties
<1>5. Len(a) = m /\ Len(b) = Len(s) - n
  BY <1>1, <1>2, <1>3
<1>6. m + (Len(s) - n) = Len(s) - (n - m)
  BY <1>1
<1> QED BY <1>4, <1>5, <1>6 DEF a, b

\* Every operation of the editor leaves its line in the terminal.
Kept(s, t) == t \in Editors /\ t.index = s.index /\ (Shows(s) => Shows(t))

LEMMA Refreshed ==
  ASSUME NEW s \in Editors, NEW b \in Seq(Chars), NEW p \in Nat, p <= Len(b)
  PROVE  Kept(s, refresh([s EXCEPT !.buf = b, !.pos = p]))
<1>1. s \in [buf : Seq(Chars), pos : Nat, index : Nat, screen : Screens]
  BY DEF Editors
<1> DEFINE t == [s EXCEPT !.buf = b, !.pos = p]
<1>2. t \in [buf : Seq(Chars), pos : Nat, index : Nat, screen : Screens] /\ t.index = s.index
  BY <1>1
<1>3. t.buf = b /\ t.pos = p
  BY <1>1
<1> HIDE DEF t
<1>4. t \in Editors
  BY <1>2, <1>3 DEF Editors
<1>5. refresh(t) \in Editors /\ refresh(t).index = t.index /\ Shows(refresh(t))
  BY <1>4, WindowShows
<1> QED BY <1>2, <1>5 DEF Kept, t

\* A character at the end of a line that fits
LEMMA WrittenAsItIs ==
  ASSUME NEW s \in Editors, NEW c \in Chars, s.pos = Len(s.buf), Len(s.buf) + 1 < Room,
         NEW t \in Editors, Shows(s), t.buf = Append(s.buf, c), t.pos = s.pos + 1,
         t.screen.text = Append(s.screen.text, c), t.screen.col = s.screen.col + 1
  PROVE  Shows(t)
<1> DEFINE from == s.pos - s.screen.col
           text == s.screen.text
           n    == Len(s.buf)
<1>1. /\ s.buf \in Seq(Chars) /\ n \in Nat /\ s.pos = n /\ text \in Seq(Chars) /\ Room \in Nat
      /\ s.screen.col \in Nat /\ Len(text) \in Nat
  BY EditAssumption DEF Editors, Screens
<1>2. /\ s.screen.col <= s.pos /\ from \in Nat /\ from + Len(text) <= n
      /\ text = SubSeq(s.buf, from + 1, from + Len(text))
      /\ from + Len(text) = n \/ Len(text) = Room
  <2>1. /\ s.screen.col <= s.pos /\ from + Len(text) <= n
        /\ text = SubSeq(s.buf, from + 1, from + Len(text))
        /\ from + Len(text) = n \/ Len(text) = Room
    BY Zenon DEF Shows
  <2>2. from \in Nat
    <3>1. PICK p \in Nat, q \in Nat : p = s.pos /\ q = s.screen.col
      BY <1>1
    <3>2. q <= p
      BY <2>1, <3>1
    <3>3. p - q \in Nat
      BY <3>2
    <3> QED BY <3>1, <3>3
  <2> QED BY <2>1, <2>2
<1>3. from + Len(text) = n
  BY <1>1, <1>2
<1> DEFINE u == Append(s.buf, c)
           v == Append(text, c)
<1>4. /\ u \in Seq(Chars) /\ Len(u) = n + 1 /\ v \in Seq(Chars) /\ Len(v) = Len(text) + 1
      /\ \A i \in 1..n : u[i] = s.buf[i]
      /\ \A i \in 1..Len(text) : v[i] = text[i]
      /\ u[n + 1] = c /\ v[Len(text) + 1] = c
  BY <1>1
<1>5. t.pos - t.screen.col = from
  <2>1. t.pos = s.pos + 1 /\ t.screen.col = s.screen.col + 1
    OBVIOUS
  <2>2. PICK p \in Nat, q \in Nat : p = s.pos /\ q = s.screen.col
    BY <1>1
  <2>3. (p + 1) - (q + 1) = p - q
    OBVIOUS
  <2> QED BY <2>1, <2>2, <2>3
<1>6. \A i \in 1..Len(text) : text[i] = s.buf[from + i]
  <2>1. \A i \in 1..(n - (from + 1) + 1) : SubSeq(s.buf, from + 1, n)[i] = s.buf[from + 1 + i - 1]
    <3> HIDE DEF from
    <3>1. \A i \in (from + 1)..n : s.buf[i] \in Chars
      BY <1>1, <1>2
    <3>2. from + 1 \in Int /\ n \in Int
      BY <1>1, <1>2
    <3> HIDE DEF n
    <3> QED BY <3>1, <3>2, SubSeqProperties
  <2> HIDE DEF from, text, n
  <2>2. Len(text) = n - (from + 1) + 1
    BY <1>1, <1>2, <1>3
  <2>3. \A i \in 1..Len(text) : from + 1 + i - 1 = from + i
    BY <1>1, <1>2
  <2> QED BY <1>2, <1>3, <2>1, <2>2, <2>3
<1> HIDE DEF from, text, n, u, v
<1>7. SubSeq(u, from + 1, n + 1) = v
  <2> DEFINE w == SubSeq(u, from + 1, n + 1)
  <2> DEFINE x == from + 1
             y == n + 1
  <2>1. x \in Int /\ y \in Int /\ x <= y /\ y - x + 1 = Len(v) /\ x - 1 = from
    BY <1>1, <1>2, <1>3, <1>4
  <2>2. \A i \in x..y : u[i] \in Chars
    BY <1>1, <1>2, <1>4
  <2> HIDE DEF x, y
  <2>3. /\ w \in Seq(Chars)
        /\ Len(w) = IF x <= y THEN y - x + 1 ELSE 0
        /\ \A i \in 1..(y - x + 1) : w[i] = u[x + i - 1]
    <3>1. w = SubSeq(u, x, y)
      BY DEF x, y
    <3> HIDE DEF w
    <3> QED BY <2>1, <2>2, <3>1, SubSeqProperties
  <2> HIDE DEF w
  <2>4. Len(w) = Len(v)
    BY <2>1, <2>3
  <2>5. ASSUME NEW i \in 1..Len(w) PROVE w[i] = v[i]
    <3>1. w[i] = u[from + i]
      <4>1. x + i - 1 = from + i
        BY <1>2, <2>1, <2>3
      <4> QED BY <2>1, <2>3, <2>4, <4>1
    <3>2. CASE i = Len(text) + 1
      BY <1>1, <1>2, <1>3, <1>4, <3>1, <3>2
    <3>3. CASE i # Len(text) + 1
      <4>1. i \in 1..Len(text) /\ from + i \in 1..n
        BY <1>1, <1>2, <1>3, <1>4, <2>4, <3>3
      <4> QED BY <1>4, <1>6, <3>1, <4>1
    <3> QED BY <3>2, <3>3
  <2> QED BY <1>4, <2>3, <2>4, <2>5, SeqEqual DEF w
<1>8. from + Len(v) = n + 1
  BY <1>1, <1>2, <1>3, <1>4
<1>9. t.screen.col < Room /\ t.screen.col <= t.pos
  <2>1. t.screen.col = s.screen.col + 1 /\ t.pos = n + 1 /\ s.screen.col <= n
    BY <1>1, <1>2
  <2>2. n + 1 < Room
    BY DEF n
  <2> QED BY <1>1, <2>1, <2>2
<1>10. t.screen.text = v /\ t.buf = u /\ Len(u) = n + 1
  BY <1>4 DEF text, u, v
<1>11. t.screen.text = SubSeq(t.buf, from + 1, from + Len(t.screen.text))
  BY <1>7, <1>8, <1>10
<1>12. from + Len(v) <= Len(u)
  BY <1>1, <1>8, <1>10
<1> QED BY <1>5, <1>8, <1>9, <1>10, <1>11, <1>12, Zenon DEF Shows

LEMMA InsertKeeps ==
  ASSUME NEW s \in Editors, NEW c \in Chars PROVE Kept(s, insert(s, c))
<1> DEFINE b == InsertAt(s.buf, s.pos + 1, c)
           t == [s EXCEPT !.buf = b, !.pos = s.pos + 1]
           u == [t EXCEPT !.screen.text = Append(s.screen.text, c),
                          !.screen.col = s.screen.col + 1]
<1>1. /\ s \in [buf : Seq(Chars), pos : Nat, index : Nat, screen : Screens]
      /\ s.buf \in Seq(Chars) /\ s.pos \in Nat /\ s.pos <= Len(s.buf) /\ Len(s.buf) \in Nat
      /\ s.screen \in [text : Seq(Chars), col : Nat]
  BY DEF Editors, Screens
<1>2. /\ b \in Seq(Chars) /\ Len(b) = Len(s.buf) + 1
      /\ s.pos = Len(s.buf) => b = Append(s.buf, c)
  <2>1. PICK i \in 1..(Len(s.buf) + 1) : i = s.pos + 1
    BY <1>1
  <2>2. /\ InsertAt(s.buf, i, c) \in Seq(Chars) /\ Len(InsertAt(s.buf, i, c)) = Len(s.buf) + 1
        /\ i = Len(s.buf) + 1 => InsertAt(s.buf, i, c) = Append(s.buf, c)
    BY <1>1, Inserted
  <2>3. s.pos = Len(s.buf) => i = Len(s.buf) + 1
    BY <2>1
  <2> QED BY <2>1, <2>2, <2>3
<1> HIDE DEF b
<1>3. s.pos + 1 \in Nat /\ s.pos + 1 <= Len(b)
  BY <1>1, <1>2
<1>4. CASE s.pos = Len(s.buf) /\ Len(b) < Room
  <2>1. insert(s, c) = u
    BY <1>1, <1>4, Zenon DEF insert, b
  <2>2. /\ t.screen = s.screen
        /\ t \in [buf : Seq(Chars), pos : Nat, index : Nat, screen : Screens]
        /\ t.buf = b /\ t.pos = s.pos + 1 /\ t.index = s.index
    BY <1>1, <1>2, <1>3
  <2>3. Append(s.screen.text, c) \in Seq(Chars) /\ s.screen.col + 1 \in Nat
    BY <1>1
  <2> HIDE DEF t
  <2>4. /\ u.buf = b /\ u.pos = s.pos + 1 /\ u.index = s.index
        /\ u.screen.text = Append(s.screen.text, c)
        /\ u.screen.col = s.screen.col + 1
        /\ u \in [buf : Seq(Chars), pos : Nat, index : Nat, screen : Screens]
    BY <1>1, <2>2, <2>3 DEF Screens
  <2> HIDE DEF u
  <2>5. u \in Editors
    BY <1>3, <2>4 DEF Editors
  <2>6. Shows(s) => Shows(u)
    <3>1. s.pos = Len(s.buf) /\ Len(s.buf) + 1 < Room /\ u.buf = Append(s.buf, c)
      BY <1>2, <1>4, <2>4
    <3> QED BY <2>4, <2>5, <3>1, WrittenAsItIs
  <2> QED BY <2>1, <2>4, <2>5, <2>6 DEF Kept
<1>5. CASE ~(s.pos = Len(s.buf) /\ Len(b) < Room)
  <2>1. insert(s, c) = refresh([s EXCEPT !.buf = b, !.pos = s.pos + 1])
    BY <1>1, <1>5, Zenon DEF insert, b
  <2> QED BY <1>2, <1>3, <2>1, Refreshed
<1> QED BY <1>4, <1>5

LEMMA WordStart ==
  ASSUME NEW s \in Editors PROVE wordStart(s) \in 0..s.pos
<1> DEFINE A == {0} \cup {i \in 1..s.pos : s.buf[i] # Blank}
           last == Max(A)
           B == {0} \cup {i \in 1..last : s.buf[i] = Blank}
<1>1. s.pos \in Nat
  BY DEF Editors
<1>2. last \in 0..s.pos
  <2>1. A \in SUBSET (0..s.pos) /\ A # {}
    BY <1>1
  <2> HIDE DEF A
  <2>2. last \in A
    BY <1>1, <2>1, NatMax
  <2> QED BY <2>1, <2>2
<1> HIDE DEF last
<1>3. Max(B) \in 0..last
  <2>1. B \in SUBSET (0..last) /\ B # {} /\ last \in Nat
    BY <1>1, <1>2
  <2> HIDE DEF B
  <2>2. Max(B) \in B
    BY <2>1, NatMax
  <2> QED BY <2>1, <2>2
<1>4. wordStart(s) = Max(B)
  BY DEF wordStart, last
<1> QED BY <1>1, <1>2, <1>3, <1>4

LEMMA EditKept ==
  ASSUME NEW s \in Editors, NEW t \in edited(s) PROVE Kept(s, t)
<1>1. /\ s \in [buf : Seq(Chars), pos : Nat, index : Nat, screen : Screens]
      /\ s.buf \in Seq(Chars) /\ s.pos \in Nat /\ s.pos <= Len(s.buf) /\ Len(s.buf) \in Nat
  BY DEF Editors
<1>2. CASE t = s
  BY <1>2 DEF Kept
<1>3. ASSUME NEW p \in Nat, p <= Len(s.buf) PROVE Kept(s, refresh([s EXCEPT !.pos = p]))
  <2>1. [s EXCEPT !.pos = p] = [s EXCEPT !.buf = s.buf, !.pos = p]
    BY <1>1
  <2> QED BY <1>1, <1>3, <2>1, Refreshed
<1>4. ASSUME NEW b \in Seq(Chars), s.pos <= Len(b)
      PROVE  Kept(s, refresh([s EXCEPT !.buf = b]))
  <2>1. [s EXCEPT !.buf = b] = [s EXCEPT !.buf = b, !.pos = s.pos]
    BY <1>1
  <2> QED BY <1>1, <1>4, <2>1, Refreshed
<1>5. CASE t \in {left(s), right(s), home(s), end(s), refresh(s)}
  <2>1. CASE t = left(s) /\ s.pos > 0
    <3>1. s.pos - 1 \in Nat /\ s.pos - 1 <= Len(s.buf)
      BY <1>1, <2>1
    <3>2. t = refresh([s EXCEPT !.pos = s.pos - 1])
      BY <2>1 DEF left
    <3> QED BY <1>3, <3>1, <3>2
  <2>2. CASE t = right(s) /\ s.pos # Len(s.buf)
    <3>1. s.pos + 1 \in Nat /\ s.pos + 1 <= Len(s.buf)
      BY <1>1, <2>2
    <3>2. t = refresh([s EXCEPT !.pos = s.pos + 1])
      BY <2>2 DEF right
    <3> QED BY <1>3, <3>1, <3>2
  <2>3. CASE t = home(s)
    <3>1. 0 \in Nat /\ 0 <= Len(s.buf)
      BY <1>1
    <3> QED BY <1>3, <2>3, <3>1 DEF home
  <2>4. CASE t = end(s)
    BY <1>1, <1>3, <2>4 DEF end
  <2>5. CASE t = refresh(s)
    BY <2>5, WindowShows DEF Kept
  <2>6. CASE (t = left(s) /\ ~(s.pos > 0)) \/ (t = right(s) /\ s.pos = Len(s.buf))
    BY <1>2, <2>6 DEF left, right
  <2> QED BY <1>5, <2>1, <2>2, <2>3, <2>4, <2>5, <2>6
<1>6. CASE t = deleteChar(s)
  <2>1. CASE s.pos < Len(s.buf)
    <3> DEFINE b == RemoveAt(s.buf, s.pos + 1)
    <3>1. b \in Seq(Chars) /\ Len(b) = Len(s.buf) - 1
      <4>1. PICK m \in 0..Len(s.buf) : m = s.pos /\ m < Len(s.buf)
        BY <1>1, <2>1
      <4> DEFINE n == m + 1
      <4>2. n \in m..Len(s.buf) /\ n - 1 = m /\ n - m = 1 /\ n = s.pos + 1
        <5>1. PICK k \in Nat : k = Len(s.buf)
          BY <1>1
        <5>2. n \in m..k /\ n - 1 = m /\ n - m = 1
          BY <4>1, <5>1
        <5> QED BY <4>1, <5>1, <5>2
      <4> HIDE DEF n
      <4>3. b = SubSeq(s.buf, 1, m) \o SubSeq(s.buf, n + 1, Len(s.buf))
        BY <4>1, <4>2 DEF RemoveAt
      <4> HIDE DEF b
      <4>4. b \in Seq(Chars) /\ Len(b) = Len(s.buf) - (n - m)
        BY <1>1, <4>1, <4>2, <4>3, CutOut
      <4> QED BY <4>2, <4>4
    <3>2. s.pos <= Len(b)
      BY <1>1, <2>1, <3>1
    <3>3. t = refresh([s EXCEPT !.buf = b])
      BY <1>6, <2>1, Zenon DEF deleteChar
    <3> QED BY <1>4, <3>1, <3>2, <3>3
  <2>2. CASE ~(s.pos < Len(s.buf))
    BY <1>2, <1>6, <2>2 DEF deleteChar
  <2> QED BY <2>1, <2>2
<1>7. CASE t = backspace(s)
  <2>1. CASE s.pos > 0
    <3> DEFINE b == RemoveAt(s.buf, s.pos)
    <3>1. b \in Seq(Chars) /\ Len(b) = Len(s.buf) - 1
      <4> DEFINE m == s.pos - 1
                 n == s.pos
      <4>1. m \in 0..Len(s.buf) /\ n \in m..Len(s.buf) /\ n - m = 1
        BY <1>1, <2>1
      <4>2. b = SubSeq(s.buf, 1, m) \o SubSeq(s.buf, n + 1, Len(s.buf))
        BY DEF RemoveAt
      <4> HIDE DEF m, n, b
      <4>3. b \in Seq(Chars) /\ Len(b) = Len(s.buf) - (n - m)
        BY <1>1, <4>1, <4>2, CutOut
      <4> QED BY <4>1, <4>3
    <3>2. s.pos - 1 \in Nat /\ s.pos - 1 <= Len(b)
      BY <1>1, <2>1, <3>1
    <3>3. t = refresh([s EXCEPT !.buf = b, !.pos = s.pos - 1])
      BY <1>7, <2>1, Zenon DEF backspace
    <3> QED BY <3>1, <3>2, <3>3, Refreshed
  <2>2. CASE ~(s.pos > 0)
    BY <1>2, <1>7, <2>2 DEF backspace
  <2> QED BY <2>1, <2>2
<1>8. CASE t = deletePrevWord(s)
  <2> DEFINE p == wordStart(s)
             b == SubSeq(s.buf, 1, p) \o SubSeq(s.buf, s.pos + 1, Len(s.buf))
  <2>1. p \in 0..s.pos
    BY WordStart
  <2>2. t = refresh([s EXCEPT !.buf = b, !.pos = p])
    BY <1>8, Zenon DEF deletePrevWord
  <2> HIDE DEF p
  <2>3. p \in 0..Len(s.buf) /\ s.pos \in p..Len(s.buf)
    BY <1>1, <2>1
  <2>4. b \in Seq(Chars) /\ Len(b) = Len(s.buf) - (s.pos - p)
    BY <1>1, <2>3, CutOut
  <2> HIDE DEF b
  <2>5. p \in Nat /\ p <= Len(b)
    BY <1>1, <2>3, <2>4
  <2> QED BY <2>2, <2>4, <2>5, Refreshed
<1>9. CASE t = swap(s)
  <2>1. CASE s.pos > 0 /\ s.pos < Len(s.buf)
    <3> DEFINE b == [s.buf EXCEPT ![s.pos] = s.buf[s.pos + 1], ![s.pos + 1] = s.buf[s.pos]]
               p == IF s.pos # Len(s.buf) - 1 THEN s.pos + 1 ELSE s.pos
    <3>1. b \in Seq(Chars) /\ Len(b) = Len(s.buf)
      <4>1. PICK i \in 1..Len(s.buf) : i = s.pos /\ i + 1 \in 1..Len(s.buf)
        BY <1>1, <2>1
      <4>2. s.buf[i] \in Chars /\ s.buf[i + 1] \in Chars
        BY <1>1, <4>1
      <4> DEFINE a == [s.buf EXCEPT ![i] = s.buf[i + 1]]
      <4>3. a \in Seq(Chars) /\ Len(a) = Len(s.buf)
        BY <1>1, <4>2, ExceptSeq
      <4>4. b = [a EXCEPT ![i + 1] = s.buf[i]]
        BY <4>1
      <4> HIDE DEF a, b
      <4> QED BY <4>1, <4>2, <4>3, <4>4, ExceptSeq
    <3>2. p \in Nat /\ p <= Len(b)
      <4> HIDE DEF b
      <4> QED BY <1>1, <2>1, <3>1
    <3>3. t = refresh([s EXCEPT !.buf = b, !.pos = p])
      BY <1>9, <2>1, Zenon DEF swap
    <3> HIDE DEF b, p
    <3> QED BY <3>1, <3>2, <3>3, Refreshed
  <2>2. CASE ~(s.pos > 0 /\ s.pos < Len(s.buf))
    BY <1>2, <1>9, <2>2, Zenon DEF swap
  <2> QED BY <2>1, <2>2
<1>10. CASE t = clear(s)
  <2>1. <<>> \in Seq(Chars) /\ Len(<<>>) = 0 /\ 0 \in Nat /\ 0 <= Len(<<>>)
    OBVIOUS
  <2> QED BY <1>10, <2>1, Refreshed DEF clear
<1>11. CASE t = kill(s)
  <2> DEFINE b == SubSeq(s.buf, 1, s.pos)
  <2>1. b \in Seq(Chars) /\ Len(b) = IF 1 <= s.pos THEN s.pos - 1 + 1 ELSE 0
    BY <1>1, PartOf
  <2> HIDE DEF b
  <2>2. s.pos <= Len(b)
    BY <1>1, <2>1
  <2> QED BY <1>4, <1>11, <2>1, <2>2 DEF kill, b
<1>12. ASSUME NEW c \in Chars, t = insert(s, c) PROVE Kept(s, t)
  BY <1>12, InsertKeeps
<1> QED BY <1>2, <1>5, <1>6, <1>7, <1>8, <1>9, <1>10, <1>11, <1>12 DEF edited

----------------------------------------------------------------------------
\* What going to another entry makes of the entries, brought up to date
Updated(s) == [i \in 1..Len(history) |-> IF i = entry(s, s.index) THEN s.buf ELSE history[i]]

\* The entry of the line is brought up to date, and a line of the history is
\* shown with the cursor at its end.
LEMMA BrowseKeeps ==
  ASSUME ScreenIInv, NEW s \in Editors, s.buf \in Lines, s.index < Len(history),
         NEW i \in Int, browse(s, i)
  PROVE  /\ l' \in Editors /\ l'.buf \in Lines /\ l'.index < Len(history)
         /\ Shows(s) => Shows(l')
         /\ history' \in Seq(Lines) /\ Len(history') = Len(history)
         /\ Updated(s) = [k \in 1..Len(history) |->
                            IF k = Len(history) - l'.index THEN l'.buf ELSE history'[k]]
<1>1. /\ history \in Seq(Lines) /\ Len(history) \in Nat /\ s.index \in Nat
      /\ s \in [buf : Seq(Chars), pos : Nat, index : Nat, screen : Screens]
  BY DEF ScreenIInv, Editors
<1> DEFINE e == entry(s, s.index)
           h == [history EXCEPT ![e] = s.buf]
<1>2. e \in 1..Len(history) /\ e = Len(history) - s.index
  BY <1>1 DEF entry
<1>3. h \in Seq(Lines) /\ Len(h) = Len(history)
  <2> HIDE DEF e
  <2> QED BY <1>1, <1>2, ExceptSeq
<1>4. ASSUME NEW k \in 1..Len(history) PROVE h[k] = IF k = e THEN s.buf ELSE history[k]
  <2> HIDE DEF e
  <2> QED BY <1>1, <1>2, ExceptSeq
<1>5. Updated(s) = [k \in 1..Len(history) |-> h[k]]
  <2> HIDE DEF h
  <2> QED BY <1>4, Zenon DEF Updated
<1>6. CASE Len(history) <= 1
  <2>1. l' = s /\ history' = history
    BY <1>6 DEF browse
  <2> QED BY <1>1, <1>2, <2>1 DEF Updated, entry
<1>7. CASE ~(Len(history) <= 1) /\ i \notin 0..(Len(history) - 1)
  <2>1. l' = s /\ history' = h
    BY <1>7, Zenon DEF browse, historyNext
  <2> HIDE DEF h
  <2>2. Updated(s) = [k \in 1..Len(history) |-> IF k = Len(history) - s.index THEN s.buf ELSE h[k]]
    <3>1. ASSUME NEW k \in 1..Len(history)
          PROVE  h[k] = IF k = Len(history) - s.index THEN s.buf ELSE h[k]
      BY <1>2, <1>4
    <3> QED BY <1>5, <3>1, Zenon
  <2> QED BY <1>3, <2>1, <2>2
<1>8. CASE ~(Len(history) <= 1) /\ i \in 0..(Len(history) - 1)
  <2> DEFINE f    == entry(s, i)
             line == h[f]
             t    == [s EXCEPT !.buf = line, !.pos = Len(line), !.index = i]
  <2>1. l' = refresh(t) /\ history' = h
    <3> HIDE DEF e
    <3> QED BY <1>8, Zenon DEF browse, historyNext, e
  <2>2. f \in 1..Len(history) /\ f = Len(history) - i /\ i \in Nat /\ i < Len(history)
    BY <1>1, <1>8 DEF entry
  <2> HIDE DEF h, f
  <2>3. line \in Lines
    BY <1>3, <2>2
  <2>4. line \in Seq(Chars) /\ Len(line) \in Nat
    BY <2>3, LinesAre
  <2> HIDE DEF line
  <2>5. /\ t \in [buf : Seq(Chars), pos : Nat, index : Nat, screen : Screens]
        /\ t.buf = line /\ t.pos = Len(line) /\ t.index = i
    BY <1>1, <2>2, <2>4
  <2> HIDE DEF t
  <2>6. t \in Editors
    BY <2>4, <2>5 DEF Editors
  <2>7. l' \in Editors /\ l'.buf = line /\ l'.index = i /\ Shows(l')
    BY <2>1, <2>5, <2>6, WindowShows
  <2>8. Updated(s) = [k \in 1..Len(history) |-> IF k = Len(history) - i THEN line ELSE h[k]]
    <3>1. ASSUME NEW k \in 1..Len(history)
          PROVE  h[k] = IF k = Len(history) - i THEN line ELSE h[k]
      BY <2>2 DEF line
    <3> QED BY <1>5, <3>1, Zenon
  <2> QED BY <1>3, <2>1, <2>2, <2>3, <2>7, <2>8
<1> QED BY <1>6, <1>7, <1>8

\* What a key may change, of the entries of the history
OtherEntriesKept ==
  Editing /\ Editing' =>
    /\ \A i \in 1..Len(history) : i # Len(history) - l.index => Entries'[i] = Entries[i]
    /\ mode = "edit" /\ l'.index # l.index => Entries' = Entries

LEMMA SameHistory ==
  ASSUME history' = history, l'.index = l.index PROVE OtherEntriesKept
<1> SUFFICES ASSUME NEW i \in 1..Len(history), i # Len(history) - l.index
             PROVE  Entries'[i] = Entries[i]
  BY DEF OtherEntriesKept
<1>1. Entries[i] = history[i]
  BY DEF Entries
<1>2. Entries' = [k \in 1..Len(history) |->
                   IF k = Len(history) - l.index THEN l'.buf ELSE history[k]]
  BY DEF Entries
<1>3. Entries'[i] = history[i]
  BY <1>2
<1> QED BY <1>1, <1>3

\* The editor works on s: the line, or the completion that a key accepts.
WorksOn(s) ==
  /\ s \in Editors /\ s.buf \in Lines /\ s.index = l.index
  /\ Shows(s)
  /\ mode = "edit" => s = l

EditIInv == HistoryIInv /\ ScreenIInv

LEMMA HistoryHasEntry ==
  ASSUME EditIInv, Editing
  PROVE  Len(history) \in Nat /\ l.index \in Nat /\ l.index < Len(history)
BY DEF EditIInv, HistoryIInv, HistoryInBounds, ScreenIInv

LEMMA BrowseStep ==
  ASSUME EditIInv, Editing, NEW s, WorksOn(s) \/ (mode = "complete" /\ s = refresh(l)),
         browse(s, s.index + 1) \/ browse(s, s.index - 1), leave("edit"), tty' = tty
  PROVE  ScreenIInv' /\ OtherEntriesKept
<1>1. Len(history) \in Nat /\ l.index \in Nat /\ l.index < Len(history)
  BY HistoryHasEntry
<1>2. s \in Editors /\ s.buf \in Lines /\ s.index = l.index /\ Shows(s) /\ (mode = "edit" => s = l)
  <2>1. CASE WorksOn(s)
    BY <2>1 DEF WorksOn
  <2>2. CASE mode = "complete" /\ s = refresh(l)
    <3>1. l \in Editors /\ l.buf \in Lines
      BY <2>2 DEF EditIInv, ScreenIInv
    <3> QED BY <2>2, <3>1, WindowShows
  <2> QED BY <2>1, <2>2
<1>3. PICK i \in Int : browse(s, i)
  <2>1. s.index + 1 \in Int /\ s.index - 1 \in Int
    BY <1>1, <1>2
  <2> QED BY <2>1
<1>4. /\ l' \in Editors /\ l'.buf \in Lines /\ l'.index < Len(history)
      /\ Shows(l')
      /\ history' \in Seq(Lines) /\ Len(history') = Len(history)
      /\ Updated(s) = [k \in 1..Len(history) |->
                         IF k = Len(history) - l'.index THEN l'.buf ELSE history'[k]]
  <2>1. ScreenIInv /\ s.index < Len(history)
    BY <1>1, <1>2 DEF EditIInv
  <2> QED BY <1>2, <1>3, <2>1, BrowseKeeps
<1>5. mode' = "edit" /\ offers' = <<>> /\ offer' = 0
  BY DEF leave
<1>6. ScreenIInv'
  <2>1. offers' \in Seq(Lines) /\ offer' \in 0..Len(offers')
    BY <1>5
  <2>2. Shows(l)'
    BY <1>4 DEF Shows
  <2> QED BY <1>4, <1>5, <2>1, <2>2 DEF EditIInv, ScreenIInv, Editors
<1>7. Entries' = Updated(s)
  BY <1>4 DEF Entries
<1>8. OtherEntriesKept
  <2>1. ASSUME NEW h \in 1..Len(history), h # Len(history) - l.index
        PROVE  Entries'[h] = Entries[h]
    BY <1>2, <1>7, <2>1 DEF Entries, Updated, entry
  <2>2. ASSUME mode = "edit" PROVE Entries' = Entries
    BY <1>2, <1>7, <2>2 DEF Entries, Updated, entry
  <2> QED BY <2>1, <2>2 DEF OtherEntriesKept
<1> QED BY <1>6, <1>8

LEMMA KeyStep ==
  ASSUME EditIInv, Editing, NEW s, WorksOn(s), Key(s)
  PROVE  ScreenIInv' /\ OtherEntriesKept
<1>1. /\ Len(history) \in Nat /\ l.index \in Nat /\ l.index < Len(history)
      /\ s \in Editors /\ s.buf \in Lines /\ s.index = l.index /\ Shows(s)
  BY HistoryHasEntry DEF WorksOn
<1>2. CASE Edit(s)
  <2>1. Kept(s, l') /\ history' = history /\ offers' = <<>> /\ offer' = 0 /\ tty' = tty
    BY <1>1, <1>2, EditKept DEF Edit, leave
  <2>2. /\ l' \in Editors /\ Shows(l') /\ l'.index = l.index
        /\ l'.buf \in Seq(Chars)
    BY <1>1, <2>1 DEF Kept, Editors
  <2>3. /\ mode' = IF Len(l'.buf) < BufLen THEN "edit" ELSE "overrun"
        /\ mode' \in {"edit", "overrun"}
    BY <1>2 DEF Edit, leave
  <2>4. mode' # "overrun" => l'.buf \in Lines
    BY <2>2, <2>3, LinesAre
  <2>5. ScreenIInv'
    <3>1. offers' \in Seq(Lines) /\ offer' \in 0..Len(offers') /\ history' \in Seq(Lines)
      BY <2>1 DEF EditIInv, ScreenIInv
    <3>2. Shows(l)'
      BY <2>2 DEF Shows
    <3> QED BY <2>1, <2>2, <2>3, <2>4, <3>1, <3>2 DEF EditIInv, ScreenIInv, Editors
  <2> QED BY <2>1, <2>2, <2>5, SameHistory
<1>3. CASE Browse(s)
  BY <1>3, BrowseStep DEF Browse
<1>4. CASE Enter(s) \/ Quit(s)
  <2>1. /\ mode' \in {"entered", "over"} /\ offers' = <<>> /\ offer' = 0 /\ tty' = tty /\ l' = s
        /\ history' \in {history, Front(history)}
    BY <1>4 DEF Enter, Quit, leave
  <2>2. history' \in Seq(Lines)
    <3>1. history \in Seq(Lines) /\ Len(history) - 1 \in Nat /\ Len(history) - 1 <= Len(history)
      BY <1>1 DEF EditIInv, ScreenIInv
    <3>2. PICK n \in Nat : n = Len(history) - 1
      BY <3>1
    <3>3. SubSeq(history, 1, n) \in Seq(Lines)
      BY <3>1, <3>2, PartOf
    <3> QED BY <2>1, <3>1, <3>2, <3>3 DEF Front
  <2>3. offers' \in Seq(Lines) /\ offer' \in 0..Len(offers')
    BY <2>1
  <2>4. OtherEntriesKept
    BY <2>1 DEF OtherEntriesKept, Editing
  <2> QED BY <1>1, <2>1, <2>2, <2>3, <2>4 DEF EditIInv, ScreenIInv, Editors
<1> QED BY <1>2, <1>3, <1>4 DEF Key

\* What a key accepts is what is shown.
LEMMA AcceptedShown ==
  ASSUME EditIInv, mode = "complete" PROVE WorksOn(accepted)
<1>1. /\ l \in Editors /\ l.buf \in Lines /\ offers \in Seq(Lines) /\ offer \in 0..Len(offers)
      /\ l.screen = window(accepted)
      /\ l \in [buf : Seq(Chars), pos : Nat, index : Nat, screen : Screens]
  BY DEF EditIInv, ScreenIInv, Editors
<1>2. accepted \in Editors /\ accepted.buf \in Lines /\ accepted.index = l.index
      /\ accepted.screen = l.screen
  <2>1. CASE offer < Len(offers)
    <3> DEFINE line == offers[offer + 1]
               t == [l EXCEPT !.buf = line, !.pos = Len(line)]
    <3>1. line \in Lines
      BY <1>1, <2>1
    <3>2. line \in Seq(Chars) /\ Len(line) \in Nat
      BY <3>1, LinesAre
    <3>3. accepted = t
      BY <2>1 DEF accepted
    <3> HIDE DEF line
    <3>4. /\ t \in [buf : Seq(Chars), pos : Nat, index : Nat, screen : Screens]
          /\ t.buf = line /\ t.pos = Len(line) /\ t.index = l.index /\ t.screen = l.screen
      BY <1>1, <3>2
    <3> HIDE DEF t
    <3> QED BY <3>1, <3>2, <3>3, <3>4 DEF Editors
  <2>2. CASE ~(offer < Len(offers))
    BY <1>1, <2>2 DEF accepted
  <2> QED BY <2>1, <2>2
<1>3. refresh(accepted) = accepted
  <2>1. PICK t : t = accepted
    OBVIOUS
  <2>2. t \in [buf : Seq(Chars), pos : Nat, index : Nat, screen : Screens] /\ t.screen = window(t)
    BY <1>1, <1>2, <2>1 DEF Editors
  <2>3. [t EXCEPT !.screen = window(t)] = t
    BY <2>2
  <2> QED BY <2>1, <2>3 DEF refresh
<1>4. Shows(accepted)
  BY <1>2, <1>3, WindowShows
<1> QED BY <1>2, <1>4 DEF WorksOn

LEMMA LineWorksOn ==
  ASSUME EditIInv, mode = "edit" PROVE WorksOn(l)
BY DEF EditIInv, ScreenIInv, WorksOn

LEMMA HangUpStep == EditIInv /\ HangUp => ScreenIInv' /\ OtherEntriesKept
<1> SUFFICES ASSUME EditIInv, HangUp PROVE ScreenIInv' /\ OtherEntriesKept
  OBVIOUS
<1>1. /\ mode' = "entered" /\ offers' = <<>> /\ offer' = 0 /\ tty' = tty /\ history' = history
      /\ Editing /\ (l' = l \/ (mode = "complete" /\ l' = accepted))
  BY DEF HangUp, hangUp, leave, Editing
<1>2. l' \in Editors /\ l'.buf \in Lines
  <2>1. CASE l' = l
    BY <1>1, <2>1 DEF EditIInv, ScreenIInv, Editing
  <2>2. CASE mode = "complete" /\ l' = accepted
    BY <2>2, AcceptedShown DEF WorksOn
  <2> QED BY <1>1, <2>1, <2>2
<1>3. offers' \in Seq(Lines) /\ offer' \in 0..Len(offers')
  BY <1>1
<1>4. OtherEntriesKept
  BY <1>1 DEF OtherEntriesKept, Editing
<1> QED BY <1>1, <1>2, <1>3, <1>4 DEF EditIInv, ScreenIInv, Editors

\* The window depends on the line and the cursor alone.
LEMMA WindowOfLine ==
  ASSUME NEW x, NEW y, x.buf = y.buf, x.pos = y.pos PROVE window(x) = window(y)
BY Zenon DEF window

\* A completion is shown.
LEMMA OfferShown ==
  ASSUME EditIInv, l.buf \in Lines, NEW list \in Seq(Lines), NEW i \in 0..Len(list),
         l' = [l EXCEPT !.screen = shown(list, i)], mode' = "complete", tty' = tty,
         offers' = list, offer' = i, history' = history
  PROVE  ScreenIInv' /\ OtherEntriesKept
<1>1. /\ l \in Editors
      /\ l \in [buf : Seq(Chars), pos : Nat, index : Nat, screen : Screens]
  BY DEF EditIInv, ScreenIInv, Editors
<1> DEFINE w == shown(list, i)
           t == IF i < Len(list)
                THEN [l EXCEPT !.buf = list[i + 1], !.pos = Len(list[i + 1])] ELSE l
<1>2. w = window(t)
  BY DEF shown
<1>3. t \in Editors
  <2>1. CASE i < Len(list)
    <3> DEFINE line == list[i + 1]
    <3>1. line \in Lines
      BY <2>1
    <3>2. line \in Seq(Chars) /\ Len(line) \in Nat
      BY <3>1, LinesAre
    <3>3. t = [l EXCEPT !.buf = line, !.pos = Len(line)]
      BY <2>1
    <3> HIDE DEF line, t
    <3>4. /\ t \in [buf : Seq(Chars), pos : Nat, index : Nat, screen : Screens]
          /\ t.buf = line /\ t.pos = Len(line)
      BY <1>1, <3>2, <3>3
    <3> QED BY <3>2, <3>4 DEF Editors
  <2>2. CASE ~(i < Len(list))
    BY <1>1, <2>2
  <2> QED BY <2>1, <2>2
<1>4. w \in Screens
  <2> HIDE DEF w, t
  <2> QED BY <1>2, <1>3, WindowShows
<1>5. window(accepted)' = w
  <2>1. accepted' = IF i < Len(list)
                    THEN [l' EXCEPT !.buf = list[i + 1], !.pos = Len(list[i + 1])] ELSE l'
    BY DEF accepted
  <2> HIDE DEF w
  <2>2. accepted'.buf = t.buf /\ accepted'.pos = t.pos
    <3>1. l' = [l EXCEPT !.screen = w]
      BY DEF w
    <3>2. CASE i < Len(list)
      BY <1>1, <2>1, <3>1, <3>2
    <3>3. CASE ~(i < Len(list))
      BY <1>1, <2>1, <3>1, <3>3
    <3> QED BY <3>2, <3>3
  <2> HIDE DEF t
  <2>3. window(accepted') = window(t)
    BY <2>2, WindowOfLine
  <2> QED BY <1>2, <2>3 DEF window
<1> HIDE DEF w, t
<1>6. /\ l' \in [buf : Seq(Chars), pos : Nat, index : Nat, screen : Screens]
      /\ l'.screen = w /\ l'.buf = l.buf /\ l'.pos = l.pos /\ l'.index = l.index
  <2>1. l' = [l EXCEPT !.screen = w]
    BY DEF w
  <2> QED BY <1>1, <1>4, <2>1
<1>7. l' \in Editors
  BY <1>1, <1>6 DEF Editors
<1>8. ScreenIInv'
  <2>1. offers' \in Seq(Lines) /\ offer' \in 0..Len(offers') /\ history' \in Seq(Lines)
    BY DEF EditIInv, ScreenIInv
  <2>2. tty' \in BOOLEAN
    BY DEF EditIInv, ScreenIInv
  <2>3. l' \in Editors' /\ (l.buf)' \in Lines
    BY <1>6, <1>7 DEF Editors
  <2> QED BY <1>5, <1>6, <2>1, <2>2, <2>3 DEF ScreenIInv
<1> QED BY <1>6, <1>8, SameHistory

LEMMA TabStep == EditIInv /\ (Tab \/ TabAgain) => ScreenIInv' /\ OtherEntriesKept
<1> SUFFICES ASSUME EditIInv, Tab \/ TabAgain PROVE ScreenIInv' /\ OtherEntriesKept
  OBVIOUS
<1>1. CASE Tab
  <2>1. PICK list \in offersFor(l.buf) \ {<<>>} :
          offers' = list /\ offer' = 0 /\ l' = [l EXCEPT !.screen = shown(list, 0)]
    BY <1>1 DEF Tab
  <2>2. l.buf \in Lines /\ mode' = "complete" /\ tty' = tty /\ history' = history
    BY <1>1 DEF Tab, EditIInv, ScreenIInv
  <2>3. list \in Seq(Lines)
    <3>1. l.buf \in Seq(Chars)
      BY <2>2, LinesAre
    <3>2. l.buf # <<>>
      BY <2>1 DEF offersFor
    <3>3. Head(l.buf) \in Chars
      BY <3>1, <3>2
    <3>4. list \in Completions[Head(l.buf)]
      BY <2>1, <3>2, Zenon DEF offersFor
    <3> QED BY <3>3, <3>4, EditAssumption
  <2>4. 0 \in 0..Len(list)
    BY <2>3
  <2> QED BY <2>1, <2>2, <2>3, <2>4, OfferShown
<1>2. CASE TabAgain
  <2>1. /\ offer' = (offer + 1) % (Len(offers) + 1) /\ offers' = offers
        /\ l' = [l EXCEPT !.screen = shown(offers, offer')]
        /\ mode = "complete" /\ mode' = mode /\ tty' = tty /\ history' = history
    BY <1>2, Zenon DEF TabAgain
  <2>2. offers \in Seq(Lines) /\ offer \in 0..Len(offers) /\ l.buf \in Lines
    BY <2>1 DEF EditIInv, ScreenIInv
  <2>3. PICK i \in 0..Len(offers) : i = offer'
    <3>3. offer \in Nat /\ Len(offers) \in Nat
      BY <2>2
    <3>1. PICK a \in Nat, n \in Nat : a = offer /\ n = Len(offers)
      BY <3>3
    <3>2. (a + 1) % (n + 1) \in 0..n
      OBVIOUS
    <3> QED BY <2>1, <3>1, <3>2
  <2> QED BY <2>1, <2>2, <2>3, OfferShown
<1> QED BY <1>1, <1>2

LEMMA EscapeStep == EditIInv /\ Escape => ScreenIInv' /\ OtherEntriesKept
<1> SUFFICES ASSUME EditIInv, Escape PROVE ScreenIInv' /\ OtherEntriesKept
  OBVIOUS
<1> DEFINE s == refresh(l)
<1>1. mode = "complete" /\ Editing /\ leave("edit") /\ tty' = tty
  BY DEF Escape, Editing
<1>2. l \in Editors /\ l.buf \in Lines
  BY <1>1 DEF EditIInv, ScreenIInv
<1>3. s \in Editors /\ s.buf = l.buf /\ s.index = l.index /\ Shows(s)
  BY <1>2, WindowShows
<1>4. CASE browse(s, s.index + 1) \/ browse(s, s.index - 1)
  <2> HIDE DEF s
  <2>1. s = refresh(l)
    BY DEF s
  <2> QED BY <1>1, <1>4, <2>1, BrowseStep
<1>5. CASE l' \in {s, left(s), right(s), deleteChar(s)} /\ UNCHANGED history
  <2> HIDE DEF s
  <2>1. l' \in edited(s)
    BY <1>5 DEF edited
  <2>2. l' \in Editors /\ l'.index = l.index /\ Shows(l')
    BY <1>3, <2>1, EditKept DEF Kept
  <2>3. Len(l'.buf) <= Len(s.buf)
    <3>1. s \in [buf : Seq(Chars), pos : Nat, index : Nat, screen : Screens] /\ s.pos <= Len(s.buf)
      BY <1>3 DEF Editors
    <3>2. \A p : refresh([s EXCEPT !.pos = p]).buf = s.buf
      BY <3>1 DEF refresh
    <3>3. CASE l' \in {s, left(s), right(s)}
      <4>1. l'.buf = s.buf
        BY <3>2, <3>3 DEF left, right
      <4> QED BY <3>1, <4>1
    <3>4. CASE l' = deleteChar(s) /\ s.pos < Len(s.buf)
      <4>1. l'.buf = RemoveAt(s.buf, s.pos + 1)
        BY <3>1, <3>4 DEF deleteChar, refresh
      <4>2. PICK m \in Nat, k \in Nat : m = s.pos /\ k = Len(s.buf)
        BY <3>1
      <4>3. m \in 0..k /\ m + 1 \in m..k /\ (m + 1) - m = 1 /\ (m + 1) - 1 = m
        BY <3>4, <4>2
      <4>4. Len(SubSeq(s.buf, 1, m) \o SubSeq(s.buf, (m + 1) + 1, k)) = k - ((m + 1) - m)
        BY <3>1, <4>2, <4>3, CutOut
      <4>5. RemoveAt(s.buf, s.pos + 1) = SubSeq(s.buf, 1, m) \o SubSeq(s.buf, (m + 1) + 1, k)
        BY <4>2, <4>3 DEF RemoveAt
      <4>6. k - ((m + 1) - m) <= k
        BY <4>3
      <4>7. Len(l'.buf) = k - ((m + 1) - m)
        BY <4>1, <4>4, <4>5
      <4> QED BY <4>2, <4>6, <4>7
    <3>5. CASE l' = deleteChar(s) /\ ~(s.pos < Len(s.buf))
      BY <3>1, <3>5 DEF deleteChar
    <3> QED BY <1>5, <3>3, <3>4, <3>5
  <2>4. l'.buf \in Lines
    <3>1. s.buf \in Seq(Chars) /\ Len(s.buf) < BufLen /\ l'.buf \in Seq(Chars)
      BY <1>2, <1>3, <2>2, LinesAre DEF Editors
    <3>2. Len(l'.buf) < BufLen
      BY <2>3, <3>1, EditAssumption
    <3> QED BY <3>1, <3>2, LinesAre
  <2>5. mode' = "edit" /\ offers' = <<>> /\ offer' = 0 /\ history' = history
    BY <1>1, <1>5 DEF leave
  <2>6. ScreenIInv'
    <3>1. offers' \in Seq(Lines) /\ offer' \in 0..Len(offers') /\ history' \in Seq(Lines)
      BY <2>5 DEF EditIInv, ScreenIInv
    <3>2. Shows(l)'
      BY <2>2 DEF Shows
    <3> QED BY <1>1, <2>2, <2>4, <2>5, <3>1, <3>2 DEF EditIInv, ScreenIInv, Editors
  <2> QED BY <2>2, <2>5, <2>6, SameHistory
<1> QED BY <1>4, <1>5, Zenon DEF Escape

\* What the loop does between two lines leaves the editor as it started.
LEMMA EmptyShows == empty \in Editors /\ empty.buf = <<>> /\ <<>> \in Lines /\ Shows(empty)
<1>1. <<>> \in Seq(Chars) /\ Len(<<>>) = 0 /\ Room \in Nat \ {0} /\ BufLen \in Nat \ {0}
  BY EditAssumption
<1>2. <<>> \in Lines
  <2>1. 0 < BufLen
    BY <1>1
  <2>2. Len(<<>>) < BufLen
    BY <1>1, <2>1, Zenon
  <2> QED BY <1>1, <2>2, LinesAre, Zenon
<1>3. /\ empty \in [buf : Seq(Chars), pos : Nat, index : Nat, screen : Screens]
      /\ empty.buf = <<>> /\ empty.pos = 0
      /\ empty.screen.text = <<>> /\ empty.screen.col = 0
  BY <1>1 DEF empty, Screens
<1>4. empty \in Editors
  BY <1>1, <1>3 DEF Editors
<1>5. SubSeq(<<>>, 1, 0) = <<>>
  BY <1>1, SubSeqEmpty
<1> QED BY <1>1, <1>2, <1>3, <1>4, <1>5 DEF Shows

LEMMA AddedTyped ==
  ASSUME history \in Seq(Lines), Len(history) = maxLen => Len(history) > 0, NEW line \in Lines
  PROVE  historyAdd(history, line) \in Seq(Lines)
<1> DEFINE h == IF Len(history) = maxLen THEN Tail(history) ELSE history
<1>1. h \in Seq(Lines)
  <2>1. Len(history) = maxLen => history # <<>>
    BY EmptySeq
  <2> QED BY <2>1
<1> HIDE DEF h
<1>2. Append(h, line) \in Seq(Lines)
  BY <1>1
<1> QED BY <1>2 DEF historyAdd, h

\* The last of the lines that a length allows
LEMMA LastTyped ==
  ASSUME NEW lines \in Seq(Lines), NEW len \in Nat \ {0}
  PROVE  SubSeq(lines, IF Len(lines) > len THEN Len(lines) - len + 1 ELSE 1, Len(lines))
           \in Seq(Lines)
<1> DEFINE n == Len(lines)
           m == IF n > len THEN n - len + 1 ELSE 1
<1>1. n \in Nat /\ m \in Nat \ {0} /\ n <= Len(lines)
  OBVIOUS
<1> HIDE DEF m
<1>2. SubSeq(lines, m, n) \in Seq(Lines)
  BY <1>1, PartOf
<1> QED BY <1>2 DEF m

LEMMA ShellStep ==
  EditIInv /\ (StartShell \/ Prompt \/ ReadLine \/ Dispatch) => ScreenIInv' /\ OtherEntriesKept
<1> SUFFICES ASSUME EditIInv, StartShell \/ Prompt \/ ReadLine \/ Dispatch
             PROVE  ScreenIInv' /\ OtherEntriesKept
  OBVIOUS
<1>1. /\ l \in Editors /\ history \in Seq(Lines) /\ maxLen \in Nat \ {0} /\ tty \in BOOLEAN
      /\ offers \in Seq(Lines) /\ offer \in 0..Len(offers)
      /\ mode # "overrun" => l.buf \in Lines
  BY DEF EditIInv, ScreenIInv, HistoryIInv
<1>2. /\ offers' = offers /\ offer' = offer /\ ~Editing /\ mode # "overrun"
      /\ mode' \in {"prompt", "entered", "over", "edit"} /\ tty' \in BOOLEAN
      /\ mode' = "edit" => l' = empty
  BY <1>1 DEF StartShell, Prompt, ReadLine, Dispatch, Editing
<1>3. OtherEntriesKept
  BY <1>2 DEF OtherEntriesKept
<1>4. l' \in Editors /\ l'.buf \in Lines
  <2>1. CASE l' = l
    BY <1>1, <1>2, <2>1
  <2>2. CASE l' = empty
    BY <2>2, EmptyShows
  <2>3. ASSUME NEW line \in Lines, l' = [empty EXCEPT !.buf = line]
        PROVE  l' \in Editors /\ l'.buf \in Lines
    <3>1. line \in Seq(Chars) /\ Len(line) \in Nat
      BY LinesAre
    <3>2. /\ empty \in [buf : Seq(Chars), pos : Nat, index : Nat, screen : Screens]
          /\ empty.pos = 0
      BY EmptyShows DEF Editors, empty
    <3>3. /\ l' \in [buf : Seq(Chars), pos : Nat, index : Nat, screen : Screens]
          /\ l'.buf = line /\ l'.pos = 0
      BY <2>3, <3>1, <3>2
    <3> QED BY <3>1, <3>3 DEF Editors
  <2> QED BY <2>1, <2>2, <2>3 DEF StartShell, Prompt, ReadLine, Dispatch
<1>5. history' \in Seq(Lines)
  <2>1. CASE UNCHANGED history
    BY <1>1, <2>1
  <2>2. ASSUME NEW line \in Lines, history' = historyAdd(history, line)
        PROVE  history' \in Seq(Lines)
    BY <1>1, <2>2, AddedTyped
  <2>3. ASSUME NEW lines \in Saved, history' = historyLoad(lines) PROVE history' \in Seq(Lines)
    <3>1. lines \in Seq(Lines)
      BY EditAssumption
    <3> QED BY <1>1, <2>3, <3>1, LastTyped DEF historyLoad
  <2>4. ASSUME NEW len \in Nat, historySetMaxLen(len) PROVE history' \in Seq(Lines)
    <3>1. CASE len < 1
      BY <1>1, <2>4, <3>1 DEF historySetMaxLen
    <3>2. CASE ~(len < 1)
      <4>1. len \in Nat \ {0}
        BY <3>2
      <4>2. history' = SubSeq(history, IF Len(history) > len THEN Len(history) - len + 1 ELSE 1,
                              Len(history))
        BY <2>4, <3>2 DEF historySetMaxLen
      <4> QED BY <1>1, <4>1, <4>2, LastTyped
    <3> QED BY <3>1, <3>2
  <2>5. CASE StartShell
    BY <2>1, <2>3, <2>5 DEF StartShell
  <2>6. CASE Prompt
    BY <2>2, <2>6, EmptyShows DEF Prompt
  <2>7. CASE ReadLine
    BY <2>1, <2>7 DEF ReadLine
  <2>8. CASE Dispatch
    <3>1. l.buf \in Lines
      BY <1>1, <1>2
    <3>2. MaxLens \subseteq Nat
      BY EditAssumption
    <3> QED BY <2>1, <2>2, <2>4, <2>8, <3>1, <3>2 DEF Dispatch
  <2> QED BY <2>5, <2>6, <2>7, <2>8
<1>6. mode' = "edit" => Shows(l)'
  <2> SUFFICES ASSUME mode' = "edit" PROVE Shows(l)'
    OBVIOUS
  <2>1. l' = empty
    BY <1>2
  <2>2. Shows(l')
    BY <2>1, EmptyShows
  <2> QED BY <2>2 DEF Shows
<1> QED BY <1>1, <1>2, <1>3, <1>4, <1>5, <1>6 DEF ScreenIInv, Editors

LEMMA EditStep ==
  EditIInv /\ [EditNext]_editVars => EditIInv' /\ (UNCHANGED editVars \/ OtherEntriesKept)
<1> SUFFICES ASSUME EditIInv, [EditNext]_editVars
             PROVE  EditIInv' /\ (UNCHANGED editVars \/ OtherEntriesKept)
  OBVIOUS
<1>1. HistoryIInv'
  BY HistoryStep DEF EditIInv
<1>2. CASE KeyPress
  <2>1. Editing /\ \E s : WorksOn(s) /\ Key(s)
    BY <1>2, LineWorksOn, AcceptedShown DEF KeyPress, Editing
  <2>2. ScreenIInv' /\ OtherEntriesKept
    BY <2>1, KeyStep
  <2> QED BY <1>1, <2>2 DEF EditIInv
<1>3. CASE HangUp
  BY <1>1, <1>3, HangUpStep DEF EditIInv
<1>4. CASE Tab \/ TabAgain
  BY <1>1, <1>4, TabStep DEF EditIInv
<1>5. CASE Escape
  BY <1>1, <1>5, EscapeStep DEF EditIInv
<1>6. CASE StartShell \/ Prompt \/ ReadLine \/ Dispatch
  BY <1>1, <1>6, ShellStep DEF EditIInv
<1>7. CASE UNCHANGED editVars
  <2>1. ScreenIInv'
    BY <1>7 DEF editVars, EditIInv, ScreenIInv, Editors, Shows, window, accepted
  <2> QED BY <1>1, <1>7, <2>1 DEF EditIInv
<1> QED BY <1>2, <1>3, <1>4, <1>5, <1>6, <1>7 DEF EditNext

LEMMA EditInvariant == EditSpec => []EditIInv
<1>1. EditInit => EditIInv
  <2> SUFFICES ASSUME EditInit PROVE EditIInv
    OBVIOUS
  <2>1. HistoryIInv
    BY HistoryStart
  <2>2. /\ mode = "start" /\ tty = FALSE /\ l = empty /\ offers = <<>> /\ offer = 0
        /\ history = <<>>
    BY DEF EditInit
  <2>3. /\ offers \in Seq(Lines) /\ offer \in 0..Len(offers) /\ history \in Seq(Lines)
        /\ l \in Editors /\ l.buf \in Lines
    BY <2>2, EmptyShows
  <2> QED BY <2>1, <2>2, <2>3 DEF EditIInv, ScreenIInv
<1> QED BY <1>1, EditStep, PTL DEF EditSpec

\* The editor and the shell keep their types: the cursor stays in the line, and
\* a line that may enter the history fits into the buffer.
THEOREM EditTyped == EditSpec => []EditTypeOK
<1>1. EditIInv => EditTypeOK
  BY DEF EditIInv, HistoryIInv, ScreenIInv, Editors, EditTypeOK
<1> QED BY <1>1, EditInvariant, PTL

\* Whatever is typed, browsed, completed or hung up on, for any width of the
\* terminal: between two keys it shows the part of the line that the cursor is
\* in, although one key only writes a character (linenoiseEditInsert).
THEOREM ScreenIsRight == EditSpec => []ScreenShowsTheLine
<1>1. EditIInv => ScreenShowsTheLine
  <2> SUFFICES ASSUME EditIInv, mode = "edit"
               PROVE  LET text == l.screen.text
                          from == l.pos - l.screen.col
                      IN /\ l.screen.col <= l.pos /\ l.screen.col < Room
                         /\ text = SubSeq(l.buf, from + 1, from + Len(text))
                         /\ from + Len(text) = Len(l.buf) \/ Len(text) = Room
    BY DEF ScreenShowsTheLine
  <2>1. Shows(l)
    BY DEF EditIInv, ScreenIInv
  <2> QED BY <2>1, Zenon DEF Shows
<1> QED BY <1>1, EditInvariant, PTL

\* Browsing the history brings the line that is left up to date and changes no
\* other, and no key changes a line that is not shown.
THEOREM HistoryLosesNothing == EditSpec => OnlyTheShownLineChanges
<1>1. EditIInv /\ [EditNext]_editVars =>
        [Editing /\ Editing' =>
           /\ \A i \in 1..Len(history) : i # Len(history) - l.index => Entries'[i] = Entries[i]
           /\ mode = "edit" /\ l'.index # l.index => Entries' = Entries]_editVars
  BY EditStep DEF OtherEntriesKept
<1> QED BY <1>1, EditInvariant, PTL DEF EditSpec, OnlyTheShownLineChanges
=============================================================================
