------------------------------ MODULE LineEdit ------------------------------
(***************************************************************************)
(* The shell of the client: the loop that reads and runs commands (repl.c, *)
(* cmd.c) and the line editor and history it reads them with (linenoise.c, *)
(* in single line mode, as the shell uses it).                             *)
(*                                                                         *)
(* read() blocks the whole process and a command's task runs to its end in *)
(* one taskyield, so there is one actor; a step is one key.                *)
(***************************************************************************)
EXTENDS Integers, Sequences, SequencesExt, FiniteSetsExt

CONSTANTS
  Chars, Blank, Slash,
  BufLen,        \* LINENOISE_MAX_LINE
  Room,          \* the columns of the terminal that the prompt leaves free
  MaxLens,       \* the lengths of the history that may be asked for
  DefaultMax,    \* LINENOISE_DEFAULT_HISTORY_MAX_LEN
  Saved,         \* the contents of the history file
  Completions    \* Completions[c]: the lists of lines that may be offered for
                 \* a line that starts with c (some depend on what lies behind it)

\* The shortest line that fills the buffer
Lines == UNION {[1..n -> Chars] : n \in 0..(BufLen - 1)}

ASSUME EditAssumption ==
  /\ Blank \in Chars /\ Slash \in Chars
  /\ BufLen \in Nat \ {0} /\ Room \in Nat \ {0}
  /\ DefaultMax \in Nat \ {0} /\ MaxLens \subseteq Nat
  /\ Saved \subseteq Seq(Lines)
  /\ Completions \in [Chars -> SUBSET Seq(Lines)]

VARIABLES
  mode,      \* what the shell is at
  tty,       \* the terminal can be put into raw mode
  l,         \* linenoiseState, and what the terminal shows
  offers,    \* the completions of completeLine
  offer,     \* its i
  history,
  maxLen     \* history_max_len

editVars == <<mode, tty, l, offers, offer, history, maxLen>>

Editing == mode \in {"edit", "complete"}

EditTypeOK ==
  /\ mode \in {"start", "prompt", "edit", "complete", "entered", "over", "overrun"}
  /\ tty \in BOOLEAN
  /\ l.buf \in Seq(Chars) /\ l.pos \in 0..Len(l.buf) /\ l.index \in Nat
  /\ offers \in Seq(Lines) /\ offer \in 0..Len(offers)
  /\ history \in Seq(Lines)
  /\ maxLen \in Nat \ {0}

----------------------------------------------------------------------------
\* The editor's operations, each on a state s of the editor.

\* refreshSingleLine: the line scrolls until the cursor fits, and is cut off
\* at the right edge
window(s) ==
  LET from == IF s.pos < Room THEN 0 ELSE s.pos - Room + 1
      to   == Min({Len(s.buf), from + Room})
  IN [text |-> SubSeq(s.buf, from + 1, to), col |-> s.pos - from]

refresh(s) == [s EXCEPT !.screen = window(s)]

empty == [buf |-> <<>>, pos |-> 0, index |-> 0, screen |-> [text |-> <<>>, col |-> 0]]

\* A character at the end of a line that fits is written as it is.
insert_OffByOne(s, c) ==
  LET t == [s EXCEPT !.buf = InsertAt(@, s.pos + 1, c), !.pos = @ + 1]
  IN IF s.pos = Len(s.buf) /\ Len(t.buf) <= Room
     THEN [t EXCEPT !.screen.text = Append(@, c), !.screen.col = @ + 1]
     ELSE refresh(t)

insert(s, c) ==
  LET t == [s EXCEPT !.buf = InsertAt(@, s.pos + 1, c), !.pos = @ + 1]
  IN IF s.pos = Len(s.buf) /\ Len(t.buf) < Room
     THEN [t EXCEPT !.screen.text = Append(@, c), !.screen.col = @ + 1]
     ELSE refresh(t)

left(s)  == IF s.pos > 0 THEN refresh([s EXCEPT !.pos = @ - 1]) ELSE s
right(s) == IF s.pos # Len(s.buf) THEN refresh([s EXCEPT !.pos = @ + 1]) ELSE s

deleteChar(s) ==
  IF s.pos < Len(s.buf) THEN refresh([s EXCEPT !.buf = RemoveAt(@, s.pos + 1)]) ELSE s

backspace(s) ==
  IF s.pos > 0 THEN refresh([s EXCEPT !.buf = RemoveAt(@, s.pos), !.pos = @ - 1]) ELSE s

\* Blanks, then what is not blank
wordStart(s) ==
  LET last  == Max({0} \cup {i \in 1..s.pos : s.buf[i] # Blank})
      first == Max({0} \cup {i \in 1..last : s.buf[i] = Blank})
  IN first

deletePrevWord(s) ==
  LET p == wordStart(s)
  IN refresh([s EXCEPT !.buf = SubSeq(@, 1, p) \o SubSeq(@, s.pos + 1, Len(@)), !.pos = p])

swap(s) ==
  IF s.pos > 0 /\ s.pos < Len(s.buf)
  THEN refresh([s EXCEPT !.buf = [@ EXCEPT ![s.pos] = s.buf[s.pos + 1],
                                           ![s.pos + 1] = s.buf[s.pos]],
                         !.pos = IF @ # Len(s.buf) - 1 THEN @ + 1 ELSE @])
  ELSE s

clear(s) == refresh([s EXCEPT !.buf = <<>>, !.pos = 0])
kill(s)  == refresh([s EXCEPT !.buf = SubSeq(@, 1, s.pos)])
home(s)  == refresh([s EXCEPT !.pos = 0])
end(s)   == refresh([s EXCEPT !.pos = Len(s.buf)])

\* Ctrl-l only refreshes, and an escape sequence it does not know does nothing.
edited(s) ==
  {left(s), right(s), deleteChar(s), backspace(s), deletePrevWord(s), swap(s),
   clear(s), kill(s), home(s), end(s), refresh(s), s} \cup {insert(s, c) : c \in Chars}

----------------------------------------------------------------------------
\* The history.

historyAdd_Full(h, line) == Append(IF Len(h) > maxLen THEN Tail(h) ELSE h, line)
historyAdd(h, line) == Append(IF Len(h) = maxLen THEN Tail(h) ELSE h, line)

historyLoad(lines) ==
  LET n == Len(lines) IN SubSeq(lines, IF n > maxLen THEN n - maxLen + 1 ELSE 1, n)

historySetMaxLen(len) ==
  IF len < 1 THEN UNCHANGED <<history, maxLen>>
  ELSE /\ maxLen' = len
       /\ history' = SubSeq(history, IF Len(history) > len THEN Len(history) - len + 1 ELSE 1,
                            Len(history))

\* The entry that is shown is brought up to date before another one is.
entry(s, i) == Len(history) - i

historyNext_NotSaved(s, i) == history
historyNext(s, i) == [history EXCEPT ![entry(s, s.index)] = s.buf]

browse(s, i) ==
  IF Len(history) <= 1 THEN l' = s /\ UNCHANGED history
  ELSE LET h == historyNext(s, i) IN
       /\ history' = h
       /\ l' = IF i \in 0..(Len(history) - 1)
               THEN LET line == h[entry(s, i)]
                    IN refresh([s EXCEPT !.buf = line, !.pos = Len(line), !.index = i])
               ELSE s

----------------------------------------------------------------------------
\* Keys, in a state s of the editor.

leave(m) == mode' = m /\ offers' = <<>> /\ offer' = 0

\* The terminator of a line of BufLen characters is written behind the buffer.
Edit(s) ==
  /\ l' \in edited(s)
  /\ leave(IF Len(l'.buf) < BufLen THEN "edit" ELSE "overrun")
  /\ UNCHANGED <<tty, history, maxLen>>

Browse(s) ==
  /\ browse(s, s.index + 1) \/ browse(s, s.index - 1)
  /\ leave("edit")
  /\ UNCHANGED <<tty, maxLen>>

\* The line in progress is no longer an entry.
Enter(s) ==
  /\ leave("entered")
  /\ l' = s
  /\ history' = Front(history)
  /\ UNCHANGED <<tty, maxLen>>

\* Ctrl-c, ctrl-d on an empty line, or a terminal that cannot be written to
Quit(s) ==
  /\ leave("over")
  /\ l' = s
  /\ UNCHANGED <<tty, history, maxLen>>

Key(s) == Edit(s) \/ Browse(s) \/ Enter(s) \/ Quit(s)

\* The terminal cannot be read from: what was typed is taken as a line, and
\* the entry of the line in progress stays.
hangUp(s) ==
  /\ leave("entered")
  /\ l' = s
  /\ UNCHANGED <<tty, history, maxLen>>

----------------------------------------------------------------------------
\* completeLine.  What it shows it does not keep.

shown(list, i) ==
  window(IF i < Len(list) THEN [l EXCEPT !.buf = list[i + 1], !.pos = Len(list[i + 1])] ELSE l)

\* TDB_repl_completion
offersFor(buf) == IF buf = <<>> THEN {<<>>} ELSE Completions[Head(buf)]

\* Without an offer it beeps.
Tab ==
  /\ mode = "edit"
  /\ \E list \in offersFor(l.buf) \ {<<>>} :
       /\ offers' = list /\ offer' = 0
       /\ l' = [l EXCEPT !.screen = shown(list, 0)]
  /\ mode' = "complete"
  /\ UNCHANGED <<tty, history, maxLen>>

TabAgain ==
  /\ mode = "complete"
  /\ offer' = (offer + 1) % (Len(offers) + 1)
  /\ l' = [l EXCEPT !.screen = shown(offers, offer')]
  /\ UNCHANGED <<mode, tty, offers, history, maxLen>>

\* The line is shown again, and the key is handled once more: the next two
\* are taken for the rest of an escape sequence.
Escape ==
  LET s == refresh(l) IN
  /\ mode = "complete"
  /\ \/ l' \in {s, left(s), right(s), deleteChar(s)} /\ UNCHANGED history
     \/ browse(s, s.index + 1) \/ browse(s, s.index - 1)
  /\ leave("edit")
  /\ UNCHANGED <<tty, maxLen>>

\* Any other key accepts what is shown, and does what it does.
accepted ==
  IF offer < Len(offers)
  THEN [l EXCEPT !.buf = offers[offer + 1], !.pos = Len(offers[offer + 1])]
  ELSE l

KeyPress ==
  \/ mode = "edit" /\ Key(l)
  \/ mode = "complete" /\ Key(accepted)

\* A character above 127 that accepts is negative, and taken for a failure.
HangUp ==
  \/ Editing /\ hangUp(l)
  \/ mode = "complete" /\ hangUp(accepted)

----------------------------------------------------------------------------
\* The shell.

\* The options, then a command of the command line, or the loop
StartShell ==
  /\ mode = "start"
  /\ \/ mode' = "over" /\ UNCHANGED <<tty, history>>
     \/ /\ mode' = "prompt"
        /\ tty' \in BOOLEAN
        /\ \E lines \in Saved : history' = historyLoad(lines)
  /\ UNCHANGED <<l, offers, offer, maxLen>>

\* linenoise: the line in progress becomes the last entry; then the prompt
\* is written
Prompt ==
  /\ mode = "prompt" /\ tty
  /\ mode' \in {"edit", "over"}
  /\ l' = empty
  /\ history' = historyAdd(history, <<>>)
  /\ UNCHANGED <<tty, offers, offer, maxLen>>

\* fgets, when it is no terminal or one that linenoise does not support
ReadLine ==
  /\ mode = "prompt" /\ ~tty
  /\ \/ mode' = "entered" /\ \E line \in Lines : l' = [empty EXCEPT !.buf = line]
     \/ mode' = "over" /\ UNCHANGED l
  /\ UNCHANGED <<tty, offers, offer, history, maxLen>>

Dispatch ==
  /\ mode = "entered"
  /\ l' = empty
  /\ UNCHANGED <<tty, offers, offer>>
  /\ \/ /\ l.buf = <<>>
        /\ mode' = "prompt" /\ UNCHANGED <<history, maxLen>>
     \/ /\ l.buf # <<>> /\ Head(l.buf) = Slash
        /\ mode' = "prompt"
        /\ (\E len \in MaxLens : historySetMaxLen(len)) \/ UNCHANGED <<history, maxLen>>
     \/ /\ l.buf # <<>> /\ Head(l.buf) # Slash
        /\ \/ mode' = "over" /\ UNCHANGED history           \* exit
           \/ mode' = "prompt" /\ history' = historyAdd(history, l.buf)
        /\ UNCHANGED maxLen

EditInit ==
  /\ mode = "start" /\ tty = FALSE
  /\ l = empty
  /\ offers = <<>> /\ offer = 0
  /\ history = <<>> /\ maxLen = DefaultMax

EditNext ==
  \/ StartShell \/ Prompt \/ ReadLine \/ Dispatch
  \/ KeyPress \/ HangUp \/ Tab \/ TabAgain \/ Escape

EditSpec == EditInit /\ [][EditNext]_editVars

----------------------------------------------------------------------------
\* The history never outgrows its array, whatever length it is given between
\* two lines, and while a line is edited it has the entry that the editor is at.
HistoryInBounds ==
  /\ Len(history) <= maxLen
  /\ Editing => l.index < Len(history)

\* What would be in the history if the entry that is shown were brought up to date
Entries ==
  [i \in 1..Len(history) |-> IF i = Len(history) - l.index THEN l.buf ELSE history[i]]

\* Going up and down the history loses nothing that was typed, in the line in
\* progress or in an older one, and no key changes a line that is not shown.
OnlyTheShownLineChanges ==
  [][Editing /\ Editing' =>
       /\ \A i \in 1..Len(history) : i # Len(history) - l.index => Entries'[i] = Entries[i]
       /\ mode = "edit" /\ l'.index # l.index => Entries' = Entries]_editVars

\* Between two keys the terminal shows the part of the line that the cursor
\* is in, as much of it as fits, although not every key writes the line anew.
ScreenShowsTheLine ==
  mode = "edit" =>
    LET text == l.screen.text
        from == l.pos - l.screen.col
    IN /\ l.screen.col <= l.pos /\ l.screen.col < Room
       /\ text = SubSeq(l.buf, from + 1, from + Len(text))
       /\ from + Len(text) = Len(l.buf) \/ Len(text) = Room
=============================================================================
