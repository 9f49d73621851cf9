------------------------------- MODULE Stream -------------------------------
(***************************************************************************)
(* TDB_fdwriten and TDB_fdreadn (stream.c), the functions that the XDR     *)
(* record streams move their buffers with, on fdwrite and fdread (fd.c),   *)
(* which move what the connection takes or has and may be interrupted.     *)
(*                                                                         *)
(* The bytes of all the buffers written are numbered.                      *)
(***************************************************************************)
EXTENDS Naturals, Sequences, FiniteSetsExt

CONSTANTS
  Lengths,   \* of the buffers
  MaxBytes   \* bound: no buffer is written that makes the total larger

ASSUME StreamAssumption == Lengths \subseteq Nat \ {0} /\ MaxBytes \in Nat

VARIABLES
  given,      \* the bytes of all the buffers that TDB_fdwriten was called with
  wbuf,       \* what is left to write of the present one
  wrote,      \* the tot of fdwrite
  wire,       \* what write() has taken and read() has not returned
  closed,     \* the writer has given up
  rlen,       \* what TDB_fdreadn still has to read
  received,   \* what it has read
  rc,         \* what the two have returned last: 0 means -1
  torn        \* history: a buffer was interrupted in its middle

streamVars == <<given, wbuf, wrote, wire, closed, rlen, received, rc, torn>>

StreamTypeOK ==
  /\ given \in 0..MaxBytes
  /\ wbuf \in Seq(1..MaxBytes) /\ wrote \in 0..Len(wbuf)
  /\ wire \in Seq(1..MaxBytes) /\ received \in Seq(1..MaxBytes)
  /\ closed \in BOOLEAN /\ torn \in BOOLEAN
  /\ rlen \in Nat /\ rc.write \in Nat /\ rc.read \in Nat

----------------------------------------------------------------------------
\* TDB_fdwriten.

WriteBuffer ==
  /\ wbuf = <<>> /\ ~closed
  /\ \E n \in Lengths :
       /\ given + n <= MaxBytes
       /\ given' = given + n
       /\ wbuf' = [i \in 1..n |-> given + i]
  /\ wrote' = 0
  /\ UNCHANGED <<wire, closed, rlen, received, rc, torn>>

\* One write() of fdwrite; after the last TDB_fdwriten returns.
part_FromStart(m) == SubSeq(wbuf, 1, m)
part(m) == SubSeq(wbuf, wrote + 1, wrote + m)

Write ==
  /\ wbuf # <<>>
  /\ \E m \in 1..(Len(wbuf) - wrote) :
       /\ wire' = wire \o part(m)
       /\ IF wrote + m = Len(wbuf)
          THEN wbuf' = <<>> /\ wrote' = 0 /\ rc' = [rc EXCEPT !.write = wrote + m]
          ELSE wrote' = wrote + m /\ UNCHANGED <<wbuf, rc>>
  /\ UNCHANGED <<given, closed, rlen, received, torn>>

\* EINTR: fdwrite forgets what it has written, and is called again.  Bound: one
\* such interrupt after a first part.
WriteInterrupted ==
  /\ wbuf # <<>> /\ (wrote > 0 => ~torn)
  /\ torn' = (torn \/ wrote > 0)
  /\ wrote' = 0
  /\ UNCHANGED <<given, wbuf, wire, closed, rlen, received, rc>>

\* EPIPE or another error, after which the task that writes ends
WriteFails ==
  /\ wbuf # <<>>
  /\ closed' = TRUE
  /\ wbuf' = <<>> /\ wrote' = 0
  /\ rc' = [rc EXCEPT !.write = 0]
  /\ UNCHANGED <<given, wire, rlen, received, torn>>

----------------------------------------------------------------------------
\* TDB_fdreadn.  An interrupted fdread is tried again.

ReadBuffer ==
  /\ rlen = 0
  /\ rlen' \in Lengths
  /\ UNCHANGED <<given, wbuf, wrote, wire, closed, received, rc, torn>>

\* It returns the length of its last part.
Read ==
  /\ rlen > 0 /\ wire # <<>>
  /\ \E m \in 1..Min({rlen, Len(wire)}) :
       /\ received' = received \o SubSeq(wire, 1, m)
       /\ wire' = SubSeq(wire, m + 1, Len(wire))
       /\ rlen' = rlen - m
       /\ rc' = IF m = rlen THEN [rc EXCEPT !.read = m] ELSE rc
  /\ UNCHANGED <<given, wbuf, wrote, closed, torn>>

\* The end of the stream, or an error
ReadFails ==
  /\ rlen > 0
  /\ rlen' = 0
  /\ rc' = [rc EXCEPT !.read = 0]
  /\ UNCHANGED <<given, wbuf, wrote, wire, closed, received, torn>>

StreamInit ==
  /\ given = 0 /\ wbuf = <<>> /\ wrote = 0 /\ wire = <<>> /\ closed = FALSE
  /\ rlen = 0 /\ received = <<>> /\ rc = [write |-> 0, read |-> 0] /\ torn = FALSE

StreamNext ==
  \/ WriteBuffer \/ Write \/ WriteInterrupted \/ WriteFails
  \/ ReadBuffer \/ Read \/ ReadFails

StreamSpec == StreamInit /\ [][StreamNext]_streamVars

----------------------------------------------------------------------------
\* However the buffers are cut into parts on both sides, and interrupted
\* between them, every byte arrives once and in order, unless an interrupt
\* hits fdwrite after its first part.
ArrivesInOrder == ~torn => \A i \in 1..Len(received) : received[i] = i
=============================================================================
