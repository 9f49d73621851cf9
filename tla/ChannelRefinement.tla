------------------------- MODULE ChannelRefinement -------------------------
(***************************************************************************)
(* channel.c implements ChannelSpec: the ring buffer read from off is the  *)
(* FIFO, the entries of the sleeping tasks are the offers, and the entry    *)
(* that arr[0].xalt or the returned index names is the result.             *)
(***************************************************************************)
EXTENDS Channel

fifoOf(c) == [k \in 1..nbuf[c] |-> buf[c][(off[c] + k - 1) % bufsize[c]]]

resultOf(t) ==
  LET arr == ArrayOf[t]
      i   == IF inalt[t] THEN xalt[arr] ELSE ret[t]
  IN IF waiting(t) \/ i = 0
     THEN [c |-> NoValue, op |-> "none", v |-> NoValue]
     ELSE IF i = -1
     THEN [c |-> NoValue, op |-> "CHANNOBLK", v |-> NoValue]
     ELSE alts[arr][i]

Abs == INSTANCE ChannelSpec WITH
  fifo   <- [c \in Chans |-> fifoOf(c)],
  offer  <- [t \in Tasks |-> offered(t)],
  result <- [t \in Tasks |-> resultOf(t)]

\* Every chanalt behaves as one atomic step of the channels' abstract
\* specification: values are received in the order they were sent, each by
\* exactly one receiver, and the index and value a task sees on return are
\* those of the alternative that happened (altexec, altcopy, chanalt).
ImplementsSpec == Abs!Spec
=============================================================================
