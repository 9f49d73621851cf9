---------------------------- MODULE ChannelSpec ----------------------------
(***************************************************************************)
(* What the channels of the coroutine library promise, with none of the    *)
(* machinery of channel.c: a channel is a bounded FIFO of values (or a      *)
(* rendezvous, when its bound is 0) and a task that calls chanalt offers a  *)
(* list of alternatives, exactly one of which happens, with the tasks that  *)
(* were already waiting served before anyone sleeps in vain.               *)
(***************************************************************************)
EXTENDS Integers, Sequences

CONSTANTS Tasks, Chans, Values, bufsize, AltLists, NoValue

NoResult == [c |-> NoValue, op |-> "none", v |-> NoValue]
Blocked  == [c |-> NoValue, op |-> "CHANNOBLK", v |-> NoValue]

VARIABLES
  fifo,     \* fifo[c]: the values sent and not yet received
  offer,    \* offer[t]: the alternatives t sleeps on, <<>> when it does not
  result    \* result[t]: the alternative of its last call that happened

vars == <<fifo, offer, result>>

Opposite(a, b) == a.c = b.c /\ {a.op, b.op} = {"CHANSND", "CHANRCV"}

\* The waiting alternatives that alternative a of a running task can meet.
Partners(a) ==
  {p \in UNION {{u} \X DOMAIN offer[u] : u \in Tasks} :
     Opposite(a, offer[p[1]][p[2]])}

CanHappen(a) ==
  \/ a.op # "CHANNOP" /\ bufsize[a.c] = 0 /\ Partners(a) # {}
  \/ a.op = "CHANSND" /\ bufsize[a.c] > 0 /\ Len(fifo[a.c]) < bufsize[a.c]
  \/ a.op = "CHANRCV" /\ bufsize[a.c] > 0 /\ fifo[a.c] # <<>>

\* A send and a receive: first in, first out.
Received(q, v) == Head(Append(q, v))
Left(q, v)     == Tail(Append(q, v))

\* a happens for t with nobody waiting on the other side
Alone(t, a) ==
  /\ Partners(a) = {}
  /\ \/ /\ a.op = "CHANSND"
        /\ fifo' = [fifo EXCEPT ![a.c] = Append(@, a.v)]
        /\ result' = [result EXCEPT ![t] = a]
     \/ /\ a.op = "CHANRCV"
        /\ fifo' = [fifo EXCEPT ![a.c] = Tail(@)]
        /\ result' = [result EXCEPT ![t] = [a EXCEPT !.v = Head(fifo[a.c])]]
  /\ UNCHANGED offer

\* a happens for t together with alternative p[2] of the sleeping task p[1]
Together(t, a, p) ==
  LET b == offer[p[1]][p[2]]
      q == fifo[a.c]
      v == IF a.op = "CHANSND" THEN a.v ELSE b.v
      Done(x) == IF x.op = "CHANSND" THEN x ELSE [x EXCEPT !.v = Received(q, v)]
  IN /\ fifo' = [fifo EXCEPT ![a.c] = Left(q, v)]
     /\ result' = [result EXCEPT ![t] = Done(a), ![p[1]] = Done(b)]
     /\ offer' = [offer EXCEPT ![p[1]] = <<>>]

Proceed(t) ==
  /\ offer[t] = <<>>
  /\ \E list \in AltLists[t] : \E i \in DOMAIN list :
       /\ CanHappen(list[i])
       /\ \/ Alone(t, list[i])
          \/ \E p \in Partners(list[i]) : Together(t, list[i], p)

\* Nothing on the list can happen: a call that may not block says so ...
GiveUp(t) ==
  /\ offer[t] = <<>>
  /\ \E list \in AltLists[t] : \A i \in DOMAIN list : ~CanHappen(list[i])
  /\ result' = [result EXCEPT ![t] = Blocked]
  /\ UNCHANGED <<fifo, offer>>

\* ... and one that may sleeps, until someone makes one of them happen.
Sleep(t) ==
  /\ offer[t] = <<>>
  /\ \E list \in AltLists[t] :
       /\ \A i \in DOMAIN list : ~CanHappen(list[i])
       /\ offer' = [offer EXCEPT ![t] = list]
  /\ result' = [result EXCEPT ![t] = NoResult]
  /\ UNCHANGED fifo

Init ==
  /\ fifo = [c \in Chans |-> <<>>]
  /\ offer = [t \in Tasks |-> <<>>]
  /\ result = [t \in Tasks |-> NoResult]

Next == \E t \in Tasks : Proceed(t) \/ GiveUp(t) \/ Sleep(t)

Spec == Init /\ [][Next]_vars
=============================================================================
