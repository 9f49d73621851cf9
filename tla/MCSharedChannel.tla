-------------------------- MODULE MCSharedChannel --------------------------
(***************************************************************************)
(* The send tasks s1 and s2 of two clients attached to a replica: both     *)
(* pass the `static Alt alts[]` of TDB_attach_send_task to chanalt, filled  *)
(* by each with the reply channels of its own client, and the replica      *)
(* sends a reply through either.                                           *)
(***************************************************************************)
EXTENDS Channel

CONSTANTS s1, s2, replica, reply1, reply2, alts1, stack, reply

MCArrayOf == [t \in Tasks |-> IF t = replica THEN stack ELSE alts1]
MCbufsize == [c \in Chans |-> 1]

snd(c) == [c |-> c, op |-> "CHANSND", v |-> reply]
rcv(c) == [c |-> c, op |-> "CHANRCV", v |-> NoValue]

MCAltLists ==
  [t \in Tasks |->
     CASE t = s1 -> {<<rcv(reply1)>>}
       [] t = s2 -> {<<rcv(reply2)>>}
       [] t = replica -> {<<snd(reply1)>>, <<snd(reply2)>>}]
=============================================================================
