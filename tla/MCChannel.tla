----------------------------- MODULE MCChannel -----------------------------
(***************************************************************************)
(* Three tasks with an Alt array each, on an unbuffered channel and one     *)
(* with a buffer of size values: one sends, one receives from whichever    *)
(* channel has something, and one does either, also in one call.           *)
(* MCSharedChannel has the instance whose tasks do not have an array each. *)
(***************************************************************************)
EXTENDS ChannelRefinement

CONSTANTS sender, receiver, selector, direct, buffered, size, v1, v2

MCChans == {direct, buffered}
MCArrayOf == [t \in Tasks |-> t]
MCbufsize == [c \in MCChans |-> IF c = direct THEN 0 ELSE size]

snd(c, v) == [c |-> c, op |-> "CHANSND", v |-> v]
rcv(c) == [c |-> c, op |-> "CHANRCV", v |-> NoValue]
nop == [c |-> direct, op |-> "CHANNOP", v |-> NoValue]

MCAltLists ==
  [t \in Tasks |->
     CASE t = sender -> {<<snd(buffered, v)>> : v \in Values} \cup {<<snd(direct, v1)>>}
       [] t = receiver -> {<<rcv(buffered)>>, <<rcv(direct), rcv(buffered)>>}
       [] t = selector -> {<<rcv(direct), snd(buffered, v2)>>,
                    <<nop, snd(direct, v2), rcv(direct)>>}]
=============================================================================
