-------------------------------- MODULE MCFd --------------------------------
(***************************************************************************)
(* Uses of descriptors: each by one task (Own); a connection that two       *)
(* tasks share, one of which uses another descriptor too (Two); and the    *)
(* server's, whose connections are read by one task and written by another *)
(* while taskmain accepts new ones (Server).                               *)
(***************************************************************************)
EXTENDS Fd

CONSTANTS main, fdtask, w1, w2, conn, listener

Own == {<<main, listener, "r">>, <<w1, conn, "r">>, <<w1, conn, "w">>}
Two == {<<main, conn, "w">>, <<w1, conn, "r">>, <<w1, listener, "r">>}
Server == {<<main, listener, "r">>, <<w1, conn, "r">>, <<w2, conn, "w">>}

OwnAndTwo == {Own, Two}
OnlyServer == {Server}
=============================================================================
