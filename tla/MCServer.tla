------------------------------ MODULE MCServer ------------------------------
(***************************************************************************)
(* Two clients of a server that has a leader and a follower.               *)
(***************************************************************************)
EXTENDS Server

CONSTANTS l, f

MCRoleOf == [r \in Replicas |-> IF r = l THEN "leader" ELSE "follower"]

MCRequests == {<<"data", l>>, <<"vote", f>>,
               <<"bootstrap", NoReplica>>, <<"ignored", NoReplica>>, <<"unknown", NoReplica>>}
=============================================================================
