------------------------------- MODULE Server -------------------------------
(***************************************************************************)
(* The running server, on top of Boot: the accept loop (tomatod.c), the    *)
(* routing task of a connection (routing.c), the receive and send tasks of *)
(* an attached client (attach.c), the replicas' tasks (replica.c, leader.c, *)
(* follower.c, candidate.c) and their timers.                              *)
(*                                                                         *)
(* A step is what a task does from one switch to the next.  A replica's     *)
(* channels are unbuffered: a receive task either hands its message to a    *)
(* replica that sleeps in chanalt or sleeps itself until one takes it.      *)
(*                                                                         *)
(* The leader receives the 8 bytes of a pointer in a struct whose msg stays *)
(* NULL, so it drops every message and never sends a reply: a send task     *)
(* sleeps in its first chanalt for good.                                   *)
(*                                                                         *)
(* A role's Alt array is static, so two replicas of one role in chanalt    *)
(* would abort the process as the send tasks of MCSharedChannel do: here   *)
(* no two replicas have the same role.                                     *)
(***************************************************************************)
EXTENDS Boot

CONSTANTS
  Conns,
  Requests,  \* the actions of control messages, with the replica they name
  Timers, NoTimer

VARIABLES
  conn,      \* conn[c]: the call the task of connection c is suspended in
  request,   \* request[c]: the action of its control message, and the replica
  rtask,     \* rtask[r]: where the task of replica r is
  timer,     \* timer[k]: the replica that started timer k, while it sleeps
  current    \* current[r]: replica->election_timer

serverVars == <<conn, request, rtask, timer, current>>
allVars == <<bootVars, serverVars>>

Attaches == {"data", "append", "vote"} \X Replicas
Others == {<<"bootstrap", NoReplica>>, <<"ignored", NoReplica>>, <<"unknown", NoReplica>>}
NoRequest == <<"none", NoReplica>>

ASSUME ServerAssumption ==
  /\ Requests \subseteq Attaches \cup Others
  /\ NoTimer \notin Timers
  /\ \A r, s \in Replicas : RoleOf[r] = RoleOf[s] => r = s

\* "over": the task has ended; "leaked": it has, and its router is not freed;
\* "orphan": the receive task has, the send task sleeps.
Ends == {"over", "leaked", "orphan"}

ServerTypeOK ==
  /\ BootTypeOK
  /\ conn \in [Conns -> {"none", "connect", "control", "respond", "bootstrap",
                    "attach", "read", "send"} \cup Ends]
  /\ request \in [Conns -> Requests \cup {NoRequest}]
  /\ rtask \in [Replicas -> {"none", "role", "wait", "over"}]
  /\ timer \in [Timers -> Replicas \cup {NoReplica}]
  /\ current \in [Replicas -> Timers \cup {NoTimer}]

\* The process exists and no routing task is in the middle of a bootstrap.
Running == main \in {"serve", "over", "failed"} /\ making = NoReplica

goto(c, call) ==
  /\ conn' = [conn EXCEPT ![c] = call]
  /\ request' = IF call \in Ends THEN [request EXCEPT ![c] = NoRequest] ELSE request

target(c) == request[c][2]

----------------------------------------------------------------------------
\* Connections.

Accept(c) ==
  /\ Running /\ main = "serve" /\ conn[c] = "none"
  /\ goto(c, "connect")
  /\ UNCHANGED <<bootVars, rtask, timer, current>>

\* netaccept or TDB_init_router fails: the loop ends, ctx is freed and the
\* task of taskmain ends, but nobody else's.
ShutDown ==
  /\ Running /\ main = "serve"
  /\ main' = "over" /\ fault
  /\ UNCHANGED <<uuid, diskVars, tableVars, making, historyVars, serverVars>>

\* TDB_proto_handle_connect_msg
Connect(c) ==
  /\ Running /\ conn[c] = "connect"
  /\ goto(c, "control") \/ goto(c, "leaked")
  /\ UNCHANGED <<bootVars, rtask, timer, current>>

\* TDB_proto_receive_control_msg
Control(c) ==
  /\ Running /\ conn[c] = "control"
  /\ \/ goto(c, "leaked")
     \/ \E m \in Requests :
          /\ conn' = [conn EXCEPT ![c] = "respond"]
          /\ request' = [request EXCEPT ![c] = m]
  /\ UNCHANGED <<bootVars, rtask, timer, current>>

\* TDB_proto_send_control_resp_msg, and the switch on the action.  What uses
\* ctx after taskmain has freed it is not followed further.
Respond(c) ==
  /\ Running /\ conn[c] = "respond"
  /\ UNCHANGED <<rtask, timer, current>>
  /\ \/ goto(c, "leaked") /\ UNCHANGED bootVars
     \/ request[c][1] = "unknown" /\ goto(c, "leaked") /\ UNCHANGED bootVars
     \/ request[c][1] = "ignored" /\ goto(c, "over") /\ UNCHANGED bootVars
     \/ /\ request[c] \in Attaches /\ main # "over"
        /\ goto(c, IF target(c) \in table THEN "attach" ELSE "over")
        /\ UNCHANGED bootVars
     \/ request[c][1] = "bootstrap" /\ goto(c, "bootstrap") /\ Generate
     \/ /\ request[c][1] \notin {"unknown", "ignored"} /\ main = "over"
        /\ main' = "corrupt"
        /\ UNCHANGED <<conn, request, uuid, diskVars, tableVars, making, faults, historyVars>>

\* TDB_attach_task: the send task is created; TDB_attach_recv_append and _vote
\* exit when both of their mallocs succeed.
Attach(c) ==
  /\ Running /\ conn[c] = "attach"
  /\ goto(c, IF request[c][1] = "data" THEN "read" ELSE "orphan")
  /\ UNCHANGED <<bootVars, rtask, timer, current>>

\* What a role function's result makes of the replica's task: only the
\* leader's is TDB_SUCCESS.
afterEvent_Error(r) == "over"
afterEvent(r) == IF RoleOf[r] = "leader" THEN "role" ELSE "over"

\* TDB_attach_recv_data: a message is read, and handed over or kept
Read(c) ==
  LET r == target(c) IN
  /\ Running /\ conn[c] = "read"
  /\ \/ goto(c, "orphan") /\ UNCHANGED rtask
     \/ IF rtask[r] = "wait" /\ RoleOf[r] = "leader"
        THEN rtask' = [rtask EXCEPT ![r] = afterEvent(r)] /\ UNCHANGED <<conn, request>>
        ELSE goto(c, "send") /\ UNCHANGED rtask
  /\ UNCHANGED <<bootVars, timer, current>>

----------------------------------------------------------------------------
\* Replicas.

\* The senders that a leader's chanalt finds on data_chan
senders(r) == {c \in Conns : conn[c] = "send" /\ target(c) = r}

\* TDB_timer_init and TDB_timer_start; whichever timer was there before goes on
start_Forgotten(r) ==
  \E k \in Timers :
    /\ timer[k] = NoReplica
    /\ timer' = [timer EXCEPT ![k] = r]
    /\ UNCHANGED current

start(r) ==
  \E k \in Timers :
    /\ timer[k] = NoReplica
    /\ timer' = [timer EXCEPT ![k] = r]
    /\ current' = [current EXCEPT ![r] = k]

AtRole(r) == Running /\ rtask[r] = "role"

\* The leader's chanalt: one of the senders goes on, and the leader
Take(r, c) ==
  /\ AtRole(r) /\ "state" \in db[r] /\ RoleOf[r] = "leader"
  /\ c \in senders(r)
  /\ start(r)
  /\ goto(c, "read")
  /\ rtask' = [rtask EXCEPT ![r] = afterEvent(r)]
  /\ UNCHANGED bootVars

\* The chanalt of any role that finds nobody.  Nobody ever sends on
\* append_chan and vote_chan.
Wait(r) ==
  /\ AtRole(r) /\ "state" \in db[r] /\ RoleOf[r] # "halt"
  /\ RoleOf[r] = "leader" => senders(r) = {}
  /\ start(r)
  /\ rtask' = [rtask EXCEPT ![r] = "wait"]
  /\ UNCHANGED <<bootVars, conn, request>>

\* The state is not stored, or cannot be read, or says that the replica halts
Halt(r) ==
  /\ AtRole(r)
  /\ rtask' = [rtask EXCEPT ![r] = "over"]
  /\ IF "state" \notin db[r] \/ RoleOf[r] = "halt" THEN UNCHANGED faults ELSE fault
  /\ UNCHANGED <<main, uuid, diskVars, tableVars, making, historyVars, conn,
                 request, timer, current>>

\* A timer's task sends its alarm and ends.  The alarm of a timer that the
\* replica has left behind stays in a channel that nobody reads.
Alarm(k) ==
  LET r == timer[k] IN
  /\ Running /\ r # NoReplica
  /\ timer' = [timer EXCEPT ![k] = NoReplica]
  /\ rtask' = IF rtask[r] = "wait" /\ current[r] = k
              THEN [rtask EXCEPT ![r] = afterEvent(r)] ELSE rtask
  /\ UNCHANGED <<bootVars, conn, request, current>>

----------------------------------------------------------------------------
\* The steps of Boot with the tasks they create, end or kill.

Booting ==
  /\ Start \/ GetUuid \/ CreateUuidFile \/ WriteUuid \/ PrepareSettings \/ Put
  /\ UNCHANGED serverVars

Load ==
  /\ LoadReplicas
  /\ rtask' = [r \in Replicas |-> IF r \in table' THEN "role" ELSE "none"]
  /\ UNCHANGED <<conn, request, timer, current>>

EndBootstrap ==
  /\ \/ PutFails /\ UNCHANGED rtask
     \/ Bootstrapped /\ rtask' = [rtask EXCEPT ![making] = "role"]
  /\ \E c \in Conns : conn[c] = "bootstrap" /\ goto(c, "over")
  /\ UNCHANGED <<timer, current>>

Idle == [conn |-> [c \in Conns |-> "none"],
         request |-> [c \in Conns |-> NoRequest],
         rtask |-> [r \in Replicas |-> "none"],
         timer |-> [k \in Timers |-> NoReplica],
         current |-> [r \in Replicas |-> NoTimer]]

Kill ==
  /\ Crash
  /\ conn' = Idle.conn /\ request' = Idle.request /\ rtask' = Idle.rtask
  /\ timer' = Idle.timer /\ current' = Idle.current

Init ==
  /\ BootInit
  /\ conn = Idle.conn /\ request = Idle.request /\ rtask = Idle.rtask
  /\ timer = Idle.timer /\ current = Idle.current

Next ==
  \/ Booting \/ Load \/ EndBootstrap \/ Kill \/ ShutDown
  \/ \E c \in Conns : Accept(c) \/ Connect(c) \/ Control(c) \/ Respond(c)
                      \/ Attach(c) \/ Read(c)
  \/ \E r \in Replicas : Wait(r) \/ Halt(r) \/ \E c \in Conns : Take(r, c)
  \/ \E k \in Timers : Alarm(k)

\* Tasks that are ready run, and timers' times pass.  chanalt picks among those
\* it can serve at random, so nobody is passed over for ever.
Fairness ==
  /\ WF_allVars(Put /\ UNCHANGED serverVars) /\ WF_allVars(EndBootstrap)
  /\ \A r \in Replicas : WF_allVars(Wait(r))
  /\ \A r \in Replicas, c \in Conns : RoleOf[r] = "leader" => SF_allVars(Take(r, c))
  /\ \A k \in Timers : WF_allVars(Alarm(k))

Spec == Init /\ [][Next]_allVars /\ Fairness

----------------------------------------------------------------------------
\* A replica that waits for an event has a timer that will end its wait: the
\* one it started last, whatever became of those it left behind.
WaitersHaveTimers ==
  \A r \in Replicas : rtask[r] = "wait" => current[r] # NoTimer /\ timer[current[r]] = r

\* A client's message that a receive task holds is taken by its leader, while
\* others send to it too and timers of earlier rounds are still pending,
\* unless the process is killed or the database fails.
LeaderServes ==
  \A c \in Conns :
    (conn[c] = "send" /\ RoleOf[target(c)] = "leader" /\ "state" \in db[target(c)])
      ~> (conn[c] # "send" \/ main = "corrupt" \/ faults > 0)
=============================================================================
