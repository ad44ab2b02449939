---------------------------- MODULE SbnLifecycle ----------------------------
(***************************************************************************)
(* SBN_Client_Init, the connection it makes, the two threads it starts and *)
(* the flags that stop them.                                               *)
(*                                                                         *)
(* The k-th call of Init connects socket k and starts threads k.  Nothing  *)
(* keeps a program from calling Init again.  The socket and the flags are  *)
(* globals that the threads read without a lock, each read a step of its   *)
(* own.  Of recv_msg (SbnReceive) only its status matters here.            *)
(*                                                                         *)
(* An operator named Op_Change, before Op, is Op with a plausible mistake. *)
(***************************************************************************)
EXTENDS Integers

CONSTANTS
    MaxInits,      \* a bound: how often Init is called
    ErrorLimit     \* the errors in a row that stop the receive thread

ASSUME BoundsAssumption == MaxInits \in Nat \ {0} /\ ErrorLimit \in Nat \ {0}

Inits == 1 .. MaxInits
NoSocket == 0      \* the initial value of sbn_client_sockfd
BadSocket == -1    \* any of the SERVER_..._ERROR values

VARIABLES
    inits,                  \* how many calls of Init there were
    init_pc, status,        \* where the last one is; what it returned
    sbn_client_sockfd, continue_heartbeat, continue_receive_check,
    heart,                  \* where each heartbeat thread is
    receive,                \* where each receive thread is
    recv_sockfd,            \* the socket it called recv_msg with
    consec_error_count,     \* its count
    broken,                 \* sockets whose connection is gone
    late_beats              \* history: heartbeats sent after the flag fell

globals == <<sbn_client_sockfd, continue_heartbeat, continue_receive_check>>
threads == <<heart, receive, recv_sockfd, consec_error_count>>
vars == <<inits, init_pc, status, globals, threads, broken, late_beats>>

Statuses == {"SBN_CLIENT_NO_STATUS_SET", "CFE_SUCCESS",
             "SBN_CLIENT_BAD_SOCK_FD_EID",
             "SBN_CLIENT_HEART_THREAD_CREATE_EID",
             "SBN_CLIENT_RECEIVE_THREAD_CREATE_EID"}

TypeOK ==
    /\ inits \in 0 .. MaxInits
    /\ init_pc \in {"returned", "connect", "heart", "receive"}
    /\ status \in Statuses
    /\ sbn_client_sockfd \in Inits \cup {NoSocket, BadSocket}
    /\ continue_heartbeat \in BOOLEAN /\ continue_receive_check \in BOOLEAN
    /\ heart \in [Inits -> {"none", "check", "test", "send", "sleep", "done"}]
    /\ receive \in [Inits -> {"none", "check", "read", "done"}]
    /\ recv_sockfd \in [Inits -> Inits \cup {NoSocket, BadSocket}]
    /\ consec_error_count \in [Inits -> 0 .. ErrorLimit]
    /\ broken \subseteq Inits
    /\ late_beats \in [Inits -> Nat]

-----------------------------------------------------------------------------
(* SBN_Client_Init                                                         *)

Return(s) == init_pc' = "returned" /\ status' = s

Init_Call ==
    /\ init_pc = "returned"
    /\ inits < MaxInits
    /\ inits' = inits + 1
    /\ init_pc' = "connect"
    /\ status' = "SBN_CLIENT_NO_STATUS_SET"
    /\ UNCHANGED <<globals, threads, broken, late_beats>>

\* socket, inet_pton or connect fails; a socket that was opened is
\* not closed.
Init_ConnectFails ==
    /\ init_pc = "connect"
    /\ sbn_client_sockfd' = BadSocket
    /\ Return("SBN_CLIENT_BAD_SOCK_FD_EID")
    /\ UNCHANGED <<inits, continue_heartbeat, continue_receive_check,
                   threads, broken, late_beats>>

\* What becomes of the pipe table is the initial state of SbnPipes.
Init_Connect ==
    /\ init_pc = "connect"
    /\ sbn_client_sockfd' = inits
    /\ init_pc' = "heart"
    /\ UNCHANGED <<inits, status, continue_heartbeat, continue_receive_check,
                   threads, broken, late_beats>>

\* pthread_create fails with an error that decides the message only.
CreateStatus(created, errorId) == IF created THEN "CFE_SUCCESS" ELSE errorId

Init_StartHeart ==
    /\ init_pc = "heart"
    /\ \/ /\ heart' = [heart EXCEPT ![inits] = "check"]
          /\ init_pc' = "receive"
          /\ UNCHANGED status
       \/ /\ Return(CreateStatus(FALSE, "SBN_CLIENT_HEART_THREAD_CREATE_EID"))
          /\ UNCHANGED heart
    /\ UNCHANGED <<inits, globals, receive, recv_sockfd, consec_error_count,
                   broken, late_beats>>

Init_StartReceive ==
    /\ init_pc = "receive"
    /\ \E created \in BOOLEAN :
          /\ receive' = IF created THEN [receive EXCEPT ![inits] = "check"]
                        ELSE receive
          /\ Return(CreateStatus(created,
                                 "SBN_CLIENT_RECEIVE_THREAD_CREATE_EID"))
    /\ UNCHANGED <<inits, globals, heart, recv_sockfd, consec_error_count,
                   broken, late_beats>>

-----------------------------------------------------------------------------
(* SBN_Client_HeartbeatMinder                                              *)

Heart_Goto(k, l) == heart' = [heart EXCEPT ![k] = l]

Heart_Check(k) ==
    /\ heart[k] = "check"
    /\ Heart_Goto(k, IF continue_heartbeat THEN "test" ELSE "done")
    /\ UNCHANGED <<inits, init_pc, status, globals, receive, recv_sockfd,
                   consec_error_count, broken, late_beats>>

Heart_Test(k) ==
    /\ heart[k] = "test"
    /\ Heart_Goto(k, IF sbn_client_sockfd # NoSocket THEN "send" ELSE "sleep")
    /\ UNCHANGED <<inits, init_pc, status, globals, receive, recv_sockfd,
                   consec_error_count, broken, late_beats>>

\* The socket is read again for the call; what write() returns is ignored.
Heart_Send(k) ==
    /\ heart[k] = "send"
    /\ Heart_Goto(k, "sleep")
    /\ late_beats' = IF continue_heartbeat THEN late_beats
                     ELSE [late_beats EXCEPT ![k] = @ + 1]
    /\ UNCHANGED <<inits, init_pc, status, globals, receive, recv_sockfd,
                   consec_error_count, broken>>

Heart_Wake_Unchecked(k) ==
    /\ heart[k] = "sleep"
    /\ late_beats[k] < 2
    /\ Heart_Goto(k, "test")
    /\ UNCHANGED <<inits, init_pc, status, globals, receive, recv_sockfd,
                   consec_error_count, broken, late_beats>>

Heart_Wake(k) ==
    /\ heart[k] = "sleep"
    /\ Heart_Goto(k, "check")
    /\ UNCHANGED <<inits, init_pc, status, globals, receive, recv_sockfd,
                   consec_error_count, broken, late_beats>>

-----------------------------------------------------------------------------
(* SBN_Client_ReceiveMinder                                                *)

Receive_Check(k) ==
    /\ receive[k] = "check"
    /\ IF continue_receive_check
       THEN /\ receive' = [receive EXCEPT ![k] = "read"]
            /\ recv_sockfd' = [recv_sockfd EXCEPT ![k] = sbn_client_sockfd]
       ELSE /\ receive' = [receive EXCEPT ![k] = "done"]
            /\ UNCHANGED recv_sockfd
    /\ UNCHANGED <<inits, init_pc, status, globals, heart,
                   consec_error_count, broken, late_beats>>

Receive_Ok(k) ==
    /\ receive[k] = "read"
    /\ recv_sockfd[k] \in Inits \ broken
    /\ receive' = [receive EXCEPT ![k] = "check"]
    /\ consec_error_count' = [consec_error_count EXCEPT ![k] = 0]
    /\ UNCHANGED <<inits, init_pc, status, globals, heart, recv_sockfd,
                   broken, late_beats>>

StopBoth_ReceiveOnly(errors) ==
    /\ continue_receive_check' =
          (continue_receive_check /\ errors # ErrorLimit)
    /\ UNCHANGED continue_heartbeat

StopBoth_Later(errors) ==
    IF errors > ErrorLimit
    THEN continue_heartbeat' = FALSE /\ continue_receive_check' = FALSE
    ELSE UNCHANGED <<continue_heartbeat, continue_receive_check>>

StopBoth_AtOnce(errors) ==
    continue_heartbeat' = FALSE /\ continue_receive_check' = FALSE

\* Five errors in a row stop both threads, for good.
StopBoth(errors) ==
    IF errors = ErrorLimit
    THEN continue_heartbeat' = FALSE /\ continue_receive_check' = FALSE
    ELSE UNCHANGED <<continue_heartbeat, continue_receive_check>>

\* recv_msg fails, as it may at any time and must on a broken connection.
Receive_Error(k) ==
    /\ receive[k] = "read"
    /\ receive' = [receive EXCEPT ![k] = "check"]
    /\ consec_error_count' = [consec_error_count EXCEPT ![k] = @ + 1]
    /\ StopBoth(consec_error_count[k] + 1)
    /\ UNCHANGED <<inits, init_pc, status, sbn_client_sockfd, heart,
                   recv_sockfd, broken, late_beats>>

Breaks(fd) ==
    /\ fd \in 1 .. inits
    /\ broken' = broken \cup {fd}
    /\ UNCHANGED <<inits, init_pc, status, globals, threads, late_beats>>

-----------------------------------------------------------------------------

Init ==
    /\ inits = 0 /\ init_pc = "returned"
    /\ status = "SBN_CLIENT_NO_STATUS_SET"
    /\ sbn_client_sockfd = NoSocket
    /\ continue_heartbeat = TRUE /\ continue_receive_check = TRUE
    /\ heart = [k \in Inits |-> "none"]
    /\ receive = [k \in Inits |-> "none"]
    /\ recv_sockfd = [k \in Inits |-> NoSocket]
    /\ consec_error_count = [k \in Inits |-> 0]
    /\ broken = {}
    /\ late_beats = [k \in Inits |-> 0]

HeartStep(k) ==
    Heart_Check(k) \/ Heart_Test(k) \/ Heart_Send(k) \/ Heart_Wake(k)

Next ==
    \/ Init_Call
    \/ Init_ConnectFails
    \/ Init_Connect
    \/ Init_StartHeart
    \/ Init_StartReceive
    \/ \E k \in Inits : HeartStep(k)
    \/ \E k \in Inits : Receive_Check(k) \/ Receive_Ok(k) \/ Receive_Error(k)
    \/ \E fd \in Inits : Breaks(fd)

Spec == Init /\ [][Next]_vars

\* Each heartbeat thread is scheduled; what recv_msg meets is not forced.
FairSpec == Spec /\ \A k \in Inits : WF_vars(HeartStep(k))

-----------------------------------------------------------------------------
(* What must hold                                                          *)

GaveUp == \E k \in Inits : consec_error_count[k] = ErrorLimit

\* "CFE_SUCCESS The client connected and is ready for use": when Init has
\* succeeded both its threads run, until a receive thread, its own or that of
\* an earlier Init, has counted ErrorLimit errors in a row.
ReadyUntilGivenUp ==
    init_pc = "returned" /\ status = "CFE_SUCCESS" /\ ~GaveUp
    => /\ heart[inits] \notin {"none", "done"}
       /\ receive[inits] \notin {"none", "done"}

\* A heartbeat thread looks at its flag every time round: it sends at most
\* one heartbeat after the receive thread has given up the connection.
OneLateBeat == \A k \in Inits : late_beats[k] <= 1

\* When the receive thread has given up, the heartbeat threads end too, and
\* SBN is not told any more that the client is alive.
BeatsStop == \A k \in Inits : GaveUp ~> heart[k] \in {"none", "done"}
=============================================================================
