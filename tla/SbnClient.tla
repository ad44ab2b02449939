----------------------------- MODULE SbnClient ------------------------------
(***************************************************************************)
(* The client as a whole: the frames SBN sends (SbnReceive), the thread    *)
(* that reads them, and the pipes that thread and the application share    *)
(* (SbnPipes).                                                             *)
(*                                                                         *)
(* SbnReceive and SbnPipes meet in ingest_app_message, which the receive   *)
(* thread calls: where SbnReceive hands over the bytes of a message,       *)
(* SbnPipes receives one, and nothing more is read from the socket until   *)
(* it is in its pipe, or dropped, and a waiting thread was signalled.      *)
(*                                                                         *)
(* A message is <<f, id>>, the one of the f-th frame SBN sent; <<0, id>>   *)
(* is what comes of bytes that were read out of step.                      *)
(*                                                                         *)
(* An operator named Op_Change, before Op, is Op with a plausible mistake. *)
(***************************************************************************)
EXTENDS SbnPipesQueue

CONSTANTS HDR_SZ, MAX_MESSAGE_SIZE, Sizes, ErrorLimit, MaxFrames

ASSUME ClientAssumption ==
    /\ HDR_SZ \in Nat \ {0}
    /\ MAX_MESSAGE_SIZE \in Nat
    /\ Sizes \subseteq Nat
    /\ ErrorLimit \in Nat \ {0}
    /\ MaxFrames \in Nat
    /\ Msgs = (0 .. MaxFrames) \X MsgIds
    /\ \A m \in Msgs : MsgIdOf[m] = m[2]
    /\ Unasked = TRUE

VARIABLES
    sent, wire, link, recv_pc, MsgType, MsgSz, got, consec_error_count,
    continue_receive_check, ingested, upset,      \* those of SbnReceive
    ids         \* history: the id of the message of each frame

R == INSTANCE SbnReceive WITH pc <- recv_pc

receiving == <<sent, wire, link, recv_pc, MsgType, MsgSz, got,
               consec_error_count, continue_receive_check, ingested, upset>>
cvars == <<vars, receiving, ids>>

ClientTypeOK ==
    /\ TypeOK
    /\ R!TypeOK
    /\ ids \in Seq(MsgIds \cup {INVALID_MSG_ID})
    /\ DOMAIN ids = DOMAIN sent

-----------------------------------------------------------------------------
(* SBN                                                                     *)

\* A message for the client, of an id it was asked to forward.
Sbn_Forward(id, size) ==
    /\ id \in sbn_subs
    /\ R!Sbn_Send([type |-> "app", size |-> size])
    /\ ids' = Append(ids, id)
    /\ UNCHANGED vars

\* A frame of another type.
Sbn_Chatter(frame) ==
    /\ frame.type # "app"
    /\ R!Sbn_Send(frame)
    /\ ids' = Append(ids, INVALID_MSG_ID)
    /\ UNCHANGED vars

Sbn_Close == R!Sbn_Close /\ UNCHANGED <<vars, ids>>

-----------------------------------------------------------------------------
(* The receive thread.  It is in recv_msg while SbnPipes has it idle.      *)

InRecvMsg == At(Minder, "idle")

Recv_Read ==
    /\ InRecvMsg
    /\ R!ReadBytes_Some \/ R!ReadBytes_Closed \/ R!recv_msg_Header
    /\ UNCHANGED <<vars, ids>>

Recv_Broken == InRecvMsg /\ R!ReadBytes_Broken /\ UNCHANGED <<vars, ids>>

\* A frame of another type is read to its end and forgotten.
Recv_Dropped ==
    /\ InRecvMsg
    /\ MsgType # "app"
    /\ R!recv_msg_Body
    /\ UNCHANGED <<vars, ids>>

\* What the bytes just read are.
IsBodyOf(f) == sent[f].type = "app" /\ got = R!Body(f, sent[f].size)

Carried ==
    {m \in Msgs : \/ m[1] \in DOMAIN sent /\ IsBodyOf(m[1]) /\ m[2] = ids[m[1]]
                  \/ m[1] = 0 /\ \A f \in DOMAIN sent : ~IsBodyOf(f)}

Recv_Ingest ==
    /\ InRecvMsg
    /\ MsgType = "app"
    /\ R!recv_msg_Body
    /\ \E m \in Carried : Minder_Receive(m)
    /\ UNCHANGED ids

-----------------------------------------------------------------------------

ClientInit == Init /\ R!Init /\ ids = <<>>

\* A step of the pipes is one of the application's or of ingest_app_message.
Pipes_Step(A) == A /\ UNCHANGED <<receiving, ids>>

\* The receive thread, reading or in ingest_app_message.
Receive_Step ==
    \/ Recv_Read
    \/ Recv_Dropped
    \/ Recv_Ingest
    \/ Pipes_Step(MinderStep)

ClientNext ==
    \/ \E id \in MsgIds, size \in Sizes \ {0} : Sbn_Forward(id, size)
    \/ \E frame \in R!Frames : Sbn_Chatter(frame)
    \/ Sbn_Close
    \/ Receive_Step
    \/ Recv_Broken
    \/ \E t \in Apps : Pipes_Step(AppCall(t) \/ AppStep(t) \/ AppFault(t))

ClientSpec == ClientInit /\ [][ClientNext]_cvars

\* Every thread of the client is scheduled, and read() returns when it can.
\* Nothing makes SBN send, or the application call.
ClientFairSpec ==
    /\ ClientSpec
    /\ WF_cvars(Receive_Step)
    /\ \A t \in Apps : WF_cvars(Pipes_Step(AppStep(t)))

-----------------------------------------------------------------------------
(* What must hold                                                          *)

\* No byte was left unread, and none of the two races of SbnPipes has
\* reached a pipe.
Sound == ~upset /\ tainted = {}

\* The numbers in S, in order.
Listing(S) == CHOOSE s \in [1 .. Cardinality(S) -> S] :
                 \A i, j \in 1 .. Cardinality(S) : i < j => s[i] < s[j]

\* The messages SBN has forwarded that no pipe has: the one ingest_app_message
\* is at work on, and those it was not given yet.
InHand == IF At(Minder, "ing_lock") \/ pc[Minder] \in StorePcs
          THEN <<msg_buffer>> ELSE <<>>

OnTheWay ==
    LET f == Listing(R!Coming)
    IN  [k \in 1 .. Cardinality(R!Coming) |-> <<f[k], ids[f[k]]>>]

Line == InHand \o OnTheWay

Channel == INSTANCE SbnChannel WITH
    Capacity <- MAX_PIPE_DEPTH - 1,
    line     <- IF Sound THEN Line ELSE <<>>,
    open     <- link = "up",
    subs     <- [p \in Pipes |-> {id \in MsgIds : Subscribes(p, id)}],
    unread   <- [p \in Pipes |-> IF Sound THEN Contents(p) ELSE <<>>],
    held     <- [p \in Pipes |-> IF Sound THEN Messages[p][ReadMessage[p]]
                                 ELSE NoMsg],
    sound    <- Sound

\* As long as the stream is read in step and no race has reached a pipe, the
\* messages SBN forwards are taken from the pipes that subscribe to them, each
\* once, in the order SBN sent them, however reads cut the stream, frames of
\* other types come between and calls interleave with the receive thread; one
\* is lost only to a full pipe, to no subscription, or with the connection.
IsChannel == Channel!Spec

\* A message for the pipe t waits on has been forwarded, and nothing was lost.
Awaited(t) ==
    /\ pc[t] = "rcv_wait"
    /\ continue_receive_check
    /\ Sound
    /\ \/ Unread(pipe_idx[t]) >= 1
       \/ \E k \in DOMAIN Line : Subscribes(pipe_idx[t], MsgIdOf[Line[k]])

\* A thread does not wait in RcvMsg for ever when SBN has forwarded a message
\* for its pipe: the message is read, stored and signalled, unless the
\* connection, or the receive thread, ends first.
PendAnswered == \A t \in Apps : Awaited(t) ~> ~Awaited(t)
=============================================================================
