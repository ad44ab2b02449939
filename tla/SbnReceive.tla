----------------------------- MODULE SbnReceive -----------------------------
(***************************************************************************)
(* How the receive thread cuts the byte stream of the socket into frames:  *)
(* SBN_Client_ReceiveMinder, recv_msg and CFE_SBN_Client_ReadBytes.        *)
(*                                                                         *)
(* A byte is <<f, k>>, the k-th of the f-th frame SBN sent, so that bytes  *)
(* that are read in the wrong place can be told.  A header read out of     *)
(* step with the frames says anything.  What ingest_app_message does with  *)
(* the bytes of a message is the subject of SbnPipes: here they are added  *)
(* to ingested.  The flag continue_heartbeat, cleared with                 *)
(* continue_receive_check, is the subject of SbnLifecycle.                 *)
(*                                                                         *)
(* An operator named Op_Change, before Op, is Op with a plausible mistake. *)
(***************************************************************************)
EXTENDS Integers, SequencesExt

CONSTANTS
    HDR_SZ,             \* SBN_PACKED_HDR_SZ
    MAX_MESSAGE_SIZE,   \* CFE_SBN_CLIENT_MAX_MESSAGE_SIZE
    Sizes,              \* the body sizes a header may state
    ErrorLimit,         \* the errors in a row that stop the thread
    MaxFrames           \* a bound: how many frames SBN sends

ASSUME FramesAssumption ==
    /\ HDR_SZ \in Nat \ {0}
    /\ MAX_MESSAGE_SIZE \in Nat
    /\ Sizes \subseteq Nat
    /\ ErrorLimit \in Nat \ {0}
    /\ MaxFrames \in Nat

VARIABLES
    sent,       \* history: the frames SBN sent
    wire,       \* the bytes in flight
    link,       \* "up", or "closed" by SBN
    pc,         \* what ReadBytes is called for: "header" or "body"
    MsgType, MsgSz,          \* the frame announced; the size asked for
    got,                     \* msg_buffer, total_bytes_recd long
    consec_error_count, continue_receive_check,
    ingested,   \* history: the messages given to ingest_app_message
    upset       \* history: bytes of a frame were left unread

stream == <<sent, link>>
vars == <<stream, wire, pc, MsgType, MsgSz, got, consec_error_count,
          continue_receive_check, ingested, upset>>

\* SBN_NO_MSG, SUB, UNSUB, PROTO and HEARTBEAT are read and dropped.
Types  == {"app", "dropped", "unknown"}
Frames == [type : Types, size : Sizes]
Bytes  == (1 .. MaxFrames) \X Nat

TypeOK ==
    /\ sent \in Seq(Frames) /\ Len(sent) <= MaxFrames
    /\ wire \in Seq(Bytes)
    /\ link \in {"up", "closed"}
    /\ pc \in {"header", "body"}
    /\ MsgType \in Types
    /\ MsgSz \in Nat
    /\ got \in Seq(Bytes)
    /\ consec_error_count \in 0 .. ErrorLimit
    /\ continue_receive_check \in BOOLEAN
    /\ ingested \in Seq(Seq(Bytes))
    /\ upset \in BOOLEAN

Header(f)  == [k \in 1 .. HDR_SZ |-> <<f, k>>]
Body(f, n) == [k \in 1 .. n |-> <<f, HDR_SZ + k>>]

-----------------------------------------------------------------------------
(* SBN, at the other end                                                   *)

Sbn_Send(frame) ==
    /\ link = "up"
    /\ Len(sent) < MaxFrames
    /\ sent' = Append(sent, frame)
    /\ wire' = LET f == Len(sent) + 1
               IN  wire \o Header(f) \o Body(f, frame.size)
    /\ UNCHANGED <<link, pc, MsgType, MsgSz, got, consec_error_count,
                   continue_receive_check, ingested, upset>>

\* What was not delivered yet may be lost with the connection.
Sbn_Close ==
    /\ link = "up"
    /\ link' = "closed"
    /\ wire' \in Prefixes(wire)
    /\ UNCHANGED <<sent, pc, MsgType, MsgSz, got, consec_error_count,
                   continue_receive_check, ingested, upset>>

-----------------------------------------------------------------------------
(* CFE_SBN_Client_ReadBytes                                                *)

Unread == MsgSz - Len(got)

Complete_ShortRead == got # <<>> \/ MsgSz = 0

Complete == Unread = 0

Reading == continue_receive_check /\ ~Complete

\* read() returns what there is, or less.
ReadBytes_Some ==
    /\ Reading
    /\ \E n \in 1 .. Len(wire) :
          /\ n <= Unread
          /\ got' = got \o SubSeq(wire, 1, n)
          /\ wire' = SubSeq(wire, n + 1, Len(wire))
    /\ UNCHANGED <<stream, pc, MsgType, MsgSz, consec_error_count,
                   continue_receive_check, ingested, upset>>

TooLarge_Unchecked(size) == FALSE

TooLarge(size) == size > MAX_MESSAGE_SIZE

-----------------------------------------------------------------------------
(* recv_msg returns, and SBN_Client_ReceiveMinder counts the errors it     *)
(* returns in a row before it asks for the next header.                    *)

Finish_CountsAnew(ok) ==
    /\ consec_error_count' = IF ok THEN 0 ELSE 1
    /\ continue_receive_check' = (consec_error_count' # ErrorLimit)
    /\ pc' = "header"
    /\ MsgSz' = HDR_SZ
    /\ got' = <<>>

Finish_TestsBefore(ok) ==
    /\ consec_error_count' = IF ok THEN 0 ELSE consec_error_count + 1
    /\ continue_receive_check' = (consec_error_count # ErrorLimit)
    /\ pc' = "header"
    /\ MsgSz' = HDR_SZ
    /\ got' = <<>>

Finish(ok) ==
    /\ consec_error_count' = IF ok THEN 0 ELSE consec_error_count + 1
    /\ continue_receive_check' = (consec_error_count' # ErrorLimit)
    /\ pc' = "header"
    /\ MsgSz' = HDR_SZ
    /\ got' = <<>>

\* A read of an application message that fails is logged by
\* ingest_app_message, and recv_msg returns CFE_SUCCESS all the same.
ReadFailed == Finish(pc = "body" /\ MsgType = "app")

\* read() returns 0.
ReadBytes_Closed ==
    /\ Reading
    /\ wire = <<>>
    /\ link = "closed"
    /\ ReadFailed
    /\ UNCHANGED <<stream, wire, MsgType, ingested, upset>>

\* read() returns -1, for a signal perhaps: the connection may be sound.
ReadBytes_Broken ==
    /\ Reading
    /\ ReadFailed
    /\ upset' = (upset \/ pc = "body" \/ got # <<>>)
    /\ UNCHANGED <<stream, wire, MsgType, ingested>>

\* What the bytes of a header say.
Announced ==
    LET of == {f \in 1 .. Len(sent) : got = Header(f)}
    IN  IF of = {} THEN Frames ELSE {sent[f] : f \in of}

recv_msg_Header ==
    /\ continue_receive_check
    /\ pc = "header" /\ Complete
    /\ \E frame \in Announced :
          /\ MsgType' = frame.type
          /\ \/ /\ frame.type = "unknown"
                /\ Finish(FALSE)
                /\ upset' = (upset \/ frame.size > 0)
             \/ /\ frame.type # "unknown"
                /\ TooLarge(frame.size)
                /\ Finish(frame.type = "app")
                /\ upset' = TRUE
             \/ /\ frame.type # "unknown"
                /\ ~TooLarge(frame.size)
                /\ pc' = "body"
                /\ MsgSz' = frame.size
                /\ got' = <<>>
                /\ UNCHANGED <<consec_error_count, continue_receive_check,
                               upset>>
    /\ UNCHANGED <<stream, wire, ingested>>

recv_msg_Body ==
    /\ continue_receive_check
    /\ pc = "body" /\ Complete
    /\ ingested' = IF MsgType = "app" THEN Append(ingested, got)
                   ELSE ingested
    /\ Finish(TRUE)
    /\ UNCHANGED <<stream, wire, MsgType, upset>>

-----------------------------------------------------------------------------

Init ==
    /\ sent = <<>> /\ wire = <<>> /\ link = "up"
    /\ pc = "header" /\ MsgType = "unknown" /\ MsgSz = HDR_SZ /\ got = <<>>
    /\ consec_error_count = 0 /\ continue_receive_check = TRUE
    /\ ingested = <<>> /\ upset = FALSE

MinderStep ==
    \/ ReadBytes_Some
    \/ ReadBytes_Closed
    \/ recv_msg_Header
    \/ recv_msg_Body

Next ==
    \/ \E frame \in Frames : Sbn_Send(frame)
    \/ Sbn_Close
    \/ MinderStep
    \/ ReadBytes_Broken

Spec == Init /\ [][Next]_vars

\* The receive thread is scheduled, and read() returns when it can.
FairSpec == Spec /\ WF_vars(MinderStep)

-----------------------------------------------------------------------------
(* What must hold                                                          *)

\* The application messages among the first n frames sent.
AppsUpTo(n) == {f \in 1 .. n : sent[f].type = "app"}

\* The application messages SBN has sent whose last byte is still on its way
\* to ingest_app_message.
Coming == {f \in DOMAIN sent :
             /\ sent[f].type = "app"
             /\ \E k \in DOMAIN (got \o wire) :
                   (got \o wire)[k] = <<f, HDR_SZ + sent[f].size>>}

\* Waiting for the first byte of a frame.
AtRest == continue_receive_check /\ pc = "header" /\ got = <<>>

\* Unless a frame of an unknown type or too large came, or a read was
\* interrupted inside a frame, the k-th message ingest_app_message is given
\* is the k-th SBN sent, whole, however the reads cut the stream; and when
\* everything was read none is missing.
InStep ==
    ~upset =>
       /\ \A k \in DOMAIN ingested : \E f \in AppsUpTo(Len(sent)) :
             /\ Cardinality(AppsUpTo(f)) = k
             /\ ingested[k] = Body(f, sent[f].size)
       /\ AtRest /\ link = "up" /\ wire = <<>>
             => Len(ingested) = Cardinality(AppsUpTo(Len(sent)))

\* ReadBytes never writes past the buffer its caller has, whatever size a
\* header out of step announces.
NoOverrun ==
    Len(got) <= IF pc = "header" THEN HDR_SZ ELSE MAX_MESSAGE_SIZE

\* When SBN closes the connection the receive thread finds out, and stops,
\* even though failures inside application messages are not counted.
DeadLinkStops == link = "closed" ~> ~continue_receive_check
=============================================================================
