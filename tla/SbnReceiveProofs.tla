-------------------------- MODULE SbnReceiveProofs --------------------------
(***************************************************************************)
(* The receive thread never writes past a buffer, whatever SBN sends and   *)
(* however out of step the headers it reads are: the size asked of         *)
(* ReadBytes is bounded when it is asked, and what has been read never     *)
(* exceeds it.  And it stops exactly when its errors in a row are counted  *)
(* full, so that the count never passes its limit.                         *)
(***************************************************************************)
EXTENDS SbnReceive, TLAPS

\* What makes TypeOK inductive: the thread goes on as long as its count has
\* not reached the limit.
TypeInv ==
    /\ TypeOK
    /\ continue_receive_check <=> consec_error_count # ErrorLimit

\* ReadBytes is asked for a header, or for a body that fits, and has read no
\* more than it was asked for.
Bounded ==
    /\ Len(got) <= MsgSz
    /\ pc = "header" => MsgSz = HDR_SZ
    /\ pc = "body" => MsgSz <= MAX_MESSAGE_SIZE

-----------------------------------------------------------------------------
(* Sequences of bytes                                                      *)

\* Three sequences of bytes, one after the other, are one.
LEMMA ConcatTyped ==
    ASSUME NEW S, NEW a \in Seq(S), NEW b \in Seq(S), NEW c \in Seq(S)
    PROVE  a \o b \o c \in Seq(S)
OBVIOUS

\* What read() takes from the front of the stream, and what it leaves.
LEMMA SplitTyped ==
    ASSUME NEW S, NEW s \in Seq(S), NEW n \in 0 .. Len(s)
    PROVE  /\ SubSeq(s, 1, n) \in Seq(S)
           /\ Len(SubSeq(s, 1, n)) = n
           /\ SubSeq(s, n + 1, Len(s)) \in Seq(S)
OBVIOUS

\* A frame is made of bytes.
LEMMA FrameTyped ==
    ASSUME NEW f \in 1 .. MaxFrames, NEW n \in Nat
    PROVE  Header(f) \in Seq(Bytes) /\ Body(f, n) \in Seq(Bytes)
<1>1. Header(f) \in Seq(Bytes)
  BY FramesAssumption DEF Header, Bytes
<1>2. Body(f, n) \in Seq(Bytes)
  BY FramesAssumption DEF Body, Bytes
<1> QED BY <1>1, <1>2

-----------------------------------------------------------------------------
(* What the parts of a step do                                             *)

\* recv_msg returns: the count stays at or below its limit, and ReadBytes is
\* asked for the next header.
LEMMA FinishTyped ==
    ASSUME TypeInv, continue_receive_check, NEW ok \in BOOLEAN, Finish(ok)
    PROVE  /\ consec_error_count' \in 0 .. ErrorLimit
           /\ continue_receive_check' \in BOOLEAN
           /\ continue_receive_check' <=> consec_error_count' # ErrorLimit
           /\ pc' = "header" /\ MsgSz' = HDR_SZ /\ MsgSz' \in Nat
           /\ got' = <<>> /\ got' \in Seq(Bytes) /\ Len(got') = 0
<1>1. /\ consec_error_count \in 0 .. ErrorLimit
      /\ consec_error_count # ErrorLimit
  BY DEF TypeInv, TypeOK
<1>2. consec_error_count' \in 0 .. ErrorLimit
  BY <1>1, FramesAssumption DEF Finish
<1>3. /\ continue_receive_check' \in BOOLEAN
      /\ continue_receive_check' <=> consec_error_count' # ErrorLimit
  BY DEF Finish
<1>4. /\ pc' = "header" /\ MsgSz' = HDR_SZ /\ MsgSz' \in Nat
      /\ got' = <<>> /\ got' \in Seq(Bytes) /\ Len(got') = 0
  BY FramesAssumption DEF Finish
<1> QED BY <1>2, <1>3, <1>4

\* A step that returns from recv_msg, with what it adds to the messages.
LEMMA ReturnTyped ==
    ASSUME TypeInv, Bounded, continue_receive_check, NEW ok \in BOOLEAN,
           Finish(ok), UNCHANGED <<stream, wire>>, MsgType' \in Types,
           ingested' \in Seq(Seq(Bytes)), upset' \in BOOLEAN
    PROVE  TypeInv' /\ Bounded'
<1>1. /\ consec_error_count' \in 0 .. ErrorLimit
      /\ continue_receive_check' \in BOOLEAN
      /\ continue_receive_check' <=> consec_error_count' # ErrorLimit
      /\ pc' = "header" /\ MsgSz' = HDR_SZ /\ MsgSz' \in Nat
      /\ got' = <<>> /\ got' \in Seq(Bytes) /\ Len(got') = 0
  BY FinishTyped
<1>2. TypeInv'
  BY <1>1 DEF TypeInv, TypeOK, stream
<1>3. Bounded'
  BY <1>1, FramesAssumption DEF Bounded
<1> QED BY <1>2, <1>3

-----------------------------------------------------------------------------
(* The steps                                                               *)

\* SBN sends whole frames, and the connection takes their bytes.
LEMMA SendTyped ==
    ASSUME TypeInv, Bounded, NEW frame \in Frames, Sbn_Send(frame)
    PROVE  TypeInv' /\ Bounded'
<1> DEFINE f == Len(sent) + 1
<1>1. f \in 1 .. MaxFrames /\ frame.size \in Nat
  <2>1. Len(sent) \in Nat /\ Len(sent) < MaxFrames
    BY DEF TypeInv, TypeOK, Sbn_Send
  <2>2. f \in 1 .. MaxFrames
    BY <2>1, FramesAssumption
  <2>3. frame.size \in Sizes
    BY DEF Frames
  <2> QED BY <2>2, <2>3, FramesAssumption
<1>2. wire' \in Seq(Bytes)
  <2>1. Header(f) \in Seq(Bytes) /\ Body(f, frame.size) \in Seq(Bytes)
    BY <1>1, FrameTyped
  <2>2. wire' = wire \o Header(f) \o Body(f, frame.size)
    BY DEF Sbn_Send
  <2>3. wire \in Seq(Bytes)
    BY DEF TypeInv, TypeOK
  <2> QED BY <2>1, <2>2, <2>3, ConcatTyped
<1>3. sent' \in Seq(Frames) /\ Len(sent') <= MaxFrames
  BY <1>1 DEF Sbn_Send, TypeInv, TypeOK
<1>4. UNCHANGED <<link, pc, MsgType, MsgSz, got, consec_error_count,
                  continue_receive_check, ingested, upset>>
  BY DEF Sbn_Send
<1>5. TypeInv'
  BY <1>2, <1>3, <1>4 DEF TypeInv, TypeOK
<1> QED BY <1>4, <1>5 DEF Bounded

\* What is left of the stream when SBN closes it is a stream.
LEMMA CloseTyped ==
    ASSUME TypeInv, Bounded, Sbn_Close
    PROVE  TypeInv' /\ Bounded'
<1>1. wire' \in Seq(Bytes)
  <2>1. PICK n \in 0 .. Len(wire) : wire' = SubSeq(wire, 1, n)
    BY DEF Sbn_Close, Prefixes
  <2>2. wire \in Seq(Bytes)
    BY DEF TypeInv, TypeOK
  <2> QED BY <2>1, <2>2, SplitTyped
<1>2. link' = "closed"
      /\ UNCHANGED <<sent, pc, MsgType, MsgSz, got, consec_error_count,
                     continue_receive_check, ingested, upset>>
  BY DEF Sbn_Close
<1> QED BY <1>1, <1>2 DEF TypeInv, TypeOK, Bounded

\* A read returns no more than it was asked for.
LEMMA SomeTyped ==
    ASSUME TypeInv, Bounded, ReadBytes_Some
    PROVE  TypeInv' /\ Bounded'
<1>1. PICK n \in 1 .. Len(wire) :
         /\ n <= Unread
         /\ got' = got \o SubSeq(wire, 1, n)
         /\ wire' = SubSeq(wire, n + 1, Len(wire))
  BY DEF ReadBytes_Some
<1>2. wire \in Seq(Bytes) /\ got \in Seq(Bytes) /\ MsgSz \in Nat
  BY DEF TypeInv, TypeOK
<1>3. n \in 0 .. Len(wire)
  BY <1>2
<1>4. /\ SubSeq(wire, 1, n) \in Seq(Bytes) /\ Len(SubSeq(wire, 1, n)) = n
      /\ wire' \in Seq(Bytes)
  BY <1>1, <1>2, <1>3, SplitTyped
<1>5. got' \in Seq(Bytes) /\ Len(got') = Len(got) + n
  BY <1>1, <1>2, <1>4
<1>6. Len(got') <= MsgSz
  BY <1>1, <1>2, <1>5 DEF Unread
<1>7. UNCHANGED <<sent, link, pc, MsgType, MsgSz, consec_error_count,
                  continue_receive_check, ingested, upset>>
  BY DEF ReadBytes_Some, stream
<1>8. TypeInv'
  BY <1>4, <1>5, <1>7 DEF TypeInv, TypeOK
<1> QED BY <1>6, <1>7, <1>8 DEF Bounded

\* A read that fails ends the frame.
LEMMA FailTyped ==
    ASSUME TypeInv, Bounded, ReadBytes_Closed \/ ReadBytes_Broken
    PROVE  TypeInv' /\ Bounded'
<1>1. /\ continue_receive_check /\ UNCHANGED <<stream, wire>>
      /\ Finish(pc = "body" /\ MsgType = "app")
      /\ UNCHANGED <<MsgType, ingested>>
  BY DEF ReadBytes_Closed, ReadBytes_Broken, Reading, ReadFailed
<1>2. upset' \in BOOLEAN
  BY DEF ReadBytes_Closed, ReadBytes_Broken, TypeInv, TypeOK
<1>3. MsgType' \in Types /\ ingested' \in Seq(Seq(Bytes))
  BY <1>1 DEF TypeInv, TypeOK
<1>4. (pc = "body" /\ MsgType = "app") \in BOOLEAN
  OBVIOUS
<1> QED BY <1>1, <1>2, <1>3, <1>4, ReturnTyped

\* The header of a frame is believed, and one that is none may say anything;
\* either way a body that does not fit is not asked for.
LEMMA HeaderTyped ==
    ASSUME TypeInv, Bounded, recv_msg_Header
    PROVE  TypeInv' /\ Bounded'
<1>1. PICK frame \in Announced :
         /\ MsgType' = frame.type
         /\ \/ Finish(FALSE) /\ upset' = (upset \/ frame.size > 0)
            \/ Finish(frame.type = "app") /\ upset' = TRUE
            \/ /\ ~TooLarge(frame.size)
               /\ pc' = "body" /\ MsgSz' = frame.size /\ got' = <<>>
               /\ UNCHANGED <<consec_error_count, continue_receive_check,
                              upset>>
  BY DEF recv_msg_Header
<1>2. continue_receive_check /\ UNCHANGED <<stream, wire, ingested>>
  BY DEF recv_msg_Header
<1>3. frame.size \in Nat /\ MsgType' \in Types
  <2>1. Announced \subseteq Frames
    BY DEF Announced, TypeInv, TypeOK
  <2> QED BY <1>1, <2>1, FramesAssumption DEF Frames
<1>4. ingested' \in Seq(Seq(Bytes)) /\ upset \in BOOLEAN
  BY <1>2 DEF TypeInv, TypeOK
<1>5. ASSUME NEW ok \in BOOLEAN, Finish(ok), upset' \in BOOLEAN
      PROVE  TypeInv' /\ Bounded'
  BY <1>2, <1>3, <1>4, <1>5, ReturnTyped
<1>6. CASE \/ Finish(FALSE) /\ upset' = (upset \/ frame.size > 0)
           \/ Finish(frame.type = "app") /\ upset' = TRUE
  <2>1. FALSE \in BOOLEAN /\ (frame.type = "app") \in BOOLEAN
        /\ (upset \/ frame.size > 0) \in BOOLEAN /\ TRUE \in BOOLEAN
    OBVIOUS
  <2> QED BY <1>5, <1>6, <2>1
<1>7. CASE /\ ~TooLarge(frame.size)
           /\ pc' = "body" /\ MsgSz' = frame.size /\ got' = <<>>
           /\ UNCHANGED <<consec_error_count, continue_receive_check, upset>>
  <2>1. got' \in Seq(Bytes) /\ Len(got') = 0
    BY <1>7
  <2>2. TypeInv'
    BY <1>2, <1>3, <1>7, <2>1 DEF TypeInv, TypeOK, stream
  <2>3. Bounded'
    BY <1>3, <1>7, <2>1, FramesAssumption DEF Bounded, TooLarge
  <2> QED BY <2>2, <2>3
<1> QED BY <1>1, <1>6, <1>7

\* A message is given to ingest_app_message, or dropped.
LEMMA BodyTyped ==
    ASSUME TypeInv, Bounded, recv_msg_Body
    PROVE  TypeInv' /\ Bounded'
<1>1. /\ continue_receive_check /\ Finish(TRUE)
      /\ UNCHANGED <<stream, wire, MsgType, upset>>
  BY DEF recv_msg_Body
<1>2. ingested' \in Seq(Seq(Bytes))
  BY DEF recv_msg_Body, TypeInv, TypeOK
<1>3. MsgType' \in Types /\ upset' \in BOOLEAN
  BY <1>1 DEF TypeInv, TypeOK
<1>4. TRUE \in BOOLEAN
  OBVIOUS
<1> QED BY <1>1, <1>2, <1>3, <1>4, ReturnTyped

\* Every step keeps the types and the bounds.
LEMMA ReceiveStep ==
    ASSUME TypeInv, Bounded, [Next]_vars
    PROVE  TypeInv' /\ Bounded'
<1>1. CASE UNCHANGED vars
  BY <1>1 DEF TypeInv, TypeOK, Bounded, vars, stream
<1>2. ASSUME NEW frame \in Frames, Sbn_Send(frame)
      PROVE  TypeInv' /\ Bounded'
  BY <1>2, SendTyped
<1>3. CASE Sbn_Close
  BY <1>3, CloseTyped
<1>4. CASE ReadBytes_Some
  BY <1>4, SomeTyped
<1>5. CASE ReadBytes_Closed \/ ReadBytes_Broken
  BY <1>5, FailTyped
<1>6. CASE recv_msg_Header
  BY <1>6, HeaderTyped
<1>7. CASE recv_msg_Body
  BY <1>7, BodyTyped
<1> QED BY <1>1, <1>2, <1>3, <1>4, <1>5, <1>6, <1>7 DEF Next, MinderStep

\* The thread waits for a header, with nothing read and nothing counted.
LEMMA ReceiveInit == Init => TypeInv /\ Bounded
<1>1. SUFFICES ASSUME Init PROVE TypeInv /\ Bounded
  OBVIOUS
<1>2. /\ sent \in Seq(Frames) /\ wire \in Seq(Bytes) /\ got \in Seq(Bytes)
      /\ ingested \in Seq(Seq(Bytes)) /\ Len(sent) = 0 /\ Len(got) = 0
  BY <1>1 DEF Init
<1>3. TypeOK
  <2>1. link \in {"up", "closed"} /\ pc \in {"header", "body"}
    BY <1>1 DEF Init
  <2>2. MsgType \in Types /\ upset \in BOOLEAN
    BY <1>1 DEF Init, Types
  <2>3. MsgSz \in Nat
    BY <1>1, FramesAssumption DEF Init
  <2>4. consec_error_count \in 0 .. ErrorLimit
    BY <1>1, FramesAssumption DEF Init
  <2>5. continue_receive_check \in BOOLEAN
    BY <1>1 DEF Init
  <2>6. Len(sent) <= MaxFrames
    BY <1>2, FramesAssumption
  <2> QED BY <1>2, <2>1, <2>2, <2>3, <2>4, <2>5, <2>6 DEF TypeOK
<1>4. consec_error_count # ErrorLimit /\ continue_receive_check
  BY <1>1, FramesAssumption DEF Init
<1>5. Bounded
  BY <1>1, <1>2, FramesAssumption DEF Init, Bounded
<1> QED BY <1>3, <1>4, <1>5 DEF TypeInv

\* Every variable keeps its type: in particular the errors in a row never
\* pass the limit, which an equality tests for.
THEOREM ReceiveTypeCorrect == Spec => []TypeOK
<1>1. TypeInv => TypeOK
  BY DEF TypeInv
<1> QED BY <1>1, ReceiveInit, ReceiveStep, PTL DEF Spec

\* ReadBytes never writes past the buffer of its caller: the check of MsgSz
\* against the buffer's size comes before every read, also when the header
\* was read out of step.
THEOREM NeverOverruns == Spec => []NoOverrun
<1>1. TypeInv /\ Bounded => NoOverrun
  BY FramesAssumption DEF TypeInv, TypeOK, Bounded, NoOverrun
<1> QED BY <1>1, ReceiveInit, ReceiveStep, PTL DEF Spec
=============================================================================
