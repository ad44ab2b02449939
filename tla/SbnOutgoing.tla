---------------------------- MODULE SbnOutgoing -----------------------------
(***************************************************************************)
(* What the client writes: CFE_SB_SendMsg, the subscription request of     *)
(* CFE_SB_Subscribe (SendSubToSbn) and the heartbeat (send_heartbeat), by  *)
(* several threads, to one socket, with no lock and one write() each.      *)
(*                                                                         *)
(* A byte is <<f, k>>, the k-th of the f-th frame built.  write() takes    *)
(* the bytes of its buffer a few at a time.  It may return early, and the  *)
(* bytes of two calls may mix: nothing says that they do not on a stream   *)
(* socket whose buffer is full.                                            *)
(*                                                                         *)
(* An operator named Op_Change, before Op, is Op with a plausible mistake. *)
(***************************************************************************)
EXTENDS Integers, Sequences, FiniteSets

CONSTANTS
    Apps, Heart,         \* the application's threads, the heartbeat thread
    HDR_SZ,              \* SBN_PACKED_HDR_SZ
    SUB_SZ,              \* the body of a subscription request
    MAX_MESSAGE_SIZE,    \* CFE_SBN_CLIENT_MAX_MESSAGE_SIZE
    UINT16,              \* 2^16
    Lengths,             \* the lengths of the messages sent
    MaxFrames            \* a bound: how many frames are built

ASSUME OutgoingAssumption ==
    /\ Heart \notin Apps
    /\ {HDR_SZ, UINT16} \subseteq Nat \ {0}
    /\ {SUB_SZ, MAX_MESSAGE_SIZE, MaxFrames} \subseteq Nat
    /\ SUB_SZ < UINT16
    /\ Lengths \subseteq Nat

Writers == Apps \cup {Heart}

VARIABLES
    frames,     \* history: the frames built, and what became of each
    wire,       \* the bytes the socket has taken, in order
    pc,         \* where each thread is
    frame,      \* the frame it writes
    written,    \* how many bytes of it write() has taken
    ret,        \* what its last call returned
    buffers     \* the buffers SendMsg has allocated and not freed

vars == <<frames, wire, pc, frame, written, ret, buffers>>

Kinds == {"message", "subscription", "heartbeat"}
Statuses == {"none", "CFE_SUCCESS", "CFE_SB_MSG_TOO_BIG",
             "CFE_SB_BUF_ALOC_ERR"}

TypeOK ==
    /\ frames \in Seq([kind : Kinds, length : Nat, size : 0 .. UINT16 - 1,
                       status : Statuses])
    /\ Len(frames) <= MaxFrames
    /\ \A f \in DOMAIN frames :
          frames[f].kind = "message"
          => HDR_SZ + frames[f].size <= MAX_MESSAGE_SIZE
    /\ wire \in Seq((1 .. MaxFrames) \X (Nat \ {0}))
    /\ pc \in [Writers -> {"idle", "write", "check"}]
    /\ frame \in [Writers -> 0 .. MaxFrames]
    /\ written \in [Writers -> Nat]
    /\ ret \in [Apps -> Statuses]
    /\ buffers \subseteq 1 .. MaxFrames

-----------------------------------------------------------------------------

\* A message's length in the width of its type.
GetTotalMsgLength(length) == length % UINT16

\* The size of the buffer passed to write(), and of the frame it announces.
total_size_NoHeader(size) == size

total_size(size) == size + HDR_SZ

\* t has built a frame and calls write().
Build(t, kind, length, size) ==
    /\ pc[t] = "idle"
    /\ Len(frames) < MaxFrames
    /\ frames' = Append(frames, [kind |-> kind, length |-> length,
                                 size |-> size, status |-> "none"])
    /\ frame' = [frame EXCEPT ![t] = Len(frames) + 1]
    /\ written' = [written EXCEPT ![t] = 0]
    /\ pc' = [pc EXCEPT ![t] = "write"]
    /\ UNCHANGED <<wire, ret>>

SendMsg_Call(t, length) ==
    LET msg_size == GetTotalMsgLength(length) IN
    \/ /\ pc[t] = "idle"
       /\ total_size(msg_size) > MAX_MESSAGE_SIZE
       /\ ret' = [ret EXCEPT ![t] = "CFE_SB_MSG_TOO_BIG"]
       /\ UNCHANGED <<frames, wire, pc, frame, written, buffers>>
    \/ /\ total_size(msg_size) <= MAX_MESSAGE_SIZE
       /\ Build(t, "message", length, msg_size)
       /\ buffers' = buffers \cup {Len(frames) + 1}

SendSubToSbn_Call(t) ==
    /\ Build(t, "subscription", SUB_SZ, SUB_SZ)
    /\ UNCHANGED buffers

send_heartbeat_Call ==
    /\ Build(Heart, "heartbeat", 0, 0)
    /\ UNCHANGED buffers

-----------------------------------------------------------------------------
(* write()                                                                 *)

Left(t) == total_size(frames[frame[t]].size) - written[t]

Write_Some(t) ==
    /\ pc[t] = "write"
    /\ \E n \in 1 .. Left(t) :
          /\ wire' = wire \o [k \in 1 .. n |-> <<frame[t], written[t] + k>>]
          /\ written' = [written EXCEPT ![t] = @ + n]
    /\ UNCHANGED <<frames, pc, frame, ret, buffers>>

\* It returns how many bytes it has taken, or -1 for none.
Write_Returns(t) ==
    /\ pc[t] = "write"
    /\ pc' = [pc EXCEPT ![t] = "check"]
    /\ UNCHANGED <<frames, wire, frame, written, ret, buffers>>

-----------------------------------------------------------------------------
(* Back in the caller                                                      *)

WroteAll_NoError(t) == written[t] > 0

WroteAll(t) == Left(t) = 0

Return(t, status) ==
    /\ pc' = [pc EXCEPT ![t] = "idle"]
    /\ frames' = [frames EXCEPT ![frame[t]].status = status]
    /\ ret' = [ret EXCEPT ![t] = status]
    /\ UNCHANGED <<wire, frame, written>>

Back(t, kind) == pc[t] = "check" /\ frames[frame[t]].kind = kind

SendMsg_Return_KeepsBuffer(t) ==
    /\ Back(t, "message")
    /\ Return(t, IF WroteAll(t) THEN "CFE_SUCCESS" ELSE "CFE_SB_BUF_ALOC_ERR")
    /\ UNCHANGED buffers

\* The buffer is freed on success only.
SendMsg_Return(t) ==
    /\ Back(t, "message")
    /\ \/ /\ WroteAll(t)
          /\ Return(t, "CFE_SUCCESS")
          /\ buffers' = buffers \ {frame[t]}
       \/ /\ ~WroteAll(t)
          /\ Return(t, "CFE_SB_BUF_ALOC_ERR")
          /\ UNCHANGED buffers

\* A failure is only logged, and Subscribe succeeds.
Subscribe_Return(t) ==
    /\ Back(t, "subscription")
    /\ Return(t, "CFE_SUCCESS")
    /\ UNCHANGED buffers

\* What write() returned is returned, and ignored.
Heartbeat_Return ==
    /\ Back(Heart, "heartbeat")
    /\ pc' = [pc EXCEPT ![Heart] = "idle"]
    /\ UNCHANGED <<frames, wire, frame, written, ret, buffers>>

-----------------------------------------------------------------------------

Init ==
    /\ frames = <<>> /\ wire = <<>>
    /\ pc = [t \in Writers |-> "idle"]
    /\ frame = [t \in Writers |-> 0] /\ written = [t \in Writers |-> 0]
    /\ ret = [t \in Apps |-> "none"]
    /\ buffers = {}

Next ==
    \/ \E t \in Apps, length \in Lengths : SendMsg_Call(t, length)
    \/ \E t \in Apps : SendSubToSbn_Call(t)
    \/ send_heartbeat_Call
    \/ \E t \in Writers : Write_Some(t) \/ Write_Returns(t)
    \/ \E t \in Apps : SendMsg_Return(t) \/ Subscribe_Return(t)
    \/ Heartbeat_Return

Spec == Init /\ [][Next]_vars

-----------------------------------------------------------------------------
(* What must hold                                                          *)

\* Where on the wire the bytes of frame f are, and which of its bytes are.
Positions(f) == {i \in DOMAIN wire : wire[i][1] = f}

BytesOnWire(f) == {wire[i][2] : i \in Positions(f)}

InOrder(f) == \A i, j \in Positions(f) : i < j => wire[i][2] < wire[j][2]

\* SendMsg reports success only for a message all of which it has written,
\* once and in order; other threads' bytes may be between.  The length of a
\* message that does not fit uint16 is taken modulo 2^16, and of such a
\* message less is written.
SentIsOnWire ==
    \A f \in DOMAIN frames :
       frames[f].kind = "message" /\ frames[f].status = "CFE_SUCCESS"
       /\ frames[f].length < UINT16
       => BytesOnWire(f) = 1 .. HDR_SZ + frames[f].length /\ InOrder(f)

\* A buffer is freed once its message was sent, and not before; the buffers
\* still held when every call has returned are those of the sends that failed.
BuffersOfFailures ==
    buffers = {f \in DOMAIN frames : /\ frames[f].kind = "message"
                                     /\ frames[f].status # "CFE_SUCCESS"}
=============================================================================
