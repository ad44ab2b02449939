------------------------- MODULE SbnOutgoingProofs -------------------------
(***************************************************************************)
(* The frames the client writes, for any number of threads, any lengths    *)
(* and any cut or mix of their bytes.                                      *)
(***************************************************************************)
EXTENDS SbnOutgoing, SequenceTheorems, TLAPS

Frame == [kind : Kinds, length : Nat, size : 0 .. UINT16 - 1,
          status : Statuses]

\* The inductive invariant: a thread that writes is at work on a frame of its
\* own that has no outcome yet, and has written no more than there is of it.
AtWork(t) ==
    pc[t] # "idle" =>
       /\ frame[t] \in DOMAIN frames
       /\ frames[frame[t]].status = "none"
       /\ written[t] <= total_size(frames[frame[t]].size)

OwnFrames ==
    \A t, u \in Writers :
       pc[t] # "idle" /\ pc[u] # "idle" /\ frame[t] = frame[u] => t = u

WorkInv ==
    /\ TypeOK
    /\ \A t \in Writers : AtWork(t)
    /\ OwnFrames
    /\ BuffersOfFailures

LEMMA Sizes ==
    /\ HDR_SZ \in Nat \ {0} /\ UINT16 \in Nat \ {0}
    /\ SUB_SZ \in 0 .. UINT16 - 1
    /\ MAX_MESSAGE_SIZE \in Nat /\ MaxFrames \in Nat
    /\ Heart \notin Apps /\ Lengths \subseteq Nat
BY OutgoingAssumption

LEMMA FramesOfType ==
    ASSUME TypeOK
    PROVE  /\ frames \in Seq(Frame) /\ Len(frames) \in Nat
           /\ DOMAIN frames = 1 .. Len(frames)
           /\ \A f \in DOMAIN frames :
                 frames[f] \in Frame /\ total_size(frames[f].size) \in Nat
<1>1. frames \in Seq(Frame) /\ Len(frames) \in Nat
      /\ DOMAIN frames = 1 .. Len(frames)
  BY DEF TypeOK, Frame
<1>2. ASSUME NEW f \in DOMAIN frames
      PROVE  frames[f] \in Frame /\ total_size(frames[f].size) \in Nat
  <2>1. frames[f] \in Frame
    BY <1>1
  <2>2. frames[f].size \in Nat
    BY <2>1, Sizes DEF Frame
  <2> QED BY <2>1, <2>2, Sizes DEF total_size
<1> QED BY <1>1, <1>2

LEMMA InitWork == Init => WorkInv
BY Sizes DEF Init, WorkInv, TypeOK, AtWork, OwnFrames, BuffersOfFailures,
             Writers, Statuses

\* A new frame is its writer's own.
LEMMA BuildWork ==
    ASSUME WorkInv, NEW t \in Writers, NEW kind \in Kinds, NEW length \in Nat,
           NEW size \in 0 .. UINT16 - 1, Build(t, kind, length, size),
           kind = "message" => total_size(size) <= MAX_MESSAGE_SIZE,
           buffers' = IF kind = "message" THEN buffers \cup {Len(frames) + 1}
                      ELSE buffers
    PROVE  WorkInv'
<1> DEFINE n == Len(frames)
           new == [kind |-> kind, length |-> length, size |-> size,
                   status |-> "none"]
<1>1. /\ frames \in Seq(Frame) /\ n \in Nat /\ DOMAIN frames = 1 .. n
      /\ \A f \in 1 .. n : frames[f] \in Frame
  BY FramesOfType DEF WorkInv
<1>2. new \in Frame
  BY DEF Frame, Statuses
<1>3. frames' = Append(frames, new)
  BY DEF Build
<1>4. /\ frames' \in Seq(Frame) /\ Len(frames') = n + 1
      /\ \A f \in 1 .. n : frames'[f] = frames[f]
      /\ frames'[n + 1] = new
      /\ DOMAIN frames' = 1 .. n + 1
  <2>1. /\ frames' \in Seq(Frame) /\ Len(frames') = n + 1
        /\ \A f \in 1 .. n : frames'[f] = frames[f]
        /\ frames'[n + 1] = new
    BY <1>1, <1>2, <1>3, AppendProperties
  <2> QED BY <2>1, <1>1
<1>5. /\ n < MaxFrames /\ pc[t] = "idle"
      /\ frame' = [frame EXCEPT ![t] = n + 1]
      /\ written' = [written EXCEPT ![t] = 0]
      /\ pc' = [pc EXCEPT ![t] = "write"]
      /\ UNCHANGED <<wire, ret>>
  BY DEF Build
<1> HIDE DEF n, new
<1>6. TypeOK'
  <2>1. frames' \in Seq(Frame) /\ Len(frames') <= MaxFrames
    BY <1>1, <1>4, <1>5, Sizes
  <2>2. ASSUME NEW f \in DOMAIN frames', frames'[f].kind = "message"
        PROVE  HDR_SZ + frames'[f].size <= MAX_MESSAGE_SIZE
    <3>1. CASE f = n + 1
      BY <3>1, <2>2, <1>4, Sizes DEF total_size, new
    <3>2. CASE f \in 1 .. n
      BY <3>2, <2>2, <1>1, <1>4 DEF WorkInv, TypeOK
    <3> QED BY <3>1, <3>2, <1>1, <1>4
  <2>3. /\ pc' \in [Writers -> {"idle", "write", "check"}]
        /\ frame' \in [Writers -> 0 .. MaxFrames]
        /\ written' \in [Writers -> Nat]
    BY <1>1, <1>5, Sizes DEF WorkInv, TypeOK
  <2>4. buffers' \subseteq 1 .. MaxFrames
    <3>1. n + 1 \in 1 .. MaxFrames
      BY <1>1, <1>5, Sizes
    <3>2. buffers \subseteq 1 .. MaxFrames
      BY DEF WorkInv, TypeOK
    <3>3. buffers' \subseteq buffers \cup {n + 1}
      BY DEF n
    <3> QED BY <3>1, <3>2, <3>3
  <2> QED BY <2>1, <2>2, <2>3, <2>4, <1>5 DEF WorkInv, TypeOK, Frame
<1>7. \A u \in Writers : AtWork(u)'
  <2> SUFFICES ASSUME NEW u \in Writers PROVE AtWork(u)'
    OBVIOUS
  <2>1. CASE u = t
    <3>1. frame'[t] = n + 1 /\ written'[t] = 0
      BY <1>5 DEF WorkInv, TypeOK
    <3>2. frames'[n + 1].status = "none" /\ frames'[n + 1].size = size
      BY <1>4 DEF new
    <3>3. n + 1 \in DOMAIN frames'
      BY <1>1, <1>4
    <3> QED BY <2>1, <3>1, <3>2, <3>3, Sizes DEF AtWork, total_size
  <2>2. CASE u # t
    <3>1. pc'[u] = pc[u] /\ frame'[u] = frame[u] /\ written'[u] = written[u]
      BY <2>2, <1>5 DEF WorkInv, TypeOK
    <3> QED BY <3>1, <1>1, <1>4 DEF WorkInv, AtWork, total_size
  <2> QED BY <2>1, <2>2
<1>8. OwnFrames'
  <2> SUFFICES ASSUME NEW u \in Writers, NEW v \in Writers,
                      pc'[u] # "idle", pc'[v] # "idle",
                      frame'[u] = frame'[v], u # v
               PROVE  FALSE
    BY DEF OwnFrames
  <2>1. \A w \in Writers : w # t /\ pc'[w] # "idle" =>
           pc[w] # "idle" /\ frame'[w] = frame[w] /\ frame[w] \in 1 .. n
    BY <1>1, <1>5 DEF WorkInv, TypeOK, AtWork
  <2>2. frame'[t] = n + 1 /\ n + 1 \notin 1 .. n
    BY <1>1, <1>5 DEF WorkInv, TypeOK
  <2>3. CASE u # t /\ v # t
    BY <2>1, <2>3 DEF WorkInv, OwnFrames
  <2>4. CASE u = t \/ v = t
    BY <2>1, <2>2, <2>4
  <2> QED BY <2>3, <2>4
<1>9. BuffersOfFailures'
  <2>1. buffers = {f \in 1 .. n : /\ frames[f].kind = "message"
                                  /\ frames[f].status # "CFE_SUCCESS"}
    BY <1>1 DEF WorkInv, BuffersOfFailures
  <2>2. frames'[n + 1].kind = kind /\ frames'[n + 1].status = "none"
    BY <1>4 DEF new
  <2>3. 1 .. n + 1 = (1 .. n) \cup {n + 1} /\ n + 1 \notin 1 .. n
    BY <1>1
  <2>4. buffers' = IF kind = "message" THEN buffers \cup {n + 1} ELSE buffers
    BY DEF n
  <2> QED BY <2>1, <2>2, <2>3, <2>4, <1>4 DEF BuffersOfFailures
<1> QED BY <1>6, <1>7, <1>8, <1>9 DEF WorkInv

\* A call that returns settles the frame of its own thread, and no other.
LEMMA ReturnWork ==
    ASSUME WorkInv, NEW t \in Apps, NEW status \in Statuses \ {"none"},
           pc[t] = "check", Return(t, status),
           buffers' = IF /\ frames[frame[t]].kind = "message"
                         /\ status = "CFE_SUCCESS"
                      THEN buffers \ {frame[t]} ELSE buffers
    PROVE  WorkInv'
<1> DEFINE g == frame[t]
<1>1. /\ frames \in Seq(Frame) /\ DOMAIN frames = 1 .. Len(frames)
      /\ \A f \in DOMAIN frames : frames[f] \in Frame
  BY FramesOfType DEF WorkInv
<1>2. /\ t \in Writers /\ g \in DOMAIN frames /\ frames[g].status = "none"
  BY DEF WorkInv, AtWork, Writers
<1>3. /\ pc' = [pc EXCEPT ![t] = "idle"]
      /\ frames' = [frames EXCEPT ![g].status = status]
      /\ ret' = [ret EXCEPT ![t] = status]
      /\ UNCHANGED <<wire, frame, written>>
  BY DEF Return
<1>4. /\ frames' \in Seq(Frame) /\ Len(frames') = Len(frames)
      /\ DOMAIN frames' = DOMAIN frames
      /\ \A f \in DOMAIN frames : f # g => frames'[f] = frames[f]
      /\ frames'[g] = [frames[g] EXCEPT !.status = status]
  <2>1. [frames[g] EXCEPT !.status = status] \in Frame
    BY <1>1, <1>2 DEF Frame
  <2>2. frames' = [frames EXCEPT ![g] = [frames[g] EXCEPT !.status = status]]
    BY <1>3
  <2> QED BY <2>1, <2>2, <1>1, <1>2
<1>5. /\ frames'[g].kind = frames[g].kind /\ frames'[g].size = frames[g].size
      /\ frames'[g].status = status
  BY <1>1, <1>2, <1>4 DEF Frame
<1> HIDE DEF g
<1>6. TypeOK'
  <2>1. ASSUME NEW f \in DOMAIN frames', frames'[f].kind = "message"
        PROVE  HDR_SZ + frames'[f].size <= MAX_MESSAGE_SIZE
    <3>1. f \in DOMAIN frames /\ frames[f].kind = "message"
          /\ frames'[f].size = frames[f].size
      BY <2>1, <1>4, <1>5
    <3> QED BY <3>1 DEF WorkInv, TypeOK
  <2>2. pc' \in [Writers -> {"idle", "write", "check"}]
        /\ ret' \in [Apps -> Statuses]
    BY <1>2, <1>3 DEF WorkInv, TypeOK
  <2>3. buffers' \subseteq 1 .. MaxFrames
    BY DEF WorkInv, TypeOK
  <2>4. frames' \in Seq(Frame) /\ Len(frames') <= MaxFrames
    BY <1>4 DEF WorkInv, TypeOK
  <2> QED BY <2>1, <2>2, <2>3, <2>4, <1>3 DEF WorkInv, TypeOK, Frame
<1>7. \A u \in Writers : AtWork(u)'
  <2> SUFFICES ASSUME NEW u \in Writers, pc'[u] # "idle" PROVE AtWork(u)'
    BY DEF AtWork
  <2>1. u # t /\ pc[u] # "idle" /\ frame'[u] = frame[u]
        /\ written'[u] = written[u]
    BY <1>2, <1>3 DEF WorkInv, TypeOK
  <2>2. frame[u] # g
    BY <2>1, <1>2 DEF WorkInv, OwnFrames, g
  <2> QED BY <2>1, <2>2, <1>4 DEF WorkInv, AtWork, total_size
<1>8. OwnFrames'
  <2>1. \A u \in Writers : pc'[u] # "idle" => pc[u] # "idle"
    BY <1>2, <1>3 DEF WorkInv, TypeOK
  <2> QED BY <2>1, <1>3 DEF WorkInv, OwnFrames
<1>9. BuffersOfFailures'
  <2>1. buffers = {f \in DOMAIN frames : /\ frames[f].kind = "message"
                                         /\ frames[f].status # "CFE_SUCCESS"}
    BY DEF WorkInv, BuffersOfFailures
  <2>2. buffers' = IF /\ frames[g].kind = "message"
                      /\ status = "CFE_SUCCESS"
                   THEN buffers \ {g} ELSE buffers
    BY DEF g
  <2>3. \A f \in DOMAIN frames :
           frames'[f].kind = "message" /\ frames'[f].status # "CFE_SUCCESS"
           <=> f \in buffers'
    <3>1. \A f \in DOMAIN frames : f # g => frames'[f] = frames[f]
      BY <1>4, <1>5
    <3> QED BY <2>1, <2>2, <1>2, <1>4, <1>5, <3>1
  <2> QED BY <2>1, <2>2, <2>3, <1>4, <1>5 DEF BuffersOfFailures
<1> QED BY <1>6, <1>7, <1>8, <1>9 DEF WorkInv

\* write() takes bytes that are there.
LEMMA WriteWork ==
    ASSUME WorkInv, NEW t \in Writers, Write_Some(t)
    PROVE  WorkInv'
<1>1. PICK n \in 1 .. Left(t) :
         /\ wire' = wire \o [k \in 1 .. n |-> <<frame[t], written[t] + k>>]
         /\ written' = [written EXCEPT ![t] = @ + n]
  BY DEF Write_Some
<1>2. pc[t] = "write" /\ UNCHANGED <<frames, pc, frame, ret, buffers>>
  BY DEF Write_Some
<1>3. /\ frame[t] \in DOMAIN frames /\ written[t] \in Nat
      /\ total_size(frames[frame[t]].size) \in Nat
      /\ frame[t] \in 1 .. MaxFrames
  <2>1. frame[t] \in DOMAIN frames /\ written[t] \in Nat
        /\ frame[t] \in 0 .. MaxFrames
    BY <1>2 DEF WorkInv, TypeOK, AtWork
  <2>2. DOMAIN frames = 1 .. Len(frames) /\ Len(frames) \in Nat
        /\ total_size(frames[frame[t]].size) \in Nat
    BY <2>1, FramesOfType DEF WorkInv
  <2> QED BY <2>1, <2>2, Sizes
<1>4. n \in Nat \ {0} /\ written[t] + n <= total_size(frames[frame[t]].size)
  BY <1>3 DEF Left
<1> DEFINE bytes == [k \in 1 .. n |-> <<frame[t], written[t] + k>>]
           Wire  == (1 .. MaxFrames) \X (Nat \ {0})
<1>5. wire' \in Seq(Wire)
  <2>1. \A k \in 1 .. n : written[t] + k \in Nat \ {0}
    BY <1>3, <1>4
  <2>2. \A k \in 1 .. n : <<frame[t], written[t] + k>> \in Wire
    BY <2>1, <1>3
  <2> HIDE DEF Wire
  <2>3. bytes \in Seq(Wire)
    BY <2>2, <1>4
  <2>4. wire \in Seq(Wire)
    BY DEF WorkInv, TypeOK, Wire
  <2> QED BY <2>3, <2>4, <1>1, ConcatProperties
<1>6. written' \in [Writers -> Nat]
  <2>1. written[t] + n \in Nat
    BY <1>3, <1>4
  <2>2. written \in [Writers -> Nat]
    BY DEF WorkInv, TypeOK
  <2>3. written' = [written EXCEPT ![t] = written[t] + n]
    BY <1>1
  <2> QED BY <2>1, <2>2, <2>3
<1>7. TypeOK'
  BY <1>2, <1>5, <1>6 DEF WorkInv, TypeOK
<1>8. \A u \in Writers : AtWork(u)'
  <2> SUFFICES ASSUME NEW u \in Writers PROVE AtWork(u)'
    OBVIOUS
  <2>1. CASE u = t
    <3>1. written'[t] = written[t] + n
      BY <1>1 DEF WorkInv, TypeOK
    <3> QED BY <2>1, <3>1, <1>2, <1>4 DEF WorkInv, AtWork, total_size
  <2>2. CASE u # t
    <3>1. written'[u] = written[u]
      BY <2>2, <1>1 DEF WorkInv, TypeOK
    <3> QED BY <3>1, <1>2 DEF WorkInv, AtWork, total_size
  <2> QED BY <2>1, <2>2
<1> QED BY <1>2, <1>7, <1>8 DEF WorkInv, OwnFrames, BuffersOfFailures

LEMMA StepWork == WorkInv /\ [Next]_vars => WorkInv'
<1> SUFFICES ASSUME WorkInv, [Next]_vars PROVE WorkInv'
  OBVIOUS
<1>1. ASSUME NEW t \in Apps, NEW length \in Lengths, SendMsg_Call(t, length)
      PROVE  WorkInv'
  <2> DEFINE size == GetTotalMsgLength(length)
  <2>1. size \in 0 .. UINT16 - 1 /\ length \in Nat /\ t \in Writers
    BY Sizes DEF GetTotalMsgLength, Writers
  <2>2. CASE /\ ret' = [ret EXCEPT ![t] = "CFE_SB_MSG_TOO_BIG"]
             /\ UNCHANGED <<frames, wire, pc, frame, written, buffers>>
    BY <2>2 DEF WorkInv, TypeOK, AtWork, OwnFrames, BuffersOfFailures,
                Statuses, total_size
  <2>3. CASE /\ total_size(size) <= MAX_MESSAGE_SIZE
             /\ Build(t, "message", length, size)
             /\ buffers' = buffers \cup {Len(frames) + 1}
    <3>1. "message" \in Kinds
      BY DEF Kinds
    <3> QED BY <3>1, <2>1, <2>3, BuildWork
  <2> QED BY <1>1, <2>2, <2>3 DEF SendMsg_Call
<1>2. ASSUME NEW t \in Apps, SendSubToSbn_Call(t)
      PROVE  WorkInv'
  <2>1. t \in Writers /\ "subscription" \in Kinds /\ SUB_SZ \in Nat
        /\ SUB_SZ \in 0 .. UINT16 - 1
    BY Sizes DEF Writers, Kinds
  <2> QED BY <2>1, <1>2, BuildWork DEF SendSubToSbn_Call
<1>3. CASE send_heartbeat_Call
  <2>1. Heart \in Writers /\ "heartbeat" \in Kinds /\ 0 \in Nat
        /\ 0 \in 0 .. UINT16 - 1
    BY Sizes DEF Writers, Kinds
  <2> QED BY <2>1, <1>3, BuildWork DEF send_heartbeat_Call
<1>4. ASSUME NEW t \in Writers, Write_Some(t)
      PROVE  WorkInv'
  BY <1>4, WriteWork
<1>5. ASSUME NEW t \in Writers, Write_Returns(t)
      PROVE  WorkInv'
  <2>1. /\ pc[t] = "write" /\ pc' = [pc EXCEPT ![t] = "check"]
        /\ UNCHANGED <<frames, wire, frame, written, ret, buffers>>
    BY <1>5 DEF Write_Returns
  <2>2. \A u \in Writers : pc'[u] # "idle" => pc[u] # "idle"
    BY <2>1 DEF WorkInv, TypeOK
  <2>3. TypeOK'
    BY <2>1 DEF WorkInv, TypeOK
  <2>4. \A u \in Writers : AtWork(u)'
    BY <2>1, <2>2 DEF WorkInv, AtWork, total_size
  <2> QED BY <2>1, <2>2, <2>3, <2>4
          DEF WorkInv, OwnFrames, BuffersOfFailures
<1>6. ASSUME NEW t \in Apps, SendMsg_Return(t)
      PROVE  WorkInv'
  <2>1. "CFE_SUCCESS" \in Statuses \ {"none"}
        /\ "CFE_SB_BUF_ALOC_ERR" \in Statuses \ {"none"}
    BY DEF Statuses
  <2>2. pc[t] = "check" /\ frames[frame[t]].kind = "message"
    BY <1>6 DEF SendMsg_Return, Back
  <2>3. CASE Return(t, "CFE_SUCCESS") /\ buffers' = buffers \ {frame[t]}
    BY <2>1, <2>2, <2>3, ReturnWork
  <2>4. CASE Return(t, "CFE_SB_BUF_ALOC_ERR") /\ UNCHANGED buffers
    BY <2>1, <2>2, <2>4, ReturnWork
  <2> QED BY <1>6, <2>3, <2>4 DEF SendMsg_Return
<1>7. ASSUME NEW t \in Apps, Subscribe_Return(t)
      PROVE  WorkInv'
  <2>1. "CFE_SUCCESS" \in Statuses \ {"none"}
    BY DEF Statuses
  <2>2. /\ pc[t] = "check" /\ frames[frame[t]].kind # "message"
        /\ Return(t, "CFE_SUCCESS") /\ UNCHANGED buffers
    BY <1>7 DEF Subscribe_Return, Back
  <2> QED BY <2>1, <2>2, ReturnWork
<1>8. CASE Heartbeat_Return
  <2>1. /\ Heart \in Writers /\ pc' = [pc EXCEPT ![Heart] = "idle"]
        /\ UNCHANGED <<frames, wire, frame, written, ret, buffers>>
    BY <1>8 DEF Heartbeat_Return, Writers
  <2>2. \A u \in Writers : pc'[u] # "idle" => pc[u] # "idle"
    BY <2>1 DEF WorkInv, TypeOK
  <2>3. TypeOK'
    BY <2>1 DEF WorkInv, TypeOK
  <2>4. \A u \in Writers : AtWork(u)'
    BY <2>1, <2>2 DEF WorkInv, AtWork, total_size
  <2> QED BY <2>1, <2>2, <2>3, <2>4
          DEF WorkInv, OwnFrames, BuffersOfFailures
<1>9. CASE UNCHANGED vars
  BY <1>9 DEF vars, WorkInv, TypeOK, AtWork, OwnFrames, BuffersOfFailures,
              total_size
<1> QED BY <1>1, <1>2, <1>3, <1>4, <1>5, <1>6, <1>7, <1>8, <1>9 DEF Next

LEMMA AlwaysWork == Spec => []WorkInv
BY InitWork, StepWork, PTL DEF Spec

\* Every variable keeps its type, whatever is sent and however write() cuts
\* it: no frame announces more than its 16 bits and the limit allow.
THEOREM OutgoingTypeCorrect == Spec => []TypeOK
<1>1. WorkInv => TypeOK
  BY DEF WorkInv
<1> QED BY <1>1, AlwaysWork, PTL

\* For any number of threads that send: a buffer is held for each message
\* that is being sent or that failed, and for no other.
THEOREM BuffersAreOfFailures == Spec => []BuffersOfFailures
<1>1. WorkInv => BuffersOfFailures
  BY DEF WorkInv
<1> QED BY <1>1, AlwaysWork, PTL

-----------------------------------------------------------------------------
(* What is on the wire                                                     *)

\* The inductive invariant: of the frame a thread writes, the bytes write()
\* has taken are on the wire; and each frame's bytes are in order.
Taken(t) == pc[t] # "idle" => BytesOnWire(frame[t]) = 1 .. written[t]

Truncated ==
    \A f \in DOMAIN frames :
       frames[f].kind = "message"
       => frames[f].size = GetTotalMsgLength(frames[f].length)

WireInv ==
    /\ \A i \in DOMAIN wire : wire[i][1] \in DOMAIN frames
    /\ \A f \in DOMAIN frames : InOrder(f)
    /\ \A t \in Writers : Taken(t)
    /\ Truncated
    /\ SentIsOnWire

LEMMA InitWire == Init => WireInv
BY DEF Init, WireInv, InOrder, Positions, Taken, Truncated, SentIsOnWire,
       Writers

\* A step that writes nothing changes no frame's bytes.
LEMMA SameWire ==
    ASSUME wire' = wire
    PROVE  \A f : /\ BytesOnWire(f)' = BytesOnWire(f)
                  /\ InOrder(f)' <=> InOrder(f)
BY DEF BytesOnWire, InOrder, Positions

\* A frame that was just built has no byte on the wire.
LEMMA BuildWire ==
    ASSUME WorkInv, WireInv, NEW t \in Writers, NEW kind \in Kinds,
           NEW length, NEW size, Build(t, kind, length, size),
           kind = "message" => size = GetTotalMsgLength(length)
    PROVE  WireInv'
<1> DEFINE n == Len(frames)
           new == [kind |-> kind, length |-> length, size |-> size,
                   status |-> "none"]
<1>1. /\ frames \in Seq(Frame) /\ n \in Nat /\ DOMAIN frames = 1 .. n
  BY FramesOfType DEF WorkInv
<1>2. frames' = Append(frames, new)
  BY DEF Build
<1>3. /\ \A f \in 1 .. n : frames'[f] = frames[f]
      /\ frames'[n + 1] = new
      /\ DOMAIN frames' = 1 .. n + 1
  BY <1>1, <1>2
<1>4. /\ frame' = [frame EXCEPT ![t] = n + 1]
      /\ written' = [written EXCEPT ![t] = 0]
      /\ pc' = [pc EXCEPT ![t] = "write"]
      /\ wire' = wire /\ pc[t] = "idle"
  BY DEF Build
<1> HIDE DEF n, new
<1>5. Positions(n + 1) = {}
  BY <1>1 DEF Positions, WireInv
<1>6. BytesOnWire(n + 1) = {} /\ InOrder(n + 1)
  BY <1>5 DEF BytesOnWire, InOrder
<1>7. \A u \in Writers : Taken(u)'
  <2> SUFFICES ASSUME NEW u \in Writers PROVE Taken(u)'
    OBVIOUS
  <2>1. CASE u = t
    <3>1. frame'[u] = n + 1 /\ written'[u] = 0
      BY <1>4, <2>1 DEF WorkInv, TypeOK
    <3> QED BY <3>1, <1>4, <1>6, SameWire DEF Taken
  <2>2. CASE u # t
    <3>1. pc'[u] = pc[u] /\ frame'[u] = frame[u] /\ written'[u] = written[u]
      BY <1>4, <2>2 DEF WorkInv, TypeOK
    <3> QED BY <3>1, <1>4, SameWire DEF Taken, WireInv
  <2> QED BY <2>1, <2>2
<1>8. \A i \in DOMAIN wire' : wire'[i][1] \in DOMAIN frames'
  BY <1>1, <1>3, <1>4 DEF WireInv
<1>9. \A f \in DOMAIN frames' : InOrder(f)'
  BY <1>1, <1>3, <1>4, <1>6, SameWire DEF WireInv
<1>10. Truncated'
  <2>1. ASSUME NEW f \in DOMAIN frames', frames'[f].kind = "message"
        PROVE  frames'[f].size = GetTotalMsgLength(frames'[f].length)
    <3>1. CASE f = n + 1
      BY <3>1, <2>1, <1>3 DEF new
    <3>2. CASE f \in 1 .. n
      BY <3>2, <2>1, <1>1, <1>3 DEF WireInv, Truncated
    <3> QED BY <3>1, <3>2, <1>1, <1>3
  <2> QED BY <2>1 DEF Truncated
<1>11. SentIsOnWire'
  <2>1. ASSUME NEW f \in DOMAIN frames', frames'[f].kind = "message",
               frames'[f].status = "CFE_SUCCESS", frames'[f].length < UINT16
        PROVE  /\ BytesOnWire(f)' = 1 .. HDR_SZ + frames'[f].length
               /\ InOrder(f)'
    <3>1. f # n + 1
      BY <2>1, <1>3 DEF new
    <3>2. f \in 1 .. n /\ frames'[f] = frames[f]
      BY <3>1, <1>1, <1>3
    <3> QED BY <3>2, <2>1, <1>1, <1>4, SameWire DEF WireInv, SentIsOnWire
  <2> QED BY <2>1 DEF SentIsOnWire
<1> QED BY <1>7, <1>8, <1>9, <1>10, <1>11 DEF WireInv

\* A success of SendMsg is given to a frame that was written to its end.
LEMMA ReturnWire ==
    ASSUME WorkInv, WireInv, NEW t \in Apps, NEW status,
           pc[t] = "check", Return(t, status),
           frames[frame[t]].kind = "message" /\ status = "CFE_SUCCESS"
              => WroteAll(t)
    PROVE  WireInv'
<1> DEFINE g == frame[t]
<1>1. /\ frames \in Seq(Frame) /\ DOMAIN frames = 1 .. Len(frames)
      /\ \A f \in DOMAIN frames : frames[f] \in Frame
  BY FramesOfType DEF WorkInv
<1>2. /\ t \in Writers /\ g \in DOMAIN frames
  BY DEF WorkInv, AtWork, Writers
<1>3. /\ pc' = [pc EXCEPT ![t] = "idle"]
      /\ frames' = [frames EXCEPT ![g].status = status]
      /\ wire' = wire /\ frame' = frame /\ written' = written
  BY DEF Return
<1>4. /\ DOMAIN frames' = DOMAIN frames
      /\ \A f \in DOMAIN frames : f # g => frames'[f] = frames[f]
      /\ frames'[g].kind = frames[g].kind /\ frames'[g].size = frames[g].size
      /\ frames'[g].length = frames[g].length
      /\ frames'[g].status = status
  BY <1>1, <1>2, <1>3 DEF Frame
<1> HIDE DEF g
<1>5. \A u \in Writers : Taken(u)'
  <2> SUFFICES ASSUME NEW u \in Writers, pc'[u] # "idle" PROVE Taken(u)'
    BY DEF Taken
  <2>1. pc[u] # "idle"
    BY <1>2, <1>3 DEF WorkInv, TypeOK
  <2> QED BY <2>1, <1>3, SameWire DEF Taken, WireInv
<1>6. Truncated'
  BY <1>4 DEF WireInv, Truncated
<1>7. SentIsOnWire'
  <2>1. ASSUME NEW f \in DOMAIN frames', frames'[f].kind = "message",
               frames'[f].status = "CFE_SUCCESS", frames'[f].length < UINT16
        PROVE  /\ BytesOnWire(f)' = 1 .. HDR_SZ + frames'[f].length
               /\ InOrder(f)'
    <3>1. CASE f # g
      BY <3>1, <2>1, <1>3, <1>4, SameWire DEF WireInv, SentIsOnWire
    <3>2. CASE f = g
      <4>1. /\ frames[g].kind = "message" /\ frames[g].length < UINT16
            /\ status = "CFE_SUCCESS"
        BY <3>2, <2>1, <1>4
      <4>2. Left(t) = 0
        BY <4>1 DEF WroteAll, g
      <4>3. frames[g].size = frames[g].length
        <5>1. frames[g].length \in Nat
          BY <1>1, <1>2 DEF Frame
        <5>2. frames[g].length % UINT16 = frames[g].length
          BY <5>1, <4>1, Sizes
        <5> QED BY <5>2, <4>1, <1>2
                DEF WireInv, Truncated, GetTotalMsgLength
      <4>4. frames[g].length \in Nat /\ written[t] \in Nat
        BY <1>1, <1>2 DEF Frame, WorkInv, TypeOK
      <4>5. written[t] = HDR_SZ + frames[g].length
        BY <4>2, <4>3, <4>4, Sizes DEF Left, total_size, g
      <4>6. BytesOnWire(g) = 1 .. written[t]
        BY <1>2 DEF WireInv, Taken, g
      <4>7. InOrder(g)
        BY <1>2 DEF WireInv
      <4> QED BY <3>2, <4>5, <4>6, <4>7, <1>3, <1>4, SameWire
    <3> QED BY <3>1, <3>2
  <2> QED BY <2>1 DEF SentIsOnWire
<1>8. /\ \A i \in DOMAIN wire' : wire'[i][1] \in DOMAIN frames'
      /\ \A f \in DOMAIN frames' : InOrder(f)'
  BY <1>3, <1>4, SameWire DEF WireInv
<1> QED BY <1>5, <1>6, <1>7, <1>8 DEF WireInv

\* write() adds the next bytes of its frame, and none of another.
LEMMA WriteWire ==
    ASSUME WorkInv, WireInv, NEW t \in Writers, Write_Some(t)
    PROVE  WireInv'
<1>0. PICK g, w, l : g = frame[t] /\ w = written[t] /\ l = Len(wire)
  OBVIOUS
<1>1. PICK n \in 1 .. Left(t) :
         /\ wire' = wire \o [k \in 1 .. n |-> <<g, w + k>>]
         /\ written' = [written EXCEPT ![t] = @ + n]
  BY <1>0 DEF Write_Some
<1>2. /\ pc[t] = "write" /\ frames' = frames /\ pc' = pc /\ frame' = frame
  BY DEF Write_Some
<1>3. /\ g \in DOMAIN frames /\ w \in Nat /\ l \in Nat
      /\ total_size(frames[g].size) \in Nat
      /\ frames[g].status = "none"
      /\ DOMAIN wire = 1 .. l
  <2>1. /\ g \in DOMAIN frames /\ w \in Nat /\ frames[g].status = "none"
        /\ wire \in Seq((1 .. MaxFrames) \X (Nat \ {0}))
    BY <1>0, <1>2 DEF WorkInv, TypeOK, AtWork
  <2>2. l \in Nat /\ DOMAIN wire = 1 .. l
    BY <1>0, <2>1
  <2> QED BY <2>1, <2>2, FramesOfType DEF WorkInv
<1>4. n \in Nat \ {0}
  BY <1>0, <1>3 DEF Left
<1>5. /\ DOMAIN wire' = 1 .. l + n
      /\ \A i \in 1 .. l : wire'[i] = wire[i]
      /\ \A k \in 1 .. n : wire'[l + k] = <<g, w + k>>
  <2> DEFINE bytes == [k \in 1 .. n |-> <<g, w + k>>]
             S == (1 .. MaxFrames) \X (Nat \ {0})
  <2>1. wire \in Seq(S)
    BY DEF WorkInv, TypeOK
  <2>2. \A k \in 1 .. n : <<g, w + k>> \in (DOMAIN frames) \X Nat
    BY <1>3, <1>4
  <2> HIDE DEF S
  <2>3. bytes \in Seq((DOMAIN frames) \X Nat) /\ Len(bytes) = n
        /\ \A k \in 1 .. n : bytes[k] = <<g, w + k>>
    BY <2>2, <1>4
  <2>4. wire' = wire \o bytes
    BY <1>0, <1>1
  <2>5. bytes \in Seq(UNION {S, (DOMAIN frames) \X Nat})
        /\ wire \in Seq(UNION {S, (DOMAIN frames) \X Nat})
    BY <2>1, <2>3, SeqMonotonic
  <2> HIDE DEF bytes
  <2>6. /\ Len(wire') = l + n
        /\ \A i \in 1 .. l + n :
              wire'[i] = IF i <= l THEN wire[i] ELSE bytes[i - l]
    <3>1. /\ Len(wire \o bytes) = Len(wire) + Len(bytes)
          /\ \A i \in 1 .. Len(wire) + Len(bytes) :
                (wire \o bytes)[i] = IF i <= Len(wire) THEN wire[i]
                                     ELSE bytes[i - Len(wire)]
      BY <2>5, ConcatProperties
    <3>2. Len(wire) = l /\ Len(bytes) = n
      BY <1>0, <2>3
    <3> QED BY <3>1, <3>2, <2>4
  <2>7. DOMAIN wire' = 1 .. l + n
    <3>1. wire' \in Seq(UNION {S, (DOMAIN frames) \X Nat})
      BY <2>4, <2>5, ConcatProperties
    <3> QED BY <3>1, <2>6, LenProperties
  <2>8. \A i \in 1 .. l : i \in 1 .. l + n /\ i <= l
    BY <1>3, <1>4
  <2>9. \A k \in 1 .. n : /\ l + k \in 1 .. l + n /\ ~(l + k <= l)
                          /\ (l + k) - l = k
    BY <1>3, <1>4
  <2> QED BY <2>3, <2>6, <2>7, <2>8, <2>9
<1>6. \A f : f # g => Positions(f)' = Positions(f)
  <2> SUFFICES ASSUME NEW f, f # g, NEW i
               PROVE  i \in Positions(f)' <=> i \in Positions(f)
    OBVIOUS
  <2>1. i \in 1 .. l + n /\ i \notin 1 .. l => \E k \in 1 .. n : i = l + k
    <3>1. ASSUME i \in 1 .. l + n, i \notin 1 .. l
          PROVE  i - l \in 1 .. n /\ i = l + (i - l)
      BY <3>1, <1>3, <1>4
    <3> QED BY <3>1
  <2>2. i \in 1 .. l => i \in 1 .. l + n
    BY <1>3, <1>4
  <2>3. i \in 1 .. l + n /\ i \notin 1 .. l => wire'[i][1] = g
    BY <2>1, <1>5
  <2> QED BY <2>2, <2>3, <1>3, <1>5 DEF Positions
<1>7. \A f : f # g => BytesOnWire(f)' = BytesOnWire(f)
                      /\ (InOrder(f)' <=> InOrder(f))
  <2> SUFFICES ASSUME NEW f, f # g
               PROVE  BytesOnWire(f)' = BytesOnWire(f)
                      /\ (InOrder(f)' <=> InOrder(f))
    OBVIOUS
  <2>1. Positions(f)' = Positions(f)
    BY <1>6
  <2>2. \A i \in Positions(f) : wire'[i] = wire[i]
    BY <1>3, <1>5 DEF Positions
  <2> QED BY <2>1, <2>2 DEF BytesOnWire, InOrder
<1>8. /\ Positions(g) \subseteq 1 .. l
      /\ Positions(g)' = Positions(g) \cup (l + 1 .. l + n)
      /\ \A i \in Positions(g) : wire'[i] = wire[i]
      /\ \A i \in l + 1 .. l + n : wire'[i] = <<g, w + (i - l)>>
  <2>1. \A i \in l + 1 .. l + n : i - l \in 1 .. n /\ l + (i - l) = i
    BY <1>3, <1>4
  <2>2. \A i \in l + 1 .. l + n : wire'[i] = <<g, w + (i - l)>>
    BY <2>1, <1>5
  <2>3. 1 .. l + n = (1 .. l) \cup (l + 1 .. l + n)
    BY <1>3, <1>4
  <2>4. \A i \in l + 1 .. l + n : wire'[i][1] = g
    BY <2>2
  <2>5. Positions(g) = {i \in 1 .. l : wire[i][1] = g}
    BY <1>3 DEF Positions
  <2>6. Positions(g)' = {i \in (1 .. l) \cup (l + 1 .. l + n) :
                            wire'[i][1] = g}
    BY <2>3, <1>5 DEF Positions
  <2>7. \A i \in 1 .. l : wire'[i] = wire[i]
    BY <1>5
  <2>8. Positions(g) \subseteq 1 .. l
    BY <2>5
  <2>9. Positions(g)' = Positions(g) \cup (l + 1 .. l + n)
    <3> SUFFICES ASSUME NEW i
                 PROVE  i \in Positions(g)'
                        <=> i \in Positions(g) \/ i \in l + 1 .. l + n
      OBVIOUS
    <3>1. i \in Positions(g)'
          <=> (i \in 1 .. l \/ i \in l + 1 .. l + n) /\ wire'[i][1] = g
      BY <2>6
    <3>2. i \in Positions(g) <=> i \in 1 .. l /\ wire[i][1] = g
      BY <2>5
    <3> QED BY <3>1, <3>2, <2>4, <2>7
  <2>10. \A i \in Positions(g) : wire'[i] = wire[i]
    BY <2>7, <2>8
  <2> QED BY <2>2, <2>8, <2>9, <2>10
<1>9. BytesOnWire(g) = 1 .. w /\ InOrder(g)
  BY <1>0, <1>2, <1>3 DEF WireInv, Taken
<1>10. BytesOnWire(g)' = 1 .. w + n
  <2>1. {wire'[i][2] : i \in Positions(g)} = 1 .. w
    BY <1>8, <1>9 DEF BytesOnWire
  <2>2. {wire'[i][2] : i \in l + 1 .. l + n} = w + 1 .. w + n
    <3>1. \A i \in l + 1 .. l + n :
             wire'[i][2] = w + (i - l) /\ w + (i - l) \in w + 1 .. w + n
      <4>1. \A i \in l + 1 .. l + n : w + (i - l) \in w + 1 .. w + n
        BY <1>3, <1>4
      <4> QED BY <4>1, <1>8
    <3>2. \A k \in w + 1 .. w + n :
             /\ l + (k - w) \in l + 1 .. l + n
             /\ w + ((l + (k - w)) - l) = k
      BY <1>3, <1>4
    <3> QED BY <3>1, <3>2
  <2>3. BytesOnWire(g)' = {wire'[i][2] : i \in Positions(g)}
                             \cup {wire'[i][2] : i \in l + 1 .. l + n}
    BY <1>8 DEF BytesOnWire
  <2>4. 1 .. w + n = (1 .. w) \cup (w + 1 .. w + n)
    BY <1>3, <1>4
  <2> QED BY <2>1, <2>2, <2>3, <2>4
<1>11. InOrder(g)'
  <2> SUFFICES ASSUME NEW i \in Positions(g)', NEW j \in Positions(g)', i < j
               PROVE  wire'[i][2] < wire'[j][2]
    BY DEF InOrder
  <2>1. CASE j \in Positions(g)
    <3>1. i \in Positions(g)
      BY <2>1, <1>3, <1>4, <1>8
    <3> QED BY <2>1, <3>1, <1>8, <1>9 DEF InOrder
  <2>2. CASE j \in l + 1 .. l + n
    <3>1. wire'[j][2] = w + (j - l)
      BY <2>2, <1>8
    <3>2. CASE i \in Positions(g)
      <4>1. wire'[i][2] \in 1 .. w
        BY <3>2, <1>8, <1>9 DEF BytesOnWire
      <4>2. wire'[j][2] > w
        BY <3>1, <2>2, <1>3, <1>4
      <4> QED BY <4>1, <4>2, <3>1, <2>2, <1>3, <1>4
    <3>3. CASE i \in l + 1 .. l + n
      <4>1. wire'[i][2] = w + (i - l)
        BY <3>3, <1>8
      <4> QED BY <4>1, <3>1, <2>2, <3>3, <1>3, <1>4
    <3> QED BY <3>2, <3>3, <1>8
  <2> QED BY <2>1, <2>2, <1>8
<1>12. \A u \in Writers : Taken(u)'
  <2> SUFFICES ASSUME NEW u \in Writers, pc[u] # "idle" PROVE Taken(u)'
    BY <1>2 DEF Taken
  <2>1. CASE u = t
    <3>1. written'[t] = w + n
      BY <1>0, <1>1 DEF WorkInv, TypeOK
    <3> QED BY <2>1, <3>1, <1>0, <1>2, <1>10 DEF Taken
  <2>2. CASE u # t
    <3>1. frame[u] # g
      BY <2>2, <1>0, <1>2 DEF WorkInv, OwnFrames
    <3>2. written'[u] = written[u]
      BY <2>2, <1>1 DEF WorkInv, TypeOK
    <3> QED BY <3>1, <3>2, <1>2, <1>7 DEF WireInv, Taken
  <2> QED BY <2>1, <2>2
<1>13. \A i \in DOMAIN wire' : wire'[i][1] \in DOMAIN frames'
  <2>1. \A i \in 1 .. l + n : i \in 1 .. l \/ i \in l + 1 .. l + n
    BY <1>3, <1>4
  <2>2. \A i \in 1 .. l : wire'[i][1] \in DOMAIN frames
    BY <1>3, <1>5 DEF WireInv
  <2>3. \A i \in l + 1 .. l + n : wire'[i][1] = g
    BY <1>8
  <2> QED BY <2>1, <2>2, <2>3, <1>2, <1>3, <1>5
<1>14. \A f \in DOMAIN frames' : InOrder(f)'
  <2> SUFFICES ASSUME NEW f \in DOMAIN frames' PROVE InOrder(f)'
    OBVIOUS
  <2>1. CASE f = g
    BY <2>1, <1>11
  <2>2. CASE f # g
    BY <2>2, <1>2, <1>7 DEF WireInv
  <2> QED BY <2>1, <2>2
<1>15. SentIsOnWire'
  BY <1>2, <1>3, <1>7 DEF WireInv, SentIsOnWire
<1>16. Truncated'
  BY <1>2 DEF WireInv, Truncated
<1> QED BY <1>12, <1>13, <1>14, <1>15, <1>16 DEF WireInv

LEMMA StepWire == WorkInv /\ WireInv /\ [Next]_vars => WireInv'
<1> SUFFICES ASSUME WorkInv, WireInv, [Next]_vars PROVE WireInv'
  OBVIOUS
<1>1. ASSUME UNCHANGED <<frames, wire, frame, written>>,
             \A u \in Writers : pc'[u] # "idle" => pc[u] # "idle"
      PROVE  WireInv'
  BY <1>1, SameWire DEF WireInv, Taken, Truncated, SentIsOnWire
<1>2. ASSUME NEW t \in Apps, NEW length \in Lengths, SendMsg_Call(t, length)
      PROVE  WireInv'
  <2>1. CASE UNCHANGED <<frames, wire, pc, frame, written>>
    BY <2>1, <1>1
  <2>2. CASE Build(t, "message", length, GetTotalMsgLength(length))
    <3>1. t \in Writers /\ "message" \in Kinds
      BY DEF Writers, Kinds
    <3> QED BY <2>2, <3>1, BuildWire
  <2> QED BY <1>2, <2>1, <2>2 DEF SendMsg_Call
<1>3. ASSUME NEW t \in Apps, SendSubToSbn_Call(t)
      PROVE  WireInv'
  <2>1. t \in Writers /\ "subscription" \in Kinds
    BY DEF Writers, Kinds
  <2> QED BY <2>1, <1>3, BuildWire DEF SendSubToSbn_Call
<1>4. CASE send_heartbeat_Call
  <2>1. Heart \in Writers /\ "heartbeat" \in Kinds
    BY DEF Writers, Kinds
  <2> QED BY <2>1, <1>4, BuildWire DEF send_heartbeat_Call
<1>5. ASSUME NEW t \in Writers, Write_Some(t)
      PROVE  WireInv'
  BY <1>5, WriteWire
<1>6. ASSUME NEW t \in Writers, Write_Returns(t)
      PROVE  WireInv'
  <2>1. \A u \in Writers : pc'[u] # "idle" => pc[u] # "idle"
    BY <1>6 DEF Write_Returns, WorkInv, TypeOK
  <2> QED BY <2>1, <1>1, <1>6 DEF Write_Returns
<1>7. ASSUME NEW t \in Apps, SendMsg_Return(t)
      PROVE  WireInv'
  <2>1. pc[t] = "check"
    BY <1>7 DEF SendMsg_Return, Back
  <2>2. CASE WroteAll(t) /\ Return(t, "CFE_SUCCESS")
    BY <2>1, <2>2, ReturnWire
  <2>3. CASE Return(t, "CFE_SB_BUF_ALOC_ERR")
    BY <2>1, <2>3, ReturnWire
  <2> QED BY <1>7, <2>2, <2>3 DEF SendMsg_Return
<1>8. ASSUME NEW t \in Apps, Subscribe_Return(t)
      PROVE  WireInv'
  <2>1. /\ pc[t] = "check" /\ frames[frame[t]].kind # "message"
        /\ Return(t, "CFE_SUCCESS")
    BY <1>8 DEF Subscribe_Return, Back
  <2> QED BY <2>1, ReturnWire
<1>9. CASE Heartbeat_Return
  <2>1. \A u \in Writers : pc'[u] # "idle" => pc[u] # "idle"
    BY <1>9 DEF Heartbeat_Return, WorkInv, TypeOK
  <2> QED BY <2>1, <1>1, <1>9 DEF Heartbeat_Return
<1>10. CASE UNCHANGED vars
  BY <1>10, <1>1 DEF vars
<1> QED BY <1>2, <1>3, <1>4, <1>5, <1>6, <1>7, <1>8, <1>9, <1>10 DEF Next

\* For any number of threads that write to the one socket, however write()
\* cuts and mixes their frames: a success of SendMsg means that every byte of
\* the message has been written, once and in order.
THEOREM SuccessIsOnWire == Spec => []SentIsOnWire
<1>1. WireInv => SentIsOnWire
  BY DEF WireInv
<1> QED BY <1>1, AlwaysWork, InitWire, StepWire, PTL DEF Spec
=============================================================================
