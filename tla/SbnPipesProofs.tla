--------------------------- MODULE SbnPipesProofs ---------------------------
(***************************************************************************)
(* Theorems about SbnPipes, for every number of threads, pipes, slots and  *)
(* messages.  First the table is well typed, then the ring of a pipe the   *)
(* two races have not reached stays in range and keeps the message last    *)
(* handed out, and last no wake-up is lost when the application has one    *)
(* thread.                                                                 *)
(***************************************************************************)
EXTENDS SbnPipes, WellFoundedInduction, TLAPS

-----------------------------------------------------------------------------
(* Arithmetic and searches                                                 *)

\* A remainder by a positive modulus is one of its residues.
LEMMA ModInRange ==
    ASSUME NEW a \in Int, NEW b \in Nat \ {0}
    PROVE  a % b \in 0 .. b - 1
OBVIOUS

\* A number below the modulus is its own remainder.
LEMMA ModBelow ==
    ASSUME NEW a \in Nat, NEW b \in Nat \ {0}, a < b
    PROVE  a % b = a
OBVIOUS

\* A number between the modulus and twice it: the modulus comes off once.
LEMMA ModOnce ==
    ASSUME NEW a \in Nat, NEW b \in Nat \ {0}, b <= a, a < 2 * b
    PROVE  a % b = a - b
OBVIOUS

\* The order of the naturals is well founded.
LEMMA NatOrder ==
    \E R : /\ IsWellFoundedOn(R, Nat)
           /\ \A a, b \in Nat : a < b => <<a, b>> \in R
<1>1. \A a, b \in Nat : a < b => <<a, b>> \in OpToRel(<, Nat)
  BY DEF OpToRel
<1> QED BY <1>1, NatLessThanWellFounded, Zenon

\* In a well founded order every non-empty set has a member with none below.
LEMMA NoneBelow ==
    ASSUME NEW N, NEW R, IsWellFoundedOn(R, N), NEW S, S \subseteq N, S # {}
    PROVE  \E x \in S : \A y \in S : ~ (<<y, x>> \in R)
BY WFMin, Zenon

\* Every non-empty set of naturals has a least element.
LEMMA NatMinimum ==
    ASSUME NEW S, S \subseteq Nat, S # {}
    PROVE  \E x \in S : \A y \in S : x <= y
<1>1. PICK R : /\ IsWellFoundedOn(R, Nat)
               /\ \A a, b \in Nat : a < b => <<a, b>> \in R
  BY NatOrder, Zenon
<1>2. \E x \in S : \A y \in S : ~ (<<y, x>> \in R)
  BY <1>1, NoneBelow, Zenon
<1>3. PICK x \in S : \A y \in S : ~ (<<y, x>> \in R)
  BY <1>2, Zenon
<1>4. ASSUME NEW y \in S PROVE x <= y
  <2>1. x \in Nat /\ y \in Nat
    OBVIOUS
  <2>2. ~ (y < x)
    BY <1>1, <1>3, <2>1, Zenon
  <2> QED BY <2>1, <2>2
<1> QED BY <1>4

\* First, the shape of every loop over the table, returns a member of the
\* set it searches, or the value for "none".
LEMMA FirstIsMember ==
    ASSUME NEW S, S \subseteq Nat, NEW none
    PROVE  First(S, none) = none \/ First(S, none) \in S
<1>1. CASE S = {}
  BY <1>1 DEF First
<1>2. CASE S # {}
  <2>1. \E i \in S : \A j \in S : i <= j
    BY <1>2, NatMinimum
  <2> QED BY <1>2, <2>1 DEF First
<1> QED BY <1>1, <1>2

\* 2^32 and the depth of a pipe are positive.
LEMMA SizesTyped ==
    /\ MAX_PIPES \in Nat \ {0}
    /\ MAX_PIPE_DEPTH \in Nat \ {0}
    /\ MAX_MSG_IDS_PER_PIPE \in Nat \ {0}
    /\ UINT32 \in Nat \ {0}
    /\ 2 * MAX_PIPE_DEPTH <= UINT32
BY SizesAssumption

-----------------------------------------------------------------------------
(* What the searches return                                                *)

\* GetPipeIdx returns the index of a pipe, or INVALID_PIPE.
LEMMA GetPipeIdxType ==
    ASSUME NEW id \in Pipes
    PROVE  GetPipeIdx(id) \in Pipes \cup {INVALID_PIPE}
<1>1. Pipes \subseteq Nat
  BY SizesTyped DEF Pipes
<1>2. First({p \in Pipes : PipeId[p] = id /\ InUse[p]}, INVALID_PIPE)
        \in Pipes \cup {INVALID_PIPE}
  BY <1>1, FirstIsMember
<1> QED BY <1>2 DEF GetPipeIdx

\* GetMessageSubscribeIndex returns a slot of the pipe, or none.
LEMMA SubscribeIndexType ==
    ASSUME NEW p
    PROVE  GetMessageSubscribeIndex(p) \in SubSlots \cup {MAX_MSG_IDS_MET}
<1>1. SubSlots \subseteq Nat
  BY SizesTyped DEF SubSlots
<1> QED BY <1>1, FirstIsMember DEF GetMessageSubscribeIndex

\* The scan of ingest_app_message ends at a pipe, or at none.
LEMMA DestinationType ==
    Destination = INVALID_PIPE \/ Destination \in Pipes
<1>1. Pipes \subseteq Nat
  BY SizesTyped DEF Pipes
<1> QED BY <1>1, FirstIsMember DEF Destination

\* message_entry_point returns a slot of the ring, whatever the count.
LEMMA EntryPointType ==
    ASSUME TypeOK, NEW p \in Pipes
    PROVE  message_entry_point(p) \in Slots
<1>1. ReadMessage[p] + NumberOfMessages[p] \in Int
  BY SizesTyped DEF TypeOK, Slots, Counts
<1>2. (ReadMessage[p] + NumberOfMessages[p]) % UINT32 \in Int
  BY <1>1, SizesTyped, ModInRange
<1> QED BY <1>2, SizesTyped, ModInRange DEF message_entry_point, Slots

\* The constants that mean "none" are where TypeOK has a place for them.
LEMMA Values ==
    /\ 0 \in Counts /\ 1 \in Counts
    /\ MAX_PIPE_DEPTH - 1 \in Slots
    /\ Counts \subseteq Int /\ Slots \subseteq Int
    /\ Pipes \subseteq Nat
    /\ \A k \in Int : k % UINT32 \in Counts
    /\ \A k \in Int : k % MAX_PIPE_DEPTH \in Slots
<1>1. 2 <= UINT32
  BY SizesTyped
<1> QED BY <1>1, SizesTyped, ModInRange DEF Counts, Slots, Pipes

\* Writes to the fields of PipeTbl keep their types.
LEMMA RingFields ==
    ASSUME TypeOK, NEW p \in Pipes
    PROVE  /\ NumberOfMessages[p] \in Counts
           /\ ReadMessage[p] \in Slots
           /\ (ReadMessage[p] + 1) % MAX_PIPE_DEPTH \in Slots
<1>1. NumberOfMessages[p] \in Counts /\ ReadMessage[p] \in Slots
  BY DEF TypeOK
<1>2. ReadMessage[p] + 1 \in Int
  BY <1>1, SizesTyped DEF Slots
<1> QED BY <1>1, <1>2, Values

\* A count plus or minus one, modulo UINT32, is a count.
LEMMA LoadedCounts ==
    ASSUME TypeOK, NEW t \in Threads
    PROVE  /\ (loaded_count[t] - 1) % UINT32 \in Counts
           /\ (loaded_count[t] + 1) % UINT32 \in Counts
<1>1. loaded_count[t] - 1 \in Int /\ loaded_count[t] + 1 \in Int
  BY SizesTyped DEF TypeOK, Counts
<1> QED BY <1>1, Values

-----------------------------------------------------------------------------
(* Typing.  First the three ways the steps of a call have in common: it    *)
(* starts to work on a pipe, it moves on, or it returns.                   *)

\* The shared state, and the buffer handed out, are typed.
FieldsTyped ==
    /\ InUse \in [Pipes -> BOOLEAN]
    /\ PipeId \in [Pipes -> Pipes \cup {INVALID_PIPE}]
    /\ NumberOfMessages \in [Pipes -> Counts]
    /\ ReadMessage \in [Pipes -> Slots]
    /\ Messages \in [Pipes -> [Slots -> Msgs \cup {NoMsg}]]
    /\ SubscribedMsgIds
          \in [Pipes -> [SubSlots -> MsgIds \cup {INVALID_MSG_ID}]]
    /\ receive_mutex \in Threads \cup {None}
    /\ BufPtr \in [Apps -> (Pipes \X Slots) \cup {None}]
    /\ sbn_subs \subseteq MsgIds

\* A step that writes none of them leaves them typed.
LEMMA FieldsKept ==
    ASSUME TypeOK,
           UNCHANGED <<ring, table, receive_mutex, BufPtr, sbn_subs>>
    PROVE  FieldsTyped'
BY DEF TypeOK, FieldsTyped, ring, table

\* Where one thread goes, the others stay.
LEMMA GotoMoves ==
    ASSUME TypeOK, NEW t \in Threads, NEW l, Goto(t, l)
    PROVE  /\ DOMAIN pc' = Threads
           /\ pc'[t] = l
           /\ \A u \in Threads \ {t} : pc'[u] = pc[u]
           /\ l \in AppPcs \cup MinderPcs
                 => pc' \in [Threads -> AppPcs \cup MinderPcs]
BY DEF TypeOK, Goto

\* The history of races holds pipes only.
LEMMA TaintedTyped ==
    ASSUME TypeOK, RecordRaces
    PROVE  tainted' \subseteq Pipes
BY DEF TypeOK, RecordRaces, Raced

\* A call that returns leaves its locals cleared and typed.
LEMMA ReturnTyped ==
    ASSUME TypeOK, Placement, NEW t \in Apps, NEW status \in Statuses,
           Return(t, status), RecordRaces, FieldsTyped',
           msg_buffer' = msg_buffer
    PROVE  TypeOK' /\ Placement'
<1>1. t \in Threads /\ t # Minder /\ Goto(t, "idle")
      /\ "idle" \in AppPcs
  BY ThreadsAssumption DEF Return, Threads, AppPcs
<1>2. /\ pc'[t] = "idle" /\ \A u \in Threads \ {t} : pc'[u] = pc[u]
      /\ pc' \in [Threads -> AppPcs \cup MinderPcs]
  BY <1>1, GotoMoves
<1>3. /\ pipe_idx' = [pipe_idx EXCEPT ![t] = INVALID_PIPE]
      /\ loaded_count' = [loaded_count EXCEPT ![t] = 0]
      /\ MsgId' = [MsgId EXCEPT ![t] = INVALID_MSG_ID]
      /\ MsgIdIdx' = [MsgIdIdx EXCEPT ![t] = MAX_MSG_IDS_MET]
      /\ TimeOut' = [TimeOut EXCEPT ![t] = None]
      /\ ret' = [ret EXCEPT ![t] = status]
  BY DEF Return, ForgetLocals
<1>4. TypeOK'
  <2>1. /\ pipe_idx' \in [Threads -> Pipes \cup {INVALID_PIPE}]
        /\ loaded_count' \in [Threads -> Counts]
        /\ MsgId' \in [Apps -> MsgIds \cup {INVALID_MSG_ID}]
        /\ MsgIdIdx' \in [Apps -> SubSlots \cup {MAX_MSG_IDS_MET}]
        /\ TimeOut' \in [Apps -> TimeOuts \cup {None}]
        /\ ret' \in [Apps -> Statuses]
    BY <1>3, Values DEF TypeOK
  <2>2. pc'[Minder] \in MinderPcs /\ \A u \in Apps : pc'[u] \in AppPcs
    BY <1>1, <1>2 DEF TypeOK, Threads
  <2> QED BY <1>2, <2>1, <2>2, TaintedTyped DEF TypeOK, FieldsTyped
<1>5. Placement'
  <2>1. \A u \in Threads \ {t} : pipe_idx'[u] = pipe_idx[u]
    BY <1>3 DEF TypeOK
  <2>2. \A u \in Apps \ {t} : /\ MsgId'[u] = MsgId[u]
                              /\ MsgIdIdx'[u] = MsgIdIdx[u]
    BY <1>3 DEF TypeOK
  <2> QED BY <1>1, <1>2, <2>1, <2>2 DEF Placement, Threads
<1> QED BY <1>4, <1>5

\* A call that has begun has a pipe of the table to work on.
LEMMA EnterTyped ==
    ASSUME TypeOK, Placement, NEW t \in Apps, NEW p \in Pipes,
           NEW l \in {"create_claim", "del_inuse", "rcv_lock", "sub_store"},
           Enter(t, l, p), RecordRaces, FieldsTyped',
           UNCHANGED <<loaded_count, msg_buffer>>,
           MsgId' \in [Apps -> MsgIds \cup {INVALID_MSG_ID}],
           MsgIdIdx' \in [Apps -> SubSlots \cup {MAX_MSG_IDS_MET}],
           TimeOut' \in [Apps -> TimeOuts \cup {None}],
           \A u \in Apps \ {t} : MsgId'[u] = MsgId[u]
                                 /\ MsgIdIdx'[u] = MsgIdIdx[u],
           l = "sub_store" => MsgId'[t] \in MsgIds /\ MsgIdIdx'[t] \in SubSlots
    PROVE  TypeOK' /\ Placement'
<1>1. t \in Threads /\ t # Minder /\ Goto(t, l) /\ l \in AppPcs
  BY ThreadsAssumption DEF Enter, Threads, AppPcs, DeletePcs
<1>2. /\ pc'[t] = l /\ \A u \in Threads \ {t} : pc'[u] = pc[u]
      /\ pc' \in [Threads -> AppPcs \cup MinderPcs]
  BY <1>1, GotoMoves
<1>3. /\ pipe_idx' = [pipe_idx EXCEPT ![t] = p]
      /\ ret' = [ret EXCEPT ![t] = "none"]
  BY DEF Enter
<1>4. TypeOK'
  <2>1. /\ pipe_idx' \in [Threads -> Pipes \cup {INVALID_PIPE}]
        /\ ret' \in [Apps -> Statuses]
    BY <1>3 DEF TypeOK, Statuses
  <2>2. pc'[Minder] \in MinderPcs /\ \A u \in Apps : pc'[u] \in AppPcs
    BY <1>1, <1>2 DEF TypeOK, Threads
  <2> QED BY <1>2, <2>1, <2>2, TaintedTyped DEF TypeOK, FieldsTyped
<1>5. Placement'
  <2>1. pipe_idx'[t] = p /\ \A u \in Threads \ {t} : pipe_idx'[u] = pipe_idx[u]
    BY <1>1, <1>3 DEF TypeOK
  <2>2. /\ l \notin {"sub_send"}
        /\ pc'[Minder] = pc[Minder] /\ msg_buffer' = msg_buffer
    BY <1>1, <1>2 DEF Threads
  <2> QED BY <1>1, <1>2, <2>1, <2>2 DEF Placement, Threads
<1> QED BY <1>4, <1>5

\* The calls, and the steps before a ring is touched, keep the types.
LEMMA CallTyped ==
    ASSUME TypeOK, Placement, NEW t \in Apps, AppCall(t)
    PROVE  TypeOK' /\ Placement'
<1> USE DEF Statuses
<1>0. FieldsTyped' /\ msg_buffer' = msg_buffer /\ RecordRaces
  <2>1. /\ UNCHANGED <<ring, table, receive_mutex, BufPtr, external>>
        /\ RecordRaces
    BY DEF AppCall, CreatePipe_Call, DeletePipe_Call, Subscribe_Call,
           UnimplementedCall, RcvMsg_Call
  <2>2. UNCHANGED <<sbn_subs, msg_buffer>>
    BY <2>1 DEF external
  <2> QED BY <2>1, <2>2, FieldsKept
<1>1. ASSUME NEW Depth, CreatePipe_Call(t, Depth)
      PROVE  TypeOK' /\ Placement'
  <2> DEFINE i == First({p \in Pipes : ~InUse[p]}, INVALID_PIPE)
  <2>1. i = INVALID_PIPE \/ i \in Pipes
    <3>1. {p \in Pipes : ~InUse[p]} \subseteq Nat
      BY Values
    <3> QED BY <3>1, FirstIsMember
  <2> HIDE DEF i
  <2>2. CASE Return(t, "CFE_SB_BAD_ARGUMENT") \/ Return(t, "MAX_PIPES_MET")
    BY <1>0, <2>2, ReturnTyped
  <2>3. CASE i # INVALID_PIPE /\ Enter(t, "create_claim", i)
             /\ UNCHANGED locals
    BY <1>0, <2>1, <2>3, EnterTyped DEF locals, TypeOK
  <2> QED BY <1>1, <2>2, <2>3 DEF CreatePipe_Call, i
<1>2. ASSUME NEW id, DeletePipe_Call(t, id)
      PROVE  TypeOK' /\ Placement'
  <2> DEFINE i == First({p \in Pipes : PipeId[p] = id}, INVALID_PIPE)
  <2>1. i = INVALID_PIPE \/ i \in Pipes
    <3>1. {p \in Pipes : PipeId[p] = id} \subseteq Nat
      BY Values
    <3> QED BY <3>1, FirstIsMember
  <2> HIDE DEF i
  <2>2. CASE Return(t, "-1") \/ Return(t, "-2")
    BY <1>0, <2>2, ReturnTyped
  <2>3. CASE i # INVALID_PIPE /\ Enter(t, "del_inuse", i)
             /\ UNCHANGED locals
    BY <1>0, <2>1, <2>3, EnterTyped DEF locals, TypeOK
  <2> QED BY <1>2, <2>2, <2>3 DEF DeletePipe_Call, i
<1>3. ASSUME NEW id \in Pipes, NEW msgid \in MsgIds,
             Subscribe_Call(t, id, msgid)
      PROVE  TypeOK' /\ Placement'
  <2> DEFINE p == GetPipeIdx(id)
             j == GetMessageSubscribeIndex(id)
  <2>1. /\ p = INVALID_PIPE \/ p \in Pipes
        /\ j = MAX_MSG_IDS_MET \/ j \in SubSlots
    BY GetPipeIdxType, SubscribeIndexType
  <2> HIDE DEF p, j
  <2>2. CASE Return(t, "CFE_SB_BAD_ARGUMENT")
    BY <1>0, <2>2, ReturnTyped
  <2>3. CASE /\ p # INVALID_PIPE /\ j # MAX_MSG_IDS_MET
             /\ Enter(t, "sub_store", p)
             /\ MsgId' = [MsgId EXCEPT ![t] = msgid]
             /\ MsgIdIdx' = [MsgIdIdx EXCEPT ![t] = j]
             /\ UNCHANGED <<loaded_count, TimeOut>>
    <3>1. /\ MsgId' \in [Apps -> MsgIds \cup {INVALID_MSG_ID}]
          /\ MsgIdIdx' \in [Apps -> SubSlots \cup {MAX_MSG_IDS_MET}]
          /\ TimeOut' \in [Apps -> TimeOuts \cup {None}]
          /\ \A u \in Apps \ {t} : MsgId'[u] = MsgId[u]
                                   /\ MsgIdIdx'[u] = MsgIdIdx[u]
          /\ MsgId'[t] \in MsgIds /\ MsgIdIdx'[t] \in SubSlots
      BY <2>1, <2>3 DEF TypeOK
    <3> QED BY <1>0, <2>1, <2>3, <3>1, EnterTyped
  <2> QED BY <1>3, <2>2, <2>3 DEF Subscribe_Call, p, j
<1>4. ASSUME NEW id \in Pipes, NEW timeout \in TimeOuts,
             RcvMsg_Call(t, id, timeout)
      PROVE  TypeOK' /\ Placement'
  <2> DEFINE p == GetPipeIdx(id)
  <2>1. p = INVALID_PIPE \/ p \in Pipes
    BY GetPipeIdxType
  <2> HIDE DEF p
  <2>2. CASE Return(t, "CFE_SB_BAD_ARGUMENT")
    BY <1>0, <2>2, ReturnTyped
  <2>3. CASE /\ p # INVALID_PIPE
             /\ Enter(t, "rcv_lock", p)
             /\ TimeOut' = [TimeOut EXCEPT ![t] = timeout]
             /\ UNCHANGED <<loaded_count, MsgId, MsgIdIdx>>
    <3>1. TimeOut' \in [Apps -> TimeOuts \cup {None}]
      BY <2>3 DEF TypeOK
    <3> QED BY <1>0, <2>1, <2>3, <3>1, EnterTyped DEF TypeOK
  <2> QED BY <1>4, <2>2, <2>3 DEF RcvMsg_Call, p
<1>5. ASSUME UnimplementedCall(t)
      PROVE  TypeOK' /\ Placement'
  BY <1>0, <1>5, ReturnTyped DEF UnimplementedCall
<1> QED BY <1>1, <1>2, <1>3, <1>4, <1>5 DEF AppCall

\* A step that moves a thread on within its call.
LEMMA MoveTyped ==
    ASSUME TypeOK, Placement, NEW t \in Apps, NEW l \in AppPcs,
           pc[t] # "idle", l # "sub_store",
           l = "sub_send" => pc[t] = "sub_store",
           Goto(t, l), RecordRaces, FieldsTyped',
           ret' \in [Apps -> Statuses],
           loaded_count' \in [Threads -> Counts],
           UNCHANGED <<pipe_idx, MsgId, MsgIdIdx, TimeOut, msg_buffer>>
    PROVE  TypeOK' /\ Placement'
<1>1. t \in Threads /\ t # Minder
  BY ThreadsAssumption DEF Threads
<1>2. /\ pc'[t] = l /\ \A u \in Threads \ {t} : pc'[u] = pc[u]
      /\ pc' \in [Threads -> AppPcs \cup MinderPcs]
  BY <1>1, GotoMoves
<1>3. TypeOK'
  <2>1. pc'[Minder] \in MinderPcs /\ \A u \in Apps : pc'[u] \in AppPcs
    BY <1>1, <1>2 DEF TypeOK, Threads
  <2> QED BY <1>2, <2>1, TaintedTyped DEF TypeOK, FieldsTyped
<1>4. pipe_idx[t] \in Pipes
  <2>1. pc[t] # "ing_lock"
    BY DEF TypeOK, AppPcs, DeletePcs, TakePcs
  <2> QED BY <1>1, <2>1 DEF Placement
<1>5. Placement'
  <2>1. \A u \in Threads :
           pc'[u] \notin {"idle", "ing_lock"} => pipe_idx'[u] \in Pipes
    BY <1>2, <1>4 DEF Placement
  <2>2. \A u \in Apps :
           /\ pc'[u] \in {"sub_store", "sub_send"} => MsgId'[u] \in MsgIds
           /\ pc'[u] = "sub_store" => MsgIdIdx'[u] \in SubSlots
    BY <1>2 DEF Placement, Threads
  <2>3. pc'[Minder] \in {"ing_lock"} \cup StorePcs => msg_buffer' \in Msgs
    BY <1>1, <1>2 DEF Placement, Threads
  <2> QED BY <2>1, <2>2, <2>3 DEF Placement
<1> QED BY <1>3, <1>5

\* A call under way is at a step after the first, on a pipe of the table.
LEMMA UnderWay ==
    ASSUME TypeOK, Placement, NEW t \in Apps, pc[t] # "idle"
    PROVE  t \in Threads /\ pipe_idx[t] \in Pipes
<1>1. t \in Threads /\ pc[t] # "ing_lock"
  BY DEF TypeOK, Threads, AppPcs, DeletePcs, TakePcs
<1> QED BY <1>1 DEF Placement

\* Each later step of a call keeps the types.
LEMMA StepTyped ==
    ASSUME TypeOK, Placement, NEW t \in Apps, AppStep(t) \/ AppFault(t)
    PROVE  TypeOK' /\ Placement'
<1> DEFINE p == pipe_idx[t]
<1> USE DEF At
<1>1. CASE CreatePipe_Claim(t) \/ DeletePipe_InUse(t) \/ DeletePipe_Id(t)
           \/ DeletePipe_Count(t) \/ DeletePipe_Read(t)
  <2>1. pc[t] # "idle" /\ RecordRaces
        /\ UNCHANGED <<pipe_idx, locals, outcome, external, receive_mutex>>
        /\ \E l \in {"create_id", "del_id", "del_count", "del_read",
                      "del_subs"} : Goto(t, l)
    BY <1>1 DEF CreatePipe_Claim, DeletePipe_InUse, DeletePipe_Id,
                DeletePipe_Count, DeletePipe_Read
  <2>2. FieldsTyped'
    <3>1. CASE CreatePipe_Claim(t) \/ DeletePipe_InUse(t)
      BY <2>1, <3>1, UnderWay DEF CreatePipe_Claim, DeletePipe_InUse, TypeOK,
                                  FieldsTyped, ring, outcome, external
    <3>2. CASE DeletePipe_Id(t)
      BY <2>1, <3>2, UnderWay DEF DeletePipe_Id, TypeOK, FieldsTyped, ring,
                                  outcome, external
    <3>3. CASE DeletePipe_Count(t) \/ DeletePipe_Read(t)
      BY <2>1, <3>3, UnderWay, Values
         DEF DeletePipe_Count, DeletePipe_Read, TypeOK, FieldsTyped, ring,
             table, outcome, external
    <3> QED BY <1>1, <3>1, <3>2, <3>3
  <2>3. /\ ret' \in [Apps -> Statuses] /\ loaded_count' \in [Threads -> Counts]
        /\ UNCHANGED <<MsgId, MsgIdIdx, TimeOut, msg_buffer>>
    BY <2>1 DEF TypeOK, locals, outcome, external
  <2> QED BY <2>1, <2>2, <2>3, MoveTyped DEF AppPcs, DeletePcs
<1>2. CASE CreatePipe_Id(t)
  <2>1. FieldsTyped'
    BY <1>2, UnderWay DEF CreatePipe_Id, TypeOK, FieldsTyped, ring, external
  <2> QED BY <1>2, <2>1, ReturnTyped DEF CreatePipe_Id, external, Statuses
<1>3. CASE DeletePipe_Subs(t)
  <2>1. FieldsTyped'
    BY <1>3, UnderWay DEF DeletePipe_Subs, TypeOK, FieldsTyped, ring, external
  <2> QED BY <1>3, <2>1, ReturnTyped DEF DeletePipe_Subs, external, Statuses
<1>4. CASE Subscribe_Store(t)
  <2>1. MsgId[t] \in MsgIds /\ MsgIdIdx[t] \in SubSlots /\ p \in Pipes
    BY <1>4, UnderWay DEF Subscribe_Store, Placement
  <2>2. FieldsTyped'
    BY <1>4, <2>1 DEF Subscribe_Store, TypeOK, FieldsTyped, ring, outcome,
                      external
  <2>3. /\ ret' \in [Apps -> Statuses] /\ loaded_count' \in [Threads -> Counts]
        /\ UNCHANGED <<pipe_idx, MsgId, MsgIdIdx, TimeOut, msg_buffer>>
    BY <1>4 DEF Subscribe_Store, TypeOK, locals, outcome, external
  <2> QED BY <1>4, <2>2, <2>3, MoveTyped DEF Subscribe_Store, AppPcs
<1>5. CASE Subscribe_Send(t)
  <2>1. FieldsTyped'
    BY <1>5 DEF Subscribe_Send, Placement, TypeOK, FieldsTyped, ring, table
  <2> QED BY <1>5, <2>1, ReturnTyped DEF Subscribe_Send, Statuses
<1>6. CASE RcvMsg_Lock(t) \/ RcvMsg_WaitFails(t) \/ RcvMsg_SpuriousWakeup(t)
           \/ RcvMsg_TimesOut(t) \/ RcvMsg_Relock(t)
  <2>1. /\ pc[t] # "idle" /\ RecordRaces
        /\ UNCHANGED <<ring, table, pipe_idx, locals, BufPtr, external>>
    BY <1>6 DEF RcvMsg_Lock, RcvMsg_WaitFails, RcvMsg_SpuriousWakeup,
                RcvMsg_TimesOut, RcvMsg_Relock, outcome
  <2>2. \E l \in {"rcv_take", "rcv_unlock", "rcv_wait", "rcv_wake",
                  "rcv_timedout"} : Goto(t, l)
    BY <1>6 DEF RcvMsg_Lock, RcvMsg_WaitFails, RcvMsg_SpuriousWakeup,
                RcvMsg_TimesOut, RcvMsg_Relock, LeaveWith
  <2>3. receive_mutex' = receive_mutex \/ receive_mutex' = t
    BY <1>6 DEF RcvMsg_Lock, RcvMsg_WaitFails, RcvMsg_SpuriousWakeup,
                RcvMsg_TimesOut, RcvMsg_Relock, Lock
  <2>4. ret' \in [Apps -> Statuses]
    <3>1. ret' = ret \/ \E status \in Statuses : LeaveWith(t, status)
      BY <1>6 DEF RcvMsg_Lock, RcvMsg_WaitFails, RcvMsg_SpuriousWakeup,
                  RcvMsg_TimesOut, RcvMsg_Relock, Statuses, outcome
    <3> QED BY <3>1 DEF TypeOK, LeaveWith
  <2>5. FieldsTyped'
    BY <2>1, <2>3 DEF TypeOK, FieldsTyped, Threads, ring, table, external
  <2>6. /\ loaded_count' \in [Threads -> Counts]
        /\ UNCHANGED <<MsgId, MsgIdIdx, TimeOut, msg_buffer>>
    BY <2>1 DEF TypeOK, locals, external
  <2> QED BY <2>1, <2>2, <2>4, <2>5, <2>6, MoveTyped DEF AppPcs, TakePcs
<1>7. CASE RcvMsg_Take(t)
  <2>1. p \in Pipes /\ t \in Threads
    BY <1>7, UnderWay DEF RcvMsg_Take
  <2>2. NumberOfMessages[p] \in Counts /\ next_msg(p) \in Slots
    BY <2>1, RingFields DEF next_msg
  <2>3. FieldsTyped'
    BY <1>7, <2>1, <2>2 DEF RcvMsg_Take, TypeOK, FieldsTyped, table, external
  <2>4. loaded_count' \in [Threads -> Counts]
    BY <1>7, <2>2 DEF RcvMsg_Take, TypeOK
  <2>5. ret' \in [Apps -> Statuses] /\ msg_buffer' = msg_buffer
    BY <1>7 DEF RcvMsg_Take, TypeOK, external
  <2> QED BY <1>7, <2>3, <2>4, <2>5, MoveTyped DEF RcvMsg_Take, AppPcs, TakePcs
<1>8. CASE RcvMsg_Count(t)
  <2>1. p \in Pipes /\ t \in Threads
    BY <1>8, UnderWay DEF RcvMsg_Count
  <2>2. (loaded_count[t] - 1) % UINT32 \in Counts
    BY <2>1, LoadedCounts
  <2>3. FieldsTyped'
    BY <1>8, <2>1, <2>2 DEF RcvMsg_Count, TypeOK, FieldsTyped, table, external
  <2>4. ret' \in [Apps -> Statuses]
    BY <1>8 DEF RcvMsg_Count, LeaveWith, TypeOK, Statuses
  <2>5. /\ loaded_count' \in [Threads -> Counts]
        /\ UNCHANGED <<pipe_idx, MsgId, MsgIdIdx, TimeOut, msg_buffer>>
    BY <1>8 DEF RcvMsg_Count, TypeOK, locals, external
  <2> QED BY <1>8, <2>3, <2>4, <2>5, MoveTyped
         DEF RcvMsg_Count, LeaveWith, AppPcs
<1>9. CASE RcvMsg_Unlock(t) \/ RcvMsg_LockFails(t) \/ RcvMsg_UnlockFails(t)
  <2>1. PICK status \in Statuses : ReturnFromRcvMsg(t, status)
    BY <1>9 DEF RcvMsg_Unlock, RcvMsg_LockFails, RcvMsg_UnlockFails, TypeOK,
                Statuses
  <2>2. /\ RecordRaces /\ UNCHANGED <<ring, table, external>>
        /\ receive_mutex' \in {receive_mutex, None}
    BY <1>9 DEF RcvMsg_Unlock, RcvMsg_LockFails, RcvMsg_UnlockFails
  <2>3. BufPtr' \in [Apps -> (Pipes \X Slots) \cup {None}]
    BY <2>1 DEF ReturnFromRcvMsg, TypeOK
  <2>4. FieldsTyped'
    BY <2>2, <2>3 DEF TypeOK, FieldsTyped, ring, table, external
  <2> QED BY <2>1, <2>2, <2>4, ReturnTyped DEF ReturnFromRcvMsg, external
<1> QED BY <1>1, <1>2, <1>3, <1>4, <1>5, <1>6, <1>7, <1>8, <1>9
       DEF AppStep, AppFault

\* A step of the receive thread that wakes nobody.
LEMMA MinderMoveTyped ==
    ASSUME TypeOK, Placement, NEW l \in MinderPcs, Goto(Minder, l),
           RecordRaces, FieldsTyped',
           UNCHANGED <<MsgId, MsgIdIdx, TimeOut, ret>>,
           NEW i \in Pipes \cup {INVALID_PIPE},
           pipe_idx' = [pipe_idx EXCEPT ![Minder] = i],
           l \notin {"idle", "ing_lock"} => i \in Pipes,
           loaded_count' \in [Threads -> Counts],
           msg_buffer' \in Msgs \cup {NoMsg},
           l \in {"ing_lock"} \cup StorePcs => msg_buffer' \in Msgs
    PROVE  TypeOK' /\ Placement'
<1>1. Minder \in Threads /\ \A u \in Apps : u \in Threads \ {Minder}
  BY ThreadsAssumption DEF Threads
<1>2. /\ pc'[Minder] = l /\ \A u \in Threads \ {Minder} : pc'[u] = pc[u]
      /\ pc' \in [Threads -> AppPcs \cup MinderPcs]
  BY <1>1, GotoMoves
<1>3. /\ pipe_idx' \in [Threads -> Pipes \cup {INVALID_PIPE}]
      /\ pipe_idx'[Minder] = i
      /\ \A u \in Threads \ {Minder} : pipe_idx'[u] = pipe_idx[u]
  BY <1>1 DEF TypeOK
<1>4. TypeOK'
  <2>1. pc'[Minder] \in MinderPcs /\ \A u \in Apps : pc'[u] \in AppPcs
    BY <1>1, <1>2 DEF TypeOK
  <2> QED BY <1>2, <1>3, <2>1, TaintedTyped DEF TypeOK, FieldsTyped
<1>5. Placement'
  BY <1>1, <1>2, <1>3 DEF Placement
<1> QED BY <1>4, <1>5

\* Each step of the receive thread keeps the types.
LEMMA MinderTyped ==
    ASSUME TypeOK, Placement,
           MinderStep \/ \E m \in Msgs : Minder_Receive(m)
    PROVE  TypeOK' /\ Placement'
<1> USE DEF At
<1>0. Minder \in Threads /\ pipe_idx[Minder] \in Pipes \cup {INVALID_PIPE}
      /\ pipe_idx = [pipe_idx EXCEPT ![Minder] = pipe_idx[Minder]]
      /\ \A m \in Pipes : m \in Pipes \cup {INVALID_PIPE}
  BY DEF TypeOK, Threads
<1>1. CASE Ingest_NoPipe \/ Ingest_Overflow
  <2>1. /\ Goto(Minder, "idle") /\ RecordRaces /\ msg_buffer' = NoMsg
        /\ UNCHANGED <<ring, table, receive_mutex, pipe_idx, locals, outcome,
                       sbn_subs>>
    BY <1>1 DEF Ingest_NoPipe, Ingest_Overflow, Ingest_Return
  <2>2. FieldsTyped'
    BY <2>1, FieldsKept DEF outcome
  <2>3. pipe_idx' = [pipe_idx EXCEPT ![Minder] = pipe_idx[Minder]]
        /\ loaded_count' \in [Threads -> Counts]
        /\ UNCHANGED <<MsgId, MsgIdIdx, TimeOut, ret>>
    BY <1>0, <2>1 DEF locals, outcome, TypeOK
  <2> QED BY <1>0, <2>1, <2>2, <2>3, MinderMoveTyped DEF MinderPcs, StorePcs
<1>2. CASE Ingest_Lock
  <2>1. FieldsTyped'
    BY <1>2 DEF Ingest_Lock, Lock, TypeOK, FieldsTyped, Threads, ring, table,
                outcome, external
  <2>2. /\ Destination \in Pipes
        /\ pipe_idx' = [pipe_idx EXCEPT ![Minder] = Destination]
        /\ Goto(Minder, "ing_copy") /\ RecordRaces
    BY <1>2, DestinationType DEF Ingest_Lock
  <2>3. /\ loaded_count' \in [Threads -> Counts]
        /\ UNCHANGED <<MsgId, MsgIdIdx, TimeOut, ret>>
        /\ msg_buffer' \in Msgs
    BY <1>2 DEF Ingest_Lock, locals, outcome, external, TypeOK, Placement
  <2> QED BY <1>0, <2>1, <2>2, <2>3, MinderMoveTyped DEF MinderPcs, StorePcs
<1>3. CASE Ingest_Copy
  <2> DEFINE i == pipe_idx[Minder]
  <2>1. i \in Pipes /\ msg_buffer \in Msgs
    BY <1>0, <1>3 DEF Ingest_Copy, Placement, StorePcs
  <2>2. FieldsTyped'
    <3>1. message_entry_point(i) \in Slots
      BY <2>1, EntryPointType
    <3> QED BY <1>3, <2>1, <3>1 DEF Ingest_Copy, TypeOK, FieldsTyped, table,
                                    outcome, external
  <2>3. /\ loaded_count' \in [Threads -> Counts]
        /\ UNCHANGED <<MsgId, MsgIdIdx, TimeOut, ret, msg_buffer, pipe_idx>>
    BY <1>3, <2>1 DEF Ingest_Copy, outcome, external, TypeOK
  <2>4. pipe_idx' = [pipe_idx EXCEPT ![Minder] = i]
    BY <1>0, <2>3
  <2> QED BY <1>0, <1>3, <2>1, <2>2, <2>3, <2>4, MinderMoveTyped
             DEF Ingest_Copy, MinderPcs, StorePcs
<1>4. CASE Ingest_Count
  <2> DEFINE i == pipe_idx[Minder]
  <2>1. i \in Pipes /\ (loaded_count[Minder] + 1) % UINT32 \in Counts
    BY <1>0, <1>4, LoadedCounts DEF Ingest_Count, Placement, StorePcs
  <2>2. FieldsTyped'
    BY <1>4, <2>1 DEF Ingest_Count, TypeOK, FieldsTyped, table, outcome,
                      external
  <2>3. /\ loaded_count' \in [Threads -> Counts]
        /\ UNCHANGED <<MsgId, MsgIdIdx, TimeOut, ret, msg_buffer, pipe_idx>>
        /\ msg_buffer \in Msgs \cup {NoMsg}
    BY <1>4 DEF Ingest_Count, locals, outcome, external, TypeOK
  <2>4. pipe_idx' = [pipe_idx EXCEPT ![Minder] = i]
    BY <1>0, <2>3
  <2>5. /\ "ing_signal" \in MinderPcs
        /\ "ing_signal" \notin {"idle", "ing_lock"} \cup StorePcs
    BY DEF MinderPcs, StorePcs
  <2>6. Goto(Minder, "ing_signal") /\ RecordRaces
    BY <1>4 DEF Ingest_Count
  <2> QED BY <1>0, <2>1, <2>2, <2>3, <2>4, <2>5, <2>6, MinderMoveTyped
<1>5. CASE Ingest_Signal
  <2>1. FieldsTyped'
    BY <1>5, FieldsKept DEF Ingest_Signal, outcome
  <2>2. /\ pipe_idx' \in [Threads -> Pipes \cup {INVALID_PIPE}]
        /\ loaded_count' \in [Threads -> Counts]
        /\ \A u \in Apps : pipe_idx'[u] = pipe_idx[u]
    <3>1. pipe_idx' = [pipe_idx EXCEPT ![Minder] = INVALID_PIPE]
          /\ loaded_count' = [loaded_count EXCEPT ![Minder] = 0]
      BY <1>5 DEF Ingest_Signal
    <3> QED BY <3>1, Values, ThreadsAssumption DEF TypeOK, Threads
  <2>3. /\ pc' \in [Threads -> AppPcs \cup MinderPcs]
        /\ pc'[Minder] = "idle"
        /\ \A u \in Apps : \/ pc'[u] = pc[u]
                           \/ pc[u] = "rcv_wait" /\ pc'[u] = "rcv_wake"
    <3>1. CASE Goto(Minder, "idle")
      BY <1>0, <3>1, GotoMoves, ThreadsAssumption DEF MinderPcs, Threads
    <3>2. CASE \E t \in Waiters :
                  pc' = [pc EXCEPT ![t] = "rcv_wake", ![Minder] = "idle"]
      <4>1. PICK t \in Apps :
               /\ pc[t] = "rcv_wait"
               /\ pc' = [pc EXCEPT ![t] = "rcv_wake", ![Minder] = "idle"]
        BY <3>2 DEF Waiters
      <4>2. "rcv_wake" \in AppPcs /\ "idle" \in MinderPcs
        BY DEF AppPcs, MinderPcs
      <4> QED BY <4>1, <4>2, ThreadsAssumption DEF TypeOK, Threads
    <3> QED BY <1>5, <3>1, <3>2 DEF Ingest_Signal
  <2>4. pc'[Minder] \in MinderPcs /\ \A u \in Apps : pc'[u] \in AppPcs
    BY <2>3 DEF TypeOK, AppPcs, MinderPcs
  <2>5. /\ UNCHANGED <<MsgId, MsgIdIdx, TimeOut, ret>> /\ msg_buffer' = NoMsg
        /\ RecordRaces
    BY <1>5 DEF Ingest_Signal, outcome
  <2>6. TypeOK'
    BY <2>1, <2>2, <2>3, <2>4, <2>5, TaintedTyped DEF TypeOK, FieldsTyped
  <2>7. Placement'
    <3>1. \A u \in Apps :
             pc'[u] \notin {"idle", "ing_lock"} => pipe_idx'[u] \in Pipes
      BY <2>2, <2>3 DEF Placement, Threads
    <3>2. \A u \in Apps :
             /\ pc'[u] \in {"sub_store", "sub_send"} => MsgId'[u] \in MsgIds
             /\ pc'[u] = "sub_store" => MsgIdIdx'[u] \in SubSlots
      BY <2>3, <2>5 DEF Placement
    <3> QED BY <2>3, <3>1, <3>2 DEF Placement, Threads, StorePcs
  <2> QED BY <2>6, <2>7
<1>6. ASSUME NEW m \in Msgs, Minder_Receive(m)
      PROVE  TypeOK' /\ Placement'
  <2>1. FieldsTyped'
    BY <1>6, FieldsKept DEF Minder_Receive, outcome
  <2>2. /\ loaded_count' \in [Threads -> Counts]
        /\ UNCHANGED <<MsgId, MsgIdIdx, TimeOut, ret, pipe_idx>>
        /\ msg_buffer' \in Msgs
        /\ RecordRaces /\ Goto(Minder, "ing_lock")
    BY <1>6 DEF Minder_Receive, locals, outcome, TypeOK
  <2>3. pipe_idx' = [pipe_idx EXCEPT ![Minder] = pipe_idx[Minder]]
    BY <1>0, <2>2
  <2> QED BY <1>0, <2>1, <2>2, <2>3, MinderMoveTyped DEF MinderPcs, StorePcs
<1> QED BY <1>1, <1>2, <1>3, <1>4, <1>5, <1>6 DEF MinderStep

\* The table SBN_Client_InitPipeTbl leaves is typed.
LEMMA TypingInit == Init => TypeOK /\ Placement
BY Values, ThreadsAssumption
   DEF Init, TypeOK, Placement, Threads, AppPcs, MinderPcs, StorePcs, Statuses

\* Every step keeps the types, and the locals of the calls under way set.
LEMMA TypingStep ==
    ASSUME TypeOK, Placement, [Next]_vars
    PROVE  TypeOK' /\ Placement'
<1>1. CASE UNCHANGED vars
  BY <1>1 DEF TypeOK, Placement, vars, ring, table, locals, outcome, external
<1>2. CASE Next
  BY <1>2, CallTyped, StepTyped, MinderTyped DEF Next
<1> QED BY <1>1, <1>2

\* Every variable keeps its type: in particular no slot index leaves the
\* ring, whatever the threads do to one another.
THEOREM TypeCorrect == Spec => []TypeOK
<1>1. Spec => [](TypeOK /\ Placement)
  BY TypingInit, TypingStep, PTL DEF Spec
<1> QED BY <1>1, PTL

-----------------------------------------------------------------------------
(* The ring.  A step that leaves every count alone, and brings no thread   *)
(* into a critical section, keeps the invariant; the others are taken one  *)
(* by one.                                                                 *)

RingPcs == TakePcs \cup StorePcs

\* Where a call that has just been made may be.
FirstPcs == {"idle", "create_claim", "del_inuse", "sub_store", "rcv_lock"}

\* A call that begins touches nothing but the thread's own locals.
LEMMA CallMoves ==
    ASSUME TypeOK, NEW t \in Apps, AppCall(t)
    PROVE  /\ RecordRaces
           /\ UNCHANGED <<ring, table, receive_mutex, BufPtr, external>>
           /\ \E l \in FirstPcs : Goto(t, l)
           /\ \A u \in Threads \ {t} : /\ pipe_idx'[u] = pipe_idx[u]
                                       /\ loaded_count'[u] = loaded_count[u]
<1>1. /\ RecordRaces
      /\ UNCHANGED <<ring, table, receive_mutex, BufPtr, external>>
      /\ \/ \E status : Return(t, status)
         \/ /\ \E l \in FirstPcs : \E p : Enter(t, l, p)
            /\ loaded_count' = loaded_count
  BY DEF AppCall, CreatePipe_Call, DeletePipe_Call, Subscribe_Call,
         RcvMsg_Call, UnimplementedCall, FirstPcs, locals
<1>2. CASE \E status : Return(t, status)
  BY <1>1, <1>2 DEF Return, ForgetLocals, FirstPcs, TypeOK
<1>3. CASE /\ \E l \in FirstPcs : \E p : Enter(t, l, p)
           /\ loaded_count' = loaded_count
  BY <1>1, <1>3 DEF Enter, TypeOK
<1> QED BY <1>1, <1>2, <1>3

\* Every step records the races it makes, and only ingest_app_message
\* writes a message into a ring.
LEMMA EveryStep ==
    ASSUME Next
    PROVE  RecordRaces /\ (Ingest_Copy \/ UNCHANGED Messages)
<1>1. ASSUME NEW t \in Apps, AppCall(t)
      PROVE  RecordRaces /\ UNCHANGED Messages
  BY <1>1 DEF AppCall, CreatePipe_Call, DeletePipe_Call, Subscribe_Call,
              RcvMsg_Call, UnimplementedCall, ring
<1>2. ASSUME NEW t \in Apps, AppStep(t)
      PROVE  RecordRaces /\ UNCHANGED Messages
  <2>1. CASE \/ CreatePipe_Claim(t) \/ CreatePipe_Id(t)
             \/ DeletePipe_InUse(t) \/ DeletePipe_Id(t)
             \/ DeletePipe_Count(t) \/ DeletePipe_Read(t)
             \/ DeletePipe_Subs(t)
    BY <2>1 DEF CreatePipe_Claim, CreatePipe_Id, DeletePipe_InUse,
                DeletePipe_Id, DeletePipe_Count, DeletePipe_Read,
                DeletePipe_Subs, ring
  <2>2. CASE \/ Subscribe_Store(t) \/ Subscribe_Send(t)
             \/ RcvMsg_Lock(t) \/ RcvMsg_TimesOut(t) \/ RcvMsg_Relock(t)
             \/ RcvMsg_Take(t) \/ RcvMsg_Count(t) \/ RcvMsg_Unlock(t)
    BY <2>2 DEF Subscribe_Store, Subscribe_Send, RcvMsg_Lock,
                RcvMsg_TimesOut, RcvMsg_Relock, RcvMsg_Take, RcvMsg_Count,
                RcvMsg_Unlock, ring
  <2> QED BY <1>2, <2>1, <2>2 DEF AppStep
<1>3. ASSUME NEW t \in Apps, AppFault(t)
      PROVE  RecordRaces /\ UNCHANGED Messages
  BY <1>3 DEF AppFault, RcvMsg_SpuriousWakeup, RcvMsg_LockFails,
              RcvMsg_WaitFails, RcvMsg_UnlockFails, ring
<1>4. ASSUME NEW m \in Msgs, Minder_Receive(m)
      PROVE  RecordRaces /\ UNCHANGED Messages
  BY <1>4 DEF Minder_Receive, ring
<1>5. CASE MinderStep
  BY <1>5 DEF MinderStep, Ingest_NoPipe, Ingest_Overflow, Ingest_Return,
              Ingest_Lock, Ingest_Copy, Ingest_Count, Ingest_Signal, ring
<1> QED BY <1>1, <1>2, <1>3, <1>4, <1>5 DEF Next

\* receive_mutex excludes: its holder alone is in a critical section.
LEMMA LockStep ==
    ASSUME TypeOK, LockDiscipline, Next
    PROVE  LockDiscipline'
<1> USE DEF CriticalPcs, TakePcs, StorePcs
<1>1. ASSUME NEW t \in Apps, NEW l, Goto(t, l), l \notin CriticalPcs,
             receive_mutex' = receive_mutex
      PROVE  LockDiscipline'
  BY <1>1, GotoMoves DEF LockDiscipline, Threads
<1>2. ASSUME NEW t \in Threads, NEW l, Goto(t, l), receive_mutex' = t,
             receive_mutex \in {t, None}
      PROVE  LockDiscipline'
  BY <1>2, GotoMoves, ThreadsAssumption DEF LockDiscipline, Threads
<1>3. ASSUME NEW t \in Threads, NEW l, Goto(t, l), l \notin CriticalPcs,
             receive_mutex = t
      PROVE  LockDiscipline'
  BY <1>3, GotoMoves DEF LockDiscipline
<1>4. ASSUME NEW t \in Apps, AppCall(t) PROVE LockDiscipline'
  BY <1>1, <1>4, CallMoves DEF FirstPcs
<1>5. ASSUME NEW t \in Apps, AppStep(t) \/ AppFault(t) PROVE LockDiscipline'
  <2>1. t \in Threads /\ (pc[t] \in CriticalPcs => receive_mutex = t)
    BY DEF LockDiscipline, Threads
  <2>2. CASE \/ CreatePipe_Claim(t) \/ CreatePipe_Id(t)
             \/ DeletePipe_InUse(t) \/ DeletePipe_Id(t)
             \/ DeletePipe_Count(t) \/ DeletePipe_Read(t)
             \/ DeletePipe_Subs(t)
    BY <1>1, <2>2 DEF CreatePipe_Claim, CreatePipe_Id, DeletePipe_InUse,
                      DeletePipe_Id, DeletePipe_Count, DeletePipe_Read,
                      DeletePipe_Subs, Return
  <2>3. CASE \/ Subscribe_Store(t) \/ Subscribe_Send(t)
             \/ RcvMsg_TimesOut(t) \/ RcvMsg_SpuriousWakeup(t)
             \/ RcvMsg_LockFails(t)
    BY <1>1, <2>3 DEF Subscribe_Store, Subscribe_Send, RcvMsg_TimesOut,
                      RcvMsg_SpuriousWakeup, RcvMsg_LockFails, Return,
                      ReturnFromRcvMsg
  <2>4. CASE RcvMsg_Lock(t) \/ RcvMsg_Relock(t) \/ RcvMsg_WaitFails(t)
    BY <1>1, <1>2, <2>1, <2>4 DEF RcvMsg_Lock, RcvMsg_Relock,
                                  RcvMsg_WaitFails, Lock, LeaveWith
  <2>5. CASE RcvMsg_Take(t) \/ RcvMsg_Count(t)
    BY <1>2, <2>1, <2>5 DEF RcvMsg_Take, RcvMsg_Count, LeaveWith, At
  <2>6. CASE RcvMsg_Unlock(t) \/ RcvMsg_UnlockFails(t)
    BY <1>3, <2>1, <2>6 DEF RcvMsg_Unlock, RcvMsg_UnlockFails,
                            ReturnFromRcvMsg, Return, At
  <2> QED BY <1>5, <2>2, <2>3, <2>4, <2>5, <2>6 DEF AppStep, AppFault
<1>6. ASSUME MinderStep \/ \E m \in Msgs : Minder_Receive(m)
      PROVE  LockDiscipline'
  <2>1. /\ Minder \in Threads
        /\ pc[Minder] \in CriticalPcs => receive_mutex = Minder
    BY DEF LockDiscipline, Threads
  <2>2. CASE \/ \E m \in Msgs : Minder_Receive(m)
             \/ Ingest_NoPipe \/ Ingest_Overflow
    BY <2>1, <2>2, GotoMoves DEF LockDiscipline, Minder_Receive,
       Ingest_NoPipe, Ingest_Overflow, Ingest_Return
  <2>3. CASE Ingest_Lock \/ Ingest_Copy
    BY <1>2, <2>1, <2>3 DEF Ingest_Lock, Ingest_Copy, Lock, At
  <2>4. CASE Ingest_Count
    BY <1>3, <2>1, <2>4 DEF Ingest_Count, At
  <2>5. CASE Ingest_Signal
    <3>1. \A u \in Threads : pc'[u] \in CriticalPcs => pc'[u] = pc[u]
      BY <2>5, ThreadsAssumption
         DEF Ingest_Signal, Goto, Waiters, TypeOK, Threads
    <3> QED BY <2>5, <3>1 DEF Ingest_Signal, LockDiscipline
  <2> QED BY <1>6, <2>2, <2>3, <2>4, <2>5 DEF MinderStep
<1> QED BY <1>4, <1>5, <1>6 DEF Next

\* What a pipe no race has reached says about the threads at work on it.
LEMMA Untainted ==
    ASSUME IInv, NEW p \in Pipes \ tainted
    PROVE  /\ NumberOfMessages[p] \in 1 .. MAX_PIPE_DEPTH
           /\ NumberOfMessages[p] \in Int
           /\ \A t \in Threads : pipe_idx[t] = p =>
                 /\ pc[t] \in {"rcv_count", "ing_count"}
                       => loaded_count[t] = NumberOfMessages[p]
                 /\ pc[t] \in TakePcs => NumberOfMessages[p] >= 2
                 /\ pc[t] \in StorePcs => NumberOfMessages[p] < MAX_PIPE_DEPTH
           /\ p \notin Raced
BY SizesTyped DEF IInv, RingIntegrity, CountStands

\* A step that changes no count and enters no critical section keeps
\* what the holder of the mutex relies on.
LEMMA QuietStep ==
    ASSUME IInv, RecordRaces, UNCHANGED NumberOfMessages,
           \A u \in Threads :
              \/ pc'[u] \notin RingPcs
              \/ /\ pc'[u] = pc[u]
                 /\ pipe_idx'[u] = pipe_idx[u]
                 /\ loaded_count'[u] = loaded_count[u]
    PROVE  (\A u \in Threads : CountStands(u)') /\ RingIntegrity'
<1>1. tainted \subseteq tainted'
  BY DEF RecordRaces
<1>2. RingIntegrity'
  BY <1>1 DEF IInv, RingIntegrity
<1>3. ASSUME NEW u \in Threads PROVE CountStands(u)'
  BY <1>1, <1>3 DEF IInv, CountStands, RingPcs, TakePcs, StorePcs
<1> QED BY <1>2, <1>3

\* Only t works on a ring when it holds the mutex.
LEMMA Alone ==
    ASSUME LockDiscipline, NEW t \in Threads, pc[t] \in CriticalPcs,
           NEW u \in Threads, u # t
    PROVE  pc[u] \notin RingPcs
BY DEF LockDiscipline, CriticalPcs, RingPcs

\* A call that begins disturbs no ring.
LEMMA CallCounts ==
    ASSUME IInv, NEW t \in Apps, AppCall(t)
    PROVE  (\A u \in Threads : CountStands(u)') /\ RingIntegrity'
<1>1. TypeOK /\ t \in Threads
  BY DEF IInv, Threads
<1>2. PICK l \in FirstPcs : Goto(t, l)
  BY <1>1, CallMoves
<1>3. pc'[t] \notin RingPcs /\ \A u \in Threads \ {t} : pc'[u] = pc[u]
  BY <1>1, <1>2, GotoMoves DEF FirstPcs, RingPcs, TakePcs, StorePcs
<1>4. RecordRaces /\ UNCHANGED NumberOfMessages
  BY <1>1, CallMoves DEF ring
<1>5. \A u \in Threads \ {t} : /\ pipe_idx'[u] = pipe_idx[u]
                             /\ loaded_count'[u] = loaded_count[u]
  BY <1>1, CallMoves
<1> QED BY <1>3, <1>4, <1>5, QuietStep

\* The steps of a call that neither write a count nor enter a ring.
QuietStepOf(t) ==
    \/ CreatePipe_Claim(t)
    \/ CreatePipe_Id(t)
    \/ DeletePipe_InUse(t)
    \/ DeletePipe_Id(t)
    \/ DeletePipe_Read(t)
    \/ DeletePipe_Subs(t)
    \/ Subscribe_Store(t)
    \/ Subscribe_Send(t)
    \/ RcvMsg_TimesOut(t)
    \/ RcvMsg_Unlock(t)
    \/ AppFault(t)

\* Steps on other fields of the table disturb no ring.
LEMMA QuietCounts ==
    ASSUME IInv, NEW t \in Apps, QuietStepOf(t)
    PROVE  (\A u \in Threads : CountStands(u)') /\ RingIntegrity'
<1>1. /\ RecordRaces /\ UNCHANGED NumberOfMessages
      /\ pc'[t] \notin RingPcs
      /\ \A u \in Threads \ {t} : /\ pc'[u] = pc[u]
                                  /\ pipe_idx'[u] = pipe_idx[u]
                                  /\ loaded_count'[u] = loaded_count[u]
  BY ThreadsAssumption
     DEF QuietStepOf, AppFault, CreatePipe_Claim, CreatePipe_Id,
         DeletePipe_InUse, DeletePipe_Id, DeletePipe_Read, DeletePipe_Subs,
         Subscribe_Store, Subscribe_Send, RcvMsg_TimesOut, RcvMsg_Unlock,
         RcvMsg_SpuriousWakeup, RcvMsg_LockFails, RcvMsg_WaitFails,
         RcvMsg_UnlockFails, Return, ReturnFromRcvMsg, LeaveWith,
         ForgetLocals, Goto, ring, locals, IInv, TypeOK, Threads, RingPcs,
         TakePcs, StorePcs
<1> QED BY <1>1, QuietStep

\* A thread enters a ring to take from it: it found a message there, or it
\* was woken, and then the pipe is tainted if there is none.
LEMMA EnterCounts ==
    ASSUME IInv, TypeOK', NEW t \in Apps, RcvMsg_Lock(t) \/ RcvMsg_Relock(t)
    PROVE  (\A u \in Threads : CountStands(u)') /\ RingIntegrity'
<1> USE DEF RingPcs, TakePcs, StorePcs
<1>0. t \in Threads /\ TypeOK /\ Placement
  BY DEF IInv, Threads
<1>1. /\ RecordRaces /\ UNCHANGED NumberOfMessages
      /\ tainted \subseteq tainted'
      /\ \A u \in Threads : /\ pipe_idx'[u] = pipe_idx[u]
                            /\ loaded_count'[u] = loaded_count[u]
                            /\ u # t => pc'[u] = pc[u]
  BY <1>0 DEF RcvMsg_Lock, RcvMsg_Relock, LeaveWith, Goto, TypeOK, ring,
              locals, RecordRaces
<1>2. CASE pc'[t] \notin RingPcs
  BY <1>1, <1>2, QuietStep
<1>3. CASE pc'[t] \in RingPcs
  <2>1. pc'[t] = "rcv_take" /\ pipe_idx[t] \in Pipes
    BY <1>0, <1>3, GotoMoves
       DEF RcvMsg_Lock, RcvMsg_Relock, LeaveWith, At, Placement
  <2>2. pipe_idx[t] \in tainted' \/ NumberOfMessages[pipe_idx[t]] >= 2
    <3>1. CASE NumberOfMessages[pipe_idx[t]] < 2
      <4>1. PICK p \in Pipes : p = pipe_idx[t]
        BY <2>1
      <4>2. pc'[t] = "rcv_take" /\ pipe_idx'[t] = p /\ NumberOfMessages'[p] < 2
        BY <1>0, <1>1, <2>1, <3>1, <4>1
      <4>3. StaleWake(p)'
        BY <4>2 DEF StaleWake
      <4> QED BY <1>1, <4>1, <4>3 DEF RecordRaces, Raced
    <3>2. NumberOfMessages[pipe_idx[t]] \in Int
      BY <1>0, <2>1, RingFields, Values
    <3> QED BY <3>1, <3>2
  <2>3. CountStands(t)'
    BY <1>0, <1>1, <2>1, <2>2 DEF CountStands
  <2>4. ASSUME NEW u \in Threads \ {t} PROVE CountStands(u)'
    BY <1>1, <2>4 DEF IInv, CountStands
  <2>5. RingIntegrity'
    BY <1>1 DEF IInv, RingIntegrity
  <2> QED BY <2>3, <2>4, <2>5
<1> QED BY <1>2, <1>3

\* RcvMsg_Take loads the count it is about to write back.
LEMMA TakeCounts ==
    ASSUME IInv, NEW t \in Apps, RcvMsg_Take(t)
    PROVE  (\A u \in Threads : CountStands(u)') /\ RingIntegrity'
<1> USE ThreadsAssumption
    DEF IInv, TypeOK, RcvMsg_Take, At, Goto, Threads
<1>1. /\ UNCHANGED NumberOfMessages
      /\ tainted \subseteq tainted'
      /\ pc'[t] = "rcv_count" /\ pipe_idx'[t] = pipe_idx[t]
      /\ loaded_count'[t] = NumberOfMessages[pipe_idx[t]]
      /\ \A u \in Threads \ {t} : /\ pc'[u] = pc[u]
                                  /\ pipe_idx'[u] = pipe_idx[u]
                                  /\ loaded_count'[u] = loaded_count[u]
  BY DEF RecordRaces
<1>2. CountStands(t)'
  BY <1>1 DEF CountStands, TakePcs, StorePcs
<1>3. ASSUME NEW u \in Threads \ {t} PROVE CountStands(u)'
  BY <1>1, <1>3 DEF CountStands
<1>4. RingIntegrity'
  BY <1>1 DEF RingIntegrity
<1> QED BY <1>2, <1>3, <1>4

\* The count is written: by the holder of the mutex ...
LEMMA CountCounts ==
    ASSUME IInv, NEW t \in Apps, RcvMsg_Count(t)
    PROVE  (\A u \in Threads : CountStands(u)') /\ RingIntegrity'
<1> DEFINE p == pipe_idx[t]
<1>1. /\ tainted \subseteq tainted'
      /\ p \in Pipes /\ t \in Threads
      /\ pc[t] = "rcv_count"
      /\ pc'[t] = "rcv_unlock"
      /\ NumberOfMessages' =
            [NumberOfMessages EXCEPT ![p] = (loaded_count[t] - 1) % UINT32]
      /\ UNCHANGED <<pipe_idx, loaded_count>>
      /\ \A u \in Threads \ {t} : pc'[u] = pc[u]
  BY ThreadsAssumption
     DEF IInv, TypeOK, Placement, RcvMsg_Count, LeaveWith, At, Goto, locals,
         Threads, RecordRaces
<1>2. \A u \in Threads : pc'[u] \notin RingPcs
  BY <1>1, Alone DEF IInv, CriticalPcs, RingPcs, TakePcs, StorePcs
<1>3. \A u \in Threads : CountStands(u)'
  BY <1>2 DEF CountStands, RingPcs, TakePcs, StorePcs
<1>4. ASSUME NEW q \in Pipes \ tainted'
      PROVE  NumberOfMessages'[q] \in 1 .. MAX_PIPE_DEPTH
  <2>1. CASE q # p
    BY <1>1, <2>1, Untainted DEF IInv, TypeOK
  <2>2. CASE q = p
    <3>1. /\ loaded_count[t] = NumberOfMessages[p]
          /\ NumberOfMessages[p] \in 2 .. MAX_PIPE_DEPTH
      BY <1>1, <2>2, Untainted, SizesTyped DEF TakePcs
    <3>2. (loaded_count[t] - 1) % UINT32 = NumberOfMessages[p] - 1
      BY <3>1, SizesTyped, ModBelow
    <3> QED BY <1>1, <2>2, <3>1, <3>2, SizesTyped DEF IInv, TypeOK
  <2> QED BY <2>1, <2>2
<1> QED BY <1>3, <1>4 DEF RingIntegrity

\* ... or, with no mutex, by invalidate_pipe, and then whoever is at work on
\* the ring has been raced with.
LEMMA DeleteCounts ==
    ASSUME IInv, NEW t \in Apps, DeletePipe_Count(t)
    PROVE  (\A u \in Threads : CountStands(u)') /\ RingIntegrity'
<1> DEFINE p == pipe_idx[t]
<1>1. /\ tainted \subseteq tainted'
      /\ p \in Pipes /\ Deleting(p)
      /\ pc'[t] = "del_read"
      /\ NumberOfMessages' = [NumberOfMessages EXCEPT ![p] = 1]
      /\ UNCHANGED <<pipe_idx, loaded_count>>
      /\ \A u \in Threads \ {t} : pc'[u] = pc[u]
  BY ThreadsAssumption
     DEF IInv, TypeOK, Placement, DeletePipe_Count, At, Goto, locals,
         Threads, RecordRaces, Deleting, DeletePcs
<1>2. ASSUME NEW u \in Threads PROVE CountStands(u)'
  <2>1. CASE pc'[u] \notin RingPcs
    BY <2>1 DEF CountStands, RingPcs, TakePcs, StorePcs
  <2>2. CASE pc'[u] \in RingPcs
    <3>1. u # t /\ pc[u] \in RingPcs /\ pipe_idx[u] \in Pipes
      BY <1>1, <2>2 DEF IInv, Placement, RingPcs, TakePcs, StorePcs
    <3>2. CASE pipe_idx[u] = p
      <4>1. p \in tainted
        BY <1>1, <3>1, <3>2 DEF IInv, Raced, InRing, RingPcs
      <4> QED BY <1>1, <3>2, <4>1 DEF CountStands
    <3>3. CASE pipe_idx[u] # p
      BY <1>1, <3>1, <3>3 DEF IInv, TypeOK, CountStands
    <3> QED BY <3>2, <3>3
  <2> QED BY <2>1, <2>2
<1>3. RingIntegrity'
  BY <1>1, SizesTyped DEF IInv, TypeOK, RingIntegrity
<1> QED BY <1>2, <1>3

\* ingest_app_message stores only where there is room.
LEMMA MinderCounts ==
    ASSUME IInv, MinderStep \/ \E m \in Msgs : Minder_Receive(m)
    PROVE  (\A u \in Threads : CountStands(u)') /\ RingIntegrity'
<1> DEFINE p == pipe_idx[Minder]
<1>1. CASE Ingest_NoPipe \/ Ingest_Overflow \/ Ingest_Signal
           \/ \E m \in Msgs : Minder_Receive(m)
  <2>1. /\ RecordRaces /\ UNCHANGED NumberOfMessages
        /\ pc'[Minder] \notin RingPcs
        /\ \A u \in Apps :
              \/ pc'[u] \notin RingPcs
              \/ /\ pc'[u] = pc[u]
                 /\ pipe_idx'[u] = pipe_idx[u]
                 /\ loaded_count'[u] = loaded_count[u]
    BY <1>1, ThreadsAssumption
       DEF Ingest_NoPipe, Ingest_Overflow, Ingest_Return, Ingest_Signal,
           Minder_Receive, Goto, ring, locals,
           IInv, TypeOK, Threads, RingPcs, TakePcs, StorePcs, Waiters
  <2> QED BY <2>1, QuietStep DEF Threads
<1>2. CASE Ingest_Lock
  <2>1. /\ tainted \subseteq tainted'
        /\ UNCHANGED <<NumberOfMessages, loaded_count>>
        /\ Destination \in Pipes
        /\ NumberOfMessages[Destination] # MAX_PIPE_DEPTH
        /\ pc'[Minder] = "ing_copy" /\ pipe_idx'[Minder] = Destination
        /\ \A u \in Threads \ {Minder} : /\ pc'[u] = pc[u]
                                         /\ pipe_idx'[u] = pipe_idx[u]
    BY <1>2, DestinationType
       DEF IInv, TypeOK, Ingest_Lock, Full, Goto, ring, locals, Threads,
           RecordRaces
  <2>2. CountStands(Minder)'
    <3>1. Destination \in tainted
          \/ NumberOfMessages[Destination] < MAX_PIPE_DEPTH
      BY <2>1, SizesTyped DEF IInv, RingIntegrity
    <3> QED BY <2>1, <3>1 DEF CountStands, TakePcs, StorePcs
  <2>3. ASSUME NEW u \in Threads \ {Minder} PROVE CountStands(u)'
    BY <2>1, <2>3 DEF IInv, CountStands
  <2>4. RingIntegrity'
    BY <2>1 DEF IInv, RingIntegrity
  <2> QED BY <2>2, <2>3, <2>4
<1>3. CASE Ingest_Copy
  <2>1. /\ tainted \subseteq tainted'
        /\ UNCHANGED <<NumberOfMessages, pipe_idx>>
        /\ pc[Minder] = "ing_copy" /\ pc'[Minder] = "ing_count"
        /\ loaded_count'[Minder] = NumberOfMessages[p]
        /\ \A u \in Threads \ {Minder} :
              pc'[u] = pc[u] /\ loaded_count'[u] = loaded_count[u]
    BY <1>3 DEF IInv, TypeOK, Ingest_Copy, At, Goto, Threads, RecordRaces
  <2>2. CountStands(Minder)'
    BY <2>1 DEF IInv, CountStands, TakePcs, StorePcs, Threads
  <2>3. ASSUME NEW u \in Threads \ {Minder} PROVE CountStands(u)'
    BY <2>1, <2>3 DEF IInv, CountStands
  <2>4. RingIntegrity'
    BY <2>1 DEF IInv, RingIntegrity
  <2> QED BY <2>2, <2>3, <2>4
<1>4. CASE Ingest_Count
  <2>1. /\ tainted \subseteq tainted'
        /\ p \in Pipes /\ Minder \in Threads
        /\ pc[Minder] = "ing_count" /\ pc'[Minder] = "ing_signal"
        /\ NumberOfMessages' = [NumberOfMessages EXCEPT
              ![p] = (loaded_count[Minder] + 1) % UINT32]
        /\ UNCHANGED <<pipe_idx, loaded_count>>
        /\ \A u \in Threads \ {Minder} : pc'[u] = pc[u]
    BY <1>4 DEF IInv, TypeOK, Placement, Ingest_Count, At, Goto, locals,
                Threads, RecordRaces
  <2>2. \A u \in Threads : pc'[u] \notin RingPcs
    BY <2>1, Alone DEF IInv, CriticalPcs, RingPcs, TakePcs, StorePcs
  <2>3. \A u \in Threads : CountStands(u)'
    BY <2>2 DEF CountStands, RingPcs, TakePcs, StorePcs
  <2>4. ASSUME NEW q \in Pipes \ tainted'
        PROVE  NumberOfMessages'[q] \in 1 .. MAX_PIPE_DEPTH
    <3>1. CASE q # p
      BY <2>1, <3>1, Untainted DEF IInv, TypeOK
    <3>2. CASE q = p
      <4>1. /\ loaded_count[Minder] = NumberOfMessages[p]
            /\ NumberOfMessages[p] \in 1 .. MAX_PIPE_DEPTH - 1
        BY <2>1, <3>2, Untainted, SizesTyped DEF StorePcs
      <4>2. (loaded_count[Minder] + 1) % UINT32 = NumberOfMessages[p] + 1
        BY <4>1, SizesTyped, ModBelow
      <4> QED BY <2>1, <3>2, <4>1, <4>2, SizesTyped DEF IInv, TypeOK
    <3> QED BY <3>1, <3>2
  <2> QED BY <2>3, <2>4 DEF RingIntegrity
<1> QED BY <1>1, <1>2, <1>3, <1>4 DEF MinderStep

\* The inductive invariant holds initially ...
LEMMA IInvInit == Init => IInv
<1>1. SUFFICES ASSUME Init PROVE IInv
  OBVIOUS
<1>2. TypeOK /\ Placement
  BY <1>1, TypingInit
<1>3. \A t \in Threads : pc[t] = "idle"
  BY <1>1 DEF Init
<1>4. LockDiscipline /\ \A t \in Threads : CountStands(t)
  BY <1>3 DEF LockDiscipline, CountStands, CriticalPcs, TakePcs, StorePcs
<1>5. Raced \subseteq tainted
  BY <1>3 DEF Raced, InRing, StaleWake, Threads, TakePcs, StorePcs
<1>6. RingIntegrity
  BY <1>1, SizesTyped DEF Init, RingIntegrity
<1> QED BY <1>2, <1>4, <1>5, <1>6 DEF IInv

\* ... and every step keeps it.
LEMMA IInvStep ==
    ASSUME IInv, [Next]_vars
    PROVE  IInv'
<1>1. TypeOK' /\ Placement'
  BY TypingStep DEF IInv
<1>2. CASE UNCHANGED vars
  BY <1>1, <1>2
     DEF IInv, LockDiscipline, CountStands, RingIntegrity, Raced, Deleting,
         InRing, StaleWake, vars, ring, table, locals, outcome, external
<1>3. CASE Next
  <2>1. LockDiscipline'
    BY <1>3, LockStep DEF IInv
  <2>2. Raced' \subseteq tainted'
    <3>1. RecordRaces
      BY <1>3, EveryStep
    <3> QED BY <3>1 DEF RecordRaces
  <2>3. (\A u \in Threads : CountStands(u)') /\ RingIntegrity'
    <3>1. ASSUME NEW t \in Apps, AppStep(t) \/ AppFault(t)
          PROVE  (\A u \in Threads : CountStands(u)') /\ RingIntegrity'
      BY <1>1, <3>1, QuietCounts, EnterCounts, TakeCounts, CountCounts,
         DeleteCounts DEF AppStep, QuietStepOf
    <3>2. ASSUME NEW t \in Apps, AppCall(t)
          PROVE  (\A u \in Threads : CountStands(u)') /\ RingIntegrity'
      BY <3>2, CallCounts
    <3>3. ASSUME MinderStep \/ \E m \in Msgs : Minder_Receive(m)
          PROVE  (\A u \in Threads : CountStands(u)') /\ RingIntegrity'
      BY <3>3, MinderCounts
    <3> QED BY <1>3, <3>1, <3>2, <3>3 DEF Next
  <2> QED BY <1>1, <2>1, <2>2, <2>3 DEF IInv
<1> QED BY <1>2, <1>3

\* The inductive invariant: types, the mutex, and, on every pipe the two
\* races have not reached, a count in range that its writer has read.
THEOREM Invariance == Spec => []IInv
BY IInvInit, IInvStep, PTL DEF Spec

\* RcvMsg and ingest_app_message keep the count of a pipe between one and its
\* depth, for any number of threads that call in any order, until
\* invalidate_pipe runs against the holder of the mutex or a wake-up is stale.
THEOREM RingIntegrityHolds == Spec => []RingIntegrity
<1>1. IInv => RingIntegrity
  BY DEF IInv
<1> QED BY <1>1, Invariance, PTL

-----------------------------------------------------------------------------
(* The message last handed out                                             *)

\* In a pipe that is not full the slot a message enters is not the one
\* ReadMessage names.
LEMMA EntryIsFree ==
    ASSUME TypeOK, NEW p \in Pipes,
           NumberOfMessages[p] \in 1 .. MAX_PIPE_DEPTH - 1
    PROVE  message_entry_point(p) # ReadMessage[p]
<1> DEFINE R == ReadMessage[p]
           N == NumberOfMessages[p]
           D == MAX_PIPE_DEPTH
<1>1. R \in 0 .. D - 1 /\ N \in 1 .. D - 1 /\ D \in Nat \ {0}
  BY SizesTyped DEF TypeOK, Slots
<1>2. (R + N) % UINT32 = R + N
  BY <1>1, SizesTyped, ModBelow
<1>3. CASE R + N < D
  BY <1>1, <1>2, <1>3, ModBelow DEF message_entry_point
<1>4. CASE R + N >= D
  <2>1. PICK k \in Nat : k = R + N /\ D <= k /\ k < 2 * D
    BY <1>1, <1>4
  <2>2. k % D = k - D
    BY <2>1, SizesTyped, ModOnce
  <2>3. message_entry_point(p) = k - D
    BY <1>2, <2>1, <2>2 DEF message_entry_point
  <2> QED BY <1>1, <2>1, <2>3
<1> QED BY <1>1, <1>3, <1>4

\* No step writes the slot ReadMessage names.
LEMMA HeldStep ==
    ASSUME IInv, [Next]_vars, NEW p \in Pipes \ tainted'
    PROVE  Messages'[p][ReadMessage[p]] = Messages[p][ReadMessage[p]]
<1>1. CASE Ingest_Copy
  <2> DEFINE i == pipe_idx[Minder]
  <2>1. /\ tainted \subseteq tainted'
        /\ Minder \in Threads /\ i \in Pipes /\ pc[Minder] = "ing_copy"
        /\ Messages' =
              [Messages EXCEPT ![i][message_entry_point(i)] = msg_buffer]
    BY <1>1 DEF IInv, Placement, Ingest_Copy, At, Threads, RecordRaces
  <2>2. CASE p # i
    BY <2>1, <2>2 DEF IInv, TypeOK
  <2>3. CASE p = i
    <3>1. NumberOfMessages[p] \in 1 .. MAX_PIPE_DEPTH - 1
      BY <2>1, <2>3, Untainted, SizesTyped DEF StorePcs
    <3>2. message_entry_point(p) # ReadMessage[p]
      BY <3>1, EntryIsFree DEF IInv
    <3>3. message_entry_point(p) \in Slots /\ ReadMessage[p] \in Slots
      BY EntryPointType, RingFields DEF IInv
    <3> QED BY <2>1, <2>3, <3>2, <3>3 DEF IInv, TypeOK
  <2> QED BY <2>2, <2>3
<1>2. CASE ~Ingest_Copy
  <2>1. UNCHANGED Messages
    BY <1>2, EveryStep DEF vars, ring
  <2> QED BY <2>1
<1> QED BY <1>1, <1>2

\* No message that comes in is copied over the one the application was last
\* given, on a pipe the two races have not reached.
THEOREM HeldMessageIsKept == Spec => HeldMessageKept
<1>1. ASSUME IInv, [Next]_vars
      PROVE  [\A p \in Pipes \ tainted' :
                 Messages'[p][ReadMessage[p]]
                    = Messages[p][ReadMessage[p]]]_vars
  BY <1>1, HeldStep
<1> QED BY <1>1, Invariance, PTL DEF Spec, HeldMessageKept

-----------------------------------------------------------------------------
(* Wake-ups, for an application with one thread                            *)

\* With one thread, every step keeps NoLostWakeup.
LEMMA WakeupStep ==
    ASSUME NEW a, Apps = {a}, IInv, NoLostWakeup, [Next]_vars
    PROVE  NoLostWakeup'
<1> DEFINE N == NumberOfMessages[pipe_idx[a]]
<1>1. SUFFICES ASSUME pc'[a] = "rcv_wait", NumberOfMessages'[pipe_idx'[a]] >= 2
               PROVE  pc'[Minder] = "ing_signal"
  <2>1. TypeOK' /\ Placement'
    BY TypingStep DEF IInv
  <2>2. pc'[a] = "rcv_wait" => NumberOfMessages'[pipe_idx'[a]] \in Int
    BY <2>1, Values DEF TypeOK, Placement, Threads
  <2>3. pc'[a] = "rcv_wait" =>
           Unread(pipe_idx[a])' = NumberOfMessages'[pipe_idx'[a]] - 1
    BY <2>2 DEF Unread
  <2> QED BY <1>1, <2>2, <2>3 DEF NoLostWakeup, At
<1>2. CASE pc[a] = "rcv_wait"
  <2>1. N >= 2 => pc[Minder] = "ing_signal"
    <3>1. N \in Int
      BY <1>2, Values DEF IInv, TypeOK, Placement, Threads
    <3>2. Unread(pipe_idx[a]) = N - 1
      BY <1>2, <3>1 DEF Unread
    <3> QED BY <1>2, <3>1, <3>2 DEF NoLostWakeup, At
  <2>2. CASE \/ UNCHANGED vars
             \/ \E m \in Msgs : Minder_Receive(m)
             \/ Ingest_NoPipe \/ Ingest_Overflow \/ Ingest_Lock \/ Ingest_Copy
    <3>1. N >= 2 /\ pc'[a] = pc[a]
      BY <1>1, <1>2, <2>2, ThreadsAssumption
         DEF Minder_Receive, Ingest_NoPipe, Ingest_Overflow,
             Ingest_Return, Ingest_Lock, Ingest_Copy, Goto,
             ring, vars, IInv, TypeOK, Threads
    <3> QED BY <1>1, <2>1, <2>2, <3>1
            DEF Minder_Receive, Ingest_NoPipe, Ingest_Overflow,
                Ingest_Return, Ingest_Lock, Ingest_Copy, At,
                vars
  <2>3. CASE Ingest_Count
    BY <2>3 DEF Ingest_Count, Goto, IInv, TypeOK, Threads
  <2>4. CASE Ingest_Signal
    BY <1>1, <1>2, <2>4, ThreadsAssumption
       DEF Ingest_Signal, Waiters, At, IInv, TypeOK, Threads
  <2>5. CASE AppCall(a) \/ AppStep(a) \/ AppFault(a)
    BY <1>1, <1>2, <2>5 DEF AppCall, AppStep, AppFault, CreatePipe_Call,
       CreatePipe_Claim, CreatePipe_Id, DeletePipe_Call, DeletePipe_InUse,
       DeletePipe_Id, DeletePipe_Count, DeletePipe_Read, DeletePipe_Subs,
       Subscribe_Call, Subscribe_Store, Subscribe_Send, UnimplementedCall,
       RcvMsg_Call, RcvMsg_Lock, RcvMsg_LockFails, RcvMsg_WaitFails,
       RcvMsg_SpuriousWakeup, RcvMsg_TimesOut, RcvMsg_Relock, RcvMsg_Take,
       RcvMsg_Count, RcvMsg_Unlock, RcvMsg_UnlockFails, Call, At, Goto, IInv,
       TypeOK, Threads
  <2> QED BY <2>2, <2>3, <2>4, <2>5 DEF Next, MinderStep
<1>3. CASE pc[a] # "rcv_wait"
  <2>1. CASE RcvMsg_Lock(a)
    <3>1. pipe_idx' = pipe_idx /\ NumberOfMessages' = NumberOfMessages
      BY <2>1 DEF RcvMsg_Lock, ring
    <3>2. N \in Int
      BY <2>1, Values DEF RcvMsg_Lock, At, IInv, TypeOK, Placement, Threads
    <3>3. N < 2
      BY <1>1, <2>1, <3>2
         DEF RcvMsg_Lock, NothingUnread, Goto, LeaveWith, IInv, TypeOK,
             Threads
    <3> QED BY <1>1, <3>1, <3>2, <3>3
  <2>2. CASE AppCall(a)
    BY <1>1, <2>2 DEF AppCall, CreatePipe_Call, DeletePipe_Call,
       Subscribe_Call, UnimplementedCall, RcvMsg_Call, Call, Enter, Return,
       Goto, IInv, TypeOK, Threads
  <2>3. CASE (AppStep(a) \/ AppFault(a)) /\ ~RcvMsg_Lock(a)
    BY <1>1, <1>3, <2>3 DEF AppStep, AppFault,
       CreatePipe_Claim, CreatePipe_Id, DeletePipe_InUse,
       DeletePipe_Id, DeletePipe_Count, DeletePipe_Read, DeletePipe_Subs,
       Subscribe_Store, Subscribe_Send, RcvMsg_LockFails, RcvMsg_WaitFails,
       RcvMsg_SpuriousWakeup, RcvMsg_TimesOut, RcvMsg_Relock, RcvMsg_Take,
       RcvMsg_Count, RcvMsg_Unlock, RcvMsg_UnlockFails, At, Goto, Return,
       ReturnFromRcvMsg, LeaveWith, IInv, TypeOK, Threads
  <2>4. CASE \/ UNCHANGED vars \/ MinderStep
             \/ \E m \in Msgs : Minder_Receive(m)
    BY <1>1, <1>3, <2>4, ThreadsAssumption
       DEF MinderStep, Minder_Receive, Ingest_NoPipe, Ingest_Overflow,
       Ingest_Return, Ingest_Lock, Ingest_Copy, Ingest_Count,
       Ingest_Signal, Waiters, At, Goto, vars, IInv, TypeOK, Threads
  <2> QED BY <2>1, <2>2, <2>3, <2>4 DEF Next
<1> QED BY <1>2, <1>3

\* With one application thread, a thread that waits on a pipe with an unread
\* message in it has a signal coming: ingest_app_message, having released the
\* mutex, has yet to call pthread_cond_signal.
THEOREM NoWakeupIsLost ==
    ASSUME NEW a, Apps = {a}
    PROVE  Spec => []NoLostWakeup
<1>1. Init => NoLostWakeup
  BY DEF Init, NoLostWakeup, Threads
<1>2. ASSUME IInv, NoLostWakeup, [Next]_vars PROVE NoLostWakeup'
  BY <1>2, WakeupStep
<1> QED BY <1>1, <1>2, Invariance, PTL DEF Spec

=============================================================================
