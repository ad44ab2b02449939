------------------------------ MODULE SbnPipes ------------------------------
(***************************************************************************)
(* The pipe table of the SBN client, the calls an application makes on it  *)
(* (CFE_SB_CreatePipe, DeletePipe, Subscribe, RcvMsg) and the receive      *)
(* thread that fills it (ingest_app_message).                              *)
(*                                                                         *)
(* Only RcvMsg and ingest_app_message take receive_mutex.  The others      *)
(* touch the table with no lock, so their writes are separate steps.  A    *)
(* search of the table (GetPipeIdx, the loops of CreatePipe, DeletePipe    *)
(* and ingest_app_message) reads it in one step; what a caller does with   *)
(* the result is a later step.  "++" and "--" on NumberOfMessages are a    *)
(* load and a store.                                                       *)
(*                                                                         *)
(* Every variable but receive_mutex, pc, sbn_subs and tainted is a field   *)
(* of PipeTbl or a local of a function, with its name in the source.       *)
(*                                                                         *)
(* An operator named Op_Change, before Op, is not part of the model: it is *)
(* Op with a plausible mistake, which a property must be able to tell.     *)
(***************************************************************************)
EXTENDS Integers, FiniteSets

CONSTANTS
    Apps,                  \* threads of the application
    Minder,                \* the thread that runs SBN_Client_ReceiveMinder
    MAX_PIPES,             \* CFE_PLATFORM_SBN_CLIENT_MAX_PIPES
    MAX_PIPE_DEPTH,        \* CFE_PLATFORM_SBN_CLIENT_MAX_PIPE_DEPTH
    MAX_MSG_IDS_PER_PIPE,  \* CFE_SBN_CLIENT_MAX_MSG_IDS_PER_PIPE
    UINT32,                \* 2^32, the modulus of a uint32 counter
    MsgIds,                \* the ids an application subscribes to
    INVALID_MSG_ID,        \* CFE_SBN_CLIENT_INVALID_MSG_ID, a free slot
    Msgs, MsgIdOf,         \* the messages SBN forwards and the id of each
    NoMsg,                 \* what a slot holds before its first message
    None,                  \* nobody, nothing, NULL
    Calls,                 \* the calls the application uses
    TimeOuts,              \* the kinds of TimeOut it passes to RcvMsg
    Unasked,               \* a message of an id SBN was not asked for may
                           \* come, as when the stream is read out of step
    Spurious,              \* pthread_cond_wait may return unsignalled
    SyncFaults             \* pthread calls made by RcvMsg may fail

Pipes       == 0 .. MAX_PIPES - 1
Slots       == 0 .. MAX_PIPE_DEPTH - 1
SubSlots    == 0 .. MAX_MSG_IDS_PER_PIPE - 1
Counts      == 0 .. UINT32 - 1
Threads     == Apps \cup {Minder}
INVALID_PIPE    == MAX_PIPES               \* 0xFF: an index of no pipe
MAX_MSG_IDS_MET == MAX_MSG_IDS_PER_PIPE    \* 0xFF: an index of no slot

ASSUME SizesAssumption ==
    /\ MAX_PIPES \in Nat \ {0}
    /\ MAX_PIPE_DEPTH \in Nat \ {0}
    /\ MAX_MSG_IDS_PER_PIPE \in Nat \ {0}
    /\ UINT32 \in Nat
    /\ 2 * MAX_PIPE_DEPTH <= UINT32
    /\ UINT32 % MAX_PIPE_DEPTH = 0
ASSUME ThreadsAssumption == Minder \notin Apps /\ None \notin Threads
ASSUME MessagesAssumption ==
    /\ MsgIdOf \in [Msgs -> MsgIds]
    /\ NoMsg \notin Msgs
    /\ INVALID_MSG_ID \notin MsgIds
ASSUME CallsAssumption ==
    /\ Calls \subseteq {"create", "delete", "subscribe", "receive"}
    /\ TimeOuts \subseteq {"poll", "pend", "timed"}
    /\ None \notin TimeOuts
    /\ {Unasked, Spurious, SyncFaults} \subseteq BOOLEAN

VARIABLES
    InUse, PipeId, NumberOfMessages, ReadMessage, Messages,
    SubscribedMsgIds,      \* PipeTbl[p], one function per field
    receive_mutex,         \* its holder, or None
    pc,                    \* where each thread is
    pipe_idx, loaded_count, MsgId, MsgIdIdx, TimeOut,   \* its locals
    ret,                   \* the status its call returns
    BufPtr,                \* the buffer RcvMsg last handed to it
    msg_buffer,            \* the message the receive thread has just read
    sbn_subs,              \* the ids SBN was asked to forward
    tainted                \* history: pipes the known races have reached

ring     == <<NumberOfMessages, ReadMessage, Messages>>
table    == <<InUse, PipeId, SubscribedMsgIds>>
locals   == <<loaded_count, MsgId, MsgIdIdx, TimeOut>>
outcome  == <<ret, BufPtr>>
external == <<sbn_subs, msg_buffer>>
vars == <<ring, table, receive_mutex, pc, pipe_idx, locals, outcome,
          external, tainted>>

DeletePcs   == {"del_inuse", "del_id", "del_count", "del_read", "del_subs"}
TakePcs     == {"rcv_take", "rcv_count"}
StorePcs    == {"ing_copy", "ing_count"}
CriticalPcs == TakePcs \cup StorePcs \cup {"rcv_unlock"}
AppPcs == {"idle", "create_claim", "create_id", "sub_store", "sub_send",
           "rcv_lock", "rcv_wait", "rcv_wake", "rcv_timedout", "rcv_unlock"}
          \cup DeletePcs \cup TakePcs
MinderPcs == {"idle", "ing_lock", "ing_signal"} \cup StorePcs
Statuses == {"none", "CFE_SUCCESS", "CFE_SB_BAD_ARGUMENT", "MAX_PIPES_MET",
             "CFE_SB_NO_MESSAGE", "CFE_SB_TIME_OUT", "CFE_SB_PIPE_RD_ERR",
             "-1", "-2"}

TypeOK ==
    /\ InUse \in [Pipes -> BOOLEAN]
    /\ PipeId \in [Pipes -> Pipes \cup {INVALID_PIPE}]
    /\ NumberOfMessages \in [Pipes -> Counts]
    /\ ReadMessage \in [Pipes -> Slots]
    /\ Messages \in [Pipes -> [Slots -> Msgs \cup {NoMsg}]]
    /\ SubscribedMsgIds
          \in [Pipes -> [SubSlots -> MsgIds \cup {INVALID_MSG_ID}]]
    /\ receive_mutex \in Threads \cup {None}
    /\ pc \in [Threads -> AppPcs \cup MinderPcs]
    /\ pc[Minder] \in MinderPcs /\ \A t \in Apps : pc[t] \in AppPcs
    /\ pipe_idx \in [Threads -> Pipes \cup {INVALID_PIPE}]
    /\ loaded_count \in [Threads -> Counts]
    /\ MsgId \in [Apps -> MsgIds \cup {INVALID_MSG_ID}]
    /\ MsgIdIdx \in [Apps -> SubSlots \cup {MAX_MSG_IDS_MET}]
    /\ TimeOut \in [Apps -> TimeOuts \cup {None}]
    /\ ret \in [Apps -> Statuses]
    /\ BufPtr \in [Apps -> (Pipes \X Slots) \cup {None}]
    /\ msg_buffer \in Msgs \cup {NoMsg}
    /\ sbn_subs \subseteq MsgIds
    /\ tainted \subseteq Pipes

-----------------------------------------------------------------------------
(* Searches of the table                                                   *)

First(S, none) ==
    IF S = {} THEN none ELSE CHOOSE i \in S : \A j \in S : i <= j

GetPipeIdx(id) ==
    IF PipeId[id] = id /\ InUse[id]
    THEN id
    ELSE First({p \in Pipes : PipeId[p] = id /\ InUse[p]}, INVALID_PIPE)

SubscribeIndex_AnySlot(p) == First(SubSlots, MAX_MSG_IDS_MET)

GetMessageSubscribeIndex(p) ==
    First({j \in SubSlots : SubscribedMsgIds[p][j] = INVALID_MSG_ID},
          MAX_MSG_IDS_MET)

Subscribes(p, id) == \E j \in SubSlots : SubscribedMsgIds[p][j] = id

EntryPoint_OneEarly(p) ==
    ((ReadMessage[p] + NumberOfMessages[p] - 1) % UINT32) % MAX_PIPE_DEPTH

message_entry_point(p) ==
    ((ReadMessage[p] + NumberOfMessages[p]) % UINT32) % MAX_PIPE_DEPTH

NextMsg_NoWrap(p) == ReadMessage[p] + 1

next_msg(p) == (ReadMessage[p] + 1) % MAX_PIPE_DEPTH

\* The tests RcvMsg and ingest_app_message make of the count.
NothingUnread_AtThree(p) == NumberOfMessages[p] < 3

NothingUnread(p) == NumberOfMessages[p] < 2

Full_TooLate(p) == NumberOfMessages[p] = MAX_PIPE_DEPTH + 1

Full(p) == NumberOfMessages[p] = MAX_PIPE_DEPTH

-----------------------------------------------------------------------------
(* Control                                                                 *)

At(t, l)    == pc[t] = l
Goto(t, l)  == pc' = [pc EXCEPT ![t] = l]

Call(t, call) == At(t, "idle") /\ call \in Calls

\* A call has started: it works on pipe p.
Enter(t, l, p) ==
    /\ Goto(t, l)
    /\ pipe_idx' = [pipe_idx EXCEPT ![t] = p]
    /\ ret' = [ret EXCEPT ![t] = "none"]

\* Locals die with the call that had them.
ForgetLocals(t) ==
    /\ pipe_idx' = [pipe_idx EXCEPT ![t] = INVALID_PIPE]
    /\ loaded_count' = [loaded_count EXCEPT ![t] = 0]
    /\ MsgId' = [MsgId EXCEPT ![t] = INVALID_MSG_ID]
    /\ MsgIdIdx' = [MsgIdIdx EXCEPT ![t] = MAX_MSG_IDS_MET]
    /\ TimeOut' = [TimeOut EXCEPT ![t] = None]

Return(t, status) ==
    /\ Goto(t, "idle")
    /\ ret' = [ret EXCEPT ![t] = status]
    /\ ForgetLocals(t)

\* RcvMsg hands out no buffer with a status other than CFE_SUCCESS.
ReturnFromRcvMsg(t, status) ==
    /\ Return(t, status)
    /\ BufPtr' = IF status = "CFE_SUCCESS"
                 THEN BufPtr ELSE [BufPtr EXCEPT ![t] = None]

-----------------------------------------------------------------------------
(* The two races the code leaves open that reach a ring.  A pipe is        *)
(* tainted from the moment one of them reaches it: invalidate_pipe runs on *)
(* it while the holder of the mutex works on it, or a thread that was      *)
(* woken takes from it with no unread message in it.                       *)

Deleting(p) == \E t \in Apps : pc[t] \in DeletePcs /\ pipe_idx[t] = p
InRing(p)   == \E t \in Threads : /\ pc[t] \in TakePcs \cup StorePcs
                                  /\ pipe_idx[t] = p
StaleWake(p) == \E t \in Apps : /\ pc[t] = "rcv_take"
                                /\ pipe_idx[t] = p
                                /\ NumberOfMessages[p] < 2

Raced == {p \in Pipes : (Deleting(p) /\ InRing(p)) \/ StaleWake(p)}

\* The last conjunct of every action: it reads the next state.
RecordRaces == tainted' = tainted \cup Raced'

-----------------------------------------------------------------------------
(* CFE_SB_CreatePipe: an unlocked search, then the claim, then the id.     *)
(* The ring is left as the last invalidate_pipe left it.                   *)

CreatePipe_Call(t, Depth) ==
    /\ Call(t, "create")
    /\ LET i == First({p \in Pipes : ~InUse[p]}, INVALID_PIPE) IN
       \/ /\ Depth \notin 1 .. MAX_PIPE_DEPTH
          /\ Return(t, "CFE_SB_BAD_ARGUMENT")
       \/ /\ Depth \in 1 .. MAX_PIPE_DEPTH
          /\ i = INVALID_PIPE
          /\ Return(t, "MAX_PIPES_MET")
       \/ /\ Depth \in 1 .. MAX_PIPE_DEPTH
          /\ i # INVALID_PIPE
          /\ Enter(t, "create_claim", i)
          /\ UNCHANGED locals
    /\ UNCHANGED <<ring, table, receive_mutex, BufPtr, external>>
    /\ RecordRaces

CreatePipe_Claim(t) ==
    /\ At(t, "create_claim")
    /\ InUse' = [InUse EXCEPT ![pipe_idx[t]] = TRUE]
    /\ Goto(t, "create_id")
    /\ UNCHANGED <<ring, PipeId, SubscribedMsgIds, receive_mutex, pipe_idx,
                   locals, outcome, external>>
    /\ RecordRaces

CreatePipe_Id(t) ==
    /\ At(t, "create_id")
    /\ PipeId' = [PipeId EXCEPT ![pipe_idx[t]] = pipe_idx[t]]
    /\ Return(t, "CFE_SUCCESS")
    /\ UNCHANGED <<ring, InUse, SubscribedMsgIds, receive_mutex, BufPtr,
                   external>>
    /\ RecordRaces

-----------------------------------------------------------------------------
(* CFE_SB_DeletePipe: an unlocked search, then invalidate_pipe field by    *)
(* field.  SBN is not told.                                                *)

DeletePipe_Call(t, id) ==
    /\ Call(t, "delete")
    /\ LET i == First({p \in Pipes : PipeId[p] = id}, INVALID_PIPE) IN
       \/ /\ i = INVALID_PIPE
          /\ Return(t, "-2")
       \/ /\ i # INVALID_PIPE
          /\ ~InUse[i]
          /\ Return(t, "-1")
       \/ /\ i # INVALID_PIPE
          /\ InUse[i]
          /\ Enter(t, "del_inuse", i)
          /\ UNCHANGED locals
    /\ UNCHANGED <<ring, table, receive_mutex, BufPtr, external>>
    /\ RecordRaces

DeletePipe_InUse(t) ==
    /\ At(t, "del_inuse")
    /\ InUse' = [InUse EXCEPT ![pipe_idx[t]] = FALSE]
    /\ Goto(t, "del_id")
    /\ UNCHANGED <<ring, PipeId, SubscribedMsgIds, receive_mutex, pipe_idx,
                   locals, outcome, external>>
    /\ RecordRaces

DeletePipe_Id_Kept(t) ==
    /\ At(t, "del_id")
    /\ Goto(t, "del_count")
    /\ UNCHANGED <<ring, table, receive_mutex, pipe_idx, locals, outcome,
                   external>>
    /\ RecordRaces

DeletePipe_Id(t) ==
    /\ At(t, "del_id")
    /\ PipeId' = [PipeId EXCEPT ![pipe_idx[t]] = INVALID_PIPE]
    /\ Goto(t, "del_count")
    /\ UNCHANGED <<ring, InUse, SubscribedMsgIds, receive_mutex, pipe_idx,
                   locals, outcome, external>>
    /\ RecordRaces

DeletePipe_Count(t) ==
    /\ At(t, "del_count")
    /\ NumberOfMessages' = [NumberOfMessages EXCEPT ![pipe_idx[t]] = 1]
    /\ Goto(t, "del_read")
    /\ UNCHANGED <<ReadMessage, Messages, table, receive_mutex, pipe_idx,
                   locals, outcome, external>>
    /\ RecordRaces

DeletePipe_Read(t) ==
    /\ At(t, "del_read")
    /\ ReadMessage' =
          [ReadMessage EXCEPT ![pipe_idx[t]] = MAX_PIPE_DEPTH - 1]
    /\ Goto(t, "del_subs")
    /\ UNCHANGED <<NumberOfMessages, Messages, table, receive_mutex,
                   pipe_idx, locals, outcome, external>>
    /\ RecordRaces

DeletePipe_Subs(t) ==
    /\ At(t, "del_subs")
    /\ SubscribedMsgIds' = [SubscribedMsgIds EXCEPT
          ![pipe_idx[t]] = [j \in SubSlots |-> INVALID_MSG_ID]]
    /\ Return(t, "CFE_SUCCESS")
    /\ UNCHANGED <<ring, InUse, PipeId, receive_mutex, BufPtr, external>>
    /\ RecordRaces

-----------------------------------------------------------------------------
(* CFE_SB_Subscribe: an unlocked search for a free slot, the store, then   *)
(* the request to SBN, whose failure is only logged.                       *)

Subscribe_Call(t, id, msgid) ==
    /\ Call(t, "subscribe")
    /\ LET p == GetPipeIdx(id)
           j == GetMessageSubscribeIndex(id) IN
       \/ /\ p = INVALID_PIPE \/ j = MAX_MSG_IDS_MET
          /\ Return(t, "CFE_SB_BAD_ARGUMENT")
       \/ /\ p # INVALID_PIPE /\ j # MAX_MSG_IDS_MET
          /\ Enter(t, "sub_store", p)
          /\ MsgId' = [MsgId EXCEPT ![t] = msgid]
          /\ MsgIdIdx' = [MsgIdIdx EXCEPT ![t] = j]
          /\ UNCHANGED <<loaded_count, TimeOut>>
    /\ UNCHANGED <<ring, table, receive_mutex, BufPtr, external>>
    /\ RecordRaces

Subscribe_Store(t) ==
    /\ At(t, "sub_store")
    /\ SubscribedMsgIds' = [SubscribedMsgIds EXCEPT
          ![pipe_idx[t]][MsgIdIdx[t]] = MsgId[t]]
    /\ Goto(t, "sub_send")
    /\ UNCHANGED <<ring, InUse, PipeId, receive_mutex, pipe_idx, locals,
                   outcome, external>>
    /\ RecordRaces

Subscribe_Send(t) ==
    /\ At(t, "sub_send")
    /\ sbn_subs' \in {sbn_subs \cup {MsgId[t]}, sbn_subs}
    /\ Return(t, "CFE_SUCCESS")
    /\ UNCHANGED <<ring, table, receive_mutex, BufPtr, msg_buffer>>
    /\ RecordRaces

\* SubscribeEx, SubscribeLocal, Unsubscribe, UnsubscribeLocal and
\* ZeroCopySend say that they are not implemented, and do nothing.
UnimplementedCall(t) ==
    /\ Call(t, "subscribe")
    /\ Return(t, "-1")
    /\ UNCHANGED <<ring, table, receive_mutex, BufPtr, external>>
    /\ RecordRaces

-----------------------------------------------------------------------------
(* CFE_SB_RcvMsg.  Taking the mutex and testing NumberOfMessages is one    *)
(* step, as is giving it up in pthread_cond_wait.  The count is tested     *)
(* once, before the wait.                                                  *)

RcvMsg_Call(t, id, timeout) ==
    /\ Call(t, "receive")
    /\ \/ /\ GetPipeIdx(id) = INVALID_PIPE
          /\ Return(t, "CFE_SB_BAD_ARGUMENT")
       \/ /\ GetPipeIdx(id) # INVALID_PIPE
          /\ Enter(t, "rcv_lock", GetPipeIdx(id))
          /\ TimeOut' = [TimeOut EXCEPT ![t] = timeout]
          /\ UNCHANGED <<loaded_count, MsgId, MsgIdIdx>>
    /\ UNCHANGED <<ring, table, receive_mutex, BufPtr, external>>
    /\ RecordRaces

\* The mutex is free and t takes it; it leaves with status, to be returned.
Lock(t) ==
    /\ receive_mutex = None
    /\ receive_mutex' = t

LeaveWith(t, status) ==
    /\ Goto(t, "rcv_unlock")
    /\ ret' = [ret EXCEPT ![t] = status]

RcvMsg_Lock(t) ==
    /\ At(t, "rcv_lock")
    /\ \/ /\ ~NothingUnread(pipe_idx[t])
          /\ Lock(t)
          /\ Goto(t, "rcv_take")
          /\ UNCHANGED ret
       \/ /\ NothingUnread(pipe_idx[t])
          /\ TimeOut[t] = "poll"
          /\ Lock(t)
          /\ LeaveWith(t, "CFE_SB_NO_MESSAGE")
       \/ /\ NothingUnread(pipe_idx[t])
          /\ TimeOut[t] # "poll"
          /\ receive_mutex = None
          /\ Goto(t, "rcv_wait")
          /\ UNCHANGED <<receive_mutex, ret>>
    /\ UNCHANGED <<ring, table, pipe_idx, locals, BufPtr, external>>
    /\ RecordRaces

RcvMsg_LockFails(t) ==
    /\ SyncFaults
    /\ At(t, "rcv_lock")
    /\ ReturnFromRcvMsg(t, "CFE_SB_PIPE_RD_ERR")
    /\ UNCHANGED <<ring, table, receive_mutex, external>>
    /\ RecordRaces

RcvMsg_WaitFails(t) ==
    /\ SyncFaults
    /\ At(t, "rcv_lock")
    /\ NothingUnread(pipe_idx[t])
    /\ TimeOut[t] # "poll"
    /\ Lock(t)
    /\ LeaveWith(t, "CFE_SB_PIPE_RD_ERR")
    /\ UNCHANGED <<ring, table, pipe_idx, locals, BufPtr, external>>
    /\ RecordRaces

RcvMsg_SpuriousWakeup(t) ==
    /\ Spurious
    /\ At(t, "rcv_wait")
    /\ Goto(t, "rcv_wake")
    /\ UNCHANGED <<ring, table, receive_mutex, pipe_idx, locals, outcome,
                   external>>
    /\ RecordRaces

RcvMsg_TimesOut(t) ==
    /\ At(t, "rcv_wait")
    /\ TimeOut[t] = "timed"
    /\ Goto(t, "rcv_timedout")
    /\ UNCHANGED <<ring, table, receive_mutex, pipe_idx, locals, outcome,
                   external>>
    /\ RecordRaces

\* The wait returns, with the mutex: it is not asked again whether a
\* message is there.
RcvMsg_Relock(t) ==
    /\ Lock(t)
    /\ \/ /\ At(t, "rcv_wake")
          /\ Goto(t, "rcv_take")
          /\ UNCHANGED ret
       \/ /\ At(t, "rcv_timedout")
          /\ LeaveWith(t, "CFE_SB_TIME_OUT")
    /\ UNCHANGED <<ring, table, pipe_idx, locals, BufPtr, external>>
    /\ RecordRaces

RcvMsg_Take(t) ==
    /\ At(t, "rcv_take")
    /\ LET p == pipe_idx[t] IN
       /\ ReadMessage' = [ReadMessage EXCEPT ![p] = next_msg(p)]
       /\ BufPtr' = [BufPtr EXCEPT ![t] = <<p, next_msg(p)>>]
       /\ loaded_count' = [loaded_count EXCEPT ![t] = NumberOfMessages[p]]
    /\ Goto(t, "rcv_count")
    /\ UNCHANGED <<NumberOfMessages, Messages, table, receive_mutex,
                   pipe_idx, MsgId, MsgIdIdx, TimeOut, ret, external>>
    /\ RecordRaces

RcvMsg_Count(t) ==
    /\ At(t, "rcv_count")
    /\ NumberOfMessages' = [NumberOfMessages EXCEPT
          ![pipe_idx[t]] = (loaded_count[t] - 1) % UINT32]
    /\ LeaveWith(t, "CFE_SUCCESS")
    /\ UNCHANGED <<ReadMessage, Messages, table, receive_mutex, pipe_idx,
                   locals, BufPtr, external>>
    /\ RecordRaces

RcvMsg_Unlock(t) ==
    /\ At(t, "rcv_unlock")
    /\ receive_mutex' = None
    /\ ReturnFromRcvMsg(t, ret[t])
    /\ UNCHANGED <<ring, table, external>>
    /\ RecordRaces

\* The mutex stays locked, and a message already taken is not handed out.
RcvMsg_UnlockFails(t) ==
    /\ SyncFaults
    /\ At(t, "rcv_unlock")
    /\ ReturnFromRcvMsg(t, "CFE_SB_PIPE_RD_ERR")
    /\ UNCHANGED <<ring, table, receive_mutex, external>>
    /\ RecordRaces

-----------------------------------------------------------------------------
(* The receive thread: recv_msg has read an application message, and       *)
(* ingest_app_message stores it in the first pipe that subscribes to it.   *)
(* What recv_msg reads and how it fails is the subject of SbnReceive.      *)

Minder_Receive(m) ==
    /\ At(Minder, "idle")
    /\ Unasked \/ MsgIdOf[m] \in sbn_subs
    /\ msg_buffer' = m
    /\ Goto(Minder, "ing_lock")
    /\ UNCHANGED <<ring, table, receive_mutex, pipe_idx, locals, outcome,
                   sbn_subs>>
    /\ RecordRaces

\* The pipe the message goes to.
Destination_AnyPipe == First({p \in Pipes : InUse[p]}, INVALID_PIPE)

Destination ==
    First({p \in Pipes : InUse[p] /\ Subscribes(p, MsgIdOf[msg_buffer])},
          INVALID_PIPE)

\* The message is dropped, and the mutex released at once.
Ingest_Return ==
    /\ receive_mutex = None
    /\ Goto(Minder, "idle")
    /\ msg_buffer' = NoMsg
    /\ UNCHANGED <<ring, table, receive_mutex, pipe_idx, locals, outcome,
                   sbn_subs>>

\* No pipe is in use, or none that is subscribes to the message.
Ingest_NoPipe ==
    /\ At(Minder, "ing_lock")
    /\ Destination = INVALID_PIPE
    /\ Ingest_Return
    /\ RecordRaces

\* The first pipe that subscribes is full; no other is looked for.
Ingest_Overflow ==
    /\ At(Minder, "ing_lock")
    /\ Destination # INVALID_PIPE
    /\ Full(Destination)
    /\ Ingest_Return
    /\ RecordRaces

Ingest_Lock ==
    /\ At(Minder, "ing_lock")
    /\ Destination # INVALID_PIPE
    /\ ~Full(Destination)
    /\ Lock(Minder)
    /\ pipe_idx' = [pipe_idx EXCEPT ![Minder] = Destination]
    /\ Goto(Minder, "ing_copy")
    /\ UNCHANGED <<ring, table, locals, outcome, external>>
    /\ RecordRaces

Ingest_Copy ==
    /\ At(Minder, "ing_copy")
    /\ LET p == pipe_idx[Minder] IN
       /\ Messages' =
             [Messages EXCEPT ![p][message_entry_point(p)] = msg_buffer]
       /\ loaded_count' =
             [loaded_count EXCEPT ![Minder] = NumberOfMessages[p]]
    /\ Goto(Minder, "ing_count")
    /\ UNCHANGED <<NumberOfMessages, ReadMessage, table, receive_mutex,
                   pipe_idx, MsgId, MsgIdIdx, TimeOut, outcome, external>>
    /\ RecordRaces

Ingest_Count ==
    /\ At(Minder, "ing_count")
    /\ NumberOfMessages' = [NumberOfMessages EXCEPT
          ![pipe_idx[Minder]] = (loaded_count[Minder] + 1) % UINT32]
    /\ receive_mutex' = None
    /\ Goto(Minder, "ing_signal")
    /\ UNCHANGED <<ReadMessage, Messages, table, pipe_idx, locals, outcome,
                   external>>
    /\ RecordRaces

Waiters == {t \in Apps : At(t, "rcv_wait")}

\* pthread_cond_signal, after the mutex was released: one waiter wakes, of
\* whichever pipe, if there is one.
Ingest_Signal ==
    /\ At(Minder, "ing_signal")
    /\ \/ /\ Waiters = {}
          /\ Goto(Minder, "idle")
       \/ \E t \in Waiters :
             pc' = [pc EXCEPT ![t] = "rcv_wake", ![Minder] = "idle"]
    /\ msg_buffer' = NoMsg
    /\ pipe_idx' = [pipe_idx EXCEPT ![Minder] = INVALID_PIPE]
    /\ loaded_count' = [loaded_count EXCEPT ![Minder] = 0]
    /\ UNCHANGED <<ring, table, receive_mutex, MsgId, MsgIdIdx, TimeOut,
                   outcome, sbn_subs>>
    /\ RecordRaces

-----------------------------------------------------------------------------

Init ==
    /\ InUse = [p \in Pipes |-> FALSE]
    /\ PipeId = [p \in Pipes |-> INVALID_PIPE]
    /\ NumberOfMessages = [p \in Pipes |-> 1]
    /\ ReadMessage = [p \in Pipes |-> MAX_PIPE_DEPTH - 1]
    /\ Messages = [p \in Pipes |-> [s \in Slots |-> NoMsg]]
    /\ SubscribedMsgIds =
          [p \in Pipes |-> [j \in SubSlots |-> INVALID_MSG_ID]]
    /\ receive_mutex = None
    /\ pc = [t \in Threads |-> "idle"]
    /\ pipe_idx = [t \in Threads |-> INVALID_PIPE]
    /\ loaded_count = [t \in Threads |-> 0]
    /\ MsgId = [t \in Apps |-> INVALID_MSG_ID]
    /\ MsgIdIdx = [t \in Apps |-> MAX_MSG_IDS_MET]
    /\ TimeOut = [t \in Apps |-> None]
    /\ ret = [t \in Apps |-> "none"]
    /\ BufPtr = [t \in Apps |-> None]
    /\ msg_buffer = NoMsg
    /\ sbn_subs = {}
    /\ tainted = {}

\* The application makes a call: it need not.
AppCall(t) ==
    \/ \E Depth \in {0, 1, MAX_PIPE_DEPTH, MAX_PIPE_DEPTH + 1} :
          CreatePipe_Call(t, Depth)
    \/ \E id \in Pipes \cup {INVALID_PIPE} : DeletePipe_Call(t, id)
    \/ \E id \in Pipes, msgid \in MsgIds : Subscribe_Call(t, id, msgid)
    \/ \E id \in Pipes, timeout \in TimeOuts : RcvMsg_Call(t, id, timeout)
    \/ UnimplementedCall(t)

\* A call that has started goes on: the thread is scheduled.
AppStep(t) ==
    \/ CreatePipe_Claim(t)
    \/ CreatePipe_Id(t)
    \/ DeletePipe_InUse(t)
    \/ DeletePipe_Id(t)
    \/ DeletePipe_Count(t)
    \/ DeletePipe_Read(t)
    \/ DeletePipe_Subs(t)
    \/ Subscribe_Store(t)
    \/ Subscribe_Send(t)
    \/ RcvMsg_Lock(t)
    \/ RcvMsg_TimesOut(t)
    \/ RcvMsg_Relock(t)
    \/ RcvMsg_Take(t)
    \/ RcvMsg_Count(t)
    \/ RcvMsg_Unlock(t)

\* What the system may do to a call, and need not.
AppFault(t) ==
    \/ RcvMsg_SpuriousWakeup(t)
    \/ RcvMsg_LockFails(t)
    \/ RcvMsg_WaitFails(t)
    \/ RcvMsg_UnlockFails(t)

MinderStep ==
    \/ Ingest_NoPipe
    \/ Ingest_Overflow
    \/ Ingest_Lock
    \/ Ingest_Copy
    \/ Ingest_Count
    \/ Ingest_Signal

Next ==
    \/ \E t \in Apps : AppCall(t) \/ AppStep(t) \/ AppFault(t)
    \/ \E m \in Msgs : Minder_Receive(m)
    \/ MinderStep

Spec == Init /\ [][Next]_vars

-----------------------------------------------------------------------------
(* What must hold                                                          *)

\* How many messages of p no thread has taken yet: one less than
\* NumberOfMessages, which counts the message last read, and one less again
\* while a thread is between its two writes.
Unread(p) ==
    NumberOfMessages[p] - 1
      - (IF \E t \in Apps : pc[t] = "rcv_count" /\ pipe_idx[t] = p
         THEN 1 ELSE 0)

UnreadSlot(p, k) == (ReadMessage[p] + k) % MAX_PIPE_DEPTH

\* What makes RingIntegrity inductive: the locals of a call under way are set;
\* the threads in a critical section hold the mutex; and what the holder read
\* of the count still holds when it writes it back.
Placement ==
    /\ \A t \in Threads :
          pc[t] \notin {"idle", "ing_lock"} => pipe_idx[t] \in Pipes
    /\ \A t \in Apps :
          pc[t] \in {"sub_store", "sub_send"} => MsgId[t] \in MsgIds
    /\ \A t \in Apps : pc[t] = "sub_store" => MsgIdIdx[t] \in SubSlots
    /\ pc[Minder] \in {"ing_lock"} \cup StorePcs => msg_buffer \in Msgs

LockDiscipline == \A t \in Threads : pc[t] \in CriticalPcs => receive_mutex = t

CountStands(t) ==
    pipe_idx[t] \in tainted
    \/ /\ pc[t] \in {"rcv_count", "ing_count"}
             => loaded_count[t] = NumberOfMessages[pipe_idx[t]]
       /\ pc[t] \in TakePcs => NumberOfMessages[pipe_idx[t]] >= 2
       /\ pc[t] \in StorePcs
             => NumberOfMessages[pipe_idx[t]] < MAX_PIPE_DEPTH

\* A pipe always counts the message last read and never more than its depth
\* (the comment of invalidate_pipe, and the overflow test of
\* ingest_app_message): RcvMsg and ingest keep the count in range on every
\* pipe the two races have not reached.
RingIntegrity ==
    \A p \in Pipes \ tainted : NumberOfMessages[p] \in 1 .. MAX_PIPE_DEPTH

IInv ==
    /\ TypeOK
    /\ Placement
    /\ LockDiscipline
    /\ \A t \in Threads : CountStands(t)
    /\ Raced \subseteq tainted
    /\ RingIntegrity

\* The message last handed out by RcvMsg stays as it was: no message that
\* comes in is copied over the slot ReadMessage names, the one BufPtr points
\* to.
HeldMessageKept ==
    [][\A p \in Pipes \ tainted' :
          Messages'[p][ReadMessage[p]] = Messages[p][ReadMessage[p]]]_vars

\* Every message that waits in a pipe is one the pipe subscribes to ("copied
\* into the correct pipe for the message's id").  With several threads, or
\* on a pipe invalidate_pipe has raced with, it may not be.
UnreadAreSubscribed ==
    \A p \in Pipes \ tainted : \A k \in 1 .. Unread(p) :
       Messages[p][UnreadSlot(p, k)] \in
          {m \in Msgs : Subscribes(p, MsgIdOf[m])}

\* The same for every pipe that nobody is in the middle of creating, deleting
\* or reading, whatever happened before.
InCorrectPipe ==
    \A p \in Pipes : \A k \in 1 .. Unread(p) :
       \/ ~InUse[p]
       \/ \E t \in Apps : pipe_idx[t] = p
       \/ Messages[p][UnreadSlot(p, k)] \in
             {m \in Msgs : Subscribes(p, MsgIdOf[m])}

\* A pipe in use has its own index for PipeId, which is what GetPipeIdx
\* relies on, unless a CreatePipe or DeletePipe is half-way through it.
PipeIdMatchesIdx ==
    \A p \in Pipes :
       \/ PipeId[p] = IF InUse[p] THEN p ELSE INVALID_PIPE
       \/ \E t \in Apps : /\ pc[t] \in DeletePcs \cup {"create_id"}
                          /\ pipe_idx[t] = p

\* A subscription that was stored is lost only when its pipe is deleted.
SubscriptionsKept ==
    [][\A p \in Pipes, id \in MsgIds :
          Subscribes(p, id) => Subscribes(p, id)' \/ Deleting(p)]_vars

\* A thread that waits on a pipe while there is something unread in it is
\* about to be woken: the receive thread has yet to signal.  Nothing else
\* would wake a thread that pends forever.
NoLostWakeup ==
    \A t \in Apps :
       pc[t] = "rcv_wait" /\ Unread(pipe_idx[t]) >= 1
       => At(Minder, "ing_signal")

\* The comments of invalidate_pipe and RcvMsg, taken at their word: the count
\* of no pipe ever falls below one.
MinimumOneMessage == \A p \in Pipes : NumberOfMessages[p] >= 1

\* A thread does not wait for ever on a pipe with an unread message in it: it
\* is woken, or another thread takes the message.
PendServed ==
    \A t \in Apps :
       LET stuck == pc[t] = "rcv_wait" /\ Unread(pipe_idx[t]) >= 1
       IN  stuck ~> ~stuck

\* The threads are scheduled: one that can always take its next step of a
\* call, or of ingest_app_message, takes it.  Nothing makes the application
\* call, SBN send or the system fail.
Fairness ==
    /\ \A t \in Apps : WF_vars(AppStep(t))
    /\ WF_vars(MinderStep)

FairSpec == Spec /\ Fairness
=============================================================================
