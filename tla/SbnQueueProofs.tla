-------------------------- MODULE SbnQueueProofs ---------------------------
(***************************************************************************)
(* More theorems about SbnPipes.  First that it implements PipeQueue, for  *)
(* any number of threads: every action is a step on one pipe, and on that  *)
(* pipe a step of the queue.  Then what an application can rely on that    *)
(* makes its calls from one thread, whatever the receive thread does       *)
(* meanwhile: GetPipeIdx finds pipes under their own ids, subscriptions    *)
(* last, and messages lie in pipes that subscribe to them.                 *)
(***************************************************************************)
EXTENDS SbnPipesProofs, SbnPipesQueue, SequenceTheorems

-----------------------------------------------------------------------------
(* The slots of a ring                                                     *)

Ring(r, k) == (r + k) % MAX_PIPE_DEPTH

LEMMA RingWraps ==
    ASSUME NEW r \in Slots, NEW k \in 0 .. MAX_PIPE_DEPTH
    PROVE  /\ Ring(r, k) = IF r + k < MAX_PIPE_DEPTH THEN r + k
                           ELSE r + k - MAX_PIPE_DEPTH
           /\ Ring(r, k) \in Slots
<1>1. /\ r \in Nat /\ k \in Nat /\ r < MAX_PIPE_DEPTH
      /\ MAX_PIPE_DEPTH \in Nat \ {0}
  BY SizesTyped DEF Slots
<1>2. PICK n \in Nat : n = r + k /\ n < 2 * MAX_PIPE_DEPTH
  BY <1>1
<1>3. CASE n < MAX_PIPE_DEPTH
  <2>1. n % MAX_PIPE_DEPTH = n
    BY <1>1, <1>3, ModBelow
  <2> QED BY <1>1, <1>2, <1>3, <2>1 DEF Ring, Slots
<1>4. CASE n >= MAX_PIPE_DEPTH
  <2>1. n % MAX_PIPE_DEPTH = n - MAX_PIPE_DEPTH
    BY <1>1, <1>2, <1>4, ModOnce
  <2> QED BY <1>1, <1>2, <1>4, <2>1 DEF Ring, Slots
<1> QED BY <1>1, <1>2, <1>3, <1>4

\* Two slots at different places after r are different.
LEMMA RingDiffers ==
    ASSUME NEW r \in Slots, NEW k \in Nat, NEW n \in 0 .. MAX_PIPE_DEPTH - 1,
           k < n
    PROVE  Ring(r, k) # Ring(r, n)
<1>1. /\ r \in Nat /\ r < MAX_PIPE_DEPTH /\ MAX_PIPE_DEPTH \in Nat \ {0}
      /\ k \in 0 .. MAX_PIPE_DEPTH /\ n \in 0 .. MAX_PIPE_DEPTH
  BY SizesTyped DEF Slots
<1> QED BY <1>1, RingWraps

\* One step on, and k more.
LEMMA RingNext ==
    ASSUME NEW r \in Slots, NEW k \in 0 .. MAX_PIPE_DEPTH - 1
    PROVE  /\ Ring(r, 1) \in Slots
           /\ Ring(Ring(r, 1), k) = Ring(r, k + 1)
<1>1. /\ r \in Nat /\ r < MAX_PIPE_DEPTH /\ MAX_PIPE_DEPTH \in Nat \ {0}
      /\ k \in 0 .. MAX_PIPE_DEPTH /\ k + 1 \in 0 .. MAX_PIPE_DEPTH
      /\ 1 \in 0 .. MAX_PIPE_DEPTH
  BY SizesTyped DEF Slots
<1>2. /\ Ring(r, 1) = IF r + 1 < MAX_PIPE_DEPTH THEN r + 1
                      ELSE r + 1 - MAX_PIPE_DEPTH
      /\ Ring(r, 1) \in Slots
  BY <1>1, RingWraps
<1>3. Ring(r, k + 1) = IF r + (k + 1) < MAX_PIPE_DEPTH THEN r + (k + 1)
                       ELSE r + (k + 1) - MAX_PIPE_DEPTH
  BY <1>1, RingWraps
<1>4. PICK s \in Slots : s = Ring(r, 1)
  BY <1>2
<1>5. Ring(s, k) = IF s + k < MAX_PIPE_DEPTH THEN s + k
                   ELSE s + k - MAX_PIPE_DEPTH
  BY <1>1, RingWraps
<1>6. Ring(s, k) = Ring(r, k + 1)
  BY <1>1, <1>2, <1>3, <1>4, <1>5
<1> QED BY <1>2, <1>4, <1>6

\* message_entry_point is the slot after the last unread message.
LEMMA EntrySlot ==
    ASSUME TypeOK, NEW p \in Pipes, NumberOfMessages[p] \in 1 .. MAX_PIPE_DEPTH
    PROVE  message_entry_point(p) = UnreadSlot(p, NumberOfMessages[p])
<1>1. /\ ReadMessage[p] \in Nat /\ ReadMessage[p] < MAX_PIPE_DEPTH
      /\ NumberOfMessages[p] \in Nat
  BY SizesTyped DEF TypeOK, Slots
<1>2. (ReadMessage[p] + NumberOfMessages[p]) % UINT32
         = ReadMessage[p] + NumberOfMessages[p]
  BY <1>1, SizesTyped, ModBelow
<1> QED BY <1>2 DEF message_entry_point, UnreadSlot

-----------------------------------------------------------------------------
(* What is in a pipe                                                       *)

\* A thread is between the two writes of taking a message from p.
Taking(p) == \E t \in Apps : pc[t] = "rcv_count" /\ pipe_idx[t] = p

Held(p) == Messages[p][ReadMessage[p]]

Stored == Msgs \cup {NoMsg}

\* What a pipe no race has reached holds.
LEMMA Contained ==
    ASSUME IInv, NEW p \in Pipes \ tainted
    PROVE  /\ Unread(p) = NumberOfMessages[p] - (IF Taking(p) THEN 2 ELSE 1)
           /\ Unread(p) \in 0 .. MAX_PIPE_DEPTH - 1
           /\ Contents(p) \in Seq(Stored)
           /\ Len(Contents(p)) = Unread(p)
           /\ \A k \in 1 .. Unread(p) :
                 Contents(p)[k] = Messages[p][UnreadSlot(p, k)]
           /\ Held(p) \in Stored
<1>1. /\ NumberOfMessages[p] \in 1 .. MAX_PIPE_DEPTH
      /\ Taking(p) => NumberOfMessages[p] >= 2
  BY Untainted DEF Taking, TakePcs, Threads
<1>2. /\ ReadMessage[p] \in Slots /\ MAX_PIPE_DEPTH \in Nat \ {0}
      /\ Messages[p] \in [Slots -> Stored]
  BY SizesTyped DEF IInv, TypeOK, Stored
<1>3. /\ Unread(p) = NumberOfMessages[p] - (IF Taking(p) THEN 2 ELSE 1)
      /\ Unread(p) \in 0 .. MAX_PIPE_DEPTH - 1
  BY <1>1, <1>2 DEF Unread, Taking
<1>4. \A k \in 1 .. Unread(p) : UnreadSlot(p, k) \in Slots
  <2>1. \A k \in 1 .. Unread(p) : k \in 0 .. MAX_PIPE_DEPTH
    BY <1>2, <1>3
  <2> QED BY <1>2, <2>1, RingWraps DEF UnreadSlot, Ring
<1>5. \A k \in 1 .. Unread(p) : Messages[p][UnreadSlot(p, k)] \in Stored
  BY <1>2, <1>4
<1> DEFINE n == Unread(p)
           m(k) == Messages[p][UnreadSlot(p, k)]
<1>6. n \in Nat /\ \A k \in 1 .. n : m(k) \in Stored
  BY <1>2, <1>3, <1>5
<1>7. Contents(p) = [k \in 1 .. n |-> m(k)]
  BY DEF Contents
<1> HIDE DEF n, m
<1>8. [k \in 1 .. n |-> m(k)] \in Seq(Stored)
  BY <1>6
<1>9. Len(Contents(p)) = n /\ \A k \in 1 .. n : Contents(p)[k] = m(k)
  BY <1>6, <1>7, <1>8
<1>10. Held(p) \in Stored
  BY <1>2 DEF Held
<1> QED BY <1>3, <1>7, <1>8, <1>9, <1>10 DEF n, m

\* The same fields hold the same.
LEMMA SameContents ==
    ASSUME NEW p, NumberOfMessages'[p] = NumberOfMessages[p],
           ReadMessage'[p] = ReadMessage[p], Messages'[p] = Messages[p],
           Taking(p)' <=> Taking(p)
    PROVE  Contents(p)' = Contents(p) /\ Held(p)' = Held(p)
BY DEF Contents, Unread, UnreadSlot, Taking, Held

-----------------------------------------------------------------------------
(* A step is on one pipe at most.                                          *)

BusyPcs == DeletePcs \cup RingPcs

Elsewhere(i) ==
    \A q \in Pipes \ {i} :
       /\ q \in tainted' <=> q \in tainted
       /\ Deleting(q)' <=> Deleting(q)
       /\ Contents(q)' = Contents(q) /\ Held(q)' = Held(q)

\* The steps of t on pipe i.
LEMMA Apart ==
    ASSUME IInv, RecordRaces, NEW t \in Threads, NEW i \in Pipes,
           \A u \in Threads \ {t} :
              /\ pipe_idx'[u] = pipe_idx[u]
              /\ pc'[u] = pc[u] \/ {pc[u], pc'[u]} \cap BusyPcs = {},
           pc[t] \in BusyPcs => pipe_idx[t] = i,
           pc'[t] \in BusyPcs => pipe_idx'[t] = i,
           \A q \in Pipes \ {i} :
              /\ NumberOfMessages'[q] = NumberOfMessages[q]
              /\ ReadMessage'[q] = ReadMessage[q]
              /\ Messages'[q] = Messages[q]
    PROVE  Elsewhere(i)
<1> SUFFICES ASSUME NEW q \in Pipes \ {i}
             PROVE  /\ q \in tainted' <=> q \in tainted
                    /\ Deleting(q)' <=> Deleting(q)
                    /\ Contents(q)' = Contents(q) /\ Held(q)' = Held(q)
  BY DEF Elsewhere
<1>1. \A u \in Threads, l \in BusyPcs :
         pc'[u] = l /\ pipe_idx'[u] = q <=> pc[u] = l /\ pipe_idx[u] = q
  <2> SUFFICES ASSUME NEW u \in Threads, NEW l \in BusyPcs
               PROVE  pc'[u] = l /\ pipe_idx'[u] = q
                         <=> pc[u] = l /\ pipe_idx[u] = q
    OBVIOUS
  <2>1. CASE u = t
    BY <2>1
  <2>2. CASE u # t
    BY <2>2
  <2> QED BY <2>1, <2>2
<1>2. Apps \subseteq Threads /\ {"rcv_take", "rcv_count"} \subseteq BusyPcs
      /\ DeletePcs \subseteq BusyPcs /\ TakePcs \cup StorePcs \subseteq BusyPcs
  BY DEF Threads, BusyPcs, RingPcs, TakePcs
<1>3. Deleting(q)' <=> Deleting(q)
  BY <1>1, <1>2 DEF Deleting
<1>4. InRing(q)' <=> InRing(q)
  BY <1>1, <1>2 DEF InRing
<1>5. StaleWake(q)' <=> StaleWake(q)
  BY <1>1, <1>2 DEF StaleWake
<1>6. Taking(q)' <=> Taking(q)
  BY <1>1, <1>2 DEF Taking
<1>7. q \in Raced' <=> q \in Raced
  BY <1>3, <1>4, <1>5 DEF Raced
<1>8. q \in tainted' <=> q \in tainted
  BY <1>7 DEF RecordRaces, IInv
<1>9. Contents(q)' = Contents(q) /\ Held(q)' = Held(q)
  BY <1>6, SameContents
<1> QED BY <1>3, <1>8, <1>9

\* What a step may do to the pipe it is on, in the terms of PipeQueue.
Idles(i) == /\ Contents(i)' = Contents(i) /\ Held(i)' = Held(i)
            /\ Deleting(i)' <=> Deleting(i)

Stores(i) == /\ ~Deleting(i) /\ ~Deleting(i)'
             /\ Len(Contents(i)) < MAX_PIPE_DEPTH - 1
             /\ pc[Minder] = "ing_count" /\ pc'[Minder] = "ing_signal"
             /\ pipe_idx[Minder] = i /\ msg_buffer \in Msgs
             /\ Contents(i)' = Append(Contents(i), msg_buffer)
             /\ Held(i)' = Held(i)

Takes(i) == /\ ~Deleting(i) /\ ~Deleting(i)'
            /\ \E t \in Apps : pc[t] = "rcv_take" /\ pc'[t] = "rcv_count"
            /\ Contents(i) # <<>>
            /\ Held(i)' = Head(Contents(i))
            /\ Contents(i)' = Tail(Contents(i))

StartsDelete(i) == /\ Deleting(i)'
                   /\ Contents(i)' = Contents(i) /\ Held(i)' = Held(i)

Clears(i) == /\ Deleting(i) /\ Deleting(i)'
             /\ Contents(i)' = <<>> /\ Held(i)' \in Stored

EndsDelete(i) == /\ Contents(i) = <<>> /\ ~Deleting(i)'
                 /\ Contents(i)' = <<>> /\ Held(i)' = Held(i)

StepOn(i) ==
    /\ Elsewhere(i)
    /\ i \notin tainted' =>
          \/ Idles(i) \/ Stores(i) \/ Takes(i)
          \/ StartsDelete(i) \/ Clears(i) \/ EndsDelete(i)

\* A step on a pipe is a step of PipeQueue, or stutters.
LEMMA StepOnIsNext ==
    ASSUME NEW i \in Pipes, StepOn(i),
           tainted \subseteq tainted', tainted' \subseteq Pipes
    PROVE  [Queue!Next]_Queue!qvars
<1> USE DEF Stored
<1>1. CASE i \in tainted
  <2>1. UNCHANGED Queue!qvars
    BY <1>1 DEF StepOn, Elsewhere, Queue!qvars, Held
  <2> QED BY <2>1
<1>2. CASE i \notin tainted /\ i \in tainted'
  <2>1. Queue!GiveUp(i)
    BY <1>2 DEF StepOn, Elsewhere, Queue!GiveUp, Held
  <2> QED BY <2>1 DEF Queue!Next
<1>3. CASE i \notin tainted'
  <2>1. tainted' = tainted /\ i \notin tainted
    BY <1>3 DEF StepOn, Elsewhere
  <2>2. CASE Idles(i)
    BY <2>1, <2>2 DEF StepOn, Elsewhere, Idles, Queue!qvars, Held
  <2>3. CASE Stores(i)
    <3>1. /\ ~Deleting(i) /\ ~Deleting(i)'
          /\ Len(Contents(i)) < MAX_PIPE_DEPTH - 1 /\ Held(i)' = Held(i)
      BY <2>3 DEF Stores
    <3>2. PICK m \in Msgs : Contents(i)' = Append(Contents(i), m)
      BY <2>3 DEF Stores
    <3>3. Queue!Store(i, m)
      BY <2>1, <3>1, <3>2 DEF StepOn, Elsewhere, Queue!Store, Held
    <3> QED BY <2>1, <3>3 DEF Queue!Next
  <2>4. CASE Takes(i)
    <3>1. Queue!Take(i)
      BY <2>1, <2>4 DEF StepOn, Elsewhere, Takes, Queue!Take, Held
    <3> QED BY <2>1, <3>1 DEF Queue!Next
  <2>5. CASE StartsDelete(i)
    <3>1. Queue!StartDelete(i)
      BY <2>1, <2>5
         DEF StepOn, Elsewhere, StartsDelete, Queue!StartDelete, Held
    <3> QED BY <2>1, <3>1 DEF Queue!Next
  <2>6. CASE Clears(i)
    <3>1. PICK m \in Msgs \cup {NoMsg} : m = Held(i)'
      BY <2>6 DEF Clears
    <3>2. Queue!Clear(i, m)
      BY <2>1, <2>6, <3>1 DEF StepOn, Elsewhere, Clears, Queue!Clear, Held
    <3> QED BY <2>1, <3>2 DEF Queue!Next
  <2>7. CASE EndsDelete(i)
    <3>1. Queue!EndDelete(i)
      BY <2>1, <2>7
         DEF StepOn, Elsewhere, EndsDelete, Queue!EndDelete, Held
    <3> QED BY <2>1, <3>1 DEF Queue!Next
  <2> QED BY <1>3, <2>2, <2>3, <2>4, <2>5, <2>6, <2>7 DEF StepOn
<1> QED BY <1>1, <1>2, <1>3

-----------------------------------------------------------------------------
(* Every action is a step on some pipe.                                    *)

\* Beyond IInv: what ingest_app_message has copied lies in the slot its count
\* will bring in, and a pipe that is deleted stays empty once it was emptied.
EntryWritten ==
    LET q == pipe_idx[Minder] IN
    pc[Minder] = "ing_count" /\ q \notin tainted
    => Messages[q][UnreadSlot(q, NumberOfMessages[q])] = msg_buffer

StaysEmpty ==
    \A t \in Apps :
       pc[t] \in {"del_read", "del_subs"} /\ pipe_idx[t] \notin tainted
       => NumberOfMessages[pipe_idx[t]] = 1

QueueInv == IInv /\ EntryWritten /\ StaysEmpty

\* A step that leaves the ring alone, begins or ends no delete, and is not
\* between the two writes of a take.
LEMMA QuietOn ==
    ASSUME IInv, RecordRaces, NEW t \in Threads, NEW i \in Pipes,
           UNCHANGED ring,
           \A u \in Threads \ {t} :
              /\ pipe_idx'[u] = pipe_idx[u]
              /\ pc'[u] = pc[u] \/ {pc[u], pc'[u]} \cap BusyPcs = {},
           pc[t] \in BusyPcs => pipe_idx[t] = i,
           pc'[t] \in BusyPcs => pipe_idx'[t] = i,
           {pc[t], pc'[t]} \cap (DeletePcs \cup {"rcv_count"}) = {}
    PROVE  StepOn(i)
<1>1. NumberOfMessages' = NumberOfMessages /\ ReadMessage' = ReadMessage
      /\ Messages' = Messages
  BY DEF ring
<1>2. Elsewhere(i)
  BY <1>1, Apart
<1>3. \A u \in Threads, l \in DeletePcs \cup {"rcv_count"} :
         pc'[u] = l /\ pipe_idx'[u] = i <=> pc[u] = l /\ pipe_idx[u] = i
  <2>1. DeletePcs \cup {"rcv_count"} \subseteq BusyPcs
    BY DEF BusyPcs, RingPcs, TakePcs
  <2> SUFFICES ASSUME NEW u \in Threads,
                      NEW l \in DeletePcs \cup {"rcv_count"}
               PROVE  pc'[u] = l /\ pipe_idx'[u] = i
                         <=> pc[u] = l /\ pipe_idx[u] = i
    OBVIOUS
  <2>2. CASE u = t
    BY <2>2
  <2>3. CASE u # t
    BY <2>1, <2>3
  <2> QED BY <2>2, <2>3
<1>4. Apps \subseteq Threads
  BY DEF Threads
<1>5. (Deleting(i)' <=> Deleting(i)) /\ (Taking(i)' <=> Taking(i))
  BY <1>3, <1>4 DEF Deleting, Taking
<1>6. Idles(i)
  BY <1>1, <1>5, SameContents DEF Idles
<1> QED BY <1>2, <1>6 DEF StepOn

\* A call begins: on no pipe, or to delete one.
LEMMA CallOn ==
    ASSUME IInv, Placement', NEW t \in Apps, AppCall(t)
    PROVE  \E i \in Pipes : StepOn(i)
<1>0. t \in Threads /\ TypeOK /\ 0 \in Pipes
  BY SizesTyped DEF IInv, Threads, Pipes
<1>1. /\ RecordRaces /\ UNCHANGED ring
      /\ \A u \in Threads \ {t} : /\ pipe_idx'[u] = pipe_idx[u]
                                  /\ pc'[u] = pc[u]
      /\ pc[t] = "idle" /\ pc'[t] \in FirstPcs
  <2>1. pc[t] = "idle"
    BY DEF AppCall, CreatePipe_Call, DeletePipe_Call, Subscribe_Call,
           RcvMsg_Call, UnimplementedCall, Call, At
  <2> QED BY <1>0, <2>1, CallMoves, GotoMoves
<1>2. CASE pc'[t] # "del_inuse"
  <2>1. {pc[t], pc'[t]} \cap (BusyPcs \cup DeletePcs \cup {"rcv_count"}) = {}
    BY <1>1, <1>2
       DEF FirstPcs, BusyPcs, DeletePcs, RingPcs, TakePcs, StorePcs
  <2>2. StepOn(0)
    BY <1>0, <1>1, <2>1, QuietOn
  <2> QED BY <1>0, <2>2
<1>3. CASE pc'[t] = "del_inuse"
  <2> DEFINE i == pipe_idx'[t]
  <2>1. i \in Pipes
    BY <1>0, <1>3 DEF Placement
  <2>2. {pc[t], pc'[t]} \cap {"rcv_count"} = {} /\ pc[t] \notin BusyPcs
    BY <1>1, <1>3 DEF BusyPcs, DeletePcs, RingPcs, TakePcs, StorePcs
  <2>3. NumberOfMessages' = NumberOfMessages /\ ReadMessage' = ReadMessage
        /\ Messages' = Messages
    BY <1>1 DEF ring
  <2> PICK j \in Pipes : j = i
    BY <2>1
  <2>4. Elsewhere(j)
    BY <1>0, <1>1, <2>2, <2>3, Apart
  <2>5. Taking(j)' <=> Taking(j)
    BY <1>0, <1>1, <2>2 DEF Taking, Threads
  <2>6. Deleting(j)'
    BY <1>3 DEF Deleting, DeletePcs
  <2>7. StartsDelete(j)
    BY <2>3, <2>5, <2>6, SameContents DEF StartsDelete
  <2> QED BY <2>4, <2>7 DEF StepOn
<1> QED BY <1>2, <1>3

\* The steps of a call that touch neither a ring nor a deletion.
LEMMA CalmOn ==
    ASSUME IInv, NEW t \in Apps,
           \/ CreatePipe_Claim(t) \/ CreatePipe_Id(t)
           \/ Subscribe_Store(t) \/ Subscribe_Send(t)
           \/ RcvMsg_Lock(t) \/ RcvMsg_TimesOut(t) \/ RcvMsg_Relock(t)
           \/ RcvMsg_Unlock(t) \/ AppFault(t)
    PROVE  \E i \in Pipes : StepOn(i)
<1> DEFINE i == pipe_idx[t]
           Calm == {"create_claim", "create_id", "sub_store", "sub_send",
                    "rcv_lock", "rcv_wait", "rcv_wake", "rcv_timedout",
                    "rcv_unlock"}
<1>0. t \in Threads /\ TypeOK
  BY DEF IInv, Threads
<1>1. /\ RecordRaces /\ UNCHANGED ring /\ pc[t] \in Calm
      /\ pc'[t] \in Calm \cup {"idle", "rcv_take"}
      /\ \A u \in Threads \ {t} : /\ pipe_idx'[u] = pipe_idx[u]
                                  /\ pc'[u] = pc[u]
      /\ pipe_idx'[t] = i \/ pc'[t] = "idle"
  <2> USE <1>0 DEF At, Goto, ring, TypeOK
  <2>1. CASE CreatePipe_Claim(t) \/ Subscribe_Store(t) \/ RcvMsg_TimesOut(t)
             \/ RcvMsg_SpuriousWakeup(t)
    BY <2>1 DEF CreatePipe_Claim, Subscribe_Store, RcvMsg_TimesOut,
                RcvMsg_SpuriousWakeup
  <2>2. CASE RcvMsg_Lock(t) \/ RcvMsg_Relock(t) \/ RcvMsg_WaitFails(t)
    BY <2>2 DEF RcvMsg_Lock, RcvMsg_Relock, RcvMsg_WaitFails, LeaveWith
  <2>3. CASE CreatePipe_Id(t) \/ Subscribe_Send(t)
    BY <2>3 DEF CreatePipe_Id, Subscribe_Send, Return, ForgetLocals
  <2>4. CASE RcvMsg_Unlock(t) \/ RcvMsg_LockFails(t) \/ RcvMsg_UnlockFails(t)
    BY <2>4 DEF RcvMsg_Unlock, RcvMsg_LockFails, RcvMsg_UnlockFails,
                ReturnFromRcvMsg, Return, ForgetLocals
  <2> QED BY <2>1, <2>2, <2>3, <2>4 DEF AppFault
<1>2. i \in Pipes
  BY <1>0, <1>1 DEF IInv, Placement
<1>4. {pc[t], pc'[t]} \cap (DeletePcs \cup {"rcv_count"}) = {}
      /\ "idle" \notin BusyPcs
  BY <1>1 DEF DeletePcs, BusyPcs, RingPcs, TakePcs, StorePcs
<1> PICK j \in Pipes : j = i
  BY <1>2
<1>5. StepOn(j)
  BY <1>0, <1>1, <1>4, QuietOn
<1> QED BY <1>5

\* A pipe that is deleted, and that no race has reached, is nobody else's.
LEMMA DeletedAlone ==
    ASSUME IInv, NEW i \in Pipes \ tainted, Deleting(i)
    PROVE  ~InRing(i) /\ ~Taking(i)
<1>1. ~InRing(i)
  BY DEF IInv, Raced
<1>2. Taking(i) => InRing(i)
  BY DEF Taking, InRing, TakePcs, Threads
<1> QED BY <1>1, <1>2

\* A count of one is an empty pipe.
LEMMA EmptyNext ==
    ASSUME NEW i, NumberOfMessages'[i] = 1, ~Taking(i)'
    PROVE  Contents(i)' = <<>>
<1>1. Unread(i)' = 0
  <2>1. ~\E t \in Apps : pc'[t] = "rcv_count" /\ pipe_idx'[t] = i
    BY DEF Taking
  <2>2. Unread(i)' = NumberOfMessages'[i] - 1 - 0
    BY <2>1 DEF Unread
  <2> QED BY <2>2
<1>2. Contents(i)' = [k \in 1 .. 0 |-> Messages'[i][UnreadSlot(i, k)']]
  BY <1>1 DEF Contents
<1> QED BY <1>2

LEMMA DeleteOn ==
    ASSUME QueueInv, NEW t \in Apps,
           \/ DeletePipe_InUse(t) \/ DeletePipe_Id(t)
           \/ DeletePipe_Count(t) \/ DeletePipe_Read(t)
           \/ DeletePipe_Subs(t)
    PROVE  \E i \in Pipes : StepOn(i)
<1>0. t \in Threads /\ IInv /\ TypeOK
  BY DEF QueueInv, IInv, Threads
<1>1. /\ RecordRaces /\ pc[t] \in DeletePcs
      /\ pc'[t] \in DeletePcs \cup {"idle"}
      /\ \A u \in Threads \ {t} : /\ pipe_idx'[u] = pipe_idx[u]
                                  /\ pc'[u] = pc[u]
      /\ pc'[t] = "idle" \/ pipe_idx'[t] = pipe_idx[t]
      /\ Messages' = Messages
      /\ \A q \in Pipes : q # pipe_idx[t] =>
            /\ NumberOfMessages'[q] = NumberOfMessages[q]
            /\ ReadMessage'[q] = ReadMessage[q]
  <2> USE <1>0 DEF At, Goto, ring, TypeOK, DeletePcs
  <2>1. CASE DeletePipe_InUse(t) \/ DeletePipe_Id(t)
    BY <2>1 DEF DeletePipe_InUse, DeletePipe_Id
  <2>2. CASE DeletePipe_Count(t) \/ DeletePipe_Read(t)
    BY <2>2 DEF DeletePipe_Count, DeletePipe_Read
  <2>3. CASE DeletePipe_Subs(t)
    BY <2>3 DEF DeletePipe_Subs, Return, ForgetLocals
  <2> QED BY <2>1, <2>2, <2>3
<1>2. PICK i \in Pipes : i = pipe_idx[t]
  BY <1>0, <1>1 DEF IInv, Placement, DeletePcs
<1>3. Elsewhere(i)
  <2>1. "idle" \notin BusyPcs
    BY DEF DeletePcs, BusyPcs, RingPcs, TakePcs, StorePcs
  <2> QED BY <1>0, <1>1, <1>2, <2>1, Apart
<1> SUFFICES ASSUME i \notin tainted'
             PROVE  StartsDelete(i) \/ Clears(i) \/ EndsDelete(i)
  BY <1>3 DEF StepOn
<1>4. /\ i \notin tainted /\ Deleting(i) /\ ~Taking(i)
      /\ Held(i) \in Stored /\ Messages[i] \in [Slots -> Stored]
      /\ MAX_PIPE_DEPTH - 1 \in Slots
  <2>1. i \notin tainted /\ Deleting(i)
    BY <1>1, <1>2 DEF RecordRaces, Deleting
  <2>2. ~Taking(i) /\ Held(i) \in Stored
    BY <1>0, <2>1, DeletedAlone, Contained
  <2> QED BY <1>0, <2>1, <2>2, Values DEF TypeOK, Stored
<1>5. ~Taking(i)'
  <2>1. pc[t] # "rcv_count" /\ pc'[t] # "rcv_count"
    BY <1>1 DEF DeletePcs
  <2> QED BY <1>1, <1>4, <2>1 DEF Taking, Threads
<1>6. pc'[t] \in DeletePcs => Deleting(i)'
  BY <1>1, <1>2 DEF Deleting, DeletePcs
<1>7. CASE DeletePipe_InUse(t) \/ DeletePipe_Id(t)
  <2>1. UNCHANGED ring /\ pc'[t] \in DeletePcs
    BY <1>0, <1>7, GotoMoves DEF DeletePipe_InUse, DeletePipe_Id, DeletePcs
  <2> QED BY <1>4, <1>5, <1>6, <2>1, SameContents DEF StartsDelete, ring
<1>8. CASE DeletePipe_Count(t)
  <2>1. /\ NumberOfMessages'[i] = 1 /\ pc'[t] \in DeletePcs
        /\ ReadMessage' = ReadMessage
    BY <1>0, <1>2, <1>8, GotoMoves DEF DeletePipe_Count, DeletePcs, TypeOK
  <2>2. Held(i)' = Held(i)
    BY <1>1, <2>1 DEF Held
  <2>3. Contents(i)' = <<>>
    BY <1>5, <2>1, EmptyNext
  <2> QED BY <1>4, <1>6, <2>1, <2>2, <2>3 DEF Clears
<1>9. CASE DeletePipe_Read(t)
  <2>1. /\ ReadMessage'[i] = MAX_PIPE_DEPTH - 1 /\ pc'[t] \in DeletePcs
        /\ NumberOfMessages' = NumberOfMessages /\ pc[t] = "del_read"
    BY <1>0, <1>2, <1>9, GotoMoves DEF DeletePipe_Read, At, DeletePcs, TypeOK
  <2>2. NumberOfMessages'[i] = 1
    BY <1>2, <1>4, <2>1 DEF QueueInv, StaysEmpty
  <2>3. Held(i)' \in Stored
    BY <1>1, <1>4, <2>1 DEF Held
  <2>4. Contents(i)' = <<>>
    BY <1>5, <2>2, EmptyNext
  <2> QED BY <1>4, <1>6, <2>1, <2>3, <2>4 DEF Clears
<1>10. CASE DeletePipe_Subs(t)
  <2>1. UNCHANGED ring /\ pc[t] = "del_subs"
    BY <1>10 DEF DeletePipe_Subs, At
  <2>2. NumberOfMessages'[i] = 1
    BY <1>2, <1>4, <2>1 DEF QueueInv, StaysEmpty, ring
  <2>3. Contents(i)' = <<>>
    BY <1>5, <2>2, EmptyNext
  <2>4. Contents(i)' = Contents(i) /\ Held(i)' = Held(i)
    BY <1>4, <1>5, <2>1, SameContents DEF ring
  <2> QED BY <2>3, <2>4 DEF StartsDelete, EndsDelete
<1> QED BY <1>7, <1>8, <1>9, <1>10

\* Between the two writes, a take is the only one.
LEMMA TakeOn ==
    ASSUME QueueInv, NEW t \in Apps, RcvMsg_Take(t) \/ RcvMsg_Count(t)
    PROVE  \E i \in Pipes : StepOn(i)
<1>0. t \in Threads /\ IInv /\ TypeOK
  BY DEF QueueInv, IInv, Threads
<1>1. /\ RecordRaces /\ pc[t] \in TakePcs
      /\ pc'[t] \in {"rcv_count", "rcv_unlock"}
      /\ \A u \in Threads \ {t} : pc'[u] = pc[u]
      /\ pipe_idx' = pipe_idx /\ Messages' = Messages
      /\ \A q \in Pipes : q # pipe_idx[t] =>
            /\ NumberOfMessages'[q] = NumberOfMessages[q]
            /\ ReadMessage'[q] = ReadMessage[q]
  <2> USE <1>0 DEF At, Goto, TypeOK, TakePcs
  <2>1. CASE RcvMsg_Take(t)
    BY <2>1 DEF RcvMsg_Take
  <2>2. CASE RcvMsg_Count(t)
    BY <2>2 DEF RcvMsg_Count, LeaveWith
  <2> QED BY <2>1, <2>2
<1>2. PICK i \in Pipes : i = pipe_idx[t]
  BY <1>0, <1>1 DEF IInv, Placement, TakePcs
<1>3. Elsewhere(i)
  BY <1>0, <1>1, <1>2, Apart
<1> SUFFICES ASSUME i \notin tainted'
             PROVE  Takes(i) \/ Idles(i)
  BY <1>3 DEF StepOn
<1>4. /\ i \notin tainted /\ ~Deleting(i) /\ ~Deleting(i)'
      /\ \A u \in Apps \ {t} : pc[u] # "rcv_count" /\ pc'[u] # "rcv_count"
  <2>1. i \notin tainted /\ InRing(i)
    BY <1>0, <1>1, <1>2 DEF RecordRaces, InRing
  <2>2. ~Deleting(i)
    BY <1>0, <2>1 DEF IInv, Raced
  <2>3. ~Deleting(i)'
    BY <1>1, <2>2 DEF Deleting, DeletePcs, Threads
  <2>4. \A u \in Apps \ {t} : pc[u] \notin RingPcs
    BY <1>0, <1>1, Alone DEF IInv, CriticalPcs, Threads
  <2> QED BY <1>1, <2>1, <2>2, <2>3, <2>4 DEF RingPcs, TakePcs, Threads
<1> DEFINE N == NumberOfMessages[i]
           r == ReadMessage[i]
<1>5. /\ N \in 2 .. MAX_PIPE_DEPTH /\ r \in Slots
      /\ MAX_PIPE_DEPTH \in Nat \ {0}
      /\ pc[t] = "rcv_count" => loaded_count[t] = N
  BY <1>0, <1>1, <1>2, <1>4, Untainted, SizesTyped DEF TypeOK
<1>6. /\ Contents(i) \in Seq(Stored) /\ Len(Contents(i)) = Unread(i)
      /\ \A k \in 1 .. Unread(i) : Contents(i)[k] = Messages[i][Ring(r, k)]
  BY <1>0, <1>4, Contained DEF UnreadSlot, Ring
<1>7. CASE RcvMsg_Take(t)
  <2>1. /\ NumberOfMessages' = NumberOfMessages
        /\ ReadMessage'[i] = Ring(r, 1)
        /\ pc[t] = "rcv_take" /\ pc'[t] = "rcv_count"
    BY <1>0, <1>2, <1>7, GotoMoves
       DEF RcvMsg_Take, next_msg, Ring, At, TypeOK
  <2>2. ~Taking(i) /\ Taking(i)'
    BY <1>1, <1>2, <1>4, <2>1 DEF Taking
  <2>3. Unread(i) = N - 1 /\ Unread(i)' = N - 2
    <3>1. Unread(i) = N - 1
      BY <1>0, <1>4, <2>2, Contained
    <3>2. Unread(i)' = N - 2
      BY <1>5, <2>1, <2>2 DEF Unread, Taking
    <3> QED BY <3>1, <3>2
  <2> DEFINE m(k) == Messages[i][Ring(r, k)]
             n    == N - 2
  <2>4. n \in Nat /\ n + 1 = Len(Contents(i))
        /\ \A k \in 1 .. n : k \in 0 .. MAX_PIPE_DEPTH - 1
    BY <1>5, <1>6, <2>3
  <2>5. \A k \in 1 .. n : Ring(Ring(r, 1), k) = Ring(r, k + 1)
    BY <1>5, <2>4, RingNext
  <2>6. Contents(i)' = [k \in 1 .. n |-> m(k + 1)]
    <3>1. Contents(i)'
             = [k \in 1 .. n |-> Messages[i][Ring(Ring(r, 1), k)]]
      BY <1>1, <2>1, <2>3 DEF Contents, UnreadSlot, Ring
    <3> HIDE DEF n
    <3> QED BY <2>5, <3>1
  <2>7. \A k \in 1 .. n + 1 : Contents(i)[k] = m(k)
    BY <1>6, <2>3, <2>4
  <2> HIDE DEF m, n
  <2>8. /\ Contents(i) # <<>> /\ Head(Contents(i)) = m(1)
        /\ Tail(Contents(i)) \in Seq(Stored) /\ Len(Tail(Contents(i))) = n
        /\ \A k \in 1 .. n : Tail(Contents(i))[k] = m(k + 1)
    <3>1. Contents(i) # <<>>
      BY <2>4, <1>6
    <3> QED BY <1>6, <2>4, <2>7, <3>1
  <2>9. Contents(i)' = Tail(Contents(i))
    <3> DEFINE T == Tail(Contents(i))
    <3>1. T \in Seq(Stored) /\ Len(T) = n
          /\ \A k \in 1 .. n : T[k] = m(k + 1)
      BY <2>8
    <3> HIDE DEF T
    <3>2. T \in [1 .. n -> Stored]
      BY <3>1, LenProperties
    <3>3. T = [k \in 1 .. n |-> m(k + 1)]
      BY <3>1, <3>2
    <3> QED BY <2>6, <3>3 DEF T
  <2>10. Held(i)' = Head(Contents(i))
    BY <1>1, <2>1, <2>8 DEF Held, m
  <2> QED BY <1>4, <2>1, <2>8, <2>9, <2>10 DEF Takes
<1>8. CASE RcvMsg_Count(t)
  <2>1. /\ NumberOfMessages'[i] = (loaded_count[t] - 1) % UINT32
        /\ ReadMessage' = ReadMessage
        /\ pc[t] = "rcv_count" /\ pc'[t] = "rcv_unlock"
    BY <1>0, <1>2, <1>8, GotoMoves
       DEF RcvMsg_Count, LeaveWith, At, TypeOK
  <2>2. Taking(i) /\ ~Taking(i)'
    BY <1>1, <1>2, <1>4, <2>1 DEF Taking
  <2>3. NumberOfMessages'[i] = N - 1
    <3>1. N - 1 \in Nat /\ UINT32 \in Nat \ {0} /\ N - 1 < UINT32
      BY <1>5, SizesTyped
    <3>2. (N - 1) % UINT32 = N - 1
      BY <3>1, ModBelow
    <3> QED BY <1>5, <2>1, <3>2
  <2>4. Unread(i) = N - 2 /\ Unread(i)' = N - 2
    <3>1. Unread(i) = N - 2
      BY <1>0, <1>4, <2>2, Contained
    <3>2. Unread(i)' = N - 2
      BY <1>5, <2>3, <2>2 DEF Unread, Taking
    <3> QED BY <3>1, <3>2
  <2>5. Contents(i)' = Contents(i) /\ Held(i)' = Held(i)
    BY <1>1, <2>1, <2>4 DEF Contents, UnreadSlot, Held
  <2> QED BY <1>4, <2>5 DEF Idles
<1> QED BY <1>7, <1>8

\* The receive thread, but for its two writes to a ring.
LEMMA IngestQuietOn ==
    ASSUME IInv, Placement',
           \/ \E m \in Msgs : Minder_Receive(m)
           \/ Ingest_NoPipe \/ Ingest_Overflow \/ Ingest_Lock
           \/ Ingest_Signal
    PROVE  \E i \in Pipes : StepOn(i)
<1>0. /\ Minder \in Threads /\ TypeOK /\ 0 \in Pipes
      /\ \A u \in Apps : u \in Threads \ {Minder}
      /\ BusyPcs = {"del_inuse", "del_id", "del_count", "del_read",
                    "del_subs", "rcv_take", "rcv_count", "ing_copy",
                    "ing_count"}
  BY SizesTyped, ThreadsAssumption
     DEF IInv, Threads, Pipes, BusyPcs, DeletePcs, RingPcs, TakePcs, StorePcs
<1>1. CASE Ingest_Signal
  <2>1. /\ RecordRaces /\ UNCHANGED ring /\ pc[Minder] = "ing_signal"
        /\ pc'[Minder] = "idle"
        /\ \A u \in Threads \ {Minder} :
              /\ pipe_idx'[u] = pipe_idx[u]
              /\ \/ pc'[u] = pc[u]
                 \/ pc[u] = "rcv_wait" /\ pc'[u] = "rcv_wake"
    BY <1>0, <1>1 DEF Ingest_Signal, Waiters, At, Goto, TypeOK
  <2>2. /\ \A u \in Threads \ {Minder} :
              /\ pipe_idx'[u] = pipe_idx[u]
              /\ pc'[u] = pc[u] \/ {pc[u], pc'[u]} \cap BusyPcs = {}
        /\ {pc[Minder], pc'[Minder]}
              \cap (BusyPcs \cup DeletePcs \cup {"rcv_count"}) = {}
    BY <1>0, <2>1 DEF DeletePcs
  <2>3. StepOn(0)
    BY <1>0, <2>1, <2>2, QuietOn
  <2> QED BY <1>0, <2>3
<1>2. CASE ~Ingest_Signal
  <2>1. /\ RecordRaces /\ UNCHANGED ring /\ pc[Minder] \in {"idle", "ing_lock"}
        /\ pc'[Minder] \in {"idle", "ing_lock", "ing_copy"}
        /\ \A u \in Threads \ {Minder} : /\ pipe_idx'[u] = pipe_idx[u]
                                         /\ pc'[u] = pc[u]
    BY <1>0, <1>2
       DEF Minder_Receive, Ingest_NoPipe, Ingest_Overflow, Ingest_Return,
           Ingest_Lock, At, Goto, TypeOK
  <2>2. /\ pc[Minder] \notin BusyPcs
        /\ pc'[Minder] \in BusyPcs => pc'[Minder] = "ing_copy"
        /\ {pc[Minder], pc'[Minder]} \cap (DeletePcs \cup {"rcv_count"}) = {}
    BY <1>0, <2>1 DEF DeletePcs
  <2>3. CASE pc'[Minder] # "ing_copy"
    <3>1. StepOn(0)
      BY <1>0, <2>1, <2>2, <2>3, QuietOn
    <3> QED BY <1>0, <3>1
  <2>4. CASE pc'[Minder] = "ing_copy"
    <3>1. PICK i \in Pipes : i = pipe_idx'[Minder]
      BY <1>0, <2>4 DEF Placement
    <3>2. StepOn(i)
      BY <1>0, <2>1, <2>2, <3>1, QuietOn
    <3> QED BY <3>2
  <2> QED BY <2>3, <2>4
<1> QED BY <1>1, <1>2

\* What ingest_app_message copies enters no slot of a message yet to be read.
LEMMA CopyOn ==
    ASSUME IInv, Ingest_Copy
    PROVE  \E i \in Pipes : StepOn(i)
<1>0. Minder \in Threads /\ TypeOK
  BY DEF IInv, Threads
<1>1. /\ RecordRaces /\ pc[Minder] = "ing_copy"
      /\ pc'[Minder] = "ing_count" /\ pipe_idx' = pipe_idx
      /\ \A u \in Threads \ {Minder} : pc'[u] = pc[u]
      /\ NumberOfMessages' = NumberOfMessages /\ ReadMessage' = ReadMessage
      /\ Messages' = [Messages EXCEPT
            ![pipe_idx[Minder]][message_entry_point(pipe_idx[Minder])]
               = msg_buffer]
  BY <1>0, GotoMoves DEF Ingest_Copy, At
<1>2. PICK i \in Pipes : i = pipe_idx[Minder]
  BY <1>0, <1>1 DEF IInv, Placement
<1>3. Elsewhere(i)
  <2>1. \A q \in Pipes \ {i} : Messages'[q] = Messages[q]
    BY <1>0, <1>1, <1>2 DEF TypeOK
  <2> QED BY <1>0, <1>1, <1>2, <2>1, Apart
<1> SUFFICES ASSUME i \notin tainted'
             PROVE  Idles(i)
  BY <1>3 DEF StepOn
<1>4. i \notin tainted
  BY <1>1 DEF RecordRaces
<1>5. \A u \in Apps : pc'[u] = pc[u] /\ pipe_idx'[u] = pipe_idx[u]
  BY <1>1, ThreadsAssumption DEF Threads
<1>6. (Deleting(i)' <=> Deleting(i)) /\ (Taking(i)' <=> Taking(i))
  BY <1>5 DEF Deleting, Taking
<1> DEFINE N == NumberOfMessages[i]
           r == ReadMessage[i]
<1>7. /\ N \in 1 .. MAX_PIPE_DEPTH - 1 /\ r \in Slots
      /\ N \in 1 .. MAX_PIPE_DEPTH /\ MAX_PIPE_DEPTH \in Nat \ {0}
  BY <1>0, <1>1, <1>2, <1>4, Untainted, SizesTyped DEF TypeOK, StorePcs
<1>8. message_entry_point(i) = Ring(r, N)
  BY <1>0, <1>7, EntrySlot DEF UnreadSlot, Ring
<1>9. Unread(i) \in Int /\ Unread(i) < N /\ Unread(i)' = Unread(i)
  <2>1. Unread(i) = N - (IF Taking(i) THEN 2 ELSE 1)
    BY <1>4, Contained
  <2>2. Unread(i)' = Unread(i)
    BY <1>1, <1>6 DEF Unread, Taking
  <2> QED BY <1>7, <2>1, <2>2
<1>10. \A s \in Slots : s # Ring(r, N) => Messages'[i][s] = Messages[i][s]
  BY <1>0, <1>1, <1>2, <1>8 DEF TypeOK
<1>11. \A k \in 1 .. Unread(i) : Messages'[i][Ring(r, k)]
                                   = Messages[i][Ring(r, k)]
  <2> SUFFICES ASSUME NEW k \in 1 .. Unread(i)
               PROVE  Messages'[i][Ring(r, k)] = Messages[i][Ring(r, k)]
    OBVIOUS
  <2>1. k \in Nat /\ k < N /\ k \in 0 .. MAX_PIPE_DEPTH
        /\ N \in 0 .. MAX_PIPE_DEPTH - 1
    BY <1>7, <1>9
  <2>2. Ring(r, k) \in Slots /\ Ring(r, k) # Ring(r, N)
    BY <1>7, <2>1, RingWraps, RingDiffers
  <2> QED BY <1>10, <2>2
<1>12. Contents(i)' = Contents(i)
  <2>1. Contents(i)' = [k \in 1 .. Unread(i) |-> Messages'[i][Ring(r, k)]]
    BY <1>1, <1>9 DEF Contents, UnreadSlot, Ring
  <2>2. Contents(i) = [k \in 1 .. Unread(i) |-> Messages[i][Ring(r, k)]]
    BY DEF Contents, UnreadSlot, Ring
  <2> QED BY <1>11, <2>1, <2>2
<1>13. Held(i)' = Held(i)
  <2>1. r # Ring(r, N)
    BY <1>0, <1>7, <1>8, EntryIsFree
  <2> QED BY <1>1, <1>7, <1>10, <2>1 DEF Held
<1> QED BY <1>6, <1>12, <1>13 DEF Idles

\* The new count brings in what was copied, after all that waited.
LEMMA CountOn ==
    ASSUME QueueInv, Ingest_Count
    PROVE  \E i \in Pipes : StepOn(i) /\ (i \notin tainted' => Stores(i))
<1>0. Minder \in Threads /\ IInv /\ TypeOK
  BY DEF QueueInv, IInv, Threads
<1>1. /\ RecordRaces /\ pc[Minder] = "ing_count"
      /\ pc'[Minder] = "ing_signal" /\ pipe_idx' = pipe_idx
      /\ \A u \in Threads \ {Minder} : pc'[u] = pc[u]
      /\ Messages' = Messages /\ ReadMessage' = ReadMessage
      /\ NumberOfMessages' = [NumberOfMessages EXCEPT
            ![pipe_idx[Minder]] = (loaded_count[Minder] + 1) % UINT32]
  BY <1>0, GotoMoves DEF Ingest_Count, At
<1>2. PICK i \in Pipes : i = pipe_idx[Minder]
  BY <1>0, <1>1 DEF IInv, Placement
<1>3. Elsewhere(i)
  <2>1. \A q \in Pipes \ {i} : NumberOfMessages'[q] = NumberOfMessages[q]
    BY <1>0, <1>1, <1>2 DEF TypeOK
  <2>2. "ing_signal" \notin BusyPcs
    BY DEF BusyPcs, DeletePcs, RingPcs, TakePcs, StorePcs
  <2> QED BY <1>0, <1>1, <1>2, <2>1, <2>2, Apart
<1> SUFFICES ASSUME i \notin tainted'
             PROVE  Stores(i)
  BY <1>3 DEF StepOn
<1>4. i \notin tainted
  BY <1>1 DEF RecordRaces
<1>5. \A u \in Apps : pc'[u] = pc[u] /\ pipe_idx'[u] = pipe_idx[u]
  BY <1>1, ThreadsAssumption DEF Threads
<1>6. ~Deleting(i) /\ ~Deleting(i)' /\ ~Taking(i) /\ ~Taking(i)'
  <2>1. InRing(i)
    BY <1>0, <1>1, <1>2 DEF InRing, StorePcs
  <2>2. ~Deleting(i)
    BY <1>0, <1>4, <2>1 DEF IInv, Raced
  <2>3. \A u \in Apps : pc[u] \notin RingPcs
    BY <1>0, <1>1, Alone, ThreadsAssumption
       DEF IInv, CriticalPcs, StorePcs, Threads
  <2>4. ~Taking(i)
    BY <2>3 DEF Taking, RingPcs, TakePcs
  <2> QED BY <1>5, <2>2, <2>4 DEF Deleting, Taking
<1> DEFINE N == NumberOfMessages[i]
           r == ReadMessage[i]
<1>7. /\ N \in 1 .. MAX_PIPE_DEPTH - 1 /\ r \in Slots
      /\ loaded_count[Minder] = N /\ MAX_PIPE_DEPTH \in Nat \ {0}
  BY <1>0, <1>1, <1>2, <1>4, Untainted, SizesTyped DEF TypeOK, StorePcs
<1>8. NumberOfMessages'[i] = N + 1
  <2>1. N + 1 \in Nat /\ UINT32 \in Nat \ {0} /\ N + 1 < UINT32
    BY <1>7, SizesTyped
  <2>2. (N + 1) % UINT32 = N + 1
    BY <2>1, ModBelow
  <2> QED BY <1>0, <1>1, <1>2, <1>7, <2>2 DEF TypeOK
<1>9. Unread(i) = N - 1 /\ Unread(i)' = N
  <2>1. Unread(i) = N - 1
    BY <1>0, <1>4, <1>6, Contained
  <2>2. Unread(i)' = N
    BY <1>6, <1>7, <1>8 DEF Unread, Taking
  <2> QED BY <2>1, <2>2
<1>10. /\ Contents(i) \in Seq(Stored) /\ Len(Contents(i)) = N - 1
       /\ \A k \in 1 .. N - 1 : Contents(i)[k] = Messages[i][Ring(r, k)]
  BY <1>0, <1>4, <1>9, Contained DEF UnreadSlot, Ring
<1>11. Messages[i][Ring(r, N)] = msg_buffer /\ msg_buffer \in Msgs
  BY <1>0, <1>1, <1>2, <1>4
     DEF QueueInv, EntryWritten, UnreadSlot, Ring, IInv, Placement, StorePcs
<1>12. Contents(i)' = [k \in 1 .. N |-> Messages[i][Ring(r, k)]]
  BY <1>1, <1>9 DEF Contents, UnreadSlot, Ring
<1> DEFINE m(k) == Messages[i][Ring(r, k)]
           C    == Contents(i)
<1>13. Contents(i)' = [k \in 1 .. N |-> m(k)]
  BY <1>12
<1>14. /\ C \in Seq(Stored) /\ Len(C) = N - 1 /\ N \in Nat \ {0}
       /\ \A k \in 1 .. N - 1 : C[k] = m(k)
       /\ m(N) = msg_buffer /\ msg_buffer \in Stored
  BY <1>7, <1>10, <1>11 DEF Stored
<1> HIDE DEF m, C
<1>15. [k \in 1 .. N |-> m(k)] = Append(C, msg_buffer)
  <2>1. /\ Append(C, msg_buffer) \in Seq(Stored)
        /\ Len(Append(C, msg_buffer)) = N
        /\ \A k \in 1 .. N : Append(C, msg_buffer)[k] = m(k)
    BY <1>14, AppendProperties
  <2> DEFINE A == Append(C, msg_buffer)
  <2> HIDE DEF A
  <2>2. A \in [1 .. N -> Stored] /\ \A k \in 1 .. N : A[k] = m(k)
    BY <2>1, LenProperties DEF A
  <2>3. A = [k \in 1 .. N |-> m(k)]
    BY <2>2
  <2> QED BY <2>3 DEF A
<1>16. Contents(i)' = Append(Contents(i), msg_buffer)
  BY <1>13, <1>15 DEF C
<1>17. Held(i)' = Held(i)
  BY <1>1 DEF Held
<1>18. Len(Contents(i)) < MAX_PIPE_DEPTH - 1
  BY <1>7, <1>10
<1> QED BY <1>1, <1>2, <1>6, <1>11, <1>16, <1>17, <1>18 DEF Stores

-----------------------------------------------------------------------------
(* QueueInv is kept.                                                       *)

\* Who writes the two counters of a ring.
LEMMA RingWriters ==
    ASSUME Next
    PROVE  /\ \/ \E t \in Apps : RcvMsg_Count(t) \/ DeletePipe_Count(t)
              \/ Ingest_Count
              \/ UNCHANGED NumberOfMessages
           /\ \/ \E t \in Apps : RcvMsg_Take(t) \/ DeletePipe_Read(t)
              \/ UNCHANGED ReadMessage
<1>1. CASE \E t \in Apps : AppCall(t)
  <2>1. UNCHANGED ring
    BY <1>1 DEF AppCall, CreatePipe_Call, DeletePipe_Call, Subscribe_Call,
                RcvMsg_Call, UnimplementedCall
  <2> QED BY <2>1 DEF ring
<1>2. CASE \E t \in Apps : AppFault(t)
  <2>1. UNCHANGED ring
    BY <1>2 DEF AppFault, RcvMsg_SpuriousWakeup, RcvMsg_LockFails,
                RcvMsg_WaitFails, RcvMsg_UnlockFails
  <2> QED BY <2>1 DEF ring
<1>3. CASE \E t \in Apps : AppStep(t)
  <2> PICK t \in Apps : AppStep(t)
    BY <1>3
  <2>1. CASE \/ CreatePipe_Claim(t) \/ CreatePipe_Id(t)
             \/ DeletePipe_InUse(t) \/ DeletePipe_Id(t)
             \/ DeletePipe_Subs(t)
             \/ Subscribe_Store(t) \/ Subscribe_Send(t)
             \/ RcvMsg_Lock(t) \/ RcvMsg_TimesOut(t) \/ RcvMsg_Relock(t)
             \/ RcvMsg_Unlock(t)
    <3>1. UNCHANGED ring
      BY <2>1 DEF CreatePipe_Claim, CreatePipe_Id, DeletePipe_InUse,
                  DeletePipe_Id, DeletePipe_Subs, Subscribe_Store,
                  Subscribe_Send, RcvMsg_Lock, RcvMsg_TimesOut,
                  RcvMsg_Relock, RcvMsg_Unlock
    <3> QED BY <3>1 DEF ring
  <2>2. CASE DeletePipe_Count(t) \/ RcvMsg_Count(t)
    BY <2>2 DEF DeletePipe_Count, RcvMsg_Count
  <2>3. CASE DeletePipe_Read(t) \/ RcvMsg_Take(t)
    BY <2>3 DEF DeletePipe_Read, RcvMsg_Take
  <2> QED BY <2>1, <2>2, <2>3 DEF AppStep
<1>4. CASE MinderStep \/ \E m \in Msgs : Minder_Receive(m)
  BY <1>4 DEF MinderStep, Minder_Receive, Ingest_NoPipe, Ingest_Overflow,
              Ingest_Return, Ingest_Lock, Ingest_Copy, Ingest_Count,
              Ingest_Signal, ring
<1> QED BY <1>1, <1>2, <1>3, <1>4 DEF Next

\* No thread but the holder of the mutex, or a deletion, writes to the ring
\* of a pipe no race has reached.
LEMMA RingKept ==
    ASSUME IInv, Next, NEW u \in Threads, pc[u] \in RingPcs,
           NEW q \in Pipes \ tainted', q = pipe_idx[u],
           u \in Apps => ~RcvMsg_Take(u) /\ ~RcvMsg_Count(u),
           ~Ingest_Count
    PROVE  /\ NumberOfMessages'[q] = NumberOfMessages[q]
           /\ ReadMessage'[q] = ReadMessage[q]
<1>1. InRing(q) /\ q \notin tainted /\ TypeOK /\ Placement
  BY EveryStep DEF InRing, RingPcs, RecordRaces, IInv
<1>2. ~Deleting(q)
  BY <1>1 DEF IInv, Raced
<1>3. \A t \in Apps : ~RcvMsg_Take(t) /\ ~RcvMsg_Count(t)
  <2> SUFFICES ASSUME NEW t \in Apps, t # u
               PROVE  ~RcvMsg_Take(t) /\ ~RcvMsg_Count(t)
    OBVIOUS
  <2>1. pc[t] \notin RingPcs
    BY Alone DEF IInv, RingPcs, CriticalPcs, Threads
  <2> QED BY <2>1 DEF RcvMsg_Take, RcvMsg_Count, At, RingPcs, TakePcs
<1>4. \A t \in Apps : DeletePipe_Count(t) \/ DeletePipe_Read(t)
                         => pipe_idx[t] # q
  BY <1>2 DEF Deleting, DeletePipe_Count, DeletePipe_Read, At, DeletePcs
<1>5. NumberOfMessages'[q] = NumberOfMessages[q]
  <2>1. CASE \E t \in Apps : DeletePipe_Count(t)
    BY <1>1, <1>4, <2>1 DEF DeletePipe_Count, TypeOK
  <2> QED BY <1>3, <2>1, RingWriters
<1>6. ReadMessage'[q] = ReadMessage[q]
  <2>1. CASE \E t \in Apps : DeletePipe_Read(t)
    BY <1>1, <1>4, <2>1 DEF DeletePipe_Read, TypeOK
  <2> QED BY <1>3, <2>1, RingWriters
<1> QED BY <1>5, <1>6

LEMMA EntryStep ==
    ASSUME QueueInv, Next
    PROVE  EntryWritten'
<1> SUFFICES ASSUME pc'[Minder] = "ing_count",
                    pipe_idx'[Minder] \notin tainted'
             PROVE  Messages'[pipe_idx'[Minder]]
                       [UnreadSlot(pipe_idx[Minder],
                                   NumberOfMessages[pipe_idx[Minder]])']
                    = msg_buffer'
  BY DEF EntryWritten
<1>0. /\ Minder \in Threads /\ Minder \notin Apps /\ IInv /\ TypeOK
      /\ Apps \subseteq Threads
  BY ThreadsAssumption DEF QueueInv, IInv, Threads
<1>1. CASE Ingest_Copy
  <2>1. /\ RecordRaces /\ pc[Minder] = "ing_copy" /\ pipe_idx' = pipe_idx
        /\ NumberOfMessages' = NumberOfMessages /\ ReadMessage' = ReadMessage
        /\ msg_buffer' = msg_buffer
        /\ Messages' = [Messages EXCEPT
              ![pipe_idx[Minder]][message_entry_point(pipe_idx[Minder])]
                 = msg_buffer]
    BY <1>1 DEF Ingest_Copy, At, external
  <2>2. PICK q \in Pipes : q = pipe_idx[Minder]
    BY <1>0, <2>1 DEF IInv, Placement
  <2>3. q \in Pipes \ tainted
    BY <2>1, <2>2 DEF RecordRaces
  <2>4. /\ NumberOfMessages[q] \in 1 .. MAX_PIPE_DEPTH
        /\ message_entry_point(q) \in Slots
    BY <1>0, <2>3, Untainted, EntryPointType
  <2>5. message_entry_point(q) = UnreadSlot(q, NumberOfMessages[q])
    BY <1>0, <2>4, EntrySlot
  <2>6. Messages'[q][message_entry_point(q)] = msg_buffer
    BY <1>0, <2>1, <2>2, <2>4 DEF TypeOK
  <2> QED BY <2>1, <2>2, <2>5, <2>6 DEF UnreadSlot
<1>2. CASE ~Ingest_Copy
  <2>1. /\ pc[Minder] = "ing_count" /\ pipe_idx'[Minder] = pipe_idx[Minder]
        /\ Messages' = Messages /\ msg_buffer' = msg_buffer
        /\ ~Ingest_Count
    <3>1. ~MinderStep /\ ~\E m \in Msgs : Minder_Receive(m)
      BY <1>0, <1>2, GotoMoves
         DEF MinderStep, Minder_Receive, Ingest_NoPipe, Ingest_Overflow,
             Ingest_Return, Ingest_Lock, Ingest_Count, Ingest_Signal, Goto,
             TypeOK
    <3>2. PICK t \in Apps : AppCall(t) \/ AppStep(t) \/ AppFault(t)
      BY <3>1 DEF Next
    <3>3. CASE AppCall(t)
      <4>1. pc'[Minder] = pc[Minder] /\ pipe_idx'[Minder] = pipe_idx[Minder]
            /\ UNCHANGED external
        BY <1>0, <3>3, CallMoves, GotoMoves
      <4> QED BY <1>2, <3>1, <4>1, EveryStep DEF external, MinderStep
    <3>4. CASE AppStep(t) \/ AppFault(t)
      <4>1. pc'[Minder] = pc[Minder] /\ pipe_idx'[Minder] = pipe_idx[Minder]
            /\ UNCHANGED msg_buffer
        BY <1>0, <3>4
           DEF AppStep, AppFault, CreatePipe_Claim, CreatePipe_Id,
               DeletePipe_InUse, DeletePipe_Id, DeletePipe_Count,
               DeletePipe_Read, DeletePipe_Subs, Subscribe_Store,
               Subscribe_Send, RcvMsg_Lock, RcvMsg_TimesOut, RcvMsg_Relock,
               RcvMsg_Take, RcvMsg_Count, RcvMsg_Unlock,
               RcvMsg_SpuriousWakeup, RcvMsg_LockFails, RcvMsg_WaitFails,
               RcvMsg_UnlockFails, ReturnFromRcvMsg, Return, ForgetLocals,
               LeaveWith, Goto, external, TypeOK
      <4> QED BY <1>2, <3>1, <4>1, EveryStep DEF MinderStep
    <3> QED BY <3>2, <3>3, <3>4
  <2>2. PICK q \in Pipes : q = pipe_idx[Minder]
    BY <1>0, <2>1 DEF IInv, Placement
  <2>3. q \in Pipes \ tainted' /\ q \notin tainted
    BY <2>1, <2>2, EveryStep DEF RecordRaces
  <2>4. /\ NumberOfMessages'[q] = NumberOfMessages[q]
        /\ ReadMessage'[q] = ReadMessage[q]
    BY <1>0, <2>1, <2>2, <2>3, RingKept DEF RingPcs, StorePcs
  <2>5. Messages[q][UnreadSlot(q, NumberOfMessages[q])] = msg_buffer
    BY <2>1, <2>2, <2>3 DEF QueueInv, EntryWritten
  <2> QED BY <2>1, <2>2, <2>4, <2>5 DEF UnreadSlot
<1> QED BY <1>1, <1>2

LEMMA EmptyStep ==
    ASSUME QueueInv, Next
    PROVE  StaysEmpty'
<1> SUFFICES ASSUME NEW t \in Apps, pc'[t] \in {"del_read", "del_subs"},
                    pipe_idx'[t] \notin tainted'
             PROVE  NumberOfMessages'[pipe_idx'[t]] = 1
  BY DEF StaysEmpty
<1>0. IInv /\ TypeOK /\ Placement /\ t \in Threads /\ t # Minder
  BY ThreadsAssumption DEF QueueInv, IInv, Threads
<1>1. CASE DeletePipe_Count(t)
  <2>1. pipe_idx[t] \in Pipes
    BY <1>0, <1>1, UnderWay DEF DeletePipe_Count, At
  <2> QED BY <1>0, <1>1, <2>1 DEF DeletePipe_Count, TypeOK
<1>2. CASE ~DeletePipe_Count(t)
  <2>1. /\ pc[t] \in {"del_read", "del_subs"} /\ pipe_idx'[t] = pipe_idx[t]
    <3>1. CASE \E u \in Apps : AppCall(u)
      BY <1>0, <3>1, CallMoves, GotoMoves DEF FirstPcs, Threads
    <3>2. CASE \E u \in Apps : AppStep(u) \/ AppFault(u)
      BY <1>0, <1>2, <3>2
           DEF AppStep, AppFault, CreatePipe_Claim, CreatePipe_Id,
               DeletePipe_InUse, DeletePipe_Id, DeletePipe_Count, At,
               DeletePipe_Read, DeletePipe_Subs, Subscribe_Store,
               Subscribe_Send, RcvMsg_Lock, RcvMsg_TimesOut, RcvMsg_Relock,
               RcvMsg_Take, RcvMsg_Count, RcvMsg_Unlock,
               RcvMsg_SpuriousWakeup, RcvMsg_LockFails, RcvMsg_WaitFails,
               RcvMsg_UnlockFails, ReturnFromRcvMsg, Return, ForgetLocals,
               LeaveWith, Goto, TypeOK, Threads
    <3>3. CASE MinderStep \/ \E m \in Msgs : Minder_Receive(m)
      BY <1>0, <3>3
         DEF MinderStep, Minder_Receive, Ingest_NoPipe, Ingest_Overflow,
             Ingest_Return, Ingest_Lock, Ingest_Copy, Ingest_Count,
             Ingest_Signal, Waiters, At, Goto, TypeOK, Threads
    <3> QED BY <3>1, <3>2, <3>3 DEF Next
  <2>2. PICK p \in Pipes : p = pipe_idx[t]
    BY <1>0, <2>1, UnderWay
  <2>3. /\ p \notin tainted /\ Deleting(p) /\ ~InRing(p)
        /\ NumberOfMessages[p] = 1
    <3>1. p \notin tainted
      BY <2>1, <2>2, EveryStep DEF RecordRaces
    <3>2. Deleting(p)
      BY <2>1, <2>2 DEF Deleting, DeletePcs
    <3> QED BY <1>0, <2>1, <2>2, <3>1, <3>2, DeletedAlone
            DEF QueueInv, StaysEmpty
  <2>4. CASE \E u \in Apps : RcvMsg_Count(u)
    <3>1. PICK u \in Apps : RcvMsg_Count(u)
      BY <2>4
    <3>2. pipe_idx[u] # p
      BY <2>3, <3>1 DEF InRing, RcvMsg_Count, At, TakePcs, Threads
    <3> QED BY <1>0, <2>1, <2>2, <2>3, <3>1, <3>2 DEF RcvMsg_Count, TypeOK
  <2>5. CASE \E u \in Apps : DeletePipe_Count(u)
    BY <1>0, <2>1, <2>2, <2>3, <2>5 DEF DeletePipe_Count, TypeOK
  <2>6. CASE Ingest_Count
    <3>1. pipe_idx[Minder] # p
      BY <2>3, <2>6 DEF InRing, Ingest_Count, At, StorePcs, Threads
    <3> QED BY <1>0, <2>1, <2>2, <2>3, <2>6, <3>1 DEF Ingest_Count, TypeOK
  <2> QED BY <2>1, <2>2, <2>3, <2>4, <2>5, <2>6, RingWriters
<1> QED BY <1>1, <1>2

LEMMA QueueInvStep ==
    ASSUME QueueInv, [Next]_vars
    PROVE  QueueInv'
<1>1. IInv'
  BY IInvStep DEF QueueInv
<1>2. CASE UNCHANGED vars
  BY <1>1, <1>2 DEF QueueInv, EntryWritten, StaysEmpty, UnreadSlot, vars,
                    ring, external
<1>3. CASE Next
  BY <1>1, <1>3, EntryStep, EmptyStep DEF QueueInv
<1> QED BY <1>2, <1>3

LEMMA QueueInvInit == Init => QueueInv
BY IInvInit, ThreadsAssumption
   DEF Init, QueueInv, EntryWritten, StaysEmpty, Threads

-----------------------------------------------------------------------------
(* The refinement                                                          *)

\* No pipe holds anything in the beginning.
LEMMA PipesEmpty ==
    ASSUME Init, NEW p \in Pipes
    PROVE  /\ Contents(p) = <<>> /\ Messages[p][ReadMessage[p]] = NoMsg
           /\ ~Deleting(p)
<1>1. /\ tainted = {} /\ \A t \in Threads : pc[t] = "idle"
      /\ NumberOfMessages[p] = 1 /\ ReadMessage[p] = MAX_PIPE_DEPTH - 1
      /\ Messages[p] = [s \in Slots |-> NoMsg]
  <2>1. /\ tainted = {} /\ \A t \in Threads : pc[t] = "idle"
        /\ \A q \in Pipes : /\ NumberOfMessages[q] = 1
                             /\ ReadMessage[q] = MAX_PIPE_DEPTH - 1
                             /\ Messages[q] = [s \in Slots |-> NoMsg]
    BY DEF Init
  <2> QED BY <2>1
<1>2. ~Deleting(p) /\ ~Taking(p)
  BY <1>1 DEF Deleting, DeletePcs, Taking, Threads
<1>3. /\ Unread(p) = NumberOfMessages[p] - (IF Taking(p) THEN 2 ELSE 1)
      /\ Contents(p) \in Seq(Stored) /\ Len(Contents(p)) = Unread(p)
  BY <1>1, IInvInit, Contained
<1>4. Len(Contents(p)) = 0
  <2>1. NumberOfMessages[p] = 1
    BY <1>1
  <2> QED BY <1>2, <1>3, <2>1
<1>5. Contents(p) = <<>>
  BY <1>3, <1>4
<1>6. ReadMessage[p] \in Slots
  BY <1>1, Values
<1> QED BY <1>1, <1>2, <1>5, <1>6

LEMMA QueueInit == Init => Queue!Init
<1> SUFFICES ASSUME Init PROVE Queue!Init
  OBVIOUS
<1>1. tainted = {}
  BY DEF Init
<1> QED BY <1>1, PipesEmpty DEF Queue!Init

\* Every step is a step on some pipe.
LEMMA SomePipe ==
    ASSUME QueueInv, Placement', Next
    PROVE  \E i \in Pipes : StepOn(i)
<1>0. IInv
  BY DEF QueueInv
<1>1. CASE \E t \in Apps : AppCall(t)
  BY <1>0, <1>1, CallOn
<1>2. CASE \E t \in Apps : AppStep(t) \/ AppFault(t)
  BY <1>0, <1>2, CalmOn, DeleteOn, TakeOn DEF AppStep
<1>3. CASE MinderStep \/ \E m \in Msgs : Minder_Receive(m)
  BY <1>0, <1>3, IngestQuietOn, CopyOn, CountOn DEF MinderStep
<1> QED BY <1>1, <1>2, <1>3 DEF Next

\* A step of the code is a step of the queue, or stutters.
LEMMA QueueStep ==
    ASSUME QueueInv, QueueInv', [Next]_vars
    PROVE  [Queue!Next]_Queue!qvars
<1>0. IInv /\ TypeOK' /\ Placement'
  BY DEF QueueInv, IInv
<1>1. CASE UNCHANGED vars
  <2>1. /\ pc' = pc /\ pipe_idx' = pipe_idx /\ tainted' = tainted
        /\ NumberOfMessages' = NumberOfMessages
        /\ ReadMessage' = ReadMessage /\ Messages' = Messages
    BY <1>1 DEF vars, ring
  <2>2. ASSUME NEW p \in Pipes
        PROVE  Contents(p)' = Contents(p) /\ (Deleting(p)' <=> Deleting(p))
    BY <2>1, SameContents DEF Taking, Deleting
  <2> QED BY <2>1, <2>2 DEF Queue!qvars
<1>2. CASE Next
  <2>1. \E i \in Pipes : StepOn(i)
    BY <1>0, <1>2, SomePipe
  <2>2. tainted \subseteq tainted' /\ tainted' \subseteq Pipes
    BY <1>0, <1>2, EveryStep DEF RecordRaces, TypeOK
  <2> QED BY <2>1, <2>2, StepOnIsNext
<1> QED BY <1>1, <1>2

\* For any number of threads, pipes, slots and messages, until one of the two
\* races reaches a pipe: RcvMsg hands out what ingest_app_message stored in
\* it, each message once, in the order they came, nothing overwrites what it
\* last handed out, and only a DeletePipe empties it.
THEOREM ImplementsQueue == Spec => IsQueue
<1>1. Spec => []QueueInv
  BY QueueInvInit, QueueInvStep, PTL DEF Spec
<1>2. QueueInv /\ QueueInv' /\ [Next]_vars => [Queue!Next]_Queue!qvars
  BY QueueStep
<1> QED BY <1>1, <1>2, QueueInit, PTL DEF Spec, IsQueue, Queue!Spec

-----------------------------------------------------------------------------
(* The table, for an application with one thread                           *)

\* What the one thread is in the middle of, and has done so far.
HalfWay(t) ==
    LET p == pipe_idx[t] IN
    /\ pc[t] = "create_id" => InUse[p]
    /\ pc[t] \in DeletePcs \ {"del_inuse"} => ~InUse[p]
    /\ pc[t] \in {"del_count", "del_read", "del_subs"}
          => PipeId[p] = INVALID_PIPE
    /\ pc[t] = "sub_store"
          => SubscribedMsgIds[p][MsgIdIdx[t]] = INVALID_MSG_ID

TableInv == PipeIdMatchesIdx /\ \A t \in Apps : HalfWay(t)

TablePcs == DeletePcs \cup {"create_id", "sub_store"}

\* A step that leaves the table alone, outside the calls that write it.
LEMMA TableQuiet ==
    ASSUME NEW a, Apps = {a}, TableInv, UNCHANGED table,
           \/ /\ pc'[a] = pc[a] /\ pipe_idx'[a] = pipe_idx[a]
              /\ MsgIdIdx'[a] = MsgIdIdx[a]
           \/ /\ pc[a] \notin TablePcs
              /\ pc'[a] \notin TablePcs \ {"del_inuse"}
    PROVE  TableInv'
<1>1. InUse' = InUse /\ PipeId' = PipeId
      /\ SubscribedMsgIds' = SubscribedMsgIds
  BY DEF table
<1>2. CASE /\ pc'[a] = pc[a] /\ pipe_idx'[a] = pipe_idx[a]
           /\ MsgIdIdx'[a] = MsgIdIdx[a]
  BY <1>1, <1>2 DEF TableInv, PipeIdMatchesIdx, HalfWay
<1>3. CASE /\ pc[a] \notin TablePcs
           /\ pc'[a] \notin TablePcs \ {"del_inuse"}
  <2>1. \A p \in Pipes : PipeId[p] = IF InUse[p] THEN p ELSE INVALID_PIPE
    BY <1>3 DEF TableInv, PipeIdMatchesIdx, TablePcs
  <2>2. PipeIdMatchesIdx'
    BY <2>1, <1>1 DEF PipeIdMatchesIdx
  <2>3. HalfWay(a)'
    BY <1>3 DEF HalfWay, TablePcs, DeletePcs
  <2> QED BY <2>2, <2>3 DEF TableInv
<1> QED BY <1>2, <1>3

\* The id a program was given is the index of its pipe.
LEMMA FoundUnderItsId ==
    ASSUME NEW a, Apps = {a}, TableInv, pc[a] \notin TablePcs,
           NEW id \in Pipes, GetPipeIdx(id) # INVALID_PIPE
    PROVE  GetPipeIdx(id) = id /\ InUse[id]
<1>1. \A p \in Pipes : PipeId[p] = IF InUse[p] THEN p ELSE INVALID_PIPE
  BY DEF TableInv, PipeIdMatchesIdx, TablePcs
<1>2. Pipes \subseteq Nat
  BY Values
<1> DEFINE S == {p \in Pipes : PipeId[p] = id /\ InUse[p]}
<1>3. First(S, INVALID_PIPE) = INVALID_PIPE \/ First(S, INVALID_PIPE) \in S
  BY <1>2, FirstIsMember
<1>4. \A p \in S : p = id
  BY <1>1
<1> QED BY <1>3, <1>4 DEF GetPipeIdx

\* A call begins.
LEMMA TableCall ==
    ASSUME NEW a, Apps = {a}, TypeOK, TableInv, AppCall(a)
    PROVE  TableInv'
<1>1. /\ UNCHANGED table /\ pc[a] = "idle" /\ a \in Threads
      /\ \E l \in FirstPcs : pc'[a] = l
  <2>1. a \in Threads
    BY DEF Threads
  <2>2. pc[a] = "idle"
    BY DEF AppCall, CreatePipe_Call, DeletePipe_Call, Subscribe_Call,
           RcvMsg_Call, UnimplementedCall, Call, At
  <2> QED BY <2>1, <2>2, CallMoves, GotoMoves
<1>2. CASE pc'[a] # "sub_store"
  BY <1>1, <1>2, TableQuiet DEF FirstPcs, TablePcs, DeletePcs
<1>3. CASE pc'[a] = "sub_store"
  <2>1. PICK id \in Pipes, msgid \in MsgIds : Subscribe_Call(a, id, msgid)
    BY <1>1, <1>3
       DEF AppCall, CreatePipe_Call, DeletePipe_Call, RcvMsg_Call,
           UnimplementedCall, Enter, Return, Goto, TypeOK
  <2> DEFINE j == GetMessageSubscribeIndex(id)
  <2>2. /\ GetPipeIdx(id) # INVALID_PIPE /\ j # MAX_MSG_IDS_MET
        /\ pipe_idx'[a] = GetPipeIdx(id) /\ MsgIdIdx'[a] = j
    BY <1>1, <1>3, <2>1
       DEF Subscribe_Call, Enter, Return, Goto, TypeOK
  <2>3. pipe_idx'[a] = id
    BY <1>1, <2>2, FoundUnderItsId DEF TablePcs, DeletePcs
  <2>4. j \in {k \in SubSlots : SubscribedMsgIds[id][k] = INVALID_MSG_ID}
    <3> DEFINE S == {k \in SubSlots :
                        SubscribedMsgIds[id][k] = INVALID_MSG_ID}
    <3>1. S \subseteq Nat
      BY SizesTyped DEF SubSlots
    <3>2. First(S, MAX_MSG_IDS_MET) = MAX_MSG_IDS_MET
          \/ First(S, MAX_MSG_IDS_MET) \in S
      BY <3>1, FirstIsMember
    <3> QED BY <2>2, <3>2 DEF GetMessageSubscribeIndex
  <2>5. HalfWay(a)'
    BY <1>1, <1>3, <2>2, <2>3, <2>4 DEF HalfWay, DeletePcs, table
  <2>6. \A p \in Pipes : PipeId[p] = IF InUse[p] THEN p ELSE INVALID_PIPE
    BY <1>1 DEF TableInv, PipeIdMatchesIdx, DeletePcs
  <2>7. PipeIdMatchesIdx'
    BY <1>1, <2>6 DEF PipeIdMatchesIdx, table
  <2> QED BY <2>5, <2>7 DEF TableInv
<1> QED BY <1>2, <1>3

\* CreatePipe and DeletePipe, write by write.
LEMMA TableWrite ==
    ASSUME NEW a, Apps = {a}, TypeOK, Placement, TableInv,
           \/ CreatePipe_Claim(a) \/ CreatePipe_Id(a)
           \/ DeletePipe_InUse(a) \/ DeletePipe_Id(a)
           \/ DeletePipe_Count(a) \/ DeletePipe_Read(a)
           \/ DeletePipe_Subs(a)
    PROVE  TableInv'
<1> DEFINE p == pipe_idx[a]
           Matches(q) == PipeId[q] = IF InUse[q] THEN q ELSE INVALID_PIPE
<1> USE DEF DeletePcs
<1>0. /\ a \in Threads /\ InUse \in [Pipes -> BOOLEAN]
      /\ PipeId \in [Pipes -> Pipes \cup {INVALID_PIPE}]
  BY DEF TypeOK, Threads
<1>1. /\ p \in Pipes
      /\ \A q \in Pipes : q # p => Matches(q)
  <2>1. pc[a] # "idle" /\ pc[a] # "ing_lock"
    BY DEF CreatePipe_Claim, CreatePipe_Id, DeletePipe_InUse, DeletePipe_Id,
           DeletePipe_Count, DeletePipe_Read, DeletePipe_Subs, At
  <2> QED BY <1>0, <2>1 DEF Placement, TableInv, PipeIdMatchesIdx
<1>2. CASE CreatePipe_Claim(a)
  <2>1. /\ InUse' = [InUse EXCEPT ![p] = TRUE] /\ PipeId' = PipeId
        /\ pc'[a] = "create_id" /\ pipe_idx' = pipe_idx
    BY <1>0, <1>2, GotoMoves DEF CreatePipe_Claim
  <2> QED BY <1>0, <1>1, <2>1 DEF TableInv, PipeIdMatchesIdx, HalfWay
<1>3. CASE CreatePipe_Id(a)
  <2>1. /\ PipeId' = [PipeId EXCEPT ![p] = p] /\ InUse' = InUse
        /\ pc'[a] = "idle" /\ InUse[p]
    BY <1>0, <1>3, GotoMoves DEF CreatePipe_Id, Return, At, TableInv, HalfWay
  <2> QED BY <1>0, <1>1, <2>1 DEF TableInv, PipeIdMatchesIdx, HalfWay
<1>4. CASE DeletePipe_InUse(a)
  <2>1. /\ InUse' = [InUse EXCEPT ![p] = FALSE] /\ PipeId' = PipeId
        /\ pc'[a] = "del_id" /\ pipe_idx' = pipe_idx
    BY <1>0, <1>4, GotoMoves DEF DeletePipe_InUse
  <2> QED BY <1>0, <1>1, <2>1 DEF TableInv, PipeIdMatchesIdx, HalfWay
<1>5. CASE DeletePipe_Id(a)
  <2>1. /\ PipeId' = [PipeId EXCEPT ![p] = INVALID_PIPE] /\ InUse' = InUse
        /\ pc'[a] = "del_count" /\ pipe_idx' = pipe_idx /\ ~InUse[p]
    BY <1>0, <1>5, GotoMoves DEF DeletePipe_Id, At, TableInv, HalfWay
  <2> QED BY <1>0, <1>1, <2>1 DEF TableInv, PipeIdMatchesIdx, HalfWay
<1>6. CASE DeletePipe_Count(a) \/ DeletePipe_Read(a)
  <2>1. /\ UNCHANGED table /\ pipe_idx' = pipe_idx
        /\ pc[a] \in {"del_count", "del_read"}
        /\ pc'[a] \in {"del_read", "del_subs"}
    BY <1>0, <1>6, GotoMoves DEF DeletePipe_Count, DeletePipe_Read, At
  <2>2. ~InUse[p] /\ PipeId[p] = INVALID_PIPE
    BY <2>1 DEF TableInv, HalfWay
  <2> QED BY <1>1, <2>1, <2>2 DEF TableInv, PipeIdMatchesIdx, HalfWay, table
<1>7. CASE DeletePipe_Subs(a)
  <2>1. /\ UNCHANGED <<InUse, PipeId>> /\ pc[a] = "del_subs"
        /\ pc'[a] = "idle"
    BY <1>0, <1>7, GotoMoves DEF DeletePipe_Subs, Return, At
  <2>2. ~InUse[p] /\ PipeId[p] = INVALID_PIPE
    BY <2>1 DEF TableInv, HalfWay
  <2> QED BY <1>1, <2>1, <2>2 DEF TableInv, PipeIdMatchesIdx, HalfWay
<1> QED BY <1>2, <1>3, <1>4, <1>5, <1>6, <1>7

\* The other steps of a call.
LEMMA TableOther ==
    ASSUME NEW a, Apps = {a}, TypeOK, Placement, TableInv,
           \/ Subscribe_Store(a) \/ Subscribe_Send(a)
           \/ RcvMsg_Lock(a) \/ RcvMsg_TimesOut(a) \/ RcvMsg_Relock(a)
           \/ RcvMsg_Take(a) \/ RcvMsg_Count(a) \/ RcvMsg_Unlock(a)
           \/ AppFault(a)
    PROVE  TableInv'
<1>0. a \in Threads
  BY DEF Threads
<1>1. CASE Subscribe_Store(a)
  <2>1. /\ UNCHANGED <<InUse, PipeId>> /\ pc[a] = "sub_store"
        /\ pc'[a] = "sub_send"
    BY <1>0, <1>1, GotoMoves DEF Subscribe_Store, At
  <2>2. \A p \in Pipes : PipeId[p] = IF InUse[p] THEN p ELSE INVALID_PIPE
    BY <2>1 DEF TableInv, PipeIdMatchesIdx, DeletePcs
  <2> QED BY <2>1, <2>2 DEF TableInv, PipeIdMatchesIdx, HalfWay, DeletePcs
<1>2. CASE Subscribe_Send(a) \/ RcvMsg_TimesOut(a) \/ RcvMsg_Unlock(a)
  <2>1. /\ UNCHANGED table /\ pc[a] \notin TablePcs
        /\ pc'[a] \in {"idle", "rcv_timedout"}
    BY <1>0, <1>2, GotoMoves
       DEF Subscribe_Send, RcvMsg_TimesOut, RcvMsg_Unlock, ReturnFromRcvMsg,
           Return, At, TablePcs, DeletePcs
  <2> QED BY <2>1, TableQuiet DEF TablePcs, DeletePcs
<1>3. CASE RcvMsg_Lock(a) \/ RcvMsg_Relock(a)
  <2>1. /\ UNCHANGED table /\ pc[a] \notin TablePcs
        /\ pc'[a] \in {"rcv_take", "rcv_unlock", "rcv_wait"}
    BY <1>0, <1>3, GotoMoves
       DEF RcvMsg_Lock, RcvMsg_Relock, LeaveWith, At, TablePcs, DeletePcs
  <2> QED BY <2>1, TableQuiet DEF TablePcs, DeletePcs
<1>4. CASE RcvMsg_Take(a) \/ RcvMsg_Count(a)
  <2>1. /\ UNCHANGED table /\ pc[a] \notin TablePcs
        /\ pc'[a] \in {"rcv_count", "rcv_unlock"}
    BY <1>0, <1>4, GotoMoves
       DEF RcvMsg_Take, RcvMsg_Count, LeaveWith, At, TablePcs, DeletePcs
  <2> QED BY <2>1, TableQuiet DEF TablePcs, DeletePcs
<1>5. CASE AppFault(a)
  <2>1. /\ UNCHANGED table /\ pc[a] \notin TablePcs
        /\ pc'[a] \in {"rcv_wake", "idle", "rcv_unlock"}
    BY <1>0, <1>5, GotoMoves
       DEF AppFault, RcvMsg_SpuriousWakeup, RcvMsg_LockFails,
           RcvMsg_WaitFails, RcvMsg_UnlockFails, ReturnFromRcvMsg, Return,
           LeaveWith, At, TablePcs, DeletePcs
  <2> QED BY <2>1, TableQuiet DEF TablePcs, DeletePcs
<1> QED BY <1>1, <1>2, <1>3, <1>4, <1>5

\* The receive thread leaves the table alone.
LEMMA TableMinder ==
    ASSUME NEW a, Apps = {a}, TypeOK, TableInv,
           MinderStep \/ \E m \in Msgs : Minder_Receive(m)
    PROVE  TableInv'
<1>0. a \in Threads /\ Minder \in Threads /\ a # Minder
  BY ThreadsAssumption DEF Threads
<1>1. CASE ~Ingest_Signal
  <2>1. /\ UNCHANGED <<table, MsgIdIdx>>
        /\ pipe_idx'[a] = pipe_idx[a]
        /\ \E l : Goto(Minder, l)
    BY <1>0, <1>1
       DEF MinderStep, Minder_Receive, Ingest_NoPipe, Ingest_Overflow,
           Ingest_Return, Ingest_Lock, Ingest_Copy, Ingest_Count, locals,
           TypeOK
  <2>2. pc'[a] = pc[a]
    BY <1>0, <2>1, GotoMoves
  <2> QED BY <2>1, <2>2, TableQuiet
<1>2. CASE Ingest_Signal
  <2>1. /\ UNCHANGED <<table, MsgIdIdx>>
        /\ pipe_idx'[a] = pipe_idx[a]
        /\ \/ pc'[a] = pc[a]
           \/ pc[a] = "rcv_wait" /\ pc'[a] = "rcv_wake"
    BY <1>0, <1>2 DEF Ingest_Signal, Waiters, At, Goto, TypeOK
  <2> QED BY <2>1, TableQuiet DEF TablePcs, DeletePcs
<1> QED BY <1>1, <1>2

LEMMA TableStep ==
    ASSUME NEW a, Apps = {a}, TypeOK, Placement, TableInv, [Next]_vars
    PROVE  TableInv'
<1>1. CASE UNCHANGED vars
  BY <1>1 DEF vars, table, locals, TableInv, PipeIdMatchesIdx, HalfWay
<1>2. CASE AppCall(a)
  BY <1>2, TableCall
<1>3. CASE AppStep(a) \/ AppFault(a)
  BY <1>3, TableWrite, TableOther DEF AppStep
<1>4. CASE MinderStep \/ \E m \in Msgs : Minder_Receive(m)
  BY <1>4, TableMinder
<1> QED BY <1>1, <1>2, <1>3, <1>4 DEF Next

LEMMA TableInit == Init => TableInv
BY DEF Init, TableInv, PipeIdMatchesIdx, HalfWay, DeletePcs, Threads

LEMMA AlwaysTable ==
    ASSUME NEW a, Apps = {a}
    PROVE  Spec => [](IInv /\ TableInv)
<1>1. ASSUME IInv, TableInv, [Next]_vars PROVE TableInv'
  BY <1>1, TableStep DEF IInv
<1> QED BY <1>1, TableInit, Invariance, PTL DEF Spec

\* For an application with one thread, any number of pipes and any calls: a
\* pipe in use has its own index for an id, and one that is free has none,
\* but for the pipe a CreatePipe or DeletePipe is half-way through.
THEOREM IdsMatch ==
    ASSUME NEW a, Apps = {a}
    PROVE  Spec => []PipeIdMatchesIdx
<1>1. IInv /\ TableInv => PipeIdMatchesIdx
  BY DEF TableInv
<1> QED BY <1>1, AlwaysTable, PTL

\* The slot Subscribe writes is free, so that no subscription is overwritten.
LEMMA KeptStep ==
    ASSUME NEW a, Apps = {a}, TypeOK, Placement, TableInv, Next,
           NEW p \in Pipes, NEW id \in MsgIds, Subscribes(p, id),
           DeletePipe_Subs(a) => pipe_idx[a] # p
    PROVE  Subscribes(p, id)'
<1>1. CASE Subscribe_Store(a)
  <2> DEFINE i == pipe_idx[a]
             j == MsgIdIdx[a]
  <2>1. /\ pc[a] = "sub_store" /\ i \in Pipes /\ j \in SubSlots
        /\ SubscribedMsgIds' = [SubscribedMsgIds EXCEPT ![i][j] = MsgId[a]]
        /\ SubscribedMsgIds[i][j] = INVALID_MSG_ID
    BY <1>1 DEF Subscribe_Store, At, Placement, Threads, TableInv, HalfWay
  <2>2. PICK k \in SubSlots : SubscribedMsgIds[p][k] = id
    BY DEF Subscribes
  <2>3. ~(p = i /\ k = j)
    BY <2>1, <2>2, MessagesAssumption
  <2>4. SubscribedMsgIds'[p][k] = id
    BY <2>1, <2>2, <2>3 DEF TypeOK
  <2> QED BY <2>4 DEF Subscribes
<1>2. CASE DeletePipe_Subs(a)
  <2>1. /\ pc[a] = "del_subs"
        /\ SubscribedMsgIds' = [SubscribedMsgIds EXCEPT
              ![pipe_idx[a]] = [j \in SubSlots |-> INVALID_MSG_ID]]
    BY <1>2 DEF DeletePipe_Subs, At
  <2>2. pipe_idx[a] # p
    BY <1>2
  <2>3. SubscribedMsgIds'[p] = SubscribedMsgIds[p]
    BY <2>1, <2>2 DEF TypeOK
  <2> QED BY <2>3 DEF Subscribes
<1>3. CASE ~Subscribe_Store(a) /\ ~DeletePipe_Subs(a)
  <2>1. CASE AppCall(a)
    <3>1. UNCHANGED table
      BY <2>1, CallMoves
    <3> QED BY <3>1 DEF table, Subscribes
  <2>2. CASE AppStep(a)
    <3>1. UNCHANGED SubscribedMsgIds
      BY <1>3, <2>2
         DEF AppStep, CreatePipe_Claim, CreatePipe_Id, DeletePipe_InUse,
             DeletePipe_Id, DeletePipe_Count, DeletePipe_Read,
             Subscribe_Send, RcvMsg_Lock, RcvMsg_TimesOut, RcvMsg_Relock,
             RcvMsg_Take, RcvMsg_Count, RcvMsg_Unlock, table
    <3> QED BY <3>1 DEF Subscribes
  <2>3. CASE AppFault(a)
    <3>1. UNCHANGED SubscribedMsgIds
      BY <2>3 DEF AppFault, RcvMsg_SpuriousWakeup, RcvMsg_LockFails,
                  RcvMsg_WaitFails, RcvMsg_UnlockFails, table
    <3> QED BY <3>1 DEF Subscribes
  <2>4. CASE MinderStep \/ \E m \in Msgs : Minder_Receive(m)
    <3>1. UNCHANGED SubscribedMsgIds
      BY <2>4
         DEF MinderStep, Minder_Receive, Ingest_NoPipe, Ingest_Overflow,
             Ingest_Return, Ingest_Lock, Ingest_Copy, Ingest_Count,
             Ingest_Signal, table
    <3> QED BY <3>1 DEF Subscribes
  <2> QED BY <2>1, <2>2, <2>3, <2>4 DEF Next
<1> QED BY <1>1, <1>2, <1>3

\* For an application with one thread: a subscription, once stored, stands
\* until its pipe is deleted, however often the application subscribes.
THEOREM SubscriptionsAreKept ==
    ASSUME NEW a, Apps = {a}
    PROVE  Spec => SubscriptionsKept
<1>1. ASSUME IInv, TableInv, [Next]_vars
      PROVE  [\A p \in Pipes, id \in MsgIds :
                 Subscribes(p, id) => Subscribes(p, id)' \/ Deleting(p)]_vars
  <2>1. CASE UNCHANGED vars
    BY <2>1
  <2>2. CASE Next
    <3>1. \A p \in Pipes :
             ~Deleting(p) => (DeletePipe_Subs(a) => pipe_idx[a] # p)
      BY DEF Deleting, DeletePipe_Subs, At, DeletePcs
    <3> QED BY <1>1, <2>2, <3>1, KeptStep DEF IInv
  <2> QED BY <1>1, <2>1, <2>2
<1> QED BY <1>1, AlwaysTable, PTL DEF Spec, SubscriptionsKept

-----------------------------------------------------------------------------
(* What waits in a pipe, for an application with one thread                *)

Wanted(p) == {m \in Msgs : Subscribes(p, MsgIdOf[m])}

\* The message ingest_app_message stores is one its pipe subscribes to.
Offered ==
    LET q == pipe_idx[Minder] IN
    pc[Minder] \in StorePcs /\ q \notin tainted => msg_buffer \in Wanted(q)

AllWanted ==
    \A p \in Pipes \ tainted : \A k \in 1 .. Len(Contents(p)) :
       Contents(p)[k] \in Wanted(p)

SubscribedInv == QueueInv /\ TableInv /\ Offered /\ AllWanted

\* What a pipe subscribes to it goes on subscribing to, but for the last step
\* of its deletion.
LEMMA WantedKept ==
    ASSUME NEW a, Apps = {a}, IInv, TableInv, Next, NEW p \in Pipes,
           DeletePipe_Subs(a) => pipe_idx[a] # p
    PROVE  Wanted(p) \subseteq Wanted(p)'
<1>1. \A m \in Msgs : MsgIdOf[m] \in MsgIds
  BY MessagesAssumption
<1>2. \A m \in Msgs : Subscribes(p, MsgIdOf[m]) => Subscribes(p, MsgIdOf[m])'
  <2> SUFFICES ASSUME NEW m \in Msgs, Subscribes(p, MsgIdOf[m])
               PROVE  Subscribes(p, MsgIdOf[m])'
    OBVIOUS
  <2> PICK id \in MsgIds : id = MsgIdOf[m]
    BY <1>1
  <2>1. Subscribes(p, id)'
    BY KeptStep DEF IInv
  <2> QED BY <2>1
<1> QED BY <1>2 DEF Wanted

LEMMA OfferedStep ==
    ASSUME NEW a, Apps = {a}, SubscribedInv, Next
    PROVE  Offered'
<1> SUFFICES ASSUME pc'[Minder] \in StorePcs,
                    pipe_idx'[Minder] \notin tainted'
             PROVE  msg_buffer' \in Wanted(pipe_idx[Minder])'
  BY DEF Offered
<1>0. /\ Minder \in Threads /\ Minder # a /\ a \in Threads
      /\ QueueInv /\ IInv /\ TypeOK /\ Placement /\ TableInv
  BY ThreadsAssumption DEF SubscribedInv, QueueInv, IInv, Threads
<1>1. CASE Ingest_Lock
  <2>1. /\ Destination # INVALID_PIPE /\ pipe_idx'[Minder] = Destination
        /\ msg_buffer' = msg_buffer /\ pc[Minder] = "ing_lock"
        /\ SubscribedMsgIds' = SubscribedMsgIds
    BY <1>0, <1>1 DEF Ingest_Lock, TypeOK, external, table, At
  <2>2. Subscribes(Destination, MsgIdOf[msg_buffer])
    <3> DEFINE S == {p \in Pipes :
                        InUse[p] /\ Subscribes(p, MsgIdOf[msg_buffer])}
    <3>1. S \subseteq Nat
      BY Values
    <3>2. First(S, INVALID_PIPE) = INVALID_PIPE
          \/ First(S, INVALID_PIPE) \in S
      BY <3>1, FirstIsMember
    <3> QED BY <2>1, <3>2 DEF Destination
  <2>3. msg_buffer \in Msgs
    BY <1>0, <2>1 DEF Placement
  <2> QED BY <2>1, <2>2, <2>3 DEF Wanted, Subscribes
<1>2. CASE ~Ingest_Lock
  <2>1. /\ pc[Minder] \in StorePcs /\ pipe_idx'[Minder] = pipe_idx[Minder]
        /\ msg_buffer' = msg_buffer
    <3>1. CASE MinderStep \/ \E m \in Msgs : Minder_Receive(m)
      BY <1>0, <1>2, <3>1
         DEF MinderStep, Minder_Receive, Ingest_NoPipe, Ingest_Overflow,
             Ingest_Return, Ingest_Copy, Ingest_Count, Ingest_Signal, Goto,
             At, StorePcs, TypeOK, external
    <3>2. CASE AppCall(a)
      BY <1>0, <3>2, CallMoves, GotoMoves DEF external
    <3>3. CASE AppStep(a) \/ AppFault(a)
      BY <1>0, <3>3
         DEF AppStep, AppFault, CreatePipe_Claim, CreatePipe_Id,
             DeletePipe_InUse, DeletePipe_Id, DeletePipe_Count,
             DeletePipe_Read, DeletePipe_Subs, Subscribe_Store,
             Subscribe_Send, RcvMsg_Lock, RcvMsg_TimesOut, RcvMsg_Relock,
             RcvMsg_Take, RcvMsg_Count, RcvMsg_Unlock,
             RcvMsg_SpuriousWakeup, RcvMsg_LockFails, RcvMsg_WaitFails,
             RcvMsg_UnlockFails, ReturnFromRcvMsg, Return, ForgetLocals,
             LeaveWith, Goto, external, TypeOK
    <3> QED BY <3>1, <3>2, <3>3 DEF Next
  <2>2. PICK q \in Pipes : q = pipe_idx[Minder]
    BY <1>0, <2>1 DEF Placement, StorePcs
  <2>3. q \notin tainted /\ InRing(q)
    BY <1>0, <2>1, <2>2, EveryStep DEF RecordRaces, InRing
  <2>4. ~Deleting(q)
    BY <1>0, <2>3 DEF IInv, Raced
  <2>5. Wanted(q) \subseteq Wanted(q)'
    <3>1. DeletePipe_Subs(a) => pipe_idx[a] # q
      BY <2>4 DEF Deleting, DeletePipe_Subs, At, DeletePcs
    <3> QED BY <1>0, <3>1, WantedKept
  <2>6. msg_buffer \in Wanted(q)
    BY <2>1, <2>2, <2>3 DEF SubscribedInv, Offered
  <2> QED BY <2>1, <2>2, <2>5, <2>6
<1> QED BY <1>1, <1>2

LEMMA AllWantedStep ==
    ASSUME NEW a, Apps = {a}, SubscribedInv, QueueInv', Next
    PROVE  AllWanted'
<1> SUFFICES ASSUME NEW p \in Pipes \ tainted',
                    NEW k \in 1 .. Len(Contents(p)')
             PROVE  Contents(p)'[k] \in Wanted(p)'
  BY DEF AllWanted
<1>0. QueueInv /\ IInv /\ TypeOK /\ TypeOK' /\ Placement' /\ TableInv
      /\ a \in Threads
  BY DEF SubscribedInv, QueueInv, IInv, Threads
<1>1. p \in Pipes \ tainted
  BY EveryStep DEF RecordRaces
<1>2. /\ Contents(p) \in Seq(Stored)
      /\ \A j \in 1 .. Len(Contents(p)) : Contents(p)[j] \in Wanted(p)
  BY <1>0, <1>1, Contained DEF SubscribedInv, AllWanted
<1>3. CASE DeletePipe_Subs(a) /\ pipe_idx[a] = p
  <2>1. UNCHANGED ring /\ pc[a] = "del_subs" /\ pc'[a] = "idle"
    BY <1>0, <1>3, GotoMoves DEF DeletePipe_Subs, At, Return
  <2>2. NumberOfMessages'[p] = 1
    BY <1>1, <1>3, <2>1 DEF SubscribedInv, QueueInv, StaysEmpty, ring
  <2>3. ~Taking(p)'
    BY <2>1 DEF Taking
  <2>4. Contents(p)' = <<>>
    BY <2>2, <2>3, EmptyNext
  <2> QED BY <2>4
<1>4. CASE ~(DeletePipe_Subs(a) /\ pipe_idx[a] = p)
  <2>1. Wanted(p) \subseteq Wanted(p)'
    BY <1>0, <1>4, WantedKept
  <2>2. PICK i \in Pipes : StepOn(i)
    BY <1>0, SomePipe
  <2>3. \/ Contents(p)' = Contents(p)
        \/ Contents(p)' = <<>>
        \/ Contents(p) # <<>> /\ Contents(p)' = Tail(Contents(p))
        \/ /\ Contents(p)' = Append(Contents(p), msg_buffer)
           /\ msg_buffer \in Wanted(p)
    <3>1. CASE p # i
      BY <2>2, <3>1 DEF StepOn, Elsewhere
    <3>2. CASE p = i /\ Stores(i)
      BY <1>1, <3>2 DEF Stores, SubscribedInv, Offered, StorePcs
    <3>3. CASE p = i /\ ~Stores(i)
      BY <2>2, <3>3
         DEF StepOn, Idles, Takes, StartsDelete, Clears, EndsDelete
    <3> QED BY <3>1, <3>2, <3>3
  <2> PICK C : C = Contents(p)'
    OBVIOUS
  <2> DEFINE B == Contents(p)
             W == Wanted(p)
  <2>4. /\ \/ C = B \/ C = <<>>
           \/ B # <<>> /\ C = Tail(B)
           \/ C = Append(B, msg_buffer) /\ msg_buffer \in W
        /\ B \in Seq(Stored) /\ \A j \in 1 .. Len(B) : B[j] \in W
        /\ k \in 1 .. Len(C)
    BY <1>2, <2>3
  <2> HIDE DEF B, W
  <2>5. C[k] \in W
    <3>1. CASE C = B
      BY <2>4, <3>1
    <3>2. CASE C = <<>>
      BY <2>4, <3>2
    <3>3. CASE B # <<>> /\ C = Tail(B)
      <4>1. Len(C) = Len(B) - 1 /\ C[k] = B[k + 1]
        BY <2>4, <3>3, HeadTailProperties
      <4> QED BY <2>4, <4>1, LenProperties
    <3>4. CASE C = Append(B, msg_buffer) /\ msg_buffer \in W
      <4>1. W \subseteq Stored
        BY DEF W, Wanted, Stored
      <4>2. /\ Len(C) = Len(B) + 1 /\ C[Len(B) + 1] = msg_buffer
            /\ \A j \in 1 .. Len(B) : C[j] = B[j]
        BY <2>4, <3>4, <4>1, AppendProperties
      <4> QED BY <2>4, <3>4, <4>2, LenProperties
    <3> QED BY <2>4, <3>1, <3>2, <3>3, <3>4
  <2> QED BY <2>1, <2>5 DEF W
<1> QED BY <1>3, <1>4

LEMMA AlwaysSubscribed ==
    ASSUME NEW a, Apps = {a}
    PROVE  Spec => []SubscribedInv
<1>1. Init => SubscribedInv
  <2> SUFFICES ASSUME Init PROVE SubscribedInv
    OBVIOUS
  <2>1. QueueInv /\ TableInv /\ IInv
    BY QueueInvInit, TableInit DEF QueueInv
  <2>2. Offered
    BY ThreadsAssumption DEF Init, Offered, StorePcs, Threads
  <2>3. \A p \in Pipes : Contents(p) = <<>>
    BY QueueInit DEF Queue!Init, Init
  <2> QED BY <2>1, <2>2, <2>3 DEF SubscribedInv, AllWanted
<1>2. ASSUME SubscribedInv, [Next]_vars PROVE SubscribedInv'
  <2>1. QueueInv' /\ TableInv'
    BY <1>2, QueueInvStep, TableStep DEF SubscribedInv, QueueInv, IInv
  <2>2. CASE UNCHANGED vars
    <3>1. /\ pc' = pc /\ pipe_idx' = pipe_idx /\ tainted' = tainted
          /\ NumberOfMessages' = NumberOfMessages
          /\ ReadMessage' = ReadMessage /\ Messages' = Messages
          /\ SubscribedMsgIds' = SubscribedMsgIds
          /\ msg_buffer' = msg_buffer
      BY <2>2 DEF vars, ring, table, external
    <3>2. \A p : Contents(p)' = Contents(p) /\ Wanted(p)' = Wanted(p)
      BY <3>1, SameContents DEF Taking, Wanted, Subscribes
    <3>3. Offered' /\ AllWanted'
      BY <1>2, <3>1, <3>2 DEF SubscribedInv, Offered, AllWanted
    <3> QED BY <2>1, <3>3 DEF SubscribedInv
  <2>3. CASE Next
    BY <1>2, <2>1, <2>3, OfferedStep, AllWantedStep DEF SubscribedInv
  <2> QED BY <1>2, <2>2, <2>3
<1> QED BY <1>1, <1>2, PTL DEF Spec

\* For an application with one thread: what waits in a pipe, unless a delete
\* has raced with the receive thread on it, is what the pipe subscribes to,
\* and so no message is delivered to the wrong pipe.
THEOREM UnreadAreWanted ==
    ASSUME NEW a, Apps = {a}
    PROVE  Spec => []UnreadAreSubscribed
<1>1. SubscribedInv => UnreadAreSubscribed
  <2> SUFFICES ASSUME SubscribedInv, NEW p \in Pipes \ tainted,
                      NEW k \in 1 .. Unread(p)
               PROVE  Messages[p][UnreadSlot(p, k)] \in Wanted(p)
    BY DEF UnreadAreSubscribed, Wanted
  <2> QED BY Contained DEF SubscribedInv, QueueInv, AllWanted
<1> QED BY <1>1, AlwaysSubscribed, PTL

-----------------------------------------------------------------------------
(* Programs with one thread that delete no pipe                            *)

\* No pipe is being deleted, and one that subscribes to anything is in use.
Standing ==
    /\ \A t \in Apps : /\ pc[t] \notin DeletePcs
                       /\ pc[t] = "sub_store" => InUse[pipe_idx[t]]
    /\ \A p \in Pipes, id \in MsgIds : Subscribes(p, id) => InUse[p]

\* The thread does not begin a delete; when it has found a pipe to subscribe
\* to, that pipe is in use.
LEMMA StandingCall ==
    ASSUME "delete" \notin Calls, NEW a \in Apps, TypeOK, Standing, AppCall(a)
    PROVE  /\ UNCHANGED table /\ pc'[a] \notin DeletePcs
           /\ pc'[a] = "sub_store" => InUse[pipe_idx'[a]]
<1>0. a \in Threads /\ UNCHANGED table
  BY CallMoves DEF Threads
<1>1. CASE \/ \E Depth : CreatePipe_Call(a, Depth)
           \/ \E id : DeletePipe_Call(a, id)
           \/ \E id : \E timeout \in TimeOuts : RcvMsg_Call(a, id, timeout)
           \/ UnimplementedCall(a)
  <2>1. pc'[a] \in {"idle", "create_claim", "rcv_lock"}
    BY <1>0, <1>1
       DEF CreatePipe_Call, DeletePipe_Call, RcvMsg_Call, UnimplementedCall,
           Enter, Return, Call, Goto, TypeOK
  <2> QED BY <1>0, <2>1 DEF DeletePcs
<1>2. CASE \E id \in Pipes, msgid \in MsgIds : Subscribe_Call(a, id, msgid)
  <2> PICK id \in Pipes, msgid \in MsgIds : Subscribe_Call(a, id, msgid)
    BY <1>2
  <2>1. \/ pc'[a] = "idle"
        \/ /\ pc'[a] = "sub_store" /\ pipe_idx'[a] = GetPipeIdx(id)
           /\ GetPipeIdx(id) # INVALID_PIPE
    BY <1>0 DEF Subscribe_Call, Enter, Return, Goto, TypeOK
  <2>2. GetPipeIdx(id) # INVALID_PIPE => InUse[GetPipeIdx(id)]
    <3> DEFINE S == {p \in Pipes : PipeId[p] = id /\ InUse[p]}
    <3>1. First(S, INVALID_PIPE) = INVALID_PIPE \/ First(S, INVALID_PIPE) \in S
      BY Values, FirstIsMember
    <3> QED BY <3>1 DEF GetPipeIdx
  <2> QED BY <1>0, <2>1, <2>2 DEF DeletePcs
<1> QED BY <1>1, <1>2 DEF AppCall

\* What the steps of a call do to the table.
LEMMA StandingOther ==
    ASSUME NEW a \in Apps, TypeOK, Standing, AppStep(a) \/ AppFault(a)
    PROVE  /\ pc'[a] \notin DeletePcs /\ pc'[a] # "sub_store"
           /\ \/ CreatePipe_Claim(a) /\ UNCHANGED SubscribedMsgIds
              \/ Subscribe_Store(a) /\ UNCHANGED InUse
              \/ ~Subscribe_Store(a) /\ UNCHANGED <<InUse, SubscribedMsgIds>>
<1>0. a \in Threads /\ pc[a] \notin DeletePcs
  BY DEF Standing, Threads
<1>1. CASE \/ CreatePipe_Claim(a) \/ Subscribe_Store(a)
  <2>1. pc'[a] \in {"create_id", "sub_send"}
    BY <1>0, <1>1 DEF CreatePipe_Claim, Subscribe_Store, Goto, TypeOK
  <2> QED BY <1>1, <2>1 DEF CreatePipe_Claim, Subscribe_Store, DeletePcs
<1>2. CASE \/ CreatePipe_Id(a) \/ Subscribe_Send(a)
           \/ RcvMsg_Lock(a) \/ RcvMsg_TimesOut(a) \/ RcvMsg_Relock(a)
           \/ RcvMsg_Take(a) \/ RcvMsg_Count(a) \/ RcvMsg_Unlock(a)
           \/ AppFault(a)
  <2>1. /\ UNCHANGED <<InUse, SubscribedMsgIds>>
        /\ pc[a] # "sub_store"
        /\ pc'[a] \in {"idle", "rcv_take", "rcv_unlock", "rcv_wait",
                       "rcv_timedout", "rcv_count", "rcv_wake"}
    BY <1>0, <1>2
       DEF CreatePipe_Id, Subscribe_Send, RcvMsg_Lock, RcvMsg_TimesOut,
           RcvMsg_Relock, RcvMsg_Take, RcvMsg_Count, RcvMsg_Unlock, AppFault,
           RcvMsg_SpuriousWakeup, RcvMsg_LockFails, RcvMsg_WaitFails,
           RcvMsg_UnlockFails, ReturnFromRcvMsg, Return, LeaveWith, Goto, At,
           table, TypeOK
  <2> QED BY <2>1 DEF DeletePcs, Subscribe_Store, At
<1> QED BY <1>0, <1>1, <1>2
        DEF AppStep, DeletePipe_InUse, DeletePipe_Id, DeletePipe_Count,
            DeletePipe_Read, DeletePipe_Subs, At, DeletePcs

\* The receive thread leaves the table alone, and may wake the thread.
LEMMA StandingMinder ==
    ASSUME NEW a \in Apps, TypeOK,
           MinderStep \/ \E m \in Msgs : Minder_Receive(m)
    PROVE  /\ UNCHANGED table /\ pipe_idx'[a] = pipe_idx[a]
           /\ \/ pc'[a] = pc[a]
              \/ pc[a] = "rcv_wait" /\ pc'[a] = "rcv_wake"
<1>0. a \in Threads /\ Minder \in Threads /\ a # Minder
  BY ThreadsAssumption DEF Threads
<1> QED BY <1>0
        DEF MinderStep, Minder_Receive, Ingest_NoPipe, Ingest_Overflow,
            Ingest_Return, Ingest_Lock, Ingest_Copy, Ingest_Count,
            Ingest_Signal, Waiters, At, Goto, TypeOK, table

LEMMA StandingStep ==
    ASSUME "delete" \notin Calls, NEW a, Apps = {a}, TypeOK, Placement,
           Standing, [Next]_vars
    PROVE  Standing'
<1>0. a \in Apps /\ InUse \in [Pipes -> BOOLEAN]
  BY DEF TypeOK
<1> SUFFICES /\ pc'[a] \notin DeletePcs
             /\ pc'[a] = "sub_store" => InUse'[pipe_idx'[a]]
             /\ \A p \in Pipes, id \in MsgIds :
                   Subscribes(p, id)' => InUse'[p]
  BY DEF Standing
<1>1. CASE UNCHANGED vars
  BY <1>0, <1>1 DEF vars, table, Standing, Subscribes
<1>2. CASE AppCall(a)
  BY <1>0, <1>2, StandingCall DEF Standing, Subscribes, table
<1>3. CASE AppStep(a) \/ AppFault(a)
  <2>1. pc'[a] \notin DeletePcs /\ pc'[a] # "sub_store"
    BY <1>0, <1>3, StandingOther
  <2>2. CASE CreatePipe_Claim(a) /\ UNCHANGED SubscribedMsgIds
    BY <1>0, <2>1, <2>2 DEF CreatePipe_Claim, Standing, Subscribes
  <2>3. CASE Subscribe_Store(a) /\ UNCHANGED InUse
    <3>1. /\ SubscribedMsgIds' = [SubscribedMsgIds EXCEPT
                ![pipe_idx[a]][MsgIdIdx[a]] = MsgId[a]]
          /\ InUse[pipe_idx[a]]
      BY <1>0, <2>3 DEF Subscribe_Store, At, Standing
    <3>2. ASSUME NEW p \in Pipes, NEW id \in MsgIds, Subscribes(p, id)'
          PROVE  InUse[p]
      <4>1. CASE p = pipe_idx[a]
        BY <3>1, <4>1
      <4>2. CASE p # pipe_idx[a]
        <5>1. SubscribedMsgIds'[p] = SubscribedMsgIds[p]
          BY <3>1, <4>2 DEF TypeOK
        <5> QED BY <3>2, <5>1 DEF Standing, Subscribes
      <4> QED BY <4>1, <4>2
    <3> QED BY <2>1, <2>3, <3>2
  <2>4. CASE UNCHANGED <<InUse, SubscribedMsgIds>>
    BY <2>1, <2>4 DEF Standing, Subscribes
  <2> QED BY <1>0, <1>3, <2>2, <2>3, <2>4, StandingOther
<1>4. CASE MinderStep \/ \E m \in Msgs : Minder_Receive(m)
  BY <1>0, <1>4, StandingMinder DEF Standing, Subscribes, table, DeletePcs
<1> QED BY <1>1, <1>2, <1>3, <1>4 DEF Next

LEMMA StandingInit == Init => Standing
<1> SUFFICES ASSUME Init PROVE Standing
  OBVIOUS
<1>1. \A p \in Pipes, id \in MsgIds : ~Subscribes(p, id)
  BY MessagesAssumption DEF Init, Subscribes
<1> QED BY <1>1 DEF Init, Standing, DeletePcs, Threads

LEMMA AlwaysStanding ==
    ASSUME "delete" \notin Calls, NEW a, Apps = {a}
    PROVE  Spec => []Standing
<1>1. ASSUME IInv, Standing, [Next]_vars PROVE Standing'
  BY <1>1, StandingStep DEF IInv
<1> QED BY <1>1, StandingInit, Invariance, PTL DEF Spec

\* The ids p subscribes to.
IdsOf(p) == {id \in MsgIds : Subscribes(p, id)}

IdsKept == \A p \in Pipes : IdsOf(p)' = IdsOf(p)

\* What a step leaves as it was.
PipeKept(p) == Contents(p)' = Contents(p) /\ Held(p)' = Held(p)
PipesKept == \A p \in Pipes : PipeKept(p)
OthersKept(i) == \A p \in Pipes \ {i} : PipeKept(p)

\* With no delete and no race a step stores in a pipe, takes from it, or
\* leaves them all as they were.
LEMMA PipesMove ==
    ASSUME QueueInv, Placement', Standing, Standing', tainted' = {}, Next
    PROVE  \/ PipesKept
           \/ \E i \in Pipes : OthersKept(i) /\ (Stores(i) \/ Takes(i))
<1>1. PICK i \in Pipes : StepOn(i)
  BY SomePipe
<1>2. ~Deleting(i) /\ ~Deleting(i)'
  BY DEF Standing, Deleting
<1>3. OthersKept(i)
  BY <1>1 DEF StepOn, Elsewhere, OthersKept, PipeKept
<1>4. Stores(i) \/ Takes(i) \/ PipeKept(i)
  BY <1>1, <1>2
     DEF StepOn, Idles, StartsDelete, Clears, EndsDelete, PipeKept
<1>5. CASE PipeKept(i)
  BY <1>3, <1>5 DEF OthersKept, PipesKept
<1> QED BY <1>3, <1>4, <1>5

\* The second write of ingest_app_message brings the message in.
LEMMA CountMoves ==
    ASSUME QueueInv, tainted' = {}, Ingest_Count
    PROVE  \E i \in Pipes : OthersKept(i) /\ Stores(i)
<1>1. PICK i \in Pipes : StepOn(i) /\ Stores(i)
  BY CountOn
<1> QED BY <1>1 DEF StepOn, Elsewhere, OthersKept, PipeKept

\* The other steps of the receive thread do not touch what is in the pipes.
LEMMA MinderMoves ==
    ASSUME QueueInv, Placement', Standing, Standing', tainted' = {},
           MinderStep \/ \E m \in Msgs : Minder_Receive(m), ~Ingest_Count
    PROVE  PipesKept
<1>1. CASE PipesKept
  BY <1>1
<1>2. ASSUME NEW i \in Pipes, OthersKept(i), Stores(i) \/ Takes(i)
      PROVE  FALSE
  <2>0. /\ TypeOK /\ Minder \in Threads
        /\ \A t \in Apps : t \in Threads /\ t # Minder
    BY ThreadsAssumption DEF QueueInv, IInv, Threads
  <2>1. ~Stores(i)
    BY <2>0
       DEF MinderStep, Minder_Receive, Ingest_NoPipe, Ingest_Overflow,
           Ingest_Return, Ingest_Lock, Ingest_Copy, Ingest_Signal, At,
           Stores
  <2>2. ~Takes(i)
    <3>1. \A t \in Apps : pc[t] = "rcv_take" => pc'[t] = pc[t]
      BY <2>0, StandingMinder
    <3> QED BY <3>1 DEF Takes
  <2> QED BY <1>2, <2>1, <2>2
<1> QED BY <1>1, <1>2, PipesMove DEF Next

\* The application leaves the receive thread where it is.
LEMMA AppAside ==
    ASSUME NEW a \in Apps, TypeOK, AppCall(a) \/ AppStep(a) \/ AppFault(a)
    PROVE  pc'[Minder] = pc[Minder] /\ msg_buffer' = msg_buffer
<1>0. a \in Threads /\ Minder \in Threads /\ Minder # a
  BY ThreadsAssumption DEF Threads
<1>1. CASE AppCall(a)
  BY <1>0, <1>1, CallMoves, GotoMoves DEF external
<1>2. CASE AppStep(a) \/ AppFault(a)
  BY <1>0, <1>2
     DEF AppStep, AppFault, CreatePipe_Claim, CreatePipe_Id,
         DeletePipe_InUse, DeletePipe_Id, DeletePipe_Count,
         DeletePipe_Read, DeletePipe_Subs, Subscribe_Store,
         Subscribe_Send, RcvMsg_Lock, RcvMsg_TimesOut, RcvMsg_Relock,
         RcvMsg_Take, RcvMsg_Count, RcvMsg_Unlock,
         RcvMsg_SpuriousWakeup, RcvMsg_LockFails, RcvMsg_WaitFails,
         RcvMsg_UnlockFails, ReturnFromRcvMsg, Return,
         LeaveWith, Goto, external, TypeOK
<1> QED BY <1>1, <1>2

\* A step of a call takes from a pipe, or stores a subscription, or does
\* neither.
LEMMA AppMoves ==
    ASSUME NEW a, Apps = {a}, QueueInv, Placement', Standing, Standing',
           tainted' = {}, AppCall(a) \/ AppStep(a) \/ AppFault(a)
    PROVE  /\ \/ PipesKept
              \/ \E i \in Pipes : OthersKept(i) /\ Takes(i)
           /\ Subscribe_Store(a) => PipesKept
<1>1. pc'[Minder] = pc[Minder]
  BY AppAside DEF QueueInv, IInv
<1>2. \A i \in Pipes : ~Stores(i)
  BY <1>1 DEF Stores
<1>3. PipesKept \/ \E i \in Pipes : OthersKept(i) /\ Takes(i)
  BY <1>2, PipesMove DEF Next
<1>4. Subscribe_Store(a) => \A i \in Pipes : ~Takes(i)
  BY DEF Subscribe_Store, At, Takes
<1> QED BY <1>3, <1>4

\* What Subscribe stores is one more id for its pipe, in a free slot.
LEMMA IdsStored ==
    ASSUME NEW a, Apps = {a}, TypeOK, Placement, TableInv, Subscribe_Store(a)
    PROVE  \E i \in Pipes, id \in MsgIds :
              /\ IdsOf(i)' = IdsOf(i) \cup {id}
              /\ \A p \in Pipes \ {i} : IdsOf(p)' = IdsOf(p)
<1>1. /\ pc[a] = "sub_store" /\ a \in Threads
      /\ SubscribedMsgIds' = [SubscribedMsgIds EXCEPT
            ![pipe_idx[a]][MsgIdIdx[a]] = MsgId[a]]
  BY DEF Subscribe_Store, At, Threads
<1>2. PICK i \in Pipes, id \in MsgIds, j \in SubSlots :
         i = pipe_idx[a] /\ id = MsgId[a] /\ j = MsgIdIdx[a]
  BY <1>1 DEF Placement
<1>3. SubscribedMsgIds[i][j] = INVALID_MSG_ID
  BY <1>1, <1>2 DEF TableInv, HalfWay
<1>4. ASSUME NEW p \in Pipes \ {i}
      PROVE  IdsOf(p)' = IdsOf(p)
  <2>1. SubscribedMsgIds'[p] = SubscribedMsgIds[p]
    BY <1>1, <1>2 DEF TypeOK
  <2> QED BY <2>1 DEF IdsOf, Subscribes
<1>5. ASSUME NEW m \in MsgIds
      PROVE  Subscribes(i, m)' <=> Subscribes(i, m) \/ m = id
  <2>1. \A k \in SubSlots : SubscribedMsgIds'[i][k]
                               = IF k = j THEN id ELSE SubscribedMsgIds[i][k]
    BY <1>1, <1>2 DEF TypeOK
  <2> QED BY <1>2, <1>3, <2>1, MessagesAssumption DEF Subscribes
<1>6. IdsOf(i)' = IdsOf(i) \cup {id}
  BY <1>5 DEF IdsOf
<1> QED BY <1>4, <1>6

\* Nothing else changes what a pipe subscribes to.
LEMMA IdsStand ==
    ASSUME NEW a, Apps = {a}, TypeOK, Standing, [Next]_vars,
           ~Subscribe_Store(a)
    PROVE  IdsKept
<1>1. UNCHANGED SubscribedMsgIds
  <2>1. CASE UNCHANGED vars
    BY <2>1 DEF vars, table
  <2>2. CASE AppCall(a)
    BY <2>2, CallMoves DEF table
  <2>3. CASE AppStep(a) \/ AppFault(a)
    BY <2>3, StandingOther
  <2>4. CASE MinderStep \/ \E m \in Msgs : Minder_Receive(m)
    BY <2>4, StandingMinder DEF table
  <2> QED BY <2>1, <2>2, <2>3, <2>4 DEF Next
<1> QED BY <1>1 DEF IdsKept, IdsOf, Subscribes

\* A pipe the scan would find is found.
LEMMA FirstExists ==
    ASSUME NEW S, S \subseteq Nat, NEW none, S # {}
    PROVE  First(S, none) \in S
<1>1. \E i \in S : \A j \in S : i <= j
  BY NatMinimum
<1> QED BY <1>1 DEF First

\* The message goes to a pipe that subscribes to it, if there is one.
LEMMA DestinationIs ==
    ASSUME Standing, msg_buffer \in Msgs
    PROVE  /\ Destination = INVALID_PIPE
                 => \A p \in Pipes : MsgIdOf[msg_buffer] \notin IdsOf(p)
           /\ Destination # INVALID_PIPE
                 => /\ Destination \in Pipes
                    /\ MsgIdOf[msg_buffer] \in IdsOf(Destination)
<1> DEFINE S == {p \in Pipes : InUse[p] /\ Subscribes(p, MsgIdOf[msg_buffer])}
<1>1. S \subseteq Nat /\ INVALID_PIPE \notin Pipes
      /\ MsgIdOf[msg_buffer] \in MsgIds
  BY Values, SizesTyped, MessagesAssumption DEF Pipes, INVALID_PIPE
<1>2. Destination = First(S, INVALID_PIPE)
  BY DEF Destination
<1>3. CASE S = {}
  <2>1. Destination = INVALID_PIPE
    BY <1>2, <1>3 DEF First
  <2> QED BY <1>1, <1>3, <2>1 DEF Standing, IdsOf
<1>4. CASE S # {}
  <2>1. Destination \in S
    BY <1>1, <1>2, <1>4, FirstExists
  <2> QED BY <1>1, <2>1 DEF IdsOf
<1> QED BY <1>3, <1>4

\* A pipe that is full when nobody holds the mutex has all its messages left.
LEMMA FullPipe ==
    ASSUME IInv, tainted = {}, NEW p \in Pipes, Full(p), receive_mutex = None
    PROVE  Len(Contents(p)) = MAX_PIPE_DEPTH - 1
<1>1. ~Taking(p)
  <2>1. \A t \in Apps : t \in Threads /\ t # None
    BY ThreadsAssumption DEF Threads
  <2> QED BY <2>1 DEF IInv, LockDiscipline, CriticalPcs, TakePcs, Taking
<1>2. Len(Contents(p)) = NumberOfMessages[p] - 1
  BY <1>1, Contained
<1> QED BY <1>2 DEF Full

-----------------------------------------------------------------------------
(* Programs that poll and delete no pipe, with any number of threads       *)

\* No thread waits, is woken or deletes.
Polling ==
    /\ tainted = {}
    /\ \A t \in Apps :
          /\ pc[t] \notin DeletePcs \cup {"rcv_wait", "rcv_wake",
                                          "rcv_timedout"}
          /\ pc[t] = "rcv_lock" => TimeOut[t] = "poll"

LEMMA PollPcs ==
    ASSUME "delete" \notin Calls, TimeOuts \subseteq {"poll"},
           IInv, Polling, Next, NEW t \in Apps
    PROVE  /\ pc'[t] \notin DeletePcs \cup {"rcv_wait", "rcv_wake",
                                            "rcv_timedout"}
           /\ pc'[t] = "rcv_lock" => TimeOut'[t] = "poll"
<1>0. /\ TypeOK /\ t \in Threads /\ t # Minder
      /\ pc[t] \notin DeletePcs /\ pc[t] # "rcv_wait" /\ pc[t] # "rcv_wake"
      /\ pc[t] # "rcv_timedout"
      /\ pc[t] = "rcv_lock" => TimeOut[t] = "poll"
  BY ThreadsAssumption DEF IInv, Threads, Polling
<1>1. CASE \E u \in Apps : AppCall(u)
  <2> PICK u \in Apps : AppCall(u)
    BY <1>1
  <2>1. CASE u # t
    <3>0. \E l : Goto(u, l)
      BY <1>0, CallMoves
    <3>1. pc'[t] = pc[t]
      BY <1>0, <2>1, <3>0 DEF Goto, TypeOK
    <3>2. \/ TimeOut' = [TimeOut EXCEPT ![u] = None]
          \/ TimeOut' = TimeOut
          \/ \E timeout : TimeOut' = [TimeOut EXCEPT ![u] = timeout]
      BY DEF AppCall, CreatePipe_Call, DeletePipe_Call, Subscribe_Call,
             RcvMsg_Call, UnimplementedCall, Enter, Return, ForgetLocals,
             locals
    <3>3. TimeOut'[t] = TimeOut[t]
      BY <1>0, <2>1, <3>2 DEF TypeOK
    <3> QED BY <1>0, <3>1, <3>3
  <2>2. CASE u = t
    <3>1. CASE \/ \E Depth : CreatePipe_Call(t, Depth)
               \/ \E id, msgid : Subscribe_Call(t, id, msgid)
               \/ UnimplementedCall(t)
      <4>1. pc'[t] \in {"idle", "create_claim", "sub_store"}
        BY <1>0, <3>1
           DEF CreatePipe_Call, Subscribe_Call, UnimplementedCall, Enter,
               Return, Goto, TypeOK
      <4> QED BY <4>1 DEF DeletePcs
    <3>2. CASE \/ \E id : DeletePipe_Call(t, id)
               \/ \E id : \E timeout \in TimeOuts :
                      RcvMsg_Call(t, id, timeout)
      <4>1. \/ pc'[t] = "idle"
            \/ pc'[t] = "rcv_lock" /\ TimeOut'[t] \in TimeOuts
        BY <1>0, <3>2
           DEF DeletePipe_Call, RcvMsg_Call, Enter, Return, Call, Goto,
               TypeOK
      <4> QED BY <4>1 DEF DeletePcs
    <3> QED BY <2>2, <3>1, <3>2 DEF AppCall
  <2> QED BY <2>1, <2>2
<1>2. CASE \E u \in Apps : AppStep(u) \/ AppFault(u)
  <2> PICK u \in Apps : AppStep(u) \/ AppFault(u)
    BY <1>2
  <2>0. /\ u \in Threads
        /\ pc[u] \notin DeletePcs /\ pc[u] # "rcv_wait" /\ pc[u] # "rcv_wake"
        /\ pc[u] # "rcv_timedout"
        /\ pc[u] = "rcv_lock" => TimeOut[u] = "poll"
    BY DEF Polling, Threads
  <2>1. \/ CreatePipe_Claim(u) \/ CreatePipe_Id(u) \/ Subscribe_Store(u)
        \/ Subscribe_Send(u) \/ RcvMsg_Lock(u) \/ RcvMsg_Take(u)
        \/ RcvMsg_Count(u) \/ RcvMsg_Unlock(u)
        \/ RcvMsg_LockFails(u) \/ RcvMsg_UnlockFails(u)
    BY <2>0
       DEF AppStep, AppFault, DeletePipe_InUse, DeletePipe_Id,
           DeletePipe_Count, DeletePipe_Read, DeletePipe_Subs,
           RcvMsg_TimesOut, RcvMsg_Relock, RcvMsg_SpuriousWakeup,
           RcvMsg_WaitFails, At, DeletePcs
  <2>2. CASE u # t
    <3>1. pc'[t] = pc[t] /\ TimeOut'[t] = TimeOut[t]
      BY <1>0, <2>0, <2>1, <2>2
         DEF CreatePipe_Claim, CreatePipe_Id, Subscribe_Store,
             Subscribe_Send, RcvMsg_Lock, RcvMsg_Take, RcvMsg_Count,
             RcvMsg_Unlock, RcvMsg_LockFails, RcvMsg_UnlockFails,
             ReturnFromRcvMsg, Return, ForgetLocals, LeaveWith, Goto,
             locals, TypeOK
    <3> QED BY <1>0, <3>1
  <2>3. CASE u = t
    <3>1. pc'[t] \in {"create_id", "idle", "sub_send", "rcv_take",
                      "rcv_unlock", "rcv_count"}
      BY <1>0, <2>0, <2>1, <2>3
         DEF CreatePipe_Claim, CreatePipe_Id, Subscribe_Store,
             Subscribe_Send, RcvMsg_Lock, RcvMsg_Take, RcvMsg_Count,
             RcvMsg_Unlock, RcvMsg_LockFails, RcvMsg_UnlockFails,
             ReturnFromRcvMsg, Return, LeaveWith, Goto, At, TypeOK
    <3> QED BY <3>1 DEF DeletePcs
  <2> QED BY <2>2, <2>3
<1>3. CASE MinderStep \/ \E m \in Msgs : Minder_Receive(m)
  <2>1. pc'[t] = pc[t] /\ TimeOut' = TimeOut
    BY <1>0, <1>3
       DEF MinderStep, Minder_Receive, Ingest_NoPipe, Ingest_Overflow,
           Ingest_Return, Ingest_Lock, Ingest_Copy, Ingest_Count,
           Ingest_Signal, Waiters, Polling, At, Goto, locals, TypeOK
  <2> QED BY <1>0, <2>1
<1> QED BY <1>1, <1>2, <1>3 DEF Next

\* Who is about to take has a message to take: nobody else writes the count.
LEMMA PollTakes ==
    ASSUME "delete" \notin Calls, TimeOuts \subseteq {"poll"},
           IInv, Polling, Next, NEW t \in Apps, pc'[t] = "rcv_take"
    PROVE  ~(NumberOfMessages'[pipe_idx'[t]] < 2)
<1>0. TypeOK /\ Placement /\ t \in Threads /\ Apps \subseteq Threads
      /\ t # Minder /\ Minder \in Threads
  BY ThreadsAssumption DEF IInv, Threads
<1>1. CASE RcvMsg_Lock(t)
  <2>1. /\ pipe_idx' = pipe_idx /\ NumberOfMessages' = NumberOfMessages
        /\ ~(NumberOfMessages[pipe_idx[t]] < 2)
    BY <1>0, <1>1 DEF RcvMsg_Lock, LeaveWith, Goto, NothingUnread, ring,
                      TypeOK
  <2> QED BY <2>1
<1>2. CASE ~RcvMsg_Lock(t)
  <2>1. pc[t] = "rcv_take" /\ pipe_idx'[t] = pipe_idx[t]
    <3>1. CASE \E u \in Apps : AppCall(u)
      <4>1. PICK u \in Apps : AppCall(u)
        BY <3>1
      <4>2. u # t
        BY <1>0, <4>1, CallMoves, GotoMoves DEF FirstPcs
      <4> QED BY <1>0, <4>1, <4>2, CallMoves, GotoMoves
    <3>2. CASE \E u \in Apps : AppStep(u) \/ AppFault(u)
      BY <1>0, <1>2, <3>2
         DEF AppStep, AppFault, CreatePipe_Claim, CreatePipe_Id,
             DeletePipe_InUse, DeletePipe_Id, DeletePipe_Count,
             DeletePipe_Read, DeletePipe_Subs, Subscribe_Store,
             Subscribe_Send, RcvMsg_Lock, RcvMsg_TimesOut, RcvMsg_Relock,
             RcvMsg_Take, RcvMsg_Count, RcvMsg_Unlock,
             RcvMsg_SpuriousWakeup, RcvMsg_LockFails, RcvMsg_WaitFails,
             RcvMsg_UnlockFails, ReturnFromRcvMsg, Return, ForgetLocals,
             LeaveWith, Goto, At, Polling, TypeOK
    <3>3. CASE MinderStep \/ \E m \in Msgs : Minder_Receive(m)
      BY <1>0, <3>3
         DEF MinderStep, Minder_Receive, Ingest_NoPipe, Ingest_Overflow,
             Ingest_Return, Ingest_Lock, Ingest_Copy, Ingest_Count,
             Ingest_Signal, Waiters, At, Goto, TypeOK
    <3> QED BY <3>1, <3>2, <3>3 DEF Next
  <2>2. NumberOfMessages' = NumberOfMessages
    <3>1. \A u \in Threads \ {t} : pc[u] \notin RingPcs
      BY <1>0, <2>1, Alone DEF IInv, CriticalPcs, TakePcs
    <3>2. ~\E u \in Apps : RcvMsg_Count(u) \/ DeletePipe_Count(u)
      BY <1>0, <2>1, <3>1
         DEF RcvMsg_Count, DeletePipe_Count, At, RingPcs, TakePcs,
             DeletePcs, Polling
    <3>3. ~Ingest_Count
      BY <1>0, <3>1 DEF Ingest_Count, At, RingPcs, StorePcs
    <3> QED BY <3>2, <3>3, RingWriters
  <2>3. pipe_idx[t] \in Pipes \ tainted
    BY <1>0, <2>1, UnderWay DEF Polling
  <2>4. PICK p \in Pipes \ tainted : p = pipe_idx[t]
    BY <2>3
  <2>5. NumberOfMessages[p] >= 2 /\ NumberOfMessages[p] \in Int
    BY <1>0, <2>1, <2>4, Untainted DEF TakePcs
  <2> QED BY <2>1, <2>2, <2>4, <2>5
<1> QED BY <1>1, <1>2

LEMMA PollStep ==
    ASSUME "delete" \notin Calls, TimeOuts \subseteq {"poll"},
           IInv, Polling, [Next]_vars
    PROVE  Polling'
<1>1. CASE UNCHANGED vars
  BY <1>1 DEF vars, locals, Polling
<1>2. CASE Next
  <2>1. \A t \in Apps :
           /\ pc'[t] \notin DeletePcs \cup {"rcv_wait", "rcv_wake",
                                            "rcv_timedout"}
           /\ pc'[t] = "rcv_lock" => TimeOut'[t] = "poll"
    BY <1>2, PollPcs
  <2>2. \A t \in Apps : pc'[t] = "rcv_take"
           => ~(NumberOfMessages'[pipe_idx'[t]] < 2)
    BY <1>2, PollTakes
  <2>3. Raced' = {}
    BY <2>1, <2>2 DEF Raced, Deleting, StaleWake
  <2>4. RecordRaces
    BY <1>2, EveryStep
  <2>5. tainted' = {}
    BY <2>3, <2>4 DEF RecordRaces, Polling
  <2> QED BY <2>1, <2>5 DEF Polling
<1> QED BY <1>1, <1>2

\* A program that never waits in RcvMsg and deletes no pipe meets neither of
\* the races, with any number of threads: what is promised of a pipe no race
\* has reached is promised of all its pipes, MinimumOneMessage among it.
THEOREM PollersMeetNoRace ==
    ASSUME "delete" \notin Calls, TimeOuts \subseteq {"poll"}
    PROVE  Spec => [](tainted = {} /\ MinimumOneMessage)
<1>1. Init => Polling
  BY DEF Init, Polling, DeletePcs, Threads
<1>2. ASSUME IInv, Polling, [Next]_vars PROVE Polling'
  BY <1>2, PollStep
<1>3. IInv /\ Polling => tainted = {} /\ MinimumOneMessage
  BY Untainted DEF Polling, MinimumOneMessage
<1> QED BY <1>1, <1>2, <1>3, Invariance, PTL DEF Spec
=============================================================================
