-------------------------- MODULE SbnClientProofs ---------------------------
(***************************************************************************)
(* The client as a whole implements each of its parts: its steps are steps *)
(* of SbnPipes and of SbnReceive, or leave their variables alone.  So what *)
(* is proved of the parts holds of the whole.                              *)
(*                                                                         *)
(* And it implements SbnChannel, which neither part promises alone: what   *)
(* SbnReceive says of the frames on their way, listed in order, and what   *)
(* SbnPipes says of each pipe, make one line from SBN to the pipes.        *)
(***************************************************************************)
EXTENDS SbnClient, SbnQueueProofs, FiniteSetTheorems

RP == INSTANCE SbnInStepProofs WITH pc <- recv_pc

\* SBN's own steps and those of recv_msg do not touch the pipes; where
\* recv_msg hands a message over SbnPipes receives one.
LEMMA PipesStep ==
    ASSUME [ClientNext]_cvars
    PROVE  [Next]_vars
<1>1. CASE UNCHANGED cvars
  BY <1>1 DEF cvars
<1>2. ASSUME NEW id \in MsgIds, NEW size \in Sizes \ {0},
             Sbn_Forward(id, size)
      PROVE  UNCHANGED vars
  BY <1>2 DEF Sbn_Forward
<1>3. ASSUME NEW frame \in R!Frames, Sbn_Chatter(frame)
      PROVE  UNCHANGED vars
  BY <1>3 DEF Sbn_Chatter
<1>4. CASE Sbn_Close
  BY <1>4 DEF Sbn_Close
<1>5. CASE Receive_Step
  <2>1. CASE Recv_Read \/ Recv_Dropped
    BY <2>1 DEF Recv_Read, Recv_Dropped
  <2>2. CASE Recv_Ingest
    <3>1. PICK m \in Carried : Minder_Receive(m)
      BY <2>2 DEF Recv_Ingest
    <3>2. m \in Msgs
      BY DEF Carried
    <3> QED BY <3>1, <3>2 DEF Next
  <2>3. CASE Pipes_Step(MinderStep)
    BY <2>3 DEF Pipes_Step, Next
  <2> QED BY <1>5, <2>1, <2>2, <2>3 DEF Receive_Step
<1>6. CASE Recv_Broken
  BY <1>6 DEF Recv_Broken
<1>7. ASSUME NEW t \in Apps,
             Pipes_Step(AppCall(t) \/ AppStep(t) \/ AppFault(t))
      PROVE  Next
  BY <1>7 DEF Pipes_Step, Next
<1> QED BY <1>1, <1>2, <1>3, <1>4, <1>5, <1>6, <1>7 DEF ClientNext

THEOREM ImplementsPipes == ClientSpec => Spec
<1>1. ClientInit => Init
  BY DEF ClientInit
<1> QED BY <1>1, PipesStep, PTL DEF ClientSpec, Spec

\* The receive thread takes its own steps, and only those; the application
\* takes none of them.
LEMMA ReceivePart ==
    ASSUME [ClientNext]_cvars
    PROVE  [R!Next]_(R!vars)
<1>1. UNCHANGED receiving => UNCHANGED R!vars
  BY DEF receiving, R!vars, R!stream
<1>2. CASE UNCHANGED cvars
  BY <1>1, <1>2 DEF cvars
<1>3. ASSUME NEW id \in MsgIds, NEW size \in Sizes \ {0},
             Sbn_Forward(id, size)
      PROVE  R!Next
  <2>1. [type |-> "app", size |-> size] \in R!Frames
    BY DEF R!Frames, R!Types
  <2> QED BY <1>3, <2>1 DEF Sbn_Forward, R!Next
<1>4. ASSUME NEW frame \in R!Frames, Sbn_Chatter(frame)
      PROVE  R!Next
  BY <1>4 DEF Sbn_Chatter, R!Next
<1>5. CASE Sbn_Close
  BY <1>5 DEF Sbn_Close, R!Next
<1>6. CASE Receive_Step
  <2>1. CASE Recv_Read \/ Recv_Dropped \/ Recv_Ingest
    BY <2>1 DEF Recv_Read, Recv_Dropped, Recv_Ingest, R!Next, R!MinderStep
  <2>2. CASE Pipes_Step(MinderStep)
    BY <1>1, <2>2 DEF Pipes_Step
  <2> QED BY <1>6, <2>1, <2>2 DEF Receive_Step
<1>7. CASE Recv_Broken
  BY <1>7 DEF Recv_Broken, R!Next
<1>8. ASSUME NEW t \in Apps,
             Pipes_Step(AppCall(t) \/ AppStep(t) \/ AppFault(t))
      PROVE  UNCHANGED R!vars
  BY <1>1, <1>8 DEF Pipes_Step
<1> QED BY <1>2, <1>3, <1>4, <1>5, <1>6, <1>7, <1>8 DEF ClientNext

THEOREM ImplementsReceive == ClientSpec => R!Spec
<1>1. ClientInit => R!Init
  BY DEF ClientInit
<1> QED BY <1>1, ReceivePart, PTL DEF ClientSpec, R!Spec

-----------------------------------------------------------------------------
(* SbnReceive is instantiated once by SbnClient, and once here with what   *)
(* is proved of it: the two are one specification.                         *)

LEMMA SameActions ==
    /\ UNCHANGED R!vars => UNCHANGED RP!vars
    /\ R!Frames = RP!Frames
    /\ \A frame \in R!Frames : R!Sbn_Send(frame) => RP!Sbn_Send(frame)
    /\ R!Sbn_Close => RP!Sbn_Close
    /\ R!ReadBytes_Some => RP!ReadBytes_Some
    /\ R!ReadBytes_Closed => RP!ReadBytes_Closed
    /\ R!ReadBytes_Broken => RP!ReadBytes_Broken
    /\ R!recv_msg_Header => RP!recv_msg_Header
    /\ R!recv_msg_Body => RP!recv_msg_Body
<1>1. R!vars = RP!vars /\ (UNCHANGED R!vars => UNCHANGED RP!vars)
  BY DEF R!vars, RP!vars, R!stream, RP!stream
<1>2. /\ R!Frames = RP!Frames
      /\ \A frame \in R!Frames : R!Sbn_Send(frame) => RP!Sbn_Send(frame)
  <2>1. R!Frames = RP!Frames
    BY DEF R!Frames, RP!Frames, R!Types, RP!Types
  <2>2. ASSUME NEW frame \in R!Frames, R!Sbn_Send(frame)
        PROVE  RP!Sbn_Send(frame)
    <3>1. /\ \A f : R!Header(f) = RP!Header(f)
          /\ \A f, n : R!Body(f, n) = RP!Body(f, n)
      BY DEF R!Header, RP!Header, R!Body, RP!Body
    <3> QED BY <2>2, <3>1 DEF R!Sbn_Send, RP!Sbn_Send
  <2> QED BY <2>1, <2>2
<1>3. R!Sbn_Close => RP!Sbn_Close
  BY DEF R!Sbn_Close, RP!Sbn_Close, R!Prefixes, RP!Prefixes
<1>4. R!ReadBytes_Some => RP!ReadBytes_Some
  BY DEF R!ReadBytes_Some, RP!ReadBytes_Some, R!Reading, RP!Reading,
     R!Complete, RP!Complete, R!Unread, RP!Unread, R!stream, RP!stream
<1>5. /\ R!ReadBytes_Closed => RP!ReadBytes_Closed
      /\ R!ReadBytes_Broken => RP!ReadBytes_Broken
  BY DEF R!ReadBytes_Closed, RP!ReadBytes_Closed, R!ReadBytes_Broken,
     RP!ReadBytes_Broken, R!ReadFailed, RP!ReadFailed, R!Finish, RP!Finish,
     R!Reading, RP!Reading,
     R!Complete, RP!Complete, R!Unread, RP!Unread, R!stream, RP!stream
<1>6. R!recv_msg_Header => RP!recv_msg_Header
  BY DEF R!recv_msg_Header, RP!recv_msg_Header, R!Finish, RP!Finish,
     R!Announced, RP!Announced, R!Frames, RP!Frames, R!Types, RP!Types,
     R!Header, RP!Header, R!TooLarge, RP!TooLarge,
     R!Complete, RP!Complete, R!Unread, RP!Unread, R!stream, RP!stream
<1>7. R!recv_msg_Body => RP!recv_msg_Body
  BY DEF R!recv_msg_Body, RP!recv_msg_Body, R!Finish, RP!Finish,
     R!Complete, RP!Complete, R!Unread, RP!Unread, R!stream, RP!stream
<1> QED BY <1>1, <1>2, <1>3, <1>4, <1>5, <1>6, <1>7

LEMMA SameSpec == R!Spec => RP!Spec
<1>1. R!Init => RP!Init
  BY DEF R!Init, RP!Init
<1>2. [R!Next]_(R!vars) => [RP!Next]_(RP!vars)
  BY SameActions DEF R!Next, RP!Next, R!MinderStep, RP!MinderStep
<1> QED BY <1>1, <1>2, PTL DEF R!Spec, RP!Spec

-----------------------------------------------------------------------------
(* What the whole client inherits from its parts                           *)

\* ReadBytes writes past no buffer of the client, whatever the application
\* does meanwhile.
THEOREM ClientNeverOverruns == ClientSpec => []R!NoOverrun
<1>1. RP!NoOverrun => R!NoOverrun
  BY DEF R!NoOverrun, RP!NoOverrun
<1> QED BY <1>1, ImplementsReceive, SameSpec, RP!NeverOverruns,
           ClientAssumption, PTL

\* What the receive thread hands to ingest_app_message is what SBN sent, in
\* order, whatever the application does to the pipes meanwhile.
THEOREM ClientStaysInStep == ClientSpec => []R!InStep
<1>1. R!AtRest = RP!AtRest /\ \A n : R!AppsUpTo(n) = RP!AppsUpTo(n)
  BY DEF R!AtRest, RP!AtRest, R!AppsUpTo, RP!AppsUpTo
<1>2. \A f, n : R!Body(f, n) = RP!Body(f, n)
  BY DEF R!Body, RP!Body
<1>3. \A S : R!Cardinality(S) = RP!Cardinality(S)
  BY DEF R!Cardinality, RP!Cardinality
<1>4. RP!InStep => R!InStep
  BY <1>1, <1>2, <1>3 DEF R!InStep, RP!InStep
<1> QED BY <1>4, ImplementsReceive, SameSpec, RP!StaysInStep,
           ClientAssumption, PTL

\* With frames read byte by byte too, no count leaves its range before a
\* race, and no message is copied over the one the application was handed.
THEOREM ClientKeepsRings == ClientSpec => []RingIntegrity /\ HeldMessageKept
BY ImplementsPipes, RingIntegrityHolds, HeldMessageIsKept, PTL

\* So until a race reaches a pipe it is a queue of what the receive thread
\* has read, whatever SBN sends and however it is read.
THEOREM ClientKeepsQueues == ClientSpec => IsQueue
BY ImplementsPipes, ImplementsQueue, PTL

\* The table, the stream and the history of ids keep their types.
THEOREM ClientTypeCorrect == ClientSpec => []ClientTypeOK
<1> DEFINE IdsOK == /\ ids \in Seq(MsgIds \cup {INVALID_MSG_ID})
                    /\ DOMAIN ids = DOMAIN sent
<1>1. ClientInit => IdsOK
  BY DEF ClientInit, R!Init
<1>2. R!TypeOK /\ IdsOK /\ [ClientNext]_cvars => IdsOK'
  <2> SUFFICES ASSUME R!TypeOK, IdsOK, [ClientNext]_cvars
               PROVE  IdsOK'
    OBVIOUS
  <2>1. ASSUME NEW frame, NEW id \in MsgIds \cup {INVALID_MSG_ID},
               sent' = Append(sent, frame), ids' = Append(ids, id)
        PROVE  IdsOK'
    <3>1. sent \in Seq(R!Frames) /\ Len(sent) \in Nat
      BY DEF R!TypeOK
    <3>2. DOMAIN sent' = 1 .. Len(sent) + 1 /\ DOMAIN ids' = 1 .. Len(ids) + 1
      BY <2>1, <3>1
    <3>3. Len(ids) = Len(sent)
      BY <3>1
    <3> QED BY <2>1, <3>2, <3>3
  <2>2. CASE UNCHANGED <<sent, ids>>
    BY <2>2
  <2>3. CASE UNCHANGED cvars
    BY <2>2, <2>3 DEF cvars, receiving
  <2>4. ASSUME NEW id \in MsgIds, NEW size \in Sizes \ {0},
               Sbn_Forward(id, size)
        PROVE  IdsOK'
    BY <2>1, <2>4 DEF Sbn_Forward, R!Sbn_Send
  <2>5. ASSUME NEW frame \in R!Frames, Sbn_Chatter(frame)
        PROVE  IdsOK'
    BY <2>1, <2>5 DEF Sbn_Chatter, R!Sbn_Send
  <2>6. CASE Sbn_Close
    BY <2>2, <2>6 DEF Sbn_Close, R!Sbn_Close
  <2>7. CASE Receive_Step \/ Recv_Broken
    BY <2>2, <2>7 DEF Receive_Step, Recv_Read, Recv_Dropped, Recv_Ingest,
       Recv_Broken, Pipes_Step, receiving, R!ReadBytes_Some,
       R!ReadBytes_Closed, R!ReadBytes_Broken, R!recv_msg_Header,
       R!recv_msg_Body, R!stream
  <2>8. ASSUME NEW t \in Apps,
               Pipes_Step(AppCall(t) \/ AppStep(t) \/ AppFault(t))
        PROVE  IdsOK'
    BY <2>2, <2>8 DEF Pipes_Step, receiving
  <2> QED BY <2>3, <2>4, <2>5, <2>6, <2>7, <2>8 DEF ClientNext
<1>3. RP!TypeOK => R!TypeOK
  BY DEF R!TypeOK, RP!TypeOK, R!Frames, RP!Frames, R!Types, RP!Types,
         R!Bytes, RP!Bytes
<1>4. TypeOK /\ R!TypeOK /\ IdsOK => ClientTypeOK
  BY DEF ClientTypeOK
<1> QED BY <1>1, <1>2, <1>3, <1>4, ImplementsPipes, TypeCorrect,
           ImplementsReceive, SameSpec, RP!ReceiveTypeCorrect,
           ClientAssumption, PTL DEF ClientSpec

-----------------------------------------------------------------------------
(* A set of numbers, listed in order                                       *)

\* s lists the n numbers of S.
Lists(s, n, S) ==
    /\ s \in [1 .. n -> S]
    /\ \A i, j \in 1 .. n : i < j => s[i] < s[j]
    /\ \A x \in S : \E i \in 1 .. n : s[i] = x

\* No number is listed twice.
LEMMA ListsDiffer ==
    ASSUME NEW S, S \subseteq Nat, NEW n \in Nat, NEW s \in [1 .. n -> S],
           \A i, j \in 1 .. n : i < j => s[i] < s[j]
    PROVE  \A i, j \in 1 .. n : s[i] = s[j] => i = j
<1> SUFFICES ASSUME NEW i \in 1 .. n, NEW j \in 1 .. n, s[i] = s[j], i # j
             PROVE  FALSE
  OBVIOUS
<1>1. s[i] \in Nat /\ s[j] \in Nat
  OBVIOUS
<1>2. i < j \/ j < i
  OBVIOUS
<1> QED BY <1>1, <1>2

\* What has a list is finite, and as large as the list is long.
LEMMA ListsAll ==
    ASSUME NEW S, S \subseteq Nat, NEW n \in Nat, NEW s, Lists(s, n, S)
    PROVE  IsFiniteSet(S) /\ Cardinality(S) = n
<1>0. IsFiniteSet(S) <=> \E k \in Nat : ExistsBijection(1 .. k, S)
  BY FS_NatBijection
<1>1. \A i, j \in 1 .. n : s[i] = s[j] => i = j
  <2>1. s \in [1 .. n -> S] /\ \A i, j \in 1 .. n : i < j => s[i] < s[j]
    BY DEF Lists
  <2> QED BY <2>1, ListsDiffer
<1>2. s \in Bijection(1 .. n, S)
  BY <1>1 DEF Lists, Bijection, Injection, IsInjective, Surjection
<1>3. ExistsBijection(1 .. n, S)
  BY <1>2 DEF ExistsBijection
<1>4. Cardinality(S) = n
  BY <1>3, FS_CountingElements
<1> QED BY <1>0, <1>3, <1>4

\* There is one way to list a set: the first place where two lists differ
\* would hold a number that one of them misses.
LEMMA ListsAgree ==
    ASSUME NEW S, S \subseteq Nat, NEW n \in Nat, NEW s, NEW t,
           Lists(s, n, S), Lists(t, n, S)
    PROVE  s = t
<1>1. s \in [1 .. n -> S] /\ t \in [1 .. n -> S]
  BY DEF Lists
<1> DEFINE D == {k \in 1 .. n : s[k] # t[k]}
<1>2. SUFFICES D = {}
  BY <1>1
<1>3. SUFFICES ASSUME D # {} PROVE FALSE
  OBVIOUS
<1>4. PICK k \in D : \A j \in D : k <= j
  <2>1. D \subseteq Nat
    OBVIOUS
  <2> QED BY <1>3, <2>1, NatMinimum
<1>5. k \in 1 .. n /\ s[k] # t[k] /\ \A j \in 1 .. n : j < k => s[j] = t[j]
  BY <1>4
<1> HIDE DEF D
<1>6. ASSUME NEW u, NEW v, Lists(u, n, S), Lists(v, n, S), u[k] < v[k],
             \A j \in 1 .. n : j < k => u[j] = v[j]
      PROVE  FALSE
  <2>1. u[k] \in S
    BY <1>5, <1>6 DEF Lists
  <2>2. PICK j \in 1 .. n : v[j] = u[k]
    BY <1>6, <2>1 DEF Lists
  <2>3. u[k] \in Nat /\ v[k] \in Nat /\ v[j] \in Nat /\ u[j] \in Nat
    BY <1>5, <1>6 DEF Lists
  <2>4. CASE j < k
    <3>1. u[j] = u[k]
      BY <1>6, <2>2, <2>4
    <3>2. u[j] < u[k]
      BY <1>5, <1>6, <2>4 DEF Lists
    <3> QED BY <2>3, <3>1, <3>2
  <2>5. CASE j = k
    BY <1>6, <2>2, <2>3, <2>5
  <2>6. CASE k < j
    <3>1. v[k] < v[j]
      BY <1>5, <1>6, <2>6 DEF Lists
    <3> QED BY <1>6, <2>2, <2>3, <3>1
  <2> QED BY <1>5, <2>4, <2>5, <2>6
<1>7. s[k] \in Nat /\ t[k] \in Nat
  BY <1>1, <1>5
<1>8. s[k] < t[k] \/ t[k] < s[k]
  BY <1>5, <1>7
<1> QED BY <1>5, <1>6, <1>8

\* So any list of a set is the one Listing chooses.
LEMMA ListingIs ==
    ASSUME NEW S, S \subseteq Nat, NEW n \in Nat, NEW s, Lists(s, n, S)
    PROVE  Listing(S) = s /\ Cardinality(S) = n
<1>1. IsFiniteSet(S) /\ Cardinality(S) = n
  BY ListsAll
<1>2. ASSUME NEW t \in [1 .. n -> S],
             \A i, j \in 1 .. n : i < j => t[i] < t[j]
      PROVE  t = s
  <2>1. \A i, j \in 1 .. n : t[i] = t[j] => i = j
    BY <1>2, ListsDiffer
  <2>2. t \in Injection(1 .. n, S)
    BY <2>1 DEF Injection, IsInjective
  <2>3. Cardinality(1 .. n) = n
    <3>1. 1 \in Int /\ n \in Int
      OBVIOUS
    <3> QED BY <3>1, FS_Interval
  <2>4. t \in Surjection(1 .. n, S)
    BY <1>1, <2>2, <2>3, FS_Injection
  <2>5. Lists(t, n, S)
    BY <1>2, <2>4 DEF Lists, Surjection
  <2> QED BY <2>5, ListsAgree
<1>3. s \in [1 .. n -> S] /\ \A i, j \in 1 .. n : i < j => s[i] < s[j]
  BY DEF Lists
<1> QED BY <1>1, <1>2, <1>3 DEF Listing

\* A number greater than those in S comes last.
LEMMA ListsMore ==
    ASSUME NEW S, S \subseteq Nat, NEW n \in Nat, NEW s, Lists(s, n, S),
           NEW x \in Nat, \A y \in S : y < x
    PROVE  Lists([k \in 1 .. n + 1 |-> IF k = n + 1 THEN x ELSE s[k]],
                 n + 1, S \cup {x})
<1> DEFINE t == [k \in 1 .. n + 1 |-> IF k = n + 1 THEN x ELSE s[k]]
<1>1. \A k \in 1 .. n : k \in 1 .. n + 1 /\ k # n + 1 /\ s[k] \in S
  BY DEF Lists
<1>2. \A k \in 1 .. n + 1 : k = n + 1 \/ k \in 1 .. n
  OBVIOUS
<1>3. n + 1 \in 1 .. n + 1
  OBVIOUS
<1>4. t[n + 1] = x /\ \A k \in 1 .. n : t[k] = s[k]
  BY <1>1, <1>3
<1>5. t \in [1 .. n + 1 -> S \cup {x}]
  BY <1>1, <1>2
<1> HIDE DEF t
<1>6. ASSUME NEW i \in 1 .. n + 1, NEW j \in 1 .. n + 1, i < j
      PROVE  t[i] < t[j]
  <2>1. i \in 1 .. n
    BY <1>6
  <2>2. CASE j = n + 1
    BY <1>1, <1>4, <2>1, <2>2
  <2>3. CASE j \in 1 .. n
    BY <1>4, <1>6, <2>1, <2>3 DEF Lists
  <2> QED BY <1>2, <2>2, <2>3
<1>7. ASSUME NEW y \in S \cup {x}
      PROVE  \E i \in 1 .. n + 1 : t[i] = y
  <2>1. CASE y = x
    BY <1>3, <1>4, <2>1
  <2>2. CASE y \in S
    BY <1>1, <1>4, <2>2 DEF Lists
  <2> QED BY <2>1, <2>2
<1> QED BY <1>5, <1>6, <1>7 DEF Lists, t

\* The least number in S comes first.
LEMMA ListsLess ==
    ASSUME NEW S, S \subseteq Nat, NEW n \in Nat, NEW s, Lists(s, n, S),
           NEW x \in S, \A y \in S : x <= y
    PROVE  /\ n >= 1 /\ s[1] = x
           /\ Lists([k \in 1 .. n - 1 |-> s[k + 1]], n - 1, S \ {x})
<1> DEFINE t == [k \in 1 .. n - 1 |-> s[k + 1]]
<1>1. PICK j \in 1 .. n : s[j] = x
  BY DEF Lists
<1>2. 1 \in 1 .. n
  OBVIOUS
<1>3. s[1] = x
  <2>1. s[1] \in S /\ s[1] \in Nat /\ x \in Nat
    BY <1>2 DEF Lists
  <2>2. j # 1 => s[1] < s[j]
    BY <1>1, <1>2 DEF Lists
  <2> QED BY <1>1, <2>1, <2>2
<1>4. \A k \in 1 .. n - 1 : k + 1 \in 1 .. n /\ 1 < k + 1
  OBVIOUS
<1>5. \A k \in 1 .. n - 1 : s[k + 1] \in S \ {x}
  <2> SUFFICES ASSUME NEW k \in 1 .. n - 1 PROVE s[k + 1] \in S \ {x}
    OBVIOUS
  <2>1. s[k + 1] \in S /\ s[1] < s[k + 1]
    BY <1>2, <1>4 DEF Lists
  <2>2. s[k + 1] \in Nat /\ x \in Nat
    BY <2>1
  <2> QED BY <1>3, <2>1, <2>2
<1>6. n - 1 \in Nat /\ t \in [1 .. n - 1 -> S \ {x}]
      /\ \A k \in 1 .. n - 1 : t[k] = s[k + 1]
  BY <1>2, <1>5
<1> HIDE DEF t
<1>7. \A k, l \in 1 .. n - 1 : k < l => t[k] < t[l]
  <2> SUFFICES ASSUME NEW k \in 1 .. n - 1, NEW l \in 1 .. n - 1, k < l
               PROVE  t[k] < t[l]
    OBVIOUS
  <2>1. k + 1 < l + 1
    OBVIOUS
  <2> QED BY <1>4, <1>6, <2>1 DEF Lists
<1>8. ASSUME NEW y \in S \ {x}
      PROVE  \E k \in 1 .. n - 1 : t[k] = y
  <2>1. PICK i \in 1 .. n : s[i] = y
    BY DEF Lists
  <2>2. i # 1
    BY <1>3, <2>1
  <2>3. i - 1 \in 1 .. n - 1 /\ (i - 1) + 1 = i
    BY <2>2
  <2> QED BY <1>6, <2>1, <2>3
<1> QED BY <1>2, <1>3, <1>6, <1>7, <1>8 DEF Lists, t

\* The numbers of S below some bound are the first ones.
LEMMA ListsFront ==
    ASSUME NEW S, S \subseteq Nat, NEW n \in Nat, NEW s, Lists(s, n, S),
           NEW T, T \subseteq S, \A y \in T, z \in S : z < y => z \in T
    PROVE  \E m \in 0 .. n : Lists([k \in 1 .. m |-> s[k]], m, T)
<1> DEFINE Out == {k \in 1 .. n : s[k] \notin T}
<1>1. ASSUME NEW m \in 0 .. n, \A k \in 1 .. n : k <= m <=> s[k] \in T
      PROVE  Lists([k \in 1 .. m |-> s[k]], m, T)
  <2> DEFINE t == [k \in 1 .. m |-> s[k]]
  <2>1. \A k \in 1 .. m : k \in 1 .. n /\ s[k] \in T /\ t[k] = s[k]
    BY <1>1
  <2>2. t \in [1 .. m -> T]
    BY <2>1
  <2> HIDE DEF t
  <2>3. \A i, j \in 1 .. m : i < j => t[i] < t[j]
    BY <2>1 DEF Lists
  <2>4. \A x \in T : \E i \in 1 .. m : t[i] = x
    <3> SUFFICES ASSUME NEW x \in T PROVE \E i \in 1 .. m : t[i] = x
      OBVIOUS
    <3>1. PICK i \in 1 .. n : s[i] = x
      BY DEF Lists
    <3>2. i \in 1 .. m
      BY <1>1, <3>1
    <3> QED BY <2>1, <3>1, <3>2
  <2> QED BY <2>2, <2>3, <2>4 DEF Lists, t
<1>2. CASE Out = {}
  <2>1. \A k \in 1 .. n : k <= n <=> s[k] \in T
    BY <1>2
  <2> QED BY <1>1, <2>1
<1>3. CASE Out # {}
  <2>1. Out \subseteq Nat
    OBVIOUS
  <2>2. PICK k \in Out : \A j \in Out : k <= j
    BY <1>3, <2>1, NatMinimum
  <2>3. k \in 1 .. n /\ s[k] \notin T /\ \A j \in 1 .. n : j < k => s[j] \in T
    BY <2>2
  <2> HIDE DEF Out
  <2>4. ASSUME NEW j \in 1 .. n
        PROVE  j <= k - 1 <=> s[j] \in T
    <3>1. CASE j < k
      BY <2>3, <3>1
    <3>2. CASE j = k
      BY <2>3, <3>2
    <3>3. CASE k < j
      <4>1. s[k] < s[j] /\ s[k] \in S
        BY <2>3, <3>3 DEF Lists
      <4>2. s[j] \notin T
        BY <2>3, <4>1
      <4> QED BY <2>3, <3>3, <4>2
    <3> QED BY <2>3, <3>1, <3>2, <3>3
  <2>5. k - 1 \in 0 .. n
    BY <2>3
  <2> QED BY <1>1, <2>4, <2>5
<1> QED BY <1>2, <1>3

\* Every set of numbers up to m has a list: were there a least m for which
\* one has none, the list for m - 1 would go on to m.
LEMMA ListsExist ==
    ASSUME NEW S, NEW m \in Nat, S \subseteq 1 .. m
    PROVE  \E n \in Nat : \E s : Lists(s, n, S)
<1> DEFINE To == [k \in Nat |-> {x \in S : x <= k}]
           Bad == {k \in Nat : ~\E n \in Nat : \E s : Lists(s, n, To[k])}
<1>1. \A x \in S : x \in Nat /\ x # 0 /\ x <= m
  OBVIOUS
<1> HIDE DEF Bad
<1>2. \A k \in Nat : \A x : x \in To[k] <=> x \in S /\ x <= k
  OBVIOUS
<1> HIDE DEF To
<1>3. To[0] = {} /\ To[m] = S
  <2>1. \A x : x \notin To[0]
    BY <1>1, <1>2
  <2>2. \A x : x \in To[m] <=> x \in S
    BY <1>1, <1>2
  <2> QED BY <2>1, <2>2
<1>4. 0 \notin Bad
  <2>1. Lists([k \in 1 .. 0 |-> 0], 0, {})
    BY DEF Lists
  <2> QED BY <1>3, <2>1 DEF Bad
<1>5. ASSUME NEW k \in Nat \ {0}, k - 1 \notin Bad
      PROVE  k \notin Bad
  <2>0. /\ k \in Nat /\ k - 1 \in Nat
        /\ \A x : x \in To[k - 1] <=> x \in S /\ x <= k - 1
        /\ \A x : x \in To[k] <=> x \in S /\ x <= k
    BY <1>2
  <2>1. PICK n \in Nat : \E s : Lists(s, n, To[k - 1])
    BY <1>5, <2>0 DEF Bad
  <2>2. PICK s : Lists(s, n, To[k - 1])
    BY <2>1
  <2>3. CASE k \in S
    <3>1. ASSUME NEW x \in To[k - 1]
          PROVE  x \in Nat /\ x < k
      <4>1. x \in S /\ x <= k - 1
        BY <2>0
      <4>2. x \in Nat
        BY <1>1, <4>1
      <4> QED BY <2>0, <4>1, <4>2
    <3>2. \E t : Lists(t, n + 1, To[k - 1] \cup {k})
      BY <2>2, <3>1, ListsMore
    <3>3. ASSUME NEW x
          PROVE  x \in To[k] <=> x \in To[k - 1] \/ x = k
      <4>1. x \in To[k] <=> x \in S /\ x <= k
        BY <2>0
      <4>2. x \in To[k - 1] <=> x \in S /\ x <= k - 1
        BY <2>0
      <4>3. x \in S => x \in Nat
        BY <1>1
      <4> QED BY <2>0, <2>3, <4>1, <4>2, <4>3
    <3>4. n + 1 \in Nat /\ To[k] = To[k - 1] \cup {k}
      BY <3>3
    <3> QED BY <3>2, <3>4 DEF Bad
  <2>4. CASE k \notin S
    <3>1. ASSUME NEW x
          PROVE  x \in To[k] <=> x \in To[k - 1]
      <4>1. x \in To[k] <=> x \in S /\ x <= k
        BY <2>0
      <4>2. x \in To[k - 1] <=> x \in S /\ x <= k - 1
        BY <2>0
      <4>3. x \in S => x \in Nat
        BY <1>1
      <4> QED BY <2>0, <2>4, <4>1, <4>2, <4>3
    <3>2. To[k] = To[k - 1]
      BY <3>1
    <3> QED BY <2>2, <3>2 DEF Bad
  <2> QED BY <2>3, <2>4
<1>6. Bad = {}
  <2> SUFFICES ASSUME Bad # {} PROVE FALSE
    OBVIOUS
  <2>1. Bad \subseteq Nat
    BY DEF Bad
  <2>2. PICK k \in Bad : \A j \in Bad : k <= j
    BY <2>1, NatMinimum
  <2>3. k \in Nat \ {0} /\ k \in Bad
    BY <1>4, <2>2 DEF Bad
  <2>4. k - 1 \in Nat /\ ~(k <= k - 1)
    BY <2>3
  <2>5. k - 1 \notin Bad
    BY <2>2, <2>4
  <2> QED BY <1>5, <2>3, <2>5
<1> QED BY <1>3, <1>6 DEF Bad

-----------------------------------------------------------------------------
(* Steps of the channel, in the terms of the client                        *)

\* SBN does not close the connection.
LinkKept == (link = "up")' <=> link = "up"

\* The channel does not see a step that changes none of its variables.
LEMMA ChannelIdles ==
    ASSUME Sound, Sound', Line' = Line, LinkKept, IdsKept, PipesKept
    PROVE  UNCHANGED Channel!chvars
BY DEF LinkKept, IdsKept, PipesKept, PipeKept, IdsOf, Held, Channel!chvars

\* SBN forwards m.
LEMMA ChannelForwards ==
    ASSUME Sound, Sound', NEW m \in Msgs, \A k \in DOMAIN Line : Line[k] # m,
           Line' = Append(Line, m), link = "up", LinkKept, IdsKept, PipesKept
    PROVE  Channel!Next
<1>1. Channel!Forward(m)
  BY DEF LinkKept, IdsKept, PipesKept, PipeKept, IdsOf, Held, Channel!Forward
<1> QED BY <1>1 DEF Channel!Next

\* SBN closes the connection, and some of the line is lost.
LEMMA ChannelCloses ==
    ASSUME Sound, Sound', Line' \in Channel!Prefixes(Line), link = "up",
           link' # "up", IdsKept, PipesKept
    PROVE  Channel!Next
<1>1. Channel!Close
  BY DEF IdsKept, PipesKept, PipeKept, IdsOf, Held, Channel!Close,
         Channel!Prefixes
<1> QED BY <1>1 DEF Channel!Next

\* The first message of the line comes to pipe i.
LEMMA ChannelArrives ==
    ASSUME Sound, Sound', NEW i \in Pipes, Line # <<>>, Line' = Tail(Line),
           MsgIdOf[Head(Line)] \in IdsOf(i),
           Len(Contents(i)) # MAX_PIPE_DEPTH - 1,
           Contents(i)' = Append(Contents(i), Head(Line)),
           Held(i)' = Held(i), OthersKept(i), LinkKept, IdsKept
    PROVE  Channel!Next
<1>1. Channel!Arrive(i)
  BY DEF LinkKept, IdsKept, OthersKept, PipeKept, IdsOf, Held, Channel!Arrive,
         Channel!Subscribers, Channel!Full
<1> QED BY <1>1 DEF Channel!Next

\* It is lost, to no subscription or to a full pipe.
LEMMA ChannelDiscards ==
    ASSUME Sound, Sound', Line # <<>>, Line' = Tail(Line),
           \/ \A p \in Pipes : MsgIdOf[Head(Line)] \notin IdsOf(p)
           \/ \E p \in Pipes : /\ MsgIdOf[Head(Line)] \in IdsOf(p)
                               /\ Len(Contents(p)) = MAX_PIPE_DEPTH - 1,
           LinkKept, IdsKept, PipesKept
    PROVE  Channel!Next
<1>1. Channel!Discard
  BY DEF LinkKept, IdsKept, PipesKept, PipeKept, IdsOf, Held, Channel!Discard,
         Channel!Subscribers, Channel!Full
<1> QED BY <1>1 DEF Channel!Next

\* The application takes the oldest message of pipe i.
LEMMA ChannelTakes ==
    ASSUME Sound, Sound', NEW i \in Pipes, Contents(i) # <<>>,
           Held(i)' = Head(Contents(i)), Contents(i)' = Tail(Contents(i)),
           OthersKept(i), Line' = Line, LinkKept, IdsKept
    PROVE  Channel!Next
<1>1. Channel!Take(i)
  BY DEF LinkKept, IdsKept, OthersKept, PipeKept, IdsOf, Held, Channel!Take
<1> QED BY <1>1 DEF Channel!Next

\* Pipe i subscribes to id, whether or not the channel is sound.
LEMMA ChannelSubscribes ==
    ASSUME NEW i \in Pipes, NEW id \in MsgIds,
           IdsOf(i)' = IdsOf(i) \cup {id},
           \A q \in Pipes \ {i} : IdsOf(q)' = IdsOf(q), LinkKept,
           \/ ~Sound /\ ~Sound'
           \/ Sound /\ Sound' /\ Line' = Line /\ PipesKept
    PROVE  Channel!Next
<1> SUFFICES Channel!Subscribe(i, id)
  BY DEF Channel!Next
<1>1. [p \in Pipes |-> IdsOf(p)]'
         = [[p \in Pipes |-> IdsOf(p)] EXCEPT ![i] = @ \cup {id}]
  OBVIOUS
<1>2. CASE ~Sound /\ ~Sound'
  <2>1. Sound = FALSE /\ Sound' = FALSE
    BY <1>2 DEF Sound
  <2> QED BY <1>1, <2>1 DEF LinkKept, IdsOf, Channel!Subscribe
<1>3. CASE Sound /\ Sound' /\ Line' = Line /\ PipesKept
  BY <1>1, <1>3
     DEF LinkKept, PipesKept, PipeKept, IdsOf, Held, Channel!Subscribe
<1> QED BY <1>2, <1>3

\* The channel stops being sound.
LEMMA ChannelFails ==
    ASSUME Sound, ~Sound', LinkKept, IdsKept
    PROVE  Channel!Next
<1>1. Channel!Fail
  BY DEF LinkKept, IdsKept, IdsOf, Channel!Fail
<1> QED BY <1>1 DEF Channel!Next

\* Then its promise is over, and only ids and the connection are seen.
LEMMA ChannelGone ==
    ASSUME ~Sound, ~Sound', LinkKept, IdsKept
    PROVE  UNCHANGED Channel!chvars
<1>1. Sound = FALSE /\ Sound' = FALSE
  BY DEF Sound
<1> QED BY <1>1 DEF LinkKept, IdsKept, IdsOf, Channel!chvars

\* The connection may still be closed.
LEMMA ChannelGoneClosed ==
    ASSUME ~Sound, ~Sound', link = "up", link' # "up", IdsKept
    PROVE  Channel!Next
<1>1. Sound = FALSE /\ Sound' = FALSE
  BY DEF Sound
<1>2. <<>> \in Channel!Prefixes(<<>>)
  BY DEF Channel!Prefixes
<1>3. Channel!Close
  BY <1>1, <1>2 DEF IdsKept, IdsOf, Channel!Close
<1> QED BY <1>3 DEF Channel!Next

-----------------------------------------------------------------------------
(* Sequences                                                               *)

\* What stands behind x.
LEMMA Behind ==
    ASSUME NEW N, NEW x \in N, NEW W \in Seq(N)
    PROVE  /\ <<x>> \o W # <<>> /\ Head(<<x>> \o W) = x
           /\ Tail(<<x>> \o W) = W
<1>1. /\ <<x>> \in Seq(N) /\ <<x>> \o W \in Seq(N)
      /\ Len(<<x>> \o W) = Len(W) + 1 /\ (<<x>> \o W)[1] = x
      /\ \A k \in 1 .. Len(W) : (<<x>> \o W)[k + 1] = W[k]
  OBVIOUS
<1>2. <<x>> \o W # <<>>
  BY <1>1
<1>3. /\ Tail(<<x>> \o W) \in Seq(N) /\ Len(Tail(<<x>> \o W)) = Len(W)
      /\ \A k \in 1 .. Len(W) : Tail(<<x>> \o W)[k] = W[k]
  BY <1>1, <1>2, HeadTailProperties
<1>4. Tail(<<x>> \o W) = W
  BY <1>3, SeqEqual
<1> QED BY <1>1, <1>2, <1>4

\* The first, and what comes after it, make the whole.
LEMMA HeadBack ==
    ASSUME NEW N, NEW W \in Seq(N), W # <<>>
    PROVE  <<Head(W)>> \o Tail(W) = W
BY HeadTailProperties

\* What comes after the first.
LEMMA TailIs ==
    ASSUME NEW N, NEW W \in Seq(N), W # <<>>
    PROVE  /\ Head(W) = W[1]
           /\ Tail(W) = [k \in 1 .. Len(W) - 1 |-> W[k + 1]]
<1>1. /\ Head(W) = W[1] /\ Len(W) \in Nat
      /\ Tail(W) \in Seq(N) /\ Len(Tail(W)) = Len(W) - 1
      /\ \A k \in 1 .. Len(Tail(W)) : Tail(W)[k] = W[k + 1]
  BY HeadTailProperties
<1>2. ASSUME NEW T \in Seq(N), NEW m, Len(T) = m,
             \A k \in 1 .. Len(T) : T[k] = W[k + 1]
      PROVE  T = [k \in 1 .. m |-> W[k + 1]]
  <2>1. T = [k \in 1 .. m |-> T[k]]
    BY <1>2
  <2> QED BY <1>2, <2>1
<1> QED BY <1>1, <1>2

\* What is added at the end is added to the whole.
LEMMA AppendBehind ==
    ASSUME NEW N, NEW A \in Seq(N), NEW W \in Seq(N), NEW x \in N
    PROVE  A \o Append(W, x) = Append(A \o W, x)
<1>1. /\ Append(W, x) = W \o <<x>> /\ Append(A \o W, x) = (A \o W) \o <<x>>
      /\ <<x>> \in Seq(N)
  OBVIOUS
<1> QED BY <1>1, ConcatAssociative

\* A prefix of what stands behind A is, with A, one of the whole.
LEMMA FrontBehind ==
    ASSUME NEW N, NEW A \in Seq(N), NEW W \in Seq(N), NEW m \in 0 .. Len(W)
    PROVE  /\ Len(A) + m \in 0 .. Len(A \o W)
           /\ A \o SubSeq(W, 1, m) = SubSeq(A \o W, 1, Len(A) + m)
<1> DEFINE F == SubSeq(W, 1, m)
           B == SubSeq(A \o W, 1, Len(A) + m)
<1>1. /\ A \o W \in Seq(N) /\ Len(A \o W) = Len(A) + Len(W)
      /\ Len(A) \in Nat /\ Len(W) \in Nat
  OBVIOUS
<1>2. /\ F \in Seq(N) /\ Len(F) = m /\ \A k \in 1 .. m : F[k] = W[k]
  OBVIOUS
<1>3. /\ B \in Seq(N) /\ Len(B) = Len(A) + m
      /\ \A k \in 1 .. Len(A) + m : B[k] = (A \o W)[k]
  BY <1>1
<1>4. A \o F \in Seq(N) /\ Len(A \o F) = Len(A) + m
  BY <1>2
<1>5. ASSUME NEW k \in 1 .. Len(A) + m
      PROVE  (A \o F)[k] = (A \o W)[k]
  <2>1. (A \o F)[k] = IF k <= Len(A) THEN A[k] ELSE F[k - Len(A)]
    BY <1>1, <1>2, ConcatProperties
  <2>2. (A \o W)[k] = IF k <= Len(A) THEN A[k] ELSE W[k - Len(A)]
    BY <1>1, ConcatProperties
  <2> HIDE DEF F
  <2>3. k > Len(A) => k - Len(A) \in 1 .. m
    BY <1>1
  <2> QED BY <1>1, <1>2, <2>1, <2>2, <2>3
<1> HIDE DEF F, B
<1>6. A \o F = B
  BY <1>3, <1>4, <1>5, SeqEqual
<1> QED BY <1>1, <1>6 DEF F, B
-----------------------------------------------------------------------------
(* The invariant of the whole                                              *)

\* The message the receive thread is at work on is of a frame that was sent,
\* if it is of a frame.
Fresh ==
    pc[Minder] \in {"ing_lock"} \cup StorePcs
    => msg_buffer[1] \in 0 .. Len(sent)

\* What is known of the parts, and of where they meet.
ClientInv ==
    /\ ClientTypeOK
    /\ SubscribedInv
    /\ Standing
    /\ RP!ReadInv
    /\ RP!AppsHaveBodies
    /\ Fresh

\* What SBN sends is one frame more; nothing else changes what was sent.
LEMMA FramesGrow ==
    ASSUME [ClientNext]_cvars
    PROVE  \/ UNCHANGED sent /\ UNCHANGED ids
           \/ \E id \in MsgIds, size \in Sizes \ {0} : Sbn_Forward(id, size)
           \/ \E frame \in R!Frames : Sbn_Chatter(frame)
<1>1. CASE UNCHANGED cvars
  BY <1>1 DEF cvars, receiving
<1>2. CASE Sbn_Close
  BY <1>2 DEF Sbn_Close, R!Sbn_Close
<1>3. CASE Receive_Step \/ Recv_Broken
  BY <1>3 DEF Receive_Step, Recv_Read, Recv_Dropped, Recv_Ingest,
     Recv_Broken, Pipes_Step, receiving, R!ReadBytes_Some,
     R!ReadBytes_Closed, R!ReadBytes_Broken, R!recv_msg_Header,
     R!recv_msg_Body, R!stream
<1>4. ASSUME NEW t \in Apps,
             Pipes_Step(AppCall(t) \/ AppStep(t) \/ AppFault(t))
      PROVE  UNCHANGED sent /\ UNCHANGED ids
  BY <1>4 DEF Pipes_Step, receiving
<1> QED BY <1>1, <1>2, <1>3, <1>4 DEF ClientNext

\* A message of an empty body is not sent.
LEMMA BodiesStep ==
    ASSUME ClientTypeOK, RP!AppsHaveBodies, [ClientNext]_cvars
    PROVE  RP!AppsHaveBodies'
<1>1. CASE UNCHANGED sent
  BY <1>1 DEF RP!AppsHaveBodies
<1>2. ASSUME NEW frame \in R!Frames, R!Sbn_Send(frame),
             frame.type = "app" => frame.size > 0
      PROVE  RP!AppsHaveBodies'
  <2>1. sent \in Seq(R!Frames) /\ sent' = Append(sent, frame)
    BY <1>2 DEF ClientTypeOK, R!TypeOK, R!Sbn_Send
  <2>2. \A f \in DOMAIN sent' :
           \/ f = Len(sent) + 1 /\ sent'[f] = frame
           \/ f \in DOMAIN sent /\ sent'[f] = sent[f]
    BY <2>1
  <2> QED BY <1>2, <2>2 DEF RP!AppsHaveBodies
<1>3. ASSUME NEW id \in MsgIds, NEW size \in Sizes \ {0},
             Sbn_Forward(id, size)
      PROVE  RP!AppsHaveBodies'
  <2> DEFINE frame == [type |-> "app", size |-> size]
  <2>1. frame \in R!Frames
    BY DEF R!Frames, R!Types
  <2>2. size > 0
    BY ClientAssumption
  <2>3. frame.type = "app" => frame.size > 0
    BY <2>2
  <2>4. R!Sbn_Send(frame)
    BY <1>3 DEF Sbn_Forward
  <2> HIDE DEF frame
  <2> QED BY <1>2, <2>1, <2>3, <2>4
<1>4. ASSUME NEW frame \in R!Frames, Sbn_Chatter(frame)
      PROVE  RP!AppsHaveBodies'
  BY <1>2, <1>4 DEF Sbn_Chatter
<1> QED BY <1>1, <1>3, <1>4, FramesGrow

\* What the receive thread is given is of a frame that was sent.
LEMMA FreshStep ==
    ASSUME ClientTypeOK, Fresh, [ClientNext]_cvars
    PROVE  Fresh'
<1>0. /\ TypeOK /\ Len(sent) \in Nat /\ DOMAIN sent = 1 .. Len(sent)
      /\ Minder \in Threads
  BY DEF ClientTypeOK, R!TypeOK, Threads
<1>1. UNCHANGED <<pc, msg_buffer>> /\ UNCHANGED sent => Fresh'
  BY DEF Fresh
<1>2. CASE UNCHANGED cvars
  BY <1>1, <1>2 DEF cvars, vars, external, receiving
<1>3. ASSUME NEW frame, R!Sbn_Send(frame), UNCHANGED vars
      PROVE  Fresh'
  <2>1. Len(sent') = Len(sent) + 1
    BY <1>3 DEF ClientTypeOK, R!TypeOK, R!Sbn_Send
  <2> QED BY <1>0, <1>3, <2>1 DEF vars, external, Fresh
<1>4. ASSUME NEW id \in MsgIds, NEW size \in Sizes \ {0},
             Sbn_Forward(id, size)
      PROVE  Fresh'
  BY <1>3, <1>4 DEF Sbn_Forward
<1>5. ASSUME NEW frame \in R!Frames, Sbn_Chatter(frame)
      PROVE  Fresh'
  BY <1>3, <1>5 DEF Sbn_Chatter
<1>6. CASE Sbn_Close \/ Recv_Read \/ Recv_Dropped \/ Recv_Broken
  BY <1>1, <1>6 DEF Sbn_Close, Recv_Read, Recv_Dropped, Recv_Broken,
     vars, external, R!Sbn_Close, R!ReadBytes_Some, R!ReadBytes_Closed,
     R!ReadBytes_Broken, R!recv_msg_Header, R!recv_msg_Body, R!stream
<1>7. CASE Recv_Ingest
  <2>1. PICK m \in Carried : Minder_Receive(m)
    BY <1>7 DEF Recv_Ingest
  <2>2. m[1] \in 0 .. Len(sent)
    BY <1>0 DEF Carried
  <2>3. msg_buffer' = m /\ sent' = sent
    BY <1>7, <2>1 DEF Minder_Receive, Recv_Ingest, R!recv_msg_Body, R!stream
  <2> QED BY <2>2, <2>3 DEF Fresh
<1>8. CASE Pipes_Step(MinderStep)
  <2>1. MinderStep /\ sent' = sent
    BY <1>8 DEF Pipes_Step, receiving
  <2>2. \/ pc'[Minder] \notin {"ing_lock"} \cup StorePcs
        \/ /\ pc[Minder] \in {"ing_lock"} \cup StorePcs
           /\ msg_buffer' = msg_buffer
    BY <1>0, <2>1
       DEF MinderStep, Ingest_NoPipe, Ingest_Overflow, Ingest_Return,
           Ingest_Lock, Ingest_Copy, Ingest_Count, Ingest_Signal, At, Goto,
           Lock, Waiters, external, StorePcs, TypeOK
  <2> QED BY <2>1, <2>2 DEF Fresh
<1>9. ASSUME NEW t \in Apps,
             Pipes_Step(AppCall(t) \/ AppStep(t) \/ AppFault(t))
      PROVE  Fresh'
  <2>1. sent' = sent /\ (AppCall(t) \/ AppStep(t) \/ AppFault(t))
    BY <1>9 DEF Pipes_Step, receiving
  <2>2. pc'[Minder] = pc[Minder] /\ msg_buffer' = msg_buffer
    BY <1>0, <2>1, AppAside
  <2> QED BY <2>1, <2>2 DEF Fresh
<1> QED BY <1>2, <1>4, <1>5, <1>6, <1>7, <1>8, <1>9
        DEF ClientNext, Receive_Step

\* The invariant holds in every state, for one thread that deletes no pipe.
LEMMA AlwaysClient ==
    ASSUME NEW a, Apps = {a}, "delete" \notin Calls
    PROVE  ClientSpec => []ClientInv
<1>1. ClientInit => RP!AppsHaveBodies /\ Fresh
  BY DEF ClientInit, R!Init, RP!AppsHaveBodies, Init, Fresh, Threads,
         StorePcs
<1>2. /\ ClientTypeOK /\ RP!AppsHaveBodies /\ Fresh /\ [ClientNext]_cvars
      => RP!AppsHaveBodies' /\ Fresh'
  BY BodiesStep, FreshStep
<1>3. Spec => []SubscribedInv
  BY AlwaysSubscribed
<1>4. Spec => []Standing
  BY AlwaysStanding
<1>5. RP!Spec => []RP!ReadInv
  BY RP!AlwaysReads, ClientAssumption
<1>6. /\ ClientTypeOK /\ SubscribedInv /\ Standing /\ RP!ReadInv
      /\ RP!AppsHaveBodies /\ Fresh
      => ClientInv
  BY DEF ClientInv
<1> QED BY <1>1, <1>2, <1>3, <1>4, <1>5, <1>6, ClientTypeCorrect,
           ImplementsPipes, ImplementsReceive, SameSpec, PTL DEF ClientSpec

-----------------------------------------------------------------------------
(* What is on the way                                                      *)

\* The two instances of SbnReceive speak of the same messages.
OneComing == R!Coming = RP!Coming

\* The definitions are the same.
LEMMA SameComing == OneComing
BY DEF OneComing, R!Coming, RP!Coming

\* The same after a step.
LEMMA SameComingNext == OneComing'
BY SameComing, PTL

\* The messages of the n frames that s lists, g being the id of each frame.
Numbered(s, n, g) == [k \in 1 .. n |-> <<s[k], g[s[k]]>>]

\* A message as the channel knows it.
Ticket == Nat \X (MsgIds \cup {INVALID_MSG_ID})

\* They make a sequence.
LEMMA NumberedTyped ==
    ASSUME NEW n \in Nat, NEW s \in [1 .. n -> Nat], NEW g,
           \A k \in 1 .. n : g[s[k]] \in MsgIds \cup {INVALID_MSG_ID}
    PROVE  /\ Numbered(s, n, g) \in Seq(Ticket)
           /\ Len(Numbered(s, n, g)) = n
           /\ \A k \in 1 .. n : Numbered(s, n, g)[k] = <<s[k], g[s[k]]>>
BY DEF Numbered, Ticket

\* What OnTheWay is, for any list of the frames coming.
WayListed ==
    /\ R!Coming \subseteq 1 .. Len(sent) /\ Len(sent) \in Nat
    /\ \E n \in Nat : \E s : Lists(s, n, R!Coming)
    /\ \A n \in Nat : \A s :
          Lists(s, n, R!Coming) => OnTheWay = Numbered(s, n, ids)

\* The frames coming are among those sent, so they have a list.
LEMMA WayIs == RP!TypeInv => WayListed
<1> SUFFICES ASSUME RP!TypeInv PROVE WayListed
  OBVIOUS
<1>1. R!Coming \subseteq 1 .. Len(sent) /\ Len(sent) \in Nat
  BY SameComing, RP!ComingAre, ClientAssumption
     DEF OneComing, RP!ComingAreHeld
<1>2. \E n \in Nat : \E s : Lists(s, n, R!Coming)
  BY <1>1, ListsExist
<1>3. ASSUME NEW n \in Nat, NEW s, Lists(s, n, R!Coming)
      PROVE  OnTheWay = Numbered(s, n, ids)
  <2>1. R!Coming \subseteq Nat
    BY <1>1
  <2>2. Listing(R!Coming) = s /\ Cardinality(R!Coming) = n
    BY <1>3, <2>1, ListingIs
  <2> QED BY <2>2 DEF OnTheWay, Numbered
<1> QED BY <1>1, <1>2, <1>3 DEF WayListed

\* The same after a step.
LEMMA WayWillBe == RP!TypeInv' => WayListed'
BY WayIs, PTL

\* What is known of the way, and of its list.
LEMMA WayTyped ==
    ASSUME ClientInv, NEW n \in Nat, NEW s, Lists(s, n, R!Coming)
    PROVE  /\ OnTheWay = Numbered(s, n, ids)
           /\ OnTheWay \in Seq(Ticket) /\ Len(OnTheWay) = n
           /\ \A k \in 1 .. n : /\ OnTheWay[k] = <<s[k], ids[s[k]]>>
                                /\ s[k] \in 1 .. Len(sent)
<1>1. WayListed
  BY WayIs DEF ClientInv, RP!ReadInv
<1>2. OnTheWay = Numbered(s, n, ids)
  BY <1>1 DEF WayListed
<1>3. \A k \in 1 .. n : s[k] \in 1 .. Len(sent) /\ s[k] \in Nat
  <2>1. R!Coming \subseteq 1 .. Len(sent) /\ Len(sent) \in Nat
    BY <1>1 DEF WayListed
  <2>2. \A k \in 1 .. n : s[k] \in R!Coming
    BY DEF Lists
  <2>3. \A y \in 1 .. Len(sent) : y \in Nat
    BY <2>1
  <2> QED BY <2>1, <2>2, <2>3, Zenon
<1>4. s \in [1 .. n -> Nat]
  BY <1>3 DEF Lists
<1>5. \A k \in 1 .. n : ids[s[k]] \in MsgIds \cup {INVALID_MSG_ID}
  BY <1>3 DEF ClientInv, ClientTypeOK, R!TypeOK
<1> QED BY <1>2, <1>3, <1>4, <1>5, NumberedTyped

\* A message SBN forwards comes last.
LEMMA WaySend ==
    ASSUME ClientInv, ClientInv', NEW frame \in R!Frames,
           NEW id \in MsgIds \cup {INVALID_MSG_ID},
           R!Sbn_Send(frame), ids' = Append(ids, id)
    PROVE  OnTheWay' = IF frame.type = "app"
                       THEN Append(OnTheWay, <<Len(sent) + 1, id>>)
                       ELSE OnTheWay
<1>1. WayListed /\ WayListed'
  BY WayIs, WayWillBe DEF ClientInv, RP!ReadInv
<1>2. PICK n \in Nat : \E s : Lists(s, n, R!Coming)
  BY <1>1 DEF WayListed
<1>3. PICK s : Lists(s, n, R!Coming)
  BY <1>2
<1>4. PICK x, g, W, T :
         x = Len(sent) + 1 /\ g = ids' /\ W = OnTheWay /\ T = R!Coming
  OBVIOUS
<1>5. /\ W = Numbered(s, n, ids) /\ W \in Seq(Ticket) /\ Len(W) = n
      /\ \A k \in 1 .. n : /\ W[k] = <<s[k], ids[s[k]]>>
                           /\ s[k] \in Nat /\ s[k] < x
      /\ x \in Nat /\ T \subseteq Nat /\ \A y \in T : y < x
  <2>1. Len(sent) \in Nat /\ R!Coming \subseteq 1 .. Len(sent)
    BY <1>1 DEF WayListed
  <2> QED BY <1>3, <1>4, <2>1, WayTyped
<1>6. g[x] = id /\ \A y \in Nat \ {0} : y < x => g[y] = ids[y]
  <2>1. ids \in Seq(MsgIds \cup {INVALID_MSG_ID}) /\ Len(ids) = Len(sent)
    BY DEF ClientInv, ClientTypeOK, R!TypeOK
  <2> QED BY <1>4, <2>1
<1>7. R!Coming' = IF frame.type = "app" THEN T \cup {x} ELSE T
  <2>1. frame \in RP!Frames /\ RP!Sbn_Send(frame)
    BY SameActions
  <2>2. RP!TypeInv /\ RP!TypeInv'
    BY DEF ClientInv, RP!ReadInv
  <2>3. RP!Coming' = IF frame.type = "app" THEN RP!Coming \cup {Len(sent) + 1}
                     ELSE RP!Coming
    BY <2>1, <2>2, RP!ComingSend, ClientAssumption
  <2> QED BY <1>4, <2>3, SameComing, SameComingNext DEF OneComing
<1>8. \A k \in 1 .. n : s[k] \in Nat \ {0} /\ g[s[k]] = ids[s[k]]
  <2>1. R!Coming \subseteq 1 .. Len(sent) /\ Len(sent) \in Nat
    BY <1>1 DEF WayListed
  <2>2. \A k \in 1 .. n : s[k] \in R!Coming
    BY <1>3 DEF Lists
  <2>3. \A y \in 1 .. Len(sent) : y \in Nat \ {0}
    BY <2>1
  <2>4. \A k \in 1 .. n : s[k] \in Nat \ {0}
    BY <2>1, <2>2, <2>3, Zenon
  <2> QED BY <1>5, <1>6, <2>4
<1>9. CASE frame.type = "app"
  <2> DEFINE t == [k \in 1 .. n + 1 |-> IF k = n + 1 THEN x ELSE s[k]]
  <2>1. Lists(t, n + 1, T \cup {x})
    <3>1. x \in Nat /\ T \subseteq Nat /\ \A y \in T : y < x
      BY <1>5
    <3>2. Lists(s, n, T)
      BY <1>3, <1>4
    <3> QED BY <3>1, <3>2, ListsMore
  <2>2. t[n + 1] = x /\ \A k \in 1 .. n : t[k] = s[k]
    OBVIOUS
  <2> HIDE DEF t
  <2>3. OnTheWay' = Numbered(t, n + 1, g)
    <3>1. n + 1 \in Nat
      OBVIOUS
    <3> QED BY <1>1, <1>4, <1>7, <1>9, <2>1, <3>1 DEF WayListed, Lists
  <2>4. Numbered(t, n + 1, g) = Append(W, <<x, id>>)
    <3>2. Append(W, <<x, id>>)
             = [k \in 1 .. n + 1 |-> IF k = n + 1 THEN <<x, id>> ELSE W[k]]
      BY <1>5 DEF Ticket
    <3>3. ASSUME NEW k \in 1 .. n + 1
          PROVE  <<t[k], g[t[k]]>> = IF k = n + 1 THEN <<x, id>> ELSE W[k]
      <4>1. CASE k = n + 1
        BY <1>6, <2>2, <4>1
      <4>2. CASE k # n + 1
        <5>1. k \in 1 .. n
          BY <4>2
        <5>2. /\ t[k] = s[k] /\ g[s[k]] = ids[s[k]]
              /\ W[k] = <<s[k], ids[s[k]]>>
          BY <1>5, <1>8, <2>2, <5>1
        <5> QED BY <4>2, <5>2
      <4> QED BY <4>1, <4>2
    <3> QED BY <3>2, <3>3 DEF Numbered
  <2> QED BY <1>4, <1>9, <2>3, <2>4
<1>10. CASE frame.type # "app"
  <2>1. OnTheWay' = Numbered(s, n, g)
    BY <1>1, <1>3, <1>4, <1>7, <1>10 DEF WayListed, Lists
  <2>2. Numbered(s, n, g) = Numbered(s, n, ids)
    BY <1>8 DEF Numbered
  <2> QED BY <1>4, <1>5, <1>10, <2>1, <2>2
<1> QED BY <1>9, <1>10

\* Nothing changes for as long as no frame comes or goes.
LEMMA WayKept ==
    ASSUME ClientInv, ClientInv', R!Coming' = R!Coming, UNCHANGED ids
    PROVE  OnTheWay' = OnTheWay
<1>1. WayListed /\ WayListed'
  BY WayIs, WayWillBe DEF ClientInv, RP!ReadInv
<1>2. PICK n \in Nat : \E s : Lists(s, n, R!Coming)
  BY <1>1 DEF WayListed
<1>3. PICK s : Lists(s, n, R!Coming)
  BY <1>2
<1>4. OnTheWay = Numbered(s, n, ids)
  BY <1>1, <1>3 DEF WayListed
<1>5. OnTheWay' = Numbered(s, n, ids')
  BY <1>1, <1>3 DEF WayListed, Lists
<1> QED BY <1>4, <1>5

\* The connection takes the last messages with it.
LEMMA WayClose ==
    ASSUME ClientInv, ClientInv', R!Sbn_Close, UNCHANGED ids
    PROVE  \E m \in 0 .. Len(OnTheWay) : OnTheWay' = SubSeq(OnTheWay, 1, m)
<1>1. WayListed /\ WayListed'
  BY WayIs, WayWillBe DEF ClientInv, RP!ReadInv
<1>2. PICK n \in Nat : \E s : Lists(s, n, R!Coming)
  BY <1>1 DEF WayListed
<1>3. PICK s, T, W :
         /\ Lists(s, n, R!Coming) /\ T = R!Coming' /\ W = OnTheWay
  BY <1>2
<1>4. /\ T \subseteq R!Coming
      /\ \A f \in T, g \in R!Coming : g < f => g \in T
  <2>1. RP!TypeInv /\ RP!TypeInv' /\ RP!OrderInv /\ RP!Sbn_Close
    BY SameActions DEF ClientInv, RP!ReadInv
  <2>2. /\ RP!Coming' \subseteq RP!Coming
        /\ \A f \in RP!Coming', g \in RP!Coming : g < f => g \in RP!Coming'
    BY <2>1, RP!ComingClose, ClientAssumption
  <2> QED BY <1>3, <2>2, SameComing, SameComingNext DEF OneComing
<1>5. R!Coming \subseteq Nat
  BY <1>1 DEF WayListed
<1>6. PICK m \in 0 .. n : Lists([k \in 1 .. m |-> s[k]], m, T)
  BY <1>3, <1>4, <1>5, ListsFront
<1>7. OnTheWay' = Numbered([k \in 1 .. m |-> s[k]], m, ids)
  <2>1. m \in Nat
    OBVIOUS
  <2> QED BY <1>1, <1>3, <1>6, <2>1 DEF WayListed, Lists
<1>8. /\ W \in Seq(Ticket) /\ Len(W) = n
      /\ \A k \in 1 .. n : W[k] = <<s[k], ids[s[k]]>>
  BY <1>3, WayTyped
<1>9. SubSeq(W, 1, m) = [k \in 1 .. m |-> W[k]]
  BY <1>8
<1>10. Numbered([k \in 1 .. m |-> s[k]], m, ids) = [k \in 1 .. m |-> W[k]]
  <2>1. \A k \in 1 .. m : k \in 1 .. n
    OBVIOUS
  <2> QED BY <1>8, <2>1 DEF Numbered
<1> QED BY <1>3, <1>7, <1>8, <1>9, <1>10

\* The frame that was read whole is the first on the way.
LEMMA WayRead ==
    ASSUME ClientInv, ClientInv', UNCHANGED ids, NEW f \in R!Coming,
           \A g \in R!Coming : f <= g, R!Coming' = R!Coming \ {f}
    PROVE  /\ OnTheWay # <<>> /\ Head(OnTheWay) = <<f, ids[f]>>
           /\ OnTheWay' = Tail(OnTheWay)
<1>1. WayListed /\ WayListed'
  BY WayIs, WayWillBe DEF ClientInv, RP!ReadInv
<1>2. PICK n \in Nat : \E s : Lists(s, n, R!Coming)
  BY <1>1 DEF WayListed
<1>3. PICK s, W : Lists(s, n, R!Coming) /\ W = OnTheWay
  BY <1>2
<1>4. R!Coming \subseteq Nat
  BY <1>1 DEF WayListed
<1> DEFINE t == [k \in 1 .. n - 1 |-> s[k + 1]]
<1>5. n >= 1 /\ s[1] = f /\ Lists(t, n - 1, R!Coming \ {f})
  BY <1>3, <1>4, ListsLess
<1>6. \A k \in 1 .. n - 1 : t[k] = s[k + 1] /\ k + 1 \in 1 .. n
  OBVIOUS
<1> HIDE DEF t
<1>7. OnTheWay' = Numbered(t, n - 1, ids)
  <2>1. n - 1 \in Nat
    BY <1>5
  <2> QED BY <1>1, <1>5, <2>1 DEF WayListed, Lists
<1>8. /\ W \in Seq(Ticket) /\ Len(W) = n
      /\ \A k \in 1 .. n : W[k] = <<s[k], ids[s[k]]>>
  BY <1>3, WayTyped
<1>9. Tail(W) = [k \in 1 .. n - 1 |-> W[k + 1]] /\ Head(W) = W[1]
  <2>1. W \in Seq(Ticket) /\ Len(W) = n /\ n >= 1 /\ W # <<>>
    BY <1>5, <1>8
  <2> QED BY <2>1, TailIs
<1>10. Numbered(t, n - 1, ids) = [k \in 1 .. n - 1 |-> W[k + 1]]
  BY <1>6, <1>8 DEF Numbered
<1>11. 1 \in 1 .. n /\ W # <<>>
  BY <1>5, <1>8
<1> QED BY <1>3, <1>5, <1>7, <1>8, <1>9, <1>10, <1>11

-----------------------------------------------------------------------------
(* The line                                                                *)

\* The message in hand, and so the line, is of frames that were sent.
LEMMA LineTyped ==
    ASSUME ClientInv
    PROVE  /\ InHand \in Seq(Ticket) /\ OnTheWay \in Seq(Ticket)
           /\ Line \in Seq(Ticket) /\ Len(sent) \in Nat
           /\ \A k \in DOMAIN Line : Line[k][1] \in 0 .. Len(sent)
<1>1. /\ TypeOK /\ WayListed /\ Fresh
      /\ pc[Minder] \in {"ing_lock"} \cup StorePcs => msg_buffer \in Msgs
  BY WayIs DEF ClientInv, ClientTypeOK, RP!ReadInv, SubscribedInv, QueueInv,
     IInv, Placement
<1>2. Len(sent) \in Nat
  BY <1>1 DEF WayListed
<1>3. \A m \in Msgs : m \in Ticket
  <2>1. Msgs = (0 .. MaxFrames) \X MsgIds
    BY ClientAssumption
  <2>2. \A k \in 0 .. MaxFrames : k \in Nat
    BY ClientAssumption
  <2> QED BY <2>1, <2>2 DEF Ticket
<1>4. \/ InHand = <<>>
      \/ /\ InHand = <<msg_buffer>> /\ msg_buffer \in Ticket
         /\ msg_buffer[1] \in 0 .. Len(sent)
  BY <1>1, <1>3 DEF InHand, At, Fresh
<1>5. /\ InHand \in Seq(Ticket)
      /\ \A k \in 1 .. Len(InHand) : InHand[k][1] \in 0 .. Len(sent)
  <2>1. CASE InHand = <<>>
    BY <2>1
  <2>2. ASSUME NEW b \in Ticket, InHand = <<b>>, b[1] \in 0 .. Len(sent)
        PROVE  /\ InHand \in Seq(Ticket)
               /\ \A k \in 1 .. Len(InHand) : InHand[k][1] \in 0 .. Len(sent)
    BY <2>2
  <2> QED BY <1>4, <2>1, <2>2
<1>6. PICK n \in Nat : \E s : Lists(s, n, R!Coming)
  BY <1>1 DEF WayListed
<1>7. PICK s : Lists(s, n, R!Coming)
  BY <1>6
<1>8. /\ OnTheWay \in Seq(Ticket)
      /\ \A k \in 1 .. Len(OnTheWay) : OnTheWay[k][1] \in 0 .. Len(sent)
  BY <1>2, <1>7, WayTyped
<1>9. PICK A, W : A = InHand /\ W = OnTheWay /\ Line = A \o W
  BY DEF Line
<1>10. /\ A \o W \in Seq(Ticket) /\ DOMAIN (A \o W) = 1 .. Len(A) + Len(W)
       /\ Len(A) \in Nat /\ Len(W) \in Nat
       /\ \A k \in 1 .. Len(A) + Len(W) :
             (A \o W)[k] = IF k <= Len(A) THEN A[k] ELSE W[k - Len(A)]
  BY <1>5, <1>8, <1>9
<1>11. ASSUME NEW k \in DOMAIN Line
       PROVE  Line[k][1] \in 0 .. Len(sent)
  <2>1. k \in 1 .. Len(A) \/ k - Len(A) \in 1 .. Len(W)
    BY <1>9, <1>10
  <2> QED BY <1>5, <1>8, <1>9, <1>10, <2>1
<1> QED BY <1>2, <1>5, <1>8, <1>9, <1>10, <1>11

\* What leaves the pipes alone.
LEMMA PipesIdle ==
    ASSUME UNCHANGED vars
    PROVE  IdsKept /\ PipesKept /\ InHand' = InHand
BY DEF vars, ring, table, external, IdsKept, IdsOf, Subscribes, PipesKept,
   PipeKept, Contents, Unread, UnreadSlot, Held, InHand, At

\* What leaves the table alone.
LEMMA IdsIdle ==
    ASSUME UNCHANGED table
    PROVE  IdsKept
BY DEF table, IdsKept, IdsOf, Subscribes

\* A race is remembered, and so is a byte left unread.
LEMMA SoundOnce ==
    ASSUME [ClientNext]_cvars, Sound'
    PROVE  Sound
<1>1. upset => upset'
  <2>1. [R!Next]_(R!vars)
    BY ReceivePart
  <2> QED BY <2>1 DEF R!Next, R!vars, R!Sbn_Send, R!Sbn_Close, R!MinderStep,
     R!ReadBytes_Some, R!ReadBytes_Closed, R!ReadBytes_Broken,
     R!recv_msg_Header, R!recv_msg_Body
<1>2. tainted \subseteq tainted'
  <2>1. [Next]_vars
    BY PipesStep
  <2>2. UNCHANGED vars \/ RecordRaces
    BY <2>1, EveryStep
  <2> QED BY <2>2 DEF vars, RecordRaces
<1> QED BY <1>1, <1>2 DEF Sound

-----------------------------------------------------------------------------
(* The steps of SBN and of recv_msg                                        *)

\* SBN forwards a message.
LEMMA ForwardOn ==
    ASSUME ClientInv, ClientInv', Sound, Sound',
           NEW id \in MsgIds, NEW size \in Sizes \ {0}, Sbn_Forward(id, size)
    PROVE  Channel!Next
<1> DEFINE frame == [type |-> "app", size |-> size]
<1>1. PICK x, L : x = <<Len(sent) + 1, id>> /\ L = Line
  OBVIOUS
<1>2. /\ link = "up" /\ link' = link /\ Len(sent) < MaxFrames
      /\ UNCHANGED vars
  BY DEF Sbn_Forward, R!Sbn_Send
<1>3. OnTheWay' = Append(OnTheWay, x)
  <2>1. frame \in R!Frames /\ frame.type = "app"
    BY DEF R!Frames, R!Types
  <2>2. R!Sbn_Send(frame) /\ ids' = Append(ids, id)
    BY DEF Sbn_Forward
  <2> HIDE DEF frame
  <2> QED BY <1>1, <2>1, <2>2, WaySend
<1>4. /\ Len(sent) \in Nat /\ InHand \in Seq(Ticket)
      /\ OnTheWay \in Seq(Ticket)
      /\ \A k \in DOMAIN L : L[k][1] \in 0 .. Len(sent)
  BY <1>1, LineTyped
<1>5. x \in Ticket /\ x \in Msgs /\ x[1] = Len(sent) + 1
  <2>1. Msgs = (0 .. MaxFrames) \X MsgIds /\ MaxFrames \in Nat
    BY ClientAssumption
  <2>2. Len(sent) + 1 \in 0 .. MaxFrames /\ Len(sent) + 1 \in Nat
    BY <1>2, <1>4, <2>1
  <2> QED BY <1>1, <2>1, <2>2 DEF Ticket
<1>6. IdsKept /\ PipesKept /\ InHand' = InHand
  BY <1>2, PipesIdle
<1>7. Line' = Append(L, x)
  <2>1. InHand \o Append(OnTheWay, x) = Append(InHand \o OnTheWay, x)
    BY <1>4, <1>5, AppendBehind
  <2> QED BY <1>1, <1>3, <1>6, <2>1 DEF Line
<1>8. \A k \in DOMAIN L : L[k] # x
  <2>1. \A k \in 0 .. Len(sent) : k # Len(sent) + 1
    BY <1>4
  <2> QED BY <1>4, <1>5, <2>1
<1> QED BY <1>1, <1>2, <1>5, <1>6, <1>7, <1>8, ChannelForwards DEF LinkKept

\* It sends something else.
LEMMA ChatterOn ==
    ASSUME ClientInv, ClientInv', Sound, Sound',
           NEW frame \in R!Frames, Sbn_Chatter(frame)
    PROVE  UNCHANGED Channel!chvars
<1>1. /\ link' = link /\ frame.type # "app" /\ R!Sbn_Send(frame)
      /\ ids' = Append(ids, INVALID_MSG_ID) /\ UNCHANGED vars
  BY DEF Sbn_Chatter, R!Sbn_Send
<1>2. OnTheWay' = OnTheWay
  BY <1>1, WaySend
<1>3. IdsKept /\ PipesKept /\ InHand' = InHand
  BY <1>1, PipesIdle
<1> QED BY <1>1, <1>2, <1>3, ChannelIdles DEF LinkKept, Line

\* It closes the connection.
LEMMA CloseOn ==
    ASSUME ClientInv, ClientInv', Sound, Sound', Sbn_Close
    PROVE  Channel!Next
<1>1. link = "up" /\ link' # "up" /\ UNCHANGED <<vars, ids>> /\ R!Sbn_Close
  BY DEF Sbn_Close, R!Sbn_Close
<1>2. PICK m \in 0 .. Len(OnTheWay) : OnTheWay' = SubSeq(OnTheWay, 1, m)
  BY <1>1, WayClose
<1>3. IdsKept /\ PipesKept /\ InHand' = InHand
  BY <1>1, PipesIdle
<1>4. PICK A, W : A = InHand /\ W = OnTheWay
  OBVIOUS
<1>5. A \in Seq(Ticket) /\ W \in Seq(Ticket) /\ m \in 0 .. Len(W)
  BY <1>4, LineTyped
<1>6. /\ Len(A) + m \in 0 .. Len(A \o W)
      /\ A \o SubSeq(W, 1, m) = SubSeq(A \o W, 1, Len(A) + m)
  BY <1>5, FrontBehind
<1>7. Line' \in Channel!Prefixes(Line)
  BY <1>2, <1>3, <1>4, <1>6 DEF Line, Channel!Prefixes
<1> QED BY <1>1, <1>3, <1>7, ChannelCloses

\* recv_msg reads on, or drops what it has read.
LEMMA ReadOn ==
    ASSUME ClientInv, ClientInv', Sound, Sound',
           Recv_Read \/ Recv_Broken \/ Recv_Dropped
    PROVE  UNCHANGED Channel!chvars
<1>1. link' = link /\ UNCHANGED <<vars, ids>>
  BY DEF Recv_Read, Recv_Broken, Recv_Dropped, R!ReadBytes_Some,
     R!ReadBytes_Closed, R!ReadBytes_Broken, R!recv_msg_Header,
     R!recv_msg_Body, R!stream
<1>2. /\ RP!TypeInv /\ RP!TypeInv' /\ RP!Bounded /\ RP!StreamInv
      /\ RP!OrderInv /\ RP!AppsHaveBodies /\ ~upset /\ ~upset'
  BY DEF ClientInv, RP!ReadInv, Sound
<1>3. RP!Coming' = RP!Coming
  <2>1. CASE Recv_Read \/ Recv_Broken
    <3>1. \/ RP!ReadBytes_Some \/ RP!ReadBytes_Closed
          \/ RP!ReadBytes_Broken \/ RP!recv_msg_Header
      BY <2>1, SameActions DEF Recv_Read, Recv_Broken
    <3> QED BY <1>2, <3>1, RP!ComingRead, ClientAssumption
  <2>2. CASE Recv_Dropped
    <3>1. RP!recv_msg_Body /\ MsgType # "app"
      BY <2>2, SameActions DEF Recv_Dropped
    <3> QED BY <1>2, <3>1, RP!ComingBody, ClientAssumption
  <2> QED BY <2>1, <2>2
<1>4. OnTheWay' = OnTheWay
  BY <1>1, <1>3, WayKept, SameComing, SameComingNext DEF OneComing
<1>5. IdsKept /\ PipesKept /\ InHand' = InHand
  BY <1>1, PipesIdle
<1> QED BY <1>1, <1>4, <1>5, ChannelIdles DEF LinkKept, Line

-----------------------------------------------------------------------------
(* The steps of ingest_app_message                                         *)

\* What the pipes' part of a step leaves alone.
LEMMA WayIdle ==
    ASSUME ClientInv, ClientInv', UNCHANGED <<receiving, ids>>
    PROVE  OnTheWay' = OnTheWay /\ link' = link
<1>1. R!Coming' = R!Coming /\ link' = link
  BY DEF receiving, R!Coming
<1> QED BY <1>1, WayKept

\* What the invariant says of the pipes.
LEMMA PipesKnown ==
    ASSUME ClientInv, ClientInv', Sound, Sound'
    PROVE  /\ QueueInv /\ IInv /\ TypeOK /\ Placement /\ Placement'
           /\ TableInv /\ Offered /\ Standing /\ Standing'
           /\ tainted = {} /\ tainted' = {} /\ Minder \in Threads
BY DEF ClientInv, SubscribedInv, QueueInv, IInv, Sound, Threads

\* The message that recv_msg has read is the first on the way: it is in hand
\* now.
LEMMA IngestOn ==
    ASSUME ClientInv, ClientInv', Sound, Sound', Recv_Ingest
    PROVE  UNCHANGED Channel!chvars
<1>1. PICK m \in Carried : Minder_Receive(m)
  BY DEF Recv_Ingest
<1>2. /\ MsgType = "app" /\ R!recv_msg_Body /\ UNCHANGED ids /\ link' = link
  BY DEF Recv_Ingest, R!recv_msg_Body, R!stream
<1>3. PICK f \in 1 .. Len(sent) :
         /\ sent[f].type = "app" /\ got = RP!Body(f, sent[f].size)
         /\ f \in RP!Coming /\ RP!Coming' = RP!Coming \ {f}
         /\ \A g \in RP!Coming : f <= g
         /\ \A g \in 1 .. Len(sent) :
               got = RP!Body(g, sent[g].size) => g = f
  <2>1. /\ RP!TypeInv /\ RP!TypeInv' /\ RP!Bounded /\ RP!StreamInv
        /\ RP!OrderInv /\ RP!AppsHaveBodies /\ ~upset /\ RP!recv_msg_Body
    BY <1>2, SameActions DEF ClientInv, RP!ReadInv, Sound
  <2> QED BY <1>2, <2>1, RP!ComingBody, ClientAssumption
<1>4. /\ OnTheWay # <<>> /\ Head(OnTheWay) = <<f, ids[f]>>
      /\ OnTheWay' = Tail(OnTheWay)
  <2>1. /\ f \in R!Coming /\ R!Coming' = R!Coming \ {f}
        /\ \A g \in R!Coming : f <= g
    BY <1>3, SameComing, SameComingNext DEF OneComing
  <2> QED BY <1>2, <2>1, WayRead
<1>5. m = <<f, ids[f]>> /\ m \in Msgs
  <2>1. \A g, n : R!Body(g, n) = RP!Body(g, n)
    BY DEF R!Body, RP!Body
  <2>2. DOMAIN sent = 1 .. Len(sent)
    BY DEF ClientInv, ClientTypeOK, R!TypeOK
  <2>3. IsBodyOf(f)
    BY <1>3, <2>1 DEF IsBodyOf
  <2>4. m[1] = f /\ m[2] = ids[f] /\ m \in Msgs
    BY <1>3, <2>1, <2>2, <2>3 DEF Carried, IsBodyOf
  <2>5. Msgs = (0 .. MaxFrames) \X MsgIds
    BY ClientAssumption
  <2> QED BY <2>4, <2>5
<1>6. InHand = <<>> /\ InHand' = <<m>>
  <2>1. TypeOK /\ Minder \in Threads
    BY PipesKnown
  <2> QED BY <1>1, <2>1 DEF Minder_Receive, InHand, At, Goto, StorePcs, TypeOK
<1>7. Line' = Line
  <2>1. OnTheWay \in Seq(Ticket)
    BY LineTyped
  <2>2. <<Head(OnTheWay)>> \o Tail(OnTheWay) = OnTheWay
    BY <1>4, <2>1, HeadBack
  <2>3. <<>> \o OnTheWay = OnTheWay
    BY <2>1
  <2> QED BY <1>4, <1>5, <1>6, <2>2, <2>3 DEF Line
<1>8. IdsKept
  BY <1>1, IdsIdle DEF Minder_Receive
<1>9. PipesKept
  <2>1. ~Ingest_Count
    BY <1>1 DEF Minder_Receive, Ingest_Count, At
  <2> QED BY <1>1, <1>5, <2>1, PipesKnown, MinderMoves
<1> QED BY <1>2, <1>7, <1>8, <1>9, ChannelIdles DEF LinkKept

\* The message in hand is the first of the line.
LEMMA InHandFirst ==
    ASSUME ClientInv, ClientInv', pc[Minder] \in {"ing_lock"} \cup StorePcs,
           pc'[Minder] \in {"idle", "ing_signal"}, OnTheWay' = OnTheWay
    PROVE  /\ Line # <<>> /\ Head(Line) = msg_buffer /\ Line' = Tail(Line)
           /\ msg_buffer \in Msgs
<1>1. InHand = <<msg_buffer>> /\ InHand' = <<>>
  BY DEF InHand, At, StorePcs
<1>2. msg_buffer \in Msgs
  BY DEF ClientInv, SubscribedInv, QueueInv, IInv, Placement
<1>3. PICK b, W : b = msg_buffer /\ W = OnTheWay
  OBVIOUS
<1>4. b \in Ticket /\ W \in Seq(Ticket)
  <2>1. InHand \in Seq(Ticket) /\ OnTheWay \in Seq(Ticket)
    BY LineTyped
  <2>2. Len(<<b>>) = 1 /\ <<b>>[1] = b
    OBVIOUS
  <2> QED BY <1>1, <1>3, <2>1, <2>2
<1>5. Line = <<b>> \o W /\ Line' = <<>> \o W
  BY <1>1, <1>3 DEF Line
<1>6. <<>> \o W = W
  BY <1>4
<1> QED BY <1>2, <1>3, <1>4, <1>5, <1>6, Behind

\* ingest_app_message drops the message.
LEMMA DropOn ==
    ASSUME ClientInv, ClientInv', Sound, Sound',
           Ingest_NoPipe \/ Ingest_Overflow, UNCHANGED <<receiving, ids>>
    PROVE  Channel!Next
<1>0. /\ QueueInv /\ IInv /\ TypeOK /\ Placement' /\ Standing /\ Standing'
      /\ tainted = {} /\ tainted' = {} /\ Minder \in Threads
  BY PipesKnown
<1>1. /\ pc[Minder] = "ing_lock" /\ pc'[Minder] = "idle"
      /\ receive_mutex = None /\ UNCHANGED table
  BY <1>0 DEF Ingest_NoPipe, Ingest_Overflow, Ingest_Return, At, Goto, TypeOK
<1>2. OnTheWay' = OnTheWay /\ link' = link
  BY WayIdle
<1>3. /\ Line # <<>> /\ Head(Line) = msg_buffer /\ Line' = Tail(Line)
      /\ msg_buffer \in Msgs
  BY <1>1, <1>2, InHandFirst
<1>4. \/ \A p \in Pipes : MsgIdOf[msg_buffer] \notin IdsOf(p)
      \/ \E p \in Pipes : /\ MsgIdOf[msg_buffer] \in IdsOf(p)
                          /\ Len(Contents(p)) = MAX_PIPE_DEPTH - 1
  <2>1. CASE Ingest_NoPipe
    BY <1>0, <1>3, <2>1, DestinationIs DEF Ingest_NoPipe
  <2>2. CASE Ingest_Overflow
    <3>1. Destination \in Pipes /\ MsgIdOf[msg_buffer] \in IdsOf(Destination)
      BY <1>0, <1>3, <2>2, DestinationIs DEF Ingest_Overflow
    <3>2. Len(Contents(Destination)) = MAX_PIPE_DEPTH - 1
      BY <1>0, <1>1, <2>2, <3>1, FullPipe DEF Ingest_Overflow
    <3> QED BY <3>1, <3>2
  <2> QED BY <2>1, <2>2
<1>5. PipesKept
  <2>1. ~Ingest_Count /\ MinderStep
    BY <1>1 DEF Ingest_Count, At, MinderStep
  <2> QED BY <1>0, <2>1, MinderMoves
<1>6. IdsKept
  BY <1>1, IdsIdle
<1> QED BY <1>2, <1>3, <1>4, <1>5, <1>6, ChannelDiscards DEF LinkKept

\* It counts the message in: the message has arrived.
LEMMA CountIn ==
    ASSUME ClientInv, ClientInv', Sound, Sound', Ingest_Count,
           UNCHANGED <<receiving, ids>>
    PROVE  Channel!Next
<1>0. /\ QueueInv /\ Offered /\ tainted = {} /\ tainted' = {}
      /\ Minder \in Threads
  BY PipesKnown
<1>1. PICK i \in Pipes : OthersKept(i) /\ Stores(i)
  BY <1>0, CountMoves
<1>2. pc[Minder] = "ing_count" /\ pc'[Minder] = "ing_signal"
      /\ pipe_idx[Minder] = i
  BY <1>1 DEF Stores
<1>3. OnTheWay' = OnTheWay /\ link' = link
  BY WayIdle
<1>4. /\ Line # <<>> /\ Head(Line) = msg_buffer /\ Line' = Tail(Line)
      /\ msg_buffer \in Msgs
  BY <1>2, <1>3, InHandFirst DEF StorePcs
<1>5. MsgIdOf[msg_buffer] \in IdsOf(i)
  <2>1. msg_buffer \in Wanted(i)
    BY <1>0, <1>2 DEF Offered, StorePcs
  <2> QED BY <1>4, <2>1, MessagesAssumption DEF Wanted, IdsOf
<1>6. /\ Len(Contents(i)) # MAX_PIPE_DEPTH - 1
      /\ Contents(i)' = Append(Contents(i), msg_buffer) /\ Held(i)' = Held(i)
  <2>1. Len(Contents(i)) < MAX_PIPE_DEPTH - 1
    BY <1>1 DEF Stores
  <2>2. Len(Contents(i)) # MAX_PIPE_DEPTH - 1
    <3>1. /\ MAX_PIPE_DEPTH \in Nat /\ Len(Contents(i)) \in Int
      BY <1>0, Contained, SizesAssumption DEF QueueInv
    <3> QED BY <2>1, <3>1
  <2> QED BY <1>1, <2>2 DEF Stores
<1>7. IdsKept
  BY IdsIdle DEF Ingest_Count
<1> QED BY <1>1, <1>3, <1>4, <1>5, <1>6, <1>7, ChannelArrives DEF LinkKept

\* Its other steps the channel does not see.
LEMMA MinderOn ==
    ASSUME ClientInv, ClientInv', Sound, Sound', Pipes_Step(MinderStep)
    PROVE  [Channel!Next]_Channel!chvars
<1>0. /\ QueueInv /\ IInv /\ TypeOK /\ Placement' /\ Standing /\ Standing'
      /\ tainted' = {} /\ Minder \in Threads
  BY PipesKnown
<1>1. MinderStep /\ UNCHANGED <<receiving, ids>>
  BY DEF Pipes_Step
<1>2. CASE Ingest_NoPipe \/ Ingest_Overflow
  BY <1>1, <1>2, DropOn
<1>3. CASE Ingest_Count
  BY <1>1, <1>3, CountIn
<1>4. CASE Ingest_Lock \/ Ingest_Copy \/ Ingest_Signal
  <2>1. InHand' = InHand
    BY <1>0, <1>4 DEF Ingest_Lock, Ingest_Copy, Ingest_Signal, InHand, At,
       Goto, external, StorePcs, Waiters, Threads, TypeOK
  <2>2. PipesKept
    <3>1. ~Ingest_Count
      BY <1>4 DEF Ingest_Count, Ingest_Lock, Ingest_Copy, Ingest_Signal, At
    <3> QED BY <1>0, <1>1, <3>1, MinderMoves
  <2>3. IdsKept
    BY <1>4, IdsIdle DEF Ingest_Lock, Ingest_Copy, Ingest_Signal
  <2>4. OnTheWay' = OnTheWay /\ link' = link
    BY <1>1, WayIdle
  <2> QED BY <2>1, <2>2, <2>3, <2>4, ChannelIdles DEF LinkKept, Line
<1> QED BY <1>1, <1>2, <1>3, <1>4 DEF MinderStep

\* The application takes a message, subscribes, or does what the channel does
\* not see.
LEMMA AppOn ==
    ASSUME NEW a, Apps = {a}, ClientInv, ClientInv', Sound, Sound',
           Pipes_Step(AppCall(a) \/ AppStep(a) \/ AppFault(a))
    PROVE  [Channel!Next]_Channel!chvars
<1>0. /\ QueueInv /\ TypeOK /\ Placement /\ Placement' /\ TableInv
      /\ Standing /\ Standing' /\ tainted' = {}
  BY PipesKnown
<1>1. /\ AppCall(a) \/ AppStep(a) \/ AppFault(a)
      /\ UNCHANGED <<receiving, ids>>
  BY DEF Pipes_Step
<1>2. Line' = Line /\ LinkKept
  <2>1. pc'[Minder] = pc[Minder] /\ msg_buffer' = msg_buffer
    BY <1>0, <1>1, AppAside
  <2>2. OnTheWay' = OnTheWay /\ link' = link
    BY <1>1, WayIdle
  <2> QED BY <2>1, <2>2 DEF Line, InHand, At, LinkKept
<1>3. /\ \/ PipesKept
         \/ \E i \in Pipes : OthersKept(i) /\ Takes(i)
      /\ Subscribe_Store(a) => PipesKept
  BY <1>0, <1>1, AppMoves
<1>4. CASE Subscribe_Store(a)
  <2>1. PICK i \in Pipes, id \in MsgIds :
           /\ IdsOf(i)' = IdsOf(i) \cup {id}
           /\ \A p \in Pipes \ {i} : IdsOf(p)' = IdsOf(p)
    BY <1>0, <1>4, IdsStored
  <2> QED BY <1>2, <1>3, <1>4, <2>1, ChannelSubscribes
<1>5. CASE ~Subscribe_Store(a)
  <2>1. IdsKept
    BY <1>0, <1>1, <1>5, IdsStand DEF Next
  <2>2. CASE PipesKept
    BY <1>2, <2>1, <2>2, ChannelIdles
  <2>3. ASSUME NEW i \in Pipes, OthersKept(i), Takes(i)
        PROVE  Channel!Next
    <3>1. /\ Contents(i) # <<>> /\ Held(i)' = Head(Contents(i))
          /\ Contents(i)' = Tail(Contents(i))
      BY <2>3 DEF Takes
    <3> QED BY <1>2, <2>1, <2>3, <3>1, ChannelTakes
  <2> QED BY <1>3, <2>2, <2>3
<1> QED BY <1>4, <1>5

-----------------------------------------------------------------------------
(* The client is a channel                                                 *)

\* While the channel is sound.
LEMMA SoundOn ==
    ASSUME NEW a, Apps = {a}, ClientInv, ClientInv', Sound, Sound',
           [ClientNext]_cvars
    PROVE  [Channel!Next]_Channel!chvars
<1>1. CASE UNCHANGED cvars
  <2>1. UNCHANGED vars /\ UNCHANGED <<receiving, ids>> /\ link' = link
    BY <1>1 DEF cvars, receiving
  <2>2. OnTheWay' = OnTheWay
    BY <2>1, WayIdle
  <2>3. IdsKept /\ PipesKept /\ InHand' = InHand
    BY <2>1, PipesIdle
  <2> QED BY <2>1, <2>2, <2>3, ChannelIdles DEF LinkKept, Line
<1>2. ASSUME NEW id \in MsgIds, NEW size \in Sizes \ {0},
             Sbn_Forward(id, size)
      PROVE  Channel!Next
  BY <1>2, ForwardOn
<1>3. ASSUME NEW frame \in R!Frames, Sbn_Chatter(frame)
      PROVE  UNCHANGED Channel!chvars
  BY <1>3, ChatterOn
<1>4. CASE Sbn_Close
  BY <1>4, CloseOn
<1>5. CASE Recv_Read \/ Recv_Broken \/ Recv_Dropped
  BY <1>5, ReadOn
<1>6. CASE Recv_Ingest
  BY <1>6, IngestOn
<1>7. CASE Pipes_Step(MinderStep)
  BY <1>7, MinderOn
<1>8. ASSUME NEW t \in Apps,
             Pipes_Step(AppCall(t) \/ AppStep(t) \/ AppFault(t))
      PROVE  [Channel!Next]_Channel!chvars
  <2>1. t = a
    OBVIOUS
  <2> QED BY <1>8, <2>1, AppOn
<1> QED BY <1>1, <1>2, <1>3, <1>4, <1>5, <1>6, <1>7, <1>8
        DEF ClientNext, Receive_Step

\* A subscription that is stored reaches no pipe with a race.
LEMMA StoreIsSound ==
    ASSUME NEW a, Apps = {a}, TypeOK, Raced \subseteq tainted,
           Subscribe_Store(a)
    PROVE  tainted' = tainted
<1>1. /\ pc[a] = "sub_store" /\ pc'[a] = "sub_send" /\ UNCHANGED pipe_idx
      /\ \A t \in Threads \ {a} : pc'[t] = pc[t]
      /\ UNCHANGED ring /\ tainted' = tainted \cup Raced'
  BY DEF Subscribe_Store, At, Goto, TypeOK, Threads, RecordRaces
<1>2. Raced' = {}
  BY <1>1 DEF Raced, Deleting, StaleWake, DeletePcs
<1> QED BY <1>1, <1>2

\* When it stops being sound.
LEMMA FailOn ==
    ASSUME NEW a, Apps = {a}, ClientInv, Sound, ~Sound', [ClientNext]_cvars
    PROVE  Channel!Next
<1>0. /\ TypeOK /\ Standing /\ Raced \subseteq tainted
  BY DEF ClientInv, SubscribedInv, QueueInv, IInv
<1>1. upset' = upset => tainted' # tainted
  BY DEF Sound
<1> SUFFICES link' = link /\ IdsKept
  BY ChannelFails DEF LinkKept
<1>2. UNCHANGED vars => IdsKept /\ tainted' = tainted
  BY PipesIdle DEF vars
<1>3. UNCHANGED vars => upset' # upset
  BY <1>1, <1>2
<1>4. CASE UNCHANGED cvars
  BY <1>3, <1>4 DEF cvars, receiving
<1>5. ASSUME NEW id \in MsgIds, NEW size \in Sizes \ {0},
             Sbn_Forward(id, size)
      PROVE  FALSE
  BY <1>3, <1>5 DEF Sbn_Forward, R!Sbn_Send
<1>6. ASSUME NEW frame \in R!Frames, Sbn_Chatter(frame)
      PROVE  FALSE
  BY <1>3, <1>6 DEF Sbn_Chatter, R!Sbn_Send
<1>7. CASE Sbn_Close
  BY <1>3, <1>7 DEF Sbn_Close, R!Sbn_Close
<1>8. CASE Recv_Read \/ Recv_Broken \/ Recv_Dropped
  BY <1>2, <1>8 DEF Recv_Read, Recv_Broken, Recv_Dropped,
     R!ReadBytes_Some, R!ReadBytes_Closed, R!ReadBytes_Broken,
     R!recv_msg_Header, R!recv_msg_Body, R!stream
<1>9. CASE Recv_Ingest
  <2>1. UNCHANGED table /\ link' = link
    BY <1>9 DEF Recv_Ingest, Minder_Receive, R!recv_msg_Body, R!stream
  <2> QED BY <2>1, IdsIdle
<1>10. CASE Pipes_Step(MinderStep)
  <2>1. MinderStep /\ link' = link /\ ~Subscribe_Store(a)
    <3>1. a \in Threads /\ Minder \in Threads /\ Minder # a
      BY ThreadsAssumption DEF Threads
    <3>2. MinderStep /\ UNCHANGED receiving
      BY <1>10 DEF Pipes_Step
    <3>3. pc'[a] = pc[a] \/ pc[a] = "rcv_wait"
      BY <1>0, <3>2, StandingMinder
    <3>4. ~Subscribe_Store(a)
      BY <1>0, <3>1, <3>3 DEF Subscribe_Store, At, Goto, TypeOK
    <3> QED BY <3>2, <3>4 DEF receiving
  <2> QED BY <1>0, <2>1, IdsStand DEF Next
<1>11. ASSUME NEW t \in Apps,
              Pipes_Step(AppCall(t) \/ AppStep(t) \/ AppFault(t))
       PROVE  link' = link /\ IdsKept
  <2>1. /\ t = a /\ link' = link /\ upset' = upset
        /\ AppCall(a) \/ AppStep(a) \/ AppFault(a)
    BY <1>11 DEF Pipes_Step, receiving
  <2>2. ~Subscribe_Store(a)
    BY <1>0, <1>1, <2>1, StoreIsSound
  <2> QED BY <1>0, <2>1, <2>2, IdsStand DEF Next
<1> QED BY <1>4, <1>5, <1>6, <1>7, <1>8, <1>9, <1>10, <1>11
        DEF ClientNext, Receive_Step

\* When it is not.
LEMMA GoneOn ==
    ASSUME NEW a, Apps = {a}, ClientInv, ~Sound, ~Sound', [ClientNext]_cvars
    PROVE  [Channel!Next]_Channel!chvars
<1>0. TypeOK /\ Placement /\ TableInv /\ Standing /\ [Next]_vars
  BY PipesStep DEF ClientInv, SubscribedInv, QueueInv, IInv
<1>1. CASE Sbn_Close
  <2>1. link = "up" /\ link' # "up" /\ UNCHANGED vars
    BY <1>1 DEF Sbn_Close, R!Sbn_Close
  <2> QED BY <2>1, PipesIdle, ChannelGoneClosed
<1>2. CASE ~Sbn_Close
  <2>1. LinkKept
    BY <1>2 DEF LinkKept, ClientNext, Receive_Step, cvars, receiving,
       Pipes_Step, Sbn_Forward, Sbn_Chatter, R!Sbn_Send, Recv_Read,
       Recv_Broken, Recv_Dropped, Recv_Ingest, R!ReadBytes_Some,
       R!ReadBytes_Closed, R!ReadBytes_Broken, R!recv_msg_Header,
       R!recv_msg_Body, R!stream
  <2>2. CASE Subscribe_Store(a)
    <3>1. PICK i \in Pipes, id \in MsgIds :
             /\ IdsOf(i)' = IdsOf(i) \cup {id}
             /\ \A p \in Pipes \ {i} : IdsOf(p)' = IdsOf(p)
      BY <1>0, <2>2, IdsStored
    <3> QED BY <2>1, <3>1, ChannelSubscribes
  <2>3. CASE ~Subscribe_Store(a)
    BY <1>0, <2>1, <2>3, IdsStand, ChannelGone
  <2> QED BY <2>2, <2>3
<1> QED BY <1>1, <1>2

\* Each step of the client is one of the channel's, or one it does not see.
LEMMA ChannelStep ==
    ASSUME NEW a, Apps = {a}, ClientInv, ClientInv', [ClientNext]_cvars
    PROVE  [Channel!Next]_Channel!chvars
<1>1. CASE Sound /\ Sound'
  BY <1>1, SoundOn
<1>2. CASE Sound /\ ~Sound'
  BY <1>2, FailOn
<1>3. CASE ~Sound
  BY <1>3, GoneOn, SoundOnce
<1> QED BY <1>1, <1>2, <1>3

\* In the beginning nothing was sent, subscribed to or received.
LEMMA ChannelInit ==
    ASSUME ClientInit, ClientInv
    PROVE  Channel!Init
<1>1. /\ sent = <<>> /\ link = "up" /\ upset = FALSE /\ tainted = {} /\ Init
  BY DEF ClientInit, R!Init, Init
<1>2. Sound /\ Sound = TRUE
  BY <1>1 DEF Sound
<1>3. Line = <<>>
  <2>1. InHand = <<>>
    BY <1>1 DEF Init, InHand, At, Threads, StorePcs
  <2>2. OnTheWay = <<>>
    <3>1. WayListed
      BY WayIs DEF ClientInv, RP!ReadInv
    <3>2. R!Coming = {}
      BY <1>1, <3>1 DEF WayListed
    <3>3. Lists([k \in 1 .. 0 |-> 0], 0, {})
      BY DEF Lists
    <3>4. OnTheWay = Numbered([k \in 1 .. 0 |-> 0], 0, ids)
      BY <3>1, <3>2, <3>3 DEF WayListed
    <3> QED BY <3>4 DEF Numbered
  <2> QED BY <2>1, <2>2 DEF Line
<1>4. ASSUME NEW p \in Pipes
      PROVE  /\ {id \in MsgIds : Subscribes(p, id)} = {}
             /\ Contents(p) = <<>>
             /\ Messages[p][ReadMessage[p]] = NoMsg
  <2>1. SubscribedMsgIds[p] = [j \in SubSlots |-> INVALID_MSG_ID]
    BY <1>1 DEF Init
  <2>2. {id \in MsgIds : Subscribes(p, id)} = {}
    BY <2>1, MessagesAssumption DEF Subscribes
  <2> QED BY <1>1, <2>2, PipesEmpty
<1> QED BY <1>1, <1>2, <1>3, <1>4 DEF Channel!Init

\* The messages SBN forwards to a client with one application thread that
\* deletes no pipe are taken from the pipes that subscribe to them, each once,
\* in the order SBN sent them, for every size of message, pipe and table,
\* every cut of the stream and every interleaving of the calls with the
\* receive thread, for as long as the stream is read in step and no race
\* reaches a pipe.
THEOREM ImplementsChannel ==
    ASSUME NEW a, Apps = {a}, "delete" \notin Calls
    PROVE  ClientSpec => IsChannel
<1>1. ClientInit /\ ClientInv => Channel!Init
  BY ChannelInit
<1>2. ClientInv /\ ClientInv' /\ [ClientNext]_cvars
      => [Channel!Next]_Channel!chvars
  BY ChannelStep
<1>3. ClientSpec => []ClientInv
  BY AlwaysClient
<1> QED BY <1>1, <1>2, <1>3, PTL DEF ClientSpec, IsChannel, Channel!Spec
=============================================================================
