------------------------- MODULE SbnLifecycleProofs -------------------------
(***************************************************************************)
(* However often Init is called and however its calls interleave with the  *)
(* threads of earlier ones, a heartbeat thread sends at most one heartbeat *)
(* once the flag has fallen, and the threads of an Init that succeeded     *)
(* both run until some receive thread has met ErrorLimit errors in a row.  *)
(***************************************************************************)
EXTENDS SbnLifecycle, TLAPS

\* A thread that has sent a late heartbeat is past its own test of the flag,
\* and the flag does not rise again.
LateBeatsInv ==
    /\ late_beats \in [Inits -> Nat]
    /\ heart \in [Inits -> {"none", "check", "test", "send", "sleep", "done"}]
    /\ continue_heartbeat \in BOOLEAN
    /\ inits \in 0 .. MaxInits
    /\ init_pc # "returned" => inits \in Inits
    /\ init_pc \in {"connect", "heart"} => heart[inits] = "none"
    /\ \A k \in Inits : k > inits => heart[k] = "none"
    /\ \A k \in Inits : heart[k] = "none" => late_beats[k] = 0
    /\ \A k \in Inits :
          /\ late_beats[k] <= 1
          /\ late_beats[k] = 1 => /\ ~continue_heartbeat
                                  /\ heart[k] \in {"sleep", "check", "done"}

\* The flags and the calls of Init touch no heartbeat that was sent.
LEMMA LateBeatsInit ==
    ASSUME LateBeatsInv,
           \/ Init_Call \/ Init_ConnectFails \/ Init_Connect
           \/ Init_StartHeart \/ Init_StartReceive
    PROVE  LateBeatsInv'
<1> USE BoundsAssumption
    DEF LateBeatsInv, Inits, globals, threads, Return, CreateStatus
<1>1. CASE Init_Call
  BY <1>1 DEF Init_Call
<1>2. CASE Init_ConnectFails
  BY <1>2 DEF Init_ConnectFails
<1>3. CASE Init_Connect
  BY <1>3 DEF Init_Connect
<1>4. CASE Init_StartHeart
  BY <1>4 DEF Init_StartHeart
<1>5. CASE Init_StartReceive
  BY <1>5 DEF Init_StartReceive
<1> QED BY <1>1, <1>2, <1>3, <1>4, <1>5

\* A heartbeat thread sends after it has tested the flag, once a round.
LEMMA LateBeatsHeart ==
    ASSUME LateBeatsInv, NEW k \in Inits, HeartStep(k)
    PROVE  LateBeatsInv'
<1> USE DEF LateBeatsInv, Inits, globals, Heart_Goto
<1>1. CASE Heart_Check(k)
  BY <1>1 DEF Heart_Check
<1>2. CASE Heart_Test(k)
  BY <1>2 DEF Heart_Test
<1>3. CASE Heart_Send(k)
  BY <1>3 DEF Heart_Send
<1>4. CASE Heart_Wake(k)
  BY <1>4 DEF Heart_Wake
<1> QED BY <1>1, <1>2, <1>3, <1>4 DEF HeartStep

\* The receive threads only lower the flag.
LEMMA LateBeatsReceive ==
    ASSUME LateBeatsInv, NEW k \in Inits,
           Receive_Check(k) \/ Receive_Ok(k) \/ Receive_Error(k) \/ Breaks(k)
    PROVE  LateBeatsInv'
<1> USE DEF LateBeatsInv, Inits, globals, threads, StopBoth
<1>1. CASE Receive_Check(k)
  BY <1>1 DEF Receive_Check
<1>2. CASE Receive_Ok(k)
  BY <1>2 DEF Receive_Ok
<1>3. CASE Receive_Error(k)
  BY <1>3 DEF Receive_Error
<1>4. CASE Breaks(k)
  BY <1>4 DEF Breaks
<1> QED BY <1>1, <1>2, <1>3, <1>4

\* Every thread ever started sends at most one heartbeat after the receive
\* thread gave the connection up, for any number of calls of Init.
THEOREM AtMostOneLateBeat == Spec => []OneLateBeat
<1>1. Init => LateBeatsInv
  BY BoundsAssumption DEF Init, LateBeatsInv, Inits
<1>2. LateBeatsInv /\ [Next]_vars => LateBeatsInv'
  <2>1. CASE UNCHANGED vars
    BY <2>1 DEF LateBeatsInv, vars, globals, threads
  <2>2. CASE Next
    BY <2>2, LateBeatsInit, LateBeatsHeart, LateBeatsReceive DEF Next
  <2> QED BY <2>1, <2>2
<1>3. LateBeatsInv => OneLateBeat
  BY DEF LateBeatsInv, OneLateBeat
<1> QED BY <1>1, <1>2, <1>3, PTL DEF Spec

-----------------------------------------------------------------------------
(* What success of Init means                                              *)

\* The flags stand until some receive thread has counted ErrorLimit errors, and
\* from then on they are down and no receive thread reads, so that no count
\* starts anew; a thread ends only when its flag has fallen, and Init returns
\* success only when it has started both of its threads.
ReadyInv ==
    /\ inits \in 0 .. MaxInits
    /\ heart \in [Inits -> {"none", "check", "test", "send", "sleep", "done"}]
    /\ receive \in [Inits -> {"none", "check", "read", "done"}]
    /\ consec_error_count \in [Inits -> Nat]
    /\ init_pc # "returned" => inits \in Inits /\ status # "CFE_SUCCESS"
    /\ init_pc = "receive" => heart[inits] # "none"
    /\ status = "CFE_SUCCESS"
          => /\ inits \in Inits
             /\ heart[inits] # "none" /\ receive[inits] # "none"
    /\ ~GaveUp => continue_heartbeat /\ continue_receive_check
    /\ \A k \in Inits :
          /\ heart[k] = "done" => ~continue_heartbeat
          /\ receive[k] = "done" => ~continue_receive_check
          /\ receive[k] = "read" => consec_error_count[k] < ErrorLimit
          /\ consec_error_count[k] >= ErrorLimit => ~continue_receive_check

\* Init reads no flag, and starts its threads one after the other.
LEMMA ReadyInit ==
    ASSUME ReadyInv,
           \/ Init_Call \/ Init_ConnectFails \/ Init_Connect
           \/ Init_StartHeart \/ Init_StartReceive
    PROVE  ReadyInv'
<1> USE BoundsAssumption
    DEF ReadyInv, GaveUp, Inits, globals, threads, Return, CreateStatus
<1>1. CASE Init_Call
  BY <1>1 DEF Init_Call
<1>2. CASE Init_ConnectFails
  BY <1>2 DEF Init_ConnectFails
<1>3. CASE Init_Connect
  BY <1>3 DEF Init_Connect
<1>4. CASE Init_StartHeart
  BY <1>4 DEF Init_StartHeart
<1>5. CASE Init_StartReceive
  BY <1>5 DEF Init_StartReceive
<1> QED BY <1>1, <1>2, <1>3, <1>4, <1>5

\* A heartbeat thread ends only where it finds its flag down.
LEMMA ReadyHeart ==
    ASSUME ReadyInv, NEW k \in Inits, HeartStep(k)
    PROVE  ReadyInv'
<1> USE DEF ReadyInv, GaveUp, Inits, globals, Heart_Goto
<1>1. CASE Heart_Check(k)
  BY <1>1 DEF Heart_Check
<1>2. CASE Heart_Test(k)
  BY <1>2 DEF Heart_Test
<1>3. CASE Heart_Send(k)
  BY <1>3 DEF Heart_Send
<1>4. CASE Heart_Wake(k)
  BY <1>4 DEF Heart_Wake
<1> QED BY <1>1, <1>2, <1>3, <1>4 DEF HeartStep

\* A receive thread lowers the flags exactly when its count is full.
LEMMA ReadyReceive ==
    ASSUME ReadyInv, NEW k \in Inits,
           Receive_Check(k) \/ Receive_Ok(k) \/ Receive_Error(k) \/ Breaks(k)
    PROVE  ReadyInv'
<1> USE BoundsAssumption
    DEF ReadyInv, GaveUp, Inits, globals, threads
<1>1. CASE Receive_Check(k)
  <2>1. /\ UNCHANGED <<inits, init_pc, status, heart, consec_error_count>>
        /\ UNCHANGED <<continue_heartbeat, continue_receive_check>>
        /\ \/ /\ continue_receive_check
              /\ receive' = [receive EXCEPT ![k] = "read"]
           \/ /\ ~continue_receive_check
              /\ receive' = [receive EXCEPT ![k] = "done"]
    BY <1>1 DEF Receive_Check
  <2>2. continue_receive_check => consec_error_count[k] < ErrorLimit
    OBVIOUS
  <2> QED BY <2>1, <2>2
<1>2. CASE Receive_Ok(k)
  <2>1. /\ UNCHANGED <<inits, init_pc, status, heart>>
        /\ UNCHANGED <<continue_heartbeat, continue_receive_check>>
        /\ receive[k] = "read"
        /\ receive' = [receive EXCEPT ![k] = "check"]
        /\ consec_error_count' = [consec_error_count EXCEPT ![k] = 0]
    BY <1>2 DEF Receive_Ok
  <2>2. GaveUp => GaveUp'
    BY <2>1
  <2> QED BY <2>1, <2>2
<1>3. CASE Receive_Error(k)
  <2> DEFINE errors == consec_error_count[k] + 1
  <2>1. /\ receive' = [receive EXCEPT ![k] = "check"]
        /\ consec_error_count' = [consec_error_count EXCEPT ![k] = errors]
        /\ UNCHANGED <<inits, init_pc, status, heart>>
        /\ errors \in Nat /\ errors <= ErrorLimit /\ StopBoth(errors)
    BY <1>3 DEF Receive_Error
  <2>2. CASE errors = ErrorLimit
    <3>1. GaveUp' /\ ~continue_heartbeat' /\ ~continue_receive_check'
      BY <2>1, <2>2 DEF StopBoth
    <3> QED BY <2>1, <3>1
  <2>3. CASE errors # ErrorLimit
    <3>1. UNCHANGED <<continue_heartbeat, continue_receive_check>>
      BY <2>1, <2>3 DEF StopBoth
    <3>2. GaveUp => GaveUp'
      BY <1>3, <2>1 DEF Receive_Error
    <3>3. errors < ErrorLimit
      BY <2>1, <2>3
    <3> HIDE DEF errors
    <3>4. consec_error_count' \in [Inits -> Nat]
      BY <2>1
    <3>5. \A j \in Inits : consec_error_count'[j] >= ErrorLimit
                           => ~continue_receive_check'
      BY <2>1, <3>1, <3>3
    <3>6. \A j \in Inits : receive'[j] = "read"
                           => consec_error_count'[j] < ErrorLimit
      BY <2>1
    <3> QED BY <2>1, <3>1, <3>2, <3>4, <3>5, <3>6
  <2> QED BY <2>2, <2>3
<1>4. CASE Breaks(k)
  BY <1>4 DEF Breaks
<1> QED BY <1>1, <1>2, <1>3, <1>4

LEMMA ReadyAlways == Spec => []ReadyInv
<1>1. Init => ReadyInv
  BY BoundsAssumption DEF Init, ReadyInv, Inits
<1>2. ReadyInv /\ [Next]_vars => ReadyInv'
  <2>1. CASE UNCHANGED vars
    BY <2>1 DEF ReadyInv, GaveUp, vars, globals, threads
  <2>2. CASE Next
    BY <2>2, ReadyInit, ReadyHeart, ReadyReceive DEF Next
  <2> QED BY <2>1, <2>2
<1> QED BY <1>1, <1>2, PTL DEF Spec

\* What Init's documentation promises, however often it was called: after
\* CFE_SUCCESS both its threads run until a connection is given up.
THEOREM SuccessIsReady == Spec => []ReadyUntilGivenUp
<1>1. ReadyInv => ReadyUntilGivenUp
  BY DEF ReadyInv, ReadyUntilGivenUp
<1> QED BY <1>1, ReadyAlways, PTL

-----------------------------------------------------------------------------
(* Types                                                                   *)

LEMMA InitTyped ==
    ASSUME TypeOK,
           \/ Init_Call \/ Init_ConnectFails \/ Init_Connect
           \/ Init_StartHeart \/ Init_StartReceive,
           init_pc # "returned" => inits \in Inits
    PROVE  TypeOK'
<1> USE BoundsAssumption
    DEF TypeOK, Inits, Statuses, globals, threads, Return, CreateStatus
<1>1. CASE Init_Call
  <2>1. inits' \in 0 .. MaxInits
    BY <1>1 DEF Init_Call
  <2> QED BY <1>1, <2>1 DEF Init_Call
<1>2. CASE Init_ConnectFails
  BY <1>2 DEF Init_ConnectFails
<1>3. CASE Init_Connect
  BY <1>3 DEF Init_Connect
<1>4. CASE Init_StartHeart
  BY <1>4 DEF Init_StartHeart
<1>5. CASE Init_StartReceive
  BY <1>5 DEF Init_StartReceive
<1> QED BY <1>1, <1>2, <1>3, <1>4, <1>5

LEMMA HeartTyped ==
    ASSUME TypeOK, NEW k \in Inits, HeartStep(k)
    PROVE  TypeOK'
<1> USE DEF TypeOK, globals, Heart_Goto
<1>1. CASE Heart_Check(k)
  BY <1>1 DEF Heart_Check
<1>2. CASE Heart_Test(k)
  BY <1>2 DEF Heart_Test
<1>3. CASE Heart_Send(k)
  BY <1>3 DEF Heart_Send
<1>4. CASE Heart_Wake(k)
  BY <1>4 DEF Heart_Wake
<1> QED BY <1>1, <1>2, <1>3, <1>4 DEF HeartStep

\* A thread that reads has counted fewer than ErrorLimit errors: it is the
\* flag of its own last error that would have stopped it.
LEMMA ReceiveTyped ==
    ASSUME TypeOK, NEW k \in Inits,
           receive[k] = "read" => consec_error_count[k] < ErrorLimit,
           Receive_Check(k) \/ Receive_Ok(k) \/ Receive_Error(k) \/ Breaks(k)
    PROVE  TypeOK'
<1> USE BoundsAssumption DEF TypeOK, globals, threads
<1>1. CASE Receive_Check(k)
  BY <1>1 DEF Receive_Check
<1>2. CASE Receive_Ok(k)
  BY <1>2 DEF Receive_Ok
<1>3. CASE Receive_Error(k)
  <2>1. /\ UNCHANGED <<inits, init_pc, status, sbn_client_sockfd, heart,
                       recv_sockfd, broken, late_beats>>
        /\ receive' = [receive EXCEPT ![k] = "check"]
        /\ consec_error_count' = [consec_error_count EXCEPT ![k] = @ + 1]
        /\ receive[k] = "read" /\ StopBoth(consec_error_count[k] + 1)
    BY <1>3 DEF Receive_Error
  <2>2. /\ continue_heartbeat' \in BOOLEAN
        /\ continue_receive_check' \in BOOLEAN
    BY <2>1 DEF StopBoth
  <2>3. consec_error_count' \in [Inits -> 0 .. ErrorLimit]
    BY <2>1
  <2> QED BY <2>1, <2>2, <2>3
<1>4. CASE Breaks(k)
  BY <1>4 DEF Breaks
<1> QED BY <1>1, <1>2, <1>3, <1>4

\* Every variable keeps its type: in particular no receive thread, of
\* whichever Init, counts past the limit, which an equality tests for.
THEOREM LifecycleTypeCorrect == Spec => []TypeOK
<1>1. Init => TypeOK
  BY BoundsAssumption DEF Init, TypeOK, Inits, Statuses
<1>2. TypeOK /\ ReadyInv /\ [Next]_vars => TypeOK'
  <2> SUFFICES ASSUME TypeOK, ReadyInv, [Next]_vars PROVE TypeOK'
    OBVIOUS
  <2>1. CASE UNCHANGED vars
    BY <2>1 DEF TypeOK, vars, globals, threads
  <2>2. init_pc # "returned" => inits \in Inits
    BY DEF ReadyInv
  <2>3. \A k \in Inits :
           receive[k] = "read" => consec_error_count[k] < ErrorLimit
    BY DEF ReadyInv
  <2>4. CASE Next
    BY <2>2, <2>3, <2>4, InitTyped, HeartTyped, ReceiveTyped DEF Next
  <2> QED BY <2>1, <2>4
<1> QED BY <1>1, <1>2, ReadyAlways, PTL DEF Spec
=============================================================================
