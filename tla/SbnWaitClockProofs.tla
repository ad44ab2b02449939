------------------------ MODULE SbnWaitClockProofs -------------------------
(***************************************************************************)
(* A timed RcvMsg does not return before its time is out, for every        *)
(* time-out and every entry time, as long as the two clocks agree.         *)
(***************************************************************************)
EXTENDS SbnWaitClock, TLAPS

\* Seconds and the rest of them.
LEMMA DivMod ==
    ASSUME NEW n \in Nat
    PROVE  /\ n \div Second \in Nat /\ n % Second \in 0 .. Second - 1
           /\ n = (n \div Second) * Second + (n % Second)
BY ClockAssumption, SMTT(30)

LEMMA Distributes ==
    ASSUME NEW a \in Nat, NEW b \in Nat
    PROVE  (a + b) * Second = a * Second + b * Second
BY ClockAssumption, SMTT(30)

\* A time read from a clock is that time.
LEMMA EntryTime ==
    ASSUME NEW t \in Nat
    PROVE  /\ AsTimespec(t) \in Timespec /\ AsTimespec(t).tv_nsec < Second
           /\ Ticks(AsTimespec(t)) = t
<1>1. /\ t \div Second \in Nat /\ t % Second \in 0 .. Second - 1
      /\ t = (t \div Second) * Second + (t % Second)
  BY DivMod
<1>2. Second \in Nat
  BY ClockAssumption
<1>3. AsTimespec(t) \in Timespec /\ AsTimespec(t).tv_nsec < Second
  BY <1>1, <1>2 DEF AsTimespec, Timespec
<1>4. Ticks(AsTimespec(t)) = t
  BY <1>1 DEF AsTimespec, Ticks
<1> QED BY <1>3, <1>4

\* The carry keeps the time and brings the nanoseconds into range.
LEMMA CarryKeepsTime ==
    ASSUME NEW sec \in Nat, NEW nsec \in Nat
    PROVE  /\ Carry(sec, nsec) \in Timespec
           /\ Carry(sec, nsec).tv_nsec < Second
           /\ Ticks(Carry(sec, nsec)) = sec * Second + nsec
<1>1. /\ nsec \div Second \in Nat /\ nsec % Second \in 0 .. Second - 1
      /\ nsec = (nsec \div Second) * Second + (nsec % Second)
  BY DivMod
<1>2. Second \in Nat
  BY ClockAssumption
<1>3. CASE nsec >= Second
  <2>1. Carry(sec, nsec) = [tv_sec |-> sec + nsec \div Second,
                            tv_nsec |-> nsec % Second]
    BY <1>3 DEF Carry
  <2>2. Ticks(Carry(sec, nsec))
        = (sec + nsec \div Second) * Second + (nsec % Second)
    BY <2>1 DEF Ticks
  <2>3. (sec + nsec \div Second) * Second
        = sec * Second + (nsec \div Second) * Second
    BY <1>1, Distributes
  <2>4. sec * Second \in Nat /\ (nsec \div Second) * Second \in Nat
    BY <1>1, <1>2
  <2>5. Ticks(Carry(sec, nsec)) = sec * Second + nsec
    <3> DEFINE a == sec * Second
               b == (nsec \div Second) * Second
               r == nsec % Second
    <3>1. a \in Nat /\ b \in Nat /\ r \in Nat
      BY <2>4, <1>1
    <3>2. nsec = b + r
      BY <1>1
    <3>3. Ticks(Carry(sec, nsec)) = (a + b) + r
      BY <2>2, <2>3
    <3> HIDE DEF a, b, r
    <3>4. Ticks(Carry(sec, nsec)) = a + nsec
      BY <3>1, <3>2, <3>3
    <3> QED BY <3>4 DEF a
  <2>6. Carry(sec, nsec) \in Timespec /\ Carry(sec, nsec).tv_nsec < Second
    BY <2>1, <1>1, <1>2 DEF Timespec
  <2> QED BY <2>5, <2>6
<1>4. CASE ~(nsec >= Second)
  <2>1. Carry(sec, nsec) = [tv_sec |-> sec, tv_nsec |-> nsec]
    BY <1>4 DEF Carry
  <2> QED BY <2>1, <1>2, <1>4 DEF Ticks, Timespec
<1> QED BY <1>3, <1>4

\* The inductive invariant: the deadline of a thread that waits is its entry
\* time and its time-out, no nanosecond lost in the carry, and a wait is never
\* refused.
Deadline ==
    /\ TypeOK
    /\ pc # "EINVAL"
    /\ pc \in {"wait", "CFE_SB_TIME_OUT"}
          => Ticks(future_timeout) = Ticks(enter_time) + TimeOut
    /\ pc = "CFE_SB_TIME_OUT" => Realtime >= Ticks(future_timeout)

LEMMA InitDeadline == Init => Deadline
<1> SUFFICES ASSUME Init PROVE Deadline
  OBVIOUS
<1>1. AsTimespec(0) \in Timespec /\ AsTimespec(0).tv_nsec < Second
  BY EntryTime
<1> QED BY <1>1, ClockAssumption DEF Init, Deadline, TypeOK

LEMMA StepDeadline == Deadline /\ [Next]_vars => Deadline'
<1> SUFFICES ASSUME Deadline, [Next]_vars PROVE Deadline'
  OBVIOUS
<1> USE DEF Deadline
<1>0. /\ Second \in Nat \ {0} /\ RealtimeAhead \in Nat
      /\ TimeOuts \subseteq Nat \ {0} /\ MaxTime \in Nat
  BY ClockAssumption
<1>1. CASE Tick
  <2>1. /\ monotonic' \in 0 .. MaxTime /\ monotonic' >= monotonic
        /\ UNCHANGED <<pc, TimeOut, enter_time, future_timeout>>
    BY <1>0, <1>1 DEF Tick, TypeOK
  <2>2. TypeOK'
    BY <2>1 DEF TypeOK
  <2>3. ASSUME pc' = "CFE_SB_TIME_OUT"
        PROVE  Realtime' >= Ticks(future_timeout')
    <3>1. Realtime >= Ticks(future_timeout)
      BY <2>1, <2>3
    <3>2. Ticks(future_timeout) \in Nat /\ monotonic \in Nat
      BY <1>0 DEF TypeOK, Timespec, Ticks
    <3> QED BY <3>1, <3>2, <2>1, <1>0 DEF Realtime
  <2> QED BY <2>1, <2>2, <2>3 DEF Ticks
<1>2. ASSUME NEW timeout \in TimeOuts, RcvMsg_Enter(timeout)
      PROVE  Deadline'
  <2>1. monotonic \in Nat
    BY <1>0 DEF TypeOK
  <2>2. AsTimespec(monotonic) \in Timespec
        /\ AsTimespec(monotonic).tv_nsec < Second
    BY <2>1, EntryTime
  <2> QED BY <1>2, <2>2 DEF RcvMsg_Enter, TypeOK
<1>3. CASE RcvMsg_Wait
  <2> DEFINE sec == enter_time.tv_sec
             nsec == enter_time.tv_nsec
             after == Carry(sec, nsec + TimeOut)
  <2>1. sec \in Nat /\ nsec \in Nat /\ TimeOut \in Nat
    BY <1>0 DEF TypeOK, Timespec
  <2>2. /\ after \in Timespec /\ after.tv_nsec < Second
        /\ Ticks(after) = sec * Second + (nsec + TimeOut)
    BY <2>1, CarryKeepsTime
  <2>3. /\ future_timeout' = after /\ pc' = "wait"
        /\ UNCHANGED <<monotonic, TimeOut, enter_time>>
    BY <1>3, <2>2 DEF RcvMsg_Wait
  <2>4. Ticks(enter_time') + TimeOut' = Ticks(after)
    <3>1. sec * Second \in Nat
      BY <2>1, <1>0
    <3>2. Ticks(enter_time) = sec * Second + nsec
      BY DEF Ticks
    <3>3. Ticks(enter_time) + TimeOut = Ticks(after)
      BY <3>1, <3>2, <2>1, <2>2
    <3> QED BY <3>3, <2>3
  <2>5. TypeOK'
    BY <2>2, <2>3 DEF TypeOK
  <2> QED BY <2>3, <2>4, <2>5
<1>4. CASE RcvMsg_TimesOut
  BY <1>4 DEF RcvMsg_TimesOut, TypeOK, Realtime, Ticks
<1>5. CASE RcvMsg_Return
  BY <1>5 DEF RcvMsg_Return, TypeOK
<1>6. CASE UNCHANGED vars
  BY <1>6 DEF vars, TypeOK, Realtime, Ticks
<1> QED BY <1>1, <1>2, <1>3, <1>4, <1>5, <1>6 DEF Next

LEMMA AlwaysDeadline == Spec => []Deadline
BY InitDeadline, StepDeadline, PTL DEF Spec

\* Every variable keeps its type: above all the nanoseconds of a deadline stay
\* below a second, however many seconds a time-out carries.
THEOREM ClockTypeCorrect == Spec => []TypeOK
<1>1. Deadline => TypeOK
  BY DEF Deadline
<1> QED BY <1>1, AlwaysDeadline, PTL

\* With clocks that agree, RcvMsg does not report a time-out before the time
\* it was given has passed since its entry.
THEOREM NeverBeforeTimeOut ==
    ASSUME RealtimeAhead = 0
    PROVE  Spec => []NotBeforeTimeOut
<1>1. Deadline => NotBeforeTimeOut
  <2> SUFFICES ASSUME Deadline, pc = "CFE_SB_TIME_OUT"
               PROVE  monotonic >= Ticks(enter_time) + TimeOut
    BY DEF NotBeforeTimeOut
  <2>1. /\ Realtime >= Ticks(future_timeout)
        /\ Ticks(future_timeout) = Ticks(enter_time) + TimeOut
    BY DEF Deadline
  <2>2. Realtime = monotonic
    <3>1. monotonic \in Nat
      BY ClockAssumption DEF Deadline, TypeOK
    <3> QED BY <3>1 DEF Realtime
  <2> QED BY <2>1, <2>2
<1> QED BY <1>1, AlwaysDeadline, PTL
=============================================================================
