---------------------------- MODULE SbnWaitClock ----------------------------
(***************************************************************************)
(* The timed wait of CFE_SB_RcvMsg: the deadline is computed from          *)
(* CLOCK_MONOTONIC as it was when RcvMsg was entered, in seconds and       *)
(* nanoseconds, and pthread_cond_timedwait compares it with                *)
(* CLOCK_REALTIME, the clock of a condition variable initialised with      *)
(* PTHREAD_COND_INITIALIZER.                                               *)
(*                                                                         *)
(* Time is counted in ticks, so many of them to the second.  The two       *)
(* clocks go at the same rate; RealtimeAhead is how far the wall clock is  *)
(* ahead of the time since the system started.                             *)
(*                                                                         *)
(* An operator named Op_Change, before Op, is Op with a plausible mistake. *)
(***************************************************************************)
EXTENDS Integers

CONSTANTS
    Second,          \* ticks in a second, 10^9
    TimeOuts,        \* the values of TimeOut, in ticks
    RealtimeAhead,
    MaxTime          \* a bound: how long the model runs

ASSUME ClockAssumption ==
    /\ Second \in Nat \ {0}
    /\ TimeOuts \subseteq Nat \ {0}
    /\ RealtimeAhead \in Nat
    /\ MaxTime \in Nat /\ Second <= MaxTime

VARIABLES monotonic, pc, TimeOut, enter_time, future_timeout

vars == <<monotonic, pc, TimeOut, enter_time, future_timeout>>

Timespec == [tv_sec : Nat, tv_nsec : Nat]

TypeOK ==
    /\ monotonic \in 0 .. MaxTime
    /\ pc \in {"idle", "lock", "wait", "CFE_SB_TIME_OUT", "EINVAL"}
    /\ TimeOut \in TimeOuts \cup {0}
    /\ enter_time \in Timespec /\ enter_time.tv_nsec < Second
    /\ future_timeout \in Timespec /\ future_timeout.tv_nsec < Second

AsTimespec(t) == [tv_sec |-> t \div Second, tv_nsec |-> t % Second]
Ticks(ts)     == ts.tv_sec * Second + ts.tv_nsec
Realtime      == monotonic + RealtimeAhead

-----------------------------------------------------------------------------

Tick ==
    /\ monotonic < MaxTime
    /\ monotonic' = monotonic + 1
    /\ UNCHANGED <<pc, TimeOut, enter_time, future_timeout>>

RcvMsg_Enter(timeout) ==
    /\ pc = "idle"
    /\ enter_time' = AsTimespec(monotonic)
    /\ TimeOut' = timeout
    /\ pc' = "lock"
    /\ UNCHANGED <<monotonic, future_timeout>>

Carry_AtMoreThan(sec, nsec) ==
    IF nsec > Second
    THEN [tv_sec |-> sec + nsec \div Second, tv_nsec |-> nsec % Second]
    ELSE [tv_sec |-> sec, tv_nsec |-> nsec]

Carry_OneSecond(sec, nsec) ==
    IF nsec >= Second
    THEN [tv_sec |-> sec + 1, tv_nsec |-> nsec % Second]
    ELSE [tv_sec |-> sec, tv_nsec |-> nsec]

\* "When nsec greater than 1 second perform update to seconds".
Carry(sec, nsec) ==
    IF nsec >= Second
    THEN [tv_sec |-> sec + nsec \div Second, tv_nsec |-> nsec % Second]
    ELSE [tv_sec |-> sec, tv_nsec |-> nsec]

\* The mutex was free at last, and there is no message.  A tv_nsec out of
\* range is refused.
RcvMsg_Wait ==
    /\ pc = "lock"
    /\ future_timeout' = Carry(enter_time.tv_sec, enter_time.tv_nsec + TimeOut)
    /\ pc' = IF future_timeout'.tv_nsec < Second THEN "wait" ELSE "EINVAL"
    /\ UNCHANGED <<monotonic, TimeOut, enter_time>>

RcvMsg_TimesOut ==
    /\ pc = "wait"
    /\ Realtime >= Ticks(future_timeout)
    /\ pc' = "CFE_SB_TIME_OUT"
    /\ UNCHANGED <<monotonic, TimeOut, enter_time, future_timeout>>

\* The call returns; the application may receive again.
RcvMsg_Return ==
    /\ pc = "CFE_SB_TIME_OUT"
    /\ pc' = "idle"
    /\ TimeOut' = 0
    /\ UNCHANGED <<monotonic, enter_time, future_timeout>>

Init ==
    /\ monotonic \in 0 .. Second
    /\ pc = "idle" /\ TimeOut = 0
    /\ enter_time = AsTimespec(0) /\ future_timeout = AsTimespec(0)

Next ==
    \/ Tick
    \/ \E timeout \in TimeOuts : RcvMsg_Enter(timeout)
    \/ RcvMsg_Wait
    \/ RcvMsg_TimesOut
    \/ RcvMsg_Return

Spec == Init /\ [][Next]_vars

\* Time goes on, and the thread is scheduled.
FairSpec == Spec /\ WF_vars(Tick) /\ WF_vars(RcvMsg_Wait)
                 /\ WF_vars(RcvMsg_TimesOut)

-----------------------------------------------------------------------------
(* What must hold                                                          *)

\* "set future time for timeout check to entry time + timeout milliseconds":
\* RcvMsg does not report a time-out before the time is out, counted from
\* its entry.
NotBeforeTimeOut ==
    pc = "CFE_SB_TIME_OUT" => monotonic >= Ticks(enter_time) + TimeOut

\* A timed RcvMsg that finds no message returns once its time is out, if the
\* model's time lasts that long: the wait is not refused for a tv_nsec out of
\* range.
EndsAtTimeOut ==
    (pc = "lock" /\ Ticks(enter_time) + TimeOut <= MaxTime)
    ~> pc = "CFE_SB_TIME_OUT"
=============================================================================
