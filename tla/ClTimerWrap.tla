----------------------------- MODULE ClTimerWrap ----------------------------
(***************************************************************************)
(* The timer of src/src/common/cl_timer.c as it is written: the clock      *)
(* wraps at Word (2^32 microseconds, about 72 minutes), a timer keeps the  *)
(* time stamp of its start, and a difference beyond half the range is      *)
(* taken for a negative one.  Values are members of 0 .. Word - 1, so the  *)
(* wrapping sum and difference need no more than one correction.           *)
(*                                                                         *)
(* The periodic handler polls the timer at least every MaxGap.  age is a   *)
(* history variable, the time that really passed since the latest start,   *)
(* counted up to AgeBound.                                                 *)
(***************************************************************************)
EXTENDS Naturals

CONSTANTS Word,        \* the number of values of the clock
          MaxPeriod,   \* the longest period a timer is started with
          MaxGap,      \* the longest time between two polls
          AgeBound     \* how far age counts

VARIABLES now,         \* the clock
          timer,       \* the timer, as in cl_timer_t
          gap,         \* the time since the latest poll
          age,         \* the time since the latest start (history)
          expired      \* did the latest poll find the timer expired?

vars == <<now, timer, gap, age, expired>>

ASSUME ClockAssumption ==
    /\ Word \in Nat \ {0, 1}
    /\ MaxPeriod \in 0 .. (Word - 1)
    /\ MaxGap \in Nat
    /\ AgeBound \in Nat

Clock == 0 .. (Word - 1)

(* UINT32_MAX >> 1: the longest time difference that is not negative.      *)
Half == (Word - 1) \div 2

WrapAdd(t, d) == IF t + d >= Word THEN t + d - Word ELSE t + d

WrapSub(t, u) == IF t >= u THEN t - u ELSE t + Word - u

-----------------------------------------------------------------------------
cl_timer_start(period, t) ==
    [state |-> "RUNNING", period |-> period, timestamp |-> t]

cl_timer_start_if_not_running(tm, period, t) ==
    IF tm.state = "RUNNING" THEN tm ELSE cl_timer_start(period, t)

cl_timer_restart(tm, t) ==
    IF tm.state = "STOPPED" THEN tm ELSE [tm EXCEPT !.timestamp = t]

cl_timer_stop == [state |-> "STOPPED", period |-> 0, timestamp |-> 0]

cl_timer_is_running(tm) == tm.state = "RUNNING"

(* Fault variants: expired only after the period; a tick later than that.  *)
DueAfterPeriod(tm, t) ==
    tm.state = "RUNNING" /\ WrapSub(t, tm.timestamp) > tm.period
DueOneTickLate(tm, t) ==
    tm.state = "RUNNING" /\ WrapSub(t, tm.timestamp) > tm.period + 1

cl_timer_is_expired(tm, t) ==
    /\ tm.state # "STOPPED"
    /\ WrapSub(t, tm.timestamp) <= Half
    /\ WrapSub(t, tm.timestamp) >= tm.period

-----------------------------------------------------------------------------
TypeOK ==
    /\ now \in Clock
    /\ timer \in [state : {"STOPPED", "RUNNING"}, period : Clock,
                  timestamp : Clock]
    /\ gap \in 0 .. MaxGap
    /\ age \in 0 .. AgeBound
    /\ expired \in BOOLEAN

Init ==
    /\ now \in Clock
    /\ timer = cl_timer_stop
    /\ gap = 0
    /\ age = 0
    /\ expired = FALSE

Start(p) ==
    /\ timer' = cl_timer_start(p, now)
    /\ age' = 0
    /\ UNCHANGED <<now, gap, expired>>

StartIfNotRunning(p) ==
    /\ timer' = cl_timer_start_if_not_running(timer, p, now)
    /\ age' = IF cl_timer_is_running(timer) THEN age ELSE 0
    /\ UNCHANGED <<now, gap, expired>>

Restart ==
    /\ timer' = cl_timer_restart(timer, now)
    /\ age' = 0
    /\ UNCHANGED <<now, gap, expired>>

Stop ==
    /\ timer' = cl_timer_stop
    /\ age' = 0
    /\ UNCHANGED <<now, gap, expired>>

(* The clock advances, and with it the time since the latest poll.         *)
Pass(d) ==
    /\ gap + d <= MaxGap
    /\ now' = WrapAdd(now, d)
    /\ gap' = gap + d
    /\ age' = IF ~cl_timer_is_running(timer) THEN 0
              ELSE IF age + d > AgeBound THEN AgeBound ELSE age + d
    /\ UNCHANGED <<timer, expired>>

(* A periodic handler asks the timer, and stops it if it is expired.       *)
Poll ==
    /\ gap' = 0
    /\ expired' = cl_timer_is_expired(timer, now)
    /\ timer' = IF cl_timer_is_expired(timer, now) THEN cl_timer_stop ELSE timer
    /\ age' = IF cl_timer_is_expired(timer, now) THEN 0 ELSE age
    /\ UNCHANGED now

Next ==
    \/ \E p \in 0 .. MaxPeriod : Start(p) \/ StartIfNotRunning(p)
    \/ Restart
    \/ Stop
    \/ \E d \in 1 .. MaxGap : Pass(d)
    \/ Poll

Spec == Init /\ [][Next]_vars

-----------------------------------------------------------------------------
(* The timer the rest of the stack sees: how long ago was it started, as   *)
(* far as anyone asks.                                                     *)
Elapsed ==
    IF timer.state = "STOPPED" THEN 0
    ELSE IF WrapSub(now, timer.timestamp) >= timer.period THEN timer.period
    ELSE WrapSub(now, timer.timestamp)

AbsTimer ==
    [state |-> timer.state, period |-> timer.period, elapsed |-> Elapsed]

Abs == INSTANCE ClTimerUse
           WITH timer <- AbsTimer, Periods <- 0 .. MaxPeriod,
                Steps <- 1 .. MaxGap

(* The wrapping clock is invisible: whatever the time of the start, the    *)
(* timer of cl_timer.c behaves as one that counts the time since it was    *)
(* started.  True where PeriodsFit, and not otherwise.                     *)
ImplementsAbs == Abs!Spec

(* Every period leaves room in half the clock's range for the time between *)
(* two polls.                                                              *)
PeriodsFit == MaxPeriod + MaxGap <= Half

(* cl_timer.h: cl_timer_is_expired() is true when the time elapsed is      *)
(* greater than the period.  So a poll leaves no timer running that is     *)
(* overdue: not in real time, which the wrapped difference only stands for.*)
NoOverdueTimer ==
    gap = 0 /\ timer.state = "RUNNING" => age <= timer.period
=============================================================================
