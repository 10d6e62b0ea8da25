------------------------------ MODULE ClTimer ------------------------------
(***************************************************************************)
(* The timer of src/src/common/cl_timer.c as the rest of the stack sees    *)
(* it: how long ago it was started, not when.  A timer holds the time that *)
(* passed since cl_timer_start() or cl_timer_restart().  The time stamps   *)
(* modulo 2^32 that time is computed from are the subject of ClTimerWrap,  *)
(* which shows when the two agree.                                         *)
(*                                                                         *)
(* The caller reads the clock once per call of its periodic handler, so    *)
(* time is advanced there (TimerAdvance) and nowhere else.                 *)
(***************************************************************************)
EXTENDS Naturals

Timer(Periods) ==
    [state : {"STOPPED", "RUNNING"}, period : Periods, elapsed : Nat]

cl_timer_stop == [state |-> "STOPPED", period |-> 0, elapsed |-> 0]

cl_timer_start(period) ==
    [state |-> "RUNNING", period |-> period, elapsed |-> 0]

cl_timer_start_if_not_running(t, period) ==
    IF t.state = "RUNNING" THEN t ELSE cl_timer_start(period)

cl_timer_restart(t) ==
    IF t.state = "STOPPED" THEN t ELSE [t EXCEPT !.elapsed = 0]

cl_timer_is_expired(t) == t.state = "RUNNING" /\ t.elapsed >= t.period

(* d units of time pass.  Nothing reads a timer but cl_timer_is_expired(), *)
(* which cannot tell elapsed times beyond the period apart, so the count   *)
(* saturates there.                                                        *)
TimerAdvance(t, d) ==
    IF t.state = "STOPPED" THEN t
    ELSE [t EXCEPT !.elapsed = IF @ + d >= t.period THEN t.period ELSE @ + d]
=============================================================================
