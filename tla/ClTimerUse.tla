----------------------------- MODULE ClTimerUse -----------------------------
(***************************************************************************)
(* What the stack expects of a timer: a timer of ClTimer that is started,  *)
(* restarted and stopped at will, and polled by a periodic handler that    *)
(* stops it as soon as it is found expired (every caller of                *)
(* cl_timer_is_expired() does so).  This is the abstract specification     *)
(* that ClTimerWrap, with its wrapping clock, implements.                  *)
(***************************************************************************)
EXTENDS ClTimer

CONSTANTS Periods,   \* the periods the timer is started with
          Steps      \* by how much the clock may advance at once

VARIABLES timer,     \* the timer
          expired    \* did the latest poll find it expired?

vars == <<timer, expired>>

Init == timer = cl_timer_stop /\ expired = FALSE

Start(p) == timer' = cl_timer_start(p) /\ UNCHANGED expired

StartIfNotRunning(p) ==
    timer' = cl_timer_start_if_not_running(timer, p) /\ UNCHANGED expired

Restart == timer' = cl_timer_restart(timer) /\ UNCHANGED expired

Stop == timer' = cl_timer_stop /\ UNCHANGED expired

Pass(d) == timer' = TimerAdvance(timer, d) /\ UNCHANGED expired

Poll ==
    /\ expired' = cl_timer_is_expired(timer)
    /\ timer' = IF cl_timer_is_expired(timer) THEN cl_timer_stop ELSE timer

Next ==
    \/ \E p \in Periods : Start(p) \/ StartIfNotRunning(p)
    \/ Restart
    \/ Stop
    \/ \E d \in Steps : Pass(d)
    \/ Poll

Spec == Init /\ [][Next]_vars
=============================================================================
