----------------------------- MODULE ClLimiter ------------------------------
(***************************************************************************)
(* The limiter of src/src/common/cl_limiter.c, that keeps an error which   *)
(* happens in every frame from being reported every time, on the wrapping  *)
(* clock of ClTimerWrap.  Each stack has an error limiter, and the slave a *)
(* log limiter.  The periodic handler asks the limiter's timer, and the    *)
(* others, with one reading of the clock; an error may be offered between  *)
(* any two of its calls.  The counters for tests are left out.             *)
(*                                                                         *)
(* History variables: told, the message that was reported last, and quiet, *)
(* the time since the latest message was offered, up to AgeBound.          *)
(***************************************************************************)
EXTENDS ClTimerWrap

CONSTANTS Messages,      \* the values of the enumeration of errors, from 0
          NoMessage,     \* none of these
          LimiterPeriod  \* CLM/CLS_CCIEFB_ERRORCALLBACK_RETRIGGER_PERIOD

VARIABLES limiter,       \* cl_limiter_t
          told,          \* the message reported last (history)
          quiet          \* the time since the latest offer (history)

limiterVars == <<limiter, told, quiet>>

ASSUME LimiterAssumption ==
    /\ LimiterPeriod \in 0 .. MaxPeriod
    /\ LimiterPeriod <= AgeBound
    /\ NoMessage \notin Messages

cl_limiter_init(period) ==
    [timer |-> cl_timer_stop, period |-> period, previous_message |-> 0]

(* Is the message reported?                                                *)
IsReported(l, message) ==
    \/ ~cl_timer_is_running(l.timer)
    \/ l.period = 0
    \/ message # l.previous_message

(* Fault variant: the timer counts from the report, not from the offer.    *)
TimedFromReport(l, message, t) ==
    [l EXCEPT !.timer = cl_timer_start_if_not_running(@, l.period, t),
              !.previous_message = IF IsReported(l, message) THEN message ELSE @]

cl_limiter_should_run_now(l, message, t) ==
    [l EXCEPT !.timer = cl_timer_start(l.period, t),
              !.previous_message = IF IsReported(l, message) THEN message ELSE @]

(* Fault variant: the timer is left running.                               *)
LimiterNotStopped(l, t) == l

cl_limiter_periodic(l, t) ==
    [l EXCEPT !.timer = IF cl_timer_is_expired(@, t) THEN cl_timer_stop ELSE @]

-----------------------------------------------------------------------------
LimiterInit ==
    /\ Init
    /\ limiter = cl_limiter_init(LimiterPeriod)
    /\ told = NoMessage
    /\ quiet = 0

Offer(message) ==
    /\ limiter' = cl_limiter_should_run_now(limiter, message, now)
    /\ told' = IF IsReported(limiter, message) THEN message ELSE told
    /\ quiet' = 0
    /\ UNCHANGED vars

LimiterPeriodic ==
    /\ Poll
    /\ limiter' = cl_limiter_periodic(limiter, now)
    /\ UNCHANGED <<told, quiet>>

TimeGoesOn(d) ==
    /\ Pass(d)
    /\ quiet' = IF quiet + d > AgeBound THEN AgeBound ELSE quiet + d
    /\ UNCHANGED <<limiter, told>>

OtherTimer ==
    /\ \/ \E p \in 0 .. MaxPeriod : Start(p) \/ StartIfNotRunning(p)
       \/ Restart
       \/ Stop
    /\ UNCHANGED limiterVars

LimiterNext ==
    \/ \E message \in Messages : Offer(message)
    \/ LimiterPeriodic
    \/ \E d \in 1 .. MaxGap : TimeGoesOn(d)
    \/ OtherTimer

LimiterSpec == LimiterInit /\ [][LimiterNext]_<<vars, limiterVars>>

-----------------------------------------------------------------------------
(***************************************************************************)
(* cls_iefb_log_warning_once(): if a message has recently been reported,   *)
(* any new similar message is silently dropped; a different message will   *)
(* be reported regardless of the timer.  Recently means less than a period *)
(* and the time between two polls since it was last offered, in real time. *)
(* So whatever the time stamps, no error that is new, or comes back after  *)
(* a pause, is kept from the application; nor is the first one, although   *)
(* its message may be equal to previous_message as it was initialised.     *)
(***************************************************************************)
OnlyRepeatsDropped ==
    \A message \in Messages :
        ~IsReported(limiter, message) =>
            message = told /\ quiet < LimiterPeriod + MaxGap

(***************************************************************************)
(* The other half: an error that goes on is not reported again before it   *)
(* has been absent for a period, however long it goes on.                  *)
(***************************************************************************)
NoFlood ==
    \A message \in Messages :
        IsReported(limiter, message) =>
            message # told \/ quiet >= LimiterPeriod
=============================================================================
