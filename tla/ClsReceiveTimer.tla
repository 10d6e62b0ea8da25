--------------------------- MODULE ClsReceiveTimer --------------------------
(***************************************************************************)
(* The slave's receive timer of src/src/slave/cls_iefb.c on the wrapping   *)
(* clock of ClTimerWrap.  The master dictates the time after which it is   *)
(* to be given up, as two 16-bit factors; the slave multiplies them in 64  *)
(* bits, in microseconds, and hands the result to a timer of 32 bits.      *)
(*                                                                         *)
(* Factors of zero select the defaults, 500 ms and 3, which are factors    *)
(* like any other here.                                                    *)
(***************************************************************************)
EXTENDS ClTimerWrap

CONSTANTS Timeouts,          \* the timeout values masters send
          TimeoutCounts,     \* the timeout counts masters send
          TicksPerUnit       \* clock ticks per unit of the timeout value

VARIABLE requested           \* the time the master asked for (history)

rvars == <<vars, requested>>

cl_calculate_total_timeout_us(timeout_value, parallel_off_timeout_count) ==
    timeout_value * parallel_off_timeout_count * TicksPerUnit

(* The period the timer is given: the conversion to uint32_t.              *)
ReceivePeriod(timeout_value, parallel_off_timeout_count) ==
    cl_calculate_total_timeout_us(timeout_value, parallel_off_timeout_count)
        % Word

-----------------------------------------------------------------------------
ReceiveInit == Init /\ requested = 0

(* cls_iefb_handle_new_or_updated_master(): a master is accepted, or one   *)
(* that controls the slave already has changed its parameters.             *)
Connect(timeout_value, count) ==
    /\ Start(ReceivePeriod(timeout_value, count))
    /\ requested' = cl_calculate_total_timeout_us(timeout_value, count)

(* A request of the controlling master.                                    *)
Request == cl_timer_is_running(timer) /\ Restart /\ UNCHANGED requested

(* The connection ends for another reason.                                 *)
Disconnect == cl_timer_is_running(timer) /\ Stop /\ UNCHANGED requested

TimePasses == (\E d \in 1 .. MaxGap : Pass(d)) /\ UNCHANGED requested

(* The end of cls_iefb_periodic(): is the master to be given up?           *)
MonitorReceiveTimer == Poll /\ UNCHANGED requested

ReceiveNext ==
    \/ \E t \in Timeouts, c \in TimeoutCounts : Connect(t, c)
    \/ Request
    \/ Disconnect
    \/ TimePasses
    \/ MonitorReceiveTimer

ReceiveSpec == ReceiveInit /\ [][ReceiveNext]_rvars

-----------------------------------------------------------------------------
(* REQ_CLS_TIMING_01: the slave gives a master up when no request came for *)
(* the timeout period times the number of timeouts, and not before.        *)
LeftOnlyWhenDue ==
    [][MonitorReceiveTimer /\ expired' => age >= requested]_rvars
=============================================================================
