--------------------------- MODULE ClsSlaveProofs ---------------------------
(***************************************************************************)
(* Proofs about the slave (ClsSlave), for any number of masters, any       *)
(* requests, stations, timeouts and delays.                                *)
(*                                                                         *)
(* The stack is a composition of operators on the struct cls, so the       *)
(* inductive invariant is a predicate SlaveInv(c) on such a struct, and    *)
(* there is one lemma per operator that says what the operator does to it. *)
(***************************************************************************)
EXTENDS ClsSlave, FiniteSetTheorems, TLAPS

InControl(c) == c.state = "MASTER_CONTROL"

(* The state, the master record and the timers agree.                      *)
TimersAgree(c) ==
    /\ InControl(c) <=> c.master.master_id # NoIp
    /\ InControl(c) <=> c.receive_timer.state = "RUNNING"
    /\ InControl(c) => c.receive_timer.period = TotalTimeout(c.master)
    /\ c.state = "WAIT_DISABLING_SLAVE"
            <=> c.timer_for_disabling_slave.state = "RUNNING"

(***************************************************************************)
(* What master_running_cb said last follows from the values kept for the   *)
(* comparison with the next call.  This is why the callback may be left    *)
(* out when those values have not changed.                                 *)
(***************************************************************************)
CallbackAgrees(c) ==
    LET kept == c.trigger
        status == kept.previous_master_application_status
    IN  /\ c.app.master_connected <=> kept.previous_connected_to_master
        /\ c.app.running <=>
                kept.previous_connected_to_master /\ IsRunning(status)
        /\ c.app.stopped_by_user <=>
                /\ kept.previous_connected_to_master
                /\ kept.previous_protocol_ver > 1
                /\ ~IsRunning(status)
                /\ IsStoppedByUser(status)

ConnectionTold(c) ==
    /\ InControl(c) <=> c.app.connected
    /\ InControl(c) <=> c.trigger.previous_connected_to_master

SlaveInv(c) ==
    /\ c \in ClsType
    /\ TimersAgree(c)
    /\ CallbackAgrees(c)
    /\ ConnectionTold(c)

ReceivedRequests == RequestType(SlaveIps)

-----------------------------------------------------------------------------
(* The operators the transition actions are made of.                       *)

LEMMA TotalTimeoutType ==
    ASSUME NEW timeout \in Nat, NEW count \in Nat
    PROVE  cl_calculate_total_timeout(timeout, count) \in Nat \ {0}
  BY DefaultsAssumption DEF cl_calculate_total_timeout

LEMMA StopType == \A P : 0 \in P => cl_timer_stop \in Timer(P)
  BY DEF cl_timer_stop, Timer

(* The callback that is skipped when nothing has changed.                  *)
LEMMA MasterStateCallback ==
    ASSUME NEW c \in ClsType, CallbackAgrees(c) \/ ~c.trigger.executed_before,
           NEW connected \in BOOLEAN, NEW protocol_ver \in Nat,
           NEW status \in Nat
    PROVE  LET r == cls_iefb_handle_master_state_callback(
                        c, connected, protocol_ver, status)
           IN  /\ r \in ClsType
               /\ r = [c EXCEPT !.app = r.app, !.trigger = r.trigger]
               /\ r.app.connected = c.app.connected
               /\ r.trigger.previous_connected_to_master = connected
               /\ CallbackAgrees(r)
<1> DEFINE r == cls_iefb_handle_master_state_callback(
                        c, connected, protocol_ver, status)
           filtered == cls_iefb_filter_master_state_callback_values(
                        c.app, connected, protocol_ver, status)
           kept == [executed_before |-> TRUE,
                    previous_connected_to_master |-> connected,
                    previous_protocol_ver |-> protocol_ver,
                    previous_master_application_status |-> status]
           due == cls_iefb_should_trigger_master_state_callback(
                        c.trigger, connected, protocol_ver, status)
<1>1. r = [c EXCEPT !.app = IF due THEN filtered ELSE @, !.trigger = kept]
  BY DEF cls_iefb_handle_master_state_callback
<1>2. kept \in TriggerType
  BY DEF TriggerType
<1>3. /\ c.app \in AppType
      /\ c.trigger \in TriggerType
  BY DEF ClsType
<1>4. /\ filtered \in AppType
      /\ filtered.connected = c.app.connected
      /\ filtered.master_connected = connected
      /\ filtered.running <=> connected /\ IsRunning(status)
      /\ filtered.stopped_by_user <=>
            /\ connected
            /\ protocol_ver > 1
            /\ ~IsRunning(status)
            /\ IsStoppedByUser(status)
  BY <1>3 DEF AppType, cls_iefb_filter_master_state_callback_values
<1>5. /\ r \in ClsType
      /\ r.app = (IF due THEN filtered ELSE c.app)
      /\ r.trigger = kept
  BY <1>1, <1>2, <1>3, <1>4 DEF ClsType
<1>6. r = [c EXCEPT !.app = r.app, !.trigger = r.trigger]
  BY <1>1, <1>5 DEF ClsType
<1>7. r.app.connected = c.app.connected
  BY <1>4, <1>5
<1>8. CallbackAgrees(r)
  <2>1. CASE due
    BY <2>1, <1>4, <1>5 DEF CallbackAgrees
  <2>2. CASE ~due
    BY <2>2, <1>3, <1>5
       DEF CallbackAgrees, cls_iefb_should_trigger_master_state_callback,
           TriggerType
  <2> QED BY <2>1, <2>2
<1> QED BY <1>5, <1>6, <1>7, <1>8

(* Two structs that the invariant cannot tell apart.                       *)
SameConnection(r, c) ==
    /\ r.state = c.state
    /\ r.master = c.master
    /\ r.receive_timer = c.receive_timer
    /\ r.timer_for_disabling_slave = c.timer_for_disabling_slave
    /\ r.trigger = c.trigger
    /\ r.app = c.app

LEMMA SameConnectionInv ==
    ASSUME NEW c, NEW r \in ClsType, SlaveInv(c), SameConnection(r, c)
    PROVE  SlaveInv(r)
  BY DEF SlaveInv, SameConnection, TimersAgree, CallbackAgrees, ConnectionTold,
         InControl

LEMMA Respond ==
    ASSUME NEW c \in ClsType, NEW req \in ReceivedRequests,
           NEW include_data \in BOOLEAN, NEW end_code \in cl_slave_endcodes
    PROVE  LET r == cls_iefb_send_cyclic_response_frame(
                        c, req, include_data, end_code)
           IN  r \in ClsType /\ SameConnection(r, c)
<1> DEFINE response ==
             [remote_ip |-> req.remote_ip, slave_id |-> req.slave_ip_addr,
              group_no |-> req.group_no,
              frame_sequence_no |-> req.frame_sequence_no,
              end_code |-> end_code, occupied |-> NumOccupied,
              rx |-> IF include_data THEN c.rx ELSE NoData]
<1>1. response \in Responses
  BY RxAssumption DEF ReceivedRequests, RequestType, Responses, ClsType
<1>2. c.sent \cup {response} \in SUBSET Responses
  BY <1>1 DEF ClsType
<1>3. cls_iefb_send_cyclic_response_frame(c, req, include_data, end_code)
        = [c EXCEPT !.sent = @ \cup {response}]
  BY DEF cls_iefb_send_cyclic_response_frame
<1> HIDE DEF response
<1> QED BY <1>2, <1>3 DEF ClsType, SameConnection

LEMMA RespondError ==
    ASSUME NEW c \in ClsType, NEW req \in ReceivedRequests,
           NEW end_code \in cl_slave_endcodes
    PROVE  LET r == cls_iefb_send_cyclic_response_error_frame(c, req, end_code)
           IN  r \in ClsType /\ SameConnection(r, c)
  BY Respond DEF cls_iefb_send_cyclic_response_error_frame

LEMMA ReportError ==
    ASSUME NEW c \in ClsType, NEW message \in ErrorMessages
    PROVE  LET r == cls_iefb_trigger_error_callback(c, message)
           IN  r \in ClsType /\ SameConnection(r, c)
  BY DEF cls_iefb_trigger_error_callback, ClsType, SameConnection

LEMMA ClearMasterInfo ==
    ASSUME NEW c \in ClsType, CallbackAgrees(c)
    PROVE  LET r == cls_iefb_clear_master_info(c)
           IN  /\ r \in ClsType
               /\ r.state = c.state
               /\ r.master = NoMaster
               /\ r.receive_timer = cl_timer_stop
               /\ r.timer_for_disabling_slave = cl_timer_stop
               /\ r.app.connected = c.app.connected
               /\ r.trigger.previous_connected_to_master = FALSE
               /\ r.sent = c.sent
               /\ CallbackAgrees(r)
<1> DEFINE cleared == [c EXCEPT !.master = NoMaster,
                                !.receive_timer = cl_timer_stop,
                                !.timer_for_disabling_slave = cl_timer_stop]
           r == cls_iefb_handle_master_state_callback(cleared, FALSE, 0, 0)
<1>1. NoMaster \in MasterType
  BY DEF NoMaster, MasterType, MaxOccupied
<1>2. /\ cl_timer_stop \in Timer(Nat)
      /\ cl_timer_stop \in Timer({0, WaitTimeDisableSlave})
  BY DEF cl_timer_stop, Timer
<1>3. /\ cleared \in ClsType
      /\ cleared.state = c.state
      /\ cleared.master = NoMaster
      /\ cleared.receive_timer = cl_timer_stop
      /\ cleared.timer_for_disabling_slave = cl_timer_stop
      /\ cleared.app = c.app
      /\ cleared.trigger = c.trigger
      /\ cleared.sent = c.sent
  BY <1>1, <1>2 DEF ClsType
<1>4. CallbackAgrees(cleared)
  BY <1>3 DEF CallbackAgrees
<1> HIDE DEF cleared
<1>5. /\ r \in ClsType
      /\ r = [cleared EXCEPT !.app = r.app, !.trigger = r.trigger]
      /\ r.app.connected = cleared.app.connected
      /\ r.trigger.previous_connected_to_master = FALSE
      /\ CallbackAgrees(r)
  BY <1>3, <1>4, MasterStateCallback
<1>6. /\ r.state = cleared.state
      /\ r.master = cleared.master
      /\ r.receive_timer = cleared.receive_timer
      /\ r.timer_for_disabling_slave = cleared.timer_for_disabling_slave
      /\ r.sent = cleared.sent
  BY <1>3, <1>5 DEF ClsType
<1>7. cls_iefb_clear_master_info(c) = r
  BY DEF cls_iefb_clear_master_info, cleared
<1> QED BY <1>3, <1>5, <1>6, <1>7

-----------------------------------------------------------------------------
(* The transition table.                                                   *)

LEMMA RowOf ==
    ASSUME NEW state, NEW event, HasTransition(state, event)
    PROVE  <<state, event, NextState(state, event)>> \in transitions
  BY DEF HasTransition, NextState

(* One turn of the state machine: the state is left and another entered,   *)
(* or neither.                                                             *)
LEMMA Moves ==
    ASSUME NEW c, NEW event, event # "CYCLIC_NEW_MASTER", NEW req,
           HasTransition(c.state, event),
           NEW next, next = NextState(c.state, event), next # c.state,
           NEW left, left = [OnExit(c, c.state) EXCEPT !.state = next]
    PROVE  cls_iefb_fsm_event(c, event, req) =
                OnEntry(TransitionAction(left, event, req), next)
<1>1. cls_iefb_fsm_event(c, event, req) = fsm_transition(c, event, req)
  BY DEF cls_iefb_fsm_event
<1> QED BY <1>1 DEF fsm_transition

LEMMA Stays ==
    ASSUME NEW c, NEW event, event # "CYCLIC_NEW_MASTER", NEW req,
           HasTransition(c.state, event), NextState(c.state, event) = c.state,
           [c EXCEPT !.state = c.state] = c
    PROVE  cls_iefb_fsm_event(c, event, req) = TransitionAction(c, event, req)
<1>1. cls_iefb_fsm_event(c, event, req) = fsm_transition(c, event, req)
  BY DEF cls_iefb_fsm_event
<1> QED BY <1>1 DEF fsm_transition

(* Events without an action of their own.                                  *)
LEMMA MovesQuietly ==
    ASSUME NEW c,
           NEW event \in {"DISABLE_SLAVE", "REENABLE_SLAVE", "TIMEOUT_MASTER",
                          "DISABLE_SLAVE_WAIT_ENDED"},
           NEW req, HasTransition(c.state, event),
           NEW next, next = NextState(c.state, event), next # c.state,
           NEW left, left = [OnExit(c, c.state) EXCEPT !.state = next]
    PROVE  cls_iefb_fsm_event(c, event, req) = OnEntry(left, next)
<1>1. TransitionAction(left, event, req) = left
  BY DEF TransitionAction
<1> QED BY <1>1, Moves

(* Entering a state without a master.                                      *)
LEMMA EnterWithoutMaster ==
    ASSUME NEW c \in ClsType, CallbackAgrees(c), ~c.app.connected,
           c.state \in {"MASTER_NONE", "WAIT_DISABLING_SLAVE"}
    PROVE  SlaveInv(OnEntry(c, c.state))
<1> DEFINE r == cls_iefb_clear_master_info(c)
<1>1. /\ r \in ClsType
      /\ r.state = c.state
      /\ r.master = NoMaster
      /\ r.receive_timer = cl_timer_stop
      /\ r.timer_for_disabling_slave = cl_timer_stop
      /\ r.app.connected = c.app.connected
      /\ r.trigger.previous_connected_to_master = FALSE
      /\ CallbackAgrees(r)
  BY ClearMasterInfo
<1> HIDE DEF r
<1>2. ~InControl(r) /\ r.master.master_id = NoIp
  BY <1>1 DEF InControl, NoMaster
<1>3. CASE c.state = "MASTER_NONE"
  <2>1. OnEntry(c, c.state) = r
    BY <1>3 DEF OnEntry, cls_iefb_on_entry_master_none, r
  <2> QED BY <1>1, <1>2, <1>3, <2>1
          DEF SlaveInv, TimersAgree, ConnectionTold, InControl, cl_timer_stop
<1>4. CASE c.state = "WAIT_DISABLING_SLAVE"
  <2> DEFINE w == [r EXCEPT !.timer_for_disabling_slave =
                                cl_timer_start(WaitTimeDisableSlave)]
  <2>1. OnEntry(c, c.state) = w
    BY <1>4 DEF OnEntry, cls_iefb_on_entry_wait_disabling_slave, r
  <2>2. cl_timer_start(WaitTimeDisableSlave)
            \in Timer({0, WaitTimeDisableSlave})
    BY DEF cl_timer_start, Timer
  <2>3. /\ w \in ClsType
        /\ w.state = r.state
        /\ w.master = r.master
        /\ w.receive_timer = r.receive_timer
        /\ w.timer_for_disabling_slave.state = "RUNNING"
        /\ w.app = r.app
        /\ w.trigger = r.trigger
    BY <1>1, <2>2 DEF ClsType, cl_timer_start
  <2>4. CallbackAgrees(w)
    BY <1>1, <2>3 DEF CallbackAgrees
  <2> HIDE DEF w
  <2> QED BY <1>1, <1>2, <1>4, <2>1, <2>3, <2>4
          DEF SlaveInv, TimersAgree, ConnectionTold, InControl, cl_timer_stop
<1> QED BY <1>3, <1>4

(* The exit of the old state, up to the transition action.                 *)
LEMMA Leave ==
    ASSUME NEW c \in ClsType, CallbackAgrees(c), ConnectionTold(c),
           NEW next \in cls_slave_states \ {"SLAVE_DOWN"}
    PROVE  LET r == [OnExit(c, c.state) EXCEPT !.state = next]
           IN  /\ r \in ClsType
               /\ r.state = next
               /\ CallbackAgrees(r)
               /\ ~r.app.connected
               /\ r.master = c.master
               /\ r.receive_timer = c.receive_timer
               /\ r.timer_for_disabling_slave = c.timer_for_disabling_slave
               /\ r.trigger = c.trigger
<1> DEFINE r == [OnExit(c, c.state) EXCEPT !.state = next]
<1>1. c.app \in AppType
  BY DEF ClsType
<1>2. CASE InControl(c)
  <2>1. r = [c EXCEPT !.app.connected = FALSE, !.state = next]
    BY <1>2 DEF OnExit, cls_iefb_on_exit_master_control, InControl
  <2>2. [c.app EXCEPT !.connected = FALSE] \in AppType
    BY <1>1 DEF AppType
  <2>3. /\ r \in ClsType
        /\ r.state = next
        /\ r.app = [c.app EXCEPT !.connected = FALSE]
        /\ r.master = c.master
        /\ r.receive_timer = c.receive_timer
        /\ r.timer_for_disabling_slave = c.timer_for_disabling_slave
        /\ r.trigger = c.trigger
    BY <2>1, <2>2 DEF ClsType
  <2>4. /\ ~r.app.connected
        /\ r.app.master_connected = c.app.master_connected
        /\ r.app.running = c.app.running
        /\ r.app.stopped_by_user = c.app.stopped_by_user
    BY <1>1, <2>3 DEF AppType
  <2>5. CallbackAgrees(r)
    BY <2>3, <2>4 DEF CallbackAgrees
  <2> QED BY <2>3, <2>4, <2>5
<1>3. CASE ~InControl(c)
  <2>1. r = [c EXCEPT !.state = next]
    BY <1>3 DEF OnExit, InControl
  <2>2. /\ r \in ClsType
        /\ r.state = next
        /\ r.app = c.app
        /\ r.master = c.master
        /\ r.receive_timer = c.receive_timer
        /\ r.timer_for_disabling_slave = c.timer_for_disabling_slave
        /\ r.trigger = c.trigger
    BY <2>1 DEF ClsType
  <2>3. CallbackAgrees(r) /\ ~r.app.connected
    BY <1>3, <2>2 DEF CallbackAgrees, ConnectionTold
  <2> QED BY <2>2, <2>3
<1> QED BY <1>2, <1>3

(* Entering SLAVE_DISABLED, from a state without a master.                 *)
LEMMA EnterDisabled ==
    ASSUME NEW c \in ClsType, CallbackAgrees(c), ~c.app.connected,
           ~c.trigger.previous_connected_to_master,
           c.master.master_id = NoIp, c.receive_timer.state # "RUNNING",
           c.state = "SLAVE_DISABLED"
    PROVE  SlaveInv(OnEntry(c, c.state))
<1> DEFINE r == [c EXCEPT !.timer_for_disabling_slave = cl_timer_stop]
<1>1. OnEntry(c, c.state) = r
  BY DEF OnEntry, cls_iefb_on_entry_slave_disabled
<1>2. cl_timer_stop \in Timer({0, WaitTimeDisableSlave})
  BY DEF cl_timer_stop, Timer
<1>3. /\ r \in ClsType
      /\ r.state = c.state
      /\ r.master = c.master
      /\ r.receive_timer = c.receive_timer
      /\ r.timer_for_disabling_slave.state = "STOPPED"
      /\ r.app = c.app
      /\ r.trigger = c.trigger
  BY <1>2 DEF ClsType, cl_timer_stop
<1>4. CallbackAgrees(r)
  BY <1>3 DEF CallbackAgrees
<1> HIDE DEF r
<1> QED BY <1>1, <1>3, <1>4
        DEF SlaveInv, TimersAgree, ConnectionTold, InControl

-----------------------------------------------------------------------------
(* One lemma per event.                                                    *)

(* CLS_SLAVE_EVENT_TIMEOUT_MASTER, raised when the receive timer has just  *)
(* been stopped.                                                           *)
LEMMA TimeoutMaster ==
    ASSUME NEW c \in ClsType, CallbackAgrees(c), ConnectionTold(c), InControl(c)
    PROVE  LET r == cls_iefb_fsm_event(c, "TIMEOUT_MASTER", NoRequest)
           IN  SlaveInv(r) /\ r.state = "MASTER_NONE"
<1> DEFINE left == [OnExit(c, c.state) EXCEPT !.state = "MASTER_NONE"]
<1>1. <<c.state, "TIMEOUT_MASTER", "MASTER_NONE">> \in transitions
  BY DEF transitions, InControl
<1>2. HasTransition(c.state, "TIMEOUT_MASTER")
  BY <1>1 DEF HasTransition, cls_slave_states
<1>3. NextState(c.state, "TIMEOUT_MASTER") = "MASTER_NONE"
  BY <1>2, RowOf DEF transitions
<1>4. cls_iefb_fsm_event(c, "TIMEOUT_MASTER", NoRequest)
        = OnEntry(left, "MASTER_NONE")
  BY <1>2, <1>3, ZenonT(120)
     DEF cls_iefb_fsm_event, fsm_transition, TransitionAction, InControl
<1>5. /\ left \in ClsType
      /\ left.state = "MASTER_NONE"
      /\ CallbackAgrees(left)
      /\ ~left.app.connected
  BY Leave DEF cls_slave_states
<1> HIDE DEF left
<1>6. SlaveInv(OnEntry(left, left.state))
  BY <1>5, EnterWithoutMaster
<1>7. OnEntry(left, "MASTER_NONE").state = "MASTER_NONE"
  BY <1>5, ClearMasterInfo DEF OnEntry, cls_iefb_on_entry_master_none
<1> QED BY <1>4, <1>5, <1>6, <1>7

(* CLS_SLAVE_EVENT_DISABLE_SLAVE_WAIT_ENDED, raised when the timer has     *)
(* just been stopped.                                                      *)
LEMMA WaitEnded ==
    ASSUME NEW c \in ClsType, CallbackAgrees(c), ConnectionTold(c),
           c.state = "WAIT_DISABLING_SLAVE", c.master.master_id = NoIp,
           c.receive_timer.state # "RUNNING"
    PROVE  LET r == cls_iefb_fsm_event(c, "DISABLE_SLAVE_WAIT_ENDED", NoRequest)
           IN  SlaveInv(r) /\ ~InControl(r)
<1> DEFINE event == "DISABLE_SLAVE_WAIT_ENDED"
           left == [OnExit(c, c.state) EXCEPT !.state = "SLAVE_DISABLED"]
<1>1. <<c.state, event, "SLAVE_DISABLED">> \in transitions
  BY DEF transitions
<1>2. HasTransition(c.state, event)
  BY <1>1 DEF HasTransition, cls_slave_states
<1>3. NextState(c.state, event) = "SLAVE_DISABLED"
  BY <1>2, RowOf DEF transitions
<1>4. cls_iefb_fsm_event(c, event, NoRequest) = OnEntry(left, "SLAVE_DISABLED")
  BY <1>2, <1>3, MovesQuietly
<1>5. /\ left \in ClsType
      /\ left.state = "SLAVE_DISABLED"
      /\ CallbackAgrees(left)
      /\ ~left.app.connected
      /\ left.master = c.master
      /\ left.receive_timer = c.receive_timer
      /\ left.trigger = c.trigger
  BY Leave DEF cls_slave_states
<1>6. ~left.trigger.previous_connected_to_master
  BY <1>5 DEF ConnectionTold, InControl
<1> HIDE DEF left
<1>7. SlaveInv(OnEntry(left, left.state))
  BY <1>5, <1>6, EnterDisabled
<1>8. OnEntry(left, "SLAVE_DISABLED").state = "SLAVE_DISABLED"
  BY <1>5 DEF OnEntry, cls_iefb_on_entry_slave_disabled, ClsType
<1> QED BY <1>4, <1>5, <1>7, <1>8 DEF InControl

(* A struct without a master, or with the same one.                        *)
SameController(r, c) ==
    InControl(c) /\ InControl(r) => r.master.master_id = c.master.master_id

(* The two events of the application: CLS_SLAVE_EVENT_DISABLE_SLAVE and    *)
(* CLS_SLAVE_EVENT_REENABLE_SLAVE.                                         *)
LEMMA ApplicationEvent ==
    ASSUME NEW c, SlaveInv(c), NEW event \in {"DISABLE_SLAVE", "REENABLE_SLAVE"}
    PROVE  LET r == cls_iefb_fsm_event(c, event, NoRequest)
           IN  SlaveInv(r) /\ SameController(r, c)
<1> DEFINE r == cls_iefb_fsm_event(c, event, NoRequest)
           next == NextState(c.state, event)
           left == [OnExit(c, c.state) EXCEPT !.state = next]
<1>1. CASE ~HasTransition(c.state, event)
  BY <1>1 DEF cls_iefb_fsm_event, fsm_transition, SameController
<1>2. CASE HasTransition(c.state, event)
  <2>1. <<c.state, event, next>> \in transitions
    BY <1>2, RowOf
  <2>2. /\ next # c.state
        /\ next \in {"MASTER_NONE", "WAIT_DISABLING_SLAVE", "SLAVE_DISABLED"}
        /\ next = "SLAVE_DISABLED" => c.state = "MASTER_NONE"
    BY <2>1 DEF transitions
  <2>3. r = OnEntry(left, next)
    BY <1>2, <2>2, MovesQuietly
  <2>4. /\ left \in ClsType
        /\ left.state = next
        /\ CallbackAgrees(left)
        /\ ~left.app.connected
        /\ left.master = c.master
        /\ left.receive_timer = c.receive_timer
        /\ left.trigger = c.trigger
    BY <2>2, Leave DEF cls_slave_states, SlaveInv
  <2> HIDE DEF left, next
  <2>5. SlaveInv(OnEntry(left, next))
    <3>1. CASE next = "SLAVE_DISABLED"
      <4>1. /\ left.master.master_id = NoIp
            /\ left.receive_timer.state # "RUNNING"
            /\ ~left.trigger.previous_connected_to_master
        BY <2>2, <2>4, <3>1
           DEF SlaveInv, TimersAgree, ConnectionTold, InControl
      <4> QED BY <2>4, <3>1, <4>1, EnterDisabled
    <3>2. CASE next # "SLAVE_DISABLED"
      BY <2>2, <2>4, <3>2, EnterWithoutMaster
    <3> QED BY <3>1, <3>2
  <2>6. r.state = next
    <3>1. CASE next = "SLAVE_DISABLED"
      BY <2>3, <2>4, <3>1 DEF OnEntry, cls_iefb_on_entry_slave_disabled, ClsType
    <3>2. CASE next = "MASTER_NONE"
      BY <2>3, <2>4, <3>2, ClearMasterInfo
         DEF OnEntry, cls_iefb_on_entry_master_none
    <3>3. CASE next = "WAIT_DISABLING_SLAVE"
      BY <2>3, <2>4, <3>3, ClearMasterInfo
         DEF OnEntry, cls_iefb_on_entry_wait_disabling_slave, ClsType
    <3> QED BY <2>2, <3>1, <3>2, <3>3
  <2> HIDE DEF r
  <2> QED BY <2>2, <2>3, <2>5, <2>6 DEF SameController, InControl, r
<1> QED BY <1>1, <1>2

(* The events whose action is an error response and that change nothing.   *)
LEMMA ErrorResponseEvent ==
    ASSUME NEW c, SlaveInv(c), NEW req \in ReceivedRequests,
           NEW event \in {"CYCLIC_WRONG_MASTER",
                          "CYCLIC_INCOMING_WHEN_DISABLED", "NONE"}
    PROVE  LET r == cls_iefb_fsm_event(c, event, req)
           IN  SlaveInv(r) /\ SameController(r, c)
<1> DEFINE r == cls_iefb_fsm_event(c, event, req)
<1>0. c \in ClsType
  BY DEF SlaveInv
<1>1. CASE ~HasTransition(c.state, event)
  BY <1>1 DEF cls_iefb_fsm_event, fsm_transition, SameController
<1>2. CASE HasTransition(c.state, event)
  <2>1. <<c.state, event, NextState(c.state, event)>> \in transitions
    BY <1>2, RowOf
  <2>2. NextState(c.state, event) = c.state /\ event # "NONE"
    BY <2>1 DEF transitions
  <2>3. r = TransitionAction([c EXCEPT !.state = c.state], event, req)
    BY <1>2, <2>2 DEF cls_iefb_fsm_event, fsm_transition
  <2>4. [c EXCEPT !.state = c.state] = c
    BY <1>0 DEF ClsType
  <2>5. CASE event = "CYCLIC_WRONG_MASTER"
    <3> DEFINE e == cls_iefb_trigger_error_callback(
                        c, "MASTER_STATION_DUPLICATION")
    <3>1. e \in ClsType /\ SameConnection(e, c)
      BY <1>0, ReportError DEF ErrorMessages
    <3>2. r = cls_iefb_send_cyclic_response_error_frame(
                    e, req, "MASTER_DUPLICATION")
      BY <2>3, <2>4, <2>5 DEF TransitionAction, cls_iefb_handle_wrong_master
    <3> HIDE DEF e
    <3>3. r \in ClsType /\ SameConnection(r, e)
      BY <3>1, <3>2, RespondError DEF cl_slave_endcodes
    <3>4. SameConnection(r, c)
      BY <3>1, <3>3 DEF SameConnection
    <3> QED BY <3>3, <3>4, SameConnectionInv
            DEF SameConnection, SameController, InControl
  <2>6. CASE event = "CYCLIC_INCOMING_WHEN_DISABLED"
    <3>1. r = cls_iefb_send_cyclic_response_error_frame(
                    c, req, c.endcode_slave_disabled)
      BY <2>3, <2>4, <2>6
         DEF TransitionAction, cls_iefb_handle_incoming_when_disabled
    <3>2. c.endcode_slave_disabled \in cl_slave_endcodes
      BY <1>0 DEF ClsType, cl_slave_endcodes
    <3>3. r \in ClsType /\ SameConnection(r, c)
      BY <1>0, <3>1, <3>2, RespondError
    <3> QED BY <3>3, SameConnectionInv
            DEF SameConnection, SameController, InControl
  <2> QED BY <2>2, <2>5, <2>6
<1> QED BY <1>1, <1>2

(* CLS_SLAVE_EVENT_CYCLIC_WRONG_STATIONCOUNT.                              *)
LEMMA WrongStationCount ==
    ASSUME NEW c, SlaveInv(c), NEW req \in ReceivedRequests
    PROVE  LET r == cls_iefb_fsm_event(c, "CYCLIC_WRONG_STATIONCOUNT", req)
           IN  SlaveInv(r) /\ SameController(r, c)
<1> DEFINE event == "CYCLIC_WRONG_STATIONCOUNT"
           r == cls_iefb_fsm_event(c, event, req)
<1>0. c \in ClsType
  BY DEF SlaveInv
<1>1. CASE ~HasTransition(c.state, event)
  BY <1>1 DEF cls_iefb_fsm_event, fsm_transition, SameController
<1>2. CASE HasTransition(c.state, event)
  <2>1. <<c.state, event, NextState(c.state, event)>> \in transitions
    BY <1>2, RowOf
  <2>2. /\ NextState(c.state, event) = "MASTER_NONE"
        /\ c.state \in {"MASTER_NONE", "MASTER_CONTROL"}
    BY <2>1 DEF transitions
  <2>3. CASE c.state = "MASTER_NONE"
    <3>1. [c EXCEPT !.state = "MASTER_NONE"] = c
      BY <1>0, <2>3 DEF ClsType
    <3>2. r = cls_iefb_send_cyclic_response_error_frame(
                    c, req, "WRONG_NUMBER_OCCUPIED_STATIONS")
      BY <1>2, <2>2, <2>3, <3>1, Stays
         DEF TransitionAction, cls_iefb_handle_wrong_stationcount
    <3>3. r \in ClsType /\ SameConnection(r, c)
      BY <1>0, <3>2, RespondError DEF cl_slave_endcodes
    <3> QED BY <3>3, SameConnectionInv
            DEF SameConnection, SameController, InControl
  <2>4. CASE c.state = "MASTER_CONTROL"
    <3> DEFINE left == [OnExit(c, c.state) EXCEPT !.state = "MASTER_NONE"]
               acted == cls_iefb_send_cyclic_response_error_frame(
                            left, req, "WRONG_NUMBER_OCCUPIED_STATIONS")
    <3>1. r = OnEntry(acted, "MASTER_NONE")
      <4>1. TransitionAction(left, event, req) = acted
        BY DEF TransitionAction, cls_iefb_handle_wrong_stationcount
      <4> QED BY <1>2, <2>2, <2>4, <4>1, Moves
    <3>2. /\ left \in ClsType
          /\ left.state = "MASTER_NONE"
          /\ CallbackAgrees(left)
          /\ ~left.app.connected
      BY <1>0, Leave DEF SlaveInv, cls_slave_states
    <3> HIDE DEF left
    <3>3. acted \in ClsType /\ SameConnection(acted, left)
      BY <3>2, RespondError DEF cl_slave_endcodes
    <3> HIDE DEF acted
    <3>4. /\ acted.state = "MASTER_NONE"
          /\ CallbackAgrees(acted)
          /\ ~acted.app.connected
      BY <3>2, <3>3 DEF SameConnection, CallbackAgrees
    <3>5. SlaveInv(OnEntry(acted, acted.state))
      BY <3>3, <3>4, EnterWithoutMaster
    <3>6. OnEntry(acted, "MASTER_NONE").state = "MASTER_NONE"
      BY <3>3, <3>4, ClearMasterInfo DEF OnEntry, cls_iefb_on_entry_master_none
    <3> QED BY <3>1, <3>4, <3>5, <3>6 DEF SameController, InControl
  <2> QED BY <2>2, <2>3, <2>4
<1> QED BY <1>1, <1>2

(* cls_iefb_handle_cyclic_event(): a request of the controlling master.    *)
LEMMA CyclicEvent ==
    ASSUME NEW c, SlaveInv(c), InControl(c), NEW req \in ReceivedRequests,
           Len(req.data) = Len(req.slave_ids)
    PROVE  LET r == cls_iefb_handle_cyclic_event(c, req)
           IN  SlaveInv(r) /\ InControl(r) /\ r.master = c.master
<1> DEFINE station == c.master.slave_station_no
           bit == cl_iefb_extract_my_transmission_state(req, station)
           copied == cls_iefb_copy_cyclic_data_from_request(
                        c, req, station, bit)
           told == cls_iefb_handle_master_state_callback(
                        copied, TRUE, req.protocol_ver,
                        req.master_local_unit_info)
           answered == cls_iefb_send_cyclic_response_frame(
                        told, req, bit, "SUCCESS")
           r == [answered EXCEPT !.receive_timer = cl_timer_restart(@)]
<1>0. /\ c \in ClsType
      /\ station \in Nat
      /\ bit \in BOOLEAN
  BY DEF SlaveInv, ClsType, MasterType, cl_iefb_extract_my_transmission_state
<1> HIDE DEF bit
<1>1. CASE ~IsDataInRequest(req, station)
  BY <1>1 DEF cls_iefb_handle_cyclic_event
<1>2. CASE IsDataInRequest(req, station)
  <2>1. [i \in 1..NumOccupied |-> req.data[station + i - 1]]
            \in [1..NumOccupied -> Payloads]
    <3>1. SUFFICES ASSUME NEW i \in 1..NumOccupied
                   PROVE  req.data[station + i - 1] \in Payloads
      OBVIOUS
    <3>2. /\ station >= 1
          /\ station + NumOccupied - 1 <= Len(req.data)
      BY <1>2, SMTT(30)
         DEF IsDataInRequest, total_occupied, MinOccupied, MaxOccupied
    <3>3. Len(req.data) \in Nat /\ NumOccupied \in Nat
      BY NumOccupiedAssumption DEF cls_validate_config,
            ReceivedRequests, RequestType, MinOccupied, MaxOccupied
    <3> HIDE DEF station
    <3>4. station + i - 1 \in 1..Len(req.data)
      BY <1>0, <3>2, <3>3
    <3> QED BY <3>4 DEF ReceivedRequests, RequestType
  <2>2. ClearedArea \in [1..NumOccupied -> Payloads \cup {NoData}]
    BY DEF ClearedArea
  <2>3. /\ copied \in ClsType
        /\ SameConnection(copied, c)
    BY <1>0, <2>1, <2>2
       DEF cls_iefb_copy_cyclic_data_from_request, ClsType, SameConnection
  <2> HIDE DEF copied
  <2>4. SlaveInv(copied)
    BY <2>3, SameConnectionInv
  <2>5. /\ told \in ClsType
        /\ told = [copied EXCEPT !.app = told.app, !.trigger = told.trigger]
        /\ told.app.connected = copied.app.connected
        /\ told.trigger.previous_connected_to_master = TRUE
        /\ CallbackAgrees(told)
    BY <2>4, MasterStateCallback DEF SlaveInv, ReceivedRequests, RequestType
  <2>6. /\ told.state = c.state
        /\ told.master = c.master
        /\ told.receive_timer = c.receive_timer
        /\ told.timer_for_disabling_slave = c.timer_for_disabling_slave
        /\ told.app.connected = c.app.connected
    BY <2>3, <2>5 DEF ClsType, SameConnection
  <2> HIDE DEF told
  <2>7. SlaveInv(told)
    BY <2>5, <2>6 DEF SlaveInv, TimersAgree, ConnectionTold, InControl
  <2>8. answered \in ClsType /\ SameConnection(answered, told)
    BY <1>0, <2>5, Respond DEF cl_slave_endcodes
  <2> HIDE DEF answered
  <2>9. SlaveInv(answered)
    BY <2>7, <2>8, SameConnectionInv
  <2>10. /\ cl_timer_restart(answered.receive_timer) \in Timer(Nat)
         /\ cl_timer_restart(answered.receive_timer).state
                = answered.receive_timer.state
         /\ cl_timer_restart(answered.receive_timer).period
                = answered.receive_timer.period
    BY <2>8 DEF cl_timer_restart, Timer, ClsType
  <2>11. /\ r \in ClsType
         /\ r.state = c.state
         /\ r.master = c.master
         /\ r.receive_timer = cl_timer_restart(answered.receive_timer)
         /\ r.timer_for_disabling_slave = answered.timer_for_disabling_slave
         /\ r.app = answered.app
         /\ r.trigger = answered.trigger
    BY <2>6, <2>8, <2>10 DEF ClsType, SameConnection
  <2>12. answered.state = c.state /\ answered.master = c.master
    BY <2>6, <2>8 DEF SameConnection
  <2>13. cls_iefb_handle_cyclic_event(c, req) = r
    BY <1>2 DEF cls_iefb_handle_cyclic_event, answered, told, copied, bit
  <2> HIDE DEF r
  <2>14. CallbackAgrees(r)
    BY <2>9, <2>11 DEF SlaveInv, CallbackAgrees
  <2>15. TimersAgree(r) /\ ConnectionTold(r) /\ InControl(r)
    BY <2>9, <2>10, <2>11, <2>12
       DEF SlaveInv, TimersAgree, ConnectionTold, InControl
  <2> QED BY <2>11, <2>13, <2>14, <2>15 DEF SlaveInv
<1> QED BY <1>1, <1>2

LEMMA CorrectMaster ==
    ASSUME NEW c, SlaveInv(c), NEW req \in ReceivedRequests,
           Len(req.data) = Len(req.slave_ids)
    PROVE  LET r == fsm_transition(c, "CYCLIC_CORRECT_MASTER", req)
           IN  SlaveInv(r) /\ SameController(r, c)
<1> DEFINE event == "CYCLIC_CORRECT_MASTER"
<1>0. c \in ClsType
  BY DEF SlaveInv
<1>1. CASE ~HasTransition(c.state, event)
  BY <1>1 DEF fsm_transition, SameController
<1>2. CASE HasTransition(c.state, event)
  <2>1. <<c.state, event, NextState(c.state, event)>> \in transitions
    BY <1>2, RowOf
  <2>2. InControl(c) /\ NextState(c.state, event) = c.state
    BY <2>1 DEF transitions, InControl
  <2>3. [c EXCEPT !.state = c.state] = c
    BY <1>0 DEF ClsType
  <2>4. fsm_transition(c, event, req) = cls_iefb_handle_cyclic_event(c, req)
    BY <1>2, <2>2, <2>3 DEF fsm_transition, TransitionAction
  <2> QED BY <2>2, <2>4, CyclicEvent DEF SameController
<1> QED BY <1>1, <1>2

(* cls_iefb_handle_new_or_updated_master() leaves the slave controlled by  *)
(* the sender of the request, with its timer running.                      *)
LEMMA NewOrUpdatedMaster ==
    ASSUME NEW c \in ClsType, CallbackAgrees(c), InControl(c),
           c.timer_for_disabling_slave.state # "RUNNING",
           NEW req \in ReceivedRequests
    PROVE  LET r == cls_iefb_handle_new_or_updated_master(c, req)
           IN  SlaveInv(r) /\ InControl(r) /\ r.master.master_id = req.master_id
<1> DEFINE period == cl_calculate_total_timeout(
                        req.timeout_value, req.parallel_off_timeout_count)
           master == [c.master EXCEPT
                        !.master_id = req.master_id,
                        !.parameter_no = req.parameter_no,
                        !.group_no = req.group_no,
                        !.timeout_value = req.timeout_value,
                        !.parallel_off_timeout_count =
                            req.parallel_off_timeout_count]
           app == [c.app EXCEPT !.connected = TRUE]
           stored == [c EXCEPT !.master = master,
                               !.receive_timer = cl_timer_start(period),
                               !.app = app]
           r == cls_iefb_handle_master_state_callback(
                    stored, TRUE, req.protocol_ver, req.master_local_unit_info)
<1>1. /\ master \in MasterType
      /\ master.master_id = req.master_id
      /\ master.timeout_value = req.timeout_value
      /\ master.parallel_off_timeout_count = req.parallel_off_timeout_count
  BY DEF ClsType, MasterType, ReceivedRequests, RequestType
<1>2. /\ app \in AppType
      /\ app.connected = TRUE
      /\ app.master_connected = c.app.master_connected
      /\ app.running = c.app.running
      /\ app.stopped_by_user = c.app.stopped_by_user
  BY DEF ClsType, AppType
<1>3. period \in Nat
  BY TotalTimeoutType DEF ReceivedRequests, RequestType
<1>4. cl_timer_start(period) \in Timer(Nat)
  BY <1>3 DEF cl_timer_start, Timer
<1>5. cls_iefb_handle_new_or_updated_master(c, req) = r
  BY ZenonT(120)
     DEF cls_iefb_handle_new_or_updated_master, ClsType, MasterType, AppType
<1>6. period = TotalTimeout(master)
  BY <1>1 DEF TotalTimeout
<1> HIDE DEF master, app, period
<1>7. /\ stored \in ClsType
      /\ stored.state = c.state
      /\ stored.master = master
      /\ stored.receive_timer = cl_timer_start(period)
      /\ stored.timer_for_disabling_slave = c.timer_for_disabling_slave
      /\ stored.app = app
      /\ stored.trigger = c.trigger
  BY <1>1, <1>2, <1>4 DEF ClsType
<1> HIDE DEF stored
<1>8. CallbackAgrees(stored)
  BY <1>2, <1>7 DEF CallbackAgrees
<1>9. /\ r \in ClsType
      /\ r = [stored EXCEPT !.app = r.app, !.trigger = r.trigger]
      /\ r.app.connected = stored.app.connected
      /\ r.trigger.previous_connected_to_master = TRUE
      /\ CallbackAgrees(r)
  BY <1>7, <1>8, MasterStateCallback DEF ReceivedRequests, RequestType
<1>10. /\ r.state = c.state
       /\ r.master = master
       /\ r.receive_timer = cl_timer_start(period)
       /\ r.timer_for_disabling_slave = c.timer_for_disabling_slave
       /\ r.app.connected = TRUE
  BY <1>2, <1>7, <1>9 DEF ClsType
<1>11. req.master_id # NoIp
  BY AddressAssumption DEF ReceivedRequests, RequestType
<1> HIDE DEF r
<1>12. /\ r.receive_timer.state = "RUNNING"
       /\ r.receive_timer.period = period
       /\ TotalTimeout(r.master) = period
  BY <1>6, <1>10 DEF cl_timer_start
<1>13. InControl(r) /\ c.state # "WAIT_DISABLING_SLAVE"
  BY <1>10 DEF InControl
<1>14. r.master.master_id = req.master_id
  BY <1>1, <1>10
<1>15. TimersAgree(r)
  BY <1>10, <1>11, <1>12, <1>13, <1>14 DEF TimersAgree
<1>16. ConnectionTold(r)
  BY <1>9, <1>10, <1>13 DEF ConnectionTold
<1> QED BY <1>5, <1>9, <1>13, <1>14, <1>15, <1>16 DEF SlaveInv

(* CLS_SLAVE_EVENT_CYCLIC_NEW_MASTER, followed by the event it asks for.   *)
LEMMA NewMaster ==
    ASSUME NEW c, SlaveInv(c), NEW req \in ReceivedRequests,
           Len(req.data) = Len(req.slave_ids),
           InControl(c) => req.master_id = c.master.master_id
    PROVE  LET r == cls_iefb_fsm_event(c, "CYCLIC_NEW_MASTER", req)
           IN  SlaveInv(r) /\ SameController(r, c)
<1> DEFINE event == "CYCLIC_NEW_MASTER"
           moved == [c EXCEPT !.state = "MASTER_CONTROL"]
           once == cls_iefb_handle_new_or_updated_master(moved, req)
<1>0. c \in ClsType
  BY DEF SlaveInv
<1>1. CASE ~HasTransition(c.state, event)
  BY <1>1 DEF cls_iefb_fsm_event, fsm_transition, SameController
<1>2. CASE HasTransition(c.state, event)
  <2>1. <<c.state, event, NextState(c.state, event)>> \in transitions
    BY <1>2, RowOf
  <2>2. /\ NextState(c.state, event) = "MASTER_CONTROL"
        /\ c.state \in {"MASTER_NONE", "MASTER_CONTROL"}
    BY <2>1 DEF transitions
  <2>3. fsm_transition(c, event, req) = once
    BY <1>2, <2>2 DEF fsm_transition, TransitionAction, OnExit, OnEntry
  <2>4. /\ moved \in ClsType
        /\ InControl(moved)
        /\ moved.app = c.app
        /\ moved.trigger = c.trigger
        /\ moved.timer_for_disabling_slave = c.timer_for_disabling_slave
    BY <1>0 DEF ClsType, cls_slave_states, InControl
  <2>5. CallbackAgrees(moved)
    BY <2>4 DEF SlaveInv, CallbackAgrees
  <2>6. moved.timer_for_disabling_slave.state # "RUNNING"
    BY <2>2, <2>4 DEF SlaveInv, TimersAgree
  <2> HIDE DEF moved
  <2>7. /\ SlaveInv(once)
        /\ InControl(once)
        /\ once.master.master_id = req.master_id
    BY <2>4, <2>5, <2>6, NewOrUpdatedMaster
  <2> HIDE DEF once
  <2> DEFINE r == fsm_transition(once, "CYCLIC_CORRECT_MASTER", req)
  <2>8. cls_iefb_fsm_event(c, event, req) = r
    BY <1>2, <2>3 DEF cls_iefb_fsm_event
  <2>9. SlaveInv(r) /\ SameController(r, once)
    BY <2>7, CorrectMaster
  <2> HIDE DEF r
  <2> QED BY <2>7, <2>8, <2>9 DEF SameController
<1> QED BY <1>1, <1>2

-----------------------------------------------------------------------------
(* Incoming requests.                                                      *)

(* The station number of a slave that is found lies inside the frame.      *)
LEMMA StationFound ==
    ASSUME NEW req, NEW id, IsSlaveIdFound(id, req)
    PROVE  my_slave_station_no(id, req) \in StationsOf(id, req)
  BY DEF IsSlaveIdFound, my_slave_station_no

LEMMA StoreStation ==
    ASSUME NEW c, SlaveInv(c), NEW station \in 1..MaxOccupied
    PROVE  LET r == [c EXCEPT !.master.slave_station_no = station]
           IN  /\ SlaveInv(r)
               /\ r.state = c.state
               /\ r.master.master_id = c.master.master_id
<1> DEFINE master == [c.master EXCEPT !.slave_station_no = station]
           r == [c EXCEPT !.master = master]
<1>0. c \in ClsType
  BY DEF SlaveInv
<1>1. /\ master \in MasterType
      /\ master.master_id = c.master.master_id
      /\ master.timeout_value = c.master.timeout_value
      /\ master.parallel_off_timeout_count
            = c.master.parallel_off_timeout_count
  BY <1>0 DEF ClsType, MasterType, MaxOccupied
<1>2. TotalTimeout(master) = TotalTimeout(c.master)
  BY <1>1 DEF TotalTimeout
<1> HIDE DEF master
<1>3. /\ r \in ClsType
      /\ r.state = c.state
      /\ r.master = master
      /\ r.receive_timer = c.receive_timer
      /\ r.timer_for_disabling_slave = c.timer_for_disabling_slave
      /\ r.app = c.app
      /\ r.trigger = c.trigger
  BY <1>0, <1>1 DEF ClsType
<1>4. [c EXCEPT !.master.slave_station_no = station] = r
  BY DEF master
<1> HIDE DEF r
<1>5. TimersAgree(r)
  BY <1>1, <1>2, <1>3 DEF SlaveInv, TimersAgree, InControl
<1>6. CallbackAgrees(r)
  BY <1>3 DEF SlaveInv, CallbackAgrees
<1>7. ConnectionTold(r)
  BY <1>3 DEF SlaveInv, ConnectionTold, InControl
<1> QED BY <1>1, <1>3, <1>4, <1>5, <1>6, <1>7 DEF SlaveInv

(* A position within a frame is a position within the largest frame.       *)
LEMMA IntervalWithin ==
    ASSUME NEW n, NEW total, n \in 1..total, total \in 1..MaxOccupied
    PROVE  n \in 1..MaxOccupied
  BY DEF MaxOccupied

LEMMA SearchSlaveParameters ==
    ASSUME NEW c, SlaveInv(c), NEW req \in ReceivedRequests,
           Len(req.data) = Len(req.slave_ids),
           cl_iefb_parse_cyclic_request(req),
           InControl(c) => req.master_id = c.master.master_id
    PROVE  LET r == cls_iefb_search_slave_parameters(c, req)
           IN  SlaveInv(r) /\ SameController(r, c)
<1> DEFINE id == req.slave_ip_addr
           station == my_slave_station_no(id, req)
           event == SearchEvent(c,
                        cl_iefb_extract_my_transmission_state(req, station))
           r == cls_iefb_search_slave_parameters(c, req)
<1>0. c \in ClsType
  BY DEF SlaveInv
<1>1. CASE IsSlaveIdRepeated(id, req) \/ ~IsSlaveIdFound(id, req)
  BY <1>1 DEF cls_iefb_search_slave_parameters, SameController
<1>2. CASE ~(IsSlaveIdRepeated(id, req) \/ ~IsSlaveIdFound(id, req))
  <2>1. station \in 1..MaxOccupied
    <3> DEFINE total == Len(req.slave_ids)
    <3>1. station \in 1..total
      BY <1>2, StationFound DEF StationsOf, total_occupied
    <3>2. total \in 1..MaxOccupied
      BY DEF cl_iefb_parse_cyclic_request, total_occupied, MinOccupied,
             cl_iefb_validate_req_cyclic_data_header
    <3> HIDE DEF station, total
    <3> HIDE DEF id, event, r
    <3> QED BY <3>1, <3>2, IntervalWithin
  <2>2. event \in {"CYCLIC_INCOMING_WHEN_DISABLED", "CYCLIC_NEW_MASTER", "NONE"}
    BY DEF SearchEvent
  <2> HIDE DEF station, event
  <2>3. CASE implied_occupation_count(id, req) # NumOccupied
    <3> DEFINE e == cls_iefb_trigger_error_callback(c, "WRONG_NUMBER_OCCUPIED")
    <3>1. e \in ClsType /\ SameConnection(e, c)
      BY <1>0, ReportError DEF ErrorMessages
    <3>2. r = cls_iefb_fsm_event(e, "CYCLIC_WRONG_STATIONCOUNT", req)
      BY <1>2, <2>3 DEF cls_iefb_search_slave_parameters, event, station
    <3> HIDE DEF e
    <3>3. SlaveInv(e)
      BY <3>1, SameConnectionInv
    <3>4. SlaveInv(r) /\ SameController(r, e)
      BY <3>2, <3>3, WrongStationCount
    <3> QED BY <3>1, <3>4 DEF SameController, SameConnection, InControl
  <2>4. CASE /\ implied_occupation_count(id, req) = NumOccupied
             /\ event = "CYCLIC_NEW_MASTER"
    <3> DEFINE p == [c EXCEPT !.master.slave_station_no = station]
    <3>1. r = cls_iefb_fsm_event(p, "CYCLIC_NEW_MASTER", req)
      BY <1>2, <2>4 DEF cls_iefb_search_slave_parameters, event, station
    <3>2. /\ SlaveInv(p)
          /\ p.state = c.state
          /\ p.master.master_id = c.master.master_id
      BY <2>1, StoreStation
    <3> HIDE DEF p
    <3>3. SlaveInv(r) /\ SameController(r, p)
      BY <3>1, <3>2, NewMaster DEF InControl
    <3> QED BY <3>2, <3>3 DEF SameController, InControl
  <2>5. CASE /\ implied_occupation_count(id, req) = NumOccupied
             /\ event # "CYCLIC_NEW_MASTER"
             /\ c.state = "MASTER_NONE"
    <3>1. r = cls_iefb_trigger_error_callback(c, "SLAVE_STATION_DUPLICATION")
      BY <1>2, <2>5 DEF cls_iefb_search_slave_parameters, event, station
    <3>2. r \in ClsType /\ SameConnection(r, c)
      BY <1>0, <3>1, ReportError DEF ErrorMessages
    <3> QED BY <3>2, SameConnectionInv
            DEF SameConnection, SameController, InControl
  <2>6. CASE /\ implied_occupation_count(id, req) = NumOccupied
             /\ event # "CYCLIC_NEW_MASTER"
             /\ c.state # "MASTER_NONE"
    <3>1. r = cls_iefb_fsm_event(c, event, req)
      BY <1>2, <2>6 DEF cls_iefb_search_slave_parameters, event, station
    <3> QED BY <2>2, <2>6, <3>1, ErrorResponseEvent
  <2> QED BY <2>3, <2>4, <2>5, <2>6
<1> QED BY <1>1, <1>2

LEMMA InputFrame ==
    ASSUME NEW c, SlaveInv(c), NEW req \in RequestType(SlaveIps \cup {NoIp}),
           Len(req.data) = Len(req.slave_ids)
    PROVE  LET r == cls_iefb_handle_cyclic_input_frame(c, req)
           IN  SlaveInv(r) /\ SameController(r, c)
<1> DEFINE r == cls_iefb_handle_cyclic_input_frame(c, req)
           dropped == \/ req.slave_ip_addr = NoIp
                      \/ ~cl_iefb_parse_cyclic_request(req)
                      \/ c.state \in {"SLAVE_DOWN", "SLAVE_DISABLED"}
<1>1. CASE dropped \/ r = c
  BY <1>1 DEF cls_iefb_handle_cyclic_input_frame, SameController
<1>2. CASE ~dropped
  <2>1. req \in ReceivedRequests
    BY <1>2 DEF ReceivedRequests, RequestType
  <2>2. cl_iefb_parse_cyclic_request(req)
    BY <1>2
  <2>3. CASE ~InControl(c)
    BY <1>2, <2>1, <2>2, <2>3, SearchSlaveParameters
       DEF cls_iefb_handle_cyclic_input_frame, InControl
  <2>4. CASE InControl(c) /\ ~cls_iefb_is_master_id_correct(c, req.master_id)
    BY <1>2, <2>1, <2>4, ErrorResponseEvent
       DEF cls_iefb_handle_cyclic_input_frame, InControl
  <2>5. CASE InControl(c) /\ cls_iefb_is_master_id_correct(c, req.master_id)
    <3>1. r = HandleOwnMaster(c, req)
      BY <1>2, <2>5 DEF cls_iefb_handle_cyclic_input_frame, InControl
    <3>2. req.master_id = c.master.master_id
      BY <2>5 DEF cls_iefb_is_master_id_correct
    <3>3. \/ r = cls_iefb_search_slave_parameters(c, req)
          \/ r = cls_iefb_fsm_event(c, "CYCLIC_CORRECT_MASTER", req)
          \/ r = c
      BY <3>1 DEF HandleOwnMaster
    <3>4. cls_iefb_fsm_event(c, "CYCLIC_CORRECT_MASTER", req)
            = fsm_transition(c, "CYCLIC_CORRECT_MASTER", req)
      BY DEF cls_iefb_fsm_event
    <3> QED BY <1>1, <2>1, <2>2, <3>2, <3>3, <3>4, SearchSlaveParameters,
               CorrectMaster
  <2> QED BY <2>3, <2>4, <2>5
<1> QED BY <1>1, <1>2

-----------------------------------------------------------------------------
(* Entry points.                                                           *)

LEMMA NewCallInv ==
    ASSUME NEW c, SlaveInv(c)
    PROVE  SlaveInv(NewCall(c)) /\ SameConnection(NewCall(c), c)
<1>1. NewCall(c) \in ClsType /\ SameConnection(NewCall(c), c)
  BY DEF SlaveInv, NewCall, ClsType, SameConnection
<1> QED BY <1>1, SameConnectionInv

(* Time that passes leaves a timer running or stopped, with its period.    *)
LEMMA TimerAdvanceKeeps ==
    ASSUME NEW Periods \in SUBSET Nat, NEW t \in Timer(Periods), NEW d \in Nat
    PROVE  /\ TimerAdvance(t, d) \in Timer(Periods)
           /\ TimerAdvance(t, d).state = t.state
           /\ TimerAdvance(t, d).period = t.period
  BY DEF Timer, TimerAdvance

LEMMA AdvanceInv ==
    ASSUME NEW c, SlaveInv(c), NEW d \in Nat
    PROVE  /\ SlaveInv(Advance(c, d))
           /\ Advance(c, d).state = c.state
           /\ Advance(c, d).master = c.master
<1> DEFINE receive == TimerAdvance(c.receive_timer, d)
           disabling == TimerAdvance(c.timer_for_disabling_slave, d)
           r == [c EXCEPT !.receive_timer = receive,
                          !.timer_for_disabling_slave = disabling]
<1>0. c \in ClsType
  BY DEF SlaveInv
<1>1. /\ receive \in Timer(Nat)
      /\ receive.state = c.receive_timer.state
      /\ receive.period = c.receive_timer.period
  BY <1>0, TimerAdvanceKeeps DEF ClsType
<1>2. {0, WaitTimeDisableSlave} \in SUBSET Nat
  BY WaitTimeAssumption
<1>3. /\ disabling \in Timer({0, WaitTimeDisableSlave})
      /\ disabling.state = c.timer_for_disabling_slave.state
  BY <1>0, <1>2, TimerAdvanceKeeps DEF ClsType
<1>4. Advance(c, d) = r
  BY DEF Advance
<1> HIDE DEF receive, disabling
<1>5. /\ r \in ClsType
      /\ r.state = c.state
      /\ r.master = c.master
      /\ r.receive_timer = receive
      /\ r.timer_for_disabling_slave = disabling
      /\ r.app = c.app
      /\ r.trigger = c.trigger
  BY <1>0, <1>1, <1>3 DEF ClsType
<1> HIDE DEF r
<1>6. TimersAgree(r)
  BY <1>1, <1>3, <1>5 DEF SlaveInv, TimersAgree, InControl
<1>7. CallbackAgrees(r) /\ ConnectionTold(r)
  BY <1>5 DEF SlaveInv, CallbackAgrees, ConnectionTold, InControl
<1> QED BY <1>4, <1>5, <1>6, <1>7 DEF SlaveInv

LEMMA MonitorReceive ==
    ASSUME NEW c, SlaveInv(c)
    PROVE  /\ SlaveInv(MonitorReceiveTimer(c))
           /\ InControl(MonitorReceiveTimer(c)) => MonitorReceiveTimer(c) = c
<1>1. CASE ~cl_timer_is_expired(c.receive_timer)
  BY <1>1 DEF MonitorReceiveTimer
<1>2. CASE cl_timer_is_expired(c.receive_timer)
  <2> DEFINE stopped == [c EXCEPT !.receive_timer = cl_timer_stop]
  <2>1. InControl(c)
    BY <1>2 DEF cl_timer_is_expired, SlaveInv, TimersAgree
  <2>2. cl_timer_stop \in Timer(Nat)
    BY DEF cl_timer_stop, Timer
  <2>3. /\ stopped \in ClsType
        /\ stopped.state = c.state
        /\ stopped.app = c.app
        /\ stopped.trigger = c.trigger
    BY <2>2 DEF SlaveInv, ClsType
  <2>4. MonitorReceiveTimer(c)
            = cls_iefb_fsm_event(stopped, "TIMEOUT_MASTER", NoRequest)
    BY <1>2 DEF MonitorReceiveTimer
  <2> HIDE DEF stopped
  <2>5. CallbackAgrees(stopped) /\ ConnectionTold(stopped) /\ InControl(stopped)
    BY <2>1, <2>3 DEF SlaveInv, CallbackAgrees, ConnectionTold, InControl
  <2> QED BY <2>3, <2>4, <2>5, TimeoutMaster DEF InControl
<1> QED BY <1>1, <1>2

LEMMA MonitorDisabling ==
    ASSUME NEW c, SlaveInv(c)
    PROVE  /\ SlaveInv(MonitorDisablingTimer(c))
           /\ InControl(MonitorDisablingTimer(c)) => MonitorDisablingTimer(c) = c
<1>1. CASE ~cl_timer_is_expired(c.timer_for_disabling_slave)
  BY <1>1 DEF MonitorDisablingTimer
<1>2. CASE cl_timer_is_expired(c.timer_for_disabling_slave)
  <2> DEFINE stopped == [c EXCEPT !.timer_for_disabling_slave = cl_timer_stop]
  <2>1. c.state = "WAIT_DISABLING_SLAVE"
    BY <1>2 DEF cl_timer_is_expired, SlaveInv, TimersAgree
  <2>2. cl_timer_stop \in Timer({0, WaitTimeDisableSlave})
    BY DEF cl_timer_stop, Timer
  <2>3. /\ stopped \in ClsType
        /\ stopped.state = c.state
        /\ stopped.master = c.master
        /\ stopped.receive_timer = c.receive_timer
        /\ stopped.app = c.app
        /\ stopped.trigger = c.trigger
    BY <2>2 DEF SlaveInv, ClsType
  <2>4. MonitorDisablingTimer(c)
            = cls_iefb_fsm_event(stopped, "DISABLE_SLAVE_WAIT_ENDED", NoRequest)
    BY <1>2 DEF MonitorDisablingTimer
  <2> HIDE DEF stopped
  <2>5. CallbackAgrees(stopped) /\ ConnectionTold(stopped)
    BY <2>3 DEF SlaveInv, CallbackAgrees, ConnectionTold, InControl
  <2>6. /\ stopped.master.master_id = NoIp
        /\ stopped.receive_timer.state # "RUNNING"
    BY <2>1, <2>3 DEF SlaveInv, TimersAgree, InControl
  <2> QED BY <2>1, <2>3, <2>4, <2>5, <2>6, WaitEnded
          DEF InControl
<1> QED BY <1>1, <1>2

LEMMA IncomingType ==
    ASSUME ip \in SlaveIps \cup {NoIp}, NEW req \in Incoming, req # NoRequest
    PROVE  /\ req \in RequestType(SlaveIps \cup {NoIp})
           /\ Len(req.data) = Len(req.slave_ids)
<1>1. PICK q \in Requests : req = [q EXCEPT !.slave_ip_addr = ip]
  BY DEF Incoming
<1>2. q \in RequestType({NoIp}) /\ Len(q.data) = Len(q.slave_ids)
  BY RequestAssumption
<1> QED BY <1>1, <1>2 DEF RequestType

LEMMA PeriodicInv ==
    ASSUME NEW c, SlaveInv(c), NEW d \in Nat, ip \in SlaveIps \cup {NoIp},
           NEW req \in Incoming
    PROVE  LET r == cls_iefb_periodic(c, d, req)
           IN  SlaveInv(r) /\ SameController(r, c)
<1> DEFINE called == NewCall(c)
           woken == Advance(called, d)
           received == IF req = NoRequest THEN woken
                       ELSE cls_iefb_handle_cyclic_input_frame(woken, req)
           monitored == MonitorReceiveTimer(received)
           r == MonitorDisablingTimer(monitored)
<1>1. SlaveInv(called) /\ SameConnection(called, c)
  BY NewCallInv
<1> HIDE DEF called
<1>2. SlaveInv(woken) /\ SameController(woken, c)
  BY <1>1, AdvanceInv DEF SameConnection, SameController, InControl
<1>3. /\ InControl(woken) <=> InControl(c)
      /\ woken.master = c.master
  BY <1>1, AdvanceInv DEF SameConnection, InControl
<1> HIDE DEF woken
<1>4. SlaveInv(received) /\ SameController(received, woken)
  <2>1. CASE req = NoRequest
    BY <1>2, <2>1 DEF SameController
  <2>2. CASE req # NoRequest
    BY <1>2, <2>2, IncomingType, InputFrame
  <2> QED BY <2>1, <2>2
<1> HIDE DEF received
<1>5. SlaveInv(monitored) /\ (InControl(monitored) => monitored = received)
  BY <1>4, MonitorReceive
<1> HIDE DEF monitored
<1>6. SlaveInv(r) /\ (InControl(r) => r = monitored)
  BY <1>5, MonitorDisabling
<1>7. cls_iefb_periodic(c, d, req) = r
  BY DEF cls_iefb_periodic, monitored, received, woken, called
<1> HIDE DEF r
<1>8. SameController(r, c)
  BY <1>3, <1>4, <1>5, <1>6 DEF SameController
<1> QED BY <1>6, <1>7, <1>8

(* The start of the stack.                                                 *)
LEMMA StartInv ==
    /\ SlaveInv(cls_iefb_init)
    /\ cls_iefb_init.state = "MASTER_NONE"
    /\ cls_iefb_init.sent = {}
<1> DEFINE down == [cls_memory_cleared EXCEPT !.state = "SLAVE_DOWN"]
           moved == [down EXCEPT !.state = "MASTER_NONE"]
           reset == [moved EXCEPT !.receive_timer = cl_timer_stop,
                                  !.timer_for_disabling_slave = cl_timer_stop,
                                  !.data = ClearedArea,
                                  !.trigger = NeverTriggered]
           cleared == [reset EXCEPT !.master = NoMaster,
                                    !.receive_timer = cl_timer_stop,
                                    !.timer_for_disabling_slave = cl_timer_stop]
           filtered == cls_iefb_filter_master_state_callback_values(
                            cleared.app, FALSE, 0, 0)
           kept == [executed_before |-> TRUE,
                    previous_connected_to_master |-> FALSE,
                    previous_protocol_ver |-> 0,
                    previous_master_application_status |-> 0]
           told == cls_iefb_handle_master_state_callback(cleared, FALSE, 0, 0)
           started == cls_iefb_slave_init(moved)
           Memory == [state : {"SLAVE_DOWN", "MASTER_NONE"},
                      master : {NoMaster},
                      receive_timer : {cl_timer_stop},
                      timer_for_disabling_slave : {cl_timer_stop},
                      data : {ClearedArea},
                      rx : {NoData},
                      endcode_slave_disabled : cl_slave_endcodes,
                      trigger : TriggerType,
                      app : AppType,
                      sent : {{}},
                      errors : {{}}]
<1>1. down.state = "SLAVE_DOWN"
  BY DEF cls_memory_cleared
<1>2. <<down.state, "STARTUP", "MASTER_NONE">> \in transitions
  BY <1>1 DEF transitions
<1>3. HasTransition(down.state, "STARTUP")
  BY <1>2 DEF HasTransition, cls_slave_states
<1>4. NextState(down.state, "STARTUP") = "MASTER_NONE"
  BY <1>3, RowOf DEF transitions
<1>5. OnExit(down, down.state) = down
  BY <1>1 DEF OnExit
<1>6. cls_iefb_init = OnEntry(started, "MASTER_NONE")
  <2> HIDE DEF down
  <2>1. cls_iefb_init = cls_iefb_fsm_event(down, "STARTUP", NoRequest)
    BY DEF cls_iefb_init, cls_fsm_init, down
  <2>2. TransitionAction(moved, "STARTUP", NoRequest) = started
    BY DEF TransitionAction
  <2> QED BY <1>1, <1>3, <1>4, <1>5, <2>1, <2>2, Moves
<1>7. NeverTriggered \in TriggerType /\ kept \in TriggerType
  BY DEF NeverTriggered, TriggerType
<1>8. /\ moved \in Memory
      /\ moved.state = "MASTER_NONE"
      /\ moved.app.connected = FALSE
  BY <1>7 DEF cls_memory_cleared, AppType, cl_slave_endcodes
<1> HIDE DEF moved
<1>9. /\ cleared \in Memory
      /\ cleared.state = "MASTER_NONE"
      /\ cleared.app.connected = FALSE
      /\ cleared.trigger = NeverTriggered
  BY <1>7, <1>8
<1>10. started = [told EXCEPT
                    !.endcode_slave_disabled = "SLAVE_REQUESTS_DISCONNECT",
                    !.rx = NoData]
  BY DEF cls_iefb_slave_init, cls_iefb_clear_master_info
<1> HIDE DEF cleared
<1>11. /\ filtered \in AppType
       /\ filtered.connected = FALSE
       /\ filtered.master_connected = FALSE
       /\ filtered.running = FALSE
       /\ filtered.stopped_by_user = FALSE
  BY <1>9 DEF AppType, cls_iefb_filter_master_state_callback_values
<1>12. cls_iefb_should_trigger_master_state_callback(
            cleared.trigger, FALSE, 0, 0)
  BY <1>9 DEF cls_iefb_should_trigger_master_state_callback, NeverTriggered
<1>13. told = [cleared EXCEPT !.app = filtered, !.trigger = kept]
  BY <1>12 DEF cls_iefb_handle_master_state_callback
<1> HIDE DEF filtered, kept, told
<1>14. /\ told \in Memory
       /\ told.state = "MASTER_NONE"
       /\ told.app = filtered
       /\ told.trigger = kept
  BY <1>7, <1>9, <1>11, <1>13
<1> HIDE DEF started
<1>15. /\ started \in Memory
       /\ started.state = "MASTER_NONE"
       /\ started.app = filtered
       /\ started.trigger = kept
       /\ started.sent = {}
       /\ started.endcode_slave_disabled = "SLAVE_REQUESTS_DISCONNECT"
  BY <1>10, <1>14 DEF cl_slave_endcodes
<1>16. started \in ClsType
  <2>1. NoMaster \in MasterType
    BY DEF NoMaster, MasterType, MaxOccupied
  <2>2. /\ cl_timer_stop \in Timer(Nat)
        /\ cl_timer_stop \in Timer({0, WaitTimeDisableSlave})
    BY DEF cl_timer_stop, Timer
  <2>3. ClearedArea \in [1..NumOccupied -> Payloads \cup {NoData}]
    BY DEF ClearedArea
  <2> QED BY <1>15, <2>1, <2>2, <2>3, RxAssumption
          DEF ClsType, cls_slave_states
<1>17. CallbackAgrees(started) /\ ~started.app.connected
  BY <1>11, <1>15 DEF CallbackAgrees, kept
<1>18. /\ OnEntry(started, "MASTER_NONE").state = "MASTER_NONE"
       /\ OnEntry(started, "MASTER_NONE").sent = {}
  BY <1>15, <1>16, <1>17, ClearMasterInfo
     DEF OnEntry, cls_iefb_on_entry_master_none
<1> QED BY <1>6, <1>15, <1>16, <1>17, <1>18, EnterWithoutMaster

-----------------------------------------------------------------------------
(* The invariant of the specification.                                     *)

IInv ==
    /\ SlaveInv(cls)
    /\ ip \in SlaveIps \cup {NoIp}
    /\ silence \in Nat
    /\ beat \in {0, 1}

LEMMA InitInv == Init => IInv
  BY StartInv DEF Init, IInv

(* The controller of the slave, before and after a step.                   *)
StepInv == IInv' /\ SameController(cls', cls)

LEMMA PeriodicStep == IInv /\ Periodic => StepInv
<1> SUFFICES ASSUME IInv, NEW d \in 0..MaxDelay, NEW req \in Incoming,
                    cls_handle_periodic(d, req)
             PROVE  StepInv
  BY DEF Periodic
<1>1. d \in Nat
  BY MaxDelayAssumption
<1>2. cls' = cls_iefb_periodic(cls, d, req)
  BY DEF cls_handle_periodic
<1>3. SlaveInv(cls') /\ SameController(cls', cls)
  BY <1>1, <1>2, PeriodicInv DEF IInv
<1>4. TotalTimeout(cls'.master) \in Nat
  BY <1>3, TotalTimeoutType DEF SlaveInv, ClsType, MasterType, TotalTimeout
<1>5. silence' \in Nat
  BY <1>1, <1>4 DEF IInv, cls_handle_periodic, LeastOf
<1>6. ip' = ip /\ beat' \in {0, 1}
  BY DEF IInv, cls_handle_periodic
<1> QED BY <1>3, <1>5, <1>6 DEF IInv, StepInv

LEMMA StopStep ==
    ASSUME IInv, NEW is_error \in BOOLEAN, cls_stop_cyclic_data(is_error)
    PROVE  StepInv
<1> DEFINE called == NewCall(cls)
           stopping == [called EXCEPT !.endcode_slave_disabled =
                            IF is_error THEN "SLAVE_ERROR"
                            ELSE "SLAVE_REQUESTS_DISCONNECT"]
<1>1. SlaveInv(called) /\ SameConnection(called, cls)
  BY NewCallInv DEF IInv
<1>2. stopping \in ClsType /\ SameConnection(stopping, called)
  BY <1>1 DEF SlaveInv, ClsType, SameConnection
<1>3. cls' = cls_iefb_fsm_event(stopping, "DISABLE_SLAVE", NoRequest)
  BY DEF cls_stop_cyclic_data, cls_iefb_disable_slave
<1> HIDE DEF called, stopping
<1>4. SlaveInv(stopping)
  BY <1>1, <1>2, SameConnectionInv
<1>5. SlaveInv(cls') /\ SameController(cls', stopping)
  BY <1>3, <1>4, ApplicationEvent
<1>6. SameController(cls', cls)
  BY <1>1, <1>2, <1>5 DEF SameController, SameConnection, InControl
<1> QED BY <1>5, <1>6 DEF cls_stop_cyclic_data, IInv, StepInv

LEMMA RestartStep == IInv /\ cls_restart_cyclic_data => StepInv
<1> SUFFICES ASSUME IInv, cls_restart_cyclic_data PROVE StepInv
  OBVIOUS
<1> DEFINE called == NewCall(cls)
<1>1. SlaveInv(called) /\ SameConnection(called, cls)
  BY NewCallInv DEF IInv
<1>2. cls' = cls_iefb_fsm_event(called, "REENABLE_SLAVE", NoRequest)
  BY DEF cls_restart_cyclic_data, cls_iefb_reenable_slave
<1> HIDE DEF called
<1>3. SlaveInv(cls') /\ SameController(cls', called)
  BY <1>1, <1>2, ApplicationEvent
<1>4. SameController(cls', cls)
  BY <1>1, <1>3 DEF SameController, SameConnection, InControl
<1> QED BY <1>3, <1>4 DEF cls_restart_cyclic_data, IInv, StepInv

LEMMA SetRxStep ==
    ASSUME IInv, NEW value \in RxValues, cls_set_rx(value)
    PROVE  StepInv
<1>1. SlaveInv(NewCall(cls)) /\ SameConnection(NewCall(cls), cls)
  BY NewCallInv DEF IInv
<1>2. cls' \in ClsType /\ SameConnection(cls', NewCall(cls))
  BY <1>1 DEF cls_set_rx, SlaveInv, ClsType, SameConnection
<1>3. SlaveInv(cls')
  BY <1>1, <1>2, SameConnectionInv
<1>4. SameController(cls', cls)
  BY <1>1, <1>2 DEF SameController, SameConnection, InControl
<1> QED BY <1>3, <1>4 DEF cls_set_rx, IInv, StepInv

LEMMA NextInv == IInv /\ [Next]_vars => StepInv
<1> SUFFICES ASSUME IInv, [Next]_vars PROVE StepInv
  OBVIOUS
<1>1. CASE Periodic
  BY <1>1, PeriodicStep
<1>2. CASE \E is_error \in BOOLEAN : cls_stop_cyclic_data(is_error)
  BY <1>2, StopStep
<1>3. CASE cls_restart_cyclic_data
  BY <1>3, RestartStep
<1>4. CASE \E value \in RxValues : cls_set_rx(value)
  BY <1>4, SetRxStep
<1>5. CASE \E address \in SlaveIps \cup {NoIp} : ChangeIp(address)
  BY <1>5 DEF ChangeIp, IInv, StepInv, SameController
<1>6. CASE cls_init
  <2>1. SlaveInv(cls') /\ cls'.state = "MASTER_NONE"
    BY <1>6, StartInv DEF cls_init
  <2> QED BY <1>6, <2>1 DEF cls_init, IInv, StepInv, SameController, InControl
<1>7. CASE UNCHANGED vars
  BY <1>7 DEF vars, IInv, StepInv, SameController
<1> QED BY <1>1, <1>2, <1>3, <1>4, <1>5, <1>6, <1>7 DEF Next

LEMMA InvHolds == Spec => []IInv
<1>1. IInv /\ [Next]_vars => IInv'
  BY NextInv DEF StepInv
<1> QED BY InitInv, <1>1, PTL DEF Spec

(***************************************************************************)
(* Type correctness of the slave: whatever arrives, in whatever order, the *)
(* struct cls keeps its shape; in particular the stations read from a      *)
(* request lie inside it, and every response is well formed.               *)
(***************************************************************************)
THEOREM SlaveTypeCorrect == Spec => []TypeOK
<1>1. IInv => TypeOK
  BY DEF IInv, SlaveInv, TypeOK
<1> QED BY InvHolds, <1>1, PTL

(***************************************************************************)
(* Between two calls into the stack a master is stored and its receive     *)
(* timer runs, with the timeout it asked for, exactly in MASTER_CONTROL,   *)
(* and the disabling timer runs exactly in WAIT_DISABLING_SLAVE            *)
(* (cls_iefb_fsm_event() and the actions of its table).                    *)
(***************************************************************************)
THEOREM SlaveTimersFollowState == Spec => []TimersFollowState
<1>1. IInv => TimersFollowState
  BY DEF IInv, SlaveInv, TimersAgree, InControl, TimersFollowState
<1> QED BY InvHolds, <1>1, PTL

(***************************************************************************)
(* The callbacks connect_cb, disconnect_cb and master_running_cb together  *)
(* always leave the application with the right picture, although           *)
(* cls_iefb_handle_master_state_callback() leaves out calls.               *)
(***************************************************************************)
THEOREM SlaveApplicationAgrees == Spec => []ApplicationAgrees
<1>1. IInv => ApplicationAgrees
  <2> SUFFICES ASSUME IInv PROVE ApplicationAgrees
    OBVIOUS
  <2>1. cls.app \in AppType /\ cls.trigger \in TriggerType
    BY DEF IInv, SlaveInv, ClsType
  <2>2. /\ cls.app.connected \in BOOLEAN
        /\ cls.app.master_connected \in BOOLEAN
        /\ cls.app.running \in BOOLEAN
        /\ cls.app.stopped_by_user \in BOOLEAN
    BY <2>1 DEF AppType
  <2> QED BY <2>2 DEF IInv, SlaveInv, CallbackAgrees, ConnectionTold, InControl,
                      ApplicationAgrees
<1> QED BY InvHolds, <1>1, PTL

(***************************************************************************)
(* REQ_CLS_CAPACITY_06: no step takes a slave from one controlling master  *)
(* straight to another (cls_iefb_handle_cyclic_input_frame()).             *)
(***************************************************************************)
THEOREM SlaveControllerNeverStolen == Spec => ControllerNeverStolen
<1>1. IInv /\ [Next]_vars =>
        [cls.state = "MASTER_CONTROL" /\ cls'.state = "MASTER_CONTROL"
            => cls'.master.master_id = cls.master.master_id]_vars
  BY NextInv DEF StepInv, SameController, InControl
<1> QED BY InvHolds, <1>1, PTL DEF Spec, ControllerNeverStolen

-----------------------------------------------------------------------------
(***************************************************************************)
(* Proofs about what a slave (ClsSlave) does with data and time: whose     *)
(* data the RY and RWw areas hold, to whom RX and RWr are sent, and how    *)
(* long a silent master keeps the slave.  They rest on the invariant of    *)
(* the previous part.                                                      *)
(*                                                                         *)
(* A call into the stack has one of three effects on a struct c: it keeps  *)
(* the connection as it is, it frees the slave, or it serves a request of  *)
(* the master that is in control afterwards.                               *)
(***************************************************************************)

(* Every response of r that is not one of c is empty.                      *)
OnlyEmpty(r, c) == \A x \in r.sent : x \in c.sent \/ x.rx = NoData

Kept(r, c) ==
    /\ r.state = c.state
    /\ r.master = c.master
    /\ r.data = c.data
    /\ r.receive_timer = c.receive_timer
    /\ OnlyEmpty(r, c)

Freed(r, c) == ~InControl(r) /\ OnlyEmpty(r, c)

(* The data area is cleared, or holds what the request has for the         *)
(* stations of the slave; only a slave that was in control before answers  *)
(* with data, and only to its master.                                      *)
Served(r, c, req) ==
    /\ InControl(r)
    /\ r.master.master_id = req.master_id
    /\ r.master.parameter_no = req.parameter_no
    /\ AnsweredIn(r)
    /\ \A i \in 1..NumOccupied :
          r.data[i] \in {NoData, Payload(req.master_id, req.parameter_no,
                                         r.master.slave_station_no + i - 1)}
    /\ \/ OnlyEmpty(r, c)
       \/ /\ InControl(c)
          /\ r.master = c.master
          /\ req.group_no = c.master.group_no
          /\ \A x \in r.sent : \/ x \in c.sent
                               \/ /\ x.remote_ip = req.master_id
                                  /\ x.group_no = req.group_no
                                  /\ x.end_code = "SUCCESS"

Effect(r, c, req) == Kept(r, c) \/ Freed(r, c) \/ Served(r, c, req)

(* A request as the stack gets it: each station's data names the master,   *)
(* its parameter number and the station.                                   *)
Delivered(req) ==
    /\ req \in ReceivedRequests
    /\ Len(req.data) = Len(req.slave_ids)
    /\ \A i \in 1..Len(req.slave_ids) :
          req.data[i] = Payload(req.master_id, req.parameter_no, i)
    /\ cl_iefb_parse_cyclic_request(req)

-----------------------------------------------------------------------------
(* The operators.                                                          *)

(* The response that answers req.                                          *)
Response(c, req, include_data, end_code) ==
    [remote_ip |-> req.remote_ip, slave_id |-> req.slave_ip_addr,
     group_no |-> req.group_no, frame_sequence_no |-> req.frame_sequence_no,
     end_code |-> end_code, occupied |-> NumOccupied,
     rx |-> IF include_data THEN c.rx ELSE NoData]

(* An error response carries nothing, and the connection stays as it is.   *)
LEMMA ErrorSent ==
    ASSUME NEW c \in ClsType, NEW req \in ReceivedRequests,
           NEW end_code \in cl_slave_endcodes
    PROVE  Kept(cls_iefb_send_cyclic_response_error_frame(c, req, end_code), c)
<1> DEFINE x == Response(c, req, FALSE, end_code)
           r == [c EXCEPT !.sent = @ \cup {x}]
<1>1. cls_iefb_send_cyclic_response_error_frame(c, req, end_code) = r
  BY DEF cls_iefb_send_cyclic_response_error_frame,
         cls_iefb_send_cyclic_response_frame, Response
<1>2. x.rx = NoData
  BY DEF Response
<1> HIDE DEF x
<1>3. /\ r.state = c.state
      /\ r.master = c.master
      /\ r.data = c.data
      /\ r.receive_timer = c.receive_timer
      /\ r.sent = c.sent \cup {x}
  BY DEF ClsType
<1> HIDE DEF r
<1>4. Kept(r, c)
  BY <1>2, <1>3 DEF Kept, OnlyEmpty
<1> QED BY <1>1, <1>4

LEMMA ErrorReported ==
    ASSUME NEW c \in ClsType, NEW message
    PROVE  LET r == cls_iefb_trigger_error_callback(c, message)
           IN  Kept(r, c) /\ r.sent = c.sent
  BY DEF cls_iefb_trigger_error_callback, ClsType, Kept, OnlyEmpty

LEMMA KeptTransitive ==
    ASSUME NEW a, NEW b, NEW c, Kept(a, b), Kept(b, c)
    PROVE  Kept(a, c)
  BY DEF Kept, OnlyEmpty

(* The callback and the master record have nothing to do with what is sent.*)
LEMMA CallbackSendsNothing ==
    ASSUME NEW c \in ClsType, NEW connected \in BOOLEAN,
           NEW protocol_ver \in Nat, NEW status \in Nat
    PROVE  LET r == cls_iefb_handle_master_state_callback(
                        c, connected, protocol_ver, status)
           IN  /\ r.sent = c.sent
               /\ r.data = c.data
               /\ r.master = c.master
  BY DEF cls_iefb_handle_master_state_callback, ClsType

(* Leaving and entering states sends nothing.                              *)
LEMMA ExitSendsNothing ==
    ASSUME NEW c \in ClsType, NEW next
    PROVE  [OnExit(c, c.state) EXCEPT !.state = next].sent = c.sent
  BY DEF OnExit, cls_iefb_on_exit_master_control, ClsType

LEMMA EntrySendsNothing ==
    ASSUME NEW c \in ClsType, CallbackAgrees(c), NEW state \in cls_slave_states
    PROVE  OnEntry(c, state).sent = c.sent
<1> DEFINE cleared == [c EXCEPT !.master = NoMaster,
                                !.receive_timer = cl_timer_stop,
                                !.timer_for_disabling_slave = cl_timer_stop]
           r == cls_iefb_clear_master_info(c)
<1>1. cleared \in ClsType /\ cleared.sent = c.sent
  <2>1. NoMaster \in MasterType
    BY DEF NoMaster, MasterType, MaxOccupied
  <2>2. /\ cl_timer_stop \in Timer(Nat)
        /\ cl_timer_stop \in Timer({0, WaitTimeDisableSlave})
    BY DEF cl_timer_stop, Timer
  <2> QED BY <2>1, <2>2 DEF ClsType
<1>2. r = cls_iefb_handle_master_state_callback(cleared, FALSE, 0, 0)
  BY DEF cls_iefb_clear_master_info
<1> HIDE DEF cleared
<1>3. r.sent = c.sent
  <2>1. cls_iefb_handle_master_state_callback(cleared, FALSE, 0, 0).sent
            = cleared.sent
    <3>1. FALSE \in BOOLEAN /\ 0 \in Nat
      OBVIOUS
    <3> QED BY <1>1, <3>1, CallbackSendsNothing, Zenon
  <2> QED BY <1>1, <1>2, <2>1
<1>4. r \in ClsType
  BY ClearMasterInfo
<1> HIDE DEF r
<1>5. CASE state = "MASTER_NONE"
  BY <1>3, <1>5 DEF OnEntry, cls_iefb_on_entry_master_none, r
<1>6. CASE state = "WAIT_DISABLING_SLAVE"
  <2>1. OnEntry(c, state) = [r EXCEPT !.timer_for_disabling_slave =
                                cl_timer_start(WaitTimeDisableSlave)]
    BY <1>6 DEF OnEntry, cls_iefb_on_entry_wait_disabling_slave, r
  <2> QED BY <1>3, <1>4, <2>1 DEF ClsType
<1>7. CASE state = "SLAVE_DISABLED"
  BY <1>7 DEF OnEntry, cls_iefb_on_entry_slave_disabled, ClsType
<1>8. CASE state \in {"SLAVE_DOWN", "MASTER_CONTROL"}
  BY <1>8 DEF OnEntry
<1> QED BY <1>5, <1>6, <1>7, <1>8 DEF cls_slave_states

-----------------------------------------------------------------------------
(* The events.                                                             *)

(* cls_iefb_handle_cyclic_event(), when the stations are in the request.   *)
LEMMA CyclicEventServes ==
    ASSUME NEW c, SlaveInv(c), InControl(c), NEW req, Delivered(req),
           req.master_id = c.master.master_id,
           req.parameter_no = c.master.parameter_no,
           IsDataInRequest(req, c.master.slave_station_no)
    PROVE  LET r == cls_iefb_handle_cyclic_event(c, req)
           IN  /\ InControl(r)
               /\ r.master = c.master
               /\ AnsweredIn(r)
               /\ \A i \in 1..NumOccupied :
                     r.data[i] \in {NoData,
                         Payload(req.master_id, req.parameter_no,
                                 c.master.slave_station_no + i - 1)}
               /\ \A x \in r.sent :
                     \/ x \in c.sent
                     \/ /\ x.remote_ip = req.master_id
                        /\ x.group_no = req.group_no
                        /\ x.end_code = "SUCCESS"
                        /\ ~cl_iefb_extract_my_transmission_state(
                                req, c.master.slave_station_no)
                           => x.rx = NoData
<1> DEFINE station == c.master.slave_station_no
           bit == cl_iefb_extract_my_transmission_state(req, station)
           copied == cls_iefb_copy_cyclic_data_from_request(
                        c, req, station, bit)
           told == cls_iefb_handle_master_state_callback(
                        copied, TRUE, req.protocol_ver,
                        req.master_local_unit_info)
           answered == cls_iefb_send_cyclic_response_frame(
                        told, req, bit, "SUCCESS")
           r == [answered EXCEPT !.receive_timer = cl_timer_restart(@)]
           x == Response(told, req, bit, "SUCCESS")
<1>0. /\ c \in ClsType
      /\ station \in Nat
      /\ bit \in BOOLEAN
      /\ req \in ReceivedRequests
      /\ Len(req.data) = Len(req.slave_ids)
      /\ req.remote_ip = req.master_id
  BY DEF SlaveInv, ClsType, MasterType, cl_iefb_extract_my_transmission_state,
         Delivered, cl_iefb_parse_cyclic_request,
         cl_iefb_validate_req_cyclic_data_header
<1>1. cls_iefb_handle_cyclic_event(c, req) = r
  BY DEF cls_iefb_handle_cyclic_event
<1> HIDE DEF bit, r
<1>2. InControl(r) /\ r.master = c.master
  <2> DEFINE q == cls_iefb_handle_cyclic_event(c, req)
  <2>1. SlaveInv(q) /\ InControl(q) /\ q.master = c.master
    BY <1>0, CyclicEvent
  <2> QED BY <1>1, <2>1
<1>3. \A i \in 1..NumOccupied :
         /\ station + i - 1 \in 1..Len(req.slave_ids)
         /\ req.data[station + i - 1]
               = Payload(req.master_id, req.parameter_no, station + i - 1)
  <2> SUFFICES ASSUME NEW i \in 1..NumOccupied
               PROVE  station + i - 1 \in 1..Len(req.slave_ids)
    BY DEF Delivered
  <2>1. /\ station >= 1
        /\ station + NumOccupied - 1 <= Len(req.slave_ids)
    BY SMTT(30) DEF IsDataInRequest, total_occupied, MinOccupied, MaxOccupied
  <2>2. Len(req.slave_ids) \in Nat /\ NumOccupied \in Nat
    BY <1>0, NumOccupiedAssumption DEF cls_validate_config,
          ReceivedRequests, RequestType, MinOccupied, MaxOccupied
  <2> HIDE DEF station
  <2> QED BY <1>0, <2>1, <2>2
<1> DEFINE area == IF bit
                   THEN [i \in 1..NumOccupied |-> req.data[station + i - 1]]
                   ELSE ClearedArea
<1>4. /\ area \in [1..NumOccupied -> Payloads \cup {NoData}]
      /\ \A i \in 1..NumOccupied :
            area[i] \in {NoData, Payload(req.master_id, req.parameter_no,
                                         station + i - 1)}
  <2>1. \A i \in 1..NumOccupied : req.data[station + i - 1] \in Payloads
    BY <1>0, <1>3 DEF ReceivedRequests, RequestType
  <2> HIDE DEF station
  <2> QED BY <1>0, <1>3, <2>1 DEF ClearedArea
<1>5. /\ copied \in ClsType
      /\ copied.data = area
      /\ copied.sent = c.sent
  <2>1. copied = [c EXCEPT !.data = area]
    BY DEF cls_iefb_copy_cyclic_data_from_request
  <2> HIDE DEF area, copied
  <2> QED BY <1>0, <1>4, <2>1 DEF ClsType
<1>6. CallbackAgrees(copied)
  <2>1. copied.trigger = c.trigger /\ copied.app = c.app
    BY <1>0 DEF cls_iefb_copy_cyclic_data_from_request, ClsType
  <2> QED BY <2>1 DEF SlaveInv, CallbackAgrees
<1> HIDE DEF area, copied
<1>7. /\ told \in ClsType
      /\ told.data = area
      /\ told.sent = c.sent
  <2>1. req.protocol_ver \in Nat /\ req.master_local_unit_info \in Nat
    BY <1>0 DEF ReceivedRequests, RequestType
  <2>2. told \in ClsType
    BY <1>5, <1>6, <2>1, MasterStateCallback
  <2>3. told.sent = copied.sent /\ told.data = copied.data
    BY <1>5, <2>1, CallbackSendsNothing
  <2> QED BY <1>5, <2>2, <2>3
<1> HIDE DEF told
<1>8. /\ answered \in ClsType
      /\ answered.data = area
      /\ answered.sent = c.sent \cup {x}
  <2>1. answered \in ClsType
    BY <1>0, <1>7, Respond DEF cl_slave_endcodes
  <2>2. /\ answered.data = told.data
        /\ answered.sent = told.sent \cup {x}
    <3>1. answered = [told EXCEPT !.sent = @ \cup {x}]
      BY DEF cls_iefb_send_cyclic_response_frame, Response
    <3> HIDE DEF answered, x
    <3> QED BY <1>7, <3>1 DEF ClsType
  <2> QED BY <1>7, <2>1, <2>2
<1>9. /\ x.remote_ip = req.master_id
      /\ x.group_no = req.group_no
      /\ x.end_code = "SUCCESS"
      /\ ~bit => x.rx = NoData
  BY <1>0 DEF Response
<1> HIDE DEF answered, x
<1>10. r.data = area /\ r.sent = c.sent \cup {x}
  BY <1>8 DEF r, ClsType
<1>11. AnsweredIn(r)
  BY <1>9, <1>10 DEF AnsweredIn
<1> QED BY <1>1, <1>2, <1>4, <1>9, <1>10, <1>11 DEF bit

(* CLS_SLAVE_EVENT_CYCLIC_CORRECT_MASTER in MASTER_CONTROL.                *)
LEMMA CorrectMasterActs ==
    ASSUME NEW c \in ClsType, InControl(c), NEW req
    PROVE  fsm_transition(c, "CYCLIC_CORRECT_MASTER", req)
               = cls_iefb_handle_cyclic_event(c, req)
<1> DEFINE event == "CYCLIC_CORRECT_MASTER"
<1>1. <<c.state, event, c.state>> \in transitions
  BY DEF transitions, InControl
<1>2. HasTransition(c.state, event)
  BY <1>1 DEF HasTransition, cls_slave_states, InControl
<1>3. NextState(c.state, event) = c.state
  BY <1>2, RowOf DEF transitions, InControl
<1>4. [c EXCEPT !.state = c.state] = c
  BY DEF ClsType
<1> QED BY <1>2, <1>3, <1>4 DEF fsm_transition, TransitionAction

(* A request of the master in control, under its parameter number.         *)
LEMMA OwnMasterServed ==
    ASSUME NEW c, SlaveInv(c), InControl(c), NEW req, Delivered(req),
           req.master_id = c.master.master_id,
           req.parameter_no = c.master.parameter_no,
           req.group_no = c.master.group_no
    PROVE  Effect(cls_iefb_fsm_event(c, "CYCLIC_CORRECT_MASTER", req), c, req)
<1> DEFINE r == cls_iefb_handle_cyclic_event(c, req)
<1>1. cls_iefb_fsm_event(c, "CYCLIC_CORRECT_MASTER", req) = r
  BY CorrectMasterActs DEF cls_iefb_fsm_event, SlaveInv
<1>2. CASE ~IsDataInRequest(req, c.master.slave_station_no)
  <2>1. r = c
    BY <1>2 DEF cls_iefb_handle_cyclic_event
  <2> QED BY <1>1, <2>1 DEF Effect, Kept, OnlyEmpty
<1>3. CASE IsDataInRequest(req, c.master.slave_station_no)
  <2> HIDE DEF r
  <2>1. /\ InControl(r)
        /\ r.master = c.master
        /\ AnsweredIn(r)
        /\ \A i \in 1..NumOccupied :
              r.data[i] \in {NoData,
                  Payload(req.master_id, req.parameter_no,
                          c.master.slave_station_no + i - 1)}
        /\ \A x \in r.sent :
              \/ x \in c.sent
              \/ /\ x.remote_ip = req.master_id
                 /\ x.group_no = req.group_no
                 /\ x.end_code = "SUCCESS"
    BY <1>3, CyclicEventServes DEF r
  <2>2. Served(r, c, req)
    BY <2>1 DEF Served
  <2> QED BY <1>1, <2>2 DEF Effect
<1> QED BY <1>2, <1>3

(* The stations a slave finds for itself lie inside the frame.             *)
LEMMA StationsInRequest ==
    ASSUME NEW req \in ReceivedRequests, NEW id,
           total_occupied(req) \in 1..MaxOccupied,
           IsSlaveIdFound(id, req),
           implied_occupation_count(id, req) = NumOccupied
    PROVE  IsDataInRequest(req, my_slave_station_no(id, req))
<1> DEFINE first == my_slave_station_no(id, req)
           total == total_occupied(req)
           run == {last \in first..total :
                    \A i \in first + 1..last : req.slave_ids[i] = Multistation}
<1>1. first \in 1..total
  BY StationFound DEF StationsOf
<1>2. total \in 1..16 /\ NumOccupied \in 1..16
  BY NumOccupiedAssumption
     DEF cls_validate_config, MinOccupied, MaxOccupied
<1>3. Cardinality(run) = NumOccupied
  BY DEF implied_occupation_count
<1> HIDE DEF first, total
<1>4. run \subseteq first..total
  OBVIOUS
<1> HIDE DEF run
<1>5. first \in Int /\ total \in Int /\ first <= total
  BY <1>1, <1>2
<1>6. IsFiniteSet(first..total) /\ Cardinality(first..total) = total - first + 1
  BY <1>5, FS_Interval
<1>7. NumOccupied <= total - first + 1
  BY <1>3, <1>4, <1>6, FS_Subset
<1>8. /\ total >= NumOccupied
      /\ first \in 1..16
      /\ first + NumOccupied - 1 <= 16
      /\ first + NumOccupied - 1 <= total
  BY <1>1, <1>2, <1>7
<1> QED BY <1>8 DEF IsDataInRequest, MinOccupied, MaxOccupied, first, total

(* cls_iefb_handle_new_or_updated_master() stores the sender under its     *)
(* parameter number and keeps the station that was looked up before.       *)
LEMMA NewMasterStored ==
    ASSUME NEW c \in ClsType, NEW req \in ReceivedRequests
    PROVE  LET r == cls_iefb_handle_new_or_updated_master(c, req)
           IN  /\ r.master.parameter_no = req.parameter_no
               /\ r.master.slave_station_no = c.master.slave_station_no
               /\ r.sent = c.sent
<1> DEFINE period == cl_calculate_total_timeout(
                        req.timeout_value, req.parallel_off_timeout_count)
           master == [c.master EXCEPT
                        !.master_id = req.master_id,
                        !.parameter_no = req.parameter_no,
                        !.group_no = req.group_no,
                        !.timeout_value = req.timeout_value,
                        !.parallel_off_timeout_count =
                            req.parallel_off_timeout_count]
           app == [c.app EXCEPT !.connected = TRUE]
           stored == [c EXCEPT !.master = master,
                               !.receive_timer = cl_timer_start(period),
                               !.app = app]
           r == cls_iefb_handle_master_state_callback(
                    stored, TRUE, req.protocol_ver, req.master_local_unit_info)
<1>1. /\ master \in MasterType
      /\ master.parameter_no = req.parameter_no
      /\ master.slave_station_no = c.master.slave_station_no
  BY DEF ClsType, MasterType, ReceivedRequests, RequestType
<1>2. app \in AppType
  BY DEF ClsType, AppType
<1>3. cl_timer_start(period) \in Timer(Nat)
  BY TotalTimeoutType DEF ReceivedRequests, RequestType, cl_timer_start, Timer
<1>4. cls_iefb_handle_new_or_updated_master(c, req) = r
  BY ZenonT(120)
     DEF cls_iefb_handle_new_or_updated_master, ClsType, MasterType, AppType
<1> HIDE DEF master, app, period
<1>5. stored \in ClsType /\ stored.master = master /\ stored.sent = c.sent
  BY <1>1, <1>2, <1>3 DEF ClsType
<1> HIDE DEF stored
<1>6. req.protocol_ver \in Nat /\ req.master_local_unit_info \in Nat
  BY DEF ReceivedRequests, RequestType
<1>7. r.sent = stored.sent /\ r.master = stored.master
  BY <1>5, <1>6, CallbackSendsNothing
<1> HIDE DEF r
<1> QED BY <1>1, <1>4, <1>5, <1>7

(* CLS_SLAVE_EVENT_CYCLIC_NEW_MASTER: the first answer is always empty.    *)
LEMMA NewMasterServed ==
    ASSUME NEW c, SlaveInv(c), c.state \in {"MASTER_NONE", "MASTER_CONTROL"},
           NEW req, Delivered(req), NEW station \in 1..MaxOccupied,
           IsDataInRequest(req, station),
           ~cl_iefb_extract_my_transmission_state(req, station)
    PROVE  Served(cls_iefb_fsm_event(
                      [c EXCEPT !.master.slave_station_no = station],
                      "CYCLIC_NEW_MASTER", req), c, req)
<1> DEFINE event == "CYCLIC_NEW_MASTER"
           p == [c EXCEPT !.master.slave_station_no = station]
           moved == [p EXCEPT !.state = "MASTER_CONTROL"]
           once == cls_iefb_handle_new_or_updated_master(moved, req)
           r == cls_iefb_handle_cyclic_event(once, req)
<1>1. /\ SlaveInv(p)
      /\ p.state = c.state
  BY StoreStation
<1>2. /\ p.master.slave_station_no = station
      /\ p.sent = c.sent
  BY DEF SlaveInv, ClsType, MasterType
<1>3. req \in ReceivedRequests
  BY DEF Delivered
<1> HIDE DEF p
<1>4. p \in ClsType
  BY <1>1 DEF SlaveInv
<1>5. <<p.state, event, "MASTER_CONTROL">> \in transitions
  BY <1>1 DEF transitions
<1>6. HasTransition(p.state, event)
  BY <1>5 DEF HasTransition, cls_slave_states
<1>7. NextState(p.state, event) = "MASTER_CONTROL"
  BY <1>6, RowOf DEF transitions
<1>8. fsm_transition(p, event, req) = once
  BY <1>1, <1>6, <1>7 DEF fsm_transition, TransitionAction, OnExit, OnEntry
<1>9. /\ moved \in ClsType
      /\ InControl(moved)
      /\ moved.app = p.app
      /\ moved.trigger = p.trigger
      /\ moved.timer_for_disabling_slave = p.timer_for_disabling_slave
      /\ moved.master = p.master
      /\ moved.sent = p.sent
  BY <1>4 DEF ClsType, cls_slave_states, InControl
<1>10. CallbackAgrees(moved)
  BY <1>1, <1>9 DEF SlaveInv, CallbackAgrees
<1>11. moved.timer_for_disabling_slave.state # "RUNNING"
  BY <1>1, <1>9 DEF SlaveInv, TimersAgree
<1> HIDE DEF moved
<1>12. /\ SlaveInv(once)
       /\ InControl(once)
       /\ once.master.master_id = req.master_id
  BY <1>3, <1>9, <1>10, <1>11, NewOrUpdatedMaster
<1>13. /\ once.master.parameter_no = req.parameter_no
       /\ once.master.slave_station_no = moved.master.slave_station_no
       /\ once.sent = moved.sent
  BY <1>3, <1>9, NewMasterStored
<1> HIDE DEF once
<1>14. once.master.slave_station_no = station /\ once.sent = c.sent
  BY <1>2, <1>9, <1>13
<1>15. cls_iefb_fsm_event(p, event, req) = r
  <2>1. fsm_transition(once, "CYCLIC_CORRECT_MASTER", req) = r
    BY <1>12, CorrectMasterActs DEF SlaveInv
  <2> QED BY <1>6, <1>8, <2>1 DEF cls_iefb_fsm_event
<1> HIDE DEF r
<1>16. /\ InControl(r)
       /\ r.master = once.master
       /\ AnsweredIn(r)
       /\ \A i \in 1..NumOccupied :
             r.data[i] \in {NoData,
                 Payload(req.master_id, req.parameter_no,
                         once.master.slave_station_no + i - 1)}
       /\ \A x \in r.sent :
             \/ x \in once.sent
             \/ /\ x.remote_ip = req.master_id
                /\ x.group_no = req.group_no
                /\ x.end_code = "SUCCESS"
                /\ ~cl_iefb_extract_my_transmission_state(
                        req, once.master.slave_station_no)
                   => x.rx = NoData
  <2>1. IsDataInRequest(req, once.master.slave_station_no)
    BY <1>14
  <2> QED BY <1>12, <1>13, <2>1, CyclicEventServes DEF r
<1>17. OnlyEmpty(r, c)
  BY <1>14, <1>16 DEF OnlyEmpty
<1>18. Served(r, c, req)
  BY <1>12, <1>13, <1>16, <1>17 DEF Served
<1> QED BY <1>15, <1>18 DEF p

(* Entering a state is not leaving it.                                     *)
LEMMA EntryKeepsState ==
    ASSUME NEW c \in ClsType, CallbackAgrees(c), NEW state \in cls_slave_states
    PROVE  OnEntry(c, state).state = c.state
<1> DEFINE r == cls_iefb_clear_master_info(c)
<1>1. r \in ClsType /\ r.state = c.state
  BY ClearMasterInfo
<1> HIDE DEF r
<1>2. CASE state = "MASTER_NONE"
  BY <1>1, <1>2 DEF OnEntry, cls_iefb_on_entry_master_none, r
<1>3. CASE state = "WAIT_DISABLING_SLAVE"
  <2>1. OnEntry(c, state) = [r EXCEPT !.timer_for_disabling_slave =
                                cl_timer_start(WaitTimeDisableSlave)]
    BY <1>3 DEF OnEntry, cls_iefb_on_entry_wait_disabling_slave, r
  <2> QED BY <1>1, <2>1 DEF ClsType
<1>4. CASE state = "SLAVE_DISABLED"
  BY <1>4 DEF OnEntry, cls_iefb_on_entry_slave_disabled, ClsType
<1>5. CASE state \in {"SLAVE_DOWN", "MASTER_CONTROL"}
  BY <1>5 DEF OnEntry
<1> QED BY <1>2, <1>3, <1>4, <1>5 DEF cls_slave_states

(* A change to a state without a master, with no action of its own.        *)
LEMMA QuietChange ==
    ASSUME NEW c \in ClsType, CallbackAgrees(c), ConnectionTold(c),
           NEW next \in {"MASTER_NONE", "WAIT_DISABLING_SLAVE",
                         "SLAVE_DISABLED"}
    PROVE  Freed(OnEntry([OnExit(c, c.state) EXCEPT !.state = next], next), c)
<1> DEFINE left == [OnExit(c, c.state) EXCEPT !.state = next]
           r == OnEntry(left, next)
<1>1. next \in cls_slave_states \ {"SLAVE_DOWN"}
  BY DEF cls_slave_states
<1>2. left \in ClsType /\ left.state = next /\ CallbackAgrees(left)
  BY <1>1, Leave
<1>3. left.sent = c.sent
  BY ExitSendsNothing
<1> HIDE DEF left
<1>4. r.sent = left.sent /\ r.state = next
  BY <1>1, <1>2, EntrySendsNothing, EntryKeepsState
<1> HIDE DEF r
<1>5. Freed(r, c)
  BY <1>3, <1>4 DEF Freed, OnlyEmpty, InControl
<1> QED BY <1>5 DEF r, left

(* The events of the application.                                          *)
LEMMA ApplicationEventEffect ==
    ASSUME NEW c, SlaveInv(c), NEW event \in {"DISABLE_SLAVE", "REENABLE_SLAVE"}
    PROVE  LET r == cls_iefb_fsm_event(c, event, NoRequest)
           IN  Kept(r, c) \/ Freed(r, c)
<1> DEFINE r == cls_iefb_fsm_event(c, event, NoRequest)
           next == NextState(c.state, event)
           left == [OnExit(c, c.state) EXCEPT !.state = next]
<1>1. CASE ~HasTransition(c.state, event)
  <2>1. r = c
    BY <1>1 DEF cls_iefb_fsm_event, fsm_transition
  <2> QED BY <2>1 DEF Kept, OnlyEmpty
<1>2. CASE HasTransition(c.state, event)
  <2>1. <<c.state, event, next>> \in transitions
    BY <1>2, RowOf
  <2>2. /\ next # c.state
        /\ next \in {"MASTER_NONE", "WAIT_DISABLING_SLAVE", "SLAVE_DISABLED"}
    BY <2>1 DEF transitions
  <2>3. r = OnEntry(left, next)
    BY <1>2, <2>2, MovesQuietly
  <2> HIDE DEF next, r
  <2>4. Freed(r, c)
    BY <2>2, <2>3, QuietChange DEF SlaveInv
  <2> QED BY <2>4 DEF r
<1> QED BY <1>1, <1>2

(* The two timers.                                                         *)
LEMMA MonitorReceiveEffect ==
    ASSUME NEW c, SlaveInv(c)
    PROVE  LET r == MonitorReceiveTimer(c)
           IN  /\ r = c \/ Freed(r, c)
               /\ InControl(r) => ~cl_timer_is_expired(r.receive_timer)
<1> DEFINE r == MonitorReceiveTimer(c)
<1>1. CASE ~cl_timer_is_expired(c.receive_timer)
  BY <1>1 DEF MonitorReceiveTimer
<1>2. CASE cl_timer_is_expired(c.receive_timer)
  <2> DEFINE stopped == [c EXCEPT !.receive_timer = cl_timer_stop]
             left == [OnExit(stopped, stopped.state)
                      EXCEPT !.state = "MASTER_NONE"]
             event == "TIMEOUT_MASTER"
  <2>1. InControl(c)
    BY <1>2 DEF cl_timer_is_expired, SlaveInv, TimersAgree
  <2>2. cl_timer_stop \in Timer(Nat)
    BY DEF cl_timer_stop, Timer
  <2>3. /\ stopped \in ClsType
        /\ stopped.state = c.state
        /\ stopped.app = c.app
        /\ stopped.trigger = c.trigger
        /\ stopped.sent = c.sent
    BY <2>2 DEF SlaveInv, ClsType
  <2>4. r = cls_iefb_fsm_event(stopped, event, NoRequest)
    BY <1>2 DEF MonitorReceiveTimer
  <2> HIDE DEF stopped
  <2>5. CallbackAgrees(stopped) /\ ConnectionTold(stopped) /\ InControl(stopped)
    BY <2>1, <2>3 DEF SlaveInv, CallbackAgrees, ConnectionTold, InControl
  <2>6. <<stopped.state, event, "MASTER_NONE">> \in transitions
    BY <2>5 DEF transitions, InControl
  <2>7. HasTransition(stopped.state, event)
    BY <2>6 DEF HasTransition, cls_slave_states
  <2>8. NextState(stopped.state, event) = "MASTER_NONE"
    BY <2>7, RowOf DEF transitions
  <2>9. cls_iefb_fsm_event(stopped, event, NoRequest)
            = OnEntry(left, "MASTER_NONE")
    BY <2>5, <2>7, <2>8, MovesQuietly DEF InControl
  <2> HIDE DEF r
  <2>10. Freed(r, stopped)
    BY <2>3, <2>4, <2>5, <2>9, QuietChange
  <2>11. Freed(r, c)
    BY <2>3, <2>10 DEF Freed, OnlyEmpty
  <2> QED BY <2>11 DEF Freed, r
<1> QED BY <1>1, <1>2

LEMMA MonitorDisablingEffect ==
    ASSUME NEW c, SlaveInv(c)
    PROVE  LET r == MonitorDisablingTimer(c)
           IN  r = c \/ Freed(r, c)
<1> DEFINE r == MonitorDisablingTimer(c)
<1>1. CASE ~cl_timer_is_expired(c.timer_for_disabling_slave)
  BY <1>1 DEF MonitorDisablingTimer
<1>2. CASE cl_timer_is_expired(c.timer_for_disabling_slave)
  <2> DEFINE stopped == [c EXCEPT !.timer_for_disabling_slave = cl_timer_stop]
             left == [OnExit(stopped, stopped.state)
                      EXCEPT !.state = "SLAVE_DISABLED"]
             event == "DISABLE_SLAVE_WAIT_ENDED"
  <2>1. c.state = "WAIT_DISABLING_SLAVE"
    BY <1>2 DEF cl_timer_is_expired, SlaveInv, TimersAgree
  <2>2. cl_timer_stop \in Timer({0, WaitTimeDisableSlave})
    BY DEF cl_timer_stop, Timer
  <2>3. /\ stopped \in ClsType
        /\ stopped.state = c.state
        /\ stopped.app = c.app
        /\ stopped.trigger = c.trigger
        /\ stopped.sent = c.sent
    BY <2>2 DEF SlaveInv, ClsType
  <2>4. r = cls_iefb_fsm_event(stopped, event, NoRequest)
    BY <1>2 DEF MonitorDisablingTimer
  <2> HIDE DEF stopped
  <2>5. CallbackAgrees(stopped) /\ ConnectionTold(stopped)
    BY <2>3 DEF SlaveInv, CallbackAgrees, ConnectionTold, InControl
  <2>6. <<stopped.state, event, "SLAVE_DISABLED">> \in transitions
    BY <2>1, <2>3 DEF transitions
  <2>7. HasTransition(stopped.state, event)
    BY <2>6 DEF HasTransition, cls_slave_states
  <2>8. NextState(stopped.state, event) = "SLAVE_DISABLED"
    BY <2>7, RowOf DEF transitions
  <2>9. cls_iefb_fsm_event(stopped, event, NoRequest)
            = OnEntry(left, "SLAVE_DISABLED")
    BY <2>1, <2>3, <2>7, <2>8, MovesQuietly
  <2> HIDE DEF r
  <2>10. Freed(r, stopped)
    BY <2>3, <2>4, <2>5, <2>9, QuietChange
  <2>11. Freed(r, c)
    BY <2>3, <2>10 DEF Freed, OnlyEmpty
  <2> QED BY <2>11 DEF r
<1> QED BY <1>1, <1>2

(* The events that are answered with an error.                             *)
LEMMA ErrorEventKept ==
    ASSUME NEW c, SlaveInv(c), NEW req \in ReceivedRequests,
           NEW event \in {"CYCLIC_WRONG_MASTER",
                          "CYCLIC_INCOMING_WHEN_DISABLED", "NONE"}
    PROVE  Kept(cls_iefb_fsm_event(c, event, req), c)
<1> DEFINE r == cls_iefb_fsm_event(c, event, req)
<1>0. c \in ClsType
  BY DEF SlaveInv
<1>1. CASE ~HasTransition(c.state, event)
  BY <1>1 DEF cls_iefb_fsm_event, fsm_transition, Kept, OnlyEmpty
<1>2. CASE HasTransition(c.state, event)
  <2>1. <<c.state, event, NextState(c.state, event)>> \in transitions
    BY <1>2, RowOf
  <2>2. NextState(c.state, event) = c.state /\ event # "NONE"
    BY <2>1 DEF transitions
  <2>3. r = TransitionAction([c EXCEPT !.state = c.state], event, req)
    BY <1>2, <2>2 DEF cls_iefb_fsm_event, fsm_transition
  <2>4. [c EXCEPT !.state = c.state] = c
    BY <1>0 DEF ClsType
  <2>5. CASE event = "CYCLIC_WRONG_MASTER"
    <3> DEFINE e == cls_iefb_trigger_error_callback(
                        c, "MASTER_STATION_DUPLICATION")
    <3>1. e \in ClsType
      BY <1>0, ReportError DEF ErrorMessages
    <3>2. r = cls_iefb_send_cyclic_response_error_frame(
                    e, req, "MASTER_DUPLICATION")
      BY <2>3, <2>4, <2>5 DEF TransitionAction, cls_iefb_handle_wrong_master
    <3>3. Kept(e, c)
      BY <1>0, ErrorReported
    <3> HIDE DEF e
    <3>4. Kept(cls_iefb_send_cyclic_response_error_frame(
                    e, req, "MASTER_DUPLICATION"), e)
      BY <3>1, ErrorSent DEF cl_slave_endcodes
    <3> HIDE DEF r
    <3>5. Kept(r, c)
      BY <3>2, <3>3, <3>4, KeptTransitive
    <3> QED BY <3>5 DEF r
  <2>6. CASE event = "CYCLIC_INCOMING_WHEN_DISABLED"
    <3>1. r = cls_iefb_send_cyclic_response_error_frame(
                    c, req, c.endcode_slave_disabled)
      BY <2>3, <2>4, <2>6
         DEF TransitionAction, cls_iefb_handle_incoming_when_disabled
    <3>2. c.endcode_slave_disabled \in cl_slave_endcodes
      BY <1>0 DEF ClsType, cl_slave_endcodes
    <3>3. Kept(cls_iefb_send_cyclic_response_error_frame(
                    c, req, c.endcode_slave_disabled), c)
      BY <1>0, <3>2, ErrorSent
    <3> QED BY <3>1, <3>3
  <2> QED BY <2>2, <2>5, <2>6
<1> QED BY <1>1, <1>2

(* CLS_SLAVE_EVENT_CYCLIC_WRONG_STATIONCOUNT.                              *)
LEMMA WrongStationCountEffect ==
    ASSUME NEW c, SlaveInv(c), NEW req \in ReceivedRequests
    PROVE  LET r == cls_iefb_fsm_event(c, "CYCLIC_WRONG_STATIONCOUNT", req)
           IN  Kept(r, c) \/ Freed(r, c)
<1> DEFINE event == "CYCLIC_WRONG_STATIONCOUNT"
           code == "WRONG_NUMBER_OCCUPIED_STATIONS"
           r == cls_iefb_fsm_event(c, event, req)
<1>0. c \in ClsType /\ code \in cl_slave_endcodes
  BY DEF SlaveInv, cl_slave_endcodes
<1>1. CASE ~HasTransition(c.state, event)
  BY <1>1 DEF cls_iefb_fsm_event, fsm_transition, Kept, OnlyEmpty
<1>2. CASE HasTransition(c.state, event)
  <2>1. <<c.state, event, NextState(c.state, event)>> \in transitions
    BY <1>2, RowOf
  <2>2. /\ NextState(c.state, event) = "MASTER_NONE"
        /\ c.state \in {"MASTER_NONE", "MASTER_CONTROL"}
    BY <2>1 DEF transitions
  <2>3. CASE c.state = "MASTER_NONE"
    <3>1. [c EXCEPT !.state = "MASTER_NONE"] = c
      BY <1>0, <2>3 DEF ClsType
    <3>2. r = cls_iefb_send_cyclic_response_error_frame(c, req, code)
      BY <1>2, <2>2, <2>3, <3>1, Stays
         DEF TransitionAction, cls_iefb_handle_wrong_stationcount
    <3>3. Kept(cls_iefb_send_cyclic_response_error_frame(c, req, code), c)
      BY <1>0, ErrorSent
    <3> QED BY <3>2, <3>3
  <2>4. CASE c.state = "MASTER_CONTROL"
    <3> DEFINE left == [OnExit(c, c.state) EXCEPT !.state = "MASTER_NONE"]
               acted == cls_iefb_send_cyclic_response_error_frame(
                            left, req, code)
               entered == OnEntry(acted, "MASTER_NONE")
    <3>1. r = entered
      <4>1. TransitionAction(left, event, req) = acted
        BY DEF TransitionAction, cls_iefb_handle_wrong_stationcount
      <4> QED BY <1>2, <2>2, <2>4, <4>1, Moves
    <3>2. /\ left \in ClsType
          /\ left.state = "MASTER_NONE"
          /\ CallbackAgrees(left)
      BY <1>0, Leave DEF SlaveInv, cls_slave_states
    <3>3. left.sent = c.sent
      BY <1>0, ExitSendsNothing
    <3> HIDE DEF left
    <3>4. acted \in ClsType /\ SameConnection(acted, left)
      BY <1>0, <3>2, RespondError
    <3>5. Kept(acted, left)
      BY <1>0, <3>2, ErrorSent
    <3> HIDE DEF acted
    <3>6. acted.state = "MASTER_NONE" /\ CallbackAgrees(acted)
      BY <3>2, <3>4 DEF SameConnection, CallbackAgrees
    <3>7. entered.sent = acted.sent /\ entered.state = acted.state
      BY <3>4, <3>6, EntrySendsNothing, EntryKeepsState DEF cls_slave_states
    <3> HIDE DEF entered, r
    <3>8. Freed(r, c)
      BY <3>1, <3>3, <3>5, <3>6, <3>7 DEF Freed, Kept, OnlyEmpty, InControl
    <3> QED BY <3>8 DEF r
  <2> QED BY <2>2, <2>3, <2>4
<1> QED BY <1>1, <1>2

LEMMA SearchEffect ==
    ASSUME NEW c, SlaveInv(c), NEW req, Delivered(req)
    PROVE  Effect(cls_iefb_search_slave_parameters(c, req), c, req)
<1> DEFINE id == req.slave_ip_addr
           station == my_slave_station_no(id, req)
           bit == cl_iefb_extract_my_transmission_state(req, station)
           event == SearchEvent(c, bit)
           r == cls_iefb_search_slave_parameters(c, req)
<1>0. /\ c \in ClsType
      /\ req \in ReceivedRequests
      /\ total_occupied(req) \in 1..MaxOccupied
  BY DEF SlaveInv, Delivered, cl_iefb_parse_cyclic_request,
         cl_iefb_validate_req_cyclic_data_header, MinOccupied
<1>1. CASE IsSlaveIdRepeated(id, req) \/ ~IsSlaveIdFound(id, req)
  BY <1>1 DEF cls_iefb_search_slave_parameters, Effect, Kept, OnlyEmpty
<1>2. CASE ~(IsSlaveIdRepeated(id, req) \/ ~IsSlaveIdFound(id, req))
  <2>1. station \in 1..total_occupied(req)
    BY <1>2, StationFound DEF StationsOf
  <2>2. station \in 1..MaxOccupied
    <3> DEFINE total == total_occupied(req)
    <3>1. station \in 1..total /\ total \in 1..MaxOccupied
      BY <1>0, <2>1
    <3> HIDE DEF station, total, id, bit, event, r
    <3> QED BY <3>1, IntervalWithin
  <2>3. /\ event \in {"CYCLIC_INCOMING_WHEN_DISABLED", "CYCLIC_NEW_MASTER",
                      "NONE"}
        /\ event = "CYCLIC_NEW_MASTER" =>
              ~bit /\ c.state \in {"MASTER_NONE", "MASTER_CONTROL"}
    <3> HIDE DEF bit
    <3> QED BY DEF SearchEvent
  <2>4. CASE implied_occupation_count(id, req) # NumOccupied
    <3> DEFINE e == cls_iefb_trigger_error_callback(c, "WRONG_NUMBER_OCCUPIED")
               f == cls_iefb_fsm_event(e, "CYCLIC_WRONG_STATIONCOUNT", req)
    <3>1. e \in ClsType /\ SameConnection(e, c)
      BY <1>0, ReportError DEF ErrorMessages
    <3>2. Kept(e, c)
      BY <1>0, ErrorReported
    <3>3. r = f
      BY <1>2, <2>4 DEF cls_iefb_search_slave_parameters
    <3> HIDE DEF e
    <3>4. SlaveInv(e)
      BY <3>1, SameConnectionInv
    <3>5. Kept(f, e) \/ Freed(f, e)
      BY <1>0, <3>4, WrongStationCountEffect
    <3> HIDE DEF f, r
    <3>6. Kept(r, c) \/ Freed(r, c)
      BY <3>2, <3>3, <3>5 DEF Kept, Freed, OnlyEmpty
    <3> QED BY <3>6 DEF Effect, r
  <2>5. CASE /\ implied_occupation_count(id, req) = NumOccupied
             /\ event = "CYCLIC_NEW_MASTER"
    <3> DEFINE p == [c EXCEPT !.master.slave_station_no = station]
               f == cls_iefb_fsm_event(p, "CYCLIC_NEW_MASTER", req)
    <3>1. r = f
      BY <1>2, <2>5 DEF cls_iefb_search_slave_parameters
    <3>2. IsDataInRequest(req, station)
      BY <1>0, <1>2, <2>5, StationsInRequest
    <3>3. ~bit /\ c.state \in {"MASTER_NONE", "MASTER_CONTROL"}
      BY <2>3, <2>5
    <3> HIDE DEF r, station, event
    <3>4. Served(f, c, req)
      BY <2>2, <3>2, <3>3, NewMasterServed
    <3>5. Effect(r, c, req)
      BY <3>1, <3>4 DEF Effect
    <3> QED BY <3>5 DEF r
  <2>6. CASE /\ implied_occupation_count(id, req) = NumOccupied
             /\ event # "CYCLIC_NEW_MASTER"
             /\ c.state = "MASTER_NONE"
    <3>1. r = cls_iefb_trigger_error_callback(c, "SLAVE_STATION_DUPLICATION")
      BY <1>2, <2>6 DEF cls_iefb_search_slave_parameters
    <3>2. Kept(r, c)
      BY <1>0, <3>1, ErrorReported
    <3> QED BY <3>2 DEF Effect
  <2>7. CASE /\ implied_occupation_count(id, req) = NumOccupied
             /\ event # "CYCLIC_NEW_MASTER"
             /\ c.state # "MASTER_NONE"
    <3>1. r = cls_iefb_fsm_event(c, event, req)
      BY <1>2, <2>7 DEF cls_iefb_search_slave_parameters
    <3> HIDE DEF event, r
    <3>2. Kept(cls_iefb_fsm_event(c, event, req), c)
      BY <1>0, <2>3, <2>7, ErrorEventKept
    <3>3. Effect(r, c, req)
      BY <3>1, <3>2 DEF Effect
    <3> QED BY <3>3 DEF r
  <2> QED BY <2>4, <2>5, <2>6, <2>7
<1> QED BY <1>1, <1>2

(* cls_iefb_handle_cyclic_input_frame().                                   *)
LEMMA InputFrameEffect ==
    ASSUME NEW c, SlaveInv(c), NEW req \in RequestType(SlaveIps \cup {NoIp}),
           Len(req.data) = Len(req.slave_ids),
           \A i \in 1..Len(req.slave_ids) :
              req.data[i] = Payload(req.master_id, req.parameter_no, i)
    PROVE  Effect(cls_iefb_handle_cyclic_input_frame(c, req), c, req)
<1> DEFINE r == cls_iefb_handle_cyclic_input_frame(c, req)
           dropped == \/ req.slave_ip_addr = NoIp
                      \/ ~cl_iefb_parse_cyclic_request(req)
                      \/ c.state \in {"SLAVE_DOWN", "SLAVE_DISABLED"}
<1>0. Effect(c, c, req)
  BY DEF Effect, Kept, OnlyEmpty
<1>1. CASE dropped
  BY <1>0, <1>1 DEF cls_iefb_handle_cyclic_input_frame
<1>2. CASE ~dropped
  <2>1. Delivered(req)
    BY <1>2 DEF Delivered, ReceivedRequests, RequestType
  <2>2. CASE ~InControl(c)
    <3>1. r = cls_iefb_search_slave_parameters(c, req)
      BY <1>2, <2>2 DEF cls_iefb_handle_cyclic_input_frame, InControl
    <3> QED BY <2>1, <3>1, SearchEffect
  <2>3. CASE InControl(c) /\ ~cls_iefb_is_master_id_correct(c, req.master_id)
    <3>1. r = cls_iefb_fsm_event(c, "CYCLIC_WRONG_MASTER", req)
      BY <1>2, <2>3 DEF cls_iefb_handle_cyclic_input_frame, InControl
    <3>2. Kept(cls_iefb_fsm_event(c, "CYCLIC_WRONG_MASTER", req), c)
      BY <2>1, ErrorEventKept DEF Delivered
    <3> QED BY <3>1, <3>2 DEF Effect
  <2>4. CASE InControl(c) /\ cls_iefb_is_master_id_correct(c, req.master_id)
    <3> DEFINE found == cls_iefb_search_slave_parameters(c, req)
               served == cls_iefb_fsm_event(c, "CYCLIC_CORRECT_MASTER", req)
               known == /\ req.parameter_no = c.master.parameter_no
                        /\ req.group_no = c.master.group_no
    <3>1. r = HandleOwnMaster(c, req)
      BY <1>2, <2>4 DEF cls_iefb_handle_cyclic_input_frame, InControl
    <3>2. req.master_id = c.master.master_id
      BY <2>4 DEF cls_iefb_is_master_id_correct
    <3>3. r = found \/ (r = served /\ known) \/ r = c
      BY <3>1 DEF HandleOwnMaster
    <3>4. Effect(found, c, req)
      BY <2>1, SearchEffect
    <3>5. known => Effect(served, c, req)
      BY <2>1, <2>4, <3>2, OwnMasterServed
    <3> HIDE DEF r, found, served, known
    <3>6. Effect(r, c, req)
      BY <1>0, <3>3, <3>4, <3>5
    <3> QED BY <3>6 DEF r
  <2> QED BY <2>2, <2>3, <2>4
<1> QED BY <1>1, <1>2

-----------------------------------------------------------------------------
(* A call of the periodic handler.                                         *)

(* A response of r that is not one of c carries data only if it goes to    *)
(* the master that controlled c.                                           *)
ToController(x, c) ==
    /\ InControl(c)
    /\ x.remote_ip = c.master.master_id
    /\ x.group_no = c.master.group_no
    /\ x.end_code = "SUCCESS"

SentSafely(r, c) ==
    \A x \in r.sent : x \in c.sent \/ x.rx = NoData \/ ToController(x, c)

LEMMA EffectSentSafely ==
    ASSUME NEW r, NEW c, NEW req, Effect(r, c, req)
    PROVE  SentSafely(r, c)
<1>1. CASE OnlyEmpty(r, c)
  BY <1>1 DEF OnlyEmpty, SentSafely
<1>2. CASE Served(r, c, req) /\ ~OnlyEmpty(r, c)
  BY <1>2 DEF Served, SentSafely, ToController
<1> QED BY <1>1, <1>2 DEF Effect, Kept, Freed

LEMMA IncomingData ==
    ASSUME ip \in SlaveIps \cup {NoIp}, NEW req \in Incoming, req # NoRequest
    PROVE  \A i \in 1..Len(req.slave_ids) :
              req.data[i] = Payload(req.master_id, req.parameter_no, i)
<1>1. PICK q \in Requests : req = [q EXCEPT !.slave_ip_addr = ip]
  BY DEF Incoming
<1>2. /\ q \in RequestType({NoIp})
      /\ \A i \in 1..Len(q.slave_ids) :
            q.data[i] = Payload(q.master_id, q.parameter_no, i)
  BY RequestAssumption
<1>3. /\ req.slave_ids = q.slave_ids
      /\ req.data = q.data
      /\ req.master_id = q.master_id
      /\ req.parameter_no = q.parameter_no
  BY <1>1, <1>2 DEF RequestType
<1> QED BY <1>2, <1>3

(* The struct when the request is taken from the socket.                   *)
LEMMA Woken ==
    ASSUME NEW c, SlaveInv(c), NEW d \in Nat
    PROVE  LET w == Advance(NewCall(c), d)
           IN  /\ SlaveInv(w)
               /\ w.state = c.state
               /\ w.master = c.master
               /\ w.data = c.data
               /\ w.sent = {}
               /\ w.receive_timer = TimerAdvance(c.receive_timer, d)
<1> DEFINE called == NewCall(c)
           w == Advance(called, d)
<1>1. SlaveInv(called) /\ SameConnection(called, c)
  BY NewCallInv
<1>2. called.data = c.data /\ called.sent = {}
  BY DEF NewCall, SlaveInv, ClsType
<1> HIDE DEF called
<1>3. /\ SlaveInv(w)
      /\ w.state = called.state
      /\ w.master = called.master
  BY <1>1, AdvanceInv
<1>4. /\ w.data = called.data
      /\ w.sent = called.sent
      /\ w.receive_timer = TimerAdvance(called.receive_timer, d)
  BY <1>1 DEF Advance, SlaveInv, ClsType
<1> HIDE DEF w
<1>5. /\ SlaveInv(w)
      /\ w.state = c.state
      /\ w.master = c.master
      /\ w.data = c.data
      /\ w.sent = {}
      /\ w.receive_timer = TimerAdvance(c.receive_timer, d)
  BY <1>1, <1>2, <1>3, <1>4 DEF SameConnection
<1> QED BY <1>5 DEF w, called

(* What is true after the call, given the woken struct w.                  *)
CallEffect(r, w, req) ==
    /\ SentSafely(r, w)
    /\ InControl(r) => /\ Kept(r, w) \/ Served(r, w, req)
                       /\ ~cl_timer_is_expired(r.receive_timer)

LEMMA PeriodicEffect ==
    ASSUME NEW c, SlaveInv(c), NEW d \in Nat, ip \in SlaveIps \cup {NoIp},
           NEW req \in Incoming
    PROVE  CallEffect(cls_iefb_periodic(c, d, req), Advance(NewCall(c), d), req)
<1> DEFINE woken == Advance(NewCall(c), d)
           framed == cls_iefb_handle_cyclic_input_frame(woken, req)
           received == IF req = NoRequest THEN woken ELSE framed
           monitored == MonitorReceiveTimer(received)
           r == MonitorDisablingTimer(monitored)
<1>1. SlaveInv(woken)
  BY Woken
<1>2. cls_iefb_periodic(c, d, req) = r
  BY DEF cls_iefb_periodic
<1> HIDE DEF woken
<1>3. SlaveInv(received) /\ Effect(received, woken, req)
  <2>1. CASE req = NoRequest
    <3>1. received = woken
      BY <2>1
    <3>2. Effect(woken, woken, req)
      BY DEF Effect, Kept, OnlyEmpty
    <3> QED BY <1>1, <3>1, <3>2
  <2>2. CASE req # NoRequest
    <3>1. /\ req \in RequestType(SlaveIps \cup {NoIp})
          /\ Len(req.data) = Len(req.slave_ids)
      BY <2>2, IncomingType
    <3>2. \A i \in 1..Len(req.slave_ids) :
              req.data[i] = Payload(req.master_id, req.parameter_no, i)
      BY <2>2, IncomingData
    <3>3. received = framed
      BY <2>2
    <3>4. SlaveInv(framed)
      BY <1>1, <3>1, InputFrame
    <3>5. Effect(framed, woken, req)
      BY <1>1, <3>1, <3>2, InputFrameEffect
    <3> QED BY <3>3, <3>4, <3>5
  <2> QED BY <2>1, <2>2
<1>4. SentSafely(received, woken)
  BY <1>3, EffectSentSafely
<1> HIDE DEF received
<1>5. /\ monitored = received \/ Freed(monitored, received)
      /\ InControl(monitored) => ~cl_timer_is_expired(monitored.receive_timer)
  BY <1>3, MonitorReceiveEffect
<1>6. SlaveInv(monitored)
  BY <1>3, MonitorReceive
<1> HIDE DEF monitored
<1>7. r = monitored \/ Freed(r, monitored)
  BY <1>6, MonitorDisablingEffect
<1> HIDE DEF r
<1>8. OnlyEmpty(r, received)
  BY <1>5, <1>7 DEF Freed, OnlyEmpty
<1>9. SentSafely(r, woken)
  BY <1>4, <1>8 DEF OnlyEmpty, SentSafely
<1>10. InControl(r) => /\ r = received
                       /\ ~cl_timer_is_expired(r.receive_timer)
  BY <1>5, <1>7 DEF Freed
<1>11. InControl(r) => Kept(r, woken) \/ Served(r, woken, req)
  BY <1>3, <1>10 DEF Effect, Freed
<1>12. CallEffect(r, woken, req)
  BY <1>9, <1>10, <1>11 DEF CallEffect
<1> QED BY <1>2, <1>12 DEF woken

-----------------------------------------------------------------------------
(* The invariant of the specification.                                     *)

(***************************************************************************)
(* The silence the slave has heard since its last success answer is never  *)
(* ahead of its receive timer, and that timer has not expired between      *)
(* calls.  This is what makes NoStaleControl inductive: the property       *)
(* itself says nothing about the timer.                                    *)
(***************************************************************************)
SilenceIsTimed ==
    InControl(cls) => /\ silence <= cls.receive_timer.elapsed
                      /\ cls.receive_timer.elapsed < cls.receive_timer.period

DataInv == IInv /\ DataFromController /\ SilenceIsTimed

(* What a step may do with the responses, for the handshake.               *)
StepSends ==
    \A x \in cls'.sent \ cls.sent : x.rx = NoData \/ ToController(x, cls)

LEMMA DataInit == Init => DataInv
<1> SUFFICES ASSUME Init PROVE DataInv
  OBVIOUS
<1>1. IInv
  BY InitInv
<1>2. ~InControl(cls)
  BY StartInv DEF Init, InControl
<1> QED BY <1>1, <1>2 DEF DataInv, DataFromController, SilenceIsTimed, InControl

(* TimerAdvance() on a running timer.                                      *)
LEMMA ElapsedAdvances ==
    ASSUME NEW t \in Timer(Nat), NEW d \in Nat, t.state = "RUNNING",
           NEW s \in Nat, s <= t.elapsed,
           ~cl_timer_is_expired(TimerAdvance(t, d))
    PROVE  /\ s + d <= TimerAdvance(t, d).elapsed
           /\ TimerAdvance(t, d).elapsed < TimerAdvance(t, d).period
  BY DEF Timer, TimerAdvance, cl_timer_is_expired

LEMMA PeriodicData == DataInv /\ Periodic => DataInv' /\ StepSends
<1> SUFFICES ASSUME DataInv, NEW d \in 0..MaxDelay, NEW req \in Incoming,
                    cls_handle_periodic(d, req)
             PROVE  DataInv' /\ StepSends
  BY DEF Periodic
<1> DEFINE w == Advance(NewCall(cls), d)
           r == cls_iefb_periodic(cls, d, req)
<1>0. IInv'
  <2>1. Periodic
    BY DEF Periodic
  <2> QED BY <2>1, PeriodicStep DEF DataInv, StepInv
<1>1. d \in Nat /\ SlaveInv(cls) /\ ip \in SlaveIps \cup {NoIp}
  BY MaxDelayAssumption DEF DataInv, IInv
<1>2. cls' = r
  BY DEF cls_handle_periodic
<1>3. /\ SlaveInv(w)
      /\ w.state = cls.state
      /\ w.master = cls.master
      /\ w.data = cls.data
      /\ w.sent = {}
      /\ w.receive_timer = TimerAdvance(cls.receive_timer, d)
  BY <1>1, Woken
<1>4. CallEffect(cls', w, req)
  BY <1>1, <1>2, PeriodicEffect
<1> HIDE DEF w, r
<1>5. StepSends
  BY <1>3, <1>4 DEF CallEffect, SentSafely, StepSends, ToController, InControl
<1>6. CASE ~InControl(cls')
  BY <1>0, <1>5, <1>6 DEF DataInv, DataFromController, SilenceIsTimed, InControl
<1>7. CASE InControl(cls') /\ Kept(cls', w)
  <2>1. InControl(cls) /\ cls'.master = cls.master /\ cls'.data = cls.data
    BY <1>3, <1>7 DEF Kept, InControl
  <2>2. DataFromController'
    BY <2>1 DEF DataInv, DataFromController, InControl
  <2>3. /\ cls'.receive_timer = TimerAdvance(cls.receive_timer, d)
        /\ ~cl_timer_is_expired(cls'.receive_timer)
    BY <1>3, <1>4, <1>7 DEF Kept, CallEffect
  <2>4. /\ cls.receive_timer \in Timer(Nat)
        /\ cls.receive_timer.state = "RUNNING"
        /\ silence \in Nat
        /\ silence <= cls.receive_timer.elapsed
    BY <2>1 DEF DataInv, SilenceIsTimed, IInv, SlaveInv, ClsType, TimersAgree
  <2>5. /\ silence + d <= cls'.receive_timer.elapsed
        /\ cls'.receive_timer.elapsed < cls'.receive_timer.period
    BY <1>1, <2>3, <2>4, ElapsedAdvances
  <2>6. silence' <= silence + d
    <3>1. TotalTimeout(cls'.master) \in Nat
      BY <1>0, TotalTimeoutType
         DEF IInv, SlaveInv, ClsType, MasterType, TotalTimeout
    <3> QED BY <1>1, <2>4, <3>1 DEF cls_handle_periodic, LeastOf
  <2>7. /\ cls'.receive_timer.elapsed \in Nat
        /\ silence' \in Nat
    BY <1>0 DEF IInv, SlaveInv, ClsType, Timer
  <2>8. SilenceIsTimed'
    BY <1>1, <2>4, <2>5, <2>6, <2>7 DEF SilenceIsTimed
  <2> QED BY <1>0, <1>5, <2>2, <2>8 DEF DataInv
<1>8. CASE InControl(cls') /\ Served(cls', w, req)
  <2>1. DataFromController'
    BY <1>8 DEF Served, DataFromController
  <2>2. silence' = 0
    BY <1>8 DEF Served, cls_handle_periodic
  <2>3. /\ cls'.receive_timer \in Timer(Nat)
        /\ cls'.receive_timer.state = "RUNNING"
    BY <1>0, <1>8 DEF IInv, SlaveInv, ClsType, TimersAgree
  <2>4. ~cl_timer_is_expired(cls'.receive_timer)
    BY <1>4, <1>8 DEF CallEffect
  <2>5. SilenceIsTimed'
    BY <2>2, <2>3, <2>4 DEF SilenceIsTimed, Timer, cl_timer_is_expired
  <2> QED BY <1>0, <1>5, <2>1, <2>5 DEF DataInv
<1> QED BY <1>4, <1>6, <1>7, <1>8 DEF CallEffect

(* A step that keeps the connection, or frees the slave, without waiting.  *)
LEMMA UntimedStep ==
    ASSUME DataInv, IInv', silence' = silence, NEW c,
           c.state = cls.state, c.master = cls.master, c.data = cls.data,
           c.receive_timer = cls.receive_timer, c.sent = {},
           Kept(cls', c) \/ Freed(cls', c)
    PROVE  DataInv' /\ StepSends
<1>1. StepSends
  BY DEF StepSends, Kept, Freed, OnlyEmpty
<1>2. CASE ~InControl(cls')
  BY <1>1, <1>2 DEF DataInv, DataFromController, SilenceIsTimed, InControl
<1>3. CASE InControl(cls')
  <2>1. /\ cls'.state = cls.state
        /\ cls'.master = cls.master
        /\ cls'.data = cls.data
        /\ cls'.receive_timer = cls.receive_timer
    BY <1>3 DEF Kept, Freed
  <2>2. DataFromController'
    BY <2>1 DEF DataInv, DataFromController
  <2>3. SilenceIsTimed'
    BY <2>1 DEF DataInv, SilenceIsTimed, InControl
  <2> QED BY <1>1, <2>2, <2>3 DEF DataInv
<1> QED BY <1>2, <1>3

LEMMA StopData ==
    ASSUME DataInv, NEW is_error \in BOOLEAN, cls_stop_cyclic_data(is_error)
    PROVE  DataInv' /\ StepSends
<1> DEFINE called == NewCall(cls)
           stopping == [called EXCEPT !.endcode_slave_disabled =
                            IF is_error THEN "SLAVE_ERROR"
                            ELSE "SLAVE_REQUESTS_DISCONNECT"]
           r == cls_iefb_fsm_event(stopping, "DISABLE_SLAVE", NoRequest)
<1>1. SlaveInv(called) /\ SameConnection(called, cls)
  BY NewCallInv DEF DataInv, IInv
<1>2. called.data = cls.data /\ called.sent = {}
  BY DEF NewCall, DataInv, IInv, SlaveInv, ClsType
<1>3. cls' = r
  BY DEF cls_stop_cyclic_data, cls_iefb_disable_slave
<1> HIDE DEF called
<1>4. /\ stopping \in ClsType
      /\ SameConnection(stopping, called)
      /\ stopping.data = called.data
      /\ stopping.sent = called.sent
  BY <1>1 DEF SlaveInv, ClsType, SameConnection
<1> HIDE DEF stopping
<1>5. SlaveInv(stopping)
  BY <1>1, <1>4, SameConnectionInv
<1>6. Kept(r, stopping) \/ Freed(r, stopping)
  BY <1>5, ApplicationEventEffect
<1> HIDE DEF r
<1>7. IInv'
  BY StopStep DEF DataInv, StepInv
<1>8. /\ stopping.state = cls.state
      /\ stopping.master = cls.master
      /\ stopping.data = cls.data
      /\ stopping.receive_timer = cls.receive_timer
      /\ stopping.sent = {}
  BY <1>1, <1>2, <1>4 DEF SameConnection
<1>9. silence' = silence
  BY DEF cls_stop_cyclic_data
<1> QED BY <1>3, <1>6, <1>7, <1>8, <1>9, UntimedStep

LEMMA RestartData ==
    ASSUME DataInv, cls_restart_cyclic_data
    PROVE  DataInv' /\ StepSends
<1> DEFINE called == NewCall(cls)
           r == cls_iefb_fsm_event(called, "REENABLE_SLAVE", NoRequest)
<1>1. SlaveInv(called) /\ SameConnection(called, cls)
  BY NewCallInv DEF DataInv, IInv
<1>2. called.data = cls.data /\ called.sent = {}
  BY DEF NewCall, DataInv, IInv, SlaveInv, ClsType
<1>3. cls' = r
  BY DEF cls_restart_cyclic_data, cls_iefb_reenable_slave
<1> HIDE DEF called
<1>4. Kept(r, called) \/ Freed(r, called)
  BY <1>1, ApplicationEventEffect
<1> HIDE DEF r
<1>5. IInv'
  BY RestartStep DEF DataInv, StepInv
<1>6. /\ called.state = cls.state
      /\ called.master = cls.master
      /\ called.receive_timer = cls.receive_timer
  BY <1>1 DEF SameConnection
<1>7. silence' = silence
  BY DEF cls_restart_cyclic_data
<1> QED BY <1>2, <1>3, <1>4, <1>5, <1>6, <1>7, UntimedStep

LEMMA SetRxData ==
    ASSUME DataInv, NEW value \in RxValues, cls_set_rx(value)
    PROVE  DataInv' /\ StepSends
<1> DEFINE called == NewCall(cls)
<1>1. SlaveInv(called) /\ SameConnection(called, cls)
  BY NewCallInv DEF DataInv, IInv
<1>2. called.data = cls.data /\ called.sent = {}
  BY DEF NewCall, DataInv, IInv, SlaveInv, ClsType
<1>3. cls' = [called EXCEPT !.rx = value]
  BY DEF cls_set_rx
<1> HIDE DEF called
<1>4. Kept(cls', called)
  BY <1>1, <1>3 DEF SlaveInv, ClsType, Kept, OnlyEmpty
<1>5. IInv'
  BY SetRxStep DEF DataInv, StepInv
<1>6. /\ called.state = cls.state
      /\ called.master = cls.master
      /\ called.receive_timer = cls.receive_timer
  BY <1>1 DEF SameConnection
<1>7. silence' = silence
  BY DEF cls_set_rx
<1> QED BY <1>2, <1>4, <1>5, <1>6, <1>7, UntimedStep

LEMMA DataNext == DataInv /\ [Next]_vars => DataInv' /\ StepSends
<1> SUFFICES ASSUME DataInv, [Next]_vars PROVE DataInv' /\ StepSends
  OBVIOUS
<1>1. CASE Periodic
  BY <1>1, PeriodicData
<1>2. CASE \E is_error \in BOOLEAN : cls_stop_cyclic_data(is_error)
  BY <1>2, StopData
<1>3. CASE cls_restart_cyclic_data
  BY <1>3, RestartData
<1>4. CASE \E value \in RxValues : cls_set_rx(value)
  BY <1>4, SetRxData
<1>5. CASE \E address \in SlaveIps \cup {NoIp} : ChangeIp(address)
  BY <1>5, NextInv DEF ChangeIp, DataInv, IInv, DataFromController,
                       SilenceIsTimed, StepSends
<1>6. CASE cls_init
  <2>1. SlaveInv(cls') /\ ~InControl(cls') /\ cls'.sent = {}
    BY <1>6, StartInv DEF cls_init, InControl
  <2>2. IInv'
    BY NextInv DEF DataInv, StepInv
  <2> QED BY <2>1, <2>2 DEF DataInv, DataFromController, SilenceIsTimed,
                            StepSends, InControl
<1>7. CASE UNCHANGED vars
  BY <1>7 DEF vars, DataInv, IInv, DataFromController, SilenceIsTimed,
              StepSends
<1> QED BY <1>1, <1>2, <1>3, <1>4, <1>5, <1>6, <1>7 DEF Next

LEMMA DataInvHolds == Spec => []DataInv
<1>1. DataInv /\ [Next]_vars => DataInv'
  BY DataNext
<1> QED BY DataInit, <1>1, PTL DEF Spec

(***************************************************************************)
(* RY and RWw of a controlled slave hold nothing, or what its master sent  *)
(* under its present parameter number for exactly the stations the slave   *)
(* occupies (cls_iefb_copy_cyclic_data_from_request(), which no path       *)
(* reaches with the station or the parameter number of an earlier          *)
(* connection).                                                            *)
(***************************************************************************)
THEOREM SlaveDataFromController == Spec => []DataFromController
<1>1. DataInv => DataFromController
  BY DEF DataInv
<1> QED BY DataInvHolds, <1>1, PTL

(***************************************************************************)
(* REQ_CLS_TIMING_01: a controlled slave has heard, and answered, its      *)
(* master less than the timeout ago that this master asked for             *)
(* (cls_iefb_periodic() and the receive timer).                            *)
(***************************************************************************)
THEOREM SlaveNoStaleControl == Spec => []NoStaleControl
<1>1. DataInv => NoStaleControl
  <2> SUFFICES ASSUME DataInv, InControl(cls)
               PROVE  silence < TotalTimeout(cls.master)
    BY DEF NoStaleControl, InControl
  <2>1. /\ silence \in Nat
        /\ cls.receive_timer.elapsed \in Nat
        /\ cls.receive_timer.period \in Nat
        /\ cls.receive_timer.period = TotalTimeout(cls.master)
    BY DEF DataInv, IInv, SlaveInv, ClsType, Timer, TimersAgree
  <2>2. /\ silence <= cls.receive_timer.elapsed
        /\ cls.receive_timer.elapsed < cls.receive_timer.period
    BY DEF DataInv, SilenceIsTimed
  <2> QED BY <2>1, <2>2
<1> QED BY DataInvHolds, <1>1, PTL

(***************************************************************************)
(* RX and RWr leave the slave only in a success response to the master and *)
(* the group that already controlled it before the request came: the       *)
(* answer that makes a connection is empty                                 *)
(* (cls_iefb_search_slave_parameters() connects with the transmission bit  *)
(* off only).                                                              *)
(***************************************************************************)
THEOREM SlaveHandshakeBeforeData == Spec => HandshakeBeforeData
<1>1. DataInv /\ [Next]_vars =>
        [\A response \in cls'.sent \ cls.sent :
            response.rx # NoData =>
                /\ cls.state = "MASTER_CONTROL"
                /\ response.remote_ip = cls.master.master_id
                /\ response.group_no = cls.master.group_no
                /\ response.end_code = "SUCCESS"]_vars
  BY DataNext DEF StepSends, ToController, InControl
<1> QED BY DataInvHolds, <1>1, PTL DEF Spec, HandshakeBeforeData
=============================================================================
