------------------------------ MODULE ClsIefb ------------------------------
(***************************************************************************)
(* The cyclic half of the slave stack, src/src/slave/cls_iefb.c: the slave *)
(* state machine and the functions it is made of, as operators on the      *)
(* struct cls_t.  ClsSlave runs one slave against an arbitrary network.    *)
(*                                                                         *)
(* Fields of cls:                                                          *)
(*   state, master, receive_timer, timer_for_disabling_slave, data (RY and *)
(*   RWw of the occupied stations), rx (RX and RWr written by the          *)
(*   application), endcode_slave_disabled, trigger                         *)
(*   (master_state_callback_trigger_data);                                 *)
(* and what leaves the stack:                                              *)
(*   app   what the application was told last by connect_cb,               *)
(*         disconnect_cb and master_running_cb,                            *)
(*   sent  the responses sent during the current call into the stack,      *)
(*   errors  the errors offered to the error limiter during that call.     *)
(*                                                                         *)
(* An operator that no other definition uses is a fault variant: the       *)
(* operator defined right after it with a plausible mistake, kept to show  *)
(* that the properties of ClsSlave notice the mistake.                     *)
(***************************************************************************)
EXTENDS ClIefb, ClTimer

CONSTANTS
    NumOccupied,            \* config.num_occupied_stations
    WaitTimeDisableSlave    \* CLS_CCIEFB_WAIT_TIME_DISABLE_SLAVE

(* Of the configuration only the number of stations matters here.          *)
cls_validate_config == NumOccupied \in MinOccupied..MaxOccupied

ASSUME NumOccupiedAssumption == cls_validate_config
ASSUME WaitTimeAssumption == WaitTimeDisableSlave \in Nat \ {0}

cls_slave_states ==
    {"SLAVE_DOWN", "MASTER_NONE", "MASTER_CONTROL", "WAIT_DISABLING_SLAVE",
     "SLAVE_DISABLED"}

NoMaster ==
    [master_id |-> NoIp, parameter_no |-> 0, group_no |-> 0,
     slave_station_no |-> 0, timeout_value |-> 0,
     parallel_off_timeout_count |-> 0]

ClearedArea == [i \in 1..NumOccupied |-> NoData]

NeverTriggered ==
    [executed_before |-> FALSE, previous_connected_to_master |-> FALSE,
     previous_protocol_ver |-> 0, previous_master_application_status |-> 0]

(* cls_slave_init() clears the whole struct before the state machine runs. *)
cls_memory_cleared ==
    [state |-> "SLAVE_DOWN",
     master |-> NoMaster,
     receive_timer |-> cl_timer_stop,
     timer_for_disabling_slave |-> cl_timer_stop,
     data |-> ClearedArea,
     rx |-> NoData,
     endcode_slave_disabled |-> "SUCCESS",
     trigger |-> NeverTriggered,
     app |-> [connected |-> FALSE, master_connected |-> FALSE,
              running |-> FALSE, stopped_by_user |-> FALSE],
     sent |-> {},
     errors |-> {}]

-----------------------------------------------------------------------------
(* Responses.  Only a normal response carries RX and RWr; the error frame  *)
(* is the one prepared with cleared areas.                                 *)

cls_iefb_send_cyclic_response_frame(cls, req, include_data, end_code) ==
    [cls EXCEPT !.sent = @ \cup
        {[remote_ip |-> req.remote_ip,
          slave_id |-> req.slave_ip_addr,
          group_no |-> req.group_no,
          frame_sequence_no |-> req.frame_sequence_no,
          end_code |-> end_code,
          occupied |-> NumOccupied,
          rx |-> IF include_data THEN cls.rx ELSE NoData]}]

cls_iefb_send_cyclic_response_error_frame(cls, req, end_code) ==
    cls_iefb_send_cyclic_response_frame(cls, req, FALSE, end_code)

cls_iefb_trigger_error_callback(cls, error_message) ==
    [cls EXCEPT !.errors = @ \cup {error_message}]

(***************************************************************************)
(* The master state callback.  It runs on a change only; the comparison is *)
(* made with the previous values, filtered or not.                         *)
(***************************************************************************)
StatusChangeIgnored(trigger, connected, protocol_ver, status) ==
    \/ ~trigger.executed_before
    \/ connected # trigger.previous_connected_to_master
    \/ protocol_ver # trigger.previous_protocol_ver

cls_iefb_should_trigger_master_state_callback(trigger, connected, protocol_ver, status) ==
    \/ ~trigger.executed_before
    \/ connected # trigger.previous_connected_to_master
    \/ protocol_ver # trigger.previous_protocol_ver
    \/ status # trigger.previous_master_application_status

IsRunning(status) == status \in {1, 3}
IsStoppedByUser(status) == status \in {2, 3}

cls_iefb_filter_master_state_callback_values(app, connected, protocol_ver, status) ==
    [app EXCEPT
        !.master_connected = connected,
        !.running = connected /\ IsRunning(status),
        !.stopped_by_user = /\ connected
                            /\ protocol_ver > 1
                            /\ ~IsRunning(status)
                            /\ IsStoppedByUser(status)]

cls_iefb_handle_master_state_callback(cls, connected, protocol_ver, status) ==
    [cls EXCEPT
        !.app = IF cls_iefb_should_trigger_master_state_callback(
                       cls.trigger, connected, protocol_ver, status)
                THEN cls_iefb_filter_master_state_callback_values(
                       cls.app, connected, protocol_ver, status)
                ELSE @,
        !.trigger = [executed_before |-> TRUE,
                     previous_connected_to_master |-> connected,
                     previous_protocol_ver |-> protocol_ver,
                     previous_master_application_status |-> status]]

ReceiveTimerLeftRunning(cls) ==
    cls_iefb_handle_master_state_callback(
        [cls EXCEPT !.master = NoMaster,
                    !.timer_for_disabling_slave = cl_timer_stop],
        FALSE, 0, 0)

cls_iefb_clear_master_info(cls) ==
    cls_iefb_handle_master_state_callback(
        [cls EXCEPT !.master = NoMaster,
                    !.receive_timer = cl_timer_stop,
                    !.timer_for_disabling_slave = cl_timer_stop],
        FALSE, 0, 0)

-----------------------------------------------------------------------------
(* Transition actions.                                                     *)

EndcodeNotInitialised(cls) ==
    [cls_iefb_clear_master_info(
        [cls EXCEPT !.receive_timer = cl_timer_stop,
                    !.timer_for_disabling_slave = cl_timer_stop,
                    !.data = ClearedArea,
                    !.trigger = NeverTriggered])
     EXCEPT !.rx = NoData]

cls_iefb_slave_init(cls) ==
    [cls_iefb_clear_master_info(
        [cls EXCEPT !.receive_timer = cl_timer_stop,
                    !.timer_for_disabling_slave = cl_timer_stop,
                    !.data = ClearedArea,
                    !.trigger = NeverTriggered])
     EXCEPT !.endcode_slave_disabled = "SLAVE_REQUESTS_DISCONNECT",
            !.rx = NoData]

WrongMasterRestartsTimer(cls, req) ==
    cls_iefb_send_cyclic_response_error_frame(
        [cls EXCEPT !.receive_timer = cl_timer_restart(@)],
        req, "MASTER_DUPLICATION")

cls_iefb_handle_wrong_master(cls, req) ==
    cls_iefb_send_cyclic_response_error_frame(
        cls_iefb_trigger_error_callback(cls, "MASTER_STATION_DUPLICATION"),
        req, "MASTER_DUPLICATION")

cls_iefb_handle_wrong_stationcount(cls, req) ==
    cls_iefb_send_cyclic_response_error_frame(
        cls, req, "WRONG_NUMBER_OCCUPIED_STATIONS")

WaitProlongedByRequest(cls, req) ==
    cls_iefb_send_cyclic_response_error_frame(
        [cls EXCEPT !.timer_for_disabling_slave = cl_timer_restart(@)],
        req, cls.endcode_slave_disabled)

cls_iefb_handle_incoming_when_disabled(cls, req) ==
    cls_iefb_send_cyclic_response_error_frame(
        cls, req, cls.endcode_slave_disabled)

(* The slave station number was stored before the event was raised.        *)
cls_iefb_handle_new_or_updated_master(cls, req) ==
    cls_iefb_handle_master_state_callback(
        [cls EXCEPT
            !.master.master_id = req.master_id,
            !.master.parameter_no = req.parameter_no,
            !.master.group_no = req.group_no,
            !.master.timeout_value = req.timeout_value,
            !.master.parallel_off_timeout_count =
                req.parallel_off_timeout_count,
            !.receive_timer = cl_timer_start(cl_calculate_total_timeout(
                req.timeout_value, req.parallel_off_timeout_count)),
            !.app.connected = TRUE],
        TRUE, req.protocol_ver, req.master_local_unit_info)

(* The stations the slave occupies lie inside the frame.                   *)
IsDataInRequest(req, start_number) ==
    LET end_number == start_number + NumOccupied - 1
    IN  /\ total_occupied(req) >= NumOccupied
        /\ start_number \in MinOccupied..MaxOccupied
        /\ end_number <= MaxOccupied
        /\ end_number <= total_occupied(req)

DataKeptWhenBitOff(cls, req, start_number, transmission_bit) ==
    IF transmission_bit
    THEN [cls EXCEPT !.data =
            [i \in 1..NumOccupied |-> req.data[start_number + i - 1]]]
    ELSE cls

cls_iefb_copy_cyclic_data_from_request(cls, req, start_number, transmission_bit) ==
    [cls EXCEPT !.data =
        IF transmission_bit
        THEN [i \in 1..NumOccupied |-> req.data[start_number + i - 1]]
        ELSE ClearedArea]

(* A request that does not hold the slave's stations is dropped without an *)
(* answer and without restarting the receive timer.                        *)
cls_iefb_handle_cyclic_event(cls, req) ==
    LET station == cls.master.slave_station_no
        transmission_bit == cl_iefb_extract_my_transmission_state(req, station)
        copied == cls_iefb_copy_cyclic_data_from_request(
                      cls, req, station, transmission_bit)
        told == cls_iefb_handle_master_state_callback(
                    copied, TRUE, req.protocol_ver, req.master_local_unit_info)
        answered == cls_iefb_send_cyclic_response_frame(
                        told, req, transmission_bit, "SUCCESS")
    IN  IF IsDataInRequest(req, station)
        THEN [answered EXCEPT !.receive_timer = cl_timer_restart(@)]
        ELSE cls

-----------------------------------------------------------------------------
(* Entry and exit actions of the states.                                   *)

cls_iefb_on_exit_master_control(cls) == [cls EXCEPT !.app.connected = FALSE]

cls_iefb_on_entry_master_none(cls) == cls_iefb_clear_master_info(cls)

cls_iefb_on_entry_wait_disabling_slave(cls) ==
    [cls_iefb_clear_master_info(cls)
     EXCEPT !.timer_for_disabling_slave = cl_timer_start(WaitTimeDisableSlave)]

cls_iefb_on_entry_slave_disabled(cls) ==
    [cls EXCEPT !.timer_for_disabling_slave = cl_timer_stop]

OnExit(cls, state) ==
    IF state = "MASTER_CONTROL" THEN cls_iefb_on_exit_master_control(cls)
    ELSE cls

OnEntry(cls, state) ==
    CASE state = "MASTER_NONE" -> cls_iefb_on_entry_master_none(cls)
      [] state = "WAIT_DISABLING_SLAVE" ->
            cls_iefb_on_entry_wait_disabling_slave(cls)
      [] state = "SLAVE_DISABLED" -> cls_iefb_on_entry_slave_disabled(cls)
      [] OTHER -> cls

(***************************************************************************)
(* The transition table: the next state for a state and an event.  Every   *)
(* pair that is not listed stays in its state and has no action.  The two  *)
(* rows for CLS_SLAVE_EVENT_IP_UPDATED are left out: no code raises it.    *)
(***************************************************************************)
transitions ==
    { <<"SLAVE_DOWN", "STARTUP", "MASTER_NONE">>,
      <<"MASTER_NONE", "CYCLIC_NEW_MASTER", "MASTER_CONTROL">>,
      <<"MASTER_NONE", "CYCLIC_WRONG_STATIONCOUNT", "MASTER_NONE">>,
      <<"MASTER_NONE", "DISABLE_SLAVE", "SLAVE_DISABLED">>,
      <<"MASTER_CONTROL", "CYCLIC_CORRECT_MASTER", "MASTER_CONTROL">>,
      <<"MASTER_CONTROL", "CYCLIC_WRONG_MASTER", "MASTER_CONTROL">>,
      <<"MASTER_CONTROL", "CYCLIC_NEW_MASTER", "MASTER_CONTROL">>,
      <<"MASTER_CONTROL", "CYCLIC_WRONG_STATIONCOUNT", "MASTER_NONE">>,
      <<"MASTER_CONTROL", "TIMEOUT_MASTER", "MASTER_NONE">>,
      <<"MASTER_CONTROL", "DISABLE_SLAVE", "WAIT_DISABLING_SLAVE">>,
      <<"WAIT_DISABLING_SLAVE", "REENABLE_SLAVE", "MASTER_NONE">>,
      <<"WAIT_DISABLING_SLAVE", "CYCLIC_INCOMING_WHEN_DISABLED",
            "WAIT_DISABLING_SLAVE">>,
      <<"WAIT_DISABLING_SLAVE", "DISABLE_SLAVE_WAIT_ENDED", "SLAVE_DISABLED">>,
      <<"SLAVE_DISABLED", "REENABLE_SLAVE", "MASTER_NONE">> }

HasTransition(state, event) ==
    \E next \in cls_slave_states : <<state, event, next>> \in transitions

NextState(state, event) ==
    CHOOSE next \in cls_slave_states : <<state, event, next>> \in transitions

(* The action column of the table depends on the event alone.              *)
TransitionAction(cls, event, req) ==
    CASE event = "STARTUP" -> cls_iefb_slave_init(cls)
      [] event = "CYCLIC_NEW_MASTER" ->
            cls_iefb_handle_new_or_updated_master(cls, req)
      [] event = "CYCLIC_CORRECT_MASTER" ->
            cls_iefb_handle_cyclic_event(cls, req)
      [] event = "CYCLIC_WRONG_MASTER" -> cls_iefb_handle_wrong_master(cls, req)
      [] event = "CYCLIC_WRONG_STATIONCOUNT" ->
            cls_iefb_handle_wrong_stationcount(cls, req)
      [] event = "CYCLIC_INCOMING_WHEN_DISABLED" ->
            cls_iefb_handle_incoming_when_disabled(cls, req)
      [] OTHER -> cls

(* One turn of the loop in cls_iefb_fsm_event(): on-exit, change of state, *)
(* transition action, on-entry.                                            *)
fsm_transition(cls, event, req) ==
    LET previous == cls.state
        next == NextState(previous, event)
        left == IF next # previous THEN OnExit(cls, previous) ELSE cls
        acted == TransitionAction([left EXCEPT !.state = next], event, req)
    IN  IF ~HasTransition(previous, event) THEN cls
        ELSE IF next # previous THEN OnEntry(acted, next) ELSE acted

(* Only cls_iefb_handle_new_or_updated_master() asks for another turn.     *)
cls_iefb_fsm_event(cls, event, req) ==
    LET once == fsm_transition(cls, event, req)
    IN  IF event = "CYCLIC_NEW_MASTER" /\ HasTransition(cls.state, event)
        THEN fsm_transition(once, "CYCLIC_CORRECT_MASTER", req)
        ELSE once

NoRequest == [none |-> TRUE]

cls_fsm_init(cls) ==
    cls_iefb_fsm_event([cls EXCEPT !.state = "SLAVE_DOWN"], "STARTUP", NoRequest)

-----------------------------------------------------------------------------
(* Incoming requests.                                                      *)

AnyMasterIdCorrect(cls, master_id) == master_id # NoIp

cls_iefb_is_master_id_correct(cls, master_id) ==
    cls.master.master_id # NoIp /\ master_id = cls.master.master_id

(* The event a request raises once the slave has looked itself up in it.   *)
ConnectsWithBitOn(cls, transmission_bit) ==
    IF cls.state = "WAIT_DISABLING_SLAVE" THEN "NONE" ELSE "CYCLIC_NEW_MASTER"

SearchEvent(cls, transmission_bit) ==
    CASE cls.state = "WAIT_DISABLING_SLAVE" /\ transmission_bit ->
            "CYCLIC_INCOMING_WHEN_DISABLED"
      [] cls.state \in {"MASTER_NONE", "MASTER_CONTROL"} /\ ~transmission_bit ->
            "CYCLIC_NEW_MASTER"
      [] OTHER -> "NONE"

cls_iefb_search_slave_parameters(cls, req) ==
    LET id == req.slave_ip_addr
        station == my_slave_station_no(id, req)
        event == SearchEvent(cls,
                    cl_iefb_extract_my_transmission_state(req, station))
    IN  IF IsSlaveIdRepeated(id, req) \/ ~IsSlaveIdFound(id, req)
        THEN cls
        ELSE IF implied_occupation_count(id, req) # NumOccupied
        THEN cls_iefb_fsm_event(
                cls_iefb_trigger_error_callback(cls, "WRONG_NUMBER_OCCUPIED"),
                "CYCLIC_WRONG_STATIONCOUNT", req)
        ELSE IF event = "CYCLIC_NEW_MASTER"
        THEN cls_iefb_fsm_event(
                [cls EXCEPT !.master.slave_station_no = station], event, req)
        ELSE IF cls.state = "MASTER_NONE"
        THEN cls_iefb_trigger_error_callback(cls, "SLAVE_STATION_DUPLICATION")
        ELSE cls_iefb_fsm_event(cls, event, req)

(* What a connected slave does with a request of its own master.           *)
HandleOwnMaster(cls, req) ==
    LET station == cls.master.slave_station_no
    IN  IF \/ req.parameter_no # cls.master.parameter_no
           \/ req.frame_sequence_no = 0
        THEN cls_iefb_search_slave_parameters(cls, req)
        ELSE IF /\ req.group_no = cls.master.group_no
                /\ cl_iefb_request_has_slave_id(req, station)
                /\ req.slave_ids[station] # NoIp
                /\ req.slave_ids[station] = req.slave_ip_addr
        THEN cls_iefb_fsm_event(cls, "CYCLIC_CORRECT_MASTER", req)
        ELSE cls

cls_iefb_handle_cyclic_input_frame(cls, req) ==
    IF \/ req.slave_ip_addr = NoIp
       \/ ~cl_iefb_parse_cyclic_request(req)
       \/ cls.state \in {"SLAVE_DOWN", "SLAVE_DISABLED"}
    THEN cls
    ELSE IF cls.state # "MASTER_CONTROL"
    THEN cls_iefb_search_slave_parameters(cls, req)
    ELSE IF ~cls_iefb_is_master_id_correct(cls, req.master_id)
    THEN cls_iefb_fsm_event(cls, "CYCLIC_WRONG_MASTER", req)
    ELSE HandleOwnMaster(cls, req)

-----------------------------------------------------------------------------
(* Entry points.                                                           *)

NewCall(cls) == [cls EXCEPT !.sent = {}, !.errors = {}]

cls_iefb_init == cls_fsm_init(cls_memory_cleared)

cls_iefb_disable_slave(cls, is_error) ==
    cls_iefb_fsm_event(
        [NewCall(cls) EXCEPT !.endcode_slave_disabled =
            IF is_error THEN "SLAVE_ERROR" ELSE "SLAVE_REQUESTS_DISCONNECT"],
        "DISABLE_SLAVE", NoRequest)

cls_iefb_reenable_slave(cls) ==
    cls_iefb_fsm_event(NewCall(cls), "REENABLE_SLAVE", NoRequest)

MonitorReceiveTimer(cls) ==
    IF cl_timer_is_expired(cls.receive_timer)
    THEN cls_iefb_fsm_event([cls EXCEPT !.receive_timer = cl_timer_stop],
                            "TIMEOUT_MASTER", NoRequest)
    ELSE cls

MonitorDisablingTimer(cls) ==
    IF cl_timer_is_expired(cls.timer_for_disabling_slave)
    THEN cls_iefb_fsm_event(
            [cls EXCEPT !.timer_for_disabling_slave = cl_timer_stop],
            "DISABLE_SLAVE_WAIT_ENDED", NoRequest)
    ELSE cls

(* d units of time have passed since the previous call; the socket holds   *)
(* the request req, or none.                                               *)
Advance(cls, d) ==
    [cls EXCEPT !.receive_timer = TimerAdvance(@, d),
                !.timer_for_disabling_slave = TimerAdvance(@, d)]

cls_iefb_periodic(cls, d, req) ==
    LET woken == Advance(NewCall(cls), d)
        received == IF req = NoRequest THEN woken
                    ELSE cls_iefb_handle_cyclic_input_frame(woken, req)
    IN  MonitorDisablingTimer(MonitorReceiveTimer(received))
=============================================================================
