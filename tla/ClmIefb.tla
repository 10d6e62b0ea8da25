------------------------------ MODULE ClmIefb ------------------------------
(***************************************************************************)
(* The cyclic half of the master stack, src/src/master/clm_iefb.c: a state *)
(* machine per slave device and one per group of devices, as operators on  *)
(* the structs clm_slave_device_data_t, clm_group_data_t and clm_t.        *)
(* ClmMaster runs one master against an arbitrary network.                 *)
(*                                                                         *)
(* Fields of a device: device_state, enabled, transmission_bit,            *)
(* force_transmission_bit, timeout_count, latest (the sequence number of   *)
(* latest_frame, NoFrame if none), ry and rx (its part of memory_area),    *)
(* and slave_id, on and data, its part of the request frame of its group.  *)
(*                                                                         *)
(* Fields of a group: group_state, frame_sequence_no, the two timers, the  *)
(* slave_devices; and what left the stack during the current call: sent    *)
(* (requests) and linkscan (the results given to linkscan_cb).             *)
(*                                                                         *)
(* Fields of clm: master_state, arbitration_timer, parameter_no,           *)
(* master_local_unit_info, groups, and errors (offered to the error        *)
(* limiter during the current call).                                       *)
(*                                                                         *)
(* Left out: the statistics, and the values of a response that are only    *)
(* passed on to the application (alarm and slave info callbacks).          *)
(* Operators no other definition uses are fault variants.                  *)
(***************************************************************************)
EXTENDS ClIefb, ClTimer

CONSTANTS
    MasterIp,             \* config.master_id
    hier,                 \* config.hier.groups
    ArbitrationTime,      \* config.arbitration_time
    MaxSequenceNo,        \* UINT16_MAX in the code
    MaxParameterNo,       \* UINT16_MAX in the code
    MasterProtocolVer     \* config.protocol_ver

group_nos == 1..Len(hier)

device_nos(g) == 1..Len(hier[g].slave_devices)

Setting(g, i) == hier[g].slave_devices[i]

(* The sum of the occupied stations of the devices before device i.        *)
StationsBefore(g, i) ==
    Cardinality({p \in device_nos(g) \X (MinOccupied..MaxOccupied) :
                    /\ p[1] < i
                    /\ p[2] <= Setting(g, p[1]).num_occupied_stations})

clm_iefb_calc_occupied_per_group(g) ==
    StationsBefore(g, Len(hier[g].slave_devices) + 1)

clm_iefb_calc_slave_station_no(g, i) == 1 + StationsBefore(g, i)

(* The fields total_occupied of a group and slave_station_no of a device,  *)
(* which do not change once the configuration is known.                    *)
total_occupied_of ==
    [g \in group_nos |-> clm_iefb_calc_occupied_per_group(g)]

slave_station_no ==
    [g \in group_nos |->
        [i \in device_nos(g) |-> clm_iefb_calc_slave_station_no(g, i)]]

MaxOccupiedForAllGroups == 64
MaxTimeoutConstantLinkscan == 2000

(* clm_validate_config() and clm_validate_config_duplicates(): the stack   *)
(* does not start with anything else.  Of the ranges of IP addresses that  *)
(* are refused only the two addresses with a meaning are kept.             *)
clm_validate_config ==
    /\ Len(hier) \in MinGroupNo..MaxGroupNo
    /\ \A g \in group_nos :
          /\ hier[g].timeout_value \in Nat \ {0}
          /\ hier[g].parallel_off_timeout_count \in Nat \ {0}
          /\ hier[g].use_constant_link_scan_time \in BOOLEAN
          /\ hier[g].use_constant_link_scan_time =>
                hier[g].timeout_value <= MaxTimeoutConstantLinkscan
          /\ Len(hier[g].slave_devices) \in MinOccupied..MaxOccupied
          /\ \A i \in device_nos(g) :
                /\ Setting(g, i).slave_id \notin {NoIp, Multistation, MasterIp}
                /\ Setting(g, i).num_occupied_stations
                        \in MinOccupied..MaxOccupied
                /\ Setting(g, i).reserved_slave_device \in BOOLEAN
          /\ clm_iefb_calc_occupied_per_group(g) <= MaxOccupied
    /\ Cardinality({p \in group_nos \X (1..MaxOccupied) :
                        p[2] <= clm_iefb_calc_occupied_per_group(p[1])})
            <= MaxOccupiedForAllGroups
    /\ MasterProtocolVer \in ProtocolVersions

clm_validate_config_duplicates ==
    \A g, h \in group_nos : \A i \in device_nos(g), j \in device_nos(h) :
        Setting(g, i).slave_id = Setting(h, j).slave_id => g = h /\ i = j

ASSUME ConfigAssumption == clm_validate_config /\ clm_validate_config_duplicates
ASSUME MasterAssumption ==
    /\ MasterIp \notin {NoIp, Multistation}
    /\ ArbitrationTime \in Nat \ {0}
    /\ MaxSequenceNo \in Nat \ {0}
    /\ MaxParameterNo \in Nat

-----------------------------------------------------------------------------
(* Sequence numbers start at 0, and at 1 once they have wrapped.           *)
clm_iefb_update_frame_sequence_no(n) == IF n = MaxSequenceNo THEN 1 ELSE n + 1

clm_iefb_calc_master_local_unit_info(protocol_ver, running, stopped_by_user) ==
    CASE running -> 1
      [] ~running /\ (protocol_ver < 2 \/ ~stopped_by_user) -> 0
      [] OTHER -> 2

clm_device_states ==
    {"MASTER_DOWN", "LISTEN", "WAIT_TD", "CYCLIC_SUSPEND", "CYCLIC_SENT",
     "CYCLIC_SENDING"}

NoFrame == MaxSequenceNo + 1

-----------------------------------------------------------------------------
(* The device state machine.                                               *)

clm_iefb_device_init(dev, g, i) ==
    [dev EXCEPT !.enabled = ~Setting(g, i).reserved_slave_device,
                !.transmission_bit = FALSE,
                !.latest = NoFrame,
                !.timeout_count = 0]

StaleDataSent(dev, g, i, new_state) ==
    LET bit == new_state = "CYCLIC_SENDING"
        combined == bit \/ dev.force_transmission_bit
    IN  [dev EXCEPT
            !.transmission_bit = bit,
            !.on = combined,
            !.slave_id = IF new_state = "CYCLIC_SUSPEND" THEN NoIp
                         ELSE Setting(g, i).slave_id,
            !.data = IF combined THEN dev.ry ELSE @]

SuspendedIdKept(dev, g, i, new_state) ==
    LET bit == new_state = "CYCLIC_SENDING"
        combined == bit \/ dev.force_transmission_bit
    IN  [dev EXCEPT
            !.transmission_bit = bit,
            !.on = combined,
            !.slave_id = Setting(g, i).slave_id,
            !.data = IF combined THEN dev.ry ELSE NoData]

(* Puts the device's part of the next request together.  The connect and   *)
(* disconnect callbacks run when transmission_bit changes.                 *)
clm_iefb_set_data_ip(dev, g, i, new_state) ==
    LET bit == new_state = "CYCLIC_SENDING"
        combined == bit \/ dev.force_transmission_bit
    IN  [dev EXCEPT
            !.transmission_bit = bit,
            !.on = combined,
            !.slave_id = IF new_state = "CYCLIC_SUSPEND" THEN NoIp
                         ELSE Setting(g, i).slave_id,
            !.data = IF combined THEN dev.ry ELSE NoData]

TimeoutCountKept(dev) == dev

clm_iefb_reset_timeout_count(dev) == [dev EXCEPT !.timeout_count = 0]

(* The transition table with its action column: state, event, next state,  *)
(* action.  Every pair that is not listed stays in its state.              *)
device_transitions ==
         { <<"MASTER_DOWN", "GROUP_STARTUP", "LISTEN", "device_init">>,
           <<"LISTEN", "DEVICE_START", "WAIT_TD", "set_data_ip">>,
           <<"LISTEN", "DEVICE_STOP", "CYCLIC_SUSPEND", "set_data_ip">>,
           <<"WAIT_TD", "RECEIVE_OK", "CYCLIC_SENT", "none">>,
           <<"WAIT_TD", "RECEIVE_ERROR", "LISTEN", "none">>,
           <<"CYCLIC_SENT", "DEVICE_START", "CYCLIC_SENDING", "set_data_ip">>,
           <<"CYCLIC_SENT", "DEVICE_STOP", "CYCLIC_SUSPEND", "none">>,
           <<"CYCLIC_SENDING", "RECEIVE_OK", "CYCLIC_SENT", "reset">>,
           <<"CYCLIC_SENDING", "RECEIVE_ERROR", "LISTEN", "none">>,
           <<"CYCLIC_SENDING", "GROUP_TIMEOUT", "CYCLIC_SENDING", "evaluate">>,
           <<"CYCLIC_SENDING", "TIMEOUTCOUNTER_FULL", "LISTEN", "none">>,
           <<"CYCLIC_SENDING", "TIMEOUTCOUNTER_NOT_FULL", "CYCLIC_SENT",
                "none">> }
    \cup {<<state, event, "LISTEN", "none">> :
            state \in {"WAIT_TD", "CYCLIC_SUSPEND"},
            event \in {"GROUP_TIMEOUT", "GROUP_ALL_RESPONDED"}}
    \cup {<<state, event, "LISTEN", "none">> :
            state \in clm_device_states \ {"MASTER_DOWN"},
            event \in {"GROUP_STANDBY", "SLAVE_DUPLICATION"}}

(* The row for a state and an event; every other pair does nothing.        *)
device_fsm_matrix(state, event) ==
    LET rows == {t \in device_transitions : t[1] = state /\ t[2] = event}
    IN  IF rows = {} THEN <<state, event, state, "none">>
        ELSE CHOOSE t \in rows : TRUE

(* The action of a transition, in a device that is in its new state.       *)
DeviceAction(dev, g, i, action) ==
    CASE action = "device_init" -> clm_iefb_device_init(dev, g, i)
      [] action = "set_data_ip" ->
            clm_iefb_set_data_ip(dev, g, i, dev.device_state)
      [] action = "reset" -> clm_iefb_reset_timeout_count(dev)
      [] action = "evaluate" -> [dev EXCEPT !.timeout_count = @ + 1]
      [] OTHER -> dev

(* LISTEN is the only state with an on-entry action.                       *)
DeviceOnEntry(dev, from) ==
    IF dev.device_state = "LISTEN" /\ from # "LISTEN"
    THEN clm_iefb_reset_timeout_count(dev)
    ELSE dev

(* One turn of the loop: change of state, action, on-entry.                *)
device_fsm_turn(dev, g, i, event) ==
    LET element == device_fsm_matrix(dev.device_state, event)
    IN  DeviceOnEntry(
            DeviceAction([dev EXCEPT !.device_state = element[3]],
                         g, i, element[4]),
            dev.device_state)

ToleratesOneMore(dev, g) ==
    IF dev.timeout_count > hier[g].parallel_off_timeout_count
    THEN "TIMEOUTCOUNTER_FULL" ELSE "TIMEOUTCOUNTER_NOT_FULL"

(* The event that clm_iefb_evaluate_timeoutcounter() asks for.             *)
clm_iefb_evaluate_timeoutcounter(dev, g) ==
    IF dev.timeout_count >= hier[g].parallel_off_timeout_count
    THEN "TIMEOUTCOUNTER_FULL" ELSE "TIMEOUTCOUNTER_NOT_FULL"

(* The second turn, after an action that asked for another event.          *)
DeviceFollowUp(dev, g, i, counted) ==
    IF counted
    THEN device_fsm_turn(dev, g, i, clm_iefb_evaluate_timeoutcounter(dev, g))
    ELSE dev

clm_iefb_device_fsm_event(dev, g, i, event) ==
    DeviceFollowUp(
        device_fsm_turn(dev, g, i, event), g, i,
        dev.device_state = "CYCLIC_SENDING" /\ event = "GROUP_TIMEOUT")

clm_iefb_device_fsm_event_all_in_group(group, g, event) ==
    [group EXCEPT !.slave_devices =
        [i \in device_nos(g) |-> clm_iefb_device_fsm_event(@[i], g, i, event)]]

-----------------------------------------------------------------------------
(* The request of a group.                                                 *)

(* The device that occupies a station.                                     *)
DeviceAt(g, station) ==
    CHOOSE i \in device_nos(g) :
        /\ slave_station_no[g][i] <= station
        /\ station < slave_station_no[g][i] + Setting(g, i).num_occupied_stations

(* The fields that stay the same from one request to the next.             *)
cl_iefb_initialise_request_frame(g, parameter_no) ==
    [kind |-> "REQUEST", slave_ip_addr |-> NoIp, remote_ip |-> MasterIp,
     well_formed |-> TRUE, protocol_ver |-> MasterProtocolVer,
     master_local_unit_info |-> 0, master_id |-> MasterIp,
     parameter_no |-> parameter_no, group_no |-> g, frame_sequence_no |-> 0,
     timeout_value |-> hier[g].timeout_value,
     parallel_off_timeout_count |-> hier[g].parallel_off_timeout_count,
     slave_ids |-> <<>>, transmission_on |-> {}, data |-> <<>>]

cl_iefb_update_request_frame_headers(frame, sequence_no, unit_info, on) ==
    [frame EXCEPT !.frame_sequence_no = sequence_no,
                  !.master_local_unit_info = unit_info,
                  !.transmission_on = on]

(* The parts of the devices, put in place by clm_iefb_set_data_ip() and    *)
(* clm_iefb_initialise_request_slave_ids().                                *)
FillInDevices(frame, devs, g) ==
    [frame EXCEPT
        !.slave_ids = [station \in 1..total_occupied_of[g] |->
            IF station \in {slave_station_no[g][i] : i \in device_nos(g)}
            THEN devs[DeviceAt(g, station)].slave_id ELSE Multistation],
        !.data = [station \in 1..total_occupied_of[g] |->
            devs[DeviceAt(g, station)].data]]

clm_iefb_send_cyclic_request_frame(group, g, clm) ==
    [group EXCEPT !.sent = @ \cup
        {cl_iefb_update_request_frame_headers(
            FillInDevices(
                cl_iefb_initialise_request_frame(g, clm.parameter_no),
                group.slave_devices, g),
            group.frame_sequence_no,
            clm.master_local_unit_info,
            {slave_station_no[g][i] :
                i \in {j \in device_nos(g) : group.slave_devices[j].on}})}]

(* The request frame is prepared once the configuration is known.          *)
clm_iefb_reflect_group_parameters(group, g) ==
    [group EXCEPT
        !.frame_sequence_no = 0,
        !.slave_devices =
            [i \in device_nos(g) |->
                [@[i] EXCEPT !.timeout_count = 0,
                             !.slave_id = Setting(g, i).slave_id,
                             !.on = FALSE,
                             !.data = NoData]]]

(***************************************************************************)
(* Whether the scan may end.  The first scan waits for every device it has *)
(* asked; a later one for the connected devices only, and for at least one *)
(* of them.                                                                *)
(***************************************************************************)
clm_iefb_group_have_received_from_all_devices(group) ==
    LET devs == group.slave_devices
        state(i) == devs[i].device_state
    IN  IF group.frame_sequence_no = 0
        THEN /\ \A i \in DOMAIN devs : state(i) # "WAIT_TD"
             /\ \E i \in DOMAIN devs : state(i) = "CYCLIC_SENT"
        ELSE /\ \E i \in DOMAIN devs : devs[i].transmission_bit
             /\ \A i \in DOMAIN devs :
                    devs[i].transmission_bit => state(i) # "CYCLIC_SENDING"

-----------------------------------------------------------------------------
(* The group state machine: what an event does to the group itself.        *)

clm_iefb_group_init(group, g) ==
    clm_iefb_device_fsm_event_all_in_group(
        [group EXCEPT
            !.response_wait_timer = cl_timer_stop,
            !.constant_linkscan_timer = cl_timer_stop,
            !.frame_sequence_no = 0,
            !.slave_devices =
                [i \in device_nos(g) |->
                    [@[i] EXCEPT !.device_state = "MASTER_DOWN",
                                 !.on = FALSE]]],
        g, "GROUP_STARTUP")

clm_iefb_trigger_linkscan_callback(group, success) ==
    [group EXCEPT !.linkscan = @ \cup {success}]

(* Every device is told whether it takes part in the scan.                 *)
StartDevices(group, g) ==
    [group EXCEPT !.slave_devices =
        [i \in device_nos(g) |->
            clm_iefb_device_fsm_event(@[i], g, i,
                IF @[i].enabled THEN "DEVICE_START" ELSE "DEVICE_STOP")]]

clm_iefb_on_linkscan_start(group, g, clm) ==
    [clm_iefb_send_cyclic_request_frame(StartDevices(group, g), g, clm) EXCEPT
        !.response_wait_timer = cl_timer_start(hier[g].timeout_value),
        !.constant_linkscan_timer =
            IF hier[g].use_constant_link_scan_time
            THEN cl_timer_start(hier[g].timeout_value) ELSE @]

clm_iefb_on_linkscan_timeout(group, g) ==
    LET told == clm_iefb_trigger_linkscan_callback(
                    clm_iefb_device_fsm_event_all_in_group(
                        group, g, "GROUP_TIMEOUT"), FALSE)
    IN  [told EXCEPT
            !.frame_sequence_no = clm_iefb_update_frame_sequence_no(@)]

clm_iefb_on_linkscan_complete(group, g) ==
    LET told == clm_iefb_trigger_linkscan_callback(
                    clm_iefb_device_fsm_event_all_in_group(
                        [group EXCEPT !.response_wait_timer = cl_timer_stop],
                        g, "GROUP_ALL_RESPONDED"), TRUE)
    IN  [told EXCEPT
            !.frame_sequence_no = clm_iefb_update_frame_sequence_no(@)]

ListenersArbitrateAgain ==
    { <<"MASTER_DOWN", "STARTUP", "MASTER_LISTEN">>,
      <<"MASTER_LISTEN", "NEW_CONFIG", "MASTER_ARBITRATION">>,
      <<"MASTER_LISTEN", "REQ_FROM_OTHER", "MASTER_ARBITRATION">>,
      <<"MASTER_ARBITRATION", "ARBITRATION_DONE", "MASTER_LINK_SCAN_COMP">>,
      <<"MASTER_ARBITRATION", "REQ_FROM_OTHER", "MASTER_LISTEN">>,
      <<"MASTER_LINK_SCAN_COMP", "LINKSCAN_START", "MASTER_LINK_SCAN">>,
      <<"MASTER_LINK_SCAN_COMP", "MASTERDUPL_ALARM", "MASTER_LISTEN">>,
      <<"MASTER_LINK_SCAN", "LINKSCAN_COMPLETE", "MASTER_LINK_SCAN_COMP">>,
      <<"MASTER_LINK_SCAN", "LINKSCAN_TIMEOUT", "MASTER_LINK_SCAN_COMP">>,
      <<"MASTER_LINK_SCAN", "MASTERDUPL_ALARM", "MASTER_LISTEN">> }

(* State, event, next state.  CLM_GROUP_EVENT_PARAMETER_CHANGE has no row: *)
(* no code raises it.  Every pair that is not listed does nothing.         *)
group_transitions ==
    { <<"MASTER_DOWN", "STARTUP", "MASTER_LISTEN">>,
      <<"MASTER_LISTEN", "NEW_CONFIG", "MASTER_ARBITRATION">>,
      <<"MASTER_ARBITRATION", "ARBITRATION_DONE", "MASTER_LINK_SCAN_COMP">>,
      <<"MASTER_ARBITRATION", "REQ_FROM_OTHER", "MASTER_LISTEN">>,
      <<"MASTER_LINK_SCAN_COMP", "LINKSCAN_START", "MASTER_LINK_SCAN">>,
      <<"MASTER_LINK_SCAN_COMP", "MASTERDUPL_ALARM", "MASTER_LISTEN">>,
      <<"MASTER_LINK_SCAN", "LINKSCAN_COMPLETE", "MASTER_LINK_SCAN_COMP">>,
      <<"MASTER_LINK_SCAN", "LINKSCAN_TIMEOUT", "MASTER_LINK_SCAN_COMP">>,
      <<"MASTER_LINK_SCAN", "MASTERDUPL_ALARM", "MASTER_LISTEN">> }

clm_group_states ==
    {"MASTER_DOWN", "MASTER_LISTEN", "MASTER_ARBITRATION",
     "MASTER_LINK_SCAN_COMP", "MASTER_LINK_SCAN"}

HasGroupTransition(state, event) ==
    \E t \in group_transitions : t[1] = state /\ t[2] = event

NextGroupState(state, event) ==
    (CHOOSE t \in group_transitions : t[1] = state /\ t[2] = event)[3]

(* The action of a transition; the event alone decides which.              *)
GroupAction(group, g, event, clm) ==
    CASE event = "STARTUP" -> clm_iefb_group_init(group, g)
      [] event = "NEW_CONFIG" -> clm_iefb_reflect_group_parameters(group, g)
      [] event = "LINKSCAN_START" -> clm_iefb_on_linkscan_start(group, g, clm)
      [] event = "LINKSCAN_TIMEOUT" -> clm_iefb_on_linkscan_timeout(group, g)
      [] event = "LINKSCAN_COMPLETE" -> clm_iefb_on_linkscan_complete(group, g)
      [] OTHER -> group

(* Entering MASTER_LISTEN sends the devices to standby.                    *)
GroupOnEntry(group, g) ==
    IF group.group_state = "MASTER_LISTEN"
    THEN clm_iefb_device_fsm_event_all_in_group(group, g, "GROUP_STANDBY")
    ELSE group

(* One turn of the loop, as far as it touches the group, in a state that   *)
(* has a transition for the event.                                         *)
group_fsm_turn(group, g, event, clm) ==
    GroupOnEntry(
        GroupAction(
            [group EXCEPT !.group_state = NextGroupState(@, event)],
            g, event, clm), g)

ScansBackToBack(g, event) ==
    event \in {"ARBITRATION_DONE", "LINKSCAN_TIMEOUT", "LINKSCAN_COMPLETE"}

TimeoutEndsScans(g, event) ==
    \/ event = "ARBITRATION_DONE"
    \/ event = "LINKSCAN_COMPLETE" /\ ~hier[g].use_constant_link_scan_time

(* A turn may ask for the start of the next scan.                          *)
AsksForScan(g, event) ==
    \/ event \in {"ARBITRATION_DONE", "LINKSCAN_TIMEOUT"}
    \/ event = "LINKSCAN_COMPLETE" /\ ~hier[g].use_constant_link_scan_time

GroupFollowUp(group, g, asked, clm) ==
    IF asked THEN group_fsm_turn(group, g, "LINKSCAN_START", clm) ELSE group

GroupAfter(group, g, event, clm) ==
    GroupFollowUp(group_fsm_turn(group, g, event, clm), g,
                  AsksForScan(g, event), clm)

clm_iefb_set_master_state(clm, new_state) ==
    [clm EXCEPT !.master_state = new_state]

(* The limiter may still keep the error from the application.              *)
clm_iefb_trigger_error_callback(clm, error_message) ==
    [clm EXCEPT !.errors = @ \cup {error_message}]

(***************************************************************************)
(* What the on-entry actions and clm_iefb_group_new_config() do to the     *)
(* state that the groups share.                                            *)
(***************************************************************************)
SharedOnEntry(clm, state) ==
    CASE state = "MASTER_LISTEN" ->
            clm_iefb_set_master_state(
                [clm EXCEPT !.arbitration_timer = cl_timer_stop], "STANDBY")
      [] state = "MASTER_ARBITRATION" ->
            clm_iefb_set_master_state(
                [clm EXCEPT !.arbitration_timer =
                    cl_timer_start_if_not_running(@, ArbitrationTime)],
                "ARBITRATION")
      [] state = "MASTER_LINK_SCAN_COMP" ->
            clm_iefb_set_master_state(clm, "RUNNING")
      [] OTHER -> clm

(* The part of clm_iefb_on_arbitration_failed() that is seen outside.      *)
clm_iefb_on_arbitration_failed(clm, event) ==
    IF event = "REQ_FROM_OTHER"
    THEN clm_iefb_trigger_error_callback(clm, "ARBITRATION_FAILED")
    ELSE clm

(* The groups that have a transition for the event take it.                *)
MoveGroups(clm, moving, event) ==
    IF moving = {} THEN clm
    ELSE [SharedOnEntry(clm_iefb_on_arbitration_failed(clm, event),
            NextGroupState(clm.groups[CHOOSE g \in moving : TRUE].group_state,
                           event))
          EXCEPT
            !.groups = [g \in group_nos |->
                IF g \in moving THEN GroupAfter(@[g], g, event, clm) ELSE @[g]]]

(***************************************************************************)
(* An event for the groups gs, one after the other.  The event decides     *)
(* which state a group enters, whatever state it was in, so the groups     *)
(* agree on what happens to the shared state and their order is no matter. *)
(***************************************************************************)
clm_iefb_group_fsm_event(clm, gs, event) ==
    MoveGroups(clm,
        {g \in gs : HasGroupTransition(clm.groups[g].group_state, event)},
        event)

AlarmForOneGroup(clm, event) == clm_iefb_group_fsm_event(clm, {1}, event)

clm_iefb_group_fsm_event_all(clm, event) ==
    clm_iefb_group_fsm_event(clm, group_nos, event)

-----------------------------------------------------------------------------
(* Incoming frames.                                                        *)

cl_iefb_validate_resp_cyclic_data_header(resp) ==
    /\ resp.group_no \in MinGroupNo..MaxGroupNo
    /\ resp.slave_id # NoIp
    /\ resp.slave_id = resp.remote_ip

(* Which header a frame starts with; a request's has its command.          *)
cl_iefb_validate_response_header(frame) == frame.kind = "RESPONSE"

cl_iefb_validate_request_header(frame) == frame.kind = "REQUEST"

(* well_formed: what follows the header is right, with protocol version.   *)
cl_iefb_validate_resp_full_cyclic_headers(resp) ==
    resp.well_formed /\ cl_iefb_validate_resp_cyclic_data_header(resp)

cl_iefb_parse_cyclic_response(resp) ==
    /\ cl_iefb_validate_resp_full_cyclic_headers(resp)
    /\ resp.occupied \in MinOccupied..MaxOccupied

DevicesOf(resp) ==
    {i \in device_nos(resp.group_no) :
        Setting(resp.group_no, i).slave_id = resp.remote_ip}

clm_iefb_calc_slave_device_index(resp) == CHOOSE i \in DevicesOf(resp) : TRUE

IsFromConfiguredDevice(resp) ==
    resp.group_no \in group_nos /\ DevicesOf(resp) # {}

DeviceEvent(clm, g, i, event) ==
    [clm EXCEPT !.groups[g].slave_devices[i] =
        clm_iefb_device_fsm_event(@, g, i, event)]

IsSlaveDuplication(dev, resp) ==
    /\ dev.latest # NoFrame
    /\ resp.frame_sequence_no = dev.latest
    /\ dev.device_state # "LISTEN"

SequenceNumberIgnored(dev, group, resp) == FALSE

IsWrongSequenceNumber(dev, group, resp) ==
    /\ dev.transmission_bit
    /\ resp.frame_sequence_no # group.frame_sequence_no

(* RX and RWr count only while the transmission bit is on.                 *)
StoreIncoming(dev, resp) ==
    [dev EXCEPT !.latest = resp.frame_sequence_no,
                !.rx = IF dev.transmission_bit THEN resp.rx ELSE NoData]

Report(clm, resp) ==
    CASE resp.end_code = "WRONG_NUMBER_OCCUPIED_STATIONS" ->
            clm_iefb_trigger_error_callback(
                clm, "SLAVE_REPORTS_WRONG_NUMBER_OCCUPIED")
      [] resp.end_code = "MASTER_DUPLICATION" ->
            clm_iefb_trigger_error_callback(
                clm, "SLAVE_REPORTS_MASTER_DUPLICATION")
      [] OTHER -> clm

EndScanIfComplete(clm, g) ==
    IF clm_iefb_group_have_received_from_all_devices(clm.groups[g])
    THEN clm_iefb_group_fsm_event(clm, {g}, "LINKSCAN_COMPLETE")
    ELSE clm

AlarmIgnored(clm, g, i, end_code) ==
    EndScanIfComplete(
        DeviceEvent(clm, g, i,
            IF end_code = "SUCCESS" THEN "RECEIVE_OK" ELSE "RECEIVE_ERROR"),
        g)

(* An alarm about a second master keeps the device from its event.         *)
RaiseEvents(clm, g, i, end_code) ==
    IF end_code = "MASTER_DUPLICATION"
    THEN clm_iefb_group_fsm_event_all(clm, "MASTERDUPL_ALARM")
    ELSE EndScanIfComplete(
            DeviceEvent(clm, g, i,
                IF end_code = "SUCCESS" THEN "RECEIVE_OK" ELSE "RECEIVE_ERROR"),
            g)

(* The rest of the handler, for a response that is neither a duplicate nor *)
(* out of sequence.                                                        *)
AcceptResponse(clm, g, i, resp) ==
    IF resp.occupied # Setting(g, i).num_occupied_stations
    THEN Report(clm, resp)
    ELSE RaiseEvents(
            [Report(clm, resp) EXCEPT !.groups[g].slave_devices[i] =
                StoreIncoming(@, resp)],
            g, i, resp.end_code)

HandleResponseOf(clm, g, i, dev, resp) ==
    CASE ~dev.enabled -> clm
      [] dev.enabled /\ IsSlaveDuplication(dev, resp) ->
            DeviceEvent(
                clm_iefb_trigger_error_callback(clm, "SLAVE_DUPLICATION"),
                g, i, "SLAVE_DUPLICATION")
      [] /\ dev.enabled
         /\ ~IsSlaveDuplication(dev, resp)
         /\ IsWrongSequenceNumber(dev, clm.groups[g], resp) -> clm
      [] OTHER -> AcceptResponse(clm, g, i, resp)

HandleResponseFrom(clm, g, i, resp) ==
    HandleResponseOf(clm, g, i, clm.groups[g].slave_devices[i], resp)

clm_iefb_handle_response_frame(clm, resp) ==
    IF cl_iefb_parse_cyclic_response(resp) /\ IsFromConfiguredDevice(resp)
    THEN HandleResponseFrom(clm, resp.group_no,
                            clm_iefb_calc_slave_device_index(resp), resp)
    ELSE clm

OtherMasterIgnored(clm) == clm

clm_iefb_handle_request_frame(clm) ==
    clm_iefb_group_fsm_event_all(clm, "REQ_FROM_OTHER")

NoInput == [kind |-> "NONE"]

(***************************************************************************)
(* Nothing came in, or a frame did.  The master drops its own frames.  Of  *)
(* another master's request only the header is looked at: the rest of it   *)
(* may be of any form, of any protocol version.                            *)
(***************************************************************************)
clm_iefb_handle_input_frame(clm, frame) ==
    IF frame = NoInput \/ frame.remote_ip = MasterIp THEN clm
    ELSE IF cl_iefb_validate_response_header(frame)
    THEN clm_iefb_handle_response_frame(clm, frame)
    ELSE IF cl_iefb_validate_request_header(frame)
    THEN clm_iefb_handle_request_frame(clm)
    ELSE clm

-----------------------------------------------------------------------------
(* Timers.                                                                 *)

MonitorArbitrationTimer(clm) ==
    IF cl_timer_is_expired(clm.arbitration_timer)
    THEN clm_iefb_group_fsm_event_all(
            [clm EXCEPT !.arbitration_timer = cl_timer_stop],
            "ARBITRATION_DONE")
    ELSE clm

LinkscanTimeout(clm, expired) ==
    clm_iefb_group_fsm_event(
        [clm EXCEPT !.groups = [g \in group_nos |->
            IF g \in expired
            THEN [@[g] EXCEPT !.response_wait_timer = cl_timer_stop]
            ELSE @[g]]],
        expired, "LINKSCAN_TIMEOUT")

MonitorResponseTimers(clm) ==
    LinkscanTimeout(clm,
        {g \in group_nos :
            cl_timer_is_expired(clm.groups[g].response_wait_timer)})

ConstantTimersIgnored(clm) == clm

ConstantLinkscanStart(clm, expired) ==
    clm_iefb_group_fsm_event(
        [clm EXCEPT !.groups = [g \in group_nos |->
            IF g \in expired
            THEN [@[g] EXCEPT !.constant_linkscan_timer = cl_timer_stop]
            ELSE @[g]]],
        expired, "LINKSCAN_START")

MonitorConstantTimers(clm) ==
    ConstantLinkscanStart(clm,
        {g \in group_nos :
            cl_timer_is_expired(clm.groups[g].constant_linkscan_timer)})

(* The two timers of a group are looked at in this order; the groups have  *)
(* nothing to do with each other here.                                     *)
clm_iefb_monitor_all_group_timers(clm) ==
    MonitorConstantTimers(MonitorResponseTimers(clm))

-----------------------------------------------------------------------------
(* Entry points.                                                           *)

NewMasterCall(clm) ==
    [clm EXCEPT !.errors = {},
                !.groups = [g \in group_nos |->
                    [@[g] EXCEPT !.sent = {}, !.linkscan = {}]]]

AdvanceGroup(group, d) ==
    [group EXCEPT !.response_wait_timer = TimerAdvance(@, d),
                  !.constant_linkscan_timer = TimerAdvance(@, d)]

AdvanceMaster(clm, d) ==
    [clm EXCEPT !.arbitration_timer = TimerAdvance(@, d),
                !.groups = [g \in group_nos |-> AdvanceGroup(@[g], d)]]

(* A call that finds several frames in its sockets is a sequence of calls  *)
(* of this operator with no time between them.                             *)
clm_iefb_periodic(clm, d, frame) ==
    clm_iefb_handle_input_frame(
        clm_iefb_monitor_all_group_timers(
            MonitorArbitrationTimer(AdvanceMaster(NewMasterCall(clm), d))),
        frame)

ClearedDevice ==
    [device_state |-> "MASTER_DOWN", enabled |-> FALSE,
     transmission_bit |-> FALSE, force_transmission_bit |-> FALSE,
     timeout_count |-> 0, latest |-> NoFrame, ry |-> NoData, rx |-> NoData,
     slave_id |-> NoIp, on |-> FALSE, data |-> NoData]

ClearedGroup(g) ==
    [group_state |-> "MASTER_DOWN", frame_sequence_no |-> 0,
     response_wait_timer |-> cl_timer_stop,
     constant_linkscan_timer |-> cl_timer_stop,
     slave_devices |-> [i \in device_nos(g) |-> ClearedDevice],
     sent |-> {}, linkscan |-> {}]

(* Saving the number is left to Cciefb, which has the file.                *)
clm_iefb_handle_new_config(clm) ==
    clm_iefb_group_fsm_event_all(
        [clm EXCEPT !.parameter_no = (@ + 1) % (MaxParameterNo + 1)],
        "NEW_CONFIG")

(* Start of the stack, with the parameter number read from the file.       *)
clm_iefb_init(parameter_no) ==
    clm_iefb_handle_new_config(
        clm_iefb_group_fsm_event_all(
            [master_state |-> "DOWN", arbitration_timer |-> cl_timer_stop,
             parameter_no |-> parameter_no, master_local_unit_info |-> 1,
             groups |-> [g \in group_nos |-> ClearedGroup(g)], errors |-> {}],
            "STARTUP"))
=============================================================================
