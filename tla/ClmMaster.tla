----------------------------- MODULE ClmMaster -----------------------------
(***************************************************************************)
(* One master stack (ClmIefb) run by an application, on a network that may *)
(* deliver any response of any slave, any request of another master, or    *)
(* nothing, before each call of clm_handle_periodic(): lost, late,         *)
(* duplicated and reordered responses are all in there.                    *)
(*                                                                         *)
(* clm_handle_periodic() looks at the timers and then handles the frames   *)
(* in its sockets one by one.  It is modelled as MonitorTimers followed by *)
(* any number of ReceiveFrame steps: the application's callbacks run in    *)
(* between and may call back into the stack.                               *)
(***************************************************************************)
EXTENDS ClmIefb

CONSTANTS
    Frames,         \* the frames slaves and other masters send
    RyValues,       \* what the application may write to RY and RWw
    Stoppable,      \* <<group, device>> the application may stop and restart
    Forceable,      \* <<group, device>> whose bit the application may force
    Statuses,       \* <<running, stopped_by_user>> the application reports
    MaxDelay,       \* longest time between two calls of the periodic handler
    Beats           \* 2 to state fairness, 1 to save states without

RxPayload(ip, frame_sequence_no) ==
    [slave_id |-> ip, frame_sequence_no |-> frame_sequence_no]

ASSUME MasterDelayAssumption == MaxDelay \in Nat \ {0}
ASSUME BeatsAssumption == Beats \in 1..2
ASSUME StatusAssumption == Statuses \subseteq BOOLEAN \X BOOLEAN
ASSUME MasterFramesAssumption ==
    \A frame \in Frames :
        \/ /\ frame.kind = "RESPONSE"
           /\ frame.frame_sequence_no \in 0..MaxSequenceNo
           /\ frame.end_code \in cl_slave_endcodes
           /\ frame.rx = RxPayload(frame.remote_ip, frame.frame_sequence_no)
        \/ frame.kind \in {"REQUEST", "OTHER"}

VARIABLES
    clm,        \* the master stack
    listened,   \* time since the start, up to ArbitrationTime
    heard,      \* another master was heard during arbitration
    scan,       \* per group, what is known about its scans
    beat        \* changes whenever time passes, if Beats > 1

vars == <<clm, listened, heard, scan, beat>>

(***************************************************************************)
(* scan[g]: since, the time since the last request, up to the timeout;     *)
(* gap, the time between the last two requests (constant link scan only);  *)
(* answered, the devices that answered the last request; missed, for each  *)
(* device how many requests in a row it did not answer while connected.    *)
(***************************************************************************)
NoScanYet ==
    [g \in group_nos |->
        [since |-> hier[g].timeout_value, gap |-> hier[g].timeout_value,
         answered |-> {}, missed |-> [i \in device_nos(g) |-> 0]]]

AtMost(limit, n) == IF n <= limit THEN n ELSE limit

Device(c, g, i) == c.groups[g].slave_devices[i]

(* The device whose valid response to the present request the frame is.    *)
AnsweredBy(frame, g) ==
    {i \in device_nos(g) :
        /\ frame # NoInput /\ frame.kind = "RESPONSE"
        /\ cl_iefb_parse_cyclic_response(frame)
        /\ frame.group_no = g
        /\ frame.remote_ip = Setting(g, i).slave_id
        /\ frame.occupied = Setting(g, i).num_occupied_stations
        /\ frame.frame_sequence_no = clm.groups[g].frame_sequence_no
        /\ Device(clm, g, i).enabled}

(* What the observer notes after a step of the stack that took d.          *)
ScanAfter(d, frame) ==
    [g \in group_nos |->
        LET limit == hier[g].timeout_value
            since == AtMost(limit, scan[g].since + d)
            answered == scan[g].answered \cup AnsweredBy(frame, g)
        IN  IF clm'.groups[g].sent = {}
            THEN [scan[g] EXCEPT !.since = since, !.answered = answered]
            ELSE [since |-> 0,
                  gap |-> IF hier[g].use_constant_link_scan_time
                          THEN since ELSE limit,
                  answered |-> {},
                  missed |-> [i \in device_nos(g) |->
                    IF /\ Device(clm, g, i).transmission_bit
                       /\ Device(clm', g, i).transmission_bit
                       /\ i \notin answered
                    THEN scan[g].missed[i] + 1 ELSE 0]]]

Init ==
    /\ clm = clm_iefb_init(0)
    /\ listened = 0
    /\ heard = FALSE
    /\ scan = NoScanYet
    /\ beat = 0

-----------------------------------------------------------------------------
(* The first part of clm_handle_periodic(), d after the previous call.     *)
MonitorTimers(d) ==
    /\ clm' = clm_iefb_periodic(clm, d, NoInput)
    /\ listened' = AtMost(ArbitrationTime, listened + d)
    /\ scan' = ScanAfter(d, NoInput)
    /\ beat' = (beat + 1) % Beats
    /\ UNCHANGED heard

(* One turn of its receive loop.                                           *)
ReceiveFrame(frame) ==
    /\ clm' = clm_iefb_periodic(clm, 0, frame)
    /\ heard' = \/ heard
                \/ /\ frame.kind = "REQUEST"
                   /\ frame.remote_ip # MasterIp
                   /\ clm.master_state = "ARBITRATION"
    /\ scan' = ScanAfter(0, frame)
    /\ UNCHANGED <<listened, beat>>

UpdateDevice(g, i, dev) ==
    /\ clm' = [NewMasterCall(clm) EXCEPT !.groups[g].slave_devices[i] = dev]
    /\ UNCHANGED <<listened, heard, scan, beat>>

clm_iefb_set_slave_communication_status(g, i, enabled) ==
    UpdateDevice(g, i, [Device(clm, g, i) EXCEPT !.enabled = enabled])

clm_iefb_force_cyclic_transmission_bit(g, i, force) ==
    UpdateDevice(g, i, [Device(clm, g, i) EXCEPT
                            !.force_transmission_bit = force])

(* The application writes RY bits and RWw registers.                       *)
clm_iefb_set_ry(g, i, value) ==
    UpdateDevice(g, i, [Device(clm, g, i) EXCEPT !.ry = value])

clm_iefb_set_master_application_status(running, stopped_by_user) ==
    /\ clm' = [NewMasterCall(clm) EXCEPT !.master_local_unit_info =
                    clm_iefb_calc_master_local_unit_info(
                        MasterProtocolVer, running, stopped_by_user)]
    /\ UNCHANGED <<listened, heard, scan, beat>>

clm_iefb_latest_received_clear(dev) == [dev EXCEPT !.latest = NoFrame]

(* The inner loop: the devices of one group.                               *)
ClearDevices(group, g) ==
    [group EXCEPT !.slave_devices =
        [i \in device_nos(g) |-> clm_iefb_latest_received_clear(@[i])]]

(* Clears the statistics, and also forgets the latest frames.              *)
clm_iefb_statistics_clear_all ==
    /\ clm' = [NewMasterCall(clm) EXCEPT !.groups =
                    [g \in group_nos |-> ClearDevices(@[g], g)]]
    /\ UNCHANGED <<listened, heard, scan, beat>>

(* The master is restarted.                                                *)
clm_init ==
    /\ clm' = clm_iefb_init(clm.parameter_no)
    /\ listened' = 0
    /\ heard' = FALSE
    /\ scan' = NoScanYet
    /\ UNCHANGED beat

Application ==
    \/ \E g \in group_nos : \E i \in device_nos(g) :
          \/ \E enabled \in BOOLEAN :
                /\ <<g, i>> \in Stoppable
                /\ clm_iefb_set_slave_communication_status(g, i, enabled)
          \/ \E force \in BOOLEAN :
                /\ <<g, i>> \in Forceable
                /\ clm_iefb_force_cyclic_transmission_bit(g, i, force)
          \/ \E value \in RyValues : clm_iefb_set_ry(g, i, value)
    \/ \E status \in Statuses :
          clm_iefb_set_master_application_status(status[1], status[2])
    \/ clm_iefb_statistics_clear_all

Next ==
    \/ \E d \in 1..MaxDelay : MonitorTimers(d)
    \/ \E frame \in Frames : ReceiveFrame(frame)
    \/ Application
    \/ clm_init

Spec == Init /\ [][Next]_vars

(* The application calls clm_handle_periodic() for as long as it runs, and *)
(* its clock advances.                                                     *)
TimePasses == beat' = (beat + 1) % Beats

FairSpec == Spec /\ WF_beat(TimePasses)

-----------------------------------------------------------------------------
(* Type correctness.                                                       *)
TypeOK ==
    /\ clm.master_state \in {"STANDBY", "ARBITRATION", "RUNNING"}
    /\ clm.arbitration_timer \in Timer({0, ArbitrationTime})
    /\ clm.parameter_no \in 0..MaxParameterNo
    /\ beat \in 0..Beats - 1
    /\ cl_iefb_validate_master_station_notification(
            [protocol_ver |-> MasterProtocolVer,
             master_local_unit_info |-> clm.master_local_unit_info])
    /\ \A g \in group_nos :
          /\ clm.groups[g].group_state \in clm_group_states \ {"MASTER_DOWN"}
          /\ clm.groups[g].frame_sequence_no \in 0..MaxSequenceNo
          /\ clm.groups[g].response_wait_timer
                \in Timer({0, hier[g].timeout_value})
          /\ clm.groups[g].constant_linkscan_timer
                \in Timer({0, hier[g].timeout_value})
          /\ clm.groups[g].linkscan \subseteq BOOLEAN
          /\ Cardinality(clm.groups[g].sent) <= 1
          /\ \A i \in device_nos(g) :
                /\ Device(clm, g, i).device_state
                        \in clm_device_states \ {"MASTER_DOWN"}
                /\ Device(clm, g, i).timeout_count
                        \in 0..hier[g].parallel_off_timeout_count
                /\ Device(clm, g, i).latest \in 0..NoFrame
                /\ Device(clm, g, i).slave_id \in {NoIp, Setting(g, i).slave_id}

(***************************************************************************)
(* All groups are in the same phase, and the shared state of the stack     *)
(* tells which: standby, arbitration with its timer running, or link       *)
(* scans.  A stop that reached only some groups would leave the others     *)
(* scanning under a master that reports standby.                           *)
(***************************************************************************)
PhaseOf(group_state) ==
    CASE group_state = "MASTER_LISTEN" -> "STANDBY"
      [] group_state = "MASTER_ARBITRATION" -> "ARBITRATION"
      [] OTHER -> "RUNNING"

GroupsShareFate ==
    /\ \A g \in group_nos :
          PhaseOf(clm.groups[g].group_state) = clm.master_state
    /\ (clm.master_state = "ARBITRATION")
            <=> (clm.arbitration_timer.state = "RUNNING")

(***************************************************************************)
(* No group stalls: while scans run, one of its timers is running and its  *)
(* last request is less than the timeout old.  LINK_SCAN_COMP is only a    *)
(* resting place in constant link scan.                                    *)
(***************************************************************************)
ScansAreTimed ==
    \A g \in group_nos :
        LET group == clm.groups[g]
        IN  clm.master_state = "RUNNING" =>
                /\ scan[g].since < hier[g].timeout_value
                /\ IF group.group_state = "MASTER_LINK_SCAN"
                   THEN group.response_wait_timer.state = "RUNNING"
                   ELSE /\ hier[g].use_constant_link_scan_time
                        /\ group.constant_linkscan_timer.state = "RUNNING"

(***************************************************************************)
(* REQ_CLM_TIMING_06: in constant link scan two requests are never closer  *)
(* than the link scan time, however fast the slaves answer.                *)
(***************************************************************************)
ConstantScanPace ==
    \A g \in group_nos : scan[g].gap = hier[g].timeout_value

(***************************************************************************)
(* REQ_CLM_ARBITR_01: no request leaves the master before it has listened  *)
(* for the whole arbitration time without hearing another master: a frame  *)
(* with the header of a cyclic request, whatever follows it.               *)
(***************************************************************************)
ArbitrationFirst ==
    \A g \in group_nos :
        clm.groups[g].sent # {} => listened = ArbitrationTime /\ ~heard

(***************************************************************************)
(* REQ_CLM_ERROR_07: a slave device is connected (its transmission bit is  *)
(* on) only while it has left fewer requests in a row unanswered than      *)
(* parallel_off_timeout_count allows.                                      *)
(***************************************************************************)
LostDeviceIsDropped ==
    \A g \in group_nos : \A i \in device_nos(g) :
        scan[g].missed[i] < hier[g].parallel_off_timeout_count

(***************************************************************************)
(* What a device state means for the request: a device that is waited for  *)
(* was asked under its own id, with its bit on exactly when it was         *)
(* connected; a device in standby or arbitration waits for nothing.        *)
(***************************************************************************)
DevicesFollowScan ==
    \A g \in group_nos : \A i \in device_nos(g) :
        LET dev == Device(clm, g, i)
        IN  /\ clm.master_state # "RUNNING" => dev.device_state = "LISTEN"
            /\ clm.groups[g].group_state = "MASTER_LINK_SCAN_COMP" =>
                    dev.device_state \in {"LISTEN", "CYCLIC_SENT"}
            /\ dev.device_state \in {"WAIT_TD", "CYCLIC_SENDING"} =>
                    dev.slave_id = Setting(g, i).slave_id
            /\ dev.device_state = "CYCLIC_SENDING" => dev.transmission_bit
            /\ dev.device_state = "WAIT_TD" => ~dev.transmission_bit
            /\ dev.transmission_bit => dev.on
            /\ dev.timeout_count > 0 => dev.transmission_bit

(***************************************************************************)
(* REQ_CLM_STATUSBIT_01, _02, _05: every request carries, for each device  *)
(* that is not stopped, its own id, and the present RY and RWw data with   *)
(* the bit on if the device is connected or forced, else cleared data with *)
(* the bit off.  The first request has no bit on that is not forced.       *)
(***************************************************************************)
RequestIsCurrent ==
    [][\A g \in group_nos : \A i \in device_nos(g) :
        LET dev == Device(clm', g, i)
            on == dev.device_state = "CYCLIC_SENDING"
                    \/ dev.force_transmission_bit
        IN  clm'.groups[g].sent \ clm.groups[g].sent # {} /\ dev.enabled =>
                /\ dev.slave_id = Setting(g, i).slave_id
                /\ dev.on = on
                /\ dev.data = IF on THEN dev.ry ELSE NoData
                /\ clm'.groups[g].frame_sequence_no = 0 =>
                        dev.device_state = "WAIT_TD"]_vars

(***************************************************************************)
(* REQ_CLM_STATUSBIT_04 and _09: RX and RWr of a device change only to     *)
(* what that device sent in answer to the present request while its bit    *)
(* was on, or are cleared.                                                 *)
(***************************************************************************)
InputFromThisScan ==
    [][\A g \in group_nos : \A i \in device_nos(g) :
        Device(clm', g, i).rx \notin {Device(clm, g, i).rx, NoData} =>
            /\ Device(clm, g, i).transmission_bit
            /\ Device(clm', g, i).rx = RxPayload(Setting(g, i).slave_id,
                                        clm.groups[g].frame_sequence_no)]_vars

(***************************************************************************)
(* REQ_CLM_ERROR_04: a master in standby sends no request, and leaves      *)
(* standby only by a restart, although timers of its groups still run and  *)
(* responses still arrive.                                                 *)
(***************************************************************************)
StandbyIsSilent ==
    [][clm.master_state = "STANDBY" =>
            \/ /\ clm'.master_state = "STANDBY"
               /\ \A g \in group_nos : clm'.groups[g].sent = {}
            \/ clm_init]_vars

(***************************************************************************)
(* Link scans go on for ever, in every group, unless the master is in      *)
(* standby, whatever the slaves send or do not send; only a master that is *)
(* restarted again and again is always back at the start of arbitration.   *)
(***************************************************************************)
ScansContinue ==
    \A g \in group_nos :
        []<>(\/ clm.master_state = "STANDBY"
             \/ listened < ArbitrationTime
             \/ clm.groups[g].sent # {})

(***************************************************************************)
(* REQ_CLM_STATUSBIT_03: a device that the application keeps stopped is in *)
(* the end left out of the requests: id 0.0.0.0, bit off.                  *)
(***************************************************************************)
StoppedDeviceIsSuspended ==
    \A g \in group_nos : \A i \in device_nos(g) :
        <>[](~Device(clm, g, i).enabled /\ clm.master_state = "RUNNING") =>
            <>[](/\ ~Device(clm, g, i).transmission_bit
                 /\ Device(clm, g, i).slave_id = NoIp)

-----------------------------------------------------------------------------
(* Two statements of the documents that the code does not keep.            *)

(***************************************************************************)
(* REQ_CLM_STATUSBIT_08: "When using cyclic transmission stopped, the      *)
(* master will turn off the cyclic status bit from next link scan".  The   *)
(* request at the start of that scan still has it on: CYCLIC_SENT goes to  *)
(* CYCLIC_SUSPEND without clm_iefb_set_data_ip().                          *)
(***************************************************************************)
StoppedBitOffNextScan ==
    [][\A g \in group_nos : \A i \in device_nos(g) :
        LET dev == Device(clm', g, i)
            sends == clm'.groups[g].sent \ clm.groups[g].sent # {}
        IN  sends /\ ~dev.enabled /\ ~dev.force_transmission_bit
                => ~dev.on]_vars

(***************************************************************************)
(* clm_linkscan_complete_ind_t: "True if all slave devices have            *)
(* responded".  When a scan is reported as a success, all enabled devices  *)
(* but the one whose response ends the scan have answered before.  The     *)
(* code does not wait for devices that are not connected yet.              *)
(***************************************************************************)
SuccessMeansAllResponded ==
    [][\A g \in group_nos :
        TRUE \in clm'.groups[g].linkscan \ clm.groups[g].linkscan =>
            Cardinality({i \in device_nos(g) :
                /\ Device(clm, g, i).enabled
                /\ i \notin scan[g].answered}) <= 1]_vars
=============================================================================
