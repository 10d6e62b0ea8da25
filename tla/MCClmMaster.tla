---------------------------- MODULE MCClmMaster ----------------------------
(***************************************************************************)
(* ClmMaster with one group of two devices (OneGroup), with two groups of  *)
(* one device of which the second uses constant link scan (TwoGroups), and *)
(* with a single device and everything an application may do (OneDevice).  *)
(***************************************************************************)
EXTENDS ClmAreas

CONSTANTS s1, s2, m2, ry1

(* The settings of a slave device and of a group.                          *)
Slave(ip, occupied, reserved) ==
    [slave_id |-> ip, num_occupied_stations |-> occupied,
     reserved_slave_device |-> reserved]

GroupOf(timeout, count, constant, devices) ==
    [timeout_value |-> timeout, parallel_off_timeout_count |-> count,
     use_constant_link_scan_time |-> constant, slave_devices |-> devices]

OneGroup ==
    <<GroupOf(1, 2, FALSE, <<Slave(s1, 1, FALSE), Slave(s2, 2, FALSE)>>)>>

TwoGroups ==
    <<GroupOf(1, 1, FALSE, <<Slave(s1, 1, FALSE)>>),
      GroupOf(2, 2, TRUE, <<Slave(s2, 1, FALSE)>>)>>

OneDevice == <<GroupOf(2, 2, FALSE, <<Slave(s1, 1, TRUE)>>)>>

StoppedByUser == {<<TRUE, FALSE>>, <<FALSE, TRUE>>, <<FALSE, FALSE>>}

Response(ip, g, n, end_code, occupied) ==
    [kind |-> "RESPONSE", remote_ip |-> ip, slave_id |-> ip,
     well_formed |-> TRUE, group_no |-> g, frame_sequence_no |-> n,
     end_code |-> end_code, occupied |-> occupied, rx |-> RxPayload(ip, n)]

RequestOf(ip) ==
    [kind |-> "REQUEST", remote_ip |-> ip, well_formed |-> TRUE]

(* Frames that are dropped at once, and a request with only its header     *)
(* right, which is not.                                                    *)
Odd(ip) ==
    { [Response(ip, 1, 1, "SUCCESS", 1) EXCEPT !.well_formed = FALSE],
      Response(ip, Len(hier) + 1, 1, "SUCCESS", 1), Response(m2, 1, 1, "SUCCESS", 1),
      [Response(ip, 1, 1, "SUCCESS", 1) EXCEPT !.slave_id = m2],
      [RequestOf(m2) EXCEPT !.kind = "OTHER"], RequestOf(MasterIp),
      [RequestOf(m2) EXCEPT !.well_formed = FALSE] }

FramesOfDevice(g, i, end_codes) ==
    { Response(Setting(g, i).slave_id, g, n, end_code,
               Setting(g, i).num_occupied_stations) :
        n \in 0..MaxSequenceNo, end_code \in end_codes }

OneGroupFrames ==
    UNION {FramesOfDevice(1, i, {"SUCCESS", "SLAVE_ERROR"}) : i \in 1..2}
    \cup {Response(s1, 1, 1, "WRONG_NUMBER_OCCUPIED_STATIONS", 2)}

TwoGroupsFrames ==
    FramesOfDevice(1, 1, {"SUCCESS", "MASTER_DUPLICATION"})
    \cup FramesOfDevice(2, 1, {"SUCCESS", "SLAVE_REQUESTS_DISCONNECT"})
    \cup {RequestOf(m2)}

OneDeviceFrames ==
    FramesOfDevice(1, 1, {"SUCCESS", "SLAVE_ERROR"})
    \cup {Response(s1, 1, 1, "WRONG_NUMBER_OCCUPIED_STATIONS", 2),
          Response(s1, 1, 1, "MASTER_DUPLICATION", 1), RequestOf(m2)}
    \cup Odd(s1)

FirstDevice == {<<1, 1>>}

BothDevices == {<<1, 1>>, <<1, 2>>}
=============================================================================
