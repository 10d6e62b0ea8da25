------------------------------ MODULE MCCciefb ------------------------------
(***************************************************************************)
(* Instances of Cciefb.  With one master: it may be restarted with another *)
(* configuration, that has another timeout.  The longer one is longer than *)
(* arbitration and a lost request take, so that the slave may still be     *)
(* connected to the earlier session when it sees the next one.  With two   *)
(* masters: both are given the slave, and scan it at a constant pace.      *)
(***************************************************************************)
EXTENDS Cciefb

CONSTANTS m1, m2, s1

Slave(ip, occupied) ==
    [slave_id |-> ip, num_occupied_stations |-> occupied,
     reserved_slave_device |-> FALSE]

GroupOf(timeout, count, constant, devices) ==
    [timeout_value |-> timeout, parallel_off_timeout_count |-> count,
     use_constant_link_scan_time |-> constant, slave_devices |-> devices]

Patient == <<GroupOf(1, 3, FALSE, <<Slave(s1, 1)>>)>>
Hasty == <<GroupOf(1, 2, FALSE, <<Slave(s1, 1)>>)>>
Paced == <<GroupOf(1, 2, TRUE, <<Slave(s1, 1)>>)>>

OneMasterConfigs == {Patient, Hasty}
TwoMastersConfigs == {Paced}

(* Where the parameter file goes there is a file of another version of the *)
(* stack, or there is no such place at all.                                *)
OtherVersion == {f \in ForeignFiles(DefaultParameterNo) : f.magic}
NoPlace == {Unreachable}
=============================================================================
