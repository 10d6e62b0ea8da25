------------------------------- MODULE ClIefb ------------------------------
(***************************************************************************)
(* What src/src/common/cl_iefb.c gives to both ends of the cyclic          *)
(* protocol: the request and response frames, their validation, and the    *)
(* search for a slave in the list of slave ids of a request.               *)
(*                                                                         *)
(* A frame is a record of the fields that control reads.  kind says which  *)
(* header it starts with: a cyclic request's, a response's, or neither.    *)
(* The fixed and reserved fields behind that header, and the frame's size, *)
(* are one flag, well_formed; it covers the header too where a slave reads *)
(* a frame, which drops it in either case.  The slave ids are a sequence   *)
(* with one entry per occupied station; the cyclic transmission bits are   *)
(* the set of the stations whose bit is on; RY and RWw data of a station   *)
(* is one opaque value.                                                    *)
(***************************************************************************)
EXTENDS Naturals, Sequences, FiniteSets

CONSTANTS
    NoIp,                  \* CL_IPADDR_INVALID, 0.0.0.0
    Multistation,          \* CL_CCIEFB_MULTISTATION_INDICATOR, 255.255.255.255
    NoData,                \* a cleared RY/RWw or RX/RWr area
    DefaultTimeout,        \* CL_CCIEFB_DEFAULT_TIMEOUT, in units of the model
    DefaultTimeoutCount    \* CL_CCIEFB_DEFAULT_TIMEOUT_COUNT

ASSUME IdsAssumption == NoIp # Multistation
ASSUME DefaultsAssumption ==
    DefaultTimeout \in Nat \ {0} /\ DefaultTimeoutCount \in Nat \ {0}

MinOccupied == 1
MaxOccupied == 16
MinGroupNo == 1
MaxGroupNo == 64
ProtocolVersions == 1..2

(* The end codes a slave may use.                                          *)
cl_slave_endcodes ==
    {"SUCCESS", "MASTER_DUPLICATION", "WRONG_NUMBER_OCCUPIED_STATIONS",
     "SLAVE_ERROR", "SLAVE_REQUESTS_DISCONNECT"}

-----------------------------------------------------------------------------
(* Reception of a request.                                                 *)

total_occupied(req) == Len(req.slave_ids)

(* Bit 0 of the unit info is "running", bit 1 is "stopped by the user"     *)
(* and belongs to protocol version 2 only.                                 *)
cl_iefb_validate_master_station_notification(req) ==
    req.master_local_unit_info \in IF req.protocol_ver = 1 THEN 0..1 ELSE 0..3

cl_iefb_validate_req_cyclic_data_header(req) ==
    /\ req.group_no \in MinGroupNo..MaxGroupNo
    /\ total_occupied(req) \in MinOccupied..MaxOccupied
    /\ req.master_id # NoIp
    /\ req.master_id = req.remote_ip

cl_iefb_parse_cyclic_request(req) ==
    /\ req.well_formed
    /\ req.protocol_ver \in ProtocolVersions
    /\ cl_iefb_validate_master_station_notification(req)
    /\ cl_iefb_validate_req_cyclic_data_header(req)

(* The slave id of a station can be read only where the frame has one.     *)
cl_iefb_request_has_slave_id(req, station) ==
    station \in MinOccupied..MaxOccupied /\ station <= total_occupied(req)

(***************************************************************************)
(* cl_iefb_analyze_slave_ids(): the stations of the request that hold the  *)
(* slave's own id, and the run of multistation marks behind one of them.   *)
(* The C loop fails on a second occurrence of the id.                      *)
(***************************************************************************)
StationsOf(id, req) ==
    {station \in 1..total_occupied(req) : req.slave_ids[station] = id}

IsSlaveIdRepeated(id, req) ==
    \E i, j \in StationsOf(id, req) : i # j

IsSlaveIdFound(id, req) == StationsOf(id, req) # {}

my_slave_station_no(id, req) == CHOOSE i \in StationsOf(id, req) : TRUE

implied_occupation_count(id, req) ==
    LET first == my_slave_station_no(id, req)
    IN  Cardinality({last \in first..total_occupied(req) :
            \A i \in first + 1..last : req.slave_ids[i] = Multistation})

(***************************************************************************)
(* The same as the C loop computes it, station by station: where the id    *)
(* was found first, how many stations it implies, whether marks are still  *)
(* counted, and whether the search has failed.                             *)
(***************************************************************************)
NotFound == [station |-> 0, count |-> 0, look |-> FALSE, failed |-> FALSE]

CountsAnyMark(before, id, slot, station) ==
    CASE slot = id /\ before.station = 0 ->
            [NotFound EXCEPT !.station = station, !.count = 1, !.look = TRUE]
      [] slot = id /\ before.station # 0 -> [NotFound EXCEPT !.failed = TRUE]
      [] slot # id /\ before.look /\ slot = Multistation ->
            [before EXCEPT !.count = @ + 1]
      [] OTHER -> before

AnalyzeSlot(before, id, slot, station) ==
    CASE slot = id /\ before.station = 0 ->
            [NotFound EXCEPT !.station = station, !.count = 1, !.look = TRUE]
      [] slot = id /\ before.station # 0 -> [NotFound EXCEPT !.failed = TRUE]
      [] slot # id /\ before.look /\ slot = Multistation ->
            [before EXCEPT !.count = @ + 1]
      [] slot # id /\ before.look /\ slot # Multistation ->
            [before EXCEPT !.look = FALSE]
      [] OTHER -> before

cl_iefb_analyze_slave_ids(id, req) ==
    LET after[station \in 0..total_occupied(req)] ==
            IF station = 0 THEN NotFound
            ELSE IF after[station - 1].failed THEN after[station - 1]
            ELSE AnalyzeSlot(after[station - 1], id, req.slave_ids[station],
                             station)
    IN  after[total_occupied(req)]

cl_iefb_extract_my_transmission_state(req, station) ==
    station \in MinOccupied..MaxOccupied /\ station \in req.transmission_on

(* The time after which either end gives up on the other.  Zero selects    *)
(* the default of each factor.                                             *)
cl_calculate_total_timeout(timeout_value, parallel_off_timeout_count) ==
    LET timeout == IF timeout_value = 0 THEN DefaultTimeout
                   ELSE timeout_value
        count == IF parallel_off_timeout_count = 0 THEN DefaultTimeoutCount
                 ELSE parallel_off_timeout_count
    IN  timeout * count
=============================================================================
