------------------------------- MODULE ClmSlmp ------------------------------
(***************************************************************************)
(* The master's side of the SLMP messages, src/src/master/clm_slmp.c: the  *)
(* search for slaves and the command that gives a slave a new IP address.  *)
(* Both are broadcast requests; a response is told apart by its serial     *)
(* number, and each kind of request has a timer of its own that ends it.   *)
(*                                                                         *)
(* The state is a record.  set_ip_cfm is the latest call of the callback   *)
(* set_ip_cfm_cb, with the serial number of the request it ended.          *)
(* Operators no other definition uses are fault variants.                  *)
(***************************************************************************)
EXTENDS Integers, Sequences, ClTimer, ClSlmp

CONSTANTS MaxSerial,              \* UINT16_MAX
          MaxCount,               \* UINT8_MAX, of the number of answers
          MaxNodeSearchDevices,   \* CLM_MAX_NODE_SEARCH_DEVICES
          NodeSearchTime,         \* config.callback_time_node_search
          SetIpTime,              \* config.callback_time_set_ip
          InvalidIp               \* CL_IPADDR_INVALID

ASSUME ClmSlmpAssumption ==
    /\ MaxSerial \in Nat
    /\ MaxCount \in Nat
    /\ MaxNodeSearchDevices \in Nat
    /\ NodeSearchTime \in Nat
    /\ SetIpTime \in Nat

SerialNone == -1

clm_slmp_node_search_clear_db == [count |-> 0, entries |-> <<>>]

(* Fault variant: the size of the database is not looked at.               *)
StoredBeyondCapacity(db, resp) ==
    [count |-> IF db.count = MaxCount THEN 0 ELSE db.count + 1,
     entries |-> IF Len(db.entries) > MaxNodeSearchDevices THEN db.entries
                 ELSE Append(db.entries, [slave_mac |-> resp.slave_mac,
                                          slave_ip |-> resp.slave_ip])]

(* An answer is counted (in a byte) even when there is no room for it.     *)
clm_slmp_node_search_add_db(db, resp) ==
    [count |-> IF db.count = MaxCount THEN 0 ELSE db.count + 1,
     entries |-> IF Len(db.entries) = MaxNodeSearchDevices THEN db.entries
                 ELSE Append(db.entries, [slave_mac |-> resp.slave_mac,
                                          slave_ip |-> resp.slave_ip])]

clm_slmp_init ==
    [slmp_request_serial |-> 0,
     node_search_serial |-> SerialNone,
     set_ip_request_serial |-> SerialNone,
     node_search_timer |-> cl_timer_stop,
     set_ip_request_timer |-> cl_timer_stop,
     node_search_db |-> clm_slmp_node_search_clear_db,
     set_ip_cfm |-> [serial |-> SerialNone, status |-> "NONE"]]

clm_slmp_set_ip_notify_cfm(m, status) ==
    [m EXCEPT
        !.set_ip_request_timer = cl_timer_stop,
        !.set_ip_cfm = [serial |-> m.set_ip_request_serial, status |-> status],
        !.set_ip_request_serial = SerialNone]

-----------------------------------------------------------------------------
(* Responses.  One of the wrong kind has the wrong size and is dropped.    *)
clm_slmp_handle_node_search_response(m, f) ==
    IF ~cl_slmp_parse_node_search_response(f) THEN m
    ELSE [m EXCEPT !.node_search_db = clm_slmp_node_search_add_db(@, f)]

(* Fault variant: answers to other masters are not told apart.             *)
AnyMasterMac(m, f, mac) ==
    IF ~cl_slmp_parse_set_ip_response(f) THEN m
    ELSE clm_slmp_set_ip_notify_cfm(m, "SUCCESS")

clm_slmp_handle_set_ipaddr_response(m, f, mac) ==
    IF ~cl_slmp_parse_set_ip_response(f) THEN m
    ELSE IF f.master_mac # mac THEN m
    ELSE clm_slmp_set_ip_notify_cfm(m, "SUCCESS")

clm_slmp_handle_set_ip_error(m, f) ==
    IF ~cl_slmp_parse_error_response(f) THEN m
    ELSE clm_slmp_set_ip_notify_cfm(m, "ERROR")

(* Fault variant: whatever request is pending takes the response.          *)
SerialsIgnored(m, f, mac) ==
    IF ~cl_slmp_is_header_response(f) THEN m
    ELSE IF f.kind = "NODE_SEARCH_RESP" THEN
        IF m.node_search_serial = SerialNone THEN m
        ELSE clm_slmp_handle_node_search_response(m, f)
    ELSE IF m.set_ip_request_serial = SerialNone THEN m
    ELSE IF f.kind = "SET_IP_RESP"
        THEN clm_slmp_handle_set_ipaddr_response(m, f, mac)
    ELSE clm_slmp_handle_set_ip_error(m, f)

clm_slmp_handle_input_frame(m, f, mac) ==
    IF ~cl_slmp_is_header_response(f) THEN m
    ELSE IF f.serial = m.node_search_serial
        THEN clm_slmp_handle_node_search_response(m, f)
    ELSE IF f.serial # m.set_ip_request_serial THEN m
    ELSE IF f.endcode = "SUCCESS"
        THEN clm_slmp_handle_set_ipaddr_response(m, f, mac)
    ELSE clm_slmp_handle_set_ip_error(m, f)

-----------------------------------------------------------------------------
NextSerial(m) ==
    IF m.slmp_request_serial = MaxSerial THEN 0 ELSE m.slmp_request_serial + 1

(* Fault variant: a search adds to what the one before it found.           *)
SearchKeepsDb(m, sent) ==
    IF m.node_search_serial # SerialNone THEN m
    ELSE [m EXCEPT
        !.node_search_serial = IF sent THEN m.slmp_request_serial
                               ELSE SerialNone,
        !.slmp_request_serial = NextSerial(m),
        !.node_search_timer = IF sent THEN cl_timer_start(NodeSearchTime)
                              ELSE @]

(* Requests.  The record after a request that was sent, and after one that *)
(* could not be.                                                           *)
clm_slmp_perform_node_search(m, sent) ==
    IF m.node_search_serial # SerialNone THEN m
    ELSE [m EXCEPT
        !.node_search_serial = IF sent THEN m.slmp_request_serial
                               ELSE SerialNone,
        !.node_search_db = clm_slmp_node_search_clear_db,
        !.slmp_request_serial = NextSerial(m),
        !.node_search_timer = IF sent THEN cl_timer_start(NodeSearchTime)
                              ELSE @]

(* Fault variant: a request that could not be sent stays pending.          *)
FailedRequestPending(m, new_ip, sent) ==
    IF m.set_ip_request_serial # SerialNone \/ new_ip = InvalidIp THEN m
    ELSE [m EXCEPT
        !.set_ip_request_serial = m.slmp_request_serial,
        !.slmp_request_serial = NextSerial(m),
        !.set_ip_request_timer = IF sent THEN cl_timer_start(SetIpTime) ELSE @]

clm_slmp_perform_set_ipaddr_request(m, new_ip, sent) ==
    IF m.set_ip_request_serial # SerialNone \/ new_ip = InvalidIp THEN m
    ELSE [m EXCEPT
        !.set_ip_request_serial = IF sent THEN m.slmp_request_serial
                                  ELSE SerialNone,
        !.slmp_request_serial = NextSerial(m),
        !.set_ip_request_timer = IF sent THEN cl_timer_start(SetIpTime) ELSE @]

-----------------------------------------------------------------------------
AdvanceSlmp(m, d) ==
    [m EXCEPT !.node_search_timer = TimerAdvance(@, d),
              !.set_ip_request_timer = TimerAdvance(@, d)]

(* Fault variant: the end of the search is not told.                       *)
SearchLeftPending(m) ==
    IF cl_timer_is_expired(m.node_search_timer)
    THEN [m EXCEPT !.node_search_timer = cl_timer_stop]
    ELSE m

CheckNodeSearchTimer(m) ==
    IF cl_timer_is_expired(m.node_search_timer)
    THEN [m EXCEPT !.node_search_timer = cl_timer_stop,
                   !.node_search_serial = SerialNone]
    ELSE m

CheckSetIpTimer(m) ==
    IF cl_timer_is_expired(m.set_ip_request_timer)
    THEN clm_slmp_set_ip_notify_cfm(m, "TIMEOUT")
    ELSE m

clm_slmp_check_timeouts(m) == CheckSetIpTimer(CheckNodeSearchTimer(m))
=============================================================================
