------------------------------- MODULE ClsSlmp ------------------------------
(***************************************************************************)
(* The slave's side of the SLMP messages, src/src/slave/cls_slmp.c.  A     *)
(* search for slaves is answered after a delay that depends on the MAC     *)
(* address; there is room for one pending answer.  A command to take a new *)
(* IP address is carried out and answered at once.                         *)
(*                                                                         *)
(* The state is a record: the IP address of the interface, and the pending *)
(* answer of cls->node_search.  The operators return it, and the ones that *)
(* send are paired with one for the frames sent.  Operators no other       *)
(* definition uses are fault variants.                                     *)
(***************************************************************************)
EXTENDS Integers, ClTimer, ClSlmp

CONSTANTS NodeSearchDelay,    \* per MAC address, as computed from it
          NoMaster            \* an unused master_ip_addr (CL_IPADDR_INVALID)

NoNodeSearch == [master_ip |-> NoMaster, master_mac |-> NoMaster, serial |-> 0,
                 slave_ip |-> NoMaster]

cls_slmp_init(ip) ==
    [ip |-> ip, node_search |-> NoNodeSearch, response_timer |-> cl_timer_stop]

(* One pending answer: a new request takes the place of an older one.      *)
cls_slmp_schedule_node_search_response(s, f, mac) ==
    [s EXCEPT
        !.node_search = [master_ip |-> f.src_ip, master_mac |-> f.master_mac,
                         serial |-> f.serial, slave_ip |-> s.ip],
        !.response_timer = cl_timer_start(NodeSearchDelay[mac])]

cls_slmp_handle_node_search_request(s, f, mac) ==
    IF f.master_ip # f.src_ip THEN s
    ELSE cls_slmp_schedule_node_search_response(s, f, mac)

-----------------------------------------------------------------------------
(* Fault variant: the addressee is not looked at.                          *)
SetIpIsForAll(f, mac) == f.master_ip = f.src_ip

(* Is the command for this slave, and consistent?                          *)
SetIpIsForMe(f, mac) == f.slave_mac = mac /\ f.master_ip = f.src_ip

(* allowed: config.ip_setting_allowed; done: did the operating system take *)
(* the new address?                                                        *)
cls_slmp_handle_ipaddress_set_request(s, f, mac, allowed, done) ==
    IF SetIpIsForMe(f, mac) /\ allowed /\ done THEN [s EXCEPT !.ip = f.new_ip]
    ELSE s

(* Fault variant: a failure is answered as a success.                      *)
FailureNotReported(f, mac, allowed, done) ==
    IF ~SetIpIsForMe(f, mac) THEN {}
    ELSE {cl_slmp_prepare_set_ip_response_frame(f.master_mac, f.serial)}

SetIpResponse(f, mac, allowed, done) ==
    IF ~SetIpIsForMe(f, mac) THEN {}
    ELSE IF allowed /\ done
    THEN {cl_slmp_prepare_set_ip_response_frame(f.master_mac, f.serial)}
    ELSE {cl_slmp_prepare_error_response_frame("ERROR", f.serial)}

cls_slmp_handle_input_frame(s, f, mac, allowed, done) ==
    IF f.kind = "NODE_SEARCH_REQ"
        THEN cls_slmp_handle_node_search_request(s, f, mac)
    ELSE IF f.kind = "SET_IP_REQ"
        THEN cls_slmp_handle_ipaddress_set_request(s, f, mac, allowed, done)
    ELSE s

-----------------------------------------------------------------------------
(* clal_udp_open() binds the socket of an answer to the address the slave  *)
(* had when the request came, and cannot if that was changed since.        *)
clal_udp_open(local_ip, ip) == local_ip = ip

cls_slmp_send_node_search_response(s, mac) ==
    IF s.node_search.master_ip = NoMaster THEN {}
    ELSE IF ~clal_udp_open(s.node_search.slave_ip, s.ip) THEN {}
    ELSE {cl_slmp_prepare_node_search_response_frame(
              s.node_search.master_mac, mac, s.node_search.slave_ip,
              s.node_search.serial)}

AdvanceSlave(s, d) == [s EXCEPT !.response_timer = TimerAdvance(@, d)]

(* The beginning of cls_slmp_periodic(): the answer is sent when it is due.*)
MonitorResponseTimer(s) ==
    IF cl_timer_is_expired(s.response_timer)
    THEN [s EXCEPT !.response_timer = cl_timer_stop]
    ELSE s

AnswersSent(s, mac) ==
    IF cl_timer_is_expired(s.response_timer)
    THEN cls_slmp_send_node_search_response(s, mac)
    ELSE {}
=============================================================================
