------------------------------- MODULE ClSlmp -------------------------------
(***************************************************************************)
(* The SLMP frames of src/src/common/cl_slmp.c, as both sides prepare      *)
(* them.  A frame has the fields the other side looks at: its kind (the    *)
(* command of a request, the size of a response), the serial number of the *)
(* request, and the addresses in its payload.  src_ip is where a request   *)
(* came from, as told by the UDP layer.                                    *)
(***************************************************************************)

cl_slmp_prepare_node_search_request_frame(mac, ip, serial) ==
    [kind |-> "NODE_SEARCH_REQ", serial |-> serial, master_mac |-> mac,
     master_ip |-> ip, src_ip |-> ip]

cl_slmp_prepare_set_ip_request_frame(mac, ip, serial, slave_mac, new_ip) ==
    [kind |-> "SET_IP_REQ", serial |-> serial, master_mac |-> mac,
     master_ip |-> ip, src_ip |-> ip, slave_mac |-> slave_mac,
     new_ip |-> new_ip]

cl_slmp_prepare_node_search_response_frame(master_mac, mac, ip, serial) ==
    [kind |-> "NODE_SEARCH_RESP", serial |-> serial, endcode |-> "SUCCESS",
     master_mac |-> master_mac, slave_mac |-> mac, slave_ip |-> ip]

cl_slmp_prepare_set_ip_response_frame(master_mac, serial) ==
    [kind |-> "SET_IP_RESP", serial |-> serial, endcode |-> "SUCCESS",
     master_mac |-> master_mac]

(* An error response does not name the master that it is for.              *)
cl_slmp_prepare_error_response_frame(endcode, serial) ==
    [kind |-> "ERROR_RESP", serial |-> serial, endcode |-> endcode]

cl_slmp_is_header_response(f) ==
    f.kind \in {"NODE_SEARCH_RESP", "SET_IP_RESP", "ERROR_RESP"}

(* A response of the wrong size is dropped.                                *)
cl_slmp_parse_node_search_response(f) == f.kind = "NODE_SEARCH_RESP"

cl_slmp_parse_set_ip_response(f) == f.kind = "SET_IP_RESP"

cl_slmp_parse_error_response(f) == f.kind = "ERROR_RESP"
=============================================================================
