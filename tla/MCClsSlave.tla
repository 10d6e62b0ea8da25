----------------------------- MODULE MCClsSlave ----------------------------
(***************************************************************************)
(* ClsSlave with two masters and a slave that occupies two stations and    *)
(* may change its address.  The requests cover every case the handlers     *)
(* tell apart: each layout of slave ids, both parameter numbers and        *)
(* groups, first and later frames, transmission bits, master states.       *)
(***************************************************************************)
EXTENDS ClsSlave

CONSTANTS m1, m2, s1, s2, other, rx1

Request(m, p, g, n, info, layout, on) ==
    [slave_ip_addr |-> NoIp, remote_ip |-> m, well_formed |-> TRUE,
     protocol_ver |-> 2, master_local_unit_info |-> info, master_id |-> m,
     parameter_no |-> p, group_no |-> g, frame_sequence_no |-> n,
     timeout_value |-> IF p = 1 THEN 0 ELSE 1,
     parallel_off_timeout_count |-> IF p = 1 THEN 0 ELSE 3,
     slave_ids |-> layout, transmission_on |-> on,
     data |-> [i \in 1..Len(layout) |-> Payload(m, p, i)]]

(* The slave at the first position, behind another slave, and after its    *)
(* address changed.                                                        *)
Present == {<<s1, Multistation>>, <<other, s1, Multistation>>,
            <<s2, Multistation>>}

(* The slave with a wrong number of stations, absent, repeated, suspended. *)
Unusual == {<<other, s1>>, <<other, Multistation>>,
            <<s1, Multistation, s1, Multistation>>, <<NoIp, NoIp>>}

Refused(req) ==
    { [req EXCEPT !.well_formed = FALSE], [req EXCEPT !.remote_ip = m2],
      [req EXCEPT !.protocol_ver = 3], [req EXCEPT !.protocol_ver = 1],
      [req EXCEPT !.group_no = 0] }

MCRequests ==
         { Request(m, p, 1, n, 1, layout, on) :
             m \in Masters, p \in 1..2, n \in 0..1, layout \in Present,
             on \in {{}, {1}, {1, 2}} }
    \cup { Request(m, p, 1, n, 2, layout, {1}) :
             m \in Masters, p \in 1..2, n \in 0..1, layout \in Unusual }
    \cup { Request(m, 1, g, 1, info, <<s1, Multistation>>, {1}) :
             m \in Masters, g \in 1..2, info \in 1..2 }
    \cup Refused(Request(m1, 1, 1, 1, 2, <<s1, Multistation>>, {1}))
=============================================================================
