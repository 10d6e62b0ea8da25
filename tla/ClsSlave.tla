------------------------------ MODULE ClsSlave -----------------------------
(***************************************************************************)
(* One slave stack (ClsIefb) run by an application, on a network that may  *)
(* deliver any request of any master, or none, before each call of         *)
(* cls_handle_periodic().  Loss, duplication, delay and reordering of      *)
(* requests are all in there: nothing relates one request to the next.     *)
(***************************************************************************)
EXTENDS ClsIefb

CONSTANTS
    Masters,      \* IP addresses of the masters on the network
    SlaveIps,     \* addresses the slave's interface may have
    OtherIds,     \* what else a list of slave ids may hold
    Requests,     \* the requests the masters send
    RxValues,     \* what the application may write to RX and RWr
    MaxDelay      \* longest time between two calls of the periodic handler

(* The data a master sends names the master, its parameter number and the  *)
(* station it is meant for, so that the properties can tell them apart.    *)
Payload(master_id, parameter_no, station) ==
    [master_id |-> master_id, parameter_no |-> parameter_no,
     station |-> station]

ASSUME AddressAssumption ==
    /\ NoIp \notin Masters
    /\ NoIp \notin SlaveIps
    /\ Multistation \notin SlaveIps
ASSUME RxAssumption == NoData \in RxValues
ASSUME MaxDelayAssumption == MaxDelay \in Nat \ {0}

Payloads == [master_id : Masters, parameter_no : Nat, station : Nat]

RequestType(addresses) ==
    [slave_ip_addr : addresses, remote_ip : Masters, well_formed : BOOLEAN,
     protocol_ver : Nat, master_local_unit_info : Nat, master_id : Masters,
     parameter_no : Nat, group_no : Nat, frame_sequence_no : Nat,
     timeout_value : Nat, parallel_off_timeout_count : Nat,
     slave_ids : Seq(Masters \cup SlaveIps \cup OtherIds),
     transmission_on : SUBSET Nat, data : Seq(Payloads)]

ASSUME RequestAssumption ==
    \A req \in Requests :
        /\ req \in RequestType({NoIp})
        /\ Len(req.data) = Len(req.slave_ids)
        /\ \A i \in 1..Len(req.slave_ids) :
              req.data[i] = Payload(req.master_id, req.parameter_no, i)

VARIABLES
    cls,       \* the slave stack
    ip,        \* the address the operating system reports for the interface
    silence,   \* time since the last request the slave answered with success
    beat       \* changes whenever time passes

vars == <<cls, ip, silence, beat>>

TotalTimeout(master) ==
    cl_calculate_total_timeout(master.timeout_value,
                               master.parallel_off_timeout_count)

LeastOf(a, b) == IF a <= b THEN a ELSE b

AnsweredIn(c) == \E response \in c.sent : response.end_code = "SUCCESS"

(* A request as cl_iefb_parse_cyclic_request() leaves it: with the address *)
(* of the interface it came in on.                                         *)
Incoming ==
    {NoRequest} \cup {[req EXCEPT !.slave_ip_addr = ip] : req \in Requests}

Init ==
    /\ cls = cls_iefb_init
    /\ ip \in SlaveIps
    /\ silence = 0
    /\ beat = 0

-----------------------------------------------------------------------------
(* cls_handle_periodic(), d after the previous call.  The handler first    *)
(* serves SLMP, which shares no state with the cyclic part but the address *)
(* of the interface (ChangeIp).  The silence counts no further than the    *)
(* timeout.                                                                *)
cls_handle_periodic(d, req) ==
    /\ cls' = cls_iefb_periodic(cls, d, req)
    /\ silence' = IF AnsweredIn(cls') \/ cls'.state # "MASTER_CONTROL" THEN 0
                  ELSE LeastOf(silence + d, TotalTimeout(cls'.master))
    /\ beat' = (IF d = 0 THEN beat ELSE 1 - beat)
    /\ UNCHANGED ip

cls_stop_cyclic_data(is_error) ==
    /\ cls' = cls_iefb_disable_slave(cls, is_error)
    /\ UNCHANGED <<ip, silence, beat>>

cls_restart_cyclic_data ==
    /\ cls' = cls_iefb_reenable_slave(cls)
    /\ UNCHANGED <<ip, silence, beat>>

(* The application writes RX bits and RWr registers.                       *)
cls_set_rx(value) ==
    /\ cls' = [NewCall(cls) EXCEPT !.rx = value]
    /\ UNCHANGED <<ip, silence, beat>>

(* The address of the interface changes, or is lost, while the stack runs. *)
ChangeIp(address) ==
    /\ ip' = address
    /\ UNCHANGED <<cls, silence, beat>>

(* The slave is power cycled.                                              *)
cls_init ==
    /\ cls' = cls_iefb_init
    /\ silence' = 0
    /\ UNCHANGED <<ip, beat>>

Periodic == \E d \in 0..MaxDelay, req \in Incoming : cls_handle_periodic(d, req)

Next ==
    \/ Periodic
    \/ \E is_error \in BOOLEAN : cls_stop_cyclic_data(is_error)
    \/ cls_restart_cyclic_data
    \/ \E value \in RxValues : cls_set_rx(value)
    \/ \E address \in SlaveIps \cup {NoIp} : ChangeIp(address)
    \/ cls_init

Spec == Init /\ [][Next]_vars

(* The application calls cls_handle_periodic() for as long as it runs, and *)
(* its clock advances.                                                     *)
TimePasses == beat' = 1 - beat

FairSpec == Spec /\ WF_beat(TimePasses)

-----------------------------------------------------------------------------
(* Type correctness.                                                       *)
Responses ==
    [remote_ip : Masters, slave_id : SlaveIps, group_no : Nat,
     frame_sequence_no : Nat, end_code : cl_slave_endcodes,
     occupied : {NumOccupied}, rx : RxValues]

MasterType ==
    [master_id : Masters \cup {NoIp}, parameter_no : Nat, group_no : Nat,
     slave_station_no : 0..MaxOccupied, timeout_value : Nat,
     parallel_off_timeout_count : Nat]

TriggerType ==
    [executed_before : BOOLEAN, previous_connected_to_master : BOOLEAN,
     previous_protocol_ver : Nat, previous_master_application_status : Nat]

AppType ==
    [connected : BOOLEAN, master_connected : BOOLEAN, running : BOOLEAN,
     stopped_by_user : BOOLEAN]

ErrorMessages ==
    {"MASTER_STATION_DUPLICATION", "SLAVE_STATION_DUPLICATION",
     "WRONG_NUMBER_OCCUPIED"}

ClsType ==
    [state : cls_slave_states \ {"SLAVE_DOWN"},
     master : MasterType,
     receive_timer : Timer(Nat),
     timer_for_disabling_slave : Timer({0, WaitTimeDisableSlave}),
     data : [1..NumOccupied -> Payloads \cup {NoData}],
     rx : RxValues,
     endcode_slave_disabled : {"SLAVE_ERROR", "SLAVE_REQUESTS_DISCONNECT"},
     trigger : TriggerType,
     app : AppType,
     sent : SUBSET Responses,
     errors : SUBSET ErrorMessages]

TypeOK ==
    /\ cls \in ClsType
    /\ ip \in SlaveIps \cup {NoIp}
    /\ silence \in Nat
    /\ beat \in {0, 1}

(***************************************************************************)
(* Between two calls into the stack the state, the master record and the   *)
(* timers tell the same story: a master is stored and its receive timer    *)
(* runs, with the timeout that master asked for, exactly in                *)
(* MASTER_CONTROL, and the disabling timer runs exactly in                 *)
(* WAIT_DISABLING_SLAVE.  A controlled slave without a timer would never   *)
(* notice that its master is gone.                                         *)
(***************************************************************************)
TimersFollowState ==
    /\ (cls.state = "MASTER_CONTROL") <=> (cls.master.master_id # NoIp)
    /\ (cls.state = "MASTER_CONTROL") <=> (cls.receive_timer.state = "RUNNING")
    /\ (cls.state = "MASTER_CONTROL") =>
            cls.receive_timer.period = TotalTimeout(cls.master)
    /\ (cls.state = "WAIT_DISABLING_SLAVE")
            <=> (cls.timer_for_disabling_slave.state = "RUNNING")

(***************************************************************************)
(* The application's view is right between calls: connect_cb and           *)
(* disconnect_cb, and independently master_running_cb, last said           *)
(* "connected" exactly when the slave is controlled, and the running flags *)
(* are those of the status the controlling master sent last.               *)
(***************************************************************************)
ApplicationAgrees ==
    /\ cls.app.connected = (cls.state = "MASTER_CONTROL")
    /\ cls.app.master_connected = (cls.state = "MASTER_CONTROL")
    /\ cls.app.running =
            /\ cls.state = "MASTER_CONTROL"
            /\ IsRunning(cls.trigger.previous_master_application_status)
    /\ cls.app.stopped_by_user =>
            cls.state = "MASTER_CONTROL" /\ ~cls.app.running

(***************************************************************************)
(* REQ_CLS_TIMING_01: a slave stays controlled only while the time since   *)
(* the last request it answered is below the timeout its master gave it;   *)
(* requests that are dropped, or answered with an error, do not keep the   *)
(* connection alive.                                                       *)
(***************************************************************************)
NoStaleControl ==
    cls.state = "MASTER_CONTROL" => silence < TotalTimeout(cls.master)

(***************************************************************************)
(* The RY and RWw areas of a controlled slave hold nothing, or what the    *)
(* controlling master sent, under its present parameter number, for        *)
(* exactly the stations the slave occupies: never leftovers of an earlier  *)
(* master or of an earlier position in the frame.                          *)
(***************************************************************************)
DataFromController ==
    cls.state = "MASTER_CONTROL" =>
        \A i \in 1..NumOccupied :
            cls.data[i] \in
                {NoData, Payload(cls.master.master_id, cls.master.parameter_no,
                                 cls.master.slave_station_no + i - 1)}

(***************************************************************************)
(* REQ_CLS_CAPACITY_06: no request of another master takes a controlled    *)
(* slave over; it changes hands only through a state without a master.     *)
(***************************************************************************)
ControllerNeverStolen ==
    [][cls.state = "MASTER_CONTROL" /\ cls'.state = "MASTER_CONTROL"
            => cls'.master.master_id = cls.master.master_id]_vars

(***************************************************************************)
(* RX and RWr leave the slave only towards the master that already         *)
(* controlled it before the request came, in answer to its own request:    *)
(* the first answer of a connection is always empty.                       *)
(***************************************************************************)
HandshakeBeforeData ==
    [][\A response \in cls'.sent \ cls.sent :
            response.rx # NoData =>
                /\ cls.state = "MASTER_CONTROL"
                /\ response.remote_ip = cls.master.master_id
                /\ response.group_no = cls.master.group_no
                /\ response.end_code = "SUCCESS"]_vars

(***************************************************************************)
(* A stop asked for by the application ends: WAIT_DISABLING_SLAVE is left, *)
(* whatever the masters keep sending.                                      *)
(***************************************************************************)
DisablingEnds ==
    cls.state = "WAIT_DISABLING_SLAVE" ~> cls.state # "WAIT_DISABLING_SLAVE"
=============================================================================
