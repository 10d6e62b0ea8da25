-------------------------------- MODULE Slmp --------------------------------
(***************************************************************************)
(* Masters and slaves that exchange SLMP messages (ClmSlmp, ClsSlmp).      *)
(* Every frame is broadcast.  The network may lose, delay, reorder and     *)
(* duplicate frames: a frame that was sent stays in net, and each node may *)
(* receive it at any time, any number of times, or never.                  *)
(*                                                                         *)
(* A node's periodic handler checks its timers and then reads its socket.  *)
(* Reading a frame is an action of its own here, because checking a timer  *)
(* again before any time has passed changes nothing.                       *)
(***************************************************************************)
EXTENDS ClmSlmp, ClsSlmp, FiniteSets

CONSTANTS Masters, Slaves,  \* the nodes, named by their MAC addresses
          FirstIp,          \* the IP address each slave starts with
          NewIps,           \* the IP addresses each slave may be given
          Allowed,          \* the slaves with config.ip_setting_allowed
          MaxRequests       \* bound: requests per master

VARIABLES clm,              \* the masters
          cls,              \* the slaves
          net,              \* the frames sent so far
          asked,            \* per master, the slave of its latest command
          served,           \* per slave, the commands it carried out
          refused,          \* per slave, the commands it did not
          since             \* per master, the slaves' addresses during and
                            \* since its latest search

vars == <<clm, cls, net, asked, served, refused, since>>

ASSUME SlmpAssumption ==
    /\ Masters \cap Slaves = {}
    /\ NoMaster \notin Masters
    /\ MaxRequests \in 0 .. MaxSerial
    /\ \A s \in Slaves : NodeSearchDelay[s] \in Nat
    /\ \A s, t \in Slaves : s # t =>
           ({FirstIp[s]} \cup NewIps[s]) \cap ({FirstIp[t]} \cup NewIps[t]) = {}

Serials == 0 .. MaxSerial

SlaveIps(s) == {FirstIp[s]} \cup NewIps[s]

TypeOK ==
    /\ \A m \in Masters :
        /\ clm[m].slmp_request_serial \in Serials
        /\ clm[m].node_search_serial \in Serials \cup {SerialNone}
        /\ clm[m].set_ip_request_serial \in Serials \cup {SerialNone}
        /\ clm[m].node_search_timer \in Timer({0, NodeSearchTime})
        /\ clm[m].set_ip_request_timer \in Timer({0, SetIpTime})
        /\ clm[m].node_search_db.count \in 0 .. MaxCount
        /\ Len(clm[m].node_search_db.entries) <= MaxNodeSearchDevices
    /\ \A s \in Slaves :
        /\ cls[s].ip \in UNION {SlaveIps(t) : t \in Slaves}
        /\ cls[s].response_timer \in Timer({0, NodeSearchDelay[s]})

Init ==
    /\ clm = [m \in Masters |-> clm_slmp_init]
    /\ cls = [s \in Slaves |-> cls_slmp_init(FirstIp[s])]
    /\ net = {}
    /\ asked = [m \in Masters |-> NoMaster]
    /\ served = [s \in Slaves |-> {}]
    /\ refused = [s \in Slaves |-> {}]
    /\ since = [m \in Masters |-> {}]

-----------------------------------------------------------------------------
(* The application's calls of a master.                                    *)
PerformNodeSearch(m, sent) ==
    /\ clm[m].slmp_request_serial < MaxRequests
    /\ clm[m].node_search_serial = SerialNone
    /\ clm' = [clm EXCEPT ![m] = clm_slmp_perform_node_search(@, sent)]
    /\ net' = IF sent
              THEN net \cup {cl_slmp_prepare_node_search_request_frame(
                                 m, m, clm[m].slmp_request_serial)}
              ELSE net
    /\ since' = [since EXCEPT ![m] = {<<s, cls[s].ip>> : s \in Slaves}]
    /\ UNCHANGED <<cls, asked, served, refused>>

PerformSetIp(m, s, new_ip, sent) ==
    /\ clm[m].slmp_request_serial < MaxRequests
    /\ clm[m].set_ip_request_serial = SerialNone
    /\ new_ip # InvalidIp
    /\ clm' = [clm EXCEPT ![m] =
                  clm_slmp_perform_set_ipaddr_request(
                      [@ EXCEPT !.set_ip_cfm = clm_slmp_init.set_ip_cfm],
                      new_ip, sent)]
    /\ net' = IF sent
              THEN net \cup {cl_slmp_prepare_set_ip_request_frame(
                                 m, m, clm[m].slmp_request_serial, s, new_ip)}
              ELSE net
    /\ asked' = [asked EXCEPT ![m] = s]
    /\ UNCHANGED <<cls, served, refused, since>>

(* The periodic handler of a master.                                       *)
MasterPeriodic(m) ==
    /\ clm' = [clm EXCEPT ![m] = clm_slmp_check_timeouts(AdvanceSlmp(@, 1))]
    /\ UNCHANGED <<cls, net, asked, served, refused, since>>

MasterReceive(m, f) ==
    /\ clm' = [clm EXCEPT ![m] = clm_slmp_handle_input_frame(@, f, m)]
    /\ UNCHANGED <<cls, net, asked, served, refused, since>>

(* The periodic handler of a slave.                                        *)
SlavePeriodic(s) ==
    LET now == AdvanceSlave(cls[s], 1)
    IN  /\ cls' = [cls EXCEPT ![s] = MonitorResponseTimer(now)]
        /\ net' = net \cup AnswersSent(now, s)
        /\ UNCHANGED <<clm, asked, served, refused, since>>

SlaveReceive(s, f, done) ==
    LET sent == IF f.kind = "SET_IP_REQ"
                THEN SetIpResponse(f, s, s \in Allowed, done) ELSE {}
        id == <<f.master_mac, f.serial>>
    IN  /\ cls' = [cls EXCEPT ![s] =
               cls_slmp_handle_input_frame(@, f, s, s \in Allowed, done)]
        /\ net' = net \cup sent
        /\ served' = [served EXCEPT ![s] =
               IF sent # {} /\ s \in Allowed /\ done THEN @ \cup {id} ELSE @]
        /\ refused' = [refused EXCEPT ![s] =
               IF sent # {} /\ ~(s \in Allowed /\ done) THEN @ \cup {id} ELSE @]
        /\ since' = [m \in Masters |-> since[m] \cup {<<s, cls'[s].ip>>}]
        /\ UNCHANGED <<clm, asked>>

Next ==
    \/ \E m \in Masters, sent \in BOOLEAN : PerformNodeSearch(m, sent)
    \/ \E m \in Masters, s \in Slaves, sent \in BOOLEAN :
           \E new_ip \in NewIps[s] \cup {InvalidIp} :
               PerformSetIp(m, s, new_ip, sent)
    \/ \E m \in Masters : MasterPeriodic(m)
    \/ \E m \in Masters, f \in net : MasterReceive(m, f)
    \/ \E s \in Slaves : SlavePeriodic(s)
    \/ \E s \in Slaves, f \in net, done \in BOOLEAN :
           ~cl_slmp_is_header_response(f) /\ SlaveReceive(s, f, done)

(* Each node's application calls its periodic handler for ever.  Nothing   *)
(* is assumed of the network or of the applications' other calls.          *)
Fairness ==
    /\ \A m \in Masters : WF_vars(MasterPeriodic(m))
    /\ \A s \in Slaves : WF_vars(SlavePeriodic(s))

Spec == Init /\ [][Next]_vars

FairSpec == Spec /\ Fairness

-----------------------------------------------------------------------------
(* A request is pending exactly as long as its timer runs: otherwise the   *)
(* application could never make another one, or would get a confirmation   *)
(* of nothing.                                                             *)
TimersFollowRequests ==
    \A m \in Masters :
        /\ clm[m].node_search_serial # SerialNone
           <=> clm[m].node_search_timer.state = "RUNNING"
        /\ clm[m].set_ip_request_serial # SerialNone
           <=> clm[m].set_ip_request_timer.state = "RUNNING"

(* A master that is told that the address was set asked a slave that has   *)
(* carried out this very command: not an earlier one, nor one of another   *)
(* master, whatever arrives late or twice.                                 *)
SuccessMeansSet ==
    \A m \in Masters :
        clm[m].set_ip_cfm.status = "SUCCESS"
        => <<m, clm[m].set_ip_cfm.serial>> \in served[asked[m]]

(* A master that is told of an error asked a slave that has refused this   *)
(* command.                                                                *)
ErrorMeansRefused ==
    \A m \in Masters :
        clm[m].set_ip_cfm.status = "ERROR"
        => <<m, clm[m].set_ip_cfm.serial>> \in refused[asked[m]]

(* No two slaves have the same address, as long as the masters give each   *)
(* slave addresses of its own.                                             *)
AddressesDistinct ==
    \A s, t \in Slaves : s # t => cls[s].ip # cls[t].ip

(* What a search found was true since it began: an answer to an earlier    *)
(* search is not taken for one to this.                                    *)
FoundSinceSearch ==
    \A m \in Masters :
        \A i \in DOMAIN clm[m].node_search_db.entries :
            LET e == clm[m].node_search_db.entries[i]
            IN  <<e.slave_mac, e.slave_ip>> \in since[m]

(* Every search and every command ends, whether or not anyone answers.     *)
RequestsEnd ==
    \A m \in Masters :
        /\ clm[m].node_search_serial # SerialNone
           ~> clm[m].node_search_serial = SerialNone
        /\ clm[m].set_ip_request_serial # SerialNone
           ~> clm[m].set_ip_request_serial = SerialNone
=============================================================================
