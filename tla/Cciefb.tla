------------------------------- MODULE Cciefb -------------------------------
(***************************************************************************)
(* Masters (ClmIefb) and one slave (ClsIefb) on one network segment.  Each *)
(* master has a parameter file, may be restarted at any time, and may then *)
(* have another configuration.  The slave may be restarted, stopped and    *)
(* re-enabled.                                                             *)
(*                                                                         *)
(* Requests are broadcast, to the slave and to the other masters.  net     *)
(* holds, for every receiver, the frame each sender sent last, for at most *)
(* one unit of time: it may be received late, several times or never.      *)
(*                                                                         *)
(* Faults end when calm becomes true, for good: from then on nothing is    *)
(* restarted or stopped, and every frame arrives, once, before the next    *)
(* unit of time has passed.                                                *)
(***************************************************************************)
EXTENDS ClsIefb, ClFile

CONSTANTS
    Masters,              \* IP addresses of the masters
    SlaveIp,              \* IP address of the slave
    Configs,              \* configurations (hier) a master may be given
    ArbitrationTime, MaxSequenceNo, MaxParameterNo, MasterProtocolVer,
    DefaultParameterNo,   \* CLM_DEFAULT_PARAMETER_NO
    Outcomes,             \* how a save of the parameter file may end
    FirstFiles,           \* what may be found where the parameter file goes
    Repeats,              \* may a frame be received more than once?
    MaxSessions,          \* bound: how often a master is started; the numbers
                          \* do not come round before that
    MaxSlaveFaults        \* bound: how often the slave is restarted or stopped

VARIABLES
    clm,        \* per master, the stack
    file,       \* per master, the parameter file
    sessions,   \* per master, its starts: parameter number and configuration
    kept,       \* per master, could its number always be saved?
    cls,        \* the slave stack
    faults,     \* how often the slave was restarted or stopped
    net,        \* frames under way
    calm,       \* no more faults
    beat        \* after that, the parity of the number of steps

vars == <<clm, file, sessions, kept, cls, faults, net, calm, beat>>

(* The stack of a master with an address and a configuration.              *)
M(self, config) == INSTANCE ClmIefb WITH MasterIp <- self, hier <- config

ASSUME CciefbAssumption ==
    /\ SlaveIp \notin Masters \cup {NoIp, Multistation}
    /\ \A m \in Masters, config \in Configs :
            /\ M(m, config)!clm_validate_config
            /\ M(m, config)!clm_validate_config_duplicates
    /\ MaxParameterNo \in Nat
    /\ DefaultParameterNo \in 0..MaxParameterNo
    /\ \A f \in FirstFiles : cl_file_load(f) => f.object \in 0..MaxParameterNo
    /\ MaxSessions \in 1..MaxParameterNo + 1
    /\ Outcomes \subseteq SaveOutcomes
    /\ Repeats \in BOOLEAN

Latest(m) == sessions[m][Len(sessions[m])]

Stack(m) == Latest(m).config

-----------------------------------------------------------------------------
(* Starting a master.  Its application writes outputs for all its slaves   *)
(* at once; what it writes names the session and the slave.                *)

Output(m, k, slave_id) == [master |-> m, session |-> k, slave_id |-> slave_id]

WriteGroupOutputs(group, m, k, devices) ==
    [group EXCEPT !.slave_devices = [i \in DOMAIN @ |->
        [@[i] EXCEPT !.ry = Output(m, k, devices[i].slave_id)]]]

WriteOutputs(c, m, k, config) ==
    [c EXCEPT !.groups = [g \in DOMAIN @ |->
        WriteGroupOutputs(@[g], m, k, config[g].slave_devices)]]

(* The number found in the file, or the default.                           *)
LoadedParameterNo(f) == IF cl_file_load(f) THEN f.object ELSE DefaultParameterNo

clm_master_init(m, k, config, f) ==
    WriteOutputs(M(m, config)!clm_iefb_init(LoadedParameterNo(f)), m, k, config)

NotRunningYet == [master_state |-> "DOWN"]

Init ==
    /\ sessions = [m \in Masters |-> <<>>]
    /\ clm = [m \in Masters |-> NotRunningYet]
    /\ file \in [Masters -> FirstFiles]
    /\ kept = [m \in Masters |-> TRUE]
    /\ cls = cls_iefb_init
    /\ faults = 0
    /\ net = {}
    /\ calm = FALSE
    /\ beat = 0

(* Power on, or restart, of a master, with the configuration config.  The  *)
(* file is saved before the first frame can be sent.                       *)
clm_init(m, config, outcome) ==
    LET started == clm_master_init(m, Len(sessions[m]) + 1, config, file[m])
    IN  /\ ~calm
        /\ Len(sessions[m]) < MaxSessions
        /\ clm' = [clm EXCEPT ![m] = started]
        /\ file' = [file EXCEPT ![m] =
                cl_file_save_if_modified(@, started.parameter_no, outcome)]
        /\ sessions' = [sessions EXCEPT ![m] =
                Append(@, [parameter_no |-> started.parameter_no,
                           config |-> config])]
        /\ kept' = [kept EXCEPT ![m] =
                @ /\ outcome = "SAVED" /\ file[m].path]
        /\ UNCHANGED <<cls, faults, net, calm, beat>>

(* The file of a master is removed, before it is needed again.             *)
ClearFile(m) ==
    /\ ~calm
    /\ Len(sessions[m]) < MaxSessions
    /\ cl_file_load(file[m])
    /\ file' = [file EXCEPT ![m] = cl_file_clear(@)]
    /\ kept' = [kept EXCEPT ![m] = FALSE]
    /\ UNCHANGED <<clm, sessions, cls, faults, net, calm, beat>>

-----------------------------------------------------------------------------
(* The network.                                                            *)

Entry(from, to, frame) ==
    [from |-> from, to |-> to, frame |-> frame, late |-> FALSE]

RequestsOf(m, c) ==
    UNION {{Entry(m, to, [req EXCEPT !.slave_ip_addr = SlaveIp]) :
                to \in {n \in Masters \ {m} : sessions[n] # <<>>} \cup {SlaveIp}} :
           req \in UNION {c.groups[g].sent : g \in DOMAIN c.groups}}

AsReceived(resp) ==
    [kind |-> "RESPONSE", remote_ip |-> SlaveIp, slave_id |-> resp.slave_id,
     well_formed |-> TRUE, group_no |-> resp.group_no,
     frame_sequence_no |-> resp.frame_sequence_no,
     end_code |-> resp.end_code, occupied |-> resp.occupied, rx |-> resp.rx]

ResponsesOf(c) ==
    {Entry(SlaveIp, resp.remote_ip, AsReceived(resp)) : resp \in c.sent}

(* A new frame takes the place of an older one on the same way.            *)
Send(inflight, new) ==
    {e \in inflight : ~\E n \in new : n.from = e.from /\ n.to = e.to} \cup new

(* What left a stack has been handed on.                                   *)
Emptied(m, c) ==
    IF sessions[m] = <<>> THEN c ELSE M(m, Stack(m))!NewMasterCall(c)

Remaining(e, again) == IF again THEN net ELSE net \ {e}

-----------------------------------------------------------------------------
(* A unit of time passes, and the periodic handlers look at their timers.  *)
(* The slave looks into its socket first.                                  *)
Step == beat' = IF calm THEN 1 - beat ELSE beat

Aged(inflight) ==
    {[e EXCEPT !.late = TRUE] : e \in {f \in inflight : ~f.late}}

Tick ==
    LET masters == [m \in Masters |->
            IF sessions[m] = <<>> THEN clm[m]
            ELSE M(m, Stack(m))!clm_iefb_periodic(
                    clm[m], 1, M(m, Stack(m))!NoInput)]
        slave == cls_iefb_periodic(cls, 1, NoRequest)
    IN  /\ calm => net = {}
        /\ Step
        /\ clm' = [m \in Masters |-> Emptied(m, masters[m])]
        /\ cls' = NewCall(slave)
        /\ net' = Send(Aged(net),
                UNION {RequestsOf(m, masters[m]) :
                            m \in {n \in Masters : sessions[n] # <<>>}})
        /\ UNCHANGED <<file, sessions, kept, faults, calm>>

MasterReceive(e, again) ==
    LET m == e.to
        after == M(m, Stack(m))!clm_iefb_periodic(clm[m], 0, e.frame)
    IN  /\ m \in Masters
        /\ sessions[m] # <<>>
        /\ Step
        /\ clm' = [clm EXCEPT ![m] = Emptied(m, after)]
        /\ net' = Send(Remaining(e, again), RequestsOf(m, after))
        /\ UNCHANGED <<file, sessions, kept, cls, faults, calm>>

SlaveReceive(e, again) ==
    LET after == cls_iefb_periodic(cls, 0, e.frame)
    IN  /\ e.to = SlaveIp
        /\ Step
        /\ cls' = NewCall(after)
        /\ net' = Send(Remaining(e, again), ResponsesOf(after))
        /\ UNCHANGED <<clm, file, sessions, kept, faults, calm>>

-----------------------------------------------------------------------------
(* Faults and commands at the slave.                                       *)
SlaveFault(after) ==
    /\ ~calm
    /\ faults < MaxSlaveFaults
    /\ faults' = faults + 1
    /\ cls' = NewCall(after)
    /\ UNCHANGED <<clm, file, sessions, kept, net, calm, beat>>

cls_init == SlaveFault(cls_iefb_init)

cls_stop_cyclic_data == SlaveFault(cls_iefb_disable_slave(cls, TRUE))

cls_restart_cyclic_data ==
    /\ ~calm
    /\ cls' = cls_iefb_reenable_slave(cls)
    /\ UNCHANGED <<clm, file, sessions, kept, faults, net, calm, beat>>

(* The end of all faults.  What is still under way is lost; a frame that   *)
(* arrives later is one that arrives before this step.                     *)
CalmDown ==
    /\ ~calm
    /\ calm' = TRUE
    /\ net' = {}
    /\ UNCHANGED <<clm, file, sessions, kept, cls, faults, beat>>

Receive(again) == \E e \in net : MasterReceive(e, again) \/ SlaveReceive(e, again)

Next ==
    \/ \E m \in Masters, config \in Configs, outcome \in Outcomes :
            clm_init(m, config, outcome)
    \/ \E m \in Masters : ClearFile(m)
    \/ Tick
    \/ Receive(FALSE)
    \/ ~calm /\ Repeats /\ Receive(TRUE)
    \/ cls_init
    \/ cls_stop_cyclic_data
    \/ cls_restart_cyclic_data
    \/ CalmDown

Spec == Init /\ [][Next]_vars

(***************************************************************************)
(* Once faults have ended, every application goes on calling its periodic  *)
(* handler, and the clock advances.  beat changes in exactly those steps.  *)
(***************************************************************************)
FairSpec == Spec /\ WF_beat(calm /\ Step)

-----------------------------------------------------------------------------
(***************************************************************************)
(* REQ_CLM_PARAMETERID_01 and _02, REQ_CLS_PARAMETERID_01 to _03: the      *)
(* slave computes its station, its timeout and the place of its data once  *)
(* per parameter number, so a number must stand for one start of a master. *)
(* A controlled slave then follows exactly one session of its master: its  *)
(* timeouts are of that session's configuration and its output data is     *)
(* what that session wrote for this slave, whatever frames of an earlier   *)
(* session still arrive and whether or not the first requests were lost.   *)
(* Only a master whose file was lost, or not saved, may reuse a number.    *)
(***************************************************************************)
FollowsSession(m, k) ==
    LET group == sessions[m][k].config[cls.master.group_no]
    IN  /\ sessions[m][k].parameter_no = cls.master.parameter_no
        /\ group.timeout_value = cls.master.timeout_value
        /\ group.parallel_off_timeout_count
                = cls.master.parallel_off_timeout_count
        /\ \A i \in 1..NumOccupied :
                cls.data[i] \in {NoData, Output(m, k, SlaveIp)}

FollowsOneSession ==
    LET m == cls.master.master_id
    IN  cls.state = "MASTER_CONTROL" /\ kept[m] =>
            \E k \in DOMAIN sessions[m] : FollowsSession(m, k)

(***************************************************************************)
(* REQ_CLM_ARBITR_01 and _02, REQ_CLM_ERROR_04, REQ_CLS_TIMING_01: master  *)
(* and slave find each other again.  After restarts of either side, frames *)
(* that were lost, late or repeated, and stops by the slave's application, *)
(* once faults have ended and the slave is not disabled, one master serves *)
(* the slave and goes on doing so: it is running with the slave's bit on,  *)
(* and the slave is under its control.  No other master is left running,   *)
(* even if masters missed each other's requests during arbitration: the    *)
(* slave's answers tell them.  The configurations must fit the slave, and  *)
(* the only other outcome is that every master has been sent to standby.   *)
(***************************************************************************)
Started == {m \in Masters : sessions[m] # <<>>}

Runs(m) == clm[m].master_state = "RUNNING"

Serving(m) ==
    /\ Runs(m)
    /\ \E g \in DOMAIN Stack(m) : \E i \in DOMAIN Stack(m)[g].slave_devices :
            /\ Stack(m)[g].slave_devices[i].slave_id = SlaveIp
            /\ clm[m].groups[g].slave_devices[i].transmission_bit
    /\ cls.state = "MASTER_CONTROL"
    /\ cls.master.master_id = m

FitsSlave(config) ==
    \E g \in DOMAIN config : \E i \in DOMAIN config[g].slave_devices :
        /\ config[g].slave_devices[i].slave_id = SlaveIp
        /\ config[g].slave_devices[i].num_occupied_stations = NumOccupied

CanServe ==
    /\ calm
    /\ cls.state \in {"MASTER_NONE", "MASTER_CONTROL"}
    /\ Started # {}
    /\ \A m \in Started : FitsSlave(Stack(m))

Recovers ==
    CanServe ~> [](\/ \E m \in Started :
                            Serving(m) /\ \A n \in Started \ {m} : ~Runs(n)
                   \/ \A m \in Started : clm[m].master_state = "STANDBY")
=============================================================================
