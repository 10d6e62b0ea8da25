--------------------------- MODULE ClmMasterProofs --------------------------
(***************************************************************************)
(* Proofs about the master (ClmMaster), for any configuration that         *)
(* clm_validate_config() accepts, any responses and any delays.            *)
(*                                                                         *)
(* The stack is a composition of operators on the structs of a device, of  *)
(* a group and of the whole stack, so the inductive invariant is made of   *)
(* predicates on such structs (DeviceOK, GroupOK, MasterOK), and there is  *)
(* a lemma per operator.  The notes of the observer (listened, heard,      *)
(* scan) have an invariant of their own that ties them to the structs.     *)
(***************************************************************************)
EXTENDS ClmMaster, FiniteSetTheorems, TLAPS

(* A record with these fields, whatever is in them.                        *)
HasFields(x, fields) == x = [f \in fields |-> x[f]]

DeviceFields ==
    {"device_state", "enabled", "transmission_bit", "force_transmission_bit",
     "timeout_count", "latest", "ry", "rx", "slave_id", "on", "data"}

GroupFields ==
    {"group_state", "frame_sequence_no", "response_wait_timer",
     "constant_linkscan_timer", "slave_devices", "sent", "linkscan"}

MasterFields ==
    {"master_state", "arbitration_timer", "parameter_no",
     "master_local_unit_info", "groups", "errors"}

-----------------------------------------------------------------------------
(* The invariant.                                                          *)

DeviceType(dev, g, i) ==
    /\ HasFields(dev, DeviceFields)
    /\ dev.device_state \in clm_device_states \ {"MASTER_DOWN"}
    /\ dev.enabled \in BOOLEAN
    /\ dev.transmission_bit \in BOOLEAN
    /\ dev.force_transmission_bit \in BOOLEAN
    /\ dev.on \in BOOLEAN
    /\ dev.timeout_count \in Nat
    /\ dev.latest \in 0..NoFrame
    /\ dev.slave_id \in {NoIp, Setting(g, i).slave_id}

(***************************************************************************)
(* What the state of a device says about its counter and its part of the   *)
(* request.  The counter stays below its limit, not at it: this is what    *)
(* lets a timeout count once more.                                         *)
(***************************************************************************)
DeviceOK(dev, g, i) ==
    /\ DeviceType(dev, g, i)
    /\ dev.timeout_count < hier[g].parallel_off_timeout_count
    /\ dev.device_state = "LISTEN" => dev.timeout_count = 0
    /\ dev.device_state \in {"WAIT_TD", "CYCLIC_SENDING"} =>
            dev.slave_id = Setting(g, i).slave_id
    /\ dev.device_state = "CYCLIC_SENDING" => dev.transmission_bit
    /\ dev.device_state = "WAIT_TD" => ~dev.transmission_bit
    /\ dev.transmission_bit => dev.on
    /\ dev.timeout_count > 0 => dev.transmission_bit

Between(group) == group.group_state \in {"MASTER_LISTEN", "MASTER_ARBITRATION"}

Running(t) == t.state = "RUNNING"

(* The states a device of the group can be in.                             *)
DevicesOK(group, g) ==
    /\ group.slave_devices = [i \in device_nos(g) |-> group.slave_devices[i]]
    /\ \A i \in device_nos(g) :
          LET dev == group.slave_devices[i]
          IN  /\ DeviceOK(dev, g, i)
              /\ Between(group) => dev.device_state = "LISTEN"
              /\ group.group_state = "MASTER_LINK_SCAN_COMP" =>
                    dev.device_state \in {"LISTEN", "CYCLIC_SENT"}
              /\ group.frame_sequence_no = 0 =>
                    dev.device_state # "CYCLIC_SENDING"

GroupType(group, g) ==
    /\ HasFields(group, GroupFields)
    /\ group.group_state \in clm_group_states \ {"MASTER_DOWN"}
    /\ group.frame_sequence_no \in 0..MaxSequenceNo
    /\ group.response_wait_timer \in Timer({0, hier[g].timeout_value})
    /\ group.constant_linkscan_timer \in Timer({0, hier[g].timeout_value})
    /\ group.linkscan \subseteq BOOLEAN
    /\ group.sent = {} \/ \E request : group.sent = {request}

(***************************************************************************)
(* Which timers of a group run.  In constant link scan both are started    *)
(* together and the one for the responses may be stopped before the other, *)
(* so during a scan they are the same: neither expires alone.  A group     *)
(* without constant link scan never rests in LINK_SCAN_COMP.               *)
(***************************************************************************)
TimersOK(group, g) ==
    /\ ~hier[g].use_constant_link_scan_time =>
            ~Running(group.constant_linkscan_timer)
    /\ group.group_state = "MASTER_ARBITRATION" =>
            /\ ~Running(group.response_wait_timer)
            /\ ~Running(group.constant_linkscan_timer)
    /\ group.group_state = "MASTER_LINK_SCAN" =>
            /\ Running(group.response_wait_timer)
            /\ hier[g].use_constant_link_scan_time =>
                  group.constant_linkscan_timer = group.response_wait_timer
    /\ group.group_state = "MASTER_LINK_SCAN_COMP" =>
            /\ hier[g].use_constant_link_scan_time
            /\ ~Running(group.response_wait_timer)
            /\ Running(group.constant_linkscan_timer)
            /\ group.frame_sequence_no > 0

GroupOK(group, g) ==
    /\ GroupType(group, g)
    /\ TimersOK(group, g)
    /\ DevicesOK(group, g)

(* Between two calls no timer that runs has expired.                       *)
Unexpired(group) ==
    /\ ~cl_timer_is_expired(group.response_wait_timer)
    /\ ~cl_timer_is_expired(group.constant_linkscan_timer)

MasterType(c) ==
    /\ HasFields(c, MasterFields)
    /\ c.master_state \in {"STANDBY", "ARBITRATION", "RUNNING"}
    /\ c.arbitration_timer \in Timer({0, ArbitrationTime})
    /\ c.parameter_no \in 0..MaxParameterNo
    /\ cl_iefb_validate_master_station_notification(
            [protocol_ver |-> MasterProtocolVer,
             master_local_unit_info |-> c.master_local_unit_info])
    /\ c.groups = [g \in group_nos |-> c.groups[g]]

(* Expired or not.                                                         *)
StackOK(c) ==
    /\ MasterType(c)
    /\ c.master_state = "ARBITRATION" <=> Running(c.arbitration_timer)
    /\ \A g \in group_nos :
          /\ GroupOK(c.groups[g], g)
          /\ PhaseOf(c.groups[g].group_state) = c.master_state

MasterOK(c) ==
    /\ StackOK(c)
    /\ ~cl_timer_is_expired(c.arbitration_timer)
    /\ \A g \in group_nos :
          /\ Unexpired(c.groups[g])
          /\ c.groups[g].sent # {} => c.master_state = "RUNNING"

(* The timer that ends the scan or the pause after it.                     *)
ScanTimer(group) ==
    IF group.group_state = "MASTER_LINK_SCAN" THEN group.response_wait_timer
    ELSE group.constant_linkscan_timer

(***************************************************************************)
(* The notes of the observer.  The time since the last request is what the *)
(* timers of the group have counted; a connected device whose answer is in *)
(* has been noted as answered; a device that is waited for has not missed  *)
(* more requests than its counter says.                                    *)
(***************************************************************************)
DeviceNoted(note, group, i) ==
    LET dev == group.slave_devices[i]
    IN  /\ note.missed[i] \in Nat
        /\ dev.device_state = "CYCLIC_SENDING" =>
                note.missed[i] <= dev.timeout_count
        /\ dev.device_state = "CYCLIC_SENT" /\ dev.transmission_bit =>
                i \in note.answered

GroupNoted(note, group, g) ==
    /\ HasFields(note, {"since", "gap", "answered", "missed"})
    /\ note.since \in Nat
    /\ group.group_state = "MASTER_ARBITRATION" =>
            note.since = hier[g].timeout_value
    /\ ~Between(group) => note.since = ScanTimer(group).elapsed
    /\ note.gap = hier[g].timeout_value
    /\ \A i \in device_nos(g) :
          /\ DeviceNoted(note, group, i)
          /\ note.missed[i] < hier[g].parallel_off_timeout_count

Noted ==
    /\ listened \in Nat
    /\ heard \in BOOLEAN
    /\ beat \in 0..Beats - 1
    /\ clm.master_state = "ARBITRATION" =>
            listened = clm.arbitration_timer.elapsed
    /\ clm.master_state = "RUNNING" => listened = ArbitrationTime
    /\ heard => clm.master_state = "STANDBY"
    /\ scan = [g \in group_nos |-> scan[g]]
    /\ \A g \in group_nos : GroupNoted(scan[g], clm.groups[g], g)

IInv == MasterOK(clm) /\ Noted

-----------------------------------------------------------------------------
(* The device state machine.                                               *)

device_states == clm_device_states \ {"MASTER_DOWN"}

LEMMA RowOf ==
    ASSUME NEW s, NEW e, NEW row \in device_transitions,
           row[1] = s, row[2] = e,
           \A t \in device_transitions : t[1] = s /\ t[2] = e => t = row
    PROVE  device_fsm_matrix(s, e) = row
<1> DEFINE rows == {t \in device_transitions : t[1] = s /\ t[2] = e}
<1>1. rows = {row}
  OBVIOUS
<1>2. device_fsm_matrix(s, e) = CHOOSE t \in rows : TRUE
  BY <1>1 DEF device_fsm_matrix
<1> HIDE DEF rows
<1> QED BY <1>1, <1>2

LEMMA NoRowOf ==
    ASSUME NEW s, NEW e, \A t \in device_transitions : t[1] # s \/ t[2] # e
    PROVE  device_fsm_matrix(s, e) = <<s, e, s, "none">>
<1>1. {t \in device_transitions : t[1] = s /\ t[2] = e} = {}
  OBVIOUS
<1> QED BY <1>1 DEF device_fsm_matrix

(* The rows of each event, for the states a device is in once started.     *)
LEMMA RowsToListen ==
    ASSUME NEW s \in device_states,
           NEW e \in {"GROUP_STANDBY", "SLAVE_DUPLICATION"}
    PROVE  device_fsm_matrix(s, e) = <<s, e, "LISTEN", "none">>
<1> DEFINE row == <<s, e, "LISTEN", "none">>
<1>1. row \in device_transitions
  BY DEF device_transitions, device_states
<1>2. \A t \in device_transitions : t[1] = s /\ t[2] = e => t = row
  BY DEF device_transitions
<1> QED BY <1>1, <1>2, RowOf

LEMMA RowsTimeout ==
    ASSUME NEW s \in device_states,
           NEW e \in {"GROUP_TIMEOUT", "GROUP_ALL_RESPONDED"}
    PROVE  device_fsm_matrix(s, e) =
              IF s \in {"WAIT_TD", "CYCLIC_SUSPEND"}
              THEN <<s, e, "LISTEN", "none">>
              ELSE IF s = "CYCLIC_SENDING" /\ e = "GROUP_TIMEOUT"
              THEN <<s, e, s, "evaluate">>
              ELSE <<s, e, s, "none">>
<1>1. CASE s \in {"WAIT_TD", "CYCLIC_SUSPEND"}
  <2> DEFINE row == <<s, e, "LISTEN", "none">>
  <2>1. row \in device_transitions
    BY <1>1 DEF device_transitions
  <2>2. \A t \in device_transitions : t[1] = s /\ t[2] = e => t = row
    BY <1>1 DEF device_transitions
  <2> QED BY <1>1, <2>1, <2>2, RowOf
<1>2. CASE s = "CYCLIC_SENDING" /\ e = "GROUP_TIMEOUT"
  <2> DEFINE row == <<s, e, s, "evaluate">>
  <2>1. row \in device_transitions
    BY <1>2 DEF device_transitions
  <2>2. \A t \in device_transitions : t[1] = s /\ t[2] = e => t = row
    BY <1>2 DEF device_transitions
  <2> QED BY <1>2, <2>1, <2>2, RowOf
<1>3. CASE /\ s \notin {"WAIT_TD", "CYCLIC_SUSPEND"}
           /\ ~(s = "CYCLIC_SENDING" /\ e = "GROUP_TIMEOUT")
  <2>1. \A t \in device_transitions : t[1] # s \/ t[2] # e
    BY <1>3 DEF device_transitions
  <2> QED BY <1>3, <2>1, NoRowOf
<1> QED BY <1>1, <1>2, <1>3

LEMMA RowsReceive ==
    ASSUME NEW s \in device_states, NEW e \in {"RECEIVE_OK", "RECEIVE_ERROR"}
    PROVE  device_fsm_matrix(s, e) =
              IF s \notin {"WAIT_TD", "CYCLIC_SENDING"}
              THEN <<s, e, s, "none">>
              ELSE IF e = "RECEIVE_ERROR"
              THEN <<s, e, "LISTEN", "none">>
              ELSE IF s = "WAIT_TD"
              THEN <<s, e, "CYCLIC_SENT", "none">>
              ELSE <<s, e, "CYCLIC_SENT", "reset">>
<1>1. CASE s \notin {"WAIT_TD", "CYCLIC_SENDING"}
  <2>1. \A t \in device_transitions : t[1] # s \/ t[2] # e
    BY <1>1 DEF device_transitions
  <2> QED BY <1>1, <2>1, NoRowOf
<1>2. CASE s \in {"WAIT_TD", "CYCLIC_SENDING"} /\ e = "RECEIVE_ERROR"
  <2> DEFINE row == <<s, e, "LISTEN", "none">>
  <2>1. row \in device_transitions
    BY <1>2 DEF device_transitions
  <2>2. \A t \in device_transitions : t[1] = s /\ t[2] = e => t = row
    BY <1>2 DEF device_transitions
  <2> QED BY <1>2, <2>1, <2>2, RowOf
<1>3. CASE s = "WAIT_TD" /\ e = "RECEIVE_OK"
  <2> DEFINE row == <<s, e, "CYCLIC_SENT", "none">>
  <2>1. row \in device_transitions
    BY <1>3 DEF device_transitions
  <2>2. \A t \in device_transitions : t[1] = s /\ t[2] = e => t = row
    BY <1>3 DEF device_transitions
  <2> QED BY <1>3, <2>1, <2>2, RowOf
<1>4. CASE s = "CYCLIC_SENDING" /\ e = "RECEIVE_OK"
  <2> DEFINE row == <<s, e, "CYCLIC_SENT", "reset">>
  <2>1. row \in device_transitions
    BY <1>4 DEF device_transitions
  <2>2. \A t \in device_transitions : t[1] = s /\ t[2] = e => t = row
    BY <1>4 DEF device_transitions
  <2> QED BY <1>4, <2>1, <2>2, RowOf
<1> QED BY <1>1, <1>2, <1>3, <1>4

LEMMA RowsBegin ==
    ASSUME NEW s \in {"LISTEN", "CYCLIC_SENT"},
           NEW e \in {"DEVICE_START", "DEVICE_STOP"}
    PROVE  device_fsm_matrix(s, e) =
              <<s, e,
                IF e = "DEVICE_STOP" THEN "CYCLIC_SUSPEND"
                ELSE IF s = "LISTEN" THEN "WAIT_TD" ELSE "CYCLIC_SENDING",
                IF s = "CYCLIC_SENT" /\ e = "DEVICE_STOP" THEN "none"
                ELSE "set_data_ip">>
<1> DEFINE row == <<s, e,
                IF e = "DEVICE_STOP" THEN "CYCLIC_SUSPEND"
                ELSE IF s = "LISTEN" THEN "WAIT_TD" ELSE "CYCLIC_SENDING",
                IF s = "CYCLIC_SENT" /\ e = "DEVICE_STOP" THEN "none"
                ELSE "set_data_ip">>
<1>1. row \in device_transitions
  BY DEF device_transitions
<1>2. \A t \in device_transitions : t[1] = s /\ t[2] = e => t = row
  BY DEF device_transitions
<1> HIDE DEF row
<1>3. row[1] = s /\ row[2] = e
  BY DEF row
<1> QED BY <1>1, <1>2, <1>3, RowOf DEF row

LEMMA RowsCounter ==
    ASSUME NEW e \in {"TIMEOUTCOUNTER_FULL", "TIMEOUTCOUNTER_NOT_FULL"}
    PROVE  device_fsm_matrix("CYCLIC_SENDING", e) =
              <<"CYCLIC_SENDING", e,
                IF e = "TIMEOUTCOUNTER_FULL" THEN "LISTEN" ELSE "CYCLIC_SENT",
                "none">>
<1> DEFINE row == <<"CYCLIC_SENDING", e,
                IF e = "TIMEOUTCOUNTER_FULL" THEN "LISTEN" ELSE "CYCLIC_SENT",
                "none">>
<1>1. row \in device_transitions
  BY DEF device_transitions
<1>2. \A t \in device_transitions :
         t[1] = "CYCLIC_SENDING" /\ t[2] = e => t = row
  BY DEF device_transitions
<1>3. row[1] = "CYCLIC_SENDING" /\ row[2] = e
  OBVIOUS
<1> QED BY <1>1, <1>2, <1>3, RowOf

(* What an event of the network, or its absence, leaves alone.             *)
SameRequest(r, dev) ==
    /\ r.enabled = dev.enabled
    /\ r.transmission_bit = dev.transmission_bit
    /\ r.force_transmission_bit = dev.force_transmission_bit
    /\ r.latest = dev.latest
    /\ r.ry = dev.ry
    /\ r.rx = dev.rx
    /\ r.slave_id = dev.slave_id
    /\ r.on = dev.on
    /\ r.data = dev.data

Stepped(dev, s, n) == [dev EXCEPT !.device_state = s, !.timeout_count = n]

LEMMA SteppedFields ==
    ASSUME NEW dev, HasFields(dev, DeviceFields), NEW s, NEW n
    PROVE  LET r == Stepped(dev, s, n)
           IN  /\ HasFields(r, DeviceFields)
               /\ r.device_state = s
               /\ r.timeout_count = n
               /\ SameRequest(r, dev)
  BY DEF HasFields, DeviceFields, Stepped, SameRequest

(* A turn whose action is none, or which resets the counter.               *)
LEMMA PlainTurn ==
    ASSUME NEW dev, HasFields(dev, DeviceFields), NEW g, NEW i, NEW e,
           NEW next,
           device_fsm_matrix(dev.device_state, e)
                = <<dev.device_state, e, next, "none">>
    PROVE  device_fsm_turn(dev, g, i, e) =
              Stepped(dev, next,
                      IF next = "LISTEN" /\ dev.device_state # "LISTEN" THEN 0
                      ELSE dev.timeout_count)
<1> DEFINE moved == [dev EXCEPT !.device_state = next]
<1>1. DeviceAction(moved, g, i, "none") = moved
  BY DEF DeviceAction
<1>2. device_fsm_turn(dev, g, i, e) = DeviceOnEntry(moved, dev.device_state)
  BY <1>1 DEF device_fsm_turn
<1>3. moved.device_state = next
  BY DEF HasFields, DeviceFields
<1>4. moved = Stepped(dev, next, dev.timeout_count)
  BY DEF HasFields, DeviceFields, Stepped
<1>5. [moved EXCEPT !.timeout_count = 0] = Stepped(dev, next, 0)
  BY DEF Stepped
<1> HIDE DEF moved
<1> QED BY <1>2, <1>3, <1>4, <1>5
        DEF DeviceOnEntry, clm_iefb_reset_timeout_count

Listening(r, dev, g, i) ==
    /\ DeviceOK(r, g, i)
    /\ r.device_state = "LISTEN"
    /\ SameRequest(r, dev)

(* Going to LISTEN is always possible.                                     *)
LEMMA ListenOK ==
    ASSUME NEW g \in group_nos, NEW i, NEW dev, DeviceOK(dev, g, i)
    PROVE  Listening(Stepped(dev, "LISTEN", 0), dev, g, i)
<1> DEFINE r == Stepped(dev, "LISTEN", 0)
<1>1. /\ HasFields(r, DeviceFields)
      /\ r.device_state = "LISTEN"
      /\ r.timeout_count = 0
      /\ SameRequest(r, dev)
  BY SteppedFields DEF DeviceOK, DeviceType
<1>2. hier[g].parallel_off_timeout_count \in Nat \ {0}
  BY ConfigAssumption DEF clm_validate_config
<1> HIDE DEF r
<1>3. DeviceOK(r, g, i)
  BY <1>1, <1>2 DEF DeviceOK, DeviceType, SameRequest, clm_device_states
<1> QED BY <1>1, <1>3 DEF Listening, r

LEMMA EventIsTurn ==
    ASSUME NEW dev, NEW g, NEW i, NEW e,
           ~(dev.device_state = "CYCLIC_SENDING" /\ e = "GROUP_TIMEOUT")
    PROVE  clm_iefb_device_fsm_event(dev, g, i, e) =
              device_fsm_turn(dev, g, i, e)
  BY DEF clm_iefb_device_fsm_event, DeviceFollowUp

(* A turn that leaves the device alone.                                    *)
LEMMA IdleTurn ==
    ASSUME NEW dev, HasFields(dev, DeviceFields), NEW g, NEW i, NEW e,
           device_fsm_matrix(dev.device_state, e)
                = <<dev.device_state, e, dev.device_state, "none">>
    PROVE  device_fsm_turn(dev, g, i, e) = dev
<1>1. device_fsm_turn(dev, g, i, e) =
         Stepped(dev, dev.device_state, dev.timeout_count)
  BY PlainTurn
<1>2. Stepped(dev, dev.device_state, dev.timeout_count) = dev
  BY DEF Stepped, HasFields, DeviceFields
<1> QED BY <1>1, <1>2

(* A turn to LISTEN.                                                       *)
LEMMA ListenTurn ==
    ASSUME NEW g \in group_nos, NEW i, NEW dev, DeviceOK(dev, g, i), NEW e,
           device_fsm_matrix(dev.device_state, e)
                = <<dev.device_state, e, "LISTEN", "none">>
    PROVE  Listening(device_fsm_turn(dev, g, i, e), dev, g, i)
<1>1. HasFields(dev, DeviceFields)
  BY DEF DeviceOK, DeviceType
<1>2. device_fsm_turn(dev, g, i, e) = Stepped(dev, "LISTEN", 0)
  BY <1>1, PlainTurn DEF DeviceOK
<1> QED BY <1>2, ListenOK

(* The whole group goes to standby, or two devices have the same address.  *)
LEMMA DeviceToListen ==
    ASSUME NEW g \in group_nos, NEW i, NEW dev, DeviceOK(dev, g, i),
           NEW e \in {"GROUP_STANDBY", "SLAVE_DUPLICATION"}
    PROVE  Listening(clm_iefb_device_fsm_event(dev, g, i, e), dev, g, i)
<1>1. dev.device_state \in device_states
  BY DEF DeviceOK, DeviceType, device_states
<1>2. clm_iefb_device_fsm_event(dev, g, i, e) = device_fsm_turn(dev, g, i, e)
  BY EventIsTurn
<1>3. device_fsm_matrix(dev.device_state, e)
         = <<dev.device_state, e, "LISTEN", "none">>
  BY <1>1, RowsToListen
<1> QED BY <1>2, <1>3, ListenTurn

LEMMA DeviceAllResponded ==
    ASSUME NEW g \in group_nos, NEW i, NEW dev, DeviceOK(dev, g, i)
    PROVE  LET r == clm_iefb_device_fsm_event(dev, g, i, "GROUP_ALL_RESPONDED")
           IN  IF dev.device_state \in {"WAIT_TD", "CYCLIC_SUSPEND"}
               THEN Listening(r, dev, g, i) ELSE r = dev
<1>0. HasFields(dev, DeviceFields)
  BY DEF DeviceOK, DeviceType
<1>1. dev.device_state \in device_states
  BY DEF DeviceOK, DeviceType, device_states
<1>2. clm_iefb_device_fsm_event(dev, g, i, "GROUP_ALL_RESPONDED")
         = device_fsm_turn(dev, g, i, "GROUP_ALL_RESPONDED")
  BY EventIsTurn
<1>3. CASE dev.device_state \in {"WAIT_TD", "CYCLIC_SUSPEND"}
  <2>1. device_fsm_matrix(dev.device_state, "GROUP_ALL_RESPONDED")
           = <<dev.device_state, "GROUP_ALL_RESPONDED", "LISTEN", "none">>
    BY <1>1, <1>3, RowsTimeout
  <2> QED BY <1>2, <1>3, <2>1, ListenTurn
<1>4. CASE dev.device_state \notin {"WAIT_TD", "CYCLIC_SUSPEND"}
  <2>1. device_fsm_matrix(dev.device_state, "GROUP_ALL_RESPONDED")
           = <<dev.device_state, "GROUP_ALL_RESPONDED", dev.device_state,
               "none">>
    BY <1>1, <1>4, RowsTimeout
  <2> QED BY <1>0, <1>2, <1>4, <2>1, IdleTurn
<1> QED BY <1>3, <1>4

(* The outcome of a scan that timed out: a device that did not answer is   *)
(* counted, and goes to LISTEN when the counter reaches its limit.         *)
Expired(r, dev, g, i) ==
    /\ DeviceOK(r, g, i)
    /\ SameRequest(r, dev)
    /\ \/ r.device_state = "LISTEN"
       \/ dev.device_state = "CYCLIC_SENT" /\ r = dev
       \/ /\ dev.device_state = "CYCLIC_SENDING"
          /\ r.device_state = "CYCLIC_SENT"
          /\ r.timeout_count = dev.timeout_count + 1

LEMMA CountedTurn ==
    ASSUME NEW g \in group_nos, NEW i, NEW dev, DeviceOK(dev, g, i),
           dev.device_state = "CYCLIC_SENDING"
    PROVE  device_fsm_turn(dev, g, i, "GROUP_TIMEOUT") =
              Stepped(dev, "CYCLIC_SENDING", dev.timeout_count + 1)
<1>0. HasFields(dev, DeviceFields)
  BY DEF DeviceOK, DeviceType
<1>1. device_fsm_matrix("CYCLIC_SENDING", "GROUP_TIMEOUT") =
         <<"CYCLIC_SENDING", "GROUP_TIMEOUT", "CYCLIC_SENDING", "evaluate">>
  BY RowsTimeout DEF device_states, clm_device_states
<1>2. [dev EXCEPT !.device_state = "CYCLIC_SENDING"] = dev
  BY <1>0 DEF HasFields, DeviceFields
<1>3. DeviceAction(dev, g, i, "evaluate") =
         [dev EXCEPT !.timeout_count = dev.timeout_count + 1]
  BY DEF DeviceAction
<1>4. [dev EXCEPT !.timeout_count = dev.timeout_count + 1] =
         Stepped(dev, "CYCLIC_SENDING", dev.timeout_count + 1)
  BY <1>0 DEF HasFields, DeviceFields, Stepped
<1>5. Stepped(dev, "CYCLIC_SENDING", dev.timeout_count + 1).device_state
         = "CYCLIC_SENDING"
  BY <1>0, SteppedFields
<1> DEFINE r == Stepped(dev, "CYCLIC_SENDING", dev.timeout_count + 1)
<1>6. device_fsm_turn(dev, g, i, "GROUP_TIMEOUT") =
         DeviceOnEntry(r, "CYCLIC_SENDING")
  BY <1>1, <1>2, <1>3, <1>4 DEF device_fsm_turn
<1> HIDE DEF r
<1>7. DeviceOnEntry(r, "CYCLIC_SENDING") = r
  BY <1>5 DEF DeviceOnEntry, r
<1> QED BY <1>6, <1>7 DEF r

LEMMA DeviceTimeout ==
    ASSUME NEW g \in group_nos, NEW i, NEW dev, DeviceOK(dev, g, i)
    PROVE  Expired(clm_iefb_device_fsm_event(dev, g, i, "GROUP_TIMEOUT"),
                   dev, g, i)
<1>0. HasFields(dev, DeviceFields)
  BY DEF DeviceOK, DeviceType
<1>1. dev.device_state \in device_states
  BY DEF DeviceOK, DeviceType, device_states
<1> DEFINE r == clm_iefb_device_fsm_event(dev, g, i, "GROUP_TIMEOUT")
<1>3. CASE dev.device_state \in {"WAIT_TD", "CYCLIC_SUSPEND"}
  <2>0. r = device_fsm_turn(dev, g, i, "GROUP_TIMEOUT")
    BY <1>3, EventIsTurn
  <2>1. device_fsm_matrix(dev.device_state, "GROUP_TIMEOUT")
           = <<dev.device_state, "GROUP_TIMEOUT", "LISTEN", "none">>
    BY <1>1, <1>3, RowsTimeout
  <2>2. Listening(r, dev, g, i)
    BY <2>0, <2>1, ListenTurn
  <2> QED BY <2>2 DEF Listening, Expired
<1>4. CASE dev.device_state \in {"LISTEN", "CYCLIC_SENT"}
  <2>0. r = device_fsm_turn(dev, g, i, "GROUP_TIMEOUT")
    BY <1>4, EventIsTurn
  <2>1. device_fsm_matrix(dev.device_state, "GROUP_TIMEOUT")
           = <<dev.device_state, "GROUP_TIMEOUT", dev.device_state, "none">>
    BY <1>1, <1>4, RowsTimeout
  <2>2. r = dev
    BY <1>0, <2>0, <2>1, IdleTurn
  <2> QED BY <1>4, <2>2 DEF Expired, SameRequest
<1>5. CASE dev.device_state = "CYCLIC_SENDING"
  <2> DEFINE mid == Stepped(dev, "CYCLIC_SENDING", dev.timeout_count + 1)
             e == clm_iefb_evaluate_timeoutcounter(mid, g)
             next == IF e = "TIMEOUTCOUNTER_FULL" THEN "LISTEN"
                     ELSE "CYCLIC_SENT"
             n == IF next = "LISTEN" THEN 0 ELSE dev.timeout_count + 1
  <2>1. /\ HasFields(mid, DeviceFields)
        /\ mid.device_state = "CYCLIC_SENDING"
        /\ mid.timeout_count = dev.timeout_count + 1
        /\ SameRequest(mid, dev)
    BY <1>0, SteppedFields
  <2>2. r = device_fsm_turn(mid, g, i, e)
    BY <1>5, CountedTurn DEF clm_iefb_device_fsm_event, DeviceFollowUp
  <2>3. e \in {"TIMEOUTCOUNTER_FULL", "TIMEOUTCOUNTER_NOT_FULL"}
    BY DEF clm_iefb_evaluate_timeoutcounter
  <2>4. e = "TIMEOUTCOUNTER_NOT_FULL" =>
           dev.timeout_count + 1 < hier[g].parallel_off_timeout_count
    <3>1. hier[g].parallel_off_timeout_count \in Nat /\ dev.timeout_count \in Nat
      BY ConfigAssumption DEF clm_validate_config, DeviceOK, DeviceType
    <3> QED BY <2>1, <3>1 DEF clm_iefb_evaluate_timeoutcounter
  <2>5. Stepped(mid, next, n) = Stepped(dev, next, n)
    BY DEF Stepped
  <2> HIDE DEF mid, e, r
  <2>6. device_fsm_matrix(mid.device_state, e) =
           <<mid.device_state, e, next, "none">>
    BY <2>1, <2>3, RowsCounter
  <2>7. r = Stepped(dev, next, n)
    BY <2>1, <2>2, <2>5, <2>6, PlainTurn
  <2>8. CASE e = "TIMEOUTCOUNTER_FULL"
    <3>1. r = Stepped(dev, "LISTEN", 0)
      BY <2>7, <2>8
    <3> QED BY <3>1, ListenOK DEF Listening, Expired, r
  <2>9. CASE e = "TIMEOUTCOUNTER_NOT_FULL"
    <3>1. r = Stepped(dev, "CYCLIC_SENT", dev.timeout_count + 1)
      BY <2>7, <2>9
    <3>2. /\ HasFields(r, DeviceFields)
          /\ r.device_state = "CYCLIC_SENT"
          /\ r.timeout_count = dev.timeout_count + 1
          /\ SameRequest(r, dev)
      BY <1>0, <3>1, SteppedFields
    <3>3. DeviceOK(r, g, i)
      BY <1>5, <2>4, <2>9, <3>2
         DEF DeviceOK, DeviceType, SameRequest, clm_device_states
    <3> QED BY <1>5, <3>2, <3>3 DEF Expired, r
  <2> QED BY <2>3, <2>8, <2>9
<1> QED BY <1>1, <1>3, <1>4, <1>5 DEF device_states, clm_device_states

(* The outcome of a response: nothing is waited for any more.              *)
Received(r, dev, g, i) ==
    /\ DeviceOK(r, g, i)
    /\ SameRequest(r, dev)
    /\ \/ dev.device_state \notin {"WAIT_TD", "CYCLIC_SENDING"} /\ r = dev
       \/ /\ dev.device_state \in {"WAIT_TD", "CYCLIC_SENDING"}
          /\ r.device_state \in {"LISTEN", "CYCLIC_SENT"}

LEMMA DeviceReceive ==
    ASSUME NEW g \in group_nos, NEW i, NEW dev, DeviceOK(dev, g, i),
           NEW e \in {"RECEIVE_OK", "RECEIVE_ERROR"}
    PROVE  Received(clm_iefb_device_fsm_event(dev, g, i, e), dev, g, i)
<1>0. HasFields(dev, DeviceFields)
  BY DEF DeviceOK, DeviceType
<1>1. dev.device_state \in device_states
  BY DEF DeviceOK, DeviceType, device_states
<1> DEFINE r == clm_iefb_device_fsm_event(dev, g, i, e)
<1>2. r = device_fsm_turn(dev, g, i, e)
  BY EventIsTurn
<1> HIDE DEF r
<1>3. CASE dev.device_state \notin {"WAIT_TD", "CYCLIC_SENDING"}
  <2>1. device_fsm_matrix(dev.device_state, e)
           = <<dev.device_state, e, dev.device_state, "none">>
    BY <1>1, <1>3, RowsReceive
  <2>2. r = dev
    BY <1>0, <1>2, <2>1, IdleTurn
  <2> QED BY <1>3, <2>2 DEF Received, SameRequest, r
<1>4. CASE /\ dev.device_state \in {"WAIT_TD", "CYCLIC_SENDING"}
           /\ e = "RECEIVE_ERROR"
  <2>1. device_fsm_matrix(dev.device_state, e)
           = <<dev.device_state, e, "LISTEN", "none">>
    BY <1>1, <1>4, RowsReceive
  <2>2. Listening(r, dev, g, i)
    BY <1>2, <2>1, ListenTurn
  <2> QED BY <1>4, <2>2 DEF Listening, Received, r
<1>5. CASE dev.device_state = "WAIT_TD" /\ e = "RECEIVE_OK"
  <2>1. device_fsm_matrix(dev.device_state, e)
           = <<dev.device_state, e, "CYCLIC_SENT", "none">>
    BY <1>1, <1>5, RowsReceive
  <2>2. r = Stepped(dev, "CYCLIC_SENT", dev.timeout_count)
    BY <1>0, <1>2, <2>1, PlainTurn
  <2>3. /\ HasFields(r, DeviceFields)
        /\ r.device_state = "CYCLIC_SENT"
        /\ r.timeout_count = dev.timeout_count
        /\ SameRequest(r, dev)
    BY <1>0, <2>2, SteppedFields
  <2>4. DeviceOK(r, g, i)
    BY <2>3 DEF DeviceOK, DeviceType, SameRequest, clm_device_states
  <2> QED BY <1>5, <2>3, <2>4 DEF Received, r
<1>6. CASE dev.device_state = "CYCLIC_SENDING" /\ e = "RECEIVE_OK"
  <2> DEFINE moved == [dev EXCEPT !.device_state = "CYCLIC_SENT"]
             reset == [moved EXCEPT !.timeout_count = 0]
  <2>1. device_fsm_matrix(dev.device_state, e)
           = <<dev.device_state, e, "CYCLIC_SENT", "reset">>
    BY <1>1, <1>6, RowsReceive
  <2>2. DeviceAction(moved, g, i, "reset") = reset
    BY DEF DeviceAction, clm_iefb_reset_timeout_count
  <2>3. reset = Stepped(dev, "CYCLIC_SENT", 0)
    BY DEF Stepped
  <2>4. /\ HasFields(reset, DeviceFields)
        /\ reset.device_state = "CYCLIC_SENT"
        /\ reset.timeout_count = 0
        /\ SameRequest(reset, dev)
    BY <1>0, <2>3, SteppedFields
  <2>5. r = DeviceOnEntry(reset, dev.device_state)
    BY <1>2, <2>1, <2>2 DEF device_fsm_turn
  <2> HIDE DEF moved, reset
  <2>6. r = reset
    BY <2>4, <2>5 DEF DeviceOnEntry
  <2>7. DeviceOK(r, g, i)
    BY <2>4, <2>6, ConfigAssumption
       DEF DeviceOK, DeviceType, SameRequest, clm_device_states,
           clm_validate_config
  <2> QED BY <1>6, <2>4, <2>6, <2>7 DEF Received, r
<1> QED BY <1>1, <1>3, <1>4, <1>5, <1>6 DEF r

(***************************************************************************)
(* The start of a scan.  A device that is not stopped is asked under its   *)
(* own id, with the present data if its bit is on.                         *)
(***************************************************************************)
Begun(r, dev, g, i) ==
    /\ DeviceOK(r, g, i)
    /\ r.timeout_count = dev.timeout_count
    /\ r.rx = dev.rx
    /\ r.device_state = "CYCLIC_SENDING" => dev.device_state = "CYCLIC_SENT"
    /\ r.device_state \in {"WAIT_TD", "CYCLIC_SENDING", "CYCLIC_SUSPEND"}
    /\ r.transmission_bit => dev.device_state = "CYCLIC_SENT"
    /\ r.enabled =>
          LET on == \/ r.device_state = "CYCLIC_SENDING"
                    \/ r.force_transmission_bit
          IN  /\ r.device_state # "CYCLIC_SUSPEND"
              /\ r.slave_id = Setting(g, i).slave_id
              /\ r.on = on
              /\ r.data = IF on THEN r.ry ELSE NoData

(* The fields after clm_iefb_set_data_ip() in a device that has moved.     *)
LEMMA SetDataIpFields ==
    ASSUME NEW dev, HasFields(dev, DeviceFields), NEW g, NEW i, NEW s
    PROVE  LET r == clm_iefb_set_data_ip([dev EXCEPT !.device_state = s],
                                         g, i, s)
               combined == s = "CYCLIC_SENDING" \/ dev.force_transmission_bit
           IN  /\ HasFields(r, DeviceFields)
               /\ r.device_state = s
               /\ r.transmission_bit = (s = "CYCLIC_SENDING")
               /\ r.on = combined
               /\ r.slave_id = (IF s = "CYCLIC_SUSPEND" THEN NoIp
                                ELSE Setting(g, i).slave_id)
               /\ r.data = (IF combined THEN dev.ry ELSE NoData)
               /\ r.timeout_count = dev.timeout_count
               /\ r.enabled = dev.enabled
               /\ r.force_transmission_bit = dev.force_transmission_bit
               /\ r.latest = dev.latest
               /\ r.ry = dev.ry
               /\ r.rx = dev.rx
<1> DEFINE moved == [dev EXCEPT !.device_state = s]
<1>1. /\ HasFields(moved, DeviceFields)
      /\ moved.device_state = s
      /\ moved.timeout_count = dev.timeout_count
      /\ moved.enabled = dev.enabled
      /\ moved.force_transmission_bit = dev.force_transmission_bit
      /\ moved.latest = dev.latest
      /\ moved.ry = dev.ry
      /\ moved.rx = dev.rx
  BY DEF HasFields, DeviceFields
<1> HIDE DEF moved
<1> DEFINE r == clm_iefb_set_data_ip(moved, g, i, s)
<1>2. /\ HasFields(r, DeviceFields)
      /\ r.device_state = s
      /\ r.transmission_bit = (s = "CYCLIC_SENDING")
      /\ r.on = (s = "CYCLIC_SENDING" \/ moved.force_transmission_bit)
      /\ r.slave_id = (IF s = "CYCLIC_SUSPEND" THEN NoIp
                       ELSE Setting(g, i).slave_id)
      /\ r.data = (IF s = "CYCLIC_SENDING" \/ moved.force_transmission_bit
                   THEN moved.ry ELSE NoData)
      /\ r.timeout_count = moved.timeout_count
      /\ r.enabled = moved.enabled
      /\ r.force_transmission_bit = moved.force_transmission_bit
      /\ r.latest = moved.latest
      /\ r.ry = moved.ry
      /\ r.rx = moved.rx
  BY <1>1 DEF HasFields, DeviceFields, clm_iefb_set_data_ip
<1> HIDE DEF r
<1> QED BY <1>1, <1>2 DEF r, moved

LEMMA SetDataIpTurn ==
    ASSUME NEW dev, HasFields(dev, DeviceFields), NEW g, NEW i, NEW e,
           NEW s, s # "LISTEN",
           device_fsm_matrix(dev.device_state, e)
                = <<dev.device_state, e, s, "set_data_ip">>
    PROVE  device_fsm_turn(dev, g, i, e) =
              clm_iefb_set_data_ip([dev EXCEPT !.device_state = s], g, i, s)
<1> DEFINE moved == [dev EXCEPT !.device_state = s]
           r == clm_iefb_set_data_ip(moved, g, i, s)
<1>1. moved.device_state = s
  BY DEF HasFields, DeviceFields
<1>2. DeviceAction(moved, g, i, "set_data_ip") = r
  BY <1>1 DEF DeviceAction
<1>3. r.device_state = s
  BY SetDataIpFields
<1>4. device_fsm_turn(dev, g, i, e) = DeviceOnEntry(r, dev.device_state)
  BY <1>2 DEF device_fsm_turn
<1> HIDE DEF r
<1>5. DeviceOnEntry(r, dev.device_state) = r
  BY <1>3 DEF DeviceOnEntry
<1> QED BY <1>4, <1>5 DEF r

LEMMA DeviceBegin ==
    ASSUME NEW g \in group_nos, NEW i, NEW dev, DeviceOK(dev, g, i),
           dev.device_state \in {"LISTEN", "CYCLIC_SENT"}
    PROVE  Begun(clm_iefb_device_fsm_event(dev, g, i,
                    IF dev.enabled THEN "DEVICE_START" ELSE "DEVICE_STOP"),
                 dev, g, i)
<1>0. HasFields(dev, DeviceFields)
  BY DEF DeviceOK, DeviceType
<1> DEFINE e == IF dev.enabled THEN "DEVICE_START" ELSE "DEVICE_STOP"
           s == IF e = "DEVICE_STOP" THEN "CYCLIC_SUSPEND"
                ELSE IF dev.device_state = "LISTEN" THEN "WAIT_TD"
                ELSE "CYCLIC_SENDING"
           r == clm_iefb_device_fsm_event(dev, g, i, e)
<1>1. e \in {"DEVICE_START", "DEVICE_STOP"}
  OBVIOUS
<1>2. r = device_fsm_turn(dev, g, i, e)
  BY EventIsTurn
<1>3. device_fsm_matrix(dev.device_state, e) =
        <<dev.device_state, e, s,
          IF dev.device_state = "CYCLIC_SENT" /\ e = "DEVICE_STOP" THEN "none"
          ELSE "set_data_ip">>
  BY <1>1, RowsBegin
<1> HIDE DEF r
<1>4. CASE dev.device_state = "CYCLIC_SENT" /\ ~dev.enabled
  <2>1. r = Stepped(dev, "CYCLIC_SUSPEND", dev.timeout_count)
    BY <1>0, <1>2, <1>3, <1>4, PlainTurn
  <2>2. /\ HasFields(r, DeviceFields)
        /\ r.device_state = "CYCLIC_SUSPEND"
        /\ r.timeout_count = dev.timeout_count
        /\ SameRequest(r, dev)
    BY <1>0, <2>1, SteppedFields
  <2>3. DeviceOK(r, g, i)
    BY <2>2 DEF DeviceOK, DeviceType, SameRequest, clm_device_states
  <2> QED BY <1>4, <2>2, <2>3 DEF Begun, SameRequest, r
<1>5. CASE ~(dev.device_state = "CYCLIC_SENT" /\ ~dev.enabled)
  <2>0. s # "LISTEN"
    OBVIOUS
  <2>1. device_fsm_matrix(dev.device_state, e) =
           <<dev.device_state, e, s, "set_data_ip">>
    BY <1>3, <1>5
  <2>2. r = clm_iefb_set_data_ip([dev EXCEPT !.device_state = s], g, i, s)
    BY <1>0, <1>2, <2>0, <2>1, SetDataIpTurn
  <2>3. /\ s \in {"CYCLIC_SUSPEND", "WAIT_TD", "CYCLIC_SENDING"}
        /\ (s = "CYCLIC_SUSPEND") <=> ~dev.enabled
        /\ s = "CYCLIC_SENDING" => dev.device_state = "CYCLIC_SENT"
        /\ s # "CYCLIC_SENDING" => dev.device_state = "LISTEN"
    BY <1>5 DEF DeviceOK, DeviceType
  <2> HIDE DEF s, e
  <2> DEFINE combined == s = "CYCLIC_SENDING" \/ dev.force_transmission_bit
  <2>4. /\ HasFields(r, DeviceFields)
        /\ r.device_state = s
        /\ r.transmission_bit = (s = "CYCLIC_SENDING")
        /\ r.on = combined
        /\ r.slave_id = (IF s = "CYCLIC_SUSPEND" THEN NoIp
                         ELSE Setting(g, i).slave_id)
        /\ r.data = (IF combined THEN dev.ry ELSE NoData)
        /\ r.timeout_count = dev.timeout_count
        /\ r.enabled = dev.enabled
        /\ r.force_transmission_bit = dev.force_transmission_bit
        /\ r.latest = dev.latest
        /\ r.ry = dev.ry
        /\ r.rx = dev.rx
    BY <1>0, <2>2, SetDataIpFields
  <2>5. DeviceType(r, g, i)
    BY <2>3, <2>4 DEF DeviceOK, DeviceType, clm_device_states
  <2>6. dev.device_state = "LISTEN" => dev.timeout_count = 0
    BY DEF DeviceOK
  <2>7. DeviceOK(r, g, i)
    <3>1. dev.timeout_count < hier[g].parallel_off_timeout_count
      BY DEF DeviceOK
    <3>2. CASE s = "CYCLIC_SENDING"
      <4>1. r.transmission_bit /\ r.on
        BY <2>4, <3>2
      <4> QED BY <2>4, <2>5, <3>1, <3>2, <4>1 DEF DeviceOK
    <3>3. CASE s # "CYCLIC_SENDING"
      <4>1. ~r.transmission_bit /\ dev.timeout_count = 0
        BY <2>3, <2>4, <2>6, <3>3
      <4> QED BY <2>3, <2>4, <2>5, <3>1, <3>3, <4>1 DEF DeviceOK
    <3> QED BY <3>2, <3>3
  <2> QED BY <2>3, <2>4, <2>7 DEF Begun, r, e
<1> QED BY <1>4, <1>5 DEF r

-----------------------------------------------------------------------------
(* The group state machine.                                                *)

(* The states an event is for, and the state it leads to.                  *)
FromOf(e) ==
    CASE e = "STARTUP" -> {"MASTER_DOWN"}
      [] e = "NEW_CONFIG" -> {"MASTER_LISTEN"}
      [] e \in {"ARBITRATION_DONE", "REQ_FROM_OTHER"} -> {"MASTER_ARBITRATION"}
      [] e = "LINKSCAN_START" -> {"MASTER_LINK_SCAN_COMP"}
      [] e = "MASTERDUPL_ALARM" ->
            {"MASTER_LINK_SCAN_COMP", "MASTER_LINK_SCAN"}
      [] OTHER -> {"MASTER_LINK_SCAN"}

EntryOf(e) ==
    IF e \in {"STARTUP", "REQ_FROM_OTHER", "MASTERDUPL_ALARM"}
    THEN "MASTER_LISTEN"
    ELSE IF e = "NEW_CONFIG" THEN "MASTER_ARBITRATION"
    ELSE IF e = "LINKSCAN_START" THEN "MASTER_LINK_SCAN"
    ELSE "MASTER_LINK_SCAN_COMP"

group_events ==
    {"STARTUP", "NEW_CONFIG", "ARBITRATION_DONE", "REQ_FROM_OTHER",
     "LINKSCAN_START", "MASTERDUPL_ALARM", "LINKSCAN_COMPLETE",
     "LINKSCAN_TIMEOUT"}

LEMMA GroupRow ==
    ASSUME NEW s, NEW e \in group_events
    PROVE  HasGroupTransition(s, e) <=> s \in FromOf(e)
<1>1. HasGroupTransition(s, e) => s \in FromOf(e)
  BY DEF HasGroupTransition, group_transitions, FromOf
<1>2. ASSUME s \in FromOf(e) PROVE <<s, e, EntryOf(e)>> \in group_transitions
  BY <1>2 DEF group_transitions, FromOf, EntryOf, group_events
<1>3. s \in FromOf(e) => HasGroupTransition(s, e)
  BY <1>2 DEF HasGroupTransition
<1> QED BY <1>1, <1>3

LEMMA GroupEntry ==
    ASSUME NEW s, NEW e \in group_events, s \in FromOf(e)
    PROVE  NextGroupState(s, e) = EntryOf(e)
<1>1. \A t \in group_transitions : t[2] = e => t[3] = EntryOf(e)
  BY DEF group_transitions, EntryOf
<1>2. \E t \in group_transitions : t[1] = s /\ t[2] = e
  BY GroupRow DEF HasGroupTransition
<1> QED BY <1>1, <1>2 DEF NextGroupState

SameScan(r, group) ==
    /\ r.frame_sequence_no = group.frame_sequence_no
    /\ r.response_wait_timer = group.response_wait_timer
    /\ r.constant_linkscan_timer = group.constant_linkscan_timer
    /\ r.sent = group.sent
    /\ r.linkscan = group.linkscan

LEMMA AllDevices ==
    ASSUME NEW group, HasFields(group, GroupFields), NEW g, NEW e
    PROVE  LET r == clm_iefb_device_fsm_event_all_in_group(group, g, e)
           IN  /\ HasFields(r, GroupFields)
               /\ r.group_state = group.group_state
               /\ SameScan(r, group)
               /\ r.slave_devices =
                    [i \in device_nos(g) |->
                        clm_iefb_device_fsm_event(group.slave_devices[i],
                                                  g, i, e)]
  BY DEF HasFields, GroupFields, SameScan,
         clm_iefb_device_fsm_event_all_in_group

LEMMA Enter ==
    ASSUME NEW group, HasFields(group, GroupFields), NEW s
    PROVE  LET r == [group EXCEPT !.group_state = s]
           IN  /\ HasFields(r, GroupFields)
               /\ r.group_state = s
               /\ SameScan(r, group)
               /\ r.slave_devices = group.slave_devices
  BY DEF HasFields, GroupFields, SameScan

(* What every state of a group has in common.                              *)
GroupBase(group, g) ==
    /\ GroupType(group, g)
    /\ DevicesOK(group, g)
    /\ ~hier[g].use_constant_link_scan_time =>
            ~Running(group.constant_linkscan_timer)

(* Another master was found.  The timers of the group go on.               *)
LEMMA GroupToStandby ==
    ASSUME NEW g \in group_nos, NEW group, GroupBase(group, g), NEW c,
           NEW e \in {"REQ_FROM_OTHER", "MASTERDUPL_ALARM"},
           group.group_state \in FromOf(e)
    PROVE  LET r == GroupAfter(group, g, e, c)
           IN  /\ GroupOK(r, g)
               /\ r.group_state = "MASTER_LISTEN"
               /\ SameScan(r, group)
               /\ \A i \in device_nos(g) :
                     Listening(r.slave_devices[i], group.slave_devices[i],
                               g, i)
<1> DEFINE entered == [group EXCEPT !.group_state = "MASTER_LISTEN"]
           r == clm_iefb_device_fsm_event_all_in_group(entered, g,
                                                       "GROUP_STANDBY")
<1>0. HasFields(group, GroupFields)
  BY DEF GroupBase, GroupType
<1>1. NextGroupState(group.group_state, e) = "MASTER_LISTEN"
  BY GroupEntry DEF EntryOf, group_events
<1>2. GroupAction(entered, g, e, c) = entered
  BY DEF GroupAction
<1>3. /\ HasFields(entered, GroupFields)
      /\ entered.group_state = "MASTER_LISTEN"
      /\ SameScan(entered, group)
      /\ entered.slave_devices = group.slave_devices
  BY <1>0, Enter
<1>4. group_fsm_turn(group, g, e, c) = GroupOnEntry(entered, g)
  BY <1>1, <1>2 DEF group_fsm_turn
<1> HIDE DEF entered
<1>5. GroupOnEntry(entered, g) = r
  BY <1>3 DEF GroupOnEntry
<1>6. GroupAfter(group, g, e, c) = r
  BY <1>4, <1>5 DEF GroupAfter, GroupFollowUp, AsksForScan
<1>7. /\ HasFields(r, GroupFields)
      /\ r.group_state = "MASTER_LISTEN"
      /\ SameScan(r, group)
      /\ r.slave_devices =
           [i \in device_nos(g) |->
              clm_iefb_device_fsm_event(group.slave_devices[i], g, i,
                                        "GROUP_STANDBY")]
  BY <1>3, AllDevices DEF SameScan
<1> HIDE DEF r
<1>8. \A i \in device_nos(g) :
         Listening(r.slave_devices[i], group.slave_devices[i], g, i)
  BY <1>7, DeviceToListen DEF GroupBase, DevicesOK
<1>9. GroupOK(r, g)
  <2>1. GroupType(r, g)
    BY <1>7 DEF GroupBase, GroupType, SameScan, clm_group_states
  <2>2. TimersOK(r, g)
    BY <1>7 DEF GroupBase, TimersOK, SameScan
  <2>3. DevicesOK(r, g)
    BY <1>7, <1>8 DEF DevicesOK, Listening
  <2> QED BY <2>1, <2>2, <2>3 DEF GroupOK
<1> QED BY <1>6, <1>7, <1>8, <1>9

(* Between two scans, before the next request.                             *)
Paused(group, g) ==
    /\ GroupBase(group, g)
    /\ group.group_state = "MASTER_LINK_SCAN_COMP"
    /\ group.sent = {}
    /\ group.frame_sequence_no = 0 =>
          \A i \in device_nos(g) :
             group.slave_devices[i].device_state = "LISTEN"

(* A request that was put together from these devices.                     *)
Describes(request, devs, g) ==
    /\ request.slave_ids = [station \in 1..total_occupied_of[g] |->
            IF station \in {slave_station_no[g][i] : i \in device_nos(g)}
            THEN devs[DeviceAt(g, station)].slave_id ELSE Multistation]
    /\ request.transmission_on = {slave_station_no[g][i] :
            i \in {j \in device_nos(g) : devs[j].on}}

RequestFits(group, g) ==
    \A request \in group.sent : Describes(request, group.slave_devices, g)

(* After the request that starts a scan.                                   *)
Started(r, g) ==
    /\ GroupOK(r, g)
    /\ r.group_state = "MASTER_LINK_SCAN"
    /\ r.response_wait_timer = cl_timer_start(hier[g].timeout_value)
    /\ r.sent # {}
    /\ RequestFits(r, g)

AllBegin(devs, g) ==
    [i \in device_nos(g) |->
        clm_iefb_device_fsm_event(devs[i], g, i,
            IF devs[i].enabled THEN "DEVICE_START" ELSE "DEVICE_STOP")]

(* What the start of a scan does to a group before the new state is noted.  *)
ScanBegun(r, group, g, start) ==
    /\ HasFields(r, GroupFields)
    /\ r.group_state = group.group_state
    /\ r.frame_sequence_no = group.frame_sequence_no
    /\ r.linkscan = group.linkscan
    /\ r.response_wait_timer = start
    /\ r.constant_linkscan_timer =
            (IF hier[g].use_constant_link_scan_time
             THEN start ELSE group.constant_linkscan_timer)
    /\ \E request : r.sent = {request}
    /\ r.slave_devices = AllBegin(group.slave_devices, g)
    /\ RequestFits(r, g)

LEMMA RequestDescribes ==
    ASSUME NEW devs, NEW g, NEW parameter_no, NEW n, NEW info
    PROVE  Describes(
              cl_iefb_update_request_frame_headers(
                FillInDevices(cl_iefb_initialise_request_frame(g, parameter_no),
                              devs, g),
                n, info,
                {slave_station_no[g][i] :
                    i \in {j \in device_nos(g) : devs[j].on}}),
              devs, g)
<1> DEFINE ids == [station \in 1..total_occupied_of[g] |->
            IF station \in {slave_station_no[g][i] : i \in device_nos(g)}
            THEN devs[DeviceAt(g, station)].slave_id ELSE Multistation]
           data == [station \in 1..total_occupied_of[g] |->
            devs[DeviceAt(g, station)].data]
           on == {slave_station_no[g][i] :
                    i \in {j \in device_nos(g) : devs[j].on}}
           frame == cl_iefb_initialise_request_frame(g, parameter_no)
           filled == FillInDevices(frame, devs, g)
<1>1. filled = [frame EXCEPT !.slave_ids = ids, !.data = data]
  BY DEF FillInDevices
<1> HIDE DEF ids, data, on
<1>2. [filled EXCEPT !.frame_sequence_no = n, !.master_local_unit_info = info,
                     !.transmission_on = on].slave_ids = ids
  BY <1>1 DEF cl_iefb_initialise_request_frame
<1>3. [filled EXCEPT !.frame_sequence_no = n, !.master_local_unit_info = info,
                     !.transmission_on = on].transmission_on = on
  BY <1>1 DEF cl_iefb_initialise_request_frame
<1> HIDE DEF filled
<1>4. Describes(cl_iefb_update_request_frame_headers(filled, n, info, on), devs, g)
  BY <1>2, <1>3 DEF cl_iefb_update_request_frame_headers, Describes, ids, on
<1> QED BY <1>4 DEF filled, on

LEMMA LinkscanStartFields ==
    ASSUME NEW group, HasFields(group, GroupFields), NEW g, NEW c,
           group.sent = {},
           NEW r, r = clm_iefb_on_linkscan_start(group, g, c),
           NEW start, start = cl_timer_start(hier[g].timeout_value)
    PROVE  ScanBegun(r, group, g, start)
<1> DEFINE told == StartDevices(group, g)
           request == cl_iefb_update_request_frame_headers(
                FillInDevices(
                    cl_iefb_initialise_request_frame(g, c.parameter_no),
                    told.slave_devices, g),
                told.frame_sequence_no,
                c.master_local_unit_info,
                {slave_station_no[g][i] :
                    i \in {j \in device_nos(g) : told.slave_devices[j].on}})
           sending == clm_iefb_send_cyclic_request_frame(told, g, c)
<1>1. /\ HasFields(told, GroupFields)
      /\ told.group_state = group.group_state
      /\ SameScan(told, group)
      /\ told.slave_devices = AllBegin(group.slave_devices, g)
  BY DEF StartDevices, AllBegin, HasFields, GroupFields, SameScan
<1>2. sending = [told EXCEPT !.sent = told.sent \cup {request}]
  BY DEF clm_iefb_send_cyclic_request_frame
<1> HIDE DEF told, request
<1>3. /\ HasFields(sending, GroupFields)
      /\ sending.group_state = told.group_state
      /\ sending.slave_devices = told.slave_devices
      /\ sending.frame_sequence_no = told.frame_sequence_no
      /\ sending.linkscan = told.linkscan
      /\ sending.constant_linkscan_timer = told.constant_linkscan_timer
      /\ sending.sent = told.sent \cup {request}
  BY <1>1, <1>2 DEF HasFields, GroupFields
<1>4. r = [sending EXCEPT
            !.response_wait_timer = start,
            !.constant_linkscan_timer =
                IF hier[g].use_constant_link_scan_time
                THEN start ELSE sending.constant_linkscan_timer]
  BY DEF clm_iefb_on_linkscan_start, told
<1> HIDE DEF sending
<1>5. /\ HasFields(r, GroupFields)
      /\ r.group_state = sending.group_state
      /\ r.slave_devices = sending.slave_devices
      /\ r.frame_sequence_no = sending.frame_sequence_no
      /\ r.linkscan = sending.linkscan
      /\ r.sent = sending.sent
      /\ r.response_wait_timer = start
      /\ r.constant_linkscan_timer =
            (IF hier[g].use_constant_link_scan_time
             THEN start ELSE sending.constant_linkscan_timer)
  BY <1>3, <1>4 DEF HasFields, GroupFields
<1>6. r.sent = {request}
  BY <1>1, <1>3, <1>5 DEF SameScan
<1>7. Describes(request, told.slave_devices, g)
  BY RequestDescribes DEF request
<1>8. RequestFits(r, g)
  BY <1>3, <1>5, <1>6, <1>7 DEF RequestFits
<1> QED BY <1>1, <1>3, <1>5, <1>6, <1>8 DEF SameScan, ScanBegun

LEMMA StartTimer ==
    ASSUME NEW g \in group_nos
    PROVE  LET t == cl_timer_start(hier[g].timeout_value)
           IN  /\ t \in Timer({0, hier[g].timeout_value})
               /\ Running(t)
               /\ t.elapsed = 0
               /\ ~cl_timer_is_expired(t)
<1>1. hier[g].timeout_value \in Nat \ {0}
  BY ConfigAssumption DEF clm_validate_config
<1> QED BY <1>1 DEF cl_timer_start, Timer, Running, cl_timer_is_expired

LEMMA GroupStart ==
    ASSUME NEW g \in group_nos, NEW group, Paused(group, g), NEW c
    PROVE  LET r == group_fsm_turn(group, g, "LINKSCAN_START", c)
           IN  /\ Started(r, g)
               /\ \A i \in device_nos(g) :
                     Begun(r.slave_devices[i], group.slave_devices[i], g, i)
<1> DEFINE entered == [group EXCEPT !.group_state = "MASTER_LINK_SCAN"]
           r == clm_iefb_on_linkscan_start(entered, g, c)
           start == cl_timer_start(hier[g].timeout_value)
<1>0. HasFields(group, GroupFields)
  BY DEF Paused, GroupBase, GroupType
<1>1. NextGroupState(group.group_state, "LINKSCAN_START") = "MASTER_LINK_SCAN"
  BY GroupEntry DEF EntryOf, FromOf, group_events, Paused
<1>2. GroupAction(entered, g, "LINKSCAN_START", c) = r
  BY DEF GroupAction
<1>3. /\ HasFields(entered, GroupFields)
      /\ entered.group_state = "MASTER_LINK_SCAN"
      /\ SameScan(entered, group)
      /\ entered.slave_devices = group.slave_devices
  BY <1>0, Enter
<1>4. group_fsm_turn(group, g, "LINKSCAN_START", c) = GroupOnEntry(r, g)
  BY <1>1, <1>2 DEF group_fsm_turn
<1> HIDE DEF entered, start
<1>5. entered.sent = {}
  BY <1>3 DEF SameScan, Paused
<1>6. /\ HasFields(r, GroupFields)
      /\ r.group_state = "MASTER_LINK_SCAN"
      /\ r.frame_sequence_no = group.frame_sequence_no
      /\ r.linkscan = group.linkscan
      /\ r.response_wait_timer = start
      /\ r.constant_linkscan_timer =
           (IF hier[g].use_constant_link_scan_time
            THEN start ELSE group.constant_linkscan_timer)
      /\ \E request : r.sent = {request}
      /\ r.slave_devices = AllBegin(group.slave_devices, g)
      /\ RequestFits(r, g)
  <2>a. r = clm_iefb_on_linkscan_start(entered, g, c)
    OBVIOUS
  <2>b. start = cl_timer_start(hier[g].timeout_value)
    BY DEF start
  <2> HIDE DEF r
  <2>1. ScanBegun(r, entered, g, start)
    BY <1>3, <1>5, <2>a, <2>b, LinkscanStartFields
  <2> QED BY <1>3, <2>1 DEF SameScan, ScanBegun
<1> HIDE DEF r
<1>7. group_fsm_turn(group, g, "LINKSCAN_START", c) = r
  BY <1>4, <1>6 DEF GroupOnEntry
<1>8. \A i \in device_nos(g) :
         Begun(r.slave_devices[i], group.slave_devices[i], g, i)
  BY <1>6, DeviceBegin DEF AllBegin, Paused, GroupBase, DevicesOK
<1>9. start \in Timer({0, hier[g].timeout_value}) /\ Running(start)
  BY StartTimer DEF start
<1>10. GroupType(r, g)
  BY <1>6, <1>9 DEF GroupType, Paused, GroupBase, clm_group_states
<1>11. TimersOK(r, g)
  BY <1>6, <1>9 DEF TimersOK, Paused, GroupBase
<1>12. DevicesOK(r, g)
  <2> SUFFICES ASSUME NEW i \in device_nos(g)
               PROVE  LET dev == r.slave_devices[i]
                      IN  /\ DeviceOK(dev, g, i)
                          /\ r.frame_sequence_no = 0 =>
                                dev.device_state # "CYCLIC_SENDING"
    BY <1>6 DEF AllBegin, DevicesOK, Between
  <2> QED BY <1>6, <1>8 DEF Begun, Paused
<1> QED BY <1>6, <1>7, <1>8, <1>10, <1>11, <1>12 DEF Started, GroupOK, start

LEMMA NextSequenceNo ==
    ASSUME NEW n \in 0..MaxSequenceNo
    PROVE  clm_iefb_update_frame_sequence_no(n) \in 1..MaxSequenceNo
  BY MasterAssumption DEF clm_iefb_update_frame_sequence_no

AllTold(devs, g, e) ==
    [i \in device_nos(g) |-> clm_iefb_device_fsm_event(devs[i], g, i, e)]

(* The end of a scan: the devices are told, the application is told, the   *)
(* next request gets the next number.                                      *)
ScanEnd(group, g, e, results) ==
    LET all == clm_iefb_device_fsm_event_all_in_group(group, g, e)
        told == [all EXCEPT !.linkscan = @ \cup results]
    IN  [told EXCEPT !.frame_sequence_no =
            clm_iefb_update_frame_sequence_no(@)]

LEMMA ScanEndFields ==
    ASSUME NEW group, HasFields(group, GroupFields), NEW g, NEW e, NEW results
    PROVE  LET r == ScanEnd(group, g, e, results)
           IN  /\ HasFields(r, GroupFields)
               /\ r.group_state = group.group_state
               /\ r.frame_sequence_no =
                    clm_iefb_update_frame_sequence_no(group.frame_sequence_no)
               /\ r.linkscan = group.linkscan \cup results
               /\ r.sent = group.sent
               /\ r.response_wait_timer = group.response_wait_timer
               /\ r.constant_linkscan_timer = group.constant_linkscan_timer
               /\ r.slave_devices = AllTold(group.slave_devices, g, e)
<1> DEFINE all == clm_iefb_device_fsm_event_all_in_group(group, g, e)
           told == [all EXCEPT !.linkscan = @ \cup results]
           r == [told EXCEPT !.frame_sequence_no =
                    clm_iefb_update_frame_sequence_no(@)]
<1>1. /\ HasFields(all, GroupFields)
      /\ all.group_state = group.group_state
      /\ SameScan(all, group)
      /\ all.slave_devices = AllTold(group.slave_devices, g, e)
  BY AllDevices DEF AllTold
<1> HIDE DEF all
<1>2. /\ HasFields(told, GroupFields)
      /\ told.group_state = all.group_state
      /\ told.frame_sequence_no = all.frame_sequence_no
      /\ told.linkscan = all.linkscan \cup results
      /\ told.sent = all.sent
      /\ told.response_wait_timer = all.response_wait_timer
      /\ told.constant_linkscan_timer = all.constant_linkscan_timer
      /\ told.slave_devices = all.slave_devices
  BY <1>1 DEF HasFields, GroupFields
<1> HIDE DEF told
<1>3. /\ HasFields(r, GroupFields)
      /\ r.group_state = told.group_state
      /\ r.frame_sequence_no =
            clm_iefb_update_frame_sequence_no(told.frame_sequence_no)
      /\ r.linkscan = told.linkscan
      /\ r.sent = told.sent
      /\ r.response_wait_timer = told.response_wait_timer
      /\ r.constant_linkscan_timer = told.constant_linkscan_timer
      /\ r.slave_devices = told.slave_devices
  BY <1>2 DEF HasFields, GroupFields
<1> HIDE DEF r
<1>4. /\ HasFields(r, GroupFields)
      /\ r.group_state = group.group_state
      /\ r.frame_sequence_no =
            clm_iefb_update_frame_sequence_no(group.frame_sequence_no)
      /\ r.linkscan = group.linkscan \cup results
      /\ r.sent = group.sent
      /\ r.response_wait_timer = group.response_wait_timer
      /\ r.constant_linkscan_timer = group.constant_linkscan_timer
      /\ r.slave_devices = AllTold(group.slave_devices, g, e)
  BY <1>1, <1>2, <1>3 DEF SameScan
<1> QED BY <1>4 DEF ScanEnd, r, told, all

(* A group that waits for responses, or has just stopped to.               *)
Scanning(group, g) ==
    /\ GroupBase(group, g)
    /\ group.group_state = "MASTER_LINK_SCAN"
    /\ group.sent = {}

(* The group pauses when its devices do.                                   *)
LEMMA PausedAfterScan ==
    ASSUME NEW g \in group_nos, NEW group, Scanning(group, g),
           NEW e, NEW r,
           /\ HasFields(r, GroupFields)
           /\ r.group_state = "MASTER_LINK_SCAN_COMP"
           /\ r.frame_sequence_no =
                clm_iefb_update_frame_sequence_no(group.frame_sequence_no)
           /\ r.linkscan \subseteq BOOLEAN
           /\ r.sent = group.sent
           /\ r.response_wait_timer \in Timer({0, hier[g].timeout_value})
           /\ r.constant_linkscan_timer = group.constant_linkscan_timer
           /\ r.slave_devices = AllTold(group.slave_devices, g, e),
           \A i \in device_nos(g) :
              /\ DeviceOK(r.slave_devices[i], g, i)
              /\ r.slave_devices[i].device_state \in {"LISTEN", "CYCLIC_SENT"}
    PROVE  Paused(r, g) /\ r.frame_sequence_no > 0
<1>1. r.frame_sequence_no \in 1..MaxSequenceNo
  BY NextSequenceNo DEF Scanning, GroupBase, GroupType
<1>2. GroupType(r, g)
  BY <1>1, MasterAssumption DEF Scanning, GroupBase, GroupType, clm_group_states
<1>3. DevicesOK(r, g)
  BY DEF DevicesOK, AllTold, Between
<1> QED BY <1>1, <1>2, <1>3, MasterAssumption
        DEF Paused, Scanning, GroupBase, GroupType

LEMMA GroupTimedOut ==
    ASSUME NEW g \in group_nos, NEW group, Scanning(group, g), NEW c
    PROVE  LET r == group_fsm_turn(group, g, "LINKSCAN_TIMEOUT", c)
           IN  /\ Paused(r, g)
               /\ \A i \in device_nos(g) :
                     Expired(r.slave_devices[i], group.slave_devices[i], g, i)
<1> DEFINE entered == [group EXCEPT !.group_state = "MASTER_LINK_SCAN_COMP"]
           r == clm_iefb_on_linkscan_timeout(entered, g)
<1>0. HasFields(group, GroupFields)
  BY DEF Scanning, GroupBase, GroupType
<1>1. NextGroupState(group.group_state, "LINKSCAN_TIMEOUT")
         = "MASTER_LINK_SCAN_COMP"
  BY GroupEntry DEF EntryOf, FromOf, group_events, Scanning
<1>2. GroupAction(entered, g, "LINKSCAN_TIMEOUT", c) = r
  BY DEF GroupAction
<1>3. /\ HasFields(entered, GroupFields)
      /\ entered.group_state = "MASTER_LINK_SCAN_COMP"
      /\ SameScan(entered, group)
      /\ entered.slave_devices = group.slave_devices
  BY <1>0, Enter
<1>4. group_fsm_turn(group, g, "LINKSCAN_TIMEOUT", c) = GroupOnEntry(r, g)
  BY <1>1, <1>2 DEF group_fsm_turn
<1> HIDE DEF entered
<1>5. /\ HasFields(r, GroupFields)
      /\ r.group_state = entered.group_state
      /\ r.frame_sequence_no =
           clm_iefb_update_frame_sequence_no(entered.frame_sequence_no)
      /\ r.linkscan = entered.linkscan \cup {FALSE}
      /\ r.sent = entered.sent
      /\ r.response_wait_timer = entered.response_wait_timer
      /\ r.constant_linkscan_timer = entered.constant_linkscan_timer
      /\ r.slave_devices = AllTold(entered.slave_devices, g, "GROUP_TIMEOUT")
  <2> DEFINE results == {FALSE}
  <2>1. r = ScanEnd(entered, g, "GROUP_TIMEOUT", results)
    BY DEF ScanEnd, clm_iefb_on_linkscan_timeout,
           clm_iefb_trigger_linkscan_callback
  <2> HIDE DEF r, results
  <2>2. /\ HasFields(r, GroupFields)
        /\ r.group_state = entered.group_state
        /\ r.frame_sequence_no =
             clm_iefb_update_frame_sequence_no(entered.frame_sequence_no)
        /\ r.linkscan = entered.linkscan \cup results
        /\ r.sent = entered.sent
        /\ r.response_wait_timer = entered.response_wait_timer
        /\ r.constant_linkscan_timer = entered.constant_linkscan_timer
        /\ r.slave_devices = AllTold(entered.slave_devices, g, "GROUP_TIMEOUT")
    BY <1>3, <2>1, ScanEndFields
  <2> QED BY <2>2 DEF results
<1> HIDE DEF r
<1>6. group_fsm_turn(group, g, "LINKSCAN_TIMEOUT", c) = r
  BY <1>3, <1>4, <1>5 DEF GroupOnEntry
<1>7. \A i \in device_nos(g) :
         Expired(r.slave_devices[i], group.slave_devices[i], g, i)
  BY <1>3, <1>5, DeviceTimeout
     DEF AllTold, Scanning, GroupBase, DevicesOK
<1>8. \A i \in device_nos(g) :
         /\ DeviceOK(r.slave_devices[i], g, i)
         /\ r.slave_devices[i].device_state \in {"LISTEN", "CYCLIC_SENT"}
  BY <1>7 DEF Expired
<1>9. /\ HasFields(r, GroupFields)
      /\ r.group_state = "MASTER_LINK_SCAN_COMP"
      /\ r.frame_sequence_no =
           clm_iefb_update_frame_sequence_no(group.frame_sequence_no)
      /\ r.linkscan \subseteq BOOLEAN
      /\ r.sent = group.sent
      /\ r.response_wait_timer \in Timer({0, hier[g].timeout_value})
      /\ r.constant_linkscan_timer = group.constant_linkscan_timer
      /\ r.slave_devices = AllTold(group.slave_devices, g, "GROUP_TIMEOUT")
  BY <1>3, <1>5 DEF SameScan, Scanning, GroupBase, GroupType
<1>10. Paused(r, g)
  BY <1>8, <1>9, PausedAfterScan
<1> QED BY <1>6, <1>7, <1>10

LEMMA StopTimer ==
    ASSUME NEW period
    PROVE  /\ cl_timer_stop \in Timer({0, period})
           /\ ~Running(cl_timer_stop)
           /\ ~cl_timer_is_expired(cl_timer_stop)
  BY DEF cl_timer_stop, Timer, Running, cl_timer_is_expired

(* A device at the end of a scan in which all connected devices answered.  *)
Settled(r, dev, g, i) ==
    /\ DeviceOK(r, g, i)
    /\ SameRequest(r, dev)
    /\ \/ r.device_state = "LISTEN"
       \/ dev.device_state = "CYCLIC_SENT" /\ r = dev

LEMMA GroupComplete ==
    ASSUME NEW g \in group_nos, NEW group, Scanning(group, g), NEW c,
           \A i \in device_nos(g) :
              group.slave_devices[i].device_state # "CYCLIC_SENDING"
    PROVE  LET r == group_fsm_turn(group, g, "LINKSCAN_COMPLETE", c)
           IN  /\ Paused(r, g)
               /\ r.frame_sequence_no > 0
               /\ r.response_wait_timer = cl_timer_stop
               /\ r.constant_linkscan_timer = group.constant_linkscan_timer
               /\ \A i \in device_nos(g) :
                     Settled(r.slave_devices[i], group.slave_devices[i], g, i)
<1> DEFINE entered == [group EXCEPT !.group_state = "MASTER_LINK_SCAN_COMP"]
           quiet == [entered EXCEPT !.response_wait_timer = cl_timer_stop]
           r == clm_iefb_on_linkscan_complete(entered, g)
<1>0. HasFields(group, GroupFields)
  BY DEF Scanning, GroupBase, GroupType
<1>1. NextGroupState(group.group_state, "LINKSCAN_COMPLETE")
         = "MASTER_LINK_SCAN_COMP"
  BY GroupEntry DEF EntryOf, FromOf, group_events, Scanning
<1>2. GroupAction(entered, g, "LINKSCAN_COMPLETE", c) = r
  BY DEF GroupAction
<1>3. /\ HasFields(entered, GroupFields)
      /\ entered.group_state = "MASTER_LINK_SCAN_COMP"
      /\ SameScan(entered, group)
      /\ entered.slave_devices = group.slave_devices
  BY <1>0, Enter
<1>4. group_fsm_turn(group, g, "LINKSCAN_COMPLETE", c) = GroupOnEntry(r, g)
  BY <1>1, <1>2 DEF group_fsm_turn
<1> HIDE DEF entered
<1>5. /\ HasFields(quiet, GroupFields)
      /\ quiet.group_state = entered.group_state
      /\ quiet.frame_sequence_no = entered.frame_sequence_no
      /\ quiet.linkscan = entered.linkscan
      /\ quiet.sent = entered.sent
      /\ quiet.response_wait_timer = cl_timer_stop
      /\ quiet.constant_linkscan_timer = entered.constant_linkscan_timer
      /\ quiet.slave_devices = entered.slave_devices
  BY <1>3 DEF HasFields, GroupFields
<1> DEFINE results == {TRUE}
<1>6. r = ScanEnd(quiet, g, "GROUP_ALL_RESPONDED", results)
  BY DEF ScanEnd, clm_iefb_on_linkscan_complete,
         clm_iefb_trigger_linkscan_callback
<1> HIDE DEF r, results, quiet
<1>7. /\ HasFields(r, GroupFields)
      /\ r.group_state = quiet.group_state
      /\ r.frame_sequence_no =
           clm_iefb_update_frame_sequence_no(quiet.frame_sequence_no)
      /\ r.linkscan = quiet.linkscan \cup results
      /\ r.sent = quiet.sent
      /\ r.response_wait_timer = quiet.response_wait_timer
      /\ r.constant_linkscan_timer = quiet.constant_linkscan_timer
      /\ r.slave_devices =
           AllTold(quiet.slave_devices, g, "GROUP_ALL_RESPONDED")
  BY <1>5, <1>6, ScanEndFields
<1>8. group_fsm_turn(group, g, "LINKSCAN_COMPLETE", c) = r
  BY <1>3, <1>4, <1>5, <1>7 DEF GroupOnEntry
<1>9. /\ HasFields(r, GroupFields)
      /\ r.group_state = "MASTER_LINK_SCAN_COMP"
      /\ r.frame_sequence_no =
           clm_iefb_update_frame_sequence_no(group.frame_sequence_no)
      /\ r.linkscan \subseteq BOOLEAN
      /\ r.sent = group.sent
      /\ r.response_wait_timer \in Timer({0, hier[g].timeout_value})
      /\ r.constant_linkscan_timer = group.constant_linkscan_timer
      /\ r.slave_devices =
           AllTold(group.slave_devices, g, "GROUP_ALL_RESPONDED")
  <2>1. r.linkscan = group.linkscan \cup results
    BY <1>3, <1>5, <1>7 DEF SameScan
  <2>2. r.linkscan \subseteq BOOLEAN
    BY <2>1 DEF results, Scanning, GroupBase, GroupType
  <2> QED BY <1>3, <1>5, <1>7, <2>2, StopTimer DEF SameScan
<1>10. \A i \in device_nos(g) :
         Settled(r.slave_devices[i], group.slave_devices[i], g, i)
  <2> SUFFICES ASSUME NEW i \in device_nos(g)
               PROVE  Settled(r.slave_devices[i], group.slave_devices[i], g, i)
    OBVIOUS
  <2> DEFINE dev == group.slave_devices[i]
             after == r.slave_devices[i]
  <2>1. DeviceOK(dev, g, i)
    BY DEF Scanning, GroupBase, DevicesOK
  <2>2. after = clm_iefb_device_fsm_event(dev, g, i, "GROUP_ALL_RESPONDED")
    BY <1>9 DEF AllTold
  <2>3. dev.device_state # "CYCLIC_SENDING"
    OBVIOUS
  <2> HIDE DEF dev, after
  <2>4. IF dev.device_state \in {"WAIT_TD", "CYCLIC_SUSPEND"}
        THEN Listening(after, dev, g, i) ELSE after = dev
    BY <2>1, <2>2, DeviceAllResponded
  <2>5. dev.device_state \in clm_device_states \ {"MASTER_DOWN"}
    BY <2>1 DEF DeviceOK, DeviceType
  <2>6. Settled(after, dev, g, i)
    BY <2>1, <2>3, <2>4, <2>5
       DEF Settled, Listening, SameRequest, clm_device_states
  <2> QED BY <2>6 DEF dev, after
<1>11. \A i \in device_nos(g) :
         /\ DeviceOK(r.slave_devices[i], g, i)
         /\ r.slave_devices[i].device_state \in {"LISTEN", "CYCLIC_SENT"}
  BY <1>10 DEF Settled
<1>12. Paused(r, g) /\ r.frame_sequence_no > 0
  BY <1>9, <1>11, PausedAfterScan
<1> QED BY <1>5, <1>7, <1>8, <1>9, <1>10, <1>12

(* What the request says about a device that is not stopped.               *)
Current(r, g, i) ==
    LET on == r.device_state = "CYCLIC_SENDING" \/ r.force_transmission_bit
    IN  /\ r.device_state # "CYCLIC_SUSPEND"
        /\ r.slave_id = Setting(g, i).slave_id
        /\ r.on = on
        /\ r.data = IF on THEN r.ry ELSE NoData

(***************************************************************************)
(* A device after a request, compared to before the event that led to it.  *)
(* If its bit is on then its answer to the last request was in, or its     *)
(* counter has counted that it was not.                                    *)
(***************************************************************************)
Asked(r, dev, g, i) ==
    /\ r.device_state \in {"WAIT_TD", "CYCLIC_SENDING", "CYCLIC_SUSPEND"}
    /\ r.rx = dev.rx
    /\ r.transmission_bit =>
          \/ dev.device_state = "CYCLIC_SENT"
          \/ /\ dev.device_state = "CYCLIC_SENDING"
             /\ r.timeout_count = dev.timeout_count + 1
    /\ r.enabled => Current(r, g, i)

LEMMA AskedAfterEnd ==
    ASSUME NEW g, NEW i, NEW dev, NEW mid, NEW r, Begun(r, mid, g, i),
           Expired(mid, dev, g, i) \/ Settled(mid, dev, g, i)
    PROVE  Asked(r, dev, g, i)
<1>1. mid.rx = dev.rx
  BY DEF Expired, Settled, SameRequest
<1>2. mid.device_state = "CYCLIC_SENT" =>
        \/ dev.device_state = "CYCLIC_SENT"
        \/ /\ dev.device_state = "CYCLIC_SENDING"
           /\ mid.timeout_count = dev.timeout_count + 1
  BY DEF Expired, Settled
<1>3. r.enabled => Current(r, g, i)
  BY DEF Begun, Current
<1> QED BY <1>1, <1>2, <1>3 DEF Begun, Asked

NextScan(r, group, g) ==
    /\ Started(r, g)
    /\ \A i \in device_nos(g) :
          Asked(r.slave_devices[i], group.slave_devices[i], g, i)

(* Arbitration is over: the first scan.                                    *)
LEMMA FirstScan ==
    ASSUME NEW g \in group_nos, NEW group, GroupBase(group, g), NEW c,
           group.group_state = "MASTER_ARBITRATION", group.sent = {}
    PROVE  NextScan(GroupAfter(group, g, "ARBITRATION_DONE", c), group, g)
<1> DEFINE mid == [group EXCEPT !.group_state = "MASTER_LINK_SCAN_COMP"]
           r == group_fsm_turn(mid, g, "LINKSCAN_START", c)
<1>0. HasFields(group, GroupFields)
  BY DEF GroupBase, GroupType
<1>1. NextGroupState(group.group_state, "ARBITRATION_DONE")
         = "MASTER_LINK_SCAN_COMP"
  BY GroupEntry DEF EntryOf, FromOf, group_events
<1>2. GroupAction(mid, g, "ARBITRATION_DONE", c) = mid
  BY DEF GroupAction
<1>3. /\ HasFields(mid, GroupFields)
      /\ mid.group_state = "MASTER_LINK_SCAN_COMP"
      /\ SameScan(mid, group)
      /\ mid.slave_devices = group.slave_devices
  BY <1>0, Enter
<1>4. group_fsm_turn(group, g, "ARBITRATION_DONE", c) = GroupOnEntry(mid, g)
  BY <1>1, <1>2 DEF group_fsm_turn
<1> HIDE DEF mid
<1>5. GroupOnEntry(mid, g) = mid
  BY <1>3 DEF GroupOnEntry
<1>6. GroupAfter(group, g, "ARBITRATION_DONE", c) = r
  BY <1>4, <1>5 DEF GroupAfter, GroupFollowUp, AsksForScan
<1>7. \A i \in device_nos(g) :
         group.slave_devices[i].device_state = "LISTEN"
  BY DEF GroupBase, DevicesOK, Between
<1>8. Paused(mid, g)
  <2>1. GroupType(mid, g)
    BY <1>3 DEF SameScan, GroupBase, GroupType, clm_group_states
  <2>2. DevicesOK(mid, g)
    BY <1>3, <1>7 DEF SameScan, GroupBase, DevicesOK, Between
  <2> QED BY <1>3, <1>7, <2>1, <2>2 DEF SameScan, GroupBase, Paused
<1>9. /\ Started(r, g)
      /\ \A i \in device_nos(g) :
            Begun(r.slave_devices[i], mid.slave_devices[i], g, i)
  BY <1>8, GroupStart
<1> HIDE DEF r
<1>10. \A i \in device_nos(g) :
         Asked(r.slave_devices[i], group.slave_devices[i], g, i)
  BY <1>3, <1>9 DEF Begun, Asked, Current
<1> QED BY <1>6, <1>9, <1>10 DEF NextScan

(* The responses took too long: the next scan follows at once.             *)
LEMMA ScanAfterTimeout ==
    ASSUME NEW g \in group_nos, NEW group, Scanning(group, g), NEW c
    PROVE  NextScan(GroupAfter(group, g, "LINKSCAN_TIMEOUT", c), group, g)
<1> DEFINE mid == group_fsm_turn(group, g, "LINKSCAN_TIMEOUT", c)
           r == group_fsm_turn(mid, g, "LINKSCAN_START", c)
<1>1. GroupAfter(group, g, "LINKSCAN_TIMEOUT", c) = r
  BY DEF GroupAfter, GroupFollowUp, AsksForScan
<1>2. /\ Paused(mid, g)
      /\ \A i \in device_nos(g) :
            Expired(mid.slave_devices[i], group.slave_devices[i], g, i)
  BY GroupTimedOut
<1> HIDE DEF mid
<1>3. /\ Started(r, g)
      /\ \A i \in device_nos(g) :
            Begun(r.slave_devices[i], mid.slave_devices[i], g, i)
  BY <1>2, GroupStart
<1> HIDE DEF r
<1>4. \A i \in device_nos(g) :
         Asked(r.slave_devices[i], group.slave_devices[i], g, i)
  BY <1>2, <1>3, AskedAfterEnd
<1> QED BY <1>1, <1>3, <1>4 DEF NextScan

(* All responses are in.                                                   *)
LEMMA ScanAfterComplete ==
    ASSUME NEW g \in group_nos, NEW group, Scanning(group, g), NEW c,
           \A i \in device_nos(g) :
              group.slave_devices[i].device_state # "CYCLIC_SENDING",
           ~hier[g].use_constant_link_scan_time
    PROVE  NextScan(GroupAfter(group, g, "LINKSCAN_COMPLETE", c), group, g)
<1> DEFINE mid == group_fsm_turn(group, g, "LINKSCAN_COMPLETE", c)
           r == group_fsm_turn(mid, g, "LINKSCAN_START", c)
<1>1. GroupAfter(group, g, "LINKSCAN_COMPLETE", c) = r
  BY DEF GroupAfter, GroupFollowUp, AsksForScan
<1>2. /\ Paused(mid, g)
      /\ \A i \in device_nos(g) :
            Settled(mid.slave_devices[i], group.slave_devices[i], g, i)
  BY GroupComplete
<1> HIDE DEF mid
<1>3. /\ Started(r, g)
      /\ \A i \in device_nos(g) :
            Begun(r.slave_devices[i], mid.slave_devices[i], g, i)
  BY <1>2, GroupStart
<1> HIDE DEF r
<1>4. \A i \in device_nos(g) :
         Asked(r.slave_devices[i], group.slave_devices[i], g, i)
  BY <1>2, <1>3, AskedAfterEnd
<1> QED BY <1>1, <1>3, <1>4 DEF NextScan

(* With constant link scan the group rests until its timer expires.        *)
LEMMA RestAfterComplete ==
    ASSUME NEW g \in group_nos, NEW group, Scanning(group, g), NEW c,
           \A i \in device_nos(g) :
              group.slave_devices[i].device_state # "CYCLIC_SENDING",
           hier[g].use_constant_link_scan_time,
           Running(group.constant_linkscan_timer)
    PROVE  LET r == GroupAfter(group, g, "LINKSCAN_COMPLETE", c)
           IN  /\ GroupOK(r, g)
               /\ r.group_state = "MASTER_LINK_SCAN_COMP"
               /\ r.sent = {}
               /\ r.response_wait_timer = cl_timer_stop
               /\ r.constant_linkscan_timer = group.constant_linkscan_timer
               /\ \A i \in device_nos(g) :
                     Settled(r.slave_devices[i], group.slave_devices[i], g, i)
<1> DEFINE r == group_fsm_turn(group, g, "LINKSCAN_COMPLETE", c)
<1>1. GroupAfter(group, g, "LINKSCAN_COMPLETE", c) = r
  BY DEF GroupAfter, GroupFollowUp, AsksForScan
<1>2. /\ Paused(r, g)
      /\ r.frame_sequence_no > 0
      /\ r.response_wait_timer = cl_timer_stop
      /\ r.constant_linkscan_timer = group.constant_linkscan_timer
      /\ \A i \in device_nos(g) :
            Settled(r.slave_devices[i], group.slave_devices[i], g, i)
  BY GroupComplete
<1> HIDE DEF r
<1>3. TimersOK(r, g)
  BY <1>2, StopTimer DEF TimersOK, Paused
<1>4. GroupOK(r, g)
  BY <1>2, <1>3 DEF Paused, GroupBase, GroupOK
<1> QED BY <1>1, <1>2, <1>4 DEF Paused

LEMMA ScanAfterRest ==
    ASSUME NEW g \in group_nos, NEW group, Paused(group, g), NEW c
    PROVE  NextScan(GroupAfter(group, g, "LINKSCAN_START", c), group, g)
<1> DEFINE r == group_fsm_turn(group, g, "LINKSCAN_START", c)
<1>1. GroupAfter(group, g, "LINKSCAN_START", c) = r
  BY DEF GroupAfter, GroupFollowUp, AsksForScan
<1>2. /\ Started(r, g)
      /\ \A i \in device_nos(g) :
            Begun(r.slave_devices[i], group.slave_devices[i], g, i)
  BY GroupStart
<1> HIDE DEF r
<1>3. \A i \in device_nos(g) :
         Asked(r.slave_devices[i], group.slave_devices[i], g, i)
  BY <1>2 DEF Begun, Asked, Current
<1> QED BY <1>1, <1>2, <1>3 DEF NextScan

-----------------------------------------------------------------------------
(* Events for the groups of a stack.                                       *)

SharedState(c, s) ==
    IF s = "MASTER_LISTEN" THEN "STANDBY"
    ELSE IF s = "MASTER_ARBITRATION" THEN "ARBITRATION"
    ELSE IF s = "MASTER_LINK_SCAN_COMP" THEN "RUNNING"
    ELSE c.master_state

SharedTimer(c, s) ==
    IF s = "MASTER_LISTEN" THEN cl_timer_stop
    ELSE IF s = "MASTER_ARBITRATION"
    THEN cl_timer_start_if_not_running(c.arbitration_timer, ArbitrationTime)
    ELSE c.arbitration_timer

LEMMA SharedFields ==
    ASSUME NEW c, HasFields(c, MasterFields), NEW e, NEW s
    PROVE  LET r == SharedOnEntry(clm_iefb_on_arbitration_failed(c, e), s)
           IN  /\ HasFields(r, MasterFields)
               /\ r.master_state = SharedState(c, s)
               /\ r.arbitration_timer = SharedTimer(c, s)
               /\ r.parameter_no = c.parameter_no
               /\ r.master_local_unit_info = c.master_local_unit_info
               /\ r.groups = c.groups
<1> DEFINE m == clm_iefb_on_arbitration_failed(c, e)
           r == SharedOnEntry(m, s)
<1>1. /\ HasFields(m, MasterFields)
      /\ m.master_state = c.master_state
      /\ m.arbitration_timer = c.arbitration_timer
      /\ m.parameter_no = c.parameter_no
      /\ m.master_local_unit_info = c.master_local_unit_info
      /\ m.groups = c.groups
  BY DEF HasFields, MasterFields, clm_iefb_on_arbitration_failed,
         clm_iefb_trigger_error_callback
<1> HIDE DEF m
<1>2. CASE s = "MASTER_LISTEN"
  <2>1. r = [[m EXCEPT !.arbitration_timer = cl_timer_stop]
                EXCEPT !.master_state = "STANDBY"]
    BY <1>2 DEF SharedOnEntry, clm_iefb_set_master_state
  <2> HIDE DEF r
  <2> QED BY <1>1, <1>2, <2>1
          DEF HasFields, MasterFields, SharedState, SharedTimer, r, m
<1>3. CASE s = "MASTER_ARBITRATION"
  <2> DEFINE t == cl_timer_start_if_not_running(m.arbitration_timer,
                                                ArbitrationTime)
  <2>1. r = [[m EXCEPT !.arbitration_timer = t]
                EXCEPT !.master_state = "ARBITRATION"]
    BY <1>3 DEF SharedOnEntry, clm_iefb_set_master_state
  <2> HIDE DEF r, t
  <2>2. /\ HasFields(r, MasterFields)
        /\ r.master_state = "ARBITRATION"
        /\ r.arbitration_timer = t
        /\ r.parameter_no = m.parameter_no
        /\ r.master_local_unit_info = m.master_local_unit_info
        /\ r.groups = m.groups
    BY <1>1, <2>1 DEF HasFields, MasterFields
  <2> QED BY <1>1, <1>3, <2>2 DEF SharedState, SharedTimer, r, m, t
<1>4. CASE s = "MASTER_LINK_SCAN_COMP"
  <2>1. r = [m EXCEPT !.master_state = "RUNNING"]
    BY <1>4 DEF SharedOnEntry, clm_iefb_set_master_state
  <2> HIDE DEF r
  <2> QED BY <1>1, <1>4, <2>1
          DEF HasFields, MasterFields, SharedState, SharedTimer, r, m
<1>5. CASE s \notin {"MASTER_LISTEN", "MASTER_ARBITRATION",
                     "MASTER_LINK_SCAN_COMP"}
  <2>1. r = m
    BY <1>5 DEF SharedOnEntry
  <2> HIDE DEF r
  <2> QED BY <1>1, <1>5, <2>1 DEF SharedState, SharedTimer, r, m
<1> QED BY <1>2, <1>3, <1>4, <1>5

Moving(c, gs, e) == {g \in gs : c.groups[g].group_state \in FromOf(e)}

AfterEvent(c, gs, e) ==
    [g \in group_nos |->
        IF g \in Moving(c, gs, e) THEN GroupAfter(c.groups[g], g, e, c)
        ELSE c.groups[g]]

LEMMA NobodyMoves ==
    ASSUME NEW c, NEW gs, NEW e \in group_events, Moving(c, gs, e) = {}
    PROVE  clm_iefb_group_fsm_event(c, gs, e) = c
<1>1. {g \in gs : HasGroupTransition(c.groups[g].group_state, e)} = {}
  BY GroupRow DEF Moving
<1> QED BY <1>1 DEF clm_iefb_group_fsm_event, MoveGroups

LEMMA SomeMove ==
    ASSUME NEW c, HasFields(c, MasterFields), NEW gs, NEW e \in group_events,
           Moving(c, gs, e) # {}
    PROVE  LET r == clm_iefb_group_fsm_event(c, gs, e)
           IN  /\ HasFields(r, MasterFields)
               /\ r.master_state = SharedState(c, EntryOf(e))
               /\ r.arbitration_timer = SharedTimer(c, EntryOf(e))
               /\ r.parameter_no = c.parameter_no
               /\ r.master_local_unit_info = c.master_local_unit_info
               /\ r.groups = AfterEvent(c, gs, e)
<1> DEFINE moving == Moving(c, gs, e)
           first == CHOOSE g \in moving : TRUE
           s == NextGroupState(c.groups[first].group_state, e)
           m == SharedOnEntry(clm_iefb_on_arbitration_failed(c, e), s)
           r == clm_iefb_group_fsm_event(c, gs, e)
<1>1. {g \in gs : HasGroupTransition(c.groups[g].group_state, e)} = moving
  BY GroupRow DEF Moving
<1>2. s = EntryOf(e)
  <2>1. first \in moving
    OBVIOUS
  <2>2. c.groups[first].group_state \in FromOf(e)
    BY <2>1 DEF Moving
  <2> QED BY <2>2, GroupEntry
<1>3. r = [m EXCEPT !.groups = [g \in group_nos |->
                IF g \in moving THEN GroupAfter(@[g], g, e, c) ELSE @[g]]]
  BY <1>1 DEF clm_iefb_group_fsm_event, MoveGroups
<1> HIDE DEF s, r, moving
<1>4. /\ HasFields(m, MasterFields)
      /\ m.master_state = SharedState(c, s)
      /\ m.arbitration_timer = SharedTimer(c, s)
      /\ m.parameter_no = c.parameter_no
      /\ m.master_local_unit_info = c.master_local_unit_info
      /\ m.groups = c.groups
  BY SharedFields
<1> HIDE DEF m
<1>5. [g \in group_nos |-> IF g \in moving
                           THEN GroupAfter(m.groups[g], g, e, c)
                           ELSE m.groups[g]] = AfterEvent(c, gs, e)
  BY <1>4 DEF AfterEvent, moving
<1>6. r = [m EXCEPT !.groups = AfterEvent(c, gs, e)]
  BY <1>3, <1>5
<1>7. /\ HasFields(r, MasterFields)
      /\ r.master_state = m.master_state
      /\ r.arbitration_timer = m.arbitration_timer
      /\ r.parameter_no = m.parameter_no
      /\ r.master_local_unit_info = m.master_local_unit_info
      /\ r.groups = AfterEvent(c, gs, e)
  BY <1>4, <1>6 DEF HasFields, MasterFields
<1> QED BY <1>2, <1>4, <1>7 DEF r

-----------------------------------------------------------------------------
(* The beginning of a call.                                                *)

LEMMA AdvanceTimer ==
    ASSUME NEW periods \in SUBSET Nat, NEW t \in Timer(periods), NEW d \in Nat
    PROVE  LET r == TimerAdvance(t, d)
           IN  /\ r \in Timer(periods)
               /\ Running(r) <=> Running(t)
               /\ r.period = t.period
               /\ Running(t) =>
                    r.elapsed = IF t.elapsed + d >= t.period THEN t.period
                                ELSE t.elapsed + d
               /\ ~cl_timer_is_expired(t) /\ d = 0 => r = t
<1>1. CASE t.state = "STOPPED"
  BY <1>1 DEF TimerAdvance, Running, Timer
<1>2. CASE t.state = "RUNNING"
  BY <1>2 DEF TimerAdvance, Running, Timer, cl_timer_is_expired
<1> QED BY <1>1, <1>2 DEF Timer

(* A group at the start of a call, d later.                                *)
Later(r, group, d) ==
    /\ HasFields(r, GroupFields)
    /\ r.group_state = group.group_state
    /\ r.frame_sequence_no = group.frame_sequence_no
    /\ r.slave_devices = group.slave_devices
    /\ r.sent = {}
    /\ r.linkscan = {}
    /\ r.response_wait_timer = TimerAdvance(group.response_wait_timer, d)
    /\ r.constant_linkscan_timer =
            TimerAdvance(group.constant_linkscan_timer, d)

LaterStack(r, c, d) ==
    /\ HasFields(r, MasterFields)
    /\ r.master_state = c.master_state
    /\ r.arbitration_timer = TimerAdvance(c.arbitration_timer, d)
    /\ r.parameter_no = c.parameter_no
    /\ r.master_local_unit_info = c.master_local_unit_info
    /\ r.groups = [g \in group_nos |-> r.groups[g]]
    /\ \A g \in group_nos : Later(r.groups[g], c.groups[g], d)

(* The operators of ClmMaster that end a call and open the next.           *)
LEMMA NewCallFields ==
    ASSUME NEW c, StackOK(c)
    PROVE  LET r == NewMasterCall(c)
           IN  /\ HasFields(r, MasterFields)
               /\ r.master_state = c.master_state
               /\ r.arbitration_timer = c.arbitration_timer
               /\ r.parameter_no = c.parameter_no
               /\ r.master_local_unit_info = c.master_local_unit_info
               /\ r.groups = [g \in group_nos |-> r.groups[g]]
               /\ \A g \in group_nos :
                     LET s == r.groups[g]
                     IN  /\ HasFields(s, GroupFields)
                         /\ s.group_state = c.groups[g].group_state
                         /\ s.frame_sequence_no = c.groups[g].frame_sequence_no
                         /\ s.slave_devices = c.groups[g].slave_devices
                         /\ s.sent = {}
                         /\ s.linkscan = {}
                         /\ s.response_wait_timer =
                                c.groups[g].response_wait_timer
                         /\ s.constant_linkscan_timer =
                                c.groups[g].constant_linkscan_timer
<1> DEFINE r == NewMasterCall(c)
<1>0. HasFields(c, MasterFields)
  BY DEF StackOK, MasterType
<1>1. /\ HasFields(r, MasterFields)
      /\ r.master_state = c.master_state
      /\ r.arbitration_timer = c.arbitration_timer
      /\ r.parameter_no = c.parameter_no
      /\ r.master_local_unit_info = c.master_local_unit_info
      /\ r.groups = [g \in group_nos |->
                [c.groups[g] EXCEPT !.sent = {}, !.linkscan = {}]]
  BY <1>0 DEF NewMasterCall, HasFields, MasterFields
<1> HIDE DEF r
<1>2. ASSUME NEW g \in group_nos
      PROVE  LET s == r.groups[g]
             IN  /\ HasFields(s, GroupFields)
                 /\ s.group_state = c.groups[g].group_state
                 /\ s.frame_sequence_no = c.groups[g].frame_sequence_no
                 /\ s.slave_devices = c.groups[g].slave_devices
                 /\ s.sent = {}
                 /\ s.linkscan = {}
                 /\ s.response_wait_timer = c.groups[g].response_wait_timer
                 /\ s.constant_linkscan_timer =
                        c.groups[g].constant_linkscan_timer
  <2> DEFINE group == c.groups[g]
             s == r.groups[g]
  <2>1. HasFields(group, GroupFields)
    BY DEF StackOK, GroupOK, GroupType
  <2>2. s = [group EXCEPT !.sent = {}, !.linkscan = {}]
    BY <1>1
  <2> HIDE DEF group, s
  <2>3. /\ HasFields(s, GroupFields)
        /\ s.group_state = group.group_state
        /\ s.frame_sequence_no = group.frame_sequence_no
        /\ s.slave_devices = group.slave_devices
        /\ s.sent = {}
        /\ s.linkscan = {}
        /\ s.response_wait_timer = group.response_wait_timer
        /\ s.constant_linkscan_timer = group.constant_linkscan_timer
    BY <2>1, <2>2 DEF HasFields, GroupFields
  <2> QED BY <2>3 DEF group, s
<1>3. r.groups = [g \in group_nos |-> r.groups[g]]
  BY <1>1
<1> QED BY <1>1, <1>2, <1>3 DEF r

LEMMA CallFields ==
    ASSUME NEW c, StackOK(c), NEW d
    PROVE  LaterStack(AdvanceMaster(NewMasterCall(c), d), c, d)
<1> DEFINE n == NewMasterCall(c)
           r == AdvanceMaster(n, d)
<1>1. /\ HasFields(n, MasterFields)
      /\ n.master_state = c.master_state
      /\ n.arbitration_timer = c.arbitration_timer
      /\ n.parameter_no = c.parameter_no
      /\ n.master_local_unit_info = c.master_local_unit_info
      /\ n.groups = [g \in group_nos |-> n.groups[g]]
      /\ \A g \in group_nos :
            LET s == n.groups[g]
            IN  /\ HasFields(s, GroupFields)
                /\ s.group_state = c.groups[g].group_state
                /\ s.frame_sequence_no = c.groups[g].frame_sequence_no
                /\ s.slave_devices = c.groups[g].slave_devices
                /\ s.sent = {}
                /\ s.linkscan = {}
                /\ s.response_wait_timer = c.groups[g].response_wait_timer
                /\ s.constant_linkscan_timer =
                       c.groups[g].constant_linkscan_timer
  BY NewCallFields
<1> HIDE DEF n
<1> DEFINE at == TimerAdvance(n.arbitration_timer, d)
<1>2. /\ HasFields(r, MasterFields)
      /\ r.master_state = n.master_state
      /\ r.arbitration_timer = at
      /\ r.parameter_no = n.parameter_no
      /\ r.master_local_unit_info = n.master_local_unit_info
      /\ DOMAIN r.groups = group_nos
      /\ r.groups = [g \in group_nos |-> r.groups[g]]
  BY <1>1 DEF AdvanceMaster, HasFields, MasterFields
<1>a. ASSUME NEW g \in group_nos
      PROVE  r.groups[g] = AdvanceGroup(n.groups[g], d)
  BY <1>1 DEF AdvanceMaster, HasFields, MasterFields
<1> HIDE DEF r, at
<1>3. ASSUME NEW g \in group_nos
      PROVE  Later(r.groups[g], c.groups[g], d)
  <2> DEFINE s == n.groups[g]
             t == r.groups[g]
             rt == TimerAdvance(s.response_wait_timer, d)
             ct == TimerAdvance(s.constant_linkscan_timer, d)
  <2>1. HasFields(s, GroupFields)
    BY <1>1
  <2>2. t = [s EXCEPT !.response_wait_timer = rt,
                      !.constant_linkscan_timer = ct]
    BY <1>a DEF AdvanceGroup
  <2> HIDE DEF rt, ct, s, t
  <2>3. /\ HasFields(t, GroupFields)
        /\ t.group_state = s.group_state
        /\ t.frame_sequence_no = s.frame_sequence_no
        /\ t.slave_devices = s.slave_devices
        /\ t.sent = s.sent
        /\ t.linkscan = s.linkscan
        /\ t.response_wait_timer = rt
        /\ t.constant_linkscan_timer = ct
    BY <2>1, <2>2 DEF HasFields, GroupFields
  <2> QED BY <1>1, <2>3 DEF Later, rt, ct, s, t
<1>5. LaterStack(r, c, d)
  BY <1>1, <1>2, <1>3 DEF LaterStack, at
<1> QED BY <1>5 DEF r, n

LEMMA Periods ==
    ASSUME NEW g \in group_nos
    PROVE  /\ hier[g].timeout_value \in Nat \ {0}
           /\ {0, hier[g].timeout_value} \in SUBSET Nat
  BY ConfigAssumption DEF clm_validate_config

LEMMA LaterGroupOK ==
    ASSUME NEW g \in group_nos, NEW group, GroupOK(group, g), NEW d \in Nat,
           NEW r, Later(r, group, d)
    PROVE  GroupOK(r, g)
<1> DEFINE rt == group.response_wait_timer
           ct == group.constant_linkscan_timer
           P == {0, hier[g].timeout_value}
<1>1. P \in SUBSET Nat
  BY Periods
<1>2. rt \in Timer(P) /\ ct \in Timer(P)
  BY DEF GroupOK, GroupType
<1> HIDE DEF rt, ct, P
<1>3. /\ TimerAdvance(rt, d) \in Timer(P)
      /\ Running(TimerAdvance(rt, d)) <=> Running(rt)
  BY <1>1, <1>2, AdvanceTimer
<1>4. /\ TimerAdvance(ct, d) \in Timer(P)
      /\ Running(TimerAdvance(ct, d)) <=> Running(ct)
  BY <1>1, <1>2, AdvanceTimer
<1>5. /\ r.response_wait_timer = TimerAdvance(rt, d)
      /\ r.constant_linkscan_timer = TimerAdvance(ct, d)
  BY DEF Later, rt, ct
<1>6. GroupType(r, g)
  BY <1>3, <1>4, <1>5 DEF Later, GroupOK, GroupType, P
<1>7. TimersOK(r, g)
  <2>1. TimersOK(group, g)
    BY DEF GroupOK
  <2> QED BY <1>3, <1>4, <1>5, <2>1 DEF Later, TimersOK, rt, ct
<1>8. DevicesOK(r, g)
  BY DEF Later, GroupOK, DevicesOK, Between
<1> QED BY <1>6, <1>7, <1>8 DEF GroupOK

LEMMA ArbitrationPeriods ==
    {0, ArbitrationTime} \in SUBSET Nat
  BY MasterAssumption

LEMMA LaterStackOK ==
    ASSUME NEW c, StackOK(c), NEW d \in Nat, NEW r, LaterStack(r, c, d)
    PROVE  /\ StackOK(r)
           /\ \A g \in group_nos : r.groups[g].sent = {}
<1> DEFINE t == c.arbitration_timer
           P == {0, ArbitrationTime}
<1>1. t \in Timer(P)
  BY DEF StackOK, MasterType
<1>2. P \in SUBSET Nat
  BY ArbitrationPeriods
<1> HIDE DEF P
<1>3. /\ TimerAdvance(t, d) \in Timer(P)
      /\ Running(TimerAdvance(t, d)) <=> Running(t)
  BY <1>1, <1>2, AdvanceTimer
<1>4. MasterType(r)
  BY <1>3 DEF LaterStack, StackOK, MasterType, P
<1>5. r.master_state = "ARBITRATION" <=> Running(r.arbitration_timer)
  BY <1>3 DEF LaterStack, StackOK
<1>6. ASSUME NEW g \in group_nos
      PROVE  /\ GroupOK(r.groups[g], g)
             /\ PhaseOf(r.groups[g].group_state) = r.master_state
             /\ r.groups[g].sent = {}
  <2>1. GroupOK(c.groups[g], g) /\ Later(r.groups[g], c.groups[g], d)
    BY DEF StackOK, LaterStack
  <2>2. GroupOK(r.groups[g], g)
    BY <2>1, LaterGroupOK
  <2>3. r.groups[g].group_state = c.groups[g].group_state
    BY <2>1 DEF Later
  <2> QED BY <2>1, <2>2, <2>3 DEF Later, LaterStack, StackOK
<1> QED BY <1>4, <1>5, <1>6 DEF StackOK

-----------------------------------------------------------------------------
(* The timers.                                                             *)

SameShared(r, c) ==
    /\ HasFields(r, MasterFields)
    /\ r.master_state = c.master_state
    /\ r.arbitration_timer = c.arbitration_timer
    /\ r.parameter_no = c.parameter_no
    /\ r.master_local_unit_info = c.master_local_unit_info
    /\ r.groups = [g \in group_nos |-> r.groups[g]]

LEMMA SameSharedType ==
    ASSUME NEW c, MasterType(c), NEW r, SameShared(r, c)
    PROVE  MasterType(r)
  BY DEF MasterType, SameShared

(* A stack in which the timers of some groups are stopped.                 *)
StopResponse(c, expired) ==
    [c EXCEPT !.groups = [g \in group_nos |->
        IF g \in expired
        THEN [@[g] EXCEPT !.response_wait_timer = cl_timer_stop]
        ELSE @[g]]]

StopConstant(c, expired) ==
    [c EXCEPT !.groups = [g \in group_nos |->
        IF g \in expired
        THEN [@[g] EXCEPT !.constant_linkscan_timer = cl_timer_stop]
        ELSE @[g]]]

LEMMA StopNone ==
    ASSUME NEW c, MasterType(c)
    PROVE  StopResponse(c, {}) = c /\ StopConstant(c, {}) = c
<1>1. c.groups = [g \in group_nos |-> c.groups[g]]
  BY DEF MasterType
<1>2. HasFields(c, MasterFields)
  BY DEF MasterType
<1>3. [c EXCEPT !.groups = c.groups] = c
  BY <1>2 DEF HasFields, MasterFields
<1>4. /\ StopResponse(c, {}) =
            [c EXCEPT !.groups = [g \in group_nos |-> c.groups[g]]]
      /\ StopConstant(c, {}) =
            [c EXCEPT !.groups = [g \in group_nos |-> c.groups[g]]]
  BY DEF StopResponse, StopConstant
<1> QED BY <1>1, <1>3, <1>4

(* Nothing has expired, nothing happens.                                   *)
LEMMA QuietMonitors ==
    ASSUME NEW c, MasterType(c), \A g \in group_nos : Unexpired(c.groups[g])
    PROVE  clm_iefb_monitor_all_group_timers(c) = c
<1>1. {g \in group_nos :
          cl_timer_is_expired(c.groups[g].response_wait_timer)} = {}
  BY DEF Unexpired
<1>2. {g \in group_nos :
          cl_timer_is_expired(c.groups[g].constant_linkscan_timer)} = {}
  BY DEF Unexpired
<1>3. \A e : Moving(c, {}, e) = {}
  BY DEF Moving
<1>4. /\ clm_iefb_group_fsm_event(c, {}, "LINKSCAN_TIMEOUT") = c
      /\ clm_iefb_group_fsm_event(c, {}, "LINKSCAN_START") = c
  BY <1>3, NobodyMoves DEF group_events
<1>5. LinkscanTimeout(c, {}) = c
  <2>1. LinkscanTimeout(c, {}) =
          clm_iefb_group_fsm_event(StopResponse(c, {}), {}, "LINKSCAN_TIMEOUT")
    BY DEF LinkscanTimeout, StopResponse
  <2> QED BY <1>4, <2>1, StopNone
<1>6. ConstantLinkscanStart(c, {}) = c
  <2>1. ConstantLinkscanStart(c, {}) =
          clm_iefb_group_fsm_event(StopConstant(c, {}), {}, "LINKSCAN_START")
    BY DEF ConstantLinkscanStart, StopConstant
  <2> QED BY <1>4, <2>1, StopNone
<1>7. MonitorResponseTimers(c) = c
  BY <1>1, <1>5 DEF MonitorResponseTimers
<1>8. MonitorConstantTimers(c) = c
  BY <1>2, <1>6 DEF MonitorConstantTimers
<1> QED BY <1>7, <1>8 DEF clm_iefb_monitor_all_group_timers

LEMMA StopResponseFields ==
    ASSUME NEW c, MasterType(c), NEW expired
    PROVE  LET r == StopResponse(c, expired)
           IN  /\ SameShared(r, c)
               /\ \A g \in group_nos \ expired : r.groups[g] = c.groups[g]
               /\ \A g \in group_nos \cap expired :
                     r.groups[g] = [c.groups[g] EXCEPT
                                        !.response_wait_timer = cl_timer_stop]
<1>1. HasFields(c, MasterFields)
  BY DEF MasterType
<1> QED BY <1>1 DEF StopResponse, SameShared, HasFields, MasterFields

LEMMA StopConstantFields ==
    ASSUME NEW c, MasterType(c), NEW expired
    PROVE  LET r == StopConstant(c, expired)
           IN  /\ SameShared(r, c)
               /\ \A g \in group_nos \ expired : r.groups[g] = c.groups[g]
               /\ \A g \in group_nos \cap expired :
                     r.groups[g] = [c.groups[g] EXCEPT
                                        !.constant_linkscan_timer =
                                            cl_timer_stop]
<1>1. HasFields(c, MasterFields)
  BY DEF MasterType
<1> QED BY <1>1 DEF StopConstant, SameShared, HasFields, MasterFields

(* A group whose response timer was stopped.                               *)
LEMMA ResponseStopped ==
    ASSUME NEW g \in group_nos, NEW group, GroupOK(group, g)
    PROVE  LET r == [group EXCEPT !.response_wait_timer = cl_timer_stop]
           IN  /\ GroupBase(r, g)
               /\ r.group_state = group.group_state
               /\ r.frame_sequence_no = group.frame_sequence_no
               /\ r.slave_devices = group.slave_devices
               /\ r.sent = group.sent
               /\ r.response_wait_timer = cl_timer_stop
               /\ r.constant_linkscan_timer = group.constant_linkscan_timer
               /\ group.group_state = "MASTER_LISTEN" => GroupOK(r, g)
<1> DEFINE r == [group EXCEPT !.response_wait_timer = cl_timer_stop]
<1>0. HasFields(group, GroupFields)
  BY DEF GroupOK, GroupType
<1>1. /\ HasFields(r, GroupFields)
      /\ r.group_state = group.group_state
      /\ r.frame_sequence_no = group.frame_sequence_no
      /\ r.linkscan = group.linkscan
      /\ r.sent = group.sent
      /\ r.response_wait_timer = cl_timer_stop
      /\ r.constant_linkscan_timer = group.constant_linkscan_timer
      /\ r.slave_devices = group.slave_devices
  BY <1>0 DEF HasFields, GroupFields
<1> HIDE DEF r
<1>2. GroupType(r, g)
  BY <1>1, StopTimer DEF GroupOK, GroupType
<1>3. DevicesOK(r, g)
  BY <1>1 DEF GroupOK, DevicesOK, Between
<1>4. GroupBase(r, g)
  BY <1>1, <1>2, <1>3 DEF GroupBase, GroupOK, TimersOK
<1>5. group.group_state = "MASTER_LISTEN" => TimersOK(r, g)
  BY <1>1 DEF GroupOK, TimersOK
<1> QED BY <1>1, <1>2, <1>3, <1>4, <1>5 DEF GroupOK, r

LEMMA ConstantStopped ==
    ASSUME NEW g \in group_nos, NEW group, GroupOK(group, g)
    PROVE  LET r == [group EXCEPT !.constant_linkscan_timer = cl_timer_stop]
           IN  /\ GroupBase(r, g)
               /\ r.group_state = group.group_state
               /\ r.frame_sequence_no = group.frame_sequence_no
               /\ r.slave_devices = group.slave_devices
               /\ r.sent = group.sent
               /\ r.response_wait_timer = group.response_wait_timer
               /\ r.constant_linkscan_timer = cl_timer_stop
               /\ group.group_state = "MASTER_LISTEN" => GroupOK(r, g)
<1> DEFINE r == [group EXCEPT !.constant_linkscan_timer = cl_timer_stop]
<1>0. HasFields(group, GroupFields)
  BY DEF GroupOK, GroupType
<1>1. /\ HasFields(r, GroupFields)
      /\ r.group_state = group.group_state
      /\ r.frame_sequence_no = group.frame_sequence_no
      /\ r.linkscan = group.linkscan
      /\ r.sent = group.sent
      /\ r.response_wait_timer = group.response_wait_timer
      /\ r.constant_linkscan_timer = cl_timer_stop
      /\ r.slave_devices = group.slave_devices
  BY <1>0 DEF HasFields, GroupFields
<1> HIDE DEF r
<1>2. GroupType(r, g)
  BY <1>1, StopTimer DEF GroupOK, GroupType
<1>3. DevicesOK(r, g)
  BY <1>1 DEF GroupOK, DevicesOK, Between
<1>4. GroupBase(r, g)
  BY <1>1, <1>2, <1>3, StopTimer DEF GroupBase
<1>5. group.group_state = "MASTER_LISTEN" => TimersOK(r, g)
  BY <1>1, StopTimer DEF TimersOK
<1> QED BY <1>1, <1>2, <1>3, <1>4, <1>5 DEF GroupOK, r

LEMMA StartedUnexpired ==
    ASSUME NEW g \in group_nos, NEW r, Started(r, g)
    PROVE  Unexpired(r)
<1>1. /\ ~cl_timer_is_expired(r.response_wait_timer)
  BY StartTimer DEF Started
<1>2. CASE hier[g].use_constant_link_scan_time
  BY <1>1, <1>2 DEF Started, GroupOK, TimersOK, Unexpired
<1>3. CASE ~hier[g].use_constant_link_scan_time
  BY <1>1, <1>3
     DEF Started, GroupOK, TimersOK, Unexpired, Running, cl_timer_is_expired
<1> QED BY <1>2, <1>3

(* A group in standby whose timers may have been stopped.                  *)
Stopped(r, group) ==
    /\ group.group_state = "MASTER_LISTEN"
    /\ r.group_state = "MASTER_LISTEN"
    /\ r.frame_sequence_no = group.frame_sequence_no
    /\ r.sent = {}
    /\ r.slave_devices = group.slave_devices

(* What became of a group when its response timer was looked at.           *)
ResponseSeen(r, group, g) ==
    /\ GroupOK(r, g)
    /\ ~cl_timer_is_expired(r.response_wait_timer)
    /\ \/ r = group
       \/ /\ group.group_state = "MASTER_LINK_SCAN"
          /\ cl_timer_is_expired(group.response_wait_timer)
          /\ NextScan(r, group, g)
       \/ Stopped(r, group)

LEMMA ResponseMonitor ==
    ASSUME NEW c, StackOK(c), \A g \in group_nos : c.groups[g].sent = {}
    PROVE  LET r == MonitorResponseTimers(c)
           IN  /\ SameShared(r, c)
               /\ \A g \in group_nos :
                     ResponseSeen(r.groups[g], c.groups[g], g)
<1> DEFINE expired == {g \in group_nos :
                cl_timer_is_expired(c.groups[g].response_wait_timer)}
           m == StopResponse(c, expired)
           moving == Moving(m, expired, "LINKSCAN_TIMEOUT")
           r == clm_iefb_group_fsm_event(m, expired, "LINKSCAN_TIMEOUT")
<1>1. MonitorResponseTimers(c) = r
  BY DEF MonitorResponseTimers, LinkscanTimeout, StopResponse
<1>2. MasterType(c)
  BY DEF StackOK
<1>3. \A g \in expired :
         /\ g \in group_nos
         /\ cl_timer_is_expired(c.groups[g].response_wait_timer)
  OBVIOUS
<1>4. \A g \in group_nos \ expired :
         ~cl_timer_is_expired(c.groups[g].response_wait_timer)
  OBVIOUS
<1> HIDE DEF expired
<1>5. /\ SameShared(m, c)
      /\ \A g \in group_nos \ expired : m.groups[g] = c.groups[g]
      /\ \A g \in group_nos \cap expired :
            m.groups[g] = [c.groups[g] EXCEPT
                                !.response_wait_timer = cl_timer_stop]
  BY <1>2, StopResponseFields
<1> HIDE DEF m
<1>6. ASSUME NEW g \in expired
      PROVE  /\ GroupBase(m.groups[g], g)
             /\ m.groups[g].group_state = c.groups[g].group_state
             /\ m.groups[g].frame_sequence_no = c.groups[g].frame_sequence_no
             /\ m.groups[g].slave_devices = c.groups[g].slave_devices
             /\ m.groups[g].sent = {}
             /\ m.groups[g].response_wait_timer = cl_timer_stop
             /\ c.groups[g].group_state = "MASTER_LISTEN" =>
                    GroupOK(m.groups[g], g)
  <2>1. g \in group_nos /\ GroupOK(c.groups[g], g) /\ c.groups[g].sent = {}
    BY <1>3 DEF StackOK
  <2>2. m.groups[g] = [c.groups[g] EXCEPT
                            !.response_wait_timer = cl_timer_stop]
    BY <1>5, <2>1
  <2> QED BY <2>1, <2>2, ResponseStopped
<1>7. moving = {g \in expired : c.groups[g].group_state = "MASTER_LINK_SCAN"}
  BY <1>6 DEF Moving, FromOf
<1>8. \A g \in expired :
         c.groups[g].group_state \in {"MASTER_LISTEN", "MASTER_LINK_SCAN"}
  BY <1>3 DEF StackOK, GroupOK, GroupType, TimersOK, clm_group_states,
              cl_timer_is_expired, Running
<1>9. /\ SameShared(r, c)
      /\ \A g \in group_nos \ moving : r.groups[g] = m.groups[g]
      /\ \A g \in moving :
            r.groups[g] = GroupAfter(m.groups[g], g, "LINKSCAN_TIMEOUT", m)
  <2>1. CASE moving = {}
    <3>1. r = m
      BY <2>1, NobodyMoves DEF group_events
    <3> QED BY <1>5, <2>1, <3>1
  <2>2. CASE moving # {}
    <3>1. /\ HasFields(r, MasterFields)
          /\ r.master_state = SharedState(m, EntryOf("LINKSCAN_TIMEOUT"))
          /\ r.arbitration_timer = SharedTimer(m, EntryOf("LINKSCAN_TIMEOUT"))
          /\ r.parameter_no = m.parameter_no
          /\ r.master_local_unit_info = m.master_local_unit_info
          /\ r.groups = AfterEvent(m, expired, "LINKSCAN_TIMEOUT")
      BY <1>5, <2>2, SomeMove DEF group_events, SameShared
    <3> HIDE DEF r
    <3>2. c.master_state = "RUNNING"
      BY <1>3, <1>7, <2>2 DEF StackOK, PhaseOf
    <3>3. /\ r.master_state = "RUNNING"
          /\ r.arbitration_timer = m.arbitration_timer
      BY <3>1 DEF SharedState, SharedTimer, EntryOf
    <3>4. \A g \in moving : g \in group_nos
      BY <1>3, <1>7
    <3>5. r.groups = [g \in group_nos |->
                        IF g \in moving
                        THEN GroupAfter(m.groups[g], g, "LINKSCAN_TIMEOUT", m)
                        ELSE m.groups[g]]
      BY <3>1 DEF AfterEvent
    <3> HIDE DEF moving
    <3> QED BY <1>5, <3>1, <3>2, <3>3, <3>4, <3>5 DEF SameShared
  <2> QED BY <2>1, <2>2
<1> HIDE DEF r, moving
<1>10. ASSUME NEW g \in group_nos
       PROVE  ResponseSeen(r.groups[g], c.groups[g], g)
  <2>1. CASE g \in moving
    <3>1. Scanning(m.groups[g], g)
      BY <1>6, <1>7, <2>1 DEF Scanning
    <3>2. NextScan(r.groups[g], m.groups[g], g)
      BY <1>9, <2>1, <3>1, ScanAfterTimeout
    <3>3. NextScan(r.groups[g], c.groups[g], g)
      BY <1>6, <1>7, <2>1, <3>2 DEF NextScan
    <3> QED BY <1>3, <1>7, <2>1, <3>3, StartedUnexpired
            DEF NextScan, Started, Unexpired, ResponseSeen
  <2>2. CASE g \in expired \ moving
    <3>1. c.groups[g].group_state = "MASTER_LISTEN"
      BY <1>7, <1>8, <2>2
    <3>2. r.groups[g] = m.groups[g]
      BY <1>9, <2>2
    <3> QED BY <1>6, <2>2, <3>1, <3>2, StopTimer DEF ResponseSeen, Stopped
  <2>3. CASE g \notin expired
    <3>1. r.groups[g] = c.groups[g]
      BY <1>5, <1>7, <1>9, <2>3
    <3> QED BY <1>4, <2>3, <3>1 DEF ResponseSeen, StackOK
  <2> QED BY <2>1, <2>2, <2>3
<1> QED BY <1>1, <1>9, <1>10

(* What became of it when its other timer was looked at, too.              *)
ConstantSeen(r, group, g) ==
    /\ GroupOK(r, g)
    /\ Unexpired(r)
    /\ \/ r = group
       \/ /\ group.group_state = "MASTER_LINK_SCAN_COMP"
          /\ cl_timer_is_expired(group.constant_linkscan_timer)
          /\ NextScan(r, group, g)
       \/ Stopped(r, group)

LEMMA ConstantMonitor ==
    ASSUME NEW c, MasterType(c),
           \A g \in group_nos :
              /\ GroupOK(c.groups[g], g)
              /\ ~cl_timer_is_expired(c.groups[g].response_wait_timer)
              /\ c.groups[g].group_state # "MASTER_LINK_SCAN" =>
                    c.groups[g].sent = {}
    PROVE  LET r == MonitorConstantTimers(c)
           IN  /\ SameShared(r, c)
               /\ \A g \in group_nos :
                     ConstantSeen(r.groups[g], c.groups[g], g)
<1> DEFINE expired == {g \in group_nos :
                cl_timer_is_expired(c.groups[g].constant_linkscan_timer)}
           m == StopConstant(c, expired)
           moving == Moving(m, expired, "LINKSCAN_START")
           r == clm_iefb_group_fsm_event(m, expired, "LINKSCAN_START")
<1>1. MonitorConstantTimers(c) = r
  BY DEF MonitorConstantTimers, ConstantLinkscanStart, StopConstant
<1>3. \A g \in expired :
         /\ g \in group_nos
         /\ cl_timer_is_expired(c.groups[g].constant_linkscan_timer)
  OBVIOUS
<1>4. \A g \in group_nos \ expired :
         ~cl_timer_is_expired(c.groups[g].constant_linkscan_timer)
  OBVIOUS
<1> HIDE DEF expired
<1>5. /\ SameShared(m, c)
      /\ \A g \in group_nos \ expired : m.groups[g] = c.groups[g]
      /\ \A g \in group_nos \cap expired :
            m.groups[g] = [c.groups[g] EXCEPT
                                !.constant_linkscan_timer = cl_timer_stop]
  BY StopConstantFields
<1> HIDE DEF m
<1>6. ASSUME NEW g \in expired
      PROVE  /\ GroupBase(m.groups[g], g)
             /\ m.groups[g].group_state = c.groups[g].group_state
             /\ m.groups[g].frame_sequence_no = c.groups[g].frame_sequence_no
             /\ m.groups[g].slave_devices = c.groups[g].slave_devices
             /\ m.groups[g].sent = c.groups[g].sent
             /\ m.groups[g].response_wait_timer =
                    c.groups[g].response_wait_timer
             /\ m.groups[g].constant_linkscan_timer = cl_timer_stop
             /\ c.groups[g].group_state = "MASTER_LISTEN" =>
                    GroupOK(m.groups[g], g)
  <2>1. g \in group_nos /\ GroupOK(c.groups[g], g)
    BY <1>3
  <2>2. m.groups[g] = [c.groups[g] EXCEPT
                            !.constant_linkscan_timer = cl_timer_stop]
    BY <1>5, <2>1
  <2> QED BY <2>1, <2>2, ConstantStopped
<1>7. moving =
        {g \in expired : c.groups[g].group_state = "MASTER_LINK_SCAN_COMP"}
  BY <1>6 DEF Moving, FromOf
<1>8. \A g \in expired :
         c.groups[g].group_state \in {"MASTER_LISTEN", "MASTER_LINK_SCAN_COMP"}
  <2> SUFFICES ASSUME NEW g \in expired
               PROVE  c.groups[g].group_state
                        \in {"MASTER_LISTEN", "MASTER_LINK_SCAN_COMP"}
    OBVIOUS
  <2>1. /\ GroupOK(c.groups[g], g)
        /\ cl_timer_is_expired(c.groups[g].constant_linkscan_timer)
        /\ ~cl_timer_is_expired(c.groups[g].response_wait_timer)
    BY <1>3
  <2>2. Running(c.groups[g].constant_linkscan_timer)
    BY <2>1 DEF cl_timer_is_expired, Running
  <2> QED BY <2>1, <2>2 DEF GroupOK, GroupType, TimersOK, clm_group_states
<1>9. /\ SameShared(r, c)
      /\ \A g \in group_nos \ moving : r.groups[g] = m.groups[g]
      /\ \A g \in moving :
            r.groups[g] = GroupAfter(m.groups[g], g, "LINKSCAN_START", m)
  <2>1. CASE moving = {}
    <3>1. r = m
      BY <2>1, NobodyMoves DEF group_events
    <3> QED BY <1>5, <2>1, <3>1
  <2>2. CASE moving # {}
    <3>1. /\ HasFields(r, MasterFields)
          /\ r.master_state = SharedState(m, EntryOf("LINKSCAN_START"))
          /\ r.arbitration_timer = SharedTimer(m, EntryOf("LINKSCAN_START"))
          /\ r.parameter_no = m.parameter_no
          /\ r.master_local_unit_info = m.master_local_unit_info
          /\ r.groups = AfterEvent(m, expired, "LINKSCAN_START")
      BY <1>5, <2>2, SomeMove DEF group_events, SameShared
    <3> HIDE DEF r
    <3>3. /\ r.master_state = m.master_state
          /\ r.arbitration_timer = m.arbitration_timer
      BY <3>1 DEF SharedState, SharedTimer, EntryOf
    <3>4. \A g \in moving : g \in group_nos
      BY <1>3, <1>7
    <3>5. r.groups = [g \in group_nos |->
                        IF g \in moving
                        THEN GroupAfter(m.groups[g], g, "LINKSCAN_START", m)
                        ELSE m.groups[g]]
      BY <3>1 DEF AfterEvent
    <3> HIDE DEF moving
    <3> QED BY <1>5, <3>1, <3>3, <3>4, <3>5 DEF SameShared
  <2> QED BY <2>1, <2>2
<1> HIDE DEF r, moving
<1>10. ASSUME NEW g \in group_nos
       PROVE  ConstantSeen(r.groups[g], c.groups[g], g)
  <2>1. CASE g \in moving
    <3>1. Paused(m.groups[g], g)
      <4>1. /\ c.groups[g].group_state = "MASTER_LINK_SCAN_COMP"
            /\ c.groups[g].sent = {}
            /\ c.groups[g].frame_sequence_no > 0
        BY <1>7, <2>1 DEF GroupOK, TimersOK
      <4>2. /\ GroupBase(m.groups[g], g)
            /\ m.groups[g].group_state = "MASTER_LINK_SCAN_COMP"
            /\ m.groups[g].frame_sequence_no # 0
            /\ m.groups[g].sent = {}
        BY <1>6, <1>7, <2>1, <4>1
      <4> QED BY <4>2 DEF Paused
    <3>2. NextScan(r.groups[g], m.groups[g], g)
      BY <1>9, <2>1, <3>1, ScanAfterRest
    <3>3. NextScan(r.groups[g], c.groups[g], g)
      BY <1>6, <1>7, <2>1, <3>2 DEF NextScan
    <3> QED BY <1>3, <1>7, <2>1, <3>3, StartedUnexpired
            DEF NextScan, Started, ConstantSeen
  <2>2. CASE g \in expired \ moving
    <3>1. c.groups[g].group_state = "MASTER_LISTEN"
      BY <1>7, <1>8, <2>2
    <3>2. r.groups[g] = m.groups[g]
      BY <1>9, <2>2
    <3> QED BY <1>6, <2>2, <3>1, <3>2, StopTimer
            DEF ConstantSeen, Stopped, Unexpired
  <2>3. CASE g \notin expired
    <3>1. r.groups[g] = c.groups[g]
      BY <1>5, <1>7, <1>9, <2>3
    <3> QED BY <1>4, <2>3, <3>1 DEF ConstantSeen, Unexpired
  <2> QED BY <2>1, <2>2, <2>3
<1> QED BY <1>1, <1>9, <1>10

LEMMA ArbitrationOver ==
    ASSUME NEW c, StackOK(c), \A g \in group_nos : c.groups[g].sent = {},
           cl_timer_is_expired(c.arbitration_timer)
    PROVE  LET r == MonitorArbitrationTimer(c)
           IN  /\ MasterType(r)
               /\ r.master_state = "RUNNING"
               /\ r.arbitration_timer = cl_timer_stop
               /\ \A g \in group_nos :
                     /\ c.groups[g].group_state = "MASTER_ARBITRATION"
                     /\ NextScan(r.groups[g], c.groups[g], g)
<1> DEFINE m == [c EXCEPT !.arbitration_timer = cl_timer_stop]
           moving == Moving(m, group_nos, "ARBITRATION_DONE")
           r == clm_iefb_group_fsm_event(m, group_nos, "ARBITRATION_DONE")
<1>1. MonitorArbitrationTimer(c) = r
  BY DEF MonitorArbitrationTimer, clm_iefb_group_fsm_event_all
<1>2. c.master_state = "ARBITRATION"
  BY DEF StackOK, Running, cl_timer_is_expired
<1>3. HasFields(c, MasterFields)
  BY DEF StackOK, MasterType
<1>4. /\ HasFields(m, MasterFields)
      /\ m.master_state = c.master_state
      /\ m.arbitration_timer = cl_timer_stop
      /\ m.parameter_no = c.parameter_no
      /\ m.master_local_unit_info = c.master_local_unit_info
      /\ m.groups = c.groups
  BY <1>3 DEF HasFields, MasterFields
<1> HIDE DEF m
<1>5. \A g \in group_nos : c.groups[g].group_state = "MASTER_ARBITRATION"
  BY <1>2 DEF StackOK, GroupOK, GroupType, PhaseOf, clm_group_states
<1>6. moving = group_nos
  BY <1>4, <1>5 DEF Moving, FromOf
<1>7. group_nos # {}
  <2>1. Len(hier) \in MinGroupNo..MaxGroupNo
    BY ConfigAssumption DEF clm_validate_config
  <2>2. \A n \in MinGroupNo..MaxGroupNo : 1 \in 1..n
    BY DEF MinGroupNo, MaxGroupNo
  <2> QED BY <2>1, <2>2 DEF group_nos
<1>8. /\ HasFields(r, MasterFields)
      /\ r.master_state = SharedState(m, EntryOf("ARBITRATION_DONE"))
      /\ r.arbitration_timer = SharedTimer(m, EntryOf("ARBITRATION_DONE"))
      /\ r.parameter_no = m.parameter_no
      /\ r.master_local_unit_info = m.master_local_unit_info
      /\ r.groups = AfterEvent(m, group_nos, "ARBITRATION_DONE")
  BY <1>4, <1>6, <1>7, SomeMove DEF group_events
<1> HIDE DEF r
<1>9. r.master_state = "RUNNING" /\ r.arbitration_timer = cl_timer_stop
  BY <1>4, <1>8 DEF SharedState, SharedTimer, EntryOf
<1>10. r.groups = [g \in group_nos |->
            GroupAfter(c.groups[g], g, "ARBITRATION_DONE", m)]
  BY <1>4, <1>6, <1>8 DEF AfterEvent
<1>11. MasterType(r)
  BY <1>4, <1>8, <1>9, <1>10, StopTimer DEF MasterType, StackOK
<1>12. ASSUME NEW g \in group_nos
       PROVE  NextScan(r.groups[g], c.groups[g], g)
  <2>1. /\ GroupBase(c.groups[g], g)
        /\ c.groups[g].group_state = "MASTER_ARBITRATION"
        /\ c.groups[g].sent = {}
    BY <1>5 DEF StackOK, GroupOK, GroupBase, TimersOK
  <2>2. r.groups[g] = GroupAfter(c.groups[g], g, "ARBITRATION_DONE", m)
    BY <1>10
  <2> QED BY <2>1, <2>2, FirstScan
<1> QED BY <1>1, <1>5, <1>9, <1>11, <1>12

(***************************************************************************)
(* A group after the timers were looked at, compared to before the call.   *)
(***************************************************************************)
Rested(r, group, d) ==
    /\ r.group_state = group.group_state
    /\ r.frame_sequence_no = group.frame_sequence_no
    /\ r.sent = {}
    /\ r.slave_devices = group.slave_devices
    /\ ~Between(group) =>
            ScanTimer(r).elapsed = ScanTimer(group).elapsed + d

Restarted(r, group, g, d) ==
    /\ NextScan(r, group, g)
    /\ group.group_state # "MASTER_LISTEN"
    /\ ~Between(group) =>
            ScanTimer(group).elapsed + d >= hier[g].timeout_value

Monitored(r, group, g, d) ==
    /\ GroupOK(r, g)
    /\ Unexpired(r)
    /\ Rested(r, group, d) \/ Restarted(r, group, g, d)

(* A timer that runs and has not expired has the period it was given.      *)
LEMMA RunningPeriod ==
    ASSUME NEW period \in Nat, NEW t \in Timer({0, period}), Running(t),
           ~cl_timer_is_expired(t)
    PROVE  t.period = period /\ t.elapsed < period /\ t.elapsed \in Nat
  BY DEF Timer, Running, cl_timer_is_expired

(* How the timer of a scan comes to expire.                                *)
LEMMA ScanTimerLater ==
    ASSUME NEW g \in group_nos, NEW group, GroupOK(group, g),
           Unexpired(group), ~Between(group), NEW d \in Nat,
           NEW r, Later(r, group, d)
    PROVE  /\ ScanTimer(r) = TimerAdvance(ScanTimer(group), d)
           /\ ScanTimer(group).elapsed \in Nat
           /\ ScanTimer(group).elapsed < hier[g].timeout_value
           /\ IF cl_timer_is_expired(ScanTimer(r))
              THEN ScanTimer(group).elapsed + d >= hier[g].timeout_value
              ELSE ScanTimer(r).elapsed = ScanTimer(group).elapsed + d
<1> DEFINE t == ScanTimer(group)
           P == {0, hier[g].timeout_value}
<1>1. t \in Timer(P) /\ Running(t) /\ ~cl_timer_is_expired(t)
  BY DEF ScanTimer, GroupOK, GroupType, TimersOK, Unexpired, Between,
         clm_group_states
<1>2. ScanTimer(r) = TimerAdvance(t, d)
  BY DEF ScanTimer, Later
<1> HIDE DEF t
<1>3. P \in SUBSET Nat /\ hier[g].timeout_value \in Nat
  BY Periods
<1>4. /\ t.period = hier[g].timeout_value
      /\ t.elapsed < hier[g].timeout_value
      /\ t.elapsed \in Nat
  BY <1>1, <1>3, RunningPeriod
<1> HIDE DEF P
<1> DEFINE s == TimerAdvance(t, d)
<1>5. /\ Running(s)
      /\ s.period = t.period
      /\ s.elapsed = IF t.elapsed + d >= t.period THEN t.period
                     ELSE t.elapsed + d
  BY <1>1, <1>3, AdvanceTimer
<1> HIDE DEF s
<1>6. IF cl_timer_is_expired(s)
      THEN t.elapsed + d >= hier[g].timeout_value
      ELSE s.elapsed = t.elapsed + d
  BY <1>3, <1>4, <1>5 DEF cl_timer_is_expired, Running
<1> QED BY <1>2, <1>4, <1>6 DEF t, s

LEMMA MonitoredGroup ==
    ASSUME NEW g \in group_nos, NEW group, GroupOK(group, g),
           Unexpired(group), NEW d \in Nat, NEW later, Later(later, group, d),
           NEW mid, ResponseSeen(mid, later, g),
           NEW r, ConstantSeen(r, mid, g)
    PROVE  Monitored(r, group, g, d)
<1>1. /\ later.group_state = group.group_state
      /\ later.frame_sequence_no = group.frame_sequence_no
      /\ later.slave_devices = group.slave_devices
      /\ later.sent = {}
  BY DEF Later
<1>2. GroupOK(r, g) /\ Unexpired(r)
  BY DEF ConstantSeen
<1>3. \A x : NextScan(x, later, g) => NextScan(x, group, g)
  BY <1>1 DEF NextScan
<1>4. \A x : NextScan(x, later, g) => x.group_state = "MASTER_LINK_SCAN"
  BY DEF NextScan, Started
<1>5. CASE group.group_state = "MASTER_LISTEN"
  <2>1. /\ mid.group_state = "MASTER_LISTEN"
        /\ mid.frame_sequence_no = group.frame_sequence_no
        /\ mid.slave_devices = group.slave_devices
        /\ mid.sent = {}
    BY <1>1, <1>5 DEF ResponseSeen, Stopped
  <2>2. Rested(r, group, d)
    BY <1>5, <2>1 DEF ConstantSeen, Stopped, Rested, Between
  <2> QED BY <1>2, <2>2 DEF Monitored
<1>6. CASE group.group_state = "MASTER_ARBITRATION"
  <2>1. mid = later
    BY <1>1, <1>6 DEF ResponseSeen, Stopped
  <2>2. r = later
    BY <1>1, <1>6, <2>1 DEF ConstantSeen, Stopped
  <2>3. Rested(r, group, d)
    BY <1>1, <1>6, <2>2 DEF Rested, Between
  <2> QED BY <1>2, <2>3 DEF Monitored
<1>7. CASE ~Between(group)
  <2>1. group.group_state \in {"MASTER_LINK_SCAN", "MASTER_LINK_SCAN_COMP"}
    <3>1. group.group_state \in clm_group_states \ {"MASTER_DOWN"}
      BY DEF GroupOK, GroupType
    <3> QED BY <1>7, <3>1 DEF Between, clm_group_states
  <2>2. IF cl_timer_is_expired(ScanTimer(later))
        THEN ScanTimer(group).elapsed + d >= hier[g].timeout_value
        ELSE ScanTimer(later).elapsed = ScanTimer(group).elapsed + d
    BY <1>7, ScanTimerLater
  <2>3. CASE r = later
    <3>1. ~cl_timer_is_expired(ScanTimer(later))
      BY <1>2, <2>3 DEF Unexpired, ScanTimer
    <3>2. Rested(r, group, d)
      BY <1>1, <2>2, <2>3, <3>1 DEF Rested
    <3> QED BY <1>2, <3>2 DEF Monitored
  <2>4. CASE /\ group.group_state = "MASTER_LINK_SCAN"
             /\ cl_timer_is_expired(later.response_wait_timer)
             /\ NextScan(mid, later, g)
    <3>1. r = mid
      BY <1>4, <2>4 DEF ConstantSeen, Stopped
    <3>2. cl_timer_is_expired(ScanTimer(later))
      BY <1>1, <2>4 DEF ScanTimer
    <3>3. Restarted(r, group, g, d)
      BY <1>3, <2>2, <2>4, <3>1, <3>2 DEF Restarted
    <3> QED BY <1>2, <3>3 DEF Monitored
  <2>5. CASE /\ group.group_state = "MASTER_LINK_SCAN_COMP"
             /\ cl_timer_is_expired(later.constant_linkscan_timer)
             /\ NextScan(r, later, g)
    <3>1. cl_timer_is_expired(ScanTimer(later))
      BY <1>1, <2>5 DEF ScanTimer
    <3>2. Restarted(r, group, g, d)
      BY <1>3, <2>2, <2>5, <3>1 DEF Restarted
    <3> QED BY <1>2, <3>2 DEF Monitored
  <2>6. mid = later \/ (/\ group.group_state = "MASTER_LINK_SCAN"
                        /\ cl_timer_is_expired(later.response_wait_timer)
                        /\ NextScan(mid, later, g))
    BY <1>1, <2>1 DEF ResponseSeen, Stopped
  <2>7. mid = later =>
           \/ r = later
           \/ /\ group.group_state = "MASTER_LINK_SCAN_COMP"
              /\ cl_timer_is_expired(later.constant_linkscan_timer)
              /\ NextScan(r, later, g)
    BY <1>1, <2>1 DEF ConstantSeen, Stopped
  <2> QED BY <2>3, <2>4, <2>5, <2>6, <2>7
<1> QED BY <1>5, <1>6, <1>7 DEF Between

LEMMA NoInputIsDropped ==
    ASSUME NEW c
    PROVE  clm_iefb_handle_input_frame(c, NoInput) = c
<1>1. NoInput.kind = "NONE"
  BY DEF NoInput
<1> QED BY <1>1 DEF clm_iefb_handle_input_frame

LEMMA MonitorStep ==
    ASSUME NEW c, MasterOK(c), NEW d \in Nat
    PROVE  LET r == clm_iefb_monitor_all_group_timers(
                        MonitorArbitrationTimer(
                            AdvanceMaster(NewMasterCall(c), d)))
           IN  /\ MasterOK(r)
               /\ \A g \in group_nos :
                     Monitored(r.groups[g], c.groups[g], g, d)
               /\ \/ /\ r.master_state = c.master_state
                     /\ r.arbitration_timer =
                            TimerAdvance(c.arbitration_timer, d)
                  \/ /\ c.master_state = "ARBITRATION"
                     /\ cl_timer_is_expired(
                            TimerAdvance(c.arbitration_timer, d))
                     /\ r.master_state = "RUNNING"
<1> DEFINE later == AdvanceMaster(NewMasterCall(c), d)
           m == MonitorArbitrationTimer(later)
           r == clm_iefb_monitor_all_group_timers(m)
<1>1. StackOK(c)
  BY DEF MasterOK
<1>2. LaterStack(later, c, d)
  BY <1>1, CallFields
<1> HIDE DEF later
<1>3. StackOK(later) /\ \A g \in group_nos : later.groups[g].sent = {}
  BY <1>1, <1>2, LaterStackOK
<1>4. CASE cl_timer_is_expired(later.arbitration_timer)
  <2>1. /\ MasterType(m)
        /\ m.master_state = "RUNNING"
        /\ m.arbitration_timer = cl_timer_stop
        /\ \A g \in group_nos :
              /\ later.groups[g].group_state = "MASTER_ARBITRATION"
              /\ NextScan(m.groups[g], later.groups[g], g)
    BY <1>3, <1>4, ArbitrationOver
  <2> HIDE DEF m
  <2>2. \A g \in group_nos :
           /\ GroupOK(m.groups[g], g)
           /\ Unexpired(m.groups[g])
           /\ m.groups[g].group_state = "MASTER_LINK_SCAN"
    BY <2>1, StartedUnexpired DEF NextScan, Started
  <2>3. r = m
    BY <2>1, <2>2, QuietMonitors
  <2>4. MasterOK(m)
    BY <2>1, <2>2, StopTimer DEF MasterOK, StackOK, PhaseOf
  <2>5. ASSUME NEW g \in group_nos
        PROVE  Monitored(m.groups[g], c.groups[g], g, d)
    <3>1. Later(later.groups[g], c.groups[g], d)
      BY <1>2 DEF LaterStack
    <3>2. /\ c.groups[g].group_state = "MASTER_ARBITRATION"
          /\ NextScan(m.groups[g], c.groups[g], g)
      BY <2>1, <3>1 DEF Later, NextScan
    <3> QED BY <2>2, <3>2 DEF Monitored, Restarted, Between
  <2>6. c.master_state = "ARBITRATION"
    BY <1>2, <1>3, <1>4 DEF LaterStack, StackOK, cl_timer_is_expired, Running
  <2> HIDE DEF r
  <2> QED BY <1>2, <1>4, <2>1, <2>3, <2>4, <2>5, <2>6
          DEF LaterStack, r, m, later
<1>5. CASE ~cl_timer_is_expired(later.arbitration_timer)
  <2>1. m = later
    BY <1>5 DEF MonitorArbitrationTimer
  <2> DEFINE seen == MonitorResponseTimers(later)
  <2>2. r = MonitorConstantTimers(seen)
    BY <2>1 DEF clm_iefb_monitor_all_group_timers
  <2>3. /\ SameShared(seen, later)
        /\ \A g \in group_nos :
              ResponseSeen(seen.groups[g], later.groups[g], g)
    BY <1>3, ResponseMonitor
  <2> HIDE DEF seen
  <2>4. MasterType(seen)
    BY <1>3, <2>3, SameSharedType DEF StackOK
  <2>5. \A g \in group_nos :
           /\ GroupOK(seen.groups[g], g)
           /\ ~cl_timer_is_expired(seen.groups[g].response_wait_timer)
           /\ seen.groups[g].group_state # "MASTER_LINK_SCAN" =>
                 seen.groups[g].sent = {}
    BY <1>3, <2>3 DEF ResponseSeen, NextScan, Started, Stopped
  <2>6. /\ SameShared(r, seen)
        /\ \A g \in group_nos :
              ConstantSeen(r.groups[g], seen.groups[g], g)
    BY <2>2, <2>4, <2>5, ConstantMonitor
  <2> HIDE DEF r
  <2>7. /\ r.master_state = c.master_state
        /\ r.arbitration_timer = later.arbitration_timer
        /\ later.arbitration_timer = TimerAdvance(c.arbitration_timer, d)
    BY <1>2, <2>3, <2>6 DEF SameShared, LaterStack
  <2>8. MasterType(r)
    BY <2>4, <2>6, SameSharedType
  <2>9. ASSUME NEW g \in group_nos
        PROVE  Monitored(r.groups[g], c.groups[g], g, d)
    <3>1. /\ GroupOK(c.groups[g], g)
          /\ Unexpired(c.groups[g])
          /\ Later(later.groups[g], c.groups[g], d)
          /\ ResponseSeen(seen.groups[g], later.groups[g], g)
          /\ ConstantSeen(r.groups[g], seen.groups[g], g)
      BY <1>1, <1>2, <2>3, <2>6 DEF MasterOK, StackOK, LaterStack
    <3> QED BY <3>1, MonitoredGroup
  <2>10. ASSUME NEW g \in group_nos
         PROVE  /\ GroupOK(r.groups[g], g)
                /\ PhaseOf(r.groups[g].group_state) = r.master_state
                /\ Unexpired(r.groups[g])
                /\ r.groups[g].sent # {} => r.master_state = "RUNNING"
    <3>1. Monitored(r.groups[g], c.groups[g], g, d)
      BY <2>9
    <3>2. PhaseOf(c.groups[g].group_state) = c.master_state
      BY <1>1 DEF StackOK
    <3>3. CASE Rested(r.groups[g], c.groups[g], d)
      BY <2>7, <3>1, <3>2, <3>3 DEF Rested, Monitored
    <3>4. CASE Restarted(r.groups[g], c.groups[g], g, d)
      <4>1. r.groups[g].group_state = "MASTER_LINK_SCAN"
        BY <3>4 DEF Restarted, NextScan, Started
      <4>2. r.groups[g].sent # {}
        BY <3>4 DEF Restarted, NextScan, Started
      <4>3. c.groups[g].group_state # "MASTER_ARBITRATION"
        <5>1. /\ GroupOK(seen.groups[g], g)
              /\ ResponseSeen(seen.groups[g], later.groups[g], g)
              /\ ConstantSeen(r.groups[g], seen.groups[g], g)
              /\ later.groups[g].group_state = c.groups[g].group_state
          BY <1>2, <2>3, <2>5, <2>6 DEF LaterStack, Later
        <5> QED BY <4>1, <5>1 DEF ResponseSeen, ConstantSeen, Stopped
      <4>4. c.master_state = "RUNNING"
        BY <3>2, <3>4, <4>3 DEF Restarted, PhaseOf
      <4> QED BY <2>7, <3>1, <4>1, <4>4 DEF PhaseOf, Monitored
    <3> QED BY <3>1, <3>3, <3>4 DEF Monitored
  <2>11. r.master_state = "ARBITRATION" <=> Running(r.arbitration_timer)
    BY <1>2, <1>3, <2>7 DEF StackOK, LaterStack
  <2>12. MasterOK(r)
    BY <1>5, <2>7, <2>8, <2>10, <2>11 DEF MasterOK, StackOK
  <2> QED BY <2>7, <2>9, <2>12 DEF r, m, later
<1> QED BY <1>4, <1>5

-----------------------------------------------------------------------------
(* Frames.                                                                 *)

(* A turn of the receive loop finds no expired timer.                      *)
LEMMA OpenCall ==
    ASSUME NEW c, MasterOK(c)
    PROVE  LET m == clm_iefb_monitor_all_group_timers(
                        MonitorArbitrationTimer(
                            AdvanceMaster(NewMasterCall(c), 0)))
           IN  /\ MasterOK(m)
               /\ m.master_state = c.master_state
               /\ m.arbitration_timer = c.arbitration_timer
               /\ \A g \in group_nos : Rested(m.groups[g], c.groups[g], 0)
<1> DEFINE m == clm_iefb_monitor_all_group_timers(
                    MonitorArbitrationTimer(
                        AdvanceMaster(NewMasterCall(c), 0)))
           at == c.arbitration_timer
           P == {0, ArbitrationTime}
<1>1. at \in Timer(P) /\ ~cl_timer_is_expired(at)
  BY DEF MasterOK, StackOK, MasterType
<1>2. P \in SUBSET Nat
  BY ArbitrationPeriods
<1> HIDE DEF P
<1>3. TimerAdvance(at, 0) = at
  BY <1>1, <1>2, AdvanceTimer
<1>4. /\ MasterOK(m)
      /\ \A g \in group_nos : Monitored(m.groups[g], c.groups[g], g, 0)
      /\ \/ /\ m.master_state = c.master_state
            /\ m.arbitration_timer = TimerAdvance(at, 0)
         \/ /\ c.master_state = "ARBITRATION"
            /\ cl_timer_is_expired(TimerAdvance(at, 0))
            /\ m.master_state = "RUNNING"
  BY MonitorStep
<1> HIDE DEF m
<1>5. m.master_state = c.master_state /\ m.arbitration_timer = at
  BY <1>1, <1>3, <1>4
<1>6. ASSUME NEW g \in group_nos
      PROVE  Rested(m.groups[g], c.groups[g], 0)
  <2>1. SUFFICES ASSUME Restarted(m.groups[g], c.groups[g], g, 0)
                 PROVE  FALSE
    BY <1>4 DEF Monitored
  <2>2. GroupOK(c.groups[g], g) /\ Unexpired(c.groups[g])
    BY DEF MasterOK, StackOK
  <2>3. CASE Between(c.groups[g])
    <3>1. PhaseOf(c.groups[g].group_state) # "RUNNING"
      BY <2>3 DEF Between, PhaseOf
    <3>2. PhaseOf(m.groups[g].group_state) = "RUNNING"
      BY <2>1 DEF Restarted, NextScan, Started, PhaseOf
    <3> QED BY <1>4, <1>5, <3>1, <3>2 DEF MasterOK, StackOK
  <2>4. CASE ~Between(c.groups[g])
    <3> DEFINE t == ScanTimer(c.groups[g])
    <3>1. t \in Timer({0, hier[g].timeout_value})
      BY <2>2, <2>4 DEF ScanTimer, GroupOK, GroupType
    <3>2. Running(t) /\ ~cl_timer_is_expired(t)
      BY <2>2, <2>4 DEF ScanTimer, GroupOK, GroupType, TimersOK, Unexpired,
                        Between, clm_group_states
    <3>3. t.elapsed + 0 >= hier[g].timeout_value
      BY <2>1, <2>4 DEF Restarted
    <3>4. hier[g].timeout_value \in Nat
      BY Periods
    <3> HIDE DEF t
    <3>5. t.elapsed < hier[g].timeout_value /\ t.elapsed \in Nat
      BY <3>1, <3>2, <3>4, RunningPeriod
    <3> QED BY <3>3, <3>4, <3>5
  <2> QED BY <2>3, <2>4
<1> QED BY <1>4, <1>5, <1>6 DEF m

(* All groups hear of another master, or none of them minds.               *)
StoodBy(r, c) ==
    /\ MasterOK(r)
    /\ r.master_state = "STANDBY"
    /\ \A g \in group_nos :
          /\ r.groups[g].group_state = "MASTER_LISTEN"
          /\ r.groups[g].sent = {}
          /\ \A i \in device_nos(g) :
                Listening(r.groups[g].slave_devices[i],
                          c.groups[g].slave_devices[i], g, i)

LEMMA AllToStandby ==
    ASSUME NEW c, MasterOK(c), \A g \in group_nos : c.groups[g].sent = {},
           NEW e \in {"REQ_FROM_OTHER", "MASTERDUPL_ALARM"}
    PROVE  LET r == clm_iefb_group_fsm_event_all(c, e)
           IN  IF c.master_state =
                    (IF e = "REQ_FROM_OTHER" THEN "ARBITRATION" ELSE "RUNNING")
               THEN StoodBy(r, c) ELSE r = c
<1> DEFINE r == clm_iefb_group_fsm_event(c, group_nos, e)
           moving == Moving(c, group_nos, e)
           phase == IF e = "REQ_FROM_OTHER" THEN "ARBITRATION" ELSE "RUNNING"
<1>1. clm_iefb_group_fsm_event_all(c, e) = r
  BY DEF clm_iefb_group_fsm_event_all
<1>2. e \in group_events
  BY DEF group_events
<1>3. HasFields(c, MasterFields) /\ MasterType(c)
  BY DEF MasterOK, StackOK, MasterType
<1>4. \A g \in group_nos :
         c.groups[g].group_state \in FromOf(e) <=> c.master_state = phase
  <2> SUFFICES ASSUME NEW g \in group_nos
               PROVE  c.groups[g].group_state \in FromOf(e)
                        <=> c.master_state = phase
    OBVIOUS
  <2>1. /\ c.groups[g].group_state \in clm_group_states \ {"MASTER_DOWN"}
        /\ PhaseOf(c.groups[g].group_state) = c.master_state
    BY DEF MasterOK, StackOK, GroupOK, GroupType
  <2> QED BY <2>1 DEF FromOf, PhaseOf, clm_group_states
<1>5. CASE c.master_state # phase
  <2>1. moving = {}
    BY <1>4, <1>5 DEF Moving
  <2>2. r = c
    BY <1>2, <2>1, NobodyMoves
  <2> QED BY <1>1, <1>5, <2>2
<1>6. CASE c.master_state = phase
  <2>1. moving = group_nos
    BY <1>4, <1>6 DEF Moving
  <2>2. group_nos # {}
    <3>1. Len(hier) \in MinGroupNo..MaxGroupNo
      BY ConfigAssumption DEF clm_validate_config
    <3>2. \A n \in MinGroupNo..MaxGroupNo : 1 \in 1..n
      BY DEF MinGroupNo, MaxGroupNo
    <3> QED BY <3>1, <3>2 DEF group_nos
  <2>3. EntryOf(e) = "MASTER_LISTEN"
    BY DEF EntryOf
  <2>4. /\ HasFields(r, MasterFields)
        /\ r.master_state = SharedState(c, EntryOf(e))
        /\ r.arbitration_timer = SharedTimer(c, EntryOf(e))
        /\ r.parameter_no = c.parameter_no
        /\ r.master_local_unit_info = c.master_local_unit_info
        /\ r.groups = AfterEvent(c, group_nos, e)
    BY <1>2, <1>3, <2>1, <2>2, SomeMove
  <2>5. \A g \in group_nos : r.groups[g] = GroupAfter(c.groups[g], g, e, c)
    BY <2>1, <2>4 DEF AfterEvent
  <2>6. r.groups = [g \in group_nos |-> r.groups[g]]
    BY <2>4 DEF AfterEvent
  <2> HIDE DEF r, moving
  <2>7. r.master_state = "STANDBY" /\ r.arbitration_timer = cl_timer_stop
    BY <2>3, <2>4 DEF SharedState, SharedTimer
  <2>8. MasterType(r)
    BY <1>3, <2>4, <2>6, <2>7, StopTimer DEF MasterType
  <2>9. ASSUME NEW g \in group_nos
        PROVE  /\ GroupOK(r.groups[g], g)
               /\ r.groups[g].group_state = "MASTER_LISTEN"
               /\ SameScan(r.groups[g], c.groups[g])
               /\ \A i \in device_nos(g) :
                     Listening(r.groups[g].slave_devices[i],
                               c.groups[g].slave_devices[i], g, i)
    <3>1. GroupBase(c.groups[g], g)
      BY DEF MasterOK, StackOK, GroupOK, TimersOK, GroupBase
    <3>2. c.groups[g].group_state \in FromOf(e)
      BY <1>4, <1>6
    <3> QED BY <2>5, <3>1, <3>2, GroupToStandby
  <2>10. \A g \in group_nos : Unexpired(r.groups[g]) /\ r.groups[g].sent = {}
    BY <2>9 DEF MasterOK, Unexpired, SameScan
  <2>11. MasterOK(r)
    BY <2>7, <2>8, <2>9, <2>10, StopTimer DEF MasterOK, StackOK, PhaseOf
  <2> QED BY <1>1, <1>6, <2>7, <2>9, <2>10, <2>11 DEF StoodBy
<1> QED BY <1>5, <1>6

(* A stack in which nothing but one device has changed.                    *)
OneChanged(r, c, g, i) ==
    /\ SameShared(r, c)
    /\ \A h \in group_nos \ {g} : r.groups[h] = c.groups[h]
    /\ HasFields(r.groups[g], GroupFields)
    /\ r.groups[g].group_state = c.groups[g].group_state
    /\ SameScan(r.groups[g], c.groups[g])
    /\ r.groups[g].slave_devices =
            [j \in device_nos(g) |->
                IF j = i THEN r.groups[g].slave_devices[i]
                ELSE c.groups[g].slave_devices[j]]

(* The states a device may be in, given the state of its group.            *)
Fits(dev, group, g, i) ==
    /\ DeviceOK(dev, g, i)
    /\ Between(group) => dev.device_state = "LISTEN"
    /\ group.group_state = "MASTER_LINK_SCAN_COMP" =>
            dev.device_state \in {"LISTEN", "CYCLIC_SENT"}
    /\ group.frame_sequence_no = 0 => dev.device_state # "CYCLIC_SENDING"

LEMMA OneChangedOK ==
    ASSUME NEW c, MasterOK(c), NEW g \in group_nos, NEW i \in device_nos(g),
           NEW r, OneChanged(r, c, g, i),
           Fits(r.groups[g].slave_devices[i], c.groups[g], g, i)
    PROVE  MasterOK(r)
<1>1. MasterType(r)
  BY SameSharedType DEF OneChanged, MasterOK, StackOK
<1>2. GroupOK(c.groups[g], g)
  BY DEF MasterOK, StackOK
<1>3. GroupType(r.groups[g], g)
  BY <1>2 DEF OneChanged, SameScan, GroupOK, GroupType
<1>4. TimersOK(r.groups[g], g)
  BY <1>2 DEF OneChanged, SameScan, GroupOK, TimersOK
<1>5. DevicesOK(r.groups[g], g)
  BY <1>2 DEF OneChanged, SameScan, GroupOK, DevicesOK, Fits, Between
<1>6. GroupOK(r.groups[g], g)
  BY <1>3, <1>4, <1>5 DEF GroupOK
<1>7. Unexpired(r.groups[g])
  BY DEF MasterOK, OneChanged, SameScan, Unexpired
<1> QED BY <1>1, <1>6, <1>7 DEF MasterOK, StackOK, OneChanged, SameShared, SameScan

LEMMA ChangeDevice ==
    ASSUME NEW c, MasterOK(c), NEW g \in group_nos, NEW i \in device_nos(g),
           NEW dev
    PROVE  LET r == [c EXCEPT !.groups[g].slave_devices[i] = dev]
           IN  OneChanged(r, c, g, i) /\ r.groups[g].slave_devices[i] = dev
<1> DEFINE r == [c EXCEPT !.groups[g].slave_devices[i] = dev]
           group == c.groups[g]
           devs == group.slave_devices
           devs2 == [devs EXCEPT ![i] = dev]
           group2 == [group EXCEPT !.slave_devices = devs2]
           groups2 == [c.groups EXCEPT ![g] = group2]
<1>1. /\ HasFields(c, MasterFields)
      /\ c.groups = [h \in group_nos |-> c.groups[h]]
      /\ HasFields(group, GroupFields)
      /\ devs = [j \in device_nos(g) |-> devs[j]]
  BY DEF MasterOK, StackOK, MasterType, GroupOK, GroupType, DevicesOK
<1>2. r = [c EXCEPT !.groups = groups2]
  OBVIOUS
<1>3. devs2 = [j \in device_nos(g) |-> IF j = i THEN dev ELSE devs[j]]
  BY <1>1
<1>4. devs2[i] = dev
  BY <1>3
<1> HIDE DEF devs2, r
<1>5. /\ HasFields(group2, GroupFields)
      /\ group2.group_state = group.group_state
      /\ SameScan(group2, group)
      /\ group2.slave_devices = devs2
  BY <1>1 DEF HasFields, GroupFields, SameScan
<1> HIDE DEF group2
<1>6. /\ groups2[g] = group2
      /\ \A h \in group_nos \ {g} : groups2[h] = c.groups[h]
      /\ groups2 = [h \in group_nos |-> groups2[h]]
  BY <1>1
<1> HIDE DEF groups2
<1>7. /\ HasFields(r, MasterFields)
      /\ r.master_state = c.master_state
      /\ r.arbitration_timer = c.arbitration_timer
      /\ r.parameter_no = c.parameter_no
      /\ r.master_local_unit_info = c.master_local_unit_info
      /\ r.groups = groups2
  BY <1>1, <1>2 DEF HasFields, MasterFields
<1>8. SameShared(r, c)
  BY <1>6, <1>7 DEF SameShared
<1>9. r.groups[g].slave_devices = devs2
  BY <1>5, <1>6, <1>7
<1> QED BY <1>3, <1>4, <1>5, <1>6, <1>7, <1>8, <1>9 DEF OneChanged, r

(* The stack with dev as device i of group g.                              *)
WithDevice(c, g, i, dev) == [c EXCEPT !.groups[g].slave_devices[i] = dev]

LEMMA ChangeDeviceTo ==
    ASSUME NEW c, MasterOK(c), NEW g \in group_nos, NEW i \in device_nos(g),
           NEW dev, NEW r, r = WithDevice(c, g, i, dev)
    PROVE  OneChanged(r, c, g, i) /\ r.groups[g].slave_devices[i] = dev
  BY ChangeDevice DEF WithDevice

LEMMA OneChangedTwice ==
    ASSUME NEW c, NEW m, NEW r, NEW g \in group_nos, NEW i \in device_nos(g),
           OneChanged(m, c, g, i), OneChanged(r, m, g, i)
    PROVE  OneChanged(r, c, g, i)
<1>1. SameShared(r, c)
  BY DEF OneChanged, SameShared
<1>2. SameScan(r.groups[g], c.groups[g])
  BY DEF OneChanged, SameScan
<1>3. \A j \in device_nos(g) \ {i} :
         m.groups[g].slave_devices[j] = c.groups[g].slave_devices[j]
  BY DEF OneChanged
<1>4. r.groups[g].slave_devices =
            [j \in device_nos(g) |->
                IF j = i THEN r.groups[g].slave_devices[i]
                ELSE c.groups[g].slave_devices[j]]
  BY <1>3 DEF OneChanged
<1> QED BY <1>1, <1>2, <1>4 DEF OneChanged

(* Reporting an error changes no group.                                    *)
LEMMA ErrorReported ==
    ASSUME NEW c, MasterOK(c), NEW r, NEW error,
           r = c \/ r = clm_iefb_trigger_error_callback(c, error)
    PROVE  SameShared(r, c) /\ r.groups = c.groups /\ MasterOK(r)
<1>1. /\ HasFields(c, MasterFields)
      /\ c.groups = [h \in group_nos |-> c.groups[h]]
  BY DEF MasterOK, StackOK, MasterType
<1>2. SameShared(r, c) /\ r.groups = c.groups
  BY <1>1 DEF clm_iefb_trigger_error_callback, SameShared, HasFields,
              MasterFields
<1>3. MasterType(r)
  BY <1>2, SameSharedType DEF MasterOK, StackOK
<1> QED BY <1>2, <1>3 DEF MasterOK, StackOK, SameShared

LEMMA Reported ==
    ASSUME NEW c, MasterOK(c), NEW resp
    PROVE  LET r == Report(c, resp)
           IN  SameShared(r, c) /\ r.groups = c.groups /\ MasterOK(r)
<1>1. \E error : Report(c, resp) \in
                    {c, clm_iefb_trigger_error_callback(c, error)}
  BY DEF Report
<1> QED BY <1>1, ErrorReported

LEMMA UnchangedDevice ==
    ASSUME NEW c, MasterOK(c), NEW r, SameShared(r, c), r.groups = c.groups,
           NEW g \in group_nos, NEW i \in device_nos(g)
    PROVE  OneChanged(r, c, g, i)
<1>1. /\ HasFields(c.groups[g], GroupFields)
      /\ c.groups[g].slave_devices =
            [j \in device_nos(g) |-> c.groups[g].slave_devices[j]]
  BY DEF MasterOK, StackOK, GroupOK, GroupType, DevicesOK
<1> QED BY <1>1 DEF OneChanged, SameScan

(***************************************************************************)
(* A group after a step of the stack that took d, compared to before it.   *)
(* The devices in oks have answered the present request in this step.      *)
(***************************************************************************)
InputOK(r, dev, group, g, i) ==
    r.rx \notin {dev.rx, NoData} =>
        /\ dev.transmission_bit
        /\ r.rx = RxPayload(Setting(g, i).slave_id, group.frame_sequence_no)

QuietDevice(r, dev, i, oks) ==
    /\ r.transmission_bit = dev.transmission_bit
    /\ r.device_state = "CYCLIC_SENDING" =>
            /\ dev.device_state = "CYCLIC_SENDING"
            /\ r.timeout_count = dev.timeout_count
    /\ r.device_state = "CYCLIC_SENT" /\ r.transmission_bit =>
            dev.device_state = "CYCLIC_SENT" \/ i \in oks

AskedDevice(r, dev, g, i, oks) ==
    /\ r.device_state \in {"WAIT_TD", "CYCLIC_SENDING", "CYCLIC_SUSPEND"}
    /\ r.enabled => Current(r, g, i)
    /\ r.transmission_bit /\ dev.transmission_bit =>
          \/ dev.device_state = "CYCLIC_SENT"
          \/ i \in oks
          \/ /\ dev.device_state = "CYCLIC_SENDING"
             /\ r.timeout_count = dev.timeout_count + 1

QuietStep(r, group, g, d, oks) ==
    /\ r.sent = {}
    /\ r.group_state = "MASTER_ARBITRATION" =>
            group.group_state = "MASTER_ARBITRATION"
    /\ ~Between(r) =>
            /\ ~Between(group)
            /\ ScanTimer(r).elapsed = ScanTimer(group).elapsed + d
    /\ \A i \in device_nos(g) :
          QuietDevice(r.slave_devices[i], group.slave_devices[i], i, oks)

AskedStep(r, group, g, d, oks) ==
    /\ Started(r, g)
    /\ group.group_state # "MASTER_LISTEN"
    /\ hier[g].use_constant_link_scan_time /\ ~Between(group) =>
            ScanTimer(group).elapsed + d >= hier[g].timeout_value
    /\ \A i \in device_nos(g) :
          AskedDevice(r.slave_devices[i], group.slave_devices[i], g, i, oks)

GroupStep(r, group, g, d, oks) ==
    /\ \A i \in device_nos(g) :
          InputOK(r.slave_devices[i], group.slave_devices[i], group, g, i)
    /\ QuietStep(r, group, g, d, oks) \/ AskedStep(r, group, g, d, oks)

LEMMA MonitoredIsStep ==
    ASSUME NEW g \in group_nos, NEW group, NEW d \in Nat, NEW oks,
           NEW r, Monitored(r, group, g, d)
    PROVE  GroupStep(r, group, g, d, oks)
<1>1. CASE Rested(r, group, d)
  <2>1. \A i \in device_nos(g) :
           InputOK(r.slave_devices[i], group.slave_devices[i], group, g, i)
    BY <1>1 DEF Rested, InputOK
  <2>2. QuietStep(r, group, g, d, oks)
    BY <1>1 DEF Rested, QuietStep, QuietDevice, Between
  <2> QED BY <2>1, <2>2 DEF GroupStep
<1>2. CASE Restarted(r, group, g, d)
  <2>1. \A i \in device_nos(g) :
           InputOK(r.slave_devices[i], group.slave_devices[i], group, g, i)
    BY <1>2 DEF Restarted, NextScan, Asked, InputOK
  <2>2. \A i \in device_nos(g) :
           AskedDevice(r.slave_devices[i], group.slave_devices[i], g, i, oks)
    BY <1>2 DEF Restarted, NextScan, Asked, AskedDevice
  <2>3. AskedStep(r, group, g, d, oks)
    BY <1>2, <2>2 DEF Restarted, NextScan, AskedStep
  <2> QED BY <2>1, <2>3 DEF GroupStep
<1> QED BY <1>1, <1>2 DEF Monitored

(* Nothing happens to a group in a step that takes no time.                *)
LEMMA IdleGroup ==
    ASSUME NEW g \in group_nos, NEW group, GroupOK(group, g),
           group.sent = {}, NEW oks
    PROVE  GroupStep(group, group, g, 0, oks)
<1>1. \A i \in device_nos(g) :
         InputOK(group.slave_devices[i], group.slave_devices[i], group, g, i)
  BY DEF InputOK
<1>2. ~Between(group) => ScanTimer(group).elapsed = ScanTimer(group).elapsed + 0
  <2>1. ScanTimer(group) \in Timer({0, hier[g].timeout_value})
    BY DEF ScanTimer, GroupOK, GroupType
  <2>2. ScanTimer(group).elapsed \in Nat
    BY <2>1 DEF Timer
  <2> QED BY <2>2
<1>3. QuietStep(group, group, g, 0, oks)
  BY <1>2 DEF QuietStep, QuietDevice
<1> QED BY <1>1, <1>3 DEF GroupStep

(* The start of the call has changed nothing that a step is compared to.   *)
LEMMA StepSinceCall ==
    ASSUME NEW g \in group_nos, NEW group, GroupOK(group, g), NEW m,
           Rested(m, group, 0), NEW oks, NEW r, GroupStep(r, m, g, 0, oks)
    PROVE  GroupStep(r, group, g, 0, oks)
<1>1. /\ m.group_state = group.group_state
      /\ m.frame_sequence_no = group.frame_sequence_no
      /\ m.slave_devices = group.slave_devices
      /\ Between(m) <=> Between(group)
  BY DEF Rested, Between
<1>2. ~Between(group) => ScanTimer(m).elapsed = ScanTimer(group).elapsed
  <2>1. ScanTimer(group) \in Timer({0, hier[g].timeout_value})
    BY DEF ScanTimer, GroupOK, GroupType
  <2>2. ScanTimer(group).elapsed \in Nat
    BY <2>1 DEF Timer
  <2> QED BY <2>2 DEF Rested
<1>3. \A i \in device_nos(g) :
         InputOK(r.slave_devices[i], group.slave_devices[i], group, g, i)
  BY <1>1 DEF GroupStep, InputOK
<1>4. QuietStep(r, m, g, 0, oks) => QuietStep(r, group, g, 0, oks)
  BY <1>1, <1>2 DEF QuietStep
<1>5. AskedStep(r, m, g, 0, oks) => AskedStep(r, group, g, 0, oks)
  BY <1>1, <1>2 DEF AskedStep
<1> QED BY <1>3, <1>4, <1>5 DEF GroupStep

(***************************************************************************)
(* The scan may end only when no device is waited for: the first scan has  *)
(* no connected devices, and every device that is waited for later has its *)
(* transmission bit on.                                                    *)
(***************************************************************************)
LEMMA CompleteMeansNoneSending ==
    ASSUME NEW g \in group_nos, NEW group, GroupOK(group, g),
           clm_iefb_group_have_received_from_all_devices(group)
    PROVE  \A i \in device_nos(g) :
              group.slave_devices[i].device_state # "CYCLIC_SENDING"
<1>1. DOMAIN group.slave_devices = device_nos(g)
  BY DEF GroupOK, DevicesOK
<1>2. CASE group.frame_sequence_no = 0
  BY <1>2 DEF GroupOK, DevicesOK
<1>3. CASE group.frame_sequence_no # 0
  <2>1. \A i \in device_nos(g) :
           group.slave_devices[i].transmission_bit =>
              group.slave_devices[i].device_state # "CYCLIC_SENDING"
    BY <1>1, <1>3 DEF clm_iefb_group_have_received_from_all_devices
  <2>2. \A i \in device_nos(g) :
           group.slave_devices[i].device_state = "CYCLIC_SENDING" =>
              group.slave_devices[i].transmission_bit
    BY DEF GroupOK, DevicesOK, DeviceOK
  <2> QED BY <2>1, <2>2
<1> QED BY <1>2, <1>3

(* What the end of its scan does to a group.                               *)
ScanOver(r, group, g) ==
    \/ r = group
    \/ /\ group.group_state = "MASTER_LINK_SCAN"
       /\ \A i \in device_nos(g) :
             group.slave_devices[i].device_state # "CYCLIC_SENDING"
       /\ \/ /\ ~hier[g].use_constant_link_scan_time
             /\ NextScan(r, group, g)
          \/ /\ hier[g].use_constant_link_scan_time
             /\ r.group_state = "MASTER_LINK_SCAN_COMP"
             /\ r.sent = {}
             /\ r.constant_linkscan_timer = group.constant_linkscan_timer
             /\ \A i \in device_nos(g) :
                   Settled(r.slave_devices[i], group.slave_devices[i], g, i)

LEMMA EndScan ==
    ASSUME NEW c, MasterOK(c), \A h \in group_nos : c.groups[h].sent = {},
           NEW g \in group_nos
    PROVE  LET r == EndScanIfComplete(c, g)
           IN  /\ MasterOK(r)
               /\ SameShared(r, c)
               /\ \A h \in group_nos \ {g} : r.groups[h] = c.groups[h]
               /\ ScanOver(r.groups[g], c.groups[g], g)
<1> DEFINE r == EndScanIfComplete(c, g)
           moving == Moving(c, {g}, "LINKSCAN_COMPLETE")
<1>1. /\ MasterType(c)
      /\ HasFields(c, MasterFields)
      /\ GroupOK(c.groups[g], g)
      /\ Unexpired(c.groups[g])
      /\ SameShared(c, c)
  BY DEF MasterOK, StackOK, MasterType, SameShared
<1>2. CASE r = c
  BY <1>1, <1>2 DEF ScanOver
<1>3. CASE r # c
  <2>1. /\ clm_iefb_group_have_received_from_all_devices(c.groups[g])
        /\ r = clm_iefb_group_fsm_event(c, {g}, "LINKSCAN_COMPLETE")
    BY <1>3 DEF EndScanIfComplete
  <2> HIDE DEF r
  <2>2. moving # {}
    BY <1>3, <2>1, NobodyMoves DEF group_events
  <2>3. moving = {g} /\ c.groups[g].group_state = "MASTER_LINK_SCAN"
    BY <2>2 DEF Moving, FromOf
  <2>4. /\ HasFields(r, MasterFields)
        /\ r.master_state = SharedState(c, EntryOf("LINKSCAN_COMPLETE"))
        /\ r.arbitration_timer = SharedTimer(c, EntryOf("LINKSCAN_COMPLETE"))
        /\ r.parameter_no = c.parameter_no
        /\ r.master_local_unit_info = c.master_local_unit_info
        /\ r.groups = AfterEvent(c, {g}, "LINKSCAN_COMPLETE")
    BY <1>1, <2>1, <2>2, SomeMove DEF group_events
  <2>5. /\ r.groups[g] =
             GroupAfter(c.groups[g], g, "LINKSCAN_COMPLETE", c)
        /\ \A h \in group_nos \ {g} : r.groups[h] = c.groups[h]
        /\ r.groups = [h \in group_nos |-> r.groups[h]]
    BY <2>3, <2>4 DEF AfterEvent
  <2>6. c.master_state = "RUNNING"
    BY <2>3 DEF MasterOK, StackOK, PhaseOf
  <2>7. /\ r.master_state = "RUNNING"
        /\ r.arbitration_timer = c.arbitration_timer
    BY <2>4 DEF SharedState, SharedTimer, EntryOf
  <2>8. SameShared(r, c)
    BY <2>4, <2>5, <2>6, <2>7 DEF SameShared
  <2>9. Scanning(c.groups[g], g)
    BY <1>1, <2>3 DEF Scanning, GroupOK, GroupBase, TimersOK
  <2>10. \A i \in device_nos(g) :
            c.groups[g].slave_devices[i].device_state # "CYCLIC_SENDING"
    BY <1>1, <2>1, CompleteMeansNoneSending
  <2>11. /\ GroupOK(r.groups[g], g)
         /\ Unexpired(r.groups[g])
         /\ ScanOver(r.groups[g], c.groups[g], g)
         /\ PhaseOf(r.groups[g].group_state) = "RUNNING"
    <3>1. CASE ~hier[g].use_constant_link_scan_time
      <4>1. NextScan(r.groups[g], c.groups[g], g)
        BY <2>5, <2>9, <2>10, <3>1, ScanAfterComplete
      <4> QED BY <2>3, <2>10, <3>1, <4>1, StartedUnexpired
              DEF ScanOver, NextScan, Started, PhaseOf
    <3>2. CASE hier[g].use_constant_link_scan_time
      <4>1. Running(c.groups[g].constant_linkscan_timer)
        BY <1>1, <2>3, <3>2 DEF GroupOK, TimersOK
      <4>2. /\ GroupOK(r.groups[g], g)
            /\ r.groups[g].group_state = "MASTER_LINK_SCAN_COMP"
            /\ r.groups[g].sent = {}
            /\ r.groups[g].response_wait_timer = cl_timer_stop
            /\ r.groups[g].constant_linkscan_timer =
                    c.groups[g].constant_linkscan_timer
            /\ \A i \in device_nos(g) :
                  Settled(r.groups[g].slave_devices[i],
                          c.groups[g].slave_devices[i], g, i)
        BY <2>5, <2>9, <2>10, <3>2, <4>1, RestAfterComplete
      <4>3. Unexpired(r.groups[g])
        BY <1>1, <4>2, StopTimer DEF Unexpired
      <4> QED BY <2>3, <2>10, <3>2, <4>2, <4>3 DEF ScanOver, PhaseOf
    <3> QED BY <3>1, <3>2
  <2>12. MasterType(r)
    BY <1>1, <2>8, SameSharedType
  <2>13. MasterOK(r)
    BY <2>5, <2>6, <2>7, <2>11, <2>12 DEF MasterOK, StackOK
  <2> QED BY <2>5, <2>8, <2>11, <2>13 DEF r
<1> QED BY <1>2, <1>3

(* AnsweredBy, for any stack.                                              *)
Answers(c, frame, g) ==
    {i \in device_nos(g) :
        /\ frame # NoInput /\ frame.kind = "RESPONSE"
        /\ cl_iefb_parse_cyclic_response(frame)
        /\ frame.group_no = g
        /\ frame.remote_ip = Setting(g, i).slave_id
        /\ frame.occupied = Setting(g, i).num_occupied_stations
        /\ frame.frame_sequence_no = c.groups[g].frame_sequence_no
        /\ Device(c, g, i).enabled}

StackStep(r, c, resp) ==
    \A g \in group_nos :
        GroupStep(r.groups[g], c.groups[g], g, 0, Answers(c, resp, g))

(* What a response did to the device that sent it, seen from the device.   *)
Stored(r, dev, group, g, i, oks) ==
    /\ Fits(r, group, g, i)
    /\ InputOK(r, dev, group, g, i)
    /\ QuietDevice(r, dev, i, oks)

LEMMA IdleStep ==
    ASSUME NEW c, MasterOK(c), \A g \in group_nos : c.groups[g].sent = {},
           NEW resp, NEW r, r.groups = c.groups
    PROVE  StackStep(r, c, resp)
  BY IdleGroup DEF StackStep, MasterOK, StackOK

LEMMA ChangedStep ==
    ASSUME NEW c, MasterOK(c), \A h \in group_nos : c.groups[h].sent = {},
           NEW resp, NEW g \in group_nos, NEW i \in device_nos(g),
           NEW r, OneChanged(r, c, g, i),
           Stored(r.groups[g].slave_devices[i],
                  c.groups[g].slave_devices[i], c.groups[g], g, i,
                  Answers(c, resp, g))
    PROVE  /\ MasterOK(r)
           /\ \A h \in group_nos : r.groups[h].sent = {}
           /\ StackStep(r, c, resp)
           /\ \A j \in device_nos(g) :
                 /\ InputOK(r.groups[g].slave_devices[j],
                            c.groups[g].slave_devices[j], c.groups[g], g, j)
                 /\ QuietDevice(r.groups[g].slave_devices[j],
                                c.groups[g].slave_devices[j], j,
                                Answers(c, resp, g))
<1> DEFINE oks == Answers(c, resp, g)
<1>1. MasterOK(r)
  BY OneChangedOK DEF Stored
<1>2. \A h \in group_nos : r.groups[h].sent = {}
  BY DEF OneChanged, SameScan
<1>3. \A j \in device_nos(g) \ {i} :
         r.groups[g].slave_devices[j] = c.groups[g].slave_devices[j]
  BY DEF OneChanged
<1> HIDE DEF oks
<1>4. \A j \in device_nos(g) \ {i} :
         /\ InputOK(r.groups[g].slave_devices[j],
                    c.groups[g].slave_devices[j], c.groups[g], g, j)
         /\ QuietDevice(r.groups[g].slave_devices[j],
                        c.groups[g].slave_devices[j], j, oks)
  BY <1>3 DEF InputOK, QuietDevice
<1>5. \A j \in device_nos(g) :
         /\ InputOK(r.groups[g].slave_devices[j],
                    c.groups[g].slave_devices[j], c.groups[g], g, j)
         /\ QuietDevice(r.groups[g].slave_devices[j],
                        c.groups[g].slave_devices[j], j, oks)
  BY <1>4 DEF Stored, oks
<1>6. GroupOK(c.groups[g], g)
  BY DEF MasterOK, StackOK
<1>7. ~Between(c.groups[g]) =>
         ScanTimer(r.groups[g]).elapsed = ScanTimer(c.groups[g]).elapsed + 0
  <2>1. ScanTimer(c.groups[g]) \in Timer({0, hier[g].timeout_value})
    BY <1>6 DEF ScanTimer, GroupOK, GroupType
  <2>2. ScanTimer(c.groups[g]).elapsed \in Nat
    BY <2>1 DEF Timer
  <2>3. ScanTimer(r.groups[g]) = ScanTimer(c.groups[g])
    BY DEF OneChanged, SameScan, ScanTimer
  <2> QED BY <2>2, <2>3
<1>8. QuietStep(r.groups[g], c.groups[g], g, 0, oks)
  BY <1>2, <1>5, <1>7 DEF QuietStep, OneChanged, Between
<1>9. GroupStep(r.groups[g], c.groups[g], g, 0, oks)
  BY <1>5, <1>8 DEF GroupStep
<1>10. ASSUME NEW h \in group_nos \ {g}
       PROVE  GroupStep(r.groups[h], c.groups[h], h, 0, Answers(c, resp, h))
  <2>1. r.groups[h] = c.groups[h]
    BY DEF OneChanged
  <2>2. GroupOK(c.groups[h], h) /\ c.groups[h].sent = {}
    BY DEF MasterOK, StackOK
  <2> QED BY <2>1, <2>2, IdleGroup
<1>11. StackStep(r, c, resp)
  BY <1>9, <1>10 DEF StackStep, oks
<1> QED BY <1>1, <1>2, <1>5, <1>11 DEF oks

(* A second master is reported, after the input has been stored.           *)
LEMMA StoodByStep ==
    ASSUME NEW c, MasterOK(c), NEW resp, NEW m,
           \A g \in group_nos : \A i \in device_nos(g) :
              LET dev == c.groups[g].slave_devices[i]
                  mid == m.groups[g].slave_devices[i]
              IN  /\ InputOK(mid, dev, c.groups[g], g, i)
                  /\ mid.transmission_bit = dev.transmission_bit,
           NEW r, StoodBy(r, m)
    PROVE  StackStep(r, c, resp)
<1> SUFFICES ASSUME NEW g \in group_nos
             PROVE  GroupStep(r.groups[g], c.groups[g], g, 0,
                              Answers(c, resp, g))
  BY DEF StackStep
<1> DEFINE oks == Answers(c, resp, g)
<1> HIDE DEF oks
<1>1. ASSUME NEW i \in device_nos(g)
      PROVE  /\ InputOK(r.groups[g].slave_devices[i],
                        c.groups[g].slave_devices[i], c.groups[g], g, i)
             /\ QuietDevice(r.groups[g].slave_devices[i],
                            c.groups[g].slave_devices[i], i, oks)
  <2> DEFINE dev == c.groups[g].slave_devices[i]
             mid == m.groups[g].slave_devices[i]
             after == r.groups[g].slave_devices[i]
  <2>1. Listening(after, mid, g, i)
    BY DEF StoodBy
  <2>2. /\ InputOK(mid, dev, c.groups[g], g, i)
        /\ mid.transmission_bit = dev.transmission_bit
    OBVIOUS
  <2> HIDE DEF dev, mid, after
  <2>3. /\ InputOK(after, dev, c.groups[g], g, i)
        /\ QuietDevice(after, dev, i, oks)
    BY <2>1, <2>2 DEF Listening, SameRequest, InputOK, QuietDevice
  <2> QED BY <2>3 DEF dev, after
<1>2. QuietStep(r.groups[g], c.groups[g], g, 0, oks)
  BY <1>1 DEF QuietStep, StoodBy, Between
<1> QED BY <1>1, <1>2 DEF GroupStep, oks

(* A device whose answer is in, and then the end of the scan.              *)
LEMMA ScanOverGroup ==
    ASSUME NEW g \in group_nos, NEW group, GroupOK(group, g), NEW oks, NEW m,
           m.group_state = group.group_state, SameScan(m, group),
           \A i \in device_nos(g) :
              /\ InputOK(m.slave_devices[i], group.slave_devices[i],
                         group, g, i)
              /\ QuietDevice(m.slave_devices[i], group.slave_devices[i],
                             i, oks),
           GroupStep(m, group, g, 0, oks),
           NEW r, ScanOver(r, m, g)
    PROVE  GroupStep(r, group, g, 0, oks)
<1>1. CASE r = m
  BY <1>1
<1>2. CASE /\ m.group_state = "MASTER_LINK_SCAN"
           /\ \A i \in device_nos(g) :
                 m.slave_devices[i].device_state # "CYCLIC_SENDING"
           /\ ~hier[g].use_constant_link_scan_time
           /\ NextScan(r, m, g)
  <2>1. ASSUME NEW i \in device_nos(g)
        PROVE  /\ InputOK(r.slave_devices[i], group.slave_devices[i],
                          group, g, i)
               /\ AskedDevice(r.slave_devices[i], group.slave_devices[i],
                              g, i, oks)
    <3> DEFINE dev == group.slave_devices[i]
               mid == m.slave_devices[i]
               after == r.slave_devices[i]
    <3>1. /\ InputOK(mid, dev, group, g, i)
          /\ QuietDevice(mid, dev, i, oks)
          /\ Asked(after, mid, g, i)
          /\ mid.device_state # "CYCLIC_SENDING"
      BY <1>2 DEF NextScan
    <3> HIDE DEF dev, mid, after
    <3>2. InputOK(after, dev, group, g, i)
      BY <3>1 DEF InputOK, Asked
    <3>3. AskedDevice(after, dev, g, i, oks)
      BY <3>1 DEF Asked, AskedDevice, QuietDevice
    <3> QED BY <3>2, <3>3 DEF dev, after
  <2>2. AskedStep(r, group, g, 0, oks)
    BY <1>2, <2>1 DEF AskedStep, NextScan
  <2> QED BY <2>1, <2>2 DEF GroupStep
<1>3. CASE /\ m.group_state = "MASTER_LINK_SCAN"
           /\ hier[g].use_constant_link_scan_time
           /\ r.group_state = "MASTER_LINK_SCAN_COMP"
           /\ r.sent = {}
           /\ r.constant_linkscan_timer = m.constant_linkscan_timer
           /\ \A i \in device_nos(g) :
                 Settled(r.slave_devices[i], m.slave_devices[i], g, i)
  <2>1. ASSUME NEW i \in device_nos(g)
        PROVE  /\ InputOK(r.slave_devices[i], group.slave_devices[i],
                          group, g, i)
               /\ QuietDevice(r.slave_devices[i], group.slave_devices[i],
                              i, oks)
    <3> DEFINE dev == group.slave_devices[i]
               mid == m.slave_devices[i]
               after == r.slave_devices[i]
    <3>1. /\ InputOK(mid, dev, group, g, i)
          /\ QuietDevice(mid, dev, i, oks)
          /\ Settled(after, mid, g, i)
      BY <1>3
    <3> HIDE DEF dev, mid, after
    <3>2. InputOK(after, dev, group, g, i)
      BY <3>1 DEF InputOK, Settled, SameRequest
    <3>3. QuietDevice(after, dev, i, oks)
      BY <3>1 DEF Settled, QuietDevice, SameRequest
    <3> QED BY <3>2, <3>3 DEF dev, after
  <2>2. ScanTimer(r) = ScanTimer(group)
    BY <1>3 DEF ScanTimer, SameScan, GroupOK, TimersOK
  <2>3. ScanTimer(group).elapsed \in Nat
    <3>1. ScanTimer(group) \in Timer({0, hier[g].timeout_value})
      BY DEF ScanTimer, GroupOK, GroupType
    <3> QED BY <3>1 DEF Timer
  <2>4. ScanTimer(r).elapsed = ScanTimer(group).elapsed + 0
    BY <2>2, <2>3
  <2>5. QuietStep(r, group, g, 0, oks)
    BY <1>3, <2>1, <2>4 DEF QuietStep, Between
  <2> QED BY <2>1, <2>5 DEF GroupStep
<1> QED BY <1>1, <1>2, <1>3 DEF ScanOver

(* The response is accepted: stored, and then the events it causes.        *)
LEMMA StoreFields ==
    ASSUME NEW g \in group_nos, NEW i, NEW dev, DeviceOK(dev, g, i), NEW resp,
           resp.frame_sequence_no \in 0..MaxSequenceNo
    PROVE  LET r == StoreIncoming(dev, resp)
           IN  /\ DeviceOK(r, g, i)
               /\ r.device_state = dev.device_state
               /\ r.timeout_count = dev.timeout_count
               /\ r.transmission_bit = dev.transmission_bit
               /\ r.rx = IF dev.transmission_bit THEN resp.rx ELSE NoData
<1> DEFINE r == StoreIncoming(dev, resp)
<1>1. HasFields(dev, DeviceFields)
  BY DEF DeviceOK, DeviceType
<1>2. /\ HasFields(r, DeviceFields)
      /\ r.device_state = dev.device_state
      /\ r.enabled = dev.enabled
      /\ r.transmission_bit = dev.transmission_bit
      /\ r.force_transmission_bit = dev.force_transmission_bit
      /\ r.timeout_count = dev.timeout_count
      /\ r.latest = resp.frame_sequence_no
      /\ r.ry = dev.ry
      /\ r.rx = (IF dev.transmission_bit THEN resp.rx ELSE NoData)
      /\ r.slave_id = dev.slave_id
      /\ r.on = dev.on
      /\ r.data = dev.data
  BY <1>1 DEF StoreIncoming, HasFields, DeviceFields
<1> HIDE DEF r
<1>3. r.latest \in 0..NoFrame
  BY <1>2, MasterAssumption DEF NoFrame
<1>4. DeviceType(r, g, i)
  BY <1>2, <1>3 DEF DeviceOK, DeviceType
<1>5. DeviceOK(r, g, i)
  BY <1>2, <1>4 DEF DeviceOK
<1> QED BY <1>2, <1>5 DEF r

(* A response of device i of group g to which the handler gets.            *)
ResponseOf(resp, g, i) ==
    /\ resp # NoInput
    /\ resp.kind = "RESPONSE"
    /\ cl_iefb_parse_cyclic_response(resp)
    /\ resp.group_no = g
    /\ resp.remote_ip = Setting(g, i).slave_id
    /\ resp.frame_sequence_no \in 0..MaxSequenceNo
    /\ resp.rx = RxPayload(resp.remote_ip, resp.frame_sequence_no)

(* A response that passes the checks: it is stored, then the device is     *)
(* told.  If the bit of the device is on it answers the present request.   *)
LEMMA AcceptedDevice ==
    ASSUME NEW c, MasterOK(c), NEW g \in group_nos, NEW i \in device_nos(g),
           NEW resp, ResponseOf(resp, g, i), NEW dev, dev = Device(c, g, i),
           dev.enabled, ~IsWrongSequenceNumber(dev, c.groups[g], resp),
           resp.occupied = Setting(g, i).num_occupied_stations,
           NEW e \in {"RECEIVE_OK", "RECEIVE_ERROR"}
    PROVE  LET mid == StoreIncoming(dev, resp)
               r == clm_iefb_device_fsm_event(mid, g, i, e)
               group == c.groups[g]
               oks == Answers(c, resp, g)
           IN  Stored(mid, dev, group, g, i, oks)
               /\ Stored(r, dev, group, g, i, oks)
<1> DEFINE mid == StoreIncoming(dev, resp)
           r == clm_iefb_device_fsm_event(mid, g, i, e)
           group == c.groups[g]
           oks == Answers(c, resp, g)
<1>1. GroupOK(group, g)
  BY DEF MasterOK, StackOK
<1>2. /\ DeviceOK(dev, g, i)
      /\ Between(group) => dev.device_state = "LISTEN"
      /\ group.group_state = "MASTER_LINK_SCAN_COMP" =>
            dev.device_state \in {"LISTEN", "CYCLIC_SENT"}
      /\ group.frame_sequence_no = 0 => dev.device_state # "CYCLIC_SENDING"
  BY <1>1 DEF GroupOK, DevicesOK, Device
<1>3. dev.transmission_bit =>
         resp.frame_sequence_no = group.frame_sequence_no
  BY DEF IsWrongSequenceNumber
<1>4. dev.transmission_bit => i \in oks
  BY <1>3 DEF Answers, ResponseOf
<1>5. /\ DeviceOK(mid, g, i)
      /\ mid.device_state = dev.device_state
      /\ mid.timeout_count = dev.timeout_count
      /\ mid.transmission_bit = dev.transmission_bit
      /\ mid.rx = IF dev.transmission_bit THEN resp.rx ELSE NoData
  BY <1>2, StoreFields DEF ResponseOf
<1>6. dev.transmission_bit =>
         resp.rx = RxPayload(Setting(g, i).slave_id, group.frame_sequence_no)
  BY <1>3 DEF ResponseOf
<1> HIDE DEF mid, oks, group
<1>7. Received(r, mid, g, i)
  BY <1>5, DeviceReceive
<1> HIDE DEF r
<1>8. InputOK(mid, dev, group, g, i)
  BY <1>5, <1>6 DEF InputOK
<1>9. Stored(mid, dev, group, g, i, oks)
  BY <1>2, <1>5, <1>8 DEF Stored, Fits, QuietDevice
<1>10. Fits(r, group, g, i)
  BY <1>2, <1>5, <1>7 DEF Received, Fits
<1>11. InputOK(r, dev, group, g, i)
  BY <1>7, <1>8 DEF Received, SameRequest, InputOK
<1>12. QuietDevice(r, dev, i, oks)
  BY <1>4, <1>5, <1>7 DEF Received, SameRequest, QuietDevice
<1>13. Stored(r, dev, group, g, i, oks)
  BY <1>10, <1>11, <1>12 DEF Stored
<1> QED BY <1>9, <1>13 DEF mid, r, oks, group

(* What handling a frame does to the stack.                                *)
Handled(r, c, frame) ==
    /\ MasterOK(r)
    /\ StackStep(r, c, frame)
    /\ \/ /\ r.master_state = c.master_state
          /\ r.arbitration_timer = c.arbitration_timer
       \/ r.master_state = "STANDBY"

(* The response is stored and nothing else happens to its device.          *)
LEMMA AlarmRaised ==
    ASSUME NEW c, MasterOK(c), \A h \in group_nos : c.groups[h].sent = {},
           NEW resp, NEW g \in group_nos, NEW i \in device_nos(g),
           NEW m, OneChanged(m, c, g, i),
           Stored(m.groups[g].slave_devices[i],
                  c.groups[g].slave_devices[i], c.groups[g], g, i,
                  Answers(c, resp, g))
    PROVE  Handled(clm_iefb_group_fsm_event_all(m, "MASTERDUPL_ALARM"),
                   c, resp)
<1> DEFINE r == clm_iefb_group_fsm_event_all(m, "MASTERDUPL_ALARM")
           e == "MASTERDUPL_ALARM"
<1>1. /\ MasterOK(m)
      /\ \A h \in group_nos : m.groups[h].sent = {}
      /\ StackStep(m, c, resp)
      /\ \A j \in device_nos(g) :
            /\ InputOK(m.groups[g].slave_devices[j],
                       c.groups[g].slave_devices[j], c.groups[g], g, j)
            /\ QuietDevice(m.groups[g].slave_devices[j],
                           c.groups[g].slave_devices[j], j,
                           Answers(c, resp, g))
  BY ChangedStep
<1>2. IF m.master_state = "RUNNING" THEN StoodBy(r, m) ELSE r = m
  BY <1>1, AllToStandby
<1> HIDE DEF r
<1>3. CASE r = m
  BY <1>1, <1>3 DEF Handled, OneChanged, SameShared, r
<1>4. CASE StoodBy(r, m)
  <2>1. \A h \in group_nos : \A j \in device_nos(h) :
           LET dev == c.groups[h].slave_devices[j]
               mid == m.groups[h].slave_devices[j]
           IN  /\ InputOK(mid, dev, c.groups[h], h, j)
               /\ mid.transmission_bit = dev.transmission_bit
    <3> SUFFICES ASSUME NEW h \in group_nos, NEW j \in device_nos(h)
                 PROVE  /\ InputOK(m.groups[h].slave_devices[j],
                              c.groups[h].slave_devices[j], c.groups[h], h, j)
                        /\ m.groups[h].slave_devices[j].transmission_bit =
                              c.groups[h].slave_devices[j].transmission_bit
      OBVIOUS
    <3>1. CASE h = g
      BY <1>1, <3>1 DEF QuietDevice
    <3>2. CASE h # g
      <4>1. m.groups[h] = c.groups[h]
        BY <3>2 DEF OneChanged
      <4> QED BY <4>1 DEF InputOK
    <3> QED BY <3>1, <3>2
  <2>2. StackStep(r, c, resp)
    BY <1>4, <2>1, StoodByStep
  <2> QED BY <1>4, <2>2 DEF Handled, StoodBy, r
<1> QED BY <1>2, <1>3, <1>4

(* The device is told of its response, and then the scan may be over.      *)
LEMMA DeviceTold ==
    ASSUME NEW c, MasterOK(c), \A h \in group_nos : c.groups[h].sent = {},
           NEW resp, NEW g \in group_nos, NEW i \in device_nos(g),
           NEW m, OneChanged(m, c, g, i),
           Stored(m.groups[g].slave_devices[i],
                  c.groups[g].slave_devices[i], c.groups[g], g, i,
                  Answers(c, resp, g))
    PROVE  Handled(EndScanIfComplete(m, g), c, resp)
<1> DEFINE r == EndScanIfComplete(m, g)
           oks == Answers(c, resp, g)
<1>1. /\ MasterOK(m)
      /\ \A h \in group_nos : m.groups[h].sent = {}
      /\ StackStep(m, c, resp)
      /\ \A j \in device_nos(g) :
            /\ InputOK(m.groups[g].slave_devices[j],
                       c.groups[g].slave_devices[j], c.groups[g], g, j)
            /\ QuietDevice(m.groups[g].slave_devices[j],
                           c.groups[g].slave_devices[j], j, oks)
  BY ChangedStep
<1> HIDE DEF oks
<1>2. /\ MasterOK(r)
      /\ SameShared(r, m)
      /\ \A h \in group_nos \ {g} : r.groups[h] = m.groups[h]
      /\ ScanOver(r.groups[g], m.groups[g], g)
  BY <1>1, EndScan
<1> HIDE DEF r
<1>3. GroupOK(c.groups[g], g)
  BY DEF MasterOK, StackOK
<1>4. /\ m.groups[g].group_state = c.groups[g].group_state
      /\ SameScan(m.groups[g], c.groups[g])
      /\ SameShared(m, c)
  BY DEF OneChanged
<1>5. GroupStep(m.groups[g], c.groups[g], g, 0, oks)
  BY <1>1 DEF StackStep, oks
<1>6. GroupStep(r.groups[g], c.groups[g], g, 0, oks)
  BY <1>1, <1>2, <1>3, <1>4, <1>5, ScanOverGroup
<1>7. \A h \in group_nos \ {g} :
         GroupStep(r.groups[h], c.groups[h], h, 0, Answers(c, resp, h))
  BY <1>1, <1>2 DEF StackStep
<1>8. StackStep(r, c, resp)
  BY <1>6, <1>7 DEF StackStep, oks
<1> QED BY <1>2, <1>4, <1>8 DEF Handled, SameShared, r

SameButErrors(n, c) ==
    /\ SameShared(n, c)
    /\ n.groups = c.groups
    /\ MasterOK(n)

(* Storing in a device of a stack that differs in its errors only.         *)
LEMMA ChangeAfterReport ==
    ASSUME NEW c, MasterOK(c), NEW n, SameButErrors(n, c),
           NEW g \in group_nos, NEW i \in device_nos(g), NEW dev,
           NEW r, r = WithDevice(n, g, i, dev)
    PROVE  OneChanged(r, c, g, i) /\ r.groups[g].slave_devices[i] = dev
<1>1. OneChanged(r, n, g, i) /\ r.groups[g].slave_devices[i] = dev
  BY ChangeDeviceTo DEF SameButErrors
<1>2. OneChanged(n, c, g, i)
  BY UnchangedDevice DEF SameButErrors
<1>3. OneChanged(r, c, g, i)
  BY <1>1, <1>2, OneChangedTwice
<1> QED BY <1>1, <1>3

LEMMA ResponseAccepted ==
    ASSUME NEW c, MasterOK(c), \A h \in group_nos : c.groups[h].sent = {},
           NEW g \in group_nos, NEW i \in device_nos(g),
           NEW resp, ResponseOf(resp, g, i), Device(c, g, i).enabled,
           ~IsWrongSequenceNumber(Device(c, g, i), c.groups[g], resp)
    PROVE  Handled(AcceptResponse(c, g, i, resp), c, resp)
<1> DEFINE n == Report(c, resp)
           dev == Device(c, g, i)
           mid == StoreIncoming(dev, resp)
           m == [n EXCEPT !.groups[g].slave_devices[i] = mid]
           e == IF resp.end_code = "SUCCESS" THEN "RECEIVE_OK"
                ELSE "RECEIVE_ERROR"
           told == clm_iefb_device_fsm_event(mid, g, i, e)
           t == [m EXCEPT !.groups[g].slave_devices[i] = told]
           oks == Answers(c, resp, g)
<1>1. SameShared(n, c) /\ n.groups = c.groups /\ MasterOK(n)
  BY Reported
<1>a. SameButErrors(n, c)
  BY <1>1 DEF SameButErrors
<1>2. CASE resp.occupied # Setting(g, i).num_occupied_stations
  <2>1. AcceptResponse(c, g, i, resp) = n
    BY <1>2 DEF AcceptResponse
  <2> HIDE DEF n
  <2>2. StackStep(n, c, resp)
    BY <1>1, IdleStep
  <2> QED BY <1>1, <2>1, <2>2 DEF Handled, SameShared, n
<1>3. CASE resp.occupied = Setting(g, i).num_occupied_stations
  <2>1. AcceptResponse(c, g, i, resp) = RaiseEvents(m, g, i, resp.end_code)
    <3>1. n.groups[g].slave_devices[i] = dev
      BY <1>1 DEF Device
    <3> QED BY <1>3, <3>1 DEF AcceptResponse
  <2>2. Stored(mid, dev, c.groups[g], g, i, oks)
        /\ Stored(told, dev, c.groups[g], g, i, oks)
    <3> HIDE DEF dev, e
    <3>1. e \in {"RECEIVE_OK", "RECEIVE_ERROR"}
      BY DEF e
    <3>2. dev = Device(c, g, i)
      BY DEF dev
    <3> QED BY <1>3, <3>1, <3>2, AcceptedDevice
  <2>3. DeviceEvent(m, g, i, e) =
           [m EXCEPT !.groups[g].slave_devices[i] =
                clm_iefb_device_fsm_event(m.groups[g].slave_devices[i],
                                          g, i, e)]
    BY DEF DeviceEvent
  <2>4. RaiseEvents(m, g, i, resp.end_code) =
           IF resp.end_code = "MASTER_DUPLICATION"
           THEN clm_iefb_group_fsm_event_all(m, "MASTERDUPL_ALARM")
           ELSE EndScanIfComplete(DeviceEvent(m, g, i, e), g)
    BY DEF RaiseEvents
  <2> HIDE DEF n, mid, told, e, oks, dev
  <2>a. m = WithDevice(n, g, i, mid)
    BY DEF WithDevice
  <2> HIDE DEF m
  <2>b. t = WithDevice(m, g, i, told)
    BY DEF WithDevice
  <2>5. OneChanged(m, c, g, i) /\ m.groups[g].slave_devices[i] = mid
    BY <1>a, <2>a, ChangeAfterReport
  <2>6. c.groups[g].slave_devices[i] = dev
    BY DEF dev, Device
  <2>7. MasterOK(m)
    BY <2>2, <2>5, <2>6, OneChangedOK DEF Stored
  <2>9. DeviceEvent(m, g, i, e) = t
    BY <2>3, <2>5 DEF told
  <2> HIDE DEF t
  <2>8. OneChanged(t, m, g, i) /\ t.groups[g].slave_devices[i] = told
    BY <2>7, <2>b, ChangeDeviceTo
  <2>10. OneChanged(t, c, g, i)
    BY <2>5, <2>8, OneChangedTwice
  <2>11. Stored(m.groups[g].slave_devices[i], c.groups[g].slave_devices[i],
                c.groups[g], g, i, Answers(c, resp, g))
    BY <2>2, <2>5, <2>6 DEF oks
  <2>12. Stored(t.groups[g].slave_devices[i], c.groups[g].slave_devices[i],
                c.groups[g], g, i, Answers(c, resp, g))
    BY <2>2, <2>8, <2>6 DEF oks
  <2>13. Handled(clm_iefb_group_fsm_event_all(m, "MASTERDUPL_ALARM"), c, resp)
    BY <2>5, <2>11, AlarmRaised
  <2>14. Handled(EndScanIfComplete(t, g), c, resp)
    BY <2>10, <2>12, DeviceTold
  <2> QED BY <2>1, <2>4, <2>9, <2>13, <2>14
<1> QED BY <1>2, <1>3

(* Two devices have the same address: the device goes back to LISTEN.      *)
LEMMA DuplicateSeen ==
    ASSUME NEW c, MasterOK(c), \A h \in group_nos : c.groups[h].sent = {},
           NEW g \in group_nos, NEW i \in device_nos(g), NEW resp
    PROVE  Handled(DeviceEvent(
                    clm_iefb_trigger_error_callback(c, "SLAVE_DUPLICATION"),
                    g, i, "SLAVE_DUPLICATION"), c, resp)
<1> DEFINE n == clm_iefb_trigger_error_callback(c, "SLAVE_DUPLICATION")
           dev == c.groups[g].slave_devices[i]
           told == clm_iefb_device_fsm_event(dev, g, i, "SLAVE_DUPLICATION")
           r == [n EXCEPT !.groups[g].slave_devices[i] = told]
           oks == Answers(c, resp, g)
<1>1. SameShared(n, c) /\ n.groups = c.groups /\ MasterOK(n)
  BY ErrorReported
<1>a. SameButErrors(n, c)
  BY <1>1 DEF SameButErrors
<1>2. DeviceEvent(n, g, i, "SLAVE_DUPLICATION") =
         [n EXCEPT !.groups[g].slave_devices[i] =
            clm_iefb_device_fsm_event(n.groups[g].slave_devices[i], g, i,
                                      "SLAVE_DUPLICATION")]
  BY DEF DeviceEvent
<1>3. DeviceEvent(n, g, i, "SLAVE_DUPLICATION") = r
  BY <1>1, <1>2
<1>4. DeviceOK(dev, g, i)
  BY DEF MasterOK, StackOK, GroupOK, DevicesOK
<1>5. Listening(told, dev, g, i)
  BY <1>4, DeviceToListen
<1> HIDE DEF n, told
<1>b. r = WithDevice(n, g, i, told)
  BY DEF WithDevice
<1> HIDE DEF r
<1>6. OneChanged(r, c, g, i) /\ r.groups[g].slave_devices[i] = told
  BY <1>a, <1>b, ChangeAfterReport
<1> HIDE DEF dev, oks
<1>7. Stored(told, dev, c.groups[g], g, i, oks)
  BY <1>5 DEF Listening, SameRequest, Stored, Fits, InputOK, QuietDevice
<1>8. Stored(r.groups[g].slave_devices[i], c.groups[g].slave_devices[i],
             c.groups[g], g, i, Answers(c, resp, g))
  BY <1>6, <1>7 DEF dev, oks
<1>9. MasterOK(r) /\ StackStep(r, c, resp)
  BY <1>6, <1>8, ChangedStep
<1> QED BY <1>3, <1>6, <1>9 DEF Handled, OneChanged, SameShared, n

LEMMA NothingDone ==
    ASSUME NEW c, MasterOK(c), \A h \in group_nos : c.groups[h].sent = {},
           NEW frame
    PROVE  Handled(c, c, frame)
  BY IdleStep DEF Handled

LEMMA ResponseStep ==
    ASSUME NEW c, MasterOK(c), \A h \in group_nos : c.groups[h].sent = {},
           NEW resp, resp # NoInput, resp.kind = "RESPONSE",
           resp.frame_sequence_no \in 0..MaxSequenceNo,
           resp.rx = RxPayload(resp.remote_ip, resp.frame_sequence_no)
    PROVE  Handled(clm_iefb_handle_response_frame(c, resp), c, resp)
<1>1. CASE ~(cl_iefb_parse_cyclic_response(resp) /\ IsFromConfiguredDevice(resp))
  <2>1. clm_iefb_handle_response_frame(c, resp) = c
    BY <1>1 DEF clm_iefb_handle_response_frame
  <2> QED BY <2>1, NothingDone
<1>2. CASE cl_iefb_parse_cyclic_response(resp) /\ IsFromConfiguredDevice(resp)
  <2> DEFINE g == resp.group_no
             i == clm_iefb_calc_slave_device_index(resp)
             dev == Device(c, g, i)
  <2>1. g \in group_nos /\ i \in DevicesOf(resp)
    BY <1>2 DEF IsFromConfiguredDevice, clm_iefb_calc_slave_device_index
  <2>2. i \in device_nos(g) /\ resp.remote_ip = Setting(g, i).slave_id
    BY <2>1 DEF DevicesOf
  <2>3. clm_iefb_handle_response_frame(c, resp) =
            HandleResponseOf(c, g, i, dev, resp)
    BY <1>2 DEF clm_iefb_handle_response_frame, HandleResponseFrom, Device
  <2> HIDE DEF i
  <2>4. ResponseOf(resp, g, i)
    BY <1>2, <2>2 DEF ResponseOf
  <2> HIDE DEF g
  <2>5. CASE ~dev.enabled
    <3>1. HandleResponseOf(c, g, i, dev, resp) = c
      BY <2>5 DEF HandleResponseOf
    <3> QED BY <2>3, <3>1, NothingDone
  <2>6. CASE dev.enabled /\ IsSlaveDuplication(dev, resp)
    <3>1. HandleResponseOf(c, g, i, dev, resp) =
             DeviceEvent(
                clm_iefb_trigger_error_callback(c, "SLAVE_DUPLICATION"),
                g, i, "SLAVE_DUPLICATION")
      BY <2>6 DEF HandleResponseOf
    <3> QED BY <2>1, <2>2, <2>3, <3>1, DuplicateSeen
  <2>7. CASE /\ dev.enabled
             /\ ~IsSlaveDuplication(dev, resp)
             /\ IsWrongSequenceNumber(dev, c.groups[g], resp)
    <3>1. HandleResponseOf(c, g, i, dev, resp) = c
      BY <2>7 DEF HandleResponseOf
    <3> QED BY <2>3, <3>1, NothingDone
  <2>8. CASE /\ dev.enabled
             /\ ~IsSlaveDuplication(dev, resp)
             /\ ~IsWrongSequenceNumber(dev, c.groups[g], resp)
    <3>1. HandleResponseOf(c, g, i, dev, resp) = AcceptResponse(c, g, i, resp)
      BY <2>8 DEF HandleResponseOf
    <3> QED BY <2>1, <2>2, <2>3, <2>4, <2>8, <3>1, ResponseAccepted
  <2> QED BY <2>5, <2>6, <2>7, <2>8
<1> QED BY <1>1, <1>2

(* One turn of the receive loop, after the timers were looked at.          *)
LEMMA InputStep ==
    ASSUME NEW c, MasterOK(c), \A h \in group_nos : c.groups[h].sent = {},
           NEW frame \in Frames
    PROVE  LET r == clm_iefb_handle_input_frame(c, frame)
           IN  /\ Handled(r, c, frame)
               /\ /\ frame.kind = "REQUEST"
                  /\ frame.remote_ip # MasterIp
                  /\ c.master_state = "ARBITRATION"
                  => r.master_state = "STANDBY"
<1> DEFINE r == clm_iefb_handle_input_frame(c, frame)
           silent == clm_iefb_group_fsm_event_all(c, "REQ_FROM_OTHER")
<1>1. frame # NoInput
  BY MasterFramesAssumption DEF NoInput
<1>2. CASE frame.remote_ip = MasterIp
  <2>1. r = c
    BY <1>2 DEF clm_iefb_handle_input_frame
  <2> QED BY <1>2, <2>1, NothingDone
<1>3. CASE frame.remote_ip # MasterIp /\ frame.kind = "RESPONSE"
  <2>1. r = clm_iefb_handle_response_frame(c, frame)
    BY <1>1, <1>3
       DEF clm_iefb_handle_input_frame, cl_iefb_validate_response_header
  <2>2. /\ frame.frame_sequence_no \in 0..MaxSequenceNo
        /\ frame.rx = RxPayload(frame.remote_ip, frame.frame_sequence_no)
    BY <1>3, MasterFramesAssumption
  <2> HIDE DEF r
  <2>3. Handled(r, c, frame)
    BY <1>1, <1>3, <2>1, <2>2, ResponseStep
  <2> QED BY <1>3, <2>3 DEF r
<1>4. CASE frame.remote_ip # MasterIp /\ frame.kind = "REQUEST"
  <2>1. r = silent
    BY <1>1, <1>4
       DEF clm_iefb_handle_input_frame, clm_iefb_handle_request_frame,
           cl_iefb_validate_response_header, cl_iefb_validate_request_header
  <2>2. IF c.master_state = "ARBITRATION" THEN StoodBy(silent, c)
        ELSE silent = c
    BY AllToStandby
  <2> HIDE DEF silent, r
  <2>3. CASE c.master_state # "ARBITRATION"
    <3>1. r = c
      BY <2>1, <2>2, <2>3
    <3> QED BY <2>3, <3>1, NothingDone DEF r
  <2>4. CASE c.master_state = "ARBITRATION"
    <3>1. StoodBy(r, c)
      BY <2>1, <2>2, <2>4
    <3>2. \A g \in group_nos : \A i \in device_nos(g) :
             LET dev == c.groups[g].slave_devices[i]
             IN  /\ InputOK(dev, dev, c.groups[g], g, i)
                 /\ dev.transmission_bit = dev.transmission_bit
      BY DEF InputOK
    <3>3. StackStep(r, c, frame)
      BY <3>1, <3>2, StoodByStep
    <3>4. Handled(r, c, frame) /\ r.master_state = "STANDBY"
      BY <3>1, <3>3 DEF Handled, StoodBy
    <3> QED BY <3>4 DEF r
  <2> QED BY <2>3, <2>4
<1>5. CASE frame.remote_ip # MasterIp /\ frame.kind = "OTHER"
  <2>1. r = c
    BY <1>1, <1>5
       DEF clm_iefb_handle_input_frame, cl_iefb_validate_response_header,
           cl_iefb_validate_request_header
  <2> QED BY <1>5, <2>1, NothingDone
<1> QED BY <1>2, <1>3, <1>4, <1>5, MasterFramesAssumption

(* The whole call that handles a frame.                                    *)
LEMMA FrameStep ==
    ASSUME NEW c, MasterOK(c), NEW frame \in Frames
    PROVE  LET r == clm_iefb_periodic(c, 0, frame)
           IN  /\ Handled(r, c, frame)
               /\ /\ frame.kind = "REQUEST"
                  /\ frame.remote_ip # MasterIp
                  /\ c.master_state = "ARBITRATION"
                  => r.master_state = "STANDBY"
<1> DEFINE m == clm_iefb_monitor_all_group_timers(
                    MonitorArbitrationTimer(
                        AdvanceMaster(NewMasterCall(c), 0)))
           r == clm_iefb_handle_input_frame(m, frame)
<1>1. clm_iefb_periodic(c, 0, frame) = r
  BY DEF clm_iefb_periodic
<1>2. /\ MasterOK(m)
      /\ m.master_state = c.master_state
      /\ m.arbitration_timer = c.arbitration_timer
      /\ \A g \in group_nos : Rested(m.groups[g], c.groups[g], 0)
  BY OpenCall
<1> HIDE DEF m
<1>3. \A g \in group_nos : m.groups[g].sent = {}
  BY <1>2 DEF Rested
<1>4. /\ Handled(r, m, frame)
      /\ /\ frame.kind = "REQUEST"
         /\ frame.remote_ip # MasterIp
         /\ m.master_state = "ARBITRATION"
         => r.master_state = "STANDBY"
  BY <1>2, <1>3, InputStep
<1> HIDE DEF r
<1>5. ASSUME NEW g \in group_nos
      PROVE  GroupStep(r.groups[g], c.groups[g], g, 0, Answers(c, frame, g))
  <2>1. Answers(m, frame, g) = Answers(c, frame, g)
    <3>1. /\ m.groups[g].frame_sequence_no = c.groups[g].frame_sequence_no
          /\ m.groups[g].slave_devices = c.groups[g].slave_devices
      BY <1>2 DEF Rested
    <3> QED BY <3>1 DEF Answers, Device
  <2>2. GroupStep(r.groups[g], m.groups[g], g, 0, Answers(c, frame, g))
    BY <1>4, <2>1 DEF Handled, StackStep
  <2>3. GroupOK(c.groups[g], g)
    BY DEF MasterOK, StackOK
  <2> QED BY <1>2, <2>2, <2>3, StepSinceCall
<1>6. Handled(r, c, frame)
  BY <1>2, <1>4, <1>5 DEF Handled, StackStep
<1> QED BY <1>1, <1>2, <1>4, <1>6 DEF r

-----------------------------------------------------------------------------
(* The notes of the observer.                                              *)

(* ScanAfter, for one group.                                               *)
NoteAfter(note, r, group, g, d, oks) ==
    LET limit == hier[g].timeout_value
        since == AtMost(limit, note.since + d)
        answered == note.answered \cup oks
    IN  IF r.sent = {}
        THEN [note EXCEPT !.since = since, !.answered = answered]
        ELSE [since |-> 0,
              gap |-> IF hier[g].use_constant_link_scan_time
                      THEN since ELSE limit,
              answered |-> {},
              missed |-> [i \in device_nos(g) |->
                IF /\ group.slave_devices[i].transmission_bit
                   /\ r.slave_devices[i].transmission_bit
                   /\ i \notin answered
                THEN note.missed[i] + 1 ELSE 0]]

LEMMA NoteAfterQuiet ==
    ASSUME NEW g \in group_nos, NEW group, GroupOK(group, g), NEW d \in Nat,
           NEW note, GroupNoted(note, group, g), NEW oks, NEW r,
           GroupOK(r, g), Unexpired(r), QuietStep(r, group, g, d, oks)
    PROVE  GroupNoted(NoteAfter(note, r, group, g, d, oks), r, g)
<1> DEFINE limit == hier[g].timeout_value
           since == AtMost(limit, note.since + d)
           answered == note.answered \cup oks
           n == NoteAfter(note, r, group, g, d, oks)
<1>1. n = [note EXCEPT !.since = since, !.answered = answered]
  BY DEF NoteAfter, QuietStep
<1>2. limit \in Nat \ {0}
  BY Periods
<1>3. note.since \in Nat
  BY DEF GroupNoted
<1>4. since \in Nat
  BY <1>2, <1>3 DEF AtMost
<1> HIDE DEF n
<1>5. /\ HasFields(n, {"since", "gap", "answered", "missed"})
      /\ n.since = since
      /\ n.gap = note.gap
      /\ n.answered = answered
      /\ n.missed = note.missed
  <2> HIDE DEF since, answered
  <2>1. HasFields(note, {"since", "gap", "answered", "missed"})
    BY DEF GroupNoted
  <2> QED BY <1>1, <2>1 DEF HasFields
<1>6. r.group_state = "MASTER_ARBITRATION" => n.since = limit
  <2>1. r.group_state = "MASTER_ARBITRATION" => note.since = limit
    BY DEF QuietStep, GroupNoted
  <2> QED BY <1>2, <1>5, <2>1 DEF AtMost
<1>7. ASSUME ~Between(r) PROVE n.since = ScanTimer(r).elapsed
  <2> DEFINE t == ScanTimer(r)
  <2>1. t \in Timer({0, limit})
    BY DEF ScanTimer, GroupOK, GroupType
  <2>2. Running(t) /\ ~cl_timer_is_expired(t)
    BY <1>7 DEF ScanTimer, GroupOK, GroupType, TimersOK, Unexpired, Between,
                clm_group_states
  <2>3. t.elapsed = note.since + d
    BY <1>7 DEF QuietStep, GroupNoted
  <2> HIDE DEF t, limit
  <2>4. t.elapsed < limit
    BY <1>2, <2>1, <2>2, RunningPeriod
  <2> QED BY <1>2, <1>3, <1>5, <2>3, <2>4 DEF AtMost, t
<1>8. ASSUME NEW i \in device_nos(g)
      PROVE  /\ DeviceNoted(n, r, i)
             /\ n.missed[i] < hier[g].parallel_off_timeout_count
  <2> DEFINE dev == group.slave_devices[i]
             after == r.slave_devices[i]
  <2>1. /\ note.missed[i] \in Nat
        /\ note.missed[i] < hier[g].parallel_off_timeout_count
        /\ dev.device_state = "CYCLIC_SENDING" =>
                note.missed[i] <= dev.timeout_count
        /\ dev.device_state = "CYCLIC_SENT" /\ dev.transmission_bit =>
                i \in note.answered
    BY DEF GroupNoted, DeviceNoted
  <2>2. QuietDevice(after, dev, i, oks)
    BY DEF QuietStep
  <2> HIDE DEF dev
  <2> QED BY <1>5, <2>1, <2>2 DEF QuietDevice, DeviceNoted
<1>9. n.gap = limit
  BY <1>5 DEF GroupNoted
<1> QED BY <1>4, <1>5, <1>6, <1>7, <1>8, <1>9 DEF GroupNoted, n

LEMMA NoteAfterRequest ==
    ASSUME NEW g \in group_nos, NEW group, GroupOK(group, g), NEW d \in Nat,
           NEW note, GroupNoted(note, group, g), NEW oks, NEW r,
           AskedStep(r, group, g, d, oks)
    PROVE  GroupNoted(NoteAfter(note, r, group, g, d, oks), r, g)
<1> DEFINE limit == hier[g].timeout_value
           since == AtMost(limit, note.since + d)
           answered == note.answered \cup oks
           missed == [i \in device_nos(g) |->
                IF /\ group.slave_devices[i].transmission_bit
                   /\ r.slave_devices[i].transmission_bit
                   /\ i \notin answered
                THEN note.missed[i] + 1 ELSE 0]
           gap == IF hier[g].use_constant_link_scan_time
                  THEN since ELSE limit
           n == NoteAfter(note, r, group, g, d, oks)
<1>1. n = [since |-> 0, gap |-> gap, answered |-> {}, missed |-> missed]
  BY DEF NoteAfter, AskedStep, Started
<1> HIDE DEF n, gap, missed
<1>2. /\ HasFields(n, {"since", "gap", "answered", "missed"})
      /\ n.since = 0
      /\ n.gap = gap
      /\ n.answered = {}
      /\ n.missed = missed
  BY <1>1 DEF HasFields
<1>3. limit \in Nat \ {0}
  BY Periods
<1>4. note.since \in Nat
  BY DEF GroupNoted
<1>5. /\ GroupOK(r, g)
      /\ r.group_state = "MASTER_LINK_SCAN"
      /\ r.response_wait_timer = cl_timer_start(limit)
  BY DEF AskedStep, Started
<1>6. ScanTimer(r).elapsed = 0
  BY <1>5 DEF ScanTimer, cl_timer_start
<1>7. gap = limit
  <2>1. CASE ~hier[g].use_constant_link_scan_time
    BY <2>1 DEF gap
  <2>2. CASE hier[g].use_constant_link_scan_time /\ Between(group)
    <3>1. note.since = limit
      BY <2>2 DEF AskedStep, Between, GroupNoted
    <3> QED BY <1>3, <2>2, <3>1 DEF gap, AtMost
  <2>3. CASE hier[g].use_constant_link_scan_time /\ ~Between(group)
    <3>1. note.since + d >= limit
      BY <2>3 DEF AskedStep, GroupNoted
    <3> QED BY <1>3, <1>4, <2>3, <3>1 DEF gap, AtMost
  <2> QED BY <2>1, <2>2, <2>3
<1>8. ASSUME NEW i \in device_nos(g)
      PROVE  /\ DeviceNoted(n, r, i)
             /\ n.missed[i] < hier[g].parallel_off_timeout_count
  <2> DEFINE dev == group.slave_devices[i]
             after == r.slave_devices[i]
             most == hier[g].parallel_off_timeout_count
  <2>1. /\ note.missed[i] \in Nat
        /\ dev.device_state = "CYCLIC_SENDING" =>
                note.missed[i] <= dev.timeout_count
        /\ dev.device_state = "CYCLIC_SENT" /\ dev.transmission_bit =>
                i \in note.answered
    BY DEF GroupNoted, DeviceNoted
  <2>2. AskedDevice(after, dev, g, i, oks)
    BY DEF AskedStep
  <2>3. after.timeout_count \in Nat /\ after.timeout_count < most
    BY <1>5 DEF GroupOK, DevicesOK, DeviceOK, DeviceType
  <2>4. dev.timeout_count \in Nat
    BY DEF GroupOK, DevicesOK, DeviceOK, DeviceType
  <2>5. most \in Nat \ {0}
    BY ConfigAssumption DEF clm_validate_config
  <2>6. missed[i] = IF /\ dev.transmission_bit
                       /\ after.transmission_bit
                       /\ i \notin answered
                    THEN note.missed[i] + 1 ELSE 0
    BY DEF missed
  <2> HIDE DEF dev, after, most
  <2>7. missed[i] \in Nat /\ missed[i] <= after.timeout_count
    <3>1. CASE missed[i] = 0
      BY <2>3, <3>1
    <3>2. CASE missed[i] # 0
      <4>1. /\ dev.transmission_bit
            /\ after.transmission_bit
            /\ i \notin answered
            /\ missed[i] = note.missed[i] + 1
        BY <2>6, <3>2
      <4>2. /\ dev.device_state = "CYCLIC_SENDING"
            /\ after.timeout_count = dev.timeout_count + 1
        BY <2>1, <2>2, <4>1 DEF AskedDevice
      <4> QED BY <2>1, <2>4, <4>1, <4>2
    <3> QED BY <3>1, <3>2
  <2>8. after.device_state # "CYCLIC_SENT"
    BY <2>2 DEF AskedDevice
  <2>9. n.missed[i] < most
    BY <1>2, <2>3, <2>5, <2>7
  <2>10. DeviceNoted(n, r, i)
    BY <1>2, <2>7, <2>8 DEF DeviceNoted, after
  <2> QED BY <2>9, <2>10 DEF most
<1>9. ~Between(r) => n.since = ScanTimer(r).elapsed
  BY <1>2, <1>6
<1>10. n.since \in Nat
  BY <1>2
<1>11. r.group_state # "MASTER_ARBITRATION"
  BY <1>5
<1>12. n.gap = limit
  BY <1>2, <1>7
<1> QED BY <1>2, <1>8, <1>9, <1>10, <1>11, <1>12 DEF GroupNoted, n

LEMMA NotesKept ==
    ASSUME NEW g \in group_nos, NEW group, GroupOK(group, g), NEW d \in Nat,
           NEW note, GroupNoted(note, group, g), NEW oks, NEW r,
           GroupOK(r, g), Unexpired(r), GroupStep(r, group, g, d, oks)
    PROVE  GroupNoted(NoteAfter(note, r, group, g, d, oks), r, g)
  BY NoteAfterQuiet, NoteAfterRequest DEF GroupStep

(***************************************************************************)
(* What a step of the specification does, besides keeping the invariant:   *)
(* each group takes a GroupStep, and standby is not left.                  *)
(***************************************************************************)
StepOK(d, frame) ==
    /\ \A g \in group_nos :
          GroupStep(clm'.groups[g], clm.groups[g], g, d, AnsweredBy(frame, g))
    /\ clm.master_state = "STANDBY" => clm'.master_state = "STANDBY"

LEMMA NotesAfterStep ==
    ASSUME IInv, NEW d \in Nat, NEW frame, MasterOK(clm'), StepOK(d, frame),
           scan' = ScanAfter(d, frame)
    PROVE  /\ scan' = [g \in group_nos |-> scan'[g]]
           /\ \A g \in group_nos : GroupNoted(scan'[g], clm'.groups[g], g)
<1>1. \A g \in group_nos :
         scan'[g] = NoteAfter(scan[g], clm'.groups[g], clm.groups[g], g, d,
                              AnsweredBy(frame, g))
  BY DEF ScanAfter, NoteAfter, Device
<1>2. scan' = [g \in group_nos |-> scan'[g]]
  BY DEF ScanAfter
<1>3. ASSUME NEW g \in group_nos
      PROVE  GroupNoted(scan'[g], clm'.groups[g], g)
  <2>1. GroupOK(clm.groups[g], g)
    BY DEF IInv, MasterOK, StackOK
  <2>2. GroupNoted(scan[g], clm.groups[g], g)
    BY DEF IInv, Noted
  <2>3. GroupOK(clm'.groups[g], g) /\ Unexpired(clm'.groups[g])
    BY DEF MasterOK, StackOK
  <2>4. GroupStep(clm'.groups[g], clm.groups[g], g, d, AnsweredBy(frame, g))
    BY DEF StepOK
  <2>5. GroupNoted(NoteAfter(scan[g], clm'.groups[g], clm.groups[g], g, d,
                             AnsweredBy(frame, g)), clm'.groups[g], g)
    BY <2>1, <2>2, <2>3, <2>4, NotesKept
  <2> QED BY <1>1, <2>5
<1> QED BY <1>2, <1>3

(* How long the master has listened.                                       *)
LEMMA ListenedLater ==
    ASSUME IInv, NEW d \in Nat
    PROVE  LET later == AtMost(ArbitrationTime, listened + d)
               t == TimerAdvance(clm.arbitration_timer, d)
           IN  /\ later \in Nat
               /\ clm.master_state = "ARBITRATION" => later = t.elapsed
               /\ clm.master_state = "RUNNING" => later = ArbitrationTime
               /\ clm.master_state = "ARBITRATION" /\ cl_timer_is_expired(t)
                    => later = ArbitrationTime
<1> DEFINE later == AtMost(ArbitrationTime, listened + d)
           at == clm.arbitration_timer
           t == TimerAdvance(at, d)
           P == {0, ArbitrationTime}
<1>1. ArbitrationTime \in Nat \ {0}
  BY MasterAssumption
<1>2. listened \in Nat
  BY DEF IInv, Noted
<1>3. later \in Nat
  BY <1>1, <1>2 DEF AtMost
<1>4. clm.master_state = "RUNNING" => later = ArbitrationTime
  BY <1>1 DEF IInv, Noted, AtMost
<1>5. ASSUME clm.master_state = "ARBITRATION"
      PROVE  /\ later = t.elapsed
             /\ cl_timer_is_expired(t) => later = ArbitrationTime
  <2>1. /\ at \in Timer(P)
        /\ Running(at)
        /\ ~cl_timer_is_expired(at)
        /\ listened = at.elapsed
    BY <1>5 DEF IInv, MasterOK, StackOK, MasterType, Noted
  <2> HIDE DEF at
  <2>2. at.period = ArbitrationTime /\ at.elapsed < ArbitrationTime
    BY <1>1, <2>1, RunningPeriod
  <2>3. P \in SUBSET Nat
    BY ArbitrationPeriods
  <2> HIDE DEF P
  <2>4. /\ t.period = at.period
        /\ t.elapsed = IF at.elapsed + d >= at.period THEN at.period
                       ELSE at.elapsed + d
    BY <2>1, <2>3, AdvanceTimer
  <2> HIDE DEF t
  <2>5. later = t.elapsed
    BY <1>1, <1>2, <2>1, <2>2, <2>4 DEF AtMost
  <2>6. cl_timer_is_expired(t) => t.elapsed >= t.period
    BY DEF cl_timer_is_expired
  <2> QED BY <1>1, <1>2, <2>1, <2>2, <2>4, <2>5, <2>6 DEF t
<1> QED BY <1>3, <1>4, <1>5 DEF later, t, at

LEMMA BeatLater ==
    ASSUME beat \in 0..Beats - 1
    PROVE  (beat + 1) % Beats \in 0..Beats - 1
<1>1. CASE Beats = 1
  BY <1>1
<1>2. CASE Beats = 2
  BY <1>2
<1> QED BY <1>1, <1>2, BeatsAssumption

LEMMA MonitorTimersOK ==
    ASSUME IInv, NEW d \in Nat, MonitorTimers(d)
    PROVE  IInv' /\ StepOK(d, NoInput)
<1> DEFINE r == clm_iefb_monitor_all_group_timers(
                    MonitorArbitrationTimer(
                        AdvanceMaster(NewMasterCall(clm), d)))
           t == TimerAdvance(clm.arbitration_timer, d)
<1>1. clm' = r
  <2>1. clm_iefb_periodic(clm, d, NoInput) =
            clm_iefb_handle_input_frame(r, NoInput)
    BY DEF clm_iefb_periodic
  <2>2. clm_iefb_handle_input_frame(r, NoInput) = r
    BY NoInputIsDropped
  <2> QED BY <2>1, <2>2 DEF MonitorTimers
<1>2. /\ MasterOK(r)
      /\ \A g \in group_nos : Monitored(r.groups[g], clm.groups[g], g, d)
      /\ \/ r.master_state = clm.master_state /\ r.arbitration_timer = t
         \/ /\ clm.master_state = "ARBITRATION"
            /\ cl_timer_is_expired(t)
            /\ r.master_state = "RUNNING"
  BY MonitorStep DEF IInv
<1> HIDE DEF r
<1>3. MasterOK(clm')
  BY <1>1, <1>2
<1>4. \A g \in group_nos :
         GroupStep(clm'.groups[g], clm.groups[g], g, d, AnsweredBy(NoInput, g))
  BY <1>1, <1>2, MonitoredIsStep
<1>5. StepOK(d, NoInput)
  BY <1>1, <1>2, <1>4 DEF StepOK
<1>6. /\ scan' = [g \in group_nos |-> scan'[g]]
      /\ \A g \in group_nos : GroupNoted(scan'[g], clm'.groups[g], g)
  BY <1>3, <1>5, NotesAfterStep DEF MonitorTimers
<1>7. /\ listened' \in Nat
      /\ clm.master_state = "ARBITRATION" => listened' = t.elapsed
      /\ clm.master_state = "RUNNING" => listened' = ArbitrationTime
      /\ clm.master_state = "ARBITRATION" /\ cl_timer_is_expired(t)
            => listened' = ArbitrationTime
  BY ListenedLater DEF MonitorTimers
<1> HIDE DEF t
<1>8. /\ clm'.master_state = "ARBITRATION" =>
            listened' = clm'.arbitration_timer.elapsed
      /\ clm'.master_state = "RUNNING" => listened' = ArbitrationTime
  BY <1>1, <1>2, <1>7
<1>9. heard' \in BOOLEAN /\ (heard' => clm'.master_state = "STANDBY")
  BY <1>5 DEF MonitorTimers, IInv, Noted, StepOK
<1>10. beat' \in 0..Beats - 1
  BY BeatLater DEF MonitorTimers, IInv, Noted
<1>11. Noted'
  BY <1>6, <1>7, <1>8, <1>9, <1>10 DEF Noted
<1> QED BY <1>3, <1>5, <1>11 DEF IInv

LEMMA ReceiveFrameOK ==
    ASSUME IInv, NEW frame \in Frames, ReceiveFrame(frame)
    PROVE  IInv' /\ StepOK(0, frame)
<1> DEFINE r == clm_iefb_periodic(clm, 0, frame)
           other == /\ frame.kind = "REQUEST"
                    /\ frame.remote_ip # MasterIp
                    /\ clm.master_state = "ARBITRATION"
<1>1. clm' = r
  BY DEF ReceiveFrame
<1>2. Handled(r, clm, frame) /\ (other => r.master_state = "STANDBY")
  BY FrameStep DEF IInv
<1>3. heard' = (heard \/ other)
  BY DEF ReceiveFrame
<1> HIDE DEF r, other
<1>4. MasterOK(clm')
  BY <1>1, <1>2 DEF Handled
<1>5. ASSUME NEW g \in group_nos
      PROVE  GroupStep(clm'.groups[g], clm.groups[g], g, 0,
                       AnsweredBy(frame, g))
  <2>1. Answers(clm, frame, g) = AnsweredBy(frame, g)
    BY DEF Answers, AnsweredBy
  <2> QED BY <1>1, <1>2, <2>1 DEF Handled, StackStep
<1>6. \/ /\ clm'.master_state = clm.master_state
         /\ clm'.arbitration_timer = clm.arbitration_timer
      \/ clm'.master_state = "STANDBY"
  BY <1>1, <1>2 DEF Handled
<1>7. StepOK(0, frame)
  BY <1>5, <1>6 DEF StepOK
<1>8. /\ scan' = [g \in group_nos |-> scan'[g]]
      /\ \A g \in group_nos : GroupNoted(scan'[g], clm'.groups[g], g)
  <2>1. scan' = ScanAfter(0, frame)
    BY DEF ReceiveFrame
  <2>2. 0 \in Nat
    OBVIOUS
  <2> QED BY <1>4, <1>7, <2>1, <2>2, NotesAfterStep
<1>9. listened' = listened /\ beat' = beat
  BY DEF ReceiveFrame
<1>10. other \in BOOLEAN
  BY DEF other
<1>11. heard' \in BOOLEAN
  BY <1>3
<1>12. heard' => clm'.master_state = "STANDBY"
  BY <1>1, <1>2, <1>3, <1>6 DEF IInv, Noted
<1>13. Noted'
  BY <1>6, <1>8, <1>9, <1>11, <1>12 DEF IInv, Noted
<1> QED BY <1>4, <1>7, <1>13 DEF IInv

-----------------------------------------------------------------------------
(* Calls of the application.                                               *)

SameDevice(r, dev) ==
    /\ r.device_state = dev.device_state
    /\ r.timeout_count = dev.timeout_count
    /\ r.transmission_bit = dev.transmission_bit
    /\ r.rx = dev.rx

(* A new call has begun, and nothing that a scan depends on has changed.   *)
Untouched(r, c) ==
    /\ MasterOK(r)
    /\ r.master_state = c.master_state
    /\ r.arbitration_timer = c.arbitration_timer
    /\ \A g \in group_nos :
          /\ r.groups[g].group_state = c.groups[g].group_state
          /\ r.groups[g].response_wait_timer = c.groups[g].response_wait_timer
          /\ r.groups[g].constant_linkscan_timer =
                c.groups[g].constant_linkscan_timer
          /\ r.groups[g].sent = {}
          /\ \A i \in device_nos(g) :
                SameDevice(r.groups[g].slave_devices[i],
                           c.groups[g].slave_devices[i])

LEMMA UntouchedOK ==
    ASSUME IInv, Untouched(clm', clm), UNCHANGED <<listened, heard, scan, beat>>
    PROVE  IInv' /\ StepOK(0, NoInput)
<1>1. ASSUME NEW g \in group_nos
      PROVE  GroupStep(clm'.groups[g], clm.groups[g], g, 0,
                       AnsweredBy(NoInput, g))
  <2> DEFINE r == clm'.groups[g]
             group == clm.groups[g]
             oks == AnsweredBy(NoInput, g)
  <2>1. /\ GroupOK(group, g)
        /\ r.group_state = group.group_state
        /\ r.response_wait_timer = group.response_wait_timer
        /\ r.constant_linkscan_timer = group.constant_linkscan_timer
        /\ r.sent = {}
        /\ \A i \in device_nos(g) :
              SameDevice(r.slave_devices[i], group.slave_devices[i])
    BY DEF Untouched, IInv, MasterOK, StackOK
  <2> HIDE DEF r, group, oks
  <2>2. ScanTimer(group).elapsed \in Nat /\ ScanTimer(r) = ScanTimer(group)
    <3>1. ScanTimer(group) \in Timer({0, hier[g].timeout_value})
      BY <2>1 DEF ScanTimer, GroupOK, GroupType
    <3> QED BY <2>1, <3>1 DEF Timer, ScanTimer
  <2>3. \A i \in device_nos(g) :
           /\ InputOK(r.slave_devices[i], group.slave_devices[i], group, g, i)
           /\ QuietDevice(r.slave_devices[i], group.slave_devices[i], i, oks)
    BY <2>1 DEF SameDevice, InputOK, QuietDevice
  <2>4. QuietStep(r, group, g, 0, oks)
    BY <2>1, <2>2, <2>3 DEF QuietStep, Between
  <2> QED BY <2>3, <2>4 DEF GroupStep, r, group, oks
<1>2. StepOK(0, NoInput)
  BY <1>1 DEF StepOK, Untouched
<1>3. ASSUME NEW g \in group_nos
      PROVE  GroupNoted(scan[g], clm'.groups[g], g)
  <2> DEFINE r == clm'.groups[g]
             group == clm.groups[g]
             note == scan[g]
  <2>1. /\ GroupNoted(note, group, g)
        /\ r.group_state = group.group_state
        /\ r.response_wait_timer = group.response_wait_timer
        /\ r.constant_linkscan_timer = group.constant_linkscan_timer
        /\ \A i \in device_nos(g) :
              SameDevice(r.slave_devices[i], group.slave_devices[i])
    BY DEF Untouched, IInv, Noted
  <2> HIDE DEF r, group, note
  <2>2. ScanTimer(r) = ScanTimer(group) /\ (Between(r) <=> Between(group))
    BY <2>1 DEF ScanTimer, Between
  <2>3. \A i \in device_nos(g) : DeviceNoted(note, r, i)
    BY <2>1 DEF GroupNoted, DeviceNoted, SameDevice
  <2> QED BY <2>1, <2>2, <2>3 DEF GroupNoted, r, group, note
<1>4. Noted'
  BY <1>3 DEF Untouched, IInv, Noted
<1> QED BY <1>2, <1>4 DEF IInv, Untouched

LEMMA NewCallOK ==
    ASSUME NEW c, MasterOK(c)
    PROVE  LET r == NewMasterCall(c)
           IN  /\ MasterOK(r)
               /\ SameShared(r, c)
               /\ \A g \in group_nos :
                     /\ HasFields(r.groups[g], GroupFields)
                     /\ r.groups[g].group_state = c.groups[g].group_state
                     /\ r.groups[g].frame_sequence_no =
                            c.groups[g].frame_sequence_no
                     /\ r.groups[g].slave_devices = c.groups[g].slave_devices
                     /\ r.groups[g].sent = {}
                     /\ r.groups[g].linkscan = {}
                     /\ r.groups[g].response_wait_timer =
                            c.groups[g].response_wait_timer
                     /\ r.groups[g].constant_linkscan_timer =
                            c.groups[g].constant_linkscan_timer
<1> DEFINE r == NewMasterCall(c)
<1>1. StackOK(c)
  BY DEF MasterOK
<1>2. /\ SameShared(r, c)
      /\ \A g \in group_nos :
            LET s == r.groups[g]
            IN  /\ HasFields(s, GroupFields)
                /\ s.group_state = c.groups[g].group_state
                /\ s.frame_sequence_no = c.groups[g].frame_sequence_no
                /\ s.slave_devices = c.groups[g].slave_devices
                /\ s.sent = {}
                /\ s.linkscan = {}
                /\ s.response_wait_timer = c.groups[g].response_wait_timer
                /\ s.constant_linkscan_timer =
                       c.groups[g].constant_linkscan_timer
  BY <1>1, NewCallFields DEF SameShared
<1> HIDE DEF r
<1>3. ASSUME NEW g \in group_nos
      PROVE  GroupOK(r.groups[g], g) /\ Unexpired(r.groups[g])
  <2> DEFINE s == r.groups[g]
             group == c.groups[g]
  <2>1. GroupOK(group, g) /\ Unexpired(group)
    BY DEF MasterOK, StackOK
  <2>2. /\ HasFields(s, GroupFields)
        /\ s.group_state = group.group_state
        /\ s.frame_sequence_no = group.frame_sequence_no
        /\ s.slave_devices = group.slave_devices
        /\ s.sent = {}
        /\ s.linkscan = {}
        /\ s.response_wait_timer = group.response_wait_timer
        /\ s.constant_linkscan_timer = group.constant_linkscan_timer
    BY <1>2
  <2> HIDE DEF s, group
  <2>3. GroupType(s, g)
    BY <2>1, <2>2 DEF GroupOK, GroupType
  <2>4. TimersOK(s, g) /\ Unexpired(s)
    BY <2>1, <2>2 DEF GroupOK, TimersOK, Unexpired
  <2>5. DevicesOK(s, g)
    BY <2>1, <2>2 DEF GroupOK, DevicesOK, Between
  <2> QED BY <2>3, <2>4, <2>5 DEF GroupOK, s
<1>4. MasterType(r)
  BY <1>1, <1>2, SameSharedType DEF StackOK
<1>5. MasterOK(r)
  BY <1>1, <1>2, <1>3, <1>4 DEF MasterOK, StackOK, SameShared
<1> QED BY <1>2, <1>5 DEF r

(* The application changes a setting of a device.                          *)
LEMMA UpdateDeviceOK ==
    ASSUME IInv, NEW g \in group_nos, NEW i \in device_nos(g), NEW dev,
           DeviceOK(dev, g, i), SameDevice(dev, Device(clm, g, i)),
           UpdateDevice(g, i, dev)
    PROVE  IInv' /\ StepOK(0, NoInput)
<1> DEFINE n == NewMasterCall(clm)
           r == [n EXCEPT !.groups[g].slave_devices[i] = dev]
<1>1. /\ MasterOK(n)
      /\ SameShared(n, clm)
      /\ \A h \in group_nos :
            /\ HasFields(n.groups[h], GroupFields)
            /\ n.groups[h].group_state = clm.groups[h].group_state
            /\ n.groups[h].frame_sequence_no =
                   clm.groups[h].frame_sequence_no
            /\ n.groups[h].slave_devices = clm.groups[h].slave_devices
            /\ n.groups[h].sent = {}
            /\ n.groups[h].linkscan = {}
            /\ n.groups[h].response_wait_timer =
                   clm.groups[h].response_wait_timer
            /\ n.groups[h].constant_linkscan_timer =
                   clm.groups[h].constant_linkscan_timer
  BY NewCallOK DEF IInv
<1>2. clm' = r /\ UNCHANGED <<listened, heard, scan, beat>>
  BY DEF UpdateDevice
<1>a. MasterOK(n)
  BY <1>1
<1> HIDE DEF n
<1>3. OneChanged(r, n, g, i) /\ r.groups[g].slave_devices[i] = dev
  BY <1>a, ChangeDevice
<1> HIDE DEF r
<1>4. n.groups[g].slave_devices[i] = Device(clm, g, i)
  BY <1>1 DEF Device
<1>5. Fits(dev, n.groups[g], g, i)
  <2>1. GroupOK(n.groups[g], g)
    BY <1>1 DEF MasterOK, StackOK
  <2> QED BY <1>4, <2>1 DEF GroupOK, DevicesOK, Fits, SameDevice
<1>6. MasterOK(r)
  BY <1>1, <1>3, <1>5, OneChangedOK
<1>7. ASSUME NEW h \in group_nos
      PROVE  /\ r.groups[h].group_state = clm.groups[h].group_state
             /\ r.groups[h].response_wait_timer =
                   clm.groups[h].response_wait_timer
             /\ r.groups[h].constant_linkscan_timer =
                   clm.groups[h].constant_linkscan_timer
             /\ r.groups[h].sent = {}
             /\ \A j \in device_nos(h) :
                   SameDevice(r.groups[h].slave_devices[j],
                              clm.groups[h].slave_devices[j])
  <2>1. CASE h = g
    <3>1. \A j \in device_nos(g) \ {i} :
             r.groups[g].slave_devices[j] = clm.groups[g].slave_devices[j]
      BY <1>1, <1>3 DEF OneChanged
    <3>2. \A j \in device_nos(g) :
             SameDevice(r.groups[g].slave_devices[j],
                        clm.groups[g].slave_devices[j])
      BY <1>3, <3>1 DEF SameDevice, Device
    <3> QED BY <1>1, <1>3, <2>1, <3>2 DEF OneChanged, SameScan
  <2>2. CASE h # g
    <3>1. r.groups[h] = n.groups[h]
      BY <1>3, <2>2 DEF OneChanged
    <3> QED BY <1>1, <3>1 DEF SameDevice
  <2> QED BY <2>1, <2>2
<1>8. Untouched(r, clm)
  BY <1>1, <1>3, <1>6, <1>7 DEF Untouched, OneChanged, SameShared
<1> QED BY <1>2, <1>8, UntouchedOK

LEMMA SettingsOK ==
    ASSUME NEW g \in group_nos, NEW i, NEW dev, DeviceOK(dev, g, i),
           NEW b \in BOOLEAN, NEW value, NEW r,
           \/ r = [dev EXCEPT !.enabled = b]
           \/ r = [dev EXCEPT !.force_transmission_bit = b]
           \/ r = [dev EXCEPT !.ry = value]
           \/ r = [dev EXCEPT !.latest = NoFrame]
    PROVE  DeviceOK(r, g, i) /\ SameDevice(r, dev)
<1>1. HasFields(dev, DeviceFields)
  BY DEF DeviceOK, DeviceType
<1>2. /\ HasFields(r, DeviceFields)
      /\ SameDevice(r, dev)
      /\ r.slave_id = dev.slave_id
      /\ r.on = dev.on
      /\ r.enabled = dev.enabled \/ r.enabled = b
      /\ \/ r.force_transmission_bit = dev.force_transmission_bit
         \/ r.force_transmission_bit = b
      /\ r.latest = dev.latest \/ r.latest = NoFrame
  <2>1. CASE r = [dev EXCEPT !.enabled = b]
    BY <1>1, <2>1 DEF HasFields, DeviceFields, SameDevice
  <2>2. CASE r = [dev EXCEPT !.force_transmission_bit = b]
    BY <1>1, <2>2 DEF HasFields, DeviceFields, SameDevice
  <2>3. CASE r = [dev EXCEPT !.ry = value]
    BY <1>1, <2>3 DEF HasFields, DeviceFields, SameDevice
  <2>4. CASE r = [dev EXCEPT !.latest = NoFrame]
    BY <1>1, <2>4 DEF HasFields, DeviceFields, SameDevice
  <2> QED BY <2>1, <2>2, <2>3, <2>4
<1>3. NoFrame \in 0..NoFrame
  BY MasterAssumption DEF NoFrame
<1>4. DeviceType(r, g, i)
  BY <1>2, <1>3 DEF DeviceOK, DeviceType, SameDevice
<1> QED BY <1>2, <1>4 DEF DeviceOK, SameDevice

LEMMA StatusOK ==
    ASSUME NEW running \in BOOLEAN, NEW stopped_by_user \in BOOLEAN
    PROVE  cl_iefb_validate_master_station_notification(
                [protocol_ver |-> MasterProtocolVer,
                 master_local_unit_info |->
                    clm_iefb_calc_master_local_unit_info(
                        MasterProtocolVer, running, stopped_by_user)])
<1>1. MasterProtocolVer \in ProtocolVersions
  BY ConfigAssumption DEF clm_validate_config
<1> QED BY <1>1 DEF cl_iefb_validate_master_station_notification,
                   clm_iefb_calc_master_local_unit_info, ProtocolVersions

LEMMA ApplicationStatusOK ==
    ASSUME IInv, NEW running \in BOOLEAN, NEW stopped_by_user \in BOOLEAN,
           clm_iefb_set_master_application_status(running, stopped_by_user)
    PROVE  IInv' /\ StepOK(0, NoInput)
<1> DEFINE n == NewMasterCall(clm)
           info == clm_iefb_calc_master_local_unit_info(
                        MasterProtocolVer, running, stopped_by_user)
           r == [n EXCEPT !.master_local_unit_info = info]
<1>1. /\ MasterOK(n)
      /\ SameShared(n, clm)
      /\ \A h \in group_nos :
            /\ HasFields(n.groups[h], GroupFields)
            /\ n.groups[h].group_state = clm.groups[h].group_state
            /\ n.groups[h].frame_sequence_no =
                   clm.groups[h].frame_sequence_no
            /\ n.groups[h].slave_devices = clm.groups[h].slave_devices
            /\ n.groups[h].sent = {}
            /\ n.groups[h].linkscan = {}
            /\ n.groups[h].response_wait_timer =
                   clm.groups[h].response_wait_timer
            /\ n.groups[h].constant_linkscan_timer =
                   clm.groups[h].constant_linkscan_timer
  BY NewCallOK DEF IInv
<1>2. clm' = r /\ UNCHANGED <<listened, heard, scan, beat>>
  BY DEF clm_iefb_set_master_application_status
<1>3. cl_iefb_validate_master_station_notification(
         [protocol_ver |-> MasterProtocolVer, master_local_unit_info |-> info])
  BY StatusOK
<1>4. HasFields(n, MasterFields)
  BY <1>1 DEF SameShared
<1> HIDE DEF n, info
<1>5. /\ HasFields(r, MasterFields)
      /\ r.master_state = n.master_state
      /\ r.arbitration_timer = n.arbitration_timer
      /\ r.parameter_no = n.parameter_no
      /\ r.master_local_unit_info = info
      /\ r.groups = n.groups
  BY <1>4 DEF HasFields, MasterFields
<1> HIDE DEF r
<1>6. MasterOK(r)
  <2>1. MasterType(r)
    BY <1>1, <1>3, <1>5 DEF MasterOK, StackOK, MasterType
  <2> QED BY <1>1, <1>5, <2>1 DEF MasterOK, StackOK
<1>7. Untouched(r, clm)
  BY <1>1, <1>5, <1>6 DEF Untouched, SameShared, SameDevice
<1> QED BY <1>2, <1>7, UntouchedOK

LEMMA ClearDevicesFields ==
    ASSUME NEW group, HasFields(group, GroupFields), NEW g
    PROVE  LET r == ClearDevices(group, g)
           IN  /\ HasFields(r, GroupFields)
               /\ r.group_state = group.group_state
               /\ SameScan(r, group)
               /\ r.slave_devices =
                    [i \in device_nos(g) |->
                        clm_iefb_latest_received_clear(group.slave_devices[i])]
  BY DEF HasFields, GroupFields, SameScan, ClearDevices

LEMMA StatisticsClearOK ==
    ASSUME IInv, clm_iefb_statistics_clear_all
    PROVE  IInv' /\ StepOK(0, NoInput)
<1> DEFINE n == NewMasterCall(clm)
           r == [n EXCEPT !.groups =
                    [g \in group_nos |-> ClearDevices(n.groups[g], g)]]
<1>1. /\ MasterOK(n)
      /\ SameShared(n, clm)
      /\ \A h \in group_nos :
            /\ HasFields(n.groups[h], GroupFields)
            /\ n.groups[h].group_state = clm.groups[h].group_state
            /\ n.groups[h].frame_sequence_no =
                   clm.groups[h].frame_sequence_no
            /\ n.groups[h].slave_devices = clm.groups[h].slave_devices
            /\ n.groups[h].sent = {}
            /\ n.groups[h].linkscan = {}
            /\ n.groups[h].response_wait_timer =
                   clm.groups[h].response_wait_timer
            /\ n.groups[h].constant_linkscan_timer =
                   clm.groups[h].constant_linkscan_timer
  BY NewCallOK DEF IInv
<1>2. clm' = r /\ UNCHANGED <<listened, heard, scan, beat>>
  BY DEF clm_iefb_statistics_clear_all
<1>3. HasFields(n, MasterFields)
  BY <1>1 DEF SameShared
<1> HIDE DEF n
<1>4. /\ HasFields(r, MasterFields)
      /\ r.master_state = n.master_state
      /\ r.arbitration_timer = n.arbitration_timer
      /\ r.parameter_no = n.parameter_no
      /\ r.master_local_unit_info = n.master_local_unit_info
      /\ r.groups = [g \in group_nos |-> ClearDevices(n.groups[g], g)]
  BY <1>3 DEF HasFields, MasterFields
<1> HIDE DEF r
<1>5. SameShared(r, n)
  BY <1>4 DEF SameShared
<1>6. ASSUME NEW g \in group_nos
      PROVE  /\ GroupOK(r.groups[g], g)
             /\ Unexpired(r.groups[g])
             /\ r.groups[g].group_state = n.groups[g].group_state
             /\ SameScan(r.groups[g], n.groups[g])
             /\ \A i \in device_nos(g) :
                   SameDevice(r.groups[g].slave_devices[i],
                              n.groups[g].slave_devices[i])
  <2> DEFINE group == n.groups[g]
             s == r.groups[g]
  <2>1. s = ClearDevices(group, g)
    BY <1>4
  <2>2. GroupOK(group, g) /\ Unexpired(group)
    BY <1>1 DEF MasterOK, StackOK
  <2> HIDE DEF group, s
  <2>3. HasFields(group, GroupFields)
    BY <2>2 DEF GroupOK, GroupType
  <2>4. /\ HasFields(s, GroupFields)
        /\ s.group_state = group.group_state
        /\ SameScan(s, group)
        /\ s.slave_devices =
             [i \in device_nos(g) |->
                 clm_iefb_latest_received_clear(group.slave_devices[i])]
    BY <2>1, <2>3, ClearDevicesFields
  <2>5. ASSUME NEW i \in device_nos(g)
        PROVE  /\ DeviceOK(s.slave_devices[i], g, i)
               /\ SameDevice(s.slave_devices[i], group.slave_devices[i])
    <3> DEFINE dev == group.slave_devices[i]
               after == s.slave_devices[i]
    <3>1. DeviceOK(dev, g, i)
      BY <2>2 DEF GroupOK, DevicesOK
    <3>2. after = [dev EXCEPT !.latest = NoFrame]
      BY <2>4 DEF clm_iefb_latest_received_clear
    <3> HIDE DEF dev, after
    <3>3. DeviceOK(after, g, i) /\ SameDevice(after, dev)
      BY <3>1, <3>2, SettingsOK
    <3> QED BY <3>3 DEF dev, after
  <2>6. GroupType(s, g)
    BY <2>2, <2>4 DEF GroupOK, GroupType, SameScan
  <2>7. TimersOK(s, g) /\ Unexpired(s)
    BY <2>2, <2>4 DEF GroupOK, TimersOK, Unexpired, SameScan
  <2>8. DevicesOK(s, g)
    BY <2>2, <2>4, <2>5 DEF GroupOK, DevicesOK, SameScan, SameDevice, Between
  <2> QED BY <2>4, <2>5, <2>6, <2>7, <2>8 DEF GroupOK, group, s
<1>7. MasterType(r)
  BY <1>1, <1>5, SameSharedType DEF MasterOK, StackOK
<1>8. MasterOK(r)
  BY <1>1, <1>5, <1>6, <1>7 DEF MasterOK, StackOK, SameShared, SameScan
<1>9. Untouched(r, clm)
  BY <1>1, <1>5, <1>6, <1>8 DEF Untouched, SameShared, SameScan
<1> QED BY <1>2, <1>9, UntouchedOK

LEMMA ApplicationOK ==
    ASSUME IInv, Application
    PROVE  IInv' /\ StepOK(0, NoInput)
<1>1. ASSUME NEW g \in group_nos, NEW i \in device_nos(g)
      PROVE  DeviceOK(Device(clm, g, i), g, i)
  BY DEF IInv, MasterOK, StackOK, GroupOK, DevicesOK, Device
<1>2. ASSUME NEW g \in group_nos, NEW i \in device_nos(g),
             NEW b \in BOOLEAN,
             clm_iefb_set_slave_communication_status(g, i, b)
      PROVE  IInv' /\ StepOK(0, NoInput)
  <2> DEFINE dev == [Device(clm, g, i) EXCEPT !.enabled = b]
  <2>1. DeviceOK(dev, g, i) /\ SameDevice(dev, Device(clm, g, i))
    BY <1>1, SettingsOK
  <2>2. UpdateDevice(g, i, dev)
    BY <1>2 DEF clm_iefb_set_slave_communication_status
  <2> HIDE DEF dev
  <2> QED BY <2>1, <2>2, UpdateDeviceOK
<1>3. ASSUME NEW g \in group_nos, NEW i \in device_nos(g),
             NEW b \in BOOLEAN,
             clm_iefb_force_cyclic_transmission_bit(g, i, b)
      PROVE  IInv' /\ StepOK(0, NoInput)
  <2> DEFINE dev == [Device(clm, g, i) EXCEPT !.force_transmission_bit = b]
  <2>1. DeviceOK(dev, g, i) /\ SameDevice(dev, Device(clm, g, i))
    BY <1>1, SettingsOK
  <2>2. UpdateDevice(g, i, dev)
    BY <1>3 DEF clm_iefb_force_cyclic_transmission_bit
  <2> HIDE DEF dev
  <2> QED BY <2>1, <2>2, UpdateDeviceOK
<1>4. ASSUME NEW g \in group_nos, NEW i \in device_nos(g),
             NEW value \in RyValues, clm_iefb_set_ry(g, i, value)
      PROVE  IInv' /\ StepOK(0, NoInput)
  <2> DEFINE dev == [Device(clm, g, i) EXCEPT !.ry = value]
  <2>1. DeviceOK(dev, g, i) /\ SameDevice(dev, Device(clm, g, i))
    BY <1>1, SettingsOK
  <2>2. UpdateDevice(g, i, dev)
    BY <1>4 DEF clm_iefb_set_ry
  <2> HIDE DEF dev
  <2> QED BY <2>1, <2>2, UpdateDeviceOK
<1>5. ASSUME NEW status \in Statuses,
             clm_iefb_set_master_application_status(status[1], status[2])
      PROVE  IInv' /\ StepOK(0, NoInput)
  <2>1. status[1] \in BOOLEAN /\ status[2] \in BOOLEAN
    BY StatusAssumption
  <2> QED BY <1>5, <2>1, ApplicationStatusOK
<1> QED BY <1>2, <1>3, <1>4, <1>5, StatisticsClearOK DEF Application

-----------------------------------------------------------------------------
(* The start of the stack.                                                 *)

(* What clm_iefb_device_init() makes of a device.                          *)
Made(r, dev) ==
    /\ HasFields(r, DeviceFields)
    /\ r.device_state = dev.device_state
    /\ r.enabled \in BOOLEAN
    /\ r.transmission_bit \in BOOLEAN
    /\ ~r.transmission_bit
    /\ r.force_transmission_bit = dev.force_transmission_bit
    /\ r.timeout_count = 0
    /\ r.latest = NoFrame
    /\ r.rx = dev.rx
    /\ r.slave_id = dev.slave_id
    /\ r.on = dev.on

LEMMA DeviceInitFields ==
    ASSUME NEW dev, HasFields(dev, DeviceFields), NEW g, NEW i
    PROVE  Made(clm_iefb_device_init(dev, g, i), dev)
<1> DEFINE b == ~Setting(g, i).reserved_slave_device
           f == FALSE
           r == [dev EXCEPT !.enabled = b, !.transmission_bit = f,
                            !.latest = NoFrame, !.timeout_count = 0]
<1>1. clm_iefb_device_init(dev, g, i) = r
  BY DEF clm_iefb_device_init
<1>2. b \in BOOLEAN /\ f \in BOOLEAN /\ ~f
  OBVIOUS
<1> HIDE DEF b, f
<1>3. /\ HasFields(r, DeviceFields)
      /\ r.device_state = dev.device_state
      /\ r.enabled = b
      /\ r.transmission_bit = f
      /\ r.force_transmission_bit = dev.force_transmission_bit
      /\ r.timeout_count = 0
      /\ r.latest = NoFrame
      /\ r.rx = dev.rx
      /\ r.slave_id = dev.slave_id
      /\ r.on = dev.on
  BY DEF HasFields, DeviceFields
<1> HIDE DEF r
<1>4. Made(r, dev)
  BY <1>2, <1>3 DEF Made
<1> QED BY <1>1, <1>4

(* A device that waits and has never received anything.                    *)
Unused(dev, g, i) ==
    /\ DeviceOK(dev, g, i)
    /\ dev.device_state = "LISTEN"
    /\ ~dev.transmission_bit
    /\ dev.rx = NoData

(* A device before the start.                                              *)
Down(dev) ==
    /\ HasFields(dev, DeviceFields)
    /\ dev.device_state = "MASTER_DOWN"
    /\ dev.force_transmission_bit \in BOOLEAN
    /\ dev.on \in BOOLEAN
    /\ dev.rx = NoData
    /\ dev.slave_id = NoIp

LEMMA DeviceStartup ==
    ASSUME NEW g \in group_nos, NEW i \in device_nos(g), NEW dev,
           Down(dev)
    PROVE  Unused(clm_iefb_device_fsm_event(dev, g, i, "GROUP_STARTUP"), g, i)
<1> DEFINE row == <<"MASTER_DOWN", "GROUP_STARTUP", "LISTEN", "device_init">>
           moved == [dev EXCEPT !.device_state = "LISTEN"]
           made == clm_iefb_device_init(moved, g, i)
           r == [made EXCEPT !.timeout_count = 0]
<1>1. device_fsm_matrix("MASTER_DOWN", "GROUP_STARTUP") = row
  <2>1. row \in device_transitions
    BY DEF device_transitions
  <2>2. \A t \in device_transitions :
           t[1] = "MASTER_DOWN" /\ t[2] = "GROUP_STARTUP" => t = row
    BY DEF device_transitions
  <2> HIDE DEF row
  <2>3. row[1] = "MASTER_DOWN" /\ row[2] = "GROUP_STARTUP"
    BY DEF row
  <2> QED BY <2>1, <2>2, <2>3, RowOf
<1>2. clm_iefb_device_fsm_event(dev, g, i, "GROUP_STARTUP") =
         device_fsm_turn(dev, g, i, "GROUP_STARTUP")
  BY DEF clm_iefb_device_fsm_event, DeviceFollowUp
<1>3. device_fsm_turn(dev, g, i, "GROUP_STARTUP") =
         DeviceOnEntry(DeviceAction(moved, g, i, "device_init"),
                       "MASTER_DOWN")
  BY <1>1 DEF device_fsm_turn, Down
<1>4. DeviceAction(moved, g, i, "device_init") = made
  BY DEF DeviceAction
<1>5. /\ HasFields(moved, DeviceFields)
      /\ moved.device_state = "LISTEN"
      /\ moved.force_transmission_bit = dev.force_transmission_bit
      /\ moved.on = dev.on
      /\ moved.rx = dev.rx
      /\ moved.slave_id = dev.slave_id
  BY DEF HasFields, DeviceFields, Down
<1> HIDE DEF moved
<1>6. Made(made, moved)
  BY <1>5, DeviceInitFields
<1> HIDE DEF made
<1>7. DeviceOnEntry(made, "MASTER_DOWN") = r
  BY <1>5, <1>6 DEF Made, DeviceOnEntry, clm_iefb_reset_timeout_count
<1>8. r = made
  BY <1>6 DEF Made, HasFields, DeviceFields
<1> HIDE DEF r
<1>9. NoFrame \in 0..NoFrame
  BY MasterAssumption DEF NoFrame
<1>10. hier[g].parallel_off_timeout_count \in Nat \ {0}
  BY ConfigAssumption DEF clm_validate_config
<1>11. DeviceType(made, g, i)
  BY <1>5, <1>6, <1>9 DEF Down, Made, DeviceType, clm_device_states
<1>12. Unused(made, g, i)
  BY <1>5, <1>6, <1>10, <1>11 DEF Down, Made, DeviceOK, Unused
<1> QED BY <1>2, <1>3, <1>4, <1>7, <1>8, <1>12

(* A group whose devices wait, with its timers stopped.                    *)
Idle(group, g, state) ==
    /\ HasFields(group, GroupFields)
    /\ group.group_state = state
    /\ group.frame_sequence_no = 0
    /\ group.response_wait_timer = cl_timer_stop
    /\ group.constant_linkscan_timer = cl_timer_stop
    /\ group.sent = {}
    /\ group.linkscan = {}
    /\ group.slave_devices =
            [i \in device_nos(g) |-> group.slave_devices[i]]
    /\ \A i \in device_nos(g) : Unused(group.slave_devices[i], g, i)

LEMMA IdleIsOK ==
    ASSUME NEW g \in group_nos, NEW group,
           Idle(group, g, "MASTER_ARBITRATION")
    PROVE  GroupOK(group, g) /\ Unexpired(group)
<1>1. /\ cl_timer_stop \in Timer({0, hier[g].timeout_value})
      /\ ~Running(cl_timer_stop)
      /\ ~cl_timer_is_expired(cl_timer_stop)
  BY StopTimer
<1>2. 0 \in 0..MaxSequenceNo
  BY MasterAssumption
<1>3. GroupType(group, g)
  BY <1>1, <1>2 DEF Idle, GroupType, clm_group_states
<1>4. TimersOK(group, g)
  BY <1>1 DEF Idle, TimersOK
<1>5. DevicesOK(group, g)
  BY DEF Idle, Unused, DevicesOK
<1> QED BY <1>1, <1>3, <1>4, <1>5 DEF GroupOK, Unexpired, Idle

SwitchedOff(dev) == [dev EXCEPT !.device_state = "MASTER_DOWN", !.on = FALSE]

LEMMA ClearedIsDown ==
    /\ Down(SwitchedOff(ClearedDevice))
<1> DEFINE f == FALSE
           dev == ClearedDevice
<1>1. SwitchedOff(dev) =
         [dev EXCEPT !.device_state = "MASTER_DOWN", !.on = f]
  BY DEF SwitchedOff
<1>2. f \in BOOLEAN
  OBVIOUS
<1>3. /\ HasFields(dev, DeviceFields)
      /\ dev.force_transmission_bit \in BOOLEAN
      /\ dev.rx = NoData
      /\ dev.slave_id = NoIp
  BY DEF ClearedDevice, HasFields, DeviceFields
<1> HIDE DEF f, dev
<1> QED BY <1>1, <1>2, <1>3 DEF Down, HasFields, DeviceFields, dev

LEMMA GroupStartup ==
    ASSUME NEW g \in group_nos, NEW c
    PROVE  Idle(GroupAfter(ClearedGroup(g), g, "STARTUP", c), g,
                "MASTER_LISTEN")
<1> DEFINE cleared == ClearedGroup(g)
           entered == [cleared EXCEPT !.group_state = "MASTER_LISTEN"]
           offs == [i \in device_nos(g) |-> SwitchedOff(ClearedDevice)]
           reset == [entered EXCEPT
                        !.response_wait_timer = cl_timer_stop,
                        !.constant_linkscan_timer = cl_timer_stop,
                        !.frame_sequence_no = 0,
                        !.slave_devices = offs]
           started == clm_iefb_device_fsm_event_all_in_group(
                            reset, g, "GROUP_STARTUP")
           r == clm_iefb_device_fsm_event_all_in_group(
                            started, g, "GROUP_STANDBY")
<1>1. /\ HasFields(cleared, GroupFields)
      /\ cleared.group_state = "MASTER_DOWN"
      /\ cleared.sent = {}
      /\ cleared.linkscan = {}
      /\ cleared.slave_devices = [i \in device_nos(g) |-> ClearedDevice]
  BY DEF ClearedGroup, HasFields, GroupFields
<1>2. NextGroupState("MASTER_DOWN", "STARTUP") = "MASTER_LISTEN"
  BY GroupEntry DEF EntryOf, FromOf, group_events
<1> HIDE DEF cleared
<1>3. /\ HasFields(entered, GroupFields)
      /\ entered.group_state = "MASTER_LISTEN"
      /\ SameScan(entered, cleared)
      /\ entered.slave_devices = cleared.slave_devices
  BY <1>1, Enter
<1>4. group_fsm_turn(cleared, g, "STARTUP", c) =
         GroupOnEntry(clm_iefb_group_init(entered, g), g)
  BY <1>1, <1>2 DEF group_fsm_turn, GroupAction
<1> HIDE DEF entered
<1>5. clm_iefb_group_init(entered, g) = started
  <2>1. [i \in device_nos(g) |->
            [entered.slave_devices[i] EXCEPT
                !.device_state = "MASTER_DOWN", !.on = FALSE]] = offs
    BY <1>1, <1>3 DEF SwitchedOff
  <2> QED BY <2>1 DEF clm_iefb_group_init
<1> HIDE DEF offs
<1>6. /\ HasFields(reset, GroupFields)
      /\ reset.group_state = "MASTER_LISTEN"
      /\ reset.frame_sequence_no = 0
      /\ reset.response_wait_timer = cl_timer_stop
      /\ reset.constant_linkscan_timer = cl_timer_stop
      /\ reset.sent = {}
      /\ reset.linkscan = {}
      /\ reset.slave_devices = offs
  BY <1>1, <1>3 DEF SameScan, HasFields, GroupFields
<1> HIDE DEF reset
<1>7. /\ HasFields(started, GroupFields)
      /\ started.group_state = reset.group_state
      /\ SameScan(started, reset)
      /\ started.slave_devices =
           [i \in device_nos(g) |->
              clm_iefb_device_fsm_event(reset.slave_devices[i], g, i,
                                        "GROUP_STARTUP")]
  BY <1>6, AllDevices
<1> HIDE DEF started
<1>8. GroupOnEntry(started, g) = r
  BY <1>6, <1>7 DEF GroupOnEntry
<1>9. GroupAfter(cleared, g, "STARTUP", c) = r
  BY <1>4, <1>5, <1>8 DEF GroupAfter, GroupFollowUp, AsksForScan
<1>10. /\ HasFields(r, GroupFields)
       /\ r.group_state = started.group_state
       /\ SameScan(r, started)
       /\ r.slave_devices =
            [i \in device_nos(g) |->
               clm_iefb_device_fsm_event(started.slave_devices[i], g, i,
                                         "GROUP_STANDBY")]
  BY <1>7, AllDevices
<1> HIDE DEF r
<1>11. ASSUME NEW i \in device_nos(g)
       PROVE  Unused(r.slave_devices[i], g, i)
  <2>1. Unused(started.slave_devices[i], g, i)
    <3>1. reset.slave_devices[i] = SwitchedOff(ClearedDevice)
      BY <1>6 DEF offs
    <3>2. Down(reset.slave_devices[i])
      BY <3>1, ClearedIsDown
    <3> QED BY <1>7, <3>2, DeviceStartup
  <2>2. Listening(r.slave_devices[i], started.slave_devices[i], g, i)
    BY <1>10, <2>1, DeviceToListen DEF Unused
  <2> QED BY <2>1, <2>2 DEF Unused, Listening, SameRequest
<1>12. r.slave_devices = [i \in device_nos(g) |-> r.slave_devices[i]]
  BY <1>10
<1>13. Idle(r, g, "MASTER_LISTEN")
  BY <1>6, <1>7, <1>10, <1>11, <1>12 DEF Idle, SameScan
<1> QED BY <1>9, <1>13 DEF cleared

Prepared(dev, id) ==
    [dev EXCEPT !.timeout_count = 0, !.slave_id = id, !.on = FALSE,
                !.data = NoData]

LEMMA PreparedIsUnused ==
    ASSUME NEW g \in group_nos, NEW i \in device_nos(g), NEW dev,
           Unused(dev, g, i)
    PROVE  Unused(Prepared(dev, Setting(g, i).slave_id), g, i)
<1> DEFINE f == FALSE
           id == Setting(g, i).slave_id
           r == [dev EXCEPT !.timeout_count = 0, !.slave_id = id, !.on = f,
                            !.data = NoData]
<1>1. Prepared(dev, id) = r
  BY DEF Prepared
<1>2. f \in BOOLEAN /\ ~f
  OBVIOUS
<1>3. /\ HasFields(dev, DeviceFields)
      /\ dev.device_state = "LISTEN"
      /\ dev.enabled \in BOOLEAN
      /\ dev.transmission_bit \in BOOLEAN
      /\ dev.force_transmission_bit \in BOOLEAN
      /\ ~dev.transmission_bit
      /\ dev.latest \in 0..NoFrame
      /\ dev.rx = NoData
  BY DEF Unused, DeviceOK, DeviceType
<1> HIDE DEF f, id
<1>4. /\ HasFields(r, DeviceFields)
      /\ r.device_state = dev.device_state
      /\ r.enabled = dev.enabled
      /\ r.transmission_bit = dev.transmission_bit
      /\ r.force_transmission_bit = dev.force_transmission_bit
      /\ r.timeout_count = 0
      /\ r.latest = dev.latest
      /\ r.rx = dev.rx
      /\ r.slave_id = id
      /\ r.on = f
  BY <1>3 DEF HasFields, DeviceFields
<1> HIDE DEF r
<1>5. hier[g].parallel_off_timeout_count \in Nat \ {0}
  BY ConfigAssumption DEF clm_validate_config
<1>6. DeviceType(r, g, i)
  BY <1>2, <1>3, <1>4 DEF DeviceType, clm_device_states, id
<1>7. DeviceOK(r, g, i)
  BY <1>2, <1>3, <1>4, <1>5, <1>6 DEF DeviceOK
<1> QED BY <1>1, <1>3, <1>4, <1>7 DEF Unused, id

LEMMA GroupConfigured ==
    ASSUME NEW g \in group_nos, NEW group, Idle(group, g, "MASTER_LISTEN"),
           NEW c
    PROVE  Idle(GroupAfter(group, g, "NEW_CONFIG", c), g, "MASTER_ARBITRATION")
<1> DEFINE entered == [group EXCEPT !.group_state = "MASTER_ARBITRATION"]
           devs == [i \in device_nos(g) |->
                        Prepared(group.slave_devices[i],
                                 Setting(g, i).slave_id)]
           r == [entered EXCEPT !.frame_sequence_no = 0,
                                !.slave_devices = devs]
<1>1. HasFields(group, GroupFields) /\ group.group_state = "MASTER_LISTEN"
  BY DEF Idle
<1>2. NextGroupState("MASTER_LISTEN", "NEW_CONFIG") = "MASTER_ARBITRATION"
  BY GroupEntry DEF EntryOf, FromOf, group_events
<1>3. /\ HasFields(entered, GroupFields)
      /\ entered.group_state = "MASTER_ARBITRATION"
      /\ SameScan(entered, group)
      /\ entered.slave_devices = group.slave_devices
  BY <1>1, Enter
<1>4. group_fsm_turn(group, g, "NEW_CONFIG", c) =
         GroupOnEntry(clm_iefb_reflect_group_parameters(entered, g), g)
  BY <1>1, <1>2 DEF group_fsm_turn, GroupAction
<1> HIDE DEF entered
<1>5. clm_iefb_reflect_group_parameters(entered, g) = r
  BY <1>3 DEF clm_iefb_reflect_group_parameters, Prepared
<1> HIDE DEF devs
<1>6. /\ HasFields(r, GroupFields)
      /\ r.group_state = "MASTER_ARBITRATION"
      /\ r.frame_sequence_no = 0
      /\ r.response_wait_timer = group.response_wait_timer
      /\ r.constant_linkscan_timer = group.constant_linkscan_timer
      /\ r.sent = group.sent
      /\ r.linkscan = group.linkscan
      /\ r.slave_devices = devs
  BY <1>3 DEF SameScan, HasFields, GroupFields
<1> HIDE DEF r
<1>7. GroupAfter(group, g, "NEW_CONFIG", c) = r
  BY <1>4, <1>5, <1>6
     DEF GroupAfter, GroupFollowUp, AsksForScan, GroupOnEntry
<1>8. ASSUME NEW i \in device_nos(g)
      PROVE  Unused(r.slave_devices[i], g, i)
  <2>1. Unused(group.slave_devices[i], g, i)
    BY DEF Idle
  <2>2. r.slave_devices[i] =
            Prepared(group.slave_devices[i], Setting(g, i).slave_id)
    BY <1>6 DEF devs
  <2> QED BY <2>1, <2>2, PreparedIsUnused
<1>9. r.slave_devices = [i \in device_nos(g) |-> r.slave_devices[i]]
  BY <1>6 DEF devs
<1>10. Idle(r, g, "MASTER_ARBITRATION")
  BY <1>6, <1>8, <1>9 DEF Idle
<1> QED BY <1>7, <1>10

(* The stack as clm_init() leaves it.                                      *)
Fresh(c) ==
    /\ MasterOK(c)
    /\ c.master_state = "ARBITRATION"
    /\ c.arbitration_timer.elapsed = 0
    /\ \A g \in group_nos : Idle(c.groups[g], g, "MASTER_ARBITRATION")

LEMMA EveryGroupMoves ==
    ASSUME NEW c, HasFields(c, MasterFields), NEW e \in group_events,
           \A g \in group_nos : c.groups[g].group_state \in FromOf(e)
    PROVE  LET r == clm_iefb_group_fsm_event_all(c, e)
           IN  /\ HasFields(r, MasterFields)
               /\ r.master_state = SharedState(c, EntryOf(e))
               /\ r.arbitration_timer = SharedTimer(c, EntryOf(e))
               /\ r.parameter_no = c.parameter_no
               /\ r.master_local_unit_info = c.master_local_unit_info
               /\ r.groups = [g \in group_nos |-> r.groups[g]]
               /\ \A g \in group_nos :
                     r.groups[g] = GroupAfter(c.groups[g], g, e, c)
<1> DEFINE r == clm_iefb_group_fsm_event(c, group_nos, e)
<1>1. clm_iefb_group_fsm_event_all(c, e) = r
  BY DEF clm_iefb_group_fsm_event_all
<1>2. Moving(c, group_nos, e) = group_nos
  BY DEF Moving
<1>3. group_nos # {}
  <2>1. Len(hier) \in MinGroupNo..MaxGroupNo
    BY ConfigAssumption DEF clm_validate_config
  <2>2. \A n \in MinGroupNo..MaxGroupNo : 1 \in 1..n
    BY DEF MinGroupNo, MaxGroupNo
  <2> QED BY <2>1, <2>2 DEF group_nos
<1>4. Moving(c, group_nos, e) # {}
  BY <1>2, <1>3
<1>5. /\ HasFields(r, MasterFields)
      /\ r.master_state = SharedState(c, EntryOf(e))
      /\ r.arbitration_timer = SharedTimer(c, EntryOf(e))
      /\ r.parameter_no = c.parameter_no
      /\ r.master_local_unit_info = c.master_local_unit_info
      /\ r.groups = AfterEvent(c, group_nos, e)
  BY <1>4, SomeMove
<1> HIDE DEF r
<1>6. /\ r.groups = [g \in group_nos |-> r.groups[g]]
      /\ \A g \in group_nos : r.groups[g] = GroupAfter(c.groups[g], g, e, c)
  BY <1>2, <1>5 DEF AfterEvent
<1> QED BY <1>1, <1>5, <1>6

LEMMA InitIsFresh ==
    ASSUME NEW p \in 0..MaxParameterNo
    PROVE  Fresh(clm_iefb_init(p))
<1> DEFINE c0 == [master_state |-> "DOWN", arbitration_timer |-> cl_timer_stop,
                  parameter_no |-> p, master_local_unit_info |-> 1,
                  groups |-> [g \in group_nos |-> ClearedGroup(g)],
                  errors |-> {}]
           c1 == clm_iefb_group_fsm_event_all(c0, "STARTUP")
           n == (c1.parameter_no + 1) % (MaxParameterNo + 1)
           c2 == [c1 EXCEPT !.parameter_no = n]
           r == clm_iefb_group_fsm_event_all(c2, "NEW_CONFIG")
<1>1. clm_iefb_init(p) = r
  BY DEF clm_iefb_init, clm_iefb_handle_new_config
<1>2. /\ HasFields(c0, MasterFields)
      /\ c0.parameter_no = p
      /\ c0.master_local_unit_info = 1
      /\ c0.groups = [g \in group_nos |-> ClearedGroup(g)]
  BY DEF HasFields, MasterFields
<1> HIDE DEF c0
<1>3. "STARTUP" \in group_events /\ "NEW_CONFIG" \in group_events
  BY DEF group_events
<1>4. \A g \in group_nos : c0.groups[g].group_state \in FromOf("STARTUP")
  BY <1>2 DEF ClearedGroup, FromOf
<1>5. /\ HasFields(c1, MasterFields)
      /\ c1.master_state = SharedState(c0, EntryOf("STARTUP"))
      /\ c1.arbitration_timer = SharedTimer(c0, EntryOf("STARTUP"))
      /\ c1.parameter_no = c0.parameter_no
      /\ c1.master_local_unit_info = c0.master_local_unit_info
      /\ c1.groups = [g \in group_nos |-> c1.groups[g]]
      /\ \A g \in group_nos :
            c1.groups[g] = GroupAfter(c0.groups[g], g, "STARTUP", c0)
  BY <1>2, <1>3, <1>4, EveryGroupMoves
<1> HIDE DEF c1
<1>6. \A g \in group_nos : Idle(c1.groups[g], g, "MASTER_LISTEN")
  BY <1>2, <1>5, GroupStartup
<1>7. c1.arbitration_timer = cl_timer_stop
  BY <1>5 DEF SharedTimer, EntryOf
<1>8. n \in 0..MaxParameterNo
  BY <1>2, <1>5, MasterAssumption
<1> HIDE DEF n
<1>9. /\ HasFields(c2, MasterFields)
      /\ c2.arbitration_timer = cl_timer_stop
      /\ c2.parameter_no = n
      /\ c2.master_local_unit_info = 1
      /\ c2.groups = c1.groups
  BY <1>2, <1>5, <1>7 DEF HasFields, MasterFields
<1> HIDE DEF c2
<1>10. \A g \in group_nos : c2.groups[g].group_state \in FromOf("NEW_CONFIG")
  BY <1>6, <1>9 DEF Idle, FromOf
<1>11. /\ HasFields(r, MasterFields)
       /\ r.master_state = SharedState(c2, EntryOf("NEW_CONFIG"))
       /\ r.arbitration_timer = SharedTimer(c2, EntryOf("NEW_CONFIG"))
       /\ r.parameter_no = c2.parameter_no
       /\ r.master_local_unit_info = c2.master_local_unit_info
       /\ r.groups = [g \in group_nos |-> r.groups[g]]
       /\ \A g \in group_nos :
             r.groups[g] = GroupAfter(c2.groups[g], g, "NEW_CONFIG", c2)
  BY <1>3, <1>9, <1>10, EveryGroupMoves
<1> HIDE DEF r
<1>12. \A g \in group_nos : Idle(r.groups[g], g, "MASTER_ARBITRATION")
  BY <1>6, <1>9, <1>11, GroupConfigured
<1>13. /\ r.master_state = "ARBITRATION"
       /\ r.arbitration_timer = cl_timer_start(ArbitrationTime)
  BY <1>9, <1>11
     DEF SharedState, SharedTimer, EntryOf, cl_timer_start_if_not_running,
         cl_timer_stop
<1>14. /\ r.arbitration_timer \in Timer({0, ArbitrationTime})
       /\ Running(r.arbitration_timer)
       /\ ~cl_timer_is_expired(r.arbitration_timer)
       /\ r.arbitration_timer.elapsed = 0
  BY <1>13, MasterAssumption
     DEF cl_timer_start, Timer, Running, cl_timer_is_expired
<1>15. cl_iefb_validate_master_station_notification(
          [protocol_ver |-> MasterProtocolVer,
           master_local_unit_info |-> r.master_local_unit_info])
  BY <1>9, <1>11 DEF cl_iefb_validate_master_station_notification
<1>16. MasterType(r)
  BY <1>8, <1>9, <1>11, <1>13, <1>14, <1>15 DEF MasterType
<1>17. \A g \in group_nos : GroupOK(r.groups[g], g) /\ Unexpired(r.groups[g])
  BY <1>12, IdleIsOK
<1>18. MasterOK(r)
  BY <1>12, <1>13, <1>14, <1>16, <1>17
     DEF MasterOK, StackOK, Idle, PhaseOf
<1> QED BY <1>1, <1>12, <1>13, <1>14, <1>18 DEF Fresh, r

LEMMA FreshIsNoted ==
    ASSUME NEW c, Fresh(c), NEW g \in group_nos
    PROVE  GroupNoted(NoScanYet[g], c.groups[g], g)
<1> DEFINE limit == hier[g].timeout_value
           none == [i \in device_nos(g) |-> 0]
           note == [since |-> limit, gap |-> limit, answered |-> {},
                    missed |-> none]
           group == c.groups[g]
<1>1. NoScanYet[g] = note
  BY DEF NoScanYet
<1>2. Idle(group, g, "MASTER_ARBITRATION")
  BY DEF Fresh
<1>3. limit \in Nat
  BY Periods
<1>4. hier[g].parallel_off_timeout_count \in Nat \ {0}
  BY ConfigAssumption DEF clm_validate_config
<1> HIDE DEF group
<1>5. \A i \in device_nos(g) : none[i] = 0
  OBVIOUS
<1> HIDE DEF none, limit
<1>6. /\ HasFields(note, {"since", "gap", "answered", "missed"})
      /\ note.since = limit
      /\ note.gap = limit
      /\ note.missed = none
  BY DEF HasFields
<1> HIDE DEF note
<1>7. ASSUME NEW i \in device_nos(g)
      PROVE  /\ DeviceNoted(note, group, i)
             /\ note.missed[i] < hier[g].parallel_off_timeout_count
  BY <1>2, <1>4, <1>5, <1>6 DEF DeviceNoted, Idle, Unused
<1>8. GroupNoted(note, group, g)
  BY <1>2, <1>3, <1>6, <1>7 DEF GroupNoted, Idle, Between, limit
<1> QED BY <1>1, <1>8 DEF group

LEMMA InitOK ==
    ASSUME Init
    PROVE  IInv
<1>1. 0 \in 0..MaxParameterNo
  BY MasterAssumption
<1>2. Fresh(clm)
  BY <1>1, InitIsFresh DEF Init
<1>3. \A g \in group_nos : GroupNoted(scan[g], clm.groups[g], g)
  BY <1>2, FreshIsNoted DEF Init
<1>4. scan = [g \in group_nos |-> scan[g]]
  BY DEF Init, NoScanYet
<1>5. beat \in 0..Beats - 1
  BY BeatsAssumption DEF Init
<1>6. Noted
  BY <1>2, <1>3, <1>4, <1>5 DEF Init, Noted, Fresh
<1> QED BY <1>2, <1>6 DEF IInv, Fresh

LEMMA RestartOK ==
    ASSUME IInv, clm_init
    PROVE  IInv' /\ Fresh(clm')
<1>1. clm.parameter_no \in 0..MaxParameterNo
  BY DEF IInv, MasterOK, StackOK, MasterType
<1>2. Fresh(clm')
  BY <1>1, InitIsFresh DEF clm_init
<1>3. \A g \in group_nos : GroupNoted(scan'[g], clm'.groups[g], g)
  BY <1>2, FreshIsNoted DEF clm_init
<1>4. scan' = [g \in group_nos |-> scan'[g]]
  BY DEF clm_init, NoScanYet
<1>5. Noted'
  BY <1>2, <1>3, <1>4 DEF clm_init, IInv, Noted, Fresh
<1> QED BY <1>2, <1>5 DEF IInv, Fresh

-----------------------------------------------------------------------------
(* What a step of the master is: see StepOK; a restart is the exception.   *)
LEMMA NextOK ==
    ASSUME IInv, Next
    PROVE  /\ IInv'
           /\ \/ clm_init /\ Fresh(clm')
              \/ \E d \in Nat, frame \in Frames \cup {NoInput} :
                    StepOK(d, frame)
<1>1. ASSUME NEW d \in 1..MaxDelay, MonitorTimers(d)
      PROVE  IInv' /\ d \in Nat /\ StepOK(d, NoInput)
  <2>1. d \in Nat
    BY MasterDelayAssumption
  <2> QED BY <1>1, <2>1, MonitorTimersOK
<1>2. ASSUME NEW frame \in Frames, ReceiveFrame(frame)
      PROVE  IInv' /\ StepOK(0, frame)
  BY <1>2, ReceiveFrameOK
<1>3. ASSUME Application PROVE IInv' /\ StepOK(0, NoInput)
  BY <1>3, ApplicationOK
<1>4. ASSUME clm_init PROVE IInv' /\ Fresh(clm')
  BY <1>4, RestartOK
<1>5. 0 \in Nat
  OBVIOUS
<1> QED BY <1>1, <1>2, <1>3, <1>4, <1>5 DEF Next

LEMMA StutterOK ==
    ASSUME IInv, UNCHANGED vars
    PROVE  IInv'
<1>1. clm' = clm /\ MasterOK(clm')
  BY DEF vars, IInv
<1>2. /\ listened' = listened
      /\ heard' = heard
      /\ scan' = scan
      /\ beat' = beat
  BY DEF vars
<1>3. Noted'
  BY <1>1, <1>2 DEF IInv, Noted
<1> QED BY <1>1, <1>3 DEF IInv

(***************************************************************************)
(* The inductive invariant.  The theorems below are its consequences.      *)
(***************************************************************************)
THEOREM MasterInvariant == Spec => []IInv
<1>1. Init => IInv
  BY InitOK
<1>2. IInv /\ [Next]_vars => IInv'
  BY NextOK, StutterOK
<1> QED BY <1>1, <1>2, PTL DEF Spec

(***************************************************************************)
(* Type correctness.  A group sends at most one request per call, a        *)
(* counter of timeouts stays in its range, and the unit information fits   *)
(* the protocol version.                                                   *)
(***************************************************************************)
THEOREM MasterTypeCorrect == Spec => []TypeOK
<1>1. ASSUME IInv PROVE TypeOK
  <2>1. /\ clm.master_state \in {"STANDBY", "ARBITRATION", "RUNNING"}
        /\ clm.arbitration_timer \in Timer({0, ArbitrationTime})
        /\ clm.parameter_no \in 0..MaxParameterNo
        /\ beat \in 0..Beats - 1
        /\ cl_iefb_validate_master_station_notification(
                [protocol_ver |-> MasterProtocolVer,
                 master_local_unit_info |-> clm.master_local_unit_info])
    BY <1>1 DEF IInv, MasterOK, StackOK, MasterType, Noted
  <2>2. ASSUME NEW g \in group_nos
        PROVE  /\ clm.groups[g].group_state
                        \in clm_group_states \ {"MASTER_DOWN"}
               /\ clm.groups[g].frame_sequence_no \in 0..MaxSequenceNo
               /\ clm.groups[g].response_wait_timer
                        \in Timer({0, hier[g].timeout_value})
               /\ clm.groups[g].constant_linkscan_timer
                        \in Timer({0, hier[g].timeout_value})
               /\ clm.groups[g].linkscan \subseteq BOOLEAN
    BY <1>1 DEF IInv, MasterOK, StackOK, GroupOK, GroupType
  <2>3. ASSUME NEW g \in group_nos
        PROVE  Cardinality(clm.groups[g].sent) <= 1
    <3>1. clm.groups[g].sent = {} \/ \E request : clm.groups[g].sent = {request}
      BY <1>1 DEF IInv, MasterOK, StackOK, GroupOK, GroupType
    <3>2. CASE clm.groups[g].sent = {}
      BY <3>2, FS_EmptySet
    <3>3. CASE \E request : clm.groups[g].sent = {request}
      <4>1. PICK request : clm.groups[g].sent = {request}
        BY <3>3
      <4>2. Cardinality({request}) = 1
        BY FS_Singleton
      <4> QED BY <4>1, <4>2
    <3> QED BY <3>1, <3>2, <3>3
  <2>4. ASSUME NEW g \in group_nos, NEW i \in device_nos(g)
        PROVE  LET dev == Device(clm, g, i)
               IN  /\ dev.device_state \in clm_device_states \ {"MASTER_DOWN"}
                   /\ dev.timeout_count
                        \in 0..hier[g].parallel_off_timeout_count
                   /\ dev.latest \in 0..NoFrame
                   /\ dev.slave_id \in {NoIp, Setting(g, i).slave_id}
    <3> DEFINE dev == Device(clm, g, i)
    <3>1. DeviceOK(dev, g, i)
      BY <1>1 DEF IInv, MasterOK, StackOK, GroupOK, DevicesOK, Device
    <3> HIDE DEF dev
    <3>2. hier[g].parallel_off_timeout_count \in Nat
      BY ConfigAssumption DEF clm_validate_config
    <3>3. dev.timeout_count \in 0..hier[g].parallel_off_timeout_count
      BY <3>1, <3>2 DEF DeviceOK, DeviceType
    <3> QED BY <3>1, <3>3 DEF DeviceOK, DeviceType, dev
  <2> QED BY <2>1, <2>2, <2>3, <2>4 DEF TypeOK
<1> QED BY <1>1, MasterInvariant, PTL

(***************************************************************************)
(* All groups are in the phase that the stack says: an event about another *)
(* master, or the end of arbitration, reaches all of them or none.         *)
(***************************************************************************)
THEOREM MasterGroupsShareFate == Spec => []GroupsShareFate
<1>1. IInv => GroupsShareFate
  BY DEF IInv, MasterOK, StackOK, GroupsShareFate, Running
<1> QED BY <1>1, MasterInvariant, PTL

(***************************************************************************)
(* While scans run, a timer of each group runs that will end its scan or   *)
(* its pause, and its last request is younger than the timeout.            *)
(***************************************************************************)
THEOREM MasterScansAreTimed == Spec => []ScansAreTimed
<1>1. ASSUME IInv PROVE ScansAreTimed
  <2> SUFFICES ASSUME NEW g \in group_nos, clm.master_state = "RUNNING"
               PROVE  /\ scan[g].since < hier[g].timeout_value
                      /\ IF clm.groups[g].group_state = "MASTER_LINK_SCAN"
                         THEN clm.groups[g].response_wait_timer.state =
                                "RUNNING"
                         ELSE /\ hier[g].use_constant_link_scan_time
                              /\ clm.groups[g].constant_linkscan_timer.state =
                                    "RUNNING"
    BY DEF ScansAreTimed
  <2> DEFINE group == clm.groups[g]
             t == ScanTimer(group)
  <2>1. /\ GroupOK(group, g)
        /\ Unexpired(group)
        /\ PhaseOf(group.group_state) = "RUNNING"
        /\ GroupNoted(scan[g], group, g)
    BY <1>1 DEF IInv, MasterOK, StackOK, Noted
  <2> HIDE DEF group
  <2>2. ~Between(group)
    BY <2>1 DEF PhaseOf, Between
  <2>3. scan[g].since = t.elapsed
    BY <2>1, <2>2 DEF GroupNoted
  <2>4. group.group_state \in {"MASTER_LINK_SCAN", "MASTER_LINK_SCAN_COMP"}
    BY <2>1, <2>2 DEF GroupOK, GroupType, Between, clm_group_states
  <2>5. Running(t) /\ ~cl_timer_is_expired(t)
    BY <2>1, <2>4 DEF ScanTimer, GroupOK, TimersOK, Unexpired
  <2>6. t \in Timer({0, hier[g].timeout_value})
    BY <2>1 DEF ScanTimer, GroupOK, GroupType
  <2>7. hier[g].timeout_value \in Nat
    BY Periods
  <2> HIDE DEF t
  <2>8. t.elapsed < hier[g].timeout_value
    BY <2>5, <2>6, <2>7, RunningPeriod
  <2>9. IF group.group_state = "MASTER_LINK_SCAN"
        THEN Running(group.response_wait_timer)
        ELSE /\ hier[g].use_constant_link_scan_time
             /\ Running(group.constant_linkscan_timer)
    BY <2>1, <2>4 DEF GroupOK, TimersOK
  <2> QED BY <2>3, <2>8, <2>9 DEF Running, group
<1> QED BY <1>1, MasterInvariant, PTL

(***************************************************************************)
(* REQ_CLM_TIMING_06: in constant link scan no request follows the one     *)
(* before it sooner than the link scan time.                               *)
(***************************************************************************)
THEOREM MasterConstantScanPace == Spec => []ConstantScanPace
<1>1. IInv => ConstantScanPace
  BY DEF IInv, Noted, GroupNoted, ConstantScanPace
<1> QED BY <1>1, MasterInvariant, PTL

(***************************************************************************)
(* REQ_CLM_ARBITR_01: no request before the arbitration time has passed,   *)
(* nor after another master was heard in it.                               *)
(***************************************************************************)
THEOREM MasterArbitrationFirst == Spec => []ArbitrationFirst
<1>1. IInv => ArbitrationFirst
  BY DEF IInv, MasterOK, Noted, ArbitrationFirst
<1> QED BY <1>1, MasterInvariant, PTL

(***************************************************************************)
(* REQ_CLM_ERROR_07: no device stays connected after it has left as many   *)
(* requests in a row unanswered as its group allows.                       *)
(***************************************************************************)
THEOREM MasterLostDeviceIsDropped == Spec => []LostDeviceIsDropped
<1>1. IInv => LostDeviceIsDropped
  BY DEF IInv, Noted, GroupNoted, LostDeviceIsDropped
<1> QED BY <1>1, MasterInvariant, PTL

(***************************************************************************)
(* The state of a device agrees with its part of the request and with the  *)
(* phase of its group.                                                     *)
(***************************************************************************)
THEOREM MasterDevicesFollowScan == Spec => []DevicesFollowScan
<1>1. ASSUME IInv PROVE DevicesFollowScan
  <2> SUFFICES ASSUME NEW g \in group_nos, NEW i \in device_nos(g)
               PROVE  LET dev == Device(clm, g, i)
                      IN  /\ clm.master_state # "RUNNING" =>
                                dev.device_state = "LISTEN"
                          /\ clm.groups[g].group_state =
                                    "MASTER_LINK_SCAN_COMP" =>
                                dev.device_state \in {"LISTEN", "CYCLIC_SENT"}
                          /\ dev.device_state
                                    \in {"WAIT_TD", "CYCLIC_SENDING"} =>
                                dev.slave_id = Setting(g, i).slave_id
                          /\ dev.device_state = "CYCLIC_SENDING" =>
                                dev.transmission_bit
                          /\ dev.device_state = "WAIT_TD" =>
                                ~dev.transmission_bit
                          /\ dev.transmission_bit => dev.on
                          /\ dev.timeout_count > 0 => dev.transmission_bit
    BY DEF DevicesFollowScan
  <2> DEFINE dev == Device(clm, g, i)
             group == clm.groups[g]
  <2>1. /\ DeviceOK(dev, g, i)
        /\ Between(group) => dev.device_state = "LISTEN"
        /\ group.group_state = "MASTER_LINK_SCAN_COMP" =>
              dev.device_state \in {"LISTEN", "CYCLIC_SENT"}
    BY <1>1 DEF IInv, MasterOK, StackOK, GroupOK, DevicesOK, Device
  <2>2. /\ group.group_state \in clm_group_states \ {"MASTER_DOWN"}
        /\ PhaseOf(group.group_state) = clm.master_state
    BY <1>1 DEF IInv, MasterOK, StackOK, GroupOK, GroupType
  <2> HIDE DEF dev, group
  <2>3. clm.master_state # "RUNNING" => Between(group)
    BY <2>2 DEF PhaseOf, Between, clm_group_states
  <2> QED BY <2>1, <2>3 DEF DeviceOK, dev, group
<1> QED BY <1>1, MasterInvariant, PTL

(* What a step of the master, or its restart, does to one device.          *)
LEMMA StepInput ==
    ASSUME IInv, Next, NEW g \in group_nos, NEW i \in device_nos(g),
           Device(clm', g, i).rx \notin {Device(clm, g, i).rx, NoData}
    PROVE  /\ Device(clm, g, i).transmission_bit
           /\ Device(clm', g, i).rx = RxPayload(Setting(g, i).slave_id,
                                        clm.groups[g].frame_sequence_no)
<1>1. CASE Fresh(clm')
  BY <1>1 DEF Fresh, Idle, Unused, Device
<1>2. CASE \E d \in Nat, frame \in Frames \cup {NoInput} : StepOK(d, frame)
  <2>1. PICK d \in Nat, frame \in Frames \cup {NoInput} : StepOK(d, frame)
    BY <1>2
  <2>2. InputOK(Device(clm', g, i), Device(clm, g, i), clm.groups[g], g, i)
    BY <2>1 DEF StepOK, GroupStep, Device
  <2> QED BY <2>2 DEF InputOK
<1> QED BY <1>1, <1>2, NextOK

LEMMA StepRequest ==
    ASSUME IInv, Next, NEW g \in group_nos, NEW i \in device_nos(g),
           clm'.groups[g].sent # {}, Device(clm', g, i).enabled
    PROVE  /\ Current(Device(clm', g, i), g, i)
           /\ clm'.groups[g].frame_sequence_no = 0 =>
                Device(clm', g, i).device_state = "WAIT_TD"
<1>1. CASE Fresh(clm')
  BY <1>1 DEF Fresh, Idle
<1>2. CASE \E d \in Nat, frame \in Frames \cup {NoInput} : StepOK(d, frame)
  <2>1. PICK d \in Nat, frame \in Frames \cup {NoInput} : StepOK(d, frame)
    BY <1>2
  <2> DEFINE r == clm'.groups[g]
             oks == AnsweredBy(frame, g)
             dev == Device(clm', g, i)
  <2>2. AskedStep(r, clm.groups[g], g, d, oks)
    BY <2>1 DEF StepOK, GroupStep, QuietStep
  <2>3. AskedDevice(dev, Device(clm, g, i), g, i, oks)
    BY <2>2 DEF AskedStep, Device
  <2>4. GroupOK(r, g)
    BY <2>2 DEF AskedStep, Started
  <2>5. r.frame_sequence_no = 0 => dev.device_state # "CYCLIC_SENDING"
    BY <2>4 DEF GroupOK, DevicesOK, Device
  <2> HIDE DEF dev, oks, r
  <2>6. Current(dev, g, i)
    BY <2>3 DEF AskedDevice, dev
  <2>7. dev.device_state # "CYCLIC_SUSPEND"
    BY <2>6 DEF Current
  <2> QED BY <2>3, <2>5, <2>6, <2>7 DEF AskedDevice, dev, r
<1> QED BY <1>1, <1>2, NextOK

(***************************************************************************)
(* REQ_CLM_STATUSBIT_01, _02, _05: the request carries the present data of *)
(* each device that takes part, with its bit on only if it is connected or *)
(* forced, and the first request connects nobody.                          *)
(***************************************************************************)
THEOREM MasterRequestIsCurrent == Spec => RequestIsCurrent
<1>1. IInv /\ [Next]_vars =>
        [\A g \in group_nos : \A i \in device_nos(g) :
            LET dev == Device(clm', g, i)
                on == dev.device_state = "CYCLIC_SENDING"
                        \/ dev.force_transmission_bit
            IN  clm'.groups[g].sent \ clm.groups[g].sent # {} /\ dev.enabled =>
                    /\ dev.slave_id = Setting(g, i).slave_id
                    /\ dev.on = on
                    /\ dev.data = IF on THEN dev.ry ELSE NoData
                    /\ clm'.groups[g].frame_sequence_no = 0 =>
                            dev.device_state = "WAIT_TD"]_vars
  <2> SUFFICES ASSUME IInv, Next, NEW g \in group_nos, NEW i \in device_nos(g),
                      clm'.groups[g].sent \ clm.groups[g].sent # {},
                      Device(clm', g, i).enabled
               PROVE  LET dev == Device(clm', g, i)
                          on == dev.device_state = "CYCLIC_SENDING"
                                  \/ dev.force_transmission_bit
                      IN  /\ dev.slave_id = Setting(g, i).slave_id
                          /\ dev.on = on
                          /\ dev.data = IF on THEN dev.ry ELSE NoData
                          /\ clm'.groups[g].frame_sequence_no = 0 =>
                                  dev.device_state = "WAIT_TD"
    OBVIOUS
  <2>1. clm'.groups[g].sent # {}
    OBVIOUS
  <2>2. /\ Current(Device(clm', g, i), g, i)
        /\ clm'.groups[g].frame_sequence_no = 0 =>
             Device(clm', g, i).device_state = "WAIT_TD"
    BY <2>1, StepRequest
  <2> QED BY <2>2 DEF Current
<1> QED BY <1>1, MasterInvariant, PTL DEF Spec, RequestIsCurrent

(***************************************************************************)
(* REQ_CLM_STATUSBIT_04 and _09: input is taken over only from the answer  *)
(* of the device itself to the present request, while its bit is on        *)
(* (clm_iefb_handle_response_frame() compares sequence numbers then).      *)
(***************************************************************************)
THEOREM MasterInputFromThisScan == Spec => InputFromThisScan
<1>1. IInv /\ [Next]_vars =>
        [\A g \in group_nos : \A i \in device_nos(g) :
            Device(clm', g, i).rx \notin {Device(clm, g, i).rx, NoData} =>
                /\ Device(clm, g, i).transmission_bit
                /\ Device(clm', g, i).rx =
                        RxPayload(Setting(g, i).slave_id,
                                  clm.groups[g].frame_sequence_no)]_vars
  BY StepInput
<1> QED BY <1>1, MasterInvariant, PTL DEF Spec, InputFromThisScan

(***************************************************************************)
(* REQ_CLM_ERROR_04: a master in standby stays there and sends nothing     *)
(* until clm_init(), whatever its timers do and whatever it receives.      *)
(***************************************************************************)
THEOREM MasterStandbyIsSilent == Spec => StandbyIsSilent
<1>1. IInv /\ [Next]_vars =>
        [clm.master_state = "STANDBY" =>
            \/ /\ clm'.master_state = "STANDBY"
               /\ \A g \in group_nos : clm'.groups[g].sent = {}
            \/ clm_init]_vars
  <2> SUFFICES ASSUME IInv, Next, clm.master_state = "STANDBY", ~clm_init
               PROVE  /\ clm'.master_state = "STANDBY"
                      /\ \A g \in group_nos : clm'.groups[g].sent = {}
    OBVIOUS
  <2>1. IInv' /\ clm'.master_state = "STANDBY"
    BY NextOK DEF StepOK
  <2>2. MasterOK(clm')
    BY <2>1 DEF IInv
  <2> QED BY <2>1, <2>2 DEF MasterOK
<1> QED BY <1>1, MasterInvariant, PTL DEF Spec, StandbyIsSilent
=============================================================================
