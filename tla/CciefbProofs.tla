---------------------------- MODULE CciefbProofs ----------------------------
(***************************************************************************)
(* A controlled slave follows one session of its master (Cciefb), for any  *)
(* number of masters, any configurations, any interleaving of starts,      *)
(* losses and delays.                                                      *)
(*                                                                         *)
(* The argument goes along the way of the data: the stack of a master      *)
(* holds what its latest session wrote (MasterCarries), a request under    *)
(* way to the slave was sent in one session of its sender and describes    *)
(* that session's configuration (RequestTells), a number stands for one    *)
(* session as long as it could be saved (FileFits), and so the requests    *)
(* that a slave takes its data from are all of the session that it has     *)
(* computed its station for (Follows).                                     *)
(***************************************************************************)
EXTENDS Cciefb, ClIefbProofs

(* A record with these fields, whatever is in them.                        *)
HasFields(x, fields) == x = [f \in fields |-> x[f]]

DeviceFields ==
    {"device_state", "enabled", "transmission_bit", "force_transmission_bit",
     "timeout_count", "latest", "ry", "rx", "slave_id", "on", "data"}

GroupFields ==
    {"group_state", "frame_sequence_no", "response_wait_timer",
     "constant_linkscan_timer", "slave_devices", "sent", "linkscan"}

MasterFields ==
    {"master_state", "arbitration_timer", "parameter_no",
     "master_local_unit_info", "groups", "errors"}

RequestFields ==
    {"kind", "slave_ip_addr", "remote_ip", "well_formed", "protocol_ver",
     "master_local_unit_info", "master_id", "parameter_no", "group_no",
     "frame_sequence_no", "timeout_value", "parallel_off_timeout_count",
     "slave_ids", "transmission_on", "data"}

SlaveFields ==
    {"state", "master", "receive_timer", "timer_for_disabling_slave", "data",
     "rx", "endcode_slave_disabled", "trigger", "app", "sent", "errors"}

MasterInfoFields ==
    {"master_id", "parameter_no", "group_no", "slave_station_no",
     "timeout_value", "parallel_off_timeout_count"}

EntryFields == {"from", "to", "frame", "late"}

-----------------------------------------------------------------------------
(* What a master carries.  A session is a number and a configuration.  For *)
(* every device there is the output out that its application has written.  *)

Devices(session, g) == session.config[g].slave_devices

IsSession(session) ==
    /\ Len(session.config) \in Nat
    /\ \A g \in 1 .. Len(session.config) :
          /\ HasSettings(Devices(session, g))
          /\ \A i \in 1 .. Len(Devices(session, g)) :
                Devices(session, g)[i].slave_id \notin {NoIp, Multistation}

(* The device holds its own id or none, and its own output or none.        *)
DeviceCarries(dev, out, id) ==
    /\ HasFields(dev, DeviceFields)
    /\ dev.ry = out
    /\ dev.data \in {NoData, out}
    /\ dev.slave_id \in {NoIp, id}

(* What a slot of a request holds, station by station.                     *)
SlotTells(req, devs, outs, i, station) ==
    /\ req.slave_ids[station] \in
            IF station = 1 + Before(devs, i) THEN {NoIp, devs[i].slave_id}
            ELSE {Multistation}
    /\ req.data[station] \in {NoData, outs[i]}

SlotsTell(req, devs, outs) ==
    /\ Len(req.slave_ids) = Before(devs, Len(devs) + 1)
    /\ \A i \in 1 .. Len(devs) : \A station \in 1 .. Len(req.slave_ids) :
            Occupies(devs, i, station) => SlotTells(req, devs, outs, i, station)

RequestTells(req, m, session, outs) ==
    LET g == req.group_no
    IN  /\ HasFields(req, RequestFields)
        /\ g \in 1 .. Len(session.config)
        /\ req.remote_ip = m
        /\ req.master_id = m
        /\ req.parameter_no = session.parameter_no
        /\ req.timeout_value = session.config[g].timeout_value
        /\ req.parallel_off_timeout_count
                = session.config[g].parallel_off_timeout_count
        /\ SlotsTell(req, Devices(session, g), outs[g])

DevicesCarry(devices, devs, outs) ==
    /\ devices = [i \in 1 .. Len(devs) |-> devices[i]]
    /\ \A i \in 1 .. Len(devs) :
            DeviceCarries(devices[i], outs[i], devs[i].slave_id)

SentTells(sent, m, session, outs) ==
    \A req \in sent : RequestTells(req, m, session, outs)

GroupCarries(group, g, m, session, outs) ==
    /\ HasFields(group, GroupFields)
    /\ DevicesCarry(group.slave_devices, Devices(session, g), outs[g])
    /\ SentTells(group.sent, m, session, outs)

GroupsCarry(groups, m, session, outs) ==
    /\ groups = [g \in 1 .. Len(session.config) |-> groups[g]]
    /\ \A g \in 1 .. Len(session.config) :
            GroupCarries(groups[g], g, m, session, outs)

MasterCarries(c, m, session, outs) ==
    /\ HasFields(c, MasterFields)
    /\ GroupsCarry(c.groups, m, session, outs)

(* A stack that runs in the session.                                       *)
RunsIn(c, m, session, outs) ==
    /\ MasterCarries(c, m, session, outs)
    /\ c.parameter_no = session.parameter_no

-----------------------------------------------------------------------------
(* The invariant of the system.                                            *)

NoOutputs(session) ==
    [g \in 1 .. Len(session.config) |->
        [i \in 1 .. Len(Devices(session, g)) |-> NoData]]

OutputsOf(m, k, session) ==
    [g \in 1 .. Len(session.config) |->
        [i \in 1 .. Len(Devices(session, g)) |->
            Output(m, k, Devices(session, g)[i].slave_id)]]

Sessions == [parameter_no : 0 .. MaxParameterNo, config : Configs]

SessionsOK ==
    /\ sessions \in [Masters -> Seq(Sessions)]
    /\ kept \in [Masters -> BOOLEAN]
    /\ file = [m \in Masters |-> file[m]]
    /\ clm = [m \in Masters |-> clm[m]]
    /\ \A m \in Masters : Len(sessions[m]) <= MaxSessions

(* The number d starts after the number a, the first one.                  *)
NumberAfter(a, d) ==
    IF a + d <= MaxParameterNo THEN a + d ELSE a + d - (MaxParameterNo + 1)

(* As long as it could be saved, the file of a master holds the number of  *)
(* its latest session, and the sessions have consecutive numbers.          *)
FileFits(m) ==
    LET n == Len(sessions[m])
    IN  /\ cl_file_load(file[m]) => file[m].object \in 0 .. MaxParameterNo
        /\ kept[m] /\ n > 0 =>
              /\ cl_file_load(file[m])
              /\ file[m].object = sessions[m][n].parameter_no
              /\ \A k \in 1 .. n : sessions[m][k].parameter_no
                        = NumberAfter(sessions[m][1].parameter_no, k - 1)

StackFits(m) ==
    LET n == Len(sessions[m])
    IN  n > 0 => RunsIn(clm[m], m, sessions[m][n],
                        OutputsOf(m, n, sessions[m][n]))

(* A request on its way to the slave was sent in a session of its sender.  *)
EntryFits(e) ==
    /\ HasFields(e, EntryFields)
    /\ e.to = SlaveIp =>
            /\ e.frame.slave_ip_addr = SlaveIp
            /\ \E m \in Masters : \E k \in 1 .. Len(sessions[m]) :
                  RequestTells(e.frame, m, sessions[m][k],
                               OutputsOf(m, k, sessions[m][k]))

(***************************************************************************)
(* The slave c has computed its station for the session, and has no other  *)
(* data than its own.                                                      *)
(***************************************************************************)
StationFits(master, session) ==
    LET g == master.group_no
    IN  /\ g \in 1 .. Len(session.config)
        /\ master.parameter_no = session.parameter_no
        /\ master.timeout_value = session.config[g].timeout_value
        /\ master.parallel_off_timeout_count
                = session.config[g].parallel_off_timeout_count
        /\ \E i \in 1 .. Len(Devices(session, g)) :
              /\ Devices(session, g)[i].slave_id = SlaveIp
              /\ master.slave_station_no = 1 + Before(Devices(session, g), i)
              /\ OccupiedBy(Devices(session, g), i) = NumOccupied

Holds(data, out) == \A i \in 1 .. NumOccupied : data[i] \in {NoData, out}

Follows(master, data, m, k, session) ==
    /\ StationFits(master, session)
    /\ Holds(data, Output(m, k, SlaveIp))

IsSlave(c) ==
    /\ HasFields(c, SlaveFields)
    /\ HasFields(c.master, MasterInfoFields)

ConnectionFits(c) ==
    LET m == c.master.master_id
    IN  c.state = "MASTER_CONTROL" =>
            /\ m \in Masters
            /\ kept[m] => \E k \in 1 .. Len(sessions[m]) :
                            Follows(c.master, c.data, m, k, sessions[m][k])

SlaveFits == IsSlave(cls) /\ ConnectionFits(cls)

MastersFit == \A m \in Masters : FileFits(m) /\ StackFits(m)

NetFits == \A e \in net : EntryFits(e)

IInv ==
    /\ SessionsOK
    /\ MastersFit
    /\ NetFits
    /\ SlaveFits

-----------------------------------------------------------------------------
(* The device state machine of a master: no event touches the output that  *)
(* was written, and the request gets it or nothing.                        *)

LEMMA SetDataIpCarries ==
    ASSUME NEW m, NEW config, NEW g, NEW i, NEW state, NEW dev, NEW out,
           DeviceCarries(dev, out, config[g].slave_devices[i].slave_id)
    PROVE  DeviceCarries(M(m, config)!clm_iefb_set_data_ip(dev, g, i, state),
                         out, config[g].slave_devices[i].slave_id)
  BY DEF DeviceCarries, HasFields, DeviceFields, M!clm_iefb_set_data_ip,
         M!Setting

(* Two devices that hold the same of the request.                          *)
SameParts(r, dev) ==
    /\ HasFields(r, DeviceFields)
    /\ r.ry = dev.ry
    /\ r.data = dev.data
    /\ r.slave_id = dev.slave_id

LEMMA SamePartsCarry ==
    ASSUME NEW r, NEW dev, NEW out, NEW id,
           DeviceCarries(dev, out, id), SameParts(r, dev)
    PROVE  DeviceCarries(r, out, id)
  BY DEF DeviceCarries, SameParts

LEMMA DeviceActionCarries ==
    ASSUME NEW m, NEW config, NEW g, NEW i, NEW action, NEW dev, NEW out,
           DeviceCarries(dev, out, config[g].slave_devices[i].slave_id)
    PROVE  DeviceCarries(M(m, config)!DeviceAction(dev, g, i, action),
                         out, config[g].slave_devices[i].slave_id)
<1> DEFINE r == M(m, config)!DeviceAction(dev, g, i, action)
<1>1. CASE action = "set_data_ip"
  BY <1>1, SetDataIpCarries DEF M!DeviceAction
<1>2. CASE action = "device_init"
  <2>1. r = M(m, config)!clm_iefb_device_init(dev, g, i)
    BY <1>2 DEF M!DeviceAction
  <2>2. SameParts(r, dev)
    BY <2>1 DEF M!clm_iefb_device_init, SameParts, DeviceCarries, HasFields,
                DeviceFields
  <2> QED BY <2>2, SamePartsCarry
<1>3. CASE action = "reset"
  <2>1. r = M(m, config)!clm_iefb_reset_timeout_count(dev)
    BY <1>3 DEF M!DeviceAction
  <2>2. SameParts(r, dev)
    BY <2>1 DEF M!clm_iefb_reset_timeout_count, SameParts, DeviceCarries,
                HasFields, DeviceFields
  <2> QED BY <2>2, SamePartsCarry
<1>4. CASE action = "evaluate"
  <2>1. r = [dev EXCEPT !.timeout_count = @ + 1]
    BY <1>4 DEF M!DeviceAction
  <2>2. SameParts(r, dev)
    BY <2>1 DEF SameParts, DeviceCarries, HasFields, DeviceFields
  <2> QED BY <2>2, SamePartsCarry
<1>5. CASE action \notin {"set_data_ip", "device_init", "reset", "evaluate"}
  BY <1>5 DEF M!DeviceAction
<1> QED BY <1>1, <1>2, <1>3, <1>4, <1>5

LEMMA DeviceTurnCarries ==
    ASSUME NEW m, NEW config, NEW g, NEW i, NEW event, NEW dev, NEW out,
           DeviceCarries(dev, out, config[g].slave_devices[i].slave_id)
    PROVE  DeviceCarries(M(m, config)!device_fsm_turn(dev, g, i, event),
                         out, config[g].slave_devices[i].slave_id)
<1> DEFINE id == config[g].slave_devices[i].slave_id
           element == M(m, config)!device_fsm_matrix(dev.device_state, event)
           moved == [dev EXCEPT !.device_state = element[3]]
           acted == M(m, config)!DeviceAction(moved, g, i, element[4])
           r == M(m, config)!DeviceOnEntry(acted, dev.device_state)
<1>1. M(m, config)!device_fsm_turn(dev, g, i, event) = r
  BY DEF M!device_fsm_turn
<1>2. SameParts(moved, dev)
  <2> HIDE DEF element
  <2> QED BY DEF SameParts, DeviceCarries, HasFields, DeviceFields
<1>3. DeviceCarries(moved, out, id)
  BY <1>2, SamePartsCarry
<1>4. DeviceCarries(acted, out, id)
  <2> HIDE DEF moved, element
  <2> QED BY <1>3, DeviceActionCarries
<1>5. r = acted \/ SameParts(r, acted)
  <2> HIDE DEF acted
  <2>1. r = acted \/ r = M(m, config)!clm_iefb_reset_timeout_count(acted)
    BY DEF M!DeviceOnEntry
  <2>2. SameParts(M(m, config)!clm_iefb_reset_timeout_count(acted), acted)
    BY <1>4 DEF M!clm_iefb_reset_timeout_count, SameParts, DeviceCarries,
                HasFields, DeviceFields
  <2> QED BY <2>1, <2>2
<1> HIDE DEF r, acted, id
<1> QED BY <1>1, <1>4, <1>5, SamePartsCarry DEF id

LEMMA DeviceEventCarries ==
    ASSUME NEW m, NEW config, NEW g, NEW i, NEW event, NEW dev, NEW out,
           DeviceCarries(dev, out, config[g].slave_devices[i].slave_id)
    PROVE  DeviceCarries(
                M(m, config)!clm_iefb_device_fsm_event(dev, g, i, event),
                out, config[g].slave_devices[i].slave_id)
<1> DEFINE counted == dev.device_state = "CYCLIC_SENDING" /\ event = "GROUP_TIMEOUT"
           once == M(m, config)!device_fsm_turn(dev, g, i, event)
           more == M(m, config)!clm_iefb_evaluate_timeoutcounter(once, g)
<1>1. DeviceCarries(once, out, config[g].slave_devices[i].slave_id)
  BY DeviceTurnCarries
<1>2. M(m, config)!clm_iefb_device_fsm_event(dev, g, i, event)
        = IF counted THEN M(m, config)!device_fsm_turn(once, g, i, more) ELSE once
  BY DEF M!clm_iefb_device_fsm_event, M!DeviceFollowUp
<1> HIDE DEF once, more
<1>3. DeviceCarries(M(m, config)!device_fsm_turn(once, g, i, more), out,
                    config[g].slave_devices[i].slave_id)
  BY <1>1, DeviceTurnCarries
<1> QED BY <1>1, <1>2, <1>3

-----------------------------------------------------------------------------
(* The request of a group.                                                 *)

(* The instances share the standard modules.                               *)
LEMMA SameCardinality ==
    ASSUME NEW m, NEW config, NEW S
    PROVE  M(m, config)!Cardinality(S) = Cardinality(S)
  BY DEF M!Cardinality, Cardinality

LEMMA StationNumbers ==
    ASSUME NEW m, NEW config, NEW g \in 1 .. Len(config),
           HasSettings(config[g].slave_devices)
    PROVE  LET devs == config[g].slave_devices
           IN  /\ M(m, config)!total_occupied_of[g] = Before(devs, Len(devs) + 1)
               /\ \A i \in 1 .. Len(devs) :
                    M(m, config)!slave_station_no[g][i] = 1 + Before(devs, i)
<1> DEFINE devs == config[g].slave_devices
<1>1. ASSUME NEW i
      PROVE  M(m, config)!StationsBefore(g, i) = Before(devs, i)
  <2>1. M(m, config)!StationsBefore(g, i)
            = M(m, config)!Cardinality(PairsBefore(devs, i))
    BY DEF M!StationsBefore, M!device_nos, M!Setting, PairsBefore,
           M!MinOccupied, M!MaxOccupied, MinOccupied, MaxOccupied
  <2> QED BY <2>1, SameCardinality DEF Before
<1>2. M(m, config)!total_occupied_of[g]
        = M(m, config)!StationsBefore(g, Len(devs) + 1)
  BY DEF M!total_occupied_of, M!clm_iefb_calc_occupied_per_group, M!group_nos
<1>3. ASSUME NEW i \in 1 .. Len(devs)
      PROVE  M(m, config)!slave_station_no[g][i]
                = 1 + M(m, config)!StationsBefore(g, i)
  BY DEF M!slave_station_no, M!clm_iefb_calc_slave_station_no, M!group_nos,
         M!device_nos
<1> QED BY <1>1, <1>2, <1>3

LEMMA DeviceAtStation ==
    ASSUME NEW m, NEW config, NEW g \in 1 .. Len(config),
           HasSettings(config[g].slave_devices),
           NEW i \in 1 .. Len(config[g].slave_devices), NEW station \in Nat,
           Occupies(config[g].slave_devices, i, station)
    PROVE  M(m, config)!DeviceAt(g, station) = i
<1> DEFINE devs == config[g].slave_devices
           Has(j) == /\ M(m, config)!slave_station_no[g][j] <= station
                     /\ station < M(m, config)!slave_station_no[g][j]
                                    + M(m, config)!Setting(g, j).num_occupied_stations
<1>1. M(m, config)!DeviceAt(g, station) = CHOOSE j \in 1 .. Len(devs) : Has(j)
  BY DEF M!DeviceAt, M!device_nos
<1>2. ASSUME NEW j \in 1 .. Len(devs)
      PROVE  Has(j) <=> Occupies(devs, j, station)
  <2>1. M(m, config)!slave_station_no[g][j] = 1 + Before(devs, j)
    BY StationNumbers
  <2>2. M(m, config)!Setting(g, j).num_occupied_stations = OccupiedBy(devs, j)
    BY DEF M!Setting, OccupiedBy
  <2> QED BY <2>1, <2>2 DEF Occupies
<1> HIDE DEF Has
<1>3. Has(i)
  BY <1>2
<1>4. ASSUME NEW j \in 1 .. Len(devs), Has(j)
      PROVE  j = i
  <2> HIDE DEF devs
  <2>1. Occupies(devs, j, station) /\ Occupies(devs, i, station)
    BY <1>4, <1>2 DEF devs
  <2>2. HasSettings(devs)
    BY DEF devs
  <2>3. i \in 1 .. Len(devs)
    BY DEF devs
  <2> QED BY <2>1, <2>2, <2>3, StationHasOneDevice
<1> HIDE DEF devs
<1> QED BY <1>1, <1>3, <1>4 DEF devs

(* The request that a group of devices sends.                              *)
RequestOf(m, config, devices, g, number, sequence, unit_info, on) ==
    M(m, config)!cl_iefb_update_request_frame_headers(
        M(m, config)!FillInDevices(
            M(m, config)!cl_iefb_initialise_request_frame(g, number), devices, g),
        sequence, unit_info, on)

LEMMA RequestHeaders ==
    ASSUME NEW m, NEW config, NEW devices, NEW g, NEW number, NEW sequence,
           NEW unit_info, NEW on
    PROVE  LET req == RequestOf(m, config, devices, g, number, sequence,
                                unit_info, on)
           IN  /\ HasFields(req, RequestFields)
               /\ req.remote_ip = m
               /\ req.master_id = m
               /\ req.parameter_no = number
               /\ req.group_no = g
               /\ req.timeout_value = config[g].timeout_value
               /\ req.parallel_off_timeout_count
                        = config[g].parallel_off_timeout_count
<1> DEFINE ids == [station \in 1 .. M(m, config)!total_occupied_of[g] |->
                        IF station \in {M(m, config)!slave_station_no[g][i] :
                                            i \in M(m, config)!device_nos(g)}
                        THEN devices[M(m, config)!DeviceAt(g, station)].slave_id
                        ELSE Multistation]
           data == [station \in 1 .. M(m, config)!total_occupied_of[g] |->
                        devices[M(m, config)!DeviceAt(g, station)].data]
           first == M(m, config)!cl_iefb_initialise_request_frame(g, number)
           filled == [first EXCEPT !.slave_ids = ids, !.data = data]
           req == [filled EXCEPT !.frame_sequence_no = sequence,
                                 !.master_local_unit_info = unit_info,
                                 !.transmission_on = on]
<1>1. RequestOf(m, config, devices, g, number, sequence, unit_info, on) = req
  BY DEF RequestOf, M!cl_iefb_update_request_frame_headers, M!FillInDevices
<1> HIDE DEF ids, data
<1>2. /\ HasFields(first, RequestFields)
      /\ first.remote_ip = m
      /\ first.master_id = m
      /\ first.parameter_no = number
      /\ first.group_no = g
      /\ first.timeout_value = config[g].timeout_value
      /\ first.parallel_off_timeout_count = config[g].parallel_off_timeout_count
  BY DEF HasFields, RequestFields, M!cl_iefb_initialise_request_frame
<1> HIDE DEF first
<1>3. /\ HasFields(req, RequestFields)
      /\ req.remote_ip = m
      /\ req.master_id = m
      /\ req.parameter_no = number
      /\ req.group_no = g
      /\ req.timeout_value = config[g].timeout_value
      /\ req.parallel_off_timeout_count = config[g].parallel_off_timeout_count
  BY <1>2 DEF HasFields, RequestFields
<1> HIDE DEF req
<1> QED BY <1>1, <1>3

LEMMA RequestSlots ==
    ASSUME NEW m, NEW config, NEW devices, NEW g, NEW number, NEW sequence,
           NEW unit_info, NEW on
    PROVE  LET req == RequestOf(m, config, devices, g, number, sequence,
                                unit_info, on)
           IN
               /\ req.slave_ids =
                    [station \in 1 .. M(m, config)!total_occupied_of[g] |->
                        IF station \in {M(m, config)!slave_station_no[g][i] :
                                            i \in M(m, config)!device_nos(g)}
                        THEN devices[M(m, config)!DeviceAt(g, station)].slave_id
                        ELSE Multistation]
               /\ req.data =
                    [station \in 1 .. M(m, config)!total_occupied_of[g] |->
                        devices[M(m, config)!DeviceAt(g, station)].data]
<1> DEFINE ids == [station \in 1 .. M(m, config)!total_occupied_of[g] |->
                        IF station \in {M(m, config)!slave_station_no[g][i] :
                                            i \in M(m, config)!device_nos(g)}
                        THEN devices[M(m, config)!DeviceAt(g, station)].slave_id
                        ELSE Multistation]
           data == [station \in 1 .. M(m, config)!total_occupied_of[g] |->
                        devices[M(m, config)!DeviceAt(g, station)].data]
           first == M(m, config)!cl_iefb_initialise_request_frame(g, number)
           filled == [first EXCEPT !.slave_ids = ids, !.data = data]
           req == [filled EXCEPT !.frame_sequence_no = sequence,
                                 !.master_local_unit_info = unit_info,
                                 !.transmission_on = on]
<1>1. RequestOf(m, config, devices, g, number, sequence, unit_info, on) = req
  BY DEF RequestOf, M!cl_iefb_update_request_frame_headers, M!FillInDevices
<1> HIDE DEF ids, data
<1>2. HasFields(first, RequestFields)
  BY DEF HasFields, RequestFields, M!cl_iefb_initialise_request_frame
<1> HIDE DEF first
<1>3. req.slave_ids = ids /\ req.data = data
  BY <1>2 DEF HasFields, RequestFields
<1> HIDE DEF req
<1> QED BY <1>1, <1>3 DEF ids, data

LEMMA FirstStation ==
    ASSUME NEW settings, HasSettings(settings), NEW i \in 1 .. Len(settings)
    PROVE  Occupies(settings, i, 1 + Before(settings, i))
<1>1. PICK a \in Nat, b \in 1 .. 16 :
        a = Before(settings, i) /\ b = OccupiedBy(settings, i)
  BY PairsAreFinite, OccupiedRange
<1>2. 1 + a <= 1 + a /\ 1 + a < 1 + a + b
  OBVIOUS
<1> QED BY <1>1, <1>2 DEF Occupies

LEMMA SlotsOfRequest ==
    ASSUME NEW m, NEW session, IsSession(session), NEW outs, NEW devices,
           NEW g \in 1 .. Len(session.config),
           DevicesCarry(devices, Devices(session, g), outs),
           NEW number, NEW sequence, NEW unit_info, NEW on
    PROVE  SlotsTell(RequestOf(m, session.config, devices, g, number, sequence,
                               unit_info, on),
                     Devices(session, g), outs)
<1> DEFINE config == session.config
           devs == Devices(session, g)
           req == RequestOf(m, config, devices, g, number, sequence, unit_info, on)
           total == Before(devs, Len(devs) + 1)
<1>1. HasSettings(devs) /\ devs = config[g].slave_devices
  BY DEF IsSession, Devices
<1>2. total \in Nat
  BY <1>1, PairsAreFinite
<1>3. /\ M(m, config)!total_occupied_of[g] = total
      /\ \A i \in 1 .. Len(devs) :
            M(m, config)!slave_station_no[g][i] = 1 + Before(devs, i)
  BY <1>1, StationNumbers
<1>4. /\ req.slave_ids =
            [station \in 1 .. M(m, config)!total_occupied_of[g] |->
                IF station \in {M(m, config)!slave_station_no[g][i] :
                                    i \in M(m, config)!device_nos(g)}
                THEN devices[M(m, config)!DeviceAt(g, station)].slave_id
                ELSE Multistation]
      /\ req.data =
            [station \in 1 .. M(m, config)!total_occupied_of[g] |->
                devices[M(m, config)!DeviceAt(g, station)].data]
  BY RequestSlots
<1>5. Len(req.slave_ids) = total
  BY <1>2, <1>3, <1>4
<1>6. ASSUME NEW i \in 1 .. Len(devs), NEW station \in 1 .. Len(req.slave_ids),
             Occupies(devs, i, station)
      PROVE  SlotTells(req, devs, outs, i, station)
  <2>1. station \in Nat /\ station \in 1 .. M(m, config)!total_occupied_of[g]
    BY <1>2, <1>3, <1>5
  <2>2. M(m, config)!DeviceAt(g, station) = i
    BY <1>1, <1>6, <2>1, DeviceAtStation
  <2>3. DeviceCarries(devices[i], outs[i], devs[i].slave_id)
    BY DEF DevicesCarry
  <2>4. req.data[station] = devices[i].data
    BY <1>4, <2>1, <2>2
  <2>5. station \in {M(m, config)!slave_station_no[g][j] :
                        j \in M(m, config)!device_nos(g)}
            <=> station = 1 + Before(devs, i)
    <3>1. M(m, config)!device_nos(g) = 1 .. Len(devs)
      BY <1>1 DEF M!device_nos
    <3>2. ASSUME NEW j \in 1 .. Len(devs), station = 1 + Before(devs, j)
          PROVE  j = i
      <4>1. Occupies(devs, j, station)
        BY <1>1, <3>2, FirstStation
      <4> QED BY <1>1, <1>6, <2>1, <4>1, StationHasOneDevice
    <3> QED BY <1>3, <3>1, <3>2
  <2>6. req.slave_ids[station] = IF station = 1 + Before(devs, i)
                                 THEN devices[i].slave_id ELSE Multistation
    BY <1>4, <2>1, <2>2, <2>5
  <2> QED BY <2>3, <2>4, <2>6 DEF SlotTells, DeviceCarries
<1> QED BY <1>5, <1>6 DEF SlotsTell

LEMMA RequestIsOfSession ==
    ASSUME NEW m, NEW session, IsSession(session), NEW outs, NEW devices,
           NEW g \in 1 .. Len(session.config),
           DevicesCarry(devices, Devices(session, g), outs[g]),
           NEW sequence, NEW unit_info, NEW on
    PROVE  RequestTells(
                RequestOf(m, session.config, devices, g, session.parameter_no,
                          sequence, unit_info, on),
                m, session, outs)
<1> DEFINE req == RequestOf(m, session.config, devices, g, session.parameter_no,
                            sequence, unit_info, on)
<1>1. /\ HasFields(req, RequestFields)
      /\ req.remote_ip = m
      /\ req.master_id = m
      /\ req.parameter_no = session.parameter_no
      /\ req.group_no = g
      /\ req.timeout_value = session.config[g].timeout_value
      /\ req.parallel_off_timeout_count
            = session.config[g].parallel_off_timeout_count
  BY RequestHeaders
<1>2. SlotsTell(req, Devices(session, g), outs[g])
  BY SlotsOfRequest
<1> HIDE DEF req
<1> QED BY <1>1, <1>2 DEF RequestTells, req

-----------------------------------------------------------------------------
(* The group state machine.                                                *)

(* Changes that leave the devices and the requests alone.                  *)
SameGroup(r, group) ==
    /\ HasFields(r, GroupFields)
    /\ r.slave_devices = group.slave_devices
    /\ r.sent = group.sent

LEMMA SameGroupCarries ==
    ASSUME NEW r, NEW group, NEW g, NEW m, NEW session, NEW outs,
           GroupCarries(group, g, m, session, outs), SameGroup(r, group)
    PROVE  GroupCarries(r, g, m, session, outs)
  BY DEF GroupCarries, SameGroup

LEMMA NewDevicesCarry ==
    ASSUME NEW r, NEW group, NEW g, NEW m, NEW session, NEW outs, NEW devices,
           GroupCarries(group, g, m, session, outs),
           r = [group EXCEPT !.slave_devices = devices],
           DevicesCarry(devices, Devices(session, g), outs[g])
    PROVE  GroupCarries(r, g, m, session, outs)
<1>1. /\ HasFields(r, GroupFields)
      /\ r.slave_devices = devices
      /\ r.sent = group.sent
  BY DEF GroupCarries, HasFields, GroupFields
<1> QED BY <1>1 DEF GroupCarries

(* Every device gets an event, not necessarily the same.                   *)
AfterEvents(r, devices, m, session, g) ==
    /\ r = [i \in 1 .. Len(Devices(session, g)) |-> r[i]]
    /\ \A i \in 1 .. Len(Devices(session, g)) : \E event :
            r[i] = M(m, session.config)!clm_iefb_device_fsm_event(
                        devices[i], g, i, event)

LEMMA EventsForDevices ==
    ASSUME NEW m, NEW session, NEW g, NEW outs, NEW devices, NEW r,
           DevicesCarry(devices, Devices(session, g), outs),
           AfterEvents(r, devices, m, session, g)
    PROVE  DevicesCarry(r, Devices(session, g), outs)
<1> DEFINE devs == Devices(session, g)
<1>1. ASSUME NEW i \in 1 .. Len(devs)
      PROVE  DeviceCarries(r[i], outs[i], devs[i].slave_id)
  <2>1. DeviceCarries(devices[i], outs[i],
                      session.config[g].slave_devices[i].slave_id)
    BY DEF DevicesCarry, Devices
  <2>2. PICK event : r[i] = M(m, session.config)!clm_iefb_device_fsm_event(
                                devices[i], g, i, event)
    BY DEF AfterEvents
  <2>3. DeviceCarries(r[i], outs[i], session.config[g].slave_devices[i].slave_id)
    BY <2>1, <2>2, DeviceEventCarries
  <2> QED BY <2>3 DEF Devices
<1> QED BY <1>1 DEF DevicesCarry, AfterEvents

LEMMA AllInGroupCarries ==
    ASSUME NEW m, NEW session, NEW g, NEW outs, NEW group, NEW event,
           GroupCarries(group, g, m, session, outs)
    PROVE  GroupCarries(
                M(m, session.config)!clm_iefb_device_fsm_event_all_in_group(
                    group, g, event),
                g, m, session, outs)
<1> DEFINE after == [i \in 1 .. Len(Devices(session, g)) |->
                        M(m, session.config)!clm_iefb_device_fsm_event(
                            group.slave_devices[i], g, i, event)]
<1>1. M(m, session.config)!clm_iefb_device_fsm_event_all_in_group(group, g, event)
        = [group EXCEPT !.slave_devices = after]
  BY DEF M!clm_iefb_device_fsm_event_all_in_group, M!device_nos, Devices
<1>2. DevicesCarry(group.slave_devices, Devices(session, g), outs[g])
  BY DEF GroupCarries
<1>3. AfterEvents(after, group.slave_devices, m, session, g)
  BY DEF AfterEvents
<1>4. DevicesCarry(after, Devices(session, g), outs[g])
  <2> HIDE DEF after
  <2> QED BY <1>2, <1>3, EventsForDevices
<1> HIDE DEF after
<1> QED BY <1>1, <1>4, NewDevicesCarry

LEMMA StartDevicesCarries ==
    ASSUME NEW m, NEW session, NEW g, NEW outs, NEW group,
           GroupCarries(group, g, m, session, outs)
    PROVE  GroupCarries(M(m, session.config)!StartDevices(group, g),
                        g, m, session, outs)
<1> DEFINE E(i) == IF group.slave_devices[i].enabled THEN "DEVICE_START"
                   ELSE "DEVICE_STOP"
           after == [i \in 1 .. Len(Devices(session, g)) |->
                        M(m, session.config)!clm_iefb_device_fsm_event(
                            group.slave_devices[i], g, i, E(i))]
<1>1. M(m, session.config)!StartDevices(group, g)
        = [group EXCEPT !.slave_devices = after]
  BY DEF M!StartDevices, M!device_nos, Devices
<1>2. DevicesCarry(group.slave_devices, Devices(session, g), outs[g])
  BY DEF GroupCarries
<1>3. AfterEvents(after, group.slave_devices, m, session, g)
  BY DEF AfterEvents
<1>4. DevicesCarry(after, Devices(session, g), outs[g])
  <2> HIDE DEF after
  <2> QED BY <1>2, <1>3, EventsForDevices
<1> HIDE DEF after
<1> QED BY <1>1, <1>4, NewDevicesCarry

LEMMA LinkscanStartCarries ==
    ASSUME NEW m, NEW session, IsSession(session), NEW outs, NEW group, NEW c,
           NEW g \in 1 .. Len(session.config),
           GroupCarries(group, g, m, session, outs),
           c.parameter_no = session.parameter_no
    PROVE  GroupCarries(
                M(m, session.config)!clm_iefb_on_linkscan_start(group, g, c),
                g, m, session, outs)
<1> DEFINE started == M(m, session.config)!StartDevices(group, g)
           on == {M(m, session.config)!slave_station_no[g][i] :
                    i \in {j \in M(m, session.config)!device_nos(g) :
                                started.slave_devices[j].on}}
           req == RequestOf(m, session.config, started.slave_devices, g,
                            c.parameter_no, started.frame_sequence_no,
                            c.master_local_unit_info, on)
           sending == [started EXCEPT !.sent = @ \cup {req}]
           first == M(m, session.config)!cl_timer_start(
                        session.config[g].timeout_value)
           r == [sending EXCEPT
                    !.response_wait_timer = first,
                    !.constant_linkscan_timer =
                        IF session.config[g].use_constant_link_scan_time
                        THEN first ELSE @]
<1>1. M(m, session.config)!clm_iefb_send_cyclic_request_frame(started, g, c)
        = sending
  BY DEF M!clm_iefb_send_cyclic_request_frame, RequestOf
<1>2. M(m, session.config)!clm_iefb_on_linkscan_start(group, g, c) = r
  BY <1>1 DEF M!clm_iefb_on_linkscan_start
<1>3. GroupCarries(started, g, m, session, outs)
  BY StartDevicesCarries
<1> HIDE DEF started
<1>4. DevicesCarry(started.slave_devices, Devices(session, g), outs[g])
  BY <1>3 DEF GroupCarries
<1> HIDE DEF on
<1>5. RequestTells(req, m, session, outs)
  BY <1>4, RequestIsOfSession
<1> HIDE DEF req
<1>6. /\ HasFields(sending, GroupFields)
      /\ sending.slave_devices = started.slave_devices
      /\ sending.sent = started.sent \cup {req}
  BY <1>3 DEF GroupCarries, HasFields, GroupFields
<1>7. SentTells(sending.sent, m, session, outs)
  BY <1>3, <1>5, <1>6 DEF SentTells, GroupCarries
<1>8. GroupCarries(sending, g, m, session, outs)
  BY <1>4, <1>6, <1>7 DEF GroupCarries
<1> HIDE DEF sending, first
<1>9. SameGroup(r, sending)
  BY <1>6 DEF SameGroup, HasFields, GroupFields
<1> HIDE DEF r
<1> QED BY <1>2, <1>8, <1>9, SameGroupCarries

LEMMA GroupInitCarries ==
    ASSUME NEW m, NEW session, NEW g, NEW outs, NEW group,
           GroupCarries(group, g, m, session, outs)
    PROVE  GroupCarries(M(m, session.config)!clm_iefb_group_init(group, g),
                        g, m, session, outs)
<1> DEFINE devs == Devices(session, g)
           before == group.slave_devices
           devices == [i \in 1 .. Len(devs) |->
                        [before[i] EXCEPT !.device_state = "MASTER_DOWN",
                                          !.on = FALSE]]
           stop == M(m, session.config)!cl_timer_stop
           stopped == [group EXCEPT !.response_wait_timer = stop,
                                    !.constant_linkscan_timer = stop,
                                    !.frame_sequence_no = 0]
           cleared == [stopped EXCEPT !.slave_devices = devices]
<1>1. M(m, session.config)!clm_iefb_group_init(group, g)
        = M(m, session.config)!clm_iefb_device_fsm_event_all_in_group(
                cleared, g, "GROUP_STARTUP")
  <2>1. cleared = [group EXCEPT !.response_wait_timer = stop,
                                !.constant_linkscan_timer = stop,
                                !.frame_sequence_no = 0,
                                !.slave_devices = devices]
    <3> HIDE DEF devices, stop
    <3> QED BY DEF GroupCarries, HasFields, GroupFields
  <2>2. M(m, session.config)!device_nos(g) = 1 .. Len(devs)
    BY DEF M!device_nos, Devices
  <2> HIDE DEF cleared, stopped
  <2> QED BY <2>1, <2>2 DEF M!clm_iefb_group_init
<1>2. ASSUME NEW i \in 1 .. Len(devs)
      PROVE  DeviceCarries(devices[i], outs[g][i], devs[i].slave_id)
  <2>1. DeviceCarries(before[i], outs[g][i], devs[i].slave_id)
    BY DEF GroupCarries, DevicesCarry
  <2>2. devices[i] = [before[i] EXCEPT !.device_state = "MASTER_DOWN",
                                       !.on = FALSE]
    OBVIOUS
  <2> HIDE DEF devices, before
  <2>3. SameParts(devices[i], before[i])
    BY <2>1, <2>2 DEF SameParts, DeviceCarries, HasFields, DeviceFields
  <2> QED BY <2>1, <2>3, SamePartsCarry
<1>3. DevicesCarry(devices, devs, outs[g])
  <2>1. devices = [i \in 1 .. Len(devs) |-> devices[i]]
    OBVIOUS
  <2> HIDE DEF devices
  <2> QED BY <1>2, <2>1 DEF DevicesCarry
<1> HIDE DEF devices, stop
<1>4. SameGroup(stopped, group)
  BY DEF SameGroup, GroupCarries, HasFields, GroupFields
<1>5. GroupCarries(stopped, g, m, session, outs)
  BY <1>4, SameGroupCarries
<1> HIDE DEF stopped
<1>6. GroupCarries(cleared, g, m, session, outs)
  BY <1>3, <1>5, NewDevicesCarry
<1> HIDE DEF cleared
<1> QED BY <1>1, <1>6, AllInGroupCarries

LEMMA ReflectCarries ==
    ASSUME NEW m, NEW session, NEW g, NEW outs, NEW group,
           GroupCarries(group, g, m, session, outs)
    PROVE  GroupCarries(
                M(m, session.config)!clm_iefb_reflect_group_parameters(group, g),
                g, m, session, outs)
<1> DEFINE devs == Devices(session, g)
           before == group.slave_devices
           devices == [i \in 1 .. Len(devs) |->
                        [before[i] EXCEPT !.timeout_count = 0,
                                          !.slave_id = devs[i].slave_id,
                                          !.on = FALSE,
                                          !.data = NoData]]
           zero == [group EXCEPT !.frame_sequence_no = 0]
           cleared == [zero EXCEPT !.slave_devices = devices]
<1>1. M(m, session.config)!clm_iefb_reflect_group_parameters(group, g) = cleared
  <2>1. cleared = [group EXCEPT !.frame_sequence_no = 0,
                                !.slave_devices = devices]
    <3> HIDE DEF devices
    <3> QED BY DEF GroupCarries, HasFields, GroupFields
  <2>2. /\ M(m, session.config)!device_nos(g) = 1 .. Len(devs)
        /\ \A i : M(m, session.config)!Setting(g, i) = devs[i]
    BY DEF M!device_nos, M!Setting, Devices
  <2> HIDE DEF cleared, zero
  <2> QED BY <2>1, <2>2 DEF M!clm_iefb_reflect_group_parameters
<1>2. ASSUME NEW i \in 1 .. Len(devs)
      PROVE  DeviceCarries(devices[i], outs[g][i], devs[i].slave_id)
  <2>1. DeviceCarries(before[i], outs[g][i], devs[i].slave_id)
    BY DEF GroupCarries, DevicesCarry
  <2>2. devices[i] = [before[i] EXCEPT !.timeout_count = 0,
                                       !.slave_id = devs[i].slave_id,
                                       !.on = FALSE,
                                       !.data = NoData]
    OBVIOUS
  <2> HIDE DEF devices, before, devs
  <2> QED BY <2>1, <2>2 DEF DeviceCarries, HasFields, DeviceFields
<1>3. DevicesCarry(devices, devs, outs[g])
  <2>1. devices = [i \in 1 .. Len(devs) |-> devices[i]]
    OBVIOUS
  <2> HIDE DEF devices
  <2> QED BY <1>2, <2>1 DEF DevicesCarry
<1> HIDE DEF devices
<1>4. SameGroup(zero, group)
  BY DEF SameGroup, GroupCarries, HasFields, GroupFields
<1>5. GroupCarries(zero, g, m, session, outs)
  BY <1>4, SameGroupCarries
<1> HIDE DEF zero
<1>6. GroupCarries(cleared, g, m, session, outs)
  BY <1>3, <1>5, NewDevicesCarry
<1> HIDE DEF cleared
<1> QED BY <1>1, <1>6

(* The end of a scan.                                                      *)
LEMMA ScanEndCarries ==
    ASSUME NEW m, NEW session, NEW g, NEW outs, NEW group,
           GroupCarries(group, g, m, session, outs)
    PROVE  /\ GroupCarries(
                M(m, session.config)!clm_iefb_on_linkscan_timeout(group, g),
                g, m, session, outs)
           /\ GroupCarries(
                M(m, session.config)!clm_iefb_on_linkscan_complete(group, g),
                g, m, session, outs)
<1>1. ASSUME NEW event, NEW success, NEW r, NEW before,
             GroupCarries(before, g, m, session, outs),
             LET all == M(m, session.config)!
                            clm_iefb_device_fsm_event_all_in_group(before, g, event)
                 told == [all EXCEPT !.linkscan = @ \cup {success}]
             IN  r = [told EXCEPT !.frame_sequence_no =
                        M(m, session.config)!clm_iefb_update_frame_sequence_no(@)]
      PROVE  GroupCarries(r, g, m, session, outs)
  <2> DEFINE all == M(m, session.config)!
                        clm_iefb_device_fsm_event_all_in_group(before, g, event)
             told == [all EXCEPT !.linkscan = @ \cup {success}]
             next == M(m, session.config)!clm_iefb_update_frame_sequence_no(
                        told.frame_sequence_no)
  <2>1. GroupCarries(all, g, m, session, outs)
    BY <1>1, AllInGroupCarries
  <2>2. r = [told EXCEPT !.frame_sequence_no = next]
    BY <1>1
  <2> HIDE DEF all
  <2>3. SameGroup(told, all)
    BY <2>1 DEF SameGroup, GroupCarries, HasFields, GroupFields
  <2>4. GroupCarries(told, g, m, session, outs)
    BY <2>1, <2>3, SameGroupCarries
  <2> HIDE DEF told, next
  <2>5. SameGroup(r, told)
    BY <2>2, <2>4 DEF SameGroup, GroupCarries, HasFields, GroupFields
  <2> QED BY <2>4, <2>5, SameGroupCarries
<1> DEFINE stop == M(m, session.config)!cl_timer_stop
           stopped == [group EXCEPT !.response_wait_timer = stop]
<1>2. GroupCarries(stopped, g, m, session, outs)
  <2> HIDE DEF stop
  <2>1. SameGroup(stopped, group)
    BY DEF SameGroup, GroupCarries, HasFields, GroupFields
  <2> QED BY <2>1, SameGroupCarries
<1>3. GroupCarries(M(m, session.config)!clm_iefb_on_linkscan_timeout(group, g),
                   g, m, session, outs)
  BY <1>1 DEF M!clm_iefb_on_linkscan_timeout,
              M!clm_iefb_trigger_linkscan_callback
<1>4. GroupCarries(M(m, session.config)!clm_iefb_on_linkscan_complete(group, g),
                   g, m, session, outs)
  BY <1>1, <1>2 DEF M!clm_iefb_on_linkscan_complete,
                    M!clm_iefb_trigger_linkscan_callback
<1> QED BY <1>3, <1>4

(* An event that may send a request needs the number of the session.       *)
Quiet(event) == event \in {"STARTUP", "NEW_CONFIG"}

LEMMA GroupActionCarries ==
    ASSUME NEW m, NEW session, IsSession(session), NEW outs, NEW group, NEW c,
           NEW event, NEW g \in 1 .. Len(session.config),
           GroupCarries(group, g, m, session, outs),
           Quiet(event) \/ c.parameter_no = session.parameter_no
    PROVE  GroupCarries(M(m, session.config)!GroupAction(group, g, event, c),
                        g, m, session, outs)
<1>1. CASE event = "STARTUP"
  BY <1>1, GroupInitCarries DEF M!GroupAction
<1>2. CASE event = "NEW_CONFIG"
  BY <1>2, ReflectCarries DEF M!GroupAction
<1>3. CASE event = "LINKSCAN_START"
  <2>1. c.parameter_no = session.parameter_no
    BY <1>3 DEF Quiet
  <2> QED BY <1>3, <2>1, LinkscanStartCarries DEF M!GroupAction
<1>4. CASE event = "LINKSCAN_TIMEOUT"
  BY <1>4, ScanEndCarries DEF M!GroupAction
<1>5. CASE event = "LINKSCAN_COMPLETE"
  BY <1>5, ScanEndCarries DEF M!GroupAction
<1>6. CASE event \notin {"STARTUP", "NEW_CONFIG", "LINKSCAN_START",
                         "LINKSCAN_TIMEOUT", "LINKSCAN_COMPLETE"}
  BY <1>6 DEF M!GroupAction
<1> QED BY <1>1, <1>2, <1>3, <1>4, <1>5, <1>6

LEMMA GroupTurnCarries ==
    ASSUME NEW m, NEW session, IsSession(session), NEW outs, NEW group, NEW c,
           NEW event, NEW g \in 1 .. Len(session.config),
           GroupCarries(group, g, m, session, outs),
           Quiet(event) \/ c.parameter_no = session.parameter_no
    PROVE  GroupCarries(M(m, session.config)!group_fsm_turn(group, g, event, c),
                        g, m, session, outs)
<1> DEFINE next == M(m, session.config)!NextGroupState(group.group_state, event)
           moved == [group EXCEPT !.group_state = next]
           acted == M(m, session.config)!GroupAction(moved, g, event, c)
<1>1. M(m, session.config)!group_fsm_turn(group, g, event, c)
        = M(m, session.config)!GroupOnEntry(acted, g)
  BY DEF M!group_fsm_turn
<1>2. GroupCarries(moved, g, m, session, outs)
  <2> HIDE DEF next
  <2>1. SameGroup(moved, group)
    BY DEF SameGroup, GroupCarries, HasFields, GroupFields
  <2> QED BY <2>1, SameGroupCarries
<1> HIDE DEF moved
<1>3. GroupCarries(acted, g, m, session, outs)
  BY <1>2, GroupActionCarries
<1> HIDE DEF acted
<1>4. GroupCarries(M(m, session.config)!
            clm_iefb_device_fsm_event_all_in_group(acted, g, "GROUP_STANDBY"),
                   g, m, session, outs)
  BY <1>3, AllInGroupCarries
<1>5. GroupCarries(M(m, session.config)!GroupOnEntry(acted, g),
                   g, m, session, outs)
  BY <1>3, <1>4 DEF M!GroupOnEntry
<1> QED BY <1>1, <1>5

LEMMA GroupAfterCarries ==
    ASSUME NEW m, NEW session, IsSession(session), NEW outs, NEW group, NEW c,
           NEW event, NEW g \in 1 .. Len(session.config),
           GroupCarries(group, g, m, session, outs),
           Quiet(event) \/ c.parameter_no = session.parameter_no
    PROVE  GroupCarries(M(m, session.config)!GroupAfter(group, g, event, c),
                        g, m, session, outs)
<1> DEFINE once == M(m, session.config)!group_fsm_turn(group, g, event, c)
           asked == M(m, session.config)!AsksForScan(g, event)
<1>1. M(m, session.config)!GroupAfter(group, g, event, c)
        = IF asked
          THEN M(m, session.config)!group_fsm_turn(once, g, "LINKSCAN_START", c)
          ELSE once
  BY DEF M!GroupAfter, M!GroupFollowUp
<1>2. GroupCarries(once, g, m, session, outs)
  BY GroupTurnCarries
<1>3. asked => c.parameter_no = session.parameter_no
  BY DEF M!AsksForScan, Quiet
<1> HIDE DEF once, asked
<1>4. asked => GroupCarries(
        M(m, session.config)!group_fsm_turn(once, g, "LINKSCAN_START", c),
        g, m, session, outs)
  BY <1>2, <1>3, GroupTurnCarries
<1> QED BY <1>1, <1>2, <1>4

-----------------------------------------------------------------------------
(* The stack.                                                              *)

(* Changes that leave the groups and the number alone.                     *)
SameStack(r, c) ==
    /\ HasFields(r, MasterFields)
    /\ r.groups = c.groups
    /\ r.parameter_no = c.parameter_no

LEMMA SameStackCarries ==
    ASSUME NEW r, NEW c, NEW m, NEW session, NEW outs,
           MasterCarries(c, m, session, outs), SameStack(r, c)
    PROVE  MasterCarries(r, m, session, outs)
  BY DEF MasterCarries, SameStack

LEMMA NewGroupsCarry ==
    ASSUME NEW r, NEW c, NEW m, NEW session, NEW outs, NEW groups,
           MasterCarries(c, m, session, outs),
           r = [c EXCEPT !.groups = groups],
           GroupsCarry(groups, m, session, outs)
    PROVE  MasterCarries(r, m, session, outs) /\ r.parameter_no = c.parameter_no
<1>1. /\ HasFields(r, MasterFields)
      /\ r.groups = groups
      /\ r.parameter_no = c.parameter_no
  BY DEF MasterCarries, HasFields, MasterFields
<1> QED BY <1>1 DEF MasterCarries

LEMMA SharedCarries ==
    ASSUME NEW m, NEW session, NEW outs, NEW c, NEW event, NEW state,
           MasterCarries(c, m, session, outs)
    PROVE  LET r == M(m, session.config)!SharedOnEntry(
                        M(m, session.config)!clm_iefb_on_arbitration_failed(
                            c, event), state)
           IN  MasterCarries(r, m, session, outs) /\ SameStack(r, c)
<1> DEFINE failed == M(m, session.config)!clm_iefb_on_arbitration_failed(c, event)
           r == M(m, session.config)!SharedOnEntry(failed, state)
<1>1. failed = c \/ failed = [c EXCEPT !.errors = @ \cup {"ARBITRATION_FAILED"}]
  BY DEF M!clm_iefb_on_arbitration_failed, M!clm_iefb_trigger_error_callback
<1>2. SameStack(failed, c)
  <2> HIDE DEF failed
  <2> QED BY <1>1 DEF SameStack, MasterCarries, HasFields, MasterFields
<1> HIDE DEF failed
<1>3. PICK timer, new_state :
        r = failed \/ r = [failed EXCEPT !.master_state = new_state]
        \/ r = [[failed EXCEPT !.arbitration_timer = timer]
                    EXCEPT !.master_state = new_state]
  <2>1. CASE state = "MASTER_LISTEN"
    BY <2>1 DEF M!SharedOnEntry, M!clm_iefb_set_master_state
  <2>2. CASE state = "MASTER_ARBITRATION"
    BY <2>2 DEF M!SharedOnEntry, M!clm_iefb_set_master_state
  <2>3. CASE state = "MASTER_LINK_SCAN_COMP"
    BY <2>3 DEF M!SharedOnEntry, M!clm_iefb_set_master_state
  <2>4. CASE state \notin {"MASTER_LISTEN", "MASTER_ARBITRATION",
                           "MASTER_LINK_SCAN_COMP"}
    BY <2>4 DEF M!SharedOnEntry
  <2> QED BY <2>1, <2>2, <2>3, <2>4
<1> HIDE DEF r
<1>4. SameStack(r, failed)
  BY <1>2, <1>3 DEF SameStack, HasFields, MasterFields
<1>5. SameStack(r, c)
  BY <1>2, <1>4 DEF SameStack
<1> QED BY <1>5, SameStackCarries DEF r, failed

LEMMA MoveGroupsCarries ==
    ASSUME NEW m, NEW session, IsSession(session), NEW outs, NEW c, NEW event,
           NEW moving, MasterCarries(c, m, session, outs),
           Quiet(event) \/ c.parameter_no = session.parameter_no
    PROVE  LET r == M(m, session.config)!MoveGroups(c, moving, event)
           IN  MasterCarries(r, m, session, outs)
               /\ r.parameter_no = c.parameter_no
<1> DEFINE config == session.config
           state == M(m, config)!NextGroupState(
                        c.groups[CHOOSE g \in moving : TRUE].group_state, event)
           shared == M(m, config)!SharedOnEntry(
                        M(m, config)!clm_iefb_on_arbitration_failed(c, event),
                        state)
           groups == [g \in 1 .. Len(config) |->
                        IF g \in moving
                        THEN M(m, config)!GroupAfter(shared.groups[g], g, event, c)
                        ELSE shared.groups[g]]
           moved == [shared EXCEPT !.groups = groups]
           r == M(m, config)!MoveGroups(c, moving, event)
<1>1. r = c \/ r = moved
  BY DEF M!MoveGroups, M!group_nos
<1>2. MasterCarries(shared, m, session, outs) /\ SameStack(shared, c)
  <2> HIDE DEF state
  <2> QED BY SharedCarries
<1> HIDE DEF shared
<1>3. ASSUME NEW g \in 1 .. Len(config)
      PROVE  GroupCarries(groups[g], g, m, session, outs)
  <2>1. GroupCarries(shared.groups[g], g, m, session, outs)
    BY <1>2 DEF MasterCarries, GroupsCarry
  <2>2. GroupCarries(M(m, config)!GroupAfter(shared.groups[g], g, event, c),
                     g, m, session, outs)
    BY <2>1, GroupAfterCarries
  <2> QED BY <2>1, <2>2
<1>4. groups = [g \in 1 .. Len(config) |-> groups[g]]
  OBVIOUS
<1> HIDE DEF groups
<1>5. MasterCarries(moved, m, session, outs)
      /\ moved.parameter_no = shared.parameter_no
  <2>1. GroupsCarry(groups, m, session, outs)
    BY <1>3, <1>4 DEF GroupsCarry
  <2> QED BY <1>2, <2>1, NewGroupsCarry
<1> HIDE DEF moved, r
<1>6. shared.parameter_no = c.parameter_no
  BY <1>2 DEF SameStack
<1>7. MasterCarries(r, m, session, outs) /\ r.parameter_no = c.parameter_no
  BY <1>1, <1>5, <1>6
<1> QED BY <1>7 DEF r

LEMMA SameStackRuns ==
    ASSUME NEW r, NEW c, NEW m, NEW session, NEW outs,
           RunsIn(c, m, session, outs), SameStack(r, c)
    PROVE  RunsIn(r, m, session, outs)
  BY SameStackCarries DEF RunsIn, SameStack

LEMMA NewGroupsRun ==
    ASSUME NEW r, NEW c, NEW m, NEW session, NEW outs, NEW groups,
           RunsIn(c, m, session, outs),
           r = [c EXCEPT !.groups = groups],
           GroupsCarry(groups, m, session, outs)
    PROVE  RunsIn(r, m, session, outs)
  BY NewGroupsCarry DEF RunsIn

LEMMA GroupEventRuns ==
    ASSUME NEW m, NEW session, IsSession(session), NEW outs, NEW c, NEW event,
           NEW gs, RunsIn(c, m, session, outs)
    PROVE  /\ RunsIn(M(m, session.config)!clm_iefb_group_fsm_event(c, gs, event),
                     m, session, outs)
           /\ RunsIn(M(m, session.config)!clm_iefb_group_fsm_event_all(c, event),
                     m, session, outs)
<1>1. ASSUME NEW some
      PROVE  RunsIn(M(m, session.config)!clm_iefb_group_fsm_event(c, some, event),
                    m, session, outs)
  <2> DEFINE moving == {g \in some : M(m, session.config)!HasGroupTransition(
                                        c.groups[g].group_state, event)}
  <2>1. M(m, session.config)!clm_iefb_group_fsm_event(c, some, event)
            = M(m, session.config)!MoveGroups(c, moving, event)
    BY DEF M!clm_iefb_group_fsm_event
  <2> HIDE DEF moving
  <2>2. /\ MasterCarries(c, m, session, outs)
        /\ c.parameter_no = session.parameter_no
    BY DEF RunsIn
  <2> QED BY <2>1, <2>2, MoveGroupsCarries DEF RunsIn
<1> QED BY <1>1 DEF M!clm_iefb_group_fsm_event_all

LEMMA NewDeviceRuns ==
    ASSUME NEW m, NEW session, NEW outs, NEW c, NEW dev, NEW r,
           NEW g \in 1 .. Len(session.config),
           NEW i \in 1 .. Len(Devices(session, g)),
           RunsIn(c, m, session, outs),
           DeviceCarries(dev, outs[g][i], Devices(session, g)[i].slave_id),
           r = [c EXCEPT !.groups[g].slave_devices[i] = dev]
    PROVE  RunsIn(r, m, session, outs)
<1> DEFINE devices == [c.groups[g].slave_devices EXCEPT ![i] = dev]
           group == [c.groups[g] EXCEPT !.slave_devices = devices]
           groups == [c.groups EXCEPT ![g] = group]
<1>1. r = [c EXCEPT !.groups = groups]
  OBVIOUS
<1>2. /\ GroupsCarry(c.groups, m, session, outs)
      /\ GroupCarries(c.groups[g], g, m, session, outs)
  BY DEF RunsIn, MasterCarries, GroupsCarry
<1>3. DevicesCarry(c.groups[g].slave_devices, Devices(session, g), outs[g])
  BY <1>2 DEF GroupCarries
<1>4. DevicesCarry(devices, Devices(session, g), outs[g])
  BY <1>3 DEF DevicesCarry
<1> HIDE DEF devices
<1>5. GroupCarries(group, g, m, session, outs)
  BY <1>2, <1>4, NewDevicesCarry
<1> HIDE DEF group
<1>6. GroupsCarry(groups, m, session, outs)
  BY <1>2, <1>5 DEF GroupsCarry
<1> HIDE DEF groups
<1> QED BY <1>1, <1>6, NewGroupsRun

LEMMA DeviceOfStack ==
    ASSUME NEW m, NEW session, NEW outs, NEW c,
           NEW g \in 1 .. Len(session.config),
           NEW i \in 1 .. Len(Devices(session, g)),
           RunsIn(c, m, session, outs)
    PROVE  DeviceCarries(c.groups[g].slave_devices[i], outs[g][i],
                         session.config[g].slave_devices[i].slave_id)
<1>1. GroupCarries(c.groups[g], g, m, session, outs)
  BY DEF RunsIn, MasterCarries, GroupsCarry
<1> QED BY <1>1 DEF GroupCarries, DevicesCarry, Devices

LEMMA DeviceEventRuns ==
    ASSUME NEW m, NEW session, NEW outs, NEW c, NEW event,
           NEW g \in 1 .. Len(session.config),
           NEW i \in 1 .. Len(Devices(session, g)),
           RunsIn(c, m, session, outs)
    PROVE  RunsIn(M(m, session.config)!DeviceEvent(c, g, i, event),
                  m, session, outs)
<1> DEFINE dev == M(m, session.config)!clm_iefb_device_fsm_event(
                    c.groups[g].slave_devices[i], g, i, event)
<1>1. M(m, session.config)!DeviceEvent(c, g, i, event)
        = [c EXCEPT !.groups[g].slave_devices[i] = dev]
  BY DEF M!DeviceEvent
<1>2. DeviceCarries(dev, outs[g][i], Devices(session, g)[i].slave_id)
  BY DeviceOfStack, DeviceEventCarries DEF Devices
<1> HIDE DEF dev
<1> QED BY <1>1, <1>2, NewDeviceRuns

LEMMA ErrorRuns ==
    ASSUME NEW m, NEW session, NEW outs, NEW c, NEW message,
           RunsIn(c, m, session, outs)
    PROVE  RunsIn(M(m, session.config)!clm_iefb_trigger_error_callback(c, message),
                  m, session, outs)
<1> DEFINE r == M(m, session.config)!clm_iefb_trigger_error_callback(c, message)
<1>1. SameStack(r, c)
  BY DEF M!clm_iefb_trigger_error_callback, SameStack, RunsIn, MasterCarries,
         HasFields, MasterFields
<1> HIDE DEF r
<1> QED BY <1>1, SameStackRuns DEF r

LEMMA AcceptResponseRuns ==
    ASSUME NEW m, NEW session, IsSession(session), NEW outs, NEW c, NEW resp,
           NEW g \in 1 .. Len(session.config),
           NEW i \in 1 .. Len(Devices(session, g)),
           RunsIn(c, m, session, outs)
    PROVE  RunsIn(M(m, session.config)!AcceptResponse(c, g, i, resp),
                  m, session, outs)
<1> DEFINE config == session.config
           reported == M(m, config)!Report(c, resp)
           dev == M(m, config)!StoreIncoming(reported.groups[g].slave_devices[i],
                                             resp)
           stored == [reported EXCEPT !.groups[g].slave_devices[i] = dev]
           event == IF resp.end_code = "SUCCESS" THEN "RECEIVE_OK"
                    ELSE "RECEIVE_ERROR"
           told == M(m, config)!DeviceEvent(stored, g, i, event)
<1>1. \/ M(m, config)!AcceptResponse(c, g, i, resp) = reported
      \/ M(m, config)!AcceptResponse(c, g, i, resp)
            = M(m, config)!clm_iefb_group_fsm_event_all(stored, "MASTERDUPL_ALARM")
      \/ M(m, config)!AcceptResponse(c, g, i, resp) = told
      \/ M(m, config)!AcceptResponse(c, g, i, resp)
            = M(m, config)!clm_iefb_group_fsm_event(told, {g}, "LINKSCAN_COMPLETE")
  BY DEF M!AcceptResponse, M!RaiseEvents, M!EndScanIfComplete
<1>2. RunsIn(reported, m, session, outs)
  BY ErrorRuns DEF M!Report
<1> HIDE DEF reported
<1>3. DeviceCarries(dev, outs[g][i], Devices(session, g)[i].slave_id)
  <2> DEFINE before == reported.groups[g].slave_devices[i]
  <2>1. DeviceCarries(before, outs[g][i], config[g].slave_devices[i].slave_id)
    BY <1>2, DeviceOfStack
  <2> HIDE DEF before
  <2>2. SameParts(M(m, config)!StoreIncoming(before, resp), before)
    BY <2>1 DEF M!StoreIncoming, SameParts, DeviceCarries, HasFields, DeviceFields
  <2>3. DeviceCarries(M(m, config)!StoreIncoming(before, resp), outs[g][i],
                      config[g].slave_devices[i].slave_id)
    BY <2>1, <2>2, SamePartsCarry
  <2> QED BY <2>3 DEF before, Devices
<1> HIDE DEF dev
<1>4. RunsIn(stored, m, session, outs)
  BY <1>2, <1>3, NewDeviceRuns
<1> HIDE DEF stored
<1>5. RunsIn(told, m, session, outs)
  BY <1>4, DeviceEventRuns
<1> HIDE DEF told
<1> QED BY <1>1, <1>2, <1>4, <1>5, GroupEventRuns

LEMMA InputRuns ==
    ASSUME NEW m, NEW session, IsSession(session), NEW outs, NEW c, NEW frame,
           RunsIn(c, m, session, outs)
    PROVE  RunsIn(M(m, session.config)!clm_iefb_handle_input_frame(c, frame),
                  m, session, outs)
<1> DEFINE config == session.config
           g == frame.group_no
           i == M(m, config)!clm_iefb_calc_slave_device_index(frame)
           r == M(m, config)!clm_iefb_handle_input_frame(c, frame)
<1>1. \/ r = c
      \/ r = M(m, config)!clm_iefb_group_fsm_event_all(c, "REQ_FROM_OTHER")
      \/ /\ M(m, config)!IsFromConfiguredDevice(frame)
         /\ r = M(m, config)!HandleResponseFrom(c, g, i, frame)
  BY DEF M!clm_iefb_handle_input_frame, M!clm_iefb_handle_request_frame,
         M!clm_iefb_handle_response_frame
<1> HIDE DEF r
<1>2. ASSUME M(m, config)!IsFromConfiguredDevice(frame),
             r = M(m, config)!HandleResponseFrom(c, g, i, frame)
      PROVE  RunsIn(r, m, session, outs)
  <2>1. g \in 1 .. Len(config) /\ i \in 1 .. Len(Devices(session, g))
    BY <1>2 DEF M!IsFromConfiguredDevice, M!DevicesOf, M!group_nos,
                M!device_nos, M!clm_iefb_calc_slave_device_index, Devices
  <2> DEFINE duplicated == M(m, config)!clm_iefb_trigger_error_callback(
                                c, "SLAVE_DUPLICATION")
  <2>2. \/ r = c
        \/ r = M(m, config)!DeviceEvent(duplicated, g, i, "SLAVE_DUPLICATION")
        \/ r = M(m, config)!AcceptResponse(c, g, i, frame)
    BY <1>2 DEF M!HandleResponseFrom, M!HandleResponseOf
  <2>3. RunsIn(duplicated, m, session, outs)
    BY ErrorRuns
  <2> HIDE DEF duplicated, i, g
  <2> QED BY <2>1, <2>2, <2>3, DeviceEventRuns, AcceptResponseRuns
<1>3. RunsIn(r, m, session, outs)
  BY <1>1, <1>2, GroupEventRuns
<1> QED BY <1>1, <1>3 DEF r

(* New groups that differ in their timers, or have handed on what they     *)
(* have sent.                                                              *)
LEMMA QuieterGroupsRun ==
    ASSUME NEW m, NEW session, NEW outs, NEW c, NEW r, NEW groups,
           RunsIn(c, m, session, outs),
           HasFields(r, MasterFields),
           r.groups = groups,
           r.parameter_no = c.parameter_no,
           groups = [g \in 1 .. Len(session.config) |-> groups[g]],
           \A g \in 1 .. Len(session.config) :
                /\ HasFields(groups[g], GroupFields)
                /\ groups[g].slave_devices = c.groups[g].slave_devices
                /\ groups[g].sent \subseteq c.groups[g].sent
    PROVE  RunsIn(r, m, session, outs)
<1>1. ASSUME NEW g \in 1 .. Len(session.config)
      PROVE  GroupCarries(groups[g], g, m, session, outs)
  <2>1. GroupCarries(c.groups[g], g, m, session, outs)
    BY DEF RunsIn, MasterCarries, GroupsCarry
  <2> QED BY <2>1 DEF GroupCarries, SentTells
<1>2. GroupsCarry(groups, m, session, outs)
  BY <1>1 DEF GroupsCarry
<1> QED BY <1>2 DEF RunsIn, MasterCarries

LEMMA FieldsOfStack ==
    ASSUME NEW m, NEW session, NEW outs, NEW c, RunsIn(c, m, session, outs)
    PROVE  /\ HasFields(c, MasterFields)
           /\ \A g \in 1 .. Len(session.config) :
                HasFields(c.groups[g], GroupFields)
  BY DEF RunsIn, MasterCarries, GroupsCarry, GroupCarries

LEMMA NewCallRuns ==
    ASSUME NEW m, NEW session, NEW outs, NEW c, RunsIn(c, m, session, outs)
    PROVE  RunsIn(M(m, session.config)!NewMasterCall(c), m, session, outs)
<1> DEFINE groups == [g \in 1 .. Len(session.config) |->
                        [c.groups[g] EXCEPT !.sent = {}, !.linkscan = {}]]
           r == [c EXCEPT !.errors = {}, !.groups = groups]
<1>1. M(m, session.config)!NewMasterCall(c) = r
  BY DEF M!NewMasterCall, M!group_nos
<1>2. groups = [g \in 1 .. Len(session.config) |-> groups[g]]
  OBVIOUS
<1>3. ASSUME NEW g \in 1 .. Len(session.config)
      PROVE  /\ HasFields(groups[g], GroupFields)
             /\ groups[g].slave_devices = c.groups[g].slave_devices
             /\ groups[g].sent \subseteq c.groups[g].sent
  <2> DEFINE group == c.groups[g]
  <2>1. HasFields(group, GroupFields)
    BY FieldsOfStack
  <2>2. groups[g] = [group EXCEPT !.sent = {}, !.linkscan = {}]
    OBVIOUS
  <2> HIDE DEF groups
  <2> QED BY <2>1, <2>2 DEF HasFields, GroupFields
<1> HIDE DEF groups
<1>4. /\ HasFields(r, MasterFields)
      /\ r.groups = groups
      /\ r.parameter_no = c.parameter_no
  <2>1. HasFields(c, MasterFields)
    BY FieldsOfStack
  <2> QED BY <2>1 DEF HasFields, MasterFields
<1> HIDE DEF r
<1>5. RunsIn(r, m, session, outs)
  BY <1>2, <1>3, <1>4, QuieterGroupsRun
<1> QED BY <1>1, <1>5

LEMMA AdvanceRuns ==
    ASSUME NEW m, NEW session, NEW outs, NEW c, NEW d, RunsIn(c, m, session, outs)
    PROVE  RunsIn(M(m, session.config)!AdvanceMaster(c, d), m, session, outs)
<1> DEFINE A(t) == M(m, session.config)!TimerAdvance(t, d)
           groups == [g \in 1 .. Len(session.config) |->
                        [c.groups[g] EXCEPT !.response_wait_timer = A(@),
                                            !.constant_linkscan_timer = A(@)]]
           timer == A(c.arbitration_timer)
           r == [c EXCEPT !.arbitration_timer = timer, !.groups = groups]
<1>1. M(m, session.config)!AdvanceMaster(c, d) = r
  BY DEF M!AdvanceMaster, M!AdvanceGroup, M!group_nos
<1>2. groups = [g \in 1 .. Len(session.config) |-> groups[g]]
  OBVIOUS
<1>3. ASSUME NEW g \in 1 .. Len(session.config)
      PROVE  /\ HasFields(groups[g], GroupFields)
             /\ groups[g].slave_devices = c.groups[g].slave_devices
             /\ groups[g].sent \subseteq c.groups[g].sent
  <2> DEFINE group == c.groups[g]
             wait == A(group.response_wait_timer)
             pace == A(group.constant_linkscan_timer)
  <2>1. HasFields(group, GroupFields)
    BY FieldsOfStack
  <2>2. groups[g] = [group EXCEPT !.response_wait_timer = wait,
                                  !.constant_linkscan_timer = pace]
    OBVIOUS
  <2> HIDE DEF groups, wait, pace
  <2> QED BY <2>1, <2>2 DEF HasFields, GroupFields
<1> HIDE DEF groups, timer
<1>4. /\ HasFields(r, MasterFields)
      /\ r.groups = groups
      /\ r.parameter_no = c.parameter_no
  <2>1. HasFields(c, MasterFields)
    BY FieldsOfStack
  <2> QED BY <2>1 DEF HasFields, MasterFields
<1> HIDE DEF r
<1>5. RunsIn(r, m, session, outs)
  BY <1>2, <1>3, <1>4, QuieterGroupsRun
<1> QED BY <1>1, <1>5

(* The timers that have expired are stopped, and the event is raised.      *)
LEMMA MonitorArbitrationRuns ==
    ASSUME NEW m, NEW session, IsSession(session), NEW outs, NEW c,
           RunsIn(c, m, session, outs)
    PROVE  RunsIn(M(m, session.config)!MonitorArbitrationTimer(c),
                  m, session, outs)
<1> DEFINE stop == M(m, session.config)!cl_timer_stop
           stopped == [c EXCEPT !.arbitration_timer = stop]
<1>1. \/ M(m, session.config)!MonitorArbitrationTimer(c) = c
      \/ M(m, session.config)!MonitorArbitrationTimer(c)
            = M(m, session.config)!clm_iefb_group_fsm_event_all(
                    stopped, "ARBITRATION_DONE")
  BY DEF M!MonitorArbitrationTimer
<1>2. SameStack(stopped, c)
  <2> HIDE DEF stop
  <2> QED BY FieldsOfStack DEF SameStack, HasFields, MasterFields
<1> HIDE DEF stopped
<1>3. RunsIn(stopped, m, session, outs)
  BY <1>2, SameStackRuns
<1> QED BY <1>1, <1>3, GroupEventRuns

LEMMA MonitorResponsesRuns ==
    ASSUME NEW m, NEW session, IsSession(session), NEW outs, NEW c,
           RunsIn(c, m, session, outs)
    PROVE  RunsIn(M(m, session.config)!MonitorResponseTimers(c), m, session, outs)
<1> DEFINE stop == M(m, session.config)!cl_timer_stop
           expired == {g \in 1 .. Len(session.config) :
                        M(m, session.config)!cl_timer_is_expired(
                            c.groups[g].response_wait_timer)}
           groups == [g \in 1 .. Len(session.config) |->
                        IF g \in expired
                        THEN [c.groups[g] EXCEPT !.response_wait_timer = stop]
                        ELSE c.groups[g]]
           stopped == [c EXCEPT !.groups = groups]
<1>1. M(m, session.config)!MonitorResponseTimers(c)
        = M(m, session.config)!clm_iefb_group_fsm_event(
                stopped, expired, "LINKSCAN_TIMEOUT")
  BY DEF M!MonitorResponseTimers, M!LinkscanTimeout, M!group_nos
<1> HIDE DEF expired, stop
<1>2. groups = [g \in 1 .. Len(session.config) |-> groups[g]]
  OBVIOUS
<1>3. ASSUME NEW g \in 1 .. Len(session.config)
      PROVE  /\ HasFields(groups[g], GroupFields)
             /\ groups[g].slave_devices = c.groups[g].slave_devices
             /\ groups[g].sent \subseteq c.groups[g].sent
  <2> DEFINE group == c.groups[g]
  <2>1. HasFields(group, GroupFields)
    BY FieldsOfStack
  <2>2. groups[g] = group
        \/ groups[g] = [group EXCEPT !.response_wait_timer = stop]
    OBVIOUS
  <2> HIDE DEF groups
  <2> QED BY <2>1, <2>2 DEF HasFields, GroupFields
<1> HIDE DEF groups
<1>4. /\ HasFields(stopped, MasterFields)
      /\ stopped.groups = groups
      /\ stopped.parameter_no = c.parameter_no
  <2>1. HasFields(c, MasterFields)
    BY FieldsOfStack
  <2> QED BY <2>1 DEF HasFields, MasterFields
<1> HIDE DEF stopped
<1>5. RunsIn(stopped, m, session, outs)
  BY <1>2, <1>3, <1>4, QuieterGroupsRun
<1> QED BY <1>1, <1>5, GroupEventRuns

LEMMA MonitorConstantRuns ==
    ASSUME NEW m, NEW session, IsSession(session), NEW outs, NEW c,
           RunsIn(c, m, session, outs)
    PROVE  RunsIn(M(m, session.config)!MonitorConstantTimers(c), m, session, outs)
<1> DEFINE stop == M(m, session.config)!cl_timer_stop
           expired == {g \in 1 .. Len(session.config) :
                        M(m, session.config)!cl_timer_is_expired(
                            c.groups[g].constant_linkscan_timer)}
           groups == [g \in 1 .. Len(session.config) |->
                        IF g \in expired
                        THEN [c.groups[g] EXCEPT !.constant_linkscan_timer = stop]
                        ELSE c.groups[g]]
           stopped == [c EXCEPT !.groups = groups]
<1>1. M(m, session.config)!MonitorConstantTimers(c)
        = M(m, session.config)!clm_iefb_group_fsm_event(
                stopped, expired, "LINKSCAN_START")
  BY DEF M!MonitorConstantTimers, M!ConstantLinkscanStart, M!group_nos
<1> HIDE DEF expired, stop
<1>2. groups = [g \in 1 .. Len(session.config) |-> groups[g]]
  OBVIOUS
<1>3. ASSUME NEW g \in 1 .. Len(session.config)
      PROVE  /\ HasFields(groups[g], GroupFields)
             /\ groups[g].slave_devices = c.groups[g].slave_devices
             /\ groups[g].sent \subseteq c.groups[g].sent
  <2> DEFINE group == c.groups[g]
  <2>1. HasFields(group, GroupFields)
    BY FieldsOfStack
  <2>2. groups[g] = group
        \/ groups[g] = [group EXCEPT !.constant_linkscan_timer = stop]
    OBVIOUS
  <2> HIDE DEF groups
  <2> QED BY <2>1, <2>2 DEF HasFields, GroupFields
<1> HIDE DEF groups
<1>4. /\ HasFields(stopped, MasterFields)
      /\ stopped.groups = groups
      /\ stopped.parameter_no = c.parameter_no
  <2>1. HasFields(c, MasterFields)
    BY FieldsOfStack
  <2> QED BY <2>1 DEF HasFields, MasterFields
<1> HIDE DEF stopped
<1>5. RunsIn(stopped, m, session, outs)
  BY <1>2, <1>3, <1>4, QuieterGroupsRun
<1> QED BY <1>1, <1>5, GroupEventRuns

LEMMA PeriodicRuns ==
    ASSUME NEW m, NEW session, IsSession(session), NEW outs, NEW c, NEW d,
           NEW frame, RunsIn(c, m, session, outs)
    PROVE  RunsIn(M(m, session.config)!clm_iefb_periodic(c, d, frame),
                  m, session, outs)
<1> DEFINE config == session.config
           called == M(m, config)!NewMasterCall(c)
           advanced == M(m, config)!AdvanceMaster(called, d)
           arbitrated == M(m, config)!MonitorArbitrationTimer(advanced)
           waited == M(m, config)!MonitorResponseTimers(arbitrated)
           paced == M(m, config)!MonitorConstantTimers(waited)
<1>1. M(m, config)!clm_iefb_periodic(c, d, frame)
        = M(m, config)!clm_iefb_handle_input_frame(paced, frame)
  BY DEF M!clm_iefb_periodic, M!clm_iefb_monitor_all_group_timers
<1>2. RunsIn(called, m, session, outs)
  BY NewCallRuns
<1> HIDE DEF called
<1>3. RunsIn(advanced, m, session, outs)
  BY <1>2, AdvanceRuns
<1> HIDE DEF advanced
<1>4. RunsIn(arbitrated, m, session, outs)
  BY <1>3, MonitorArbitrationRuns
<1> HIDE DEF arbitrated
<1>5. RunsIn(waited, m, session, outs)
  BY <1>4, MonitorResponsesRuns
<1> HIDE DEF waited
<1>6. RunsIn(paced, m, session, outs)
  BY <1>5, MonitorConstantRuns
<1> HIDE DEF paced
<1> QED BY <1>1, <1>6, InputRuns

-----------------------------------------------------------------------------
(* Start of a master.                                                      *)

LEMMA ClearedCarries ==
    ASSUME NEW m, NEW session, NEW number
    PROVE  LET c == [master_state |-> "DOWN",
                     arbitration_timer |-> M(m, session.config)!cl_timer_stop,
                     parameter_no |-> number, master_local_unit_info |-> 1,
                     groups |-> [g \in M(m, session.config)!group_nos |->
                                    M(m, session.config)!ClearedGroup(g)],
                     errors |-> {}]
           IN  /\ MasterCarries(c, m, session, NoOutputs(session))
               /\ c.parameter_no = number
<1> DEFINE outs == NoOutputs(session)
           groups == [g \in M(m, session.config)!group_nos |->
                        M(m, session.config)!ClearedGroup(g)]
           stop == M(m, session.config)!cl_timer_stop
           c == [master_state |-> "DOWN", arbitration_timer |-> stop,
                 parameter_no |-> number, master_local_unit_info |-> 1,
                 groups |-> groups, errors |-> {}]
<1>1. ASSUME NEW g \in 1 .. Len(session.config)
      PROVE  GroupCarries(groups[g], g, m, session, outs)
  <2> DEFINE devs == Devices(session, g)
             group == M(m, session.config)!ClearedGroup(g)
             cleared == M(m, session.config)!ClearedDevice
             devices == [i \in 1 .. Len(devs) |-> cleared]
  <2>1. groups[g] = group
    BY DEF M!group_nos
  <2>2. /\ HasFields(group, GroupFields)
        /\ group.slave_devices = devices
        /\ group.sent = {}
    <3>1. M(m, session.config)!device_nos(g) = 1 .. Len(devs)
      BY DEF M!device_nos, Devices
    <3> QED BY <3>1 DEF M!ClearedGroup, HasFields, GroupFields
  <2>3. ASSUME NEW i \in 1 .. Len(devs)
        PROVE  DeviceCarries(devices[i], outs[g][i], devs[i].slave_id)
    <3>1. outs[g][i] = NoData
      BY DEF NoOutputs
    <3>2. DeviceCarries(cleared, NoData, devs[i].slave_id)
      BY DEF M!ClearedDevice, DeviceCarries, HasFields, DeviceFields
    <3>3. devices[i] = cleared
      OBVIOUS
    <3> QED BY <3>1, <3>2, <3>3
  <2>4. devices = [i \in 1 .. Len(devs) |-> devices[i]]
    OBVIOUS
  <2> HIDE DEF devices, group
  <2>5. DevicesCarry(devices, devs, outs[g])
    BY <2>3, <2>4 DEF DevicesCarry
  <2> HIDE DEF groups, outs
  <2> QED BY <2>1, <2>2, <2>5 DEF GroupCarries, SentTells
<1>2. groups = [g \in 1 .. Len(session.config) |-> groups[g]]
  BY DEF M!group_nos
<1> HIDE DEF groups, outs
<1>3. GroupsCarry(groups, m, session, outs)
  BY <1>1, <1>2 DEF GroupsCarry
<1>4. HasFields(c, MasterFields) /\ c.groups = groups /\ c.parameter_no = number
  <2> HIDE DEF stop
  <2> QED BY DEF HasFields, MasterFields
<1> HIDE DEF c
<1>5. MasterCarries(c, m, session, outs)
  BY <1>3, <1>4 DEF MasterCarries
<1> QED BY <1>4, <1>5 DEF c, outs, groups

LEMMA QuietEventCarries ==
    ASSUME NEW m, NEW session, IsSession(session), NEW outs, NEW c, NEW event,
           Quiet(event), MasterCarries(c, m, session, outs)
    PROVE  LET r == M(m, session.config)!clm_iefb_group_fsm_event_all(c, event)
           IN  MasterCarries(r, m, session, outs)
               /\ r.parameter_no = c.parameter_no
<1> DEFINE moving == {g \in M(m, session.config)!group_nos :
                        M(m, session.config)!HasGroupTransition(
                            c.groups[g].group_state, event)}
<1>1. M(m, session.config)!clm_iefb_group_fsm_event_all(c, event)
        = M(m, session.config)!MoveGroups(c, moving, event)
  BY DEF M!clm_iefb_group_fsm_event_all, M!clm_iefb_group_fsm_event
<1> HIDE DEF moving
<1> QED BY <1>1, MoveGroupsCarries

LEMMA StackInitCarries ==
    ASSUME NEW m, NEW session, IsSession(session), NEW number
    PROVE  LET r == M(m, session.config)!clm_iefb_init(number)
           IN  /\ MasterCarries(r, m, session, NoOutputs(session))
               /\ r.parameter_no = (number + 1) % (MaxParameterNo + 1)
<1> DEFINE outs == NoOutputs(session)
           cleared == [master_state |-> "DOWN",
                       arbitration_timer |-> M(m, session.config)!cl_timer_stop,
                       parameter_no |-> number, master_local_unit_info |-> 1,
                       groups |-> [g \in M(m, session.config)!group_nos |->
                                    M(m, session.config)!ClearedGroup(g)],
                       errors |-> {}]
           up == M(m, session.config)!clm_iefb_group_fsm_event_all(
                    cleared, "STARTUP")
           next == (up.parameter_no + 1) % (MaxParameterNo + 1)
           numbered == [up EXCEPT !.parameter_no = next]
           r == M(m, session.config)!clm_iefb_group_fsm_event_all(
                    numbered, "NEW_CONFIG")
<1>1. M(m, session.config)!clm_iefb_init(number) = r
  BY DEF M!clm_iefb_init, M!clm_iefb_handle_new_config
<1>2. MasterCarries(cleared, m, session, outs) /\ cleared.parameter_no = number
  BY ClearedCarries
<1> HIDE DEF cleared, outs
<1>3. MasterCarries(up, m, session, outs) /\ up.parameter_no = number
  <2>1. Quiet("STARTUP")
    BY DEF Quiet
  <2> QED BY <1>2, <2>1, QuietEventCarries
<1> HIDE DEF up
<1>4. next = (number + 1) % (MaxParameterNo + 1)
  BY <1>3
<1> HIDE DEF next
<1>5. /\ HasFields(numbered, MasterFields)
      /\ numbered.groups = up.groups
      /\ numbered.parameter_no = next
  BY <1>3 DEF MasterCarries, HasFields, MasterFields
<1>6. MasterCarries(numbered, m, session, outs)
  BY <1>3, <1>5 DEF MasterCarries
<1> HIDE DEF numbered
<1>7. MasterCarries(r, m, session, outs) /\ r.parameter_no = next
  <2>1. Quiet("NEW_CONFIG")
    BY DEF Quiet
  <2> QED BY <1>5, <1>6, <2>1, QuietEventCarries
<1> HIDE DEF r
<1> QED BY <1>1, <1>4, <1>7 DEF outs

(* Nothing was sent before the outputs were written, or only cleared data. *)
LEMMA ClearedRequestTells ==
    ASSUME NEW req, NEW m, NEW session, NEW outs,
           RequestTells(req, m, session, NoOutputs(session))
    PROVE  RequestTells(req, m, session, outs)
<1> DEFINE g == req.group_no
           devs == Devices(session, g)
<1>1. /\ g \in 1 .. Len(session.config)
      /\ SlotsTell(req, devs, NoOutputs(session)[g])
  BY DEF RequestTells
<1>2. ASSUME NEW i \in 1 .. Len(devs), NEW station,
             SlotTells(req, devs, NoOutputs(session)[g], i, station)
      PROVE  SlotTells(req, devs, outs[g], i, station)
  <2>1. NoOutputs(session)[g][i] = NoData
    BY <1>1 DEF NoOutputs
  <2> QED BY <1>2, <2>1 DEF SlotTells
<1>3. SlotsTell(req, devs, outs[g])
  BY <1>1, <1>2 DEF SlotsTell
<1> QED BY <1>3 DEF RequestTells

LEMMA OutputsWritten ==
    ASSUME NEW m, NEW k, NEW session, NEW c,
           MasterCarries(c, m, session, NoOutputs(session))
    PROVE  LET r == WriteOutputs(c, m, k, session.config)
           IN  /\ MasterCarries(r, m, session, OutputsOf(m, k, session))
               /\ r.parameter_no = c.parameter_no
<1> DEFINE outs == OutputsOf(m, k, session)
           none == NoOutputs(session)
           written(g) ==
                [i \in 1 .. Len(Devices(session, g)) |->
                    [c.groups[g].slave_devices[i] EXCEPT !.ry =
                        Output(m, k, Devices(session, g)[i].slave_id)]]
           groups == [g \in 1 .. Len(session.config) |->
                        [c.groups[g] EXCEPT !.slave_devices = written(g)]]
           r == [c EXCEPT !.groups = groups]
<1>1. /\ HasFields(c, MasterFields)
      /\ c.groups = [g \in 1 .. Len(session.config) |-> c.groups[g]]
      /\ \A g \in 1 .. Len(session.config) :
            GroupCarries(c.groups[g], g, m, session, none)
  BY DEF MasterCarries, GroupsCarry
<1>2. ASSUME NEW g \in 1 .. Len(session.config)
      PROVE  /\ HasFields(c.groups[g], GroupFields)
             /\ DevicesCarry(c.groups[g].slave_devices, Devices(session, g),
                             none[g])
             /\ SentTells(c.groups[g].sent, m, session, none)
  BY <1>1 DEF GroupCarries
<1>3. WriteOutputs(c, m, k, session.config) = r
  <2> DEFINE all == [g \in DOMAIN c.groups |->
                        WriteGroupOutputs(c.groups[g], m, k, Devices(session, g))]
  <2>1. DOMAIN c.groups = 1 .. Len(session.config)
    BY <1>1
  <2>2. ASSUME NEW g \in 1 .. Len(session.config)
        PROVE  WriteGroupOutputs(c.groups[g], m, k, Devices(session, g))
                = [c.groups[g] EXCEPT !.slave_devices = written(g)]
    <3>1. DOMAIN c.groups[g].slave_devices = 1 .. Len(Devices(session, g))
      BY <1>2 DEF DevicesCarry
    <3> QED BY <3>1 DEF WriteGroupOutputs
  <2>3. all = groups
    BY <2>1, <2>2
  <2>4. WriteOutputs(c, m, k, session.config) = [c EXCEPT !.groups = all]
    BY DEF WriteOutputs, Devices
  <2> QED BY <2>3, <2>4
<1>4. ASSUME NEW g \in 1 .. Len(session.config)
      PROVE  GroupCarries(groups[g], g, m, session, outs)
  <2> DEFINE devs == Devices(session, g)
             devices == c.groups[g].slave_devices
             new == written(g)
  <2>1. ASSUME NEW i \in 1 .. Len(devs)
        PROVE  DeviceCarries(new[i], outs[g][i], devs[i].slave_id)
    <3> DEFINE out == Output(m, k, devs[i].slave_id)
    <3>1. DeviceCarries(devices[i], none[g][i], devs[i].slave_id)
      BY <1>2 DEF DevicesCarry
    <3>2. none[g][i] = NoData /\ outs[g][i] = out
      BY DEF NoOutputs, OutputsOf
    <3>3. new[i] = [devices[i] EXCEPT !.ry = out]
      OBVIOUS
    <3> HIDE DEF new, devices, none, outs, out
    <3> QED BY <3>1, <3>2, <3>3 DEF DeviceCarries, HasFields, DeviceFields
  <2>2. new = [i \in 1 .. Len(devs) |-> new[i]]
    OBVIOUS
  <2>3. groups[g] = [c.groups[g] EXCEPT !.slave_devices = new]
    OBVIOUS
  <2> HIDE DEF new, groups, outs, none
  <2>4. DevicesCarry(new, devs, outs[g])
    BY <2>1, <2>2 DEF DevicesCarry
  <2>5. /\ HasFields(groups[g], GroupFields)
        /\ groups[g].slave_devices = new
        /\ groups[g].sent = c.groups[g].sent
    BY <1>2, <2>3 DEF HasFields, GroupFields
  <2>6. SentTells(c.groups[g].sent, m, session, outs)
    BY <1>2, ClearedRequestTells DEF SentTells, none
  <2> QED BY <2>4, <2>5, <2>6 DEF GroupCarries
<1>5. groups = [g \in 1 .. Len(session.config) |-> groups[g]]
  OBVIOUS
<1> HIDE DEF groups
<1>6. /\ HasFields(r, MasterFields)
      /\ r.groups = groups
      /\ r.parameter_no = c.parameter_no
  BY <1>1 DEF HasFields, MasterFields
<1> HIDE DEF r, outs
<1>7. MasterCarries(r, m, session, outs)
  BY <1>4, <1>5, <1>6 DEF MasterCarries, GroupsCarry
<1> QED BY <1>3, <1>6, <1>7 DEF outs

-----------------------------------------------------------------------------
(* Configurations, sessions and their numbers.                             *)

LEMMA ConfigIsSession ==
    ASSUME NEW m \in Masters, NEW session, session.config \in Configs
    PROVE  IsSession(session)
<1> DEFINE config == session.config
<1>1. M(m, config)!clm_validate_config
  BY CciefbAssumption
<1>2. Len(config) \in Nat /\ M(m, config)!group_nos = 1 .. Len(config)
  BY <1>1 DEF M!clm_validate_config, M!group_nos, M!MinGroupNo, M!MaxGroupNo
<1>3. ASSUME NEW g \in 1 .. Len(config)
      PROVE  /\ Len(Devices(session, g)) \in Nat
             /\ \A i \in 1 .. Len(Devices(session, g)) :
                    /\ Devices(session, g)[i].slave_id \notin {NoIp, Multistation}
                    /\ Devices(session, g)[i].num_occupied_stations \in 1 .. 16
  <2>1. M(m, config)!device_nos(g) = 1 .. Len(Devices(session, g))
    BY DEF M!device_nos, Devices
  <2>2. /\ Len(config[g].slave_devices) \in 1 .. 16
        /\ \A i \in M(m, config)!device_nos(g) :
              /\ M(m, config)!Setting(g, i).slave_id
                    \notin {NoIp, Multistation, m}
              /\ M(m, config)!Setting(g, i).num_occupied_stations \in 1 .. 16
    BY <1>1, <1>2 DEF M!clm_validate_config, M!MinOccupied, M!MaxOccupied
  <2>3. \A i : M(m, config)!Setting(g, i) = Devices(session, g)[i]
    BY DEF M!Setting, Devices
  <2>4. Len(Devices(session, g)) \in 1 .. 16
    BY <2>2 DEF Devices
  <2>5. Len(Devices(session, g)) \in Nat
    BY <2>4
  <2> QED BY <2>1, <2>2, <2>3, <2>5
<1> QED BY <1>2, <1>3 DEF IsSession, HasSettings, OccupiedBy, MinOccupied,
                          MaxOccupied

LEMMA SessionOf ==
    ASSUME SessionsOK, NEW m \in Masters, NEW k \in 1 .. Len(sessions[m])
    PROVE  /\ sessions[m] \in Seq(Sessions)
           /\ Len(sessions[m]) \in Nat
           /\ sessions[m][k] \in Sessions
           /\ IsSession(sessions[m][k])
<1>1. sessions[m] \in Seq(Sessions)
  BY DEF SessionsOK
<1>2. sessions[m][k] \in Sessions /\ Len(sessions[m]) \in Nat
  BY <1>1
<1>3. sessions[m][k].config \in Configs
  BY <1>2 DEF Sessions
<1> QED BY <1>1, <1>2, <1>3, ConfigIsSession

LEMMA NextNumber ==
    ASSUME NEW n \in 0 .. MaxParameterNo
    PROVE  (n + 1) % (MaxParameterNo + 1)
                = IF n = MaxParameterNo THEN 0 ELSE n + 1
<1>1. PICK top \in Nat : top = MaxParameterNo
  BY CciefbAssumption
<1>2. ASSUME n = top
      PROVE  (n + 1) % (top + 1) = 0
  BY <1>2
<1>3. ASSUME n # top
      PROVE  (n + 1) % (top + 1) = n + 1
  <2>1. n + 1 \in 0 .. top
    BY <1>1, <1>3
  <2> QED BY <1>1, <2>1
<1> QED BY <1>1, <1>2, <1>3

(* A number stands for one session.                                        *)
LEMMA NumbersAreDistinct ==
    ASSUME SessionsOK, NEW m \in Masters, FileFits(m), kept[m],
           NEW j \in 1 .. Len(sessions[m]), NEW k \in 1 .. Len(sessions[m]),
           sessions[m][j].parameter_no = sessions[m][k].parameter_no
    PROVE  j = k
<1> DEFINE a == sessions[m][1].parameter_no
<1>1. Len(sessions[m]) \in Nat /\ Len(sessions[m]) <= MaxSessions
  BY SessionOf DEF SessionsOK
<1>2. a \in 0 .. MaxParameterNo
  <2>1. 1 \in 1 .. Len(sessions[m])
    BY <1>1
  <2>2. sessions[m][1] \in Sessions
    BY <2>1, SessionOf
  <2> QED BY <2>2 DEF Sessions
<1>3. MaxParameterNo \in Nat /\ MaxSessions \in 1 .. MaxParameterNo + 1
  BY CciefbAssumption
<1>4. NumberAfter(a, j - 1) = NumberAfter(a, k - 1)
  BY <1>1 DEF FileFits
<1> HIDE DEF a
<1> QED BY <1>1, <1>2, <1>3, <1>4 DEF NumberAfter

LEMMA NextNumberAfter ==
    ASSUME NEW a \in 0 .. MaxParameterNo, NEW d \in 0 .. MaxParameterNo - 1
    PROVE  /\ NumberAfter(a, d) \in 0 .. MaxParameterNo
           /\ (NumberAfter(a, d) + 1) % (MaxParameterNo + 1)
                = NumberAfter(a, d + 1)
<1>1. MaxParameterNo \in Nat
  BY CciefbAssumption
<1>2. NumberAfter(a, d) \in 0 .. MaxParameterNo
  BY <1>1 DEF NumberAfter
<1>3. (NumberAfter(a, d) + 1) % (MaxParameterNo + 1)
        = IF NumberAfter(a, d) = MaxParameterNo THEN 0
          ELSE NumberAfter(a, d) + 1
  BY <1>2, NextNumber
<1>4. (IF NumberAfter(a, d) = MaxParameterNo THEN 0 ELSE NumberAfter(a, d) + 1)
        = NumberAfter(a, d + 1)
  BY <1>1 DEF NumberAfter
<1> QED BY <1>2, <1>3, <1>4

-----------------------------------------------------------------------------
(* What goes onto the network.                                             *)

(* An entry for the slave carries a request of the session.                *)
EntryOf(e, m, session, outs) ==
    /\ HasFields(e, EntryFields)
    /\ e.to = SlaveIp => /\ e.frame.slave_ip_addr = SlaveIp
                         /\ RequestTells(e.frame, m, session, outs)

LEMMA AddressedRequestTells ==
    ASSUME NEW req, NEW ip, NEW m, NEW session, NEW outs,
           RequestTells(req, m, session, outs)
    PROVE  /\ RequestTells([req EXCEPT !.slave_ip_addr = ip], m, session, outs)
           /\ [req EXCEPT !.slave_ip_addr = ip].slave_ip_addr = ip
<1> DEFINE r == [req EXCEPT !.slave_ip_addr = ip]
<1>1. /\ HasFields(r, RequestFields)
      /\ r.slave_ip_addr = ip
      /\ r.remote_ip = req.remote_ip
      /\ r.master_id = req.master_id
      /\ r.parameter_no = req.parameter_no
      /\ r.group_no = req.group_no
      /\ r.timeout_value = req.timeout_value
      /\ r.parallel_off_timeout_count = req.parallel_off_timeout_count
      /\ r.slave_ids = req.slave_ids
      /\ r.data = req.data
  BY DEF RequestTells, HasFields, RequestFields
<1> HIDE DEF r
<1>2. ASSUME NEW devs, NEW group_outs, SlotsTell(req, devs, group_outs)
      PROVE  SlotsTell(r, devs, group_outs)
  BY <1>1, <1>2 DEF SlotsTell, SlotTells
<1>3. RequestTells(r, m, session, outs)
  BY <1>1, <1>2 DEF RequestTells
<1> QED BY <1>1, <1>3 DEF r

LEMMA RequestsOfSession ==
    ASSUME NEW m, NEW session, NEW outs, NEW c, RunsIn(c, m, session, outs),
           NEW e \in RequestsOf(m, c)
    PROVE  EntryOf(e, m, session, outs) /\ e.late = FALSE
<1>1. PICK g \in DOMAIN c.groups : \E req \in c.groups[g].sent, to \in
            {n \in Masters \ {m} : sessions[n] # <<>>} \cup {SlaveIp} :
        e = Entry(m, to, [req EXCEPT !.slave_ip_addr = SlaveIp])
  BY DEF RequestsOf
<1>2. PICK req \in c.groups[g].sent : \E to \in
            {n \in Masters \ {m} : sessions[n] # <<>>} \cup {SlaveIp} :
        e = Entry(m, to, [req EXCEPT !.slave_ip_addr = SlaveIp])
  BY <1>1
<1>3. PICK to \in {n \in Masters \ {m} : sessions[n] # <<>>} \cup {SlaveIp} :
        e = Entry(m, to, [req EXCEPT !.slave_ip_addr = SlaveIp])
  BY <1>2
<1>4. g \in 1 .. Len(session.config) /\ GroupCarries(c.groups[g], g, m, session, outs)
  BY DEF RunsIn, MasterCarries, GroupsCarry
<1>5. RequestTells(req, m, session, outs)
  BY <1>4 DEF GroupCarries, SentTells
<1> DEFINE frame == [req EXCEPT !.slave_ip_addr = SlaveIp]
<1>6. RequestTells(frame, m, session, outs) /\ frame.slave_ip_addr = SlaveIp
  BY <1>5, AddressedRequestTells
<1> HIDE DEF frame
<1>7. e = Entry(m, to, frame)
  BY <1>3 DEF frame
<1>8. HasFields(e, EntryFields) /\ e.frame = frame /\ e.late = FALSE
  BY <1>7 DEF Entry, HasFields, EntryFields
<1> QED BY <1>6, <1>8 DEF EntryOf

-----------------------------------------------------------------------------
(* The slave: its connection and its data.                                 *)

(* Connected only if it was before, to the same master with the same data. *)
Quits(r, c) ==
    r.state = "MASTER_CONTROL" =>
        /\ c.state = "MASTER_CONTROL"
        /\ r.master = c.master
        /\ r.data = c.data

(* Nobody but the sender of the request gets an answer.                    *)
AnswersOnly(r, c, req) ==
    \A resp \in r.sent : resp \in c.sent \/ resp.remote_ip = req.remote_ip

(* A change of anything but the state, the connection and the data.        *)
SameSlave(r, c, req) ==
    /\ IsSlave(r)
    /\ r.state = c.state
    /\ r.master = c.master
    /\ r.data = c.data
    /\ AnswersOnly(r, c, req)

LEMMA SameSlaveTransitive ==
    ASSUME NEW a, NEW b, NEW c, NEW req,
           SameSlave(a, b, req), SameSlave(b, c, req)
    PROVE  SameSlave(a, c, req)
  BY DEF SameSlave, AnswersOnly

LEMMA CallbackSame ==
    ASSUME NEW c, IsSlave(c), NEW connected, NEW protocol_ver, NEW status, NEW req
    PROVE  LET r == cls_iefb_handle_master_state_callback(
                        c, connected, protocol_ver, status)
           IN  SameSlave(r, c, req) /\ r.sent = c.sent
<1> DEFINE r == cls_iefb_handle_master_state_callback(
                    c, connected, protocol_ver, status)
<1>1. PICK app, trigger : r = [c EXCEPT !.app = app, !.trigger = trigger]
  BY DEF cls_iefb_handle_master_state_callback
<1> HIDE DEF r
<1>2. SameSlave(r, c, req) /\ r.sent = c.sent
  BY <1>1 DEF SameSlave, IsSlave, HasFields, SlaveFields, AnswersOnly
<1> QED BY <1>2 DEF r

LEMMA RespondSame ==
    ASSUME NEW c, IsSlave(c), NEW req, NEW include_data, NEW end_code
    PROVE  /\ SameSlave(cls_iefb_send_cyclic_response_frame(
                            c, req, include_data, end_code), c, req)
           /\ SameSlave(cls_iefb_send_cyclic_response_error_frame(
                            c, req, end_code), c, req)
<1>1. ASSUME NEW include
      PROVE  SameSlave(cls_iefb_send_cyclic_response_frame(
                            c, req, include, end_code), c, req)
  <2> DEFINE resp == [remote_ip |-> req.remote_ip,
                      slave_id |-> req.slave_ip_addr,
                      group_no |-> req.group_no,
                      frame_sequence_no |-> req.frame_sequence_no,
                      end_code |-> end_code,
                      occupied |-> NumOccupied,
                      rx |-> IF include THEN c.rx ELSE NoData]
             r == [c EXCEPT !.sent = @ \cup {resp}]
  <2>1. cls_iefb_send_cyclic_response_frame(c, req, include, end_code) = r
    BY DEF cls_iefb_send_cyclic_response_frame
  <2>2. resp.remote_ip = req.remote_ip
    OBVIOUS
  <2> HIDE DEF resp
  <2>3. SameSlave(r, c, req)
    BY <2>2 DEF SameSlave, IsSlave, HasFields, SlaveFields, AnswersOnly
  <2> QED BY <2>1, <2>3
<1> QED BY <1>1 DEF cls_iefb_send_cyclic_response_error_frame

LEMMA SlaveErrorSame ==
    ASSUME NEW c, IsSlave(c), NEW req, NEW message
    PROVE  SameSlave(cls_iefb_trigger_error_callback(c, message), c, req)
<1> DEFINE r == [c EXCEPT !.errors = @ \cup {message}]
<1>1. cls_iefb_trigger_error_callback(c, message) = r
  BY DEF cls_iefb_trigger_error_callback
<1>2. SameSlave(r, c, req)
  BY DEF SameSlave, IsSlave, HasFields, SlaveFields, AnswersOnly
<1> QED BY <1>1, <1>2

(* The connection may be lost, but nothing is sent.                        *)
Disconnects(r, c) ==
    /\ IsSlave(r)
    /\ r.state = c.state
    /\ r.sent = c.sent

LEMMA ClearDisconnects ==
    ASSUME NEW c, IsSlave(c)
    PROVE  Disconnects(cls_iefb_clear_master_info(c), c)
<1> DEFINE cleared == [c EXCEPT !.master = NoMaster,
                                !.receive_timer = cl_timer_stop,
                                !.timer_for_disabling_slave = cl_timer_stop]
           r == cls_iefb_handle_master_state_callback(cleared, FALSE, 0, 0)
<1>1. cls_iefb_clear_master_info(c) = r
  BY DEF cls_iefb_clear_master_info
<1>2. HasFields(NoMaster, MasterInfoFields)
  BY DEF NoMaster, HasFields, MasterInfoFields
<1>3. /\ HasFields(cleared, SlaveFields)
      /\ cleared.master = NoMaster
      /\ cleared.state = c.state
      /\ cleared.sent = c.sent
  BY DEF IsSlave, HasFields, SlaveFields
<1> HIDE DEF cleared
<1>4. IsSlave(cleared)
  BY <1>2, <1>3 DEF IsSlave
<1>5. SameSlave(r, cleared, NoRequest) /\ r.sent = cleared.sent
  BY <1>4, CallbackSame
<1> HIDE DEF r
<1> QED BY <1>1, <1>3, <1>5 DEF Disconnects, SameSlave

LEMMA SlaveInitDisconnects ==
    ASSUME NEW c, IsSlave(c)
    PROVE  Disconnects(cls_iefb_slave_init(c), c)
<1> DEFINE before == [c EXCEPT !.receive_timer = cl_timer_stop,
                               !.timer_for_disabling_slave = cl_timer_stop,
                               !.data = ClearedArea,
                               !.trigger = NeverTriggered]
           cleared == cls_iefb_clear_master_info(before)
           r == [cleared EXCEPT
                    !.endcode_slave_disabled = "SLAVE_REQUESTS_DISCONNECT",
                    !.rx = NoData]
<1>1. cls_iefb_slave_init(c) = r
  BY DEF cls_iefb_slave_init
<1>2. IsSlave(before) /\ before.state = c.state /\ before.sent = c.sent
  BY DEF IsSlave, HasFields, SlaveFields
<1> HIDE DEF before
<1>3. Disconnects(cleared, before)
  BY <1>2, ClearDisconnects
<1> HIDE DEF cleared
<1>4. IsSlave(r) /\ r.state = cleared.state /\ r.sent = cleared.sent
  BY <1>3 DEF Disconnects, IsSlave, HasFields, SlaveFields
<1> QED BY <1>1, <1>2, <1>3, <1>4 DEF Disconnects

LEMMA EntryDisconnects ==
    ASSUME NEW c, IsSlave(c), NEW state
    PROVE  Disconnects(OnEntry(c, state), c)
<1> DEFINE cleared == cls_iefb_clear_master_info(c)
           waits == [cleared EXCEPT !.timer_for_disabling_slave =
                        cl_timer_start(WaitTimeDisableSlave)]
           stopped == [c EXCEPT !.timer_for_disabling_slave = cl_timer_stop]
<1>1. \/ OnEntry(c, state) = c
      \/ OnEntry(c, state) = cleared
      \/ OnEntry(c, state) = waits
      \/ OnEntry(c, state) = stopped
  BY DEF OnEntry, cls_iefb_on_entry_master_none,
         cls_iefb_on_entry_wait_disabling_slave,
         cls_iefb_on_entry_slave_disabled
<1>2. Disconnects(c, c)
  BY DEF Disconnects
<1>3. Disconnects(cleared, c)
  BY ClearDisconnects
<1> HIDE DEF cleared
<1>4. Disconnects(waits, c)
  BY <1>3 DEF Disconnects, IsSlave, HasFields, SlaveFields
<1>5. Disconnects(stopped, c)
  BY DEF Disconnects, IsSlave, HasFields, SlaveFields
<1> HIDE DEF waits, stopped
<1> QED BY <1>1, <1>2, <1>3, <1>4, <1>5

(* The rows of the transition table that lead into MASTER_CONTROL.         *)
LEMMA RowsIntoControl ==
    ASSUME NEW state, NEW event, HasTransition(state, event)
    PROVE  /\ NextState(state, event) = "MASTER_CONTROL" =>
                \/ event = "CYCLIC_NEW_MASTER"
                \/ /\ event \in {"CYCLIC_CORRECT_MASTER", "CYCLIC_WRONG_MASTER"}
                   /\ state = "MASTER_CONTROL"
           /\ event = "CYCLIC_CORRECT_MASTER" =>
                /\ state = "MASTER_CONTROL"
                /\ NextState(state, event) = "MASTER_CONTROL"
           /\ event = "CYCLIC_NEW_MASTER" =>
                NextState(state, event) = "MASTER_CONTROL"
<1>1. <<state, event, NextState(state, event)>> \in transitions
  BY DEF HasTransition, NextState
<1> QED BY <1>1 DEF transitions

LEMMA ConnectedRow ==
    /\ HasTransition("MASTER_CONTROL", "CYCLIC_CORRECT_MASTER")
    /\ NextState("MASTER_CONTROL", "CYCLIC_CORRECT_MASTER") = "MASTER_CONTROL"
<1>1. HasTransition("MASTER_CONTROL", "CYCLIC_CORRECT_MASTER")
  BY DEF HasTransition, transitions, cls_slave_states
<1> QED BY <1>1, RowsIntoControl

(* The slave leaves its state and is about to act in the next one.         *)
LEMMA LeavesFor ==
    ASSUME NEW c, IsSlave(c), NEW next, NEW req
    PROVE  LET left == IF next # c.state THEN OnExit(c, c.state) ELSE c
               moved == [left EXCEPT !.state = next]
           IN  /\ IsSlave(moved)
               /\ moved.state = next
               /\ moved.master = c.master
               /\ moved.data = c.data
               /\ moved.sent = c.sent
<1> DEFINE left == IF next # c.state THEN OnExit(c, c.state) ELSE c
           moved == [left EXCEPT !.state = next]
<1>1. PICK app : left = c \/ left = [c EXCEPT !.app = app]
  BY DEF OnExit, cls_iefb_on_exit_master_control
<1> HIDE DEF left
<1>2. /\ IsSlave(left)
      /\ left.master = c.master
      /\ left.data = c.data
      /\ left.sent = c.sent
  BY <1>1 DEF IsSlave, HasFields, SlaveFields
<1>3. /\ IsSlave(moved)
      /\ moved.state = next
      /\ moved.master = left.master
      /\ moved.data = left.data
      /\ moved.sent = left.sent
  BY <1>2 DEF IsSlave, HasFields, SlaveFields
<1> HIDE DEF moved
<1>4. /\ IsSlave(moved)
      /\ moved.state = next
      /\ moved.master = c.master
      /\ moved.data = c.data
      /\ moved.sent = c.sent
  BY <1>2, <1>3
<1> QED BY <1>4 DEF moved, left

(* The actions that have nothing to do with the master's data.             *)
LEMMA OtherActions ==
    ASSUME NEW c, IsSlave(c), NEW req, NEW event,
           event \notin {"CYCLIC_NEW_MASTER", "CYCLIC_CORRECT_MASTER"}
    PROVE  LET r == TransitionAction(c, event, req)
           IN  /\ IsSlave(r)
               /\ r.state = c.state
               /\ AnswersOnly(r, c, req)
               /\ event = "CYCLIC_WRONG_MASTER" =>
                    r.master = c.master /\ r.data = c.data
<1> DEFINE r == TransitionAction(c, event, req)
           reported == cls_iefb_trigger_error_callback(
                            c, "MASTER_STATION_DUPLICATION")
<1>1. CASE event = "STARTUP"
  <2>1. r = cls_iefb_slave_init(c)
    BY <1>1 DEF TransitionAction
  <2>2. Disconnects(r, c)
    BY <2>1, SlaveInitDisconnects
  <2> HIDE DEF r
  <2>3. IsSlave(r) /\ r.state = c.state /\ AnswersOnly(r, c, req)
    BY <2>2 DEF Disconnects, AnswersOnly
  <2> QED BY <1>1, <2>3 DEF r
<1>2. CASE event = "CYCLIC_WRONG_MASTER"
  <2>1. r = cls_iefb_send_cyclic_response_error_frame(
                reported, req, "MASTER_DUPLICATION")
    BY <1>2 DEF TransitionAction, cls_iefb_handle_wrong_master
  <2>2. SameSlave(reported, c, req)
    BY SlaveErrorSame
  <2> HIDE DEF reported
  <2>3. SameSlave(r, reported, req)
    <3>1. IsSlave(reported)
      BY <2>2 DEF SameSlave
    <3> HIDE DEF r
    <3> QED BY <2>1, <3>1, RespondSame
  <2> HIDE DEF r
  <2>4. SameSlave(r, c, req)
    BY <2>2, <2>3, SameSlaveTransitive
  <2> QED BY <2>4 DEF SameSlave, r
<1>3. CASE event \in {"CYCLIC_WRONG_STATIONCOUNT",
                      "CYCLIC_INCOMING_WHEN_DISABLED"}
  <2>1. PICK end_code :
            r = cls_iefb_send_cyclic_response_error_frame(c, req, end_code)
    BY <1>3 DEF TransitionAction, cls_iefb_handle_wrong_stationcount,
                cls_iefb_handle_incoming_when_disabled
  <2> HIDE DEF r
  <2>2. SameSlave(r, c, req)
    BY <2>1, RespondSame
  <2> QED BY <2>2 DEF SameSlave, r
<1>4. CASE event \notin {"STARTUP", "CYCLIC_WRONG_MASTER",
                         "CYCLIC_WRONG_STATIONCOUNT",
                         "CYCLIC_INCOMING_WHEN_DISABLED"}
  <2>1. r = c
    BY <1>4 DEF TransitionAction
  <2> HIDE DEF r
  <2> QED BY <2>1 DEF AnswersOnly, r
<1> QED BY <1>1, <1>2, <1>3, <1>4

(* A step of the slave in which it does not get data.                      *)
Leaves(r, c, req) ==
    /\ IsSlave(r)
    /\ Quits(r, c)
    /\ AnswersOnly(r, c, req)

LEMMA SameSlaveLeaves ==
    ASSUME NEW r, NEW c, NEW req, SameSlave(r, c, req)
    PROVE  Leaves(r, c, req)
  BY DEF SameSlave, Leaves, Quits

LEMMA LeavesTransitive ==
    ASSUME NEW a, NEW b, NEW c, NEW req, Leaves(a, b, req), Leaves(b, c, req)
    PROVE  Leaves(a, c, req)
  BY DEF Leaves, Quits, AnswersOnly

LEMMA OtherEventLeaves ==
    ASSUME NEW c, IsSlave(c), NEW req, NEW event,
           event \notin {"CYCLIC_NEW_MASTER", "CYCLIC_CORRECT_MASTER"}
    PROVE  Leaves(cls_iefb_fsm_event(c, event, req), c, req)
<1> DEFINE next == NextState(c.state, event)
           left == IF next # c.state THEN OnExit(c, c.state) ELSE c
           moved == [left EXCEPT !.state = next]
           acted == TransitionAction(moved, event, req)
           entered == OnEntry(acted, next)
           r == cls_iefb_fsm_event(c, event, req)
<1>1. r = IF ~HasTransition(c.state, event) THEN c
          ELSE IF next # c.state THEN entered ELSE acted
  BY DEF cls_iefb_fsm_event, fsm_transition
<1>2. /\ IsSlave(moved)
      /\ moved.state = next
      /\ moved.master = c.master
      /\ moved.data = c.data
      /\ moved.sent = c.sent
  BY LeavesFor
<1> HIDE DEF moved
<1>3. /\ IsSlave(acted)
      /\ acted.state = next
      /\ AnswersOnly(acted, c, req)
      /\ event = "CYCLIC_WRONG_MASTER" =>
            acted.master = c.master /\ acted.data = c.data
  <2>1. /\ IsSlave(acted)
        /\ acted.state = moved.state
        /\ AnswersOnly(acted, moved, req)
        /\ event = "CYCLIC_WRONG_MASTER" =>
              acted.master = moved.master /\ acted.data = moved.data
    BY <1>2, OtherActions
  <2> HIDE DEF acted
  <2> QED BY <1>2, <2>1 DEF AnswersOnly
<1> HIDE DEF acted
<1>4. Disconnects(entered, acted)
  BY <1>3, EntryDisconnects
<1> HIDE DEF entered, r
<1>5. CASE ~HasTransition(c.state, event)
  <2>1. Leaves(c, c, req)
    BY DEF Leaves, Quits, AnswersOnly
  <2>2. r = c
    BY <1>1, <1>5
  <2> QED BY <2>1, <2>2 DEF r
<1>6. CASE HasTransition(c.state, event) /\ next # "MASTER_CONTROL"
  <2>1. r = entered \/ r = acted
    BY <1>1, <1>6
  <2>2. IsSlave(r) /\ r.state = next /\ AnswersOnly(r, c, req)
    BY <1>3, <1>4, <2>1 DEF Disconnects, AnswersOnly
  <2>3. Leaves(r, c, req)
    BY <1>6, <2>2 DEF Leaves, Quits
  <2> QED BY <2>3 DEF r
<1>7. CASE HasTransition(c.state, event) /\ next = "MASTER_CONTROL"
  <2>1. event = "CYCLIC_WRONG_MASTER" /\ c.state = "MASTER_CONTROL"
    BY <1>7, RowsIntoControl
  <2>2. r = acted
    BY <1>1, <1>7, <2>1
  <2>3. Leaves(r, c, req)
    BY <1>3, <2>1, <2>2 DEF Leaves, Quits
  <2> QED BY <2>3 DEF r
<1> QED BY <1>5, <1>6, <1>7

(* The slave takes its data from a request that holds its stations.        *)
TakesData(r, c, req) ==
    LET station == c.master.slave_station_no
    IN  /\ IsSlave(r)
        /\ r.state = "MASTER_CONTROL"
        /\ r.master = c.master
        /\ AnswersOnly(r, c, req)
        /\ \/ r.data = c.data /\ ~IsDataInRequest(req, station)
           \/ /\ IsDataInRequest(req, station)
              /\ \A i \in 1 .. NumOccupied :
                    r.data[i] \in {NoData, req.data[station + i - 1]}

LEMMA CyclicEventTakesData ==
    ASSUME NEW c, IsSlave(c), c.state = "MASTER_CONTROL", NEW req
    PROVE  TakesData(cls_iefb_handle_cyclic_event(c, req), c, req)
<1> DEFINE station == c.master.slave_station_no
           bit == cl_iefb_extract_my_transmission_state(req, station)
           copied == cls_iefb_copy_cyclic_data_from_request(c, req, station, bit)
           told == cls_iefb_handle_master_state_callback(
                        copied, TRUE, req.protocol_ver,
                        req.master_local_unit_info)
           answered == cls_iefb_send_cyclic_response_frame(
                            told, req, bit, "SUCCESS")
           restarted == [answered EXCEPT !.receive_timer = cl_timer_restart(@)]
           r == cls_iefb_handle_cyclic_event(c, req)
<1>1. r = IF IsDataInRequest(req, station) THEN restarted ELSE c
  BY DEF cls_iefb_handle_cyclic_event
<1> HIDE DEF r
<1>2. CASE ~IsDataInRequest(req, station)
  <2>1. TakesData(r, c, req)
    BY <1>1, <1>2 DEF TakesData, AnswersOnly
  <2> QED BY <2>1 DEF r
<1>3. CASE IsDataInRequest(req, station)
  <2> DEFINE data == IF bit
                     THEN [i \in 1 .. NumOccupied |-> req.data[station + i - 1]]
                     ELSE ClearedArea
  <2>1. copied = [c EXCEPT !.data = data]
    BY DEF cls_iefb_copy_cyclic_data_from_request
  <2>2. \A i \in 1 .. NumOccupied : data[i] \in {NoData, req.data[station + i - 1]}
    BY DEF ClearedArea
  <2> HIDE DEF data, copied
  <2>3. /\ IsSlave(copied)
        /\ copied.state = c.state
        /\ copied.master = c.master
        /\ copied.data = data
        /\ copied.sent = c.sent
    BY <2>1 DEF IsSlave, HasFields, SlaveFields
  <2>4. SameSlave(told, copied, req)
    BY <2>3, CallbackSame
  <2> HIDE DEF told
  <2>5. SameSlave(answered, told, req)
    <3>1. IsSlave(told)
      BY <2>4 DEF SameSlave
    <3> QED BY <3>1, RespondSame
  <2>6. SameSlave(answered, copied, req)
    BY <2>4, <2>5, SameSlaveTransitive
  <2> HIDE DEF answered
  <2>7. /\ IsSlave(restarted)
        /\ restarted.state = answered.state
        /\ restarted.master = answered.master
        /\ restarted.data = answered.data
        /\ restarted.sent = answered.sent
    BY <2>6 DEF SameSlave, IsSlave, HasFields, SlaveFields
  <2> HIDE DEF restarted
  <2>8. /\ IsSlave(restarted)
        /\ restarted.state = "MASTER_CONTROL"
        /\ restarted.master = c.master
        /\ restarted.data = data
        /\ AnswersOnly(restarted, c, req)
    BY <2>3, <2>6, <2>7 DEF SameSlave, AnswersOnly
  <2>9. TakesData(r, c, req)
    BY <1>1, <1>3, <2>2, <2>8 DEF TakesData
  <2> QED BY <2>9 DEF r
<1> QED BY <1>2, <1>3

LEMMA CorrectMasterTakesData ==
    ASSUME NEW c, IsSlave(c), c.state = "MASTER_CONTROL", NEW req
    PROVE  TakesData(fsm_transition(c, "CYCLIC_CORRECT_MASTER", req), c, req)
<1> DEFINE event == "CYCLIC_CORRECT_MASTER"
           moved == [c EXCEPT !.state = "MASTER_CONTROL"]
<1>1. fsm_transition(c, event, req) = cls_iefb_handle_cyclic_event(moved, req)
  BY ConnectedRow DEF fsm_transition, TransitionAction
<1>2. moved = c
  BY DEF IsSlave, HasFields, SlaveFields
<1> QED BY <1>1, <1>2, CyclicEventTakesData

(* The record a slave keeps of the master that sent the request.           *)
MasterOf(req, station) ==
    [master_id |-> req.master_id, parameter_no |-> req.parameter_no,
     group_no |-> req.group_no, slave_station_no |-> station,
     timeout_value |-> req.timeout_value,
     parallel_off_timeout_count |-> req.parallel_off_timeout_count]

LEMMA MasterStored ==
    ASSUME NEW master, HasFields(master, MasterInfoFields), NEW req
    PROVE  [master EXCEPT !.master_id = req.master_id,
                          !.parameter_no = req.parameter_no,
                          !.group_no = req.group_no,
                          !.timeout_value = req.timeout_value,
                          !.parallel_off_timeout_count =
                              req.parallel_off_timeout_count]
                = MasterOf(req, master.slave_station_no)
<1> DEFINE r == [master EXCEPT !.master_id = req.master_id,
                          !.parameter_no = req.parameter_no,
                          !.group_no = req.group_no,
                          !.timeout_value = req.timeout_value,
                          !.parallel_off_timeout_count =
                              req.parallel_off_timeout_count]
           wanted == MasterOf(req, master.slave_station_no)
<1>1. /\ r = [f \in MasterInfoFields |-> r[f]]
      /\ r.master_id = req.master_id
      /\ r.parameter_no = req.parameter_no
      /\ r.group_no = req.group_no
      /\ r.slave_station_no = master.slave_station_no
      /\ r.timeout_value = req.timeout_value
      /\ r.parallel_off_timeout_count = req.parallel_off_timeout_count
  BY DEF HasFields, MasterInfoFields
<1>2. /\ wanted = [f \in MasterInfoFields |-> wanted[f]]
      /\ wanted.master_id = req.master_id
      /\ wanted.parameter_no = req.parameter_no
      /\ wanted.group_no = req.group_no
      /\ wanted.slave_station_no = master.slave_station_no
      /\ wanted.timeout_value = req.timeout_value
      /\ wanted.parallel_off_timeout_count = req.parallel_off_timeout_count
  BY DEF MasterOf, MasterInfoFields
<1> HIDE DEF r, wanted
<1>3. \A f \in MasterInfoFields : r[f] = wanted[f]
  BY <1>1, <1>2 DEF MasterInfoFields
<1>4. r = wanted
  BY <1>1, <1>2, <1>3
<1> QED BY <1>4 DEF r, wanted

LEMMA NewMasterStored ==
    ASSUME NEW c, IsSlave(c), NEW req
    PROVE  LET r == cls_iefb_handle_new_or_updated_master(c, req)
           IN  /\ IsSlave(r)
               /\ r.state = c.state
               /\ r.master = MasterOf(req, c.master.slave_station_no)
               /\ r.data = c.data
               /\ AnswersOnly(r, c, req)
<1> DEFINE master == [c.master EXCEPT
                        !.master_id = req.master_id,
                        !.parameter_no = req.parameter_no,
                        !.group_no = req.group_no,
                        !.timeout_value = req.timeout_value,
                        !.parallel_off_timeout_count =
                            req.parallel_off_timeout_count]
           timer == cl_timer_start(cl_calculate_total_timeout(
                        req.timeout_value, req.parallel_off_timeout_count))
           app == [c.app EXCEPT !.connected = TRUE]
           stored == [c EXCEPT
                !.master.master_id = req.master_id,
                !.master.parameter_no = req.parameter_no,
                !.master.group_no = req.group_no,
                !.master.timeout_value = req.timeout_value,
                !.master.parallel_off_timeout_count =
                    req.parallel_off_timeout_count,
                !.receive_timer = timer,
                !.app.connected = TRUE]
           r == cls_iefb_handle_master_state_callback(
                    stored, TRUE, req.protocol_ver, req.master_local_unit_info)
<1>1. cls_iefb_handle_new_or_updated_master(c, req) = r
  BY DEF cls_iefb_handle_new_or_updated_master
<1>2. master = MasterOf(req, c.master.slave_station_no)
  BY MasterStored DEF IsSlave
<1>3. HasFields(master, MasterInfoFields)
  BY <1>2 DEF MasterOf, HasFields, MasterInfoFields
<1>4. stored = [c EXCEPT !.master = master, !.receive_timer = timer, !.app = app]
  <2> HIDE DEF timer
  <2> QED BY DEF IsSlave, HasFields, SlaveFields, MasterInfoFields
<1> HIDE DEF stored, master, timer, app
<1>5. /\ HasFields(stored, SlaveFields)
      /\ stored.master = master
      /\ stored.state = c.state
      /\ stored.data = c.data
      /\ stored.sent = c.sent
  BY <1>4 DEF IsSlave, HasFields, SlaveFields
<1>6. IsSlave(stored)
  BY <1>3, <1>5 DEF IsSlave
<1>7. SameSlave(r, stored, req)
  BY <1>6, CallbackSame
<1> HIDE DEF r
<1> QED BY <1>1, <1>2, <1>5, <1>7 DEF SameSlave, AnswersOnly

LEMMA NewMasterTakesData ==
    ASSUME NEW c, IsSlave(c), NEW req,
           c.state \in {"MASTER_NONE", "MASTER_CONTROL"}
    PROVE  LET r == cls_iefb_fsm_event(c, "CYCLIC_NEW_MASTER", req)
           IN  \E once : /\ once.master = MasterOf(req, c.master.slave_station_no)
                        /\ once.data = c.data
                        /\ AnswersOnly(once, c, req)
                        /\ TakesData(r, once, req)
<1> DEFINE event == "CYCLIC_NEW_MASTER"
           next == NextState(c.state, event)
           left == IF next # c.state THEN OnExit(c, c.state) ELSE c
           moved == [left EXCEPT !.state = next]
           once == cls_iefb_handle_new_or_updated_master(moved, req)
           r == cls_iefb_fsm_event(c, event, req)
<1>1. HasTransition(c.state, event)
  BY DEF HasTransition, transitions, cls_slave_states
<1>2. next = "MASTER_CONTROL"
  BY <1>1, RowsIntoControl
<1>3. fsm_transition(c, event, req) = once
  <2>1. TransitionAction(moved, event, req) = once
    BY DEF TransitionAction
  <2>2. OnEntry(once, next) = once
    BY <1>2 DEF OnEntry
  <2> HIDE DEF once
  <2> QED BY <1>1, <2>1, <2>2 DEF fsm_transition
<1>4. r = fsm_transition(once, "CYCLIC_CORRECT_MASTER", req)
  BY <1>1, <1>3 DEF cls_iefb_fsm_event
<1>5. /\ IsSlave(moved)
      /\ moved.state = next
      /\ moved.master = c.master
      /\ moved.data = c.data
      /\ moved.sent = c.sent
  BY LeavesFor
<1> HIDE DEF moved, next
<1>6. /\ IsSlave(once)
      /\ once.state = moved.state
      /\ once.master = MasterOf(req, moved.master.slave_station_no)
      /\ once.data = moved.data
      /\ AnswersOnly(once, moved, req)
  BY <1>5, NewMasterStored
<1> HIDE DEF once
<1>7. TakesData(r, once, req)
  <2>1. once.state = "MASTER_CONTROL"
    BY <1>2, <1>5, <1>6
  <2> QED BY <1>4, <1>6, <2>1, CorrectMasterTakesData
<1>8. /\ once.master = MasterOf(req, c.master.slave_station_no)
      /\ once.data = c.data
      /\ AnswersOnly(once, c, req)
  BY <1>5, <1>6 DEF AnswersOnly
<1> HIDE DEF r
<1> QED BY <1>7, <1>8 DEF r

-----------------------------------------------------------------------------
(* The slave and a request.                                                *)

(* The slave has what the request holds for its stations, or nothing.      *)
FromRequest(r, req) ==
    LET station == r.master.slave_station_no
    IN  /\ IsDataInRequest(req, station)
        /\ \A i \in 1 .. NumOccupied :
              r.data[i] \in {NoData, req.data[station + i - 1]}

(* The request is of the master that the slave computed its station for.   *)
IsOwn(c, req) ==
    /\ req.master_id = c.master.master_id
    /\ req.parameter_no = c.master.parameter_no
    /\ req.group_no = c.master.group_no

(* The slave has found itself in the request, with its number of stations. *)
IsSearched(req) ==
    LET id == req.slave_ip_addr
    IN  /\ cl_iefb_parse_cyclic_request(req)
        /\ IsSlaveIdFound(id, req)
        /\ implied_occupation_count(id, req) = NumOccupied

(***************************************************************************)
(* A slave that is connected afterwards was so before and keeps its data,  *)
(* or gets data from its own master, or has just computed its station from *)
(* the request that it gets its data from.                                 *)
(***************************************************************************)
Receives(r, c, req) ==
    /\ IsSlave(r)
    /\ AnswersOnly(r, c, req)
    /\ r.state = "MASTER_CONTROL" =>
          \/ Quits(r, c)
          \/ /\ c.state = "MASTER_CONTROL"
             /\ IsOwn(c, req)
             /\ r.master = c.master
             /\ FromRequest(r, req)
          \/ /\ IsSearched(req)
             /\ r.master = MasterOf(req,
                    my_slave_station_no(req.slave_ip_addr, req))
             /\ \/ FromRequest(r, req)
                \/ ~IsDataInRequest(req, r.master.slave_station_no)

LEMMA LeavesReceives ==
    ASSUME NEW r, NEW c, NEW req, Leaves(r, c, req)
    PROVE  Receives(r, c, req)
  BY DEF Leaves, Receives

LEMMA SameReceives ==
    ASSUME NEW c, IsSlave(c), NEW req
    PROVE  Receives(c, c, req)
  BY DEF Receives, Quits, AnswersOnly

LEMMA ReceivesThenLeaves ==
    ASSUME NEW a, NEW b, NEW c, NEW req, Leaves(a, b, req), Receives(b, c, req)
    PROVE  Receives(a, c, req)
  BY DEF Leaves, Receives, Quits, AnswersOnly, FromRequest

LEMMA LeavesThenReceives ==
    ASSUME NEW a, NEW b, NEW c, NEW req, Receives(a, b, req), Leaves(b, c, req)
    PROVE  Receives(a, c, req)
  BY DEF Leaves, Receives, Quits, AnswersOnly, FromRequest, IsOwn

LEMMA SearchReceives ==
    ASSUME NEW c, IsSlave(c), NEW req, cl_iefb_parse_cyclic_request(req)
    PROVE  Receives(cls_iefb_search_slave_parameters(c, req), c, req)
<1> DEFINE id == req.slave_ip_addr
           station == my_slave_station_no(id, req)
           event == SearchEvent(c,
                        cl_iefb_extract_my_transmission_state(req, station))
           reported == cls_iefb_trigger_error_callback(c, "WRONG_NUMBER_OCCUPIED")
           duplicate == cls_iefb_trigger_error_callback(
                            c, "SLAVE_STATION_DUPLICATION")
           placed == [c EXCEPT !.master.slave_station_no = station]
           r == cls_iefb_search_slave_parameters(c, req)
<1> SUFFICES Receives(r, c, req)
  OBVIOUS
<1>1. CASE r = c
  <2>1. Receives(c, c, req)
    BY SameReceives
  <2> QED BY <1>1, <2>1
<1>2. CASE r = cls_iefb_fsm_event(reported, "CYCLIC_WRONG_STATIONCOUNT", req)
  <2>1. SameSlave(reported, c, req)
    BY SlaveErrorSame
  <2> HIDE DEF reported
  <2>2. IsSlave(reported) /\ Leaves(reported, c, req)
    BY <2>1, SameSlaveLeaves DEF SameSlave
  <2>3. Leaves(cls_iefb_fsm_event(reported, "CYCLIC_WRONG_STATIONCOUNT", req),
               reported, req)
    BY <2>2, OtherEventLeaves
  <2> HIDE DEF r
  <2>4. Leaves(r, c, req)
    BY <1>2, <2>2, <2>3, LeavesTransitive
  <2>5. Receives(r, c, req)
    BY <2>4, LeavesReceives
  <2> QED BY <2>5 DEF r
<1>3. CASE /\ r = cls_iefb_fsm_event(placed, "CYCLIC_NEW_MASTER", req)
           /\ event = "CYCLIC_NEW_MASTER"
           /\ IsSlaveIdFound(id, req)
           /\ implied_occupation_count(id, req) = NumOccupied
  <2>1. c.state \in {"MASTER_NONE", "MASTER_CONTROL"}
    BY <1>3 DEF SearchEvent
  <2>2. /\ IsSlave(placed)
        /\ placed.state = c.state
        /\ placed.master.slave_station_no = station
        /\ placed.data = c.data
        /\ placed.sent = c.sent
    <3> DEFINE master == [c.master EXCEPT !.slave_station_no = station]
    <3> HIDE DEF station
    <3>1. HasFields(master, MasterInfoFields) /\ master.slave_station_no = station
      BY DEF IsSlave, HasFields, MasterInfoFields
    <3>2. placed = [c EXCEPT !.master = master]
      BY DEF IsSlave, HasFields, SlaveFields
    <3> HIDE DEF master, placed
    <3>3. /\ HasFields(placed, SlaveFields)
          /\ placed.master = master
          /\ placed.state = c.state
          /\ placed.data = c.data
          /\ placed.sent = c.sent
      BY <3>2 DEF IsSlave, HasFields, SlaveFields
    <3> QED BY <3>1, <3>3 DEF IsSlave
  <2> HIDE DEF placed, station
  <2>3. \E once : /\ once.master = MasterOf(req, placed.master.slave_station_no)
                  /\ once.data = placed.data
                  /\ AnswersOnly(once, placed, req)
                  /\ TakesData(cls_iefb_fsm_event(placed, "CYCLIC_NEW_MASTER",
                                                  req), once, req)
    BY <2>1, <2>2, NewMasterTakesData
  <2>4. PICK once : /\ once.master = MasterOf(req, placed.master.slave_station_no)
                    /\ once.data = placed.data
                    /\ AnswersOnly(once, placed, req)
                    /\ TakesData(cls_iefb_fsm_event(placed,
                                    "CYCLIC_NEW_MASTER", req), once, req)
    BY <2>3
  <2> HIDE DEF r
  <2>5. /\ once.master = MasterOf(req, station)
        /\ AnswersOnly(once, c, req)
        /\ TakesData(r, once, req)
    BY <1>3, <2>2, <2>4 DEF AnswersOnly
  <2>6. /\ IsSlave(r)
        /\ r.master = MasterOf(req, station)
        /\ AnswersOnly(r, c, req)
    BY <2>5 DEF TakesData, AnswersOnly
  <2>7. FromRequest(r, req) \/ ~IsDataInRequest(req, r.master.slave_station_no)
    BY <2>5 DEF TakesData, FromRequest
  <2>8. IsSearched(req)
    BY <1>3 DEF IsSearched
  <2>9. Receives(r, c, req)
    BY <2>6, <2>7, <2>8 DEF Receives, station
  <2> QED BY <2>9 DEF r
<1>4. CASE r = duplicate
  <2>1. SameSlave(duplicate, c, req)
    BY SlaveErrorSame
  <2> HIDE DEF duplicate
  <2>2. Receives(duplicate, c, req)
    BY <2>1, SameSlaveLeaves, LeavesReceives
  <2> QED BY <1>4, <2>2
<1>5. CASE r = cls_iefb_fsm_event(c, event, req) /\ event # "CYCLIC_NEW_MASTER"
  <2>1. event # "CYCLIC_CORRECT_MASTER"
    BY DEF SearchEvent
  <2> HIDE DEF event
  <2>2. Leaves(cls_iefb_fsm_event(c, event, req), c, req)
    BY <1>5, <2>1, OtherEventLeaves
  <2>3. Receives(cls_iefb_fsm_event(c, event, req), c, req)
    BY <2>2, LeavesReceives
  <2> QED BY <1>5, <2>3
<1>6. \/ r = c
      \/ r = cls_iefb_fsm_event(reported, "CYCLIC_WRONG_STATIONCOUNT", req)
      \/ /\ r = cls_iefb_fsm_event(placed, "CYCLIC_NEW_MASTER", req)
         /\ event = "CYCLIC_NEW_MASTER"
         /\ IsSlaveIdFound(id, req)
         /\ implied_occupation_count(id, req) = NumOccupied
      \/ r = duplicate
      \/ r = cls_iefb_fsm_event(c, event, req) /\ event # "CYCLIC_NEW_MASTER"
  <2> DEFINE found == ~(IsSlaveIdRepeated(id, req) \/ ~IsSlaveIdFound(id, req))
             other == cls_iefb_fsm_event(c, event, req)
             none == cls_iefb_fsm_event(reported, "CYCLIC_WRONG_STATIONCOUNT", req)
             new == cls_iefb_fsm_event(placed, "CYCLIC_NEW_MASTER", req)
  <2>1. r = IF ~found THEN c
            ELSE IF implied_occupation_count(id, req) # NumOccupied THEN none
            ELSE IF event = "CYCLIC_NEW_MASTER" THEN new
            ELSE IF c.state = "MASTER_NONE" THEN duplicate
            ELSE other
    BY DEF cls_iefb_search_slave_parameters
  <2>2. found => IsSlaveIdFound(id, req)
    OBVIOUS
  <2> HIDE DEF found, other, none, new, event, r, duplicate
  <2> QED BY <2>1, <2>2 DEF other, none, new
<1> HIDE DEF r, event, placed, reported, duplicate, station
<1> QED BY <1>1, <1>2, <1>3, <1>4, <1>5, <1>6

LEMMA OwnMasterReceives ==
    ASSUME NEW c, IsSlave(c), c.state = "MASTER_CONTROL", NEW req,
           cl_iefb_parse_cyclic_request(req),
           req.master_id = c.master.master_id
    PROVE  Receives(HandleOwnMaster(c, req), c, req)
<1> DEFINE station == c.master.slave_station_no
           r == HandleOwnMaster(c, req)
           searched == cls_iefb_search_slave_parameters(c, req)
           updated == cls_iefb_fsm_event(c, "CYCLIC_CORRECT_MASTER", req)
<1>1. \/ r = searched
      \/ r = updated /\ IsOwn(c, req)
      \/ r = c
  BY DEF HandleOwnMaster, IsOwn
<1>2. Receives(searched, c, req)
  BY SearchReceives
<1>3. Receives(c, c, req)
  BY SameReceives
<1>4. ASSUME IsOwn(c, req)
      PROVE  Receives(updated, c, req)
  <2>1. updated = fsm_transition(c, "CYCLIC_CORRECT_MASTER", req)
    BY DEF cls_iefb_fsm_event
  <2>2. TakesData(updated, c, req)
    BY <2>1, CorrectMasterTakesData
  <2> HIDE DEF updated
  <2>3. CASE updated.data = c.data
    BY <2>2, <2>3 DEF TakesData, Receives, Quits
  <2>4. CASE updated.data # c.data
    <3>1. updated.master = c.master /\ FromRequest(updated, req)
      BY <2>2, <2>4 DEF TakesData, FromRequest
    <3> QED BY <1>4, <2>2, <3>1 DEF TakesData, Receives
  <2> QED BY <2>3, <2>4
<1> HIDE DEF r, searched, updated
<1>5. Receives(r, c, req)
  BY <1>1, <1>2, <1>3, <1>4
<1> QED BY <1>5 DEF r

LEMMA InputReceives ==
    ASSUME NEW c, IsSlave(c), NEW req
    PROVE  Receives(cls_iefb_handle_cyclic_input_frame(c, req), c, req)
<1> DEFINE r == cls_iefb_handle_cyclic_input_frame(c, req)
           wrong == cls_iefb_fsm_event(c, "CYCLIC_WRONG_MASTER", req)
           searched == cls_iefb_search_slave_parameters(c, req)
           own == HandleOwnMaster(c, req)
<1>1. \/ r = c
      \/ r = searched /\ cl_iefb_parse_cyclic_request(req)
      \/ r = wrong
      \/ /\ r = own
         /\ cl_iefb_parse_cyclic_request(req)
         /\ c.state = "MASTER_CONTROL"
         /\ req.master_id = c.master.master_id
  BY DEF cls_iefb_handle_cyclic_input_frame, cls_iefb_is_master_id_correct
<1>2. Receives(c, c, req)
  BY SameReceives
<1>3. cl_iefb_parse_cyclic_request(req) => Receives(searched, c, req)
  BY SearchReceives
<1>4. Receives(wrong, c, req)
  <2>1. Leaves(wrong, c, req)
    BY OtherEventLeaves
  <2> HIDE DEF wrong
  <2> QED BY <2>1, LeavesReceives
<1>5. ASSUME cl_iefb_parse_cyclic_request(req), c.state = "MASTER_CONTROL",
             req.master_id = c.master.master_id
      PROVE  Receives(own, c, req)
  BY <1>5, OwnMasterReceives
<1> HIDE DEF r, wrong, searched, own
<1>6. Receives(r, c, req)
  BY <1>1, <1>2, <1>3, <1>4, <1>5
<1> QED BY <1>6 DEF r

(* The events that no request raises.                                      *)
LEMMA OtherEventSendsNothing ==
    ASSUME NEW c, IsSlave(c), NEW req, NEW event,
           event \in {"STARTUP", "TIMEOUT_MASTER", "DISABLE_SLAVE_WAIT_ENDED",
                     "DISABLE_SLAVE", "REENABLE_SLAVE"}
    PROVE  cls_iefb_fsm_event(c, event, req).sent = c.sent
<1> DEFINE next == NextState(c.state, event)
           left == IF next # c.state THEN OnExit(c, c.state) ELSE c
           moved == [left EXCEPT !.state = next]
           acted == TransitionAction(moved, event, req)
           entered == OnEntry(acted, next)
           r == cls_iefb_fsm_event(c, event, req)
<1>1. r = IF ~HasTransition(c.state, event) THEN c
          ELSE IF next # c.state THEN entered ELSE acted
  BY DEF cls_iefb_fsm_event, fsm_transition
<1>2. IsSlave(moved) /\ moved.sent = c.sent
  BY LeavesFor
<1> HIDE DEF moved, next
<1>3. acted = moved \/ acted = cls_iefb_slave_init(moved)
  BY DEF TransitionAction
<1> HIDE DEF acted
<1>4. IsSlave(acted) /\ acted.sent = moved.sent
  BY <1>2, <1>3, SlaveInitDisconnects DEF Disconnects
<1>5. entered.sent = acted.sent
  BY <1>4, EntryDisconnects DEF Disconnects
<1> HIDE DEF entered, r
<1>6. r.sent = c.sent
  BY <1>1, <1>2, <1>4, <1>5
<1> QED BY <1>6 DEF r

LEMMA MonitorLeaves ==
    ASSUME NEW c, IsSlave(c), NEW req
    PROVE  /\ Leaves(MonitorReceiveTimer(c), c, req)
           /\ Leaves(MonitorDisablingTimer(c), c, req)
           /\ MonitorReceiveTimer(c).sent = c.sent
           /\ MonitorDisablingTimer(c).sent = c.sent
<1> DEFINE quiet == [c EXCEPT !.receive_timer = cl_timer_stop]
           ended == [c EXCEPT !.timer_for_disabling_slave = cl_timer_stop]
           lost == cls_iefb_fsm_event(quiet, "TIMEOUT_MASTER", NoRequest)
           waited == cls_iefb_fsm_event(ended, "DISABLE_SLAVE_WAIT_ENDED", NoRequest)
<1>1. /\ MonitorReceiveTimer(c) = lost \/ MonitorReceiveTimer(c) = c
      /\ MonitorDisablingTimer(c) = waited \/ MonitorDisablingTimer(c) = c
  BY DEF MonitorReceiveTimer, MonitorDisablingTimer
<1>2. SameSlave(c, c, req)
  BY DEF SameSlave, AnswersOnly
<1>3. SameSlave(quiet, c, req) /\ quiet.sent = c.sent
  BY DEF SameSlave, AnswersOnly, IsSlave, HasFields, SlaveFields
<1>4. SameSlave(ended, c, req) /\ ended.sent = c.sent
  BY DEF SameSlave, AnswersOnly, IsSlave, HasFields, SlaveFields
<1> HIDE DEF quiet, ended
<1>5. ASSUME NEW x, SameSlave(x, c, req), x.sent = c.sent, NEW event,
             event \in {"TIMEOUT_MASTER", "DISABLE_SLAVE_WAIT_ENDED"}
      PROVE  /\ Leaves(cls_iefb_fsm_event(x, event, NoRequest), c, req)
             /\ cls_iefb_fsm_event(x, event, NoRequest).sent = c.sent
  <2> DEFINE r == cls_iefb_fsm_event(x, event, NoRequest)
  <2>1. IsSlave(x)
    BY <1>5 DEF SameSlave
  <2>2. Leaves(r, x, NoRequest)
    BY <1>5, <2>1, OtherEventLeaves
  <2>3. r.sent = x.sent
    BY <1>5, <2>1, OtherEventSendsNothing
  <2> HIDE DEF r
  <2>4. Leaves(r, c, req)
    BY <1>5, <2>2, <2>3 DEF Leaves, Quits, SameSlave, AnswersOnly
  <2> QED BY <1>5, <2>3, <2>4 DEF r
<1>6. /\ Leaves(lost, c, req) /\ lost.sent = c.sent
      /\ Leaves(waited, c, req) /\ waited.sent = c.sent
  BY <1>3, <1>4, <1>5
<1> HIDE DEF lost, waited
<1> QED BY <1>1, <1>2, <1>6, SameSlaveLeaves

LEMMA WokenLeaves ==
    ASSUME NEW c, IsSlave(c), NEW d, NEW req
    PROVE  LET r == Advance(NewCall(c), d)
           IN  IsSlave(r) /\ Leaves(r, c, req) /\ r.sent = {}
<1> DEFINE called == NewCall(c)
           r == Advance(called, d)
<1>1. IsSlave(called) /\ SameSlave(called, c, req) /\ called.sent = {}
  BY DEF NewCall, SameSlave, AnswersOnly, IsSlave, HasFields, SlaveFields
<1> HIDE DEF called
<1>2. IsSlave(r) /\ SameSlave(r, called, req) /\ r.sent = {}
  BY <1>1 DEF Advance, SameSlave, AnswersOnly, IsSlave, HasFields, SlaveFields
<1> HIDE DEF r
<1>3. Leaves(r, c, req)
  BY <1>1, <1>2, SameSlaveTransitive, SameSlaveLeaves
<1> QED BY <1>2, <1>3 DEF r, called

LEMMA SlavePeriodicReceives ==
    ASSUME NEW c, IsSlave(c), NEW d, NEW req
    PROVE  /\ req = NoRequest => Leaves(cls_iefb_periodic(c, d, req), c, req)
           /\ Receives(cls_iefb_periodic(c, d, req), c, req)
           /\ \A resp \in cls_iefb_periodic(c, d, req).sent :
                resp.remote_ip = req.remote_ip
<1> DEFINE woken == Advance(NewCall(c), d)
           received == IF req = NoRequest THEN woken
                       ELSE cls_iefb_handle_cyclic_input_frame(woken, req)
           heard == MonitorReceiveTimer(received)
           r == MonitorDisablingTimer(heard)
<1>1. cls_iefb_periodic(c, d, req) = r
  BY DEF cls_iefb_periodic
<1>2. IsSlave(woken) /\ Leaves(woken, c, req) /\ woken.sent = {}
  BY WokenLeaves
<1> HIDE DEF woken
<1>3. /\ Receives(received, woken, req)
      /\ req = NoRequest => Leaves(received, woken, req)
  <2>1. Receives(woken, woken, req) /\ Leaves(woken, woken, req)
    BY <1>2, SameReceives DEF Leaves, Quits, AnswersOnly
  <2>2. Receives(cls_iefb_handle_cyclic_input_frame(woken, req), woken, req)
    BY <1>2, InputReceives
  <2> QED BY <2>1, <2>2
<1> HIDE DEF received
<1>4. IsSlave(received)
  BY <1>3 DEF Receives
<1>5. Leaves(heard, received, req)
  BY <1>4, MonitorLeaves
<1> HIDE DEF heard
<1>6. Leaves(r, heard, req)
  <2>1. IsSlave(heard)
    BY <1>5 DEF Leaves
  <2> QED BY <2>1, MonitorLeaves
<1> HIDE DEF r
<1>7. Leaves(r, received, req)
  BY <1>5, <1>6, LeavesTransitive
<1>8. Receives(r, c, req)
  BY <1>2, <1>3, <1>7, ReceivesThenLeaves, LeavesThenReceives
<1>9. req = NoRequest => Leaves(r, c, req)
  BY <1>2, <1>3, <1>7, LeavesTransitive
<1>10. \A resp \in r.sent : resp.remote_ip = req.remote_ip
  BY <1>2, <1>3, <1>7 DEF Leaves, Receives, AnswersOnly
<1> QED BY <1>1, <1>8, <1>9, <1>10

-----------------------------------------------------------------------------
(* What the slave finds in a request of a session.                         *)

LEMMA SlotAt ==
    ASSUME NEW req, NEW m, NEW session, IsSession(session), NEW outs,
           RequestTells(req, m, session, outs),
           NEW i \in 1 .. Len(Devices(session, req.group_no)),
           NEW station \in 1 .. Len(req.slave_ids),
           Occupies(Devices(session, req.group_no), i, station)
    PROVE  SlotTells(req, Devices(session, req.group_no),
                     outs[req.group_no], i, station)
  BY DEF RequestTells, SlotsTell

(* The place and the number of stations it finds are those of its device.  *)
LEMMA FindsItsDevice ==
    ASSUME NEW req, NEW m, NEW session, IsSession(session), NEW outs,
           RequestTells(req, m, session, outs), SlaveIp \notin {NoIp, Multistation},
           IsSlaveIdFound(SlaveIp, req)
    PROVE  LET devs == Devices(session, req.group_no)
           IN  \E i \in 1 .. Len(devs) :
                  /\ devs[i].slave_id = SlaveIp
                  /\ my_slave_station_no(SlaveIp, req) = 1 + Before(devs, i)
                  /\ implied_occupation_count(SlaveIp, req) = OccupiedBy(devs, i)
<1> DEFINE g == req.group_no
           devs == Devices(session, g)
           total == Before(devs, Len(devs) + 1)
           first == my_slave_station_no(SlaveIp, req)
<1>1. /\ g \in 1 .. Len(session.config)
      /\ Len(req.slave_ids) = total
  BY DEF RequestTells, SlotsTell
<1>2. /\ HasSettings(devs)
      /\ \A i \in 1 .. Len(devs) : devs[i].slave_id \notin {NoIp, Multistation}
  BY <1>1 DEF IsSession
<1>3. Len(devs) \in Nat /\ total \in Nat
  BY <1>2, PairsAreFinite DEF HasSettings
<1>4. first \in 1 .. total /\ req.slave_ids[first] = SlaveIp
  <2>1. first \in StationsOf(SlaveIp, req)
    BY DEF IsSlaveIdFound, my_slave_station_no
  <2> HIDE DEF first
  <2> QED BY <1>1, <2>1 DEF StationsOf, total_occupied
<1> HIDE DEF first, devs, total
<1>5. PICK i \in 1 .. Len(devs) : Occupies(devs, i, first)
  BY <1>2, <1>4, StationHasADevice DEF total
<1>6. SlotTells(req, devs, outs[g], i, first)
  BY <1>1, <1>4, <1>5, SlotAt DEF devs
<1>7. first = 1 + Before(devs, i) /\ devs[i].slave_id = SlaveIp
  BY <1>4, <1>6 DEF SlotTells
<1> DEFINE n == OccupiedBy(devs, i)
           ids == req.slave_ids
<1>8. n \in Nat \ {0} /\ Before(devs, i) \in Nat
  <2>1. n \in 1 .. 16 /\ Before(devs, i) \in Nat
    BY <1>2, OccupiedRange, PairsAreFinite
  <2> HIDE DEF n
  <2> QED BY <2>1
<1>9. Before(devs, i + 1) = Before(devs, i) + n
  BY <1>2, BeforeTheNext
<1>10. first + n - 1 <= total
  <2>1. Len(devs) + 1 \in 1 .. Len(devs) + 1 /\ i < Len(devs) + 1
    BY <1>3
  <2>2. Before(devs, i) + n <= total
    BY <1>2, <2>1, DevicesInOrder DEF total
  <2> HIDE DEF n
  <2> QED BY <1>3, <1>7, <1>8, <2>2
<1>11. ASSUME NEW s \in first + 1 .. first + n - 1
       PROVE  ids[s] = Multistation
  <2> HIDE DEF n
  <2>1. s \in 1 .. total /\ s # first /\ first <= s /\ s < first + n
    BY <1>3, <1>4, <1>8, <1>10
  <2>2. Occupies(devs, i, s)
    BY <1>7, <2>1 DEF Occupies, n
  <2>3. SlotTells(req, devs, outs[g], i, s)
    BY <1>1, <2>1, <2>2, SlotAt DEF devs
  <2> QED BY <1>7, <2>1, <2>3 DEF SlotTells
<1>12. ASSUME first + n <= total
       PROVE  ids[first + n] # Multistation
  <2> DEFINE j == i + 1
             s == first + n
  <2>1. s = 1 + Before(devs, j)
    <3> HIDE DEF n
    <3> QED BY <1>4, <1>7, <1>8, <1>9
  <2>2. j \in 1 .. Len(devs)
    <3>1. CASE i = Len(devs)
      <4>1. s = 1 + total
        BY <2>1, <3>1 DEF total
      <4> HIDE DEF s
      <4>2. s <= total
        BY <1>12 DEF s
      <4> QED BY <1>3, <4>1, <4>2
    <3>2. CASE i # Len(devs)
      BY <1>3, <3>2
    <3> QED BY <3>1, <3>2
  <2>3. s \in 1 .. total
    <3> HIDE DEF n
    <3> QED BY <1>3, <1>4, <1>8, <1>12
  <2> HIDE DEF j, s, n
  <2>4. Occupies(devs, j, s)
    BY <1>2, <2>1, <2>2, FirstStation
  <2>5. SlotTells(req, devs, outs[g], j, s)
    BY <1>1, <2>2, <2>3, <2>4, SlotAt DEF devs
  <2>6. ids[s] \in {NoIp, devs[j].slave_id}
    BY <2>1, <2>5 DEF SlotTells
  <2>7. NoIp # Multistation
    BY IdsAssumption
  <2> QED BY <1>2, <2>2, <2>6, <2>7 DEF s, n
<1>13. implied_occupation_count(SlaveIp, req) = n
  <2>1. first \in Nat
    BY <1>3, <1>4
  <2>2. implied_occupation_count(SlaveIp, req)
            = Cardinality(Run(ids, first, total))
    BY <1>1 DEF implied_occupation_count, total_occupied, first, Run
  <2> HIDE DEF n, ids
  <2>3. /\ \A s \in first + 1 .. first + n - 1 : ids[s] = Multistation
        /\ first + n <= total => ids[first + n] # Multistation
        /\ n \in Nat \ {0} /\ total \in Nat /\ first + n - 1 <= total
    BY <1>3, <1>8, <1>10, <1>11, <1>12
  <2>4. Cardinality(Run(ids, first, total)) = n
    BY <2>1, <2>3, RunIsInterval
  <2> QED BY <2>2, <2>4
<1> QED BY <1>7, <1>13 DEF first, devs

(* What a request holds for a device is the output written for it.         *)
LEMMA HoldsItsOutput ==
    ASSUME NEW req, NEW m, NEW k, NEW session, IsSession(session),
           RequestTells(req, m, session, OutputsOf(m, k, session)),
           NEW i \in 1 .. Len(Devices(session, req.group_no)),
           Devices(session, req.group_no)[i].slave_id = SlaveIp,
           OccupiedBy(Devices(session, req.group_no), i) = NumOccupied,
           NEW station,
           station = 1 + Before(Devices(session, req.group_no), i),
           NEW j \in 1 .. NumOccupied
    PROVE  req.data[station + j - 1] \in {NoData, Output(m, k, SlaveIp)}
<1> DEFINE g == req.group_no
           devs == Devices(session, g)
           total == Before(devs, Len(devs) + 1)
           outs == OutputsOf(m, k, session)
           s == station + j - 1
<1>1. /\ g \in 1 .. Len(session.config)
      /\ Len(req.slave_ids) = total
  BY DEF RequestTells, SlotsTell
<1>2. HasSettings(devs)
  BY <1>1 DEF IsSession
<1>3. outs[g][i] = Output(m, k, SlaveIp)
  BY <1>1 DEF OutputsOf
<1> HIDE DEF outs, total, devs
<1>4. Len(devs) \in Nat /\ total \in Nat /\ Before(devs, i) \in Nat
  BY <1>2, PairsAreFinite DEF HasSettings, total
<1>5. NumOccupied \in Nat
  BY NumOccupiedAssumption DEF cls_validate_config, MinOccupied, MaxOccupied
<1>6. Before(devs, i) + NumOccupied <= total
  <2>1. Len(devs) + 1 \in 1 .. Len(devs) + 1 /\ i < Len(devs) + 1
        /\ i \in 1 .. Len(devs)
    BY <1>4 DEF devs
  <2>2. Before(devs, i) + OccupiedBy(devs, i) <= total
    BY <1>2, <2>1, DevicesInOrder DEF total
  <2> QED BY <2>2 DEF devs
<1>7. s \in 1 .. total /\ s >= 1 + Before(devs, i)
        /\ s < 1 + Before(devs, i) + NumOccupied
  <2>1. station = 1 + Before(devs, i)
    BY DEF devs
  <2> QED BY <1>4, <1>5, <1>6, <2>1
<1> HIDE DEF s
<1>8. Occupies(devs, i, s)
  BY <1>4, <1>7 DEF Occupies, devs
<1>9. SlotTells(req, devs, outs[g], i, s)
  BY <1>1, <1>7, <1>8, SlotAt DEF devs, outs
<1> QED BY <1>3, <1>9 DEF SlotTells, s

-----------------------------------------------------------------------------
(* The connection of the slave, before and after.                          *)

LEMMA LeavesFits ==
    ASSUME NEW r, NEW c, NEW req, Leaves(r, c, req), ConnectionFits(c)
    PROVE  ConnectionFits(r)
  BY DEF Leaves, Quits, ConnectionFits

(* Data of a request is data of its session.                               *)
LEMMA RequestHolds ==
    ASSUME NEW req, NEW m, NEW k, NEW session, IsSession(session),
           RequestTells(req, m, session, OutputsOf(m, k, session)),
           NEW r, r.master.group_no = req.group_no,
           StationFits(r.master, session), FromRequest(r, req)
    PROVE  Holds(r.data, Output(m, k, SlaveIp))
<1> DEFINE devs == Devices(session, req.group_no)
           station == r.master.slave_station_no
<1>1. PICK i \in 1 .. Len(devs) :
            /\ devs[i].slave_id = SlaveIp
            /\ station = 1 + Before(devs, i)
            /\ OccupiedBy(devs, i) = NumOccupied
  BY DEF StationFits
<1>2. ASSUME NEW j \in 1 .. NumOccupied
      PROVE  r.data[j] \in {NoData, Output(m, k, SlaveIp)}
  <2>1. r.data[j] \in {NoData, req.data[station + j - 1]}
    BY DEF FromRequest
  <2> HIDE DEF station
  <2>2. req.data[station + j - 1] \in {NoData, Output(m, k, SlaveIp)}
    BY <1>1, HoldsItsOutput
  <2> QED BY <2>1, <2>2
<1> QED BY <1>2 DEF Holds

LEMMA WithinTheFrame ==
    ASSUME NEW b \in Nat, NEW n \in 1 .. 16, NEW t \in 1 .. 16, b + n <= t
    PROVE  /\ t >= n
           /\ 1 + b \in 1 .. 16
           /\ (1 + b) + n - 1 <= 16
           /\ (1 + b) + n - 1 <= t
<1>1. b <= 15 /\ (1 + b) + n - 1 = b + n
  OBVIOUS
<1> QED BY <1>1

(* A slave that has just computed its station has its own device there.    *)
LEMMA StationIsFound ==
    ASSUME NEW req, NEW m, NEW session, IsSession(session), NEW outs,
           RequestTells(req, m, session, outs),
           req.slave_ip_addr = SlaveIp, IsSearched(req)
    PROVE  LET station == my_slave_station_no(req.slave_ip_addr, req)
           IN  /\ StationFits(MasterOf(req, station), session)
               /\ IsDataInRequest(req, station)
<1> DEFINE g == req.group_no
           devs == Devices(session, g)
           total == Before(devs, Len(devs) + 1)
           station == my_slave_station_no(SlaveIp, req)
           master == MasterOf(req, station)
<1>1. SlaveIp \notin {NoIp, Multistation}
  BY CciefbAssumption
<1>2. PICK i \in 1 .. Len(devs) :
            /\ devs[i].slave_id = SlaveIp
            /\ station = 1 + Before(devs, i)
            /\ implied_occupation_count(SlaveIp, req) = OccupiedBy(devs, i)
  BY <1>1, FindsItsDevice DEF IsSearched
<1>3. OccupiedBy(devs, i) = NumOccupied
  BY <1>2 DEF IsSearched
<1>4. /\ g \in 1 .. Len(session.config)
      /\ Len(req.slave_ids) = total
      /\ total \in 1 .. 16
  BY DEF RequestTells, SlotsTell, IsSearched, cl_iefb_parse_cyclic_request,
         cl_iefb_validate_req_cyclic_data_header, total_occupied, MinOccupied,
         MaxOccupied
<1>5. HasSettings(devs)
  BY <1>4 DEF IsSession
<1> HIDE DEF station
<1>6. StationFits(master, session)
  <2>1. /\ master.group_no = g
        /\ master.parameter_no = req.parameter_no
        /\ master.timeout_value = req.timeout_value
        /\ master.parallel_off_timeout_count = req.parallel_off_timeout_count
        /\ master.slave_station_no = station
    BY DEF MasterOf
  <2> HIDE DEF master
  <2> QED BY <1>2, <1>3, <1>4, <2>1 DEF StationFits, RequestTells
<1> HIDE DEF devs
<1>7. IsDataInRequest(req, station)
  <2>1. PICK b \in Nat : b = Before(devs, i)
    BY <1>5, PairsAreFinite
  <2>2. PICK n \in 1 .. 16 : n = NumOccupied
    BY NumOccupiedAssumption DEF cls_validate_config, MinOccupied, MaxOccupied
  <2>3. b + n <= total
    <3>1. Len(devs) + 1 \in 1 .. Len(devs) + 1 /\ i < Len(devs) + 1
          /\ i \in 1 .. Len(devs)
      BY <1>5 DEF HasSettings, devs
    <3>2. Before(devs, i) + OccupiedBy(devs, i) <= total
      BY <1>5, <3>1, DevicesInOrder
    <3> QED BY <1>3, <2>1, <2>2, <3>2 DEF devs
  <2>4. station = 1 + b
    BY <1>2, <2>1 DEF devs
  <2> HIDE DEF total
  <2>5. /\ total >= n /\ 1 + b \in 1 .. 16 /\ (1 + b) + n - 1 <= 16
        /\ (1 + b) + n - 1 <= total
    <3>1. PICK t \in 1 .. 16 : t = total
      BY <1>4
    <3>2. b + n <= t
      BY <2>3, <3>1
    <3>3. t >= n /\ 1 + b \in 1 .. 16 /\ (1 + b) + n - 1 <= 16
          /\ (1 + b) + n - 1 <= t
      BY <3>2, WithinTheFrame
    <3> QED BY <3>1, <3>3
  <2> QED BY <1>4, <2>2, <2>4, <2>5 DEF IsDataInRequest, total_occupied,
                                       MinOccupied, MaxOccupied
<1> QED BY <1>6, <1>7 DEF station

LEMMA ReceivesFits ==
    ASSUME SessionsOK, \A m \in Masters : FileFits(m),
           NEW e, EntryFits(e), e.to = SlaveIp,
           NEW c, ConnectionFits(c), NEW r, Receives(r, c, e.frame)
    PROVE  ConnectionFits(r)
<1> DEFINE req == e.frame
<1>1. SUFFICES ASSUME r.state = "MASTER_CONTROL"
      PROVE  /\ r.master.master_id \in Masters
             /\ kept[r.master.master_id] =>
                    \E k \in 1 .. Len(sessions[r.master.master_id]) :
                        Follows(r.master, r.data, r.master.master_id, k,
                                sessions[r.master.master_id][k])
  BY DEF ConnectionFits
<1>2. PICK m \in Masters : \E n \in 1 .. Len(sessions[m]) :
            RequestTells(req, m, sessions[m][n],
                         OutputsOf(m, n, sessions[m][n]))
  BY DEF EntryFits
<1>3. PICK k \in 1 .. Len(sessions[m]) :
            RequestTells(req, m, sessions[m][k],
                         OutputsOf(m, k, sessions[m][k]))
  BY <1>2
<1> DEFINE session == sessions[m][k]
<1>4. /\ IsSession(session)
      /\ req.master_id = m
      /\ req.parameter_no = session.parameter_no
      /\ req.slave_ip_addr = SlaveIp
  BY <1>3, SessionOf DEF RequestTells, EntryFits
<1> HIDE DEF req
<1>5. CASE Quits(r, c)
  BY <1>1, <1>5 DEF Quits, ConnectionFits
<1>6. CASE /\ c.state = "MASTER_CONTROL"
           /\ IsOwn(c, req)
           /\ r.master = c.master
           /\ FromRequest(r, req)
  <2>1. r.master.master_id = m
    BY <1>4, <1>6 DEF IsOwn
  <2>2. ASSUME kept[m]
        PROVE  Follows(r.master, r.data, m, k, session)
    <3>1. PICK j \in 1 .. Len(sessions[m]) :
                Follows(c.master, c.data, m, j, sessions[m][j])
      BY <1>6, <2>1, <2>2 DEF ConnectionFits
    <3>2. sessions[m][j].parameter_no = sessions[m][k].parameter_no
      BY <1>4, <1>6, <3>1 DEF Follows, StationFits, IsOwn
    <3>3. j = k
      BY <2>2, <3>2, NumbersAreDistinct
    <3>4. StationFits(r.master, session)
      BY <1>6, <3>1, <3>3 DEF Follows
    <3>5. r.master.group_no = req.group_no
      BY <1>6 DEF IsOwn
    <3> HIDE DEF session
    <3>6. Holds(r.data, Output(m, k, SlaveIp))
      BY <1>3, <1>4, <1>6, <3>4, <3>5, RequestHolds DEF session
    <3> QED BY <3>4, <3>6 DEF Follows
  <2> QED BY <2>1, <2>2
<1>7. CASE /\ IsSearched(req)
           /\ r.master = MasterOf(req,
                    my_slave_station_no(req.slave_ip_addr, req))
           /\ \/ FromRequest(r, req)
              \/ ~IsDataInRequest(req, r.master.slave_station_no)
  <2> DEFINE station == my_slave_station_no(req.slave_ip_addr, req)
  <2> HIDE DEF session
  <2>1. StationFits(MasterOf(req, station), session)
        /\ IsDataInRequest(req, station)
    BY <1>3, <1>4, <1>7, StationIsFound DEF session
  <2> HIDE DEF station
  <2>2. /\ r.master.master_id = m
        /\ r.master.group_no = req.group_no
        /\ r.master.slave_station_no = station
    BY <1>4, <1>7 DEF MasterOf, station
  <2>3. StationFits(r.master, session) /\ FromRequest(r, req)
    BY <1>7, <2>1, <2>2 DEF station
  <2>4. Holds(r.data, Output(m, k, SlaveIp))
    BY <1>3, <1>4, <2>2, <2>3, RequestHolds DEF session
  <2>5. Follows(r.master, r.data, m, k, session)
    BY <2>3, <2>4 DEF Follows
  <2> QED BY <2>2, <2>5 DEF session
<1> QED BY <1>1, <1>5, <1>6, <1>7 DEF Receives, req

-----------------------------------------------------------------------------
(* The steps of the system.                                                *)

(* No session is forgotten, and no saved number is lost but not noticed.   *)
Grows ==
    /\ \A m \in Masters : \A k \in 1 .. Len(sessions[m]) :
            k \in 1 .. Len(sessions'[m]) /\ sessions'[m][k] = sessions[m][k]
    /\ \A m \in Masters : kept'[m] => kept[m]

LEMMA EntryFitsAfter ==
    ASSUME Grows, NEW e, EntryFits(e)
    PROVE  EntryFits(e)'
<1>1. CASE e.to = SlaveIp
  <2>1. PICK m \in Masters : \E n \in 1 .. Len(sessions[m]) :
            RequestTells(e.frame, m, sessions[m][n],
                         OutputsOf(m, n, sessions[m][n]))
    BY <1>1 DEF EntryFits
  <2>2. PICK n \in 1 .. Len(sessions[m]) :
            RequestTells(e.frame, m, sessions[m][n],
                         OutputsOf(m, n, sessions[m][n]))
    BY <2>1
  <2>3. n \in 1 .. Len(sessions'[m]) /\ sessions'[m][n] = sessions[m][n]
    BY DEF Grows
  <2>4. \E k \in 1 .. Len(sessions'[m]) :
            RequestTells(e.frame, m, sessions'[m][k],
                         OutputsOf(m, k, sessions'[m][k]))
    BY <2>2, <2>3
  <2> QED BY <1>1, <2>4 DEF EntryFits
<1>2. CASE e.to # SlaveIp
  BY <1>2 DEF EntryFits
<1> QED BY <1>1, <1>2

LEMMA ConnectionFitsAfter ==
    ASSUME Grows, NEW c, ConnectionFits(c)
    PROVE  ConnectionFits(c)'
<1> DEFINE m == c.master.master_id
<1>1. CASE c.state = "MASTER_CONTROL" /\ m \in Masters /\ kept'[m]
  <2>1. kept[m]
    BY <1>1 DEF Grows
  <2>2. PICK k \in 1 .. Len(sessions[m]) :
            Follows(c.master, c.data, m, k, sessions[m][k])
    BY <1>1, <2>1 DEF ConnectionFits
  <2>3. k \in 1 .. Len(sessions'[m]) /\ sessions'[m][k] = sessions[m][k]
    BY <1>1 DEF Grows
  <2> QED BY <1>1, <2>2, <2>3 DEF ConnectionFits
<1>2. CASE ~(c.state = "MASTER_CONTROL" /\ m \in Masters /\ kept'[m])
  BY <1>2 DEF ConnectionFits
<1> QED BY <1>1, <1>2

LEMMA SlaveFitsAfter ==
    ASSUME Grows, NEW c, IsSlave(c), ConnectionFits(c), cls' = c
    PROVE  SlaveFits'
  BY ConnectionFitsAfter DEF SlaveFits

LEMMA NothingForgotten ==
    ASSUME UNCHANGED <<sessions, kept>>
    PROVE  Grows
  BY DEF Grows

(* Steps that no master takes part in.                                     *)
LEMMA MastersStay ==
    ASSUME SessionsOK, MastersFit, UNCHANGED <<clm, file, sessions, kept>>
    PROVE  SessionsOK' /\ MastersFit'
  BY DEF SessionsOK, MastersFit, FileFits, StackFits

(* Steps in which every stack that is running goes on in its session.      *)
LEMMA MastersRun ==
    ASSUME SessionsOK, MastersFit, UNCHANGED <<file, sessions, kept>>,
           clm' = [m \in Masters |-> clm'[m]],
           \A m \in Masters : Len(sessions[m]) > 0 =>
                RunsIn(clm'[m], m, sessions[m][Len(sessions[m])],
                       OutputsOf(m, Len(sessions[m]),
                                 sessions[m][Len(sessions[m])]))
    PROVE  SessionsOK' /\ MastersFit'
<1>1. SessionsOK'
  BY DEF SessionsOK
<1>2. ASSUME NEW m \in Masters
      PROVE  FileFits(m)' /\ StackFits(m)'
  BY DEF MastersFit, FileFits, StackFits
<1> QED BY <1>1, <1>2 DEF MastersFit

LEMMA InitialSlave == IsSlave(cls_iefb_init) /\ ConnectionFits(cls_iefb_init)
<1> DEFINE c == [cls_memory_cleared EXCEPT !.state = "SLAVE_DOWN"]
           r == cls_iefb_fsm_event(c, "STARTUP", NoRequest)
<1>1. IsSlave(c) /\ c.state = "SLAVE_DOWN"
  <2>1. HasFields(NoMaster, MasterInfoFields)
    BY DEF NoMaster, HasFields, MasterInfoFields
  <2>2. /\ HasFields(cls_memory_cleared, SlaveFields)
        /\ cls_memory_cleared.master = NoMaster
    BY DEF cls_memory_cleared, HasFields, SlaveFields
  <2>3. /\ HasFields(c, SlaveFields)
        /\ c.master = NoMaster
        /\ c.state = "SLAVE_DOWN"
    BY <2>2 DEF HasFields, SlaveFields
  <2> HIDE DEF c
  <2> QED BY <2>1, <2>3 DEF IsSlave
<1>2. cls_iefb_init = r
  BY DEF cls_iefb_init, cls_fsm_init
<1> HIDE DEF c
<1>3. Leaves(r, c, NoRequest)
  BY <1>1, OtherEventLeaves
<1> HIDE DEF r
<1>4. IsSlave(r) /\ r.state # "MASTER_CONTROL"
  BY <1>1, <1>3 DEF Leaves, Quits
<1> QED BY <1>2, <1>4 DEF ConnectionFits

LEMMA NewCallFits ==
    ASSUME NEW c, IsSlave(c), ConnectionFits(c)
    PROVE  IsSlave(NewCall(c)) /\ ConnectionFits(NewCall(c))
<1>1. SameSlave(NewCall(c), c, NoRequest)
  BY DEF NewCall, SameSlave, AnswersOnly, IsSlave, HasFields, SlaveFields
<1>2. Leaves(NewCall(c), c, NoRequest)
  BY <1>1, SameSlaveLeaves
<1> QED BY <1>2, LeavesFits DEF Leaves

(* What the application or a restart does to the slave.                    *)
LEMMA CommandsFit ==
    ASSUME SlaveFits
    PROVE  /\ IsSlave(cls_iefb_disable_slave(cls, TRUE))
           /\ ConnectionFits(cls_iefb_disable_slave(cls, TRUE))
           /\ IsSlave(cls_iefb_reenable_slave(cls))
           /\ ConnectionFits(cls_iefb_reenable_slave(cls))
<1> DEFINE called == NewCall(cls)
           told == [called EXCEPT !.endcode_slave_disabled = "SLAVE_ERROR"]
           disabled == cls_iefb_fsm_event(told, "DISABLE_SLAVE", NoRequest)
           enabled == cls_iefb_fsm_event(called, "REENABLE_SLAVE", NoRequest)
<1>1. /\ cls_iefb_disable_slave(cls, TRUE) = disabled
      /\ cls_iefb_reenable_slave(cls) = enabled
  BY DEF cls_iefb_disable_slave, cls_iefb_reenable_slave
<1>2. IsSlave(called) /\ ConnectionFits(called)
  BY NewCallFits DEF SlaveFits
<1> HIDE DEF called
<1>3. IsSlave(told) /\ Leaves(told, called, NoRequest)
  <2>1. SameSlave(told, called, NoRequest)
    BY <1>2 DEF SameSlave, AnswersOnly, IsSlave, HasFields, SlaveFields
  <2> HIDE DEF told
  <2> QED BY <2>1, SameSlaveLeaves DEF SameSlave
<1> HIDE DEF told
<1>4. Leaves(disabled, told, NoRequest) /\ Leaves(enabled, called, NoRequest)
  BY <1>2, <1>3, OtherEventLeaves
<1> HIDE DEF disabled, enabled
<1>5. /\ IsSlave(disabled) /\ ConnectionFits(disabled)
      /\ IsSlave(enabled) /\ ConnectionFits(enabled)
  BY <1>2, <1>3, <1>4, LeavesFits DEF Leaves
<1> QED BY <1>1, <1>5

LEMMA LatestSession ==
    ASSUME SessionsOK, NEW m \in Masters, sessions[m] # <<>>
    PROVE  /\ Len(sessions[m]) \in 1 .. Len(sessions[m])
           /\ Len(sessions[m]) > 0
           /\ IsSession(sessions[m][Len(sessions[m])])
           /\ Stack(m) = sessions[m][Len(sessions[m])].config
<1>1. sessions[m] \in Seq(Sessions)
  BY DEF SessionsOK
<1>2. Len(sessions[m]) \in Nat \ {0}
  BY <1>1
<1>3. Len(sessions[m]) \in 1 .. Len(sessions[m])
  BY <1>2
<1> QED BY <1>2, <1>3, SessionOf DEF Stack, Latest

(* A stack that runs is called, and what it sends is of its session.       *)
LEMMA MasterCalled ==
    ASSUME SessionsOK, NEW m \in Masters, StackFits(m), sessions[m] # <<>>,
           NEW d, NEW frame
    PROVE  LET n == Len(sessions[m])
               session == sessions[m][n]
               outs == OutputsOf(m, n, session)
               after == M(m, Stack(m))!clm_iefb_periodic(clm[m], d, frame)
           IN  /\ RunsIn(Emptied(m, after), m, session, outs)
               /\ \A e \in RequestsOf(m, after) : EntryFits(e)
<1> DEFINE n == Len(sessions[m])
           session == sessions[m][n]
           outs == OutputsOf(m, n, session)
           after == M(m, Stack(m))!clm_iefb_periodic(clm[m], d, frame)
<1>1. /\ n \in 1 .. n /\ n > 0
      /\ IsSession(session)
      /\ Stack(m) = session.config
  BY LatestSession
<1>2. RunsIn(clm[m], m, session, outs)
  BY <1>1 DEF StackFits
<1> HIDE DEF session, outs
<1>3. RunsIn(after, m, session, outs)
  BY <1>1, <1>2, PeriodicRuns
<1> HIDE DEF after
<1>4. RunsIn(Emptied(m, after), m, session, outs)
  <2>1. RunsIn(M(m, session.config)!NewMasterCall(after), m, session, outs)
    BY <1>3, NewCallRuns
  <2> QED BY <1>1, <2>1 DEF Emptied
<1>5. ASSUME NEW e \in RequestsOf(m, after)
      PROVE  EntryFits(e)
  <2>1. EntryOf(e, m, session, outs)
    BY <1>3, RequestsOfSession
  <2>2. e.to = SlaveIp =>
            \E k \in 1 .. Len(sessions[m]) :
                RequestTells(e.frame, m, sessions[m][k],
                             OutputsOf(m, k, sessions[m][k]))
    BY <1>1, <2>1 DEF EntryOf, session, outs
  <2> QED BY <2>1, <2>2 DEF EntryOf, EntryFits
<1> QED BY <1>4, <1>5 DEF after, session, outs

LEMMA SendFits ==
    ASSUME NEW inflight, NEW new, \A e \in inflight : EntryFits(e),
           \A e \in new : EntryFits(e)
    PROVE  \A e \in Send(inflight, new) : EntryFits(e)
  BY DEF Send

LEMMA AgedFits ==
    ASSUME NetFits
    PROVE  \A e \in Aged(net) : EntryFits(e)
<1>1. ASSUME NEW f \in net
      PROVE  EntryFits([f EXCEPT !.late = TRUE])
  <2> DEFINE e == [f EXCEPT !.late = TRUE]
  <2>1. EntryFits(f)
    BY DEF NetFits
  <2>2. HasFields(f, EntryFields)
    BY <2>1 DEF EntryFits
  <2>3. HasFields(e, EntryFields) /\ e.to = f.to /\ e.frame = f.frame
    BY <2>2 DEF HasFields, EntryFields
  <2> HIDE DEF e
  <2>4. EntryFits(e)
    BY <2>1, <2>3 DEF EntryFits
  <2> QED BY <2>4 DEF e
<1> QED BY <1>1 DEF Aged

LEMMA NetFitsAfter ==
    ASSUME Grows, \A e \in net' : EntryFits(e)
    PROVE  NetFits'
  BY EntryFitsAfter DEF NetFits

LEMMA ResponsesFit ==
    ASSUME NEW c, NEW m \in Masters,
           \A resp \in c.sent : resp.remote_ip = m
    PROVE  \A e \in ResponsesOf(c) : EntryFits(e)
<1>1. ASSUME NEW resp \in c.sent
      PROVE  EntryFits(Entry(SlaveIp, resp.remote_ip, AsReceived(resp)))
  <2> DEFINE frame == AsReceived(resp)
             e == Entry(SlaveIp, resp.remote_ip, frame)
  <2> HIDE DEF frame
  <2>1. HasFields(e, EntryFields) /\ e.to = resp.remote_ip
    BY DEF Entry, HasFields, EntryFields
  <2>2. resp.remote_ip # SlaveIp
    BY CciefbAssumption
  <2> HIDE DEF e
  <2>3. EntryFits(e)
    BY <2>1, <2>2 DEF EntryFits
  <2> QED BY <2>3 DEF e, frame
<1> QED BY <1>1 DEF ResponsesOf

(* The start of a master: its stack, its number and its file.              *)
LEMMA MasterStarted ==
    ASSUME SessionsOK, NEW m \in Masters, FileFits(m), NEW config \in Configs,
           NEW k
    PROVE  LET started == clm_master_init(m, k, config, file[m])
               session == [parameter_no |-> started.parameter_no,
                           config |-> config]
           IN  /\ LoadedParameterNo(file[m]) \in 0 .. MaxParameterNo
               /\ started.parameter_no
                    = (LoadedParameterNo(file[m]) + 1) % (MaxParameterNo + 1)
               /\ session \in Sessions
               /\ RunsIn(started, m, session, OutputsOf(m, k, session))
<1> DEFINE number == LoadedParameterNo(file[m])
           next == (number + 1) % (MaxParameterNo + 1)
           session == [parameter_no |-> next, config |-> config]
           init == M(m, config)!clm_iefb_init(number)
           started == clm_master_init(m, k, config, file[m])
<1>1. number \in 0 .. MaxParameterNo
  BY CciefbAssumption DEF LoadedParameterNo, FileFits
<1> HIDE DEF number
<1>2. next \in 0 .. MaxParameterNo
  <2>1. next = IF number = MaxParameterNo THEN 0 ELSE number + 1
    BY <1>1, NextNumber
  <2>2. MaxParameterNo \in Nat
    BY CciefbAssumption
  <2> HIDE DEF next
  <2> QED BY <1>1, <2>1, <2>2
<1> HIDE DEF next
<1>3. session \in Sessions /\ session.config = config
      /\ session.parameter_no = next
  BY <1>2 DEF Sessions
<1> HIDE DEF session
<1>4. IsSession(session)
  BY <1>3, ConfigIsSession
<1>5. MasterCarries(init, m, session, NoOutputs(session))
      /\ init.parameter_no = next
  BY <1>3, <1>4, StackInitCarries DEF next
<1>6. started = WriteOutputs(init, m, k, session.config)
  BY <1>3 DEF clm_master_init, number
<1> HIDE DEF init, started
<1>7. MasterCarries(started, m, session, OutputsOf(m, k, session))
      /\ started.parameter_no = next
  BY <1>5, <1>6, OutputsWritten
<1>8. session = [parameter_no |-> started.parameter_no, config |-> config]
  BY <1>7 DEF session
<1>9. RunsIn(started, m, session, OutputsOf(m, k, session))
  BY <1>3, <1>7 DEF RunsIn
<1>10. [parameter_no |-> started.parameter_no, config |-> config] \in Sessions
       /\ RunsIn(started, m,
                 [parameter_no |-> started.parameter_no, config |-> config],
                 OutputsOf(m, k, [parameter_no |-> started.parameter_no,
                                  config |-> config]))
  BY <1>3, <1>8, <1>9
<1> QED BY <1>1, <1>7, <1>10 DEF started, number, next

(* A file that could be saved holds the number, any other file holds one   *)
(* that could be.                                                          *)
LEMMA FileSaved ==
    ASSUME NEW f, cl_file_load(f) => f.object \in 0 .. MaxParameterNo,
           NEW number \in 0 .. MaxParameterNo, NEW outcome \in Outcomes
    PROVE  LET saved == cl_file_save_if_modified(f, number, outcome)
           IN  /\ cl_file_load(saved) => saved.object \in 0 .. MaxParameterNo
               /\ outcome = "SAVED" /\ f.path =>
                    cl_file_load(saved) /\ saved.object = number
<1> DEFINE saved == cl_file_save_if_modified(f, number, outcome)
<1>1. outcome \in {"SAVED", "FAILED", "TORN"}
  BY CciefbAssumption DEF SaveOutcomes
<1>2. /\ cl_file_load(FileWith(number)) /\ FileWith(number).object = number
      /\ ~cl_file_load(NoFile)
  BY DEF FileWith, NoFile, cl_file_load, cl_file_join_directory_filename
<1>3. CASE cl_file_load(f) /\ f.object = number
  <2>1. saved = f
    BY <1>3 DEF cl_file_save_if_modified
  <2> QED BY <1>3, <2>1
<1>4. CASE ~(cl_file_load(f) /\ f.object = number) /\ ~f.path
  <2>1. saved = f
    BY <1>4 DEF cl_file_save_if_modified, cl_file_save,
                cl_file_join_directory_filename
  <2> QED BY <1>4, <2>1
<1>5. CASE ~(cl_file_load(f) /\ f.object = number) /\ f.path
  <2>1. saved = clal_save_file(f, number, outcome)
    BY <1>5 DEF cl_file_save_if_modified, cl_file_save,
                cl_file_join_directory_filename
  <2>2. /\ outcome = "SAVED" => saved = FileWith(number)
        /\ outcome = "FAILED" => saved = f
        /\ outcome = "TORN" => saved = NoFile
    BY <2>1 DEF clal_save_file
  <2> HIDE DEF saved
  <2>3. /\ cl_file_load(saved) => saved.object \in 0 .. MaxParameterNo
        /\ outcome = "SAVED" => cl_file_load(saved) /\ saved.object = number
    BY <1>1, <1>2, <2>2
  <2> QED BY <2>3 DEF saved
<1> QED BY <1>3, <1>4, <1>5

LEMMA ClmInitFits ==
    ASSUME IInv, NEW m \in Masters, NEW config \in Configs,
           NEW outcome \in Outcomes, clm_init(m, config, outcome)
    PROVE  SessionsOK' /\ MastersFit' /\ Grows
<1> DEFINE n == Len(sessions[m])
           started == clm_master_init(m, n + 1, config, file[m])
           session == [parameter_no |-> started.parameter_no, config |-> config]
           number == started.parameter_no
           saved == cl_file_save_if_modified(file[m], number, outcome)
<1>1. /\ Len(sessions[m]) < MaxSessions
      /\ clm' = [clm EXCEPT ![m] = started]
      /\ file' = [file EXCEPT ![m] = saved]
      /\ sessions' = [sessions EXCEPT ![m] = Append(sessions[m], session)]
      /\ kept' = [kept EXCEPT ![m] =
            kept[m] /\ outcome = "SAVED" /\ file[m].path]
  BY DEF clm_init
<1>2. /\ sessions \in [Masters -> Seq(Sessions)]
      /\ kept \in [Masters -> BOOLEAN]
      /\ file = [j \in Masters |-> file[j]]
      /\ clm = [j \in Masters |-> clm[j]]
      /\ \A j \in Masters : Len(sessions[j]) <= MaxSessions
  BY DEF IInv, SessionsOK
<1>3. sessions[m] \in Seq(Sessions) /\ n \in Nat
  BY <1>2
<1>4. FileFits(m) /\ SessionsOK
  BY DEF IInv, MastersFit
<1>5. /\ LoadedParameterNo(file[m]) \in 0 .. MaxParameterNo
      /\ number = (LoadedParameterNo(file[m]) + 1) % (MaxParameterNo + 1)
      /\ session \in Sessions
      /\ RunsIn(started, m, session, OutputsOf(m, n + 1, session))
  BY <1>4, MasterStarted
<1>6. number = session.parameter_no /\ number \in 0 .. MaxParameterNo
  BY <1>5 DEF Sessions
<1> HIDE DEF started, session, number
<1>7. /\ cl_file_load(saved) => saved.object \in 0 .. MaxParameterNo
      /\ outcome = "SAVED" /\ file[m].path =>
            cl_file_load(saved) /\ saved.object = number
  BY <1>4, <1>6, FileSaved DEF FileFits
<1> HIDE DEF saved
<1> DEFINE longer == Append(sessions[m], session)
<1>8. /\ longer \in Seq(Sessions)
      /\ Len(longer) = n + 1
      /\ longer[n + 1] = session
      /\ \A k \in 1 .. n : longer[k] = sessions[m][k]
  BY <1>3, <1>5
<1> HIDE DEF longer
<1>9. /\ sessions'[m] = longer
      /\ clm'[m] = started
      /\ file'[m] = saved
      /\ kept'[m] = (kept[m] /\ outcome = "SAVED" /\ file[m].path)
      /\ \A j \in Masters : j # m =>
            /\ sessions'[j] = sessions[j]
            /\ clm'[j] = clm[j]
            /\ file'[j] = file[j]
            /\ kept'[j] = kept[j]
  BY <1>1, <1>2 DEF longer
<1>10. SessionsOK'
  <2>1. MaxSessions \in Nat
    BY CciefbAssumption
  <2>2. sessions' \in [Masters -> Seq(Sessions)]
    BY <1>1, <1>2, <1>8 DEF longer
  <2>3. kept' \in [Masters -> BOOLEAN]
    BY <1>1, <1>2
  <2>4. file' = [j \in Masters |-> file'[j]] /\ clm' = [j \in Masters |-> clm'[j]]
    BY <1>1, <1>2
  <2>5. n + 1 <= MaxSessions
    BY <1>1, <1>3, <2>1
  <2>6. ASSUME NEW j \in Masters
        PROVE  Len(sessions'[j]) <= MaxSessions
    BY <1>2, <1>8, <1>9, <2>5
  <2> QED BY <2>2, <2>3, <2>4, <2>6 DEF SessionsOK
<1>11. Grows
  <2>1. ASSUME NEW j \in Masters, NEW k \in 1 .. Len(sessions[j])
        PROVE  k \in 1 .. Len(sessions'[j]) /\ sessions'[j][k] = sessions[j][k]
    <3>1. CASE j = m
      <4>1. k \in 1 .. n
        BY <3>1
      <4>2. k \in 1 .. n + 1
        BY <1>3, <4>1
      <4> QED BY <1>8, <1>9, <3>1, <4>1, <4>2
    <3>2. CASE j # m
      BY <1>9, <3>2
    <3> QED BY <3>1, <3>2
  <2>2. \A j \in Masters : kept'[j] => kept[j]
    BY <1>9
  <2> QED BY <2>1, <2>2 DEF Grows
<1>12. StackFits(m)'
  BY <1>3, <1>5, <1>8, <1>9 DEF StackFits
<1>13. ASSUME kept'[m]
       PROVE  \A k \in 1 .. n + 1 : longer[k].parameter_no
                    = NumberAfter(longer[1].parameter_no, k - 1)
  <2>1. kept[m] /\ cl_file_load(saved) /\ saved.object = number
    BY <1>7, <1>9, <1>13
  <2>2. PICK top \in Nat : top = MaxParameterNo
    BY CciefbAssumption
  <2>3. CASE n = 0
    <3>1. longer[1] = session
      BY <1>8, <2>3
    <3>2. NumberAfter(number, 0) = number
      BY <1>6, <2>2 DEF NumberAfter
    <3>3. \A k \in 1 .. n + 1 : k = 1 /\ k - 1 = 0
      BY <2>3
    <3> QED BY <1>6, <3>1, <3>2, <3>3
  <2>4. CASE n > 0
    <3> DEFINE a == sessions[m][1].parameter_no
    <3>1. /\ cl_file_load(file[m])
          /\ file[m].object = sessions[m][n].parameter_no
          /\ \A k \in 1 .. n : sessions[m][k].parameter_no = NumberAfter(a, k - 1)
      BY <1>4, <2>1, <2>4 DEF FileFits
    <3>2. 1 \in 1 .. n /\ n \in 1 .. n
      BY <1>3, <2>4
    <3>3. a \in 0 .. MaxParameterNo
      <4>1. sessions[m][1] \in Sessions
        BY <1>4, <3>2, SessionOf
      <4> QED BY <4>1 DEF Sessions
    <3>4. n - 1 \in 0 .. MaxParameterNo - 1
      <4>1. MaxSessions \in 1 .. top + 1
        BY <2>2, CciefbAssumption
      <4> QED BY <1>1, <1>3, <2>2, <2>4, <4>1
    <3>5. longer[1].parameter_no = a
      BY <1>8, <3>2
    <3> HIDE DEF a
    <3>6. (NumberAfter(a, n - 1) + 1) % (MaxParameterNo + 1)
            = NumberAfter(a, (n - 1) + 1)
      BY <3>3, <3>4, NextNumberAfter
    <3>7. number = NumberAfter(a, n)
      <4>1. LoadedParameterNo(file[m]) = NumberAfter(a, n - 1)
        BY <3>1, <3>2 DEF LoadedParameterNo
      <4>2. (n - 1) + 1 = n
        BY <1>3
      <4> HIDE DEF n
      <4> QED BY <1>5, <3>6, <4>1, <4>2
    <3>8. ASSUME NEW k \in 1 .. n + 1
          PROVE  longer[k].parameter_no = NumberAfter(a, k - 1)
      <4>1. CASE k \in 1 .. n
        BY <1>8, <3>1, <4>1
      <4>2. CASE k = n + 1
        <5>1. k - 1 = n
          BY <1>3, <4>2
        <5> QED BY <1>6, <1>8, <3>7, <4>2, <5>1
      <4> QED BY <1>3, <4>1, <4>2
    <3> QED BY <3>5, <3>8
  <2> QED BY <1>3, <2>3, <2>4
<1>14. FileFits(m)'
  <2>1. cl_file_load(file'[m]) => file'[m].object \in 0 .. MaxParameterNo
    BY <1>7, <1>9
  <2>2. ASSUME kept'[m]
        PROVE  /\ cl_file_load(file'[m])
               /\ file'[m].object = sessions'[m][Len(sessions'[m])].parameter_no
               /\ \A k \in 1 .. Len(sessions'[m]) : sessions'[m][k].parameter_no
                    = NumberAfter(sessions'[m][1].parameter_no, k - 1)
    BY <1>6, <1>7, <1>8, <1>9, <1>13, <2>2
  <2> QED BY <2>1, <2>2 DEF FileFits
<1>15. ASSUME NEW j \in Masters, j # m
       PROVE  FileFits(j)' /\ StackFits(j)'
  <2>1. FileFits(j) /\ StackFits(j)
    BY DEF IInv, MastersFit
  <2> QED BY <1>9, <1>15, <2>1 DEF FileFits, StackFits
<1>16. MastersFit'
  BY <1>12, <1>14, <1>15 DEF MastersFit
<1> QED BY <1>10, <1>11, <1>16

LEMMA FileCleared ==
    ASSUME IInv, NEW m \in Masters, ClearFile(m)
    PROVE  SessionsOK' /\ MastersFit' /\ Grows
<1> DEFINE cleared == cl_file_clear(file[m])
<1>1. /\ cl_file_load(file[m])
      /\ file' = [file EXCEPT ![m] = cleared]
      /\ kept' = [kept EXCEPT ![m] = FALSE]
      /\ clm' = clm /\ sessions' = sessions
  BY DEF ClearFile
<1>2. ~cl_file_load(cleared)
  BY <1>1 DEF cl_file_clear, NoFile, cl_file_load, cl_file_join_directory_filename
<1> HIDE DEF cleared
<1>3. /\ kept \in [Masters -> BOOLEAN]
      /\ file = [j \in Masters |-> file[j]]
  BY DEF IInv, SessionsOK
<1>4. SessionsOK'
  BY <1>1, <1>3 DEF IInv, SessionsOK
<1>5. Grows
  BY <1>1, <1>3 DEF Grows
<1>6. ASSUME NEW j \in Masters
      PROVE  FileFits(j)' /\ StackFits(j)'
  <2>1. FileFits(j) /\ StackFits(j)
    BY DEF IInv, MastersFit
  <2>2. StackFits(j)'
    BY <1>1, <2>1 DEF StackFits
  <2>3. CASE j = m
    <3>1. file'[j] = cleared /\ ~kept'[j]
      BY <1>1, <1>3, <2>3
    <3> QED BY <1>2, <2>2, <3>1 DEF FileFits
  <2>4. CASE j # m
    <3>1. file'[j] = file[j] /\ kept'[j] = kept[j]
      BY <1>1, <1>3, <2>4
    <3> QED BY <1>1, <2>1, <2>2, <3>1 DEF FileFits
  <2> QED BY <2>3, <2>4
<1> QED BY <1>4, <1>5, <1>6 DEF MastersFit

LEMMA TickFits ==
    ASSUME IInv, Tick
    PROVE  IInv'
<1> DEFINE after(m) == M(m, Stack(m))!clm_iefb_periodic(
                            clm[m], 1, M(m, Stack(m))!NoInput)
           masters == [m \in Masters |->
                        IF sessions[m] = <<>> THEN clm[m] ELSE after(m)]
           slave == cls_iefb_periodic(cls, 1, NoRequest)
           sent == UNION {RequestsOf(m, masters[m]) :
                            m \in {n \in Masters : sessions[n] # <<>>}}
<1>1. /\ clm' = [m \in Masters |-> Emptied(m, masters[m])]
      /\ cls' = NewCall(slave)
      /\ net' = Send(Aged(net), sent)
      /\ UNCHANGED <<file, sessions, kept>>
  BY DEF Tick
<1>2. SessionsOK /\ MastersFit /\ NetFits /\ IsSlave(cls) /\ ConnectionFits(cls)
  BY DEF IInv, SlaveFits
<1>3. ASSUME NEW m \in Masters, sessions[m] # <<>>
      PROVE  /\ RunsIn(Emptied(m, after(m)), m, sessions[m][Len(sessions[m])],
                       OutputsOf(m, Len(sessions[m]),
                                 sessions[m][Len(sessions[m])]))
             /\ \A e \in RequestsOf(m, after(m)) : EntryFits(e)
  BY <1>2, <1>3, MasterCalled DEF MastersFit
<1>4. \A m \in Masters : sessions[m] # <<>> => masters[m] = after(m)
  OBVIOUS
<1> HIDE DEF after, masters
<1>5. Grows
  BY <1>1, NothingForgotten
<1>6. SessionsOK' /\ MastersFit'
  <2>1. clm' = [m \in Masters |-> clm'[m]]
        /\ \A m \in Masters : clm'[m] = Emptied(m, masters[m])
    BY <1>1
  <2>2. \A m \in Masters : Len(sessions[m]) > 0 => sessions[m] # <<>>
    OBVIOUS
  <2>3. \A m \in Masters : Len(sessions[m]) > 0 =>
            RunsIn(clm'[m], m, sessions[m][Len(sessions[m])],
                   OutputsOf(m, Len(sessions[m]), sessions[m][Len(sessions[m])]))
    BY <1>3, <1>4, <2>1, <2>2
  <2> QED BY <1>1, <1>2, <2>1, <2>3, MastersRun
<1>7. NetFits'
  <2>1. \A e \in sent : EntryFits(e)
    BY <1>3, <1>4
  <2>2. \A e \in Aged(net) : EntryFits(e)
    BY <1>2, AgedFits
  <2> HIDE DEF sent
  <2>3. \A e \in net' : EntryFits(e)
    BY <1>1, <2>1, <2>2, SendFits
  <2> QED BY <1>5, <2>3, NetFitsAfter
<1>8. SlaveFits'
  <2>1. Leaves(slave, cls, NoRequest)
    BY <1>2, SlavePeriodicReceives
  <2> HIDE DEF slave
  <2>2. IsSlave(slave) /\ ConnectionFits(slave)
    BY <1>2, <2>1, LeavesFits DEF Leaves
  <2>3. IsSlave(cls') /\ ConnectionFits(NewCall(slave)) /\ IsSlave(NewCall(slave))
    BY <1>1, <2>2, NewCallFits
  <2> QED BY <1>1, <1>5, <2>3, SlaveFitsAfter
<1> QED BY <1>6, <1>7, <1>8 DEF IInv

LEMMA MasterReceiveFits ==
    ASSUME IInv, NEW e \in net, NEW again, MasterReceive(e, again)
    PROVE  IInv'
<1> DEFINE m == e.to
           after == M(m, Stack(m))!clm_iefb_periodic(clm[m], 0, e.frame)
<1>1. /\ m \in Masters
      /\ sessions[m] # <<>>
      /\ clm' = [clm EXCEPT ![m] = Emptied(m, after)]
      /\ net' = Send(Remaining(e, again), RequestsOf(m, after))
      /\ UNCHANGED <<file, sessions, kept, cls>>
  BY DEF MasterReceive
<1>2. SessionsOK /\ MastersFit /\ NetFits /\ SlaveFits
  BY DEF IInv
<1>3. /\ RunsIn(Emptied(m, after), m, sessions[m][Len(sessions[m])],
               OutputsOf(m, Len(sessions[m]), sessions[m][Len(sessions[m])]))
      /\ \A f \in RequestsOf(m, after) : EntryFits(f)
  BY <1>1, <1>2, MasterCalled DEF MastersFit
<1> HIDE DEF after, m
<1>4. Grows
  BY <1>1, NothingForgotten
<1>5. SessionsOK' /\ MastersFit'
  <2>1. clm = [j \in Masters |-> clm[j]]
    BY <1>2 DEF SessionsOK
  <2>2. /\ clm' = [j \in Masters |-> clm'[j]]
        /\ clm'[m] = Emptied(m, after)
        /\ \A j \in Masters : j # m => clm'[j] = clm[j]
    BY <1>1, <2>1
  <2>3. \A j \in Masters : Len(sessions[j]) > 0 =>
            RunsIn(clm'[j], j, sessions[j][Len(sessions[j])],
                   OutputsOf(j, Len(sessions[j]), sessions[j][Len(sessions[j])]))
    BY <1>2, <1>3, <2>2 DEF MastersFit, StackFits
  <2> QED BY <1>1, <1>2, <2>2, <2>3, MastersRun
<1>6. NetFits'
  <2>1. \A f \in Remaining(e, again) : EntryFits(f)
    BY <1>2 DEF NetFits, Remaining
  <2>2. \A f \in net' : EntryFits(f)
    BY <1>1, <1>3, <2>1, SendFits
  <2> QED BY <1>4, <2>2, NetFitsAfter
<1>7. SlaveFits'
  BY <1>1, <1>2, <1>4, SlaveFitsAfter DEF SlaveFits
<1> QED BY <1>5, <1>6, <1>7 DEF IInv

LEMMA SlaveReceiveFits ==
    ASSUME IInv, NEW e \in net, NEW again, SlaveReceive(e, again)
    PROVE  IInv'
<1> DEFINE after == cls_iefb_periodic(cls, 0, e.frame)
<1>1. /\ e.to = SlaveIp
      /\ cls' = NewCall(after)
      /\ net' = Send(Remaining(e, again), ResponsesOf(after))
      /\ UNCHANGED <<clm, file, sessions, kept>>
  BY DEF SlaveReceive
<1>2. SessionsOK /\ MastersFit /\ NetFits /\ IsSlave(cls) /\ ConnectionFits(cls)
  BY DEF IInv, SlaveFits
<1>3. EntryFits(e)
  BY <1>2 DEF NetFits
<1>4. /\ Receives(after, cls, e.frame)
      /\ \A resp \in after.sent : resp.remote_ip = e.frame.remote_ip
  BY <1>2, SlavePeriodicReceives
<1> HIDE DEF after
<1>5. Grows
  BY <1>1, NothingForgotten
<1>6. SessionsOK' /\ MastersFit'
  BY <1>1, <1>2, MastersStay
<1>7. NetFits'
  <2>1. PICK m \in Masters : e.frame.remote_ip = m
    BY <1>1, <1>3 DEF EntryFits, RequestTells
  <2>2. \A f \in ResponsesOf(after) : EntryFits(f)
    BY <1>4, <2>1, ResponsesFit
  <2>3. \A f \in Remaining(e, again) : EntryFits(f)
    BY <1>2 DEF NetFits, Remaining
  <2>4. \A f \in net' : EntryFits(f)
    BY <1>1, <2>2, <2>3, SendFits
  <2> QED BY <1>5, <2>4, NetFitsAfter
<1>8. SlaveFits'
  <2>1. \A m \in Masters : FileFits(m)
    BY <1>2 DEF MastersFit
  <2>2. IsSlave(after) /\ ConnectionFits(after)
    BY <1>1, <1>2, <1>3, <1>4, <2>1, ReceivesFits DEF Receives
  <2>3. IsSlave(NewCall(after)) /\ ConnectionFits(NewCall(after))
    BY <2>2, NewCallFits
  <2> QED BY <1>1, <1>5, <2>3, SlaveFitsAfter
<1> QED BY <1>6, <1>7, <1>8 DEF IInv

(* Steps in which only the slave changes.                                  *)
LEMMA SlaveStepFits ==
    ASSUME IInv, UNCHANGED <<clm, file, sessions, kept, net>>,
           NEW c, IsSlave(c), ConnectionFits(c), cls' = c
    PROVE  IInv'
<1>1. SessionsOK /\ MastersFit /\ NetFits
  BY DEF IInv
<1>2. Grows
  BY NothingForgotten
<1>3. SessionsOK' /\ MastersFit'
  BY <1>1, MastersStay
<1>4. NetFits'
  <2>1. \A e \in net' : EntryFits(e)
    BY <1>1 DEF NetFits
  <2> QED BY <1>2, <2>1, NetFitsAfter
<1>5. SlaveFits'
  BY <1>2, SlaveFitsAfter
<1> QED BY <1>3, <1>4, <1>5 DEF IInv

LEMMA MasterStepFits ==
    ASSUME IInv, SessionsOK', MastersFit', Grows, UNCHANGED <<cls, net>>
    PROVE  IInv'
<1>1. NetFits'
  <2>1. \A e \in net' : EntryFits(e)
    BY DEF IInv, NetFits
  <2> QED BY <2>1, NetFitsAfter
<1>2. SlaveFits'
  BY SlaveFitsAfter DEF IInv, SlaveFits
<1> QED BY <1>1, <1>2 DEF IInv

-----------------------------------------------------------------------------

LEMMA InitIInv == Init => IInv
<1> SUFFICES ASSUME Init PROVE IInv
  OBVIOUS
<1>1. /\ sessions = [m \in Masters |-> <<>>]
      /\ clm = [m \in Masters |-> NotRunningYet]
      /\ file \in [Masters -> FirstFiles]
      /\ kept = [m \in Masters |-> TRUE]
      /\ cls = cls_iefb_init
      /\ net = {}
  BY DEF Init
<1>2. SessionsOK
  <2>1. MaxSessions \in 1 .. MaxParameterNo + 1 /\ MaxParameterNo \in Nat
    BY CciefbAssumption
  <2>2. sessions \in [Masters -> Seq(Sessions)]
    BY <1>1
  <2>3. \A m \in Masters : Len(sessions[m]) <= MaxSessions
    BY <1>1, <2>1
  <2> QED BY <1>1, <2>2, <2>3 DEF SessionsOK
<1>3. MastersFit
  <2>1. ASSUME NEW m \in Masters
        PROVE  FileFits(m) /\ StackFits(m)
    <3>1. ~(Len(sessions[m]) > 0)
      BY <1>1
    <3>2. cl_file_load(file[m]) => file[m].object \in 0 .. MaxParameterNo
      BY <1>1, CciefbAssumption
    <3> QED BY <3>1, <3>2 DEF FileFits, StackFits
  <2> QED BY <2>1 DEF MastersFit
<1>4. NetFits
  BY <1>1 DEF NetFits
<1>5. SlaveFits
  BY <1>1, InitialSlave DEF SlaveFits
<1> QED BY <1>2, <1>3, <1>4, <1>5 DEF IInv

LEMMA NextIInv == IInv /\ [Next]_vars => IInv'
<1> SUFFICES ASSUME IInv, [Next]_vars PROVE IInv'
  OBVIOUS
<1>1. SlaveFits
  BY DEF IInv
<1>2. ASSUME NEW m \in Masters, NEW config \in Configs,
             NEW outcome \in Outcomes, clm_init(m, config, outcome)
      PROVE  IInv'
  <2>1. SessionsOK' /\ MastersFit' /\ Grows
    BY <1>2, ClmInitFits
  <2>2. UNCHANGED <<cls, net>>
    BY <1>2 DEF clm_init
  <2> QED BY <2>1, <2>2, MasterStepFits
<1>3. ASSUME NEW m \in Masters, ClearFile(m)
      PROVE  IInv'
  <2>1. SessionsOK' /\ MastersFit' /\ Grows
    BY <1>3, FileCleared
  <2>2. UNCHANGED <<cls, net>>
    BY <1>3 DEF ClearFile
  <2> QED BY <2>1, <2>2, MasterStepFits
<1>4. CASE Tick
  BY <1>4, TickFits
<1>5. ASSUME NEW again, Receive(again)
      PROVE  IInv'
  BY <1>5, MasterReceiveFits, SlaveReceiveFits DEF Receive
<1>6. ASSUME NEW after, IsSlave(after), ConnectionFits(after), SlaveFault(after)
      PROVE  IInv'
  <2>1. IsSlave(NewCall(after)) /\ ConnectionFits(NewCall(after))
    BY <1>6, NewCallFits
  <2>2. /\ UNCHANGED <<clm, file, sessions, kept, net>>
        /\ cls' = NewCall(after)
    BY <1>6 DEF SlaveFault
  <2> QED BY <2>1, <2>2, SlaveStepFits
<1>7. CASE cls_init
  BY <1>6, <1>7, InitialSlave DEF cls_init
<1>8. CASE cls_stop_cyclic_data
  BY <1>1, <1>6, <1>8, CommandsFit DEF cls_stop_cyclic_data
<1>9. CASE cls_restart_cyclic_data
  <2>1. /\ UNCHANGED <<clm, file, sessions, kept, net>>
        /\ cls' = cls_iefb_reenable_slave(cls)
    BY <1>9 DEF cls_restart_cyclic_data
  <2> QED BY <1>1, <2>1, CommandsFit, SlaveStepFits
<1>10. CASE CalmDown
  <2>1. net' = {} /\ UNCHANGED <<clm, file, sessions, kept, cls>>
    BY <1>10 DEF CalmDown
  <2>2. SessionsOK' /\ MastersFit'
    BY <2>1, MastersStay DEF IInv
  <2>3. NetFits'
    BY <2>1 DEF NetFits
  <2>4. SlaveFits'
    BY <1>1, <2>1, NothingForgotten, SlaveFitsAfter DEF SlaveFits
  <2> QED BY <2>2, <2>3, <2>4 DEF IInv
<1>11. CASE UNCHANGED vars
  <2>1. UNCHANGED <<clm, file, sessions, kept, net, cls>>
    BY <1>11 DEF vars
  <2> QED BY <1>1, <2>1, SlaveStepFits DEF SlaveFits
<1> QED BY <1>2, <1>3, <1>4, <1>5, <1>7, <1>8, <1>9, <1>10, <1>11 DEF Next

LEMMA IInvFollows == IInv => FollowsOneSession
<1> DEFINE m == cls.master.master_id
<1> SUFFICES ASSUME IInv, cls.state = "MASTER_CONTROL", kept[m]
             PROVE  \E k \in DOMAIN sessions[m] : FollowsSession(m, k)
  BY DEF FollowsOneSession
<1>1. PICK k \in 1 .. Len(sessions[m]) :
            Follows(cls.master, cls.data, m, k, sessions[m][k])
  BY DEF IInv, SlaveFits, ConnectionFits
<1>2. k \in DOMAIN sessions[m]
  BY DEF IInv, SlaveFits, ConnectionFits, SessionsOK
<1>3. FollowsSession(m, k)
  BY <1>1 DEF Follows, StationFits, Holds, FollowsSession
<1> QED BY <1>2, <1>3

(***************************************************************************)
(* REQ_CLM_PARAMETERID_01 and _02, REQ_CLS_PARAMETERID_01 to _03: a slave  *)
(* under control follows exactly one session of its master, as long as the *)
(* master could keep its parameter number: its timeouts are those of that  *)
(* session's configuration, and its output data is what that session wrote *)
(* for this slave.                                                         *)
(***************************************************************************)
THEOREM SlaveFollowsOneSession == Spec => []FollowsOneSession
<1>1. Init => IInv
  BY InitIInv
<1>2. IInv /\ [Next]_vars => IInv'
  BY NextIInv
<1>3. IInv => FollowsOneSession
  BY IInvFollows
<1> QED BY <1>1, <1>2, <1>3, PTL DEF Spec

(* The session that the slave follows is the only one.                     *)
OnlyOneSession ==
    LET m == cls.master.master_id
    IN  cls.state = "MASTER_CONTROL" /\ kept[m] =>
            \A j, k \in DOMAIN sessions[m] :
                FollowsSession(m, j) /\ FollowsSession(m, k) => j = k

LEMMA IInvOnlyOne == IInv => OnlyOneSession
<1> DEFINE m == cls.master.master_id
<1> SUFFICES ASSUME IInv, cls.state = "MASTER_CONTROL", kept[m],
                    NEW j \in DOMAIN sessions[m], NEW k \in DOMAIN sessions[m],
                    FollowsSession(m, j), FollowsSession(m, k)
             PROVE  j = k
  BY DEF OnlyOneSession
<1>1. m \in Masters /\ FileFits(m) /\ SessionsOK
  BY DEF IInv, SlaveFits, ConnectionFits, MastersFit
<1>2. j \in 1 .. Len(sessions[m]) /\ k \in 1 .. Len(sessions[m])
  BY <1>1 DEF SessionsOK
<1>3. sessions[m][j].parameter_no = sessions[m][k].parameter_no
  BY DEF FollowsSession
<1> QED BY <1>1, <1>2, <1>3, NumbersAreDistinct

(***************************************************************************)
(* REQ_CLM_PARAMETERID_01: as long as the number could be saved, there is  *)
(* no second session whose number and timeouts the slave could have: a     *)
(* slave under control does not mix two of them.                           *)
(***************************************************************************)
THEOREM SlaveMixesNoSessions == Spec => []OnlyOneSession
<1>1. Init => IInv
  BY InitIInv
<1>2. IInv /\ [Next]_vars => IInv'
  BY NextIInv
<1>3. IInv => OnlyOneSession
  BY IInvOnlyOne
<1> QED BY <1>1, <1>2, <1>3, PTL DEF Spec
=============================================================================
