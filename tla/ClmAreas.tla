------------------------------ MODULE ClmAreas ------------------------------
(***************************************************************************)
(* The way of the process data between the applications of a master and    *)
(* its slaves: the accessors of the master's memory, the copy into the     *)
(* request, the slave's copy from the place where it finds its id, and     *)
(* back with the response.  Elsewhere the data of a device is one opaque   *)
(* value; here a single bit or register is followed through the requests   *)
(* that ClmMaster sends.                                                   *)
(***************************************************************************)
EXTENDS ClmMaster, ClAreas

clm_iefb_get_occupied_and_position(g, i) == slave_station_no[g][i] - 1

(* The first area of RX, RY, RWr or RWw of a group, and of a device in it; *)
(* each of the four kinds has a memory of its own.                         *)
clm_iefb_get_first_area == 0

clm_iefb_get_first_device_area(g, i) ==
    clm_iefb_get_first_area + clm_iefb_get_occupied_and_position(g, i)

clm_iefb_set_ry_bit(ry, g, i, number, value) ==
    SetBit(ry, BitPlace(clm_iefb_get_first_device_area(g, i), number), value)

clm_iefb_get_ry_bit(ry, g, i, number) ==
    BitPlace(clm_iefb_get_first_device_area(g, i), number) \in ry

clm_iefb_get_rx_bit(rx, g, i, number) ==
    BitPlace(clm_iefb_get_first_device_area(g, i), number) \in rx

clm_iefb_set_rww_value(rww, g, i, number, value) ==
    SetRegister(rww,
        RegisterPlace(clm_iefb_get_first_device_area(g, i), number), value)

clm_iefb_get_rww_value(rww, g, i, number) ==
    CC_FROM_LE16(rww[RegisterPlace(clm_iefb_get_first_device_area(g, i), number)])

clm_iefb_get_rwr_value(rwr, g, i, number) ==
    CC_FROM_LE16(rwr[RegisterPlace(clm_iefb_get_first_device_area(g, i), number)])

-----------------------------------------------------------------------------
(* From the memory into the request: the devices whose bit is on.          *)
Occupied(g, i) == Setting(g, i).num_occupied_stations

DevicesOn(g, frame) ==
    {i \in device_nos(g) : slave_station_no[g][i] \in frame.transmission_on}

RequestBits(g, frame, ry) ==
    UNION {CopyBits(ry, slave_station_no[g][i] - 1, slave_station_no[g][i] - 1,
                    Occupied(g, i)) : i \in DevicesOn(g, frame)}

RequestRegisters(g, frame, rww) ==
    [place \in DOMAIN rww |->
        IF DeviceAt(g, place[1] + 1) \in DevicesOn(g, frame)
        THEN rww[place] ELSE <<0, 0>>]

(* From the request into the data area of the slave with an id.            *)
SlaveBits(frame, id, occupied, bits) ==
    CopyBits(bits, my_slave_station_no(id, frame) - 1, 0, occupied)

SlaveRegisters(frame, id, occupied, registers) ==
    CopyRegisters(registers, my_slave_station_no(id, frame) - 1, 0, occupied,
                  ClearedRegisters(occupied))

(* From the response of device i into the master's memory.                 *)
clm_iefb_store_incoming_bits(g, i, rx) ==
    CopyBits(rx, 0, slave_station_no[g][i] - 1, Occupied(g, i))

clm_iefb_store_incoming_registers(g, i, rwr) ==
    CopyRegisters(rwr, 0, slave_station_no[g][i] - 1, Occupied(g, i),
                  ClearedRegisters(total_occupied_of[g]))

-----------------------------------------------------------------------------
(* The numbers at the borders of bytes and areas, and a value with two     *)
(* different bytes.                                                        *)
Bits(g, i) == {0, 7, 8, 63, 64, 127} \cap BitNumbers(Occupied(g, i))

Registers(g, i) == {0, 31, 32, 63} \cap RegisterNumbers(Occupied(g, i))

SampleValue == 258

(* The devices that are addressed by their id and connected or forced.     *)
Served(g, frame) ==
    {i \in DevicesOn(g, frame) :
        frame.slave_ids[slave_station_no[g][i]] = Setting(g, i).slave_id}

OutputBitArrives(g, frame, j, number) ==
    LET memory == clm_iefb_set_ry_bit(NoBits, g, j, number, TRUE)
        sent == RequestBits(g, frame, memory)
    IN  \A i \in device_nos(g) :
            LET got == SlaveBits(frame, Setting(g, i).slave_id, Occupied(g, i), sent)
                expected == IF i = j THEN {number} ELSE {}
            IN  /\ {n \in Bits(g, i) : clm_iefb_get_ry_bit(memory, g, i, n)}
                        = expected
                /\ i \in Served(g, frame) =>
                        {n \in Bits(g, i) : cls_iefb_get_ry_bit(got, n)} = expected

OutputRegisterArrives(g, frame, j, number) ==
    LET memory == clm_iefb_set_rww_value(ClearedRegisters(total_occupied_of[g]),
                                         g, j, number, SampleValue)
        sent == RequestRegisters(g, frame, memory)
    IN  \A i \in device_nos(g) : \A n \in Registers(g, i) :
            LET got == SlaveRegisters(frame, Setting(g, i).slave_id,
                                      Occupied(g, i), sent)
                expected == IF i = j /\ n = number THEN SampleValue ELSE 0
            IN  /\ clm_iefb_get_rww_value(memory, g, i, n) = expected
                /\ i \in Served(g, frame) =>
                        cls_iefb_get_rww_value(got, n) = expected

InputBitArrives(g, j, number) ==
    LET rx == cls_iefb_set_rx_bit(NoBits, number, TRUE)
        memory == clm_iefb_store_incoming_bits(g, j, rx)
    IN  /\ {n \in Bits(g, j) : cls_iefb_get_rx_bit(rx, n)} = {number}
        /\ \A i \in device_nos(g) :
                {n \in Bits(g, i) : clm_iefb_get_rx_bit(memory, g, i, n)}
                    = IF i = j THEN {number} ELSE {}

InputRegisterArrives(g, j, number) ==
    LET rwr == cls_iefb_set_rwr_value(ClearedRegisters(Occupied(g, j)),
                                      number, SampleValue)
        memory == clm_iefb_store_incoming_registers(g, j, rwr)
    IN  /\ cls_iefb_get_rwr_value(rwr, number) = SampleValue
        /\ \A i \in device_nos(g) : \A n \in Registers(g, i) :
                clm_iefb_get_rwr_value(memory, g, i, n)
                    = IF i = j /\ n = number THEN SampleValue ELSE 0

(***************************************************************************)
(* REQ_CL_PROTOCOL_34, _37, _52: in every request, the slave that walks    *)
(* through the list of ids finds itself at the station the master has      *)
(* given to it, with as many stations as it is configured with, or does    *)
(* not find itself if it is suspended; marks behind the id of another      *)
(* device, or behind the 0.0.0.0 of a suspended one, are not counted.      *)
(***************************************************************************)
SlavesFindThemselves ==
    \A g \in group_nos : \A frame \in clm.groups[g].sent :
        \A i \in device_nos(g) :
            LET id == Setting(g, i).slave_id
                found == cl_iefb_analyze_slave_ids(id, frame)
            IN  /\ ~found.failed
                /\ found.station =
                        IF Device(clm, g, i).slave_id = id
                        THEN slave_station_no[g][i] ELSE 0
                /\ found.station # 0 => found.count = Occupied(g, i)
                /\ IsSlaveIdFound(id, frame) <=> found.station # 0
                /\ found.station # 0 =>
                        /\ my_slave_station_no(id, frame) = found.station
                        /\ implied_occupation_count(id, frame) = found.count

(***************************************************************************)
(* REQ_CLS_CYCLIC_01 to _03: a bit or a register that the application of   *)
(* the master writes for a device is the one of that number at that slave, *)
(* and none at any other number or slave, in every request, whichever      *)
(* devices before it are suspended or not connected and however many       *)
(* stations they occupy; and so is the answer.  The master counts stations *)
(* from its configuration, the slave finds its own in the list of ids.     *)
(***************************************************************************)
DataArrives ==
    \A g \in group_nos : \A frame \in clm.groups[g].sent :
        \A j \in device_nos(g) :
            /\ \A number \in Bits(g, j) :
                    /\ OutputBitArrives(g, frame, j, number)
                    /\ j \in Served(g, frame) => InputBitArrives(g, j, number)
            /\ \A number \in Registers(g, j) :
                    /\ OutputRegisterArrives(g, frame, j, number)
                    /\ j \in Served(g, frame) => InputRegisterArrives(g, j, number)
=============================================================================
