---------------------------- MODULE ClmAreasProofs --------------------------
(***************************************************************************)
(* For every number of stations and every place in the group: what is      *)
(* written to a bit or a register of a device arrives at that number, and  *)
(* nowhere else.  And for every configuration: in every request that a     *)
(* group sends, every slave finds its own stations, and on them its own    *)
(* data.                                                                   *)
(*                                                                         *)
(* The invariant behind that (RequestsFit) adds to the one of              *)
(* ClmMasterProofs that a request describes the devices as they are after  *)
(* the call that sent it.                                                  *)
(***************************************************************************)
EXTENDS ClmAreas, ClmMasterProofs, ClIefbProofs

(* A number is determined by its area, byte and bit.                       *)
LEMMA BitNumberParts ==
    ASSUME NEW n \in Nat
    PROVE  /\ n \div 64 \in Nat
           /\ (n \div 8) % 8 \in 0 .. 7
           /\ n % 8 \in 0 .. 7
           /\ n = 64 * (n \div 64) + 8 * ((n \div 8) % 8) + (n % 8)
  <1>1. n \div 8 \in Nat /\ n % 8 \in 0 .. 7 /\ n = 8 * (n \div 8) + (n % 8)
    OBVIOUS
  <1>2. ASSUME NEW m \in Nat
        PROVE  m \div 8 \in Nat /\ m % 8 \in 0 .. 7 /\ m = 8 * (m \div 8) + (m % 8)
    OBVIOUS
  <1>3. n \div 64 \in Nat /\ n % 64 \in 0 .. 63 /\ n = 64 * (n \div 64) + (n % 64)
    OBVIOUS
  <1>4. n \div 64 = (n \div 8) \div 8
    BY <1>1, <1>3, <1>2
  <1> QED BY <1>1, <1>2, <1>4

LEMMA RegisterNumberParts ==
    ASSUME NEW n \in Nat
    PROVE  /\ n \div 32 \in Nat
           /\ n % 32 \in 0 .. 31
           /\ n = 32 * (n \div 32) + (n % 32)
  OBVIOUS

(* Equal places within a device mean equal numbers.                        *)
LEMMA BitPlaceInjective ==
    ASSUME NEW first \in Nat, NEW m \in Nat, NEW n \in Nat,
           BitPlace(first, m) = BitPlace(first, n)
    PROVE  m = n
  <1>1. /\ first + m \div 64 = first + n \div 64
        /\ (m \div 8) % 8 = (n \div 8) % 8
        /\ m % 8 = n % 8
    BY DEF BitPlace, cl_iefb_bit_calculate_areanumber
  <1>2. m \div 64 = n \div 64
    BY <1>1, BitNumberParts
  <1> QED BY <1>1, <1>2, BitNumberParts

LEMMA RegisterPlaceInjective ==
    ASSUME NEW first \in Nat, NEW m \in Nat, NEW n \in Nat,
           RegisterPlace(first, m) = RegisterPlace(first, n)
    PROVE  m = n
  <1>1. first + m \div 32 = first + n \div 32 /\ m % 32 = n % 32
    BY DEF RegisterPlace, cl_iefb_register_calculate_areanumber
  <1> QED BY <1>1, RegisterNumberParts

(* A number of the device is in one of its areas.                          *)
LEMMA BitInDevice ==
    ASSUME NEW occupied \in Nat, NEW n \in BitNumbers(occupied)
    PROVE  n \in Nat /\ n \div 64 \in 0 .. occupied - 1
  <1>1. n \in Nat /\ n < 64 * occupied
    BY DEF BitNumbers, BitsInArea
  <1>2. 64 * (n \div 64) <= n /\ n \div 64 \in Nat
    BY <1>1, BitNumberParts
  <1> QED BY <1>1, <1>2

LEMMA RegisterInDevice ==
    ASSUME NEW occupied \in Nat, NEW n \in RegisterNumbers(occupied)
    PROVE  n \in Nat /\ n \div 32 \in 0 .. occupied - 1 /\ n % 32 \in 0 .. 31
  <1>1. n \in Nat /\ n < 32 * occupied
    BY DEF RegisterNumbers, RegistersInArea
  <1> QED BY <1>1, RegisterNumberParts

(* Areas that are copied keep their order.                                 *)
LEMMA CopiedBit ==
    ASSUME NEW occupied \in Nat, NEW from \in Nat, NEW to \in Nat, NEW bits,
           NEW n \in BitNumbers(occupied)
    PROVE  BitPlace(to, n) \in CopyBits(bits, from, to, occupied)
                <=> BitPlace(from, n) \in bits
  <1> DEFINE a == n \div 64
             b == (n \div 8) % 8
             c == n % 8
  <1>1. a \in 0 .. occupied - 1 /\ b \in 0 .. 7 /\ c \in 0 .. 7
    BY BitInDevice, BitNumberParts
  <1>2. BitPlace(to, n) = <<to + a, b, c>> /\ BitPlace(from, n) = <<from + a, b, c>>
    BY DEF BitPlace, cl_iefb_bit_calculate_areanumber
  <1> HIDE DEF a, b, c
  <1> DEFINE p == <<to + a, b, c>>
  <1>3. p \in (to .. to + occupied - 1) \X (0 .. 7) \X (0 .. 7)
    BY <1>1
  <1>4. <<p[1] - to + from, p[2], p[3]>> = <<from + a, b, c>>
    <2>1. p[1] = to + a /\ p[2] = b /\ p[3] = c
      OBVIOUS
    <2>2. p[1] - to + from = from + a
      BY <1>1, <2>1
    <2> QED BY <2>1, <2>2
  <1> HIDE DEF p
  <1>5. p \in CopyBits(bits, from, to, occupied)
            <=> <<p[1] - to + from, p[2], p[3]>> \in bits
    BY <1>3 DEF CopyBits
  <1>6. BitPlace(to, n) = p
    BY <1>2 DEF p
  <1> QED BY <1>2, <1>4, <1>5, <1>6

(***************************************************************************)
(* The way of an output bit, from clm_iefb_set_ry_bit() by the copies of   *)
(* clm_iefb_update_request_frame_cyclic_data_one_device() and              *)
(* cls_iefb_copy_cyclic_data_from_request() to cls_iefb_get_ry_bit(), for  *)
(* a device whose first area is anywhere: the bit of that number has the   *)
(* value, every other bit of the device has the one it had in the memory.  *)
(***************************************************************************)
THEOREM OutputBitIsExact ==
    ASSUME NEW occupied \in Nat, NEW first \in Nat, NEW ry,
           NEW number \in BitNumbers(occupied), NEW value \in BOOLEAN,
           NEW n \in BitNumbers(occupied)
    PROVE  LET memory == SetBit(ry, BitPlace(first, number), value)
               frame == CopyBits(memory, first, first, occupied)
               data == CopyBits(frame, first, 0, occupied)
           IN  cls_iefb_get_ry_bit(data, n)
                    <=> IF n = number THEN value ELSE BitPlace(first, n) \in ry
  <1> DEFINE memory == SetBit(ry, BitPlace(first, number), value)
             frame == CopyBits(memory, first, first, occupied)
             data == CopyBits(frame, first, 0, occupied)
  <1>1. cls_iefb_get_ry_bit(data, n) <=> BitPlace(first, n) \in memory
    <2>1. BitPlace(0, n) \in data <=> BitPlace(first, n) \in frame
      BY CopiedBit
    <2>2. BitPlace(first, n) \in frame <=> BitPlace(first, n) \in memory
      BY CopiedBit
    <2> QED BY <2>1, <2>2 DEF cls_iefb_get_ry_bit
  <1>2. BitPlace(first, n) \in memory
            <=> IF n = number THEN value ELSE BitPlace(first, n) \in ry
    <2>1. CASE n = number
      BY <2>1 DEF SetBit
    <2>2. CASE n # number
      <3>1. BitPlace(first, n) # BitPlace(first, number)
        <4>1. n \in Nat /\ number \in Nat
          BY BitInDevice
        <4> QED BY <2>2, <4>1, BitPlaceInjective
      <3> QED BY <2>2, <3>1 DEF SetBit
    <2> QED BY <2>1, <2>2
  <1> QED BY <1>1, <1>2

(***************************************************************************)
(* A bit of one device is no bit of another that lies behind it in the     *)
(* group: writing to either leaves the other alone.                        *)
(***************************************************************************)
THEOREM DevicesDoNotOverlap ==
    ASSUME NEW occupied \in Nat, NEW first \in Nat,
           NEW number \in BitNumbers(occupied), NEW value \in BOOLEAN,
           NEW behind \in Nat, first + occupied <= behind,
           NEW n \in Nat, NEW ry
    PROVE  BitPlace(behind, n) \in SetBit(ry, BitPlace(first, number), value)
                <=> BitPlace(behind, n) \in ry
  <1>1. number \div 64 \in 0 .. occupied - 1 /\ n \div 64 \in Nat
    BY BitInDevice, BitNumberParts
  <1>2. first + number \div 64 # behind + n \div 64
    BY <1>1
  <1>3. BitPlace(first, number) # BitPlace(behind, n)
    BY <1>2 DEF BitPlace, cl_iefb_bit_calculate_areanumber
  <1> QED BY <1>3 DEF SetBit

(* Both ends convert a register to and from its bytes in the same way.     *)
LEMMA LittleEndianIsExact ==
    ASSUME NEW value \in Nat, value < 65536
    PROVE  CC_FROM_LE16(CC_TO_LE16(value)) = value
  BY DEF CC_FROM_LE16, CC_TO_LE16

(* The registers of so many stations.                                      *)
HasRegisters(registers, occupied) ==
    DOMAIN registers = (0 .. occupied - 1) \X (0 .. 31)

(***************************************************************************)
(* The way of an input register, from cls_iefb_set_rwr_value() by          *)
(* clm_iefb_store_incoming_cyclic_data() to the place in the master's      *)
(* memory that clm_iefb_get_rwr_value() reads.                             *)
(***************************************************************************)
THEOREM InputRegisterIsExact ==
    ASSUME NEW occupied \in Nat, NEW first \in Nat, NEW total \in Nat,
           first + occupied <= total,
           NEW number \in RegisterNumbers(occupied), NEW value \in Nat, value < 65536,
           NEW n \in RegisterNumbers(occupied),
           NEW rwr, HasRegisters(rwr, occupied)
    PROVE  LET sent == cls_iefb_set_rwr_value(rwr, number, value)
               memory == CopyRegisters(sent, 0, first, occupied,
                                       ClearedRegisters(total))
           IN  CC_FROM_LE16(memory[RegisterPlace(first, n)])
                    = IF n = number THEN value ELSE cls_iefb_get_rwr_value(rwr, n)
  <1> DEFINE sent == cls_iefb_set_rwr_value(rwr, number, value)
             memory == CopyRegisters(sent, 0, first, occupied,
                                     ClearedRegisters(total))
             a == n \div 32
             b == n % 32
  <1>1. a \in 0 .. occupied - 1 /\ b \in 0 .. 31 /\ n \in Nat
    BY RegisterInDevice
  <1>2. RegisterPlace(first, n) = <<first + a, b>> /\ RegisterPlace(0, n) = <<0 + a, b>>
    BY DEF RegisterPlace, cl_iefb_register_calculate_areanumber
  <1> DEFINE p == <<first + a, b>>
  <1>3. memory[p] = sent[<<a, b>>]
    <2> DEFINE cleared == ClearedRegisters(total)
    <2>1. p \in DOMAIN cleared
      BY <1>1 DEF ClearedRegisters, RegistersInArea
    <2>2. /\ p[1] \in first .. first + occupied - 1
          /\ <<p[1] - first + 0, p[2]>> = <<a, b>>
      BY <1>1
    <2> HIDE DEF p, a, b, sent, cleared
    <2>3. CopyRegisters(sent, 0, first, occupied, cleared)[p]
            = sent[<<p[1] - first + 0, p[2]>>]
      BY <2>1, <2>2 DEF CopyRegisters
    <2> QED BY <2>2, <2>3 DEF cleared
  <1>4. <<0 + a, b>> = <<a, b>>
    BY <1>1
  <1>5. <<a, b>> \in DOMAIN rwr
    BY <1>1 DEF HasRegisters
  <1>6. CASE n = number
    <2>1. sent[<<a, b>>] = CC_TO_LE16(value)
      BY <1>2, <1>4, <1>5, <1>6 DEF cls_iefb_set_rwr_value, SetRegister
    <2> QED BY <1>2, <1>3, <1>6, <2>1, LittleEndianIsExact
  <1>7. CASE n # number
    <2>1. RegisterPlace(0, n) # RegisterPlace(0, number)
      <3>1. n \in Nat /\ number \in Nat /\ 0 \in Nat
        BY RegisterInDevice
      <3> QED BY <1>7, <3>1, RegisterPlaceInjective
    <2>2. sent[<<a, b>>] = rwr[<<a, b>>]
      BY <1>2, <1>4, <1>5, <2>1 DEF cls_iefb_set_rwr_value, SetRegister
    <2> QED BY <1>2, <1>3, <1>4, <1>7, <2>2 DEF cls_iefb_get_rwr_value
  <1> QED BY <1>6, <1>7

-----------------------------------------------------------------------------
(* The stations of the devices of a group, as the master counts them.      *)
Devices(g) == hier[g].slave_devices

LEMMA GroupSettings ==
    ASSUME NEW g \in group_nos
    PROVE  /\ HasSettings(Devices(g))
           /\ device_nos(g) = 1 .. Len(Devices(g))
           /\ Len(Devices(g)) \in Nat
           /\ total_occupied_of[g] = Before(Devices(g), Len(Devices(g)) + 1)
           /\ total_occupied_of[g] \in Nat
           /\ \A i \in device_nos(g) :
                 /\ slave_station_no[g][i] = 1 + Before(Devices(g), i)
                 /\ Occupied(g, i) = OccupiedBy(Devices(g), i)
  <1>1. Len(Devices(g)) \in 1 .. 16
    BY ConfigAssumption DEF clm_validate_config, Devices, MinOccupied, MaxOccupied
  <1>2. \A i \in device_nos(g) :
            Setting(g, i).num_occupied_stations \in MinOccupied .. MaxOccupied
    BY ConfigAssumption DEF clm_validate_config
  <1>3. Len(Devices(g)) \in Nat /\ device_nos(g) = 1 .. Len(Devices(g))
    BY <1>1 DEF Devices, device_nos
  <1>4. HasSettings(Devices(g))
    BY <1>2, <1>3 DEF HasSettings, OccupiedBy, Devices, Setting
  <1>5. \A i : StationsBefore(g, i) = Before(Devices(g), i)
    BY DEF StationsBefore, Before, PairsBefore, Devices, device_nos, Setting
  <1>6. total_occupied_of[g] = Before(Devices(g), Len(Devices(g)) + 1)
    BY <1>5 DEF total_occupied_of, clm_iefb_calc_occupied_per_group, Devices
  <1>7. \A i \in device_nos(g) :
            /\ slave_station_no[g][i] = 1 + Before(Devices(g), i)
            /\ Occupied(g, i) = OccupiedBy(Devices(g), i)
    BY <1>5 DEF slave_station_no, clm_iefb_calc_slave_station_no, Occupied,
                OccupiedBy, Devices, Setting
  <1>8. total_occupied_of[g] \in Nat
    BY <1>4, <1>6, PairsAreFinite
  <1> QED BY <1>3, <1>4, <1>6, <1>7, <1>8

LEMMA StationsWithinGroup ==
    ASSUME NEW g \in group_nos, NEW i \in device_nos(g)
    PROVE  /\ slave_station_no[g][i] \in Nat \ {0}
           /\ Occupied(g, i) \in Nat \ {0}
           /\ total_occupied_of[g] \in Nat
           /\ slave_station_no[g][i] + Occupied(g, i) - 1 <= total_occupied_of[g]
  <1> DEFINE s == Devices(g)
  <1>1. /\ HasSettings(s) /\ i \in 1 .. Len(s) /\ Len(s) \in Nat
        /\ slave_station_no[g][i] = 1 + Before(s, i)
        /\ Occupied(g, i) = OccupiedBy(s, i)
        /\ total_occupied_of[g] = Before(s, Len(s) + 1)
    BY GroupSettings
  <1> HIDE DEF s
  <1>2. /\ Before(s, i) \in Nat /\ Before(s, Len(s) + 1) \in Nat
        /\ OccupiedBy(s, i) \in 1 .. 16
    BY <1>1, PairsAreFinite, OccupiedRange
  <1>3. Len(s) + 1 \in 1 .. Len(s) + 1 /\ i < Len(s) + 1
    BY <1>1
  <1>4. Before(s, i) + OccupiedBy(s, i) <= Before(s, Len(s) + 1)
    BY <1>1, <1>3, DevicesInOrder
  <1>5. PICK a \in Nat, b \in 1 .. 16, t \in Nat :
            /\ a = Before(s, i) /\ b = OccupiedBy(s, i)
            /\ t = Before(s, Len(s) + 1) /\ a + b <= t
    BY <1>2, <1>4
  <1>6. a + b <= t
    BY <1>5
  <1>7. 1 + a \in Nat \ {0} /\ b \in Nat \ {0} /\ (1 + a) + b - 1 <= t
    <2>1. 1 + a \in Nat \ {0}
      OBVIOUS
    <2>2. b \in Nat \ {0}
      OBVIOUS
    <2>3. (1 + a) + b - 1 <= t
      BY <1>6
    <2> QED BY <2>1, <2>2, <2>3
  <1>8. /\ slave_station_no[g][i] = 1 + a
        /\ Occupied(g, i) = b
        /\ total_occupied_of[g] = t
    BY <1>1, <1>5
  <1> QED BY <1>7, <1>8

LEMMA StationsApart ==
    ASSUME NEW g \in group_nos, NEW i \in device_nos(g), NEW j \in device_nos(g),
           i # j
    PROVE  \/ slave_station_no[g][i] + Occupied(g, i) <= slave_station_no[g][j]
           \/ slave_station_no[g][j] + Occupied(g, j) <= slave_station_no[g][i]
  <1> DEFINE s == Devices(g)
  <1>1. /\ HasSettings(s) /\ i \in 1 .. Len(s) /\ j \in 1 .. Len(s) /\ Len(s) \in Nat
        /\ slave_station_no[g][i] = 1 + Before(s, i)
        /\ slave_station_no[g][j] = 1 + Before(s, j)
        /\ Occupied(g, i) = OccupiedBy(s, i)
        /\ Occupied(g, j) = OccupiedBy(s, j)
    BY GroupSettings
  <1> HIDE DEF s
  <1>2. /\ Before(s, i) \in Nat /\ Before(s, j) \in Nat
        /\ OccupiedBy(s, i) \in Nat /\ OccupiedBy(s, j) \in Nat
    BY <1>1, PairsAreFinite, OccupiedRange
  <1>3. i \in 1 .. Len(s) + 1 /\ j \in 1 .. Len(s) + 1 /\ (i < j \/ j < i)
    BY <1>1
  <1>4. i < j => Before(s, i) + OccupiedBy(s, i) <= Before(s, j)
    BY <1>1, <1>3, DevicesInOrder
  <1>5. j < i => Before(s, j) + OccupiedBy(s, j) <= Before(s, i)
    BY <1>1, <1>3, DevicesInOrder
  <1> QED BY <1>1, <1>2, <1>3, <1>4, <1>5

(* DeviceAt() is the device whose stations hold the station.               *)
LEMMA DeviceAtItsStations ==
    ASSUME NEW g \in group_nos, NEW i \in device_nos(g), NEW station \in Nat,
           slave_station_no[g][i] <= station,
           station < slave_station_no[g][i] + Occupied(g, i)
    PROVE  DeviceAt(g, station) = i
  <1>1. ASSUME NEW j \in device_nos(g),
               slave_station_no[g][j] <= station,
               station < slave_station_no[g][j] + Occupied(g, j)
        PROVE  j = i
    <2>1. /\ slave_station_no[g][i] \in Nat /\ Occupied(g, i) \in Nat
          /\ slave_station_no[g][j] \in Nat /\ Occupied(g, j) \in Nat
      BY StationsWithinGroup
    <2> QED BY <1>1, <2>1, StationsApart
  <1> QED BY <1>1 DEF DeviceAt, Occupied

LEMMA EveryStationHasADevice ==
    ASSUME NEW g \in group_nos, NEW station \in 1 .. total_occupied_of[g]
    PROVE  /\ DeviceAt(g, station) \in device_nos(g)
           /\ slave_station_no[g][DeviceAt(g, station)] <= station
           /\ station < slave_station_no[g][DeviceAt(g, station)]
                            + Occupied(g, DeviceAt(g, station))
  <1> DEFINE s == Devices(g)
  <1>1. /\ HasSettings(s)
        /\ device_nos(g) = 1 .. Len(s)
        /\ station \in 1 .. Before(s, Len(s) + 1)
        /\ station \in Nat
        /\ \A i \in device_nos(g) :
                 /\ slave_station_no[g][i] = 1 + Before(s, i)
                 /\ Occupied(g, i) = OccupiedBy(s, i)
    BY GroupSettings
  <1> HIDE DEF s
  <1>2. PICK i \in 1 .. Len(s) : Occupies(s, i, station)
    BY <1>1, StationHasADevice
  <1>3. /\ i \in device_nos(g)
        /\ slave_station_no[g][i] <= station
        /\ station < slave_station_no[g][i] + Occupied(g, i)
    BY <1>1, <1>2 DEF Occupies
  <1>4. DeviceAt(g, station) = i
    BY <1>1, <1>3, DeviceAtItsStations
  <1> QED BY <1>3, <1>4

-----------------------------------------------------------------------------
(* The list of ids in a request that was put together from devices whose   *)
(* id is their own or that of a suspended device.                          *)
IdsOf(devs, g) ==
    \A i \in device_nos(g) : devs[i].slave_id \in {NoIp, Setting(g, i).slave_id}

LEMMA IdsAreDistinct ==
    ASSUME NEW g \in group_nos, NEW i \in device_nos(g)
    PROVE  /\ Setting(g, i).slave_id \notin {NoIp, Multistation}
           /\ \A j \in device_nos(g) :
                Setting(g, j).slave_id = Setting(g, i).slave_id => j = i
  BY ConfigAssumption DEF clm_validate_config, clm_validate_config_duplicates

LEMMA RequestLength ==
    ASSUME NEW g \in group_nos, NEW devs, NEW request, Describes(request, devs, g)
    PROVE  total_occupied(request) = total_occupied_of[g]
  <1>1. total_occupied_of[g] \in Nat
    BY GroupSettings
  <1>2. DOMAIN request.slave_ids = 1 .. total_occupied_of[g]
    BY DEF Describes
  <1>3. Len(request.slave_ids) = total_occupied_of[g]
    BY <1>1 DEF Describes
  <1> QED BY <1>3 DEF total_occupied

LEMMA SlotsOfDevice ==
    ASSUME NEW g \in group_nos, NEW devs, NEW request, Describes(request, devs, g),
           NEW i \in device_nos(g)
    PROVE  /\ request.slave_ids[slave_station_no[g][i]] = devs[i].slave_id
           /\ \A station \in slave_station_no[g][i] + 1 ..
                        slave_station_no[g][i] + Occupied(g, i) - 1 :
                request.slave_ids[station] = Multistation
  <1> DEFINE first == slave_station_no[g][i]
             firsts == {slave_station_no[g][j] : j \in device_nos(g)}
             total == total_occupied_of[g]
  <1>1. /\ first \in Nat \ {0} /\ Occupied(g, i) \in Nat \ {0}
        /\ total \in Nat /\ first + Occupied(g, i) - 1 <= total
    BY StationsWithinGroup
  <1>2. \A station \in 1 .. total : request.slave_ids[station] =
            IF station \in firsts THEN devs[DeviceAt(g, station)].slave_id
            ELSE Multistation
    BY DEF Describes
  <1>3. first \in 1 .. total /\ first \in firsts
    BY <1>1
  <1>4. DeviceAt(g, first) = i
    <2>1. first \in Nat /\ first <= first /\ first < first + Occupied(g, i)
      BY <1>1
    <2> QED BY <2>1, DeviceAtItsStations
  <1>5. request.slave_ids[first] = devs[i].slave_id
    BY <1>2, <1>3, <1>4
  <1>6. ASSUME NEW station \in first + 1 .. first + Occupied(g, i) - 1
        PROVE  station \in 1 .. total /\ station \notin firsts
    <2>1. station \in 1 .. total /\ station \in Nat
      BY <1>1
    <2>2. ASSUME NEW j \in device_nos(g), station = slave_station_no[g][j]
          PROVE  FALSE
      <3>1. Occupied(g, j) \in Nat \ {0} /\ slave_station_no[g][j] \in Nat
        BY StationsWithinGroup
      <3>2. j # i
        BY <1>1, <2>2
      <3> QED BY <1>1, <2>2, <3>1, <3>2, StationsApart
    <2> QED BY <2>1, <2>2
  <1> HIDE DEF first, firsts, total
  <1>7. \A station \in first + 1 .. first + Occupied(g, i) - 1 :
            request.slave_ids[station] = Multistation
    BY <1>2, <1>6
  <1> QED BY <1>5, <1>7 DEF first

LEMMA SlotIsOfADevice ==
    ASSUME NEW g \in group_nos, NEW devs, NEW request, Describes(request, devs, g),
           NEW station \in 1 .. total_occupied_of[g]
    PROVE  \E i \in device_nos(g) :
              \/ /\ station = slave_station_no[g][i]
                 /\ request.slave_ids[station] = devs[i].slave_id
              \/ /\ station \in slave_station_no[g][i] + 1 ..
                        slave_station_no[g][i] + Occupied(g, i) - 1
                 /\ request.slave_ids[station] = Multistation
  <1> DEFINE i == DeviceAt(g, station)
  <1>1. /\ i \in device_nos(g)
        /\ slave_station_no[g][i] <= station
        /\ station < slave_station_no[g][i] + Occupied(g, i)
    BY EveryStationHasADevice
  <1> HIDE DEF i
  <1>2. slave_station_no[g][i] \in Nat /\ Occupied(g, i) \in Nat /\ station \in Nat
    BY <1>1, StationsWithinGroup
  <1>3. CASE station = slave_station_no[g][i]
    BY <1>1, <1>3, SlotsOfDevice
  <1>4. CASE station # slave_station_no[g][i]
    <2>1. station \in slave_station_no[g][i] + 1 ..
                        slave_station_no[g][i] + Occupied(g, i) - 1
      BY <1>1, <1>2, <1>4
    <2> QED BY <1>1, <2>1, SlotsOfDevice
  <1> QED BY <1>3, <1>4

(* Where the id of a device is in the request.                             *)
LEMMA WhereTheIdIs ==
    ASSUME NEW g \in group_nos, NEW devs, NEW request, Describes(request, devs, g),
           IdsOf(devs, g), NEW i \in device_nos(g)
    PROVE  LET id == Setting(g, i).slave_id
           IN  StationsOf(id, request) =
                    IF devs[i].slave_id = id THEN {slave_station_no[g][i]} ELSE {}
  <1> DEFINE id == Setting(g, i).slave_id
             first == slave_station_no[g][i]
             total == total_occupied_of[g]
  <1>1. total_occupied(request) = total
    BY RequestLength
  <1>2. id # NoIp /\ id # Multistation
    BY IdsAreDistinct
  <1>3. ASSUME NEW station \in 1 .. total, request.slave_ids[station] = id
        PROVE  station = first /\ devs[i].slave_id = id
    <2>1. PICK j \in device_nos(g) :
              \/ /\ station = slave_station_no[g][j]
                 /\ request.slave_ids[station] = devs[j].slave_id
              \/ request.slave_ids[station] = Multistation
      BY SlotIsOfADevice
    <2>2. station = slave_station_no[g][j] /\ devs[j].slave_id = id
      BY <1>2, <1>3, <2>1
    <2>3. Setting(g, j).slave_id = id
      BY <1>2, <2>2 DEF IdsOf
    <2>4. j = i
      BY <2>3, IdsAreDistinct
    <2> QED BY <2>2, <2>4
  <1>4. first \in 1 .. total /\ request.slave_ids[first] = devs[i].slave_id
    <2>1. /\ first \in Nat \ {0} /\ Occupied(g, i) \in Nat \ {0}
          /\ total \in Nat /\ first + Occupied(g, i) - 1 <= total
      BY StationsWithinGroup
    <2>2. first \in 1 .. total
      BY <2>1
    <2> QED BY <2>2, SlotsOfDevice
  <1> HIDE DEF first, total, id
  <1>5. StationsOf(id, request) =
            {station \in 1 .. total : request.slave_ids[station] = id}
    BY <1>1 DEF StationsOf
  <1>6. CASE devs[i].slave_id = id
    <2>1. StationsOf(id, request) = {first}
      BY <1>3, <1>4, <1>5, <1>6
    <2> QED BY <1>6, <2>1 DEF first, id
  <1>7. CASE devs[i].slave_id # id
    <2>1. StationsOf(id, request) = {}
      BY <1>3, <1>5, <1>7
    <2> QED BY <1>7, <2>1 DEF id
  <1> QED BY <1>6, <1>7

(* How many stations the request gives to the id.                          *)
LEMMA HowManyItImplies ==
    ASSUME NEW g \in group_nos, NEW devs, NEW request, Describes(request, devs, g),
           IdsOf(devs, g), NEW i \in device_nos(g),
           devs[i].slave_id = Setting(g, i).slave_id
    PROVE  /\ my_slave_station_no(Setting(g, i).slave_id, request)
                    = slave_station_no[g][i]
           /\ implied_occupation_count(Setting(g, i).slave_id, request)
                    = Occupied(g, i)
  <1> DEFINE id == Setting(g, i).slave_id
             first == slave_station_no[g][i]
             total == total_occupied_of[g]
             count == Occupied(g, i)
             ids == request.slave_ids
  <1>1. total_occupied(request) = total
    BY RequestLength
  <1>2. StationsOf(id, request) = {first}
    BY WhereTheIdIs
  <1>3. my_slave_station_no(id, request) = first
    BY <1>2 DEF my_slave_station_no
  <1>4. /\ first \in Nat /\ count \in Nat \ {0} /\ total \in Nat
        /\ first + count - 1 <= total
    BY StationsWithinGroup
  <1>5. \A station \in first + 1 .. first + count - 1 : ids[station] = Multistation
    BY SlotsOfDevice
  <1>6. ASSUME first + count <= total
        PROVE  ids[first + count] # Multistation
    <2> DEFINE next == first + count
    <2>1. next \in 1 .. total /\ next \in Nat
      BY <1>4, <1>6
    <2>2. PICK j \in device_nos(g) :
              \/ next = slave_station_no[g][j] /\ ids[next] = devs[j].slave_id
              \/ next \in slave_station_no[g][j] + 1 ..
                        slave_station_no[g][j] + Occupied(g, j) - 1
      <3> HIDE DEF next
      <3> QED BY <2>1, SlotIsOfADevice
    <2>3. slave_station_no[g][j] \in Nat /\ Occupied(g, j) \in Nat \ {0}
      BY StationsWithinGroup
    <2>4. next = slave_station_no[g][j]
      <3> SUFFICES ASSUME slave_station_no[g][j] < next,
                          next < slave_station_no[g][j] + Occupied(g, j)
                   PROVE  FALSE
        BY <2>1, <2>2, <2>3
      <3>1. CASE j = i
        BY <1>4, <3>1
      <3>2. CASE j # i
        <4>1. \/ first + count <= slave_station_no[g][j]
              \/ slave_station_no[g][j] + Occupied(g, j) <= first
          BY <3>2, StationsApart
        <4> QED BY <1>4, <2>3, <4>1
      <3> QED BY <3>1, <3>2
    <2>5. ids[next] = devs[j].slave_id
      BY <2>4, SlotsOfDevice
    <2>6. devs[j].slave_id # Multistation
      BY IdsAreDistinct, IdsAssumption DEF IdsOf
    <2> QED BY <2>5, <2>6
  <1> HIDE DEF id, first, total, count, ids
  <1>7. Cardinality(Run(ids, first, total)) = count
    BY <1>4, <1>5, <1>6, RunIsInterval
  <1>8. implied_occupation_count(id, request) = count
    BY <1>1, <1>3, <1>7 DEF implied_occupation_count, Run, ids
  <1> QED BY <1>3, <1>8 DEF id, first, count

-----------------------------------------------------------------------------
(* The request that left in the last step describes the present devices:   *)
(* nothing happens to a group after its request within one call.           *)
RequestsFit == \A g \in group_nos : RequestFits(clm.groups[g], g)

LEMMA RequestsFitNext ==
    ASSUME IInv, RequestsFit, [Next]_vars
    PROVE  RequestsFit'
  <1> SUFFICES ASSUME NEW g \in group_nos PROVE RequestFits(clm.groups[g], g)'
    BY DEF RequestsFit
  <1>1. CASE Next
    <2>1. CASE Fresh(clm')
      BY <2>1 DEF Fresh, Idle, RequestFits
    <2>2. CASE \E d \in Nat, frame \in Frames \cup {NoInput} : StepOK(d, frame)
      <3>1. PICK d \in Nat, frame \in Frames \cup {NoInput} : StepOK(d, frame)
        BY <2>2
      <3> DEFINE r == clm'.groups[g]
                 oks == AnsweredBy(frame, g)
      <3>2. QuietStep(r, clm.groups[g], g, d, oks)
              \/ AskedStep(r, clm.groups[g], g, d, oks)
        BY <3>1 DEF StepOK, GroupStep
      <3>3. RequestFits(r, g)
        BY <3>2 DEF QuietStep, AskedStep, Started, RequestFits
      <3> QED BY <3>3 DEF RequestFits, Describes, total_occupied_of,
                          slave_station_no
    <2> QED BY <1>1, <2>1, <2>2, NextOK
  <1>2. CASE UNCHANGED vars
    BY <1>2 DEF vars, RequestsFit, RequestFits, Describes
  <1> QED BY <1>1, <1>2

LEMMA MasterRequestsFit == Spec => [](IInv /\ RequestsFit)
  <1>1. Init => RequestsFit
    <2> SUFFICES ASSUME Init PROVE RequestsFit
      OBVIOUS
    <2>1. 0 \in 0 .. MaxParameterNo /\ clm = clm_iefb_init(0)
      BY MasterAssumption DEF Init
    <2>2. Fresh(clm)
      BY <2>1, InitIsFresh
    <2> QED BY <2>2 DEF Fresh, Idle, RequestsFit, RequestFits
  <1>2. IInv /\ RequestsFit /\ [Next]_vars => RequestsFit'
    BY RequestsFitNext
  <1> QED BY <1>1, <1>2, MasterInvariant, PTL DEF Spec

(***************************************************************************)
(* REQ_CL_PROTOCOL_34, _37, _52, for every configuration that              *)
(* clm_validate_config() accepts: the loop of cl_iefb_analyze_slave_ids()  *)
(* in a slave and the counting of stations in the master agree in every    *)
(* request.                                                                *)
(***************************************************************************)
THEOREM MasterSlavesFindThemselves == Spec => []SlavesFindThemselves
  <1>1. IInv /\ RequestsFit => SlavesFindThemselves
    <2> SUFFICES ASSUME IInv, RequestsFit, NEW g \in group_nos,
                        NEW frame \in clm.groups[g].sent, NEW i \in device_nos(g)
                 PROVE  LET id == Setting(g, i).slave_id
                            found == cl_iefb_analyze_slave_ids(id, frame)
                        IN  /\ ~found.failed
                            /\ found.station =
                                    IF Device(clm, g, i).slave_id = id
                                    THEN slave_station_no[g][i] ELSE 0
                            /\ found.station # 0 => found.count = Occupied(g, i)
                            /\ IsSlaveIdFound(id, frame) <=> found.station # 0
                            /\ found.station # 0 =>
                                 /\ my_slave_station_no(id, frame) = found.station
                                 /\ implied_occupation_count(id, frame) = found.count
      BY DEF SlavesFindThemselves
    <2> DEFINE id == Setting(g, i).slave_id
               found == cl_iefb_analyze_slave_ids(id, frame)
               devs == clm.groups[g].slave_devices
               first == slave_station_no[g][i]
    <2>1. Describes(frame, devs, g)
      BY DEF RequestsFit, RequestFits
    <2>2. IdsOf(devs, g)
      BY DEF IInv, MasterOK, StackOK, GroupOK, DevicesOK, DeviceOK, DeviceType, IdsOf
    <2>3. first \in Nat \ {0}
      BY StationsWithinGroup
    <2>4. Device(clm, g, i) = devs[i]
      BY DEF Device
    <2> HIDE DEF devs
    <2>5. Len(frame.slave_ids) \in Nat
      BY <2>1, RequestLength, GroupSettings DEF total_occupied
    <2>6. StationsOf(id, frame) = IF devs[i].slave_id = id THEN {first} ELSE {}
      BY <2>1, <2>2, WhereTheIdIs
    <2>7. ~IsSlaveIdRepeated(id, frame)
      BY <2>6 DEF IsSlaveIdRepeated
    <2>8. /\ ~found.failed
          /\ found.station # 0 <=> IsSlaveIdFound(id, frame)
          /\ found.station # 0 =>
                /\ found.station = my_slave_station_no(id, frame)
                /\ found.count = implied_occupation_count(id, frame)
      BY <2>5, <2>7, AnalysisIsTheReference
    <2>9. CASE devs[i].slave_id = id
      <3>1. /\ my_slave_station_no(id, frame) = first
            /\ implied_occupation_count(id, frame) = Occupied(g, i)
        BY <2>1, <2>2, <2>9, HowManyItImplies
      <3>2. IsSlaveIdFound(id, frame)
        BY <2>6, <2>9 DEF IsSlaveIdFound
      <3> HIDE DEF id, found, first
      <3> QED BY <2>3, <2>4, <2>8, <2>9, <3>1, <3>2 DEF id, found, first
    <2>10. CASE devs[i].slave_id # id
      <3>1. ~IsSlaveIdFound(id, frame)
        BY <2>6, <2>10 DEF IsSlaveIdFound
      <3> HIDE DEF id, found, first
      <3> QED BY <2>4, <2>8, <2>10, <3>1 DEF id, found
    <2> QED BY <2>9, <2>10
  <1> QED BY <1>1, MasterRequestsFit, PTL

-----------------------------------------------------------------------------
(* The areas of the devices in the memory of the group.                    *)
Area(g, i) == slave_station_no[g][i] - 1

LEMMA AreasOfDevice ==
    ASSUME NEW g \in group_nos, NEW i \in device_nos(g)
    PROVE  /\ Area(g, i) \in Nat
           /\ Occupied(g, i) \in Nat
           /\ total_occupied_of[g] \in Nat
           /\ Area(g, i) + Occupied(g, i) <= total_occupied_of[g]
           /\ clm_iefb_get_first_device_area(g, i) = Area(g, i)
           /\ Bits(g, i) \subseteq BitNumbers(Occupied(g, i))
           /\ Registers(g, i) \subseteq RegisterNumbers(Occupied(g, i))
  <1>1. PICK a \in Nat \ {0}, n \in Nat \ {0}, t \in Nat :
            /\ a = slave_station_no[g][i] /\ n = Occupied(g, i)
            /\ t = total_occupied_of[g]
            /\ a + n - 1 <= t
    BY StationsWithinGroup
  <1>2. a + n - 1 <= t
    BY <1>1
  <1>3. a - 1 \in Nat /\ (a - 1) + n <= t /\ 0 + (a - 1) = a - 1
    BY <1>2
  <1>4. clm_iefb_get_first_device_area(g, i) = 0 + (slave_station_no[g][i] - 1)
    BY DEF clm_iefb_get_first_device_area, clm_iefb_get_first_area,
           clm_iefb_get_occupied_and_position
  <1> QED BY <1>1, <1>3, <1>4 DEF Area, Bits, Registers

LEMMA AreasApart ==
    ASSUME NEW g \in group_nos, NEW i \in device_nos(g), NEW j \in device_nos(g),
           i # j, NEW a \in 0 .. Occupied(g, i) - 1, NEW b \in 0 .. Occupied(g, j) - 1
    PROVE  Area(g, i) + a # Area(g, j) + b
  <1>1. /\ slave_station_no[g][i] \in Nat /\ Occupied(g, i) \in Nat
        /\ slave_station_no[g][j] \in Nat /\ Occupied(g, j) \in Nat
    BY StationsWithinGroup
  <1>2. \/ slave_station_no[g][i] + Occupied(g, i) <= slave_station_no[g][j]
        \/ slave_station_no[g][j] + Occupied(g, j) <= slave_station_no[g][i]
    BY StationsApart
  <1> QED BY <1>1, <1>2 DEF Area

(* No two bits, and no two registers, of a group share a place.            *)
LEMMA BitsOfGroup ==
    ASSUME NEW g \in group_nos, NEW i \in device_nos(g), NEW j \in device_nos(g),
           NEW n \in BitNumbers(Occupied(g, i)),
           NEW m \in BitNumbers(Occupied(g, j))
    PROVE  BitPlace(Area(g, i), n) = BitPlace(Area(g, j), m) <=> i = j /\ n = m
  <1>1. /\ Area(g, i) \in Nat /\ Occupied(g, i) \in Nat
        /\ Area(g, j) \in Nat /\ Occupied(g, j) \in Nat
    BY AreasOfDevice
  <1>2. /\ n \in Nat /\ n \div 64 \in 0 .. Occupied(g, i) - 1
        /\ m \in Nat /\ m \div 64 \in 0 .. Occupied(g, j) - 1
    BY <1>1, BitInDevice
  <1>3. CASE i = j
    BY <1>1, <1>2, <1>3, BitPlaceInjective
  <1>4. CASE i # j
    <2>1. Area(g, i) + (n \div 64) # Area(g, j) + (m \div 64)
      BY <1>2, <1>4, AreasApart
    <2> QED BY <1>4, <2>1 DEF BitPlace, cl_iefb_bit_calculate_areanumber
  <1> QED BY <1>3, <1>4

LEMMA RegistersOfGroup ==
    ASSUME NEW g \in group_nos, NEW i \in device_nos(g), NEW j \in device_nos(g),
           NEW n \in RegisterNumbers(Occupied(g, i)),
           NEW m \in RegisterNumbers(Occupied(g, j))
    PROVE  RegisterPlace(Area(g, i), n) = RegisterPlace(Area(g, j), m)
                <=> i = j /\ n = m
  <1>1. /\ Area(g, i) \in Nat /\ Occupied(g, i) \in Nat
        /\ Area(g, j) \in Nat /\ Occupied(g, j) \in Nat
    BY AreasOfDevice
  <1>2. /\ n \in Nat /\ n \div 32 \in 0 .. Occupied(g, i) - 1
        /\ m \in Nat /\ m \div 32 \in 0 .. Occupied(g, j) - 1
    BY <1>1, RegisterInDevice
  <1>3. CASE i = j
    BY <1>1, <1>2, <1>3, RegisterPlaceInjective
  <1>4. CASE i # j
    <2>1. Area(g, i) + (n \div 32) # Area(g, j) + (m \div 32)
      BY <1>2, <1>4, AreasApart
    <2> QED BY <1>4, <2>1 DEF RegisterPlace, cl_iefb_register_calculate_areanumber
  <1> QED BY <1>3, <1>4

(* A device that is served finds the part of the request that is its own.  *)
LEMMA ServedFindsItsPart ==
    ASSUME NEW g \in group_nos, NEW devs, NEW frame, Describes(frame, devs, g),
           IdsOf(devs, g), NEW i \in Served(g, frame)
    PROVE  /\ i \in device_nos(g)
           /\ i \in DevicesOn(g, frame)
           /\ my_slave_station_no(Setting(g, i).slave_id, frame) - 1 = Area(g, i)
  <1>1. /\ i \in device_nos(g) /\ i \in DevicesOn(g, frame)
        /\ frame.slave_ids[slave_station_no[g][i]] = Setting(g, i).slave_id
    BY DEF Served, DevicesOn
  <1>2. devs[i].slave_id = Setting(g, i).slave_id
    BY <1>1, SlotsOfDevice
  <1>3. my_slave_station_no(Setting(g, i).slave_id, frame) = slave_station_no[g][i]
    BY <1>1, <1>2, HowManyItImplies
  <1> QED BY <1>1, <1>3 DEF Area

(* The bits of the devices that are on are copied to where they were.      *)
LEMMA BitInRequest ==
    ASSUME NEW g \in group_nos, NEW frame, NEW ry,
           NEW i \in DevicesOn(g, frame), NEW n \in BitNumbers(Occupied(g, i))
    PROVE  BitPlace(Area(g, i), n) \in RequestBits(g, frame, ry)
                <=> BitPlace(Area(g, i), n) \in ry
  <1> DEFINE place == BitPlace(Area(g, i), n)
             copy(k) == CopyBits(ry, Area(g, k), Area(g, k), Occupied(g, k))
  <1>1. RequestBits(g, frame, ry) = UNION {copy(k) : k \in DevicesOn(g, frame)}
    BY DEF RequestBits, Area
  <1>2. i \in device_nos(g)
    BY DEF DevicesOn
  <1>3. Area(g, i) \in Nat /\ Occupied(g, i) \in Nat
    BY <1>2, AreasOfDevice
  <1>4. place \in copy(i) <=> place \in ry
    BY <1>3, CopiedBit
  <1>5. ASSUME NEW k \in DevicesOn(g, frame), NEW p \in copy(k)
        PROVE  p \in ry
    <2>1. k \in device_nos(g)
      BY DEF DevicesOn
    <2>2. Area(g, k) \in Nat /\ Occupied(g, k) \in Nat
      BY <2>1, AreasOfDevice
    <2>3. PICK a \in Area(g, k) .. Area(g, k) + Occupied(g, k) - 1,
               b \in 0 .. 7, c \in 0 .. 7 : p = <<a, b, c>>
      BY DEF CopyBits
    <2>4. <<p[1] - Area(g, k) + Area(g, k), p[2], p[3]>> \in ry
      BY DEF CopyBits
    <2>5. p[1] - Area(g, k) + Area(g, k) = a /\ p[2] = b /\ p[3] = c
      BY <2>2, <2>3
    <2> QED BY <2>3, <2>4, <2>5
  <1> HIDE DEF place, copy
  <1> QED BY <1>1, <1>4, <1>5 DEF place

LEMMA OutputBits ==
    ASSUME NEW g \in group_nos, NEW devs, NEW frame, Describes(frame, devs, g),
           IdsOf(devs, g), NEW j \in device_nos(g), NEW number \in Bits(g, j)
    PROVE  OutputBitArrives(g, frame, j, number)
  <1> DEFINE memory == clm_iefb_set_ry_bit(NoBits, g, j, number, TRUE)
             sent == RequestBits(g, frame, memory)
             got(i) == SlaveBits(frame, Setting(g, i).slave_id, Occupied(g, i), sent)
             expected(i) == IF i = j THEN {number} ELSE {}
  <1>1. number \in BitNumbers(Occupied(g, j))
    BY AreasOfDevice
  <1>2. memory = {BitPlace(Area(g, j), number)}
    BY AreasOfDevice DEF clm_iefb_set_ry_bit, SetBit, NoBits
  <1> HIDE DEF memory, sent
  <1>3. ASSUME NEW i \in device_nos(g), NEW n \in Bits(g, i)
        PROVE  BitPlace(Area(g, i), n) \in memory <=> n \in expected(i)
    <2>1. n \in BitNumbers(Occupied(g, i))
      BY AreasOfDevice
    <2>2. BitPlace(Area(g, i), n) = BitPlace(Area(g, j), number)
                <=> i = j /\ n = number
      BY <1>1, <2>1, BitsOfGroup
    <2> QED BY <1>2, <2>2
  <1>4. \A i \in device_nos(g) : expected(i) \subseteq Bits(g, i)
    OBVIOUS
  <1>5. ASSUME NEW i \in device_nos(g)
        PROVE  {n \in Bits(g, i) : clm_iefb_get_ry_bit(memory, g, i, n)} = expected(i)
    <2>1. \A n : clm_iefb_get_ry_bit(memory, g, i, n)
                    <=> BitPlace(Area(g, i), n) \in memory
      BY AreasOfDevice DEF clm_iefb_get_ry_bit
    <2> HIDE DEF expected
    <2> QED BY <1>3, <1>4, <2>1
  <1>6. ASSUME NEW i \in device_nos(g), i \in Served(g, frame)
        PROVE  {n \in Bits(g, i) : cls_iefb_get_ry_bit(got(i), n)} = expected(i)
    <2>1. /\ i \in DevicesOn(g, frame)
          /\ my_slave_station_no(Setting(g, i).slave_id, frame) - 1 = Area(g, i)
      BY <1>6, ServedFindsItsPart
    <2>2. got(i) = CopyBits(sent, Area(g, i), 0, Occupied(g, i))
      BY <2>1 DEF SlaveBits
    <2>3. Area(g, i) \in Nat /\ Occupied(g, i) \in Nat /\ 0 \in Nat
      BY AreasOfDevice
    <2> HIDE DEF expected, got
    <2>4. ASSUME NEW n \in Bits(g, i)
          PROVE  cls_iefb_get_ry_bit(got(i), n) <=> n \in expected(i)
      <3>1. n \in BitNumbers(Occupied(g, i))
        BY AreasOfDevice
      <3>2. BitPlace(0, n) \in got(i) <=> BitPlace(Area(g, i), n) \in sent
        BY <2>2, <2>3, <3>1, CopiedBit
      <3>3. BitPlace(Area(g, i), n) \in sent <=> BitPlace(Area(g, i), n) \in memory
        BY <2>1, <3>1, BitInRequest DEF sent
      <3> QED BY <1>3, <3>2, <3>3 DEF cls_iefb_get_ry_bit, expected
    <2> QED BY <1>4, <2>4 DEF expected
  <1> QED BY <1>5, <1>6 DEF OutputBitArrives, memory, sent

LEMMA InputBits ==
    ASSUME NEW g \in group_nos, NEW j \in device_nos(g), NEW number \in Bits(g, j)
    PROVE  InputBitArrives(g, j, number)
  <1> DEFINE rx == cls_iefb_set_rx_bit(NoBits, number, TRUE)
             memory == clm_iefb_store_incoming_bits(g, j, rx)
             expected(i) == IF i = j THEN {number} ELSE {}
  <1>1. /\ number \in BitNumbers(Occupied(g, j))
        /\ Area(g, j) \in Nat /\ Occupied(g, j) \in Nat /\ 0 \in Nat
    BY AreasOfDevice
  <1>2. rx = {BitPlace(0, number)}
    BY DEF cls_iefb_set_rx_bit, SetBit, NoBits
  <1>3. memory = CopyBits(rx, 0, Area(g, j), Occupied(g, j))
    BY DEF clm_iefb_store_incoming_bits, Area
  <1> HIDE DEF rx, memory
  <1>4. ASSUME NEW n \in Bits(g, j)
        PROVE  BitPlace(0, n) \in rx <=> n = number
    <2>1. n \in BitNumbers(Occupied(g, j))
      BY AreasOfDevice
    <2>2. n \in Nat /\ number \in Nat
      BY <1>1, <2>1, BitInDevice
    <2> QED BY <1>1, <1>2, <2>2, BitPlaceInjective
  <1>5. {n \in Bits(g, j) : cls_iefb_get_rx_bit(rx, n)} = {number}
    BY <1>4 DEF cls_iefb_get_rx_bit
  <1>6. ASSUME NEW i \in device_nos(g), NEW n \in Bits(g, i)
        PROVE  clm_iefb_get_rx_bit(memory, g, i, n) <=> n \in expected(i)
    <2>1. n \in BitNumbers(Occupied(g, i)) /\ Occupied(g, i) \in Nat
      BY AreasOfDevice
    <2>2. clm_iefb_get_rx_bit(memory, g, i, n)
                <=> BitPlace(Area(g, i), n) \in memory
      BY AreasOfDevice DEF clm_iefb_get_rx_bit
    <2>3. CASE i = j
      <3>1. BitPlace(Area(g, j), n) \in memory <=> BitPlace(0, n) \in rx
        BY <1>1, <1>3, <2>1, <2>3, CopiedBit
      <3> QED BY <1>4, <2>2, <2>3, <3>1
    <2>4. CASE i # j
      <3> DEFINE p == BitPlace(Area(g, i), n)
      <3>1. n \div 64 \in 0 .. Occupied(g, i) - 1
        BY <2>1, BitInDevice
      <3>2. p[1] = Area(g, i) + (n \div 64)
        BY DEF BitPlace, cl_iefb_bit_calculate_areanumber
      <3>3. ASSUME p[1] \in Area(g, j) .. Area(g, j) + Occupied(g, j) - 1
            PROVE  FALSE
        <4> DEFINE b == p[1] - Area(g, j)
        <4>1. b \in 0 .. Occupied(g, j) - 1 /\ p[1] = Area(g, j) + b
          BY <1>1, <3>3
        <4> HIDE DEF b, p
        <4> QED BY <2>4, <3>1, <3>2, <4>1, AreasApart
      <3> HIDE DEF p
      <3>4. p \notin memory
        BY <1>3, <3>3 DEF CopyBits
      <3> QED BY <2>2, <2>4, <3>4 DEF p
    <2> QED BY <2>3, <2>4
  <1>7. \A i \in device_nos(g) : expected(i) \subseteq Bits(g, i)
    OBVIOUS
  <1>8. \A i \in device_nos(g) :
            {n \in Bits(g, i) : clm_iefb_get_rx_bit(memory, g, i, n)} = expected(i)
    <2> HIDE DEF expected
    <2> QED BY <1>6, <1>7
  <1> QED BY <1>5, <1>8 DEF InputBitArrives, rx, memory

-----------------------------------------------------------------------------
(* A register of a device is one of the memory of its group.               *)
LEMMA RegisterOfGroup ==
    ASSUME NEW g \in group_nos, NEW i \in device_nos(g),
           NEW n \in RegisterNumbers(Occupied(g, i))
    PROVE  /\ RegisterPlace(Area(g, i), n) = <<Area(g, i) + (n \div 32), n % 32>>
           /\ RegisterPlace(0, n) = <<n \div 32, n % 32>>
           /\ n \div 32 \in 0 .. Occupied(g, i) - 1
           /\ n % 32 \in 0 .. 31
           /\ RegisterPlace(Area(g, i), n)
                    \in (0 .. total_occupied_of[g] - 1) \X (0 .. 31)
           /\ DeviceAt(g, Area(g, i) + (n \div 32) + 1) = i
  <1>1. /\ Area(g, i) \in Nat /\ Occupied(g, i) \in Nat
        /\ total_occupied_of[g] \in Nat
        /\ Area(g, i) + Occupied(g, i) <= total_occupied_of[g]
    BY AreasOfDevice
  <1>2. n \in Nat /\ n \div 32 \in 0 .. Occupied(g, i) - 1 /\ n % 32 \in 0 .. 31
    BY <1>1, RegisterInDevice
  <1>3. /\ RegisterPlace(Area(g, i), n) = <<Area(g, i) + (n \div 32), n % 32>>
        /\ RegisterPlace(0, n) = <<0 + (n \div 32), n % 32>>
    BY DEF RegisterPlace, cl_iefb_register_calculate_areanumber
  <1>4. 0 + (n \div 32) = n \div 32
    BY <1>2
  <1>5. Area(g, i) + (n \div 32) \in 0 .. total_occupied_of[g] - 1
    BY <1>1, <1>2
  <1>6. DeviceAt(g, Area(g, i) + (n \div 32) + 1) = i
    <2> DEFINE station == Area(g, i) + (n \div 32) + 1
    <2>1. slave_station_no[g][i] \in Nat
      BY StationsWithinGroup
    <2>2. /\ station \in Nat
          /\ slave_station_no[g][i] <= station
          /\ station < slave_station_no[g][i] + Occupied(g, i)
      BY <1>1, <1>2, <2>1 DEF Area
    <2> QED BY <2>2, DeviceAtItsStations
  <1> QED BY <1>2, <1>3, <1>4, <1>5, <1>6

LEMMA Cleared ==
    ASSUME NEW stations \in Nat
    PROVE  /\ DOMAIN ClearedRegisters(stations) = (0 .. stations - 1) \X (0 .. 31)
           /\ \A place \in (0 .. stations - 1) \X (0 .. 31) :
                ClearedRegisters(stations)[place] = <<0, 0>>
  BY DEF ClearedRegisters, RegistersInArea

LEMMA SampleBytes ==
    CC_FROM_LE16(CC_TO_LE16(SampleValue)) = SampleValue /\ CC_FROM_LE16(<<0, 0>>) = 0
  <1>1. SampleValue \in Nat /\ SampleValue < 65536
    BY DEF SampleValue
  <1>2. CC_FROM_LE16(<<0, 0>>) = 0
    BY DEF CC_FROM_LE16
  <1> QED BY <1>1, <1>2, LittleEndianIsExact

LEMMA OutputRegisters ==
    ASSUME NEW g \in group_nos, NEW devs, NEW frame, Describes(frame, devs, g),
           IdsOf(devs, g), NEW j \in device_nos(g), NEW number \in Registers(g, j)
    PROVE  OutputRegisterArrives(g, frame, j, number)
  <1> DEFINE total == total_occupied_of[g]
             cleared == ClearedRegisters(total)
             memory == clm_iefb_set_rww_value(cleared, g, j, number, SampleValue)
             sent == RequestRegisters(g, frame, memory)
             places == (0 .. total - 1) \X (0 .. 31)
             got(i) == SlaveRegisters(frame, Setting(g, i).slave_id,
                                      Occupied(g, i), sent)
             expected(i, n) == IF i = j /\ n = number THEN SampleValue ELSE 0
  <1>1. number \in RegisterNumbers(Occupied(g, j)) /\ total \in Nat
    BY AreasOfDevice
  <1> DEFINE at == RegisterPlace(Area(g, j), number)
  <1>2. memory = [cleared EXCEPT ![at] = CC_TO_LE16(SampleValue)]
    BY AreasOfDevice DEF clm_iefb_set_rww_value, SetRegister
  <1>3. DOMAIN cleared = places /\ (\A place \in places : cleared[place] = <<0, 0>>)
    BY <1>1, Cleared
  <1>4. at \in places
    BY <1>1, RegisterOfGroup
  <1> HIDE DEF cleared, at, places
  <1>5. /\ DOMAIN memory = places
        /\ memory[at] = CC_TO_LE16(SampleValue)
        /\ \A place \in places : place # at => memory[place] = <<0, 0>>
    BY <1>2, <1>3, <1>4
  <1> HIDE DEF memory
  <1>6. ASSUME NEW i \in device_nos(g), NEW n \in Registers(g, i)
        PROVE  CC_FROM_LE16(memory[RegisterPlace(Area(g, i), n)]) = expected(i, n)
    <2>1. n \in RegisterNumbers(Occupied(g, i))
      BY AreasOfDevice
    <2>2. RegisterPlace(Area(g, i), n) = at <=> i = j /\ n = number
      BY <1>1, <2>1, RegistersOfGroup DEF at
    <2>3. RegisterPlace(Area(g, i), n) \in places
      BY <2>1, RegisterOfGroup DEF places
    <2> QED BY <1>5, <2>2, <2>3, SampleBytes
  <1>7. ASSUME NEW i \in device_nos(g), NEW n \in Registers(g, i)
        PROVE  clm_iefb_get_rww_value(memory, g, i, n) = expected(i, n)
    BY <1>6, AreasOfDevice DEF clm_iefb_get_rww_value
  <1>8. ASSUME NEW i \in device_nos(g), NEW n \in Registers(g, i),
               i \in Served(g, frame)
        PROVE  cls_iefb_get_rww_value(got(i), n) = expected(i, n)
    <2> DEFINE a == n \div 32
               b == n % 32
               p == <<Area(g, i) + a, b>>
               own == ClearedRegisters(Occupied(g, i))
    <2>1. n \in RegisterNumbers(Occupied(g, i)) /\ Occupied(g, i) \in Nat
          /\ Area(g, i) \in Nat
      BY AreasOfDevice
    <2>2. /\ i \in DevicesOn(g, frame)
          /\ my_slave_station_no(Setting(g, i).slave_id, frame) - 1 = Area(g, i)
      BY <1>8, ServedFindsItsPart
    <2>3. /\ RegisterPlace(Area(g, i), n) = p
          /\ RegisterPlace(0, n) = <<a, b>>
          /\ a \in 0 .. Occupied(g, i) - 1
          /\ b \in 0 .. 31
          /\ p \in places
          /\ DeviceAt(g, Area(g, i) + a + 1) = i
      BY <2>1, RegisterOfGroup DEF places
    <2>4. sent[p] = memory[p]
      <3>1. p[1] = Area(g, i) + a
        OBVIOUS
      <3> HIDE DEF p, a, b
      <3>2. sent[p] = IF DeviceAt(g, p[1] + 1) \in DevicesOn(g, frame)
                      THEN memory[p] ELSE <<0, 0>>
        BY <1>5, <2>3 DEF RequestRegisters
      <3> QED BY <2>2, <2>3, <3>1, <3>2
    <2>5. got(i) = CopyRegisters(sent, Area(g, i), 0, Occupied(g, i), own)
      BY <2>2 DEF SlaveRegisters
    <2>6. got(i)[<<a, b>>] = sent[p]
      <3> DEFINE q == <<a, b>>
      <3>1. q \in DOMAIN own
        BY <2>1, <2>3, Cleared
      <3>2. /\ q[1] \in 0 .. 0 + Occupied(g, i) - 1
            /\ <<q[1] - 0 + Area(g, i), q[2]>> = p
        BY <2>1, <2>3
      <3> HIDE DEF q, p, a, b, own, got, sent
      <3>3. CopyRegisters(sent, Area(g, i), 0, Occupied(g, i), own)[q]
                = sent[<<q[1] - 0 + Area(g, i), q[2]>>]
        BY <3>1, <3>2 DEF CopyRegisters
      <3> QED BY <2>5, <3>2, <3>3 DEF q
    <2> HIDE DEF p, a, b, own, got, sent
    <2>7. got(i)[RegisterPlace(0, n)] = memory[RegisterPlace(Area(g, i), n)]
      BY <2>3, <2>4, <2>6
    <2> QED BY <1>6, <2>7 DEF cls_iefb_get_rww_value
  <1> QED BY <1>7, <1>8 DEF OutputRegisterArrives, memory, cleared

LEMMA InputRegisters ==
    ASSUME NEW g \in group_nos, NEW j \in device_nos(g), NEW number \in Registers(g, j)
    PROVE  InputRegisterArrives(g, j, number)
  <1> DEFINE total == total_occupied_of[g]
             own == ClearedRegisters(Occupied(g, j))
             cleared == ClearedRegisters(total)
             rwr == cls_iefb_set_rwr_value(own, number, SampleValue)
             memory == clm_iefb_store_incoming_registers(g, j, rwr)
             expected(i, n) == IF i = j /\ n = number THEN SampleValue ELSE 0
  <1>1. /\ number \in RegisterNumbers(Occupied(g, j)) /\ total \in Nat
        /\ Area(g, j) \in Nat /\ Occupied(g, j) \in Nat
        /\ Area(g, j) + Occupied(g, j) <= total
    BY AreasOfDevice
  <1>2. /\ DOMAIN own = (0 .. Occupied(g, j) - 1) \X (0 .. 31)
        /\ \A place \in (0 .. Occupied(g, j) - 1) \X (0 .. 31) : own[place] = <<0, 0>>
    BY <1>1, Cleared
  <1>3. SampleValue \in Nat /\ SampleValue < 65536
    BY DEF SampleValue
  <1>4. memory = CopyRegisters(rwr, 0, Area(g, j), Occupied(g, j), cleared)
    BY DEF clm_iefb_store_incoming_registers, Area
  <1>5. ASSUME NEW n \in RegisterNumbers(Occupied(g, j))
        PROVE  RegisterPlace(0, n) \in DOMAIN own
    <2>1. /\ RegisterPlace(0, n) = <<n \div 32, n % 32>>
          /\ n \div 32 \in 0 .. Occupied(g, j) - 1
          /\ n % 32 \in 0 .. 31
      BY RegisterOfGroup
    <2> QED BY <1>2, <2>1
  <1>6. cls_iefb_get_rwr_value(rwr, number) = SampleValue
    <2> HIDE DEF own
    <2>1. RegisterPlace(0, number) \in DOMAIN own
      BY <1>1, <1>5
    <2>2. rwr[RegisterPlace(0, number)] = CC_TO_LE16(SampleValue)
      BY <2>1 DEF cls_iefb_set_rwr_value, SetRegister
    <2> HIDE DEF rwr
    <2> QED BY <2>2, SampleBytes DEF cls_iefb_get_rwr_value
  <1>7. ASSUME NEW i \in device_nos(g), NEW n \in Registers(g, i)
        PROVE  clm_iefb_get_rwr_value(memory, g, i, n) = expected(i, n)
    <2>1. n \in RegisterNumbers(Occupied(g, i)) /\ Occupied(g, i) \in Nat
      BY AreasOfDevice
    <2>2. clm_iefb_get_rwr_value(memory, g, i, n)
                = CC_FROM_LE16(memory[RegisterPlace(Area(g, i), n)])
      BY AreasOfDevice DEF clm_iefb_get_rwr_value
    <2>3. CASE i = j
      <3> HIDE DEF own, cleared, total
      <3>1. CC_FROM_LE16(memory[RegisterPlace(Area(g, j), n)])
                = IF n = number THEN SampleValue ELSE cls_iefb_get_rwr_value(own, n)
        <4> DEFINE area == Area(g, j)
                   occupied == Occupied(g, j)
        <4>1. /\ area \in Nat /\ occupied \in Nat /\ total \in Nat
              /\ area + occupied <= total
              /\ number \in RegisterNumbers(occupied)
              /\ n \in RegisterNumbers(occupied)
              /\ HasRegisters(own, occupied)
          BY <1>1, <1>2, <2>1, <2>3 DEF HasRegisters
        <4> HIDE DEF area, occupied
        <4> HIDE DEF memory
        <4>2. memory = CopyRegisters(cls_iefb_set_rwr_value(own, number, SampleValue),
                                     0, area, occupied, ClearedRegisters(total))
          BY <1>4 DEF area, occupied, cleared
        <4>3. CC_FROM_LE16(memory[RegisterPlace(area, n)])
                = IF n = number THEN SampleValue ELSE cls_iefb_get_rwr_value(own, n)
          BY <1>3, <4>1, <4>2, InputRegisterIsExact
        <4> QED BY <4>3 DEF area
      <3>2. cls_iefb_get_rwr_value(own, n) = 0
        <4>1. RegisterPlace(0, n) \in DOMAIN own
          BY <1>5, <2>1, <2>3
        <4>2. own[RegisterPlace(0, n)] = <<0, 0>>
          BY <1>2, <4>1
        <4> QED BY <4>2, SampleBytes DEF cls_iefb_get_rwr_value
      <3> QED BY <2>2, <2>3, <3>1, <3>2
    <2>4. CASE i # j
      <3> DEFINE p == RegisterPlace(Area(g, i), n)
                 a == n \div 32
      <3>1. /\ p = <<Area(g, i) + a, n % 32>>
            /\ a \in 0 .. Occupied(g, i) - 1
            /\ p \in (0 .. total - 1) \X (0 .. 31)
        BY <2>1, RegisterOfGroup
      <3>2. p[1] = Area(g, i) + a
        BY <3>1
      <3>3. ASSUME p[1] \in Area(g, j) .. Area(g, j) + Occupied(g, j) - 1
            PROVE  FALSE
        <4> DEFINE b == p[1] - Area(g, j)
        <4>1. b \in 0 .. Occupied(g, j) - 1 /\ p[1] = Area(g, j) + b
          BY <1>1, <3>3
        <4> HIDE DEF b, p, a
        <4> QED BY <2>4, <3>1, <3>2, <4>1, AreasApart
      <3>4. p \in DOMAIN cleared /\ cleared[p] = <<0, 0>>
        BY <1>1, <3>1, Cleared
      <3> HIDE DEF p, a, cleared, rwr, memory
      <3>5. memory[p] = <<0, 0>>
        BY <1>4, <3>3, <3>4 DEF CopyRegisters
      <3> QED BY <2>2, <2>4, <3>5, SampleBytes DEF p
    <2> QED BY <2>3, <2>4
  <1> HIDE DEF own, rwr, memory
  <1> QED BY <1>6, <1>7 DEF InputRegisterArrives, own, rwr, memory

(***************************************************************************)
(* REQ_CLS_CYCLIC_01 to _03, for every configuration that                  *)
(* clm_validate_config() accepts and in every request the master sends:    *)
(* what clm_iefb_set_ry_bit() and clm_iefb_set_rww_value() write is read   *)
(* by that slave under that number and by nobody else, and the same for    *)
(* the way back by clm_iefb_store_incoming_cyclic_data().                  *)
(***************************************************************************)
THEOREM MasterDataArrives == Spec => []DataArrives
  <1>1. IInv /\ RequestsFit => DataArrives
    <2> SUFFICES ASSUME IInv, RequestsFit, NEW g \in group_nos,
                        NEW frame \in clm.groups[g].sent, NEW j \in device_nos(g)
                 PROVE  /\ \A number \in Bits(g, j) :
                                /\ OutputBitArrives(g, frame, j, number)
                                /\ InputBitArrives(g, j, number)
                        /\ \A number \in Registers(g, j) :
                                /\ OutputRegisterArrives(g, frame, j, number)
                                /\ InputRegisterArrives(g, j, number)
      BY DEF DataArrives
    <2> DEFINE devs == clm.groups[g].slave_devices
    <2>1. Describes(frame, devs, g)
      BY DEF RequestsFit, RequestFits
    <2>2. IdsOf(devs, g)
      BY DEF IInv, MasterOK, StackOK, GroupOK, DevicesOK, DeviceOK, DeviceType, IdsOf
    <2> HIDE DEF devs
    <2> QED BY <2>1, <2>2, OutputBits, InputBits, OutputRegisters, InputRegisters
  <1> QED BY <1>1, MasterRequestsFit, PTL

-----------------------------------------------------------------------------
(***************************************************************************)
(* DataArrives follows one bit and one register through a cleared memory,  *)
(* at the numbers on the borders of bytes and areas.  What it samples      *)
(* holds of every number, every value and every contents of the memory: a  *)
(* served slave reads what was written last under that number, and         *)
(* everything else as it was.                                              *)
(***************************************************************************)
EveryOutputBitArrives ==
    \A g \in group_nos : \A frame \in clm.groups[g].sent :
        \A j \in device_nos(g), i \in Served(g, frame) :
            \A number \in BitNumbers(Occupied(g, j)), value \in BOOLEAN,
               n \in BitNumbers(Occupied(g, i)) : \A ry :
                LET memory == clm_iefb_set_ry_bit(ry, g, j, number, value)
                    got == SlaveBits(frame, Setting(g, i).slave_id, Occupied(g, i),
                                     RequestBits(g, frame, memory))
                IN  cls_iefb_get_ry_bit(got, n)
                        <=> IF i = j /\ n = number THEN value
                            ELSE clm_iefb_get_ry_bit(ry, g, i, n)

RegisterValues == {value \in Nat : value < 65536}

EveryOutputRegisterArrives ==
    \A g \in group_nos : \A frame \in clm.groups[g].sent :
        \A j \in device_nos(g), i \in Served(g, frame) :
            \A number \in RegisterNumbers(Occupied(g, j)), value \in RegisterValues,
               n \in RegisterNumbers(Occupied(g, i)) : \A rww :
                LET memory == clm_iefb_set_rww_value(rww, g, j, number, value)
                    got == SlaveRegisters(frame, Setting(g, i).slave_id,
                                          Occupied(g, i),
                                          RequestRegisters(g, frame, memory))
                IN  HasRegisters(rww, total_occupied_of[g]) =>
                        cls_iefb_get_rww_value(got, n)
                            = IF i = j /\ n = number THEN value
                              ELSE clm_iefb_get_rww_value(rww, g, i, n)

LEMMA AnyOutputBit ==
    ASSUME NEW g \in group_nos, NEW devs, NEW frame, Describes(frame, devs, g),
           IdsOf(devs, g), NEW j \in device_nos(g), NEW i \in Served(g, frame),
           NEW number \in BitNumbers(Occupied(g, j)), NEW value \in BOOLEAN,
           NEW n \in BitNumbers(Occupied(g, i)), NEW ry,
           NEW memory, memory = clm_iefb_set_ry_bit(ry, g, j, number, value)
    PROVE  cls_iefb_get_ry_bit(
                SlaveBits(frame, Setting(g, i).slave_id, Occupied(g, i),
                          RequestBits(g, frame, memory)), n)
                <=> IF i = j /\ n = number THEN value
                    ELSE clm_iefb_get_ry_bit(ry, g, i, n)
  <1> DEFINE sent == RequestBits(g, frame, memory)
             got == SlaveBits(frame, Setting(g, i).slave_id, Occupied(g, i), sent)
  <1>1. /\ i \in device_nos(g) /\ i \in DevicesOn(g, frame)
        /\ my_slave_station_no(Setting(g, i).slave_id, frame) - 1 = Area(g, i)
    BY ServedFindsItsPart
  <1>2. /\ Area(g, i) \in Nat /\ Occupied(g, i) \in Nat /\ 0 \in Nat
        /\ clm_iefb_get_first_device_area(g, i) = Area(g, i)
        /\ clm_iefb_get_first_device_area(g, j) = Area(g, j)
    BY <1>1, AreasOfDevice
  <1>3. got = CopyBits(sent, Area(g, i), 0, Occupied(g, i))
    BY <1>1 DEF SlaveBits
  <1> HIDE DEF sent, got
  <1>4. BitPlace(0, n) \in got <=> BitPlace(Area(g, i), n) \in sent
    BY <1>2, <1>3, CopiedBit
  <1>5. BitPlace(Area(g, i), n) \in sent <=> BitPlace(Area(g, i), n) \in memory
    BY <1>1, BitInRequest DEF sent
  <1>6. BitPlace(Area(g, i), n) = BitPlace(Area(g, j), number)
            <=> i = j /\ n = number
    BY <1>1, BitsOfGroup
  <1>7. memory = SetBit(ry, BitPlace(Area(g, j), number), value)
    BY <1>2 DEF clm_iefb_set_ry_bit
  <1>8. BitPlace(Area(g, i), n) \in memory
            <=> IF i = j /\ n = number THEN value
                ELSE BitPlace(Area(g, i), n) \in ry
    BY <1>6, <1>7 DEF SetBit
  <1>9. clm_iefb_get_ry_bit(ry, g, i, n) <=> BitPlace(Area(g, i), n) \in ry
    BY <1>2 DEF clm_iefb_get_ry_bit
  <1> QED BY <1>4, <1>5, <1>8, <1>9 DEF cls_iefb_get_ry_bit, got, sent

(* The register of a served device is read from its place in the memory.   *)
LEMMA RegisterReachesSlave ==
    ASSUME NEW g \in group_nos, NEW devs, NEW frame, Describes(frame, devs, g),
           IdsOf(devs, g), NEW i \in Served(g, frame),
           NEW n \in RegisterNumbers(Occupied(g, i)),
           NEW memory, HasRegisters(memory, total_occupied_of[g])
    PROVE  cls_iefb_get_rww_value(
                SlaveRegisters(frame, Setting(g, i).slave_id, Occupied(g, i),
                               RequestRegisters(g, frame, memory)), n)
                = clm_iefb_get_rww_value(memory, g, i, n)
  <1> DEFINE sent == RequestRegisters(g, frame, memory)
             own == ClearedRegisters(Occupied(g, i))
             got == SlaveRegisters(frame, Setting(g, i).slave_id, Occupied(g, i), sent)
             a == n \div 32
             b == n % 32
             p == <<Area(g, i) + a, b>>
             q == <<a, b>>
  <1>1. /\ i \in device_nos(g) /\ i \in DevicesOn(g, frame)
        /\ my_slave_station_no(Setting(g, i).slave_id, frame) - 1 = Area(g, i)
    BY ServedFindsItsPart
  <1>2. /\ Area(g, i) \in Nat /\ Occupied(g, i) \in Nat
        /\ clm_iefb_get_first_device_area(g, i) = Area(g, i)
    BY <1>1, AreasOfDevice
  <1>3. /\ RegisterPlace(Area(g, i), n) = p
        /\ RegisterPlace(0, n) = q
        /\ a \in 0 .. Occupied(g, i) - 1
        /\ b \in 0 .. 31
        /\ p \in (0 .. total_occupied_of[g] - 1) \X (0 .. 31)
        /\ DeviceAt(g, Area(g, i) + a + 1) = i
    BY <1>1, RegisterOfGroup
  <1>4. sent[p] = memory[p]
    <2>1. p[1] = Area(g, i) + a
      OBVIOUS
    <2> HIDE DEF p, a, b
    <2>2. p \in DOMAIN memory
      BY <1>3 DEF HasRegisters
    <2>3. sent[p] = IF DeviceAt(g, p[1] + 1) \in DevicesOn(g, frame)
                    THEN memory[p] ELSE <<0, 0>>
      BY <2>2 DEF RequestRegisters
    <2> QED BY <1>1, <1>3, <2>1, <2>3
  <1>5. got = CopyRegisters(sent, Area(g, i), 0, Occupied(g, i), own)
    BY <1>1 DEF SlaveRegisters
  <1>6. got[q] = sent[p]
    <2>1. q \in DOMAIN own
      BY <1>2, <1>3, Cleared
    <2>2. /\ q[1] \in 0 .. 0 + Occupied(g, i) - 1
          /\ <<q[1] - 0 + Area(g, i), q[2]>> = p
      BY <1>2, <1>3
    <2> HIDE DEF q, p, a, b, own, got, sent
    <2>3. CopyRegisters(sent, Area(g, i), 0, Occupied(g, i), own)[q]
              = sent[<<q[1] - 0 + Area(g, i), q[2]>>]
      BY <2>1, <2>2 DEF CopyRegisters
    <2> QED BY <1>5, <2>2, <2>3
  <1> HIDE DEF p, q, a, b, got, sent
  <1> QED BY <1>2, <1>3, <1>4, <1>6
          DEF cls_iefb_get_rww_value, clm_iefb_get_rww_value, got, sent

LEMMA RegisterValueFits ==
    ASSUME NEW value \in RegisterValues
    PROVE  value \in Nat /\ value < 65536
  BY DEF RegisterValues

LEMMA AnyOutputRegister ==
    ASSUME NEW g \in group_nos, NEW devs, NEW frame, Describes(frame, devs, g),
           IdsOf(devs, g), NEW j \in device_nos(g), NEW i \in Served(g, frame),
           NEW number \in RegisterNumbers(Occupied(g, j)), NEW value \in RegisterValues,
           NEW n \in RegisterNumbers(Occupied(g, i)), NEW rww,
           HasRegisters(rww, total_occupied_of[g]),
           NEW memory, memory = clm_iefb_set_rww_value(rww, g, j, number, value)
    PROVE  cls_iefb_get_rww_value(
                SlaveRegisters(frame, Setting(g, i).slave_id, Occupied(g, i),
                               RequestRegisters(g, frame, memory)), n)
                = IF i = j /\ n = number THEN value
                  ELSE clm_iefb_get_rww_value(rww, g, i, n)
  <1> DEFINE at == RegisterPlace(Area(g, j), number)
             place == RegisterPlace(Area(g, i), n)
  <1>1. i \in device_nos(g)
    BY DEF Served, DevicesOn
  <1>2. /\ clm_iefb_get_first_device_area(g, i) = Area(g, i)
        /\ clm_iefb_get_first_device_area(g, j) = Area(g, j)
    BY <1>1, AreasOfDevice
  <1>3. memory = [rww EXCEPT ![at] = CC_TO_LE16(value)]
    BY <1>2 DEF clm_iefb_set_rww_value, SetRegister
  <1>4. at \in DOMAIN rww /\ place \in DOMAIN rww
    <2>1. /\ at \in (0 .. total_occupied_of[g] - 1) \X (0 .. 31)
          /\ place \in (0 .. total_occupied_of[g] - 1) \X (0 .. 31)
      BY <1>1, RegisterOfGroup
    <2> HIDE DEF at, place
    <2> QED BY <2>1 DEF HasRegisters
  <1>5. place = at <=> i = j /\ n = number
    BY <1>1, RegistersOfGroup
  <1> HIDE DEF at, place
  <1>6. DOMAIN memory = DOMAIN rww
    BY <1>3
  <1>7. memory[place] = IF i = j /\ n = number THEN CC_TO_LE16(value) ELSE rww[place]
    <2>1. memory[place] = IF place = at THEN CC_TO_LE16(value) ELSE rww[place]
      BY <1>3, <1>4
    <2>2. CASE place = at
      BY <2>1, <2>2, <1>5
    <2>3. CASE place # at
      BY <2>1, <2>3, <1>5
    <2> QED BY <2>2, <2>3
  <1>8. value \in Nat /\ value < 65536
    BY RegisterValueFits
  <1>9. CC_FROM_LE16(CC_TO_LE16(value)) = value
    BY <1>8, LittleEndianIsExact
  <1>10. HasRegisters(memory, total_occupied_of[g])
    BY <1>6 DEF HasRegisters
  <1>11. /\ clm_iefb_get_rww_value(memory, g, i, n) = CC_FROM_LE16(memory[place])
         /\ clm_iefb_get_rww_value(rww, g, i, n) = CC_FROM_LE16(rww[place])
    BY <1>2 DEF clm_iefb_get_rww_value, place
  <1>12. clm_iefb_get_rww_value(memory, g, i, n)
            = IF i = j /\ n = number THEN value
              ELSE clm_iefb_get_rww_value(rww, g, i, n)
    BY <1>7, <1>9, <1>11
  <1> QED BY <1>10, <1>12, RegisterReachesSlave

(***************************************************************************)
(* clm_iefb_set_ry_bit() and clm_iefb_set_rww_value() for every number,    *)
(* every value and whatever the memory held: in every request the slaves   *)
(* that are served read exactly that change.                               *)
(***************************************************************************)
THEOREM MasterOutputIsExact ==
    Spec => [](EveryOutputBitArrives /\ EveryOutputRegisterArrives)
  <1>1. IInv /\ RequestsFit => EveryOutputBitArrives /\ EveryOutputRegisterArrives
    <2> SUFFICES ASSUME IInv, RequestsFit
                 PROVE  EveryOutputBitArrives /\ EveryOutputRegisterArrives
      OBVIOUS
    <2>1. ASSUME NEW g \in group_nos, NEW frame \in clm.groups[g].sent
          PROVE  /\ Describes(frame, clm.groups[g].slave_devices, g)
                 /\ IdsOf(clm.groups[g].slave_devices, g)
      BY DEF RequestsFit, RequestFits, IInv, MasterOK, StackOK, GroupOK, DevicesOK,
             DeviceOK, DeviceType, IdsOf
    <2>2. EveryOutputBitArrives
      BY <2>1, AnyOutputBit DEF EveryOutputBitArrives
    <2>3. EveryOutputRegisterArrives
      BY <2>1, AnyOutputRegister DEF EveryOutputRegisterArrives
    <2> QED BY <2>2, <2>3
  <1> QED BY <1>1, MasterRequestsFit, PTL
=============================================================================
