------------------------------- MODULE ClAreas ------------------------------
(***************************************************************************)
(* The process data.  An area is the data of one station: 64 bits in 8     *)
(* bytes (RX, RY) or 32 registers of 16 bits, low byte first (RWr, RWw).   *)
(* The areas of the stations of a group, or of a slave, lie one behind the *)
(* other; the application names a bit or a register of a device by one     *)
(* number that goes on from area to area.                                  *)
(*                                                                         *)
(* Bits are the set of the places that are 1, a place being <<index of the *)
(* area, byte, bit>>.  Registers are a function from places <<index of the *)
(* area, register>> to pairs of bytes.  first is the index of the device's *)
(* first area.                                                             *)
(***************************************************************************)
EXTENDS Naturals

BitsInArea == 64
RegistersInArea == 32

(* The numbers for which the accessors do not stop the program: their area *)
(* is one of the device's.                                                 *)
BitNumbers(occupied) == 0 .. occupied * BitsInArea - 1
RegisterNumbers(occupied) == 0 .. occupied * RegistersInArea - 1

(* Fault variant: a byte's place is not taken within its area.             *)
ByteOfDevice(number) ==
    [areanumber |-> number \div 64, byte_in_area |-> number \div 8,
     bit |-> number % 8]

cl_iefb_bit_calculate_areanumber(number) ==
    [areanumber |-> number \div 64, byte_in_area |-> (number \div 8) % 8,
     bit |-> number % 8]

cl_iefb_register_calculate_areanumber(number) ==
    [areanumber |-> number \div 32, register_in_area |-> number % 32]

CC_TO_LE16(value) == <<value % 256, (value \div 256) % 256>>

CC_FROM_LE16(bytes) == bytes[1] + 256 * bytes[2]

BitPlace(first, number) ==
    LET at == cl_iefb_bit_calculate_areanumber(number)
    IN  <<first + at.areanumber, at.byte_in_area, at.bit>>

RegisterPlace(first, number) ==
    LET at == cl_iefb_register_calculate_areanumber(number)
    IN  <<first + at.areanumber, at.register_in_area>>

SetBit(bits, place, value) == IF value THEN bits \cup {place} ELSE bits \ {place}

SetRegister(registers, place, value) ==
    [registers EXCEPT ![place] = CC_TO_LE16(value)]

-----------------------------------------------------------------------------
(* The slave: RX and RWr are in the response frame, RY and RWw in its data *)
(* area.  A device's own areas start at 0.                                 *)

cls_iefb_set_rx_bit(rx, number, value) == SetBit(rx, BitPlace(0, number), value)

cls_iefb_get_rx_bit(rx, number) == BitPlace(0, number) \in rx

cls_iefb_get_ry_bit(ry, number) == BitPlace(0, number) \in ry

cls_iefb_set_rwr_value(rwr, number, value) ==
    SetRegister(rwr, RegisterPlace(0, number), value)

cls_iefb_get_rwr_value(rwr, number) == CC_FROM_LE16(rwr[RegisterPlace(0, number)])

cls_iefb_get_rww_value(rww, number) == CC_FROM_LE16(rww[RegisterPlace(0, number)])

-----------------------------------------------------------------------------
(* Areas are copied as a whole: occupied ones, from index from to index to.*)

CopyBits(bits, from, to, occupied) ==
    {place \in (to .. to + occupied - 1) \X (0 .. 7) \X (0 .. 7) :
        <<place[1] - to + from, place[2], place[3]>> \in bits}

CopyRegisters(registers, from, to, occupied, into) ==
    [place \in DOMAIN into |->
        IF place[1] \in to .. to + occupied - 1
        THEN registers[<<place[1] - to + from, place[2]>>] ELSE into[place]]

(* The memory of so many stations, cleared.                                *)
NoBits == {}

ClearedRegisters(stations) ==
    [place \in (0 .. stations - 1) \X (0 .. RegistersInArea - 1) |-> <<0, 0>>]
=============================================================================
