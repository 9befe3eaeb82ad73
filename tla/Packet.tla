------------------------------- MODULE Packet -------------------------------
(***************************************************************************)
(* What vehicles and the server exchange: a packet of bytes, read as a     *)
(* request, an ID or a list of orders (CAV/header/order.h, STG.h,          *)
(* CAV/src/radio.c).                                                       *)
(***************************************************************************)
EXTENDS Integers, SequencesExt, FiniteSetsExt

CONSTANTS
  PacketLength     (* the bytes of a packet, 32 in the code *)

ASSUME PacketAssumption == PacketLength \in Nat /\ PacketLength >= 3

NULL == 0

POS(x, y) == 16 * x + y

MOVE_FORWARD == 8
TURN_LEFT    == 2
ORDER(d, s)  == 16 * d + s

get_order_duration(order) == order % 16

NoPacket == [i \in 1 .. PacketLength |-> 0]

(* Mutant of Overwrite: one byte too many is left. *)
Overwrite_long(buffer, bytes) == bytes \o SubSeq(buffer, Len(bytes), PacketLength)

(* The buffer when its first bytes are written and the rest is left. *)
Overwrite(buffer, bytes) == bytes \o SubSeq(buffer, Len(bytes) + 1, PacketLength)

(* The orders in a packet: the bytes before the first 0. *)
OrdersIn(buffer) ==
  SubSeq(buffer, 1, Min({ i \in DOMAIN buffer : buffer[i] = 0 } \cup {PacketLength + 1}) - 1)
=============================================================================
