------------------------------- MODULE Server -------------------------------
(***************************************************************************)
(* The radio of the server (CAV/src/server.c): a handler that reacts to    *)
(* the events of the RADIO peripheral and drives it through receive, send, *)
(* disable and receive again.  What the grid answers to a reservation is a *)
(* set of routes; STG models how it is found.                              *)
(***************************************************************************)
EXTENDS Packet

CONSTANTS
  Requester,        (* who may send a packet *)
  Routes(_, _),     (* start, goal -> the lists of orders stg_reserve may give *)
  MaxId             (* bound: IDs, the last of which is not lost on its way *)

ASSUME ServerAssumption == MaxId \in Nat

VARIABLES
  state,        (* the STATE register of the radio *)
  event,        (* the EVENTS registers that are set *)
  rxmatch,      (* the logical address of the last packet received *)
  buffer,       (* packet[32] of the server *)
  current_id,
  asker,        (* history: who sent the last packet received *)
  booked        (* history: the last trip reserved, by vehicle ID *)

serverVars == << state, event, rxmatch, buffer, current_id, asker, booked >>

DELAY == 3      (* what stg_get_delay_until_departure gives on a free road *)

Trip == [start : Nat, goal : Nat]

ServerInit ==
  /\ state = "disabled" /\ event = {"DISABLED"}
  /\ rxmatch = 0
  /\ buffer = NoPacket
  /\ current_id = 0
  /\ asker \in Requester
  /\ booked = << >>

(***************************************************************************)
(* The peripheral: ramping up, ramping down.                               *)
(***************************************************************************)
Radio ==
  /\ \/ state = "rxru" /\ state' = "rxidle" /\ event' = event \cup {"READY"}
     \/ state = "txru" /\ state' = "txidle" /\ event' = event \cup {"READY"}
     \/ state = "txdisable" /\ state' = "disabled" /\ event' = event \cup {"DISABLED"}
  /\ UNCHANGED << rxmatch, buffer, current_id, asker, booked >>

Receive(address, bytes, c) ==
  /\ state = "rx" /\ state' = "rxidle"
  /\ event' = event \cup {"END"}
  /\ rxmatch' = address /\ buffer' = bytes /\ asker' = c
  /\ UNCHANGED << current_id, booked >>

Sent ==
  /\ state = "tx" /\ state' = "txidle"
  /\ event' = event \cup {"END"}
  /\ UNCHANGED << rxmatch, buffer, current_id, asker, booked >>

(***************************************************************************)
(* radio_interrupt_handler.                                                *)
(***************************************************************************)
(* The answer to a packet: an ID, or a reservation of the trip asked for. *)
GiveId ==
  /\ rxmatch = 0
  /\ current_id' = current_id + 1
  /\ buffer' = Overwrite(buffer, << current_id + 1, DELAY >>)
  /\ UNCHANGED booked

Reserve ==
  /\ rxmatch # 0
  /\ \E orders \in Routes(buffer[2], buffer[3]) : buffer' = Overwrite(buffer, orders)
  /\ booked' = [v \in DOMAIN booked \cup {rxmatch} |->
                  IF v = rxmatch THEN [start |-> buffer[2], goal |-> buffer[3]] ELSE booked[v]]
  /\ UNCHANGED current_id

Disabled ==
  /\ "DISABLED" \in event
  /\ event' = event \ {"DISABLED"} /\ state' = "rxru"
  /\ UNCHANGED << rxmatch, buffer, current_id, asker, booked >>

(* Mutant of End: END is not cleared. *)
End_kept ==
  /\ "DISABLED" \notin event /\ "END" \in event
  /\ event' = event
  /\ state' = CASE state = "rxidle" -> "txru"
                [] state = "txidle" -> "txdisable"
                [] OTHER            -> state
  /\ UNCHANGED << rxmatch, buffer, current_id, asker, booked >>

End ==
  /\ "DISABLED" \notin event /\ "END" \in event
  /\ event' = event \ {"END"}
  /\ state' = CASE state = "rxidle" -> "txru"
                [] state = "txidle" -> "txdisable"
                [] OTHER            -> state
  /\ UNCHANGED << rxmatch, buffer, current_id, asker, booked >>

Ready ==
  /\ event = {"READY"}
  /\ event' = {}
  /\ \/ /\ state = "rxidle" /\ state' = "rx"
        /\ UNCHANGED << buffer, current_id, booked >>
     \/ /\ state = "txidle" /\ state' = "tx"
        /\ GiveId \/ Reserve
  /\ UNCHANGED << rxmatch, asker >>

radio_interrupt_handler == Disabled \/ End \/ Ready
=============================================================================
