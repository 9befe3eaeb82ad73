------------------------------ MODULE STGTrips ------------------------------
(***************************************************************************)
(* The reservations of STG on the road of RoadMap, and what they mean to   *)
(* the vehicles that drive by them.                                        *)
(***************************************************************************)
EXTENDS STG, RoadMap, Trip, SequencesExt

(* How a vehicle stands where its trips begin: it drives in facing down,   *)
(* and the left turn that ends each trip makes it face the next one.       *)
TripHeading ==
  [c \in {<< 0, 0 >>, << 4, 0 >>, << 0, 4 >>} |->
     CASE c = << 0, 0 >> -> "down"
       [] c = << 4, 0 >> -> "left"
       [] c = << 0, 4 >> -> "right"]

Departure ==
  [cell |-> at[req.vehicle], dir |-> TripHeading[at[req.vehicle]],
   time |-> req.departure]

(***************************************************************************)
(* The orders and the bookings of a trip say the same, though they are     *)
(* made from different fields of the nodes: a vehicle that follows the     *)
(* orders from the cell, in the direction and at the second it departs     *)
(* holds, in every second still to come, the cell it is in or leaving; it  *)
(* ends at the target, at the second from which that is booked, and the    *)
(* final order turns it the way its next trip begins.                      *)
(***************************************************************************)
OrdersFollowBookings ==
  pc = "write" /\ Len(path) = 1 =>
    LET stop == Itinerary(Departure, orders)
        last == stop[Len(orders)]
    IN  /\ \A k \in 1 .. Len(orders), t \in server_time .. last.time :
             t \in stop[k - 1].time .. stop[k].time
               => stg_get_grid(t, stop[k - 1].cell) = req.vehicle
        /\ last.cell = req.target
        /\ last.time = node[req.target].h
        /\ follow_path(last, FinalOrder).dir = TripHeading[req.target]

=============================================================================
