-------------------------------- MODULE Cav ---------------------------------
(***************************************************************************)
(* The vehicles and the server on one radio channel.  A packet reaches     *)
(* those who listen when its transmission ends, or some of them, or none;  *)
(* on logical address 0 that may be the server or another vehicle.         *)
(***************************************************************************)
EXTENDS Vehicle, Server

ASSUME CavAssumption == Requester \subseteq Car

vars == << vehicleVars, serverVars >>

Init == VehicleInit /\ ServerInit

(* The links of the cars after a transmission of bytes that cars hear. *)
LinksHearing(cars, bytes, o, links) ==
  [c \in Car |-> IF c \in cars THEN Heard(links[c], bytes, o) ELSE links[c]]

Listeners(address) == { c \in Car : Listens(c, address) }

(***************************************************************************)
(* Car c sends its packet: the radio is disabled, sends and is idle.  It   *)
(* may be heard by the server, by other cars, by nobody.                   *)
(***************************************************************************)
Transmission(c, cars) ==
  link' = LinksHearing(cars, link[c].packet, c,
            [link EXCEPT ![c].radio = "txidle", ![c].end = FALSE])

CarSends(c) == AskSend(c) \/ \E t \in Task : TransferSend(c, t)

CarHeard(c) ==
  /\ CarSends(c)
  /\ Transmission(c, {})
  /\ Receive(link[c].txaddress, link[c].packet, c)

CarLost(c) ==
  /\ CarSends(c)
  /\ \E cars \in SUBSET (Listeners(link[c].txaddress) \ {c}) : Transmission(c, cars)
  /\ UNCHANGED serverVars

(* The server's answer goes out on address 0, for whoever listens. *)
Answer(cars) ==
  /\ Sent
  /\ (\E c \in Car : Switching(c)) => "untimely" \in Rare
  /\ link' = LinksHearing(cars, buffer, asker, link)
  /\ UNCHANGED << drive, task >>

Answered(c) ==
  c = asker /\ \E cars \in SUBSET Listeners(0) : c \in cars /\ Answer(cars)

Unanswered ==
  /\ rxmatch = 0 => current_id < MaxId
  /\ \E cars \in SUBSET Listeners(0) : asker \notin cars /\ Answer(cars)

(* Unless answers are untimely, the server gives one while the car waits. *)
CarAlone(c) ==
  /\ \/ Quiet(c)
     \/ TimeOut(c) /\ (state # "rx" => "untimely" \in Rare)
  /\ UNCHANGED serverVars

ServerAlone == (Radio \/ radio_interrupt_handler) /\ UNCHANGED vehicleVars

Next ==
  \/ \E c \in Car : CarHeard(c) \/ CarLost(c) \/ CarAlone(c) \/ Answered(c)
  \/ Unanswered
  \/ ServerAlone

Fairness ==
  /\ WF_vars(ServerAlone) /\ WF_vars(Sent /\ (Unanswered \/ \E c \in Car : Answered(c)))
  /\ \A c \in Car :
       /\ WF_vars(CarAlone(c)) /\ WF_vars(CarHeard(c) \/ CarLost(c))
       /\ SF_vars(CarHeard(c)) /\ SF_vars(Answered(c))

Spec == Init /\ [][Next]_vars /\ Fairness

(***************************************************************************)
(* The trips that reserve_order asks for, one after the other, and what    *)
(* the list of orders needs of the routes the server gives for them: they  *)
(* fit the packet and are long enough, and neither in a route nor where    *)
(* one follows another does an order come twice when the first has been    *)
(* made longer, or equal where one route ends and the next begins.         *)
(***************************************************************************)
Demonstration ==
  { << POS(0, 0), POS(4, 0) >>, << POS(4, 0), POS(0, 4) >>, << POS(0, 4), POS(4, 0) >> }

DemonstrationRoutes == UNION { Routes(trip[1], trip[2]) : trip \in Demonstration }

RoutesSuit ==
  \A r \in DemonstrationRoutes :
    /\ r \in Seq(Nat) /\ Len(r) \in 7 .. PacketLength /\ 0 \notin Range(r)
    /\ \A i \in 1 .. 6 : r[i + 1] # Lengthened(r[i])
    /\ \A q \in DemonstrationRoutes : r[1] \notin {Last(q), Lengthened(Last(q))}

-----------------------------------------------------------------------------
TypeOK ==
  /\ \A c \in Car :
       /\ drive[c] \in [pc : {"ask", "asked", "asking", "sleep", "loop", "check", "get",
                             "follow", "shift"},
                       order_list : Seq(Nat), order : Nat, sent_flag : BOOLEAN,
                       last_count : Nat, previous : Nat, current : Nat, trips : Nat]
       /\ link[c] \in [radio : {"disabled", "txidle", "rx", "rxidle"}, end : BOOLEAN,
                      enabled : BOOLEAN, packet : [1 .. PacketLength -> Nat], txaddress : Nat,
                      task_id : Int, origin : Car]
       /\ task[c] \in [Task -> {"none", "start", "sent", "listening", "woken", "dormant"}]
  /\ state \in {"disabled", "rxru", "rxidle", "rx", "txru", "txidle", "tx", "txdisable"}
  /\ event \subseteq {"READY", "END", "DISABLED"}
  /\ rxmatch \in Nat /\ buffer \in [1 .. PacketLength -> Nat] /\ current_id \in Nat

Alive(c) == { t \in Task : task[c][t] \notin {"none", "dormant"} }

(***************************************************************************)
(* "No request until the last one has been answered" (drive.c:57): there   *)
(* is never more than one transfer task.                                   *)
(***************************************************************************)
OneRequest == \A c \in Car : Cardinality(Alive(c)) <= 1

(***************************************************************************)
(* start_drive takes off the list the order it has followed, although the  *)
(* handler may append to the list, and change its last order, meanwhile.   *)
(***************************************************************************)
DropsWhatItFollowed ==
  \A c \in Car :
    LET d == drive[c] IN
      d.pc = "shift" /\ d.order_list # << >> => d.order = d.order_list[1]

(***************************************************************************)
(* A car that believes a request to be under way is right: somebody will   *)
(* send it again, or the answer is in the list already and so long that    *)
(* start_drive notices.                                                    *)
(***************************************************************************)
WaitsForSomething ==
  \A c \in Car :
    drive[c].sent_flag => Alive(c) # {} \/ Len(drive[c].order_list) > drive[c].last_count

(* A vehicle's booking is changed to a trip that starts where the last one ended. *)
BooksOn ==
  \A v \in DOMAIN booked : booked'[v] = booked[v] \/ booked'[v].start = booked[v].goal

(***************************************************************************)
(* The server books one trip after the other: the next one starts where    *)
(* the last one ended, or it is the same once more, its answer being lost. *)
(***************************************************************************)
TripsChain == [][BooksOn]_booked

(***************************************************************************)
(* Every car gets on the road and every request is answered in the end, if *)
(* packets that are sent again and again get through and from some time on *)
(* answers come while the car listens.                                     *)
(***************************************************************************)
Untimely ==
  \/ (\E c \in Car : Switching(c)) /\ (Unanswered \/ \E c \in Car : Answered(c))
  \/ state # "rx" /\ (\E c \in Car : TimeOut(c)) /\ UNCHANGED serverVars

Supplied ==
  <>[][~Untimely]_vars =>
    \A c \in Car :
      /\ drive[c].pc = "ask" ~> drive[c].pc = "follow"
      /\ drive[c].sent_flag ~> ~ drive[c].sent_flag

(***************************************************************************)
(* Whatever the order in which READY, END and DISABLED come and are        *)
(* cleared, the server goes back to listening.                             *)
(***************************************************************************)
ServerListens == []<>(state = "rx")
=============================================================================
