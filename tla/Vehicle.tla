------------------------------ MODULE Vehicle -------------------------------
(***************************************************************************)
(* The vehicles: the drive task (CAV/src/drive.c), which follows orders    *)
(* and asks for more, and the radio code (CAV/src/client.c), which gets    *)
(* them: the loop that asks for an ID, the transfer task, which sends a    *)
(* request again until somebody ends it, and the receive handler, which    *)
(* ends it and appends the orders of the reply.                            *)
(*                                                                         *)
(* The drive task has priority 1, the transfer task priority 2: it runs    *)
(* only while the drive task is blocked, that is asleep or waiting for the *)
(* IIC bus.  The handler runs before both.  The steps of the drive task    *)
(* are whole calls of the list functions; OrderList takes them apart.      *)
(*                                                                         *)
(* A step that transmits is completed in module Cav, which says who hears. *)
(***************************************************************************)
EXTENDS Packet

CONSTANTS
  Car,
  MaxTask,          (* tasks that can be created, CNF_MAX_TSKID less those in use *)
  MaxTrips,         (* bound: reservations of a car *)
  Rare              (* what the run lets happen, of "untimely", "late", "masked" *)

ASSUME VehicleAssumption ==
  /\ MaxTask \in Nat /\ MaxTrips \in Nat
  /\ Rare \subseteq {"untimely", "late", "masked"}

VARIABLES
  drive,    (* the drive task's state, of each car *)
  link,     (* the radio and what the radio code keeps, of each car *)
  task      (* the transfer tasks: the task table of each car *)

vehicleVars == << drive, link, task >>

GRID_MOVE_TIME == 2
D_LIST_MINIMUM_NUMBER == 4
E_LIMIT == 0 - 1

Task == 1 .. MaxTask

VehicleInit ==
  /\ drive = [c \in Car |->
       [pc |-> "ask", order_list |-> << >>, order |-> NULL,
        sent_flag |-> FALSE, last_count |-> 0,
        previous |-> POS(0, 0), current |-> POS(0, 0), trips |-> 0]]
  /\ link = [c \in Car |->
       [radio |-> "disabled", end |-> FALSE, enabled |-> FALSE,
        packet |-> NoPacket,
        txaddress |-> 0, task_id |-> 0, origin |-> c]]
  /\ task = [c \in Car |-> [t \in Task |-> "none"]]

(***************************************************************************)
(* The radio.  Its interrupt comes before any step of a task.              *)
(***************************************************************************)
Interrupted(c) ==
  link[c].enabled /\ link[c].end /\ link[c].radio = "rxidle"

(* Between two listening periods the interrupt is off and the radio is not. *)
Masked(c) == ~ link[c].enabled /\ drive[c].pc # "asking"

(* Every car listens on logical address 0. *)
Listens(c, address) ==
  /\ address = 0 /\ link[c].radio = "rx"
  /\ Masked(c) => "masked" \in Rare

(* l with the packet of an exchange that car o began in its buffer. *)
Heard(l, bytes, o) ==
  [l EXCEPT !.radio = "rxidle", !.end = TRUE, !.packet = bytes, !.origin = o]

StartListening(l) == [l EXCEPT !.radio = "rx", !.end = FALSE]

(* Mutant of NextTrip: the trip starts where the car came from. *)
NextTrip_stays(d) ==
  [d EXCEPT !.current = IF d.current = POS(4, 0) THEN POS(0, 4) ELSE POS(4, 0),
            !.trips = @ + 1]

(***************************************************************************)
(* reserve_order: the next trip is written into the packet and a task is   *)
(* created and started that sends it.  Tasks end, but nobody deletes them. *)
(***************************************************************************)
NextTrip(d) ==
  [d EXCEPT !.previous = d.current,
            !.current = IF d.current = POS(4, 0) THEN POS(0, 4) ELSE POS(4, 0),
            !.trips = @ + 1]

FreeTasks(c) == { t \in Task : task[c][t] = "none" }

reserve_order(c, d, l, delay) ==
  LET n == NextTrip(d)
      t == IF FreeTasks(c) = {} THEN E_LIMIT ELSE Min(FreeTasks(c))
  IN  /\ drive' = [drive EXCEPT ![c] = n]
      /\ link' = [link EXCEPT ![c] =
           [l EXCEPT !.packet = Overwrite(@, << delay, n.previous, n.current >>),
                     !.task_id = t]]
      /\ task' = IF t = E_LIMIT THEN task ELSE [task EXCEPT ![c][t] = "start"]

(***************************************************************************)
(* request_departure_time_ms: send, listen, look whether something came.   *)
(***************************************************************************)
AskSend(c) ==
  /\ drive[c].pc = "ask"
  /\ drive' = [drive EXCEPT ![c].pc = "asked"]
  /\ UNCHANGED task

AskListen(c) ==
  /\ drive[c].pc = "asked"
  /\ drive' = [drive EXCEPT ![c].pc = "asking"]
  /\ link' = [link EXCEPT ![c] = StartListening(@)]
  /\ UNCHANGED task

AskAgain(c) ==
  /\ drive[c].pc = "asking" /\ ~ link[c].end
  /\ drive' = [drive EXCEPT ![c].pc = "ask"]
  /\ UNCHANGED << link, task >>

(* The ID and the delay are taken, and the first reservation is made. *)
Adopt(c) ==
  /\ drive[c].pc = "asking" /\ link[c].end
  /\ LET l == link[c] IN
       reserve_order(c, [drive[c] EXCEPT !.pc = "sleep"],
                     [l EXCEPT !.end = FALSE, !.txaddress = l.packet[1]], l.packet[2])

(***************************************************************************)
(* start_drive.                                                            *)
(***************************************************************************)
Step(c, from) == drive[c].pc = from /\ ~ Interrupted(c)

(* The sleep until the departure ends and the entry order is put in. *)
Depart(c) ==
  /\ Step(c, "sleep")
  /\ drive[c].order_list = << >> => "late" \in Rare
  /\ drive' = [drive EXCEPT ![c].pc = "loop",
        ![c].order_list = << ORDER(MOVE_FORWARD, GRID_MOVE_TIME) >> \o @]
  /\ UNCHANGED << link, task >>

Look(c) ==
  /\ Step(c, "loop")
  /\ drive' = [drive EXCEPT ![c].pc = "check",
        ![c].sent_flag = @ /\ Len(drive[c].order_list) <= drive[c].last_count]
  /\ UNCHANGED << link, task >>

(* The time of all orders but the last. *)
calculate_departure_delay_s(list) ==
  LET before[i \in 1 .. Len(list) + 1] ==
        IF i = 1 THEN 0 ELSE before[i - 1] + get_order_duration(list[i - 1])
  IN  before[IF list = << >> THEN 1 ELSE Len(list)]

Enough(d) == Len(d.order_list) >= D_LIST_MINIMUM_NUMBER \/ d.sent_flag

process_orders(c) ==
  /\ Step(c, "check")
  /\ LET d == drive[c] IN
       IF Enough(d)
       THEN drive' = [drive EXCEPT ![c].pc = "get"] /\ UNCHANGED << link, task >>
       ELSE /\ d.trips < MaxTrips
            /\ reserve_order(c, [d EXCEPT !.pc = "get", !.sent_flag = TRUE,
                                          !.last_count = Len(d.order_list)],
                             link[c], calculate_departure_delay_s(d.order_list))

(* follow_path: the order is passed by value; there may be none. *)
Follow(c) ==
  /\ Step(c, "get")
  /\ LET d == drive[c] IN
       IF d.order_list = << >>
       THEN drive' = [drive EXCEPT ![c].pc = "shift", ![c].order = NULL]
       ELSE drive' = [drive EXCEPT ![c].pc = "follow", ![c].order = d.order_list[1]]
  /\ UNCHANGED << link, task >>

Arrive(c) ==
  /\ Step(c, "follow")
  /\ Len(drive[c].order_list) = 1 => "late" \in Rare
  /\ drive' = [drive EXCEPT ![c].pc = "shift"]
  /\ UNCHANGED << link, task >>

Shift(c) ==
  /\ Step(c, "shift")
  /\ drive' = [drive EXCEPT ![c].pc = "loop", ![c].order = NULL,
        ![c].order_list = IF @ = << >> THEN @ ELSE Tail(@)]
  /\ UNCHANGED << link, task >>

(***************************************************************************)
(* transfer_task.  Of several, one at a time: they have the same priority, *)
(* and one that is not asleep waits actively.                              *)
(***************************************************************************)
Blocked(c) == drive[c].pc \in {"sleep", "follow"}

Turn(c, t) ==
  /\ Blocked(c) /\ ~ Interrupted(c)
  /\ \A u \in Task \ {t} : task[c][u] # "sent"

TransferSend(c, t) ==
  /\ Turn(c, t) /\ task[c][t] \in {"start", "woken"}
  /\ task' = [task EXCEPT ![c][t] = "sent"]
  /\ UNCHANGED drive

TransferListen(c, t) ==
  /\ Turn(c, t) /\ task[c][t] = "sent"
  /\ task' = [task EXCEPT ![c][t] = "listening"]
  /\ link' = [link EXCEPT ![c] = [StartListening(@) EXCEPT !.enabled = TRUE]]
  /\ UNCHANGED drive

(* Mutant of TransferTimeout: the request is sent once. *)
TransferTimeout_ends(c, t) ==
  /\ Turn(c, t) /\ task[c][t] = "listening"
  /\ task' = [task EXCEPT ![c][t] = "dormant"]
  /\ link' = [link EXCEPT ![c].enabled = FALSE]
  /\ UNCHANGED drive

(* Nothing came for 10 ms; the radio goes on listening, without interrupt. *)
TransferTimeout(c, t) ==
  /\ Turn(c, t) /\ task[c][t] = "listening"
  /\ task' = [task EXCEPT ![c][t] = "woken"]
  /\ link' = [link EXCEPT ![c].enabled = FALSE]
  /\ UNCHANGED drive

(***************************************************************************)
(* receive_interrupt_handler.                                              *)
(***************************************************************************)
(* Mutant of Appended: list_unshift for list_append. *)
Appended_before(list, orders) == orders \o list

(***************************************************************************)
(* The list after the orders of a reply, one after the other: an order     *)
(* that equals the last one of the list makes that one longer instead,     *)
(* which then differs from the next.                                       *)
(***************************************************************************)
Lengthened(order) == order + get_order_duration(order)

AppendOrder[list \in Seq(Nat)] ==
  [order \in Nat |->
     IF list # << >> /\ Last(list) = order
     THEN [list EXCEPT ![Len(list)] = Lengthened(order)]
     ELSE Append(list, order)]

Appended(list, orders) ==
  LET after[i \in 0 .. Len(orders)] ==
        IF i = 0 THEN list ELSE AppendOrder[after[i - 1]][orders[i]]
  IN  after[Len(orders)]

(* Mutant of receive_interrupt_handler: tk_ter_tsk is forgotten. *)
receive_interrupt_handler_alive(c) ==
  /\ Interrupted(c)
  /\ LET l == link[c] IN
       /\ link' = [link EXCEPT ![c].end = FALSE, ![c].radio = "disabled",
                               ![c].enabled = FALSE]
       /\ drive' = [drive EXCEPT ![c].order_list = Appended(@, OrdersIn(l.packet))]
  /\ UNCHANGED task

receive_interrupt_handler(c) ==
  /\ Interrupted(c)
  /\ LET l == link[c] IN
       /\ link' = [link EXCEPT ![c].end = FALSE, ![c].radio = "disabled",
                               ![c].enabled = FALSE]
       /\ task' = IF l.task_id = E_LIMIT THEN task
                  ELSE [task EXCEPT ![c][l.task_id] = "dormant"]
       /\ drive' = [drive EXCEPT ![c].order_list = Appended(@, OrdersIn(l.packet))]

(* Between sending and listening. *)
Switching(c) == drive[c].pc = "asked" \/ \E t \in Task : task[c][t] = "sent"

(* A listening period ends and nothing has come. *)
TimeOut(c) == AskAgain(c) \/ \E t \in Task : TransferTimeout(c, t)

(* The other steps of car c that change nothing outside it. *)
Quiet(c) ==
  \/ AskListen(c) \/ Adopt(c)
  \/ Depart(c) \/ Look(c) \/ process_orders(c) \/ Follow(c) \/ Arrive(c) \/ Shift(c)
  \/ \E t \in Task : TransferListen(c, t)
  \/ receive_interrupt_handler(c)
=============================================================================
