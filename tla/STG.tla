-------------------------------- MODULE STG --------------------------------
(***************************************************************************)
(* The space-time grid of the server (CAV/src/STG.c): which vehicle holds  *)
(* which cell of the road in which second, the A* search for a route       *)
(* through the free part of it, and the reservation of the route found.    *)
(*                                                                         *)
(* Two interrupt handlers share it.  stg_reserve and                       *)
(* stg_get_delay_until_departure run in the radio handler (level 6);       *)
(* stg_handler runs every second in the physical timer's handler (level 3) *)
(* and preempts the radio handler at any point.  So a reservation is one   *)
(* action per iteration of its loops, and Tick may come between any two.   *)
(*                                                                         *)
(* A search node is known by its cell: index_of compares nothing else, and *)
(* open_list and closed_list together hold a cell at most once.            *)
(***************************************************************************)
EXTENDS Integers, Sequences, FiniteSets

CONSTANTS
  Cell,                (* the positions of the grid, pairs of numbers *)
  Moves,               (* Moves[c]: the cells one can drive to from c *)
  WaitCells,           (* the cells a vehicle may wait in *)
  RightTurnCell,       (* turning into this cell is a right turn *)
  Distance(_, _),      (* calculate_distance *)
  EntryCell,           (* where vehicles enter the road *)
  NextTarget,          (* NextTarget[c]: where a vehicle goes after c *)
  STG_BUFFER_LENGTH,   (* seconds the grid looks ahead, 1000 in the code *)
  MAX_NODES,           (* the length of open_list and closed_list *)
  Delays,              (* the departure delays vehicles send *)
  MaxId,               (* bound: vehicles that ask for an ID *)
  MaxTrips,            (* bound: reservations of one vehicle *)
  MaxTime,             (* bound: seconds of server time *)
  MaxPreempt           (* bound: timer ticks during one reservation *)

GRID_EMPTY     == 0
GRID_MOVE_TIME == 2
GRID_WAIT_TIME == 1
GRID_TURN_TIME == 3
TAIL_TIME      == 2    (* the seconds stg_reserve adds at the target *)

Vehicle == 1 .. MaxId
Slot    == 0 .. STG_BUFFER_LENGTH - 1

ASSUME CellAssumption ==
  /\ Cell \subseteq Nat \X Nat
  /\ IsFiniteSet(Cell)
  /\ EntryCell \in Cell
  /\ WaitCells \subseteq Cell
ASSUME MovesAssumption      == Moves \in [Cell -> Seq(Cell)]
ASSUME NextTargetAssumption == NextTarget \in [Cell -> Cell]
ASSUME DistanceAssumption   == \A a, b \in Cell : Distance(a, b) \in Nat
ASSUME SizeAssumption ==
  /\ STG_BUFFER_LENGTH \in Nat \ {0}
  /\ MAX_NODES \in Nat /\ Cardinality(Cell) <= MAX_NODES
ASSUME DelaysAssumption == Delays \subseteq Nat
ASSUME BoundAssumption ==
  MaxId \in Nat /\ MaxTrips \in Nat /\ MaxTime \in Nat /\ MaxPreempt \in Nat

VARIABLES
  server_time,
  grid,         (* spatio_temporal_grid: cell, slot -> vehicle or GRID_EMPTY *)
  led,          (* the cells lit on the 5 x 5 display *)
  current_id,   (* the last vehicle ID given out *)
  at,           (* environment: the cell each vehicle's next trip starts at *)
  trips,        (* environment: reservations made by each vehicle *)
  pc,           (* where the radio handler is *)
  req,          (* the reservation in progress *)
  open, closed, (* open_list, closed_list: sequences of cells *)
  node,         (* cell -> its search node *)
  current,      (* current_node *)
  moves,        (* valid_moves: neighbours still to be looked at *)
  path,         (* path_list *)
  orders,       (* the reply packet *)
  preempted     (* ticks since the reservation began *)

gridVars   == << server_time, grid, led >>
clientVars == << current_id, at, trips >>
searchVars == << open, closed, node, current, moves >>
vars == << gridVars, clientVars, pc, req, searchVars, path, orders, preempted >>

NoCell == << >>

Node == [h : Nat, g : Nat, parent : Cell \cup {NoCell}, moved : BOOLEAN, turned : BOOLEAN]

Start(h, g) ==
  [h |-> h, g |-> g, parent |-> NoCell, moved |-> FALSE, turned |-> FALSE]

Order == {"forward", "left", "right", "wait"} \X Nat

SlotOf(t) == t % STG_BUFFER_LENGTH

stg_get_grid(t, c) == grid[c][SlotOf(t)]

(* Seconds from .. to of cell c are given to v: stg_set_grid in a loop. *)
SetGrid(from, to, c, v) ==
  [grid EXCEPT ![c] = [s \in Slot |->
     IF \E i \in from .. to : SlotOf(i) = s THEN v ELSE @[s]]]

(* Mutant of check_grid: the last second is left out. *)
check_grid_short(from, to, c, v) ==
  \A i \in from .. to - 1 : stg_get_grid(i, c) \in {GRID_EMPTY, v}

(* check_grid: nobody but v holds cell c in the seconds from .. to. *)
check_grid(from, to, c, v) ==
  \A i \in from .. to : stg_get_grid(i, c) \in {GRID_EMPTY, v}

InList(c, list) == \E i \in DOMAIN list : list[i] = c

(***************************************************************************)
(* get_valid_moves.  A neighbour of c is the move to each cell of Moves[c] *)
(* and, where waiting is allowed, staying.  It is valid if the vehicle may *)
(* stay in c until it leaves: the cell it moves to is checked when its own *)
(* neighbours are looked for, or never.                                    *)
(***************************************************************************)
has_turned(c, n) ==
  /\ node[c].parent # NoCell
  /\ node[c].parent[1] # n[1]
  /\ node[c].parent[2] # n[2]

MoveTime(c, n) ==
  IF has_turned(c, n) THEN GRID_MOVE_TIME + GRID_TURN_TIME ELSE GRID_MOVE_TIME

(* A neighbour: the cell it is at and the node it becomes when it is kept. *)
MoveNode(c, n) ==
  [cell |-> n,
   node |-> [h |-> node[c].h + MoveTime(c, n), g |-> Distance(n, req.target),
             parent |-> c, moved |-> TRUE, turned |-> has_turned(c, n)]]

WaitNode(c) ==
  [cell |-> c,
   node |-> [h |-> node[c].h + GRID_WAIT_TIME, g |-> Distance(c, req.target),
             parent |-> c, moved |-> FALSE, turned |-> FALSE]]

Candidates(c) == 1 .. Len(Moves[c]) + (IF c \in WaitCells THEN 1 ELSE 0)

candidate_moves(c) ==
  [i \in Candidates(c) |->
     IF i <= Len(Moves[c]) THEN MoveNode(c, Moves[c][i]) ELSE WaitNode(c)]

(* The valid candidates, each by its place in candidate_moves. *)
get_valid_moves(c) ==
  { i \in Candidates(c) :
      check_grid(node[c].h, candidate_moves(c)[i].node.h, c, req.vehicle) }

calculate_f(c) == node[c].h + node[c].g

(* The first of the open nodes with the smallest F value. *)
IsBest(i) ==
  /\ \A j \in DOMAIN open : calculate_f(open[i]) <= calculate_f(open[j])
  /\ \A j \in 1 .. i - 1 : calculate_f(open[i]) < calculate_f(open[j])

(***************************************************************************)
(* stg_get_delay_until_departure: look at the seconds after now, one by    *)
(* one; give up at the first one in which the entry cell is taken, and be  *)
(* satisfied with eight free ones.                                         *)
(***************************************************************************)
ENTRY_GAP == 8

EntryTaken(d) == stg_get_grid(server_time + d, EntryCell) # GRID_EMPTY

stg_get_delay_until_departure ==
  IF \E d \in 1 .. ENTRY_GAP : EntryTaken(d)
  THEN CHOOSE d \in 1 .. ENTRY_GAP :
         EntryTaken(d) /\ \A e \in 1 .. d - 1 : ~ EntryTaken(e)
  ELSE 1 + 2

(* Mutant of OrdersInto: the turn comes after the move. *)
OrdersInto_swapped(n) ==
  LET forward == << "forward", GRID_MOVE_TIME >> IN
  IF node[n].turned THEN << forward, << "left", GRID_TURN_TIME >> >> ELSE << forward >>

(* The orders that take a vehicle into the node of cell n. *)
OrdersInto(n) ==
  LET forward == << "forward", GRID_MOVE_TIME >>
      side    == IF n = RightTurnCell THEN "right" ELSE "left"
  IN  CASE ~ node[n].moved -> << << "wait", GRID_WAIT_TIME >> >>
        [] node[n].moved /\ node[n].turned ->
             << << side, GRID_TURN_TIME >>, forward >>
        [] OTHER -> << forward >>

(* Mutant of FinalOrder: MOVE_BACKWARD for TURN_LEFT. *)
FinalOrder_backward == << "backward", GRID_TURN_TIME >>

FinalOrder == << "left", GRID_TURN_TIME >>

Init ==
  /\ server_time = 0
  /\ grid = [c \in Cell |-> [s \in Slot |-> GRID_EMPTY]]
  /\ led = {}
  /\ current_id = 0
  /\ at = [v \in Vehicle |-> EntryCell]
  /\ trips = [v \in Vehicle |-> 0]
  /\ pc = "idle"
  /\ req = [vehicle |-> GRID_EMPTY, target |-> EntryCell, departure |-> 0]
  /\ open = << >> /\ closed = << >>
  /\ node = [c \in Cell |-> Start(0, 0)]
  /\ current = NoCell
  /\ moves = {}
  /\ path = << >>
  /\ orders = << >>
  /\ preempted = 0

(* Mutant of Tick: the second that begins is forgotten, not the one that ended. *)
Tick_early ==
  /\ server_time < MaxTime
  /\ pc # "idle" => preempted < MaxPreempt
  /\ server_time' = server_time + 1
  /\ grid' = [c \in Cell |-> [grid[c] EXCEPT ![SlotOf(server_time + 1)] = GRID_EMPTY]]
  /\ led' = { c \in Cell : grid'[c][SlotOf(server_time + 1)] # GRID_EMPTY }
  /\ preempted' = IF pc = "idle" THEN 0 ELSE preempted + 1
  /\ UNCHANGED << clientVars, pc, req, searchVars, path, orders >>

(* stg_handler, once a second: the second that ended is forgotten. *)
Tick ==
  /\ server_time < MaxTime
  /\ pc # "idle" => preempted < MaxPreempt
  /\ server_time' = server_time + 1
  /\ grid' = [c \in Cell |-> [grid[c] EXCEPT ![SlotOf(server_time)] = GRID_EMPTY]]
  /\ led' = { c \in Cell : grid'[c][SlotOf(server_time + 1)] # GRID_EMPTY }
  /\ preempted' = IF pc = "idle" THEN 0 ELSE preempted + 1
  /\ UNCHANGED << clientVars, pc, req, searchVars, path, orders >>

(* A packet on address 0 (server.c): the next ID, and when to drive in. *)
RequestId ==
  /\ pc = "idle" /\ current_id < MaxId
  /\ current_id' = current_id + 1
  /\ req' = [req EXCEPT !.vehicle = current_id + 1,
                        !.departure = server_time + stg_get_delay_until_departure]
  /\ UNCHANGED << gridVars, at, trips, pc, searchVars, path, orders, preempted >>

(***************************************************************************)
(* stg_reserve, called for a packet on address v, up to the loop of        *)
(* find_path.                                                              *)
(***************************************************************************)
stg_reserve(v, delay) ==
  LET target == NextTarget[at[v]] IN
  /\ pc = "idle" /\ v <= current_id /\ trips[v] < MaxTrips
  /\ req' = [vehicle |-> v, target |-> target, departure |-> server_time + delay]
  /\ open' = << at[v] >> /\ closed' = << >>
  /\ node' = [c \in Cell |->
                IF c = at[v] THEN Start(server_time + delay, Distance(c, target))
                             ELSE Start(0, 0)]
  /\ current' = NoCell /\ moves' = {} /\ path' = << >> /\ orders' = << >>
  /\ preempted' = 0
  /\ trips' = [trips EXCEPT ![v] = @ + 1]
  /\ pc' = "search"
  /\ UNCHANGED << gridVars, current_id, at >>

(* The best open node is at the target: find_path returns it. *)
FoundTarget(i) ==
  /\ pc = "search" /\ IsBest(i) /\ open[i] = req.target
  /\ current' = open[i]
  /\ pc' = "trace"
  /\ UNCHANGED << gridVars, clientVars, req, open, closed, node, moves, path,
                  orders, preempted >>

(* The best open node is closed and its neighbours are collected. *)
Without(list, i) ==
  [j \in 1 .. Len(list) - 1 |-> IF j < i THEN list[j] ELSE list[j + 1]]

Expand(i) ==
  /\ pc = "search" /\ IsBest(i) /\ open[i] # req.target
  /\ current' = open[i]
  /\ open' = Without(open, i)
  /\ closed' = Append(closed, open[i])
  /\ moves' = get_valid_moves(open[i])
  /\ pc' = IF moves' = {} THEN "search" ELSE "neighbors"
  /\ UNCHANGED << gridVars, clientVars, req, node, path, orders, preempted >>

(* Mutant of Kept: closed_list is not looked at. *)
Kept_reopened(n) == InList(n.cell, open) => n.node.g < node[n.cell].g

(***************************************************************************)
(* One neighbour: dropped if closed, kept if new, and if it is open        *)
(* already it takes the place of that node only if its g is smaller.       *)
(***************************************************************************)
Kept(n) ==
  /\ ~ InList(n.cell, closed)
  /\ InList(n.cell, open) => n.node.g < node[n.cell].g

(* Mutant of Neighbor: the neighbour is not taken off the list. *)
Neighbor_again(i) ==
  /\ pc = "neighbors"
  /\ i \in moves /\ \A j \in moves : i <= j
  /\ UNCHANGED vars

Neighbor(i) ==
  /\ pc = "neighbors"
  /\ i \in moves /\ \A j \in moves : i <= j
  /\ LET n == candidate_moves(current)[i] IN
       /\ open' = IF Kept(n) /\ ~ InList(n.cell, open) THEN Append(open, n.cell)
                                                      ELSE open
       /\ node' = IF Kept(n) THEN [node EXCEPT ![n.cell] = n.node] ELSE node
  /\ moves' = moves \ {i}
  /\ pc' = IF moves' = {} THEN "search" ELSE "neighbors"
  /\ UNCHANGED << gridVars, clientVars, req, closed, current, path, orders, preempted >>

(***************************************************************************)
(* No node is left: find_path runs off its end without a return value and  *)
(* stg_reserve follows a pointer nobody set.  docs/document.md reports the *)
(* Hard Fault of the server this ends in; nothing runs after it.           *)
(***************************************************************************)
NoPath ==
  /\ pc = "search" /\ open = << >>
  /\ pc' = "fault"
  /\ UNCHANGED << gridVars, clientVars, req, searchVars, path, orders, preempted >>

(* One parent link is followed back from the target. *)
Trace ==
  /\ pc = "trace"
  /\ path' = << current >> \o path
  /\ current' = node[current].parent
  /\ pc' = IF current' = NoCell THEN "write" ELSE "trace"
  /\ UNCHANGED << gridVars, clientVars, req, open, closed, node, moves, orders, preempted >>

(* The cell the vehicle leaves is booked until it is in the next one. *)
WriteNode ==
  /\ pc = "write" /\ Len(path) > 1
  /\ LET previous == path[1]
         next     == path[2]
     IN  /\ grid' = SetGrid(node[previous].h, node[next].h, previous, req.vehicle)
         /\ orders' = orders \o OrdersInto(next)
  /\ path' = Tail(path)
  /\ UNCHANGED << server_time, led, clientVars, pc, req, searchVars, preempted >>

(***************************************************************************)
(* The target is booked, unchecked, for the seconds after the arrival, and *)
(* the reply goes out.  When it arrives the vehicle will ask for the trip  *)
(* that begins there; when it is lost the vehicle asks for this one again. *)
(***************************************************************************)
NoSearch ==    (* find_path has returned: its locals are gone *)
  /\ open' = << >> /\ closed' = << >> /\ moves' = {}
  /\ node' = [c \in Cell |-> Start(0, 0)]
  /\ current' = NoCell

WriteTail(received) ==
  /\ pc = "write" /\ Len(path) = 1
  /\ LET last == path[1] IN
       /\ grid' = SetGrid(node[last].h, node[last].h + TAIL_TIME, last, req.vehicle)
       /\ orders' = Append(orders, FinalOrder)
       /\ at' = IF received THEN [at EXCEPT ![req.vehicle] = last] ELSE at
  /\ path' = << >>
  /\ NoSearch
  /\ pc' = "idle"
  /\ UNCHANGED << server_time, led, current_id, trips, req, preempted >>

RadioHandler ==
  \/ RequestId
  \/ \E v \in Vehicle, delay \in Delays : stg_reserve(v, delay)
  \/ \E i \in DOMAIN open : FoundTarget(i) \/ Expand(i)
  \/ \E i \in moves : Neighbor(i)
  \/ NoPath
  \/ Trace
  \/ WriteNode
  \/ \E received \in BOOLEAN : WriteTail(received)

(* A Hard Fault stops the timer's handler too. *)
Next == RadioHandler \/ (pc # "fault" /\ Tick)

(* What the handler does once it has taken a reservation. *)
Step == pc # "idle" /\ RadioHandler

Spec == Init /\ [][Next]_vars /\ WF_vars(Step)
-----------------------------------------------------------------------------
(* The types of the variables. *)
TypeOK ==
  /\ server_time \in Nat
  /\ grid \in [Cell -> [Slot -> Vehicle \cup {GRID_EMPTY}]]
  /\ led \subseteq Cell
  /\ current_id \in 0 .. MaxId
  /\ at \in [Vehicle -> Cell]
  /\ trips \in [Vehicle -> Nat]
  /\ pc \in {"idle", "search", "neighbors", "trace", "write", "fault"}
  /\ req \in [vehicle : Vehicle \cup {GRID_EMPTY}, target : Cell, departure : Nat]
  /\ open \in Seq(Cell) /\ closed \in Seq(Cell)
  /\ node \in [Cell -> Node]
  /\ current \in Cell \cup {NoCell}
  /\ moves \subseteq Nat
  /\ path \in Seq(Cell)
  /\ orders \in Seq(Order)
  /\ preempted \in Nat

(***************************************************************************)
(* Between them the two lists never hold a cell twice, so the 25 entries   *)
(* each has on the stack of the interrupt handler (STG.c:223) are enough,  *)
(* although no loop checks the size it increments.                         *)
(***************************************************************************)
NodesOnce ==
  LET all == open \o closed IN
  /\ \A i, j \in DOMAIN all : all[i] = all[j] => i = j
  /\ Len(open) <= MAX_NODES /\ Len(closed) <= MAX_NODES

(***************************************************************************)
(* Seconds pass, lists are searched and the timer interrupts between the   *)
(* check of a cell in get_valid_moves and the write of it in stg_reserve,  *)
(* and yet no booking of the way to the target takes a second of a cell    *)
(* from the vehicle that has it.                                           *)
(***************************************************************************)
Takes == \E c \in Cell, s \in Slot :
           grid[c][s] # GRID_EMPTY /\ grid'[c][s] \notin {GRID_EMPTY, grid[c][s]}

WayTakesNothing ==
  [][ Takes => pc = "write" /\ Len(path) = 1 ]_vars

(* Every reservation that is begun is finished or faults: the search ends. *)
ReservationEnds == (pc # "idle") ~> (pc \in {"idle", "fault"})

(* What the ring buffer shows of each second in sight. *)
Bookings ==
  [c \in Cell |->
     [t \in server_time .. server_time + STG_BUFFER_LENGTH - 1 |-> stg_get_grid(t, c)]]

Calendar_ == INSTANCE Calendar WITH
  Place    <- Cell,
  User     <- Vehicle,
  Free     <- GRID_EMPTY,
  Horizon  <- STG_BUFFER_LENGTH,
  Overstay <- TAIL_TIME,
  now      <- server_time,
  booked   <- Bookings

(***************************************************************************)
(* The ring buffer implements the calendar: although a slot is used again  *)
(* for the second STG_BUFFER_LENGTH later, although the timer frees slots  *)
(* while a reservation is writing them, nobody ever sees a booking of the  *)
(* wrong second.                                                           *)
(***************************************************************************)
IsCalendar == Calendar_!Spec
=============================================================================
