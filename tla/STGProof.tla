------------------------------ MODULE STGProof ------------------------------
(***************************************************************************)
(* Theorems about STG that hold for every road, every number of vehicles,  *)
(* every delay and every length of the ring buffer.                        *)
(***************************************************************************)
EXTENDS STG, TLAPS, FiniteSetTheorems

(* The slot of a second is a slot. *)
LEMMA SlotType == \A t \in Nat : SlotOf(t) \in Slot
  BY SizeAssumption DEF SlotOf, Slot

(* A record with fields of the right types is a search node. *)
LEMMA NodeType ==
  ASSUME NEW h \in Nat, NEW g \in Nat, NEW p \in Cell \cup {NoCell},
         NEW m \in BOOLEAN, NEW t \in BOOLEAN
  PROVE  [h |-> h, g |-> g, parent |-> p, moved |-> m, turned |-> t] \in Node
  BY DEF Node

(* The places of candidate_moves are numbers. *)
LEMMA CandidatesNat == \A c \in Cell : Candidates(c) \subseteq 1 .. Len(Moves[c]) + 1
  <1> SUFFICES ASSUME NEW c \in Cell PROVE Candidates(c) \subseteq 1 .. Len(Moves[c]) + 1
    OBVIOUS
  <1>1. Len(Moves[c]) \in Nat
    BY MovesAssumption
  <1>2. CASE c \in WaitCells
    BY <1>1, <1>2 DEF Candidates
  <1>3. CASE c \notin WaitCells
    BY <1>1, <1>3 DEF Candidates
  <1> QED
    BY <1>2, <1>3

(* The neighbours of a cell are search nodes. *)
LEMMA CandidateType ==
  ASSUME TypeOK, NEW c \in Cell, NEW i \in Candidates(c)
  PROVE  /\ candidate_moves(c)[i].cell \in Cell
         /\ candidate_moves(c)[i].node \in Node
         /\ candidate_moves(c)[i].node.parent = c
  <1>1. Moves[c] \in Seq(Cell)
    BY MovesAssumption
  <1>2. i \in 1 .. Len(Moves[c]) + 1
    BY CandidatesNat
  <1>3. CASE i <= Len(Moves[c])
    <2>1. Moves[c][i] \in Cell
      BY <1>1, <1>2, <1>3
    <2>2. candidate_moves(c)[i] = MoveNode(c, Moves[c][i])
      BY <1>3 DEF candidate_moves
    <2>3. MoveTime(c, Moves[c][i]) \in Nat
      BY DEF MoveTime, GRID_MOVE_TIME, GRID_TURN_TIME
    <2>4. node[c].h \in Nat /\ req.target \in Cell
      BY DEF TypeOK, Node
    <2>5. has_turned(c, Moves[c][i]) \in BOOLEAN
      BY DEF has_turned
    <2>6. Distance(Moves[c][i], req.target) \in Nat
      BY <2>1, <2>4, DistanceAssumption
    <2>7. node[c].h + MoveTime(c, Moves[c][i]) \in Nat /\ c \in Cell \cup {NoCell}
      BY <2>3, <2>4
    <2>8. MoveNode(c, Moves[c][i]).node \in Node
      <3>1. [h |-> node[c].h + MoveTime(c, Moves[c][i]), g |-> Distance(Moves[c][i], req.target),
             parent |-> c, moved |-> TRUE, turned |-> has_turned(c, Moves[c][i])] \in Node
        BY <2>5, <2>6, <2>7, NodeType, TRUE \in BOOLEAN, FALSE \in BOOLEAN, Zenon
      <3> QED
        BY <3>1, Zenon DEF MoveNode
    <2>9. MoveNode(c, Moves[c][i]).cell \in Cell /\ MoveNode(c, Moves[c][i]).node.parent = c
      BY <2>1 DEF MoveNode
    <2> QED
      BY <2>2, <2>8, <2>9
  <1>4. CASE ~ (i <= Len(Moves[c]))
    <2>1. candidate_moves(c)[i] = WaitNode(c)
      BY <1>4 DEF candidate_moves
    <2>2. node[c].h \in Nat /\ req.target \in Cell
      BY DEF TypeOK, Node
    <2>3. Distance(c, req.target) \in Nat
      BY <2>2, DistanceAssumption
    <2>4. node[c].h + GRID_WAIT_TIME \in Nat /\ c \in Cell \cup {NoCell}
      BY <2>2 DEF GRID_WAIT_TIME
    <2>5. WaitNode(c).node \in Node
      <3>1. [h |-> node[c].h + GRID_WAIT_TIME, g |-> Distance(c, req.target),
             parent |-> c, moved |-> FALSE, turned |-> FALSE] \in Node
        BY <2>3, <2>4, NodeType, TRUE \in BOOLEAN, FALSE \in BOOLEAN, Zenon
      <3> QED
        BY <3>1, Zenon DEF WaitNode
    <2>6. WaitNode(c).cell \in Cell /\ WaitNode(c).node.parent = c
      BY DEF WaitNode
    <2> QED
      BY <2>1, <2>5, <2>6
  <1> QED
    BY <1>3, <1>4

(* The delay offered to a vehicle that asks for its ID is a number. *)
LEMMA DelayType == stg_get_delay_until_departure \in Nat
  <1>1. CASE \E d \in 1 .. ENTRY_GAP : EntryTaken(d)
    <2>1. PICK d \in 1 .. ENTRY_GAP :
            EntryTaken(d) /\ \A e \in 1 .. d - 1 : ~ EntryTaken(e)
      <3>1. DEFINE T(d) == EntryTaken(d)
      <3> HIDE DEF T
      <3>2. (\E d \in 1 .. 8 : T(d)) => \E d \in 1 .. 8 : T(d) /\ \A e \in 1 .. d - 1 : ~ T(e)
        BY SMTT(30)
      <3> QED
        BY <1>1, <3>2 DEF T, ENTRY_GAP
    <2> QED
      BY <1>1, <2>1 DEF stg_get_delay_until_departure, ENTRY_GAP
  <1>2. CASE ~ \E d \in 1 .. ENTRY_GAP : EntryTaken(d)
    BY <1>2 DEF stg_get_delay_until_departure
  <1> QED
    BY <1>1, <1>2

(* The orders that take a vehicle into a node are orders. *)
LEMMA OrdersType == ASSUME NEW n PROVE OrdersInto(n) \in Seq(Order)
  <1>1. /\ << "forward", GRID_MOVE_TIME >> \in Order
        /\ << "left", GRID_TURN_TIME >> \in Order
        /\ << "right", GRID_TURN_TIME >> \in Order
        /\ << "wait", GRID_WAIT_TIME >> \in Order
    BY DEF Order, GRID_MOVE_TIME, GRID_TURN_TIME, GRID_WAIT_TIME
  <1>2. \A o, p \in Order : << o >> \in Seq(Order) /\ << o, p >> \in Seq(Order)
    OBVIOUS
  <1>3. OrdersInto(n) \in { << << "wait", GRID_WAIT_TIME >> >>,
                           << << "forward", GRID_MOVE_TIME >> >>,
                           << << "left", GRID_TURN_TIME >>, << "forward", GRID_MOVE_TIME >> >>,
                           << << "right", GRID_TURN_TIME >>, << "forward", GRID_MOVE_TIME >> >> }
    BY DEF OrdersInto
  <1> QED
    BY <1>1, <1>2, <1>3

(* Giving seconds of a cell to a vehicle leaves a grid. *)
LEMMA SetGridType ==
  ASSUME TypeOK, NEW from, NEW to, NEW c \in Cell, NEW v \in Vehicle \cup {GRID_EMPTY}
  PROVE  SetGrid(from, to, c, v) \in [Cell -> [Slot -> Vehicle \cup {GRID_EMPTY}]]
  BY DEF SetGrid, TypeOK

(* TypeOK is true initially. *)
LEMMA InitType == Init => TypeOK
  <1> SUFFICES ASSUME Init PROVE TypeOK
    OBVIOUS
  <1>1. node \in [Cell -> Node]
    <2>1. Start(0, 0) \in Node
      BY NodeType, NoCell \in Cell \cup {NoCell}, FALSE \in BOOLEAN, 0 \in Nat, Zenon DEF Start
    <2> QED
      BY <2>1 DEF Init
  <1>2. EntryCell \in Cell
    BY CellAssumption
  <1>3. current_id \in 0 .. MaxId
    BY BoundAssumption DEF Init
  <1>4. req \in [vehicle : Vehicle \cup {GRID_EMPTY}, target : Cell, departure : Nat]
    BY <1>2 DEF Init
  <1>5. grid \in [Cell -> [Slot -> Vehicle \cup {GRID_EMPTY}]]
    BY DEF Init
  <1> QED
    BY <1>1, <1>2, <1>3, <1>4, <1>5 DEF Init, TypeOK

(* What find_path and the walk along the parent links work on. *)
Control ==
  /\ pc = "neighbors" => current \in Cell /\ moves \subseteq Candidates(current)
  /\ pc = "trace" => current \in Cell
  /\ pc # "idle" => req.vehicle \in Vehicle

(* Every step keeps the types. *)
LEMMA StepType == TypeOK /\ Control /\ [Next]_vars => TypeOK'
  <1> SUFFICES ASSUME TypeOK, Control, [Next]_vars PROVE TypeOK'
    OBVIOUS
  <1>1. CASE RequestId
    <2>1. current_id + 1 \in Vehicle /\ current_id + 1 \in 0 .. MaxId
      BY <1>1, BoundAssumption DEF RequestId, TypeOK, Vehicle
    <2>2. req' \in [vehicle : Vehicle \cup {GRID_EMPTY}, target : Cell, departure : Nat]
      <3>1. server_time + stg_get_delay_until_departure \in Nat
        BY DelayType DEF TypeOK
      <3>2. req' = [req EXCEPT !.vehicle = current_id + 1,
                               !.departure = server_time + stg_get_delay_until_departure]
        BY <1>1 DEF RequestId
      <3> QED
        BY <2>1, <3>1, <3>2 DEF TypeOK
    <2> QED
      BY <1>1, <2>1, <2>2 DEF RequestId, TypeOK, gridVars, searchVars
  <1>2. ASSUME NEW v \in Vehicle, NEW delay \in Delays, stg_reserve(v, delay)
        PROVE  TypeOK'
    <2>1. at[v] \in Cell /\ NextTarget[at[v]] \in Cell /\ server_time + delay \in Nat
      BY <1>2, NextTargetAssumption, DelaysAssumption DEF TypeOK
    <2>2. Distance(at[v], NextTarget[at[v]]) \in Nat
      BY <2>1, DistanceAssumption
    <2>3. \A h, g \in Nat : Start(h, g) \in Node
      BY NodeType, NoCell \in Cell \cup {NoCell}, FALSE \in BOOLEAN, Zenon DEF Start
    <2>4. node' \in [Cell -> Node]
      <3>1. Start(server_time + delay, Distance(at[v], NextTarget[at[v]])) \in Node
        BY <2>1, <2>2, <2>3
      <3>2. Start(0, 0) \in Node
        BY <2>3
      <3>3. node' = [c \in Cell |-> IF c = at[v]
                        THEN Start(server_time + delay, Distance(c, NextTarget[at[v]]))
                        ELSE Start(0, 0)]
        BY <1>2 DEF stg_reserve
      <3> QED
        BY <3>1, <3>2, <3>3
    <2>5. req' \in [vehicle : Vehicle \cup {GRID_EMPTY}, target : Cell, departure : Nat]
      BY <1>2, <2>1 DEF stg_reserve
    <2>6. open' \in Seq(Cell) /\ closed' \in Seq(Cell)
      BY <1>2, <2>1 DEF stg_reserve
    <2>7. trips' \in [Vehicle -> Nat]
      BY <1>2 DEF stg_reserve, TypeOK
    <2> QED
      BY <1>2, <2>4, <2>5, <2>6, <2>7 DEF stg_reserve, TypeOK, gridVars
  <1>3. ASSUME NEW i \in DOMAIN open, FoundTarget(i) PROVE TypeOK'
    BY <1>3 DEF FoundTarget, TypeOK, gridVars, clientVars
  <1>4. ASSUME NEW i \in DOMAIN open, Expand(i) PROVE TypeOK'
    <2>1. open[i] \in Cell
      BY DEF TypeOK
    <2>2. open' \in Seq(Cell)
      BY <1>4 DEF Expand, Without, TypeOK
    <2>3. closed' \in Seq(Cell)
      BY <1>4, <2>1 DEF Expand, TypeOK
    <2>4. moves' \subseteq Nat
      BY <1>4, <2>1, CandidatesNat DEF Expand, get_valid_moves
    <2> QED
      BY <1>4, <2>1, <2>2, <2>3, <2>4 DEF Expand, TypeOK, gridVars, clientVars
  <1>5. ASSUME NEW i \in moves, Neighbor(i) PROVE TypeOK'
    <2> DEFINE n == candidate_moves(current)[i]
    <2>1. current \in Cell /\ i \in Candidates(current)
      BY <1>5 DEF Neighbor, Control
    <2>2. n.cell \in Cell /\ n.node \in Node
      BY <2>1, CandidateType
    <2> HIDE DEF n
    <2>3. open' \in Seq(Cell)
      <3>1. open' = open \/ open' = Append(open, n.cell)
        BY <1>5 DEF Neighbor, n
      <3>2. open \in Seq(Cell)
        BY DEF TypeOK
      <3> QED
        BY <2>2, <3>1, <3>2
    <2>4. node' \in [Cell -> Node]
      <3>1. node' = node \/ node' = [node EXCEPT ![n.cell] = n.node]
        <4>1. CASE Kept(n)
          BY <1>5, <4>1 DEF Neighbor, n
        <4>2. CASE ~ Kept(n)
          BY <1>5, <4>2 DEF Neighbor, n
        <4> QED
          BY <4>1, <4>2
      <3>2. node \in [Cell -> Node]
        BY DEF TypeOK
      <3> QED
        BY <2>2, <3>1, <3>2
    <2>5. moves' \subseteq Nat /\ pc' \in {"search", "neighbors"}
      BY <1>5 DEF Neighbor, TypeOK
    <2>6. UNCHANGED << gridVars, clientVars, req, closed, current, path, orders, preempted >>
      BY <1>5 DEF Neighbor
    <2> QED
      BY <2>3, <2>4, <2>5, <2>6 DEF TypeOK, gridVars, clientVars
  <1>6. CASE NoPath
    BY <1>6 DEF NoPath, TypeOK, gridVars, clientVars, searchVars
  <1>7. CASE Trace
    <2>1. current \in Cell
      BY <1>7 DEF Trace, Control
    <2>2. path' \in Seq(Cell)
      BY <1>7, <2>1 DEF Trace, TypeOK
    <2>3. current' \in Cell \cup {NoCell}
      BY <1>7, <2>1 DEF Trace, TypeOK, Node
    <2>4. pc' \in {"write", "trace"}
      BY <1>7 DEF Trace
    <2>5. UNCHANGED << gridVars, clientVars, req, open, closed, node, moves, orders, preempted >>
      BY <1>7 DEF Trace
    <2> QED
      BY <2>2, <2>3, <2>4, <2>5 DEF TypeOK, gridVars, clientVars
  <1>8. CASE WriteNode
    <2>1. path[1] \in Cell /\ path[2] \in Cell /\ path' \in Seq(Cell)
      BY <1>8 DEF WriteNode, TypeOK
    <2>2. req.vehicle \in Vehicle \cup {GRID_EMPTY}
      BY DEF TypeOK
    <2>3. grid' \in [Cell -> [Slot -> Vehicle \cup {GRID_EMPTY}]]
      BY <1>8, <2>1, <2>2, SetGridType DEF WriteNode
    <2>4. orders' \in Seq(Order)
      <3>1. OrdersInto(path[2]) \in Seq(Order) /\ orders \in Seq(Order)
        BY OrdersType DEF TypeOK
      <3>2. orders' = orders \o OrdersInto(path[2])
        BY <1>8 DEF WriteNode
      <3> QED
        BY <3>1, <3>2
    <2>5. UNCHANGED << server_time, led, clientVars, pc, req, searchVars, preempted >>
      BY <1>8 DEF WriteNode
    <2> QED
      BY <2>1, <2>3, <2>4, <2>5 DEF TypeOK, clientVars, searchVars
  <1>9. ASSUME NEW received \in BOOLEAN, WriteTail(received) PROVE TypeOK'
    <2>1. path[1] \in Cell
      <3>1. path \in Seq(Cell) /\ Len(path) = 1
        BY <1>9 DEF WriteTail, TypeOK
      <3> QED
        BY <3>1
    <2>2. grid' \in [Cell -> [Slot -> Vehicle \cup {GRID_EMPTY}]]
      <3>1. req.vehicle \in Vehicle \cup {GRID_EMPTY}
        BY DEF TypeOK
      <3> QED
        BY <1>9, <2>1, <3>1, SetGridType DEF WriteTail
    <2>3. orders' \in Seq(Order)
      <3>1. FinalOrder \in Order
        BY DEF FinalOrder, Order, GRID_TURN_TIME
      <3> QED
        BY <1>9, <3>1 DEF WriteTail, TypeOK
    <2>4. at' \in [Vehicle -> Cell]
      BY <1>9, <2>1 DEF WriteTail, TypeOK
    <2>5. node' \in [Cell -> Node]
      <3>1. Start(0, 0) \in Node
        BY NodeType, NoCell \in Cell \cup {NoCell}, FALSE \in BOOLEAN, 0 \in Nat, Zenon DEF Start
      <3> QED
        BY <1>9, <3>1 DEF WriteTail, NoSearch
    <2>6. /\ open' \in Seq(Cell) /\ closed' \in Seq(Cell) /\ path' \in Seq(Cell)
          /\ moves' \subseteq Nat /\ current' \in Cell \cup {NoCell} /\ pc' = "idle"
      BY <1>9 DEF WriteTail, NoSearch
    <2>7. UNCHANGED << server_time, led, current_id, trips, req, preempted >>
      BY <1>9 DEF WriteTail
    <2> QED
      BY <2>2, <2>3, <2>4, <2>5, <2>6, <2>7 DEF TypeOK
  <1>10. CASE Tick
    <2>1. grid' \in [Cell -> [Slot -> Vehicle \cup {GRID_EMPTY}]]
      BY <1>10 DEF Tick, TypeOK
    <2>2. server_time' \in Nat /\ preempted' \in Nat /\ led' \subseteq Cell
      BY <1>10 DEF Tick, TypeOK
    <2>3. UNCHANGED << clientVars, pc, req, searchVars, path, orders >>
      BY <1>10 DEF Tick
    <2> QED
      BY <2>1, <2>2, <2>3 DEF TypeOK, clientVars, searchVars
  <1>11. CASE UNCHANGED vars
    BY <1>11 DEF TypeOK, vars, gridVars, clientVars, searchVars
  <1> QED
    BY <1>1, <1>2, <1>3, <1>4, <1>5, <1>6, <1>7, <1>8, <1>9, <1>10, <1>11
       DEF Next, RadioHandler

-----------------------------------------------------------------------------
(***************************************************************************)
(* Why the way to the target takes nothing from anybody.  The inductive    *)
(* invariant carries the check of get_valid_moves from the moment it is    *)
(* made to the moment the booking is written: every node that was kept     *)
(* hangs on a closed node whose cell was free, or the vehicle's own, until *)
(* the move is over; nothing but the timer, which only frees slots, and    *)
(* the vehicle's own bookings touch the grid in between.                   *)
(***************************************************************************)
Known(c) == InList(c, open) \/ InList(c, closed)

Linked(c) ==
  LET p == node[c].parent IN
  p # NoCell => InList(p, closed) /\ check_grid(node[p].h, node[c].h, p, req.vehicle)

NodesLinked ==
  pc \in {"search", "neighbors", "trace", "write"} =>
    \A c \in Cell : Known(c) => Linked(c)

MovesChecked ==
  pc = "neighbors" =>
    /\ InList(current, closed)
    /\ \A i \in moves :
         check_grid(node[current].h, candidate_moves(current)[i].node.h, current, req.vehicle)

PathLinked ==
  /\ pc \in {"search", "neighbors"} => path = << >>
  /\ pc \in {"trace", "write"} =>
       /\ \A i \in 1 .. Len(path) : Known(path[i])
       /\ \A i \in 1 .. Len(path) - 1 : node[path[i + 1]].parent = path[i]
  /\ pc = "trace" => Known(current) /\ (path # << >> => node[path[1]].parent = current)

IInv == TypeOK /\ Control /\ NodesLinked /\ MovesChecked /\ PathLinked

LEMMA NoCellIsNoCell == NoCell \notin Cell
  <1>1. << >> \notin Nat \X Nat
    OBVIOUS
  <1> QED
    BY <1>1, CellAssumption DEF NoCell

(* A step in which slots are only freed, or given to vehicle v, keeps what *)
(* a check for v has found.                                                *)
Keeps(v) == \A c \in Cell, s \in Slot : grid'[c][s] \in {grid[c][s], GRID_EMPTY, v}

LEMMA ChecksKept ==
  ASSUME NEW from \in Nat, NEW to \in Nat, NEW c \in Cell, NEW v,
         Keeps(v), check_grid(from, to, c, v)
  PROVE  \A i \in from .. to : grid'[c][SlotOf(i)] \in {GRID_EMPTY, v}
  <1> SUFFICES ASSUME NEW i \in from .. to PROVE grid'[c][SlotOf(i)] \in {GRID_EMPTY, v}
    OBVIOUS
  <1>1. grid[c][SlotOf(i)] \in {GRID_EMPTY, v}
    BY DEF check_grid, stg_get_grid
  <1>2. SlotOf(i) \in Slot
    BY SlotType
  <1> QED
    BY <1>1, <1>2 DEF Keeps

(* The timer only frees slots. *)
LEMMA TickKeeps == ASSUME TypeOK, Tick, NEW v PROVE Keeps(v)
  BY DEF Tick, Keeps, TypeOK

(* A step that changes no grid keeps it. *)
LEMMA SameGridKeeps == ASSUME grid' = grid, NEW v PROVE Keeps(v)
  BY DEF Keeps

(* A booking for v gives slots to v only. *)
LEMMA SetGridKeeps ==
  ASSUME TypeOK, NEW from, NEW to, NEW c \in Cell, NEW v, grid' = SetGrid(from, to, c, v)
  PROVE  Keeps(v)
  BY DEF Keeps, SetGrid, TypeOK

(***************************************************************************)
(* A node stays linked in a step that leaves it and the closed nodes as    *)
(* they are and keeps the checks of the vehicle.                           *)
(***************************************************************************)
LEMMA LinkKept ==
  ASSUME TypeOK, NEW c \in Cell, Linked(c), Keeps(req.vehicle), req' = req,
         node'[c] = node[c],
         \A p \in Cell : InList(p, closed) => InList(p, closed)' /\ node'[p] = node[p]
  PROVE  Linked(c)'
  <1> DEFINE p == node[c].parent
  <1>1. CASE p = NoCell
    BY <1>1 DEF Linked
  <1>2. CASE p # NoCell
    <2>1. p \in Cell /\ node[p].h \in Nat /\ node[c].h \in Nat
      BY <1>2 DEF TypeOK, Node
    <2>2. InList(p, closed) /\ check_grid(node[p].h, node[c].h, p, req.vehicle)
      BY <1>2 DEF Linked
    <2>3. InList(p, closed)' /\ node'[p] = node[p]
      BY <2>1, <2>2
    <2>4. \A i \in node[p].h .. node[c].h : grid'[p][SlotOf(i)] \in {GRID_EMPTY, req.vehicle}
      BY <2>1, <2>2, ChecksKept
    <2> HIDE DEF p
    <2>5. check_grid(node[p].h, node[c].h, p, req.vehicle)'
      <3>1. p' = p
        BY DEF p
      <3> QED
        BY <2>3, <2>4, <3>1 DEF check_grid, stg_get_grid, SlotOf
    <2> QED
      BY <2>3, <2>5 DEF Linked, p
  <1> QED
    BY <1>1, <1>2

(* The members of the lists when one is added or taken out. *)
LEMMA InAppend ==
  ASSUME NEW list \in Seq(Cell), NEW c \in Cell, NEW d \in Cell
  PROVE  InList(d, Append(list, c)) <=> InList(d, list) \/ d = c
  <1>1. ASSUME InList(d, list) PROVE InList(d, Append(list, c))
    BY <1>1 DEF InList
  <1>2. ASSUME d = c PROVE InList(d, Append(list, c))
    <2>1. Append(list, c)[Len(list) + 1] = d /\ Len(list) + 1 \in DOMAIN Append(list, c)
      BY <1>2
    <2> QED
      BY <2>1 DEF InList
  <1>3. ASSUME InList(d, Append(list, c)) PROVE InList(d, list) \/ d = c
    <2>1. PICK i \in DOMAIN Append(list, c) : Append(list, c)[i] = d
      BY <1>3 DEF InList
    <2>2. CASE i \in DOMAIN list
      BY <2>1, <2>2 DEF InList
    <2>3. CASE i = Len(list) + 1
      BY <2>1, <2>3
    <2> QED
      BY <2>1, <2>2, <2>3
  <1> QED
    BY <1>1, <1>2, <1>3

LEMMA InWithout ==
  ASSUME NEW list \in Seq(Cell), NEW i \in DOMAIN list, NEW d, InList(d, Without(list, i))
  PROVE  InList(d, list)
  BY DEF InList, Without

(* The control part of the invariant. *)
LEMMA StepControl == TypeOK /\ Control /\ [Next]_vars => Control'
  <1> SUFFICES ASSUME TypeOK, Control, [Next]_vars PROVE Control'
    OBVIOUS
  <1>0. \A c \in Cell : Candidates(c)' = Candidates(c)
    BY DEF Candidates
  <1>1. CASE RequestId
    BY <1>1 DEF RequestId, Control
  <1>2. ASSUME NEW v \in Vehicle, NEW delay \in Delays, stg_reserve(v, delay) PROVE Control'
    BY <1>2 DEF stg_reserve, Control
  <1>3. ASSUME NEW i \in DOMAIN open, FoundTarget(i) PROVE Control'
    BY <1>3 DEF FoundTarget, Control, TypeOK
  <1>4. ASSUME NEW i \in DOMAIN open, Expand(i) PROVE Control'
    <2>1. open[i] \in Cell
      BY DEF TypeOK
    <2> QED
      BY <1>0, <1>4, <2>1 DEF Expand, Control, get_valid_moves
  <1>5. ASSUME NEW i \in moves, Neighbor(i) PROVE Control'
    BY <1>0, <1>5 DEF Neighbor, Control
  <1>6. CASE NoPath
    BY <1>6 DEF NoPath, Control
  <1>7. CASE Trace
    BY <1>7 DEF Trace, Control, TypeOK, Node
  <1>8. CASE WriteNode
    BY <1>8 DEF WriteNode, Control
  <1>9. ASSUME NEW received \in BOOLEAN, WriteTail(received) PROVE Control'
    BY <1>9 DEF WriteTail, Control
  <1>10. CASE Tick
    BY <1>0, <1>10 DEF Tick, Control, searchVars
  <1>11. CASE UNCHANGED vars
    BY <1>0, <1>11 DEF Control, vars, searchVars
  <1> QED
    BY <1>1, <1>2, <1>3, <1>4, <1>5, <1>6, <1>7, <1>8, <1>9, <1>10, <1>11
       DEF Next, RadioHandler

(* The search part of the invariant, one lemma per action that matters. *)
SearchInv == NodesLinked /\ MovesChecked /\ PathLinked

LEMMA ReserveSearch ==
  ASSUME IInv, NEW v \in Vehicle, NEW delay \in Delays, stg_reserve(v, delay)
  PROVE  SearchInv'
  <1>1. pc' = "search" /\ open' = << at[v] >> /\ closed' = << >>
    BY DEF stg_reserve
  <1>2. node'[at[v]].parent = NoCell
    <2>1. at[v] \in Cell
      BY DEF IInv, TypeOK
    <2> QED
      BY <2>1 DEF stg_reserve, Start
  <1>3. \A c \in Cell : Known(c)' => c = at[v]
    BY <1>1 DEF Known, InList
  <1>4. NodesLinked'
    BY <1>2, <1>3 DEF NodesLinked, Linked
  <1>5. path' = << >>
    BY DEF stg_reserve
  <1> QED
    BY <1>1, <1>4, <1>5 DEF SearchInv, MovesChecked, PathLinked

(* The candidates of a cell are a function of its node and of the request. *)
LEMMA SameCandidates ==
  ASSUME NEW c \in Cell, node'[c] = node[c], req' = req
  PROVE  candidate_moves(c)' = candidate_moves(c)
  BY DEF candidate_moves, Candidates, MoveNode, WaitNode, MoveTime, has_turned

LEMMA ExpandSearch ==
  ASSUME IInv, NEW i \in DOMAIN open, Expand(i)
  PROVE  SearchInv'
  <1>1. open[i] \in Cell /\ open \in Seq(Cell) /\ closed \in Seq(Cell)
    BY DEF IInv, TypeOK
  <1>2. \A c \in Cell : InList(c, closed)' <=> InList(c, closed) \/ c = open[i]
    BY <1>1, InAppend DEF Expand
  <1>3. \A c \in Cell : Known(c)' => Known(c)
    <2> SUFFICES ASSUME NEW c \in Cell, Known(c)' PROVE Known(c)
      OBVIOUS
    <2>1. InList(open[i], open)
      BY DEF InList
    <2>2. InList(c, open)' => InList(c, open)
      <3>1. open' = Without(open, i)
        BY DEF Expand
      <3> QED
        BY <1>1, <3>1, InWithout
    <2> QED
      BY <1>2, <2>1, <2>2 DEF Known
  <1>4. node' = node /\ req' = req /\ grid' = grid
    BY DEF Expand, gridVars
  <1>5. pc \in {"search"} /\ pc' \in {"search", "neighbors"}
    BY DEF Expand
  <1>6. NodesLinked'
    <2> SUFFICES ASSUME NEW c \in Cell, Known(c)' PROVE Linked(c)'
      BY DEF NodesLinked
    <2>1. Linked(c)
      BY <1>3, <1>5 DEF IInv, NodesLinked
    <2> QED
      BY <2>1, <1>2, <1>4, LinkKept, SameGridKeeps DEF IInv
  <1>7. MovesChecked'
    <2>0. PICK c \in Cell : c = open[i]
      BY <1>1
    <2>1. current' = c /\ moves' = get_valid_moves(c) /\ InList(c, closed)'
      BY <1>2, <2>0 DEF Expand
    <2>2. candidate_moves(c)' = candidate_moves(c)
      BY <1>4, SameCandidates
    <2>3. \A j \in moves' : check_grid(node[c].h, candidate_moves(c)[j].node.h, c, req.vehicle)
      BY <2>1 DEF get_valid_moves
    <2>4. \A j \in moves' : check_grid(node[c].h, candidate_moves(c)[j].node.h, c, req.vehicle)'
      BY <2>2, <2>3, <1>4 DEF check_grid, stg_get_grid
    <2> QED
      BY <2>1, <2>4 DEF MovesChecked
  <1>8. PathLinked'
    BY <1>5 DEF PathLinked, IInv, Expand
  <1> QED
    BY <1>6, <1>7, <1>8 DEF SearchInv

LEMMA NeighborSearch ==
  ASSUME IInv, NEW i \in moves, Neighbor(i)
  PROVE  SearchInv'
  <1>1. /\ pc = "neighbors" /\ pc' \in {"search", "neighbors"} /\ moves' \subseteq moves
        /\ UNCHANGED << req, grid, closed, current, path >>
    BY DEF Neighbor, gridVars
  <1>2. PICK q \in Cell : q = current
    BY <1>1 DEF IInv, Control
  <1>3. i \in Candidates(q) /\ InList(q, closed)
    BY <1>1, <1>2 DEF IInv, Control, MovesChecked
  <1>4. PICK n : n = candidate_moves(q)[i]
    OBVIOUS
  <1>5. n.cell \in Cell /\ n.node \in Node /\ n.node.parent = q
    BY <1>3, <1>4, CandidateType DEF IInv
  <1>6. check_grid(node[q].h, n.node.h, q, req.vehicle)
    BY <1>1, <1>2, <1>4 DEF IInv, MovesChecked
  <1>7. \/ ~ Kept(n) /\ node' = node /\ open' = open
        \/ Kept(n) /\ node' = [node EXCEPT ![n.cell] = n.node] /\ open' \in {open, Append(open, n.cell)}
    <2>1. CASE Kept(n)
      BY <1>2, <1>4, <2>1 DEF Neighbor
    <2>2. CASE ~ Kept(n)
      BY <1>2, <1>4, <2>2 DEF Neighbor
    <2> QED
      BY <2>1, <2>2
  <1>8. \A p \in Cell : InList(p, closed) => InList(p, closed)' /\ node'[p] = node[p]
    BY <1>1, <1>5, <1>7 DEF Kept, InList, IInv, TypeOK
  <1>9. NodesLinked'
    <2> SUFFICES ASSUME NEW c \in Cell, Known(c)' PROVE Linked(c)'
      BY DEF NodesLinked
    <2>1. CASE node'[c] = node[c] /\ Known(c)
      <3>1. Linked(c)
        BY <2>1, <1>1 DEF IInv, NodesLinked
      <3> QED
        BY <3>1, <2>1, <1>1, <1>8, LinkKept, SameGridKeeps DEF IInv
    <2>2. CASE c = n.cell /\ Kept(n)
      <3>1. node'[c] = n.node
        BY <1>5, <1>7, <2>2 DEF IInv, TypeOK
      <3>2. node'[c].parent = q /\ node'[q] = node[q]
        BY <3>1, <1>3, <1>5, <1>8
      <3>3. InList(q, closed)'
        BY <1>3, <1>8
      <3>4. check_grid(node[q].h, node[c].h, q, req.vehicle)'
        BY <1>6, <1>1, <3>1, <3>2 DEF check_grid, stg_get_grid
      <3> QED
        BY <3>2, <3>3, <3>4 DEF Linked
    <2>3. Known(c) \/ (c = n.cell /\ Kept(n))
      <3>1. open \in Seq(Cell)
        BY DEF IInv, TypeOK
      <3>2. InList(c, closed)' => InList(c, closed)
        BY <1>1 DEF InList
      <3>3. InList(c, open)' => InList(c, open) \/ (c = n.cell /\ Kept(n))
        <4>1. CASE open' = open
          BY <4>1 DEF InList
        <4>2. CASE open' = Append(open, n.cell) /\ Kept(n)
          <5>1. InList(c, open)' <=> InList(c, open')
            BY DEF InList
          <5> QED
            BY <1>5, <3>1, <4>2, <5>1, InAppend
        <4> QED
          BY <1>7, <4>1, <4>2
      <3> QED
        BY <3>2, <3>3 DEF Known
    <2>4. node'[c] = node[c] \/ (c = n.cell /\ Kept(n))
      BY <1>5, <1>7 DEF IInv, TypeOK
    <2> QED
      BY <2>1, <2>2, <2>3, <2>4
  <1>10. MovesChecked'
    <2>1. node'[q] = node[q] /\ InList(q, closed)'
      BY <1>3, <1>8
    <2>2. candidate_moves(q)' = candidate_moves(q)
      BY <1>1, <2>1, SameCandidates
    <2>3. \A j \in moves' : check_grid(node[q].h, candidate_moves(q)[j].node.h, q, req.vehicle)
      BY <1>1, <1>2 DEF IInv, MovesChecked
    <2>4. \A j \in moves' : check_grid(node[q].h, candidate_moves(q)[j].node.h, q, req.vehicle)'
      BY <1>1, <2>1, <2>2, <2>3 DEF check_grid, stg_get_grid
    <2>5. current' = q
      BY <1>1, <1>2
    <2> QED
      BY <2>1, <2>4, <2>5 DEF MovesChecked
  <1>11. PathLinked'
    BY <1>1 DEF PathLinked, IInv
  <1> QED
    BY <1>9, <1>10, <1>11 DEF SearchInv

(* Lists, nodes and the request stay; slots are freed or given to the vehicle. *)
LEMMA LinksKept ==
  ASSUME IInv, pc \in {"search", "neighbors", "trace", "write"},
         Keeps(req.vehicle), UNCHANGED << req, open, closed, node >>
  PROVE  \A c \in Cell : Known(c)' => Linked(c)'
  <1> SUFFICES ASSUME NEW c \in Cell, Known(c)' PROVE Linked(c)'
    OBVIOUS
  <1>1. Known(c)
    BY DEF Known, InList
  <1>2. Linked(c)
    BY <1>1 DEF IInv, NodesLinked
  <1>3. \A p \in Cell : InList(p, closed) => InList(p, closed)' /\ node'[p] = node[p]
    BY DEF InList
  <1> QED
    BY <1>2, <1>3, LinkKept DEF IInv

LEMMA FoundSearch ==
  ASSUME IInv, NEW i \in DOMAIN open, FoundTarget(i)
  PROVE  SearchInv'
  <1>1. /\ pc = "search" /\ pc' = "trace" /\ current' = open[i]
        /\ UNCHANGED << grid, req, open, closed, node, path >>
    BY DEF FoundTarget, gridVars
  <1>2. NodesLinked'
    BY <1>1, LinksKept, SameGridKeeps DEF NodesLinked
  <1>3. PathLinked'
    BY <1>1 DEF PathLinked, IInv, Known, InList
  <1> QED
    BY <1>1, <1>2, <1>3 DEF SearchInv, MovesChecked

LEMMA TraceSearch == ASSUME IInv, Trace PROVE SearchInv'
  <1>1. /\ pc = "trace" /\ pc' \in {"trace", "write"} /\ path' = << current >> \o path
        /\ current' = node[current].parent /\ (pc' = "trace" => current' # NoCell)
        /\ UNCHANGED << grid, req, open, closed, node >>
    BY DEF Trace, gridVars
  <1>2. current \in Cell /\ path \in Seq(Cell) /\ Known(current)
    BY <1>1 DEF IInv, Control, TypeOK, PathLinked
  <1>3. NodesLinked'
    BY <1>1, LinksKept, SameGridKeeps DEF NodesLinked
  <1>4. /\ Len(path') = Len(path) + 1
        /\ path'[1] = current
        /\ \A i \in 1 .. Len(path) : path'[i + 1] = path[i]
    BY <1>1, <1>2
  <1>5. \A c : Known(c)' <=> Known(c)
    BY <1>1 DEF Known, InList
  <1>6. \A i \in 1 .. Len(path') : Known(path'[i])
    <2> SUFFICES ASSUME NEW i \in 1 .. Len(path') PROVE Known(path'[i])
      OBVIOUS
    <2>1. CASE i = 1
      BY <1>2, <1>4, <2>1
    <2>2. CASE i # 1
      <3>1. i - 1 \in 1 .. Len(path) /\ (i - 1) + 1 = i
        BY <1>2, <1>4, <2>2
      <3>2. path'[i] = path[i - 1]
        BY <1>4, <3>1
      <3> QED
        BY <1>1, <3>1, <3>2 DEF IInv, PathLinked
    <2> QED
      BY <2>1, <2>2
  <1>7. \A i \in 1 .. Len(path') - 1 : node[path'[i + 1]].parent = path'[i]
    <2> SUFFICES ASSUME NEW i \in 1 .. Len(path') - 1
                 PROVE  node[path'[i + 1]].parent = path'[i]
      OBVIOUS
    <2>1. i \in 1 .. Len(path) /\ path'[i + 1] = path[i]
      BY <1>2, <1>4
    <2>2. CASE i = 1
      <3>1. path # << >>
        BY <1>2, <2>1
      <3> QED
        BY <1>1, <1>4, <2>1, <2>2, <3>1 DEF IInv, PathLinked
    <2>3. CASE i # 1
      <3>1. i - 1 \in 1 .. Len(path) - 1 /\ (i - 1) + 1 = i
        BY <1>2, <2>1, <2>3
      <3>2. path'[i] = path[i - 1]
        BY <1>2, <1>4, <3>1
      <3>3. node[path[i]].parent = path[i - 1]
        BY <1>1, <3>1 DEF IInv, PathLinked
      <3> QED
        BY <2>1, <3>2, <3>3
    <2> QED
      BY <2>2, <2>3
  <1>8. pc' = "trace" => Known(current') /\ node[path'[1]].parent = current'
    <2> SUFFICES ASSUME pc' = "trace" PROVE Known(current')
      BY <1>1, <1>4
    <2>1. Linked(current)
      BY <1>1, <1>2 DEF IInv, NodesLinked
    <2> QED
      BY <1>1, <2>1 DEF Linked, Known
  <1>9. PathLinked'
    <2>1. \A i \in 1 .. Len(path') : Known(path[i])'
      BY <1>5, <1>6
    <2>2. \A i \in 1 .. Len(path') - 1 : node'[path'[i + 1]].parent = path'[i]
      BY <1>1, <1>7
    <2>3. pc' = "trace" => Known(current)' /\ node'[path'[1]].parent = current'
      BY <1>1, <1>5, <1>8
    <2> QED
      BY <1>1, <2>1, <2>2, <2>3 DEF PathLinked
  <1> QED
    BY <1>1, <1>3, <1>9 DEF SearchInv, MovesChecked

(***************************************************************************)
(* What WriteNode writes was checked: its cell is the parent of the next.  *)
(***************************************************************************)
LEMMA WriteChecked ==
  ASSUME IInv, WriteNode
  PROVE  /\ path[1] \in Cell /\ node[path[1]].h \in Nat /\ node[path[2]].h \in Nat
         /\ check_grid(node[path[1]].h, node[path[2]].h, path[1], req.vehicle)
  <1>1. pc = "write" /\ path \in Seq(Cell) /\ Len(path) > 1
    BY DEF WriteNode, IInv, TypeOK
  <1>2. path[1] \in Cell /\ path[2] \in Cell
    BY <1>1
  <1>3. Known(path[2]) /\ node[path[2]].parent = path[1]
    <2>1. 1 \in 1 .. Len(path) - 1 /\ 2 \in 1 .. Len(path) /\ 1 + 1 = 2
      BY <1>1
    <2> QED
      BY <1>1, <2>1 DEF IInv, PathLinked
  <1>4. Linked(path[2])
    BY <1>1, <1>2, <1>3 DEF IInv, NodesLinked
  <1>5. path[1] # NoCell
    BY <1>2, NoCellIsNoCell
  <1>6. node[path[1]].h \in Nat /\ node[path[2]].h \in Nat
    BY <1>2 DEF IInv, TypeOK, Node
  <1> QED
    BY <1>2, <1>3, <1>4, <1>5, <1>6 DEF Linked

LEMMA WriteSearch == ASSUME IInv, WriteNode PROVE SearchInv'
  <1>1. /\ pc = "write" /\ pc' = "write" /\ Len(path) > 1 /\ path' = Tail(path)
        /\ UNCHANGED << req, open, closed, node >>
    BY DEF WriteNode, searchVars
  <1>2. path \in Seq(Cell)
    BY DEF IInv, TypeOK
  <1>3. Keeps(req.vehicle)
    <2>1. path[1] \in Cell
      BY <1>1, <1>2
    <2>2. grid' = SetGrid(node[path[1]].h, node[path[2]].h, path[1], req.vehicle)
      BY DEF WriteNode
    <2> QED
      BY <2>1, <2>2, SetGridKeeps DEF IInv
  <1>4. NodesLinked'
    BY <1>1, <1>3, LinksKept DEF NodesLinked
  <1>5. Len(path') = Len(path) - 1 /\ \A i \in 1 .. Len(path') : path'[i] = path[i + 1]
    BY <1>1, <1>2
  <1>6. \A i \in 1 .. Len(path') : Known(path[i])'
    <2>1. \A i \in 1 .. Len(path') : i + 1 \in 1 .. Len(path)
      BY <1>1, <1>2, <1>5
    <2>2. \A c : Known(c)' <=> Known(c)
      BY <1>1 DEF Known, InList
    <2> QED
      BY <1>1, <1>5, <2>1, <2>2 DEF IInv, PathLinked
  <1>7. \A i \in 1 .. Len(path') - 1 : node'[path'[i + 1]].parent = path'[i]
    <2> SUFFICES ASSUME NEW i \in 1 .. Len(path') - 1
                 PROVE  node'[path'[i + 1]].parent = path'[i]
      OBVIOUS
    <2>1. /\ i \in 1 .. Len(path') /\ i + 1 \in 1 .. Len(path')
          /\ i + 1 \in 1 .. Len(path) - 1
      BY <1>1, <1>2, <1>5
    <2>2. node[path[(i + 1) + 1]].parent = path[i + 1]
      BY <1>1, <2>1 DEF IInv, PathLinked
    <2> QED
      BY <1>1, <1>5, <2>1, <2>2
  <1> QED
    BY <1>1, <1>4, <1>6, <1>7 DEF SearchInv, MovesChecked, PathLinked

(* A step of the timer, or none at all. *)
LEMMA QuietSearch ==
  ASSUME IInv, Tick \/ UNCHANGED vars
  PROVE  SearchInv'
  <1>1. UNCHANGED << pc, req, open, closed, node, current, moves, path >>
    BY DEF Tick, vars, searchVars
  <1>2. Keeps(req.vehicle)
    BY TickKeeps, SameGridKeeps DEF IInv, vars, gridVars
  <1>3. NodesLinked'
    BY <1>1, <1>2, LinksKept DEF NodesLinked
  <1>4. MovesChecked'
    <2> SUFFICES ASSUME pc = "neighbors" PROVE MovesChecked'
      BY <1>1 DEF MovesChecked
    <2>1. PICK q \in Cell : q = current
      BY DEF IInv, Control
    <2>2. moves \subseteq Candidates(q) /\ InList(q, closed)
      BY <2>1 DEF IInv, Control, MovesChecked
    <2>3. candidate_moves(q)' = candidate_moves(q)
      BY <1>1, SameCandidates
    <2>4. ASSUME NEW j \in moves
          PROVE  check_grid(node[q].h, candidate_moves(q)[j].node.h, q, req.vehicle)'
      <3>1. PICK to : to = candidate_moves(q)[j].node.h
        OBVIOUS
      <3>2. to \in Nat /\ node[q].h \in Nat
        <4>1. candidate_moves(q)[j].node \in Node
          BY <2>2, CandidateType DEF IInv
        <4> QED
          BY <3>1, <4>1 DEF IInv, TypeOK, Node
      <3>3. check_grid(node[q].h, to, q, req.vehicle)
        BY <2>1, <3>1 DEF IInv, MovesChecked
      <3>4. \A i \in node[q].h .. to : grid'[q][SlotOf(i)] \in {GRID_EMPTY, req.vehicle}
        BY <1>2, <3>2, <3>3, ChecksKept
      <3>5. check_grid(node[q].h, to, q, req.vehicle)'
        BY <1>1, <3>4 DEF check_grid, stg_get_grid, SlotOf
      <3> QED
        BY <2>3, <3>1, <3>5
    <2>5. InList(q, closed)'
      BY <1>1, <2>2 DEF InList
    <2> QED
      BY <1>1, <2>1, <2>4, <2>5 DEF MovesChecked
  <1>5. PathLinked'
    BY <1>1 DEF PathLinked, IInv, Known, InList
  <1> QED
    BY <1>3, <1>4, <1>5 DEF SearchInv

(* The invariant holds initially and is kept by every step. *)
LEMMA InitInvariant == Init => IInv
  <1>1. Init => TypeOK
    BY InitType
  <1>2. Init => pc = "idle"
    BY DEF Init
  <1> QED
    BY <1>1, <1>2 DEF IInv, Control, NodesLinked, MovesChecked, PathLinked

LEMMA StepInvariant == IInv /\ [Next]_vars => IInv'
  <1> SUFFICES ASSUME IInv, [Next]_vars PROVE IInv'
    OBVIOUS
  <1>1. TypeOK' /\ Control'
    BY StepType, StepControl DEF IInv
  <1>2. SearchInv'
    <2>1. CASE RequestId
      BY <2>1 DEF RequestId, SearchInv, NodesLinked, MovesChecked, PathLinked
    <2>2. CASE \E v \in Vehicle, delay \in Delays : stg_reserve(v, delay)
      BY <2>2, ReserveSearch
    <2>3. CASE \E i \in DOMAIN open : FoundTarget(i)
      BY <2>3, FoundSearch
    <2>4. CASE \E i \in DOMAIN open : Expand(i)
      BY <2>4, ExpandSearch
    <2>5. CASE \E i \in moves : Neighbor(i)
      BY <2>5, NeighborSearch
    <2>6. CASE NoPath
      BY <2>6 DEF NoPath, SearchInv, NodesLinked, MovesChecked, PathLinked
    <2>7. CASE Trace
      BY <2>7, TraceSearch
    <2>8. CASE WriteNode
      BY <2>8, WriteSearch
    <2>9. CASE \E received \in BOOLEAN : WriteTail(received)
      BY <2>9 DEF WriteTail, SearchInv, NodesLinked, MovesChecked, PathLinked
    <2>10. CASE Tick
      BY <2>10, QuietSearch
    <2>11. CASE UNCHANGED vars
      BY <2>11, QuietSearch
    <2> QED
      BY <2>1, <2>2, <2>3, <2>4, <2>5, <2>6, <2>7, <2>8, <2>9, <2>10, <2>11
         DEF Next, RadioHandler
  <1> QED
    BY <1>1, <1>2 DEF IInv, SearchInv

(***************************************************************************)
(* The variables of the server keep their types, for every road, number of *)
(* vehicles and length of the ring buffer (CAV/src/STG.c).                 *)
(***************************************************************************)
THEOREM TypeCorrect == Spec => []TypeOK
  <1>1. Init => IInv
    BY InitInvariant
  <1>2. IInv /\ [Next]_vars => IInv'
    BY StepInvariant
  <1>3. IInv => TypeOK
    BY DEF IInv
  <1> QED
    BY <1>1, <1>2, <1>3, PTL DEF Spec

(* A step that takes a second from a vehicle is the booking of a target. *)
LEMMA StepTakesNothing ==
  IInv /\ [Next]_vars => [Takes => pc = "write" /\ Len(path) = 1]_vars
  <1> SUFFICES ASSUME IInv, Next, Takes PROVE pc = "write" /\ Len(path) = 1
    OBVIOUS
  <1>1. PICK c \in Cell, s \in Slot :
          grid[c][s] # GRID_EMPTY /\ grid'[c][s] \notin {GRID_EMPTY, grid[c][s]}
    BY DEF Takes
  <1>2. grid' # grid
    BY <1>1
  <1>3. ~ Tick
    BY <1>1, TickKeeps DEF Tick, IInv, TypeOK
  <1>4. ~ WriteNode
    <2> SUFFICES ASSUME WriteNode PROVE FALSE
      OBVIOUS
    <2> DEFINE p    == path[1]
               from == node[path[1]].h
               to   == node[path[2]].h
    <2>1. p \in Cell /\ from \in Nat /\ to \in Nat /\ check_grid(from, to, p, req.vehicle)
      BY WriteChecked
    <2>2. grid' = SetGrid(from, to, p, req.vehicle)
      BY DEF WriteNode
    <2> HIDE DEF p, from, to
    <2>3. c = p /\ \E i \in from .. to : SlotOf(i) = s
      BY <1>1, <2>1, <2>2 DEF SetGrid, IInv, TypeOK
    <2>4. grid[c][s] \in {GRID_EMPTY, req.vehicle}
      BY <2>1, <2>3 DEF check_grid, stg_get_grid
    <2>5. grid'[c][s] = req.vehicle
      BY <2>1, <2>2, <2>3 DEF SetGrid, IInv, TypeOK
    <2> QED
      BY <1>1, <2>4, <2>5
  <1>5. PICK received \in BOOLEAN : WriteTail(received)
    BY <1>2, <1>3, <1>4
       DEF Next, RadioHandler, RequestId, stg_reserve, FoundTarget, Expand, Neighbor,
           NoPath, Trace, gridVars
  <1> QED
    BY <1>5 DEF WriteTail

(***************************************************************************)
(* On the way to its target no vehicle is ever given a second of a cell    *)
(* that another vehicle has, for every road, number of vehicles, delay and *)
(* length of the ring buffer, wherever the timer interrupts the search.    *)
(***************************************************************************)
THEOREM WayIsFree == Spec => WayTakesNothing
  <1>1. Init => IInv
    BY InitInvariant
  <1>2. IInv /\ [Next]_vars => IInv'
    BY StepInvariant
  <1>3. IInv /\ [Next]_vars => [Takes => pc = "write" /\ Len(path) = 1]_vars
    BY StepTakesNothing
  <1> QED
    BY <1>1, <1>2, <1>3, PTL DEF Spec, WayTakesNothing
-----------------------------------------------------------------------------
(***************************************************************************)
(* find_path keeps its two lists in arrays of fixed length on the stack of *)
(* the interrupt handler and never looks at the sizes it increments        *)
(* (CAV/src/STG.c).  It need not, on every road with at most MAX_NODES     *)
(* cells: the lists are disjoint and without repetition, so neither is     *)
(* longer than the road.                                                   *)
(***************************************************************************)
(* A list without repetition. *)
Distinct(list) == \A i, j \in DOMAIN list : list[i] = list[j] => i = j

Separate ==
  /\ Distinct(open)
  /\ Distinct(closed)
  /\ \A i \in DOMAIN open, j \in DOMAIN closed : open[i] # closed[j]

NodesInv == IInv /\ Separate

(* A list of different cells is not longer than the road has cells. *)
LEMMA DistinctFits ==
  ASSUME NEW list \in Seq(Cell), Distinct(list)
  PROVE  Len(list) <= MAX_NODES
  <1>1. Len(list) \in Nat /\ DOMAIN list = 1 .. Len(list) /\ list \in [1 .. Len(list) -> Cell]
    OBVIOUS
  <1>2. list \in Injection(1 .. Len(list), Cell)
    BY <1>1 DEF Distinct, Injection, IsInjective
  <1>3. Cardinality(1 .. Len(list)) <= Cardinality(Cell)
    BY <1>2, CellAssumption, FS_Injection
  <1>4. Cardinality(1 .. Len(list)) = Len(list)
    BY <1>1, FS_Interval
  <1>5. Cardinality(Cell) \in Nat
    BY CellAssumption, FS_CardinalityType
  <1> QED
    BY <1>1, <1>3, <1>4, <1>5, SizeAssumption

(* Adding a cell that is not in the list, and taking one out. *)
LEMMA DistinctAppend ==
  ASSUME NEW list \in Seq(Cell), NEW c \in Cell, Distinct(list), ~ InList(c, list)
  PROVE  Distinct(Append(list, c))
  BY DEF Distinct, InList

LEMMA DistinctWithout ==
  ASSUME NEW list \in Seq(Cell), NEW i \in DOMAIN list, Distinct(list)
  PROVE  Distinct(Without(list, i)) /\ ~ InList(list[i], Without(list, i))
  BY DEF Distinct, InList, Without

(* The best node goes from one list to the other. *)
LEMMA ExpandSeparates ==
  ASSUME NodesInv, NEW i \in DOMAIN open, Expand(i)
  PROVE  Separate'
  <1>1. open \in Seq(Cell) /\ closed \in Seq(Cell) /\ open[i] \in Cell
    BY DEF NodesInv, IInv, TypeOK
  <1>2. open' = Without(open, i) /\ closed' = Append(closed, open[i])
    BY DEF Expand
  <1>3. Distinct(open') /\ ~ InList(open[i], open')
    BY <1>1, <1>2, DistinctWithout DEF NodesInv, Separate
  <1>4. Distinct(closed')
    <2>1. ~ InList(open[i], closed)
      BY DEF NodesInv, Separate, InList
    <2> QED
      BY <1>1, <1>2, <2>1, DistinctAppend DEF NodesInv, Separate
  <1>5. \A j \in DOMAIN open', k \in DOMAIN closed' : open'[j] # closed'[k]
    <2> SUFFICES ASSUME NEW j \in DOMAIN open', NEW k \in DOMAIN closed' PROVE open'[j] # closed'[k]
      OBVIOUS
    <2>1. \E m \in DOMAIN open : open'[j] = open[m]
      BY <1>1, <1>2 DEF Without
    <2>2. open'[j] # open[i]
      BY <1>3 DEF InList
    <2>3. closed'[k] = open[i] \/ \E m \in DOMAIN closed : closed'[k] = closed[m]
      BY <1>1, <1>2
    <2> QED
      BY <2>1, <2>2, <2>3 DEF NodesInv, Separate
  <1> QED
    BY <1>3, <1>4, <1>5 DEF Separate, Distinct

(* A neighbour is opened only if it is in neither list. *)
LEMMA NeighborSeparates ==
  ASSUME NodesInv, NEW i \in moves, Neighbor(i)
  PROVE  Separate'
  <1> DEFINE c == candidate_moves(current)[i].cell
  <1>1. open \in Seq(Cell) /\ closed \in Seq(Cell)
    BY DEF NodesInv, IInv, TypeOK
  <1>2. c \in Cell
    <2>1. current \in Cell /\ i \in Candidates(current) /\ TypeOK
      BY DEF Neighbor, NodesInv, IInv, Control
    <2> QED
      BY <2>1, CandidateType
  <1>3. closed' = closed
    BY DEF Neighbor
  <1>4. open' = open \/ (open' = Append(open, c) /\ ~ InList(c, open) /\ ~ InList(c, closed))
    BY DEF Neighbor, Kept
  <1> HIDE DEF c
  <1>5. CASE open' = open
    BY <1>3, <1>5 DEF NodesInv, Separate, Distinct
  <1>6. CASE open' = Append(open, c) /\ ~ InList(c, open) /\ ~ InList(c, closed)
    <2>1. Distinct(open')
      BY <1>1, <1>2, <1>6, DistinctAppend DEF NodesInv, Separate
    <2>2. \A j \in DOMAIN open' : open'[j] = c \/ \E m \in DOMAIN open : open'[j] = open[m]
      BY <1>1, <1>6
    <2>3. \A j \in DOMAIN open', k \in DOMAIN closed : open'[j] # closed[k]
      BY <1>6, <2>2 DEF NodesInv, Separate, InList
    <2> QED
      BY <1>3, <2>1, <2>3 DEF NodesInv, Separate, Distinct
  <1> QED
    BY <1>4, <1>5, <1>6

LEMMA StepSeparates == NodesInv /\ [Next]_vars => NodesInv'
  <1> SUFFICES ASSUME NodesInv, [Next]_vars PROVE Separate'
    BY StepInvariant DEF NodesInv
  <1>1. CASE open' = << >> /\ closed' = << >>
    BY <1>1 DEF Separate, Distinct
  <1>2. CASE UNCHANGED << open, closed >>
    BY <1>2 DEF NodesInv, Separate, Distinct
  <1>3. CASE \E v \in Vehicle, delay \in Delays : stg_reserve(v, delay)
    <2>1. PICK v \in Vehicle, delay \in Delays : stg_reserve(v, delay)
      BY <1>3
    <2>2. open' = << at[v] >> /\ closed' = << >>
      BY <2>1 DEF stg_reserve
    <2> QED
      BY <2>2 DEF Separate, Distinct
  <1>4. CASE \E i \in DOMAIN open : Expand(i)
    BY <1>4, ExpandSeparates
  <1>5. CASE \E i \in moves : Neighbor(i)
    BY <1>5, NeighborSeparates
  <1>6. CASE \/ RequestId \/ NoPath \/ Trace \/ WriteNode \/ Tick \/ UNCHANGED vars
             \/ \E i \in DOMAIN open : FoundTarget(i)
    BY <1>2, <1>6 DEF RequestId, NoPath, Trace, WriteNode, Tick, FoundTarget, vars, searchVars
  <1>7. CASE \E received \in BOOLEAN : WriteTail(received)
    BY <1>1, <1>7 DEF WriteTail, NoSearch
  <1> QED
    BY <1>3, <1>4, <1>5, <1>6, <1>7 DEF Next, RadioHandler

(* Disjoint lists without repetition hold a cell once and fit their arrays. *)
LEMMA SeparateOnce == NodesInv => NodesOnce
  <1> SUFFICES ASSUME NodesInv PROVE NodesOnce
    OBVIOUS
  <1> DEFINE all == open \o closed
  <1>1. open \in Seq(Cell) /\ closed \in Seq(Cell) /\ Distinct(open) /\ Distinct(closed)
    BY DEF NodesInv, IInv, TypeOK, Separate
  <1>2. Len(open) <= MAX_NODES /\ Len(closed) <= MAX_NODES
    BY <1>1, DistinctFits
  <1>3. ASSUME NEW i \in DOMAIN all, NEW j \in DOMAIN all, all[i] = all[j] PROVE i = j
    <2>1. DOMAIN all = 1 .. Len(open) + Len(closed) /\ Len(open) \in Nat /\ Len(closed) \in Nat
      BY <1>1
    <2>2. \A k \in DOMAIN all : k <= Len(open) => all[k] = open[k] /\ k \in DOMAIN open
      BY <1>1
    <2>3. \A k \in DOMAIN all : k > Len(open) =>
            all[k] = closed[k - Len(open)] /\ k - Len(open) \in DOMAIN closed
      BY <1>1
    <2>4. i \in Nat /\ j \in Nat
      BY <2>1
    <2> HIDE DEF all
    <2>5. CASE i <= Len(open) /\ j <= Len(open)
      BY <1>1, <1>3, <2>2, <2>5 DEF Distinct
    <2>6. CASE i > Len(open) /\ j > Len(open)
      <3>1. i - Len(open) = j - Len(open)
        BY <1>1, <1>3, <2>3, <2>6 DEF Distinct
      <3> QED
        BY <2>1, <2>4, <3>1
    <2>7. CASE i <= Len(open) /\ j > Len(open)
      BY <1>3, <2>2, <2>3, <2>7 DEF NodesInv, Separate
    <2>8. CASE i > Len(open) /\ j <= Len(open)
      BY <1>3, <2>2, <2>3, <2>8 DEF NodesInv, Separate
    <2> QED
      BY <2>1, <2>4, <2>5, <2>6, <2>7, <2>8
  <1> QED
    BY <1>2, <1>3 DEF NodesOnce

(***************************************************************************)
(* Whatever the road, the requests and the ticks, find_path never has a    *)
(* cell twice in its lists and never writes behind one of its two arrays   *)
(* (CAV/src/STG.c:223).                                                    *)
(***************************************************************************)
THEOREM SearchFits == Spec => []NodesOnce
  <1>1. Init => NodesInv
    BY InitInvariant DEF Init, NodesInv, Separate, Distinct
  <1>2. NodesInv /\ [Next]_vars => NodesInv'
    BY StepSeparates
  <1>3. NodesInv => NodesOnce
    BY SeparateOnce
  <1> QED
    BY <1>1, <1>2, <1>3, PTL DEF Spec

-----------------------------------------------------------------------------
(***************************************************************************)
(* STG implements Calendar, on every road: the ring buffer shows each      *)
(* booking at its second and at no other, if the buffer is longer than a   *)
(* booking can reach ahead and a reservation is written before it departs. *)
(***************************************************************************)

(* The longest move: a turn and the way to the next cell. *)
MOVE == GRID_MOVE_TIME + GRID_TURN_TIME

(***************************************************************************)
(* No search takes longer than what is left until the departure, and the   *)
(* longest way, through as many cells as the arrays of the search hold,    *)
(* ends in sight.  In the code a delay is a byte, MAX_NODES is 25 and the  *)
(* buffer is 1000 seconds long.                                            *)
(***************************************************************************)
WayInSight ==
  \A d \in Delays :
    /\ MaxPreempt <= d
    /\ d + MOVE * MAX_NODES + TAIL_TIME < STG_BUFFER_LENGTH

(* The departure is ahead of the clock by no less than the ticks to come. *)
Punctual ==
  /\ preempted <= MaxPreempt
  /\ server_time + MaxPreempt <= req.departure + preempted
  /\ \E d \in Delays : req.departure <= server_time + d

(* Each node in the lists is reached by as many moves as cells are closed. *)
Reached ==
  \A c \in Cell : Known(c) =>
    req.departure <= node[c].h /\ node[c].h <= req.departure + MOVE * Len(closed)

SightInv ==
  /\ NodesInv
  /\ pc \in {"search", "neighbors", "trace", "write"} => Punctual /\ Reached
  /\ pc = "neighbors" => node[current].h + MOVE <= req.departure + MOVE * Len(closed)

(* A move takes no longer than the longest, and is not over before it starts. *)
LEMMA CandidateTime ==
  ASSUME TypeOK, NEW c \in Cell, NEW i \in Candidates(c)
  PROVE  /\ node[c].h <= candidate_moves(c)[i].node.h
         /\ candidate_moves(c)[i].node.h <= node[c].h + MOVE
  <1>1. node[c].h \in Nat
    BY DEF TypeOK, Node
  <1>2. CASE i <= Len(Moves[c])
    <2>1. candidate_moves(c)[i] = MoveNode(c, Moves[c][i])
      BY <1>2 DEF candidate_moves
    <2>2. MoveNode(c, Moves[c][i]).node.h = node[c].h + MoveTime(c, Moves[c][i])
      BY DEF MoveNode
    <2>3. MoveTime(c, Moves[c][i]) \in {GRID_MOVE_TIME, GRID_MOVE_TIME + GRID_TURN_TIME}
      BY DEF MoveTime
    <2> QED
      BY <1>1, <2>1, <2>2, <2>3 DEF MOVE, GRID_MOVE_TIME, GRID_TURN_TIME
  <1>3. CASE ~ (i <= Len(Moves[c]))
    <2>1. candidate_moves(c)[i] = WaitNode(c)
      BY <1>3 DEF candidate_moves
    <2>2. WaitNode(c).node.h = node[c].h + GRID_WAIT_TIME
      BY DEF WaitNode
    <2> QED
      BY <1>1, <2>1, <2>2 DEF MOVE, GRID_MOVE_TIME, GRID_TURN_TIME, GRID_WAIT_TIME
  <1> QED
    BY <1>2, <1>3

LEMMA Numbers ==
  ASSUME TypeOK
  PROVE  /\ server_time \in Nat /\ req.departure \in Nat /\ preempted \in Nat
         /\ Len(closed) \in Nat /\ Len(open) \in Nat
         /\ open \in Seq(Cell) /\ closed \in Seq(Cell)
         /\ \A c \in Cell : node[c].h \in Nat
         /\ MaxPreempt \in Nat
  BY BoundAssumption DEF TypeOK, Node

(* A step that leaves the lists, the nodes and the request alone. *)
LEMMA ReachedKept ==
  ASSUME Reached, UNCHANGED << req, open, closed, node >>
  PROVE  Reached'
  BY DEF Reached, Known, InList

LEMMA PunctualKept ==
  ASSUME Punctual, UNCHANGED << server_time, req, preempted >>
  PROVE  Punctual'
  BY DEF Punctual

(* A reservation is taken with its departure ahead, by one of the delays. *)
LEMMA ReserveSight ==
  ASSUME SightInv, WayInSight, NEW v \in Vehicle, NEW delay \in Delays, stg_reserve(v, delay)
  PROVE  Punctual' /\ Reached' /\ pc' = "search"
  <1>1. /\ req'.departure = server_time + delay /\ server_time' = server_time
        /\ preempted' = 0 /\ open' = << at[v] >> /\ closed' = << >> /\ pc' = "search"
    BY DEF stg_reserve, gridVars
  <1>2. server_time \in Nat /\ delay \in Nat /\ MaxPreempt \in Nat /\ MaxPreempt <= delay
    BY DelaysAssumption, Numbers DEF SightInv, NodesInv, IInv, WayInSight
  <1>3. Punctual'
    BY <1>1, <1>2 DEF Punctual
  <1>4. at[v] \in Cell
    BY DEF SightInv, NodesInv, IInv, TypeOK
  <1>5. node'[at[v]].h = server_time + delay
    BY <1>4 DEF stg_reserve, Start
  <1>6. \A c \in Cell : Known(c)' => c = at[v]
    BY <1>1 DEF Known, InList
  <1>7. Reached'
    BY <1>1, <1>2, <1>5, <1>6 DEF Reached, MOVE, GRID_MOVE_TIME, GRID_TURN_TIME
  <1> QED
    BY <1>1, <1>3, <1>7

LEMMA ExpandSight ==
  ASSUME SightInv, NEW i \in DOMAIN open, Expand(i)
  PROVE  /\ Punctual' /\ Reached'
         /\ node'[current'].h + MOVE <= req'.departure + MOVE * Len(closed')
  <1>0. TypeOK /\ Punctual /\ Reached
    BY DEF SightInv, NodesInv, IInv, Expand
  <1>1. /\ open[i] \in Cell /\ open \in Seq(Cell) /\ closed \in Seq(Cell)
        /\ req.departure \in Nat /\ \A c \in Cell : node[c].h \in Nat
    BY <1>0, Numbers
  <1>2. /\ open' = Without(open, i) /\ closed' = Append(closed, open[i])
        /\ current' = open[i] /\ UNCHANGED << req, node, server_time, preempted >>
    BY DEF Expand, gridVars
  <1>3. Len(closed') = Len(closed) + 1 /\ Len(closed) \in Nat
    BY <1>1, <1>2
  <1>4. Known(open[i])
    BY DEF Known, InList
  <1>5. \A c \in Cell : Known(c)' => Known(c)
    <2> SUFFICES ASSUME NEW c \in Cell, Known(c)' PROVE Known(c)
      OBVIOUS
    <2>1. InList(c, open)' => InList(c, open)
      BY <1>1, <1>2, InWithout
    <2>2. InList(c, closed)' => InList(c, closed) \/ c = open[i]
      BY <1>1, <1>2, InAppend
    <2> QED
      BY <1>4, <2>1, <2>2 DEF Known
  <1>6. MOVE * Len(closed') = MOVE * Len(closed) + MOVE /\ MOVE * Len(closed) \in Nat /\ MOVE \in Nat
    BY <1>3 DEF MOVE, GRID_MOVE_TIME, GRID_TURN_TIME
  <1> HIDE DEF MOVE
  <1>7. node'[current'].h + MOVE <= req'.departure + MOVE * Len(closed')
    <2>1. node[open[i]].h <= req.departure + MOVE * Len(closed)
      BY <1>0, <1>1, <1>4 DEF Reached
    <2>2. node[open[i]].h \in Nat
      BY <1>1
    <2> QED
      BY <1>1, <1>2, <1>6, <2>1, <2>2
  <1>8. Reached'
    <2> SUFFICES ASSUME NEW c \in Cell, Known(c)'
                 PROVE  /\ req.departure <= node[c].h
                        /\ node[c].h <= req.departure + MOVE * Len(closed')
      BY <1>2 DEF Reached
    <2>1. node[c].h \in Nat /\ req.departure <= node[c].h /\ node[c].h <= req.departure + MOVE * Len(closed)
      BY <1>0, <1>1, <1>5 DEF Reached
    <2> QED
      BY <1>1, <1>6, <2>1
  <1>9. Punctual'
    BY <1>0, <1>2, PunctualKept
  <1> QED
    BY <1>7, <1>8, <1>9

LEMMA NeighborSight ==
  ASSUME SightInv, NEW i \in moves, Neighbor(i)
  PROVE  /\ Punctual' /\ Reached'
         /\ node'[current'].h + MOVE <= req'.departure + MOVE * Len(closed')
  <1>0. /\ TypeOK /\ Punctual /\ Reached /\ Control /\ pc = "neighbors"
        /\ node[current].h + MOVE <= req.departure + MOVE * Len(closed)
        /\ InList(current, closed)
    BY DEF SightInv, NodesInv, IInv, Neighbor, MovesChecked
  <1>1. UNCHANGED << req, closed, current, server_time, preempted >>
    BY DEF Neighbor, gridVars
  <1>2. PICK q \in Cell : q = current
    BY <1>0 DEF Control
  <1>3. i \in Candidates(q)
    BY <1>0, <1>2 DEF Control
  <1>4. PICK n : n = candidate_moves(q)[i]
    OBVIOUS
  <1>5. n.cell \in Cell /\ n.node.h \in Nat
    <2>1. n.cell \in Cell /\ n.node \in Node
      BY <1>0, <1>3, <1>4, CandidateType
    <2> QED
      BY <2>1 DEF Node
  <1>6. node[q].h <= n.node.h /\ n.node.h <= node[q].h + MOVE
    BY <1>0, <1>3, <1>4, CandidateTime
  <1>7. /\ req.departure \in Nat /\ \A c \in Cell : node[c].h \in Nat
        /\ open \in Seq(Cell) /\ Len(closed) \in Nat
    BY <1>0, Numbers
  <1>8. MOVE * Len(closed) \in Nat /\ MOVE \in Nat
    BY <1>7 DEF MOVE, GRID_MOVE_TIME, GRID_TURN_TIME
  <1> HIDE DEF MOVE
  <1>9. /\ node' = IF Kept(n) THEN [node EXCEPT ![n.cell] = n.node] ELSE node
        /\ open' = IF Kept(n) /\ ~ InList(n.cell, open) THEN Append(open, n.cell) ELSE open
    BY <1>2, <1>4 DEF Neighbor
  <1>10. n.cell = q => ~ Kept(n)
    BY <1>0, <1>2 DEF Kept
  <1>11. node'[q] = node[q]
    BY <1>5, <1>9, <1>10 DEF TypeOK
  <1>12. node'[current'].h + MOVE <= req'.departure + MOVE * Len(closed')
    BY <1>0, <1>1, <1>2, <1>11
  <1>13. Known(q) /\ req.departure <= node[q].h
    BY <1>0, <1>2 DEF Known, Reached
  <1>14. Reached'
    <2> SUFFICES ASSUME NEW c \in Cell, Known(c)'
                 PROVE  /\ req.departure <= node'[c].h
                        /\ node'[c].h <= req.departure + MOVE * Len(closed)
      BY <1>1 DEF Reached
    <2>1. CASE Kept(n) /\ c = n.cell
      <3>1. node'[c].h = n.node.h
        BY <1>0, <1>5, <1>9, <2>1 DEF TypeOK
      <3>2. node[q].h \in Nat /\ node[q].h + MOVE <= req.departure + MOVE * Len(closed)
        BY <1>0, <1>2, <1>7
      <3> QED
        BY <1>5, <1>6, <1>7, <1>8, <1>13, <3>1, <3>2
    <2>2. CASE ~ (Kept(n) /\ c = n.cell)
      <3>1. node'[c] = node[c]
        BY <1>0, <1>5, <1>9, <2>2 DEF TypeOK
      <3>2. InList(c, open)' => InList(c, open)
        <4>1. CASE Kept(n) /\ ~ InList(n.cell, open)
          BY <1>5, <1>7, <1>9, <2>2, <4>1, InAppend
        <4>2. CASE ~ (Kept(n) /\ ~ InList(n.cell, open))
          BY <1>9, <4>2 DEF InList
        <4> QED
          BY <4>1, <4>2
      <3>3. InList(c, closed)' => InList(c, closed)
        BY <1>1 DEF InList
      <3>4. Known(c)
        BY <3>2, <3>3 DEF Known
      <3> QED
        BY <1>0, <3>1, <3>4 DEF Reached
    <2> QED
      BY <2>1, <2>2
  <1>15. Punctual'
    BY <1>0, <1>1, PunctualKept
  <1> QED
    BY <1>12, <1>14, <1>15

(* A tick uses up one of those that were to come. *)
LEMMA TickSight ==
  ASSUME SightInv, Tick, pc \in {"search", "neighbors", "trace", "write"}
  PROVE  Punctual' /\ Reached' /\ UNCHANGED << pc, req, closed, node, current >>
  <1>1. /\ TypeOK /\ Punctual /\ Reached
        /\ server_time' = server_time + 1 /\ preempted < MaxPreempt
        /\ preempted' = preempted + 1
        /\ UNCHANGED << pc, req, open, closed, node, current >>
    BY DEF SightInv, NodesInv, IInv, Tick, searchVars
  <1>2. Punctual'
    <2>1. PICK d \in Delays : req.departure <= server_time + d
      BY <1>1 DEF Punctual
    <2>2. d \in Nat
      BY DelaysAssumption
    <2>3. req'.departure <= server_time' + d
      BY <1>1, <2>1, <2>2, Numbers
    <2>4. preempted' <= MaxPreempt /\ server_time' + MaxPreempt <= req'.departure + preempted'
      BY <1>1, Numbers DEF Punctual
    <2> QED
      BY <2>3, <2>4 DEF Punctual
  <1> QED
    BY <1>1, <1>2, ReachedKept

LEMMA InitSight == Init => SightInv
  <1> SUFFICES ASSUME Init PROVE SightInv
    OBVIOUS
  <1>1. NodesInv
    BY InitInvariant DEF Init, NodesInv, Separate, Distinct
  <1> QED
    BY <1>1 DEF SightInv, Init

LEMMA StepSight == SightInv /\ WayInSight /\ [Next]_vars => SightInv'
  <1> SUFFICES ASSUME SightInv, WayInSight, [Next]_vars PROVE SightInv'
    OBVIOUS
  <1>0. NodesInv'
    BY StepSeparates DEF SightInv
  <1> DEFINE Rest == /\ pc' \in {"search", "neighbors", "trace", "write"} => Punctual' /\ Reached'
                     /\ pc' = "neighbors" =>
                          node'[current'].h + MOVE <= req'.departure + MOVE * Len(closed')
  <1> SUFFICES Rest
    BY <1>0 DEF SightInv
  <1>1. CASE RequestId \/ \E received \in BOOLEAN : WriteTail(received)
    BY <1>1 DEF RequestId, WriteTail
  <1>2. CASE \E v \in Vehicle, delay \in Delays : stg_reserve(v, delay)
    BY <1>2, ReserveSight
  <1>3. CASE \E i \in DOMAIN open : Expand(i)
    BY <1>3, ExpandSight
  <1>4. CASE \E i \in moves : Neighbor(i)
    BY <1>4, NeighborSight
  <1>5. CASE Tick
    <2>1. CASE pc \in {"search", "neighbors", "trace", "write"}
      BY <1>5, <2>1, TickSight DEF SightInv
    <2>2. CASE pc \notin {"search", "neighbors", "trace", "write"}
      BY <1>5, <2>2 DEF Tick
    <2> QED
      BY <2>1, <2>2
  <1>6. CASE NoPath
    BY <1>6 DEF NoPath
  <1>7. CASE WriteNode
    <2>1. /\ UNCHANGED << server_time, req, preempted, open, closed, node >>
          /\ pc = "write" /\ pc' = "write"
      BY <1>7 DEF WriteNode, searchVars
    <2>2. Punctual' /\ Reached'
      BY <2>1, PunctualKept, ReachedKept DEF SightInv
    <2> QED
      BY <2>1, <2>2
  <1>8. CASE Trace
    <2>1. /\ UNCHANGED << server_time, req, preempted, open, closed, node >>
          /\ pc = "trace" /\ pc' \in {"trace", "write"}
      BY <1>8 DEF Trace, gridVars
    <2>2. Punctual' /\ Reached'
      BY <2>1, PunctualKept, ReachedKept DEF SightInv
    <2> QED
      BY <2>1, <2>2
  <1>9. CASE \E i \in DOMAIN open : FoundTarget(i)
    <2>1. /\ UNCHANGED << server_time, req, preempted, open, closed, node >>
          /\ pc = "search" /\ pc' = "trace"
      BY <1>9 DEF FoundTarget, gridVars
    <2>2. Punctual' /\ Reached'
      BY <2>1, PunctualKept, ReachedKept DEF SightInv
    <2> QED
      BY <2>1, <2>2
  <1>10. CASE UNCHANGED vars
    <2>1. UNCHANGED << server_time, req, preempted, open, closed, node, current, pc >>
      BY <1>10 DEF vars, gridVars, searchVars
    <2>2. Punctual => Punctual'
      BY <2>1, PunctualKept
    <2>3. Reached => Reached'
      BY <2>1, ReachedKept
    <2> QED
      BY <2>1, <2>2, <2>3 DEF SightInv
  <1> QED
    BY <1>1, <1>2, <1>3, <1>4, <1>5, <1>6, <1>7, <1>8, <1>9, <1>10 DEF Next, RadioHandler

-----------------------------------------------------------------------------
(***************************************************************************)
(* Slots and seconds: within a window as long as the buffer each second    *)
(* has a slot of its own.                                                  *)
(***************************************************************************)
LEMMA Division ==
  ASSUME NEW n \in Nat \ {0}, NEW a \in Nat
  PROVE  /\ a % n \in 0 .. n - 1 /\ a \div n \in Int
         /\ a = n * (a \div n) + (a % n)
  BY SMTT(20)

LEMMA Remainder ==
  ASSUME NEW n \in Nat \ {0}, NEW q \in Int, NEW r \in 0 .. n - 1
  PROVE  ((n * q) + r) % n = r
  BY SMTT(20)

(* A second and the one a turn of the buffer later share a slot. *)
LEMMA TurnSame ==
  ASSUME NEW n \in Nat \ {0}, NEW a \in Nat
  PROVE  (a + n) % n = a % n
  <1> DEFINE q == a \div n
             r == a % n
  <1>1. q \in Int /\ r \in 0 .. n - 1 /\ a = n * q + r
    BY Division
  <1> HIDE DEF q, r
  <1>2. a + n = n * (q + 1) + r
    BY <1>1
  <1>3. (n * (q + 1) + r) % n = r
    BY <1>1, Remainder
  <1> QED
    BY <1>2, <1>3 DEF r

(* Seconds less than a turn apart do not. *)
LEMMA LessApart ==
  ASSUME NEW n \in Nat \ {0}, NEW a \in Nat, NEW b \in Nat, a < b, b < a + n
  PROVE  a % n # b % n
  <1> DEFINE q == a \div n
             r == a % n
             k == b - a
  <1>1. q \in Int /\ r \in 0 .. n - 1 /\ a = n * q + r
    BY Division
  <1>2. k \in 1 .. n - 1 /\ b = a + k
    OBVIOUS
  <1> HIDE DEF q, r, k
  <1>3. CASE r + k < n
    <2>1. r + k \in 0 .. n - 1 /\ b = n * q + (r + k)
      BY <1>1, <1>2, <1>3
    <2>2. (n * q + (r + k)) % n = r + k
      BY <1>1, <2>1, Remainder
    <2>3. b % n = r + k
      BY <2>1, <2>2
    <2>4. r + k # r
      BY <1>1, <1>2
    <2> QED
      BY <2>3, <2>4 DEF r
  <1>4. CASE r + k >= n
    <2> DEFINE p == q + 1
               s == r + k - n
    <2>1. p \in Int /\ s \in 0 .. n - 1 /\ b = n * p + s
      BY <1>1, <1>2, <1>4
    <2>4. s # r
      BY <1>1, <1>2
    <2> HIDE DEF p, s
    <2>2. (n * p + s) % n = s
      BY <2>1, Remainder
    <2>3. b % n = s
      BY <2>1, <2>2
    <2> QED
      BY <2>3, <2>4 DEF r
  <1> QED
    BY <1>1, <1>2, <1>3, <1>4

LEMMA SlotsApart ==
  ASSUME NEW now \in Nat,
         NEW t \in now .. now + STG_BUFFER_LENGTH - 1,
         NEW u \in now .. now + STG_BUFFER_LENGTH - 1,
         SlotOf(t) = SlotOf(u)
  PROVE  t = u
  <1> DEFINE n == STG_BUFFER_LENGTH
  <1>1. n \in Nat \ {0} /\ t \in Nat /\ u \in Nat /\ t < u + n /\ u < t + n
    BY SizeAssumption
  <1>2. t % n = u % n
    BY DEF SlotOf
  <1> HIDE DEF n
  <1>3. ~ (t < u) /\ ~ (u < t)
    BY <1>1, <1>2, LessApart
  <1> QED
    BY <1>1, <1>3

LEMMA SlotAgain ==
  ASSUME NEW now \in Nat
  PROVE  SlotOf(now + STG_BUFFER_LENGTH) = SlotOf(now)
  BY TurnSame, SizeAssumption DEF SlotOf

-----------------------------------------------------------------------------
(***************************************************************************)
(* The steps of STG as steps of the calendar.                              *)
(***************************************************************************)
Window == server_time .. server_time + STG_BUFFER_LENGTH - 1

CalendarStep == [Calendar_!Next]_<< server_time, Bookings >>

LEMMA BookingsAre ==
  /\ Bookings = [c \in Cell |-> [t \in Window |-> grid[c][SlotOf(t)]]]
  /\ \A c \in Cell, t \in Window : Bookings[c][t] = grid[c][SlotOf(t)]
  BY DEF Bookings, Window, stg_get_grid

LEMMA BookingsNext ==
  Bookings' = [c \in Cell |-> [t \in Window' |-> grid'[c][SlotOf(t)]]]
  BY DEF Bookings, Window, stg_get_grid, SlotOf

(* What a booking in sight shows. *)
LEMMA SetGridShows ==
  ASSUME TypeOK, NEW from \in Nat, NEW to \in Nat, NEW c \in Cell, NEW v \in Vehicle,
         server_time <= from, to < server_time + STG_BUFFER_LENGTH,
         grid' = SetGrid(from, to, c, v), server_time' = server_time
  PROVE  Bookings' = [Bookings EXCEPT ![c] =
                        [t \in Window |-> IF t \in from .. to THEN v ELSE @[t]]]
  <1>1. server_time \in Nat /\ STG_BUFFER_LENGTH \in Nat
    BY SizeAssumption DEF TypeOK
  <1>2. from .. to \subseteq Window
    BY <1>1 DEF Window
  <1>3. \A t \in Window : SlotOf(t) \in Slot
    BY <1>1, SlotType DEF Window
  <1>4. \A t \in Window : (\E i \in from .. to : SlotOf(i) = SlotOf(t)) <=> t \in from .. to
    BY <1>1, <1>2, SlotsApart DEF Window
  <1>5. \A d \in Cell, s \in Slot :
          grid'[d][s] = IF d = c /\ \E i \in from .. to : SlotOf(i) = s THEN v ELSE grid[d][s]
    BY DEF SetGrid, TypeOK
  <1>6. \A d \in Cell, t \in Window :
          grid'[d][SlotOf(t)] = IF d = c /\ t \in from .. to THEN v ELSE grid[d][SlotOf(t)]
    BY <1>3, <1>4, <1>5
  <1>7. Window' = Window
    BY DEF Window
  <1> DEFINE shown == [Bookings EXCEPT ![c] =
                         [t \in Window |-> IF t \in from .. to THEN v ELSE @[t]]]
  <1>8. shown = [d \in Cell |-> [t \in Window |->
                   IF d = c /\ t \in from .. to THEN v ELSE grid[d][SlotOf(t)]]]
    BY BookingsAre
  <1>9. Bookings' = [d \in Cell |-> [t \in Window |->
                       IF d = c /\ t \in from .. to THEN v ELSE grid[d][SlotOf(t)]]]
    BY <1>6, <1>7, BookingsNext
  <1> QED
    BY <1>8, <1>9

(* The booking of a cell in sight, free on the way or short at the target. *)
LEMMA BookingStep ==
  ASSUME TypeOK, NEW from \in Nat, NEW to \in Nat, NEW c \in Cell, NEW v \in Vehicle,
         server_time <= from, to < server_time + STG_BUFFER_LENGTH,
         grid' = SetGrid(from, to, c, v), server_time' = server_time,
         check_grid(from, to, c, v) \/ to <= from + TAIL_TIME
  PROVE  CalendarStep
  <1> DEFINE taken == { t \in Window : Bookings'[c][t] # Bookings[c][t] }
  <1>1. server_time \in Nat /\ STG_BUFFER_LENGTH \in Nat
    BY SizeAssumption DEF TypeOK
  <1>2. Bookings' = [Bookings EXCEPT ![c] =
                       [t \in Window |-> IF t \in from .. to THEN v ELSE @[t]]]
    BY SetGridShows
  <1>3. /\ Bookings \in [Cell -> [Window -> Vehicle \cup {GRID_EMPTY}]]
        /\ from .. to \subseteq Window
    <2>1. \A t \in Window : SlotOf(t) \in Slot
      BY <1>1, SlotType DEF Window
    <2>2. \A d \in Cell, t \in Window : grid[d][SlotOf(t)] \in Vehicle \cup {GRID_EMPTY}
      BY <2>1 DEF TypeOK
    <2>3. from .. to \subseteq Window
      BY <1>1 DEF Window
    <2> QED
      BY <2>2, <2>3, BookingsAre
  <1>4. \A t \in Window : Bookings'[c][t] = IF t \in from .. to THEN v ELSE Bookings[c][t]
    BY <1>2, <1>3
  <1>5. taken = { t \in from .. to : Bookings[c][t] # v }
    BY <1>3, <1>4
  <1>6. Calendar_!Changed(c) = taken
    BY DEF Calendar_!Changed, Calendar_!Window, Window
  <1> HIDE DEF taken
  <1>7. CASE taken = {}
    <2>1. \A t \in from .. to : Bookings[c][t] = v
      BY <1>5, <1>7
    <2>2. [Bookings EXCEPT ![c] = [t \in Window |-> IF t \in from .. to THEN v ELSE @[t]]] = Bookings
      BY <1>3, <2>1
    <2> QED
      BY <1>2, <2>2 DEF CalendarStep
  <1>8. CASE taken # {}
    <2>1. Calendar_!OnTheWay(c, taken) \/ Calendar_!AtTarget(taken)
      <3>1. CASE check_grid(from, to, c, v)
        <4>1. \A t \in from .. to : Bookings[c][t] \in {GRID_EMPTY, v}
          BY <1>3, <3>1, BookingsAre DEF check_grid, stg_get_grid
        <4>2. \A t \in taken : Bookings[c][t] = GRID_EMPTY
          BY <1>5, <4>1
        <4> QED
          BY <4>2 DEF Calendar_!OnTheWay
      <3>2. CASE to <= from + TAIL_TIME
        <4>1. \A s, t \in from .. to : s - t <= TAIL_TIME
          BY <3>2 DEF TAIL_TIME
        <4> QED
          BY <1>5, <4>1 DEF Calendar_!AtTarget
      <3> QED
        BY <3>1, <3>2
    <2>2. Bookings' = [Bookings EXCEPT ![c] = [t \in Window |-> IF t \in taken THEN v ELSE @[t]]]
      <3>1. [Bookings EXCEPT ![c] = [t \in Window |-> IF t \in from .. to THEN v ELSE @[t]]]
            = [Bookings EXCEPT ![c] = [t \in Window |-> IF t \in taken THEN v ELSE @[t]]]
        BY <1>3, <1>5
      <3> QED
        BY <1>2, <3>1
    <2>3. \A s, t \in taken : \A u \in s .. t : Bookings'[c][u] = v
      <3>1. \A s, t \in taken : \A u \in s .. t : u \in from .. to
        BY <1>5
      <3> QED
        BY <1>3, <1>4, <3>1
    <2>4. Calendar_!Book(v, c, taken)
      BY <2>2, <2>3 DEF Calendar_!Book, Calendar_!Window, Window
    <2>5. Calendar_!Reserve
      BY <1>6, <1>8, <2>1, <2>4 DEF Calendar_!Reserve
    <2> QED
      BY <2>5 DEF CalendarStep, Calendar_!Next
  <1> QED
    BY <1>7, <1>8

(* A second ends: its slot is the one of the second that comes into sight. *)
LEMMA TickPasses == TypeOK /\ Tick => CalendarStep
  <1> SUFFICES ASSUME TypeOK, Tick PROVE Calendar_!Pass
    BY DEF CalendarStep, Calendar_!Next
  <1>1. server_time \in Nat /\ STG_BUFFER_LENGTH \in Nat \ {0} /\ server_time' = server_time + 1
    BY SizeAssumption DEF TypeOK, Tick
  <1>2. Window' = server_time + 1 .. server_time + STG_BUFFER_LENGTH
    BY <1>1 DEF Window
  <1>3. \A c \in Cell, s \in Slot :
          grid'[c][s] = IF s = SlotOf(server_time) THEN GRID_EMPTY ELSE grid[c][s]
    BY DEF Tick, TypeOK
  <1>4. \A t \in Window' : SlotOf(t) \in Slot
    BY <1>1, <1>2, SlotType
  <1>5. ASSUME NEW c \in Cell, NEW t \in Window'
        PROVE  grid'[c][SlotOf(t)] = IF t \in Window THEN Bookings[c][t] ELSE GRID_EMPTY
    <2>1. CASE t \in Window
      <3>1. server_time \in Window /\ t # server_time
        BY <1>1, <1>2, <2>1 DEF Window
      <3>2. SlotOf(t) # SlotOf(server_time)
        BY <1>1, <2>1, <3>1, SlotsApart DEF Window
      <3> QED
        BY <1>3, <1>4, <2>1, <3>2, BookingsAre
    <2>2. CASE t \notin Window
      <3>1. t = server_time + STG_BUFFER_LENGTH
        BY <1>1, <1>2, <2>2 DEF Window
      <3>2. SlotOf(t) = SlotOf(server_time)
        BY <1>1, <3>1, SlotAgain
      <3> QED
        BY <1>3, <1>4, <2>2, <3>2
    <2> QED
      BY <2>1, <2>2
  <1>6. Bookings' = [c \in Cell |-> [t \in Window' |->
                       IF t \in Window THEN Bookings[c][t] ELSE GRID_EMPTY]]
    BY <1>5, BookingsNext
  <1>7. Window' = server_time + 1 .. (server_time + 1) + STG_BUFFER_LENGTH - 1
    BY <1>1 DEF Window
  <1> QED
    BY <1>1, <1>6, <1>7 DEF Calendar_!Pass, Calendar_!Window, Window

(* The way is in sight, and so are the seconds at the target. *)
LEMMA KnownInSight ==
  ASSUME SightInv, WayInSight, pc = "write", NEW c \in Cell, Known(c)
  PROVE  /\ node[c].h \in Nat /\ server_time <= node[c].h
         /\ node[c].h + TAIL_TIME < server_time + STG_BUFFER_LENGTH
  <1>1. TypeOK /\ Punctual /\ Reached
    BY DEF SightInv, NodesInv, IInv
  <1>2. PICK d \in Delays : req.departure <= server_time + d
    BY <1>1 DEF Punctual
  <1>3. d \in Nat /\ d + MOVE * MAX_NODES + TAIL_TIME < STG_BUFFER_LENGTH
    BY DelaysAssumption DEF WayInSight
  <1>4. Len(closed) <= MAX_NODES /\ MAX_NODES \in Nat /\ STG_BUFFER_LENGTH \in Nat
    BY SeparateOnce, SizeAssumption DEF SightInv, NodesOnce
  <1>5. req.departure <= node[c].h /\ node[c].h <= req.departure + MOVE * Len(closed)
    BY <1>1 DEF Reached
  <1>6. /\ server_time \in Nat /\ req.departure \in Nat /\ preempted \in Nat /\ MaxPreempt \in Nat
        /\ node[c].h \in Nat /\ Len(closed) \in Nat
    BY <1>1, Numbers
  <1>7. MOVE * Len(closed) <= MOVE * MAX_NODES
    BY <1>4, <1>6 DEF MOVE, GRID_MOVE_TIME, GRID_TURN_TIME
  <1>8. MOVE * Len(closed) \in Nat /\ MOVE * MAX_NODES \in Nat /\ TAIL_TIME \in Nat
    BY <1>4, <1>6 DEF MOVE, GRID_MOVE_TIME, GRID_TURN_TIME, TAIL_TIME
  <1>9. server_time <= req.departure
    BY <1>1, <1>6 DEF Punctual
  <1> QED
    <2> DEFINE far == MOVE * MAX_NODES
               near == MOVE * Len(closed)
    <2> HIDE DEF far, near
    <2>1. /\ node[c].h <= req.departure + near /\ near <= far /\ near \in Nat /\ far \in Nat
          /\ d + far + TAIL_TIME < STG_BUFFER_LENGTH /\ d \in Nat /\ TAIL_TIME \in Nat
      BY <1>3, <1>5, <1>7, <1>8 DEF far, near
    <2>2. node[c].h + TAIL_TIME <= server_time + (d + far + TAIL_TIME)
      BY <1>2, <1>6, <2>1
    <2>3. d + far + TAIL_TIME \in Nat
      BY <2>1
    <2>4. node[c].h + TAIL_TIME < server_time + STG_BUFFER_LENGTH
      BY <1>4, <1>6, <2>1, <2>2, <2>3
    <2> QED
      BY <1>5, <1>6, <1>9, <2>4

LEMMA InitCalendar == Init => Calendar_!Init
  <1> SUFFICES ASSUME Init PROVE Calendar_!Init
    OBVIOUS
  <1>1. TypeOK /\ server_time = 0 /\ grid = [c \in Cell |-> [s \in Slot |-> GRID_EMPTY]]
    BY InitType DEF Init
  <1>2. \A t \in Window : SlotOf(t) \in Slot
    BY <1>1, SlotType, SizeAssumption DEF Window
  <1>3. Bookings = [c \in Cell |-> [t \in Window |-> GRID_EMPTY]]
    BY <1>1, <1>2, BookingsAre
  <1> QED
    BY <1>1, <1>3 DEF Calendar_!Init, Calendar_!Window, Window

LEMMA StepCalendar == SightInv /\ WayInSight /\ [Next]_vars => CalendarStep
  <1> SUFFICES ASSUME SightInv, WayInSight, [Next]_vars PROVE CalendarStep
    OBVIOUS
  <1>0. TypeOK /\ IInv
    BY DEF SightInv, NodesInv, IInv
  <1>1. CASE UNCHANGED << server_time, grid >>
    BY <1>1 DEF CalendarStep, Bookings, stg_get_grid, SlotOf
  <1>2. CASE Tick
    BY <1>0, <1>2, TickPasses
  <1>3. CASE WriteNode
    <2> DEFINE p == path[1]
               n == path[2]
    <2>1. /\ p \in Cell /\ n \in Cell /\ pc = "write" /\ Known(p) /\ Known(n)
          /\ server_time' = server_time
          /\ grid' = SetGrid(node[p].h, node[n].h, p, req.vehicle)
      <3>1. path \in Seq(Cell) /\ Len(path) > 1 /\ pc = "write"
        BY <1>0, <1>3 DEF WriteNode, TypeOK
      <3>2. 1 \in 1 .. Len(path) /\ 2 \in 1 .. Len(path)
        BY <3>1
      <3> QED
        BY <1>0, <1>3, <3>1, <3>2 DEF WriteNode, IInv, PathLinked
    <2>2. check_grid(node[p].h, node[n].h, p, req.vehicle)
      BY <1>0, <1>3, WriteChecked
    <2>3. req.vehicle \in Vehicle
      BY <1>0, <2>1 DEF IInv, Control
    <2> HIDE DEF p, n
    <2>4. /\ node[p].h \in Nat /\ node[n].h \in Nat /\ server_time <= node[p].h
          /\ node[n].h + TAIL_TIME < server_time + STG_BUFFER_LENGTH
      BY <2>1, KnownInSight
    <2>5. node[n].h < server_time + STG_BUFFER_LENGTH
      BY <1>0, <2>4, SizeAssumption DEF TAIL_TIME, TypeOK
    <2> QED
      BY <1>0, <2>1, <2>2, <2>3, <2>4, <2>5, BookingStep
  <1>4. CASE \E received \in BOOLEAN : WriteTail(received)
    <2> DEFINE p == path[1]
    <2>1. /\ p \in Cell /\ pc = "write" /\ Known(p) /\ server_time' = server_time
          /\ grid' = SetGrid(node[p].h, node[p].h + TAIL_TIME, p, req.vehicle)
      <3>1. path \in Seq(Cell) /\ Len(path) = 1 /\ pc = "write"
        BY <1>0, <1>4 DEF WriteTail, TypeOK
      <3>2. p \in Cell /\ Known(p)
        BY <1>0, <3>1 DEF IInv, PathLinked
      <3>3. /\ grid' = SetGrid(node[p].h, node[p].h + TAIL_TIME, p, req.vehicle)
            /\ server_time' = server_time
        BY <1>4 DEF WriteTail
      <3> QED
        BY <3>1, <3>2, <3>3
    <2>2. req.vehicle \in Vehicle
      BY <1>0, <2>1 DEF IInv, Control
    <2> HIDE DEF p
    <2>3. /\ node[p].h \in Nat /\ server_time <= node[p].h
          /\ node[p].h + TAIL_TIME < server_time + STG_BUFFER_LENGTH
      BY <2>1, KnownInSight
    <2>4. node[p].h + TAIL_TIME \in Nat /\ node[p].h + TAIL_TIME <= node[p].h + TAIL_TIME
      BY <2>3 DEF TAIL_TIME
    <2> QED
      BY <1>0, <2>1, <2>2, <2>3, <2>4, BookingStep
  <1> QED
    BY <1>1, <1>2, <1>3, <1>4
       DEF Next, RadioHandler, RequestId, stg_reserve, FoundTarget, Expand, Neighbor,
           NoPath, Trace, gridVars, vars

(***************************************************************************)
(* The ring buffer is a calendar, on every road: a booking shows at its    *)
(* seconds and at no other, and is forgotten when they have passed, though *)
(* slots are used again and the timer frees some of them while a           *)
(* reservation is being written (CAV/src/STG.c:380).                       *)
(***************************************************************************)
THEOREM ShowsNoOtherSecond == ASSUME WayInSight PROVE Spec => IsCalendar
  <1>1. Init => SightInv /\ Calendar_!Init
    BY InitSight, InitCalendar
  <1>2. SightInv /\ [Next]_vars => SightInv'
    BY StepSight
  <1>3. SightInv /\ [Next]_vars => [Calendar_!Next]_<< server_time, Bookings >>
    BY StepCalendar DEF CalendarStep
  <1> QED
    BY <1>1, <1>2, <1>3, PTL DEF Spec, IsCalendar, Calendar_!Spec
=============================================================================
