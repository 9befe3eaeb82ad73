------------------------------ MODULE RoadMap ------------------------------
(***************************************************************************)
(* The road of the demonstration: a 5 x 5 grid of one-way cells in the     *)
(* shape of the character for "rice field", as the table grid_directions   *)
(* of CAV/src/STG.c gives it, and the arithmetic the route search does on  *)
(* it.  A Position (the byte POS(x, y)) is the pair <<x, y>>.              *)
(***************************************************************************)
EXTENDS Integers, Sequences

GRID_SIZE == 5

Cells == (0 .. GRID_SIZE - 1) \X (0 .. GRID_SIZE - 1)

(* The directions in the order in which get_valid_moves tries them. *)
Directions == <<"up", "down", "left", "right">>

(* One row per y, one entry per x: the bits UP_PATH, DOWN_PATH, LEFT_PATH  *)
(* and RIGHT_PATH of a cell as a set.                                      *)
grid_directions ==
  << << {"down"},          {"left"},  {"left", "down"},  {"left"},  {"left"} >>,
     << {"down"},          {},        {"down"},          {},        {"up"} >>,
     << {"down", "right"}, {"right"}, {"right", "down"}, {"right"}, {"up"} >>,
     << {"down"},          {},        {"down"},          {},        {"up"} >>,
     << {"right"},         {"right"}, {"right"},         {"right"}, {"up"} >> >>

get_moved_position(c, d) ==
  CASE d = "up"    -> << c[1], c[2] - 1 >>
    [] d = "down"  -> << c[1], c[2] + 1 >>
    [] d = "left"  -> << c[1] - 1, c[2] >>
    [] d = "right" -> << c[1] + 1, c[2] >>

(* The cells one can drive to from c, in the order of the search. *)
RoadMoves ==
  [c \in Cells |->
     LET open == SelectSeq(Directions,
                           LAMBDA d : d \in grid_directions[c[2] + 1][c[1] + 1])
     IN  [i \in DOMAIN open |-> get_moved_position(c, open[i])]]

Gap(a, b) == IF a > b THEN a - b ELSE b - a

calculate_distance(a, b) == Gap(a[1], b[1]) + Gap(a[2], b[2])

(* A vehicle may wait where roads cross or bend, not along a straight. *)
RoadWaits == { c \in Cells : (c[1] + c[2]) % 2 = 0 }

(* Turning while driving into this cell is a right turn, elsewhere a left. *)
RoadRightTurn == << 2, 3 >>

(***************************************************************************)
(* The trips of a vehicle (CAV/src/client.c, reserve_order): it enters at  *)
(* (0, 0), drives to (4, 0) and from then on between (4, 0) and (0, 4).    *)
(***************************************************************************)
RoadEntry == << 0, 0 >>
RoadNextTarget ==
  [c \in Cells |-> IF c = << 4, 0 >> THEN << 0, 4 >> ELSE << 4, 0 >>]
=============================================================================
