-------------------------------- MODULE Trip --------------------------------
(***************************************************************************)
(* What a vehicle does with the orders it is sent, on the ground: where    *)
(* follow_path of CAV/src/drive.c takes it and when.  A posture is the     *)
(* cell the vehicle is at, the direction it faces and the second.          *)
(***************************************************************************)
EXTENDS Integers, Sequences

Compass == << "up", "right", "down", "left" >>

(* The direction n quarter turns clockwise of d. *)
Rotate(d, n) ==
  LET i == CHOOSE k \in 1 .. 4 : Compass[k] = d IN Compass[1 + ((i + n - 1) % 4)]

Ahead(c, d) ==
  CASE d = "up"    -> << c[1], c[2] - 1 >>
    [] d = "down"  -> << c[1], c[2] + 1 >>
    [] d = "left"  -> << c[1] - 1, c[2] >>
    [] d = "right" -> << c[1] + 1, c[2] >>

(* One order: line_tracking to the next crossing, turn_left or turn_right  *)
(* to the next line, or nothing; then waiting until its duration is over.  *)
follow_path(p, order) ==
  [cell |-> IF order[1] = "forward" THEN Ahead(p.cell, p.dir) ELSE p.cell,
   dir  |-> CASE order[1] = "left"  -> Rotate(p.dir, 3)
              [] order[1] = "right" -> Rotate(p.dir, 1)
              [] OTHER              -> p.dir,
   time |-> p.time + order[2]]

(* The postures before the first order, after it, after the second, ... *)
Itinerary(start, list) ==
  LET posture[k \in 0 .. Len(list)] ==
        IF k = 0 THEN start ELSE follow_path(posture[k - 1], list[k])
  IN  posture
=============================================================================
