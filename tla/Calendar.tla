------------------------------ MODULE Calendar ------------------------------
(***************************************************************************)
(* What the space-time grid of CAV/src/STG.c promises: a calendar of the   *)
(* road that looks a fixed number of seconds ahead.  A booking gives one   *)
(* vehicle some seconds of one cell, none of them past and in sight, and    *)
(* time alone takes it back.  The ring buffer, its indices modulo its      *)
(* length and the reuse of its slots do not show.                          *)
(***************************************************************************)
EXTENDS Integers

CONSTANTS Place, User, Free, Horizon, Overstay

VARIABLES now, booked

Window(t) == t .. t + Horizon - 1

Init ==
  /\ now = 0
  /\ booked = [c \in Place |-> [t \in Window(0) |-> Free]]

(* A second ends; the one that comes into sight has no bookings. *)
Pass ==
  /\ now' = now + 1
  /\ booked' = [c \in Place |-> [t \in Window(now + 1) |->
                  IF t \in Window(now) THEN booked[c][t] ELSE Free]]

(* The seconds of a cell that change hands in a step. *)
Changed(c) ==
  LET before == booked[c]
      after  == booked'[c]
  IN  { t \in Window(now) : after[t] # before[t] }

(* Vehicle v gets these seconds of cell c, and has all those between them. *)
Book(v, c, seconds) ==
  /\ booked' = [booked EXCEPT ![c] = [t \in Window(now) |->
                  IF t \in seconds THEN v ELSE @[t]]]
  /\ LET after == booked'[c] IN
       \A s, t \in seconds : \A u \in s .. t : after[u] = v

(* On the way a vehicle is given free seconds of a cell. *)
OnTheWay(c, seconds) == LET before == booked[c] IN \A t \in seconds : before[t] = Free

(* At its target it takes a few seconds, whoever has them. *)
AtTarget(seconds) == \A s, t \in seconds : s - t <= Overstay

Reserve ==
  /\ now' = now
  /\ \E c \in Place :
       LET seconds == Changed(c) IN
         /\ seconds # {}
         /\ OnTheWay(c, seconds) \/ AtTarget(seconds)
         /\ \E v \in User : Book(v, c, seconds)

Next == Pass \/ Reserve

Spec == Init /\ [][Next]_<< now, booked >>
=============================================================================
