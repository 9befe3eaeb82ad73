----------------------------- MODULE Countdown ------------------------------
(***************************************************************************)
(* What the time events of a kernel promise those who set them, whatever   *)
(* the kernel's clock and its queue look like: nothing happens before the  *)
(* time that was asked for has passed, nothing later than two periods of   *)
(* the timer interrupt after it, and what happens in cycles keeps to them. *)
(***************************************************************************)
EXTENDS Integers

CONSTANTS
  Event,
  Period,    (* of the timer interrupt *)
  Longest,   (* the longest time that may be asked for, up to the next interrupt *)
  Off

VARIABLES
  left,      (* what is left of the time asked for, at the last interrupt *)
  cycle      (* of events that are repeated; 0 of the others *)

Init == left = [e \in Event |-> Off] /\ cycle \in [Event -> Nat]

Running == { e \in Event : left[e] # Off }

(* Somebody asks for an event, or asks again before it has happened. *)
Set(e) ==
  /\ \E d \in (1 - Period) .. Longest : left' = [left EXCEPT ![e] = d]
  /\ cycle' \in [Event -> Nat] /\ \A x \in Event \ {e} : cycle'[x] = cycle[x]

Cancel(e) ==
  /\ left' = [left EXCEPT ![e] = Off]
  /\ cycle' \in [Event -> Nat] /\ \A x \in Event \ {e} : cycle'[x] = cycle[x]

(* Time passes only while nothing is a period late. *)
Tick ==
  /\ \A e \in Running : left[e] > -Period
  /\ left' = [e \in Event |-> IF e \in Running THEN left[e] - Period ELSE Off]
  /\ UNCHANGED cycle

(* Cycles are passed over only if several end within a period. *)
Happen(e) ==
  /\ e \in Running /\ left[e] <= 0
  /\ \/ cycle[e] = 0 /\ left' = [left EXCEPT ![e] = Off]
     \/ \E n \in 1 .. 2 * Period :
          /\ cycle[e] > 0 /\ (cycle[e] >= Period => n = 1)
          /\ left' = [left EXCEPT ![e] = @ + n * cycle[e]]
          /\ left'[e] > -Period
  /\ UNCHANGED cycle

Next == Tick \/ \E e \in Event : Set(e) \/ Cancel(e) \/ Happen(e)

Spec == Init /\ [][Next]_<< left, cycle >>
=============================================================================
