------------------------------- MODULE MC_Cav -------------------------------
(***************************************************************************)
(* The cars on the road of the demonstration, alone on it: what            *)
(* stg_reserve answers there, as checked in module STG.  To a trip they    *)
(* never ask for in good order it gives some route.                        *)
(***************************************************************************)
EXTENDS Cav

F == ORDER(MOVE_FORWARD, 2)
L == ORDER(TURN_LEFT, 3)

Orders(start, goal) ==
  CASE start = POS(0, 0) /\ goal = POS(4, 0) -> { << F, F, L, F, F, F, F, L, F, F, L >> }
    [] start = POS(4, 0) /\ goal = POS(0, 4) -> { << F, F, F, F, L, F, F, F, F, L >> }
    [] start = POS(0, 4) /\ goal = POS(4, 0) -> { << F, F, F, F, L, F, F, F, F, L >> }
    [] OTHER -> { << F, F, L >> }

ASSUME OrdersSuit == RoutesSuit
=============================================================================
