----------------------------- MODULE OrderQueue -----------------------------
(***************************************************************************)
(* What the list of CAV/src/list.c is to its users, as long as it is not   *)
(* damaged: the orders a vehicle still has to follow, first one first.     *)
(***************************************************************************)
EXTENDS Integers, SequencesExt

CONSTANTS Direction, MaxReply

VARIABLES
  queue,
  broken    (* the list has been damaged, and stands for no queue any more *)

Sent(d) == [dir |-> d, time |-> 1]

(* The queue after an order came: more of the last one, or one of its own. *)
After(q, d) ==
  IF q # << >> /\ Last(q) = Sent(d) THEN [q EXCEPT ![Len(q)].time = 2]
                                    ELSE Append(q, Sent(d))

Enter == \E d \in Direction : queue' = << Sent(d) >> \o queue

Reply ==
  \E n \in 1 .. MaxReply : \E reply \in [1 .. n -> Direction] :
    queue' = FoldLeft(After, queue, reply)

Done == queue # << >> /\ queue' = Tail(queue)

Next ==
  \/ broken'
  \/ ~ broken /\ ~ broken' /\ (Enter \/ Reply \/ Done)

Spec == queue = << >> /\ ~ broken /\ [][Next]_<< queue, broken >>
=============================================================================
