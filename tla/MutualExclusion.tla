-------------------------- MODULE MutualExclusion ---------------------------
(***************************************************************************)
(* What a lock promises: at most one holder.                               *)
(***************************************************************************)
CONSTANT Task
VARIABLE holders

Acquire(t) == holders = {} /\ holders' = {t}
Release(t) == holders = {t} /\ holders' = {}

Init == holders = {}
Next == \E t \in Task : Acquire(t) \/ Release(t)
Spec == Init /\ [][Next]_holders
=============================================================================
