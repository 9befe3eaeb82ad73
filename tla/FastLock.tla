------------------------------ MODULE FastLock ------------------------------
(***************************************************************************)
(* The lock of libtk (lib/libtk/fastlock.c): a count of those who hold it  *)
(* or want it, less one, and a semaphore for the case that they are more   *)
(* than one.  Only the counting is done with interrupts disabled.          *)
(***************************************************************************)
EXTENDS Integers

CONSTANT Task

VARIABLES
  cnt,      (* lock->cnt *)
  semcnt,   (* of the semaphore, whose maximum is 1 *)
  pc        (* where each task is: "out", "wait"ing, "in" or about to "signal" *)

vars == << cnt, semcnt, pc >>

(* CreateLock *)
Init == cnt = -1 /\ semcnt = 0 /\ pc = [t \in Task |-> "out"]

(* Each in a critical section of its own, the result included. *)
Inc == cnt' = cnt + 1
Dec == cnt' = cnt - 1

Lock(t) ==
  /\ pc[t] = "out"
  /\ Inc
  /\ pc' = [pc EXCEPT ![t] = IF cnt' > 0 THEN "wait" ELSE "in"]
  /\ UNCHANGED semcnt

(* The call returns once the count of the semaphore is there for this task. *)
tk_wai_sem(t) ==
  /\ pc[t] = "wait" /\ semcnt >= 1
  /\ semcnt' = semcnt - 1
  /\ pc' = [pc EXCEPT ![t] = "in"]
  /\ UNCHANGED cnt

Unlock(t) ==
  /\ pc[t] = "in"
  /\ Dec
  /\ pc' = [pc EXCEPT ![t] = IF cnt > 0 THEN "signal" ELSE "out"]
  /\ UNCHANGED semcnt

(* Above the maximum the count is refused, which Unlock would not notice. *)
tk_sig_sem(t) ==
  /\ pc[t] = "signal"
  /\ semcnt' = IF semcnt < 1 THEN semcnt + 1 ELSE semcnt
  /\ pc' = [pc EXCEPT ![t] = "out"]
  /\ UNCHANGED cnt

Next == \E t \in Task : Lock(t) \/ tk_wai_sem(t) \/ Unlock(t) \/ tk_sig_sem(t)
Spec == Init /\ [][Next]_vars

-----------------------------------------------------------------------------
At(place) == { t \in Task : pc[t] = place }
Holders == At("in")

(***************************************************************************)
(* Although cnt and the semaphore are changed in separate steps, nobody    *)
(* who waits is forgotten: somebody is in the lock, about to signal, or    *)
(* has signalled.                                                          *)
(***************************************************************************)
NobodyForgotten ==
  At("wait") # {} => semcnt = 1 \/ At("in") # {} \/ At("signal") # {}

(***************************************************************************)
(* No signal is refused (the semaphore has a maximum of 1 and the result   *)
(* of tk_sig_sem is not looked at).                                        *)
(***************************************************************************)
NoSignalRefused == At("signal") # {} => semcnt = 0

(* The lock keeps tasks out of each other's way. *)
Exclusion_ == INSTANCE MutualExclusion WITH holders <- Holders
=============================================================================
