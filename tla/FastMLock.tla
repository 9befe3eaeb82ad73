----------------------------- MODULE FastMLock ------------------------------
(***************************************************************************)
(* The multi-lock of libtk (lib/libtk/fastmlock.c): several locks that     *)
(* share a word of bits, a count of the tasks that want one of them and an *)
(* event flag.  Each access to the word and to the count is one step; a    *)
(* task may hold several locks.                                            *)
(***************************************************************************)
EXTENDS Integers, FiniteSets

CONSTANTS Task, Lock

VARIABLES
  wai,      (* lock->wai *)
  flg,      (* lock->flg: the locks that are taken *)
  flgptn,   (* the pattern of the event flag *)
  pc,       (* where each task is *)
  no,       (* the lock it is busy with *)
  held      (* history: the tasks that hold each lock *)

vars == << wai, flg, flgptn, pc, no, held >>

(* CreateMLock *)
Init ==
  /\ wai = 0 /\ flg = {} /\ flgptn = {}
  /\ pc = [t \in Task |-> "idle"]
  /\ no \in [Task -> Lock]
  /\ held = [l \in Lock |-> {}]

Goto(t, from, to) == pc[t] = from /\ pc' = [pc EXCEPT ![t] = to]

(* Accesses to the count and to a bit, each in a critical section of its own. *)
INC == wai' = wai + 1
BR(l) == flg' = flg \ {l}

MLockTmo(t, l) ==
  /\ Goto(t, "idle", "test")
  /\ INC
  /\ no' = [no EXCEPT ![t] = l]
  /\ UNCHANGED << flg, flgptn, held >>

BTS(t) ==
  \/ /\ no[t] \in flg
     /\ Goto(t, "test", "wait")
     /\ UNCHANGED << wai, flg, flgptn, no, held >>
  \/ /\ no[t] \notin flg
     /\ Goto(t, "test", "done")
     /\ flg' = flg \cup {no[t]}
     /\ held' = [held EXCEPT ![no[t]] = @ \cup {t}]
     /\ UNCHANGED << wai, flgptn, no >>

(* With TWF_BITCLR the one task that is released takes the bit with it. *)
tk_wai_flg(t) ==
  \/ /\ no[t] \in flgptn
     /\ Goto(t, "wait", "test")
     /\ flgptn' = flgptn \ {no[t]}
     /\ UNCHANGED << wai, flg, no, held >>
  \/ (* a time-out, or a release by another task *)
     /\ Goto(t, "wait", "done")
     /\ UNCHANGED << wai, flg, flgptn, no, held >>

DEC(t) ==
  /\ Goto(t, "done", "idle")
  /\ wai' = wai - 1
  /\ UNCHANGED << flg, flgptn, no, held >>

MUnlock(t, l) ==
  /\ t \in held[l]
  /\ Goto(t, "idle", "unlock")
  /\ BR(l)
  /\ held' = [held EXCEPT ![l] = @ \ {t}]
  /\ no' = [no EXCEPT ![t] = l]
  /\ UNCHANGED << wai, flgptn >>

(* The count is read with nothing disabled. *)
AnyoneWaiting(t) ==
  /\ Goto(t, "unlock", IF wai = 0 THEN "idle" ELSE "set")
  /\ UNCHANGED << wai, flg, flgptn, no, held >>

tk_set_flg(t) ==
  /\ Goto(t, "set", "idle")
  /\ flgptn' = flgptn \cup {no[t]}
  /\ UNCHANGED << wai, flg, no, held >>

Step(t) == BTS(t) \/ tk_wai_flg(t) \/ DEC(t) \/ AnyoneWaiting(t) \/ tk_set_flg(t)
Next == \E t \in Task : Step(t) \/ \E l \in Lock : MLockTmo(t, l) \/ MUnlock(t, l)
Spec == Init /\ [][Next]_vars

-----------------------------------------------------------------------------
Busy(t, l, places) == no[t] = l /\ pc[t] \in places

(***************************************************************************)
(* MUnlock looks at the count after it has cleared the bit, and a task     *)
(* that wants the lock counts itself before it tests the bit: whoever      *)
(* waits for a free lock is told, or somebody is on the way to take it.    *)
(***************************************************************************)
NobodyForgotten ==
  \A l \in Lock :
    l \notin flg /\ (\E t \in Task : Busy(t, l, {"wait"}))
      => l \in flgptn \/ \E u \in Task : Busy(u, l, {"test", "unlock", "set"})

(* Each of the locks keeps tasks out of each other's way. *)
Exclusion_(l) == INSTANCE MutualExclusion WITH holders <- held[l]
=============================================================================
