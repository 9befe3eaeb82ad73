---------------------------- MODULE KernelMutex ----------------------------
(***************************************************************************)
(* Mutexes (kernel/tkernel/mutex.c) and the change of a task's priority    *)
(* (task.c), which go together: a task that holds mutexes runs at the      *)
(* highest of its own priority, the ceilings of those with TA_CEILING and  *)
(* the priorities of those who wait for one with TA_INHERIT; and a task    *)
(* whose priority changes while it waits may change another's.             *)
(***************************************************************************)
EXTENDS KernelSemaphore, KernelEventFlag, KernelMailbox, KernelMessageBuffer, KernelMempfix

Head_Pri(k, m) == k.priority[Head(k.obj[m].wait_queue)]
mtx_waited(k, m) == k.obj[m].wait_queue # << >>

(* What the mutexes a task holds ask of its priority. *)
Demands(k, mutexes) ==
  { k.obj[m].ceilpri : m \in { x \in mutexes : "CEILING" \in k.obj[x].atr } }
    \cup { Head_Pri(k, m) :
             m \in { x \in mutexes : "INHERIT" \in k.obj[x].atr /\ mtx_waited(k, x) } }

(***************************************************************************)
(* knl_change_task_priority, the hooks of the objects, knl_release_mutex   *)
(* and reset_priority call each other, always as the last thing they do.   *)
(* So each of them is what it does itself, and what is left then: nothing, *)
(* or to give a task another priority.                                     *)
(***************************************************************************)
Done(k) == [k |-> k, t |-> NULL, priority |-> 0]
Then(k, t, priority) == [k |-> k, t |-> t, priority |-> priority]

(* knl_release_mutex: the mutex is taken from the task's list, if it is given,
   and the task gets the priority the others leave it. *)
release_mutex(k, t, relmtxcb) ==
  LET left == RemoveFirst(k.mtxlist[t], relmtxcb)
      out == [k EXCEPT !.mtxlist[t] = left]
      newpri == Min({ k.bpriority[t] } \cup Demands(k, Range(left)))
  IN  IF newpri = k.priority[t] THEN Done(out) ELSE Then(out, t, newpri)

(* A task that waits goes to its new place in the queue, where that goes by
   priority; then the object has its say.  The owner of a mutex with TA_INHERIT
   is raised with it, or may have to be lowered (reset_priority). *)
mtx_chg_pri(k, m, t, oldpri) ==
  LET moved == knl_gcb_change_priority(k, m, t)
      owner == k.obj[m].mtxtsk
  IN  IF "INHERIT" \notin k.obj[m].atr THEN Done(moved)
      ELSE IF k.priority[owner] > k.priority[t] THEN Then(moved, owner, k.priority[t])
      ELSE IF k.priority[owner] = oldpri THEN release_mutex(moved, owner, NULL)
      ELSE Done(moved)

chg_pri_hook(k, t, oldpri) ==
  LET o == k.wid[t]
      w == k.wspec[t]
  IN  IF w \in { "slp", "dly", "rmbf" } \/ "TPRI" \notin k.obj[o].atr THEN Done(k)
      ELSE CASE w = "mtx"  -> mtx_chg_pri(k, o, t, oldpri)
             [] w = "sem"  -> Done(sem_chg_pri(k, o, t))
             [] w = "smbf" -> Done(mbf_chg_pri(k, o, t))
             [] w = "mpl"  -> Done(mpl_chg_pri(k, o, t))
             [] OTHER -> Done(knl_gcb_change_priority(k, o, t))

change_priority(k, t, priority) ==
  IF k.state[t] = "ready" THEN Done(Requeue(k, t, priority))
  ELSE LET changed == [k EXCEPT !.priority[t] = priority]
       IN  IF waiting(k, t) THEN chg_pri_hook(changed, t, k.priority[t]) ELSE Done(changed)

(* All of it.  Only in a ring of tasks that wait for each other's mutexes a task
   has its turn again: each time at another priority. *)
MaxTurns == Cardinality(Task) * MaxPri

AllDone(first) ==
  LET after[n \in 0 .. MaxTurns] ==
        IF n = 0 THEN first
        ELSE LET before == after[n - 1]
             IN  IF before.t = NULL THEN before
                 ELSE change_priority(before.k, before.t, before.priority)
  IN  after[MaxTurns].k

knl_change_task_priority(k, t, priority) == AllDone(Then(k, t, priority))
knl_release_mutex(k, t, relmtxcb) == AllDone(release_mutex(k, t, relmtxcb))
reset_priority(k, t) == knl_release_mutex(k, t, NULL)

(* Mutant: the owner stays raised. *)
mtx_rel_wai_raised(k, m, t) == k

(* The wait of a task for a mutex with TA_INHERIT has ended without it. *)
mtx_rel_wai(k, m, t) ==
  LET owner == k.obj[m].mtxtsk
  IN  IF k.priority[owner] = k.priority[t] THEN reset_priority(k, owner) ELSE k

(* The object is told of the end of a wait, if it wants to know. *)
rel_wai_hook(k, wspec, o, t) ==
  CASE wspec = "mtx" /\ "INHERIT" \in k.obj[o].atr -> mtx_rel_wai(k, o, t)
    [] wspec = "sem"  -> sem_rel_wai(k, o)
    [] wspec = "smbf" -> knl_mbf_wakeup(k, o)
    [] wspec = "mpl"  -> mpl_rel_wai(k, o)
    [] OTHER -> k

(* knl_wait_release_ng, and knl_wait_release_tmout for a time-out. *)
knl_wait_release_ng(k, t) ==
  rel_wai_hook(knl_wait_release(k, t), k.wspec[t], k.wid[t], t)

(***************************************************************************)
(* The mutex goes to the first who waits for it, whose priority is raised  *)
(* to the ceiling, or is free.                                             *)
(***************************************************************************)
Take(k, m, t) ==
  LET has == [k EXCEPT !.obj[m].mtxtsk = t, !.mtxlist[t] = << m >> \o @]
  IN  IF "CEILING" \in k.obj[m].atr /\ k.priority[t] > k.obj[m].ceilpri
      THEN knl_change_task_priority(has, t, k.obj[m].ceilpri)
      ELSE has

Hand_Over(k, m) ==
  IF mtx_waited(k, m)
  THEN LET next == Head(k.obj[m].wait_queue) IN Take(knl_wait_release(k, next), m, next)
  ELSE [k EXCEPT !.obj[m].mtxtsk = NULL]

(* Mutant: the mutexes stay with the task. *)
knl_signal_all_mutex_kept(k, t) == k

(* All the mutexes of a task that is terminated. *)
knl_signal_all_mutex(k, t) ==
  LET mutexes == k.mtxlist[t]
      upto[i \in 0 .. Len(mutexes)] ==
        IF i = 0 THEN k ELSE LET before == upto[i - 1] IN Hand_Over(before, mutexes[i])
  IN  upto[Len(mutexes)]

(* The priority a task gets when another base priority is wanted for it, and
   whether the ceilings of the mutexes it holds or waits for allow that. *)
hi_pri(k, t, priority) == Min({ priority } \cup Demands(k, Range(k.mtxlist[t])))
Allowed(k, t, priority) ==
  \A m \in Range(k.mtxlist[t]) \cup (IF k.wspec[t] = "mtx" THEN { k.wid[t] } ELSE {}) :
    "CEILING" \in k.obj[m].atr => priority >= k.obj[m].ceilpri

tk_cre_mtx(k, o, atr, ceilpri) ==
  [k EXCEPT !.obj[o] = [kind |-> "mtx", wait_queue |-> << >>, atr |-> atr,
                        ceilpri |-> ceilpri, mtxtsk |-> NULL]]

(* Mutant: the deleted mutex stays in its owner's list. *)
tk_del_mtx_listed(k, m) == [knl_wait_delete(k, m) EXCEPT !.obj[m] = Free]

tk_del_mtx(k, m) ==
  LET owner == k.obj[m].mtxtsk
      released == IF owner = NULL THEN k ELSE knl_release_mutex(k, owner, m)
  IN  [knl_wait_delete(released, m) EXCEPT !.obj[m] = Free]

tk_loc_mtx(k, m, tmout) ==
  LET mtx == k.obj[m]
      t == k.ctxtsk
      owner == mtx.mtxtsk
      raised == IF "INHERIT" \in mtx.atr /\ k.priority[owner] > k.priority[t]
                THEN knl_change_task_priority(k, owner, k.priority[t]) ELSE k
      waits == knl_make_wait(Waits(raised, "mtx", m, NULL), tmout)
      barred == "CEILING" \in mtx.atr /\ k.bpriority[t] < mtx.ceilpri
  IN  IF owner = t \/ barred THEN k
      ELSE IF owner = NULL THEN Take(k, m, t)
      ELSE IF tmout = "TMO_POL" THEN k
      ELSE [waits EXCEPT !.obj[m].wait_queue = Line(waits, m, t)]

tk_unl_mtx(k, m) ==
  IF k.obj[m].mtxtsk # k.ctxtsk THEN k
  ELSE Hand_Over(knl_release_mutex(k, k.ctxtsk, m), m)

=============================================================================
