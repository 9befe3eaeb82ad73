-------------------------- MODULE KernelSemaphore --------------------------
(***************************************************************************)
(* Semaphores (kernel/tkernel/semaphore.c).  A task may ask for several    *)
(* counts at once.  Without TA_CNT the task at the head of the queue is    *)
(* served first, however little the others want; with it whoever can be    *)
(* served is.                                                              *)
(***************************************************************************)
EXTENDS KernelTask

tk_cre_sem(k, o, atr, isemcnt, maxsem) ==
  [k EXCEPT !.obj[o] = [kind |-> "sem", wait_queue |-> << >>, atr |-> atr,
                        semcnt |-> isemcnt, maxsem |-> maxsem]]

(* Going through the queue from its head, the tasks that can be given the count
   they want out of semcnt; it ends at the first that cannot, or skips it. *)
Served(k, o, semcnt, skip) ==
  LET queue == k.obj[o].wait_queue
      upto[i \in 0 .. Len(queue)] ==
        IF i = 0 THEN [left |-> semcnt, tasks |-> << >>, going |-> TRUE]
        ELSE LET before == upto[i - 1]
                 cnt == k.winfo[queue[i]]
             IN  IF ~before.going THEN before
                 ELSE IF before.left < cnt THEN [before EXCEPT !.going = skip]
                 ELSE [before EXCEPT !.left = @ - cnt, !.tasks = Append(@, queue[i])]
  IN  upto[Len(queue)]

Serve(k, o, semcnt, skip) ==
  LET served == Served(k, o, semcnt, skip)
  IN  [ReleaseAll(k, served.tasks) EXCEPT !.obj[o].semcnt = served.left]

tk_sig_sem(k, o, cnt) ==
  LET sem == k.obj[o]
  IN  IF cnt > sem.maxsem - sem.semcnt THEN k
      ELSE Serve(k, o, sem.semcnt + cnt, "CNT" \in sem.atr)

(* Mutant: nobody looks at the new head of the queue. *)
sem_rel_wai_none(k, o) == k

(* When a waiting task is released, or has changed its place, the head of the
   queue may be another one. *)
sem_rel_wai(k, o) ==
  IF "CNT" \in k.obj[o].atr THEN k ELSE Serve(k, o, k.obj[o].semcnt, FALSE)

sem_chg_pri(k, o, t) == sem_rel_wai(knl_gcb_change_priority(k, o, t), o)

tk_wai_sem(k, o, cnt, tmout) ==
  LET sem == k.obj[o]
  IN  IF cnt > sem.maxsem THEN k
      ELSE IF ("CNT" \in sem.atr \/ IsTop(k, o, k.ctxtsk)) /\ sem.semcnt >= cnt
           THEN [k EXCEPT !.obj[o].semcnt = @ - cnt]
      ELSE knl_gcb_make_wait(Waits(k, "sem", o, cnt), o, tmout)

(***************************************************************************)
(* A task that waits for a semaphore cannot be served: the first of the    *)
(* queue wants more than is left, and with TA_CNT everyone does.           *)
(***************************************************************************)
NoneServable(k, o) ==
  LET sem == k.obj[o]
  IN  \A i \in DOMAIN sem.wait_queue :
        i = 1 \/ "CNT" \in sem.atr => k.winfo[sem.wait_queue[i]] > sem.semcnt

=============================================================================
