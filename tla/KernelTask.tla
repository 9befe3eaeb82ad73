----------------------------- MODULE KernelTask -----------------------------
(***************************************************************************)
(* What the kernel keeps of its tasks, and the routines all its system     *)
(* calls are built from (kernel/tkernel/task.c, ready_queue.h, wait.c,     *)
(* wait.h).                                                                *)
(*                                                                         *)
(* A system call changes the state inside one critical section, with       *)
(* interrupts disabled.  So the state is one record, k, and every routine  *)
(* an operator that takes the record and gives the changed one; the field  *)
(* names are those of TCB and of the objects' control blocks.  The queues  *)
(* of the ready tasks, one per priority, are one sequence in their order.  *)
(* Results of calls are not kept: the kernel never looks at one.  What is  *)
(* left to do of a call that is more than one critical section is in the   *)
(* field call, which stands for the task's registers and stack.            *)
(***************************************************************************)
EXTENDS Integers, Sequences, FiniteSets, SequencesExt

CONSTANTS
  Task,      (* the task control blocks *)
  Object,    (* the control blocks of semaphores, event flags, ... *)
  MaxPri,    (* the lowest priority; 1 is the highest *)
  NULL

ASSUME KernelTaskAssumption ==
  /\ IsFiniteSet(Task)
  /\ MaxPri \in Nat \ {0}
  /\ NULL \notin Task \cup Object

Pri == 1 .. MaxPri

(* No object: the control block is in the list of free ones. *)
Free == [kind |-> "free", wait_queue |-> << >>]

alive(k, t) == k.state[t] \in {"ready", "wait", "suspend", "waitsus"}
waiting(k, t) == k.state[t] \in {"wait", "waitsus"}

(***************************************************************************)
(* Queues.  In a queue by priority a task goes before the first one of a   *)
(* lower priority; in the others, and among equals, to the end.            *)
(***************************************************************************)
ByPriority(k, queue, t) ==
  LET behind == { i \in DOMAIN queue : k.priority[queue[i]] > k.priority[t] }
  IN  IF behind = {} THEN Append(queue, t) ELSE InsertAt(queue, Min(behind), t)

Top(queue) == IF queue = << >> THEN NULL ELSE Head(queue)

(***************************************************************************)
(* The ready queue and the task that should run.  klocktsk is the task     *)
(* with an object lock that became ready last: it goes before all others,  *)
(* until one of a higher priority becomes ready (see KernelLock).          *)
(***************************************************************************)
knl_ready_queue_top(k) == IF k.klocktsk # NULL THEN k.klocktsk ELSE Top(k.ready)

knl_ready_queue_insert(k, t) ==
  [k EXCEPT !.ready = ByPriority(k, @, t),
            !.klocktsk = IF k.klock[t] = "klocked" THEN t ELSE @]

(* Mutant: a task that waits for a lock stays in the lock's queue. *)
knl_ready_queue_delete_waits(k, t) ==
  [k EXCEPT !.ready = RemoveFirst(@, t),
            !.klocktsk = IF @ = t THEN NULL ELSE @,
            !.klock[t] = IF @ = "klockwait" THEN "none" ELSE @]

(* The queue a task is in is the ready queue or, if it waits for a lock, that of
   the lock. *)
knl_ready_queue_delete(k, t) ==
  IF k.klock[t] = "klockwait"
  THEN [k EXCEPT !.klock[t] = "none", !.wtskq[k.call[t].o] = RemoveFirst(@, t)]
  ELSE [k EXCEPT !.ready = RemoveFirst(@, t), !.klocktsk = IF @ = t THEN NULL ELSE @]

knl_make_ready(k, t) ==
  LET first == k.ready = << >> \/ k.priority[t] < k.priority[Head(k.ready)]
  IN  [knl_ready_queue_insert(k, t) EXCEPT !.state[t] = "ready",
                                           !.schedtsk = IF first THEN t ELSE @]

knl_make_non_ready(k, t) ==
  LET out == knl_ready_queue_delete(k, t)
  IN  [out EXCEPT !.schedtsk = IF @ = t THEN knl_ready_queue_top(out) ELSE @]

knl_reschedule(k) == [k EXCEPT !.schedtsk = knl_ready_queue_top(k)]

(* The part of knl_change_task_priority for a task that is ready: out of the
   queue with the old priority, in again with the new one. *)
Requeue(k, t, priority) ==
  LET out == [knl_ready_queue_delete(k, t) EXCEPT !.priority[t] = priority]
  IN  knl_reschedule(knl_ready_queue_insert(out, t))

(* The first of the ready tasks of that priority becomes the last of them. *)
knl_rotate_ready_queue(k, priority) ==
  LET those == { i \in DOMAIN k.ready : k.priority[k.ready[i]] = priority }
      t     == k.ready[Min(those)]
  IN  knl_reschedule(IF those = {} THEN k
                     ELSE [k EXCEPT !.ready = ByPriority(k, RemoveFirst(@, t), t)])

knl_make_dormant(k, t) ==
  [k EXCEPT !.state[t] = "dormant",
            !.priority[t] = k.ipriority[t],
            !.bpriority[t] = k.ipriority[t],
            !.wupcnt[t] = 0,
            !.suscnt[t] = 0,
            !.klock[t] = "none",
            !.call[t] = NULL,
            !.mtxlist[t] = << >>]

(***************************************************************************)
(* Waiting.  The running task waits for an object, a wake-up or a time;    *)
(* with a time-out it is also in the timer's queue.  Its wspec says what   *)
(* it waits for and winfo what it wants there.                             *)
(***************************************************************************)
knl_make_wait(k, tmout) ==
  LET t == k.ctxtsk
  IN  [knl_make_non_ready(k, t) EXCEPT !.state[t] = "wait", !.timed[t] = tmout = "finite"]

Waits(k, wspec, wid, winfo) ==
  [k EXCEPT !.wspec[k.ctxtsk] = wspec, !.wid[k.ctxtsk] = wid, !.winfo[k.ctxtsk] = winfo]

(* TA_TPRI in the object's attributes decides where the task is put. *)
Line(k, o, t) ==
  LET queue == k.obj[o].wait_queue
  IN  IF "TPRI" \in k.obj[o].atr THEN ByPriority(k, queue, t) ELSE Append(queue, t)

knl_gcb_make_wait(k, o, tmout) ==
  IF tmout = "TMO_POL" THEN k
  ELSE LET w == knl_make_wait(k, tmout)
       IN  [w EXCEPT !.obj[o].wait_queue = Line(w, o, k.ctxtsk)]

(* Mutant: the task keeps its place. *)
knl_gcb_change_priority_kept(k, o, t) == k

knl_gcb_change_priority(k, o, t) ==
  LET out == [k EXCEPT !.obj[o].wait_queue = RemoveFirst(@, t)]
  IN  [out EXCEPT !.obj[o].wait_queue = ByPriority(out, @, t)]

(* Whether task t, not in the queue, comes before all the tasks in it. *)
IsTop(k, o, t) ==
  LET queue == k.obj[o].wait_queue
  IN  \/ queue = << >>
      \/ /\ "TPRI" \in k.obj[o].atr
         /\ k.priority[t] < k.priority[Head(queue)]

(* Mutant: it stays in the timer's queue. *)
knl_wait_cancel_timed(k, t) ==
  LET o == k.wid[t]
  IN  IF o = NULL THEN k
      ELSE IF k.wspec[t] = "rmbf" THEN [k EXCEPT !.obj[o].recv_queue = RemoveFirst(@, t)]
      ELSE [k EXCEPT !.obj[o].wait_queue = RemoveFirst(@, t)]

(* Out of the timer's queue and the queue it waits in, which may also be the
   second one of a message buffer. *)
knl_wait_cancel(k, t) ==
  LET o == k.wid[t]
      out == [k EXCEPT !.timed[t] = FALSE]
  IN  IF o = NULL THEN out
      ELSE IF k.wspec[t] = "rmbf" THEN [out EXCEPT !.obj[o].recv_queue = RemoveFirst(@, t)]
      ELSE [out EXCEPT !.obj[o].wait_queue = RemoveFirst(@, t)]

knl_make_non_wait(k, t) ==
  IF k.state[t] = "wait" THEN knl_make_ready(k, t)
                         ELSE [k EXCEPT !.state[t] = "suspend"]

knl_wait_release(k, t) == knl_make_non_wait(knl_wait_cancel(k, t), t)

(* One after the other. *)
ReleaseAll(k, tasks) ==
  LET after[i \in 0 .. Len(tasks)] ==
        IF i = 0 THEN k ELSE LET before == after[i - 1] IN knl_wait_release(before, tasks[i])
  IN  after[Len(tasks)]

knl_wait_delete(k, o) == ReleaseAll(k, k.obj[o].wait_queue)

(* The end of a system call: the task that should run does, unless dispatching
   is disabled.  What a task waited for is forgotten, for nobody reads it. *)
Returned(k) ==
  [k EXCEPT !.ctxtsk = IF k.dispatch_disabled THEN @ ELSE k.schedtsk,
            !.wspec = [t \in Task |-> IF waiting(k, t) THEN @[t] ELSE "none"],
            !.wid = [t \in Task |-> IF waiting(k, t) THEN @[t] ELSE NULL],
            !.winfo = [t \in Task |-> IF waiting(k, t) THEN @[t] ELSE NULL]]

=============================================================================
