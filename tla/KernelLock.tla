----------------------------- MODULE KernelLock -----------------------------
(***************************************************************************)
(* The object lock (kernel/tkernel/klock.c): a task that has one is, the   *)
(* code means, the task of the highest priority, so that it does not       *)
(* depend on others to give it back.  Calls that lock are not one critical *)
(* section; in between, handlers make tasks ready, and suspend them.       *)
(***************************************************************************)
EXTENDS KernelTask

(* Where the running task is in its call. *)
At(k, step) == [k EXCEPT !.call[k.ctxtsk].at = step]
Leave(k) == [k EXCEPT !.call[k.ctxtsk] = NULL]

(* To the head of its priority in the ready queue. *)
knl_ready_queue_insert_top(k, t) ==
  LET behind == { i \in DOMAIN k.ready : k.priority[k.ready[i]] >= k.priority[t] }
  IN  [k EXCEPT !.ready = IF behind = {} THEN Append(@, t) ELSE InsertAt(@, Min(behind), t),
                !.klocktsk = IF k.klock[t] = "klocked" THEN t ELSE @]

(* Mutant: no look at who has it. *)
knl_LockOBJ_always(k, o, next) ==
  At([k EXCEPT !.locked = @ \cup {o}, !.klock[k.ctxtsk] = "klocked",
               !.klocktsk = k.ctxtsk], next)

(* One round of the loop.  A task that has waited has been given the lock, or
   was taken out of the lock's queue for another reason and tries again. *)
knl_LockOBJ(k, o, next) ==
  LET t == k.ctxtsk
      out == knl_ready_queue_delete(k, t)
  IN  IF k.klock[t] = "klocked" THEN At(k, next)
      ELSE IF o \notin k.locked
      THEN At([k EXCEPT !.locked = @ \cup {o}, !.klock[t] = "klocked", !.klocktsk = t], next)
      ELSE knl_reschedule([out EXCEPT !.klock[t] = "klockwait", !.wtskq[o] = Append(@, t)])

knl_UnlockOBJ(k, o) ==
  LET queue == k.wtskq[o]
      freed == [k EXCEPT !.klock[k.ctxtsk] = "none", !.klocktsk = NULL]
  IN  knl_reschedule(
        IF queue = << >> THEN [freed EXCEPT !.locked = @ \ {o}]
        ELSE knl_ready_queue_insert_top(
               [freed EXCEPT !.wtskq[o] = Tail(@), !.klock[Head(queue)] = "klocked"],
               Head(queue)))

=============================================================================
