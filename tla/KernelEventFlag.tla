-------------------------- MODULE KernelEventFlag --------------------------
(***************************************************************************)
(* Event flags (kernel/tkernel/eventflag.c): tasks wait for all or some    *)
(* bits of a pattern, and may clear them, or the whole pattern, when they  *)
(* get them.  Patterns are sets of bits.                                   *)
(***************************************************************************)
EXTENDS KernelTask

tk_cre_flg(k, o, atr, iflgptn) ==
  [k EXCEPT !.obj[o] = [kind |-> "flg", wait_queue |-> << >>, atr |-> atr,
                        flgptn |-> iflgptn]]

knl_eventflag_cond(flgptn, want) ==
  IF "ORW" \in want.wfmode THEN flgptn \cap want.waiptn # {}
                           ELSE want.waiptn \subseteq flgptn

(* What the pattern becomes when a task with that wish gets it. *)
Taken(flgptn, want) ==
  IF "CLR" \in want.wfmode THEN {}
  ELSE IF "BITCLR" \in want.wfmode THEN flgptn \ want.waiptn
  ELSE flgptn

(* From the head of the queue to its end, or until the pattern is empty because
   someone cleared it. *)
tk_set_flg(k, o, setptn) ==
  LET queue == k.obj[o].wait_queue
      upto[i \in 0 .. Len(queue)] ==
        IF i = 0 THEN [flgptn |-> k.obj[o].flgptn \cup setptn, tasks |-> << >>, going |-> TRUE]
        ELSE LET before == upto[i - 1]
                 want == k.winfo[queue[i]]
                 left == Taken(before.flgptn, want)
             IN  IF before.going /\ knl_eventflag_cond(before.flgptn, want)
                 THEN [flgptn |-> left, tasks |-> Append(before.tasks, queue[i]),
                       going |-> left # {}]
                 ELSE before
      all == upto[Len(queue)]
  IN  [ReleaseAll(k, all.tasks) EXCEPT !.obj[o].flgptn = all.flgptn]

tk_clr_flg(k, o, clrptn) == [k EXCEPT !.obj[o].flgptn = @ \cap clrptn]

(* Without TA_WMUL only one task may wait. *)
tk_wai_flg(k, o, want, tmout) ==
  LET flg == k.obj[o]
  IN  IF "WMUL" \notin flg.atr /\ flg.wait_queue # << >> THEN k
      ELSE IF knl_eventflag_cond(flg.flgptn, want)
           THEN [k EXCEPT !.obj[o].flgptn = Taken(@, want)]
      ELSE knl_gcb_make_wait(Waits(k, "flg", o, want), o, tmout)

(* No task waits for bits that are set. *)
NoneFulfilled(k, o) ==
  \A i \in DOMAIN k.obj[o].wait_queue :
    ~knl_eventflag_cond(k.obj[o].flgptn, k.winfo[k.obj[o].wait_queue[i]])

=============================================================================
