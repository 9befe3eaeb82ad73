---------------------------- MODULE KernelCalls ----------------------------
(***************************************************************************)
(* The system calls on tasks themselves (kernel/tkernel/task_manage.c,     *)
(* task_sync.c, cpuctl.c) and the deletion of objects.  A call that the    *)
(* code refuses with an error leaves the state as it is.                   *)
(***************************************************************************)
EXTENDS KernelMutex

(* A control block of the list of free ones. *)
tk_cre_tsk(k, t, itskpri) ==
  knl_make_dormant([k EXCEPT !.ipriority[t] = itskpri], t)

(* The control block is given back; tk_cre_tsk sets all of it anew, so what it
   holds until then is no state. *)
knl_del_tsk(k, t) ==
  [knl_make_dormant([k EXCEPT !.ipriority[t] = 1], t) EXCEPT !.state[t] = "nonexist"]

tk_del_tsk(k, t) == IF k.state[t] # "dormant" THEN k ELSE knl_del_tsk(k, t)

tk_sta_tsk(k, t) == IF k.state[t] # "dormant" THEN k ELSE knl_make_ready(k, t)

(* A task that is terminated while it waits leaves its queue; then whoever holds
   its mutexes next gets them. *)
knl_ter_tsk(k, t) ==
  LET out == IF k.state[t] = "ready" THEN knl_make_non_ready(k, t)
             ELSE IF waiting(k, t)
             THEN rel_wai_hook(knl_wait_cancel(k, t), k.wspec[t], k.wid[t], t)
             ELSE k
  IN  knl_signal_all_mutex(out, t)

tk_ter_tsk(k, t) ==
  IF ~alive(k, t) \/ k.klock[t] = "klocked" THEN k
  ELSE knl_make_dormant(knl_ter_tsk(k, t), t)

(* The running task ends; dispatching is enabled by that. *)
tk_ext_tsk(k) ==
  [knl_make_dormant(knl_ter_tsk(k, k.ctxtsk), k.ctxtsk) EXCEPT !.dispatch_disabled = FALSE]

tk_exd_tsk(k) ==
  [knl_del_tsk(knl_ter_tsk(k, k.ctxtsk), k.ctxtsk) EXCEPT !.dispatch_disabled = FALSE]

tk_chg_pri(k, t, priority) ==
  IF k.state[t] = "nonexist" \/ ~Allowed(k, t, priority) THEN k
  ELSE knl_change_task_priority([k EXCEPT !.bpriority[t] = priority], t,
                                hi_pri(k, t, priority))

tk_rot_rdq(k, priority) == knl_rotate_ready_queue(k, priority)

tk_rel_wai(k, t) == IF ~waiting(k, t) THEN k ELSE knl_wait_release_ng(k, t)

(* Mutant: also the task that runs with dispatching disabled. *)
tk_sus_tsk_any(k, t) ==
  IF ~alive(k, t) THEN k
  ELSE LET counted == [k EXCEPT !.suscnt[t] = @ + 1]
       IN  CASE k.state[t] = "ready" ->
                  [knl_make_non_ready(counted, t) EXCEPT !.state[t] = "suspend"]
             [] k.state[t] = "wait" -> [counted EXCEPT !.state[t] = "waitsus"]
             [] OTHER -> counted

tk_sus_tsk(k, t) ==
  IF ~alive(k, t) \/ (t = k.ctxtsk /\ k.dispatch_disabled) THEN k
  ELSE LET counted == [k EXCEPT !.suscnt[t] = @ + 1]
       IN  CASE k.state[t] = "ready" ->
                  [knl_make_non_ready(counted, t) EXCEPT !.state[t] = "suspend"]
             [] k.state[t] = "wait" -> [counted EXCEPT !.state[t] = "waitsus"]
             [] OTHER -> counted

(* Once for tk_rsm_tsk, as often as it was suspended for tk_frsm_tsk. *)
Resume(k, t, suscnt) ==
  LET counted == [k EXCEPT !.suscnt[t] = suscnt]
  IN  IF suscnt > 0 THEN counted
      ELSE IF k.state[t] = "suspend" THEN knl_make_ready(counted, t)
      ELSE [counted EXCEPT !.state[t] = "wait"]

tk_rsm_tsk(k, t) ==
  IF k.state[t] \in { "suspend", "waitsus" } THEN Resume(k, t, k.suscnt[t] - 1) ELSE k

tk_frsm_tsk(k, t) ==
  IF k.state[t] \in { "suspend", "waitsus" } THEN Resume(k, t, 0) ELSE k

tk_slp_tsk(k, tmout) ==
  IF k.wupcnt[k.ctxtsk] > 0 THEN [k EXCEPT !.wupcnt[k.ctxtsk] = @ - 1]
  ELSE IF tmout = "TMO_POL" THEN k
  ELSE knl_make_wait(Waits(k, "slp", NULL, NULL), tmout)

tk_wup_tsk(k, t) ==
  IF ~alive(k, t) THEN k
  ELSE IF waiting(k, t) /\ k.wspec[t] = "slp" THEN knl_wait_release(k, t)
  ELSE [k EXCEPT !.wupcnt[t] = @ + 1]

tk_can_wup(k, t) == IF alive(k, t) THEN [k EXCEPT !.wupcnt[t] = 0] ELSE k

tk_dly_tsk(k) == knl_make_wait(Waits(k, "dly", NULL, NULL), "finite")

tk_dis_dsp(k) == [k EXCEPT !.dispatch_disabled = TRUE]
tk_ena_dsp(k) == [k EXCEPT !.dispatch_disabled = FALSE]

(* An object is deleted; whoever waits for it is told. *)
tk_del(k, o) ==
  CASE k.obj[o].kind = "mtx" -> tk_del_mtx(k, o)
    [] k.obj[o].kind = "mbf" -> tk_del_mbf(k, o)
    [] k.obj[o].kind = "mpl" -> tk_del_mpl(k, o)
    [] k.obj[o].kind = "mpf" -> tk_del_mpf(k, o)
    [] OTHER -> [knl_wait_delete(k, o) EXCEPT !.obj[o] = Free]

=============================================================================
