--------------------------- MODULE KernelMempfix ----------------------------
(***************************************************************************)
(* Fixed-size memory pools (kernel/tkernel/mempfix.c).  A call locks the   *)
(* pool's control block, works on it with interrupts enabled, and unlocks; *)
(* only what concerns waiting tasks is done with interrupts disabled.  The *)
(* blocks of a pool have the numbers 1 .. mpfcnt: those from unused on     *)
(* have never been given, freelist has those that have come back.          *)
(***************************************************************************)
EXTENDS KernelMempool

CONSTANT BlfSz   (* the size of a block *)

ASSUME KernelMempfixAssumption == BlfSz \in Nat \ {0}

tk_cre_mpf(k, atr, mpfcnt) ==
  Allocate(k, "cre_mpf", mpfcnt * BlfSz, [atr |-> atr, size |-> mpfcnt])

(* The control block is taken from the list of free ones, which is not locked. *)
tk_cre_mpf_take(k, o) ==
  At([k EXCEPT !.obj[o] = [Free EXCEPT !.kind = "taken"], !.call[k.ctxtsk].o = o], "lock")

tk_cre_mpf_made(k) ==
  LET call == k.call[k.ctxtsk]
      made == [kind |-> "mpf", wait_queue |-> << >>, atr |-> call.x.atr,
               mempool |-> call.mempool, mpfcnt |-> call.x.size, frbcnt |-> call.x.size,
               unused |-> 1, freelist |-> << >>, lent |-> {}]
  IN  Leave(knl_UnlockOBJ([k EXCEPT !.obj[call.o] = made], call.o))

Enter(k, does, o, x) ==
  [k EXCEPT !.call[k.ctxtsk] =
              [does |-> does, at |-> "lock", o |-> o, x |-> x, mempool |-> NULL]]

(* A pool that is gone when it is locked is not worked on. *)
Gone(k) == k.obj[k.call[k.ctxtsk].o].kind # "mpf"
Out(k) == Leave(knl_UnlockOBJ(k, k.call[k.ctxtsk].o))

tk_del_mpf(k, o) == Enter(k, "del_mpf", o, NULL)

tk_del_mpf_deleted(k) ==
  LET o == k.call[k.ctxtsk].o
      deleted == [knl_wait_delete(k, o) EXCEPT !.obj[o] = Free]
  IN  At([deleted EXCEPT !.call[k.ctxtsk].mempool = k.obj[o].mempool], "unlock")

tk_del_mpf_unlocked(k) == At(knl_UnlockOBJ(k, k.call[k.ctxtsk].o), "free")

tk_get_mpf(k, o, tmout) == Enter(k, "get_mpf", o, [tmout |-> tmout, blf |-> NULL])

(* Whether there is a block, and which one. *)
tk_get_mpf_look(k) ==
  LET call == k.call[k.ctxtsk]
      mpf  == k.obj[call.o]
      blf  == IF mpf.freelist # << >> THEN Head(mpf.freelist) ELSE mpf.unused
  IN  IF mpf.frbcnt <= 0 THEN At(k, "wait")
      ELSE At([k EXCEPT !.call[k.ctxtsk].x.blf = blf], "get")

tk_get_mpf_get(k) ==
  LET call == k.call[k.ctxtsk]
      mpf  == k.obj[call.o]
      got  == [mpf EXCEPT !.freelist = IF @ # << >> THEN Tail(@) ELSE @,
                          !.unused = IF mpf.freelist # << >> THEN @ ELSE @ + 1,
                          !.frbcnt = @ - 1,
                          !.lent = @ \cup { call.x.blf }]
  IN  Out([k EXCEPT !.obj[call.o] = got])

(* The task waits and gives up the lock in one critical section. *)
tk_get_mpf_wait(k) ==
  LET call == k.call[k.ctxtsk]
  IN  Out(knl_gcb_make_wait(Waits(k, "mpf", call.o, NULL), call.o, call.x.tmout))

tk_rel_mpf(k, o, blf) == Enter(k, "rel_mpf", o, [blf |-> blf])

(* The block is lent to the first who waits, or else put into the free list. *)
tk_rel_mpf_hand(k) ==
  LET call == k.call[k.ctxtsk]
      queue == k.obj[call.o].wait_queue
  IN  IF queue = << >> THEN At(k, "put")
      ELSE At(knl_wait_release(k, Head(queue)), "unlock")

tk_rel_mpf_put(k) ==
  LET call == k.call[k.ctxtsk]
      mpf  == k.obj[call.o]
  IN  Out([k EXCEPT !.obj[call.o] = [mpf EXCEPT !.freelist = << call.x.blf >> \o @,
                                                !.frbcnt = @ + 1,
                                                !.lent = @ \ { call.x.blf }]])

(***************************************************************************)
(* The running task goes on with its call.  Where only interrupts are      *)
(* disabled no other task is dispatched at the end.                        *)
(***************************************************************************)
Continued(k) ==
  LET call == k.call[k.ctxtsk]
      work == IF call.does = "cre_mpf" THEN tk_cre_mpf_made(k)
              ELSE IF Gone(k) THEN Out(k)
              ELSE CASE call.does = "del_mpf" -> tk_del_mpf_deleted(k)
                     [] call.does = "get_mpf" -> tk_get_mpf_look(k)
                     [] OTHER -> tk_rel_mpf_hand(k)
  IN  CASE call.at = "lock" -> Returned(knl_LockOBJ(k, call.o, "locked"))
        [] call.at = "locked" -> IF work.call[k.ctxtsk] = NULL THEN Returned(work) ELSE work
        [] call.at = "get" -> Returned(tk_get_mpf_get(k))
        [] call.at = "wait" -> Returned(tk_get_mpf_wait(k))
        [] call.at = "put" -> Returned(tk_rel_mpf_put(k))
        [] call.at = "unlock" ->
             Returned(IF call.does = "del_mpf" THEN tk_del_mpf_unlocked(k) ELSE Out(k))
        [] OTHER -> GiveBack(k, call.mempool)

=============================================================================
