--------------------------- MODULE KernelMempool ----------------------------
(***************************************************************************)
(* Variable-size memory pools (kernel/tkernel/mempool.c).  Each call is a  *)
(* critical section; memory for the pool itself is taken from the system's *)
(* before it, and given back after it, unless the caller brings it         *)
(* (TA_USERBUF).                                                           *)
(***************************************************************************)
EXTENDS KernelLock, KernelMemory

(* The first step of a call that makes a pool of the given size: the memory. *)
Allocate(k, does, size, x) ==
  LET userbuf == "USERBUF" \in x.atr
      mempool == IF userbuf THEN NULL ELSE Found(k.imacb, roundSize(size))
      memory  == IF userbuf THEN k.imacb ELSE knl_Imalloc(k.imacb, size)
  IN  IF ~userbuf /\ ~Fits(k.imacb, roundSize(size)) THEN k
      ELSE [k EXCEPT !.imacb = memory,
                     !.call[k.ctxtsk] =
                       [does |-> does, at |-> "take", o |-> NULL, x |-> x, mempool |-> mempool]]

(* The memory of no pool, or of one that is deleted. *)
GiveBack(k, mempool) ==
  Leave(IF mempool = NULL THEN k ELSE [k EXCEPT !.imacb = knl_Ifree(@, mempool)])

tk_cre_mpl(k, atr, mplsz) == Allocate(k, "cre_mpl", mplsz, [atr |-> atr, size |-> mplsz])

(* The control block, one of those that are free. *)
tk_cre_mpl_take(k, o) ==
  LET call == k.call[k.ctxtsk]
  IN  Leave([k EXCEPT !.obj[o] =
               [kind |-> "mpl", wait_queue |-> << >>, atr |-> call.x.atr,
                mempool |-> call.mempool, pool |-> Empty(roundSize(call.x.size))]])

tk_del_mpl(k, o) ==
  LET deleted == [knl_wait_delete(k, o) EXCEPT !.obj[o] = Free]
  IN  [deleted EXCEPT !.call[k.ctxtsk] = [does |-> "del_mpl", at |-> "free", o |-> o,
                                          x |-> NULL, mempool |-> k.obj[o].mempool]]

(* Who waits first is given its block, and so on while there is room. *)
knl_mpl_wakeup(k, o) ==
  LET queue == k.obj[o].wait_queue
      after[i \in 0 .. Len(queue)] ==
        IF i = 0 THEN k
        ELSE LET before == after[i - 1]
                 blksz  == k.winfo[queue[i]]
             IN  IF before.obj[o].wait_queue = SubSeq(queue, i, Len(queue))
                      /\ blksz <= knl_MaxFreeSize(before.obj[o].pool)
                 THEN knl_wait_release([before EXCEPT !.obj[o].pool = knl_get_blk(@, blksz)],
                                       queue[i])
                 ELSE before
  IN  after[Len(queue)]

(* Mutant: the new head of the queue is not looked at. *)
mpl_rel_wai_none(k, o) == k

mpl_rel_wai(k, o) == knl_mpl_wakeup(k, o)
mpl_chg_pri(k, o, t) == knl_mpl_wakeup(knl_gcb_change_priority(k, o, t), o)

tk_get_mpl(k, o, size, tmout) ==
  LET mpl   == k.obj[o]
      blksz == roundSize(size)
  IN  IF blksz > mpl.pool.memsz THEN k
      ELSE IF IsTop(k, o, k.ctxtsk) /\ Fits(mpl.pool, blksz)
           THEN [k EXCEPT !.obj[o].pool = knl_get_blk(@, blksz)]
      ELSE knl_gcb_make_wait(Waits(k, "mpl", o, blksz), o, tmout)

tk_rel_mpl(k, o, blk) ==
  knl_mpl_wakeup([k EXCEPT !.obj[o].pool = knl_rel_blk(@, blk)], o)

(***************************************************************************)
(* There is no room for the first who waits.                               *)
(***************************************************************************)
NoneHasRoom(k, o) ==
  LET mpl == k.obj[o]
  IN  mpl.wait_queue # << >> => k.winfo[Head(mpl.wait_queue)] > knl_MaxFreeSize(mpl.pool)

=============================================================================
