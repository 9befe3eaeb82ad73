--------------------------- MODULE KernelMailbox ---------------------------
(***************************************************************************)
(* Mailboxes (kernel/tkernel/mailbox.c): messages are linked, not copied,  *)
(* in the order they came or by their priority (TA_MPRI).                  *)
(***************************************************************************)
EXTENDS KernelTask

CONSTANT Message   (* the messages tasks send: records with a msgpri *)

tk_cre_mbx(k, o, atr) ==
  [k EXCEPT !.obj[o] = [kind |-> "mbx", wait_queue |-> << >>, atr |-> atr, mq |-> << >>]]

(* Before the first message of a greater msgpri, or at the end. *)
knl_queue_insert_mpri(mq, msg) ==
  LET behind == { i \in DOMAIN mq : mq[i].msgpri > msg.msgpri }
  IN  IF behind = {} THEN Append(mq, msg) ELSE InsertAt(mq, Min(behind), msg)

(* The first of the waiting tasks gets the message, else it is queued. *)
tk_snd_mbx(k, o, msg) ==
  LET mbx == k.obj[o]
  IN  IF mbx.wait_queue # << >> THEN knl_wait_release(k, Head(mbx.wait_queue))
      ELSE [k EXCEPT !.obj[o].mq =
              IF "MPRI" \in mbx.atr THEN knl_queue_insert_mpri(@, msg) ELSE Append(@, msg)]

tk_rcv_mbx(k, o, tmout) ==
  IF k.obj[o].mq # << >> THEN [k EXCEPT !.obj[o].mq = Tail(@)]
  ELSE knl_gcb_make_wait(Waits(k, "mbx", o, NULL), o, tmout)

(* The messages in some mailbox: only the others may be sent. *)
Posted(k) ==
  UNION { Range(k.obj[o].mq) : o \in { x \in Object : k.obj[x].kind = "mbx" } }

(* No task waits while there is a message. *)
NoneHasMail(k, o) == k.obj[o].wait_queue # << >> => k.obj[o].mq = << >>

=============================================================================
