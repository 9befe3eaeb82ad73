------------------------ MODULE KernelMessageBuffer ------------------------
(***************************************************************************)
(* Message buffers (kernel/tkernel/messagebuf.c).  Messages are copied     *)
(* into a ring, each after a header with its size; senders wait when there *)
(* is no room, receivers when there is no message.  The ring is counted in *)
(* words of the size of a header, to which sizes are rounded up.           *)
(***************************************************************************)
EXTENDS KernelTask

CONSTANT Packet   (* what tasks send: records with a size, in words *)

Packet_Header(msg) == [header |-> msg.size]
Packet_Word(msg, n) == [msg |-> msg, word |-> n]

tk_cre_mbf(k, o, atr, bufsz, maxmsz) ==
  [k EXCEPT !.obj[o] =
     [kind |-> "mbf", wait_queue |-> << >>, recv_queue |-> << >>, atr |-> atr,
      bufsz |-> bufsz, frbufsz |-> bufsz, maxmsz |-> maxmsz, head |-> 0, tail |-> 0,
      buffer |-> [i \in 0 .. bufsz - 1 |-> NULL]]]

knl_mbf_free(mbf, size) == 1 + size <= mbf.frbufsz
knl_mbf_empty(mbf) == mbf.frbufsz = mbf.bufsz

(* An offset is set to 0 when it reaches the end: after the header, where the
   message itself comes to the end, and after the message. *)
Wrap(mbf, offset) == IF offset >= mbf.bufsz THEN 0 ELSE offset
Body(mbf, start) == Wrap(mbf, start + 1)
(* Mutant: a message that goes past the end is followed from offset 0. *)
Next_Start_straight(mbf, start, size) == Wrap(mbf, Body(mbf, start) + size)

Next_Start(mbf, start, size) ==
  LET body == Body(mbf, start)
      rest == mbf.bufsz - body
  IN  Wrap(mbf, IF rest < size THEN size - rest ELSE body + size)

(* The n-th word of the message at start. *)
Place(mbf, start, n) ==
  LET body == Body(mbf, start)
      rest == mbf.bufsz - body
  IN  IF n <= rest THEN body + n - 1 ELSE n - rest - 1

knl_msg_to_mbf(mbf, msg) ==
  LET at == mbf.tail
      words == [i \in { Place(mbf, at, n) : n \in 1 .. msg.size } |->
                  Packet_Word(msg, CHOOSE n \in 1 .. msg.size : Place(mbf, at, n) = i)]
  IN  [mbf EXCEPT !.frbufsz = @ - (1 + msg.size),
                  !.tail = Next_Start(mbf, at, msg.size),
                  !.buffer = [i \in DOMAIN @ |->
                     IF i = at THEN Packet_Header(msg)
                     ELSE IF i \in DOMAIN words THEN words[i] ELSE @[i]]]

(* The words a receiver copies are not needed any more. *)
knl_mbf_to_msg(mbf) ==
  LET at == mbf.head
      size == mbf.buffer[at].header
      copied == { at } \cup { Place(mbf, at, n) : n \in 1 .. size }
  IN  [mbf EXCEPT !.frbufsz = @ + (1 + size),
                  !.head = Next_Start(mbf, at, size),
                  !.buffer = [i \in DOMAIN @ |-> IF i \in copied THEN NULL ELSE @[i]]]

(* The messages of waiting senders go into the ring from the head of the queue
   on, as long as there is room for the next one. *)
knl_mbf_wakeup(k, o) ==
  LET queue == k.obj[o].wait_queue
      upto[i \in 0 .. Len(queue)] ==
        IF i = 0 THEN [mbf |-> k.obj[o], tasks |-> << >>, going |-> TRUE]
        ELSE LET before == upto[i - 1]
                 msg == k.winfo[queue[i]]
             IN  IF before.going /\ knl_mbf_free(before.mbf, msg.size)
                 THEN [before EXCEPT !.mbf = knl_msg_to_mbf(@, msg),
                                     !.tasks = Append(@, queue[i])]
                 ELSE [before EXCEPT !.going = FALSE]
      all == upto[Len(queue)]
  IN  ReleaseAll([k EXCEPT !.obj[o] = all.mbf], all.tasks)

mbf_chg_pri(k, o, t) == knl_mbf_wakeup(knl_gcb_change_priority(k, o, t), o)

(* A message goes to a waiting receiver, else into the ring if it is the
   sender's turn and there is room; a handler is not kept in line. *)
tk_snd_mbf(k, o, msg, tmout, in_indp) ==
  LET mbf == k.obj[o]
  IN  IF msg.size > mbf.maxmsz THEN k
      ELSE IF mbf.recv_queue # << >> THEN knl_wait_release(k, Head(mbf.recv_queue))
      ELSE IF (in_indp \/ IsTop(k, o, k.ctxtsk)) /\ knl_mbf_free(mbf, msg.size)
           THEN [k EXCEPT !.obj[o] = knl_msg_to_mbf(@, msg)]
      ELSE IF tmout = "TMO_POL" THEN k
      ELSE knl_gcb_make_wait(Waits(k, "smbf", o, msg), o, tmout)

(* From the ring, or if that is empty straight from the first sender. *)
tk_rcv_mbf(k, o, tmout) ==
  LET mbf == k.obj[o]
      t == k.ctxtsk
      w == knl_make_wait(Waits(k, "rmbf", o, NULL), tmout)
  IN  IF ~knl_mbf_empty(mbf)
      THEN knl_mbf_wakeup([k EXCEPT !.obj[o] = knl_mbf_to_msg(@)], o)
      ELSE IF mbf.wait_queue # << >>
      THEN knl_mbf_wakeup(knl_wait_release(k, Head(mbf.wait_queue)), o)
      ELSE IF tmout = "TMO_POL" THEN k
      ELSE [w EXCEPT !.obj[o].recv_queue = Append(@, t)]

tk_del_mbf(k, o) ==
  LET received == ReleaseAll(k, k.obj[o].recv_queue)
  IN  [knl_wait_delete(received, o) EXCEPT !.obj[o] = Free]

(***************************************************************************)
(* No sender waits whose message has room, no receiver while there is a    *)
(* message or a sender.                                                    *)
(***************************************************************************)
NoneFits(k, o) ==
  LET mbf == k.obj[o]
  IN  /\ mbf.wait_queue # << >> =>
           ~knl_mbf_free(mbf, k.winfo[Head(mbf.wait_queue)].size)
      /\ mbf.recv_queue # << >> => knl_mbf_empty(mbf) /\ mbf.wait_queue = << >>

(***************************************************************************)
(* From head to tail the ring holds whole messages, and no word else.      *)
(***************************************************************************)
RingIsWhole(mbf) ==
  LET used == mbf.bufsz - mbf.frbufsz
      word == [i \in 0 .. used - 1 |-> mbf.buffer[(mbf.head + i) % mbf.bufsz]]
      Starts(i) == \E msg \in Packet :
        /\ word[i] = Packet_Header(msg)
        /\ i + msg.size < used
        /\ \A n \in 1 .. msg.size : word[i + n] = Packet_Word(msg, n)
  IN  /\ \A i \in DOMAIN word :
           /\ word[i] # NULL
           /\ "header" \in DOMAIN word[i] => Starts(i)
           /\ i = 0 \/ ("word" \in DOMAIN word[i - 1] /\ word[i - 1].word = word[i - 1].msg.size)
                => "header" \in DOMAIN word[i]
      /\ mbf.tail = (mbf.head + used) % mbf.bufsz
      /\ Cardinality({ i \in DOMAIN mbf.buffer : mbf.buffer[i] # NULL }) = used

=============================================================================
