---------------------------- MODULE SerialDriver ----------------------------
(***************************************************************************)
(* The serial driver (device/ser/ser.c) on the UART of the nRF5            *)
(* (device/ser/sysdepend/nrf5/ser_nrf5.c): one ring buffer for each        *)
(* direction, shared by a task and the interrupt handler.  A part of the   *)
(* code that runs with the interrupt disabled is one step, and so is the   *)
(* handler.  There is one task in write_data and one in read_data at a     *)
(* time, which the device's lock is meant to see to.                       *)
(***************************************************************************)
EXTENDS Integers, Sequences

CONSTANTS Byte, BUFFSIZE, Speed, SpeedTable

Dir == {"snd", "rcv"}

VARIABLES
  open,        (* between dev_ser_openfn and dev_ser_closefn *)
  buff,        (* snd_buff and rcv_buff: top, tail and data *)
  wait,        (* whether wait_tskid of the buffer is set *)
  pc,          (* of the task in write_data and of that in read_data *)
  left,        (* the bytes they still have to write and to read *)
  tail,        (* the local variable of read_data *)
  wup,         (* the wake-ups the two tasks have pending *)
  com_error,   (* the errors since they were read last *)
  com_speed, baud,   (* the speed that is told, and the one that is used *)
  txrdy,       (* TXD may be written *)
  inflight,    (* the bytes written to TXD that are not yet on the line *)
  event,       (* the events of the UART: "TXDRDY", "RXDRDY", "ERROR" *)
  out,         (* history: the last byte to TXD, and to the reader *)
  owed,        (* history: the bytes taken in, and not yet given out *)
  lost         (* history: a byte was dropped since the errors were read *)

uart == << txrdy, inflight, event >>
told == << com_error, com_speed, baud, lost >>
vars == << open, buff, wait, pc, left, tail, wup, uart, told, out, owed >>

-----------------------------------------------------------------------------
Succ(i) == IF i + 1 >= BUFFSIZE THEN 0 ELSE i + 1
Empty(b) == b.top = b.tail
Full(b) == Succ(b.top) = b.tail
Put(b, x) ==
  [top |-> Succ(b.top), tail |-> b.tail, data |-> [b.data EXCEPT ![b.top] = x]]
Take(b) == [top |-> b.top, tail |-> Succ(b.tail), data |-> b.data]
buff_init(b) == [top |-> 0, tail |-> 0, data |-> b.data]

Buffer == [top : 0 .. BUFFSIZE - 1, tail : 0 .. BUFFSIZE - 1,
           data : [0 .. BUFFSIZE - 1 -> Byte]]

(* dev_init_ser, dev_ser_llinit *)
Init ==
  /\ open = FALSE
  /\ buff \in [Dir -> { b \in Buffer : Empty(b) }]
  /\ wait = [d \in Dir |-> FALSE]
  /\ pc = [d \in Dir |-> "idle"] /\ left = [d \in Dir |-> 0]
  /\ wup = [d \in Dir |-> 0]
  /\ tail = 0
  /\ com_error = {} /\ com_speed \in SpeedTable /\ baud = com_speed
  /\ txrdy = FALSE /\ inflight = 0 /\ event = {}
  /\ out \in [Dir -> Byte]
  /\ owed = [d \in Dir |-> << >>]
  /\ lost = FALSE

(***************************************************************************)
(* Low-level control (dev_ser_llctl).  The UART takes the speed over when  *)
(* communication is started.                                               *)
(***************************************************************************)
start_com == txrdy' = TRUE /\ event' = {}
stop_com == txrdy' = FALSE
set_baudrate(speed) == baud' = IF speed \in SpeedTable THEN speed ELSE baud
LLD_SER_SEND(x) ==
  /\ txrdy /\ txrdy' = FALSE
  /\ inflight' = inflight + 1
  /\ out' = [out EXCEPT !["snd"] = x]

(***************************************************************************)
(* Opening and closing, which the device manager does while no request is  *)
(* being processed.  What is left in the buffers is dropped.               *)
(***************************************************************************)
dev_ser_openfn ==
  /\ ~open /\ open' = TRUE
  /\ buff' = [d \in Dir |-> buff_init(buff[d])]
  /\ wait' = [d \in Dir |-> FALSE]
  /\ owed' = [d \in Dir |-> << >>]
  /\ start_com
  /\ UNCHANGED << pc, left, tail, wup, inflight, told, out >>

dev_ser_closefn ==
  /\ open /\ \A d \in Dir : pc[d] = "idle"
  /\ open' = FALSE /\ stop_com
  /\ UNCHANGED << buff, wait, pc, left, tail, wup, inflight, event, told, out, owed >>

(***************************************************************************)
(* Requests for data.  A byte leaves the request with each step.           *)
(***************************************************************************)
Begin(d) ==
  /\ open /\ pc[d] = "idle"
  /\ \E size \in Nat \ {0} : left' = [left EXCEPT ![d] = size]
  /\ pc' = [pc EXCEPT ![d] = "loop"]
  /\ tail' = IF d = "rcv" THEN buff[d].tail ELSE tail
  /\ UNCHANGED << open, buff, wait, wup, uart, told, out, owed >>

OneDone(d) ==
  /\ pc[d] = "loop"
  /\ left' = [left EXCEPT ![d] = @ - 1]
  /\ pc' = [pc EXCEPT ![d] = IF left[d] = 1 THEN "idle" ELSE "loop"]

(* Past an empty buffer a byte goes to TXD at once. *)
write_data(x) ==
  /\ OneDone("snd") /\ ~Full(buff["snd"])
  /\ \/ /\ Empty(buff["snd"])
        /\ LLD_SER_SEND(x)
        /\ UNCHANGED << buff, owed >>
     \/ /\ ~(Empty(buff["snd"]) /\ txrdy)
        /\ buff' = [buff EXCEPT !["snd"] = Put(@, x)]
        /\ owed' = [owed EXCEPT !["snd"] = Append(@, x)]
        /\ UNCHANGED << txrdy, inflight, out >>
  /\ UNCHANGED << open, wait, tail, wup, event, told >>

read_data ==
  /\ OneDone("rcv") /\ buff["rcv"].top # tail
  /\ out' = [out EXCEPT !["rcv"] = buff["rcv"].data[tail]]
  /\ tail' = Succ(tail)
  /\ buff' = [buff EXCEPT !["rcv"] = [@ EXCEPT !.tail = Succ(tail)]]
  /\ owed' = [owed EXCEPT !["rcv"] = Tail(@)]
  /\ UNCHANGED << open, wait, wup, uart, told >>

(* No room, or nothing there: the task leaves its ID and goes to sleep. *)
GoToSleep(d) ==
  /\ pc[d] = "loop"
  /\ IF d = "snd" THEN Full(buff[d]) ELSE buff[d].top = tail
  /\ wait' = [wait EXCEPT ![d] = TRUE]
  /\ pc' = [pc EXCEPT ![d] = "sleep"]
  /\ UNCHANGED << open, buff, left, tail, wup, uart, told, out, owed >>

(* A time-out (snd_tmo, rcv_tmo), or a release by another task, leaves the ID in the buffer. *)
tk_slp_tsk(d) ==
  /\ pc[d] = "sleep"
  /\ \/ /\ wup[d] > 0
        /\ wup' = [wup EXCEPT ![d] = @ - 1]
        /\ pc' = [pc EXCEPT ![d] = "loop"]
     \/ /\ wup[d] = 0
        /\ pc' = [pc EXCEPT ![d] = "idle"]
        /\ UNCHANGED wup
  /\ UNCHANGED << open, buff, wait, left, tail, uart, told, out, owed >>

(* Between its requests a task sleeps and is woken for other reasons. *)
Elsewhere(d) ==
  /\ pc[d] = "idle"
  /\ \E n \in Nat : wup' = [wup EXCEPT ![d] = n]
  /\ UNCHANGED << open, buff, wait, pc, left, tail, uart, told, out, owed >>

(***************************************************************************)
(* Attributes, of which those that only come back when they are read, the  *)
(* mode and the time-outs, are left out.  A speed that is not in the table *)
(* is refused, but told from then on.                                      *)
(***************************************************************************)
write_atr(speed) ==
  /\ open
  /\ com_speed' = speed
  /\ set_baudrate(speed)
  /\ UNCHANGED << open, buff, wait, pc, left, tail, wup, uart, com_error, lost, out, owed >>

read_atr ==
  /\ open
  /\ com_error' = {} /\ lost' = FALSE
  /\ UNCHANGED << open, buff, wait, pc, left, tail, wup, uart, com_speed, baud,
                  out, owed >>

-----------------------------------------------------------------------------
(***************************************************************************)
(* The UART, and the interrupt it raises.  The line may be busy with what  *)
(* was written before the device was closed.                               *)
(***************************************************************************)
Uart ==
  /\ \/ inflight > 0 /\ inflight' = inflight - 1 /\ event' = event \cup {"TXDRDY"}
     \/ open /\ event' = event \cup {"RXDRDY"} /\ UNCHANGED inflight
     \/ open /\ event' = event \cup {"ERROR"} /\ UNCHANGED inflight
  /\ UNCHANGED << open, buff, wait, pc, left, tail, wup, txrdy, told, out, owed >>

(* What dev_ser_notify_rcv and dev_ser_get_snddat tell about. *)
Received == "RXDRDY" \in event
Stored == Received /\ ~Full(buff["rcv"])
Sent == "TXDRDY" \in event /\ ~Empty(buff["snd"])
Wakes(d) == wait[d] /\ IF d = "snd" THEN Sent ELSE Received

(* x is the byte in RXD, if there is one. *)
usart_inthdr(x) ==
  /\ open /\ event # {}
  /\ event' = {}
  /\ buff' = [d \in Dir |->
       IF d = "rcv" THEN IF Stored THEN Put(buff[d], x) ELSE buff[d]
                    ELSE IF Sent THEN Take(buff[d]) ELSE buff[d]]
  /\ owed' = [d \in Dir |->
       IF d = "rcv" THEN IF Stored THEN Append(owed[d], x) ELSE owed[d]
                    ELSE IF Sent THEN Tail(owed[d]) ELSE owed[d]]
  /\ wup' = [d \in Dir |-> IF Wakes(d) THEN wup[d] + 1 ELSE wup[d]]
  /\ wait' = [d \in Dir |-> wait[d] /\ ~Wakes(d)]
  /\ out' = [out EXCEPT !["snd"] = IF Sent THEN buff["snd"].data[buff["snd"].tail] ELSE @]
  /\ txrdy' = IF "TXDRDY" \in event THEN ~Sent ELSE txrdy
  /\ inflight' = IF Sent THEN inflight + 1 ELSE inflight
  /\ com_error' = com_error \cup (IF Received /\ ~Stored THEN {"ROVR"} ELSE {})
                            \cup (IF "ERROR" \in event THEN {"line"} ELSE {})
  /\ lost' = (lost \/ (Received /\ ~Stored))
  /\ UNCHANGED << open, pc, left, tail, com_speed, baud >>

Next ==
  \/ dev_ser_openfn \/ dev_ser_closefn \/ read_atr \/ \E speed \in Speed : write_atr(speed)
  \/ read_data \/ \E x \in Byte : write_data(x) \/ usart_inthdr(x)
  \/ \E d \in Dir : Begin(d) \/ GoToSleep(d) \/ tk_slp_tsk(d) \/ Elsewhere(d)
  \/ Uart

Spec == Init /\ [][Next]_vars

-----------------------------------------------------------------------------
(* The place in the buffer of the i-th byte that is owed. *)
Slot(b, i) == IF b.tail + i - 1 >= BUFFSIZE THEN b.tail + i - 1 - BUFFSIZE ELSE b.tail + i - 1
Used(b) == IF b.top >= b.tail THEN b.top - b.tail ELSE b.top - b.tail + BUFFSIZE
Holds(b, q) == Len(q) = Used(b) /\ \A i \in 1 .. Len(q) : b.data[Slot(b, i)] = q[i]

(***************************************************************************)
(* A buffer holds what was taken in and not yet given out, in this order,  *)
(* however the task and the handler take turns.                            *)
(***************************************************************************)
HoldsOwed == \A d \in Dir : Holds(buff[d], owed[d])

(***************************************************************************)
(* A byte that leaves a buffer is the one that has been there longest: no  *)
(* byte overtakes another, though some go past the buffer.                 *)
(***************************************************************************)
InOrder ==
  [][\A d \in Dir : open /\ owed'[d] # owed[d] /\ Len(owed'[d]) < Len(owed[d])
       => out'[d] = Head(owed[d])]_vars

(***************************************************************************)
(* While there is something to send, TXD is not taken to be free, and the  *)
(* event that makes the handler send it has come or is still to come: the  *)
(* transmitter never stalls.                                               *)
(***************************************************************************)
NeverStalls ==
  open /\ ~Empty(buff["snd"]) => ~txrdy /\ (inflight > 0 \/ "TXDRDY" \in event)

(***************************************************************************)
(* A task that sleeps and has no wake-up pending has left its ID, and what *)
(* it waits for has not come yet: no wake-up falls between the look at the *)
(* buffer and tk_slp_tsk.                                                  *)
(***************************************************************************)
SleeperIsWoken ==
  \A d \in Dir : pc[d] = "sleep" /\ wup[d] = 0
    => wait[d] /\ IF d = "snd" THEN Full(buff[d]) ELSE Empty(buff[d])

(* A byte that finds the buffer full is reported with the next errors read. *)
LossIsTold == lost => "ROVR" \in com_error
=============================================================================
