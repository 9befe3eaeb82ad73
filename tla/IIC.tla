-------------------------------- MODULE IIC ---------------------------------
(***************************************************************************)
(* The driver of the two-wire bus (CAV/src/iic.c) by which a vehicle talks *)
(* to its motors and line sensors: iic_transfer starts a list of commands  *)
(* and sleeps, the handler carries them out one event of the TWI           *)
(* peripheral at a time and wakes the task by an event flag.               *)
(*                                                                         *)
(* A channel has one user at a time, who holds its lock (libtm's           *)
(* FastMLock).  The handler tests the event registers one after the other; *)
(* each test, with what it leads to, is a step.  The peripheral works on   *)
(* meanwhile, which matters only if something of a higher priority, like   *)
(* the radio's handler or the kernel's timer (level 1, the bus has level   *)
(* 3), holds the handler up.                                               *)
(***************************************************************************)
EXTENDS Integers, Sequences, FiniteSets

CONSTANTS
  Channel,
  Transfers,      (* Transfers[ch]: the lists of commands to be transferred *)
  MaxTransfers,   (* bound: MaxTransfers[ch], transfers on channel ch *)
  Rare            (* what the run lets happen, of "nack", "timeout", "preempted" *)

Command == {"start_wr", "send", "restart_rd", "recv", "stop"}

ASSUME IICAssumption ==
  /\ "none" \notin Channel
  /\ Transfers \in [Channel -> SUBSET Seq(Command)]
  /\ \A ch \in Channel : \A c \in Transfers[ch] : Len(c) >= 3
  /\ MaxTransfers \in [Channel -> Nat]
  /\ Rare \subseteq {"nack", "timeout", "preempted"}

VARIABLES
  user,     (* the call of iic_transfer on each channel *)
  cb,       (* iiccb: the next command, and which bytes have been received *)
  twi,      (* the peripheral of each channel *)
  flag,     (* IICFlgID: the channels whose bit is set *)
  handler   (* the handler: which test of which channel is next *)

vars == << user, cb, twi, flag, handler >>

(* The tests of the handler, in order; then it returns 0 or something else. *)
Test  == << "ERROR", "TXDSENT", "RXDREADY", "SUSPENDED", "STOPPED", "return", "leave" >>
Event == { Test[n] : n \in 1 .. 5 }

NoHandler == [ch |-> "none", test |-> "return", cmd |-> 1]

Init ==
  /\ user = [ch \in Channel |->
       [pc |-> "idle", commands |-> << >>, err |-> "E_OK", failed |-> FALSE, done |-> 0]]
  /\ cb = [ch \in Channel |-> [cmddat |-> 1, received |-> {}]]
  /\ twi = [ch \in Channel |->
       [bus |-> "idle", pending |-> "none", shorts |-> "none", enabled |-> FALSE,
        events |-> {}, nack |-> "none"]]
  /\ flag = {}
  /\ handler = NoHandler

Commands(ch) == user[ch].commands
At(ch, i) == IF i <= Len(Commands(ch)) THEN Commands(ch)[i] ELSE "none"

(***************************************************************************)
(* The peripheral.  It sends the byte in TXD or receives one, and tells    *)
(* what has happened by an event; then it holds the clock until it is told *)
(* to go on.  STOP and SUSPEND, whether asked for by a task or a shortcut, *)
(* take their time.  (The handler of one channel does not care what the    *)
(* peripheral of the other does meanwhile.)                                *)
(***************************************************************************)
Works == handler # NoHandler => "preempted" \in Rare

Happens(ch, event, change) ==
  twi' = [twi EXCEPT ![ch] = [change EXCEPT !.events = @ \cup {event}]]

Sends(ch) ==
  /\ twi[ch].bus = "tx"
  /\ Happens(ch, "TXDSENT", [twi[ch] EXCEPT !.bus = "held"])

Receives(ch) ==
  /\ twi[ch].bus = "rx"
  /\ Happens(ch, "RXDREADY", [twi[ch] EXCEPT !.bus = "held", !.pending = twi[ch].shorts])

NotAcknowledged(ch) ==
  /\ "nack" \in Rare /\ twi[ch].bus \in {"tx", "rx"}
  /\ \E n \in {"address", "data"} :
       Happens(ch, "ERROR", [twi[ch] EXCEPT !.bus = "held", !.nack = n])

Stops(ch) ==
  /\ twi[ch].pending = "stop"
  /\ Happens(ch, "STOPPED",
       [twi[ch] EXCEPT !.pending = "none", !.bus = IF @ = "held" THEN "idle" ELSE @])

Suspends(ch) ==
  /\ twi[ch].pending = "suspend"
  /\ Happens(ch, "SUSPENDED", [twi[ch] EXCEPT !.pending = "none"])

Peripheral(ch) ==
  /\ Works
  /\ Sends(ch) \/ Receives(ch) \/ NotAcknowledged(ch) \/ Stops(ch) \/ Suspends(ch)
  /\ UNCHANGED << user, cb, flag, handler >>

(***************************************************************************)
(* transfer_start, with command i: what the peripheral t becomes.  At      *)
(* least three commands must be left.                                      *)
(***************************************************************************)
CanStart(ch, i) == i + 2 <= Len(Commands(ch))

transfer_start(ch, t, i) ==
  IF At(ch, i) = "restart_rd"
  THEN [t EXCEPT !.bus = "rx", !.shorts = IF At(ch, i + 2) = "stop" THEN "stop" ELSE "suspend"]
  ELSE [t EXCEPT !.bus = "tx", !.shorts = "none"]

(***************************************************************************)
(* transfer_cmddat, called by the handler.  handler.cmd is the place of    *)
(* the command in its variable cmd, which is not always that of cmddat.    *)
(***************************************************************************)
Enter(ch) ==
  /\ handler = NoHandler
  /\ twi[ch].enabled /\ twi[ch].events # {}
  /\ handler' = [ch |-> ch, test |-> "ERROR", cmd |-> cb[ch].cmddat]
  /\ UNCHANGED << user, cb, twi, flag >>

Testing(ch, event) ==
  handler.ch = ch /\ handler.test = event /\ UNCHANGED << user, flag >>

Seen(ch, event) == Testing(ch, event) /\ event \in twi[ch].events

Cleared(ch, event) == [twi[ch] EXCEPT !.events = @ \ {event}]

Stop(t) == [t EXCEPT !.pending = "stop"]

Disabled(t) == [t EXCEPT !.enabled = FALSE]

(* On to the next test, with the command at place i in cmd. *)
Onwards(t, i) ==
  /\ twi' = [twi EXCEPT ![handler.ch] = t]
  /\ handler' = [handler EXCEPT !.cmd = i,
        !.test = Test[1 + CHOOSE n \in DOMAIN Test : Test[n] = @]]

(* err_stop *)
Abort(t) ==
  /\ twi' = [twi EXCEPT ![handler.ch] = Stop(t)]
  /\ handler' = [handler EXCEPT !.test = "leave"]

NotSeen(ch, event) ==
  /\ Testing(ch, event) /\ event \notin twi[ch].events
  /\ Onwards(twi[ch], handler.cmd)
  /\ UNCHANGED cb

OnError(ch) ==
  /\ Seen(ch, "ERROR")
  /\ Abort(Cleared(ch, "ERROR"))
  /\ UNCHANGED cb

(* A byte has been sent: the command after it is begun. *)
OnSent(ch) ==
  /\ Seen(ch, "TXDSENT")
  /\ LET sent == At(ch, handler.cmd) = "send"
         next == IF sent THEN cb[ch].cmddat + 1 ELSE cb[ch].cmddat
         i    == IF sent THEN next ELSE handler.cmd
         cmd  == At(ch, i)
         t    == Cleared(ch, "TXDSENT")
         starts == cmd = "restart_rd" /\ CanStart(ch, next)
     IN  /\ cb' = [cb EXCEPT ![ch].cmddat = IF starts THEN next + 1 ELSE next]
         /\ IF cmd = "none" \/ (cmd = "restart_rd" /\ ~ starts)
            THEN Abort(t)
            ELSE Onwards(CASE cmd = "send" -> [t EXCEPT !.bus = "tx"]
                           [] cmd = "stop" -> Stop(t)
                           [] starts       -> transfer_start(ch, t, next)
                           [] OTHER        -> t,
                         i)

(* A byte has been received: it is stored in the place of the command. *)
OnReceived(ch) ==
  /\ Seen(ch, "RXDREADY")
  /\ LET i == cb[ch].cmddat
         t == Cleared(ch, "RXDREADY")
     IN  IF At(ch, handler.cmd) = "recv"
         THEN /\ cb' = [cb EXCEPT ![ch] =
                   [cmddat |-> i + 1, received |-> @.received \cup {i}]]
              /\ IF At(ch, i + 1) = "none" THEN Abort(t) ELSE Onwards(t, i + 1)
         ELSE Onwards(t, handler.cmd) /\ UNCHANGED cb

(* IIC_LASTDATA: the last of several bytes to be sent or received. *)
LastData(ch, i) == At(ch, i) \in {"send", "recv"} /\ At(ch, i + 1) # At(ch, i)

OnSuspended(ch) ==
  /\ Seen(ch, "SUSPENDED")
  /\ LET i == cb[ch].cmddat
         t == Cleared(ch, "SUSPENDED")
         last == LastData(ch, handler.cmd)
         again == At(ch, handler.cmd) = "restart_rd"
         starts == again /\ CanStart(ch, i)
         resumed == [t EXCEPT !.bus = "rx",
                              !.shorts = IF last /\ At(ch, i + 1) = "stop" THEN "stop" ELSE @]
     IN  /\ cb' = [cb EXCEPT ![ch].cmddat = IF starts THEN i + 1 ELSE i]
         /\ IF (last /\ At(ch, i + 1) = "none") \/ (again /\ ~ starts)
            THEN Abort(t)
            ELSE Onwards(IF starts THEN transfer_start(ch, t, i) ELSE resumed, handler.cmd)

OnStopped(ch) ==
  /\ Seen(ch, "STOPPED")
  /\ twi' = [twi EXCEPT ![ch] = Cleared(ch, "STOPPED")]
  /\ cb' = IF At(ch, handler.cmd) = "stop" THEN [cb EXCEPT ![ch].cmddat = @ + 1] ELSE cb
  /\ handler' = [handler EXCEPT !.test = "leave"]

Return(ch) ==
  /\ handler.ch = ch /\ handler.test = "return"
  /\ handler' = NoHandler
  /\ UNCHANGED << user, cb, twi, flag >>

(* The transfer has ended: interrupts off, the task is told. *)
Leave(ch) ==
  /\ handler.ch = ch /\ handler.test = "leave"
  /\ handler' = NoHandler
  /\ twi' = [twi EXCEPT ![ch] = Disabled(@)]
  /\ flag' = flag \cup {ch}
  /\ UNCHANGED << user, cb >>

iic_init_handler(ch) ==
  \/ Enter(ch)
  \/ OnError(ch) \/ OnSent(ch) \/ OnReceived(ch) \/ OnSuspended(ch) \/ OnStopped(ch)
  \/ \E event \in Event : NotSeen(ch, event)
  \/ Return(ch) \/ Leave(ch)

(***************************************************************************)
(* iic_transfer, by the one task that holds the lock of channel ch.        *)
(***************************************************************************)
Calls == handler = NoHandler

Called(u, commands) ==
  [u EXCEPT !.pc = "waiting", !.commands = commands, !.done = @ + 1]

(* The events are cleared, the interrupts enabled, the first byte is sent. *)
Started(t) ==
  [t EXCEPT !.bus = "tx", !.shorts = "none", !.enabled = TRUE, !.events = {}, !.nack = "none"]

Begin(ch, commands) ==
  /\ Calls /\ user[ch].pc = "idle" /\ user[ch].done < MaxTransfers[ch]
  /\ user' = [user EXCEPT ![ch] = Called(@, commands)]
  /\ cb' = [cb EXCEPT ![ch] = [cmddat |-> 2, received |-> {}]]
  /\ twi' = [twi EXCEPT ![ch] = Started(@)]
  /\ UNCHANGED << flag, handler >>

(* Mutant of Wake: TWF_CLR for TWF_BITCLR. *)
Wake_all(ch) ==
  /\ Calls /\ user[ch].pc = "waiting" /\ ch \in flag
  /\ flag' = {}
  /\ user' = [user EXCEPT ![ch].pc = "woken"]
  /\ UNCHANGED << cb, twi, handler >>

(* Mutant of Wake: no TWF_BITCLR. *)
Wake_none(ch) ==
  /\ Calls /\ user[ch].pc = "waiting" /\ ch \in flag
  /\ user' = [user EXCEPT ![ch].pc = "woken"]
  /\ UNCHANGED << cb, twi, flag, handler >>

(* tk_wai_flg returns: the bit of the channel is set, and is taken. *)
Wake(ch) ==
  /\ Calls /\ user[ch].pc = "waiting" /\ ch \in flag
  /\ flag' = flag \ {ch}
  /\ user' = [user EXCEPT ![ch].pc = "woken"]
  /\ UNCHANGED << cb, twi, handler >>

(* Its time is over: a second and ten milliseconds for each command. *)
TimeOut(ch) ==
  /\ "timeout" \in Rare
  /\ Calls /\ user[ch].pc = "waiting" /\ ch \notin flag
  /\ user' = [user EXCEPT ![ch].pc = "timed_out"]
  /\ UNCHANGED << cb, twi, flag, handler >>

(* Mutant of End: the interrupts are not turned off. *)
End_enabled(ch) ==
  /\ Calls /\ user[ch].pc \in {"woken", "timed_out"}
  /\ user' = [user EXCEPT ![ch] =
       [@ EXCEPT !.pc = "idle", !.err = IF user[ch].pc = "woken" THEN "E_OK" ELSE "E_TMOUT",
                 !.failed = @ \/ user[ch].pc # "woken" \/ twi[ch].nack # "none"]]
  /\ twi' = IF user[ch].pc = "woken" THEN twi ELSE [twi EXCEPT ![ch] = Stop(@)]
  /\ UNCHANGED << cb, flag, handler >>

Finished(u, err) ==
  [u EXCEPT !.pc = "idle", !.err = err, !.failed = @ \/ err # "E_OK"]

(* The interrupts are turned off and the result is worked out. *)
End(ch) ==
  /\ Calls /\ user[ch].pc \in {"woken", "timed_out"}
  /\ LET late == user[ch].pc = "timed_out"
         nack == twi[ch].nack
         err  == IF late THEN "E_TMOUT" ELSE IF nack = "none" THEN "E_OK" ELSE "E_IO"
     IN  /\ user' = [user EXCEPT ![ch] = Finished(@, err)]
         /\ twi' = [twi EXCEPT ![ch] = Disabled(IF late THEN Stop(@) ELSE @)]
         /\ cb' = IF ~ late /\ nack = "data" /\ At(ch, cb[ch].cmddat) = "send"
                  THEN [cb EXCEPT ![ch].cmddat = @ + 1] ELSE cb
  /\ UNCHANGED << flag, handler >>

iic_transfer(ch) ==
  (\E commands \in Transfers[ch] : Begin(ch, commands)) \/ Wake(ch) \/ TimeOut(ch) \/ End(ch)

Next == \E ch \in Channel : iic_transfer(ch) \/ iic_init_handler(ch) \/ Peripheral(ch)

Spec ==
  /\ Init /\ [][Next]_vars
  /\ \A ch \in Channel :
       WF_vars(iic_init_handler(ch)) /\ WF_vars(Peripheral(ch)) /\ WF_vars(Wake(ch) \/ End(ch))
-----------------------------------------------------------------------------
(***************************************************************************)
(* The handler works on the commands of a call of iic_transfer that has    *)
(* not returned, which are on the caller's stack, and looks at and writes  *)
(* to nothing after their end, whatever fails and however late an event of *)
(* an earlier transfer comes.                                              *)
(***************************************************************************)
OnStack ==
  \A ch \in Channel :
    handler.ch = ch =>
      /\ user[ch].pc # "idle"
      /\ handler.cmd \in DOMAIN Commands(ch)
      /\ cb[ch].received \subseteq DOMAIN Commands(ch)

(***************************************************************************)
(* As long as no transfer of a channel has failed, one that returns E_OK   *)
(* has carried out all its commands and has received a byte for each that  *)
(* asks for one: no event of the one before is taken for its own, and none *)
(* of the other channel's.                                                 *)
(***************************************************************************)
Complete(ch) ==
  /\ cb[ch].cmddat = Len(Commands(ch)) + 1
  /\ cb[ch].received = { i \in DOMAIN Commands(ch) : Commands(ch)[i] = "recv" }

DoneUnlessFailed ==
  \A ch \in Channel :
    user[ch].pc = "idle" /\ user[ch].done > 0 /\ ~ user[ch].failed => Complete(ch)

(***************************************************************************)
(* As long as none has failed, a transfer ends without the help of the     *)
(* time-out: the handler misses no event the peripheral waits to have      *)
(* handled.                                                                *)
(***************************************************************************)
TransferEnds ==
  \A ch \in Channel :
    user[ch].pc = "waiting" /\ ~ user[ch].failed ~> user[ch].pc # "waiting"
=============================================================================
