---------------------------- MODULE DriverProof -----------------------------
(***************************************************************************)
(* What is proved of the drivers and of the locks of libtk.                *)
(*                                                                         *)
(* Of the bus (CAV/src/iic.c) two things are proved, for any lists of      *)
(* commands and with every failure: bytes that are not acknowledged,       *)
(* time-outs, and events that are late.                                    *)
(*                                                                         *)
(* The commands of a transfer are on the stack of the task that called     *)
(* iic_transfer, and the handler reaches them by a pointer: it does so     *)
(* only while the call lasts and only within the list                      *)
(* (HandlerStaysOnStack, by the invariant IInv).                           *)
(*                                                                         *)
(* A transfer that is reported done is done (SucceedsOnlyWhenDone).  The   *)
(* invariant for that, Clean, follows the transfer through its course: at  *)
(* which command it is, what the peripheral does or has done and not yet   *)
(* been told, and which tests the handler has behind it.                   *)
(*                                                                         *)
(* Of the serial driver: that it keeps the order of the bytes, never       *)
(* stalls and forgets no sleeper, for buffers of any size and any set of   *)
(* bytes (SerialInv).                                                      *)
(*                                                                         *)
(* Of the locks, FastLock and FastMLock: that they exclude, forget nobody  *)
(* and lose no signal, for any number of tasks and of locks (FastInv and   *)
(* LockInv).                                                               *)
(***************************************************************************)
EXTENDS IIC, FiniteSetTheorems, TLAPS

Tests == {"ERROR", "TXDSENT", "RXDREADY", "SUSPENDED", "STOPPED", "return", "leave"}

User == [pc : {"idle", "waiting", "woken", "timed_out"},
         commands : Seq(Command), err : {"E_OK", "E_TMOUT", "E_IO"},
         failed : BOOLEAN, done : Nat]

CommandBlock == [cmddat : Nat, received : SUBSET Nat]

Peripherals == [bus : {"idle", "tx", "rx", "held"}, pending : {"none", "stop", "suspend"},
                shorts : {"none", "stop", "suspend"}, enabled : BOOLEAN,
                events : SUBSET Event, nack : {"none", "address", "data"}]

TypeInv ==
  /\ user \in [Channel -> User]
  /\ cb \in [Channel -> CommandBlock]
  /\ twi \in [Channel -> Peripherals]
  /\ handler \in [ch : Channel \cup {"none"}, test : Tests, cmd : Nat]

(* Interrupts are enabled during a call only, and what the next one starts *)
(* with is a command.                                                      *)
Ready(ch) ==
  twi[ch].enabled =>
    /\ user[ch].pc # "idle"
    /\ handler.ch = ch \/ cb[ch].cmddat \in DOMAIN Commands(ch)

(* Until it gives up the handler's cmd is the command at cmddat, or the    *)
(* restart_rd behind which it has gone on.                                 *)
Running(ch) ==
  handler.ch = ch =>
    /\ twi[ch].enabled
    /\ handler.cmd \in DOMAIN Commands(ch)
    /\ handler.test # "leave" =>
         /\ cb[ch].cmddat \in DOMAIN Commands(ch)
         /\ handler.cmd = cb[ch].cmddat \/ At(ch, handler.cmd) = "restart_rd"

Stored(ch) == cb[ch].received \subseteq DOMAIN Commands(ch)

Bounded(ch) == Ready(ch) /\ Running(ch) /\ Stored(ch)

IInv == TypeInv /\ \A ch \in Channel : Bounded(ch)

(* The test after one that was made. *)
LEMMA NextTest ==
  ASSUME NEW event \in Event
  PROVE  Test[1 + CHOOSE n \in DOMAIN Test : Test[n] = event] \in Tests
  <1> DEFINE k == CHOOSE n \in DOMAIN Test : Test[n] = event
  <1>1. PICK m \in 1 .. 5 : event = Test[m]
    BY DEF Event
  <1>2. DOMAIN Test = 1 .. 7
    BY DEF Test
  <1>3. k \in DOMAIN Test /\ Test[k] = event
    BY <1>1, <1>2
  <1>4. event \notin {"return", "leave"}
    BY <1>1 DEF Test
  <1>5. k \in 1 .. 5
    <2>1. k \in 1 .. 7 /\ Test[6] = "return" /\ Test[7] = "leave"
      BY <1>2, <1>3 DEF Test
    <2> HIDE DEF k
    <2> QED
      BY <1>3, <1>4, <2>1
  <1> HIDE DEF k
  <1>6. 1 + k \in 2 .. 6
    BY <1>5
  <1>7. \A n \in 2 .. 6 : Test[n] \in Tests
    BY DEF Test, Tests
  <1> QED
    BY <1>6, <1>7 DEF k

LEMMA InitHolds == Init => IInv
  <1> SUFFICES ASSUME Init PROVE IInv
    OBVIOUS
  <1>1. user \in [Channel -> User]
    <2>1. << >> \in Seq(Command)
      OBVIOUS
    <2> QED
      BY <2>1 DEF Init, User
  <1>2. /\ cb \in [Channel -> CommandBlock]
        /\ twi \in [Channel -> Peripherals]
        /\ handler \in [ch : Channel \cup {"none"}, test : Tests, cmd : Nat]
    BY DEF Init, NoHandler, Tests, CommandBlock, Peripherals
  <1>3. \A ch \in Channel : ~ twi[ch].enabled /\ handler.ch # ch /\ cb[ch].received = {}
    BY IICAssumption DEF Init, NoHandler
  <1> QED
    BY <1>1, <1>2, <1>3 DEF IInv, TypeInv, Bounded, Ready, Running, Stored

LEMMA ClearedType ==
  ASSUME TypeInv, NEW ch \in Channel, NEW event
  PROVE  /\ Cleared(ch, event) \in Peripherals
         /\ Cleared(ch, event).enabled = twi[ch].enabled
  BY DEF TypeInv, Cleared, Peripherals

LEMMA StopType ==
  ASSUME NEW t \in Peripherals
  PROVE  Stop(t) \in Peripherals /\ Stop(t).enabled = t.enabled
  BY DEF Stop, Peripherals

LEMMA DisabledType ==
  ASSUME NEW t \in Peripherals
  PROVE  Disabled(t) \in Peripherals /\ Disabled(t).enabled = FALSE
  BY DEF Disabled, Peripherals

LEMMA StartedType == ASSUME NEW t \in Peripherals PROVE Started(t) \in Peripherals
  BY DEF Started, Peripherals

LEMMA CalledType ==
  ASSUME NEW u \in User, NEW commands \in Seq(Command)
  PROVE  /\ Called(u, commands) \in User
         /\ Called(u, commands).pc # "idle" /\ Called(u, commands).commands = commands
  <1>1. u.done + 1 \in Nat
    BY DEF User
  <1> DEFINE k == u.done + 1
  <1>2. Called(u, commands) = [u EXCEPT !.pc = "waiting", !.commands = commands, !.done = k]
    BY DEF Called
  <1> HIDE DEF k
  <1> QED
    BY <1>1, <1>2 DEF User, k

LEMMA FinishedType ==
  ASSUME NEW u \in User, NEW err \in {"E_OK", "E_TMOUT", "E_IO"}
  PROVE  Finished(u, err) \in User /\ Finished(u, err).commands = u.commands
  BY DEF Finished, User

LEMMA StartType ==
  ASSUME NEW ch \in Channel, NEW t \in Peripherals, NEW i \in Nat
  PROVE  /\ transfer_start(ch, t, i) \in Peripherals
         /\ transfer_start(ch, t, i).enabled = t.enabled
  BY DEF transfer_start, Peripherals

(* A command that is one is in the list. *)
LEMMA IsCommand ==
  ASSUME TypeInv, NEW ch \in Channel, NEW i \in Nat \ {0}, At(ch, i) # "none"
  PROVE  i \in DOMAIN Commands(ch)
  BY DEF TypeInv, At, Commands

(***************************************************************************)
(* A step of the handler leaves the other channel alone: what it makes of  *)
(* its own, a peripheral t, a block c and a command i, has to be bounded.  *)
(***************************************************************************)
LEMMA HandlerStep ==
  ASSUME IInv, NEW ch \in Channel, user' = user,
         NEW t \in Peripherals, t.enabled, twi' = [twi EXCEPT ![ch] = t],
         NEW c \in CommandBlock, cb' = [cb EXCEPT ![ch] = c],
         NEW i \in DOMAIN Commands(ch), NEW x \in Tests,
         handler' = [ch |-> ch, test |-> x, cmd |-> i],
         twi[ch].enabled,
         c.received \subseteq DOMAIN Commands(ch),
         x # "leave" => /\ c.cmddat \in DOMAIN Commands(ch)
                        /\ i = c.cmddat \/ At(ch, i) = "restart_rd",
         handler.ch \in {ch, "none"}
  PROVE  IInv'
  <1>1. Commands(ch) \in Seq(Command) /\ user[ch].pc # "idle"
    BY DEF IInv, TypeInv, User, Commands, Bounded, Ready
  <1>2. TypeInv'
    <2>1. i \in Nat
      BY <1>1
    <2> QED
      BY <2>1 DEF IInv, TypeInv, Peripherals, CommandBlock
  <1>3. Bounded(ch)'
    <2>1. twi'[ch] = t /\ cb'[ch] = c /\ handler'.ch = ch /\ handler'.test = x /\ handler'.cmd = i
      BY DEF IInv, TypeInv
    <2>2. Commands(ch)' = Commands(ch) /\ user'[ch].pc # "idle"
      BY <1>1 DEF Commands
    <2> QED
      BY <2>1, <2>2 DEF Bounded, Ready, Running, Stored, At
  <1>4. ASSUME NEW d \in Channel, d # ch PROVE Bounded(d)'
    <2>1. twi'[d] = twi[d] /\ cb'[d] = cb[d] /\ handler'.ch # d /\ handler.ch # d
      BY <1>4, IICAssumption DEF IInv, TypeInv
    <2>2. Commands(d)' = Commands(d) /\ user'[d] = user[d]
      BY DEF Commands
    <2> QED
      BY <2>1, <2>2 DEF IInv, Bounded, Ready, Running, Stored
  <1> QED
    BY <1>2, <1>3, <1>4 DEF IInv

(* The handler is at one of its tests of an event. *)
LEMMA Tested ==
  ASSUME IInv, NEW ch \in Channel, NEW event \in Event, Testing(ch, event)
  PROVE  /\ user' = user /\ twi[ch].enabled
         /\ handler = [ch |-> ch, test |-> event, cmd |-> handler.cmd]
         /\ handler.cmd \in DOMAIN Commands(ch) /\ cb[ch].cmddat \in DOMAIN Commands(ch)
         /\ handler.cmd = cb[ch].cmddat \/ At(ch, handler.cmd) = "restart_rd"
         /\ cb[ch] \in CommandBlock /\ cb[ch].received \subseteq DOMAIN Commands(ch)
         /\ DOMAIN Commands(ch) = 1 .. Len(Commands(ch)) /\ Len(Commands(ch)) \in Nat
  <1>1. event # "leave"
    BY DEF Event, Test
  <1>2. user[ch].commands \in Seq(Command)
    BY DEF IInv, TypeInv, User
  <1> QED
    BY <1>1, <1>2 DEF IInv, TypeInv, Testing, Bounded, Running, Stored, CommandBlock, Commands

(* It goes on to the next test, or gives up. *)
LEMMA OnwardsHolds ==
  ASSUME IInv, NEW ch \in Channel, NEW event \in Event, Testing(ch, event),
         NEW t \in Peripherals, t.enabled, NEW i \in DOMAIN Commands(ch), Onwards(t, i),
         NEW c \in CommandBlock, cb' = [cb EXCEPT ![ch] = c],
         c.received \subseteq DOMAIN Commands(ch), c.cmddat \in DOMAIN Commands(ch),
         i = c.cmddat \/ At(ch, i) = "restart_rd"
  PROVE  IInv'
  <1> DEFINE x == Test[1 + CHOOSE n \in DOMAIN Test : Test[n] = event]
  <1>1. x \in Tests
    BY NextTest
  <1>3. handler.ch = ch /\ handler.test = event
    BY DEF Testing
  <1>4. handler' = [handler EXCEPT !.cmd = i, !.test = x]
    BY <1>3 DEF Onwards
  <1> HIDE DEF x
  <1>5. handler' = [ch |-> ch, test |-> x, cmd |-> i]
    BY <1>3, <1>4 DEF IInv, TypeInv
  <1>6. twi' = [twi EXCEPT ![ch] = t]
    BY <1>3 DEF Onwards
  <1> QED
    BY <1>1, <1>3, <1>5, <1>6, Tested, HandlerStep

LEMMA AbortHolds ==
  ASSUME IInv, NEW ch \in Channel, NEW event \in Event, Testing(ch, event),
         NEW t \in Peripherals, t.enabled, Abort(t),
         NEW c \in CommandBlock, cb' = [cb EXCEPT ![ch] = c],
         c.received \subseteq DOMAIN Commands(ch)
  PROVE  IInv'
  <1>1. handler = [ch |-> ch, test |-> event, cmd |-> handler.cmd]
    BY Tested
  <1>2. handler.ch = ch
    BY DEF Testing
  <1>3. handler' = [ch |-> ch, test |-> "leave", cmd |-> handler.cmd]
    BY <1>1 DEF Abort
  <1>4. twi' = [twi EXCEPT ![ch] = Stop(t)]
    BY <1>2 DEF Abort
  <1>5. Stop(t) \in Peripherals /\ Stop(t).enabled /\ "leave" \in Tests
    BY StopType DEF Tests
  <1> QED
    BY <1>2, <1>3, <1>4, <1>5, Tested, HandlerStep

LEMMA NewCmddat ==
  ASSUME TypeInv, NEW ch \in Channel, NEW k
  PROVE  [cb EXCEPT ![ch].cmddat = k]
           = [cb EXCEPT ![ch] = [cmddat |-> k, received |-> cb[ch].received]]
  <1>1. cb \in [Channel -> CommandBlock] /\ cb[ch] \in CommandBlock
    BY DEF TypeInv
  <1>2. [cb[ch] EXCEPT !.cmddat = k] = [cmddat |-> k, received |-> cb[ch].received]
    BY <1>1 DEF CommandBlock
  <1> QED
    BY <1>1, <1>2

(* One lemma for each test that sees its event. *)
LEMMA NotSeenHolds ==
  ASSUME IInv, NEW ch \in Channel, NEW event \in Event, NotSeen(ch, event)
  PROVE  IInv'
  <1>1. Testing(ch, event) /\ Onwards(twi[ch], handler.cmd) /\ cb' = cb
    BY DEF NotSeen
  <1>2. cb' = [cb EXCEPT ![ch] = cb[ch]] /\ twi[ch] \in Peripherals
    BY <1>1 DEF IInv, TypeInv
  <1> QED
    BY <1>1, <1>2, Tested, OnwardsHolds

LEMMA ErrorHolds == ASSUME IInv, NEW ch \in Channel, OnError(ch) PROVE IInv'
  <1>0. "ERROR" \in Event
    BY DEF Event, Test
  <1>1. Testing(ch, "ERROR") /\ Abort(Cleared(ch, "ERROR")) /\ cb' = cb
    BY DEF OnError, Seen
  <1>2. cb' = [cb EXCEPT ![ch] = cb[ch]]
    BY <1>1 DEF IInv, TypeInv
  <1> QED
    BY <1>0, <1>1, <1>2, Tested, ClearedType, AbortHolds DEF IInv

LEMMA SentHolds == ASSUME IInv, NEW ch \in Channel, OnSent(ch) PROVE IInv'
  <1> DEFINE sent   == At(ch, handler.cmd) = "send"
             next   == IF sent THEN cb[ch].cmddat + 1 ELSE cb[ch].cmddat
             i      == IF sent THEN next ELSE handler.cmd
             cmd    == At(ch, i)
             t      == Cleared(ch, "TXDSENT")
             starts == cmd = "restart_rd" /\ CanStart(ch, next)
             c      == [cmddat |-> IF starts THEN next + 1 ELSE next,
                        received |-> cb[ch].received]
             u      == CASE cmd = "send" -> [t EXCEPT !.bus = "tx"]
                         [] cmd = "stop" -> Stop(t)
                         [] starts       -> transfer_start(ch, t, next)
                         [] OTHER        -> t
  <1>0. "TXDSENT" \in Event
    BY DEF Event, Test
  <1>1. Testing(ch, "TXDSENT")
    BY DEF OnSent, Seen
  <1>2. /\ handler.cmd \in 1 .. Len(Commands(ch)) /\ cb[ch].cmddat \in 1 .. Len(Commands(ch))
        /\ handler.cmd = cb[ch].cmddat \/ At(ch, handler.cmd) = "restart_rd"
        /\ cb[ch] \in CommandBlock /\ cb[ch].received \subseteq DOMAIN Commands(ch)
        /\ DOMAIN Commands(ch) = 1 .. Len(Commands(ch)) /\ Len(Commands(ch)) \in Nat
        /\ twi[ch].enabled
    BY <1>0, <1>1, Tested
  <1>3. next \in Nat \ {0} /\ i \in Nat \ {0}
    BY <1>2
  <1>4. c \in CommandBlock /\ c.received \subseteq DOMAIN Commands(ch)
    BY <1>2, <1>3 DEF CommandBlock
  <1>5. cb' = [cb EXCEPT ![ch] = c]
    <2>1. cb' = [cb EXCEPT ![ch].cmddat = IF starts THEN next + 1 ELSE next]
      BY DEF OnSent
    <2> QED
      BY <2>1, NewCmddat DEF IInv
  <1>6. t \in Peripherals /\ t.enabled
    BY <1>2, ClearedType DEF IInv
  <1>7. CASE cmd = "none" \/ (cmd = "restart_rd" /\ ~ starts)
    <2>1. Abort(t)
      BY <1>7 DEF OnSent
    <2> HIDE DEF t, c
    <2> QED
      BY <1>0, <1>1, <1>4, <1>5, <1>6, <2>1, AbortHolds
  <1>8. CASE ~ (cmd = "none" \/ (cmd = "restart_rd" /\ ~ starts))
    <2>1. Onwards(u, i)
      BY <1>8 DEF OnSent
    <2>2. i \in DOMAIN Commands(ch)
      BY <1>3, <1>8, IsCommand DEF IInv
    <2>3. c.cmddat \in DOMAIN Commands(ch)
      <3>1. next \in DOMAIN Commands(ch)
        BY <1>2, <2>2
      <3>2. starts => next + 1 \in DOMAIN Commands(ch)
        BY <1>2, <1>3 DEF CanStart
      <3> QED
        BY <3>1, <3>2
    <2>4. i = c.cmddat \/ At(ch, i) = "restart_rd"
      BY <1>2
    <2>5. u \in Peripherals /\ u.enabled
      <3>1. [t EXCEPT !.bus = "tx"] \in Peripherals /\ [t EXCEPT !.bus = "tx"].enabled
        <4> HIDE DEF t
        <4> QED
          BY <1>6 DEF Peripherals
      <3>2. Stop(t) \in Peripherals /\ Stop(t).enabled
        BY <1>6, StopType
      <3>3. transfer_start(ch, t, next) \in Peripherals /\ transfer_start(ch, t, next).enabled
        BY <1>3, <1>6, StartType
      <3> HIDE DEF t, next, cmd, starts
      <3> QED
        BY <1>6, <3>1, <3>2, <3>3
    <2> HIDE DEF u, i, c
    <2> QED
      BY <1>0, <1>1, <1>4, <1>5, <2>1, <2>2, <2>3, <2>4, <2>5, OnwardsHolds
  <1> QED
    BY <1>7, <1>8

LEMMA ReceivedHolds == ASSUME IInv, NEW ch \in Channel, OnReceived(ch) PROVE IInv'
  <1> DEFINE i == cb[ch].cmddat
             t == Cleared(ch, "RXDREADY")
             c == [cmddat |-> i + 1, received |-> cb[ch].received \cup {i}]
  <1>0. "RXDREADY" \in Event
    BY DEF Event, Test
  <1>1. Testing(ch, "RXDREADY")
    BY DEF OnReceived, Seen
  <1>2. /\ handler.cmd \in 1 .. Len(Commands(ch)) /\ i \in 1 .. Len(Commands(ch))
        /\ handler.cmd = i \/ At(ch, handler.cmd) = "restart_rd"
        /\ cb[ch] \in CommandBlock /\ cb[ch].received \subseteq DOMAIN Commands(ch)
        /\ DOMAIN Commands(ch) = 1 .. Len(Commands(ch)) /\ Len(Commands(ch)) \in Nat
        /\ twi[ch].enabled
    BY <1>0, <1>1, Tested
  <1>3. t \in Peripherals /\ t.enabled
    BY <1>2, ClearedType DEF IInv
  <1>4. CASE At(ch, handler.cmd) = "recv"
    <2>1. cb' = [cb EXCEPT ![ch] = c]
      BY <1>4 DEF OnReceived
    <2>2. c \in CommandBlock /\ c.received \subseteq DOMAIN Commands(ch)
      BY <1>2 DEF CommandBlock
    <2>3. CASE At(ch, i + 1) = "none"
      <3>1. Abort(t)
        BY <1>4, <2>3 DEF OnReceived
      <3> HIDE DEF t, c
      <3> QED
        BY <1>0, <1>1, <1>3, <2>1, <2>2, <3>1, AbortHolds
    <2>4. CASE At(ch, i + 1) # "none"
      <3>1. Onwards(t, i + 1)
        BY <1>4, <2>4 DEF OnReceived
      <3>2. i + 1 \in DOMAIN Commands(ch) /\ c.cmddat = i + 1
        BY <1>2, <2>4, IsCommand DEF IInv
      <3> HIDE DEF t, c
      <3> QED
        BY <1>0, <1>1, <1>3, <2>1, <2>2, <3>1, <3>2, OnwardsHolds
    <2> QED
      BY <2>3, <2>4
  <1>5. CASE At(ch, handler.cmd) # "recv"
    <2>1. Onwards(t, handler.cmd) /\ cb' = cb
      BY <1>5 DEF OnReceived
    <2>2. cb' = [cb EXCEPT ![ch] = cb[ch]]
      BY <2>1 DEF IInv, TypeInv
    <2> HIDE DEF t
    <2> QED
      BY <1>0, <1>1, <1>2, <1>3, <2>1, <2>2, OnwardsHolds
  <1> QED
    BY <1>4, <1>5

LEMMA SuspendedHolds == ASSUME IInv, NEW ch \in Channel, OnSuspended(ch) PROVE IInv'
  <1> DEFINE i       == cb[ch].cmddat
             t       == Cleared(ch, "SUSPENDED")
             last    == LastData(ch, handler.cmd)
             again   == At(ch, handler.cmd) = "restart_rd"
             starts  == again /\ CanStart(ch, i)
             resumed == [t EXCEPT !.bus = "rx",
                                  !.shorts = IF last /\ At(ch, i + 1) = "stop" THEN "stop" ELSE @]
             k       == IF starts THEN i + 1 ELSE i
             c       == [cmddat |-> k, received |-> cb[ch].received]
             u       == IF starts THEN transfer_start(ch, t, i) ELSE resumed
             fails   == (last /\ At(ch, i + 1) = "none") \/ (again /\ ~ starts)
  <1>0. "SUSPENDED" \in Event
    BY DEF Event, Test
  <1>1. Testing(ch, "SUSPENDED")
    BY DEF OnSuspended, Seen
  <1>2. /\ handler.cmd \in 1 .. Len(Commands(ch)) /\ i \in 1 .. Len(Commands(ch))
        /\ handler.cmd = i \/ At(ch, handler.cmd) = "restart_rd"
        /\ cb[ch] \in CommandBlock /\ cb[ch].received \subseteq DOMAIN Commands(ch)
        /\ DOMAIN Commands(ch) = 1 .. Len(Commands(ch)) /\ Len(Commands(ch)) \in Nat
        /\ twi[ch].enabled
    BY <1>0, <1>1, Tested
  <1>3. t \in Peripherals /\ t.enabled
    BY <1>2, ClearedType DEF IInv
  <1>4. k \in 1 .. Len(Commands(ch))
    BY <1>2 DEF CanStart
  <1>5. c \in CommandBlock /\ c.received \subseteq DOMAIN Commands(ch) /\ c.cmddat = k
    BY <1>2, <1>4 DEF CommandBlock
  <1>6. cb' = [cb EXCEPT ![ch] = c]
    <2>1. cb' = [cb EXCEPT ![ch].cmddat = k]
      BY DEF OnSuspended
    <2> QED
      BY <2>1, NewCmddat DEF IInv
  <1>7. u \in Peripherals /\ u.enabled
    <2>1. resumed \in Peripherals /\ resumed.enabled
      <3> HIDE DEF t, last
      <3> QED
        BY <1>3 DEF Peripherals
    <2>2. transfer_start(ch, t, i) \in Peripherals /\ transfer_start(ch, t, i).enabled
      BY <1>2, <1>3, StartType
    <2> HIDE DEF resumed, t, starts
    <2> QED
      BY <2>1, <2>2
  <1>8. handler.cmd = c.cmddat \/ At(ch, handler.cmd) = "restart_rd"
    BY <1>2
  <1>9. CASE fails
    <2>1. Abort(t)
      BY <1>9 DEF OnSuspended
    <2> HIDE DEF t, c
    <2> QED
      BY <1>0, <1>1, <1>3, <1>5, <1>6, <2>1, AbortHolds
  <1>10. CASE ~ fails
    <2>1. Onwards(u, handler.cmd)
      BY <1>10 DEF OnSuspended
    <2>2. handler.cmd \in DOMAIN Commands(ch) /\ c.cmddat \in DOMAIN Commands(ch)
      BY <1>2, <1>4
    <2> HIDE DEF u, c
    <2> QED
      BY <1>0, <1>1, <1>5, <1>6, <1>7, <1>8, <2>1, <2>2, OnwardsHolds
  <1> QED
    BY <1>9, <1>10

LEMMA StoppedHolds == ASSUME IInv, NEW ch \in Channel, OnStopped(ch) PROVE IInv'
  <1> DEFINE t == Cleared(ch, "STOPPED")
             k == IF At(ch, handler.cmd) = "stop" THEN cb[ch].cmddat + 1 ELSE cb[ch].cmddat
             c == [cmddat |-> k, received |-> cb[ch].received]
  <1>0. "STOPPED" \in Event /\ "leave" \in Tests
    BY DEF Event, Test, Tests
  <1>1. Testing(ch, "STOPPED") /\ handler.ch = ch
    BY DEF OnStopped, Seen, Testing
  <1>2. /\ handler.cmd \in DOMAIN Commands(ch) /\ user' = user
        /\ handler = [ch |-> ch, test |-> "STOPPED", cmd |-> handler.cmd]
        /\ cb[ch] \in CommandBlock /\ cb[ch].received \subseteq DOMAIN Commands(ch)
        /\ twi[ch].enabled
    BY <1>0, <1>1, Tested
  <1>3. t \in Peripherals /\ t.enabled /\ twi' = [twi EXCEPT ![ch] = t]
    BY <1>2, ClearedType DEF IInv, OnStopped
  <1>4. c \in CommandBlock /\ c.received \subseteq DOMAIN Commands(ch)
    BY <1>2 DEF CommandBlock
  <1>5. cb' = [cb EXCEPT ![ch] = c]
    <2>1. CASE At(ch, handler.cmd) = "stop"
      <3>1. cb' = [cb EXCEPT ![ch].cmddat = k]
        BY <2>1 DEF OnStopped
      <3> QED
        BY <3>1, NewCmddat DEF IInv
    <2>2. CASE At(ch, handler.cmd) # "stop"
      <3>1. cb' = cb /\ k = cb[ch].cmddat
        BY <2>2 DEF OnStopped
      <3>2. c = cb[ch]
        BY <1>2, <3>1 DEF CommandBlock
      <3> HIDE DEF c
      <3> QED
        BY <3>1, <3>2 DEF IInv, TypeInv
    <2> QED
      BY <2>1, <2>2
  <1>6. handler' = [ch |-> ch, test |-> "leave", cmd |-> handler.cmd]
    BY <1>2 DEF OnStopped
  <1> HIDE DEF t, c
  <1> QED
    BY <1>0, <1>1, <1>2, <1>3, <1>4, <1>5, <1>6, HandlerStep

(* The handler is entered and left. *)
LEMMA EnterHolds == ASSUME IInv, NEW ch \in Channel, Enter(ch) PROVE IInv'
  <1>1. /\ handler.ch = "none" /\ twi[ch].enabled /\ UNCHANGED << user, cb, twi >>
        /\ handler' = [ch |-> ch, test |-> "ERROR", cmd |-> cb[ch].cmddat]
    BY DEF Enter, NoHandler
  <1>2. /\ cb[ch].cmddat \in DOMAIN Commands(ch) /\ cb[ch].received \subseteq DOMAIN Commands(ch)
        /\ cb[ch] \in CommandBlock /\ twi[ch] \in Peripherals
    BY <1>1, IICAssumption DEF IInv, TypeInv, Bounded, Ready, Stored
  <1>3. cb' = [cb EXCEPT ![ch] = cb[ch]] /\ twi' = [twi EXCEPT ![ch] = twi[ch]]
    BY <1>1 DEF IInv, TypeInv
  <1>4. "ERROR" \in Tests
    BY DEF Tests
  <1> QED
    BY <1>1, <1>2, <1>3, <1>4, HandlerStep

LEMMA ReturnHolds == ASSUME IInv, NEW ch \in Channel, Return(ch) PROVE IInv'
  <1>1. /\ handler.ch = ch /\ handler.test = "return" /\ UNCHANGED << user, cb, twi >>
        /\ handler' = [ch |-> "none", test |-> "return", cmd |-> 1]
    BY DEF Return, NoHandler
  <1>2. TypeInv'
    BY <1>1 DEF IInv, TypeInv, Tests
  <1>3. \A d \in Channel : Bounded(d)'
    BY <1>1, IICAssumption DEF IInv, Bounded, Ready, Running, Stored, Commands
  <1> QED
    BY <1>2, <1>3 DEF IInv

LEMMA LeaveHolds == ASSUME IInv, NEW ch \in Channel, Leave(ch) PROVE IInv'
  <1>1. /\ handler.ch = ch /\ UNCHANGED << user, cb >>
        /\ handler' = [ch |-> "none", test |-> "return", cmd |-> 1]
        /\ twi' = [twi EXCEPT ![ch] = Disabled(twi[ch])]
    BY DEF Leave, NoHandler
  <1>0. Disabled(twi[ch]) \in Peripherals /\ Disabled(twi[ch]).enabled = FALSE
    BY DisabledType DEF IInv, TypeInv
  <1>2. TypeInv'
    BY <1>0, <1>1 DEF IInv, TypeInv, Tests
  <1>3. ASSUME NEW d \in Channel PROVE Bounded(d)'
    <2>1. handler'.ch # d /\ (d # ch => twi'[d] = twi[d]) /\ twi'[ch].enabled = FALSE
      BY <1>0, <1>1, IICAssumption DEF IInv, TypeInv
    <2> QED
      BY <1>1, <2>1 DEF IInv, Bounded, Ready, Running, Stored, Commands
  <1> QED
    BY <1>2, <1>3 DEF IInv

(* The peripheral never enables or disables its interrupts. *)
LEMMA PeripheralHolds == ASSUME IInv, NEW ch \in Channel, Peripheral(ch) PROVE IInv'
  <1>1. UNCHANGED << user, cb, handler >>
    BY DEF Peripheral
  <1>2. PICK t \in Peripherals : t.enabled = twi[ch].enabled /\ twi' = [twi EXCEPT ![ch] = t]
    <2>1. twi[ch] \in Peripherals
      BY DEF IInv, TypeInv
    <2>2. {"TXDSENT", "RXDREADY", "ERROR", "STOPPED", "SUSPENDED"} \subseteq Event
      BY DEF Event, Test
    <2>3. ASSUME NEW change \in Peripherals, change.enabled = twi[ch].enabled,
                 NEW event \in Event, Happens(ch, event, change)
          PROVE  \E t \in Peripherals : t.enabled = twi[ch].enabled /\ twi' = [twi EXCEPT ![ch] = t]
      <3> DEFINE t == [change EXCEPT !.events = @ \cup {event}]
      <3>1. t \in Peripherals /\ t.enabled = twi[ch].enabled
        BY <2>3 DEF Peripherals
      <3>2. twi' = [twi EXCEPT ![ch] = t]
        BY <2>3 DEF Happens
      <3> HIDE DEF t
      <3> QED
        BY <3>1, <3>2
    <2>4. CASE Sends(ch)
      <3>1. [twi[ch] EXCEPT !.bus = "held"] \in Peripherals
            /\ [twi[ch] EXCEPT !.bus = "held"].enabled = twi[ch].enabled
        BY <2>1 DEF Peripherals
      <3> QED
        BY <2>2, <2>3, <2>4, <3>1 DEF Sends
    <2>5. CASE Receives(ch)
      <3> DEFINE change == [twi[ch] EXCEPT !.bus = "held", !.pending = twi[ch].shorts]
      <3>1. change \in Peripherals /\ change.enabled = twi[ch].enabled
        BY <2>1 DEF Peripherals
      <3>2. Happens(ch, "RXDREADY", change)
        BY <2>5 DEF Receives
      <3> HIDE DEF change
      <3> QED
        BY <2>2, <2>3, <3>1, <3>2
    <2>6. CASE NotAcknowledged(ch)
      <3>1. PICK n \in {"address", "data"} :
              Happens(ch, "ERROR", [twi[ch] EXCEPT !.bus = "held", !.nack = n])
        BY <2>6 DEF NotAcknowledged
      <3> DEFINE change == [twi[ch] EXCEPT !.bus = "held", !.nack = n]
      <3>2. change \in Peripherals /\ change.enabled = twi[ch].enabled
        BY <2>1 DEF Peripherals
      <3>3. Happens(ch, "ERROR", change)
        BY <3>1
      <3> HIDE DEF change
      <3> QED
        BY <2>2, <2>3, <3>2, <3>3
    <2>7. CASE Stops(ch)
      <3> DEFINE change == [twi[ch] EXCEPT !.pending = "none",
                                           !.bus = IF @ = "held" THEN "idle" ELSE @]
      <3>1. change \in Peripherals /\ change.enabled = twi[ch].enabled
        BY <2>1 DEF Peripherals
      <3>2. Happens(ch, "STOPPED", change)
        BY <2>7 DEF Stops
      <3> HIDE DEF change
      <3> QED
        BY <2>2, <2>3, <3>1, <3>2
    <2>8. CASE Suspends(ch)
      <3> DEFINE change == [twi[ch] EXCEPT !.pending = "none"]
      <3>1. change \in Peripherals /\ change.enabled = twi[ch].enabled
        BY <2>1 DEF Peripherals
      <3>2. Happens(ch, "SUSPENDED", change)
        BY <2>8 DEF Suspends
      <3> HIDE DEF change
      <3> QED
        BY <2>2, <2>3, <3>1, <3>2
    <2> QED
      BY <2>4, <2>5, <2>6, <2>7, <2>8 DEF Peripheral
  <1>3. TypeInv'
    BY <1>1, <1>2 DEF IInv, TypeInv
  <1>4. \A d \in Channel : twi'[d].enabled = twi[d].enabled
    BY <1>2 DEF IInv, TypeInv
  <1>5. \A d \in Channel : Bounded(d)'
    BY <1>1, <1>4 DEF IInv, Bounded, Ready, Running, Stored, Commands, At
  <1> QED
    BY <1>3, <1>5 DEF IInv

(* The four parts of iic_transfer; the handler does not run meanwhile. *)
LEMMA TransferHolds == ASSUME IInv, NEW ch \in Channel, iic_transfer(ch) PROVE IInv'
  <1>1. handler = NoHandler /\ handler' = handler
    BY DEF iic_transfer, Begin, Wake, TimeOut, End, Calls
  <1>2. \A d \in Channel : handler.ch # d /\ handler'.ch # d
    BY <1>1, IICAssumption DEF NoHandler
  <1>3. user[ch] \in User /\ twi[ch] \in Peripherals /\ cb[ch] \in CommandBlock
    BY DEF IInv, TypeInv
  <1>4. CASE \E commands \in Transfers[ch] : Begin(ch, commands)
    <2>1. PICK commands \in Transfers[ch] : Begin(ch, commands)
      BY <1>4
    <2>2. commands \in Seq(Command) /\ Len(commands) >= 3
      BY IICAssumption
    <2> DEFINE u == Called(user[ch], commands)
               t == Started(twi[ch])
               c == [cmddat |-> 2, received |-> {}]
    <2>3. u \in User /\ u.pc # "idle" /\ u.commands = commands
      BY <1>3, <2>2, CalledType
    <2>4. t \in Peripherals
      BY <1>3, StartedType
    <2>5. c \in CommandBlock /\ c.received = {} /\ c.cmddat \in DOMAIN commands
      BY <2>2 DEF CommandBlock
    <2>6. /\ user' = [user EXCEPT ![ch] = u] /\ twi' = [twi EXCEPT ![ch] = t]
          /\ cb' = [cb EXCEPT ![ch] = c]
      BY <2>1 DEF Begin
    <2> HIDE DEF u, t, c
    <2>7. TypeInv'
      BY <1>1, <2>3, <2>4, <2>5, <2>6 DEF IInv, TypeInv
    <2>8. ASSUME NEW d \in Channel PROVE Bounded(d)'
      <3>1. CASE d = ch
        <4>1. user'[d] = u /\ cb'[d] = c
          BY <2>6, <3>1 DEF IInv, TypeInv
        <4> QED
          BY <1>2, <2>3, <2>5, <4>1 DEF Bounded, Ready, Running, Stored, Commands
      <3>2. CASE d # ch
        <4>1. user'[d] = user[d] /\ cb'[d] = cb[d] /\ twi'[d] = twi[d]
          BY <2>6, <3>2 DEF IInv, TypeInv
        <4> QED
          BY <1>2, <4>1 DEF IInv, Bounded, Ready, Running, Stored, Commands
      <3> QED
        BY <3>1, <3>2
    <2> QED
      BY <2>7, <2>8 DEF IInv
  <1>5. CASE Wake(ch) \/ TimeOut(ch)
    <2>1. PICK p \in {"woken", "timed_out"} : user' = [user EXCEPT ![ch].pc = p]
      BY <1>5 DEF Wake, TimeOut
    <2>2. UNCHANGED << cb, twi >>
      BY <1>5 DEF Wake, TimeOut
    <2>3. TypeInv'
      BY <1>1, <2>1, <2>2 DEF IInv, TypeInv, User
    <2>4. \A d \in Channel : user'[d].commands = user[d].commands
                              /\ (user[d].pc # "idle" => user'[d].pc # "idle")
      BY <2>1 DEF IInv, TypeInv, User
    <2>5. \A d \in Channel : Bounded(d)'
      BY <1>2, <2>2, <2>4 DEF IInv, Bounded, Ready, Running, Stored, Commands
    <2> QED
      BY <2>3, <2>5 DEF IInv
  <1>6. CASE End(ch)
    <2> DEFINE late == user[ch].pc = "timed_out"
               nack == twi[ch].nack
               err  == IF late THEN "E_TMOUT" ELSE IF nack = "none" THEN "E_OK" ELSE "E_IO"
               u    == Finished(user[ch], err)
               s    == IF late THEN Stop(twi[ch]) ELSE twi[ch]
               t    == Disabled(s)
    <2>1. user' = [user EXCEPT ![ch] = u] /\ twi' = [twi EXCEPT ![ch] = t]
      BY <1>6 DEF End
    <2>2. u \in User /\ u.commands = user[ch].commands
      <3>1. err \in {"E_OK", "E_TMOUT", "E_IO"}
        OBVIOUS
      <3> HIDE DEF err
      <3> QED
        BY <1>3, <3>1, FinishedType
    <2>3. t \in Peripherals /\ t.enabled = FALSE
      <3>1. s \in Peripherals
        BY <1>3, StopType
      <3> HIDE DEF s
      <3> QED
        BY <3>1, DisabledType
    <2>4. cb' = cb \/ cb' = [cb EXCEPT ![ch] =
                              [cmddat |-> cb[ch].cmddat + 1, received |-> cb[ch].received]]
      <3>1. cb' = cb \/ cb' = [cb EXCEPT ![ch].cmddat = cb[ch].cmddat + 1]
        BY <1>6 DEF End
      <3> QED
        BY <3>1, NewCmddat DEF IInv
    <2> HIDE DEF u, t
    <2>5. /\ cb' \in [Channel -> CommandBlock]
          /\ \A d \in Channel : cb'[d].received = cb[d].received /\ (d # ch => cb'[d] = cb[d])
      BY <1>3, <2>4 DEF IInv, TypeInv, CommandBlock
    <2>6. TypeInv'
      BY <1>1, <2>1, <2>2, <2>3, <2>5 DEF IInv, TypeInv
    <2>7. ASSUME NEW d \in Channel PROVE Bounded(d)'
      <3>1. CASE d = ch
        <4>1. user'[d] = u /\ twi'[d] = t /\ user'[d].commands = user[d].commands
          BY <2>1, <2>2, <3>1 DEF IInv, TypeInv
        <4> QED
          BY <1>2, <2>3, <2>5, <4>1 DEF IInv, Bounded, Ready, Running, Stored, Commands
      <3>2. CASE d # ch
        <4>1. user'[d] = user[d] /\ cb'[d] = cb[d] /\ twi'[d] = twi[d]
          BY <2>1, <2>5, <3>2 DEF IInv, TypeInv
        <4> QED
          BY <1>2, <4>1 DEF IInv, Bounded, Ready, Running, Stored, Commands
      <3> QED
        BY <3>1, <3>2
    <2> QED
      BY <2>6, <2>7 DEF IInv
  <1> QED
    BY <1>4, <1>5, <1>6 DEF iic_transfer

LEMMA StepHolds == IInv /\ [Next]_vars => IInv'
  <1> SUFFICES ASSUME IInv, [Next]_vars PROVE IInv'
    OBVIOUS
  <1>1. CASE UNCHANGED vars
    BY <1>1 DEF vars, IInv, TypeInv, Bounded, Ready, Running, Stored, Commands, At
  <1>2. ASSUME NEW ch \in Channel, iic_transfer(ch) \/ iic_init_handler(ch) \/ Peripheral(ch)
        PROVE  IInv'
    BY <1>2, TransferHolds, PeripheralHolds, EnterHolds, ErrorHolds, SentHolds, ReceivedHolds,
       SuspendedHolds, StoppedHolds, NotSeenHolds, ReturnHolds, LeaveHolds DEF iic_init_handler
  <1> QED
    BY <1>1, <1>2 DEF Next

(***************************************************************************)
(* The handler of a channel never works on the commands of a call that has *)
(* returned, and never looks at or writes to anything behind their end,    *)
(* whatever fails and however late an event comes (CAV/src/iic.c:114).     *)
(***************************************************************************)
THEOREM HandlerStaysOnStack == Spec => []OnStack
  <1>1. Init => IInv
    BY InitHolds
  <1>2. IInv /\ [Next]_vars => IInv'
    BY StepHolds
  <1>3. IInv => OnStack
    BY DEF IInv, Bounded, Ready, Running, Stored, OnStack
  <1> QED
    BY <1>1, <1>2, <1>3, PTL DEF Spec
-----------------------------------------------------------------------------
(***************************************************************************)
(* The course of a transfer, as long as none of the channel has failed.    *)
(* It needs that lists are made as iic_write and iic_read make them: they  *)
(* begin by sending the number of a register, a reception is restarted for *)
(* at least one byte, and the bus is given free at the end and only there. *)
(***************************************************************************)
Proper(c) ==
  /\ c[1] = "start_wr" /\ c[2] = "send"
  /\ \A i \in 2 .. Len(c) :
       /\ c[i] # "start_wr"
       /\ c[i] \in {"send", "recv"} => i < Len(c) /\ c[i + 1] \in {c[i], "stop", "restart_rd"}
       /\ c[i] = "restart_rd" => i + 2 <= Len(c) /\ c[i + 1] = "recv"
       /\ c[i] = "stop" => i = Len(c)

AllProper == \A ch \in Channel : \A c \in Transfers[ch] : Proper(c)

(* The command the handler is to carry out next. *)
Cmd(ch) == At(ch, cb[ch].cmddat)

(* Where the peripheral stands. *)
Is(ch, bus, pending, events) ==
  twi[ch].bus = bus /\ twi[ch].pending = pending /\ twi[ch].events = events

(* The handler, if it runs, is behind the tests of what has happened ...  *)
Behind(ch, tests) == handler.ch = ch => handler.test \in tests

(* ... or before the one of what has happened, with the next command. *)
Before(ch, tests) == Behind(ch, tests) /\ (handler.ch = ch => handler.cmd = cb[ch].cmddat)

(* After the byte that comes next the peripheral stops or is suspended. *)
Follows(ch) ==
  twi[ch].shorts = IF At(ch, cb[ch].cmddat + 1) = "stop" THEN "stop" ELSE "suspend"

Sending(ch) ==
  /\ Cmd(ch) = "send" /\ Is(ch, "tx", "none", {})
  /\ Behind(ch, {"RXDREADY", "SUSPENDED", "STOPPED", "return"})

Sent(ch) ==
  /\ Cmd(ch) = "send" /\ Is(ch, "held", "none", {"TXDSENT"})
  /\ Before(ch, {"ERROR", "TXDSENT"})

Receiving(ch) ==
  /\ Cmd(ch) = "recv" /\ Follows(ch) /\ Is(ch, "rx", "none", {})
  /\ Behind(ch, {"RXDREADY", "SUSPENDED", "STOPPED", "return"})

Received(ch) ==
  /\ Cmd(ch) = "recv" /\ Follows(ch)
  /\ \/ Is(ch, "held", twi[ch].shorts, {"RXDREADY"})
     \/ twi[ch].shorts = "stop" /\ Is(ch, "idle", "none", {"RXDREADY", "STOPPED"})
     \/ twi[ch].shorts = "suspend" /\ Is(ch, "held", "none", {"RXDREADY", "SUSPENDED"})
  /\ Before(ch, {"ERROR", "TXDSENT", "RXDREADY"})

Suspending(ch) ==
  /\ Cmd(ch) \in {"recv", "restart_rd"} /\ twi[ch].shorts = "suspend"
  /\ Is(ch, "held", "suspend", {})
  /\ Behind(ch, {"SUSPENDED", "STOPPED", "return"})

Suspended(ch) ==
  /\ Cmd(ch) \in {"recv", "restart_rd"} /\ twi[ch].shorts = "suspend"
  /\ Is(ch, "held", "none", {"SUSPENDED"})
  /\ Before(ch, {"ERROR", "TXDSENT", "RXDREADY", "SUSPENDED"})

Stopping(ch) ==
  /\ Cmd(ch) = "stop" /\ Is(ch, "held", "stop", {})
  /\ Behind(ch, {"RXDREADY", "SUSPENDED", "STOPPED", "return"})

Stopped(ch) ==
  /\ Cmd(ch) = "stop" /\ Is(ch, "idle", "none", {"STOPPED"})
  /\ Before(ch, {"ERROR", "TXDSENT", "RXDREADY", "SUSPENDED", "STOPPED"})

Course(ch) ==
  \/ Sending(ch) \/ Sent(ch) \/ Receiving(ch) \/ Received(ch)
  \/ Suspending(ch) \/ Suspended(ch) \/ Stopping(ch) \/ Stopped(ch)

(* The list is carried out and the peripheral at rest. *)
AtEnd(ch) == Is(ch, "idle", "none", {}) /\ cb[ch].cmddat = Len(Commands(ch)) + 1

(* A byte is stored for each command behind which the handler has gone on. *)
Collected(ch) ==
  cb[ch].received =
    { i \in DOMAIN Commands(ch) : i < cb[ch].cmddat /\ Commands(ch)[i] = "recv" }

Undisturbed(ch) ==
  \/ /\ user[ch].pc = "idle" /\ ch \notin flag
     /\ user[ch].done > 0 => AtEnd(ch)
     /\ Is(ch, "idle", "none", {}) /\ Collected(ch)
  \/ /\ user[ch].pc = "waiting" /\ ch \notin flag
     /\ Course(ch) /\ Collected(ch) /\ Proper(Commands(ch))
  \/ /\ user[ch].pc = "waiting" \/ (user[ch].pc = "woken" /\ ch \notin flag /\ handler.ch # ch)
     /\ AtEnd(ch) /\ Behind(ch, {"leave"}) /\ Collected(ch)

(* One that has failed is known to have when it ends, if not before. *)
Disturbed(ch) ==
  \/ user[ch].failed
  \/ user[ch].pc = "timed_out"
  \/ user[ch].pc # "idle" /\ twi[ch].nack # "none"

Clean(ch) == Disturbed(ch) \/ Undisturbed(ch)

(***************************************************************************)
(* A channel is clean after a step that is none of its own.                *)
(***************************************************************************)
LEMMA CourseKept ==
  ASSUME NEW ch, Course(ch), twi'[ch] = twi[ch], cb'[ch] = cb[ch],
         user'[ch].commands = user[ch].commands, handler'.ch # ch
  PROVE  Course(ch)'
  <1>1. Cmd(ch)' = Cmd(ch) /\ (Follows(ch) => Follows(ch)')
    BY DEF Cmd, At, Commands, Follows
  <1>2. /\ \A tests : Behind(ch, tests)'
        /\ \A tests : Before(ch, tests)'
    BY DEF Behind, Before
  <1>3. \A bus, pending, events : Is(ch, bus, pending, events) => Is(ch, bus, pending, events)'
    BY DEF Is
  <1>4. Sending(ch) => Sending(ch)'
    BY <1>1, <1>2, <1>3 DEF Sending
  <1>5. Sent(ch) => Sent(ch)'
    BY <1>1, <1>2, <1>3 DEF Sent
  <1>6. Receiving(ch) => Receiving(ch)'
    BY <1>1, <1>2, <1>3 DEF Receiving
  <1>7. Received(ch) => Received(ch)'
    BY <1>1, <1>2, <1>3 DEF Received
  <1>8. Suspending(ch) => Suspending(ch)'
    BY <1>1, <1>2, <1>3 DEF Suspending
  <1>9. Suspended(ch) => Suspended(ch)'
    BY <1>1, <1>2, <1>3 DEF Suspended
  <1>10. Stopping(ch) => Stopping(ch)'
    BY <1>1, <1>2, <1>3 DEF Stopping
  <1>11. Stopped(ch) => Stopped(ch)'
    BY <1>1, <1>2, <1>3 DEF Stopped
  <1> QED
    BY <1>4, <1>5, <1>6, <1>7, <1>8, <1>9, <1>10, <1>11 DEF Course

LEMMA OthersClean ==
  ASSUME NEW ch, Clean(ch), twi'[ch] = twi[ch], cb'[ch] = cb[ch], user'[ch] = user[ch],
         ch \in flag' <=> ch \in flag, handler'.ch # ch
  PROVE  Clean(ch)'
  <1>1. Disturbed(ch) => Disturbed(ch)'
    BY DEF Disturbed
  <1>2. Course(ch) => Course(ch)'
    BY CourseKept
  <1>3. (Collected(ch) => Collected(ch)') /\ (AtEnd(ch) => AtEnd(ch)') /\ Behind(ch, {"leave"})'
    BY DEF Collected, AtEnd, Is, Behind, Commands
  <1>4. Is(ch, "idle", "none", {}) => Is(ch, "idle", "none", {})'
    BY DEF Is
  <1>5. Proper(Commands(ch)) => Proper(Commands(ch))'
    BY DEF Commands, Proper
  <1>6. Undisturbed(ch) => Undisturbed(ch)'
    BY <1>2, <1>3, <1>4, <1>5 DEF Undisturbed
  <1> QED
    BY <1>1, <1>6 DEF Clean

(* The test after each. *)
LEMMA TestAfter ==
  ASSUME NEW m \in 1 .. 5, NEW x, Test[m] = x
  PROVE  Test[1 + CHOOSE n \in DOMAIN Test : Test[n] = x] = Test[1 + m]
  <1> DEFINE k == CHOOSE n \in DOMAIN Test : Test[n] = x
  <1>1. DOMAIN Test = 1 .. 7
    BY DEF Test
  <1>2. k \in DOMAIN Test /\ Test[k] = x
    BY <1>1
  <1>3. \A n \in 1 .. 7 : Test[n] = Test[m] => n = m
    BY DEF Test
  <1> HIDE DEF k
  <1>4. k = m
    BY <1>1, <1>2, <1>3
  <1> QED
    BY <1>4 DEF k

(* What Onwards makes of the handler and the peripheral. *)
LEMMA OnwardsIs ==
  ASSUME TypeInv, NEW ch \in Channel, NEW event \in Event, Testing(ch, event), NEW t, NEW i,
         Onwards(t, i)
  PROVE  /\ handler'.ch = ch /\ handler'.cmd = i /\ twi'[ch] = t
         /\ event = "ERROR"     => handler'.test = "TXDSENT"
         /\ event = "TXDSENT"   => handler'.test = "RXDREADY"
         /\ event = "RXDREADY"  => handler'.test = "SUSPENDED"
         /\ event = "SUSPENDED" => handler'.test = "STOPPED"
         /\ event = "STOPPED"   => handler'.test = "return"
  <1> DEFINE x == Test[1 + CHOOSE n \in DOMAIN Test : Test[n] = event]
  <1>1. handler.ch = ch /\ handler.test = event
    BY DEF Testing
  <1>2. handler' = [handler EXCEPT !.cmd = i, !.test = x] /\ twi' = [twi EXCEPT ![ch] = t]
    BY <1>1 DEF Onwards
  <1>3. /\ event = "ERROR"     => x = "TXDSENT"
        /\ event = "TXDSENT"   => x = "RXDREADY"
        /\ event = "RXDREADY"  => x = "SUSPENDED"
        /\ event = "SUSPENDED" => x = "STOPPED"
        /\ event = "STOPPED"   => x = "return"
    <2>1. /\ Test[1] = "ERROR" /\ Test[2] = "TXDSENT" /\ Test[3] = "RXDREADY"
          /\ Test[4] = "SUSPENDED" /\ Test[5] = "STOPPED" /\ Test[6] = "return"
      BY DEF Test
    <2>2. \A m \in 1 .. 5 : Test[m] = event => x = Test[1 + m]
      BY TestAfter
    <2> HIDE DEF x
    <2>3. \A m \in 1 .. 5 : Test[m] = event => x = IF m = 1 THEN Test[2] ELSE IF m = 2 THEN Test[3]
                                  ELSE IF m = 3 THEN Test[4] ELSE IF m = 4 THEN Test[5] ELSE Test[6]
      BY <2>2
    <2> QED
      BY <2>1, <2>3
  <1> HIDE DEF x
  <1> QED
    BY <1>1, <1>2, <1>3 DEF TypeInv

(* While the handler tests, an undisturbed transfer is in its course. *)
LEMMA InCourse ==
  ASSUME IInv, NEW ch \in Channel, Clean(ch), ~ Disturbed(ch),
         handler.ch = ch, handler.test # "leave"
  PROVE  /\ user[ch].pc = "waiting" /\ ch \notin flag
         /\ Course(ch) /\ Collected(ch) /\ Proper(Commands(ch))
  <1>1. user[ch].pc # "idle"
    BY DEF IInv, Bounded, Running, Ready
  <1> QED
    BY <1>1 DEF Clean, Undisturbed, Behind

LEMMA CourseClean ==
  ASSUME NEW ch, user' = user, flag' = flag, user[ch].pc = "waiting", ch \notin flag,
         Proper(Commands(ch)), Course(ch)', Collected(ch)'
  PROVE  Clean(ch)'
  <1>1. Proper(Commands(ch))'
    BY DEF Proper, Commands
  <1> QED
    BY <1>1 DEF Clean, Undisturbed

LEMMA DisturbedKept ==
  ASSUME NEW ch, Disturbed(ch), user' = user, twi'[ch].nack = twi[ch].nack
  PROVE  Clean(ch)'
  BY DEF Disturbed, Clean

LEMMA EventsAre == Event = {"ERROR", "TXDSENT", "RXDREADY", "SUSPENDED", "STOPPED"}
  <1>1. \A n \in 1 .. 5 : n = 1 \/ n = 2 \/ n = 3 \/ n = 4 \/ n = 5
    OBVIOUS
  <1> QED
    BY <1>1 DEF Event, Test

(* A test that does not see its event: the handler comes to the next. *)
LEMMA NotSeenClean ==
  ASSUME IInv, NEW ch \in Channel, NEW event \in Event, NotSeen(ch, event), Clean(ch)
  PROVE  Clean(ch)'
  <1>1. /\ Testing(ch, event) /\ Onwards(twi[ch], handler.cmd) /\ cb' = cb
        /\ event \notin twi[ch].events
    BY DEF NotSeen
  <1>2. user' = user /\ flag' = flag /\ handler.ch = ch /\ handler.test = event
    BY <1>1 DEF Testing
  <1>3. /\ handler'.ch = ch /\ handler'.cmd = handler.cmd /\ twi'[ch] = twi[ch]
        /\ event = "ERROR"     => handler'.test = "TXDSENT"
        /\ event = "TXDSENT"   => handler'.test = "RXDREADY"
        /\ event = "RXDREADY"  => handler'.test = "SUSPENDED"
        /\ event = "SUSPENDED" => handler'.test = "STOPPED"
        /\ event = "STOPPED"   => handler'.test = "return"
    BY <1>1, OnwardsIs DEF IInv
  <1>4. CASE Disturbed(ch)
    BY <1>2, <1>3, <1>4, DisturbedKept
  <1>5. CASE ~ Disturbed(ch)
    <2>1. /\ user[ch].pc = "waiting" /\ ch \notin flag
          /\ Course(ch) /\ Collected(ch) /\ Proper(Commands(ch))
      BY <1>2, <1>5, InCourse, EventsAre
    <2>2. Cmd(ch)' = Cmd(ch) /\ (Follows(ch) => Follows(ch)') /\ Collected(ch)'
      BY <1>1, <1>2, <1>3, <2>1 DEF Cmd, At, Commands, Follows, Collected
    <2>3. \A bus, pending, events : Is(ch, bus, pending, events) => Is(ch, bus, pending, events)'
      BY <1>3 DEF Is
    <2>4. \A bus, pending, events : Is(ch, bus, pending, events) => twi[ch].events = events
      BY DEF Is
    <2>5. cb'[ch] = cb[ch] /\ twi'[ch].shorts = twi[ch].shorts
      BY <1>1, <1>3
    <2>6. \/ event = "ERROR" /\ handler'.test = "TXDSENT"
          \/ event = "TXDSENT" /\ handler'.test = "RXDREADY"
          \/ event = "RXDREADY" /\ handler'.test = "SUSPENDED"
          \/ event = "SUSPENDED" /\ handler'.test = "STOPPED"
          \/ event = "STOPPED" /\ handler'.test = "return"
      BY <1>3, EventsAre
    <2>7. Sending(ch) => Sending(ch)'
      BY <1>2, <1>3, <2>2, <2>3, <2>6 DEF Sending, Behind
    <2>8. Sent(ch) => Sent(ch)'
      BY <1>1, <1>2, <1>3, <2>2, <2>3, <2>4, <2>5, <2>6 DEF Sent, Before, Behind
    <2>9. Receiving(ch) => Receiving(ch)'
      BY <1>2, <1>3, <2>2, <2>3, <2>6 DEF Receiving, Behind
    <2>10. Received(ch) => Received(ch)'
      BY <1>1, <1>2, <1>3, <2>2, <2>3, <2>4, <2>5, <2>6 DEF Received, Before, Behind
    <2>11. Suspending(ch) => Suspending(ch)'
      BY <1>2, <1>3, <2>2, <2>3, <2>5, <2>6 DEF Suspending, Behind
    <2>12. Suspended(ch) => Suspended(ch)'
      BY <1>1, <1>2, <1>3, <2>2, <2>3, <2>4, <2>5, <2>6 DEF Suspended, Before, Behind
    <2>13. Stopping(ch) => Stopping(ch)'
      BY <1>2, <1>3, <2>2, <2>3, <2>6 DEF Stopping, Behind
    <2>14. Stopped(ch) => Stopped(ch)'
      BY <1>1, <1>2, <1>3, <2>2, <2>3, <2>4, <2>5, <2>6 DEF Stopped, Before, Behind
    <2>15. Course(ch)'
      BY <2>1, <2>7, <2>8, <2>9, <2>10, <2>11, <2>12, <2>13, <2>14 DEF Course
    <2> QED
      BY <1>2, <2>1, <2>2, <2>15, CourseClean
  <1> QED
    BY <1>4, <1>5

(* Which event is seen at which stage. *)
LEMMA SeenIn ==
  ASSUME NEW ch, Course(ch)
  PROVE  /\ "ERROR" \notin twi[ch].events
         /\ handler.ch = ch /\ handler.test = "TXDSENT" /\ "TXDSENT" \in twi[ch].events => Sent(ch)
         /\ handler.ch = ch /\ handler.test = "RXDREADY" /\ "RXDREADY" \in twi[ch].events
              => Received(ch)
         /\ handler.ch = ch /\ handler.test = "SUSPENDED" /\ "SUSPENDED" \in twi[ch].events
              => Suspended(ch)
         /\ handler.ch = ch /\ handler.test = "STOPPED" /\ "STOPPED" \in twi[ch].events
              => Stopped(ch)
         /\ twi[ch].events # {} => Sent(ch) \/ Received(ch) \/ Suspended(ch) \/ Stopped(ch)
  <1>1. CASE Sending(ch) \/ Receiving(ch) \/ Suspending(ch) \/ Stopping(ch)
    BY <1>1 DEF Sending, Receiving, Suspending, Stopping, Is
  <1>2. CASE Sent(ch)
    BY <1>2 DEF Sent, Is
  <1>3. CASE Received(ch)
    BY <1>3 DEF Received, Is, Before, Behind
  <1>4. CASE Suspended(ch)
    BY <1>4 DEF Suspended, Is
  <1>5. CASE Stopped(ch)
    BY <1>5 DEF Stopped, Is
  <1> QED
    BY <1>1, <1>2, <1>3, <1>4, <1>5 DEF Course

LEMMA ErrorClean ==
  ASSUME IInv, NEW ch \in Channel, OnError(ch), Clean(ch)
  PROVE  Clean(ch)'
  <1>1. /\ handler.ch = ch /\ handler.test = "ERROR" /\ "ERROR" \in twi[ch].events
        /\ user' = user /\ Abort(Cleared(ch, "ERROR"))
    BY DEF OnError, Seen, Testing
  <1>2. Disturbed(ch)
    BY <1>1, InCourse, SeenIn
  <1>3. twi'[ch].nack = twi[ch].nack
    BY <1>1 DEF Abort, Stop, Cleared, IInv, TypeInv, Peripherals
  <1> QED
    BY <1>1, <1>2, <1>3, DisturbedKept


(* What is left of the peripheral when an event of it is cleared. *)
LEMMA ClearedIs ==
  ASSUME TypeInv, NEW ch \in Channel, NEW event
  PROVE  /\ Cleared(ch, event).bus = twi[ch].bus /\ Cleared(ch, event).pending = twi[ch].pending
         /\ Cleared(ch, event).shorts = twi[ch].shorts /\ Cleared(ch, event).nack = twi[ch].nack
         /\ Cleared(ch, event).events = twi[ch].events \ {event}
         /\ Cleared(ch, event) \in Peripherals
  BY DEF TypeInv, Cleared, Peripherals

LEMMA StopIs ==
  ASSUME NEW t \in Peripherals
  PROVE  /\ Stop(t).bus = t.bus /\ Stop(t).pending = "stop" /\ Stop(t).shorts = t.shorts
         /\ Stop(t).events = t.events /\ Stop(t).nack = t.nack
  BY DEF Stop, Peripherals

LEMMA StartIs ==
  ASSUME NEW ch, NEW t \in Peripherals, NEW i, At(ch, i) = "restart_rd"
  PROVE  LET s == transfer_start(ch, t, i)
         IN  /\ s.bus = "rx" /\ s.pending = t.pending /\ s.events = t.events /\ s.nack = t.nack
             /\ s.shorts = IF At(ch, i + 2) = "stop" THEN "stop" ELSE "suspend"
  BY DEF transfer_start, Peripherals

(* No byte is to be stored for the commands the handler goes beyond. *)
LEMMA NoneCollected ==
  ASSUME TypeInv, NEW ch \in Channel, Collected(ch), user' = user,
         cb'[ch].received = cb[ch].received, NEW k \in Nat, cb'[ch].cmddat = k,
         cb[ch].cmddat <= k,
         \A i \in DOMAIN Commands(ch) : cb[ch].cmddat <= i /\ i < k => Commands(ch)[i] # "recv"
  PROVE  Collected(ch)'
  <1>1. /\ DOMAIN Commands(ch) \subseteq Nat /\ Commands(ch)' = Commands(ch)
        /\ cb[ch].cmddat \in Nat
    BY DEF TypeInv, User, Commands, CommandBlock
  <1>2. \A i \in DOMAIN Commands(ch) :
          i < k /\ Commands(ch)[i] = "recv" <=> i < cb[ch].cmddat /\ Commands(ch)[i] = "recv"
    BY <1>1
  <1> QED
    BY <1>1, <1>2 DEF Collected

(* A byte has been sent: it is sent the next, stopped, or restarted. *)
LEMMA SentClean ==
  ASSUME IInv, NEW ch \in Channel, OnSent(ch), Clean(ch)
  PROVE  Clean(ch)'
  <1> DEFINE k == cb[ch].cmddat
             t == Cleared(ch, "TXDSENT")
             c == Commands(ch)
             starts == At(ch, k + 1) = "restart_rd" /\ CanStart(ch, k + 1)
             u == CASE At(ch, k + 1) = "send" -> [t EXCEPT !.bus = "tx"]
                    [] At(ch, k + 1) = "stop" -> Stop(t)
                    [] starts       -> transfer_start(ch, t, k + 1)
                    [] OTHER        -> t
  <1>0. "TXDSENT" \in Event
    BY EventsAre
  <1>1. /\ handler.ch = ch /\ handler.test = "TXDSENT" /\ "TXDSENT" \in twi[ch].events
        /\ user' = user /\ flag' = flag /\ Testing(ch, "TXDSENT")
    BY DEF OnSent, Seen, Testing
  <1>2. t.nack = twi[ch].nack /\ t \in Peripherals
    BY ClearedIs DEF IInv
  <1>3. CASE Disturbed(ch)
    <2>1. twi'[ch].nack = twi[ch].nack
      <3>1. \/ Abort(t)
            \/ \E i : \/ Onwards([t EXCEPT !.bus = "tx"], i) \/ Onwards(Stop(t), i)
                      \/ \E n : Onwards(transfer_start(ch, t, n), i)
                      \/ Onwards(t, i)
        BY DEF OnSent
      <3>2. twi \in [Channel -> Peripherals]
        BY DEF IInv, TypeInv
      <3> HIDE DEF t
      <3>3. /\ Stop(t).nack = t.nack /\ [t EXCEPT !.bus = "tx"].nack = t.nack
            /\ \A n : transfer_start(ch, t, n).nack = t.nack
        BY <1>2 DEF Stop, transfer_start, Peripherals
      <3>4. \A v, i : Onwards(v, i) => twi'[ch] = v
        BY <1>1, <3>2 DEF Onwards
      <3>5. Abort(t) => twi'[ch] = Stop(t)
        BY <1>1, <3>2 DEF Abort
      <3> QED
        BY <1>2, <3>1, <3>3, <3>4, <3>5
    <2> QED
      BY <1>1, <1>3, <2>1, DisturbedKept
  <1>4. CASE ~ Disturbed(ch)
    <2>1. /\ user[ch].pc = "waiting" /\ ch \notin flag /\ Collected(ch) /\ Proper(c)
          /\ Sent(ch)
      BY <1>1, <1>4, InCourse, SeenIn
    <2>2. /\ handler.cmd = k /\ At(ch, k) = "send" /\ k \in 1 .. Len(c)
          /\ Len(c) \in Nat /\ DOMAIN c = 1 .. Len(c) /\ cb \in [Channel -> CommandBlock]
      BY <1>0, <1>1, <2>1, Tested DEF Sent, Before, Cmd, IInv, TypeInv
    <2>3. /\ k \in 2 .. Len(c) /\ k + 1 \in 2 .. Len(c) /\ c[k] = "send"
          /\ c[k + 1] \in {"send", "stop", "restart_rd"} /\ At(ch, k + 1) = c[k + 1]
      <3>1. c[k] = "send"
        BY <2>2 DEF At
      <3>2. k # 1
        BY <2>1, <3>1 DEF Proper
      <3>3. k \in 2 .. Len(c)
        BY <2>2, <3>2
      <3>4. k < Len(c) /\ c[k + 1] \in {"send", "stop", "restart_rd"}
        BY <2>1, <3>1, <3>3 DEF Proper
      <3> QED
        BY <2>2, <3>1, <3>3, <3>4 DEF At
    <2>4. t.bus = "held" /\ t.pending = "none" /\ t.events = {}
      BY <2>1, ClearedIs DEF Sent, Is, IInv
    <2>5. c[k + 1] = "restart_rd" => k + 3 <= Len(c) /\ c[k + 2] = "recv"
      <3>1. c[k + 1] = "restart_rd" => (k + 1) + 2 <= Len(c) /\ c[(k + 1) + 1] = "recv"
        BY <2>1, <2>3 DEF Proper
      <3> QED
        BY <2>2, <3>1
    <2>6. c[k + 1] = "restart_rd" <=> starts
      BY <2>2, <2>3, <2>5 DEF CanStart
    <2>7. /\ Onwards(u, k + 1)
          /\ cb' = [cb EXCEPT ![ch].cmddat = IF starts THEN (k + 1) + 1 ELSE k + 1]
      BY <2>2, <2>3, <2>6 DEF OnSent
    <2>8. /\ handler'.ch = ch /\ handler'.test = "RXDREADY" /\ twi'[ch] = u
          /\ cb'[ch].received = cb[ch].received
          /\ cb'[ch].cmddat = IF starts THEN k + 2 ELSE k + 1
      <3> HIDE DEF u
      <3>1. handler'.ch = ch /\ handler'.test = "RXDREADY" /\ twi'[ch] = u
        BY <1>0, <1>1, <2>7, OnwardsIs DEF IInv
      <3>2. /\ cb'[ch].received = cb[ch].received
            /\ cb'[ch].cmddat = IF starts THEN (k + 1) + 1 ELSE k + 1
        BY <2>2, <2>7 DEF CommandBlock
      <3> QED
        BY <2>2, <3>1, <3>2
    <2>9. Commands(ch)' = c /\ \A i : At(ch, i)' = At(ch, i)
      BY <1>1 DEF Commands, At
    <2>10. Behind(ch, {"RXDREADY", "SUSPENDED", "STOPPED", "return"})'
      BY <2>8 DEF Behind
    <2>11. Collected(ch)'
      <3>1. /\ cb'[ch].cmddat \in Nat /\ k <= cb'[ch].cmddat
            /\ \A i \in 1 .. Len(c) : k <= i /\ i < cb'[ch].cmddat => i = k \/ (i = k + 1 /\ starts)
        BY <2>2, <2>8
      <3>2. \A i \in 1 .. Len(c) : k <= i /\ i < cb'[ch].cmddat => c[i] # "recv"
        BY <2>3, <2>6, <3>1
      <3> QED
        BY <1>1, <2>1, <2>2, <2>8, <3>1, <3>2, NoneCollected DEF IInv
    <2>12. CASE c[k + 1] = "send"
      <3>1. u = [t EXCEPT !.bus = "tx"]
        BY <2>3, <2>12
      <3>2. Is(ch, "tx", "none", {})'
        <4> HIDE DEF u, t
        <4> QED
          BY <1>2, <2>4, <2>8, <3>1 DEF Is, Peripherals
      <3>3. Cmd(ch)' = "send"
        BY <2>3, <2>6, <2>8, <2>9, <2>12 DEF Cmd
      <3>4. Course(ch)'
        BY <2>10, <3>2, <3>3 DEF Course, Sending
      <3> QED
        BY <1>1, <2>1, <2>11, <3>4, CourseClean
    <2>13. CASE c[k + 1] = "stop"
      <3>1. u = Stop(t)
        BY <2>3, <2>13
      <3>2. Is(ch, "held", "stop", {})'
        <4> HIDE DEF u, t
        <4> QED
          BY <1>2, <2>4, <2>8, <3>1, StopIs DEF Is
      <3>3. Cmd(ch)' = "stop"
        BY <2>3, <2>6, <2>8, <2>9, <2>13 DEF Cmd
      <3>4. Course(ch)'
        BY <2>10, <3>2, <3>3 DEF Course, Stopping
      <3> QED
        BY <1>1, <2>1, <2>11, <3>4, CourseClean
    <2>14. CASE c[k + 1] = "restart_rd"
      <3>1. u = transfer_start(ch, t, k + 1)
        BY <2>3, <2>6, <2>14
      <3>2. /\ Is(ch, "rx", "none", {})'
            /\ twi'[ch].shorts = IF At(ch, k + 3) = "stop" THEN "stop" ELSE "suspend"
        <4>1. (k + 1) + 2 = k + 3
          BY <2>2
        <4> HIDE DEF u, t
        <4> QED
          BY <1>2, <2>3, <2>4, <2>8, <2>14, <3>1, <4>1, StartIs DEF Is
      <3>3. Cmd(ch)' = "recv" /\ cb'[ch].cmddat = k + 2
        BY <2>2, <2>5, <2>6, <2>8, <2>9, <2>14 DEF Cmd, At
      <3>4. (k + 2) + 1 = k + 3
        BY <2>2
      <3>5. Follows(ch)'
        BY <2>9, <3>2, <3>3, <3>4 DEF Follows
      <3>6. Course(ch)'
        BY <2>10, <3>2, <3>3, <3>5 DEF Course, Receiving
      <3> QED
        BY <1>1, <2>1, <2>11, <3>6, CourseClean
    <2> QED
      BY <2>3, <2>12, <2>13, <2>14
  <1> QED
    BY <1>3, <1>4

(* A byte has been received: the peripheral stops or is suspended. *)
LEMMA ReceivedClean ==
  ASSUME IInv, NEW ch \in Channel, OnReceived(ch), Clean(ch)
  PROVE  Clean(ch)'
  <1> DEFINE k == cb[ch].cmddat
             t == Cleared(ch, "RXDREADY")
             c == Commands(ch)
  <1>0. "RXDREADY" \in Event
    BY EventsAre
  <1>1. /\ handler.ch = ch /\ handler.test = "RXDREADY" /\ "RXDREADY" \in twi[ch].events
        /\ user' = user /\ flag' = flag /\ Testing(ch, "RXDREADY")
    BY DEF OnReceived, Seen, Testing
  <1>2. t.nack = twi[ch].nack /\ t \in Peripherals
    BY ClearedIs DEF IInv
  <1>3. CASE Disturbed(ch)
    <2>1. Abort(t) \/ \E i : Onwards(t, i)
      BY DEF OnReceived
    <2>2. twi \in [Channel -> Peripherals] /\ Stop(t).nack = t.nack
      BY <1>2, StopIs DEF IInv, TypeInv
    <2> HIDE DEF t
    <2>3. twi'[ch].nack = twi[ch].nack
      <3>1. \A i : Onwards(t, i) => twi'[ch] = t
        BY <1>1, <2>2 DEF Onwards
      <3>2. Abort(t) => twi'[ch] = Stop(t)
        BY <1>1, <2>2 DEF Abort
      <3> QED
        BY <1>2, <2>1, <2>2, <3>1, <3>2
    <2> QED
      BY <1>1, <1>3, <2>3, DisturbedKept
  <1>4. CASE ~ Disturbed(ch)
    <2>1. /\ user[ch].pc = "waiting" /\ ch \notin flag /\ Collected(ch) /\ Proper(c)
          /\ Received(ch)
      BY <1>1, <1>4, InCourse, SeenIn
    <2>2. /\ handler.cmd = k /\ At(ch, k) = "recv" /\ k \in 1 .. Len(c)
          /\ Len(c) \in Nat /\ DOMAIN c = 1 .. Len(c) /\ cb \in [Channel -> CommandBlock]
      BY <1>0, <1>1, <2>1, Tested DEF Received, Before, Behind, Cmd, IInv, TypeInv
    <2>3. /\ k \in 2 .. Len(c) /\ k + 1 \in 2 .. Len(c) /\ c[k] = "recv"
          /\ c[k + 1] \in {"recv", "stop", "restart_rd"} /\ At(ch, k + 1) = c[k + 1]
      <3>1. c[k] = "recv"
        BY <2>2 DEF At
      <3>2. k # 1
        BY <2>1, <3>1 DEF Proper
      <3>3. k \in 2 .. Len(c)
        BY <2>2, <3>2
      <3>4. k < Len(c) /\ c[k + 1] \in {"recv", "stop", "restart_rd"}
        BY <2>1, <3>1, <3>3 DEF Proper
      <3> QED
        BY <2>2, <3>1, <3>3, <3>4 DEF At
    <2>4. /\ Onwards(t, k + 1)
          /\ cb' = [cb EXCEPT ![ch] = [cmddat |-> k + 1, received |-> @.received \cup {k}]]
      BY <2>2, <2>3 DEF OnReceived
    <2>5. /\ handler'.ch = ch /\ handler'.test = "SUSPENDED" /\ handler'.cmd = k + 1
          /\ twi'[ch] = t
          /\ cb'[ch].received = cb[ch].received \cup {k} /\ cb'[ch].cmddat = k + 1
      <3> HIDE DEF t
      <3>1. handler'.ch = ch /\ handler'.test = "SUSPENDED" /\ handler'.cmd = k + 1 /\ twi'[ch] = t
        BY <1>0, <1>1, <2>4, OnwardsIs DEF IInv
      <3> QED
        BY <2>2, <2>4, <3>1
    <2>6. Commands(ch)' = c /\ \A i : At(ch, i)' = At(ch, i)
      BY <1>1 DEF Commands, At
    <2>7. Cmd(ch)' = c[k + 1] /\ cb'[ch].cmddat = k + 1
      BY <2>3, <2>5, <2>6 DEF Cmd
    <2>8. Collected(ch)'
      <3>1. \A i \in 1 .. Len(c) : i < k + 1 <=> i < k \/ i = k
        BY <2>2
      <3>2. { i \in 1 .. Len(c) : i < k + 1 /\ c[i] = "recv" }
              = { i \in 1 .. Len(c) : i < k /\ c[i] = "recv" } \cup {k}
        BY <2>2, <2>3, <3>1
      <3> QED
        BY <2>1, <2>2, <2>5, <2>6, <3>2 DEF Collected
    <2>9. /\ t.bus = twi[ch].bus /\ t.pending = twi[ch].pending /\ t.shorts = twi[ch].shorts
          /\ t.events = twi[ch].events \ {"RXDREADY"}
      BY ClearedIs DEF IInv
    <2>10. /\ Behind(ch, {"SUSPENDED", "STOPPED", "return"})'
           /\ Behind(ch, {"RXDREADY", "SUSPENDED", "STOPPED", "return"})'
           /\ Before(ch, {"ERROR", "TXDSENT", "RXDREADY", "SUSPENDED"})'
           /\ Before(ch, {"ERROR", "TXDSENT", "RXDREADY", "SUSPENDED", "STOPPED"})'
      BY <2>5 DEF Behind, Before
    <2>11. twi[ch].shorts = IF c[k + 1] = "stop" THEN "stop" ELSE "suspend"
      BY <2>1, <2>3 DEF Received, Follows
    <2>12. CASE c[k + 1] = "stop"
      <3>1. \/ Is(ch, "held", "stop", {"RXDREADY"})
            \/ Is(ch, "idle", "none", {"RXDREADY", "STOPPED"})
        BY <2>1, <2>11, <2>12 DEF Received
      <3>2. Is(ch, "held", "stop", {})' \/ Is(ch, "idle", "none", {"STOPPED"})'
        <4> HIDE DEF t
        <4> QED
          BY <2>5, <2>9, <3>1 DEF Is
      <3>3. Course(ch)'
        BY <2>7, <2>10, <2>12, <3>2 DEF Course, Stopping, Stopped
      <3> QED
        BY <1>1, <2>1, <2>8, <3>3, CourseClean
    <2>13. CASE c[k + 1] \in {"recv", "restart_rd"}
      <3>1. \/ Is(ch, "held", "suspend", {"RXDREADY"})
            \/ Is(ch, "held", "none", {"RXDREADY", "SUSPENDED"})
        BY <2>1, <2>11, <2>13 DEF Received
      <3>2. Is(ch, "held", "suspend", {})' \/ Is(ch, "held", "none", {"SUSPENDED"})'
        <4> HIDE DEF t
        <4> QED
          BY <2>5, <2>9, <3>1 DEF Is
      <3>3. twi'[ch].shorts = "suspend"
        BY <2>5, <2>9, <2>11, <2>13
      <3>4. Course(ch)'
        BY <2>7, <2>10, <2>13, <3>2, <3>3 DEF Course, Suspending, Suspended
      <3> QED
        BY <1>1, <2>1, <2>8, <3>4, CourseClean
    <2> QED
      BY <2>3, <2>12, <2>13
  <1> QED
    BY <1>3, <1>4

(* The peripheral is suspended: the next byte is received, or restarted. *)
LEMMA SuspendedClean ==
  ASSUME IInv, NEW ch \in Channel, OnSuspended(ch), Clean(ch)
  PROVE  Clean(ch)'
  <1> DEFINE k == cb[ch].cmddat
             t == Cleared(ch, "SUSPENDED")
             c == Commands(ch)
             last == LastData(ch, k)
             again == At(ch, k) = "restart_rd"
             resumed == [t EXCEPT !.bus = "rx",
                              !.shorts = IF last /\ At(ch, k + 1) = "stop" THEN "stop" ELSE @]
  <1>0. "SUSPENDED" \in Event
    BY EventsAre
  <1>1. /\ handler.ch = ch /\ handler.test = "SUSPENDED" /\ "SUSPENDED" \in twi[ch].events
        /\ user' = user /\ flag' = flag /\ Testing(ch, "SUSPENDED")
    BY DEF OnSuspended, Seen, Testing
  <1>2. t.nack = twi[ch].nack /\ t \in Peripherals
    BY ClearedIs DEF IInv
  <1>3. CASE Disturbed(ch)
    <2>1. \/ Abort(t)
          \/ \E i, n, x : \/ Onwards(transfer_start(ch, t, n), i)
                          \/ Onwards([t EXCEPT !.bus = "rx", !.shorts = x], i)
      BY DEF OnSuspended
    <2>2. twi \in [Channel -> Peripherals]
      BY DEF IInv, TypeInv
    <2> HIDE DEF t
    <2>3. /\ Stop(t).nack = t.nack
          /\ \A n : transfer_start(ch, t, n).nack = t.nack
          /\ \A x : [t EXCEPT !.bus = "rx", !.shorts = x].nack = t.nack
      BY <1>2 DEF Stop, transfer_start, Peripherals
    <2>4. \A v, i : Onwards(v, i) => twi'[ch] = v
      BY <1>1, <2>2 DEF Onwards
    <2>5. Abort(t) => twi'[ch] = Stop(t)
      BY <1>1, <2>2 DEF Abort
    <2>6. twi'[ch].nack = twi[ch].nack
      BY <1>2, <2>1, <2>3, <2>4, <2>5
    <2> QED
      BY <1>1, <1>3, <2>6, DisturbedKept
  <1>4. CASE ~ Disturbed(ch)
    <2>1. /\ user[ch].pc = "waiting" /\ ch \notin flag /\ Collected(ch) /\ Proper(c)
          /\ Suspended(ch)
      BY <1>1, <1>4, InCourse, SeenIn
    <2>2. /\ handler.cmd = k /\ At(ch, k) \in {"recv", "restart_rd"} /\ k \in 1 .. Len(c)
          /\ Len(c) \in Nat /\ DOMAIN c = 1 .. Len(c) /\ cb \in [Channel -> CommandBlock]
      BY <1>0, <1>1, <2>1, Tested DEF Suspended, Before, Behind, Cmd, IInv, TypeInv
    <2>3. k \in 2 .. Len(c) /\ c[k] \in {"recv", "restart_rd"} /\ At(ch, k) = c[k]
      <3>1. At(ch, k) = c[k]
        BY <2>2 DEF At
      <3>2. k # 1
        BY <2>1, <2>2, <3>1 DEF Proper
      <3> QED
        BY <2>2, <3>1, <3>2
    <2>4. t.bus = "held" /\ t.pending = "none" /\ t.events = {} /\ t.shorts = "suspend"
      BY <2>1, ClearedIs DEF Suspended, Is, IInv
    <2>5. Commands(ch)' = c /\ \A i : At(ch, i)' = At(ch, i)
      BY <1>1 DEF Commands, At
    <2>6. ASSUME NEW v, Onwards(v, k)
          PROVE  /\ Behind(ch, {"RXDREADY", "SUSPENDED", "STOPPED", "return"})'
                 /\ twi'[ch] = v
      BY <1>0, <1>1, <2>6, OnwardsIs DEF Behind, IInv
    <2>7. CASE c[k] = "recv"
      <3>1. k < Len(c) /\ c[k + 1] \in {"recv", "stop", "restart_rd"} /\ At(ch, k + 1) = c[k + 1]
        <4>1. k < Len(c) /\ c[k + 1] \in {"recv", "stop", "restart_rd"}
          BY <2>1, <2>3, <2>7 DEF Proper
        <4> QED
          BY <2>2, <4>1 DEF At
      <3>2. last <=> c[k + 1] # "recv"
        BY <2>3, <2>7, <3>1 DEF LastData
      <3>3. ~ again /\ ~ (last /\ At(ch, k + 1) = "none")
        BY <2>3, <2>7, <3>1
      <3>4. Onwards(resumed, k) /\ cb' = [cb EXCEPT ![ch].cmddat = k]
        BY <2>2, <3>3 DEF OnSuspended
      <3>5. cb'[ch] = cb[ch]
        BY <2>2, <3>4 DEF CommandBlock
      <3>6. twi'[ch] = resumed /\ Behind(ch, {"RXDREADY", "SUSPENDED", "STOPPED", "return"})'
        BY <2>6, <3>4
      <3>7. /\ resumed.bus = "rx" /\ resumed.pending = "none" /\ resumed.events = {}
            /\ resumed.shorts = IF c[k + 1] = "stop" THEN "stop" ELSE "suspend"
        <4> HIDE DEF t
        <4> QED
          BY <1>2, <2>4, <3>1, <3>2 DEF Peripherals
      <3> HIDE DEF resumed
      <3>8. Follows(ch)'
        BY <2>5, <3>1, <3>5, <3>6, <3>7 DEF Follows
      <3>9. Is(ch, "rx", "none", {})' /\ Cmd(ch)' = "recv"
        BY <2>3, <2>5, <2>7, <3>5, <3>6, <3>7 DEF Is, Cmd
      <3>10. Course(ch)'
        BY <3>6, <3>8, <3>9 DEF Course, Receiving
      <3>11. Collected(ch)'
        BY <2>1, <2>5, <3>5 DEF Collected
      <3> QED
        BY <1>1, <2>1, <3>10, <3>11, CourseClean
    <2>8. CASE c[k] = "restart_rd"
      <3>1. k + 2 <= Len(c) /\ c[k + 1] = "recv" /\ At(ch, k + 1) = "recv"
        <4>1. k + 2 <= Len(c) /\ c[k + 1] = "recv"
          BY <2>1, <2>3, <2>8 DEF Proper
        <4> QED
          BY <2>2, <4>1 DEF At
      <3>2. again /\ CanStart(ch, k) /\ ~ last
        BY <2>3, <2>8, <3>1 DEF CanStart, LastData
      <3>3. Onwards(transfer_start(ch, t, k), k) /\ cb' = [cb EXCEPT ![ch].cmddat = k + 1]
        BY <2>2, <3>2 DEF OnSuspended
      <3>4. cb'[ch].received = cb[ch].received /\ cb'[ch].cmddat = k + 1
        BY <2>2, <3>3 DEF CommandBlock
      <3>5. /\ twi'[ch] = transfer_start(ch, t, k)
            /\ Behind(ch, {"RXDREADY", "SUSPENDED", "STOPPED", "return"})'
        BY <2>6, <3>3
      <3>6. /\ Is(ch, "rx", "none", {})'
            /\ twi'[ch].shorts = IF At(ch, k + 2) = "stop" THEN "stop" ELSE "suspend"
        <4> HIDE DEF t
        <4> QED
          BY <1>2, <2>4, <3>2, <3>5, StartIs DEF Is
      <3>7. Cmd(ch)' = "recv"
        BY <2>5, <3>1, <3>4 DEF Cmd
      <3>8. Follows(ch)'
        <4>1. (k + 1) + 1 = k + 2
          BY <2>2
        <4> QED
          BY <2>5, <3>4, <3>6, <4>1 DEF Follows
      <3>9. Course(ch)'
        BY <3>5, <3>6, <3>7, <3>8 DEF Course, Receiving
      <3>10. Collected(ch)'
        <4>1. /\ k + 1 \in Nat /\ k <= k + 1
              /\ \A i \in 1 .. Len(c) : k <= i /\ i < k + 1 => i = k
          BY <2>2
        <4>2. \A i \in 1 .. Len(c) : k <= i /\ i < k + 1 => c[i] # "recv"
          BY <2>8, <4>1
        <4> QED
          BY <1>1, <2>1, <2>2, <3>4, <4>1, <4>2, NoneCollected DEF IInv
      <3> QED
        BY <1>1, <2>1, <3>9, <3>10, CourseClean
    <2> QED
      BY <2>3, <2>7, <2>8
  <1> QED
    BY <1>3, <1>4

(* The bus is free: all commands are carried out. *)
LEMMA StoppedClean ==
  ASSUME IInv, NEW ch \in Channel, OnStopped(ch), Clean(ch)
  PROVE  Clean(ch)'
  <1> DEFINE k == cb[ch].cmddat
             t == Cleared(ch, "STOPPED")
             c == Commands(ch)
  <1>0. "STOPPED" \in Event
    BY EventsAre
  <1>1. /\ handler.ch = ch /\ handler.test = "STOPPED" /\ "STOPPED" \in twi[ch].events
        /\ user' = user /\ flag' = flag /\ Testing(ch, "STOPPED")
        /\ twi' = [twi EXCEPT ![ch] = t] /\ handler' = [handler EXCEPT !.test = "leave"]
    BY DEF OnStopped, Seen, Testing
  <1>2. twi'[ch] = t /\ handler'.ch = ch /\ handler'.test = "leave"
    <2> HIDE DEF t
    <2> QED
      BY <1>1 DEF IInv, TypeInv
  <1>3. CASE Disturbed(ch)
    BY <1>1, <1>2, <1>3, ClearedIs, DisturbedKept DEF IInv
  <1>4. CASE ~ Disturbed(ch)
    <2>1. user[ch].pc = "waiting" /\ Collected(ch) /\ Proper(c) /\ Stopped(ch)
      BY <1>1, <1>4, InCourse, SeenIn
    <2>2. /\ handler.cmd = k /\ At(ch, k) = "stop" /\ k \in 1 .. Len(c)
          /\ Len(c) \in Nat /\ DOMAIN c = 1 .. Len(c) /\ cb \in [Channel -> CommandBlock]
      BY <1>0, <1>1, <2>1, Tested DEF Stopped, Before, Behind, Cmd, IInv, TypeInv
    <2>3. c[k] = "stop" /\ k = Len(c)
      <3>1. c[k] = "stop"
        BY <2>2 DEF At
      <3>2. k # 1
        BY <2>1, <3>1 DEF Proper
      <3>3. k \in 2 .. Len(c)
        BY <2>2, <3>2
      <3> QED
        BY <2>1, <3>1, <3>3 DEF Proper
    <2>4. cb' = [cb EXCEPT ![ch].cmddat = k + 1]
      BY <2>2 DEF OnStopped
    <2>5. cb'[ch].received = cb[ch].received /\ cb'[ch].cmddat = k + 1
      BY <2>2, <2>4 DEF CommandBlock
    <2>6. t.bus = "idle" /\ t.pending = "none" /\ t.events = {}
      BY <2>1, ClearedIs DEF Stopped, Is, IInv
    <2>7. AtEnd(ch)'
      BY <1>1, <1>2, <2>3, <2>5, <2>6 DEF AtEnd, Is, Commands
    <2>8. Collected(ch)'
      <3>1. /\ k + 1 \in Nat /\ k <= k + 1
            /\ \A i \in 1 .. Len(c) : k <= i /\ i < k + 1 => i = k
        BY <2>2
      <3>2. \A i \in 1 .. Len(c) : k <= i /\ i < k + 1 => c[i] # "recv"
        BY <2>3, <3>1
      <3> QED
        BY <1>1, <2>1, <2>2, <2>5, <3>1, <3>2, NoneCollected DEF IInv
    <2>9. Behind(ch, {"leave"})'
      BY <1>2 DEF Behind
    <2> QED
      BY <1>1, <2>1, <2>7, <2>8, <2>9 DEF Clean, Undisturbed
  <1> QED
    BY <1>3, <1>4

LEMMA ReturnClean ==
  ASSUME NEW ch \in Channel, Return(ch), Clean(ch)
  PROVE  Clean(ch)'
  <1>1. handler'.ch # ch
    BY IICAssumption DEF Return, NoHandler
  <1> QED
    BY <1>1, OthersClean DEF Return

(* In the course of a transfer the handler does not give up. *)
LEMMA NotLeaving ==
  ASSUME NEW ch, Course(ch), handler.ch = ch
  PROVE  handler.test # "leave"
  <1>1. CASE Sending(ch) \/ Receiving(ch) \/ Suspending(ch) \/ Stopping(ch)
    BY <1>1 DEF Sending, Receiving, Suspending, Stopping, Behind
  <1>2. CASE Sent(ch) \/ Received(ch) \/ Suspended(ch) \/ Stopped(ch)
    BY <1>2 DEF Sent, Received, Suspended, Stopped, Before, Behind
  <1> QED
    BY <1>1, <1>2 DEF Course

(* The handler tells the task that all is done. *)
LEMMA LeaveClean ==
  ASSUME IInv, NEW ch \in Channel, Leave(ch), Clean(ch)
  PROVE  Clean(ch)'
  <1>1. /\ handler.ch = ch /\ handler.test = "leave" /\ handler' = NoHandler
        /\ twi' = [twi EXCEPT ![ch] = Disabled(twi[ch])] /\ user' = user /\ cb' = cb
    BY DEF Leave
  <1>2. /\ twi'[ch].bus = twi[ch].bus /\ twi'[ch].pending = twi[ch].pending
        /\ twi'[ch].events = twi[ch].events /\ twi'[ch].nack = twi[ch].nack
    BY <1>1 DEF IInv, TypeInv, Disabled, Peripherals
  <1>3. CASE Disturbed(ch)
    BY <1>1, <1>2, <1>3, DisturbedKept
  <1>4. CASE ~ Disturbed(ch)
    <2>1. user[ch].pc # "idle"
      BY <1>1 DEF IInv, Bounded, Running, Ready
    <2>2. user[ch].pc = "waiting" /\ AtEnd(ch) /\ Collected(ch)
      BY <1>1, <1>4, <2>1, NotLeaving DEF Clean, Undisturbed
    <2>3. AtEnd(ch)' /\ Collected(ch)'
      BY <1>1, <1>2, <2>2 DEF AtEnd, Is, Collected, Commands
    <2>4. Behind(ch, {"leave"})'
      BY <1>1, IICAssumption DEF Behind, NoHandler
    <2> QED
      BY <1>1, <2>2, <2>3, <2>4 DEF Clean, Undisturbed
  <1> QED
    BY <1>3, <1>4

(* The handler is called: it takes the command that is to be carried out. *)
LEMMA EnterClean ==
  ASSUME IInv, NEW ch \in Channel, Enter(ch), Clean(ch)
  PROVE  Clean(ch)'
  <1>1. /\ twi[ch].enabled /\ twi[ch].events # {}
        /\ handler' = [ch |-> ch, test |-> "ERROR", cmd |-> cb[ch].cmddat]
        /\ user' = user /\ cb' = cb /\ twi' = twi /\ flag' = flag
    BY DEF Enter
  <1>2. CASE Disturbed(ch)
    BY <1>1, <1>2, DisturbedKept
  <1>3. CASE ~ Disturbed(ch)
    <2>1. user[ch].pc # "idle" /\ ~ AtEnd(ch)
      BY <1>1 DEF IInv, Bounded, Ready, AtEnd, Is
    <2>2. /\ user[ch].pc = "waiting" /\ ch \notin flag
          /\ Course(ch) /\ Collected(ch) /\ Proper(Commands(ch))
      BY <1>3, <2>1 DEF Clean, Undisturbed
    <2>3. Sent(ch) \/ Received(ch) \/ Suspended(ch) \/ Stopped(ch)
      BY <1>1, <2>2, SeenIn
    <2>4. Cmd(ch)' = Cmd(ch) /\ (Follows(ch) => Follows(ch)') /\ Collected(ch)'
      BY <1>1, <2>2 DEF Cmd, At, Commands, Follows, Collected
    <2>5. \A bus, pending, events : Is(ch, bus, pending, events) => Is(ch, bus, pending, events)'
      BY <1>1 DEF Is
    <2>6. \A tests : "ERROR" \in tests => Before(ch, tests)'
      BY <1>1 DEF Before, Behind
    <2>7. Sent(ch) => Sent(ch)'
      BY <2>4, <2>5, <2>6 DEF Sent
    <2>8. Received(ch) => Received(ch)'
      BY <1>1, <2>4, <2>5, <2>6 DEF Received
    <2>9. Suspended(ch) => Suspended(ch)'
      BY <1>1, <2>4, <2>5, <2>6 DEF Suspended
    <2>10. Stopped(ch) => Stopped(ch)'
      BY <2>4, <2>5, <2>6 DEF Stopped
    <2>11. Course(ch)'
      BY <2>3, <2>7, <2>8, <2>9, <2>10 DEF Course
    <2> QED
      BY <1>1, <2>2, <2>4, <2>11, CourseClean
  <1> QED
    BY <1>2, <1>3

(* Nothing but itself and the clock holds the peripheral up. *)
LEMMA PeripheralClean ==
  ASSUME IInv, NEW ch \in Channel, Peripheral(ch), Clean(ch), "preempted" \notin Rare
  PROVE  Clean(ch)'
  <1>1. /\ handler = NoHandler /\ user' = user /\ cb' = cb /\ flag' = flag /\ handler' = handler
        /\ Sends(ch) \/ Receives(ch) \/ NotAcknowledged(ch) \/ Stops(ch) \/ Suspends(ch)
    BY DEF Peripheral, Works
  <1>2. /\ twi \in [Channel -> Peripherals] /\ twi[ch] \in Peripherals
        /\ handler'.ch # ch
    BY <1>1, IICAssumption DEF IInv, TypeInv, NoHandler
  <1>3. CASE NotAcknowledged(ch)
    <2>1. twi[ch].bus \in {"tx", "rx"} /\ twi'[ch].nack # "none"
      BY <1>2, <1>3 DEF NotAcknowledged, Happens, Peripherals
    <2>2. CASE user[ch].pc # "idle"
      BY <1>1, <2>1, <2>2 DEF Clean, Disturbed
    <2>3. CASE user[ch].pc = "idle"
      BY <1>1, <2>1, <2>3 DEF Clean, Disturbed, Undisturbed, Is
    <2> QED
      BY <2>2, <2>3
  <1>4. CASE ~ NotAcknowledged(ch) /\ Disturbed(ch)
    <2>1. twi'[ch].nack = twi[ch].nack
      <3>1. CASE Sends(ch)
        BY <1>2, <3>1 DEF Sends, Happens, Peripherals
      <3>2. CASE Receives(ch)
        BY <1>2, <3>2 DEF Receives, Happens, Peripherals
      <3>3. CASE Stops(ch)
        BY <1>2, <3>3 DEF Stops, Happens, Peripherals
      <3>4. CASE Suspends(ch)
        BY <1>2, <3>4 DEF Suspends, Happens, Peripherals
      <3> QED
        BY <1>1, <1>4, <3>1, <3>2, <3>3, <3>4
    <2> QED
      BY <1>1, <1>4, <2>1, DisturbedKept
  <1>5. CASE ~ NotAcknowledged(ch) /\ ~ Disturbed(ch)
    <2>1. twi[ch].bus \in {"tx", "rx"} \/ twi[ch].pending \in {"stop", "suspend"}
      BY <1>1, <1>5 DEF Sends, Receives, Stops, Suspends
    <2>2. /\ user[ch].pc = "waiting" /\ ch \notin flag
          /\ Course(ch) /\ Collected(ch) /\ Proper(Commands(ch))
      BY <1>5, <2>1 DEF Clean, Undisturbed, AtEnd, Is
    <2>3. Cmd(ch)' = Cmd(ch) /\ Collected(ch)'
      BY <1>1, <2>2 DEF Cmd, At, Commands, Collected
    <2>4. /\ \A tests : Before(ch, tests)'
          /\ twi'[ch].shorts = twi[ch].shorts /\ Follows(ch) => Follows(ch)'
      BY <1>1, <1>2 DEF Before, Behind, Follows, At, Commands
    <2>5. CASE Sends(ch)
      <3>1. /\ twi[ch].bus = "tx"
            /\ twi'[ch].bus = "held" /\ twi'[ch].pending = twi[ch].pending
            /\ twi'[ch].events = twi[ch].events \cup {"TXDSENT"}
        BY <1>2, <2>5 DEF Sends, Happens, Peripherals
      <3>2. Sending(ch)
        BY <2>2, <3>1 DEF Course, Sent, Receiving, Received, Suspending, Suspended, Stopping,
                          Stopped, Is
      <3>3. Is(ch, "held", "none", {"TXDSENT"})'
        BY <3>1, <3>2 DEF Sending, Is
      <3> QED
        BY <1>1, <2>2, <2>3, <2>4, <3>2, <3>3, CourseClean DEF Sending, Sent, Course
    <2>6. CASE Receives(ch)
      <3>1. /\ twi[ch].bus = "rx" /\ twi'[ch].shorts = twi[ch].shorts
            /\ twi'[ch].bus = "held" /\ twi'[ch].pending = twi[ch].shorts
            /\ twi'[ch].events = twi[ch].events \cup {"RXDREADY"}
        BY <1>2, <2>6 DEF Receives, Happens, Peripherals
      <3>2. Receiving(ch)
        BY <2>2, <3>1 DEF Course, Sending, Sent, Received, Suspending, Suspended, Stopping,
                          Stopped, Is
      <3>3. Is(ch, "held", twi[ch].shorts, {"RXDREADY"})'
        BY <3>1, <3>2 DEF Receiving, Is
      <3>4. Received(ch)'
        BY <2>3, <2>4, <3>1, <3>2, <3>3 DEF Receiving, Received
      <3> QED
        BY <1>1, <2>2, <2>3, <3>4, CourseClean DEF Course
    <2>7. CASE Stops(ch)
      <3>1. /\ twi[ch].pending = "stop" /\ twi'[ch].shorts = twi[ch].shorts
            /\ twi'[ch].bus = (IF twi[ch].bus = "held" THEN "idle" ELSE twi[ch].bus)
            /\ twi'[ch].pending = "none"
            /\ twi'[ch].events = twi[ch].events \cup {"STOPPED"}
        BY <1>2, <2>7 DEF Stops, Happens, Peripherals
      <3>2. Received(ch) \/ Stopping(ch)
        BY <2>2, <3>1 DEF Course, Sending, Sent, Receiving, Suspending, Suspended, Stopped, Is
      <3>3. CASE Received(ch)
        <4>1. twi[ch].shorts = "stop" /\ Is(ch, "held", "stop", {"RXDREADY"})
          BY <3>1, <3>3 DEF Received, Is
        <4>2. Is(ch, "idle", "none", {"RXDREADY", "STOPPED"})'
          BY <3>1, <4>1 DEF Is
        <4>3. Received(ch)'
          BY <2>3, <2>4, <3>1, <3>3, <4>1, <4>2 DEF Received
        <4> QED
          BY <1>1, <2>2, <2>3, <4>3, CourseClean DEF Course
      <3>4. CASE Stopping(ch)
        <4>1. Is(ch, "idle", "none", {"STOPPED"})'
          BY <3>1, <3>4 DEF Stopping, Is
        <4>2. Stopped(ch)'
          BY <2>3, <2>4, <3>4, <4>1 DEF Stopping, Stopped
        <4> QED
          BY <1>1, <2>2, <2>3, <4>2, CourseClean DEF Course
      <3> QED
        BY <3>2, <3>3, <3>4
    <2>8. CASE Suspends(ch)
      <3>1. /\ twi[ch].pending = "suspend" /\ twi'[ch].shorts = twi[ch].shorts
            /\ twi'[ch].bus = twi[ch].bus /\ twi'[ch].pending = "none"
            /\ twi'[ch].events = twi[ch].events \cup {"SUSPENDED"}
        BY <1>2, <2>8 DEF Suspends, Happens, Peripherals
      <3>2. Received(ch) \/ Suspending(ch)
        BY <2>2, <3>1 DEF Course, Sending, Sent, Receiving, Suspended, Stopping, Stopped, Is
      <3>3. CASE Received(ch)
        <4>1. twi[ch].shorts = "suspend" /\ Is(ch, "held", "suspend", {"RXDREADY"})
          BY <3>1, <3>3 DEF Received, Is
        <4>2. Is(ch, "held", "none", {"RXDREADY", "SUSPENDED"})'
          BY <3>1, <4>1 DEF Is
        <4>3. Received(ch)'
          BY <2>3, <2>4, <3>1, <3>3, <4>1, <4>2 DEF Received
        <4> QED
          BY <1>1, <2>2, <2>3, <4>3, CourseClean DEF Course
      <3>4. CASE Suspending(ch)
        <4>1. Is(ch, "held", "none", {"SUSPENDED"})'
          BY <3>1, <3>4 DEF Suspending, Is
        <4>2. Suspended(ch)'
          BY <2>3, <2>4, <3>1, <3>4, <4>1 DEF Suspending, Suspended
        <4> QED
          BY <1>1, <2>2, <2>3, <4>2, CourseClean DEF Course
      <3> QED
        BY <3>2, <3>3, <3>4
    <2> QED
      BY <1>1, <1>5, <2>5, <2>6, <2>7, <2>8
  <1> QED
    BY <1>3, <1>4, <1>5

(* A transfer begins, with a list of its caller's, where the last has ended. *)
LEMMA BeginClean ==
  ASSUME IInv, AllProper, NEW ch \in Channel, NEW commands \in Transfers[ch],
         Begin(ch, commands), Clean(ch)
  PROVE  Clean(ch)'
  <1>1. /\ handler = NoHandler /\ handler' = handler /\ flag' = flag
        /\ user[ch].pc = "idle"
        /\ user' = [user EXCEPT ![ch] = Called(user[ch], commands)]
        /\ cb' = [cb EXCEPT ![ch] = [cmddat |-> 2, received |-> {}]]
        /\ twi' = [twi EXCEPT ![ch] = Started(twi[ch])]
    BY DEF Begin, Calls
  <1>2. commands \in Seq(Command) /\ Len(commands) >= 3 /\ Proper(commands)
    BY IICAssumption DEF AllProper
  <1>3. /\ user'[ch].pc = "waiting" /\ user'[ch].commands = commands
        /\ user'[ch].failed = user[ch].failed
        /\ cb'[ch] = [cmddat |-> 2, received |-> {}]
        /\ handler'.ch # ch
    BY <1>1, IICAssumption DEF IInv, TypeInv, User, Called, NoHandler
  <1>4. CASE Disturbed(ch)
    BY <1>1, <1>3, <1>4 DEF Clean, Disturbed
  <1>5. CASE ~ Disturbed(ch)
    <2>1. ch \notin flag /\ Is(ch, "idle", "none", {})
      BY <1>1, <1>5 DEF Clean, Undisturbed
    <2>2. Is(ch, "tx", "none", {})'
      BY <1>1, <2>1 DEF IInv, TypeInv, Started, Peripherals, Is
    <2>3. Commands(ch)' = commands /\ Cmd(ch)' = "send"
      <3>1. commands[2] = "send" /\ 2 <= Len(commands)
        BY <1>2 DEF Proper
      <3> QED
        BY <1>3, <3>1 DEF Commands, Cmd, At
    <2>4. Collected(ch)'
      <3>1. \A i \in DOMAIN commands : i < 2 => commands[i] # "recv"
        <4>1. \A i \in 1 .. Len(commands) : i < 2 => i = 1
          BY <1>2
        <4> QED
          BY <1>2, <4>1 DEF Proper
      <3> QED
        BY <1>3, <2>3, <3>1 DEF Collected
    <2>5. Course(ch)'
      BY <1>3, <2>2, <2>3 DEF Course, Sending, Behind
    <2>6. Proper(Commands(ch))'
      <3>1. Proper(Commands(ch))' = Proper(Commands(ch)')
        BY DEF Proper
      <3> QED
        BY <1>2, <2>3, <3>1
    <2> QED
      BY <1>1, <1>3, <2>1, <2>4, <2>5, <2>6 DEF Clean, Undisturbed
  <1> QED
    BY <1>4, <1>5

LEMMA WakeClean ==
  ASSUME IInv, NEW ch \in Channel, Wake(ch), Clean(ch)
  PROVE  Clean(ch)'
  <1>1. /\ handler = NoHandler /\ handler' = handler /\ cb' = cb /\ twi' = twi
        /\ user[ch].pc = "waiting" /\ ch \in flag /\ ch \notin flag'
        /\ user' = [user EXCEPT ![ch].pc = "woken"]
    BY DEF Wake, Calls
  <1>2. /\ user'[ch].pc = "woken" /\ user'[ch].commands = user[ch].commands
        /\ user'[ch].failed = user[ch].failed /\ handler'.ch # ch
    BY <1>1, IICAssumption DEF IInv, TypeInv, User, NoHandler
  <1>3. CASE Disturbed(ch)
    BY <1>1, <1>2, <1>3 DEF Clean, Disturbed
  <1>4. CASE ~ Disturbed(ch)
    <2>1. AtEnd(ch) /\ Collected(ch)
      BY <1>1, <1>4 DEF Clean, Undisturbed
    <2>2. AtEnd(ch)' /\ Collected(ch)' /\ Behind(ch, {"leave"})'
      BY <1>1, <1>2, <2>1 DEF AtEnd, Is, Collected, Commands, Behind
    <2> QED
      BY <1>1, <1>2, <2>2 DEF Clean, Undisturbed
  <1> QED
    BY <1>3, <1>4

LEMMA TimeOutClean ==
  ASSUME IInv, NEW ch \in Channel, TimeOut(ch)
  PROVE  Clean(ch)'
  <1>1. user'[ch].pc = "timed_out"
    BY DEF TimeOut, IInv, TypeInv, User
  <1> QED
    BY <1>1 DEF Clean, Disturbed

(* It ends, and tells when something was not as it should be. *)
LEMMA EndClean ==
  ASSUME IInv, NEW ch \in Channel, End(ch), Clean(ch)
  PROVE  Clean(ch)'
  <1> DEFINE late == user[ch].pc = "timed_out"
             nack == twi[ch].nack
             err  == IF late THEN "E_TMOUT" ELSE IF nack = "none" THEN "E_OK" ELSE "E_IO"
  <1>1. /\ handler = NoHandler /\ handler' = handler /\ flag' = flag
        /\ user[ch].pc \in {"woken", "timed_out"}
        /\ user' = [user EXCEPT ![ch] = Finished(user[ch], err)]
    BY DEF End, Calls
  <1>2. /\ user'[ch].pc = "idle" /\ user'[ch].commands = user[ch].commands
        /\ user'[ch].failed = (user[ch].failed \/ err # "E_OK")
    <2>1. user[ch] \in User /\ user'[ch] = Finished(user[ch], err)
      BY <1>1 DEF IInv, TypeInv
    <2> HIDE DEF err
    <2> QED
      BY <2>1 DEF User, Finished
  <1>3. CASE user[ch].failed \/ late \/ nack # "none"
    <2>1. user'[ch].failed
      BY <1>2, <1>3
    <2> QED
      BY <2>1 DEF Clean, Disturbed
  <1>4. CASE ~ (user[ch].failed \/ late \/ nack # "none")
    <2>1. ch \notin flag /\ AtEnd(ch) /\ Collected(ch)
      BY <1>1, <1>4 DEF Clean, Disturbed, Undisturbed
    <2>2. cb' = cb /\ twi' = [twi EXCEPT ![ch] = Disabled(twi[ch])]
      BY <1>1, <1>4 DEF End
    <2>3. /\ twi'[ch].bus = twi[ch].bus /\ twi'[ch].pending = twi[ch].pending
          /\ twi'[ch].events = twi[ch].events
      BY <2>2 DEF IInv, TypeInv, Disabled, Peripherals
    <2>4. AtEnd(ch)' /\ Collected(ch)'
      BY <1>2, <2>1, <2>2, <2>3 DEF AtEnd, Is, Collected, Commands
    <2> QED
      BY <1>1, <1>2, <2>1, <2>4 DEF Clean, Undisturbed, AtEnd
  <1> QED
    BY <1>3, <1>4

(* A step of one channel is none of another. *)
LEMMA OtherChannel ==
  ASSUME IInv, "preempted" \notin Rare, NEW ch \in Channel, NEW d \in Channel, d # ch, Clean(d),
         iic_transfer(ch) \/ iic_init_handler(ch) \/ Peripheral(ch)
  PROVE  Clean(d)'
  <1>0. /\ user \in [Channel -> User] /\ cb \in [Channel -> CommandBlock]
        /\ twi \in [Channel -> Peripherals]
    BY DEF IInv, TypeInv
  <1>1. CASE iic_transfer(ch)
    <2>1. handler = NoHandler /\ handler' = handler
      BY <1>1 DEF iic_transfer, Begin, Wake, TimeOut, End, Calls
    <2>2. /\ twi'[d] = twi[d] /\ cb'[d] = cb[d] /\ user'[d] = user[d]
          /\ d \in flag' <=> d \in flag
      <3>1. CASE \E commands \in Transfers[ch] : Begin(ch, commands)
        BY <1>0, <3>1 DEF Begin
      <3>2. CASE Wake(ch)
        BY <1>0, <3>2 DEF Wake
      <3>3. CASE TimeOut(ch)
        BY <1>0, <3>3 DEF TimeOut
      <3>4. CASE End(ch)
        BY <1>0, <3>4 DEF End
      <3> QED
        BY <1>1, <3>1, <3>2, <3>3, <3>4 DEF iic_transfer
    <2> QED
      BY <2>1, <2>2, OthersClean, IICAssumption DEF NoHandler
  <1>2. CASE Peripheral(ch)
    <2>1. handler = NoHandler /\ user' = user /\ cb' = cb /\ flag' = flag /\ handler' = handler
      BY <1>2 DEF Peripheral, Works
    <2>2. twi'[d] = twi[d]
      BY <1>0, <1>2 DEF Peripheral, Sends, Receives, NotAcknowledged, Stops, Suspends, Happens
    <2> QED
      BY <2>1, <2>2, OthersClean, IICAssumption DEF NoHandler
  <1>3. CASE iic_init_handler(ch)
    <2>1. user' = user /\ (d \in flag' <=> d \in flag)
      BY <1>3 DEF iic_init_handler, Enter, OnError, OnSent, OnReceived, OnSuspended, OnStopped,
                  NotSeen, Seen, Testing, Return, Leave
    <2>2. /\ handler'.ch \in {ch, "none"} /\ twi'[d] = twi[d] /\ cb'[d] = cb[d]
      <3>1. CASE Enter(ch)
        BY <3>1 DEF Enter
      <3>2. CASE Return(ch) \/ Leave(ch)
        BY <1>0, <3>2 DEF Return, Leave, NoHandler
      <3>3. ASSUME NEW event, Testing(ch, event)
            PROVE  /\ \A t, i : Onwards(t, i) => handler'.ch = ch /\ twi'[d] = twi[d]
                   /\ \A t : Abort(t) => handler'.ch = ch /\ twi'[d] = twi[d]
        <4>1. handler.ch = ch
          BY <3>3 DEF Testing
        <4>2. handler \in [ch : Channel \cup {"none"}, test : Tests, cmd : Nat]
          BY DEF IInv, TypeInv
        <4> QED
          BY <1>0, <4>1, <4>2 DEF Onwards, Abort
      <3>4. CASE \E event \in Event : NotSeen(ch, event)
        BY <3>3, <3>4 DEF NotSeen
      <3>5. CASE OnError(ch)
        BY <3>3, <3>5 DEF OnError, Seen
      <3>6. CASE OnSent(ch)
        <4>1. /\ Testing(ch, "TXDSENT") /\ \E k : cb' = [cb EXCEPT ![ch].cmddat = k]
              /\ (\E t : Abort(t)) \/ (\E t, i : Onwards(t, i))
          BY <3>6 DEF OnSent, Seen
        <4> QED
          BY <1>0, <3>3, <4>1
      <3>7. CASE OnReceived(ch)
        <4>1. /\ Testing(ch, "RXDREADY") /\ \E c : cb' = [cb EXCEPT ![ch] = c] \/ cb' = cb
              /\ (\E t : Abort(t)) \/ (\E t, i : Onwards(t, i))
          BY <3>7 DEF OnReceived, Seen
        <4> QED
          BY <1>0, <3>3, <4>1
      <3>8. CASE OnSuspended(ch)
        <4>1. /\ Testing(ch, "SUSPENDED") /\ \E k : cb' = [cb EXCEPT ![ch].cmddat = k]
              /\ (\E t : Abort(t)) \/ (\E t, i : Onwards(t, i))
          BY <3>8 DEF OnSuspended, Seen
        <4> QED
          BY <1>0, <3>3, <4>1
      <3>9. CASE OnStopped(ch)
        <4>1. /\ Testing(ch, "STOPPED") /\ twi' = [twi EXCEPT ![ch] = Cleared(ch, "STOPPED")]
              /\ cb' = [cb EXCEPT ![ch].cmddat = @ + 1] \/ cb' = cb
              /\ handler' = [handler EXCEPT !.test = "leave"]
          BY <3>9 DEF OnStopped, Seen
        <4>2. handler.ch = ch /\ handler \in [ch : Channel \cup {"none"}, test : Tests, cmd : Nat]
          BY <4>1 DEF Testing, IInv, TypeInv
        <4> QED
          BY <1>0, <4>1, <4>2
      <3> QED
        BY <1>3, <3>1, <3>2, <3>4, <3>5, <3>6, <3>7, <3>8, <3>9 DEF iic_init_handler
    <2> QED
      BY <2>1, <2>2, OthersClean, IICAssumption
  <1> QED
    BY <1>1, <1>2, <1>3

AllClean == IInv /\ \A ch \in Channel : Clean(ch)

LEMMA StepClean ==
  ASSUME AllProper, "preempted" \notin Rare, AllClean, [Next]_vars
  PROVE  AllClean'
  <1>1. IInv'
    BY StepHolds DEF AllClean
  <1>2. CASE UNCHANGED vars
    <2>1. ASSUME NEW ch \in Channel PROVE Clean(ch)' = Clean(ch)
      BY <1>2 DEF vars, Clean, Disturbed, Undisturbed, Course, Sending, Sent, Receiving, Received,
                  Suspending, Suspended, Stopping, Stopped, AtEnd, Collected, Is, Before, Behind,
                  Follows, Cmd, At, Commands, Proper
    <2> QED
      BY <1>1, <2>1 DEF AllClean
  <1>3. ASSUME NEW ch \in Channel, iic_transfer(ch) \/ iic_init_handler(ch) \/ Peripheral(ch)
        PROVE  AllClean'
    <2>1. IInv /\ Clean(ch)
      BY DEF AllClean
    <2>2. iic_transfer(ch) => Clean(ch)'
      BY <1>3, <2>1, BeginClean, WakeClean, TimeOutClean, EndClean DEF iic_transfer
    <2>3. iic_init_handler(ch) => Clean(ch)'
      BY <1>3, <2>1, EnterClean, ErrorClean, SentClean, ReceivedClean, SuspendedClean,
         StoppedClean, NotSeenClean, ReturnClean, LeaveClean DEF iic_init_handler
    <2>4. Peripheral(ch) => Clean(ch)'
      BY <1>3, <2>1, PeripheralClean
    <2>5. Clean(ch)'
      BY <1>3, <2>2, <2>3, <2>4
    <2>6. ASSUME NEW d \in Channel, d # ch PROVE Clean(d)'
      BY <1>3, <2>1, <2>6, OtherChannel DEF AllClean
    <2> QED
      BY <1>1, <2>5, <2>6 DEF AllClean
  <1> QED
    BY <1>2, <1>3 DEF Next

(***************************************************************************)
(* As long as no transfer of a channel has failed, one that returns E_OK   *)
(* has carried out all its commands and stored a byte for each that asks   *)
(* for one (CAV/src/iic.c:114, 224), in any order of the events of the two *)
(* channels and of their tasks.  The lists are those iic_read and          *)
(* iic_write of this program make, of any length.  The handler is not held *)
(* up by another one for as long as a byte takes: then it misses the event *)
(* of the byte, takes the next one for it, and a transfer that has lost a  *)
(* byte need not fail.                                                     *)
(***************************************************************************)
THEOREM SucceedsOnlyWhenDone ==
  ASSUME AllProper, "preempted" \notin Rare
  PROVE  Spec => []DoneUnlessFailed
  <1>1. Init => AllClean
    <2> SUFFICES ASSUME Init PROVE AllClean
      OBVIOUS
    <2>1. IInv
      BY InitHolds
    <2>2. ASSUME NEW ch \in Channel PROVE Clean(ch)
      <3>1. user[ch].pc = "idle" /\ ch \notin flag /\ user[ch].done = 0
        BY DEF Init
      <3>2. Is(ch, "idle", "none", {})
        BY DEF Init, Is
      <3>3. Collected(ch)
        <4>1. Commands(ch) = << >> /\ cb[ch].received = {} /\ DOMAIN << >> = {}
          BY DEF Init, Commands
        <4> QED
          BY <4>1 DEF Collected
      <3> QED
        BY <3>1, <3>2, <3>3 DEF Clean, Undisturbed
    <2> QED
      BY <2>1, <2>2 DEF AllClean
  <1>2. AllClean /\ [Next]_vars => AllClean'
    BY StepClean
  <1>3. AllClean => DoneUnlessFailed
    <2> SUFFICES ASSUME AllClean, NEW ch \in Channel, user[ch].pc = "idle",
                        user[ch].done > 0, ~ user[ch].failed
                 PROVE  Complete(ch)
      BY DEF DoneUnlessFailed
    <2>1. AtEnd(ch) /\ Collected(ch)
      BY DEF AllClean, Clean, Disturbed, Undisturbed
    <2>2. Len(Commands(ch)) \in Nat /\ DOMAIN Commands(ch) = 1 .. Len(Commands(ch))
      BY DEF AllClean, IInv, TypeInv, User, Commands
    <2>3. \A i \in DOMAIN Commands(ch) : i < Len(Commands(ch)) + 1
      BY <2>2
    <2> QED
      BY <2>1, <2>3 DEF AtEnd, Collected, Complete
  <1> QED
    BY <1>1, <1>2, <1>3, PTL DEF Spec

-----------------------------------------------------------------------------
(***************************************************************************)
(* The serial driver.  The two lemmas on a ring buffer say what adding and *)
(* taking a byte do to the sequence it stands for; the rest is that each   *)
(* step keeps the invariant.                                               *)
(***************************************************************************)
CONSTANTS Byte, BUFFSIZE, Speed, SpeedTable
VARIABLES
  open, buff, wait, serpc, left, tail, wup, com_error, com_speed, baud,
  txrdy, inflight, uartevent, out, owed, lost

Serial == INSTANCE SerialDriver WITH pc <- serpc, event <- uartevent

(* The inductive invariant: Session relates the requests and txrdy to the
   state of the device. *)
SerialTypeInv ==
  /\ open \in BOOLEAN /\ buff \in [Serial!Dir -> Serial!Buffer] /\ wait \in [Serial!Dir -> BOOLEAN]
  /\ serpc \in [Serial!Dir -> {"idle", "loop", "sleep"}]
  /\ left \in [Serial!Dir -> Int] /\ wup \in [Serial!Dir -> Nat]
  /\ tail \in 0 .. BUFFSIZE - 1
  /\ txrdy \in BOOLEAN /\ inflight \in Nat
  /\ out \in [Serial!Dir -> Byte] /\ owed \in [Serial!Dir -> Seq(Byte)]
Session ==
  /\ \A d \in Serial!Dir : serpc[d] # "idle" => open
  /\ serpc["rcv"] # "idle" => tail = buff["rcv"].tail
  /\ open => (txrdy => Serial!Empty(buff["snd"]))
  /\ open => txrdy \/ inflight > 0 \/ "TXDRDY" \in uartevent
SerialInv == SerialTypeInv /\ Serial!HoldsOwed /\ Session /\ Serial!SleeperIsWoken /\ Serial!LossIsTold

(* The places of the bytes in a buffer: the next one after the last byte is
   the top, the others are not. *)
LEMMA Places ==
  ASSUME BUFFSIZE \in Nat \ {0}, NEW b, NEW i \in Nat \ {0},
         b.top \in 0 .. BUFFSIZE - 1, b.tail \in 0 .. BUFFSIZE - 1
  PROVE  /\ Serial!Used(b) \in Nat
         /\ i <= Serial!Used(b) => Serial!Slot(b, i) \in 0 .. BUFFSIZE - 1 /\ Serial!Slot(b, i) # b.top
         /\ i = Serial!Used(b) + 1 => Serial!Slot(b, i) = b.top
<1> DEFINE n == b.top
           m == b.tail
<1>1. n \in Int /\ m \in Int /\ BUFFSIZE \in Int /\ i \in Int
  OBVIOUS
<1>2. 0 <= n /\ n < BUFFSIZE /\ 0 <= m /\ m < BUFFSIZE /\ 1 <= i
  OBVIOUS
<1>3. Serial!Used(b) = IF n >= m THEN n - m ELSE n - m + BUFFSIZE
  BY DEF Serial!Used
<1>4. Serial!Slot(b, i) = IF m + i - 1 >= BUFFSIZE THEN m + i - 1 - BUFFSIZE ELSE m + i - 1
  BY DEF Serial!Slot
<1> SUFFICES /\ Serial!Used(b) \in Nat
             /\ i <= Serial!Used(b) => Serial!Slot(b, i) \in 0 .. BUFFSIZE - 1 /\ Serial!Slot(b, i) # n
             /\ i = Serial!Used(b) + 1 => Serial!Slot(b, i) = n
  OBVIOUS
<1> HIDE DEF n, m
<1> QED
  BY <1>1, <1>2, <1>3, <1>4

(* Without its first byte, the places are those after the first. *)
LEMMA NextPlaces ==
  ASSUME BUFFSIZE \in Nat \ {0}, NEW b, NEW i \in Nat \ {0},
         b.top \in 0 .. BUFFSIZE - 1, b.tail \in 0 .. BUFFSIZE - 1,
         i + 1 <= Serial!Used(b)
  PROVE  Serial!Slot(Serial!Take(b), i) = Serial!Slot(b, i + 1)
<1> DEFINE n == b.top
           m == b.tail
<1>1. n \in Int /\ m \in Int /\ BUFFSIZE \in Int /\ i \in Int
  OBVIOUS
<1>2. 0 <= n /\ n < BUFFSIZE /\ 0 <= m /\ m < BUFFSIZE /\ 1 <= i
  OBVIOUS
<1>3. i + 1 <= IF n >= m THEN n - m ELSE n - m + BUFFSIZE
  BY DEF Serial!Used
<1>4. Serial!Slot(b, i + 1) = IF m + (i + 1) - 1 >= BUFFSIZE THEN m + (i + 1) - 1 - BUFFSIZE
                                                     ELSE m + (i + 1) - 1
  BY DEF Serial!Slot
<1>5. Serial!Take(b).tail = IF m + 1 >= BUFFSIZE THEN 0 ELSE m + 1
  BY DEF Serial!Take, Serial!Succ
<1>6. Serial!Slot(Serial!Take(b), i) =
        IF Serial!Take(b).tail + i - 1 >= BUFFSIZE THEN Serial!Take(b).tail + i - 1 - BUFFSIZE
                                            ELSE Serial!Take(b).tail + i - 1
  BY DEF Serial!Slot
<1> HIDE DEF n, m
<1> QED
  BY <1>1, <1>2, <1>3, <1>4, <1>5, <1>6

(* Adding a byte to a buffer with room appends it to the sequence. *)
LEMMA PutHolds ==
  ASSUME BUFFSIZE \in Nat \ {0}, NEW b \in Serial!Buffer, NEW q \in Seq(Byte), NEW x \in Byte,
         Serial!Holds(b, q), ~Serial!Full(b)
  PROVE  Serial!Put(b, x) \in Serial!Buffer /\ Serial!Holds(Serial!Put(b, x), Append(q, x))
<1> DEFINE c == Serial!Put(b, x)
<1>1. /\ b.top \in 0 .. BUFFSIZE - 1 /\ b.tail \in 0 .. BUFFSIZE - 1
      /\ b.data \in [0 .. BUFFSIZE - 1 -> Byte]
  BY DEF Serial!Buffer
<1>2. /\ c.top = Serial!Succ(b.top) /\ c.tail = b.tail
      /\ c.data = [b.data EXCEPT ![b.top] = x]
  BY DEF Serial!Put
<1>3. Serial!Succ(b.top) \in 0 .. BUFFSIZE - 1 /\ Serial!Succ(b.top) # b.tail
  BY <1>1 DEF Serial!Succ, Serial!Full
<1>4. c \in Serial!Buffer
  BY <1>1, <1>3 DEF Serial!Put, Serial!Buffer
<1>5. Len(q) = Serial!Used(b) /\ Len(q) \in Nat
  BY DEF Serial!Holds
<1>6. Serial!Used(c) = Serial!Used(b) + 1
  <2> DEFINE n == b.top
             m == b.tail
  <2>1. n \in Int /\ m \in Int /\ 0 <= n /\ n < BUFFSIZE /\ 0 <= m /\ m < BUFFSIZE
    BY <1>1
  <2>2. Serial!Used(b) = IF n >= m THEN n - m ELSE n - m + BUFFSIZE
    BY DEF Serial!Used
  <2>3. Serial!Used(c) = IF Serial!Succ(n) >= m THEN Serial!Succ(n) - m ELSE Serial!Succ(n) - m + BUFFSIZE
    BY <1>2 DEF Serial!Used
  <2>4. Serial!Succ(n) = IF n + 1 >= BUFFSIZE THEN 0 ELSE n + 1
    BY DEF Serial!Succ
  <2>5. Serial!Succ(n) # m
    BY <1>3
  <2> HIDE DEF n, m
  <2> QED
    BY <2>1, <2>2, <2>3, <2>4, <2>5
<1>7. Len(Append(q, x)) = Serial!Used(c)
  BY <1>5, <1>6
<1>8. ASSUME NEW i \in 1 .. Len(Append(q, x)) PROVE c.data[Serial!Slot(c, i)] = Append(q, x)[i]
  <2>1. Serial!Slot(c, i) = Serial!Slot(b, i)
    BY <1>2 DEF Serial!Slot
  <2>2. CASE i = Len(q) + 1
    <3>1. Serial!Slot(b, i) = b.top
      BY <1>1, <1>5, <2>2, Places
    <3> QED
      BY <1>1, <1>2, <2>1, <2>2, <3>1
  <2>3. CASE i \in 1 .. Len(q)
    <3>1. Serial!Slot(b, i) # b.top /\ Serial!Slot(b, i) \in 0 .. BUFFSIZE - 1
      BY <1>1, <1>5, <2>3, Places
    <3>2. b.data[Serial!Slot(b, i)] = q[i]
      BY <2>3 DEF Serial!Holds
    <3> QED
      BY <1>1, <1>2, <2>1, <2>3, <3>1, <3>2
  <2> QED
    BY <1>5, <2>2, <2>3
<1> QED
  BY <1>4, <1>7, <1>8 DEF Serial!Holds

(* What is taken from a buffer that is not empty is the head of the sequence. *)
LEMMA TakeHolds ==
  ASSUME BUFFSIZE \in Nat \ {0}, NEW b \in Serial!Buffer, NEW q \in Seq(Byte),
         Serial!Holds(b, q), ~Serial!Empty(b)
  PROVE  /\ q # << >> /\ b.data[b.tail] = Head(q)
         /\ Serial!Take(b) \in Serial!Buffer /\ Serial!Holds(Serial!Take(b), Tail(q))
<1> DEFINE c == Serial!Take(b)
<1>1. /\ b.top \in 0 .. BUFFSIZE - 1 /\ b.tail \in 0 .. BUFFSIZE - 1
      /\ b.data \in [0 .. BUFFSIZE - 1 -> Byte]
  BY DEF Serial!Buffer
<1>2. c.top = b.top /\ c.tail = Serial!Succ(b.tail) /\ c.data = b.data
  BY DEF Serial!Take
<1>3. Serial!Succ(b.tail) \in 0 .. BUFFSIZE - 1
  BY <1>1 DEF Serial!Succ
<1>4. c \in Serial!Buffer
  BY <1>1, <1>3 DEF Serial!Take, Serial!Buffer
<1>5. Len(q) = Serial!Used(b) /\ Len(q) \in Nat
  BY DEF Serial!Holds
<1>6. Serial!Used(b) > 0 /\ Serial!Used(c) = Serial!Used(b) - 1
  BY <1>1, <1>2, <1>3 DEF Serial!Used, Serial!Succ, Serial!Empty
<1>7. q # << >> /\ Len(Tail(q)) = Serial!Used(c)
  BY <1>5, <1>6
<1>8. b.data[b.tail] = Head(q)
  <2>1. Serial!Slot(b, 1) = b.tail
    BY <1>1 DEF Serial!Slot
  <2>2. b.data[Serial!Slot(b, 1)] = q[1]
    BY <1>5, <1>6 DEF Serial!Holds
  <2> QED
    BY <1>7, <2>1, <2>2
<1>9. ASSUME NEW i \in 1 .. Len(Tail(q)) PROVE c.data[Serial!Slot(c, i)] = Tail(q)[i]
  <2>1. i + 1 \in 1 .. Len(q) /\ Tail(q)[i] = q[i + 1]
    BY <1>5, <1>7
  <2>2. Serial!Slot(c, i) = Serial!Slot(b, i + 1)
    BY <1>1, <1>5, <2>1, NextPlaces
  <2> QED
    BY <1>2, <2>1, <2>2 DEF Serial!Holds
<1> QED
  BY <1>4, <1>7, <1>8, <1>9 DEF Serial!Holds

(* An empty buffer stands for the empty sequence. *)
LEMMA EmptyHolds ==
  ASSUME NEW b \in Serial!Buffer, Serial!Empty(b), BUFFSIZE \in Nat \ {0}
  PROVE  Serial!Holds(b, << >>)
  BY DEF Serial!Holds, Serial!Used, Serial!Empty, Serial!Buffer

(* dev_init_ser leaves the device closed and its buffers empty. *)
LEMMA SerialInitHolds == ASSUME BUFFSIZE \in Nat \ {0} PROVE Serial!Init => SerialInv
<1> SUFFICES ASSUME Serial!Init PROVE SerialInv
  OBVIOUS
<1>1. SerialTypeInv
  <2>1. buff \in [Serial!Dir -> Serial!Buffer] /\ owed \in [Serial!Dir -> Seq(Byte)]
    BY DEF Serial!Init
  <2>2. wait \in [Serial!Dir -> BOOLEAN] /\ wup \in [Serial!Dir -> Nat] /\ left \in [Serial!Dir -> Int]
    BY DEF Serial!Init
  <2>3. tail \in 0 .. BUFFSIZE - 1
    BY DEF Serial!Init
  <2>4. serpc \in [Serial!Dir -> {"idle", "loop", "sleep"}]
    BY DEF Serial!Init
  <2> QED
    BY <2>1, <2>2, <2>3, <2>4 DEF Serial!Init, SerialTypeInv
<1>2. Serial!HoldsOwed
  BY <1>1, EmptyHolds DEF Serial!Init, Serial!HoldsOwed, SerialTypeInv
<1>3. Session /\ Serial!SleeperIsWoken /\ Serial!LossIsTold
  BY DEF Serial!Init, Session, Serial!SleeperIsWoken, Serial!LossIsTold, Serial!Dir
<1> QED
  BY <1>2, <1>1, <1>3 DEF SerialInv

(* write_data puts a byte into the buffer or past an empty one. *)
LEMMA WriteStep ==
  ASSUME BUFFSIZE \in Nat \ {0}, SerialInv, NEW x \in Byte, Serial!write_data(x)
  PROVE  SerialInv'
<1> USE DEF SerialInv
<1>1. serpc["snd"] = "loop" /\ open /\ ~Serial!Full(buff["snd"])
  BY DEF Serial!write_data, Serial!OneDone, Session, Serial!Dir
<1>2. serpc' \in [Serial!Dir -> {"idle", "loop", "sleep"}] /\ left' \in [Serial!Dir -> Int]
  BY DEF Serial!write_data, Serial!OneDone, SerialTypeInv, Serial!Dir
<1>3. \A d \in Serial!Dir : serpc'[d] = "sleep" => d = "rcv" /\ serpc[d] = "sleep"
  BY DEF Serial!write_data, Serial!OneDone, SerialTypeInv, Serial!Dir
<1>4. serpc'["rcv"] = serpc["rcv"]
  BY DEF Serial!write_data, Serial!OneDone, SerialTypeInv, Serial!Dir
<1>5. UNCHANGED << open, wait, tail, wup, uartevent, Serial!told >>
  BY DEF Serial!write_data
<1>6. CASE Serial!Empty(buff["snd"]) /\ txrdy
  <2>1. /\ txrdy' = FALSE /\ inflight' = inflight + 1 /\ UNCHANGED << buff, owed >>
        /\ out' = [out EXCEPT !["snd"] = x]
    BY <1>6 DEF Serial!write_data, Serial!LLD_SER_SEND
  <2>2. SerialTypeInv'
    <3>1. out' \in [Serial!Dir -> Byte]
      BY <2>1 DEF SerialTypeInv
    <3>2. inflight' \in Nat
      BY <2>1 DEF SerialTypeInv
    <3>3. txrdy' \in BOOLEAN
      BY <2>1
    <3> QED
      BY <1>2, <1>5, <2>1, <3>1, <3>2, <3>3 DEF SerialTypeInv
  <2>3. Serial!HoldsOwed' /\ Serial!LossIsTold'
    BY <1>5, <2>1 DEF Serial!HoldsOwed, Serial!LossIsTold, Serial!told
  <2>4. Session'
    BY <1>1, <1>4, <1>5, <2>1 DEF Session, SerialTypeInv
  <2>5. Serial!SleeperIsWoken'
    BY <1>3, <1>5, <2>1 DEF Serial!SleeperIsWoken
  <2> QED
    BY <2>2, <2>3, <2>4, <2>5
<1>7. CASE ~(Serial!Empty(buff["snd"]) /\ txrdy)
  <2>1. /\ buff' = [buff EXCEPT !["snd"] = Serial!Put(buff["snd"], x)]
        /\ owed' = [owed EXCEPT !["snd"] = Append(owed["snd"], x)]
        /\ UNCHANGED << txrdy, inflight, out >>
    BY <1>7 DEF Serial!write_data, Serial!LLD_SER_SEND
  <2>2. /\ buff["snd"] \in Serial!Buffer /\ owed["snd"] \in Seq(Byte)
        /\ Serial!Holds(buff["snd"], owed["snd"])
    BY DEF SerialTypeInv, Serial!HoldsOwed, Serial!Dir
  <2>3. /\ Serial!Put(buff["snd"], x) \in Serial!Buffer
        /\ Serial!Holds(Serial!Put(buff["snd"], x), Append(owed["snd"], x))
    BY <1>1, <2>2, PutHolds
  <2>4. /\ buff'["snd"] = Serial!Put(buff["snd"], x) /\ buff'["rcv"] = buff["rcv"]
        /\ owed'["snd"] = Append(owed["snd"], x) /\ owed'["rcv"] = owed["rcv"]
    BY <2>1 DEF SerialTypeInv, Serial!Dir
  <2>5. Append(owed["snd"], x) \in Seq(Byte)
    BY <2>2
  <2>6. buff' \in [Serial!Dir -> Serial!Buffer] /\ owed' \in [Serial!Dir -> Seq(Byte)]
    BY <2>1, <2>3, <2>5 DEF SerialTypeInv
  <2>7. SerialTypeInv'
    BY <1>2, <1>5, <2>1, <2>6 DEF SerialTypeInv
  <2>8. Serial!HoldsOwed' /\ Serial!LossIsTold'
    BY <1>5, <2>3, <2>4 DEF Serial!HoldsOwed, Serial!LossIsTold, Serial!told, Serial!Dir
  <2>9. ~txrdy
    BY <1>1, <1>7 DEF Session
  <2>10. Session'
    BY <1>1, <1>4, <1>5, <2>1, <2>4, <2>9 DEF Session, SerialTypeInv
  <2>11. Serial!SleeperIsWoken'
    BY <1>3, <1>5, <2>4 DEF Serial!SleeperIsWoken
  <2> QED
    BY <2>7, <2>8, <2>10, <2>11
<1> QED
  BY <1>6, <1>7

(* read_data takes the byte at its own tail, which is the buffer's. *)
LEMMA ReadStep ==
  ASSUME BUFFSIZE \in Nat \ {0}, SerialInv, Serial!read_data
  PROVE  /\ SerialInv'
         /\ out'["rcv"] = Head(owed["rcv"])
<1> USE DEF SerialInv
<1>1. /\ serpc["rcv"] = "loop" /\ open /\ tail = buff["rcv"].tail
      /\ ~Serial!Empty(buff["rcv"])
  BY DEF Serial!read_data, Serial!OneDone, Session, Serial!Dir, Serial!Empty
<1>2. serpc' \in [Serial!Dir -> {"idle", "loop", "sleep"}] /\ left' \in [Serial!Dir -> Int]
  BY DEF Serial!read_data, Serial!OneDone, SerialTypeInv, Serial!Dir
<1>3. \A d \in Serial!Dir : serpc'[d] = "sleep" => d = "snd" /\ serpc[d] = "sleep"
  BY DEF Serial!read_data, Serial!OneDone, SerialTypeInv, Serial!Dir
<1>4. UNCHANGED << open, wait, wup, Serial!uart, Serial!told >>
  BY DEF Serial!read_data
<1>5. /\ buff["rcv"] \in Serial!Buffer /\ owed["rcv"] \in Seq(Byte)
      /\ Serial!Holds(buff["rcv"], owed["rcv"])
  BY DEF SerialTypeInv, Serial!HoldsOwed, Serial!Dir
<1>6. [buff["rcv"] EXCEPT !.tail = Serial!Succ(tail)] = Serial!Take(buff["rcv"])
  BY <1>1, <1>5 DEF Serial!Take, Serial!Buffer
<1>7. /\ buff' = [buff EXCEPT !["rcv"] = Serial!Take(buff["rcv"])]
      /\ owed' = [owed EXCEPT !["rcv"] = Tail(owed["rcv"])]
  BY <1>6 DEF Serial!read_data
<1>8. /\ owed["rcv"] # << >> /\ buff["rcv"].data[buff["rcv"].tail] = Head(owed["rcv"])
      /\ Serial!Take(buff["rcv"]) \in Serial!Buffer /\ Serial!Holds(Serial!Take(buff["rcv"]), Tail(owed["rcv"]))
  BY <1>1, <1>5, TakeHolds
<1>9. /\ buff'["rcv"] = Serial!Take(buff["rcv"]) /\ buff'["snd"] = buff["snd"]
      /\ owed'["rcv"] = Tail(owed["rcv"]) /\ owed'["snd"] = owed["snd"]
  BY <1>7 DEF SerialTypeInv, Serial!Dir
<1>10. tail' = buff'["rcv"].tail /\ tail' \in 0 .. BUFFSIZE - 1
  BY <1>1, <1>8, <1>9 DEF Serial!read_data, Serial!Take, Serial!Buffer
<1>11. out' = [out EXCEPT !["rcv"] = Head(owed["rcv"])]
  BY <1>1, <1>8 DEF Serial!read_data
<1>12. Head(owed["rcv"]) \in Byte /\ Tail(owed["rcv"]) \in Seq(Byte)
  BY <1>5, <1>8
<1>13. /\ buff' \in [Serial!Dir -> Serial!Buffer] /\ owed' \in [Serial!Dir -> Seq(Byte)]
       /\ out' \in [Serial!Dir -> Byte]
  BY <1>7, <1>8, <1>11, <1>12 DEF SerialTypeInv
<1>14. SerialTypeInv'
  BY <1>2, <1>4, <1>10, <1>13 DEF SerialTypeInv, Serial!uart
<1>15. Serial!HoldsOwed' /\ Serial!LossIsTold'
  BY <1>4, <1>8, <1>9 DEF Serial!HoldsOwed, Serial!LossIsTold, Serial!told, Serial!Dir
<1>16. Session'
  BY <1>1, <1>4, <1>9, <1>10 DEF Session, Serial!uart
<1>17. Serial!SleeperIsWoken'
  BY <1>3, <1>4, <1>9 DEF Serial!SleeperIsWoken
<1>18. out'["rcv"] = Head(owed["rcv"])
  BY <1>11 DEF SerialTypeInv, Serial!Dir
<1> QED
  BY <1>14, <1>15, <1>16, <1>17, <1>18

(* The handler stores what has come, sends what is due and wakes. *)
LEMMA UartStep ==
  ASSUME BUFFSIZE \in Nat \ {0}, SerialInv, NEW x \in Byte, Serial!usart_inthdr(x)
  PROVE  /\ SerialInv'
         /\ Serial!Sent => out'["snd"] = Head(owed["snd"])
         /\ ~Serial!Sent => owed'["snd"] = owed["snd"]
         /\ owed'["rcv"] = IF Serial!Stored THEN Append(owed["rcv"], x) ELSE owed["rcv"]
<1> USE DEF SerialInv
<1>1. \A d \in Serial!Dir : /\ buff[d] \in Serial!Buffer /\ owed[d] \in Seq(Byte)
                     /\ Serial!Holds(buff[d], owed[d])
  BY DEF SerialTypeInv, Serial!HoldsOwed
<1>2. /\ buff' \in [Serial!Dir -> {buff'["snd"], buff'["rcv"]}]
      /\ owed' \in [Serial!Dir -> {owed'["snd"], owed'["rcv"]}]
      /\ buff'["rcv"] = IF Serial!Stored THEN Serial!Put(buff["rcv"], x) ELSE buff["rcv"]
      /\ owed'["rcv"] = IF Serial!Stored THEN Append(owed["rcv"], x) ELSE owed["rcv"]
      /\ buff'["snd"] = IF Serial!Sent THEN Serial!Take(buff["snd"]) ELSE buff["snd"]
      /\ owed'["snd"] = IF Serial!Sent THEN Tail(owed["snd"]) ELSE owed["snd"]
  BY DEF Serial!usart_inthdr, Serial!Dir
<1>3. /\ buff'["rcv"] \in Serial!Buffer /\ owed'["rcv"] \in Seq(Byte)
      /\ Serial!Holds(buff'["rcv"], owed'["rcv"])
  <2>1. CASE Serial!Stored
    <3>1. ~Serial!Full(buff["rcv"])
      BY <2>1 DEF Serial!Stored
    <3>2. Append(owed["rcv"], x) \in Seq(Byte)
      BY <1>1 DEF Serial!Dir
    <3> QED
      BY <1>1, <1>2, <2>1, <3>1, <3>2, PutHolds DEF Serial!Dir
  <2>2. CASE ~Serial!Stored
    BY <1>1, <1>2, <2>2 DEF Serial!Dir
  <2> QED
    BY <2>1, <2>2
<1>4. /\ buff'["snd"] \in Serial!Buffer /\ owed'["snd"] \in Seq(Byte)
      /\ Serial!Holds(buff'["snd"], owed'["snd"])
      /\ Serial!Sent => buff["snd"].data[buff["snd"].tail] = Head(owed["snd"])
      /\ Serial!Sent => Head(owed["snd"]) \in Byte
  <2>1. CASE Serial!Sent
    <3>1. ~Serial!Empty(buff["snd"])
      BY <2>1 DEF Serial!Sent
    <3>2. /\ owed["snd"] # << >>
          /\ buff["snd"].data[buff["snd"].tail] = Head(owed["snd"])
          /\ Serial!Take(buff["snd"]) \in Serial!Buffer /\ Serial!Holds(Serial!Take(buff["snd"]), Tail(owed["snd"]))
      BY <1>1, <3>1, TakeHolds DEF Serial!Dir
    <3>3. Tail(owed["snd"]) \in Seq(Byte) /\ Head(owed["snd"]) \in Byte
      BY <1>1, <3>2 DEF Serial!Dir
    <3> QED
      BY <1>2, <2>1, <3>2, <3>3
  <2>2. CASE ~Serial!Sent
    BY <1>1, <1>2, <2>2 DEF Serial!Dir
  <2> QED
    BY <2>1, <2>2
<1>5. out' = [out EXCEPT !["snd"] = IF Serial!Sent THEN Head(owed["snd"]) ELSE out["snd"]]
  BY <1>4 DEF Serial!usart_inthdr
<1>6. out' \in [Serial!Dir -> Byte] /\ (Serial!Sent => out'["snd"] = Head(owed["snd"]))
  BY <1>4, <1>5 DEF SerialTypeInv, Serial!Dir
<1>7. buff' \in [Serial!Dir -> Serial!Buffer] /\ owed' \in [Serial!Dir -> Seq(Byte)]
  BY <1>2, <1>3, <1>4
<1>8. UNCHANGED << open, serpc, left, tail, com_speed, baud >> /\ open /\ uartevent' = {}
  BY DEF Serial!usart_inthdr
<1>9. wup' \in [Serial!Dir -> Nat] /\ wait' \in [Serial!Dir -> BOOLEAN]
  BY DEF Serial!usart_inthdr, SerialTypeInv
<1>10. txrdy' = (IF "TXDRDY" \in uartevent THEN ~Serial!Sent ELSE txrdy) /\ txrdy' \in BOOLEAN
  BY DEF Serial!usart_inthdr, SerialTypeInv
<1>11. inflight' = (IF Serial!Sent THEN inflight + 1 ELSE inflight) /\ inflight' \in Nat
  BY DEF Serial!usart_inthdr, SerialTypeInv
<1>12. SerialTypeInv'
  BY <1>6, <1>7, <1>8, <1>9, <1>10, <1>11 DEF SerialTypeInv
<1>13. Serial!HoldsOwed'
  BY <1>3, <1>4 DEF Serial!HoldsOwed, Serial!Dir
<1>14. Session'
  <2>1. tail' = tail /\ buff'["rcv"].tail = buff["rcv"].tail
    BY <1>2, <1>8 DEF Serial!Put
  <2>2. txrdy' => Serial!Empty(buff["snd"])'
    BY <1>2, <1>8, <1>10 DEF Session, Serial!Sent
  <2>3. txrdy' \/ inflight' > 0
    BY <1>8, <1>10, <1>11 DEF Session, SerialTypeInv
  <2> QED
    BY <1>8, <2>1, <2>2, <2>3 DEF Session
<1>15. Serial!SleeperIsWoken'
  <2> SUFFICES ASSUME NEW d \in Serial!Dir, serpc[d] = "sleep", wup'[d] = 0
               PROVE  wait'[d] /\ IF d = "snd" THEN Serial!Full(buff'[d]) ELSE Serial!Empty(buff'[d])
    BY <1>8 DEF Serial!SleeperIsWoken
  <2>1. ~Serial!Wakes(d) /\ wup[d] = 0
    BY DEF Serial!usart_inthdr, SerialTypeInv
  <2>2. wait[d] /\ IF d = "snd" THEN Serial!Full(buff[d]) ELSE Serial!Empty(buff[d])
    BY <2>1 DEF Serial!SleeperIsWoken
  <2>3. wait'[d]
    BY <2>1, <2>2 DEF Serial!usart_inthdr
  <2>4. CASE d = "snd"
    <3>1. ~Serial!Sent
      BY <2>1, <2>2, <2>4 DEF Serial!Wakes
    <3> QED
      BY <1>2, <2>2, <2>3, <2>4, <3>1
  <2>5. CASE d = "rcv"
    <3>1. ~Serial!Stored
      BY <2>1, <2>2, <2>5 DEF Serial!Wakes, Serial!Stored
    <3> QED
      BY <1>2, <2>2, <2>3, <2>5, <3>1
  <2> QED
    BY <2>4, <2>5 DEF Serial!Dir
<1>16. Serial!LossIsTold'
  BY DEF Serial!usart_inthdr, Serial!LossIsTold
<1> QED
  BY <1>2, <1>6, <1>12, <1>13, <1>14, <1>15, <1>16

(* dev_ser_openfn empties the buffers and forgets who waited. *)
LEMMA OpenStep ==
  ASSUME BUFFSIZE \in Nat \ {0}, SerialInv, Serial!dev_ser_openfn
  PROVE  SerialInv'
<1> USE DEF SerialInv
<1>1. \A d \in Serial!Dir : serpc[d] = "idle"
  BY DEF Serial!dev_ser_openfn, Serial!start_com, Session
<1>2. \A d \in Serial!Dir : /\ Serial!buff_init(buff[d]) \in Serial!Buffer /\ Serial!Empty(Serial!buff_init(buff[d]))
                     /\ Serial!Holds(Serial!buff_init(buff[d]), << >>)
  <2> TAKE d \in Serial!Dir
  <2>1. Serial!buff_init(buff[d]) \in Serial!Buffer /\ Serial!Empty(Serial!buff_init(buff[d]))
    BY DEF SerialTypeInv, Serial!buff_init, Serial!Buffer, Serial!Empty
  <2> QED
    BY <2>1, EmptyHolds
<1>3. \A d \in Serial!Dir : buff'[d] = Serial!buff_init(buff[d]) /\ owed'[d] = << >>
  BY DEF Serial!dev_ser_openfn, Serial!start_com
<1>4. /\ buff' \in [Serial!Dir -> Serial!Buffer] /\ owed' \in [Serial!Dir -> Seq(Byte)]
      /\ wait' \in [Serial!Dir -> BOOLEAN]
  BY <1>2 DEF Serial!dev_ser_openfn, Serial!start_com
<1>5. SerialTypeInv'
  BY <1>4 DEF Serial!dev_ser_openfn, Serial!start_com, SerialTypeInv
<1>6. Serial!HoldsOwed'
  BY <1>2, <1>3 DEF Serial!HoldsOwed
<1>7. Session' /\ Serial!SleeperIsWoken' /\ Serial!LossIsTold'
  BY <1>1, <1>2, <1>3 DEF Serial!dev_ser_openfn, Serial!start_com, Session, Serial!SleeperIsWoken, Serial!LossIsTold, Serial!told, Serial!Dir
<1> QED
  BY <1>5, <1>6, <1>7

(* The other steps leave the buffers alone. *)
LEMMA OtherStep ==
  ASSUME BUFFSIZE \in Nat \ {0}, SerialInv,
         \/ Serial!dev_ser_closefn \/ Serial!read_atr \/ Serial!Uart
         \/ \E d \in Serial!Dir : Serial!Begin(d) \/ Serial!GoToSleep(d) \/ Serial!tk_slp_tsk(d) \/ Serial!Elsewhere(d)
         \/ \E speed \in Speed : Serial!write_atr(speed)
  PROVE  SerialInv' /\ UNCHANGED << buff, owed >>
<1> USE DEF SerialInv
<1>1. CASE Serial!dev_ser_closefn
  BY <1>1 DEF Serial!dev_ser_closefn, Serial!stop_com, SerialTypeInv, Serial!HoldsOwed, Session, Serial!SleeperIsWoken, Serial!LossIsTold,
     Serial!told, Serial!Dir
<1>2. ASSUME NEW speed \in Speed, Serial!write_atr(speed) PROVE SerialInv' /\ UNCHANGED << buff, owed >>
  BY <1>2 DEF Serial!write_atr, Serial!set_baudrate, SerialTypeInv, Serial!HoldsOwed, Session, Serial!SleeperIsWoken, Serial!LossIsTold, Serial!uart
<1>3. CASE Serial!read_atr
  BY <1>3 DEF Serial!read_atr, SerialTypeInv, Serial!HoldsOwed, Session, Serial!SleeperIsWoken, Serial!LossIsTold, Serial!uart
<1>4. CASE Serial!Uart
  <2>1. inflight' \in Nat
    BY <1>4 DEF Serial!Uart, SerialTypeInv
  <2>2. open /\ (inflight > 0 \/ "TXDRDY" \in uartevent) => inflight' > 0 \/ "TXDRDY" \in uartevent'
    BY <1>4 DEF Serial!Uart, SerialTypeInv
  <2> QED
    BY <1>4, <2>1, <2>2
       DEF Serial!Uart, SerialTypeInv, Serial!HoldsOwed, Session, Serial!SleeperIsWoken, Serial!LossIsTold, Serial!told
<1>5. ASSUME NEW d \in Serial!Dir, Serial!Begin(d) PROVE SerialInv' /\ UNCHANGED << buff, owed >>
  <2>1. /\ left' \in [Serial!Dir -> Int] /\ serpc' \in [Serial!Dir -> {"idle", "loop", "sleep"}]
        /\ tail' \in 0 .. BUFFSIZE - 1
    BY <1>5 DEF Serial!Begin, SerialTypeInv, Serial!Buffer
  <2>2. SerialTypeInv' /\ Serial!HoldsOwed' /\ Serial!LossIsTold'
    BY <1>5, <2>1 DEF Serial!Begin, SerialTypeInv, Serial!HoldsOwed, Serial!LossIsTold, Serial!uart, Serial!told
  <2>3. Session' /\ Serial!SleeperIsWoken'
    BY <1>5 DEF Serial!Begin, SerialTypeInv, Session, Serial!SleeperIsWoken, Serial!uart, Serial!Dir
  <2> QED
    BY <1>5, <2>2, <2>3 DEF Serial!Begin
<1>6. ASSUME NEW d \in Serial!Dir, Serial!GoToSleep(d) PROVE SerialInv' /\ UNCHANGED << buff, owed >>
  <2>1. SerialTypeInv' /\ Serial!HoldsOwed' /\ Serial!LossIsTold' /\ Session'
    BY <1>6 DEF Serial!GoToSleep, SerialTypeInv, Serial!HoldsOwed, Serial!LossIsTold, Session, Serial!uart, Serial!told
  <2>2. Serial!SleeperIsWoken'
    BY <1>6 DEF Serial!GoToSleep, SerialTypeInv, Session, Serial!SleeperIsWoken, Serial!Empty, Serial!Dir
  <2> QED
    BY <1>6, <2>1, <2>2 DEF Serial!GoToSleep
<1>7. ASSUME NEW d \in Serial!Dir, Serial!tk_slp_tsk(d) PROVE SerialInv' /\ UNCHANGED << buff, owed >>
  <2>1. wup[d] \in Nat
    BY DEF SerialTypeInv
  <2>2. wup' \in [Serial!Dir -> Nat]
    <3>1. CASE wup[d] > 0 /\ wup' = [wup EXCEPT ![d] = wup[d] - 1]
      <4>1. wup[d] - 1 \in Nat
        BY <2>1, <3>1
      <4> QED
        BY <3>1, <4>1 DEF SerialTypeInv
    <3>2. CASE UNCHANGED wup
      BY <3>2 DEF SerialTypeInv
    <3> QED
      BY <1>7, <3>1, <3>2 DEF Serial!tk_slp_tsk
  <2>3. serpc' \in [Serial!Dir -> {"idle", "loop", "sleep"}]
    BY <1>7 DEF Serial!tk_slp_tsk, SerialTypeInv
  <2>4. SerialTypeInv' /\ Serial!HoldsOwed' /\ Serial!LossIsTold'
    BY <1>7, <2>2, <2>3 DEF Serial!tk_slp_tsk, SerialTypeInv, Serial!HoldsOwed, Serial!LossIsTold, Serial!uart, Serial!told
  <2>5. Session' /\ Serial!SleeperIsWoken'
    BY <1>7 DEF Serial!tk_slp_tsk, SerialTypeInv, Session, Serial!SleeperIsWoken, Serial!uart, Serial!Dir
  <2> QED
    BY <1>7, <2>4, <2>5 DEF Serial!tk_slp_tsk
<1>8. ASSUME NEW d \in Serial!Dir, Serial!Elsewhere(d) PROVE SerialInv' /\ UNCHANGED << buff, owed >>
  <2>1. wup' \in [Serial!Dir -> Nat]
    BY <1>8 DEF Serial!Elsewhere, SerialTypeInv
  <2>2. SerialTypeInv' /\ Serial!HoldsOwed' /\ Serial!LossIsTold' /\ Session'
    BY <1>8, <2>1 DEF Serial!Elsewhere, SerialTypeInv, Serial!HoldsOwed, Serial!LossIsTold, Session, Serial!uart, Serial!told
  <2>3. Serial!SleeperIsWoken'
    BY <1>8 DEF Serial!Elsewhere, SerialTypeInv, Serial!SleeperIsWoken
  <2> QED
    BY <1>8, <2>2, <2>3 DEF Serial!Elsewhere
<1> QED
  BY <1>1, <1>2, <1>3, <1>4, <1>5, <1>6, <1>7, <1>8

(* The body of InOrder. *)
LeavesInOrder ==
  \A d \in Serial!Dir : open /\ owed'[d] # owed[d] /\ Len(owed'[d]) < Len(owed[d])
    => out'[d] = Head(owed[d])

(* Each step keeps the invariant and the order. *)
LEMMA SerialStepHolds ==
  ASSUME BUFFSIZE \in Nat \ {0}
  PROVE  SerialInv /\ [Serial!Next]_(Serial!vars) => SerialInv' /\ (LeavesInOrder \/ UNCHANGED Serial!vars)
<1> SUFFICES ASSUME SerialInv, [Serial!Next]_(Serial!vars) PROVE SerialInv' /\ (LeavesInOrder \/ UNCHANGED Serial!vars)
  OBVIOUS
<1>1. \A d \in Serial!Dir : owed[d] \in Seq(Byte)
  BY DEF SerialInv, SerialTypeInv
<1>2. CASE Serial!dev_ser_openfn
  BY <1>2, OpenStep DEF Serial!dev_ser_openfn, Serial!start_com, LeavesInOrder
<1>3. ASSUME NEW x \in Byte, Serial!write_data(x) PROVE SerialInv' /\ LeavesInOrder
  <2>1. \/ UNCHANGED owed
        \/ owed'["snd"] = Append(owed["snd"], x) /\ owed'["rcv"] = owed["rcv"]
    BY <1>3 DEF Serial!write_data, SerialInv, SerialTypeInv, Serial!Dir
  <2>2. LeavesInOrder
    BY <1>1, <2>1 DEF LeavesInOrder, Serial!Dir
  <2> QED
    BY <1>3, <2>2, WriteStep
<1>4. CASE Serial!read_data
  <2>1. SerialInv' /\ out'["rcv"] = Head(owed["rcv"])
    BY <1>4, ReadStep
  <2>2. owed'["snd"] = owed["snd"]
    BY <1>4 DEF Serial!read_data, SerialInv, SerialTypeInv, Serial!Dir
  <2> QED
    BY <2>1, <2>2 DEF LeavesInOrder, Serial!Dir
<1>5. ASSUME NEW x \in Byte, Serial!usart_inthdr(x) PROVE SerialInv' /\ LeavesInOrder
  <2>1. /\ SerialInv'
        /\ Serial!Sent => out'["snd"] = Head(owed["snd"])
        /\ ~Serial!Sent => owed'["snd"] = owed["snd"]
        /\ owed'["rcv"] = IF Serial!Stored THEN Append(owed["rcv"], x) ELSE owed["rcv"]
    BY <1>5, UartStep
  <2>2. ~(Len(owed'["rcv"]) < Len(owed["rcv"]))
    BY <1>1, <2>1 DEF Serial!Dir
  <2> QED
    BY <2>1, <2>2 DEF LeavesInOrder, Serial!Dir
<1>6. ASSUME UNCHANGED << buff, owed >> PROVE LeavesInOrder
  BY <1>6 DEF LeavesInOrder
<1>7. CASE Serial!dev_ser_closefn \/ Serial!read_atr \/ Serial!Uart
  BY <1>6, <1>7, OtherStep
<1>8. ASSUME NEW speed \in Speed, Serial!write_atr(speed) PROVE SerialInv' /\ LeavesInOrder
  BY <1>6, <1>8, OtherStep
<1>9. ASSUME NEW d \in Serial!Dir, Serial!Begin(d) \/ Serial!GoToSleep(d) \/ Serial!tk_slp_tsk(d) \/ Serial!Elsewhere(d)
       PROVE  SerialInv' /\ LeavesInOrder
  BY <1>6, <1>9, OtherStep
<1>10. CASE UNCHANGED Serial!vars
  <2>1. SerialTypeInv'
    BY <1>10 DEF Serial!vars, Serial!uart, Serial!told, SerialInv, SerialTypeInv
  <2>2. Serial!HoldsOwed' /\ Serial!SleeperIsWoken' /\ Serial!LossIsTold'
    BY <1>10 DEF Serial!vars, Serial!uart, Serial!told, SerialInv, Serial!HoldsOwed, Serial!SleeperIsWoken, Serial!LossIsTold
  <2>3. Session'
    BY <1>10 DEF Serial!vars, Serial!uart, Serial!told, SerialInv, Session
  <2> QED
    BY <1>10, <2>1, <2>2, <2>3 DEF SerialInv
<1>11. CASE Serial!Next
  BY <1>2, <1>3, <1>4, <1>5, <1>11, <1>7, <1>8, <1>9 DEF Serial!Next
<1> QED
  BY <1>10, <1>11

(* The invariant holds throughout. *)
LEMMA SerialInvariance == ASSUME BUFFSIZE \in Nat \ {0} PROVE Serial!Spec => []SerialInv
<1>1. SerialInv /\ [Serial!Next]_(Serial!vars) => SerialInv'
  BY SerialStepHolds
<1> QED
  BY SerialInitHolds, <1>1, PTL DEF Serial!Spec

(* The buffers hold what is owed, in order (dev_ser_get_snddat,
   dev_ser_notify_rcv, read_data and write_data). *)
THEOREM BuffersHold == ASSUME BUFFSIZE \in Nat \ {0} PROVE Serial!Spec => []Serial!HoldsOwed
  BY SerialInvariance, PTL DEF SerialInv

(* No byte overtakes another in either direction. *)
THEOREM BytesInOrder == ASSUME BUFFSIZE \in Nat \ {0} PROVE Serial!Spec => Serial!InOrder
<1>1. SerialInv /\ [Serial!Next]_(Serial!vars) => [LeavesInOrder]_(Serial!vars)
  BY SerialStepHolds
<1> QED
  BY SerialInvariance, <1>1, PTL DEF Serial!Spec, Serial!InOrder, LeavesInOrder

(* The transmitter does not stall with bytes to send: txrdy and TXDRDY agree
   (ser_nrf5.c, usart_inthdr and LLD_SER_SEND). *)
THEOREM TransmitterNeverStalls ==
  ASSUME BUFFSIZE \in Nat \ {0} PROVE Serial!Spec => []Serial!NeverStalls
<1>1. SerialInv => Serial!NeverStalls
  BY DEF SerialInv, Session, Serial!NeverStalls
<1> QED
  BY SerialInvariance, <1>1, PTL

(* No wake-up is lost between the look at a buffer and tk_slp_tsk, whatever
   time-outs leave behind. *)
THEOREM SleepersAreWoken == ASSUME BUFFSIZE \in Nat \ {0} PROVE Serial!Spec => []Serial!SleeperIsWoken
  BY SerialInvariance, PTL DEF SerialInv

(* An overrun is told to whoever reads the errors next. *)
THEOREM LossesAreTold == ASSUME BUFFSIZE \in Nat \ {0} PROVE Serial!Spec => []Serial!LossIsTold
  BY SerialInvariance, PTL DEF SerialInv

-----------------------------------------------------------------------------
(***************************************************************************)
(* The locks: of one FastLock, and of the locks of one FastMLock.          *)
(***************************************************************************)
CONSTANTS Task, Lock
VARIABLES cnt, semcnt, place
VARIABLES wai, flg, flgptn, at, no, held

Fast == INSTANCE FastLock WITH pc <- place
Multi == INSTANCE FastMLock WITH pc <- at

-----------------------------------------------------------------------------
(***************************************************************************)
(* The lock.  There is one token: whoever is in the lock or about to       *)
(* signal has it, or the semaphore; and cnt is the number of tasks in the  *)
(* lock or waiting for it, less one.                                       *)
(***************************************************************************)
FastInside == Fast!At("in") \cup Fast!At("wait")
Token == Fast!At("in") \cup Fast!At("signal")

(* The inductive invariant. *)
FastTypeInv ==
  /\ cnt \in Int /\ semcnt \in {0, 1}
  /\ place \in [Task -> {"out", "wait", "in", "signal"}]
FastCounted == IsFiniteSet(FastInside) /\ cnt = Cardinality(FastInside) - 1
OneToken ==
  /\ \A t, u \in Token : t = u
  /\ semcnt = 1 => Token = {}
  /\ FastInside # {} <=> semcnt = 1 \/ Token # {}
FastInv == FastTypeInv /\ FastCounted /\ OneToken

(* The count is -1, as CreateLock leaves it, when nobody is inside. *)
LEMMA FastInitHolds == Fast!Init => FastInv
<1> SUFFICES ASSUME Fast!Init PROVE FastInv
  OBVIOUS
<1>1. FastInside = {} /\ Token = {}
  BY DEF Fast!Init, FastInside, Token, Fast!At
<1>2. FastTypeInv
  BY DEF Fast!Init, FastTypeInv
<1>3. FastCounted
  BY <1>1, FS_EmptySet DEF FastCounted, Fast!Init
<1>4. OneToken
  BY <1>1 DEF OneToken, Fast!Init
<1> QED
  BY <1>2, <1>3, <1>4 DEF FastInv

(* Each step of the code keeps the count and hands on the one token. *)
LEMMA FastStepHolds == FastInv /\ [Fast!Next]_(Fast!vars) => FastInv'
<1> SUFFICES ASSUME FastInv, [Fast!Next]_(Fast!vars) PROVE FastInv'
  OBVIOUS
<1> USE DEF FastInv
<1>1. ASSUME NEW t \in Task, Fast!Lock(t) PROVE FastInv'
  <2>1. t \notin FastInside /\ t \notin Token
    BY <1>1 DEF Fast!Lock, Fast!Inc, FastInside, Token, Fast!At
  <2>2. FastInside' = FastInside \cup {t}
    BY <1>1 DEF Fast!Lock, Fast!Inc, FastInside, Fast!At, FastTypeInv
  <2>3. FastCounted'
    <3>1. IsFiniteSet(FastInside') /\ Cardinality(FastInside') = Cardinality(FastInside) + 1
      BY <2>1, <2>2, FS_AddElement DEF FastCounted
    <3> QED
      BY <1>1, <3>1, FS_CardinalityType DEF Fast!Lock, Fast!Inc, FastCounted, FastTypeInv
  <2>4. FastTypeInv'
    BY <1>1 DEF Fast!Lock, Fast!Inc, FastTypeInv
  <2>5. CASE cnt + 1 > 0
    <3>1. Token' = Token
      BY <1>1, <2>5 DEF Fast!Lock, Fast!Inc, Token, Fast!At, FastTypeInv
    <3>2. FastInside # {}
      BY <2>5, FS_EmptySet DEF FastCounted, FastTypeInv
    <3> QED
      BY <1>1, <2>2, <2>3, <2>4, <3>1, <3>2 DEF Fast!Lock, Fast!Inc, OneToken
  <2>6. CASE ~(cnt + 1 > 0)
    <3>1. Cardinality(FastInside) = 0
      BY <2>6, FS_CardinalityType DEF FastCounted, FastTypeInv
    <3>2. FastInside = {}
      BY <3>1, FS_EmptySet DEF FastCounted
    <3>3. Token' = Token \cup {t}
      BY <1>1, <2>6 DEF Fast!Lock, Fast!Inc, Token, Fast!At, FastTypeInv
    <3> QED
      BY <1>1, <2>2, <2>3, <2>4, <3>2, <3>3 DEF Fast!Lock, Fast!Inc, OneToken
  <2> QED
    BY <2>5, <2>6
<1>2. ASSUME NEW t \in Task, Fast!tk_wai_sem(t) PROVE FastInv'
  <2>1. semcnt = 1 /\ semcnt' = 0 /\ t \in FastInside
    BY <1>2 DEF Fast!tk_wai_sem, FastTypeInv, FastInside, Fast!At
  <2>2. FastInside' = FastInside
    BY <1>2 DEF Fast!tk_wai_sem, FastInside, Fast!At, FastTypeInv
  <2>3. Token' = Token \cup {t}
    BY <1>2 DEF Fast!tk_wai_sem, Token, Fast!At, FastTypeInv
  <2>4. FastTypeInv' /\ FastCounted'
    BY <1>2, <2>1, <2>2 DEF Fast!tk_wai_sem, FastTypeInv, FastCounted
  <2>5. OneToken'
    BY <2>1, <2>2, <2>3 DEF OneToken
  <2> QED
    BY <2>4, <2>5
<1>3. ASSUME NEW t \in Task, Fast!Unlock(t) PROVE FastInv'
  <2>1. t \in FastInside /\ t \in Token /\ semcnt = 0 /\ semcnt' = 0
    BY <1>3 DEF Fast!Unlock, Fast!Dec, FastInside, Token, Fast!At, FastTypeInv, OneToken
  <2>2. FastInside' = FastInside \ {t}
    BY <1>3 DEF Fast!Unlock, Fast!Dec, FastInside, Fast!At, FastTypeInv
  <2>3. FastTypeInv'
    BY <1>3 DEF Fast!Unlock, Fast!Dec, FastTypeInv
  <2>4. Cardinality(FastInside') = Cardinality(FastInside) - 1 /\ IsFiniteSet(FastInside')
    BY <2>1, <2>2, FS_RemoveElement DEF FastCounted
  <2>5. FastCounted'
    BY <1>3, <2>4, FS_CardinalityType DEF Fast!Unlock, Fast!Dec, FastCounted, FastTypeInv
  <2>6. CASE cnt > 0
    <3>1. Token' = Token
      BY <1>3, <2>6 DEF Fast!Unlock, Fast!Dec, Token, Fast!At, FastTypeInv
    <3>2. FastInside' # {}
      BY <2>4, <2>6, FS_EmptySet DEF FastCounted, FastTypeInv
    <3> QED
      BY <2>1, <2>3, <2>5, <3>1, <3>2 DEF OneToken
  <2>7. CASE ~(cnt > 0)
    <3>1. Cardinality(FastInside') = 0
      BY <2>4, <2>7, FS_CardinalityType DEF FastCounted, FastTypeInv
    <3>2. FastInside' = {}
      BY <2>4, <3>1, FS_EmptySet
    <3>3. Token' = Token \ {t}
      BY <1>3, <2>7 DEF Fast!Unlock, Fast!Dec, Token, Fast!At, FastTypeInv
    <3>4. Token' = {}
      BY <2>1, <3>3 DEF OneToken
    <3> QED
      BY <2>1, <2>3, <2>5, <3>2, <3>4 DEF OneToken
  <2> QED
    BY <2>6, <2>7
<1>4. ASSUME NEW t \in Task, Fast!tk_sig_sem(t) PROVE FastInv'
  <2>1. t \in Token /\ semcnt = 0 /\ semcnt' = 1
    BY <1>4 DEF Fast!tk_sig_sem, Token, Fast!At, FastTypeInv, OneToken
  <2>2. FastInside' = FastInside
    BY <1>4 DEF Fast!tk_sig_sem, FastInside, Fast!At, FastTypeInv
  <2>3. Token' = Token \ {t}
    BY <1>4 DEF Fast!tk_sig_sem, Token, Fast!At, FastTypeInv
  <2>4. Token' = {}
    BY <2>1, <2>3 DEF OneToken
  <2>5. FastTypeInv' /\ FastCounted'
    BY <1>4, <2>1, <2>2 DEF Fast!tk_sig_sem, FastTypeInv, FastCounted
  <2> QED
    BY <2>1, <2>2, <2>4, <2>5 DEF OneToken
<1>5. CASE UNCHANGED Fast!vars
  BY <1>5 DEF Fast!vars, FastTypeInv, FastCounted, OneToken, FastInside, Token, Fast!At
<1> QED
  BY <1>1, <1>2, <1>3, <1>4, <1>5 DEF Fast!Next

(* The invariant holds throughout. *)
LEMMA FastInvariance == Fast!Spec => []FastInv
  BY FastInitHolds, FastStepHolds, PTL DEF Fast!Spec

(* Nobody who waits for the lock is forgotten by those who leave it
   (fastlock.c, Fast!Lock and Fast!Unlock). *)
THEOREM FastForgetsNobody == Fast!Spec => []Fast!NobodyForgotten
<1>1. FastInv => Fast!NobodyForgotten
  BY DEF FastInv, OneToken, Fast!NobodyForgotten, FastInside, Token
<1> QED
  BY FastInvariance, <1>1, PTL

(* No signal of Fast!Unlock exceeds the semaphore's maximum. *)
THEOREM LosesNoSignal == Fast!Spec => []Fast!NoSignalRefused
<1>1. FastInv => Fast!NoSignalRefused
  BY DEF FastInv, OneToken, FastTypeInv, Fast!NoSignalRefused, Token
<1> QED
  BY FastInvariance, <1>1, PTL

(* The lock implements mutual exclusion: who enters finds it empty, whether
   the count let the task in or the semaphore. *)
THEOREM LockExcludes == Fast!Spec => Fast!Exclusion_!Spec
<1>1. Fast!Init => Fast!Exclusion_!Init
  BY DEF Fast!Init, Fast!Exclusion_!Init, Fast!Holders, Fast!At
<1>2. FastInv /\ [Fast!Next]_(Fast!vars) => [Fast!Exclusion_!Next]_(Fast!Holders)
  <2> SUFFICES ASSUME FastInv, [Fast!Next]_(Fast!vars) PROVE [Fast!Exclusion_!Next]_(Fast!Holders)
    OBVIOUS
  <2> USE DEF FastInv
  <2>1. ASSUME NEW t \in Task, Fast!Lock(t) PROVE [Fast!Exclusion_!Next]_(Fast!Holders)
    <3>1. CASE cnt + 1 > 0
      BY <2>1, <3>1 DEF Fast!Lock, Fast!Inc, Fast!Holders, Fast!At, FastTypeInv
    <3>2. CASE ~(cnt + 1 > 0)
      <4>1. Cardinality(FastInside) = 0
        BY <3>2, FS_CardinalityType DEF FastCounted, FastTypeInv
      <4>2. FastInside = {}
        BY <4>1, FS_EmptySet DEF FastCounted
      <4>3. Fast!Holders = {} /\ Fast!Holders' = {t}
        BY <2>1, <3>2, <4>2 DEF Fast!Lock, Fast!Inc, Fast!Holders, FastInside, Fast!At, FastTypeInv
      <4> QED
        BY <4>3 DEF Fast!Exclusion_!Next, Fast!Exclusion_!Acquire
    <3> QED
      BY <3>1, <3>2
  <2>2. ASSUME NEW t \in Task, Fast!tk_wai_sem(t) PROVE [Fast!Exclusion_!Next]_(Fast!Holders)
    <3>1. Token = {}
      BY <2>2 DEF Fast!tk_wai_sem, FastTypeInv, OneToken
    <3>2. Fast!Holders = {} /\ Fast!Holders' = {t}
      BY <2>2, <3>1 DEF Fast!tk_wai_sem, Fast!Holders, Token, Fast!At, FastTypeInv
    <3> QED
      BY <3>2 DEF Fast!Exclusion_!Next, Fast!Exclusion_!Acquire
  <2>3. ASSUME NEW t \in Task, Fast!Unlock(t) PROVE [Fast!Exclusion_!Next]_(Fast!Holders)
    <3>1. Fast!Holders = {t}
      BY <2>3 DEF Fast!Unlock, Fast!Dec, Fast!Holders, Token, Fast!At, OneToken
    <3>2. Fast!Holders' = {}
      BY <2>3, <3>1 DEF Fast!Unlock, Fast!Dec, Fast!Holders, Fast!At, FastTypeInv
    <3> QED
      BY <3>1, <3>2 DEF Fast!Exclusion_!Next, Fast!Exclusion_!Release
  <2>4. ASSUME NEW t \in Task, Fast!tk_sig_sem(t) PROVE [Fast!Exclusion_!Next]_(Fast!Holders)
    BY <2>4 DEF Fast!tk_sig_sem, Fast!Holders, Fast!At, FastTypeInv
  <2>5. CASE UNCHANGED Fast!vars
    BY <2>5 DEF Fast!vars, Fast!Holders, Fast!At
  <2> QED
    BY <2>1, <2>2, <2>3, <2>4, <2>5 DEF Fast!Next
<1> QED
  BY FastInvariance, <1>1, <1>2, PTL DEF Fast!Spec, Fast!Exclusion_!Spec

-----------------------------------------------------------------------------
(***************************************************************************)
(* The multi-lock.  The bit of a lock says whether it is held, and the     *)
(* count is the number of tasks between INC and DEC.                       *)
(***************************************************************************)
Wanting == { t \in Task : at[t] \in {"test", "wait", "done"} }

(* The inductive invariant, to which NobodyForgotten belongs. *)
LockTypeInv ==
  /\ wai \in Int /\ flg \in SUBSET Lock /\ flgptn \in SUBSET Lock
  /\ at \in [Task -> {"idle", "test", "wait", "done", "unlock", "set"}]
  /\ no \in [Task -> Lock]
  /\ held \in [Lock -> SUBSET Task]
Counted == IsFiniteSet(Wanting) /\ wai = Cardinality(Wanting)
BitsTellHolders ==
  \A l \in Lock :
    /\ l \in flg <=> held[l] # {}
    /\ \A t, u \in held[l] : t = u
LockInv == LockTypeInv /\ Counted /\ BitsTellHolders /\ Multi!NobodyForgotten

(* CreateMLock leaves the multi-lock free. *)
LEMMA LockInitHolds == Multi!Init => LockInv
<1> SUFFICES ASSUME Multi!Init PROVE LockInv
  OBVIOUS
<1>1. Wanting = {}
  BY DEF Multi!Init, Wanting
<1>2. Counted
  BY <1>1, FS_EmptySet DEF Counted, Multi!Init
<1>3. LockTypeInv /\ BitsTellHolders /\ Multi!NobodyForgotten
  BY DEF Multi!Init, LockTypeInv, BitsTellHolders, Multi!NobodyForgotten, Multi!Busy
<1> QED
  BY <1>2, <1>3 DEF LockInv

(* If the count is zero, nobody waits. *)
LEMMA ZeroMeansNobody == LockTypeInv /\ Counted /\ wai = 0 => Wanting = {}
  BY FS_EmptySet DEF Counted

(* Each access of the code keeps the invariant. *)
LEMMA LockStepHolds == LockInv /\ [Multi!Next]_(Multi!vars) => LockInv'
<1> SUFFICES ASSUME LockInv, [Multi!Next]_(Multi!vars) PROVE LockInv'
  OBVIOUS
<1> USE DEF LockInv
<1>1. ASSUME NEW t \in Task, NEW l \in Lock, Multi!MLockTmo(t, l) PROVE LockInv'
  <2>1. Wanting' = Wanting \cup {t} /\ t \notin Wanting
    BY <1>1 DEF Multi!MLockTmo, Multi!INC, Multi!Goto, Wanting, LockTypeInv
  <2>2. IsFiniteSet(Wanting') /\ Cardinality(Wanting') = Cardinality(Wanting) + 1
    BY <2>1, FS_AddElement DEF Counted
  <2>3. Counted'
    BY <1>1, <2>2, FS_CardinalityType DEF Multi!MLockTmo, Multi!INC, Counted
  <2>4. LockTypeInv' /\ BitsTellHolders'
    BY <1>1 DEF Multi!MLockTmo, Multi!INC, Multi!Goto, LockTypeInv, BitsTellHolders
  <2>5. Multi!NobodyForgotten'
    BY <1>1 DEF Multi!MLockTmo, Multi!INC, Multi!Goto, LockTypeInv, Multi!NobodyForgotten, Multi!Busy
  <2> QED
    BY <2>3, <2>4, <2>5
<1>2. ASSUME NEW t \in Task, Multi!BTS(t) PROVE LockInv'
  <2>1. Wanting' = Wanting
    BY <1>2 DEF Multi!BTS, Multi!Goto, Wanting, LockTypeInv
  <2>2. Counted'
    BY <1>2, <2>1 DEF Multi!BTS, Counted
  <2>3. LockTypeInv' /\ BitsTellHolders'
    BY <1>2 DEF Multi!BTS, Multi!Goto, LockTypeInv, BitsTellHolders
  <2>4. Multi!NobodyForgotten'
    BY <1>2 DEF Multi!BTS, Multi!Goto, LockTypeInv, Multi!NobodyForgotten, Multi!Busy
  <2> QED
    BY <2>2, <2>3, <2>4
<1>3. ASSUME NEW t \in Task, Multi!tk_wai_flg(t) PROVE LockInv'
  <2>1. Wanting' = Wanting
    BY <1>3 DEF Multi!tk_wai_flg, Multi!Goto, Wanting, LockTypeInv
  <2>2. Counted'
    BY <1>3, <2>1 DEF Multi!tk_wai_flg, Counted
  <2>3. LockTypeInv' /\ BitsTellHolders'
    BY <1>3 DEF Multi!tk_wai_flg, Multi!Goto, LockTypeInv, BitsTellHolders
  <2>4. Multi!NobodyForgotten'
    BY <1>3 DEF Multi!tk_wai_flg, Multi!Goto, LockTypeInv, Multi!NobodyForgotten, Multi!Busy
  <2> QED
    BY <2>2, <2>3, <2>4
<1>4. ASSUME NEW t \in Task, Multi!DEC(t) PROVE LockInv'
  <2>1. Wanting' = Wanting \ {t} /\ t \in Wanting
    BY <1>4 DEF Multi!DEC, Multi!Goto, Wanting, LockTypeInv
  <2>2. IsFiniteSet(Wanting') /\ Cardinality(Wanting') = Cardinality(Wanting) - 1
    BY <2>1, FS_RemoveElement DEF Counted
  <2>3. Counted'
    BY <1>4, <2>2, FS_CardinalityType DEF Multi!DEC, Counted
  <2>4. LockTypeInv' /\ BitsTellHolders'
    BY <1>4 DEF Multi!DEC, Multi!Goto, LockTypeInv, BitsTellHolders
  <2>5. Multi!NobodyForgotten'
    BY <1>4 DEF Multi!DEC, Multi!Goto, LockTypeInv, Multi!NobodyForgotten, Multi!Busy
  <2> QED
    BY <2>3, <2>4, <2>5
<1>5. ASSUME NEW t \in Task, NEW l \in Lock, Multi!MUnlock(t, l) PROVE LockInv'
  <2>1. Wanting' = Wanting
    BY <1>5 DEF Multi!MUnlock, Multi!BR, Multi!Goto, Wanting, LockTypeInv
  <2>2. Counted'
    BY <1>5, <2>1 DEF Multi!MUnlock, Multi!BR, Counted
  <2>3. LockTypeInv' /\ BitsTellHolders'
    BY <1>5 DEF Multi!MUnlock, Multi!BR, Multi!Goto, LockTypeInv, BitsTellHolders
  <2>4. Multi!NobodyForgotten'
    BY <1>5 DEF Multi!MUnlock, Multi!BR, Multi!Goto, LockTypeInv, Multi!NobodyForgotten, Multi!Busy
  <2> QED
    BY <2>2, <2>3, <2>4
<1>6. ASSUME NEW t \in Task, Multi!AnyoneWaiting(t) PROVE LockInv'
  <2>1. Wanting' = Wanting
    BY <1>6 DEF Multi!AnyoneWaiting, Multi!Goto, Wanting, LockTypeInv
  <2>2. Counted'
    BY <1>6, <2>1 DEF Multi!AnyoneWaiting, Counted
  <2>3. LockTypeInv' /\ BitsTellHolders'
    BY <1>6 DEF Multi!AnyoneWaiting, Multi!Goto, LockTypeInv, BitsTellHolders
  <2>4. Multi!NobodyForgotten'
    <3>1. CASE wai = 0
      <4>1. Wanting' = {}
        BY <2>1, <3>1, ZeroMeansNobody
      <4> QED
        BY <4>1 DEF Multi!NobodyForgotten, Wanting, Multi!Busy
    <3>2. CASE wai # 0
      BY <1>6, <3>2 DEF Multi!AnyoneWaiting, Multi!Goto, LockTypeInv, Multi!NobodyForgotten, Multi!Busy
    <3> QED
      BY <3>1, <3>2
  <2> QED
    BY <2>2, <2>3, <2>4
<1>7. ASSUME NEW t \in Task, Multi!tk_set_flg(t) PROVE LockInv'
  <2>1. Wanting' = Wanting
    BY <1>7 DEF Multi!tk_set_flg, Multi!Goto, Wanting, LockTypeInv
  <2>2. Counted'
    BY <1>7, <2>1 DEF Multi!tk_set_flg, Counted
  <2>3. LockTypeInv' /\ BitsTellHolders'
    BY <1>7 DEF Multi!tk_set_flg, Multi!Goto, LockTypeInv, BitsTellHolders
  <2>4. Multi!NobodyForgotten'
    BY <1>7 DEF Multi!tk_set_flg, Multi!Goto, LockTypeInv, Multi!NobodyForgotten, Multi!Busy
  <2> QED
    BY <2>2, <2>3, <2>4
<1>8. CASE UNCHANGED Multi!vars
  BY <1>8 DEF Multi!vars, LockTypeInv, Counted, BitsTellHolders, Multi!NobodyForgotten, Wanting, Multi!Busy
<1> QED
  BY <1>1, <1>2, <1>3, <1>4, <1>5, <1>6, <1>7, <1>8 DEF Multi!Next, Multi!Step

(* The invariant holds throughout. *)
LEMMA LockInvariance == Multi!Spec => []LockInv
  BY LockInitHolds, LockStepHolds, PTL DEF Multi!Spec

(* Whoever waits for a lock that is free is told or overtaken, although
   MUnlock reads the count with nothing disabled (fastmlock.c:120). *)
THEOREM LocksForgetNobody == Multi!Spec => []Multi!NobodyForgotten
  BY LockInvariance, PTL DEF LockInv

(* Each lock of the multi-lock implements mutual exclusion. *)
THEOREM LocksExclude == \A l \in Lock : Multi!Spec => Multi!Exclusion_(l)!Spec
<1> TAKE l \in Lock
<1>1. Multi!Init => Multi!Exclusion_(l)!Init
  BY DEF Multi!Init, Multi!Exclusion_!Init
<1>2. LockInv /\ [Multi!Next]_(Multi!vars) => [Multi!Exclusion_(l)!Next]_(held[l])
  <2> SUFFICES ASSUME LockInv, [Multi!Next]_(Multi!vars) PROVE [Multi!Exclusion_(l)!Next]_(held[l])
    OBVIOUS
  <2> USE DEF LockInv
  <2>1. ASSUME NEW t \in Task, Multi!BTS(t) PROVE [Multi!Exclusion_(l)!Next]_(held[l])
    <3>1. CASE l = no[t] /\ l \notin flg
      BY <2>1, <3>1 DEF Multi!BTS, LockTypeInv, BitsTellHolders, Multi!Exclusion_!Next, Multi!Exclusion_!Acquire
    <3>2. CASE ~(l = no[t] /\ l \notin flg)
      BY <2>1, <3>2 DEF Multi!BTS, LockTypeInv
    <3> QED
      BY <3>1, <3>2
  <2>2. ASSUME NEW t \in Task, NEW m \in Lock, Multi!MUnlock(t, m)
        PROVE [Multi!Exclusion_(l)!Next]_(held[l])
    <3>1. CASE l = m
      BY <2>2, <3>1 DEF Multi!MUnlock, Multi!BR, LockTypeInv, BitsTellHolders, Multi!Exclusion_!Next, Multi!Exclusion_!Release
    <3>2. CASE l # m
      BY <2>2, <3>2 DEF Multi!MUnlock, Multi!BR, LockTypeInv
    <3> QED
      BY <3>1, <3>2
  <2>3. CASE UNCHANGED held
    BY <2>3
  <2> QED
    BY <2>1, <2>2, <2>3 DEF Multi!Next, Multi!Step, Multi!vars, Multi!MLockTmo, Multi!tk_wai_flg, Multi!DEC, Multi!AnyoneWaiting,
      Multi!tk_set_flg
<1> QED
  BY LockInvariance, <1>1, <1>2, PTL DEF Multi!Spec, Multi!Exclusion_!Spec
=============================================================================
