---------------------------- MODULE KernelTimer -----------------------------
(***************************************************************************)
(* The kernel's clock and what it sets off: cyclic handlers, alarm         *)
(* handlers and the time-outs of waiting tasks (kernel/tkernel/timer.c,    *)
(* timer.h, time_calls.c, time_calls.h).                                   *)
(*                                                                         *)
(* The clock and the times of events have W values and wrap around, like   *)
(* the lower 32 bits of the code's; all of them are visited, so that there *)
(* is no bound on the time.  A system call is one critical section.  The   *)
(* timer interrupt is one too, but for the user's handlers: while one of   *)
(* them runs, it and the interrupts above the timer's make calls.          *)
(***************************************************************************)
EXTENDS Integers, Sequences, SequencesExt

CONSTANTS
  Cyc, Alm,           (* the control blocks of cyclic and of alarm handlers *)
  Tcb,                (* tasks, for the time-outs of their waits *)
  ABSTIM_DIFF_MIN,    (* the largest difference that means: reached *)
  TIMER_PERIOD,       (* of the timer interrupt, in milliseconds *)
  Reltims,            (* the times callers give *)
  Off

Event == Cyc \cup Alm \cup Tcb
W == 2 * (ABSTIM_DIFF_MIN + 1)

(* The code lets callers give up to ABSTIM_DIFF_MIN; see the README for what
   becomes of the longest ones. *)
ASSUME KernelTimerAssumption ==
  /\ ABSTIM_DIFF_MIN \in Nat /\ TIMER_PERIOD \in 1 .. ABSTIM_DIFF_MIN
  /\ W % TIMER_PERIOD = 0
  /\ Reltims \subseteq 1 .. ABSTIM_DIFF_MIN + 1 - TIMER_PERIOD
  /\ Cyc \cap Alm = {} /\ Cyc \cap Tcb = {} /\ Alm \cap Tcb = {}
  /\ Off \notin Int

VARIABLES
  current_time,   (* the lower bits of knl_current_time *)
  timer_queue,    (* the events that are set, in the order of their times *)
  time,           (* the time of each event; nobody reads that of an alarm or a
                     wait that is not set, for which 0 stands *)
  stat,           (* of a handler "none", "STP" or "STA"; of a task's wait "STP",
                     "STA" or, without a time-out, "FEVR" *)
  cyctim,         (* of each cyclic handler *)
  phs,            (* whether it has TA_PHS *)
  interrupt,      (* the timer interrupt: "off", "loop" over the queue, "user" handler *)
  due             (* history: what is left of the time asked for *)

vars == << current_time, timer_queue, time, stat, cyctim, phs, interrupt, due >>

Init ==
  /\ current_time = 0
  /\ timer_queue = << >>
  /\ time = [e \in Event |-> 0]
  /\ stat = [e \in Event |-> IF e \in Tcb THEN "STP" ELSE "none"]
  /\ cyctim = [c \in Cyc |-> 1]
  /\ phs = [c \in Cyc |-> FALSE]
  /\ interrupt = "off"
  /\ due = [e \in Event |-> Off]

-----------------------------------------------------------------------------
(***************************************************************************)
(* Times and the queue.                                                    *)
(***************************************************************************)
Minus(a, b) == (a - b) % W
(* Mutant: without a wrap-around. *)
Plus_wide(a, b) == a + b

Plus(a, b) == (a + b) % W

knl_abstim_reached(curtim, evttim) == Minus(curtim, evttim) <= ABSTIM_DIFF_MIN

(* Mutant: as seen from time 0. *)
knl_enqueue_tmeb_plain(queue, times, e) ==
  LET later == { i \in DOMAIN queue : times[e] < times[queue[i]] }
  IN  IF later = {} THEN Append(queue, e) ELSE InsertAt(queue, Min(later), e)

(* Before the first event that is later: as seen from a time so far back that
   all that are set come after it. *)
knl_enqueue_tmeb(queue, times, e) ==
  LET ofs == Minus(current_time, ABSTIM_DIFF_MIN)
      later == { i \in DOMAIN queue : Minus(times[e], ofs) < Minus(times[queue[i]], ofs) }
  IN  IF later = {} THEN Append(queue, e) ELSE InsertAt(queue, Min(later), e)

(* An event that is not in the queue is its own neighbour: nothing happens. *)
knl_timer_delete(queue, e) ==
  LET at == { i \in DOMAIN queue : queue[i] = e }
  IN  IF at = {} THEN queue ELSE RemoveAt(queue, CHOOSE i \in at : TRUE)

(* e is set to time tm, out of a queue it is not in; r of the present period
   had passed when the time was asked for. *)
knl_timer_insert_abs(queue, e, tm) ==
  /\ time' = [time EXCEPT ![e] = tm]
  /\ timer_queue' = knl_enqueue_tmeb(queue, time', e)

(* The time after a relative one; the period added guarantees that it has
   passed in full. *)
After(reltim) == Plus(current_time, reltim + TIMER_PERIOD)

Asked(e, reltim) ==
  \E r \in 0 .. TIMER_PERIOD - 1 : due' = [due EXCEPT ![e] = reltim + r]

(* e is not set any more, if it was. *)
Forget(e, status) ==
  /\ stat' = [stat EXCEPT ![e] = status]
  /\ time' = IF e \in Cyc /\ status # "none" THEN time ELSE [time EXCEPT ![e] = 0]
  /\ due' = [due EXCEPT ![e] = Off]

(* A handler that is interrupted, or that is called, may call; so may a task,
   unless the interrupt is being handled. *)
Calling == interrupt # "loop"
TaskCalling == interrupt = "off"

-----------------------------------------------------------------------------
(***************************************************************************)
(* Time-outs of tasks (knl_timer_insert, knl_wait_cancel).                 *)
(***************************************************************************)
Wait(t) ==
  /\ TaskCalling /\ t \in Tcb /\ stat[t] = "STP"
  /\ \/ \E tmout \in Reltims :
          /\ stat' = [stat EXCEPT ![t] = "STA"]
          /\ knl_timer_insert_abs(timer_queue, t, After(tmout))
          /\ Asked(t, tmout)
     \/ /\ stat' = [stat EXCEPT ![t] = "FEVR"]
        /\ UNCHANGED << time, timer_queue, due >>
  /\ UNCHANGED << current_time, cyctim, phs, interrupt >>

(* What the task waited for has come; with TMO_FEVR its event was never set. *)
Release(t) ==
  /\ Calling /\ t \in Tcb /\ stat[t] \in {"STA", "FEVR"}
  /\ Forget(t, "STP")
  /\ timer_queue' = knl_timer_delete(timer_queue, t)
  /\ UNCHANGED << current_time, cyctim, phs, interrupt >>

(***************************************************************************)
(* Cyclic handlers.                                                        *)
(***************************************************************************)
(* The next time of a cycle after tm that is not past. *)
knl_cyc_next_time(tm, cycle) ==
  LET next == Plus(tm, cycle)
      passed == Minus(current_time, tm) \div cycle
  IN  IF knl_abstim_reached(current_time, next) THEN Plus((passed + 1) * cycle, tm) ELSE next

tk_cre_cyc(c) ==
  /\ TaskCalling /\ c \in Cyc /\ stat[c] = "none"
  /\ \E cycle \in Reltims, cycphs \in Reltims \cup {0}, ta_phs \in BOOLEAN, ta_sta \in BOOLEAN :
       LET first == After(cycphs)
           next == IF cycphs = 0 THEN knl_cyc_next_time(first, cycle) ELSE first
       IN  /\ cyctim' = [cyctim EXCEPT ![c] = cycle]
           /\ phs' = [phs EXCEPT ![c] = ta_phs]
           /\ stat' = [stat EXCEPT ![c] = IF ta_sta THEN "STA" ELSE "STP"]
           /\ \/ /\ ta_sta
                 /\ knl_timer_insert_abs(timer_queue, c, next)
                 /\ Asked(c, IF cycphs = 0 THEN cycle ELSE cycphs)
              \/ /\ ~ta_sta
                 /\ time' = [time EXCEPT ![c] = first]
                 /\ UNCHANGED << timer_queue, due >>
  /\ UNCHANGED << current_time, interrupt >>

tk_del_cyc(c) ==
  /\ TaskCalling /\ c \in Cyc /\ stat[c] # "none"
  /\ timer_queue' = IF stat[c] = "STA" THEN knl_timer_delete(timer_queue, c) ELSE timer_queue
  /\ Forget(c, "none")
  /\ cyctim' = [cyctim EXCEPT ![c] = 1] /\ phs' = [phs EXCEPT ![c] = FALSE]
  /\ UNCHANGED << current_time, interrupt >>

(* With TA_PHS the cycles have gone on while the handler was stopped. *)
tk_sta_cyc(c) ==
  /\ Calling /\ c \in Cyc /\ stat[c] # "none"
  /\ stat' = [stat EXCEPT ![c] = "STA"]
  /\ \/ /\ phs[c] /\ stat[c] = "STP"
        /\ LET tm == IF knl_abstim_reached(current_time, time[c])
                     THEN knl_cyc_next_time(time[c], cyctim[c]) ELSE time[c]
           IN  /\ knl_timer_insert_abs(timer_queue, c, tm)
               /\ Asked(c, Minus(tm, current_time) - TIMER_PERIOD)
     \/ /\ phs[c] /\ stat[c] = "STA"
        /\ UNCHANGED << timer_queue, time, due >>
     \/ /\ ~phs[c]
        /\ knl_timer_insert_abs(IF stat[c] = "STA" THEN knl_timer_delete(timer_queue, c)
                                ELSE timer_queue, c, After(cyctim[c]))
        /\ Asked(c, cyctim[c])
  /\ UNCHANGED << current_time, cyctim, phs, interrupt >>

tk_stp_cyc(c) ==
  /\ Calling /\ c \in Cyc /\ stat[c] # "none"
  /\ timer_queue' = IF stat[c] = "STA" THEN knl_timer_delete(timer_queue, c) ELSE timer_queue
  /\ Forget(c, "STP")
  /\ UNCHANGED << current_time, cyctim, phs, interrupt >>

(* Mutant: as if no period had been added. *)
Left_whole(tm) == IF knl_abstim_reached(current_time, tm) THEN 0 ELSE Minus(tm, current_time)

(* What is left until tm, less the period that is added to every time. *)
Left(tm) ==
  LET soon == Plus(current_time, TIMER_PERIOD)
  IN  IF knl_abstim_reached(soon, tm) THEN 0 ELSE Minus(tm, soon)

tk_ref_cyc(c) ==
  Left(IF stat[c] # "STA" /\ knl_abstim_reached(current_time, time[c])
       THEN knl_cyc_next_time(time[c], cyctim[c]) ELSE time[c])

(***************************************************************************)
(* Alarm handlers.                                                         *)
(***************************************************************************)
tk_cre_alm(a) ==
  /\ TaskCalling /\ a \in Alm /\ stat[a] = "none"
  /\ stat' = [stat EXCEPT ![a] = "STP"]
  /\ UNCHANGED << current_time, timer_queue, time, cyctim, phs, interrupt, due >>

tk_del_alm(a) ==
  /\ TaskCalling /\ a \in Alm /\ stat[a] # "none"
  /\ timer_queue' = IF stat[a] = "STA" THEN knl_timer_delete(timer_queue, a) ELSE timer_queue
  /\ Forget(a, "none")
  /\ UNCHANGED << current_time, cyctim, phs, interrupt >>

(* With time 0 the handler is called at once, and the alarm is not set any
   more. *)
tk_sta_alm(a) ==
  /\ Calling /\ a \in Alm /\ stat[a] # "none"
  /\ LET queue == IF stat[a] = "STA" THEN knl_timer_delete(timer_queue, a) ELSE timer_queue
     IN  \/ \E almtim \in Reltims :
              /\ knl_timer_insert_abs(queue, a, After(almtim))
              /\ stat' = [stat EXCEPT ![a] = "STA"]
              /\ Asked(a, almtim)
         \/ timer_queue' = queue /\ Forget(a, "STP")
  /\ UNCHANGED << current_time, cyctim, phs, interrupt >>

tk_stp_alm(a) ==
  /\ Calling /\ a \in Alm /\ stat[a] = "STA"
  /\ timer_queue' = knl_timer_delete(timer_queue, a)
  /\ Forget(a, "STP")
  /\ UNCHANGED << current_time, cyctim, phs, interrupt >>

tk_ref_alm(a) == IF stat[a] = "STA" THEN Left(time[a]) ELSE 0

-----------------------------------------------------------------------------
(***************************************************************************)
(* The timer interrupt (knl_timer_handler): the clock goes on, and then    *)
(* the events that are reached are taken from the queue one by one.        *)
(***************************************************************************)
Tick ==
  /\ interrupt = "off"
  /\ current_time' = Plus(current_time, TIMER_PERIOD)
  /\ due' = [e \in Event |-> IF due[e] = Off THEN Off ELSE due[e] - TIMER_PERIOD]
  /\ interrupt' = "loop"
  /\ UNCHANGED << timer_queue, time, stat, cyctim, phs >>

Reached ==
  /\ interrupt = "loop"
  /\ timer_queue # << >>
  /\ knl_abstim_reached(current_time, time[Head(timer_queue)])

(* The handler is in the queue again, for its next cycle, when it is called. *)
knl_call_cychdr ==
  /\ Reached /\ Head(timer_queue) \in Cyc
  /\ LET c == Head(timer_queue)
         tm == knl_cyc_next_time(time[c], cyctim[c])
     IN  /\ knl_timer_insert_abs(Tail(timer_queue), c, tm)
         /\ due' = [due EXCEPT ![c] = @ + Minus(tm, time[c])]
  /\ interrupt' = "user"
  /\ UNCHANGED << current_time, stat, cyctim, phs >>

(* Mutant: the alarm counts as set while its handler runs. *)
knl_call_almhdr_set ==
  /\ Reached /\ Head(timer_queue) \in Alm
  /\ timer_queue' = Tail(timer_queue)
  /\ Forget(Head(timer_queue), "STA")
  /\ interrupt' = "user"
  /\ UNCHANGED << current_time, cyctim, phs >>

knl_call_almhdr ==
  /\ Reached /\ Head(timer_queue) \in Alm
  /\ timer_queue' = Tail(timer_queue)
  /\ Forget(Head(timer_queue), "STP")
  /\ interrupt' = "user"
  /\ UNCHANGED << current_time, cyctim, phs >>

knl_wait_release_tmout ==
  /\ Reached /\ Head(timer_queue) \in Tcb
  /\ timer_queue' = Tail(timer_queue)
  /\ Forget(Head(timer_queue), "STP")
  /\ UNCHANGED << current_time, cyctim, phs, interrupt >>

HandlerReturns ==
  /\ interrupt = "user" /\ interrupt' = "loop"
  /\ UNCHANGED << current_time, timer_queue, time, stat, cyctim, phs, due >>

(* Mutant: the loop goes on until the queue is empty. *)
InterruptEnds_emptied ==
  /\ interrupt = "loop" /\ timer_queue = << >> /\ interrupt' = "off"
  /\ UNCHANGED << current_time, timer_queue, time, stat, cyctim, phs, due >>

InterruptEnds ==
  /\ interrupt = "loop" /\ ~Reached /\ interrupt' = "off"
  /\ UNCHANGED << current_time, timer_queue, time, stat, cyctim, phs, due >>

Called == knl_call_cychdr \/ knl_call_almhdr \/ knl_wait_release_tmout
knl_timer_handler == Tick \/ Called \/ HandlerReturns \/ InterruptEnds

Sets(e) == Wait(e) \/ tk_cre_cyc(e) \/ tk_sta_cyc(e) \/ tk_sta_alm(e)
Unsets(e) ==
  Release(e) \/ tk_del_cyc(e) \/ tk_stp_cyc(e) \/ tk_cre_alm(e) \/ tk_del_alm(e) \/ tk_stp_alm(e)

Next == knl_timer_handler \/ \E e \in Event : Sets(e) \/ Unsets(e)

(* The timer interrupt comes again and again, and the handlers return. *)
Spec == Init /\ [][Next]_vars /\ WF_vars(knl_timer_handler)

-----------------------------------------------------------------------------
TypeOK ==
  /\ current_time \in 0 .. W - 1
  /\ timer_queue \in Seq(Event)
  /\ time \in [Event -> 0 .. W - 1]
  /\ stat \in [Event -> {"none", "STP", "STA", "FEVR"}]
  /\ cyctim \in [Cyc -> Nat \ {0}]
  /\ phs \in [Cyc -> BOOLEAN]
  /\ interrupt \in {"off", "loop", "user"}
  /\ due \in [Event -> Int \cup {Off}]

(***************************************************************************)
(* What knl_timer_delete relies on, for the removal of an element that is  *)
(* not in the queue any more would break it: although handlers start and   *)
(* stop one another while the interrupt works on the queue, the queue      *)
(* holds the events that are set, each once.                               *)
(***************************************************************************)
QueueHoldsSet ==
  /\ \A i, j \in DOMAIN timer_queue : timer_queue[i] = timer_queue[j] => i = j
  /\ \A e \in Event : stat[e] = "STA" <=> \E i \in DOMAIN timer_queue : timer_queue[i] = e

(***************************************************************************)
(* The clock, its wrap-around and the queue implement a countdown for each *)
(* event: no handler is called and no wait ends before the time given has  *)
(* passed in full (timer.c: "to guarantee longer wait time"), none more    *)
(* than two periods later, and cycles do not drift.                        *)
(***************************************************************************)
Countdown_ == INSTANCE Countdown WITH
  Period  <- TIMER_PERIOD,
  Longest <- ABSTIM_DIFF_MIN + 1,
  left    <- due,
  cycle   <- [e \in Event |-> IF e \in Cyc THEN cyctim[e] ELSE 0]

IsCountdown == Countdown_!Spec

(***************************************************************************)
(* What a handler that is started is said to have left is not more than    *)
(* what is left of the time asked for, and less by a period at most,       *)
(* wherever the clock is about to wrap around.                             *)
(***************************************************************************)
LeftTold ==
  \A e \in Cyc \cup Alm :
    stat[e] = "STA" /\ interrupt = "off"
      => LET told == IF e \in Cyc THEN tk_ref_cyc(e) ELSE tk_ref_alm(e)
             left == IF due[e] > 0 THEN due[e] ELSE 0
         IN  told \in left - TIMER_PERIOD + 1 .. left

(***************************************************************************)
(* An event that stays in the queue for ever is set again or called again  *)
(* and again; nothing in the queue is left behind.                         *)
(***************************************************************************)
NothingLeftBehind ==
  \A e \in Event :
    <>[](\E i \in DOMAIN timer_queue : timer_queue[i] = e)
      => []<><< Sets(e) \/ (Called /\ Head(timer_queue) = e) >>_vars
=============================================================================
