------------------------------ MODULE Device ------------------------------
(***************************************************************************)
(* Device management of the kernel (kernel/tkernel/device.c, deviceio.c):  *)
(* registration, opening and closing, requests and their completion,       *)
(* suspension.  What stands between LockDM and UnlockDM is one step; the   *)
(* functions of a driver are called with DM unlocked and take a while, so  *)
(* that a call is at "openfn", "execfn", "waitfn"... until the driver      *)
(* returns, with a result of its choice.  A driver keeps its contract: it  *)
(* returns, and calls nothing itself.  A call that only fails is no step.  *)
(***************************************************************************)
EXTENDS Integers, FiniteSets, SequencesExt

CONSTANTS
  Tasks, None,
  Names,      \* physical device names
  DevCBs, OpnCBs, ReqCBs,   \* the control blocks of the three tables
  Ddevs,      \* [Names -> what is registered: [disk, openreq : BOOLEAN, nsub : Nat]]
  Modes,      \* [Names -> modes to open it in: sets of "READ", "WRITE", "EXCL", "REXCL", "WEXCL"]
  MAX_DISSUS,
  May,        \* [Tasks -> the calls the task makes]
  Mixed       \* whether a wait for any request of a descriptor happens together
              \* with a call that starts one

ASSUME DeviceAssumption ==
  /\ IsFiniteSet(Tasks) /\ IsFiniteSet(DevCBs) /\ IsFiniteSet(OpnCBs) /\ IsFiniteSet(ReqCBs)
  /\ None \notin Tasks \cup DevCBs \cup OpnCBs
  /\ \A n \in Names : \A ddev \in Ddevs[n] : ddev.disk \in BOOLEAN
  /\ Mixed \in BOOLEAN

VARIABLES
  dm,         \* the tables and queues of the device manager
  call,       \* [Tasks -> where the task's call is]
  reg,        \* the task that holds REG, or None
  told,       \* DevCBs whose driver was told to suspend and not to resume
  down        \* knl_devmgr_cleanup has begun

vars == <<dm, call, reg, told, down>>

NoDdev == [disk |-> FALSE, openreq |-> FALSE, nsub |-> 0]
NoDev == [devnm |-> None, ddev |-> NoDdev, openq |-> <<>>]
NoOpn == [devcb |-> None, unitno |-> 0, omode |-> {}, requestq |-> <<>>,
          waitone |-> 0, waireqlst |-> <<>>, abort_tskid |-> None,
          abort_cnt |-> 0, abort_sem |-> 0, resid |-> 0]
NoReq == [opncb |-> None, tskid |-> None, abort |-> FALSE]

\* o, d: the descriptor and the device of the call; list: its requests;
\* any: it waits for any of them;  sync: a wait follows;  clean: knl_devmgr_cleanup
NoCall == [at |-> "none", o |-> None, d |-> None, list |-> <<>>,
           any |-> FALSE, sync |-> FALSE, clean |-> FALSE]

\* the blocks stand in the order of their tables, whichever is the first
Init ==
  /\ \E ds \in SetToSeqs(DevCBs), os \in SetToSeqs(OpnCBs), rs \in SetToSeqs(ReqCBs) :
       dm = [devcb |-> [d \in DevCBs |-> NoDev],
             opncb |-> [o \in OpnCBs |-> NoOpn],
             reqcb |-> [r \in ReqCBs |-> NoReq],
             UsedDevCB |-> <<>>, FreeDevCB |-> ds, FreeOpnCB |-> os,
             FreeReqCB |-> rs, resq |-> <<>>, dissus |-> 0]
  /\ call = [t \in Tasks |-> NoCall]
  /\ reg = None /\ told = {} /\ down = FALSE

(***************************************************************************)
(* Control blocks and their queues.                                        *)
(***************************************************************************)
\* a block that is in no queue is its own neighbour: nothing happens
QueRemove(queue, e) ==
  LET at == {i \in DOMAIN queue : queue[i] = e}
  IN  IF at = {} THEN queue ELSE RemoveAt(queue, CHOOSE i \in at : TRUE)

newDevCB(m, n) ==
  LET d == Head(m.FreeDevCB)
  IN  [m EXCEPT !.FreeDevCB = Tail(@), !.UsedDevCB = Append(@, d),
                !.devcb[d].devnm = n, !.devcb[d].openq = <<>>]

delDevCB(m, d) ==
  [m EXCEPT !.UsedDevCB = QueRemove(@, d), !.FreeDevCB = Append(@, d),
            !.devcb[d] = NoDev]

newOpnCB(m, d, u, omode) ==
  LET o == Head(m.FreeOpnCB)
  IN  [m EXCEPT !.FreeOpnCB = Tail(@), !.resq = Append(@, o),
                !.devcb[d].openq = Append(@, o),
                !.opncb[o] = [NoOpn EXCEPT !.devcb = d, !.unitno = u,
                                           !.omode = omode]]

delOpnCB(m, o, free) ==
  [m EXCEPT !.devcb[m.opncb[o].devcb].openq = QueRemove(@, o),
            !.resq = QueRemove(@, o),
            !.FreeOpnCB = IF free THEN Append(@, o) ELSE @,
            !.opncb[o].resid = 0]

newReqCB(m, o, t) ==
  LET r == Head(m.FreeReqCB)
  IN  [m EXCEPT !.FreeReqCB = Tail(@),
                !.opncb[o].requestq = Append(@, r),
                !.reqcb[r] = [opncb |-> o, tskid |-> t, abort |-> FALSE]]

\* QueRemove of a block that is in no queue of requests takes it from the free ones
delReqCB(m, r) ==
  LET o == m.reqcb[r].opncb
      q == IF o = None THEN [m EXCEPT !.FreeReqCB = QueRemove(@, r)]
           ELSE [m EXCEPT !.opncb[o].requestq = QueRemove(@, r)]
  IN  [q EXCEPT !.FreeReqCB = Append(@, r), !.reqcb[r].opncb = None,
                !.reqcb[r].abort = FALSE]

searchDevCB(n) == {d \in ToSet(dm.UsedDevCB) : dm.devcb[d].devnm = n}

chkopen(m, d, u) == \E o \in ToSet(m.devcb[d].openq) : m.opncb[o].unitno = u

chkopenmode(d, u, omode) ==
  LET near == {o \in ToSet(dm.devcb[d].openq) :
                 u = 0 \/ dm.opncb[o].unitno \in {0, u}}
      taken == UNION {dm.opncb[o].omode : o \in near}
  IN  /\ omode \cap {"READ", "WRITE"} # {}
      /\ omode \cap {"EXCL", "REXCL"} # {} => "READ" \notin taken
      /\ omode \cap {"EXCL", "WEXCL"} # {} => "WRITE" \notin taken
      /\ "READ" \in omode => taken \cap {"EXCL", "REXCL"} = {}
      /\ "WRITE" \in omode => taken \cap {"EXCL", "WEXCL"} = {}

Starts(t, c) == c \in May[t] /\ call[t] = NoCall /\ ~down
At(t, where) == call[t].at = where
Moves(t, fields) == call' = [call EXCEPT ![t] = fields]
Ends(t) == Moves(t, NoCall)

(***************************************************************************)
(* Registration: the whole of tk_def_dev stands under REG and DM.          *)
(***************************************************************************)
RegFree == reg = None

\* Mutant: without LockREG.
tk_def_dev_unlocked(t, n, ddev) ==
  /\ Starts(t, "def") /\ searchDevCB(n) = {} /\ dm.FreeDevCB # <<>>
  /\ dm' = [newDevCB(dm, n) EXCEPT !.devcb[Head(dm.FreeDevCB)].ddev = ddev]
  /\ UNCHANGED <<call, reg, told, down>>

tk_def_dev(t, n, ddev) ==
  /\ Starts(t, "def") /\ RegFree
  /\ searchDevCB(n) = {} => dm.FreeDevCB # <<>>
  /\ LET m == IF searchDevCB(n) = {} THEN newDevCB(dm, n) ELSE dm
         d == CHOOSE x \in ToSet(m.UsedDevCB) : m.devcb[x].devnm = n
     IN  dm' = [m EXCEPT !.devcb[d].ddev = ddev]
  /\ UNCHANGED <<call, reg, told, down>>

Unregister(t, n) ==
  /\ Starts(t, "def") /\ RegFree
  /\ \E d \in searchDevCB(n) : /\ dm.devcb[d].openq = <<>>
                               /\ dm' = delDevCB(dm, d)
  /\ UNCHANGED <<call, reg, told, down>>

\* the driver is called after UnlockDM; what the event does is its own matter
tk_evt_dev(t, d) ==
  /\ Starts(t, "evt") /\ d \in ToSet(dm.UsedDevCB)
  /\ Moves(t, [NoCall EXCEPT !.at = "eventfn", !.d = d])
  /\ UNCHANGED <<dm, reg, told, down>>

EventEnds(t) == /\ At(t, "eventfn") /\ Ends(t)
                /\ UNCHANGED <<dm, reg, told, down>>

(***************************************************************************)
(* Opening.                                                                *)
(***************************************************************************)
tk_opn_dev(t, n, u, omode) ==
  /\ Starts(t, "opn") /\ dm.FreeOpnCB # <<>>
  /\ \E d \in searchDevCB(n), made \in BOOLEAN :
       LET m == newOpnCB(dm, d, u, omode)
           o == Head(dm.FreeOpnCB)
       IN  /\ u <= dm.devcb[d].ddev.nsub
           /\ chkopenmode(d, u, omode)
           /\ dm' = IF made THEN m ELSE delOpnCB(m, o, TRUE)  \* tk_cre_sem
           /\ IF ~made THEN UNCHANGED call
              ELSE Moves(t, [NoCall EXCEPT !.o = o, !.at =
                     IF chkopen(dm, d, u) /\ ~dm.devcb[d].ddev.openreq
                     THEN "opened" ELSE "openfn"])
  /\ UNCHANGED <<reg, told, down>>

OpenEnds(t) ==
  /\ \/ At(t, "opened") \/ At(t, "openfn")
     /\ dm' = [dm EXCEPT !.opncb[call[t].o].resid = 1]
  /\ Ends(t)
  /\ UNCHANGED <<reg, told, down>>

OpenFails(t) ==
  /\ At(t, "openfn")
  /\ dm' = delOpnCB(dm, call[t].o, TRUE)
  /\ Ends(t)
  /\ UNCHANGED <<reg, told, down>>

(***************************************************************************)
(* Requests.                                                               *)
(***************************************************************************)
Serving == {"execfn", "waitfn"}

\* whoever comes back from the driver tells the task that aborts
Notify(m, o) ==
  LET left == m.opncb[o].abort_cnt - 1
  IN  IF m.opncb[o].abort_tskid = None THEN m
      ELSE [m EXCEPT !.opncb[o].abort_cnt = left,
                     !.opncb[o].abort_sem = IF left = 0 THEN 1 ELSE @]

knl_request(t, o, need, sync) ==
  /\ Starts(t, IF sync THEN "srw" ELSE "rw")
  /\ dm.opncb[o].resid # 0 /\ need \subseteq dm.opncb[o].omode
  /\ dm.FreeReqCB # <<>>
  /\ Mixed \/ dm.opncb[o].waireqlst = <<>>
  /\ dm' = newReqCB(dm, o, t)
  /\ Moves(t, [NoCall EXCEPT !.at = "execfn", !.o = o, !.sync = sync,
                             !.list = <<Head(dm.FreeReqCB)>>])
  /\ UNCHANGED <<reg, told, down>>

\* data needs the mode, an attribute (a negative start) does not
tk_rea_dev(t, o)  == \E need \in {{}, {"READ"}} : knl_request(t, o, need, FALSE)
tk_srea_dev(t, o) == \E need \in {{}, {"READ"}} : knl_request(t, o, need, TRUE)
tk_wri_dev(t, o)  == \E need \in {{}, {"WRITE"}} : knl_request(t, o, need, FALSE)
tk_swri_dev(t, o) == \E need \in {{}, {"WRITE"}} : knl_request(t, o, need, TRUE)

Returned(t) ==
  LET r == call[t].list[1]
  IN  Notify([dm EXCEPT !.reqcb[r].tskid = None], call[t].o)

\* tk_srea_dev and tk_swri_dev go on to tk_wai_dev with the numbers they have
RequestEnds(t) ==
  /\ At(t, "execfn")
  /\ dm' = Returned(t)
  /\ IF call[t].sync THEN Moves(t, [call[t] EXCEPT !.at = "towait"]) ELSE Ends(t)
  /\ UNCHANGED <<reg, told, down>>

\* Mutant: the task that aborts is told of success only.
RequestFails_silent(t) ==
  /\ At(t, "execfn")
  /\ dm' = delReqCB([dm EXCEPT !.reqcb[call[t].list[1]].tskid = None], call[t].list[1])
  /\ Ends(t)
  /\ UNCHANGED <<reg, told, down>>

RequestFails(t) ==
  /\ At(t, "execfn")
  /\ dm' = delReqCB(Returned(t), call[t].list[1])
  /\ Ends(t)
  /\ UNCHANGED <<reg, told, down>>

Marked(m, rs, t) ==
  [m EXCEPT !.reqcb = [r \in DOMAIN @ |->
     IF r \in rs THEN [@[r] EXCEPT !.tskid = t] ELSE @[r]]]

Busy(o) == {r \in ToSet(dm.opncb[o].requestq) : dm.reqcb[r].tskid # None}

WaitAny(t, o) ==
  LET q == dm.opncb[o].requestq
  IN  /\ Starts(t, "wai") /\ dm.opncb[o].resid # 0
      /\ dm.opncb[o].waireqlst = <<>> /\ dm.opncb[o].waitone = 0
      /\ q # <<>>
      /\ Mixed \/ Busy(o) = {}
      /\ dm' = [Marked(dm, ToSet(q), t) EXCEPT !.opncb[o].waireqlst = q]
      /\ Moves(t, [NoCall EXCEPT !.at = "waitfn", !.o = o, !.list = q, !.any = TRUE])
      /\ UNCHANGED <<reg, told, down>>

knl_check_reqid(o, r) == dm.reqcb[r].opncb = o

\* Mutant: no look at who has the request.
MayWait_taken(o, r) ==
  dm.opncb[o].resid # 0 /\ knl_check_reqid(o, r) /\ dm.opncb[o].waireqlst = <<>>

MayWait(o, r) ==
  /\ dm.opncb[o].resid # 0
  /\ knl_check_reqid(o, r)
  /\ dm.opncb[o].waireqlst = <<>> /\ dm.reqcb[r].tskid = None

WaitOne(t, o, r) ==
  /\ \/ Starts(t, "wai")
     \/ At(t, "towait") /\ call[t].o = o /\ call[t].list = <<r>>
  /\ MayWait(o, r)
  /\ dm' = [Marked(dm, {r}, t) EXCEPT !.opncb[o].waitone = @ + 1]
  /\ Moves(t, [NoCall EXCEPT !.at = "waitfn", !.o = o, !.list = <<r>>])
  /\ UNCHANGED <<reg, told, down>>

tk_wai_dev(t, o) == WaitAny(t, o) \/ \E r \in ReqCBs : WaitOne(t, o, r)

\* the wait of a synchronous call is refused: the descriptor may be closed by now
WaitRefused(t) ==
  /\ At(t, "towait") /\ ~MayWait(call[t].o, call[t].list[1])
  /\ Ends(t)
  /\ UNCHANGED <<dm, reg, told, down>>

\* done: the number of the request that is complete; 0: the driver gave up
WaitEnds(t, done) ==
  LET c == call[t]
      counted == IF c.any THEN [dm EXCEPT !.opncb[c.o].waireqlst = <<>>]
                 ELSE [dm EXCEPT !.opncb[c.o].waitone = @ - 1]
      m == Marked(Notify(counted, c.o), ToSet(c.list), None)
  IN  /\ At(t, "waitfn")
      /\ dm' = IF done = 0 THEN m ELSE delReqCB(m, c.list[done])
      /\ Ends(t)
      /\ UNCHANGED <<reg, told, down>>

(***************************************************************************)
(* Closing: all requests are aborted, the tasks in the driver come back,   *)
(* what is left is waited for, then the descriptor goes.                   *)
(***************************************************************************)
\* Mutant: the descriptor remains valid until it is free.
tk_cls_dev_open(t, o) ==
  /\ Starts(t, "cls") /\ dm.opncb[o].resid # 0
  /\ Moves(t, [NoCall EXCEPT !.at = "abort", !.o = o])
  /\ UNCHANGED <<dm, reg, told, down>>

tk_cls_dev(t, o) ==
  /\ Starts(t, "cls") /\ dm.opncb[o].resid # 0
  /\ dm' = [dm EXCEPT !.opncb[o].resid = 0]
  /\ Moves(t, [NoCall EXCEPT !.at = "abort", !.o = o])
  /\ UNCHANGED <<reg, told, down>>

Goes(t, where) == Moves(t, [call[t] EXCEPT !.at = where])

abort_allrequest(t) ==
  LET o == call[t].o
      single == dm.opncb[o].waireqlst = <<>>
  IN  /\ At(t, "abort")
      /\ dm' = [dm EXCEPT
           !.opncb[o].abort_tskid = t,
           !.opncb[o].abort_cnt = IF single THEN Cardinality(Busy(o)) ELSE 1,
           !.reqcb = [r \in DOMAIN @ |-> IF single /\ r \in Busy(o)
                        THEN [@[r] EXCEPT !.abort = TRUE] ELSE @[r]]]
      /\ Goes(t, "aborted")
      /\ UNCHANGED <<reg, told, down>>

\* the count is read outside DM
AbortCounted(t) ==
  LET o == call[t].o
  IN  /\ At(t, "aborted")
      /\ IF dm.opncb[o].abort_cnt > 0 THEN Goes(t, "semwait") /\ UNCHANGED dm
         ELSE /\ dm' = [dm EXCEPT !.opncb[o].abort_tskid = None]
              /\ Goes(t, "drain")
      /\ UNCHANGED <<reg, told, down>>

AbortAwaited(t) ==
  LET o == call[t].o
  IN  /\ At(t, "semwait") /\ dm.opncb[o].abort_sem > 0
      /\ dm' = [dm EXCEPT !.opncb[o].abort_sem = 0, !.opncb[o].abort_tskid = None]
      /\ Goes(t, "drain")
      /\ UNCHANGED <<reg, told, down>>

\* one turn of the loop, after the request that waitfn has completed is gone
Drained(t, m) ==
  LET q == m.opncb[call[t].o].requestq
  IN  IF q = <<>> THEN dm' = m /\ Moves(t, [call[t] EXCEPT !.at = "close", !.list = <<>>])
      ELSE /\ dm' = [m EXCEPT !.reqcb[Head(q)].abort = TRUE]
           /\ Moves(t, [call[t] EXCEPT !.at = "drainfn", !.list = <<Head(q)>>])

Drain(t) ==
  /\ \/ At(t, "drain") /\ Drained(t, dm)
     \/ At(t, "drainfn") /\ Drained(t, delReqCB(dm, call[t].list[1]))
  /\ UNCHANGED <<reg, told, down>>

knl_close_device(t) ==
  LET o == call[t].o
      d == dm.opncb[o].devcb
      m == delOpnCB(dm, o, FALSE)
  IN  /\ At(t, "close")
      /\ dm' = m
      /\ Goes(t, IF chkopen(m, d, dm.opncb[o].unitno) /\ ~dm.devcb[d].ddev.openreq
                 THEN "closed" ELSE "closefn")
      /\ UNCHANGED <<reg, told, down>>

CloseEnds(t) ==
  /\ At(t, "closed") \/ At(t, "closefn")
  /\ dm' = [dm EXCEPT !.FreeOpnCB = Append(@, call[t].o),
                      !.opncb[call[t].o] = NoOpn]   \* what newOpnCB sets again
  /\ IF call[t].clean THEN Moves(t, [NoCall EXCEPT !.at = "cleanup", !.clean = TRUE])
     ELSE Ends(t)
  /\ UNCHANGED <<reg, told, down>>

(***************************************************************************)
(* Suspension: every driver is told, disks last; resumption, disks first.  *)
(***************************************************************************)
TD_DISSUS(t) ==
  /\ Starts(t, "dis") /\ dm.dissus < MAX_DISSUS
  /\ dm' = [dm EXCEPT !.dissus = @ + 1]
  /\ UNCHANGED <<call, reg, told, down>>

TD_ENASUS(t) ==
  /\ Starts(t, "dis") /\ dm.dissus > 0
  /\ dm' = [dm EXCEPT !.dissus = @ - 1]
  /\ UNCHANGED <<call, reg, told, down>>

TD_SUSPEND(t, force) ==
  /\ Starts(t, "sus") /\ (dm.dissus = 0 \/ force)
  /\ Moves(t, [NoCall EXCEPT !.at = "sus"])
  /\ UNCHANGED <<dm, reg, told, down>>

tk_sus_dev(t) ==
  TD_DISSUS(t) \/ TD_ENASUS(t) \/ \E force \in BOOLEAN : TD_SUSPEND(t, force)

do_suspend(t) ==
  /\ At(t, "sus") /\ RegFree
  /\ reg' = t
  /\ Goes(t, "suspend others")
  /\ UNCHANGED <<dm, told, down>>

Passes == <<"suspend others", "suspend disks", "asleep", "resume disks", "resume others">>
IsDisk(d) == dm.devcb[d].ddev.disk

\* d: the device whose driver is being told, None before the first one
Behind(d) ==
  LET here == {i \in DOMAIN dm.UsedDevCB : dm.UsedDevCB[i] = d}
  IN  {i \in DOMAIN dm.UsedDevCB : \A j \in here : i > j}

sendevt_alldevice(t, pass) ==
  LET disks == pass \in {"suspend disks", "resume disks"}
      next == {i \in Behind(call[t].d) : IsDisk(dm.UsedDevCB[i]) = disks}
      d == call[t].d
      i == CHOOSE j \in DOMAIN Passes : Passes[j] = pass
  IN  /\ At(t, pass)
      /\ told' = IF d = None THEN told
                 ELSE IF i < 3 THEN told \cup {d} ELSE told \ {d}
      /\ IF next # {} THEN /\ \E k \in next : /\ \A j \in next : k <= j
                                              /\ Moves(t, [call[t] EXCEPT !.d = dm.UsedDevCB[k]])
                           /\ UNCHANGED reg
         ELSE IF i < 5 THEN Moves(t, [NoCall EXCEPT !.at = Passes[i + 1]]) /\ UNCHANGED reg
         ELSE Ends(t) /\ reg' = None
      /\ UNCHANGED <<dm, down>>

\* the place for the code that suspends the machine: it has REG and DM
Sleep(t) == /\ At(t, "asleep") /\ Goes(t, "resume disks")
            /\ UNCHANGED <<dm, reg, told, down>>

(***************************************************************************)
(* Shut-down: calls in progress go on, none begins.                        *)
(***************************************************************************)
knl_devmgr_cleanup(t) ==
  LET o == Head(dm.resq)
      freed == [dm EXCEPT !.dissus = 0]
  IN  /\ \/ Starts(t, "end")
         \/ At(t, "cleanup")
      /\ down' = TRUE
      /\ IF dm.resq = <<>> THEN dm' = freed /\ Ends(t)
         ELSE /\ dm' = [freed EXCEPT !.opncb[o].resid = 0]
              /\ Moves(t, [NoCall EXCEPT !.at = "abort", !.o = o, !.clean = TRUE])
      /\ UNCHANGED <<reg, told>>

Next == \E t \in Tasks :
  \/ \E n \in Names : \/ Unregister(t, n)
                      \/ \E ddev \in Ddevs[n] : tk_def_dev(t, n, ddev)
                      \/ \E ddev \in Ddevs[n], omode \in Modes[n] :
                           \E u \in 0..ddev.nsub : tk_opn_dev(t, n, u, omode)
  \/ \E d \in DevCBs : tk_evt_dev(t, d)
  \/ \E o \in OpnCBs :
       \/ tk_rea_dev(t, o) \/ tk_srea_dev(t, o) \/ tk_wri_dev(t, o) \/ tk_swri_dev(t, o)
       \/ tk_wai_dev(t, o)
       \/ tk_cls_dev(t, o)
  \/ EventEnds(t) \/ OpenEnds(t) \/ OpenFails(t)
  \/ RequestEnds(t) \/ RequestFails(t) \/ WaitRefused(t)
  \/ \E done \in 0..Len(call[t].list) : WaitEnds(t, done)
  \/ abort_allrequest(t) \/ AbortCounted(t) \/ AbortAwaited(t) \/ Drain(t)
  \/ knl_close_device(t) \/ CloseEnds(t)
  \/ tk_sus_dev(t) \/ do_suspend(t) \/ Sleep(t)
  \/ \E pass \in ToSet(Passes) \ {"asleep"} : sendevt_alldevice(t, pass)
  \/ knl_devmgr_cleanup(t)

Spec == Init /\ [][Next]_vars

(***************************************************************************)
(* Properties.                                                             *)
(***************************************************************************)
InDriver(o) == {t \in Tasks : call[t].at \in Serving /\ call[t].o = o}

\* The requests a task is in the driver with are its own: still of the
\* descriptor it called with, in its queue, marked with the task, and not
\* returned to the free blocks by anyone else (the steps of knl_request,
\* tk_wai_dev and knl_close_device before and after the call of the driver).
RequestsHeld ==
  \A t \in Tasks : call[t].at \in Serving =>
    \A r \in ToSet(call[t].list) :
      /\ dm.reqcb[r].opncb = call[t].o /\ dm.reqcb[r].tskid = t
      /\ r \in ToSet(dm.opncb[call[t].o].requestq) \ ToSet(dm.FreeReqCB)

\* From the moment knl_close_device waits for the requests that remain, no
\* task is in the driver with a request of the descriptor; and a descriptor
\* that is free or for which closefn is called has no request left.
NothingLeftInDriver ==
  \A t \in Tasks :
    LET o == call[t].o
    IN  /\ call[t].at \in {"drain", "drainfn", "close", "closed", "closefn"} =>
             InDriver(o) = {}
        /\ call[t].at \in {"closed", "closefn"} => \A r \in DOMAIN dm.reqcb : dm.reqcb[r].opncb # o

\* A task that closes and waits for the semaphore is woken: as long as nobody
\* has signalled, abort_cnt tasks are in the driver and will; once somebody
\* has, none is (abort_allrequest against knl_request and tk_wai_dev).
CloseIsWoken ==
  \A t \in Tasks : call[t].at \in {"aborted", "semwait"} =>
    LET o == call[t].o
        c == dm.opncb[o]
    IN  /\ c.abort_cnt = Cardinality(InDriver(o))
        /\ call[t].at = "semwait" => (c.abort_sem = 0) = (c.abort_cnt > 0)

\* When the machine is suspended every registered device has been told, and
\* when nobody is suspending it none is left suspended: no device comes or
\* goes between the four passes of do_suspend.
SuspendTogether ==
  /\ \A t \in Tasks : At(t, "asleep") => told = ToSet(dm.UsedDevCB)
  /\ reg = None => told = {}
=============================================================================
