------------------------------- MODULE Kernel -------------------------------
(***************************************************************************)
(* The kernel at work: the running task makes system calls, interrupt      *)
(* handlers make those they may make, and time passes.  Each is one step,  *)
(* for each is one critical section; what may happen in between is that    *)
(* the next step is another task's, a handler's or a time-out.             *)
(***************************************************************************)
EXTENDS KernelCalls

CONSTANTS
  InitTask,   (* the initial task, of the highest priority *)
  ItskPri,    (* the priorities tasks are created with *)
  Calls,      (* the system calls that are made *)
  Timeouts,   (* of TMO_POL, finite and TMO_FEVR, the time-outs that are given *)
  Atrs,       (* the attributes objects are created with *)
  Rank,       (* tasks lock mutexes in this order, those of one rank in any *)
  Bit,        (* the bits of event flags *)
  Wishes,     (* what tasks wait for: waiptn, and wfmode out of ORW, CLR, BITCLR *)
  MaxSem,     (* bound: the maximum of a semaphore *)
  MemSz,      (* the size of the system memory, as of pools in units of KernelMemory *)
  PoolSz,     (* the sizes of variable-size pools *)
  BlkSz,      (* the sizes of their blocks *)
  MaxBlk,     (* bound: the blocks of a fixed-size pool *)
  BufSz,      (* the size of a message buffer, in words *)
  MaxWup,     (* bound: wake-ups that are counted at a time, of all tasks *)
  MaxSus      (* bound: suspensions at a time, of all tasks; and not both *)

ASSUME KernelAssumption ==
  /\ InitTask \in Task
  /\ ItskPri \subseteq Pri
  /\ Timeouts \subseteq { "TMO_POL", "finite", "TMO_FEVR" }
  /\ Rank \in [Object -> Nat]
  /\ Wishes \subseteq [waiptn : SUBSET Bit \ { {} }, wfmode : SUBSET { "ORW", "CLR", "BITCLR" }]
  /\ MemSz \in Nat \ {0, 1} /\ PoolSz \subseteq Nat \ {0} /\ BlkSz \subseteq Nat \ {0}
  /\ MaxBlk \in Nat
  /\ MaxSem \in Nat /\ BufSz \in Nat \ {0} /\ MaxWup \in Nat /\ MaxSus \in Nat
  /\ \A msg \in Packet : msg.size \in Nat \ {0}

VARIABLE knl

Init ==
  knl = [state |-> [t \in Task |-> IF t = InitTask THEN "ready" ELSE "nonexist"],
         priority |-> [t \in Task |-> 1],
         bpriority |-> [t \in Task |-> 1],
         ipriority |-> [t \in Task |-> 1],
         suscnt |-> [t \in Task |-> 0],
         wupcnt |-> [t \in Task |-> 0],
         timed |-> [t \in Task |-> FALSE],
         wspec |-> [t \in Task |-> "none"],
         wid |-> [t \in Task |-> NULL],
         winfo |-> [t \in Task |-> NULL],
         mtxlist |-> [t \in Task |-> << >>],
         klock |-> [t \in Task |-> "none"],
         call |-> [t \in Task |-> NULL],
         klocktsk |-> NULL,
         locked |-> {},
         wtskq |-> [o \in Object |-> << >>],
         imacb |-> Empty(MemSz),
         ready |-> << InitTask >>,
         schedtsk |-> InitTask,
         ctxtsk |-> InitTask,
         dispatch_disabled |-> FALSE,
         obj |-> [o \in Object |-> Free]]

(***************************************************************************)
(* Who calls: some calls are for tasks only, and those that may wait not   *)
(* while dispatching is disabled; the others a handler makes at any time.  *)
(***************************************************************************)
InCall == knl.ctxtsk # NULL /\ knl.call[knl.ctxtsk] # NULL
Running == knl.ctxtsk # NULL /\ ~InCall
MayWait == Running /\ ~knl.dispatch_disabled
OfKind(kind) == { o \in Object : knl.obj[o].kind = kind }
Unused == OfKind("free")
Sum(counts) == FoldFunction(LAMBDA m, n : m + n, 0, counts)

(* A call that changes nothing, as most that fail do, is no step. *)
Does(call, result) ==
  /\ call \in Calls
  /\ LET after == Returned(result) IN after # knl /\ knl' = after

(***************************************************************************)
(* Calls on tasks.                                                         *)
(***************************************************************************)
CreateTask ==
  /\ Running
  /\ \E t \in Task, p \in ItskPri :
       knl.state[t] = "nonexist" /\ Does("cre_tsk", tk_cre_tsk(knl, t, p))
DeleteTask == Running /\ \E t \in Task : Does("del_tsk", tk_del_tsk(knl, t))
StartTask == \E t \in Task : Does("sta_tsk", tk_sta_tsk(knl, t))
ExitTask == Running /\ Does("ext_tsk", tk_ext_tsk(knl))
ExitDeleteTask == Running /\ Does("exd_tsk", tk_exd_tsk(knl))
TerminateTask == Running /\ \E t \in Task \ { knl.ctxtsk } : Does("ter_tsk", tk_ter_tsk(knl, t))
ChangePriority ==
  Running /\ \E t \in Task, p \in Pri : Does("chg_pri", tk_chg_pri(knl, t, p))
RotateReadyQueue == \E p \in Pri : Does("rot_rdq", tk_rot_rdq(knl, p))
ReleaseWait == \E t \in Task : Does("rel_wai", tk_rel_wai(knl, t))
SuspendTask ==
  /\ Sum(knl.suscnt) < MaxSus /\ Sum(knl.wupcnt) = 0
  /\ \E t \in Task : Does("sus_tsk", tk_sus_tsk(knl, t))
ResumeTask == \E t \in Task : Does("rsm_tsk", tk_rsm_tsk(knl, t))
ForceResumeTask == \E t \in Task : Does("frsm_tsk", tk_frsm_tsk(knl, t))
SleepTask == MayWait /\ \E tmo \in Timeouts : Does("slp_tsk", tk_slp_tsk(knl, tmo))
WakeupTask ==
  \E t \in Task :
    /\ \/ knl.wspec[t] = "slp"
       \/ Sum(knl.wupcnt) < MaxWup /\ Sum(knl.suscnt) = 0
    /\ Does("wup_tsk", tk_wup_tsk(knl, t))
CancelWakeup == \E t \in Task : Does("can_wup", tk_can_wup(knl, t))
DelayTask == MayWait /\ Does("dly_tsk", tk_dly_tsk(knl))
DisableDispatch == Running /\ Does("dis_dsp", tk_dis_dsp(knl))
EnableDispatch == Running /\ Does("ena_dsp", tk_ena_dsp(knl))

(* The time of a task that waits has come. *)
Timeout == \E t \in Task : knl.timed[t] /\ knl' = Returned(knl_wait_release_ng(knl, t))

(***************************************************************************)
(* Calls on objects.                                                       *)
(***************************************************************************)
(* Blocks that tasks are about to give back to a fixed-size pool, and whether
   one is about to delete it: callers do not do both at a time. *)
Calling(does, o) ==
  { t \in Task : knl.call[t] # NULL /\ knl.call[t].does = does /\ knl.call[t].o = o }
GivenBack(o) == { knl.call[t].x.blf : t \in { x \in Calling("rel_mpf", o) : knl.call[x].at # "unlock" } }

DeleteObject ==
  /\ Running
  /\ \E o \in Object \ Unused :
       /\ knl.obj[o].kind # "taken"
       /\ knl.obj[o].kind \in { "mpl", "mpf" } => ~knl.dispatch_disabled /\ GivenBack(o) = {}
       /\ Does("del", tk_del(knl, o))

CreateMutex ==
  /\ Running
  /\ \E m \in Unused, p \in Pri, atr \in Atrs :
       /\ "CNT" \notin atr
       /\ "CEILING" \notin atr => p = 1
       /\ Does("cre_mtx", tk_cre_mtx(knl, m, atr, p))
LockMutex ==
  /\ MayWait
  /\ \E m \in OfKind("mtx"), tmo \in Timeouts :
       /\ \A held \in Range(knl.mtxlist[knl.ctxtsk]) : Rank[held] <= Rank[m]
       /\ Does("loc_mtx", tk_loc_mtx(knl, m, tmo))
UnlockMutex == Running /\ \E m \in OfKind("mtx") : Does("unl_mtx", tk_unl_mtx(knl, m))

CreateSemaphore ==
  /\ Running
  /\ \E o \in Unused, atr \in Atrs, maxsem \in 1 .. MaxSem : \E isemcnt \in 0 .. maxsem :
       atr \subseteq { "TPRI", "CNT" } /\ Does("cre_sem", tk_cre_sem(knl, o, atr, isemcnt, maxsem))
SignalSemaphore ==
  \E o \in OfKind("sem"), cnt \in 1 .. MaxSem : Does("sig_sem", tk_sig_sem(knl, o, cnt))
WaitSemaphore ==
  MayWait /\ \E o \in OfKind("sem"), cnt \in 1 .. MaxSem, tmo \in Timeouts :
               Does("wai_sem", tk_wai_sem(knl, o, cnt, tmo))

CreateEventFlag ==
  /\ Running
  /\ \E o \in Unused, atr \in Atrs, iflgptn \in SUBSET Bit :
       atr \subseteq { "TPRI", "WMUL" } /\ Does("cre_flg", tk_cre_flg(knl, o, atr, iflgptn))
SetEventFlag ==
  \E o \in OfKind("flg"), setptn \in SUBSET Bit : Does("set_flg", tk_set_flg(knl, o, setptn))
ClearEventFlag ==
  \E o \in OfKind("flg"), clrptn \in SUBSET Bit : Does("clr_flg", tk_clr_flg(knl, o, clrptn))
WaitEventFlag ==
  MayWait /\ \E o \in OfKind("flg"), want \in Wishes, tmo \in Timeouts :
               Does("wai_flg", tk_wai_flg(knl, o, want, tmo))

CreateMailbox ==
  /\ Running
  /\ \E o \in Unused, atr \in Atrs :
       atr \subseteq { "TPRI", "MPRI" } /\ Does("cre_mbx", tk_cre_mbx(knl, o, atr))
SendMailbox ==
  \E o \in OfKind("mbx"), msg \in Message \ Posted(knl) : Does("snd_mbx", tk_snd_mbx(knl, o, msg))
ReceiveMailbox ==
  MayWait /\ \E o \in OfKind("mbx"), tmo \in Timeouts : Does("rcv_mbx", tk_rcv_mbx(knl, o, tmo))

CreateMessageBuffer ==
  /\ Running
  /\ \E o \in Unused, atr \in Atrs :
       atr \subseteq { "TPRI" } /\ Does("cre_mbf", tk_cre_mbf(knl, o, atr, BufSz, BufSz - 1))
SendMessageBuffer ==
  \E o \in OfKind("mbf"), msg \in Packet, tmo \in Timeouts, in_indp \in BOOLEAN :
    /\ ~in_indp => Running
    /\ in_indp \/ knl.dispatch_disabled => tmo = "TMO_POL"
    /\ Does("snd_mbf", tk_snd_mbf(knl, o, msg, tmo, in_indp))
ReceiveMessageBuffer ==
  MayWait /\ \E o \in OfKind("mbf"), tmo \in Timeouts : Does("rcv_mbf", tk_rcv_mbf(knl, o, tmo))

CreateVariablePool ==
  MayWait /\ \E atr \in Atrs, mplsz \in PoolSz :
               atr \subseteq { "TPRI", "USERBUF" } /\ Does("cre_mpl", tk_cre_mpl(knl, atr, mplsz))
GetVariableBlock ==
  MayWait /\ \E o \in OfKind("mpl"), blksz \in BlkSz, tmo \in Timeouts :
               Does("get_mpl", tk_get_mpl(knl, o, blksz, tmo))
ReleaseVariableBlock ==
  MayWait /\ \E o \in OfKind("mpl") : \E blk \in InUse(knl.obj[o].pool) :
               Does("rel_mpl", tk_rel_mpl(knl, o, blk))

CreateFixedPool ==
  MayWait /\ \E atr \in Atrs, mpfcnt \in 1 .. MaxBlk :
               atr \subseteq { "TPRI", "USERBUF" } /\ Does("cre_mpf", tk_cre_mpf(knl, atr, mpfcnt))
GetFixedBlock ==
  MayWait /\ \E o \in OfKind("mpf"), tmo \in Timeouts : Does("get_mpf", tk_get_mpf(knl, o, tmo))
ReleaseFixedBlock ==
  /\ MayWait
  /\ \E o \in OfKind("mpf") : \E blf \in knl.obj[o].lent \ GivenBack(o) :
       Calling("del_mpf", o) = {} /\ Does("rel_mpf", tk_rel_mpf(knl, o, blf))

(* The calls on pools go on where they were. *)
TakeControlBlock ==
  /\ InCall /\ knl.call[knl.ctxtsk].at = "take"
  /\ \/ \E o \in Unused :
          knl' = IF knl.call[knl.ctxtsk].does = "cre_mpl" THEN Returned(tk_cre_mpl_take(knl, o))
                                                          ELSE tk_cre_mpf_take(knl, o)
     \/ Unused = {} /\ knl' = GiveBack(knl, knl.call[knl.ctxtsk].mempool)
ContinueCall == InCall /\ knl.call[knl.ctxtsk].at # "take" /\ knl' = Continued(knl)

TaskNext ==
  \/ CreateTask \/ DeleteTask \/ StartTask \/ ExitTask \/ ExitDeleteTask \/ TerminateTask
  \/ ChangePriority \/ RotateReadyQueue \/ ReleaseWait
  \/ SuspendTask \/ ResumeTask \/ ForceResumeTask
  \/ SleepTask \/ WakeupTask \/ CancelWakeup \/ DelayTask
  \/ DisableDispatch \/ EnableDispatch \/ Timeout

ObjectNext ==
  \/ DeleteObject
  \/ CreateMutex \/ LockMutex \/ UnlockMutex
  \/ CreateSemaphore \/ SignalSemaphore \/ WaitSemaphore
  \/ CreateEventFlag \/ SetEventFlag \/ ClearEventFlag \/ WaitEventFlag
  \/ CreateMailbox \/ SendMailbox \/ ReceiveMailbox
  \/ CreateMessageBuffer \/ SendMessageBuffer \/ ReceiveMessageBuffer

PoolNext ==
  \/ CreateVariablePool \/ GetVariableBlock \/ ReleaseVariableBlock
  \/ CreateFixedPool \/ GetFixedBlock \/ ReleaseFixedBlock
  \/ TakeControlBlock \/ ContinueCall

Next == TaskNext \/ ObjectNext \/ PoolNext

Spec == Init /\ [][Next]_knl

-----------------------------------------------------------------------------
(***************************************************************************)
(* The type invariant: every control block holds what its fields are for;  *)
(* a semaphore never counts past its maximum, and the mutexes in the list  *)
(* of a task are mutexes.                                                  *)
(***************************************************************************)
ObjectOK(o) ==
  LET obj == knl.obj[o]
  IN  CASE obj.kind = "free" -> obj = Free
        [] obj.kind = "mtx"  -> obj.ceilpri \in Pri /\ obj.mtxtsk \in Task \cup { NULL }
        [] obj.kind = "sem"  -> obj.semcnt \in 0 .. obj.maxsem
        [] obj.kind = "flg"  -> obj.flgptn \subseteq Bit
        [] obj.kind = "mbx"  -> Range(obj.mq) \subseteq Message
        [] obj.kind = "mbf"  -> /\ obj.recv_queue \in Seq(Task)
                                /\ obj.frbufsz \in 0 .. obj.bufsz
                                /\ { obj.head, obj.tail } \subseteq 0 .. obj.bufsz - 1
        [] obj.kind = "mpl"  -> obj.pool.memsz \in Nat
        [] obj.kind = "mpf"  -> obj.frbcnt \in 0 .. obj.mpfcnt
        [] obj.kind = "taken" -> TRUE

TypeOK ==
  /\ \A t \in Task :
       /\ knl.state[t] \in { "nonexist", "dormant", "ready", "wait", "suspend", "waitsus" }
       /\ { knl.priority[t], knl.bpriority[t], knl.ipriority[t] } \subseteq Pri
       /\ knl.suscnt[t] \in 0 .. MaxSus /\ knl.wupcnt[t] \in 0 .. MaxWup
       /\ knl.suscnt[t] > 0 <=> knl.state[t] \in { "suspend", "waitsus" }
       /\ alive(knl, t) => Range(knl.mtxlist[t]) \subseteq OfKind("mtx")
  /\ knl.ready \in Seq(Task)
  /\ { knl.ctxtsk, knl.schedtsk } \subseteq Task \cup { NULL }
  /\ \A o \in Object : knl.obj[o].wait_queue \in Seq(Task) /\ ObjectOK(o)

(***************************************************************************)
(* A queue holds the tasks it should, each once, and by priority if it is  *)
(* one by priority.                                                        *)
(***************************************************************************)
Queues(queue, tasks) == Len(queue) = Cardinality(tasks) /\ Range(queue) = tasks
Sorted(queue) ==
  \A i, j \in DOMAIN queue : i < j => knl.priority[queue[i]] <= knl.priority[queue[j]]
WaitingFor(wspecs, o) ==
  { t \in Task : waiting(knl, t) /\ knl.wspec[t] \in wspecs /\ knl.wid[t] = o }

(***************************************************************************)
(* Whatever calls release, terminate, suspend or re-rank a task, and in    *)
(* whatever order: the ready queue holds the tasks that are ready and the  *)
(* queue of each object those that wait for it, at the place of their      *)
(* present priority, and only a task that waits is in the timer's queue    *)
(* (wait.h: a wait that is cancelled leaves both queues).                  *)
(***************************************************************************)
QueuesAgree ==
  /\ Queues(knl.ready, { t \in Task : knl.state[t] = "ready" /\ knl.klock[t] # "klockwait" })
  /\ Sorted(knl.ready)
  /\ \A o \in Object :
       /\ Queues(knl.obj[o].wait_queue,
                 WaitingFor({ "mtx", "sem", "flg", "mbx", "smbf", "mpl", "mpf" }, o))
       /\ knl.obj[o].kind = "mbf" => Queues(knl.obj[o].recv_queue, WaitingFor({ "rmbf" }, o))
       /\ knl.obj[o].kind \notin { "free", "taken" } /\ "TPRI" \in knl.obj[o].atr => Sorted(knl.obj[o].wait_queue)
  /\ \A t \in Task : knl.timed[t] => waiting(knl, t)

(***************************************************************************)
(* A task in the queue of an object waits: what wait.h promises of         *)
(* knl_wait_cancel, which takes it out.                                    *)
(***************************************************************************)
QueuedWait == \A o \in Object : \A t \in Range(knl.obj[o].wait_queue) : waiting(knl, t)

(***************************************************************************)
(* The task that should run is the first of those that are ready, unless   *)
(* it is one with an object lock; and the one that does run is ready,      *)
(* however a handler suspends tasks while dispatching is disabled.         *)
(***************************************************************************)
RunsReady ==
  /\ \/ knl.schedtsk = Top(knl.ready)
     \/ knl.schedtsk \in Range(knl.ready) /\ knl.klock[knl.schedtsk] = "klocked"
  /\ Running => knl.state[knl.ctxtsk] = "ready"

(***************************************************************************)
(* Through locks, time-outs, releases, deletions and the end of owners: a  *)
(* mutex is in the list of the task that owns it and in no other, its      *)
(* owner is alive, and nobody waits for one that is free.                  *)
(***************************************************************************)
MutexesHeld ==
  \A m \in OfKind("mtx") :
    LET owner == knl.obj[m].mtxtsk
    IN  /\ owner = NULL => knl.obj[m].wait_queue = << >>
        /\ owner # NULL => alive(knl, owner)
        /\ \A t \in { x \in Task : alive(knl, x) } :
             Cardinality({ i \in DOMAIN knl.mtxlist[t] : knl.mtxlist[t][i] = m })
               = IF t = owner THEN 1 ELSE 0

(***************************************************************************)
(* A task runs at the highest of its own priority and what its mutexes     *)
(* ask for: never lower, also where the task it inherits from waits on     *)
(* another, and never higher once the reason is gone.                      *)
(***************************************************************************)
Inherits ==
  \A t \in Task : alive(knl, t) =>
    knl.priority[t] = Min({ knl.bpriority[t] } \cup Demands(knl, Range(knl.mtxlist[t])))

(***************************************************************************)
(* No lost wake-up: a task waits for an object only while it cannot get    *)
(* what it wants, although the one before it in the queue may be released, *)
(* terminated, time out or change its priority.                            *)
(***************************************************************************)
NobodyWaitsInVain ==
  \A o \in Object :
    CASE knl.obj[o].kind = "sem" -> NoneServable(knl, o)
      [] knl.obj[o].kind = "flg" -> NoneFulfilled(knl, o)
      [] knl.obj[o].kind = "mbx" -> NoneHasMail(knl, o)
      [] knl.obj[o].kind = "mbf" -> NoneFits(knl, o)
      [] knl.obj[o].kind = "mpl" -> NoneHasRoom(knl, o)
      [] knl.obj[o].kind = "mpf" -> knl.obj[o].wait_queue # << >> => knl.obj[o].frbcnt = 0
      [] OTHER -> TRUE

(***************************************************************************)
(* A message buffer always holds whole messages, wherever they wrap around *)
(* the end of its ring.                                                    *)
(***************************************************************************)
RingsAreWhole == \A o \in OfKind("mbf") : RingIsWhole(knl.obj[o])

(***************************************************************************)
(* A pool's lock is held by exactly one task, which is in a call on that   *)
(* pool and not about to be terminated with it, or is free, with nobody    *)
(* waiting for it: although tasks that hold it are suspended, and tasks    *)
(* that wait for it are suspended, terminated or given other priorities.   *)
(***************************************************************************)
LocksHeld ==
  \A o \in Object :
    LET On(status) == { t \in Task : knl.klock[t] = status /\ knl.call[t].o = o }
    IN  /\ Cardinality(On("klocked")) = IF o \in knl.locked THEN 1 ELSE 0
        /\ Queues(knl.wtskq[o], On("klockwait"))
        /\ o \notin knl.locked => knl.wtskq[o] = << >>

(***************************************************************************)
(* Every block of a fixed-size pool is lent to somebody, in the free list  *)
(* or not used yet, and only one of these, wherever the calls that move it *)
(* are held up; frbcnt tells how many are free.                            *)
(***************************************************************************)
BlocksAccounted ==
  \A o \in OfKind("mpf") :
    LET mpf  == knl.obj[o]
        rest == mpf.unused .. mpf.mpfcnt
    IN  /\ mpf.lent \cup Range(mpf.freelist) \cup rest = 1 .. mpf.mpfcnt
        /\ Cardinality(mpf.lent) + Len(mpf.freelist) + Cardinality(rest) = mpf.mpfcnt
        /\ mpf.frbcnt = Len(mpf.freelist) + Cardinality(rest)

(***************************************************************************)
(* Whatever is allocated and freed in which order: areas fill the system   *)
(* memory and each variable-size pool without gap, overlap or neighbours   *)
(* that should be one; and each pool's memory is its own, until the pool   *)
(* is gone.                                                                *)
(***************************************************************************)
MemoryOwned ==
  LET pools == { o \in Object : knl.obj[o].kind \in { "mpl", "mpf" } /\ knl.obj[o].mempool # NULL }
  IN  /\ Tiled(knl.imacb)
      /\ \A o \in OfKind("mpl") : Tiled(knl.obj[o].pool)
      /\ \A o \in pools :
           /\ knl.obj[o].mempool \in InUse(knl.imacb)
           /\ \A x \in pools : knl.obj[o].mempool = knl.obj[x].mempool => o = x

=============================================================================
