---------------------------- MODULE KernelProof -----------------------------
(***************************************************************************)
(* That the queues, the mutexes, the object locks and the blocks of pools  *)
(* agree with what the tasks do, for any number of tasks and objects,      *)
(* whatever is called when.  Each step is one call, or the part of a call  *)
(* on a pool between two of its locks: it keeps the invariant IInv, which  *)
(* says more than the theorems, for a call has to find what it was left.   *)
(*                                                                         *)
(* Two things are assumed: that tasks lock mutexes in one order, for of    *)
(* tasks that wait for each other in a ring one that is terminated comes   *)
(* into a queue again; and that NULL is no call.                           *)
(***************************************************************************)
EXTENDS KernelQueueProof

-----------------------------------------------------------------------------
(***************************************************************************)
(* Calls on variable-size pools, after those that make one.                *)
(***************************************************************************)
LEMMA GetVariableFine ==
  ASSUME NEW k, Fine(k), AtWork(k), ~ k.dispatch_disabled, NEW o \in Object, k.obj[o].kind = "mpl", NEW size, NEW tmout
  PROVE  Fine(tk_get_mpl(k, o, size, tmout))
<1> DEFINE f == "pool"
           blksz == roundSize(size)
           v == knl_get_blk(k.obj[o].pool, blksz)
           got == [k EXCEPT !.obj[o][f] = v]
           w == knl_gcb_make_wait(Waits(k, "mpl", o, blksz), o, tmout)
<1>1. [k EXCEPT !.obj[o].pool = knl_get_blk(@, blksz)] = got
  OBVIOUS
<1>2. tk_get_mpl(k, o, size, tmout) \in { k, got, w }
  BY <1>1 DEF tk_get_mpl
<1>3. f \in Payload
  BY DEF Payload
<1> HIDE DEF f, v
<1>4. Fine(got)
  BY <1>3, FieldFine
<1>5. Fine(w)
  <2>1. Suits(k.obj[o].kind, "mpl") /\ Wanted("mpl", blksz)
    BY DEF Suits, InQueue, Wanted
  <2> HIDE DEF blksz
  <2> QED
    BY <2>1, QueueFine
<1> HIDE DEF got, w
<1> QED
  BY <1>2, <1>4, <1>5

LEMMA ReleaseVariableFine ==
  ASSUME NEW k, Fine(k), NEW o \in Object, NEW blk
  PROVE  Fine(tk_rel_mpl(k, o, blk))
<1> DEFINE f == "pool"
           v == knl_rel_blk(k.obj[o].pool, blk)
           back == [k EXCEPT !.obj[o][f] = v]
<1>1. [k EXCEPT !.obj[o].pool = knl_rel_blk(@, blk)] = back
  OBVIOUS
<1>2. tk_rel_mpl(k, o, blk) = knl_mpl_wakeup(back, o)
  BY <1>1 DEF tk_rel_mpl
<1>3. f \in Payload
  BY DEF Payload
<1> HIDE DEF f, v
<1>4. Fine(back)
  BY <1>3, FieldFine
<1> HIDE DEF back
<1> QED
  BY <1>2, <1>4, WakeFine

-----------------------------------------------------------------------------
(***************************************************************************)
(* Where a task is in its call changes, and nothing else.                  *)
(***************************************************************************)
Recalled(k, r, t, c) ==
  /\ Typed(r) /\ SameTasks(k, r) /\ SameWaits(k, r) /\ SameLocks(k, r) /\ SameReady(k, r)
  /\ SameRun(k, r) /\ SameCounts(k, r) /\ r.obj = k.obj /\ r.mtxlist = k.mtxlist /\ r.timed = k.timed
  /\ \A u \in Task : r.call[u] = IF u = t THEN c ELSE k.call[u]

LEMMA RecalledIs ==
  ASSUME NEW k, Typed(k), NEW t \in Task, NEW c
  PROVE  Recalled(k, [k EXCEPT !.call[t] = c], t, c)
<1> DEFINE r == [k EXCEPT !.call[t] = c]
<1>1. IsFun(k, Fields) /\ IsFun(k.call, Task)
  BY DEF Typed, LocksTyped
<1>2. IsFun(r, Fields) /\ \A f \in Fields : f # "call" => r[f] = k[f]
  BY <1>1 DEF IsFun, IsRec, Fields
<1>3. r.call = [k.call EXCEPT ![t] = c]
  BY <1>1 DEF IsFun, IsRec, Fields
<1>4. IsFun(r.call, Task) /\ \A u \in Task : r.call[u] = IF u = t THEN c ELSE k.call[u]
  BY <1>1, <1>3 DEF IsFun, IsRec
<1> HIDE DEF r
<1>5. /\ SameTasks(k, r) /\ SameWaits(k, r) /\ SameLocks(k, r) /\ SameReady(k, r)
      /\ SameRun(k, r) /\ SameCounts(k, r) /\ r.obj = k.obj /\ r.mtxlist = k.mtxlist /\ r.timed = k.timed
  BY <1>2 DEF Fields, SameTasks, SameWaits, SameLocks, SameReady, SameRun, SameCounts
<1>6. Typed(r)
  BY <1>2, <1>4, <1>5 DEF Typed, TasksTyped, WaitsTyped, LocksTyped, RunTyped, ObjectsTyped,
    SameTasks, SameWaits, SameLocks, SameReady, SameRun, SameCounts
<1> QED
  BY <1>4, <1>5, <1>6 DEF Recalled, r

(* The system memory too. *)
LEMMA MemoryIs ==
  ASSUME NEW k, Typed(k), NEW t \in Task, NEW c, NEW m
  PROVE  Recalled(k, [k EXCEPT !.imacb = m, !.call[t] = c], t, c)
<1> DEFINE s == [k EXCEPT !.imacb = m]
           r == [s EXCEPT !.call[t] = c]
<1>1. IsFun(k, Fields)
  BY DEF Typed
<1>2. IsFun(s, Fields) /\ \A f \in Fields : f # "imacb" => s[f] = k[f]
  BY <1>1 DEF IsFun, IsRec, Fields
<1>3. r = [k EXCEPT !.imacb = m, !.call[t] = c]
  BY <1>1 DEF IsFun, IsRec, Fields
<1> HIDE DEF s
<1>4. /\ SameTasks(k, s) /\ SameWaits(k, s) /\ SameLocks(k, s) /\ SameReady(k, s)
      /\ SameRun(k, s) /\ SameCounts(k, s) /\ s.obj = k.obj /\ s.mtxlist = k.mtxlist /\ s.timed = k.timed
      /\ s.call = k.call
  BY <1>2 DEF Fields, SameTasks, SameWaits, SameLocks, SameReady, SameRun, SameCounts
<1>5. Typed(s)
  BY <1>2, <1>4 DEF Typed, TasksTyped, WaitsTyped, LocksTyped, RunTyped, ObjectsTyped,
    SameTasks, SameWaits, SameLocks, SameReady, SameRun, SameCounts
<1>6. Recalled(s, r, t, c)
  BY <1>5, RecalledIs
<1> HIDE DEF r
<1>7. Recalled(k, r, t, c)
  BY <1>4, <1>6 DEF Recalled, SameTasks, SameWaits, SameLocks, SameReady, SameRun, SameCounts
<1> QED
  BY <1>3, <1>7

(* It brings back no block and deletes no pool that it did not before. *)
LEMMA RecalledGives ==
  ASSUME NEW k, CallsGood(k), NEW t \in Task, NEW c, NEW r, Recalled(k, r, t, c),
         c # NULL /\ c.does \in { "rel_mpf", "del_mpf" } =>
           /\ k.call[t] # NULL /\ c.does = k.call[t].does /\ c.o = k.call[t].o /\ c.x = k.call[t].x
           /\ k.call[t].at = "unlock" => c.at = "unlock"
  PROVE  GivesGood(r)
<1>1. \A u \in Task : r.call[u] = IF u = t THEN c ELSE k.call[u]
  BY DEF Recalled
<1>2. r.obj = k.obj
  BY DEF Recalled
<1>3. ASSUME NEW u \in Task, NEW x \in Object
      PROVE  /\ Gives(r, u, x) => Gives(k, u, x) /\ r.call[u].x.blf = k.call[u].x.blf
             /\ Deletes(r, u, x) => Deletes(k, u, x)
  <2>1. CASE u = t
    <3>1. r.call[u] = c
      BY <1>1, <2>1
    <3> QED
      BY <2>1, <3>1 DEF Gives, Deletes
  <2>2. CASE u # t
    <3>1. r.call[u] = k.call[u]
      BY <1>1, <2>2
    <3> QED
      BY <3>1 DEF Gives, Deletes
  <2> QED
    BY <2>1, <2>2
<1> QED
  BY <1>2, <1>3, GivesKept DEF CallsGood, SameStock

LEMMA RecallGood ==
  ASSUME NEW k, NEW X, NEW Z, NEW Y, Good(k, X, Z, Y), NEW t \in Task, NEW c, NEW r, Recalled(k, r, t, c),
         GivesGood(r), c # NULL => CallGood(r, t), k.klock[t] # "klockwait",
         k.klock[t] = "klocked" => c # NULL /\ c.o = k.call[t].o,
         \A o \in Object : Makes(r, t, o) =>
           k.obj[o].kind = "taken" /\ \A u \in Task : Makes(k, u, o) => u = t
  PROVE  Good(r, X, Z, Y)
<1>1. /\ X \in SUBSET Task /\ Z \in SUBSET X /\ Typed(k) /\ ReadyGood(k, X) /\ LockerGood(k)
      /\ WaitGood(k, X) /\ MutexGood(k, X, Z, Y) /\ CallsGood(k) /\ LockGood(k) /\ TopGood(k)
  BY DEF Good, Core
<1>2. /\ Typed(r) /\ SameTasks(k, r) /\ SameWaits(k, r) /\ SameLocks(k, r) /\ SameReady(k, r)
      /\ r.obj = k.obj /\ r.mtxlist = k.mtxlist /\ r.timed = k.timed
  BY DEF Recalled
<1>3. \A u \in Task : r.call[u] = IF u = t THEN c ELSE k.call[u]
  BY DEF Recalled
<1>4. ReadyGood(r, X)
  BY <1>1, <1>2 DEF ReadyGood, ReadySet, SameTasks, SameLocks, SameReady
<1>5. LockerGood(r) /\ TopGood(r)
  BY <1>1, <1>2 DEF LockerGood, TopGood, Locker, SameLocks, SameReady
<1>6. WaitGood(r, X)
  <2>1. \A u \in Task : waiting(r, u) <=> waiting(k, u)
    BY <1>2 DEF waiting, SameTasks
  <2> QED
    BY <1>1, <1>2, <2>1, WaitKept DEF SameQueues, SameTasks, SameWaits
<1>7. MutexGood(r, X, Z, Y)
  BY <1>1, <1>2 DEF MutexGood, OwnerGood, ListGood, RankGood, Holds, alive, waiting, SameTasks, SameWaits
<1>8. CallsGood(r)
  <2>1. \A u \in Task : u # t /\ r.call[u] # NULL => CallGood(r, u)
    <3> TAKE u \in Task
    <3> HAVE u # t /\ r.call[u] # NULL
    <3>1. r.call[u] = k.call[u]
      BY <1>3
    <3>2. CallGood(k, u)
      BY <1>1, <3>1 DEF CallsGood
    <3> QED
      BY <1>2, <3>1, <3>2 DEF CallGood, alive, SameTasks, SameLocks
  <2>2. r.call[t] # NULL => CallGood(r, t)
    BY <1>3
  <2>3. \A u \in Task, o \in Object : u # t => (Makes(r, u, o) <=> Makes(k, u, o))
    BY <1>3 DEF Makes
  <2>4. \A u \in Task, o \in Object : Makes(r, u, o) => r.obj[o].kind = "taken"
    BY <1>1, <1>2, <2>3 DEF CallsGood
  <2>5. \A u, v \in Task, o \in Object : Makes(r, u, o) /\ Makes(r, v, o) => u = v
    BY <1>1, <2>3 DEF CallsGood
  <2> QED
    BY <2>1, <2>2, <2>4, <2>5 DEF CallsGood
<1>9. LockGood(r)
  <2>1. r.klock = k.klock /\ r.wtskq = k.wtskq /\ r.locked = k.locked /\ r.state = k.state
    BY <1>2 DEF SameLocks, SameTasks
  <2>2. \A u \in Task : r.klock[u] # "none" => r.call[u] # NULL /\ r.call[u].o = k.call[u].o
    BY <1>1, <1>3, <2>1 DEF LockGood, Typed, LocksTyped
  <2>3. \A u \in Task, o \in Object : Has(r, u, o) <=> Has(k, u, o)
    BY <2>1, <2>2 DEF Has
  <2>4. \A u \in Task : k.klock[u] = "klockwait" => r.call[u] = k.call[u]
    BY <1>3
  <2>5. \A o \in Object : { u \in Task : r.klock[u] = "klockwait" /\ r.call[u].o = o }
                            = { u \in Task : k.klock[u] = "klockwait" /\ k.call[u].o = o }
    BY <2>1, <2>4
  <2>6. \A u \in Task : r.klock[u] # "none" => r.call[u] # NULL /\ r.call[u].o \in Object
    BY <1>1, <2>1, <2>2 DEF LockGood
  <2>7. \A u \in Task : r.klock[u] = "klockwait" => r.state[u] = "ready" /\ r.call[u].at = "lock"
    BY <1>1, <2>1, <2>4 DEF LockGood
  <2>8. ASSUME NEW o \in Object
        PROVE  /\ IsLine(r.wtskq[o], { u \in Task : r.klock[u] = "klockwait" /\ r.call[u].o = o })
               /\ o \notin r.locked => r.wtskq[o] = << >>
               /\ o \in r.locked <=> \E u \in Task : Has(r, u, o)
               /\ \A u, v \in Task : Has(r, u, o) /\ Has(r, v, o) => u = v
    BY <1>1, <2>1, <2>3, <2>5 DEF LockGood
  <2> QED
    BY <2>6, <2>7, <2>8 DEF LockGood
<1> QED
  BY <1>1, <1>2, <1>4, <1>5, <1>6, <1>7, <1>8, <1>9 DEF Good, Core

LEMMA RecalledFine ==
  ASSUME NEW k, Fine(k), ~ k.dispatch_disabled, NEW t \in Task, NEW c, NEW r, Recalled(k, r, t, c),
         GivesGood(r), c # NULL => CallGood(r, t), k.klock[t] # "klockwait",
         k.klock[t] = "klocked" => c # NULL /\ c.o = k.call[t].o,
         \A o \in Object : Makes(r, t, o) =>
           k.obj[o].kind = "taken" /\ \A u \in Task : Makes(k, u, o) => u = t
  PROVE  Fine(r)
<1>1. Good(k, {}, {}, {})
  BY DEF Fine
<1>2. Good(r, {}, {}, {})
  BY <1>1, RecallGood
<1> QED
  BY <1>2 DEF Fine, Resting, Recalled, SameRun

(* The running task begins a call on a fixed-size pool, *)
LEMMA EnterFine ==
  ASSUME NEW k, Fine(k), AtWork(k), ~ k.dispatch_disabled, NEW o \in Object, NEW x,
         NEW does \in { "del_mpf", "get_mpf", "rel_mpf" },
         does = "get_mpf" => IsFun(x, { "tmout", "blf" }),
         does = "del_mpf" => \A u \in Task : ~ Gives(k, u, o),
         does = "rel_mpf" =>
           /\ k.obj[o].kind = "mpf" /\ x.blf \in k.obj[o].lent
           /\ \A u \in Task : ~ Deletes(k, u, o) /\ (Gives(k, u, o) => k.call[u].x.blf # x.blf)
  PROVE  Fine(Enter(k, does, o, x))
<1> DEFINE t == k.ctxtsk
           c == [does |-> does, at |-> "lock", o |-> o, x |-> x, mempool |-> NULL]
           r == Enter(k, does, o, x)
<1>1. t \in Task /\ k.state[t] = "ready" /\ k.klock[t] = "none" /\ Typed(k)
  BY DEF AtWork, Fine, Good, Core
<1>2. Recalled(k, r, t, c)
  BY <1>1, RecalledIs DEF Enter
<1>3. /\ IsFun(c, { "does", "at", "o", "x", "mempool" })
      /\ c.does = does /\ c.at = "lock" /\ c.o = o /\ c.x = x
  BY DEF IsFun, IsRec
<1> HIDE DEF c, r
<1>4. r.call[t] = c /\ r.state = k.state /\ r.klock = k.klock
  BY <1>1, <1>2 DEF Recalled, SameTasks, SameLocks
<1>5. CallGood(r, t)
  BY <1>1, <1>3, <1>4 DEF CallGood, Inside
<1>6. \A n \in Object : ~ Makes(r, t, n)
  BY <1>3, <1>4 DEF Makes
<1>7. GivesGood(r)
  <2>1. GivesGood(k)
    BY DEF Fine, Good, Core, CallsGood
  <2>2. r.obj = k.obj /\ \A u \in Task : u # t => r.call[u] = k.call[u]
    BY <1>2 DEF Recalled
  <2>3. \A u \in Task, n \in Object : u # t =>
          (Gives(r, u, n) <=> Gives(k, u, n)) /\ (Deletes(r, u, n) <=> Deletes(k, u, n))
    BY <2>2 DEF Gives, Deletes
  <2>4. \A n \in Object : /\ Gives(r, t, n) => does = "rel_mpf" /\ n = o
                          /\ Deletes(r, t, n) => does = "del_mpf" /\ n = o
    BY <1>3, <1>4 DEF Gives, Deletes
  <2>5. ASSUME NEW u \in Task, NEW n \in Object, Gives(r, u, n)
        PROVE  r.obj[n].kind = "mpf" /\ r.call[u].x.blf \in r.obj[n].lent
    <3>1. CASE u = t
      BY <1>3, <1>4, <2>2, <2>4, <2>5, <3>1
    <3>2. CASE u # t
      BY <2>1, <2>2, <2>3, <2>5, <3>2 DEF GivesGood
    <3> QED
      BY <3>1, <3>2
  <2>6. ASSUME NEW u \in Task, NEW v \in Task, NEW n \in Object, Gives(r, u, n), Gives(r, v, n),
               r.call[u].x.blf = r.call[v].x.blf
        PROVE  u = v
    <3>1. CASE u # t /\ v # t
      BY <2>1, <2>2, <2>3, <2>6, <3>1 DEF GivesGood
    <3>2. CASE u = t /\ v # t
      BY <1>3, <1>4, <2>2, <2>3, <2>4, <2>6, <3>2
    <3>3. CASE u # t /\ v = t
      BY <1>3, <1>4, <2>2, <2>3, <2>4, <2>6, <3>3
    <3> QED
      BY <3>1, <3>2, <3>3
  <2>7. ASSUME NEW u \in Task, NEW v \in Task, NEW n \in Object, Gives(r, u, n), Deletes(r, v, n)
        PROVE  FALSE
    <3>1. CASE u # t /\ v # t
      BY <2>1, <2>3, <2>7, <3>1 DEF GivesGood
    <3>2. CASE u = t
      BY <2>3, <2>4, <2>7, <3>2
    <3>3. CASE v = t
      BY <2>3, <2>4, <2>7, <3>3
    <3> QED
      BY <3>1, <3>2, <3>3
  <2> QED
    BY <2>5, <2>6, <2>7 DEF GivesGood
<1>8. Fine(r)
  BY <1>1, <1>2, <1>5, <1>6, <1>7, RecalledFine
<1> QED
  BY <1>8 DEF r

(* or one that makes a pool: with memory, if there is enough. *)
LEMMA AllocateFine ==
  ASSUME NEW k, Fine(k), AtWork(k), ~ k.dispatch_disabled, NEW does \in { "cre_mpl", "cre_mpf" },
         NEW size, NEW x, does = "cre_mpf" => x.size \in Nat
  PROVE  Fine(Allocate(k, does, size, x))
<1> DEFINE t == k.ctxtsk
           mempool == IF "USERBUF" \in x.atr THEN NULL ELSE Found(k.imacb, roundSize(size))
           memory == IF "USERBUF" \in x.atr THEN k.imacb ELSE knl_Imalloc(k.imacb, size)
           c == [does |-> does, at |-> "take", o |-> NULL, x |-> x, mempool |-> mempool]
           r == [k EXCEPT !.imacb = memory, !.call[t] = c]
<1>1. t \in Task /\ k.state[t] = "ready" /\ k.klock[t] = "none" /\ Typed(k)
  BY DEF AtWork, Fine, Good, Core
<1>2. Allocate(k, does, size, x) = k \/ Allocate(k, does, size, x) = r
  BY DEF Allocate
<1>3. /\ IsFun(c, { "does", "at", "o", "x", "mempool" })
      /\ c.does = does /\ c.at = "take" /\ c.x = x
  BY DEF IsFun, IsRec
<1> HIDE DEF c, memory, mempool
<1>4. Recalled(k, r, t, c)
  BY <1>1, MemoryIs
<1> HIDE DEF r
<1>5. r.call[t] = c /\ r.state = k.state /\ r.klock = k.klock
  BY <1>1, <1>4 DEF Recalled, SameTasks, SameLocks
<1>6. CallGood(r, t)
  BY <1>1, <1>3, <1>5 DEF CallGood, Inside
<1>7. \A n \in Object : ~ Makes(r, t, n)
  BY <1>3, <1>5 DEF Makes
<1>8. GivesGood(r)
  BY <1>1, <1>3, <1>4, RecalledGives DEF Fine, Good, Core
<1>9. Fine(r)
  BY <1>1, <1>4, <1>6, <1>7, <1>8, RecalledFine
<1> QED
  BY <1>2, <1>9

(* The running task, with interrupts enabled in a call. *)
Busy(k, t) ==
  /\ k.ctxtsk = t /\ t \in Task /\ t \in Range(k.ready) /\ k.state[t] = "ready"
  /\ ~ k.dispatch_disabled /\ k.klock[t] # "klockwait" /\ k.call[t] # NULL /\ CallGood(k, t)

LEMMA BusyIs ==
  ASSUME NEW k, Good(k, {}, {}, {}), RestGood(k), k.ctxtsk # NULL, k.call[k.ctxtsk] # NULL
  PROVE  Busy(k, k.ctxtsk) /\ Fine(k)
<1> DEFINE t == k.ctxtsk
<1>1. ReadyGood(k, {}) /\ CallsGood(k)
  BY DEF Good, Core
<1>2. t \in Range(k.ready) /\ ~ k.dispatch_disabled
  BY DEF RestGood
<1>3. t \in Task /\ k.state[t] = "ready" /\ k.klock[t] # "klockwait"
  BY <1>1, <1>2, ReadyState
<1>4. CallGood(k, t)
  BY <1>1, <1>3 DEF CallsGood
<1> QED
  BY <1>2, <1>3, <1>4 DEF Busy, Fine, Resting

(* It goes on without being dispatched. *)
Onto(k, r) ==
  /\ Good(r, {}, {}, {}) /\ SameRun(k, r) /\ \A u \in Task : u \in Range(k.ready) => u \in Range(r.ready)

LEMMA OntoRest ==
  ASSUME NEW k, NEW t, Busy(k, t), NEW r, Onto(k, r)
  PROVE  RestGood(r)
BY DEF Busy, Onto, RestGood, SameRun

LEMMA RecalledOnto ==
  ASSUME NEW k, NEW s, Onto(k, s), NEW t \in Task, NEW c, NEW r, Recalled(s, r, t, c),
         GivesGood(r), c # NULL => CallGood(r, t), s.klock[t] # "klockwait",
         s.klock[t] = "klocked" => c # NULL /\ c.o = s.call[t].o,
         \A o \in Object : Makes(r, t, o) =>
           s.obj[o].kind = "taken" /\ \A u \in Task : Makes(s, u, o) => u = t
  PROVE  Onto(k, r)
<1>1. Good(s, {}, {}, {})
  BY DEF Onto
<1>2. Good(r, {}, {}, {})
  BY <1>1, RecallGood
<1> QED
  BY <1>2 DEF Onto, Recalled, SameRun, SameReady

(* The end of a call in which no object is locked. *)
LEMMA LeaveOnto ==
  ASSUME NEW k, NEW s, Onto(k, s), NEW t \in Task, s.klock[t] = "none", NEW r, Recalled(s, r, t, NULL)
  PROVE  Onto(k, r)
<1>1. \A o \in Object : ~ Makes(r, t, o)
  BY DEF Makes, Recalled
<1>2. GivesGood(r)
  BY RecalledGives DEF Onto, Good, Core
<1> QED
  BY <1>1, <1>2, RecalledOnto

LEMMA GiveBackOnto ==
  ASSUME NEW k, Good(k, {}, {}, {}), NEW t, Busy(k, t), k.klock[t] = "none", NEW mempool
  PROVE  Onto(k, GiveBack(k, mempool))
<1> DEFINE memory == knl_Ifree(k.imacb, mempool)
           a == [k EXCEPT !.call[t] = NULL]
           b == [k EXCEPT !.imacb = memory, !.call[t] = NULL]
<1>1. t \in Task /\ k.ctxtsk = t /\ Typed(k) /\ IsFun(k, Fields) /\ Onto(k, k)
  BY DEF Busy, Good, Core, Typed, Onto, SameRun
<1>2. GiveBack(k, mempool) = a \/ GiveBack(k, mempool) = b
  <2>1. CASE mempool = NULL
    BY <1>1, <2>1 DEF GiveBack, Leave
  <2>2. CASE mempool # NULL
    BY <1>1, <2>2 DEF GiveBack, Leave, IsFun, IsRec, Fields
  <2> QED
    BY <2>1, <2>2
<1> HIDE DEF memory
<1>3. Recalled(k, a, t, NULL)
  BY <1>1, RecalledIs
<1>4. Recalled(k, b, t, NULL)
  BY <1>1, MemoryIs
<1> HIDE DEF a, b
<1> QED
  BY <1>1, <1>2, <1>3, <1>4, LeaveOnto

-----------------------------------------------------------------------------
(***************************************************************************)
(* The object lock.                                                        *)
(***************************************************************************)
(* The object is locked; its queue is as it was. *)
Locked(k, r, t, o) ==
  /\ IsFun(r, Fields) /\ SameTasks(k, r) /\ SameWaits(k, r) /\ SameRun(k, r) /\ SameCounts(k, r)
  /\ r.obj = k.obj /\ r.mtxlist = k.mtxlist /\ r.timed = k.timed /\ r.call = k.call /\ r.wtskq = k.wtskq
  /\ r.ready = k.ready /\ r.schedtsk = k.schedtsk
  /\ r.locked = k.locked \cup {o} /\ r.klocktsk = t
  /\ IsFun(r.klock, Task) /\ \A u \in Task : r.klock[u] = IF u = t THEN "klocked" ELSE k.klock[u]

LEMMA LockedGood ==
  ASSUME NEW k, Good(k, {}, {}, {}), NEW t, Busy(k, t), k.klock[t] = "none", NEW o \in Object, o \notin k.locked,
         k.call[t].o = o, k.call[t].at = "lock", NEW r, Locked(k, r, t, o)
  PROVE  Good(r, {}, {}, {})
<1>1. /\ Typed(k) /\ ReadyGood(k, {}) /\ LockerGood(k) /\ WaitGood(k, {}) /\ MutexGood(k, {}, {}, {})
      /\ CallsGood(k) /\ LockGood(k) /\ TopGood(k)
  BY DEF Good, Core
<1>2. t \in Task /\ k.call[t] # NULL /\ t \in Range(k.ready)
  BY DEF Busy
<1>3. /\ IsFun(r, Fields) /\ SameTasks(k, r) /\ SameWaits(k, r) /\ SameRun(k, r) /\ SameCounts(k, r)
      /\ r.obj = k.obj /\ r.mtxlist = k.mtxlist /\ r.timed = k.timed /\ r.call = k.call /\ r.wtskq = k.wtskq
      /\ r.ready = k.ready /\ r.schedtsk = k.schedtsk
      /\ r.locked = k.locked \cup {o} /\ r.klocktsk = t
  BY DEF Locked
<1>4. IsFun(r.klock, Task) /\ \A u \in Task : r.klock[u] = IF u = t THEN "klocked" ELSE k.klock[u]
  BY DEF Locked
<1>5. Typed(r)
  <2>1. r.klock \in [Task -> { "none", "klocked", "klockwait" }]
    BY <1>1, <1>4 DEF Typed, LocksTyped, IsFun, IsRec
  <2> QED
    BY <1>1, <1>2, <1>3, <2>1 DEF Typed, TasksTyped, WaitsTyped, LocksTyped, RunTyped, ObjectsTyped,
      SameTasks, SameWaits, SameRun, SameCounts
<1>6. ReadyGood(r, {})
  <2>1. ReadySet(r, {}) = ReadySet(k, {})
    BY <1>3, <1>4 DEF ReadySet, SameTasks
  <2> QED
    BY <1>1, <1>3, <2>1 DEF ReadyGood, SameTasks
<1>7. LockerGood(r)
  BY <1>2, <1>3, <1>4 DEF LockerGood, Locker
<1>8. TopGood(r)
  <2>1. CASE k.schedtsk = Top(k.ready)
    BY <1>3, <2>1 DEF TopGood
  <2>2. CASE Locker(k, k.schedtsk)
    <3>1. k.schedtsk \in Task
      BY <1>1, <2>2, ReadyState DEF Locker
    <3> QED
      BY <1>3, <1>4, <2>2, <3>1 DEF TopGood, Locker
  <2> QED
    BY <1>1, <2>1, <2>2 DEF TopGood
<1>9. WaitGood(r, {})
  <2>1. \A u \in Task : (u \notin {} /\ waiting(r, u)) <=> (u \notin {} /\ waiting(k, u))
    BY <1>3 DEF waiting, SameTasks
  <2>2. \A u \in Task : u \notin {} /\ waiting(k, u) =>
          r.wspec[u] = k.wspec[u] /\ r.wid[u] = k.wid[u] /\ r.winfo[u] = k.winfo[u] /\ r.priority[u] = k.priority[u]
    BY <1>3 DEF SameTasks, SameWaits
  <2>3. \A x \in Object : SameQueues(k.obj[x], r.obj[x])
    BY <1>3 DEF SameQueues
  <2>4. \A u \in Task : r.timed[u] => k.timed[u]
    BY <1>3
  <2> QED
    BY <1>1, <2>1, <2>2, <2>3, <2>4, WaitKept
<1>10. MutexGood(r, {}, {}, {})
  BY <1>1, <1>3 DEF MutexGood, OwnerGood, ListGood, RankGood, Holds, alive, waiting, SameTasks, SameWaits
<1>11. CallsGood(r)
  <2>1. \A u \in Task : r.call[u] # NULL => CallGood(r, u)
    <3> TAKE u \in Task
    <3> HAVE r.call[u] # NULL
    <3>1. CallGood(k, u) /\ r.call[u] = k.call[u] /\ r.state = k.state /\ r.obj = k.obj
      BY <1>1, <1>3 DEF CallsGood, SameTasks
    <3>2. CASE u = t
      BY <1>4, <3>1, <3>2 DEF CallGood, alive, Inside
    <3>3. CASE u # t
      BY <1>4, <3>1, <3>3 DEF CallGood, alive
    <3> QED
      BY <3>2, <3>3
  <2>2. \A u \in Task, n \in Object : Makes(r, u, n) <=> Makes(k, u, n)
    BY <1>3 DEF Makes
  <2>3. GivesGood(r)
    BY <1>1, <1>3, GivesKept DEF CallsGood, Gives, Deletes, SameStock
  <2> QED
    BY <1>1, <1>3, <2>1, <2>2, <2>3 DEF CallsGood
<1>12. LockGood(r)
  <2>1. \A u \in Task : r.klock[u] = "klockwait" <=> k.klock[u] = "klockwait"
    BY <1>4
  <2>2. \A n \in Object : { u \in Task : r.klock[u] = "klockwait" /\ r.call[u].o = n }
                            = { u \in Task : k.klock[u] = "klockwait" /\ k.call[u].o = n }
    BY <1>3, <2>1
  <2>3. \A u \in Task, n \in Object : Has(r, u, n) <=> Has(k, u, n) \/ (u = t /\ n = o)
    BY <1>3, <1>4 DEF Has
  <2>4. \A u \in Task : ~ Has(k, u, o)
    BY <1>1 DEF LockGood
  <2>5. \A u \in Task : r.klock[u] # "none" => r.call[u] # NULL /\ r.call[u].o \in Object
    BY <1>1, <1>2, <1>3, <1>4 DEF LockGood
  <2>6. \A u \in Task : r.klock[u] = "klockwait" => r.state[u] = "ready" /\ r.call[u].at = "lock"
    BY <1>1, <1>3, <2>1 DEF LockGood, SameTasks
  <2>7. ASSUME NEW n \in Object
        PROVE  /\ IsLine(r.wtskq[n], { u \in Task : r.klock[u] = "klockwait" /\ r.call[u].o = n })
               /\ n \notin r.locked => r.wtskq[n] = << >>
               /\ n \in r.locked <=> \E u \in Task : Has(r, u, n)
               /\ \A u, v \in Task : Has(r, u, n) /\ Has(r, v, n) => u = v
    <3>1. IsLine(r.wtskq[n], { u \in Task : r.klock[u] = "klockwait" /\ r.call[u].o = n })
      BY <1>1, <1>3, <2>2 DEF LockGood
    <3>2. n \notin r.locked => r.wtskq[n] = << >>
      BY <1>1, <1>3 DEF LockGood
    <3>3. n \in r.locked <=> \E u \in Task : Has(r, u, n)
      BY <1>1, <1>2, <1>3, <2>3 DEF LockGood
    <3>4. \A u, v \in Task : Has(r, u, n) /\ Has(r, v, n) => u = v
      <4>1. CASE n = o
        BY <2>3, <2>4, <4>1
      <4>2. CASE n # o
        BY <1>1, <2>3, <4>2 DEF LockGood
      <4> QED
        BY <4>1, <4>2
    <3> QED
      BY <3>1, <3>2, <3>3, <3>4
  <2> QED
    BY <2>5, <2>6, <2>7 DEF LockGood
<1> QED
  BY <1>1, <1>5, <1>6, <1>7, <1>8, <1>9, <1>10, <1>11, <1>12 DEF Good, Core

(* The running task joins the queue of the lock, out of the ready queue already. *)
Stalled(k, r, t, o) ==
  /\ IsFun(r, Fields) /\ SameTasks(k, r) /\ SameWaits(k, r) /\ SameRun(k, r) /\ SameCounts(k, r)
  /\ r.obj = k.obj /\ r.mtxlist = k.mtxlist /\ r.timed = k.timed /\ r.call = k.call /\ r.locked = k.locked
  /\ r.ready = k.ready /\ r.schedtsk = k.schedtsk /\ r.klocktsk = k.klocktsk
  /\ r.wtskq = [k.wtskq EXCEPT ![o] = Append(k.wtskq[o], t)]
  /\ IsFun(r.klock, Task) /\ \A u \in Task : r.klock[u] = IF u = t THEN "klockwait" ELSE k.klock[u]

LEMMA StalledCore ==
  ASSUME NEW k, NEW t \in Task, Core(k, {t}, {}, {}), k.klock[t] = "none", NEW o \in Object, o \in k.locked,
         k.call[t] # NULL, k.call[t].o = o, k.call[t].at = "lock", k.state[t] = "ready",
         NEW r, Stalled(k, r, t, o)
  PROVE  Core(r, {}, {}, {})
<1>1. /\ Typed(k) /\ ReadyGood(k, {t}) /\ LockerGood(k) /\ WaitGood(k, {t}) /\ MutexGood(k, {t}, {}, {})
      /\ CallsGood(k) /\ LockGood(k)
  BY DEF Core
<1>2. /\ IsFun(r, Fields) /\ SameTasks(k, r) /\ SameWaits(k, r) /\ SameRun(k, r) /\ SameCounts(k, r)
      /\ r.obj = k.obj /\ r.mtxlist = k.mtxlist /\ r.timed = k.timed /\ r.call = k.call
      /\ r.ready = k.ready /\ r.schedtsk = k.schedtsk
      /\ r.locked = k.locked /\ r.klocktsk = k.klocktsk
  BY DEF Stalled
<1>3. IsFun(r.klock, Task) /\ \A u \in Task : r.klock[u] = IF u = t THEN "klockwait" ELSE k.klock[u]
  BY DEF Stalled
<1>4. /\ \A n \in Object : r.wtskq[n] = IF n = o THEN Append(k.wtskq[o], t) ELSE k.wtskq[n]
      /\ r.wtskq \in [Object -> Seq(Task)]
  BY <1>1 DEF Stalled, Typed, LocksTyped
<1>5. Typed(r)
  <2>1. r.klock \in [Task -> { "none", "klocked", "klockwait" }]
    BY <1>1, <1>3 DEF Typed, LocksTyped, IsFun, IsRec
  <2> QED
    BY <1>1, <1>2, <1>4, <2>1 DEF Typed, TasksTyped, WaitsTyped, LocksTyped, RunTyped, ObjectsTyped,
      SameTasks, SameWaits, SameRun, SameCounts
<1>6. ReadyGood(r, {})
  <2>1. ReadySet(r, {}) = ReadySet(k, {t})
    BY <1>2, <1>3 DEF ReadySet, SameTasks
  <2> QED
    BY <1>1, <1>2, <2>1 DEF ReadyGood, SameTasks
<1>7. LockerGood(r)
  <2>1. CASE k.klocktsk = NULL
    BY <1>2, <2>1 DEF LockerGood
  <2>2. CASE Locker(k, k.klocktsk)
    <3>1. k.klocktsk \in Task
      BY <1>1, <2>2, ReadyState DEF Locker
    <3> QED
      BY <1>2, <1>3, <2>2, <3>1 DEF LockerGood, Locker
  <2> QED
    BY <1>1, <2>1, <2>2 DEF LockerGood
<1>8. ~ waiting(k, t) /\ ~ waiting(r, t)
  BY <1>2 DEF waiting, SameTasks
<1>9. WaitGood(r, {})
  BY <1>1, <1>2, <1>8 DEF WaitGood, LinesGood, TimedGood, Waiters, Receivers, WaitsFor, waiting, SameTasks, SameWaits
<1>10. MutexGood(r, {}, {}, {})
  BY <1>1, <1>2, <1>8 DEF MutexGood, OwnerGood, ListGood, RankGood, Holds, alive, waiting, SameTasks, SameWaits
<1>11. CallsGood(r)
  <2>1. \A u \in Task : r.call[u] # NULL => CallGood(r, u)
    <3> TAKE u \in Task
    <3> HAVE r.call[u] # NULL
    <3>1. CallGood(k, u) /\ r.call[u] = k.call[u] /\ r.state = k.state /\ r.obj = k.obj
      BY <1>1, <1>2 DEF CallsGood, SameTasks
    <3>2. CASE u = t
      BY <1>3, <3>1, <3>2 DEF CallGood, alive, Inside
    <3>3. CASE u # t
      BY <1>3, <3>1, <3>3 DEF CallGood, alive
    <3> QED
      BY <3>2, <3>3
  <2>2. \A u \in Task, n \in Object : Makes(r, u, n) <=> Makes(k, u, n)
    BY <1>2 DEF Makes
  <2>3. GivesGood(r)
    BY <1>1, <1>2, GivesKept DEF CallsGood, Gives, Deletes, SameStock
  <2> QED
    BY <1>1, <1>2, <2>1, <2>2, <2>3 DEF CallsGood
<1>12. LockGood(r)
  <2>1. \A u \in Task, n \in Object : Has(r, u, n) <=> Has(k, u, n)
    BY <1>2, <1>3 DEF Has
  <2>2. \A u \in Task : r.klock[u] # "none" => r.call[u] # NULL /\ r.call[u].o \in Object
    BY <1>1, <1>2, <1>3 DEF LockGood
  <2>3. \A u \in Task : r.klock[u] = "klockwait" => r.state[u] = "ready" /\ r.call[u].at = "lock"
    BY <1>1, <1>2, <1>3 DEF LockGood, SameTasks
  <2>4. ASSUME NEW n \in Object
        PROVE  /\ IsLine(r.wtskq[n], { u \in Task : r.klock[u] = "klockwait" /\ r.call[u].o = n })
               /\ n \notin r.locked => r.wtskq[n] = << >>
               /\ n \in r.locked <=> \E u \in Task : Has(r, u, n)
               /\ \A u, v \in Task : Has(r, u, n) /\ Has(r, v, n) => u = v
    <3> DEFINE S == { u \in Task : k.klock[u] = "klockwait" /\ k.call[u].o = n }
               R == { u \in Task : r.klock[u] = "klockwait" /\ r.call[u].o = n }
    <3>1. IsLine(k.wtskq[n], S) /\ t \notin S
      BY <1>1 DEF LockGood
    <3>2. R = IF n = o THEN S \cup {t} ELSE S
      BY <1>2, <1>3
    <3> HIDE DEF S, R
    <3>3. IsLine(r.wtskq[n], R)
      BY <1>4, <3>1, <3>2, AppendLine
    <3>4. n \notin r.locked => r.wtskq[n] = << >>
      BY <1>1, <1>2, <1>4 DEF LockGood
    <3>5. n \in r.locked <=> \E u \in Task : Has(r, u, n)
      BY <1>1, <1>2, <2>1 DEF LockGood
    <3>6. \A u, v \in Task : Has(r, u, n) /\ Has(r, v, n) => u = v
      BY <1>1, <2>1 DEF LockGood
    <3> QED
      BY <3>3, <3>4, <3>5, <3>6 DEF R
  <2> QED
    BY <2>2, <2>3, <2>4 DEF LockGood
<1> QED
  BY <1>5, <1>6, <1>7, <1>9, <1>10, <1>11, <1>12 DEF Core

(* Where a call may go on. *)
MayGoTo(k, t, c) ==
  /\ c.at \in { "free" } \cup Inside
  /\ k.state[t] \in { "ready", "suspend" }
  /\ c.at \in Inside => k.klock[t] = "klocked"
  /\ c.at = "free" => k.klock[t] = "none"
  /\ c.at \in { "get", "wait", "put" } => k.obj[c.o].kind = "mpf"
  /\ c.at \in { "get", "wait" } => c.does = "get_mpf"
  /\ c.at = "put" => c.does = "rel_mpf"
  /\ c.at = "locked" => c.does \in { "cre_mpf", "del_mpf", "get_mpf", "rel_mpf" }
  /\ c.does = "cre_mpf" => c.at = "locked"

LEMMA StepOnto ==
  ASSUME NEW k, NEW s, Onto(k, s), NEW t \in Task, s.call[t] # NULL, s.call[t].at \notin { "take", "unlock" },
         s.klock[t] # "klockwait",
         NEW c, c # NULL, IsFun(c, { "does", "at", "o", "x", "mempool" }), c.does = s.call[t].does, c.o = s.call[t].o,
         c.x = s.call[t].x \/ (c.does = "get_mpf" /\ IsFun(c.x, { "tmout", "blf" })),
         c.at = "get" => s.obj[c.o].frbcnt > 0 /\ c.x.blf = NextBlock(s.obj[c.o]),
         MayGoTo(s, t, c), NEW r, Recalled(s, r, t, c)
  PROVE  Onto(k, r)
<1>1. CallsGood(s) /\ CallGood(s, t)
  BY DEF Onto, Good, Core, CallsGood
<1>2. r.call[t] = c /\ r.state = s.state /\ r.klock = s.klock /\ r.obj = s.obj
  BY DEF Recalled, SameTasks, SameLocks
<1>3. c.o \in Object
  BY <1>1 DEF CallGood
<1>4. CallGood(r, t)
  <2>1. c.does = "get_mpf" => IsFun(c.x, { "tmout", "blf" })
    BY <1>1 DEF CallGood
  <2>2. c.does = "cre_mpf" => c.x.size \in Nat
    BY <1>1 DEF CallGood
  <2> QED
    BY <1>2, <1>3, <2>1, <2>2 DEF CallGood, MayGoTo, Inside
<1>5. \A n \in Object : Makes(r, t, n) => Makes(s, t, n)
  BY <1>2 DEF Makes
<1>6. \A n \in Object : Makes(r, t, n) => s.obj[n].kind = "taken" /\ \A u \in Task : Makes(s, u, n) => u = t
  BY <1>1, <1>5 DEF CallsGood
<1>7. GivesGood(r)
  BY <1>1, RecalledGives
<1> QED
  BY <1>4, <1>6, <1>7, RecalledOnto

(* Only the place in the call. *)
LEMMA AtOnto ==
  ASSUME NEW k, NEW s, Onto(k, s), NEW t \in Task, s.ctxtsk = t, s.call[t] # NULL,
         s.call[t].at \notin { "take", "unlock" }, s.klock[t] # "klockwait", NEW step, step # "get",
         MayGoTo(s, t, [s.call[t] EXCEPT !.at = step]), NullIsNoCall
  PROVE  Onto(k, At(s, step))
<1> DEFINE c == [s.call[t] EXCEPT !.at = step]
           r == [s EXCEPT !.call[t] = c]
<1>1. Typed(s) /\ CallGood(s, t)
  BY DEF Onto, Good, Core, CallsGood
<1>2. At(s, step) = r
  BY DEF At
<1>3. /\ IsFun(c, { "does", "at", "o", "x", "mempool" })
      /\ c.does = s.call[t].does /\ c.o = s.call[t].o /\ c.x = s.call[t].x /\ c.at = step
  BY <1>1 DEF CallGood, IsFun, IsRec
<1>4. c # NULL
  BY <1>3 DEF NullIsNoCall
<1> HIDE DEF c
<1>5. Recalled(s, r, t, c)
  BY <1>1, RecalledIs
<1> HIDE DEF r
<1> QED
  BY <1>2, <1>3, <1>4, <1>5, StepOnto DEF c

LEMMA OntoFine ==
  ASSUME NEW k, NEW t, Busy(k, t), NEW r, Onto(k, r)
  PROVE  Fine(r) /\ RestGood(r)
BY OntoRest DEF Busy, Onto, Fine, Resting, SameRun

(* The first step of a call on a fixed-size pool, until the lock is had. *)
LEMMA LockObjectFine ==
  ASSUME NEW k, Good(k, {}, {}, {}), NEW t, Busy(k, t), k.call[t].at = "lock", NullIsNoCall
  PROVE  Fine(knl_LockOBJ(k, k.call[t].o, "locked"))
<1> DEFINE o == k.call[t].o
           out == knl_ready_queue_delete(k, t)
           had == [k EXCEPT !.locked = @ \cup {o}, !.klock[t] = "klocked", !.klocktsk = t]
           s == [out EXCEPT !.klock[t] = "klockwait", !.wtskq[o] = Append(@, t)]
           step == "locked"
<1>1. /\ t \in Task /\ k.ctxtsk = t /\ k.state[t] = "ready" /\ k.klock[t] # "klockwait" /\ k.call[t] # NULL
      /\ CallGood(k, t) /\ t \in Range(k.ready)
  BY DEF Busy
<1>2. /\ Core(k, {}, {}, {}) /\ Typed(k) /\ LockGood(k) /\ Onto(k, k) /\ IsFun(k, Fields)
      /\ IsFun(k.klock, Task) /\ k.klock[t] \in { "none", "klocked", "klockwait" }
  BY <1>1 DEF Good, Core, Onto, SameRun, Typed, LocksTyped, IsFun, IsRec
<1>3. o \in Object /\ IsFun(k.call[t], { "does", "at", "o", "x", "mempool" })
  BY <1>1 DEF CallGood
<1>4. /\ [k.call[t] EXCEPT !.at = step].at = "locked"
      /\ [k.call[t] EXCEPT !.at = step].does = k.call[t].does
      /\ k.call[t].does \in { "cre_mpf", "del_mpf", "get_mpf", "rel_mpf" } /\ step # "get"
  BY <1>1, <1>3 DEF CallGood, IsFun, IsRec
<1> HIDE DEF o, step
<1>5. CASE k.klock[t] = "klocked"
  <2>1. knl_LockOBJ(k, o, "locked") = At(k, step)
    BY <1>1, <1>5 DEF knl_LockOBJ, step
  <2>2. MayGoTo(k, t, [k.call[t] EXCEPT !.at = step])
    BY <1>1, <1>4, <1>5 DEF MayGoTo, Inside
  <2>3. Onto(k, At(k, step))
    BY <1>1, <1>2, <1>4, <2>2, AtOnto
  <2> QED
    BY <2>1, <2>3, OntoFine DEF o
<1>6. CASE k.klock[t] = "none" /\ o \notin k.locked
  <2>1. knl_LockOBJ(k, o, "locked") = At(had, step)
    BY <1>1, <1>6 DEF knl_LockOBJ, step
  <2>2. Locked(k, had, t, o)
    <3>1. IsFun(had, Fields) /\ \A f \in Fields \ { "locked", "klock", "klocktsk" } : had[f] = k[f]
      BY <1>2 DEF IsFun, IsRec, Fields
    <3>2. had.locked = k.locked \cup {o} /\ had.klocktsk = t /\ had.klock = [k.klock EXCEPT ![t] = "klocked"]
      BY <1>2 DEF IsFun, IsRec, Fields
    <3> HIDE DEF had
    <3>3. IsFun(had.klock, Task) /\ \A u \in Task : had.klock[u] = IF u = t THEN "klocked" ELSE k.klock[u]
      BY <1>2, <3>2 DEF IsFun, IsRec
    <3>4. /\ SameTasks(k, had) /\ SameWaits(k, had) /\ SameRun(k, had) /\ SameCounts(k, had)
          /\ had.obj = k.obj /\ had.mtxlist = k.mtxlist /\ had.timed = k.timed /\ had.call = k.call /\ had.wtskq = k.wtskq
          /\ had.ready = k.ready /\ had.schedtsk = k.schedtsk
      BY <3>1 DEF Fields, SameTasks, SameWaits, SameRun, SameCounts
    <3> QED
      BY <3>1, <3>2, <3>3, <3>4 DEF Locked
  <2> HIDE DEF had
  <2>3. Good(had, {}, {}, {})
    BY <1>1, <1>3, <1>6, <2>2, LockedGood DEF o
  <2>4. /\ had.call = k.call /\ had.klock[t] = "klocked" /\ SameRun(k, had) /\ had.ready = k.ready
        /\ had.state[t] = "ready"
    BY <1>1, <2>2 DEF Locked, SameTasks
  <2>5. Onto(k, had) /\ had.ctxtsk = t
    BY <1>1, <2>3, <2>4 DEF Onto, SameRun
  <2>6. MayGoTo(had, t, [had.call[t] EXCEPT !.at = step])
    BY <1>4, <2>4 DEF MayGoTo, Inside
  <2>7. Onto(k, At(had, step))
    BY <1>1, <1>4, <2>4, <2>5, <2>6, AtOnto
  <2> QED
    BY <2>1, <2>7, OntoFine DEF o
<1>7. CASE k.klock[t] = "none" /\ o \in k.locked
  <2>1. knl_LockOBJ(k, o, "locked") = knl_reschedule(s)
    BY <1>1, <1>7 DEF knl_LockOBJ
  <2>2. t \notin {} /\ {} \cup {t} = {t}
    OBVIOUS
  <2>3. Core(out, {} \cup {t}, {}, {}) /\ Left(k, out, t)
    BY <1>1, <1>2, <2>2, DeleteCore
  <2>4. Core(out, {t}, {}, {})
    BY <2>2, <2>3
  <2> HIDE DEF out
  <2>5. /\ out.klock[t] = "none" /\ out.call = k.call /\ out.state[t] = "ready" /\ out.locked = k.locked
        /\ SameRun(k, out)
    BY <1>1, <1>7, <2>3 DEF Left, SameTasks
  <2>6. IsFun(out, Fields) /\ IsFun(out.klock, Task) /\ out.wtskq \in [Object -> Seq(Task)]
    BY <2>4 DEF Core, Typed, LocksTyped, IsFun, IsRec
  <2>7. Stalled(out, s, t, o)
    <3>1. IsFun(s, Fields) /\ \A f \in Fields \ { "wtskq", "klock" } : s[f] = out[f]
      BY <2>6 DEF IsFun, IsRec, Fields
    <3>2. s.wtskq = [out.wtskq EXCEPT ![o] = Append(out.wtskq[o], t)] /\ s.klock = [out.klock EXCEPT ![t] = "klockwait"]
      BY <2>6 DEF IsFun, IsRec, Fields
    <3> HIDE DEF s
    <3>3. IsFun(s.klock, Task) /\ \A u \in Task : s.klock[u] = IF u = t THEN "klockwait" ELSE out.klock[u]
      BY <2>6, <3>2 DEF IsFun, IsRec
    <3>4. /\ SameTasks(out, s) /\ SameWaits(out, s) /\ SameRun(out, s) /\ SameCounts(out, s)
          /\ s.obj = out.obj /\ s.mtxlist = out.mtxlist /\ s.timed = out.timed /\ s.call = out.call
          /\ s.locked = out.locked /\ s.ready = out.ready /\ s.schedtsk = out.schedtsk /\ s.klocktsk = out.klocktsk
      BY <3>1 DEF Fields, SameTasks, SameWaits, SameRun, SameCounts
    <3> QED
      BY <3>1, <3>2, <3>3, <3>4 DEF Stalled
  <2> HIDE DEF s
  <2>8. Core(s, {}, {}, {})
    BY <1>1, <1>3, <1>7, <2>4, <2>5, <2>7, StalledCore DEF o
  <2>9. Good(knl_reschedule(s), {}, {}, {}) /\ ButSched(s, knl_reschedule(s))
    BY <2>8, RescheduleGood
  <2>10. SameRun(k, knl_reschedule(s)) /\ ~ k.dispatch_disabled
    BY <2>5, <2>7, <2>9 DEF ButSched, Stalled, SameRun, Busy
  <2> QED
    BY <2>1, <2>9, <2>10 DEF Fine, Resting, SameRun, o
<1> QED
  BY <1>1, <1>2, <1>5, <1>6, <1>7

(* The lock is given back: what changes in any case. *)
GivenUp(k, r, t, c) ==
  /\ IsFun(r, Fields) /\ SameTasks(k, r) /\ SameWaits(k, r) /\ SameRun(k, r) /\ SameCounts(k, r)
  /\ r.obj = k.obj /\ r.mtxlist = k.mtxlist /\ r.timed = k.timed
  /\ IsFun(r.klock, Task) /\ r.klock[t] = "none"
  /\ IsFun(r.call, Task) /\ \A u \in Task : r.call[u] = IF u = t THEN c ELSE k.call[u]

(* Nobody waits for it, *)
Opened(k, r, t, o, c) ==
  /\ GivenUp(k, r, t, c)
  /\ r.locked = k.locked \ {o} /\ r.wtskq = k.wtskq /\ r.ready = k.ready
  /\ r.klocktsk = NULL /\ r.schedtsk = Top(k.ready)
  /\ \A u \in Task : u # t => r.klock[u] = k.klock[u]

(* or the first who does has it and goes before all others. *)
HandedOn(k, r, t, o, c, h) ==
  /\ GivenUp(k, r, t, c) /\ h = Head(k.wtskq[o])
  /\ r.locked = k.locked /\ r.wtskq = [k.wtskq EXCEPT ![o] = Tail(k.wtskq[o])]
  /\ r.ready = Put(k.ready, { i \in DOMAIN k.ready : k.priority[k.ready[i]] >= k.priority[h] }, h)
  /\ r.klocktsk = h /\ r.schedtsk = h
  /\ \A u \in Task : u # t => r.klock[u] = IF u = h THEN "klocked" ELSE k.klock[u]

(* What the call is then. *)
AfterLock(k, t, c) ==
  c # NULL => /\ IsFun(c, { "does", "at", "o", "x", "mempool" }) /\ c.at = "free" /\ c.does = "del_mpf"
              /\ c.o \in Object /\ Deletes(k, t, c.o) /\ k.state[t] \in { "ready", "suspend" }

(* The parts of the invariant that the two cases have in common. *)
LEMMA GivenUpKept ==
  ASSUME NEW k, Good(k, {}, {}, {}), NEW t \in Task, NEW c, AfterLock(k, t, c), NEW r, GivenUp(k, r, t, c),
         \A u \in Task : u # t => r.klock[u] = k.klock[u] \/ (k.klock[u] = "klockwait" /\ r.klock[u] = "klocked"),
         r.locked \in SUBSET Object, r.wtskq \in [Object -> Seq(Task)], r.ready \in Seq(Task),
         r.klocktsk \in Task \cup {NULL}, r.schedtsk \in Task \cup {NULL}
  PROVE  Typed(r) /\ WaitGood(r, {}) /\ MutexGood(r, {}, {}, {}) /\ CallsGood(r)
<1>1. Typed(k) /\ WaitGood(k, {}) /\ MutexGood(k, {}, {}, {}) /\ CallsGood(k)
  BY DEF Good, Core
<1>2. /\ IsFun(r, Fields) /\ SameTasks(k, r) /\ SameWaits(k, r) /\ SameRun(k, r) /\ SameCounts(k, r)
      /\ r.obj = k.obj /\ r.mtxlist = k.mtxlist /\ r.timed = k.timed
      /\ IsFun(r.klock, Task) /\ r.klock[t] = "none"
      /\ IsFun(r.call, Task) /\ \A u \in Task : r.call[u] = IF u = t THEN c ELSE k.call[u]
  BY DEF GivenUp
<1>3. Typed(r)
  <2>1. \A u \in Task : r.klock[u] \in { "none", "klocked", "klockwait" }
    BY <1>1, <1>2 DEF Typed, LocksTyped
  <2>2. r.klock \in [Task -> { "none", "klocked", "klockwait" }]
    BY <1>2, <2>1 DEF IsFun, IsRec
  <2> QED
    BY <1>1, <1>2, <2>2 DEF Typed, TasksTyped, WaitsTyped, LocksTyped, RunTyped, ObjectsTyped,
      SameTasks, SameWaits, SameRun, SameCounts
<1>4. WaitGood(r, {})
  <2>1. \A u \in Task : (u \notin {} /\ waiting(r, u)) <=> (u \notin {} /\ waiting(k, u))
    BY <1>2 DEF waiting, SameTasks
  <2>2. \A u \in Task : u \notin {} /\ waiting(k, u) =>
          r.wspec[u] = k.wspec[u] /\ r.wid[u] = k.wid[u] /\ r.winfo[u] = k.winfo[u] /\ r.priority[u] = k.priority[u]
    BY <1>2 DEF SameTasks, SameWaits
  <2>3. \A x \in Object : SameQueues(k.obj[x], r.obj[x])
    BY <1>2 DEF SameQueues
  <2>4. \A u \in Task : r.timed[u] => k.timed[u]
    BY <1>2
  <2> QED
    BY <1>1, <2>1, <2>2, <2>3, <2>4, WaitKept
<1>5. MutexGood(r, {}, {}, {})
  BY <1>1, <1>2 DEF MutexGood, OwnerGood, ListGood, RankGood, Holds, alive, waiting, SameTasks, SameWaits
<1>6. CallsGood(r)
  <2>1. \A u \in Task : r.call[u] # NULL => CallGood(r, u)
    <3> TAKE u \in Task
    <3> HAVE r.call[u] # NULL
    <3>1. r.state = k.state /\ r.obj = k.obj
      BY <1>2 DEF SameTasks
    <3>2. CASE u = t
      <4>1. r.call[u] = c
        BY <1>2, <3>2
      <4> QED
        BY <1>2, <3>1, <3>2, <4>1 DEF CallGood, AfterLock, Inside
    <3>3. CASE u # t
      <4>1. CallGood(k, u) /\ r.call[u] = k.call[u]
        BY <1>1, <1>2, <3>3 DEF CallsGood
      <4>2. r.klock[u] = k.klock[u] \/ (k.klock[u] = "klockwait" /\ r.klock[u] = "klocked")
        BY <3>3
      <4> QED
        BY <3>1, <4>1, <4>2 DEF CallGood, alive
    <3> QED
      BY <3>2, <3>3
  <2>2. \A u \in Task, n \in Object : Makes(r, u, n) => Makes(k, u, n)
    BY <1>2 DEF Makes, AfterLock
  <2>3. \A u \in Task, n \in Object :
          /\ Gives(r, u, n) => Gives(k, u, n) /\ r.call[u].x.blf = k.call[u].x.blf
          /\ Deletes(r, u, n) => Deletes(k, u, n)
    <3> TAKE u \in Task, n \in Object
    <3>1. r.call[u] = IF u = t THEN c ELSE k.call[u]
      BY <1>2
    <3>2. CASE u = t
      BY <3>1, <3>2 DEF Gives, Deletes, AfterLock
    <3>3. CASE u # t
      BY <3>1, <3>3 DEF Gives, Deletes
    <3> QED
      BY <3>2, <3>3
  <2>4. GivesGood(r)
    BY <1>1, <1>2, <2>3, GivesKept DEF CallsGood, SameStock
  <2> QED
    BY <1>1, <1>2, <2>1, <2>2, <2>4 DEF CallsGood
<1> QED
  BY <1>3, <1>4, <1>5, <1>6

LEMMA OpenedGood ==
  ASSUME NEW k, Good(k, {}, {}, {}), NEW t \in Task, NEW o \in Object, Has(k, t, o), k.wtskq[o] = << >>,
         NEW c, AfterLock(k, t, c), NEW r, Opened(k, r, t, o, c)
  PROVE  Good(r, {}, {}, {})
<1>1. /\ Typed(k) /\ ReadyGood(k, {}) /\ LockGood(k)
  BY DEF Good, Core
<1>2. /\ GivenUp(k, r, t, c)
      /\ r.locked = k.locked \ {o} /\ r.wtskq = k.wtskq /\ r.ready = k.ready
      /\ r.klocktsk = NULL /\ r.schedtsk = Top(k.ready)
      /\ \A u \in Task : u # t => r.klock[u] = k.klock[u]
  BY DEF Opened
<1>3. r.klock[t] = "none" /\ k.klock[t] = "klocked" /\ r.state = k.state /\ r.priority = k.priority
  BY <1>2 DEF GivenUp, Has, SameTasks
<1>4. Typed(r) /\ WaitGood(r, {}) /\ MutexGood(r, {}, {}, {}) /\ CallsGood(r)
  <2>1. /\ r.locked \in SUBSET Object /\ r.wtskq \in [Object -> Seq(Task)] /\ r.ready \in Seq(Task)
        /\ r.klocktsk \in Task \cup {NULL}
    BY <1>1, <1>2 DEF Typed, LocksTyped, RunTyped
  <2>2. r.schedtsk \in Task \cup {NULL}
    BY <1>1, <1>2 DEF Typed, RunTyped, Top
  <2> QED
    BY <1>2, <2>1, <2>2, GivenUpKept
<1>5. ReadyGood(r, {})
  <2>1. ReadySet(r, {}) = ReadySet(k, {})
    BY <1>2, <1>3 DEF ReadySet
  <2> QED
    BY <1>1, <1>2, <1>3, <2>1 DEF ReadyGood
<1>6. LockerGood(r) /\ TopGood(r)
  BY <1>2 DEF LockerGood, TopGood
<1>7. LockGood(r)
  <2>1. \A u \in Task : u # t => r.call[u] = k.call[u]
    BY <1>2 DEF GivenUp
  <2>2. \A n \in Object : { u \in Task : r.klock[u] = "klockwait" /\ r.call[u].o = n }
                            = { u \in Task : k.klock[u] = "klockwait" /\ k.call[u].o = n }
    BY <1>2, <1>3, <2>1
  <2>3. \A u \in Task, n \in Object : Has(r, u, n) <=> Has(k, u, n) /\ u # t
    BY <1>2, <1>3, <2>1 DEF Has
  <2>4. \A u \in Task : r.klock[u] # "none" => r.call[u] # NULL /\ r.call[u].o \in Object
    BY <1>1, <1>2, <1>3, <2>1 DEF LockGood
  <2>5. \A u \in Task : r.klock[u] = "klockwait" => r.state[u] = "ready" /\ r.call[u].at = "lock"
    BY <1>1, <1>2, <1>3, <2>1 DEF LockGood
  <2>6. ASSUME NEW n \in Object
        PROVE  /\ IsLine(r.wtskq[n], { u \in Task : r.klock[u] = "klockwait" /\ r.call[u].o = n })
               /\ n \notin r.locked => r.wtskq[n] = << >>
               /\ n \in r.locked <=> \E u \in Task : Has(r, u, n)
               /\ \A u, v \in Task : Has(r, u, n) /\ Has(r, v, n) => u = v
    <3>1. IsLine(r.wtskq[n], { u \in Task : r.klock[u] = "klockwait" /\ r.call[u].o = n })
      BY <1>1, <1>2, <2>2 DEF LockGood
    <3>2. n \notin r.locked => r.wtskq[n] = << >>
      BY <1>1, <1>2 DEF LockGood
    <3>3. n \in r.locked <=> \E u \in Task : Has(r, u, n)
      <4>1. CASE n = o
        <5>1. \A u \in Task : Has(k, u, o) => u = t
          BY <1>1 DEF LockGood
        <5> QED
          BY <1>2, <2>3, <4>1, <5>1
      <4>2. CASE n # o
        <5>1. ~ Has(k, t, n)
          BY <4>2 DEF Has
        <5>2. n \in k.locked <=> \E u \in Task : Has(k, u, n)
          BY <1>1 DEF LockGood
        <5> QED
          BY <1>2, <2>3, <4>2, <5>1, <5>2
      <4> QED
        BY <4>1, <4>2
    <3>4. \A u, v \in Task : Has(r, u, n) /\ Has(r, v, n) => u = v
      BY <1>1, <2>3 DEF LockGood
    <3> QED
      BY <3>1, <3>2, <3>3, <3>4
  <2> QED
    BY <2>4, <2>5, <2>6 DEF LockGood
<1> QED
  BY <1>4, <1>5, <1>6, <1>7 DEF Good, Core

LEMMA HandedOnGood ==
  ASSUME NEW k, Good(k, {}, {}, {}), NEW t \in Task, NEW o \in Object, Has(k, t, o), k.wtskq[o] # << >>,
         NEW c, AfterLock(k, t, c), NEW h, NEW r, HandedOn(k, r, t, o, c, h)
  PROVE  Good(r, {}, {}, {}) /\ \A u \in Task : u \in Range(k.ready) => u \in Range(r.ready)
<1> DEFINE b == { i \in DOMAIN k.ready : k.priority[k.ready[i]] >= k.priority[h] }
           S == { u \in Task : k.klock[u] = "klockwait" /\ k.call[u].o = o }
           R == ReadySet(k, {})
<1>1. /\ Typed(k) /\ ReadyGood(k, {}) /\ LockGood(k)
  BY DEF Good, Core
<1>2. /\ GivenUp(k, r, t, c) /\ h = Head(k.wtskq[o])
      /\ r.locked = k.locked /\ r.wtskq = [k.wtskq EXCEPT ![o] = Tail(k.wtskq[o])]
      /\ r.ready = Put(k.ready, b, h) /\ r.klocktsk = h /\ r.schedtsk = h
      /\ \A u \in Task : u # t => r.klock[u] = IF u = h THEN "klocked" ELSE k.klock[u]
  BY DEF HandedOn
<1>3. /\ r.klock[t] = "none" /\ k.klock[t] = "klocked" /\ k.call[t].o = o
      /\ r.state = k.state /\ r.priority = k.priority
  BY <1>2 DEF GivenUp, Has, SameTasks
<1>4. IsLine(k.wtskq[o], S)
  BY <1>1 DEF LockGood
<1>5. h \in S
  BY <1>2, <1>4, LineRange
<1>6. h \in Task /\ k.klock[h] = "klockwait" /\ h # t /\ k.call[h].o = o /\ k.state[h] = "ready"
  BY <1>1, <1>3, <1>5 DEF LockGood
<1>7. r.klock[h] = "klocked"
  BY <1>2, <1>6
<1>8. IsLine(k.ready, R) /\ Ordered(k.priority, k.ready) /\ h \notin R /\ b \subseteq DOMAIN k.ready
  BY <1>1, <1>6 DEF ReadyGood, ReadySet
<1>9. IsLine(r.ready, R \cup {h})
  <2> HIDE DEF b, R
  <2> QED
    BY <1>2, <1>8, PutLine
<1>10. Ordered(k.priority, r.ready)
  <2>1. R \in SUBSET Task /\ k.priority \in [Task -> Pri]
    BY <1>1 DEF Typed, TasksTyped, ReadySet
  <2>2. \A i \in DOMAIN k.ready : k.ready[i] \in Task /\ k.priority[k.ready[i]] \in Nat /\ k.priority[h] \in Nat
    BY <1>1, <1>6, <2>1, KernelTaskAssumption DEF Typed, RunTyped, Pri
  <2>3. \A i \in b : k.priority[h] <= k.priority[k.ready[i]]
    BY <2>2
  <2>4. \A i \in DOMAIN k.ready \ b : k.priority[k.ready[i]] <= k.priority[h]
    BY <2>2
  <2>5. h \in Task \ R
    BY <1>6, <1>8
  <2> HIDE DEF b, R
  <2> QED
    BY <1>2, <1>8, <2>1, <2>3, <2>4, <2>5, PutOrdered
<1>11. r.ready \in Seq(Task)
  <2>1. r.ready \in Seq(R \cup {h})
    BY <1>9 DEF IsLine
  <2>2. R \cup {h} \subseteq Task
    BY <1>6 DEF ReadySet
  <2> HIDE DEF R
  <2> QED
    BY <2>1, <2>2
<1>12. Range(r.ready) = R \cup {h} /\ Range(k.ready) = R
  <2> HIDE DEF R
  <2> QED
    BY <1>8, <1>9, LineRange
<1>13. Tail(k.wtskq[o]) \in Seq(Task) /\ IsLine(Tail(k.wtskq[o]), S \ {h})
  <2>1. k.wtskq[o] \in Seq(Task)
    BY <1>1 DEF Typed, LocksTyped
  <2>2. Tail(k.wtskq[o]) \in Seq(Task)
    BY <2>1
  <2> HIDE DEF S
  <2>3. IsLine(Tail(k.wtskq[o]), S \ {h})
    BY <1>2, <1>4, TailLine
  <2> QED
    BY <2>2, <2>3
<1>14. /\ r.wtskq \in [Object -> Seq(Task)]
       /\ \A n \in Object : r.wtskq[n] = IF n = o THEN Tail(k.wtskq[o]) ELSE k.wtskq[n]
  BY <1>1, <1>2, <1>13 DEF Typed, LocksTyped
<1>15. Typed(r) /\ WaitGood(r, {}) /\ MutexGood(r, {}, {}, {}) /\ CallsGood(r)
  <2>1. /\ r.locked \in SUBSET Object /\ r.klocktsk \in Task \cup {NULL} /\ r.schedtsk \in Task \cup {NULL}
    BY <1>1, <1>2, <1>6 DEF Typed, LocksTyped
  <2>2. \A u \in Task : u # t => r.klock[u] = k.klock[u] \/ (k.klock[u] = "klockwait" /\ r.klock[u] = "klocked")
    BY <1>2, <1>6
  <2>3. GivenUp(k, r, t, c) /\ r.ready \in Seq(Task) /\ r.wtskq \in [Object -> Seq(Task)]
    BY <1>2, <1>11, <1>14
  <2> HIDE DEF b, R, S
  <2> QED
    BY <2>1, <2>2, <2>3, GivenUpKept
<1>16. ReadyGood(r, {})
  <2>1. ReadySet(r, {}) = R \cup {h}
    BY <1>2, <1>3, <1>6, <1>7 DEF ReadySet
  <2> HIDE DEF R
  <2> QED
    BY <1>3, <1>9, <1>10, <2>1 DEF ReadyGood
<1>17. LockerGood(r) /\ TopGood(r)
  BY <1>2, <1>7, <1>12 DEF LockerGood, TopGood, Locker
<1>18. LockGood(r)
  <2>1. \A u \in Task : u # t => r.call[u] = k.call[u]
    BY <1>2 DEF GivenUp
  <2>2. \A u \in Task : r.klock[u] = "klockwait" <=> k.klock[u] = "klockwait" /\ u # h
    BY <1>2, <1>3, <1>6
  <2>3. \A u \in Task, n \in Object : Has(r, u, n) <=> (Has(k, u, n) /\ u # t) \/ (u = h /\ n = o)
    BY <1>2, <1>3, <1>6, <1>7, <2>1 DEF Has
  <2>4. \A u \in Task : r.klock[u] # "none" => r.call[u] # NULL /\ r.call[u].o \in Object
    BY <1>1, <1>2, <1>3, <1>6, <2>1 DEF LockGood
  <2>5. \A u \in Task : r.klock[u] = "klockwait" => r.state[u] = "ready" /\ r.call[u].at = "lock"
    BY <1>1, <1>3, <2>1, <2>2 DEF LockGood
  <2>6. ASSUME NEW n \in Object
        PROVE  /\ IsLine(r.wtskq[n], { u \in Task : r.klock[u] = "klockwait" /\ r.call[u].o = n })
               /\ n \notin r.locked => r.wtskq[n] = << >>
               /\ n \in r.locked <=> \E u \in Task : Has(r, u, n)
               /\ \A u, v \in Task : Has(r, u, n) /\ Has(r, v, n) => u = v
    <3> DEFINE Q == { u \in Task : k.klock[u] = "klockwait" /\ k.call[u].o = n }
               P == { u \in Task : r.klock[u] = "klockwait" /\ r.call[u].o = n }
    <3>1. IsLine(k.wtskq[n], Q)
      BY <1>1 DEF LockGood
    <3>2. P = IF n = o THEN S \ {h} ELSE Q
      <4>1. \A u \in Task : u \in P <=> u \in Q /\ u # h
        BY <1>3, <2>1, <2>2
      <4> QED
        BY <1>6, <4>1
    <3>3. IsLine(r.wtskq[n], P)
      <4> HIDE DEF P, Q, S
      <4> QED
        BY <1>13, <1>14, <3>1, <3>2
    <3>4. k.locked = r.locked /\ o \in k.locked
      BY <1>1, <1>2 DEF LockGood
    <3>5. n \notin r.locked => r.wtskq[n] = << >>
      BY <1>1, <1>14, <3>4 DEF LockGood
    <3>6. n \in k.locked <=> \E u \in Task : Has(k, u, n)
      BY <1>1 DEF LockGood
    <3>7. n # o => ~ Has(k, t, n)
      BY <1>3 DEF Has
    <3>8. n \in r.locked <=> \E u \in Task : Has(r, u, n)
      BY <1>6, <2>3, <3>4, <3>6, <3>7
    <3>9. \A u, v \in Task : Has(k, u, n) /\ Has(k, v, n) => u = v
      BY <1>1 DEF LockGood
    <3>10. \A u, v \in Task : Has(r, u, n) /\ Has(r, v, n) => u = v
      BY <2>3, <3>9
    <3> QED
      BY <3>3, <3>5, <3>8, <3>10 DEF P
  <2> QED
    BY <2>4, <2>5, <2>6 DEF LockGood
<1> QED
  BY <1>12, <1>15, <1>16, <1>17, <1>18 DEF Good, Core

(* What knl_UnlockOBJ does. *)
LockFields == { "klock", "klocktsk", "locked", "wtskq", "ready", "schedtsk" }
Unlocks(k, r, t, o) ==
  /\ IsFun(r, Fields) /\ \A f \in Fields \ LockFields : r[f] = k[f]
  /\ IsFun(r.klock, Task) /\ r.klock[t] = "none"
  /\ k.wtskq[o] = << >> =>
       /\ r.locked = k.locked \ {o} /\ r.wtskq = k.wtskq /\ r.ready = k.ready
       /\ r.klocktsk = NULL /\ r.schedtsk = Top(k.ready)
       /\ \A u \in Task : u # t => r.klock[u] = k.klock[u]
  /\ k.wtskq[o] # << >> =>
       LET h == Head(k.wtskq[o])
       IN  /\ r.locked = k.locked /\ r.wtskq = [k.wtskq EXCEPT ![o] = Tail(k.wtskq[o])]
           /\ r.ready = Put(k.ready, { i \in DOMAIN k.ready : k.priority[k.ready[i]] >= k.priority[h] }, h)
           /\ r.klocktsk = h /\ r.schedtsk = h
           /\ \A u \in Task : u # t => r.klock[u] = IF u = h THEN "klocked" ELSE k.klock[u]

LEMMA UnlockIs ==
  ASSUME NEW k, Typed(k), NEW t \in Task, k.ctxtsk = t, NEW o \in Object,
         k.wtskq[o] # << >> => Head(k.wtskq[o]) # t
  PROVE  Unlocks(k, knl_UnlockOBJ(k, o), t, o)
<1> DEFINE freed == [k EXCEPT !.klock[t] = "none", !.klocktsk = NULL]
           r == knl_UnlockOBJ(k, o)
<1>1. /\ IsFun(k, Fields) /\ IsFun(k.klock, Task) /\ k.wtskq \in [Object -> Seq(Task)]
  BY DEF Typed, LocksTyped, IsFun, IsRec
<1>2. /\ IsFun(freed, Fields) /\ \A f \in Fields \ { "klock", "klocktsk" } : freed[f] = k[f]
      /\ freed.klock = [k.klock EXCEPT ![t] = "none"] /\ freed.klocktsk = NULL
  BY <1>1 DEF IsFun, IsRec, Fields
<1>3. /\ freed.wtskq = k.wtskq /\ freed.locked = k.locked /\ freed.ready = k.ready /\ freed.priority = k.priority
  BY <1>2 DEF Fields
<1>4. IsFun(freed.klock, Task) /\ \A u \in Task : freed.klock[u] = IF u = t THEN "none" ELSE k.klock[u]
  BY <1>1, <1>2 DEF IsFun, IsRec
<1>5. CASE k.wtskq[o] = << >>
  <2> DEFINE x == [freed EXCEPT !.locked = @ \ {o}]
  <2>1. r = knl_reschedule(x)
    BY <1>5 DEF knl_UnlockOBJ
  <2> HIDE DEF freed
  <2>2. /\ IsFun(x, Fields) /\ \A f \in Fields \ { "locked" } : x[f] = freed[f]
        /\ x.locked = freed.locked \ {o}
    BY <1>2 DEF IsFun, IsRec, Fields
  <2> HIDE DEF x
  <2>3. r = [x EXCEPT !.schedtsk = Top(k.ready)]
    BY <1>2, <1>3, <2>1, <2>2 DEF knl_reschedule, knl_ready_queue_top, Fields
  <2> HIDE DEF r
  <2>4. /\ IsFun(r, Fields) /\ \A f \in Fields \ { "schedtsk" } : r[f] = x[f]
        /\ r.schedtsk = Top(k.ready)
    BY <2>2, <2>3 DEF IsFun, IsRec, Fields
  <2>5. \A f \in Fields \ LockFields : r[f] = k[f]
    BY <1>2, <2>2, <2>4 DEF Fields, LockFields
  <2>6. /\ r.klock = freed.klock /\ r.klocktsk = NULL /\ r.wtskq = k.wtskq /\ r.locked = k.locked \ {o}
        /\ r.ready = k.ready
    BY <1>2, <1>3, <2>2, <2>4 DEF Fields
  <2>7. Unlocks(k, r, t, o)
    BY <1>4, <1>5, <2>4, <2>5, <2>6 DEF Unlocks
  <2> QED
    BY <2>7 DEF r
<1>6. CASE k.wtskq[o] # << >>
  <2> DEFINE h == Head(k.wtskq[o])
             b == { i \in DOMAIN k.ready : k.priority[k.ready[i]] >= k.priority[h] }
             y == [freed EXCEPT !.wtskq[o] = Tail(@), !.klock[h] = "klocked"]
             x == knl_ready_queue_insert_top(y, h)
  <2>1. r = knl_reschedule(x)
    BY <1>3, <1>6 DEF knl_UnlockOBJ
  <2>2. h \in Task /\ h # NULL
    BY <1>1, <1>6, KernelTaskAssumption
  <2>3. h # t
    BY <1>6
  <2> HIDE DEF freed, h
  <2>4. /\ IsFun(y, Fields) /\ \A f \in Fields \ { "wtskq", "klock" } : y[f] = freed[f]
        /\ y.wtskq = [freed.wtskq EXCEPT ![o] = Tail(freed.wtskq[o])] /\ y.klock = [freed.klock EXCEPT ![h] = "klocked"]
    BY <1>2 DEF IsFun, IsRec, Fields
  <2>5. IsFun(y.klock, Task) /\ \A u \in Task : y.klock[u] = IF u = h THEN "klocked" ELSE freed.klock[u]
    BY <1>4, <2>4 DEF IsFun, IsRec
  <2>6. y.ready = k.ready /\ y.priority = k.priority /\ y.klock[h] = "klocked"
    BY <1>3, <2>2, <2>4, <2>5 DEF Fields
  <2> HIDE DEF y
  <2>7. x = [y EXCEPT !.ready = Put(k.ready, b, h), !.klocktsk = h]
    BY <2>4, <2>6 DEF knl_ready_queue_insert_top, Put, IsFun, IsRec, Fields
  <2> HIDE DEF x, b
  <2>8. /\ IsFun(x, Fields) /\ \A f \in Fields \ { "ready", "klocktsk" } : x[f] = y[f]
        /\ x.ready = Put(k.ready, b, h) /\ x.klocktsk = h
    BY <2>4, <2>7 DEF IsFun, IsRec, Fields
  <2>9. r = [x EXCEPT !.schedtsk = h]
    BY <2>1, <2>2, <2>8 DEF knl_reschedule, knl_ready_queue_top
  <2> HIDE DEF r
  <2>10. /\ IsFun(r, Fields) /\ \A f \in Fields \ { "schedtsk" } : r[f] = x[f]
         /\ r.schedtsk = h
    BY <2>8, <2>9 DEF IsFun, IsRec, Fields
  <2>11. \A f \in Fields \ LockFields : r[f] = k[f]
    BY <1>2, <2>4, <2>8, <2>10 DEF Fields, LockFields
  <2>12. /\ r.klock = y.klock /\ r.klocktsk = h /\ r.wtskq = [k.wtskq EXCEPT ![o] = Tail(k.wtskq[o])]
         /\ r.locked = k.locked /\ r.ready = Put(k.ready, b, h)
    BY <1>2, <1>3, <2>4, <2>8, <2>10 DEF Fields
  <2>13. r.klock[t] = "none" /\ \A u \in Task : u # t => r.klock[u] = IF u = h THEN "klocked" ELSE k.klock[u]
    BY <1>4, <2>3, <2>5, <2>12
  <2>14. Unlocks(k, r, t, o)
    BY <1>6, <2>5, <2>10, <2>11, <2>12, <2>13 DEF Unlocks, h, b
  <2> QED
    BY <2>14 DEF r
<1> QED
  BY <1>5, <1>6

(* The running task gives the lock back, and its call ends or goes on without it;
   s is k, or k with something else in the call. *)
LEMMA UnlockOnto ==
  ASSUME NEW k, Good(k, {}, {}, {}), NEW t \in Task, k.ctxtsk = t, NEW o \in Object, Has(k, t, o),
         NEW c, AfterLock(k, t, c),
         NEW s, Typed(s), \A f \in Fields \ {"call"} : s[f] = k[f], \A u \in Task : u # t => s.call[u] = k.call[u]
  PROVE  Onto(k, [knl_UnlockOBJ(s, o) EXCEPT !.call[t] = c])
<1> DEFINE x == knl_UnlockOBJ(s, o)
           r == [x EXCEPT !.call[t] = c]
           h == Head(k.wtskq[o])
           S == { u \in Task : k.klock[u] = "klockwait" /\ k.call[u].o = o }
<1>1. /\ s.ctxtsk = t /\ s.wtskq = k.wtskq /\ s.locked = k.locked /\ s.ready = k.ready
      /\ s.priority = k.priority /\ s.klock = k.klock
  BY DEF Fields
<1>2. k.wtskq[o] # << >> => h # t
  <2>1. IsLine(k.wtskq[o], S) /\ t \notin S
    BY DEF Good, Core, LockGood, Has
  <2> HIDE DEF S
  <2> QED
    BY <2>1, LineRange
<1>3. Unlocks(s, x, t, o)
  BY <1>1, <1>2, UnlockIs
<1>4. IsFun(s.call, Task)
  BY DEF Typed, LocksTyped
<1> HIDE DEF x
<1>5. IsFun(x, Fields) /\ x.call = s.call
  BY <1>3 DEF Unlocks, Fields, LockFields
<1>6. IsFun(r, Fields) /\ \A f \in Fields \ {"call"} : r[f] = x[f]
  BY <1>5 DEF IsFun, IsRec, Fields
<1>7. r.call = [s.call EXCEPT ![t] = c]
  BY <1>5 DEF IsFun, IsRec, Fields
<1>8. IsFun(r.call, Task) /\ \A u \in Task : r.call[u] = IF u = t THEN c ELSE k.call[u]
  BY <1>4, <1>7 DEF IsFun, IsRec
<1> HIDE DEF r
<1>9. \A f \in Fields \ (LockFields \cup {"call"}) : r[f] = k[f]
  BY <1>3, <1>6 DEF Unlocks
<1>10. /\ r.klock = x.klock /\ r.klocktsk = x.klocktsk /\ r.locked = x.locked /\ r.wtskq = x.wtskq
       /\ r.ready = x.ready /\ r.schedtsk = x.schedtsk
  BY <1>6 DEF Fields
<1>11. GivenUp(k, r, t, c)
  <2>1. /\ SameTasks(k, r) /\ SameWaits(k, r) /\ SameRun(k, r) /\ SameCounts(k, r)
        /\ r.obj = k.obj /\ r.mtxlist = k.mtxlist /\ r.timed = k.timed
    BY <1>9 DEF Fields, LockFields, SameTasks, SameWaits, SameRun, SameCounts
  <2>2. IsFun(r.klock, Task) /\ r.klock[t] = "none"
    BY <1>3, <1>10 DEF Unlocks
  <2> QED
    BY <1>6, <1>8, <2>1, <2>2 DEF GivenUp
<1>12. SameRun(k, r)
  BY <1>11 DEF GivenUp
<1>13. CASE k.wtskq[o] = << >>
  <2>1. Opened(k, r, t, o, c)
    BY <1>1, <1>3, <1>10, <1>11, <1>13 DEF Opened, Unlocks
  <2>2. Good(r, {}, {}, {}) /\ r.ready = k.ready
    BY <1>13, <2>1, OpenedGood DEF Opened
  <2>3. Onto(k, r)
    BY <1>12, <2>2 DEF Onto
  <2> QED
    BY <2>3 DEF r, x
<1>14. CASE k.wtskq[o] # << >>
  <2>1. HandedOn(k, r, t, o, c, h)
    BY <1>1, <1>3, <1>10, <1>11, <1>14 DEF HandedOn, Unlocks
  <2> HIDE DEF h
  <2>2. Good(r, {}, {}, {}) /\ \A u \in Task : u \in Range(k.ready) => u \in Range(r.ready)
    BY <1>14, <2>1, HandedOnGood
  <2>3. Onto(k, r)
    BY <1>12, <2>2 DEF Onto
  <2> QED
    BY <2>3 DEF r, x
<1> QED
  BY <1>13, <1>14

(* The end of a call in which it is locked; the task may have begun to wait in it. *)
LEMMA OutFine ==
  ASSUME NEW k, Good(k, {}, {}, {}), NEW t \in Task, k.ctxtsk = t, ~ k.dispatch_disabled, k.klock[t] = "klocked"
  PROVE  Fine(Out(k)) /\ Onto(k, Out(k))
<1> DEFINE o == k.call[t].o
           x == knl_UnlockOBJ(k, o)
           r == [x EXCEPT !.call[t] = NULL]
<1>1. o \in Object /\ Typed(k) /\ LockGood(k)
  BY DEF Good, Core, LockGood
<1>2. Has(k, t, o)
  BY DEF Has
<1>3. AfterLock(k, t, NULL)
  BY DEF AfterLock
<1> HIDE DEF o
<1>4. Onto(k, r)
  BY <1>1, <1>2, <1>3, UnlockOnto
<1>5. x.ctxtsk = t
  <2> DEFINE S == { u \in Task : k.klock[u] = "klockwait" /\ k.call[u].o = o }
  <2>1. IsLine(k.wtskq[o], S) /\ t \notin S
    BY <1>1 DEF LockGood
  <2> HIDE DEF S
  <2>2. k.wtskq[o] # << >> => Head(k.wtskq[o]) # t
    BY <2>1, LineRange
  <2>3. Unlocks(k, x, t, o)
    BY <1>1, <2>2, UnlockIs
  <2> QED
    BY <2>3 DEF Unlocks, Fields, LockFields
<1>6. Out(k) = r
  BY <1>5 DEF Out, Leave, o
<1> HIDE DEF r
<1> QED
  BY <1>4, <1>6 DEF Fine, Resting, Onto, SameRun

LEMMA UnlockRun ==
  ASSUME NEW k, Good(k, {}, {}, {}), NEW t \in Task, k.ctxtsk = t, NEW o \in Object, Has(k, t, o),
         NEW s, Typed(s), \A f \in Fields \ {"call"} : s[f] = k[f]
  PROVE  /\ knl_UnlockOBJ(s, o).ctxtsk = t /\ knl_UnlockOBJ(s, o).call = s.call
         /\ IsFun(knl_UnlockOBJ(s, o), Fields)
<1> DEFINE x == knl_UnlockOBJ(s, o)
           S == { u \in Task : k.klock[u] = "klockwait" /\ k.call[u].o = o }
<1>1. s.ctxtsk = t /\ s.wtskq = k.wtskq
  BY DEF Fields
<1>2. IsLine(k.wtskq[o], S) /\ t \notin S
  BY DEF Good, Core, LockGood, Has
<1> HIDE DEF S
<1>3. s.wtskq[o] # << >> => Head(s.wtskq[o]) # t
  BY <1>1, <1>2, LineRange
<1>4. Unlocks(s, x, t, o)
  BY <1>1, <1>3, UnlockIs
<1> HIDE DEF x
<1>5. x.ctxtsk = t /\ x.call = s.call /\ IsFun(x, Fields)
  BY <1>1, <1>4 DEF Unlocks, Fields, LockFields
<1> QED
  BY <1>5 DEF x

-----------------------------------------------------------------------------
(***************************************************************************)
(* The steps of the calls on fixed-size pools.                             *)
(***************************************************************************)
(* The running task has the lock of the object its call is about. *)
InLock(k, t) ==
  /\ Good(k, {}, {}, {}) /\ Busy(k, t) /\ k.klock[t] = "klocked" /\ k.call[t].o \in Object
  /\ Has(k, t, k.call[t].o) /\ IsFun(k.call[t], { "does", "at", "o", "x", "mempool" })

LEMMA InLockIs ==
  ASSUME NEW k, Good(k, {}, {}, {}), NEW t, Busy(k, t), k.call[t].at \in Inside
  PROVE  InLock(k, t) /\ Onto(k, k) /\ Fine(k) /\ t \in Task /\ k.ctxtsk = t /\ ~ k.dispatch_disabled
BY DEF InLock, Busy, CallGood, Inside, Has, Onto, SameRun, Fine, Resting

(* An object has changed, and a call. *)
SameButCall(k, r) == \A f \in Fields \ {"call"} : k[f] = r[f]

LEMMA ChangedFields ==
  ASSUME NEW k, Typed(k), NEW t \in Task, NEW o \in Object, NEW b, NEW c,
         Typed([k EXCEPT !.call[t] = c])
  PROVE  SameButCall([k EXCEPT !.obj[o] = b], [[k EXCEPT !.call[t] = c] EXCEPT !.obj[o] = b])
<1> DEFINE s == [k EXCEPT !.obj[o] = b]
           ka == [k EXCEPT !.call[t] = c]
           kb == [ka EXCEPT !.obj[o] = b]
<1>1. IsFun(k, Fields) /\ IsFun(k.call, Task) /\ IsFun(k.obj, Object) /\ IsFun(ka, Fields)
  BY DEF Typed, LocksTyped, ObjectsTyped
<1>2. \A f \in Fields \ {"call"} : ka[f] = k[f]
  BY <1>1 DEF IsFun, IsRec, Fields
<1>3. \A f \in Fields \ {"call", "obj"} : kb[f] = ka[f]
  BY <1>1 DEF IsFun, IsRec, Fields
<1>4. \A f \in Fields \ {"call", "obj"} : s[f] = k[f]
  BY <1>1 DEF IsFun, IsRec, Fields
<1>5. s.obj = [k.obj EXCEPT ![o] = b]
  BY <1>1 DEF IsFun, IsRec, Fields
<1>6. kb.obj = [k.obj EXCEPT ![o] = b]
  <2>1. ka.obj = k.obj
    BY <1>2 DEF Fields
  <2> HIDE DEF ka
  <2> QED
    BY <1>1, <2>1 DEF IsFun, IsRec, Fields
<1> HIDE DEF s, ka, kb
<1>7. SameButCall(s, kb)
  BY <1>2, <1>3, <1>4, <1>5, <1>6 DEF SameButCall
<1> QED
  BY <1>7 DEF s, ka, kb

(* The lock is given back and the call ends, which is kb but for what the call was. *)
LEMMA ChangedLeaveFine ==
  ASSUME NEW k, NEW t, InLock(k, t), NEW o, o = k.call[t].o, NEW b, ObjTyped(b), NEW c, c.o = o,
         NEW ka, Recalled(k, ka, t, c), Onto(k, ka),
         NEW kb, Renewed(ka, kb, o, b), Good(kb, {}, {}, {}),
         SameButCall([k EXCEPT !.obj[o] = b], kb)
  PROVE  /\ Fine(Leave(knl_UnlockOBJ([k EXCEPT !.obj[o] = b], o)))
         /\ Leave(knl_UnlockOBJ([k EXCEPT !.obj[o] = b], o)).call[t] = NULL
<1> DEFINE s == [k EXCEPT !.obj[o] = b]
           x == knl_UnlockOBJ(s, o)
           r == [x EXCEPT !.call[t] = NULL]
<1>1. /\ k.ctxtsk = t /\ t \in Task /\ o \in Object /\ k.klock[t] = "klocked" /\ Busy(k, t) /\ Typed(k)
  BY DEF InLock, Busy, Good, Core
<1>2. ka.call[t] = c
  BY <1>1 DEF Recalled
<1>3. /\ kb.call = ka.call /\ kb.klock = k.klock /\ SameRun(k, kb) /\ kb.ready = k.ready
  BY DEF Renewed, Recalled, SameLocks, SameRun, SameReady
<1>4. Has(kb, t, o) /\ kb.ctxtsk = t
  BY <1>1, <1>2, <1>3 DEF Has, SameRun
<1>5. AfterLock(kb, t, NULL)
  BY DEF AfterLock
<1>6. Renewed(k, s, o, b)
  BY <1>1, ObjectIs
<1>7. \A f \in Fields \ {"call"} : s[f] = kb[f]
  BY DEF SameButCall
<1> HIDE DEF s
<1>8. Typed(s) /\ s.call = k.call
  BY <1>6 DEF Renewed
<1>9. \A u \in Task : u # t => s.call[u] = kb.call[u]
  BY <1>3, <1>8 DEF Recalled
<1>10. Onto(kb, r)
  BY <1>1, <1>4, <1>5, <1>7, <1>8, <1>9, UnlockOnto
<1>11. x.ctxtsk = t /\ x.call = k.call /\ IsFun(x, Fields)
  BY <1>1, <1>4, <1>7, <1>8, UnlockRun
<1>12. Leave(x) = r
  <2> HIDE DEF x
  <2> QED
    BY <1>11 DEF Leave
<1>13. Onto(k, r)
  BY <1>3, <1>10 DEF Onto, SameRun
<1>14. r.call[t] = NULL
  <2> HIDE DEF x
  <2>1. r.call = [x.call EXCEPT ![t] = NULL]
    BY <1>11 DEF IsFun, IsRec, Fields
  <2> QED
    BY <1>1, <1>11, <2>1 DEF IsFun, IsRec, Typed, LocksTyped
<1> HIDE DEF r
<1>15. Fine(r)
  BY <1>1, <1>13, OntoFine
<1>16. Fine(Leave(x)) /\ Leave(x).call[t] = NULL
  BY <1>12, <1>14, <1>15
<1> QED
  BY <1>16 DEF s

(* Other blocks of a pool are lent than before, where nobody is about to take one
   or brings back one that is not. *)
LEMMA RestockGood ==
  ASSUME NEW k, Good(k, {}, {}, {}), NEW o \in Object, NEW b, SameQueues(k.obj[o], b), k.obj[o].kind = "mpf",
         \A u \in Task : ~ (k.call[u] # NULL /\ k.call[u].at = "get" /\ k.call[u].o = o),
         \A u \in Task : Gives(k, u, o) => k.call[u].x.blf \in b.lent,
         NEW r, Renewed(k, r, o, b)
  PROVE  Good(r, {}, {}, {})
<1>1. /\ Typed(k) /\ ReadyGood(k, {}) /\ LockerGood(k) /\ WaitGood(k, {}) /\ TopGood(k)
      /\ MutexGood(k, {}, {}, {}) /\ CallsGood(k) /\ LockGood(k)
  BY DEF Good, Core
<1>2. /\ Typed(r) /\ SameTasks(k, r) /\ SameWaits(k, r) /\ SameLocks(k, r) /\ SameRun(k, r) /\ SameReady(k, r)
      /\ r.call = k.call /\ r.mtxlist = k.mtxlist /\ r.timed = k.timed
      /\ \A x \in Object : r.obj[x] = IF x = o THEN b ELSE k.obj[x]
  BY DEF Renewed
<1>3. b.kind = "mpf" /\ b.wait_queue = k.obj[o].wait_queue
  BY DEF SameQueues
<1>4. \A u \in Task : (waiting(r, u) <=> waiting(k, u)) /\ (alive(r, u) <=> alive(k, u))
  BY <1>2 DEF SameTasks, waiting, alive
<1>5. ReadyGood(r, {}) /\ LockerGood(r) /\ TopGood(r)
  BY <1>1, <1>2 DEF ReadyGood, ReadySet, LockerGood, TopGood, Locker, SameTasks, SameLocks, SameReady
<1>6. WaitGood(r, {})
  <2>1. \A x \in Object : SameQueues(k.obj[x], r.obj[x])
    BY <1>2 DEF SameQueues
  <2> QED
    BY <1>1, <1>2, <1>4, <2>1, WaitKept DEF SameWaits, SameTasks
<1>7. MutexGood(r, {}, {}, {})
  <2>1. \A x \in Object : r.obj[x].kind = "mtx" <=> k.obj[x].kind = "mtx"
    BY <1>2, <1>3
  <2>2. \A x \in Object : k.obj[x].kind = "mtx" => r.obj[x] = k.obj[x]
    BY <1>2
  <2>3. OwnerGood(r, {})
    <3>1. OwnerGood(k, {})
      BY <1>1 DEF MutexGood
    <3>2. ASSUME NEW m \in Object, r.obj[m].kind = "mtx"
          PROVE  /\ r.obj[m].mtxtsk = NULL => r.obj[m].wait_queue = << >>
                 /\ r.obj[m].mtxtsk # NULL =>
                      alive(r, r.obj[m].mtxtsk) /\ m \in Range(r.mtxlist[r.obj[m].mtxtsk])
      <4>1. r.obj[m] = k.obj[m] /\ k.obj[m].kind = "mtx"
        BY <2>1, <2>2, <3>2
      <4>2. k.obj[m].mtxtsk \in Task \cup {NULL}
        BY <1>1, <4>1 DEF Typed, ObjectsTyped, ObjTyped
      <4> QED
        BY <1>2, <1>4, <3>1, <4>1, <4>2 DEF OwnerGood
    <3> QED
      BY <3>2 DEF OwnerGood
  <2>4. \A u \in Task, m \in Object : Holds(k, u, m) => Holds(r, u, m)
    BY <2>1, <2>2 DEF Holds
  <2>5. ListGood(r, {}, {})
    <3>1. \A u \in Task : Range(k.mtxlist[u]) \subseteq Object
      BY <1>1 DEF Typed, TasksTyped, Range
    <3> QED
      BY <1>1, <1>2, <2>4, <3>1 DEF MutexGood, ListGood
  <2>6. RankGood(r, {})
    BY <1>1, <1>2, <1>4 DEF MutexGood, RankGood, SameWaits
  <2> QED
    BY <2>3, <2>5, <2>6 DEF MutexGood
<1>8. \A u \in Task : r.call[u] # NULL => CallGood(r, u)
  <2> TAKE u \in Task
  <2> HAVE r.call[u] # NULL
  <2>1. CallGood(k, u) /\ r.call[u] = k.call[u]
    BY <1>1, <1>2 DEF CallsGood
  <2>2. k.call[u].at \in { "get", "wait", "put" } => k.call[u].o \in Object
    BY <2>1 DEF CallGood
  <2>3. k.call[u].at = "get" => k.call[u].o # o
    BY <1>2
  <2> QED
    BY <1>2, <1>3, <2>1, <2>2, <2>3 DEF CallGood, alive, SameTasks, SameLocks
<1>9. GivesGood(r)
  <2>1. \A u \in Task, x \in Object : (Gives(r, u, x) <=> Gives(k, u, x)) /\ (Deletes(r, u, x) <=> Deletes(k, u, x))
    BY <1>2 DEF Gives, Deletes
  <2> QED
    BY <1>1, <1>2, <1>3, <2>1 DEF CallsGood, GivesGood
<1>10. CallsGood(r)
  <2>1. \A u \in Task, x \in Object : Makes(r, u, x) <=> Makes(k, u, x)
    BY <1>2 DEF Makes
  <2>2. \A x \in Object : r.obj[x].kind = k.obj[x].kind
    BY <1>2, <1>3
  <2> QED
    BY <1>1, <1>8, <1>9, <2>1, <2>2 DEF CallsGood
<1>11. LockGood(r)
  BY <1>1, <1>2, LockKept DEF SameTasks, SameLocks
<1> QED
  BY <1>1, <1>2, <1>5, <1>6, <1>7, <1>10, <1>11 DEF Good, Core

(* The blocks of a pool have changed, and the call ends. *)
LEMMA PoolOutFine ==
  ASSUME NEW k, NEW t, InLock(k, t), NullIsNoCall, NEW o, o = k.call[t].o, k.call[t].at \in { "get", "put" },
         NEW b, ObjTyped(b), SameQueues(k.obj[o], b),
         \A u \in Task : u # t /\ Gives(k, u, o) => k.call[u].x.blf \in b.lent
  PROVE  Fine(Out([k EXCEPT !.obj[o] = b]))
<1> DEFINE step == "unlock"
           c == [k.call[t] EXCEPT !.at = step]
           ka == [k EXCEPT !.call[t] = c]
           kb == [ka EXCEPT !.obj[o] = b]
           s == [k EXCEPT !.obj[o] = b]
<1>1. /\ Good(k, {}, {}, {}) /\ o \in Object /\ t \in Task /\ k.ctxtsk = t /\ k.klock[t] = "klocked"
      /\ k.state[t] = "ready" /\ k.call[t] # NULL /\ CallGood(k, t)
      /\ IsFun(k.call[t], { "does", "at", "o", "x", "mempool" })
  BY DEF InLock, Busy
<1>2. Typed(k) /\ Onto(k, k)
  BY <1>1 DEF Good, Core, Onto, SameRun
<1>3. c.at = "unlock" /\ c.o = o /\ c.does = k.call[t].does /\ step = "unlock"
  BY <1>1 DEF IsFun, IsRec
<1>4. k.obj[o].kind = "mpf" /\ k.call[t].does \in { "get_mpf", "rel_mpf" }
  BY <1>1 DEF CallGood
<1>5. ka = At(k, step)
  BY <1>1 DEF At
<1> HIDE DEF step
<1>6. MayGoTo(k, t, c)
  <2> HIDE DEF c
  <2> QED
    BY <1>1, <1>3, <1>4 DEF MayGoTo, Inside
<1>7. Onto(k, ka)
  BY <1>1, <1>2, <1>3, <1>5, <1>6, AtOnto
<1> HIDE DEF c
<1>8. Recalled(k, ka, t, c)
  BY <1>1, <1>2, RecalledIs
<1> HIDE DEF ka
<1>9. Good(ka, {}, {}, {}) /\ Typed(ka) /\ CallsGood(ka) /\ LockGood(ka)
  BY <1>7 DEF Onto, Good, Core
<1>10. /\ ka.call[t] = c /\ ka.obj = k.obj /\ ka.klock = k.klock
       /\ \A u \in Task : u # t => ka.call[u] = k.call[u]
  BY <1>1, <1>8 DEF Recalled, SameLocks
<1>11. ASSUME NEW u \in Task, ka.call[u] # NULL, ka.call[u].at = "get", ka.call[u].o = o
       PROVE  FALSE
  <2>1. ka.klock[u] = "klocked"
    BY <1>9, <1>11 DEF CallsGood, CallGood, Inside
  <2>2. Has(ka, u, o) /\ Has(ka, t, o)
    BY <1>1, <1>3, <1>10, <1>11, <2>1 DEF Has
  <2>3. u = t
    BY <1>1, <1>9, <2>2 DEF LockGood
  <2>4. ka.call[u].at = "unlock"
    BY <1>3, <1>10, <2>3
  <2> QED
    BY <1>11, <2>4
<1>12. \A u \in Task : Gives(ka, u, o) => ka.call[u].x.blf \in b.lent
  <2> TAKE u \in Task
  <2> HAVE Gives(ka, u, o)
  <2>1. u # t
    BY <1>3, <1>10 DEF Gives
  <2> QED
    BY <1>10, <2>1 DEF Gives
<1>13. Renewed(ka, kb, o, b)
  BY <1>1, <1>9, ObjectIs
<1> HIDE DEF kb
<1>14. Good(kb, {}, {}, {})
  BY <1>1, <1>4, <1>9, <1>10, <1>11, <1>12, <1>13, RestockGood
<1>15. SameButCall(s, kb)
  BY <1>1, <1>2, <1>9, ChangedFields DEF ka, kb
<1>16. Fine(Leave(knl_UnlockOBJ(s, o)))
  BY <1>3, <1>7, <1>8, <1>13, <1>14, <1>15, ChangedLeaveFine
<1>17. s.ctxtsk = t /\ s.call = k.call
  BY <1>1, <1>2 DEF Typed, IsFun, IsRec, Fields
<1> HIDE DEF s
<1>18. Out(s) = Leave(knl_UnlockOBJ(s, o))
  BY <1>17 DEF Out
<1> QED
  BY <1>16, <1>18 DEF s

(* A sequence as a line of what is in it. *)
LEMMA OwnLine ==
  ASSUME NEW S, NEW q \in Seq(S), Once(q)
  PROVE  IsLine(q, Range(q))
<1>1. \A i \in DOMAIN q : q[i] \in Range(q)
  BY DEF Range
<1>2. q \in Seq(Range(q))
  BY <1>1
<1> QED
  BY <1>2 DEF IsLine, Range

(* A free list with one block less, *)
LEMMA TailStock ==
  ASSUME NEW n, NEW q \in Seq(1 .. n), Once(q), q # << >>
  PROVE  /\ Tail(q) \in Seq(1 .. n) /\ Once(Tail(q)) /\ Len(Tail(q)) = Len(q) - 1
         /\ Range(Tail(q)) = Range(q) \ { Head(q) } /\ Head(q) \in Range(q) /\ Head(q) \in 1 .. n
<1>1. IsLine(q, Range(q))
  BY OwnLine
<1>2. IsLine(Tail(q), Range(q) \ { Head(q) })
  BY <1>1, TailLine
<1>3. Range(Tail(q)) = Range(q) \ { Head(q) } /\ Head(q) \in Range(q)
  BY <1>1, <1>2, LineRange
<1>4. Once(Tail(q))
  BY <1>2 DEF IsLine
<1>5. Tail(q) \in Seq(1 .. n) /\ Len(Tail(q)) = Len(q) - 1
  BY HeadTailProperties
<1>6. Head(q) \in 1 .. n
  BY HeadTailProperties
<1> QED
  BY <1>3, <1>4, <1>5, <1>6

(* or one more. *)
LEMMA PushStock ==
  ASSUME NEW n, NEW q \in Seq(1 .. n), Once(q), NEW e \in 1 .. n, e \notin Range(q)
  PROVE  LET p == << e >> \o q
         IN  p \in Seq(1 .. n) /\ Once(p) /\ Len(p) = Len(q) + 1 /\ Range(p) = Range(q) \cup { e }
<1> DEFINE p == << e >> \o q
<1>1. p \in Seq(1 .. n) /\ Len(p) = Len(q) + 1 /\ Len(q) \in Nat
  OBVIOUS
<1>2. DOMAIN p = 1 .. Len(q) + 1 /\ DOMAIN q = 1 .. Len(q)
  BY <1>1
<1>3. p[1] = e /\ \A i \in 1 .. Len(q) : p[i + 1] = q[i]
  OBVIOUS
<1> HIDE DEF p
<1>4. \A j \in DOMAIN p : j = 1 \/ (j - 1 \in DOMAIN q /\ p[j] = q[j - 1])
  <2> TAKE j \in DOMAIN p
  <2>1. j \in 1 .. Len(q) + 1
    BY <1>2
  <2>2. j # 1 => j - 1 \in 1 .. Len(q) /\ (j - 1) + 1 = j
    BY <1>1, <2>1
  <2> QED
    BY <1>2, <1>3, <2>2
<1>5. \A i \in DOMAIN q : q[i] # e
  BY DEF Range
<1>6. Once(p)
  <2>1. ASSUME NEW i \in DOMAIN p, NEW j \in DOMAIN p, p[i] = p[j]
        PROVE  i = j
    <3>1. CASE i = 1
      BY <1>3, <1>4, <1>5, <2>1, <3>1
    <3>2. CASE j = 1
      BY <1>3, <1>4, <1>5, <2>1, <3>2
    <3>3. CASE i # 1 /\ j # 1
      <4>1. i - 1 \in DOMAIN q /\ j - 1 \in DOMAIN q /\ q[i - 1] = q[j - 1]
        BY <1>4, <2>1, <3>3
      <4>2. i - 1 = j - 1
        BY <4>1 DEF Once
      <4> QED
        BY <1>1, <1>2, <4>2
    <3> QED
      BY <3>1, <3>2, <3>3
  <2> QED
    BY <2>1 DEF Once
<1>7. Range(p) = Range(q) \cup { e }
  <2>1. 1 \in DOMAIN p
    BY <1>1, <1>2
  <2>2. \A i \in DOMAIN q : i + 1 \in DOMAIN p /\ p[i + 1] = q[i]
    BY <1>1, <1>2, <1>3
  <2> QED
    BY <1>3, <1>4, <2>1, <2>2 DEF Range
<1> QED
  BY <1>1, <1>6, <1>7 DEF p

(* A pool stays one when only its blocks change. *)
LEMMA BlocksIs ==
  ASSUME NEW b, ObjTyped(b), b.kind = "mpf", NEW c, IsRec(c), DOMAIN c = DOMAIN b,
         \A f \in DOMAIN b \ Blocks : c[f] = b[f], BlocksGood(c)
  PROVE  ObjTyped(c) /\ SameQueues(b, c)
<1>1. c.kind = "mpf" /\ c.wait_queue = b.wait_queue /\ c.atr = b.atr
  BY DEF ObjTyped, Used, Blocks
<1> QED
  BY <1>1 DEF ObjTyped, SameQueues, RingGood, Used

LEMMA FewerBlocks ==
  ASSUME NEW l \in Nat, NEW n \in Nat, NEW u \in Nat
  PROVE  l + n + 1 - u - 1 = (l - 1) + n + 1 - u
OBVIOUS

LEMMA MoreBlocks ==
  ASSUME NEW l \in Nat, NEW n \in Nat, NEW u \in Nat
  PROVE  l + n + 1 - u + 1 = (l + 1) + n + 1 - u
OBVIOUS

(* A block is taken. *)
LEMMA GetFine ==
  ASSUME NEW k, NEW t, InLock(k, t), k.call[t].at = "get", NullIsNoCall
  PROVE  Fine(tk_get_mpf_get(k))
<1> DEFINE o == k.call[t].o
           b == k.obj[o]
           blf == k.call[t].x.blf
           n == b.mpfcnt
           freelist == IF b.freelist # << >> THEN Tail(b.freelist) ELSE b.freelist
           unused == IF b.freelist # << >> THEN b.unused ELSE b.unused + 1
           frbcnt == b.frbcnt - 1
           lent == b.lent \cup { blf }
           got == [b EXCEPT !.freelist = freelist, !.unused = unused, !.frbcnt = frbcnt, !.lent = lent]
<1>1. k.ctxtsk = t /\ o \in Object /\ ObjTyped(b) /\ CallsGood(k) /\ t \in Task /\ CallGood(k, t)
  BY DEF InLock, Busy, Good, Core, Typed, ObjectsTyped
<1>2. tk_get_mpf_get(k) = Out([k EXCEPT !.obj[o] = got])
  BY <1>1 DEF tk_get_mpf_get
<1>3. b.kind = "mpf" /\ b.frbcnt > 0 /\ blf = NextBlock(b)
  BY <1>1 DEF CallGood
<1> HIDE DEF b, blf
<1>4. /\ Blocks \subseteq DOMAIN b /\ IsRec(b) /\ n \in Nat /\ b.unused \in 1 .. n + 1
      /\ b.freelist \in Seq(1 .. b.unused - 1) /\ Once(b.freelist)
      /\ b.lent = (1 .. b.unused - 1) \ Range(b.freelist)
      /\ b.frbcnt = Len(b.freelist) + n + 1 - b.unused
  BY <1>1, <1>3 DEF ObjTyped, BlocksGood
<1>5. /\ unused \in 1 .. n + 1 /\ freelist \in Seq(1 .. unused - 1) /\ Once(freelist)
      /\ lent = (1 .. unused - 1) \ Range(freelist) /\ frbcnt = Len(freelist) + n + 1 - unused
  <2>1. CASE b.freelist # << >>
    <3>1. blf = Head(b.freelist)
      BY <1>3, <2>1 DEF NextBlock
    <3>2. /\ Tail(b.freelist) \in Seq(1 .. b.unused - 1) /\ Once(Tail(b.freelist))
          /\ Len(Tail(b.freelist)) = Len(b.freelist) - 1
          /\ Range(Tail(b.freelist)) = Range(b.freelist) \ { blf }
          /\ blf \in Range(b.freelist) /\ blf \in 1 .. b.unused - 1
      BY <1>4, <2>1, <3>1, TailStock
    <3>3. freelist = Tail(b.freelist) /\ unused = b.unused
      BY <2>1
    <3>4. lent = (1 .. unused - 1) \ Range(freelist)
      BY <1>4, <3>2, <3>3
    <3>5. frbcnt = Len(freelist) + n + 1 - unused
      <4>1. Len(b.freelist) \in Nat /\ b.unused \in Nat
        BY <1>4
      <4>2. Len(freelist) = Len(b.freelist) - 1 /\ frbcnt = b.frbcnt - 1
        BY <3>2, <3>3
      <4> HIDE DEF freelist, unused, frbcnt, n
      <4>3. frbcnt = Len(b.freelist) + n + 1 - b.unused - 1
        BY <1>4, <4>2
      <4> QED
        BY <1>4, <3>3, <4>1, <4>2, <4>3, FewerBlocks
    <3>6. unused \in 1 .. n + 1 /\ freelist \in Seq(1 .. unused - 1) /\ Once(freelist)
      BY <1>4, <3>2, <3>3
    <3> QED
      BY <3>4, <3>5, <3>6
  <2>2. CASE b.freelist = << >>
    <3>1. blf = b.unused /\ freelist = << >> /\ unused = b.unused + 1
      BY <1>3, <2>2 DEF NextBlock
    <3>2. Range(<< >>) = {} /\ Once(<< >>) /\ Len(<< >>) = 0 /\ \A S : << >> \in Seq(S)
      BY DEF Range, Once
    <3>3. b.unused \in Nat /\ b.unused < n + 1
      BY <1>3, <1>4, <2>2, <3>2
    <3>4. unused \in 1 .. n + 1 /\ frbcnt = Len(freelist) + n + 1 - unused
      BY <1>4, <2>2, <3>1, <3>2, <3>3
    <3>5. 1 .. unused - 1 = (1 .. b.unused - 1) \cup { b.unused }
      BY <1>4, <3>1, <3>3
    <3>6. lent = (1 .. unused - 1) \ Range(freelist)
      BY <1>4, <2>2, <3>1, <3>2, <3>5
    <3>7. freelist \in Seq(1 .. unused - 1) /\ Once(freelist)
      <4> HIDE DEF freelist, unused
      <4> QED
        BY <3>1, <3>2
    <3> QED
      BY <3>4, <3>6, <3>7
  <2> QED
    BY <2>1, <2>2
<1>6. lent = b.lent \cup { blf }
  OBVIOUS
<1> HIDE DEF freelist, unused, frbcnt, lent
<1>7. /\ IsRec(got) /\ DOMAIN got = DOMAIN b /\ \A f \in DOMAIN b \ Blocks : got[f] = b[f]
      /\ got.mpfcnt = n /\ got.freelist = freelist /\ got.unused = unused /\ got.frbcnt = frbcnt /\ got.lent = lent
  BY <1>4 DEF IsRec, Blocks
<1> HIDE DEF got
<1>8. BlocksGood(got)
  BY <1>4, <1>5, <1>7 DEF BlocksGood
<1>9. ObjTyped(got) /\ SameQueues(b, got)
  BY <1>1, <1>3, <1>7, <1>8, BlocksIs, Zenon
<1>10. \A u \in Task : u # t /\ Gives(k, u, o) => k.call[u].x.blf \in got.lent
  <2>1. GivesGood(k)
    BY <1>1 DEF CallsGood
  <2>2. \A u \in Task : Gives(k, u, o) => k.call[u].x.blf \in b.lent
    BY <1>1, <2>1 DEF GivesGood, b
  <2> QED
    BY <1>6, <1>7, <2>2
<1>11. SameQueues(k.obj[o], got) /\ k.call[t].at \in { "get", "put" }
  BY <1>9 DEF b
<1>12. Fine(Out([k EXCEPT !.obj[o] = got]))
  BY <1>9, <1>10, <1>11, PoolOutFine
<1> QED
  BY <1>2, <1>12 DEF got

(* A block comes back into the free list. *)
LEMMA PutFine ==
  ASSUME NEW k, NEW t, InLock(k, t), k.call[t].at = "put", NullIsNoCall
  PROVE  Fine(tk_rel_mpf_put(k))
<1> DEFINE o == k.call[t].o
           b == k.obj[o]
           blf == k.call[t].x.blf
           n == b.mpfcnt
           freelist == << blf >> \o b.freelist
           frbcnt == b.frbcnt + 1
           lent == b.lent \ { blf }
           got == [b EXCEPT !.freelist = freelist, !.frbcnt = frbcnt, !.lent = lent]
<1>1. k.ctxtsk = t /\ o \in Object /\ ObjTyped(b) /\ CallsGood(k) /\ t \in Task /\ CallGood(k, t) /\ k.call[t] # NULL
  BY DEF InLock, Busy, Good, Core, Typed, ObjectsTyped
<1>2. tk_rel_mpf_put(k) = Out([k EXCEPT !.obj[o] = got])
  BY <1>1 DEF tk_rel_mpf_put
<1>3. Gives(k, t, o)
  BY <1>1 DEF Gives, CallGood
<1>4. \A u \in Task : Gives(k, u, o) => b.kind = "mpf" /\ k.call[u].x.blf \in b.lent
  BY <1>1 DEF CallsGood, GivesGood
<1>5. \A u \in Task : u # t /\ Gives(k, u, o) => k.call[u].x.blf \in lent
  <2>1. \A u \in Task : Gives(k, u, o) => (k.call[u].x.blf = blf => t = u)
    <3>1. GivesGood(k)
      BY <1>1 DEF CallsGood
    <3> QED
      BY <1>1, <1>3, <3>1 DEF GivesGood
  <2> QED
    BY <1>4, <2>1
<1>6. b.kind = "mpf" /\ blf \in b.lent
  BY <1>1, <1>3, <1>4
<1> HIDE DEF b, blf
<1>7. /\ Blocks \subseteq DOMAIN b /\ IsRec(b) /\ n \in Nat /\ b.unused \in 1 .. n + 1
      /\ b.freelist \in Seq(1 .. b.unused - 1) /\ Once(b.freelist)
      /\ b.lent = (1 .. b.unused - 1) \ Range(b.freelist)
      /\ b.frbcnt = Len(b.freelist) + n + 1 - b.unused
  BY <1>1, <1>6 DEF ObjTyped, BlocksGood
<1>8. /\ freelist \in Seq(1 .. b.unused - 1) /\ Once(freelist) /\ Len(freelist) = Len(b.freelist) + 1
      /\ Range(freelist) = Range(b.freelist) \cup { blf }
  BY <1>7, <1>6, PushStock
<1>9. lent = (1 .. b.unused - 1) \ Range(freelist)
  BY <1>7, <1>8
<1>10. frbcnt = Len(freelist) + n + 1 - b.unused
  <2>1. Len(b.freelist) \in Nat /\ b.unused \in Nat
    BY <1>7
  <2>2. frbcnt = b.frbcnt + 1
    OBVIOUS
  <2> HIDE DEF freelist, frbcnt, n
  <2>3. frbcnt = Len(b.freelist) + n + 1 - b.unused + 1
    BY <1>7, <2>2
  <2> QED
    BY <1>7, <1>8, <2>1, <2>3, MoreBlocks
<1> HIDE DEF freelist, frbcnt, lent
<1>11. /\ IsRec(got) /\ DOMAIN got = DOMAIN b /\ \A f \in DOMAIN b \ Blocks : got[f] = b[f]
       /\ got.mpfcnt = n /\ got.freelist = freelist /\ got.unused = b.unused /\ got.frbcnt = frbcnt /\ got.lent = lent
  BY <1>7 DEF IsRec, Blocks
<1> HIDE DEF got
<1>12. BlocksGood(got)
  BY <1>7, <1>8, <1>9, <1>10, <1>11 DEF BlocksGood
<1>13. ObjTyped(got) /\ SameQueues(b, got)
  BY <1>1, <1>11, <1>12, <1>6, BlocksIs, Zenon
<1>14. SameQueues(k.obj[o], got) /\ k.call[t].at \in { "get", "put" }
  BY <1>13 DEF b
<1>15. \A u \in Task : u # t /\ Gives(k, u, o) => k.call[u].x.blf \in got.lent
  BY <1>5, <1>11
<1>16. Fine(Out([k EXCEPT !.obj[o] = got]))
  BY <1>13, <1>14, <1>15, PoolOutFine
<1> QED
  BY <1>2, <1>16 DEF got

(* Nothing is left: it waits in the queue of the pool, or does not want to. *)
LEMMA WaitFine ==
  ASSUME NEW k, NEW t, InLock(k, t), k.call[t].at = "wait"
  PROVE  Fine(tk_get_mpf_wait(k))
<1> DEFINE o == k.call[t].o
           tmout == k.call[t].x.tmout
           c == Waits(k, "mpf", o, NULL)
           w == knl_make_wait(c, tmout)
           r == [w EXCEPT !.obj[o].wait_queue = Line(w, o, t)]
           g == knl_gcb_make_wait(c, o, tmout)
           X == {}
<1>1. Good(k, X, X, X) /\ Typed(k) /\ X = {}
  BY DEF InLock, Good, Core
<1>2. /\ t \in Task \ X /\ k.ctxtsk = t /\ o \in Object /\ k.state[t] = "ready" /\ k.obj[o].kind = "mpf"
      /\ ~ k.dispatch_disabled /\ k.klock[t] = "klocked"
  BY DEF InLock, Busy, CallGood
<1>3. MayWaitFor(k, t, "mpf", o)
  BY <1>2 DEF MayWaitFor, Suits, InQueue
<1>4. tk_get_mpf_wait(k) = Out(g)
  BY <1>2 DEF tk_get_mpf_wait
<1>5. /\ Typed(c) /\ SameTasks(k, c) /\ SameLocks(k, c) /\ SameReady(k, c) /\ SameRun(k, c)
      /\ c.obj = k.obj /\ c.call = k.call /\ c.mtxlist = k.mtxlist /\ c.timed = k.timed
      /\ \A u \in Task : c.wspec[u] = (IF u = t THEN "mpf" ELSE k.wspec[u])
                         /\ c.wid[u] = (IF u = t THEN o ELSE k.wid[u])
                         /\ c.winfo[u] = (IF u = t THEN NULL ELSE k.winfo[u])
  BY <1>1, <1>2, WaitsIs
<1>6. c.ctxtsk = t
  BY <1>2, <1>5 DEF SameRun
<1>7. g = IF tmout = "TMO_POL" THEN c ELSE r
  <2> HIDE DEF c, o, tmout
  <2> QED
    BY <1>6, SMTT(20) DEF knl_gcb_make_wait
<1>8. Good(r, X, X, X) /\ Waited(k, r, t)
  <2> HIDE DEF X
  <2>1. Wanted("mpf", NULL)
    BY DEF Wanted
  <2> QED
    BY <1>1, <1>2, <1>3, <2>1, QueueUpGood, ZenonT(30)
<1>9. Good(c, X, X, X)
  <2> HIDE DEF c, X, o
  <2>1. \A u \in Task : u \notin X /\ waiting(k, u) =>
          c.wspec[u] = k.wspec[u] /\ c.wid[u] = k.wid[u] /\ c.winfo[u] = k.winfo[u]
    BY <1>2, <1>5 DEF waiting
  <2> QED
    BY <1>1, <1>5, <2>1, ForgetGood
<1> HIDE DEF r, w, c
<1>10. g.ctxtsk = t /\ ~ g.dispatch_disabled /\ g.klock[t] = "klocked" /\ Good(g, {}, {}, {})
  <2>1. CASE tmout = "TMO_POL"
    BY <1>1, <1>2, <1>5, <1>7, <1>9, <2>1 DEF SameRun, SameLocks
  <2>2. CASE tmout # "TMO_POL"
    BY <1>1, <1>2, <1>7, <1>8, <2>2 DEF Waited, SameRun
  <2> QED
    BY <2>1, <2>2
<1> HIDE DEF g
<1> QED
  BY <1>2, <1>4, <1>10, OutFine

LEMMA CallTwice ==
  ASSUME NEW k, IsFun(k, Fields), IsFun(k.call, Task), NEW t \in Task, NEW d, NEW c
  PROVE  [[k EXCEPT !.call[t] = d] EXCEPT !.call[t] = c] = [k EXCEPT !.call[t] = c]
<1> DEFINE v == [k EXCEPT !.call[t] = d]
           a == [k.call EXCEPT ![t] = d]
           e == [k.call EXCEPT ![t] = c]
           w == [v EXCEPT !.call[t] = c]
           z == [k EXCEPT !.call[t] = c]
<1>1. v = [k EXCEPT !.call = a] /\ z = [k EXCEPT !.call = e]
  OBVIOUS
<1>2. [a EXCEPT ![t] = c] = e
  BY DEF IsFun, IsRec
<1> HIDE DEF a, e
<1>3. v.call = a
  BY <1>1 DEF IsFun, IsRec, Fields
<1>4. w = [v EXCEPT !.call = [v.call EXCEPT ![t] = c]]
  OBVIOUS
<1>5. w = [v EXCEPT !.call = e]
  BY <1>2, <1>3, <1>4
<1> HIDE DEF v, z, w
<1>6. w = z
  BY <1>1, <1>5 DEF IsFun, IsRec, Fields
<1> QED
  BY <1>6 DEF v, z, w

(* Whether there is a block. *)
LEMMA LookOnto ==
  ASSUME NEW k, NEW t, InLock(k, t), k.call[t].does = "get_mpf", k.obj[k.call[t].o].kind = "mpf", NullIsNoCall,
         k.call[t].at = "locked"
  PROVE  Onto(k, tk_get_mpf_look(k))
<1> DEFINE o == k.call[t].o
           mpf == k.obj[o]
           blf == IF mpf.freelist # << >> THEN Head(mpf.freelist) ELSE mpf.unused
           d == [k.call[t] EXCEPT !.x.blf = blf]
           c == [d EXCEPT !.at = "get"]
           r == [k EXCEPT !.call[t] = c]
           step == "wait"
<1>1. /\ k.ctxtsk = t /\ t \in Task /\ k.state[t] = "ready" /\ k.klock[t] = "klocked" /\ k.call[t] # NULL
      /\ Good(k, {}, {}, {}) /\ IsFun(k.call[t], { "does", "at", "o", "x", "mempool" })
  BY DEF InLock, Busy
<1>2. Onto(k, k) /\ Typed(k) /\ IsFun(k.call, Task)
  BY <1>1 DEF Onto, SameRun, Good, Core, Typed, LocksTyped
<1>3. tk_get_mpf_look(k) =
        IF mpf.frbcnt <= 0 THEN At(k, step) ELSE At([k EXCEPT !.call[k.ctxtsk].x.blf = blf], "get")
  BY <1>1 DEF tk_get_mpf_look, step
<1>4. At([k EXCEPT !.call[k.ctxtsk].x.blf = blf], "get") = r
  <2> HIDE DEF blf
  <2>1. [k EXCEPT !.call[k.ctxtsk].x.blf = blf] = [k EXCEPT !.call[t] = d]
    BY <1>1
  <2>2. IsFun(k, Fields)
    BY <1>2 DEF Typed
  <2> DEFINE s == [k EXCEPT !.call[t] = d]
  <2> HIDE DEF d
  <2>3. IsFun(s, Fields) /\ s.ctxtsk = t /\ s.call = [k.call EXCEPT ![t] = d]
    BY <1>1, <2>2 DEF IsFun, IsRec, Fields
  <2>4. s.call[t] = d
    BY <1>1, <1>2, <2>3 DEF IsFun, IsRec
  <2>5. At(s, "get") = [s EXCEPT !.call[t] = c]
    <3> HIDE DEF s
    <3> QED
      BY <2>3, <2>4 DEF At
  <2>6. [s EXCEPT !.call[t] = c] = r
    <3> HIDE DEF c
    <3> QED
      BY <1>1, <1>2, <2>2, CallTwice
  <2> QED
    BY <2>1, <2>5, <2>6
<1>5. blf = NextBlock(mpf) /\ o \in Object
  BY DEF NextBlock, InLock
<1> HIDE DEF blf
<1>6. Onto(k, At(k, step))
  <2>1. MayGoTo(k, t, [k.call[t] EXCEPT !.at = step])
    BY <1>1 DEF MayGoTo, Inside, step, IsFun, IsRec
  <2>2. step # "get"
    BY DEF step
  <2> HIDE DEF step
  <2> QED
    BY <1>1, <1>2, <2>1, <2>2, AtOnto
<1>7. CallGood(k, t)
  BY DEF InLock, Busy
<1>8. /\ IsFun(c, { "does", "at", "o", "x", "mempool" })
      /\ c.does = k.call[t].does /\ c.o = k.call[t].o /\ c.at = "get"
      /\ IsFun(c.x, { "tmout", "blf" }) /\ c.x.blf = blf
  <2>1. IsFun(k.call[t].x, { "tmout", "blf" })
    BY <1>7 DEF CallGood
  <2>2. /\ IsFun(d, { "does", "at", "o", "x", "mempool" })
        /\ d.does = k.call[t].does /\ d.o = k.call[t].o /\ d.x = [k.call[t].x EXCEPT !.blf = blf]
    BY <1>1 DEF IsFun, IsRec
  <2>3. IsFun(d.x, { "tmout", "blf" }) /\ d.x.blf = blf
    BY <2>1, <2>2 DEF IsFun, IsRec
  <2> HIDE DEF d
  <2> QED
    BY <2>2, <2>3 DEF IsFun, IsRec
<1> HIDE DEF c
<1>9. c # NULL /\ MayGoTo(k, t, c)
  BY <1>1, <1>8 DEF NullIsNoCall, MayGoTo, Inside
<1>10. Recalled(k, r, t, c)
  BY <1>1, <1>2, RecalledIs
<1> HIDE DEF r
<1>11. ASSUME ~ (mpf.frbcnt <= 0)
      PROVE  Onto(k, r)
  <2>1. BlocksGood(mpf) /\ mpf.kind = "mpf"
    BY <1>2, <1>5 DEF Typed, ObjectsTyped, ObjTyped
  <2>2. mpf.frbcnt \in Int
    <3> HIDE DEF mpf
    <3>1. /\ mpf.frbcnt = Len(mpf.freelist) + mpf.mpfcnt + 1 - mpf.unused
          /\ mpf.freelist \in Seq(1 .. mpf.unused - 1) /\ mpf.mpfcnt \in Nat /\ mpf.unused \in 1 .. mpf.mpfcnt + 1
      BY <2>1 DEF BlocksGood
    <3>2. Len(mpf.freelist) \in Nat /\ mpf.unused \in Nat
      BY <3>1
    <3> QED
      BY <3>1, <3>2
  <2>3. mpf.frbcnt > 0
    BY <1>11, <2>2
  <2>4. k.obj[c.o] = mpf
    BY <1>8
  <2> HIDE DEF mpf, o
  <2> QED
    BY <1>1, <1>2, <1>8, <1>9, <1>10, <1>5, <2>3, <2>4, StepOnto
<1> QED
  BY <1>3, <1>4, <1>6, <1>11

(* A block comes back: to the first who waits, or it is to be put into the list. *)
LEMMA HandOnto ==
  ASSUME NEW k, NEW t, InLock(k, t), k.call[t].does = "rel_mpf", k.obj[k.call[t].o].kind = "mpf", NullIsNoCall,
         k.call[t].at = "locked"
  PROVE  Onto(k, tk_rel_mpf_hand(k))
<1> DEFINE o == k.call[t].o
           h == Head(k.obj[o].wait_queue)
           s == knl_wait_release(k, h)
           put == "put"
           unlock == "unlock"
           X == {}
<1>1. /\ k.ctxtsk = t /\ t \in Task /\ k.state[t] = "ready" /\ k.klock[t] = "klocked" /\ k.call[t] # NULL
      /\ t \in Range(k.ready) /\ o \in Object /\ Fine(k)
      /\ Good(k, X, X, X) /\ IsFun(k.call[t], { "does", "at", "o", "x", "mempool" })
  BY DEF InLock, Busy, Fine, Resting
<1>2. Onto(k, k) /\ X = {}
  BY <1>1 DEF Onto, SameRun
<1>3. tk_rel_mpf_hand(k) = IF k.obj[o].wait_queue = << >> THEN At(k, put) ELSE At(s, unlock)
  BY <1>1 DEF tk_rel_mpf_hand, put, unlock
<1>4. CASE k.obj[o].wait_queue = << >>
  <2>1. MayGoTo(k, t, [k.call[t] EXCEPT !.at = put])
    BY <1>1 DEF MayGoTo, Inside, put, IsFun, IsRec
  <2>2. put # "get"
    BY DEF put
  <2> HIDE DEF put
  <2>3. Onto(k, At(k, put))
    BY <1>1, <1>2, <2>1, <2>2, AtOnto
  <2> QED
    BY <1>3, <1>4, <2>3
<1>5. CASE k.obj[o].wait_queue # << >>
  <2>1. h \in Task /\ waiting(k, h)
    BY <1>1, <1>5, FirstWaits
  <2> HIDE DEF h, X
  <2>2. h \in Task \ X
    BY <1>2, <2>1
  <2>3. Good(s, X, X, X) /\ Calm(k, s)
    BY <1>1, <2>1, <2>2, WaitReleaseGood
  <2> HIDE DEF s
  <2>4. Onto(k, s) /\ s.ctxtsk = t /\ s.call = k.call /\ s.klock[t] = "klocked" /\ t \in Range(s.ready)
    BY <1>1, <1>2, <2>3 DEF Onto, Calm, SameRun
  <2>5. s.state[t] = "ready"
    BY <1>2, <2>3, <2>4, ReadyState DEF Good, Core
  <2>6. MayGoTo(s, t, [s.call[t] EXCEPT !.at = unlock])
    BY <1>1, <2>4, <2>5 DEF MayGoTo, Inside, unlock, IsFun, IsRec
  <2>7. unlock # "get"
    BY DEF unlock
  <2> HIDE DEF unlock
  <2>8. Onto(k, At(s, unlock))
    BY <1>1, <2>4, <2>6, <2>7, AtOnto
  <2> QED
    BY <1>3, <1>5, <2>8
<1> QED
  BY <1>4, <1>5

(* A pool is deleted, and all who wait for it are released. *)
LEMMA DeletedOnto ==
  ASSUME NEW k, NEW t, InLock(k, t), k.call[t].does = "del_mpf", k.obj[k.call[t].o].kind = "mpf", NullIsNoCall,
         k.call[t].at = "locked"
  PROVE  Onto(k, tk_del_mpf_deleted(k))
<1> DEFINE o == k.call[t].o
           q == knl_wait_delete(k, o)
           s == [q EXCEPT !.obj[o] = Free]
           m == k.obj[o].mempool
           d == [k.call[t] EXCEPT !.mempool = m]
           c == [d EXCEPT !.at = "unlock"]
           r == [s EXCEPT !.call[t] = c]
           X == {}
<1>1. /\ k.ctxtsk = t /\ t \in Task /\ k.klock[t] = "klocked" /\ k.call[t] # NULL
      /\ t \in Range(k.ready) /\ o \in Object
      /\ Good(k, X, X, X) /\ IsFun(k.call[t], { "does", "at", "o", "x", "mempool" }) /\ X = {}
  BY DEF InLock, Busy
<1>2. Receivers(k, X, o) = {}
  <2> HIDE DEF X, o
  <2>1. k.obj[o].kind # "mbf"
    BY DEF o
  <2> QED
    BY <1>1, <2>1, NoReceivers
<1>3. Good(q, X, X, X) /\ Calm(k, q) /\ \A u \in Task : waiting(q, u) <=> waiting(k, u) /\ u \notin Waiters(k, X, o)
  <2> HIDE DEF X, o
  <2> QED
    BY <1>1, WaitDeleteGood
<1> HIDE DEF q
<1>4. NobodyAt(q, X, o)
  <2> HIDE DEF X, o
  <2> QED
    BY <1>1, <1>2, <1>3, NobodyLeft
<1>5. /\ q.obj[o].kind = "mpf" /\ q.call = k.call /\ q.klock[t] = "klocked" /\ SameRun(k, q)
      /\ \A u \in Task : u \in Range(k.ready) => u \in Range(q.ready)
  BY <1>1, <1>3 DEF Calm, SameRun
<1>6. Typed(q) /\ CallsGood(q) /\ LockGood(q)
  BY <1>3 DEF Good, Core
<1>7. Renewed(q, s, o, Free)
  BY <1>1, <1>6, ObjectIs, FreeTyped
<1> HIDE DEF s
<1>8. Good(s, X, X, X)
  <2>1. ASSUME NEW u \in Task, q.call[u] # NULL, q.call[u].at \in { "get", "wait", "put" }, q.call[u].o = o
        PROVE  FALSE
    <3>1. CallGood(q, u)
      BY <1>6, <2>1 DEF CallsGood
    <3>2. q.klock[u] = "klocked"
      BY <2>1, <3>1 DEF CallGood, Inside
    <3>3. Has(q, u, o) /\ Has(q, t, o)
      BY <1>5, <2>1, <3>2 DEF Has
    <3>4. u = t
      BY <1>1, <1>6, <3>3 DEF LockGood
    <3> QED
      BY <1>5, <2>1, <3>4
  <2>2. ASSUME NEW u \in Task, Makes(q, u, o)
        PROVE  Free.kind = "taken"
    BY <1>1, <1>5, <1>6, <2>2 DEF CallsGood
  <2>3. /\ Free.wait_queue = << >> /\ (Free.kind = "mbf" => Free.recv_queue = << >>)
        /\ (Free.kind = "mtx" => Free.mtxtsk = NULL)
    BY DEF Free
  <2>4. q.obj[o].kind = "mtx" => o \in X
    BY <1>5
  <2>5. Idle(q, o)
    <3>1. Deletes(q, t, o)
      BY <1>1, <1>5 DEF Deletes
    <3>2. \A u \in Task : ~ Gives(q, u, o)
      BY <1>1, <1>6, <3>1 DEF CallsGood, GivesGood
    <3> QED
      BY <2>1, <3>2 DEF Idle
  <2> HIDE DEF X, o
  <2>6. \A u \in Task : Makes(q, u, o) => Free.kind = "taken"
    BY <2>2
  <2>7. Good(s, X, X, X \ {o})
    BY <1>1, <1>3, <1>4, <1>7, <2>3, <2>4, <2>5, <2>6, FreeTyped, ReplaceGood
  <2>8. X \ {o} = X
    BY <1>1
  <2> QED
    BY <2>7, <2>8
<1>9. /\ s.call = k.call /\ s.klock[t] = "klocked" /\ SameRun(q, s) /\ s.ready = q.ready /\ Typed(s)
  BY <1>5, <1>7 DEF Renewed, SameLocks, SameReady
<1>10. Onto(k, s) /\ s.ctxtsk = t /\ t \in Range(s.ready)
  BY <1>1, <1>5, <1>8, <1>9 DEF Onto, SameRun
<1>11. s.state[t] = "ready"
  BY <1>1, <1>8, <1>10, ReadyState DEF Good, Core
<1>12. tk_del_mpf_deleted(k) = At([s EXCEPT !.call[t].mempool = m], "unlock")
  BY <1>1 DEF tk_del_mpf_deleted, s, q
<1> HIDE DEF m
<1>13. At([s EXCEPT !.call[t].mempool = m], "unlock") = r
  <2>1. [s EXCEPT !.call[t].mempool = m] = [s EXCEPT !.call[t] = d]
    BY <1>9
  <2>2. IsFun(s, Fields) /\ IsFun(s.call, Task)
    BY <1>9 DEF Typed, LocksTyped
  <2> DEFINE v == [s EXCEPT !.call[t] = d]
  <2> HIDE DEF d
  <2>3. IsFun(v, Fields) /\ v.ctxtsk = t /\ v.call = [s.call EXCEPT ![t] = d]
    BY <1>10, <2>2 DEF IsFun, IsRec, Fields
  <2>4. v.call[t] = d
    BY <1>1, <2>2, <2>3 DEF IsFun, IsRec
  <2>5. At(v, "unlock") = [v EXCEPT !.call[t] = c]
    <3> HIDE DEF v
    <3> QED
      BY <2>3, <2>4 DEF At
  <2>6. [v EXCEPT !.call[t] = c] = r
    <3> HIDE DEF c
    <3> QED
      BY <1>1, <2>2, CallTwice
  <2> QED
    BY <2>1, <2>5, <2>6
<1>14. /\ IsFun(c, { "does", "at", "o", "x", "mempool" })
       /\ c.does = s.call[t].does /\ c.o = s.call[t].o /\ c.at = "unlock" /\ c.does = "del_mpf"
       /\ c.x = s.call[t].x
  <2>1. /\ IsFun(d, { "does", "at", "o", "x", "mempool" })
        /\ d.does = k.call[t].does /\ d.o = k.call[t].o /\ d.x = k.call[t].x
    BY <1>1 DEF IsFun, IsRec
  <2> HIDE DEF d
  <2> QED
    BY <1>9, <2>1 DEF IsFun, IsRec
<1> HIDE DEF c
<1>15. c # NULL /\ MayGoTo(s, t, c)
  BY <1>9, <1>11, <1>14 DEF NullIsNoCall, MayGoTo, Inside
<1>16. Recalled(s, r, t, c)
  BY <1>1, <1>9, RecalledIs
<1> HIDE DEF r
<1>17. Onto(k, r)
  BY <1>1, <1>9, <1>10, <1>14, <1>15, <1>16, StepOnto
<1> QED
  BY <1>12, <1>13, <1>17

(* Its memory is given back later. *)
LEMMA UnlockedFine ==
  ASSUME NEW k, NEW t, InLock(k, t), k.call[t].does = "del_mpf"
  PROVE  Fine(tk_del_mpf_unlocked(k))
<1> DEFINE o == k.call[t].o
           x == knl_UnlockOBJ(k, o)
           c == [k.call[t] EXCEPT !.at = "free"]
           r == [x EXCEPT !.call[t] = c]
<1>1. /\ k.ctxtsk = t /\ t \in Task /\ k.state[t] = "ready" /\ o \in Object /\ Has(k, t, o)
      /\ Good(k, {}, {}, {}) /\ IsFun(k.call[t], { "does", "at", "o", "x", "mempool" }) /\ Busy(k, t)
  BY DEF InLock, Busy
<1>2. Typed(k)
  BY <1>1 DEF Good, Core
<1>3. AfterLock(k, t, c)
  BY <1>1 DEF AfterLock, IsFun, IsRec, Busy, Deletes
<1>4. x.ctxtsk = t /\ x.call = k.call
  BY <1>1, <1>2, UnlockRun
<1>5. tk_del_mpf_unlocked(k) = r
  <2> HIDE DEF x
  <2>1. tk_del_mpf_unlocked(k) = At(x, "free")
    BY <1>1 DEF tk_del_mpf_unlocked, x
  <2> QED
    BY <1>4, <2>1 DEF At
<1> HIDE DEF c
<1>6. Onto(k, r)
  BY <1>1, <1>2, <1>3, UnlockOnto
<1> HIDE DEF r
<1> QED
  BY <1>1, <1>5, <1>6, OntoFine

(* A pool is made out of a control block that was taken for it. *)
LEMMA MadeFine ==
  ASSUME NEW k, NEW t, InLock(k, t), k.call[t].does = "cre_mpf", k.call[t].at = "locked", NullIsNoCall
  PROVE  Fine(tk_cre_mpf_made(k)) /\ tk_cre_mpf_made(k).call[t] = NULL
<1> DEFINE call == k.call[t]
           o == call.o
           b == [kind |-> "mpf", wait_queue |-> << >>, atr |-> call.x.atr,
                 mempool |-> call.mempool, mpfcnt |-> call.x.size, frbcnt |-> call.x.size,
                 unused |-> 1, freelist |-> << >>, lent |-> {}]
           d == [call EXCEPT !.does = "cre_mpl"]
           c == [d EXCEPT !.at = "unlock"]
           ka == [k EXCEPT !.call[t] = c]
           kb == [ka EXCEPT !.obj[o] = b]
           X == {}
<1>1. /\ k.ctxtsk = t /\ t \in Task /\ k.state[t] = "ready" /\ o \in Object /\ Has(k, t, o) /\ k.klock[t] = "klocked"
      /\ Good(k, X, X, X) /\ IsFun(call, { "does", "at", "o", "x", "mempool" }) /\ Busy(k, t) /\ X = {}
      /\ call # NULL
  BY DEF InLock, Busy
<1>2. Typed(k) /\ CallsGood(k) /\ Onto(k, k)
  BY <1>1 DEF Good, Core, Onto, SameRun
<1>3. ObjTyped(b) /\ b.wait_queue = << >> /\ b.kind = "mpf"
  <2>1. IsRec(b) /\ b.kind = "mpf" /\ b.wait_queue = << >> /\ { "kind", "wait_queue", "atr" } \subseteq DOMAIN b
    BY DEF IsRec
  <2>2. call.x.size \in Nat
    BY <1>1 DEF Busy, CallGood
  <2>3. BlocksGood(b)
    <3>1. /\ Blocks \subseteq DOMAIN b /\ b.mpfcnt = call.x.size /\ b.frbcnt = call.x.size
          /\ b.unused = 1 /\ b.freelist = << >> /\ b.lent = {}
      BY DEF Blocks
    <3> HIDE DEF b, call
    <3>2. Range(<< >>) = {} /\ Once(<< >>) /\ Len(<< >>) = 0 /\ \A S : << >> \in Seq(S)
      BY DEF Range, Once
    <3>3. b.unused \in 1 .. b.mpfcnt + 1 /\ b.frbcnt = 0 + b.mpfcnt + 1 - b.unused /\ 1 .. b.unused - 1 = {}
      BY <2>2, <3>1
    <3> QED
      BY <2>2, <3>1, <3>2, <3>3 DEF BlocksGood
  <2> HIDE DEF b
  <2> QED
    BY <2>1, <2>3 DEF ObjTyped, Used, Kinds, RingGood
<1>4. /\ IsFun(c, { "does", "at", "o", "x", "mempool" })
      /\ c.does = "cre_mpl" /\ c.o = o /\ c.at = "unlock"
  <2>1. IsFun(d, { "does", "at", "o", "x", "mempool" }) /\ d.does = "cre_mpl" /\ d.o = o
    BY <1>1 DEF IsFun, IsRec
  <2> HIDE DEF d
  <2> QED
    BY <2>1 DEF IsFun, IsRec
<1> HIDE DEF b, c
<1>5. c # NULL
  BY <1>4 DEF NullIsNoCall
<1>6. Recalled(k, ka, t, c)
  BY <1>1, <1>2, RecalledIs
<1> HIDE DEF ka
<1>7. ka.call[t] = c /\ ka.state = k.state /\ ka.klock = k.klock /\ ka.obj = k.obj /\ SameRun(k, ka)
  BY <1>1, <1>6 DEF Recalled, SameTasks, SameLocks
<1>8. CallGood(ka, t)
  BY <1>1, <1>4, <1>7 DEF CallGood, Inside
<1>9. \A n \in Object : ~ Makes(ka, t, n)
  BY <1>4, <1>7 DEF Makes
<1>10. GivesGood(ka)
  BY <1>1, <1>2, <1>4, <1>6, RecalledGives
<1>11. Onto(k, ka)
  <2> HIDE DEF o
  <2> QED
    BY <1>1, <1>2, <1>4, <1>5, <1>6, <1>8, <1>9, <1>10, RecalledOnto DEF o
<1>12. Good(ka, X, X, X) /\ Typed(ka)
  BY <1>11 DEF Onto, Good, Core
<1>13. Makes(k, t, o) /\ k.obj[o].kind = "taken"
  BY <1>1, <1>2 DEF Makes, CallsGood
<1>14. \A u \in Task : ~ Makes(ka, u, o)
  <2>1. \A u \in Task : u # t /\ Makes(ka, u, o) => Makes(k, u, o)
    BY <1>6 DEF Recalled, Makes
  <2> QED
    BY <1>1, <1>2, <1>9, <1>13, <2>1 DEF CallsGood
<1>15. NobodyAt(ka, X, o)
  <2>1. WaitGood(ka, X) /\ ka.obj[o].kind = "taken"
    BY <1>7, <1>12, <1>13 DEF Good, Core
  <2> HIDE DEF X, o
  <2> QED
    BY <2>1 DEF NobodyAt, WaitGood, WaitsFor, Suits, InQueue
<1>16. Renewed(ka, kb, o, b)
  BY <1>1, <1>3, <1>12, ObjectIs
<1> HIDE DEF kb
<1>17. Idle(ka, o)
  <2>1. CallsGood(ka)
    BY <1>12 DEF Good, Core
  <2> QED
    BY <1>1, <1>7, <1>13, <2>1, NoPoolIdle
<1>18. Good(kb, X, X, X)
  <2>1. ka.obj[o].kind = "mtx" => o \in X
    BY <1>7, <1>13
  <2> HIDE DEF X, o
  <2>2. Good(kb, X, X, X \ {o})
    BY <1>1, <1>3, <1>12, <1>14, <1>15, <1>16, <1>17, <2>1, ReplaceGood
  <2>3. X \ {o} = X
    BY <1>1
  <2> QED
    BY <2>2, <2>3
<1>19. Good(kb, {}, {}, {}) /\ InLock(k, t)
  BY <1>18
<1>20. /\ Fine(Leave(knl_UnlockOBJ([k EXCEPT !.obj[o] = b], o)))
       /\ Leave(knl_UnlockOBJ([k EXCEPT !.obj[o] = b], o)).call[t] = NULL
  <2>1. SameButCall([k EXCEPT !.obj[o] = b], kb)
    BY <1>1, <1>2, <1>12, ChangedFields DEF ka, kb
  <2> HIDE DEF o
  <2> QED
    BY <1>3, <1>4, <1>6, <1>11, <1>16, <1>19, <2>1, ChangedLeaveFine DEF o
<1>21. tk_cre_mpf_made(k) = Leave(knl_UnlockOBJ([k EXCEPT !.obj[o] = b], o))
  BY <1>1 DEF tk_cre_mpf_made, b
<1> QED
  BY <1>20, <1>21

(***************************************************************************)
(* The first steps that are left.                                          *)
(***************************************************************************)
(* A variable-size pool is deleted; then its memory is given back. *)
LEMMA DeleteVariableFine ==
  ASSUME NEW k, Fine(k), AtWork(k), ~ k.dispatch_disabled, NEW o \in Object, k.obj[o].kind = "mpl"
  PROVE  Fine(tk_del_mpl(k, o))
<1> DEFINE X == {}
           t == k.ctxtsk
           d == [knl_wait_delete(k, o) EXCEPT !.obj[o] = Free]
           c == [does |-> "del_mpl", at |-> "free", o |-> o, x |-> NULL, mempool |-> k.obj[o].mempool]
           r == [d EXCEPT !.call[t] = c]
<1>1. Good(k, X, X, X) /\ X \ {o} = X /\ t \in Task /\ k.call[t] = NULL
  BY DEF Fine, AtWork
<1>2. /\ IsFun(c, { "does", "at", "o", "x", "mempool" })
      /\ c.does = "del_mpl" /\ c.at = "free" /\ c.o = o
  BY DEF IsFun, IsRec
<1>3. X = {}
  OBVIOUS
<1> HIDE DEF X, c
<1>4. Receivers(k, X, o) = {}
  BY <1>1, NoReceivers
<1>5. Good(d, X, X, X \ {o}) /\ Mild(k, d)
  BY <1>1, <1>4, DeletedGood
<1> HIDE DEF d
<1>6. Good(d, X, X, X)
  BY <1>1, <1>5
<1>7. Fine(d)
  BY <1>3, <1>5, <1>6, MildFine DEF Fine
<1>8. d.ctxtsk = t /\ d.dispatch_disabled = FALSE /\ d.call[t] = NULL /\ t \in Range(d.ready)
  <2>1. k.dispatch_disabled \in BOOLEAN
    BY <1>1 DEF Good, Core, Typed, RunTyped
  <2> QED
    BY <1>1, <1>5, <2>1 DEF Mild, SameRun, AtWork
<1>9. ReadyGood(d, X) /\ LockGood(d) /\ Typed(d)
  BY <1>6 DEF Good, Core
<1>10. d.state[t] = "ready" /\ d.klock[t] # "klockwait"
  BY <1>8, <1>9, ReadyState
<1>11. d.klock[t] = "none"
  BY <1>1, <1>8, <1>9, <1>10 DEF LockGood, Typed, LocksTyped
<1>12. Recalled(d, r, t, c)
  BY <1>1, <1>9, RecalledIs
<1> HIDE DEF r
<1>13. r.call[t] = c /\ r.state = d.state /\ r.klock = d.klock
  BY <1>1, <1>12 DEF Recalled, SameTasks, SameLocks
<1>14. CallGood(r, t)
  BY <1>2, <1>10, <1>11, <1>13 DEF CallGood, Inside
<1>15. \A n \in Object : ~ Makes(r, t, n)
  BY <1>2, <1>13 DEF Makes
<1>16. GivesGood(r)
  <2>1. CallsGood(d)
    BY <1>6 DEF Good, Core
  <2> QED
    BY <1>1, <1>2, <1>12, <2>1, RecalledGives
<1>17. Fine(r)
  BY <1>1, <1>7, <1>8, <1>11, <1>12, <1>14, <1>15, <1>16, RecalledFine
<1>18. tk_del_mpl(k, o) = r
  BY DEF tk_del_mpl, r, d, c
<1> QED
  BY <1>17, <1>18

(* A control block is taken for the pool that is made. *)
LEMMA NewOnto ==
  ASSUME NEW k, NEW t, Busy(k, t), Fine(k), NEW o \in Object, k.obj[o].kind = "free", NEW b, Fresh(b),
         NEW s, s = [k EXCEPT !.obj[o] = b]
  PROVE  Onto(k, s) /\ Renewed(k, s, o, b)
<1>1. Fine(s)
  BY NewGood
<1>2. Typed(k) /\ ObjTyped(b)
  BY DEF Fine, Good, Core, Fresh
<1>3. Renewed(k, s, o, b)
  BY <1>2, ObjectIs
<1> QED
  BY <1>1, <1>3 DEF Fine, Onto, Renewed, SameRun, SameReady

LEMMA TakeVariableFine ==
  ASSUME NEW k, NEW t, Busy(k, t), Fine(k), NEW o \in Object, k.obj[o].kind = "free", k.call[t].at = "take"
  PROVE  Fine(tk_cre_mpl_take(k, o))
<1> DEFINE call == k.call[t]
           b == [kind |-> "mpl", wait_queue |-> << >>, atr |-> call.x.atr,
                 mempool |-> call.mempool, pool |-> Empty(roundSize(call.x.size))]
           s == [k EXCEPT !.obj[o] = b]
           r == [s EXCEPT !.call[t] = NULL]
<1>1. t \in Task /\ k.ctxtsk = t /\ k.klock[t] = "none"
  BY DEF Busy, CallGood
<1>2. Fresh(b)
  <2>1. IsRec(b) /\ b.kind = "mpl" /\ b.wait_queue = << >> /\ { "kind", "wait_queue", "atr" } \subseteq DOMAIN b
    BY DEF IsRec
  <2> HIDE DEF b
  <2> QED
    BY <2>1 DEF Fresh, ObjTyped, Used, Kinds, RingGood, BlocksGood
<1> HIDE DEF b
<1>3. Onto(k, s) /\ Renewed(k, s, o, b)
  BY <1>2, NewOnto
<1> HIDE DEF s
<1>4. Typed(s) /\ s.klock[t] = "none" /\ s.ctxtsk = t
  BY <1>1, <1>3 DEF Renewed, SameLocks, SameRun
<1>5. Recalled(s, r, t, NULL)
  BY <1>1, <1>4, RecalledIs
<1>6. tk_cre_mpl_take(k, o) = Leave(s)
  BY <1>1 DEF tk_cre_mpl_take, s, b
<1>7. Leave(s) = r
  BY <1>4 DEF Leave
<1> HIDE DEF r
<1>8. Onto(k, r)
  BY <1>1, <1>3, <1>4, <1>5, LeaveOnto
<1> QED
  BY <1>6, <1>7, <1>8, OntoFine

LEMMA TakeFixedOnto ==
  ASSUME NEW k, NEW t, Busy(k, t), Fine(k), NEW o \in Object, k.obj[o].kind = "free", k.call[t].at = "take",
         k.call[t].does = "cre_mpf", NullIsNoCall
  PROVE  Onto(k, tk_cre_mpf_take(k, o))
<1> DEFINE b == [Free EXCEPT !.kind = "taken"]
           s == [k EXCEPT !.obj[o] = b]
           d == [k.call[t] EXCEPT !.o = o]
           c == [d EXCEPT !.at = "lock"]
           v == [s EXCEPT !.call[t] = d]
           r == [s EXCEPT !.call[t] = c]
<1>1. /\ t \in Task /\ k.ctxtsk = t /\ k.klock[t] = "none" /\ k.state[t] = "ready"
      /\ IsFun(k.call[t], { "does", "at", "o", "x", "mempool" }) /\ k.call[t].x.size \in Nat
  BY DEF Busy, CallGood
<1>2. Fresh(b) /\ b.kind = "taken"
  BY DEF Fresh, ObjTyped, Used, Kinds, IsRec, Free, RingGood, BlocksGood
<1> HIDE DEF b
<1>3. Onto(k, s) /\ Renewed(k, s, o, b)
  BY <1>2, NewOnto
<1>4. IsFun(k, Fields) /\ CallsGood(k)
  BY DEF Fine, Good, Core, Typed
<1>5. tk_cre_mpf_take(k, o) = At([k EXCEPT !.obj[o] = b, !.call[t] = d], "lock")
  BY <1>1 DEF tk_cre_mpf_take, b
<1>6. [k EXCEPT !.obj[o] = b, !.call[t] = d] = v
  <2> HIDE DEF d
  <2> QED
    OBVIOUS
<1> HIDE DEF s
<1>7. Typed(s) /\ s.klock[t] = "none" /\ s.ctxtsk = t /\ s.call = k.call /\ s.state = k.state /\ s.obj[o].kind = "taken"
  BY <1>1, <1>2, <1>3 DEF Renewed, SameLocks, SameRun, SameTasks
<1>8. IsFun(s, Fields) /\ IsFun(s.call, Task)
  BY <1>7 DEF Typed, LocksTyped
<1>9. /\ IsFun(d, { "does", "at", "o", "x", "mempool" }) /\ d.does = "cre_mpf" /\ d.o = o
      /\ d.x = k.call[t].x
  BY <1>1 DEF IsFun, IsRec
<1> HIDE DEF d
<1>10. /\ IsFun(c, { "does", "at", "o", "x", "mempool" }) /\ c.does = "cre_mpf" /\ c.o = o /\ c.at = "lock"
       /\ c.x.size \in Nat
  BY <1>1, <1>9 DEF IsFun, IsRec
<1>11. At(v, "lock") = r
  <2>1. v.ctxtsk = t /\ v.call = [s.call EXCEPT ![t] = d]
    BY <1>7, <1>8 DEF IsFun, IsRec, Fields
  <2>2. v.call[t] = d
    BY <1>1, <1>8, <2>1 DEF IsFun, IsRec
  <2>3. At(v, "lock") = [v EXCEPT !.call[t] = c]
    <3> HIDE DEF v
    <3> QED
      BY <2>1, <2>2 DEF At
  <2>4. [v EXCEPT !.call[t] = c] = r
    <3> HIDE DEF c
    <3> QED
      BY <1>1, <1>8, CallTwice
  <2> QED
    BY <2>3, <2>4
<1> HIDE DEF v, c
<1>12. Recalled(s, r, t, c)
  BY <1>1, <1>7, RecalledIs
<1> HIDE DEF r
<1>13. r.call[t] = c /\ r.state = k.state /\ r.klock = s.klock
  BY <1>1, <1>7, <1>12 DEF Recalled, SameTasks, SameLocks
<1>14. CallGood(r, t)
  BY <1>1, <1>10, <1>13 DEF CallGood, Inside
<1>15. \A n \in Object : Makes(r, t, n) => n = o
  BY <1>10, <1>13 DEF Makes
<1>16. \A u \in Task : ~ Makes(s, u, o)
  BY <1>4, <1>7 DEF CallsGood, Makes
<1>17. GivesGood(r)
  <2>1. CallsGood(s)
    BY <1>3 DEF Onto, Good, Core
  <2> QED
    BY <1>1, <1>10, <1>12, <2>1, RecalledGives
<1>18. Onto(k, r)
  <2>1. \A n \in Object : Makes(r, t, n) => s.obj[n].kind = "taken" /\ \A u \in Task : Makes(s, u, n) => u = t
    BY <1>7, <1>15, <1>16
  <2> QED
    BY <1>1, <1>3, <1>7, <1>12, <1>14, <1>17, <2>1, RecalledOnto
<1> QED
  BY <1>5, <1>6, <1>11, <1>18

LEMMA OntoKept ==
  ASSUME NEW k, NEW t, Busy(k, t), NEW r, Onto(k, r)
  PROVE  Kept(r)
BY OntoRest DEF Kept, Onto

(* The task whose call is to go on has a control block at last, or there is none. *)
LEMMA TakeKept ==
  ASSUME NEW k, Kept(k), k.ctxtsk # NULL, k.call[k.ctxtsk] # NULL, k.call[k.ctxtsk].at = "take", NullIsNoCall
  PROVE  /\ \A o \in Object : k.obj[o].kind = "free" =>
              Kept(IF k.call[k.ctxtsk].does = "cre_mpl" THEN Returned(tk_cre_mpl_take(k, o)) ELSE tk_cre_mpf_take(k, o))
         /\ Kept(GiveBack(k, k.call[k.ctxtsk].mempool))
<1> DEFINE t == k.ctxtsk
<1>1. Busy(k, t) /\ Fine(k)
  BY BusyIs DEF Kept
<1>2. t \in Task /\ CallGood(k, t)
  BY <1>1 DEF Busy
<1>3. k.klock[t] = "none" /\ k.call[t].does \in { "cre_mpl", "cre_mpf" }
  BY <1>2 DEF CallGood
<1>4. ASSUME NEW o \in Object, k.obj[o].kind = "free"
      PROVE  Kept(IF k.call[t].does = "cre_mpl" THEN Returned(tk_cre_mpl_take(k, o)) ELSE tk_cre_mpf_take(k, o))
  <2>1. CASE k.call[t].does = "cre_mpl"
    <3>1. Fine(tk_cre_mpl_take(k, o))
      BY <1>1, <1>4, TakeVariableFine
    <3> QED
      BY <2>1, <3>1, ReturnedGood DEF Kept
  <2>2. CASE k.call[t].does = "cre_mpf"
    <3>1. Onto(k, tk_cre_mpf_take(k, o))
      BY <1>1, <1>4, <2>2, TakeFixedOnto
    <3> QED
      BY <1>1, <2>2, <3>1, OntoKept
  <2> QED
    BY <1>3, <2>1, <2>2
<1>5. Onto(k, GiveBack(k, k.call[t].mempool))
  BY <1>1, <1>3, GiveBackOnto DEF Kept
<1>6. Kept(GiveBack(k, k.call[t].mempool))
  BY <1>1, <1>5, OntoKept
<1> QED
  BY <1>4, <1>6

LEMMA ContinuedKept ==
  ASSUME NEW k, Kept(k), k.ctxtsk # NULL, k.call[k.ctxtsk] # NULL, k.call[k.ctxtsk].at # "take", NullIsNoCall
  PROVE  Kept(Continued(k))
<1> DEFINE t == k.ctxtsk
           at == k.call[t].at
           does == k.call[t].does
           work == IF does = "cre_mpf" THEN tk_cre_mpf_made(k)
                   ELSE IF Gone(k) THEN Out(k)
                   ELSE CASE does = "del_mpf" -> tk_del_mpf_deleted(k)
                          [] does = "get_mpf" -> tk_get_mpf_look(k)
                          [] OTHER -> tk_rel_mpf_hand(k)
<1>1. Good(k, {}, {}, {}) /\ Busy(k, t) /\ Fine(k)
  BY BusyIs DEF Kept
<1>2. t \in Task /\ CallGood(k, t)
  BY <1>1 DEF Busy
<1>3. /\ at \in { "lock", "free" } \cup Inside
      /\ at = "locked" => does \in { "cre_mpf", "del_mpf", "get_mpf", "rel_mpf" }
      /\ at = "free" => k.klock[t] = "none"
      /\ at \in Inside => k.klock[t] = "klocked"
  BY <1>2 DEF CallGood
<1>4. at \in Inside => /\ InLock(k, t) /\ k.ctxtsk = t /\ ~ k.dispatch_disabled
                       /\ Fine(Out(k)) /\ Onto(k, Out(k))
  <2>1. SUFFICES ASSUME at \in Inside PROVE InLock(k, t) /\ ~ k.dispatch_disabled /\ Fine(Out(k)) /\ Onto(k, Out(k))
    OBVIOUS
  <2>2. InLock(k, t) /\ ~ k.dispatch_disabled
    BY <1>1, <2>1, InLockIs
  <2> QED
    BY <1>1, <1>2, <1>3, <2>1, <2>2, OutFine
<1>5. CASE at = "lock"
  <2>1. Fine(knl_LockOBJ(k, k.call[t].o, "locked"))
    BY <1>1, <1>5, LockObjectFine
  <2>2. Continued(k) = Returned(knl_LockOBJ(k, k.call[t].o, "locked"))
    BY <1>5 DEF Continued
  <2> QED
    BY <2>1, <2>2, ReturnedGood DEF Kept
<1>6. CASE at = "locked"
  <2>1. InLock(k, t) /\ Onto(k, Out(k))
    BY <1>4, <1>6 DEF Inside
  <2>2. (Fine(work) /\ work.call[t] = NULL) \/ Onto(k, work)
    <3>1. CASE does = "cre_mpf"
      BY <1>6, <2>1, <3>1, MadeFine
    <3>2. CASE does # "cre_mpf" /\ Gone(k)
      BY <2>1, <3>2
    <3>3. CASE does # "cre_mpf" /\ ~ Gone(k)
      <4>1. k.obj[k.call[t].o].kind = "mpf" /\ does \in { "del_mpf", "get_mpf", "rel_mpf" } /\ at # "take"
        BY <1>3, <1>6, <3>3 DEF Gone
      <4>2. CASE does = "del_mpf"
        BY <1>6, <2>1, <3>3, <4>1, <4>2, DeletedOnto
      <4>3. CASE does = "get_mpf"
        BY <1>6, <2>1, <3>3, <4>1, <4>3, LookOnto
      <4>4. CASE does = "rel_mpf"
        BY <1>6, <2>1, <3>3, <4>1, <4>4, HandOnto
      <4> QED
        BY <4>1, <4>2, <4>3, <4>4
    <3> QED
      BY <3>1, <3>2, <3>3
  <2>3. Continued(k) = IF work.call[t] = NULL THEN Returned(work) ELSE work
    BY <1>6 DEF Continued
  <2> HIDE DEF work
  <2>4. Fine(work) /\ (work.call[t] = NULL \/ Kept(work))
    BY <1>1, <2>2, OntoFine, OntoKept
  <2> QED
    BY <2>3, <2>4, ReturnedGood DEF Kept
<1>7. CASE at = "get"
  <2>1. Fine(tk_get_mpf_get(k))
    BY <1>4, <1>7, GetFine DEF Inside
  <2>2. Continued(k) = Returned(tk_get_mpf_get(k))
    BY <1>7 DEF Continued
  <2> QED
    BY <2>1, <2>2, ReturnedGood DEF Kept
<1>8. CASE at = "wait"
  <2>1. Fine(tk_get_mpf_wait(k))
    BY <1>4, <1>8, WaitFine DEF Inside
  <2>2. Continued(k) = Returned(tk_get_mpf_wait(k))
    BY <1>8 DEF Continued
  <2> QED
    BY <2>1, <2>2, ReturnedGood DEF Kept
<1>9. CASE at = "put"
  <2>1. Fine(tk_rel_mpf_put(k))
    BY <1>4, <1>9, PutFine DEF Inside
  <2>2. Continued(k) = Returned(tk_rel_mpf_put(k))
    BY <1>9 DEF Continued
  <2> QED
    BY <2>1, <2>2, ReturnedGood DEF Kept
<1>10. CASE at = "unlock"
  <2> DEFINE r == IF does = "del_mpf" THEN tk_del_mpf_unlocked(k) ELSE Out(k)
  <2>1. InLock(k, t) /\ Fine(Out(k))
    BY <1>4, <1>10 DEF Inside
  <2>2. Fine(r)
    BY <2>1, UnlockedFine
  <2>3. Continued(k) = Returned(r)
    BY <1>10 DEF Continued
  <2> HIDE DEF r
  <2> QED
    BY <2>2, <2>3, ReturnedGood DEF Kept
<1>11. CASE at = "free"
  <2>1. Onto(k, GiveBack(k, k.call[t].mempool))
    BY <1>1, <1>3, <1>11, GiveBackOnto
  <2>2. Continued(k) = GiveBack(k, k.call[t].mempool)
    BY <1>11 DEF Continued
  <2> QED
    BY <1>1, <2>1, <2>2, OntoKept
<1> QED
  BY <1>3, <1>5, <1>6, <1>7, <1>8, <1>9, <1>10, <1>11 DEF Inside

-----------------------------------------------------------------------------
(***************************************************************************)
(* Every step of the kernel keeps the invariant.                           *)
(***************************************************************************)
LEMMA DoesKept ==
  ASSUME NEW call, NEW r, Does(call, r), Fine(r)
  PROVE  Kept(knl')
BY ReturnedGood DEF Does, Kept

(* Who is in a call and who is not. *)
LEMMA RunningIs ==
  ASSUME Kept(knl)
  PROVE  /\ Fine(knl) /\ (Running => AtWork(knl))
         /\ MayWait => AtWork(knl) /\ ~ knl.dispatch_disabled
BY WorkIs DEF Kept, Running, MayWait, InCall

LEMMA TaskStep ==
  ASSUME Kept(knl), TaskNext
  PROVE  Kept(knl')
<1>1. Fine(knl) /\ (Running => AtWork(knl)) /\ (MayWait => AtWork(knl) /\ ~ knl.dispatch_disabled)
  BY RunningIs
<1>2. CASE CreateTask
  <2>1. PICK t \in Task, p \in ItskPri : knl.state[t] = "nonexist" /\ Does("cre_tsk", tk_cre_tsk(knl, t, p))
    BY <1>2 DEF CreateTask
  <2>2. p \in Pri
    BY <2>1, KernelAssumption
  <2>3. Fine(tk_cre_tsk(knl, t, p))
    BY <1>1, <2>1, <2>2, CreateTaskFine
  <2> QED
    BY <2>1, <2>3, DoesKept
<1>3. CASE DeleteTask
  BY <1>1, <1>3, DeleteTaskFine, DoesKept DEF DeleteTask
<1>4. CASE StartTask
  BY <1>1, <1>4, StartFine, DoesKept DEF StartTask
<1>5. CASE ExitTask
  BY <1>1, <1>5, ExitFine, DoesKept DEF ExitTask
<1>6. CASE ExitDeleteTask
  BY <1>1, <1>6, ExitFine, DoesKept DEF ExitDeleteTask
<1>7. CASE TerminateTask
  BY <1>1, <1>7, TerminateFine, DoesKept DEF TerminateTask
<1>8. CASE ChangePriority
  BY <1>1, <1>8, ChangePriorityFine, DoesKept DEF ChangePriority
<1>9. CASE RotateReadyQueue
  <2>1. PICK p \in Pri : Does("rot_rdq", tk_rot_rdq(knl, p))
    BY <1>9 DEF RotateReadyQueue
  <2>2. Fine(tk_rot_rdq(knl, p))
    BY <1>1, RotateFine DEF tk_rot_rdq
  <2> QED
    BY <2>1, <2>2, DoesKept
<1>10. CASE ReleaseWait
  <2>1. PICK t \in Task : Does("rel_wai", tk_rel_wai(knl, t))
    BY <1>10 DEF ReleaseWait
  <2>2. Fine(tk_rel_wai(knl, t))
    BY <1>1, ReleaseNgFine DEF tk_rel_wai
  <2> QED
    BY <2>1, <2>2, DoesKept
<1>11. CASE SuspendTask
  BY <1>1, <1>11, SuspendFine, DoesKept DEF SuspendTask
<1>12. CASE ResumeTask
  <2>1. PICK t \in Task : Does("rsm_tsk", tk_rsm_tsk(knl, t))
    BY <1>12 DEF ResumeTask
  <2>2. Fine(tk_rsm_tsk(knl, t))
    BY <1>1, ResumeFine DEF tk_rsm_tsk
  <2> QED
    BY <2>1, <2>2, DoesKept
<1>13. CASE ForceResumeTask
  <2>1. PICK t \in Task : Does("frsm_tsk", tk_frsm_tsk(knl, t))
    BY <1>13 DEF ForceResumeTask
  <2>2. Fine(tk_frsm_tsk(knl, t))
    BY <1>1, ResumeFine DEF tk_frsm_tsk
  <2> QED
    BY <2>1, <2>2, DoesKept
<1>14. CASE SleepTask
  BY <1>1, <1>14, SleepFine, DoesKept DEF SleepTask
<1>15. CASE WakeupTask
  BY <1>1, <1>15, WakeupFine, DoesKept DEF WakeupTask
<1>16. CASE CancelWakeup
  BY <1>1, <1>16, WakeupFine, DoesKept DEF CancelWakeup
<1>17. CASE DelayTask
  BY <1>1, <1>17, DelayFine, DoesKept DEF DelayTask
<1>18. CASE DisableDispatch
  <2>1. Fine(tk_dis_dsp(knl))
    BY <1>1, <1>18, DispatchFine DEF DisableDispatch, tk_dis_dsp
  <2> QED
    BY <1>18, <2>1, DoesKept DEF DisableDispatch
<1>19. CASE EnableDispatch
  <2>1. Fine(tk_ena_dsp(knl))
    BY <1>1, <1>19, DispatchFine DEF EnableDispatch, tk_ena_dsp
  <2> QED
    BY <1>19, <2>1, DoesKept DEF EnableDispatch
<1>20. CASE Timeout
  <2>1. PICK t \in Task : knl.timed[t] /\ knl' = Returned(knl_wait_release_ng(knl, t))
    BY <1>20 DEF Timeout
  <2>2. waiting(knl, t)
    BY <1>1, <2>1 DEF Fine, Good, Core, WaitGood, TimedGood
  <2>3. Fine(knl_wait_release_ng(knl, t))
    BY <1>1, <2>2, ReleaseNgFine
  <2> QED
    BY <2>1, <2>3, ReturnedGood DEF Kept
<1> QED
  BY <1>2, <1>3, <1>4, <1>5, <1>6, <1>7, <1>8, <1>9, <1>10, <1>11, <1>12, <1>13, <1>14, <1>15, <1>16, <1>17,
     <1>18, <1>19, <1>20 DEF TaskNext

LEMMA DeleteObjectStep ==
  ASSUME Kept(knl), DeleteObject
  PROVE  Kept(knl')
<1>1. Fine(knl) /\ AtWork(knl)
  BY RunningIs DEF DeleteObject
<1>2. PICK o \in Object \ Unused :
        /\ knl.obj[o].kind # "taken"
        /\ knl.obj[o].kind \in { "mpl", "mpf" } => ~knl.dispatch_disabled /\ GivenBack(o) = {}
        /\ Does("del", tk_del(knl, o))
  BY DEF DeleteObject
<1>3. o \in Object /\ knl.obj[o].kind # "free"
  BY <1>2 DEF Unused, OfKind
<1>4. CASE knl.obj[o].kind = "mtx"
  <2>1. tk_del(knl, o) = tk_del_mtx(knl, o)
    BY <1>4 DEF tk_del
  <2>2. Fine(tk_del(knl, o))
    BY <1>1, <1>3, <1>4, <2>1, DeleteMutexFine
  <2> QED
    BY <1>2, <2>2, DoesKept
<1>5. CASE knl.obj[o].kind = "mbf"
  <2>1. tk_del(knl, o) = tk_del_mbf(knl, o)
    BY <1>5 DEF tk_del
  <2>2. Fine(tk_del(knl, o))
    BY <1>1, <1>3, <1>5, <2>1, DeleteBufferFine
  <2> QED
    BY <1>2, <2>2, DoesKept
<1>6. CASE knl.obj[o].kind = "mpl"
  <2>1. tk_del(knl, o) = tk_del_mpl(knl, o)
    BY <1>6 DEF tk_del
  <2>2. Fine(tk_del(knl, o))
    BY <1>1, <1>2, <1>3, <1>6, <2>1, DeleteVariableFine
  <2> QED
    BY <1>2, <2>2, DoesKept
<1>7. CASE knl.obj[o].kind = "mpf"
  <2>1. tk_del(knl, o) = Enter(knl, "del_mpf", o, NULL)
    BY <1>7 DEF tk_del, tk_del_mpf
  <2>2. \A u \in Task : ~ Gives(knl, u, o)
    BY <1>2, <1>7 DEF Gives, GivenBack, Calling
  <2>3. Fine(tk_del(knl, o))
    BY <1>1, <1>2, <1>3, <1>7, <2>1, <2>2, EnterFine
  <2> QED
    BY <1>2, <2>3, DoesKept
<1>8. CASE knl.obj[o].kind \notin { "mtx", "mbf", "mpl", "mpf" }
  <2>1. tk_del(knl, o) = [knl_wait_delete(knl, o) EXCEPT !.obj[o] = Free]
    BY <1>8 DEF tk_del
  <2>2. Fine(tk_del(knl, o))
    BY <1>1, <1>2, <1>3, <1>8, <2>1, DeleteFine
  <2> QED
    BY <1>2, <2>2, DoesKept
<1> QED
  BY <1>4, <1>5, <1>6, <1>7, <1>8

LEMMA ObjectStep ==
  ASSUME Kept(knl), ObjectNext, InOneOrder
  PROVE  Kept(knl')
<1>1. Fine(knl) /\ (Running => AtWork(knl)) /\ (MayWait => AtWork(knl) /\ ~ knl.dispatch_disabled)
  BY RunningIs
<1>2. CASE DeleteObject
  BY <1>2, DeleteObjectStep
<1>3. CASE CreateMutex
  BY <1>1, <1>3, CreateMutexFine, DoesKept DEF CreateMutex, Unused, OfKind
<1>4. CASE LockMutex
  BY <1>1, <1>4, LockMutexFine, DoesKept DEF LockMutex, OfKind
<1>5. CASE UnlockMutex
  BY <1>1, <1>5, UnlockMutexFine, DoesKept DEF UnlockMutex, OfKind
<1>6. CASE CreateSemaphore
  BY <1>1, <1>6, CreateSemaphoreFine, DoesKept DEF CreateSemaphore, Unused, OfKind
<1>7. CASE SignalSemaphore
  BY <1>1, <1>7, SignalSemaphoreFine, DoesKept DEF SignalSemaphore, OfKind
<1>8. CASE WaitSemaphore
  BY <1>1, <1>8, WaitSemaphoreFine, DoesKept DEF WaitSemaphore, OfKind
<1>9. CASE CreateEventFlag
  BY <1>1, <1>9, CreateFlagFine, DoesKept DEF CreateEventFlag, Unused, OfKind
<1>10. CASE SetEventFlag
  BY <1>1, <1>10, FlagsFine, DoesKept DEF SetEventFlag, OfKind
<1>11. CASE ClearEventFlag
  BY <1>1, <1>11, FlagsFine, DoesKept DEF ClearEventFlag, OfKind
<1>12. CASE WaitEventFlag
  BY <1>1, <1>12, WaitFlagFine, DoesKept DEF WaitEventFlag, OfKind
<1>13. CASE CreateMailbox
  BY <1>1, <1>13, CreateMailboxFine, DoesKept DEF CreateMailbox, Unused, OfKind
<1>14. CASE SendMailbox
  BY <1>1, <1>14, SendMailboxFine, DoesKept DEF SendMailbox, OfKind
<1>15. CASE ReceiveMailbox
  BY <1>1, <1>15, ReceiveMailboxFine, DoesKept DEF ReceiveMailbox, OfKind
<1>16. CASE CreateMessageBuffer
  <2>1. BufSz \in Nat \ {0}
    BY KernelAssumption
  <2> QED
    BY <1>1, <1>16, <2>1, CreateBufferFine, DoesKept DEF CreateMessageBuffer, Unused, OfKind
<1>17. CASE SendMessageBuffer
  <2>1. PICK o \in OfKind("mbf"), msg \in Packet, tmo \in Timeouts, in_indp \in BOOLEAN :
          /\ ~in_indp => Running
          /\ in_indp \/ knl.dispatch_disabled => tmo = "TMO_POL"
          /\ Does("snd_mbf", tk_snd_mbf(knl, o, msg, tmo, in_indp))
    BY <1>17 DEF SendMessageBuffer
  <2>2. tmo # "TMO_POL" => AtWork(knl) /\ ~ knl.dispatch_disabled
    BY <1>1, <2>1
  <2>3. o \in Object /\ knl.obj[o].kind = "mbf"
    BY <2>1 DEF OfKind
  <2>4. Fine(tk_snd_mbf(knl, o, msg, tmo, in_indp))
    BY <1>1, <2>2, <2>3, SendBufferFine
  <2> QED
    BY <2>1, <2>4, DoesKept
<1>18. CASE ReceiveMessageBuffer
  BY <1>1, <1>18, ReceiveBufferFine, DoesKept DEF ReceiveMessageBuffer, OfKind
<1> QED
  BY <1>2, <1>3, <1>4, <1>5, <1>6, <1>7, <1>8, <1>9, <1>10, <1>11, <1>12, <1>13, <1>14, <1>15, <1>16, <1>17,
     <1>18 DEF ObjectNext

LEMMA PoolStep ==
  ASSUME Kept(knl), PoolNext, NullIsNoCall
  PROVE  Kept(knl')
<1>1. Fine(knl) /\ (MayWait => AtWork(knl) /\ ~ knl.dispatch_disabled)
  BY RunningIs
<1>2. CASE CreateVariablePool
  BY <1>1, <1>2, AllocateFine, DoesKept DEF CreateVariablePool, tk_cre_mpl
<1>3. CASE GetVariableBlock
  BY <1>1, <1>3, GetVariableFine, DoesKept DEF GetVariableBlock, OfKind
<1>4. CASE ReleaseVariableBlock
  BY <1>1, <1>4, ReleaseVariableFine, DoesKept DEF ReleaseVariableBlock, OfKind
<1>5. CASE CreateFixedPool
  <2>1. PICK atr \in Atrs, mpfcnt \in 1 .. MaxBlk : Does("cre_mpf", tk_cre_mpf(knl, atr, mpfcnt))
    BY <1>5 DEF CreateFixedPool
  <2> DEFINE x == [atr |-> atr, size |-> mpfcnt]
  <2>2. x.size \in Nat
    BY KernelAssumption
  <2> HIDE DEF x
  <2>3. Fine(Allocate(knl, "cre_mpf", mpfcnt * BlfSz, x))
    BY <1>1, <1>5, <2>2, AllocateFine DEF CreateFixedPool
  <2> QED
    BY <2>1, <2>3, DoesKept DEF tk_cre_mpf, x
<1>6. CASE GetFixedBlock
  <2>1. PICK o \in OfKind("mpf"), tmo \in Timeouts : Does("get_mpf", tk_get_mpf(knl, o, tmo))
    BY <1>6 DEF GetFixedBlock
  <2> DEFINE x == [tmout |-> tmo, blf |-> NULL]
  <2>2. IsFun(x, { "tmout", "blf" })
    BY DEF IsFun, IsRec
  <2> HIDE DEF x
  <2>3. Fine(Enter(knl, "get_mpf", o, x))
    BY <1>1, <1>6, <2>2, EnterFine DEF GetFixedBlock, OfKind
  <2> QED
    BY <2>1, <2>3, DoesKept DEF tk_get_mpf, x
<1>7. CASE ReleaseFixedBlock
  <2>1. PICK o \in OfKind("mpf") : \E blf \in knl.obj[o].lent \ GivenBack(o) :
          Calling("del_mpf", o) = {} /\ Does("rel_mpf", tk_rel_mpf(knl, o, blf))
    BY <1>7 DEF ReleaseFixedBlock
  <2>2. PICK blf \in knl.obj[o].lent \ GivenBack(o) :
          Calling("del_mpf", o) = {} /\ Does("rel_mpf", tk_rel_mpf(knl, o, blf))
    BY <2>1
  <2> DEFINE x == [blf |-> blf]
  <2>3. o \in Object /\ knl.obj[o].kind = "mpf" /\ x.blf = blf
    BY DEF OfKind
  <2>4. \A u \in Task : ~ Deletes(knl, u, o)
    BY <2>2 DEF Deletes, Calling
  <2>5. \A u \in Task : Gives(knl, u, o) => knl.call[u].x.blf # blf
    BY <2>2 DEF Gives, GivenBack, Calling
  <2> HIDE DEF x
  <2>6. Fine(Enter(knl, "rel_mpf", o, x))
    BY <1>1, <1>7, <2>2, <2>3, <2>4, <2>5, EnterFine DEF ReleaseFixedBlock
  <2> QED
    BY <2>2, <2>6, DoesKept DEF tk_rel_mpf, x
<1>8. CASE TakeControlBlock
  <2>1. knl.ctxtsk # NULL /\ knl.call[knl.ctxtsk] # NULL /\ knl.call[knl.ctxtsk].at = "take"
    BY <1>8 DEF TakeControlBlock, InCall
  <2> QED
    BY <1>8, <2>1, TakeKept DEF TakeControlBlock, Unused, OfKind
<1>9. CASE ContinueCall
  BY <1>9, ContinuedKept DEF ContinueCall, InCall
<1> QED
  BY <1>2, <1>3, <1>4, <1>5, <1>6, <1>7, <1>8, <1>9 DEF PoolNext

LEMMA InitKept ==
  ASSUME Init
  PROVE  Kept(knl)
<1>1. InitTask \in Task /\ NULL \notin Task /\ MaxPri \in Nat \ {0} /\ 1 \in Pri
  BY KernelAssumption, KernelTaskAssumption DEF Pri
<1>2. /\ IsFun(knl, Fields)
      /\ knl.state = [t \in Task |-> IF t = InitTask THEN "ready" ELSE "nonexist"]
      /\ knl.priority = [t \in Task |-> 1] /\ knl.bpriority = [t \in Task |-> 1] /\ knl.ipriority = [t \in Task |-> 1]
      /\ knl.suscnt = [t \in Task |-> 0] /\ knl.wupcnt = [t \in Task |-> 0] /\ knl.timed = [t \in Task |-> FALSE]
      /\ knl.wspec = [t \in Task |-> "none"] /\ knl.wid = [t \in Task |-> NULL] /\ knl.winfo = [t \in Task |-> NULL]
      /\ knl.mtxlist = [t \in Task |-> << >>] /\ knl.klock = [t \in Task |-> "none"]
      /\ knl.call = [t \in Task |-> NULL] /\ knl.klocktsk = NULL /\ knl.locked = {}
      /\ knl.wtskq = [o \in Object |-> << >>] /\ knl.ready = << InitTask >> /\ knl.schedtsk = InitTask
      /\ knl.ctxtsk = InitTask /\ knl.dispatch_disabled = FALSE /\ knl.obj = [o \in Object |-> Free]
  BY DEF Init, IsFun, IsRec, Fields
<1>3. Typed(knl)
  <2>1. TasksTyped(knl)
    BY <1>1, <1>2 DEF TasksTyped, States, IsFun, IsRec
  <2>2. WaitsTyped(knl)
    BY <1>2 DEF WaitsTyped, IsFun, IsRec
  <2>3. LocksTyped(knl)
    BY <1>2 DEF LocksTyped, IsFun, IsRec
  <2>4. RunTyped(knl)
    <3>1. << InitTask >> \in Seq(Task)
      BY <1>1
    <3> QED
      BY <1>1, <1>2, <3>1 DEF RunTyped
  <2>5. ObjectsTyped(knl)
    BY <1>2, FreeTyped DEF ObjectsTyped, IsFun, IsRec
  <2> QED
    BY <1>2, <2>1, <2>2, <2>3, <2>4, <2>5 DEF Typed
<1>4. \A t \in Task : ~ waiting(knl, t) /\ knl.call[t] = NULL /\ knl.klock[t] = "none" /\ ~ knl.timed[t]
  BY <1>2 DEF waiting
<1>5. InitTask \in Range(knl.ready) /\ knl.schedtsk = Top(knl.ready)
  BY <1>2 DEF Range, Top
<1>6. ReadyGood(knl, {})
  <2>1. IsLine(<< InitTask >>, { InitTask })
    BY DEF IsLine, Once
  <2>2. ReadySet(knl, {}) = { InitTask }
    BY <1>1, <1>2 DEF ReadySet
  <2>3. Ordered(knl.priority, << InitTask >>)
    BY DEF Ordered
  <2> QED
    BY <1>2, <2>1, <2>2, <2>3 DEF ReadyGood
<1>7. WaitGood(knl, {})
  <2>1. \A o \in Object : knl.obj[o].kind = "free" /\ knl.obj[o].wait_queue = << >>
    BY <1>2 DEF Free
  <2>2. \A o \in Object : Waiters(knl, {}, o) = {}
    BY <1>4 DEF Waiters
  <2>3. \A o \in Object : IsLine(knl.obj[o].wait_queue, Waiters(knl, {}, o))
    BY <2>1, <2>2, EmptyLine
  <2> QED
    BY <1>4, <2>1, <2>3 DEF WaitGood, LinesGood, TimedGood, Used
<1>8. MutexGood(knl, {}, {}, {})
  <2>1. \A o \in Object : knl.obj[o].kind = "free"
    BY <1>2 DEF Free
  <2>2. \A t \in Task : knl.mtxlist[t] = << >>
    BY <1>2
  <2>3. Once(<< >>) /\ Range(<< >>) = {}
    BY DEF Once, Range
  <2> QED
    BY <1>4, <2>1, <2>2, <2>3 DEF MutexGood, OwnerGood, ListGood, RankGood
<1>9. CallsGood(knl)
  BY <1>4 DEF CallsGood, Makes, GivesGood, Gives, Deletes
<1>10. LockGood(knl)
  <2>1. \A o \in Object : knl.wtskq[o] = << >> /\ o \notin knl.locked
    BY <1>2
  <2>2. \A o \in Object : { t \in Task : knl.klock[t] = "klockwait" /\ knl.call[t].o = o } = {}
    BY <1>4
  <2>3. \A o \in Object : IsLine(knl.wtskq[o], { t \in Task : knl.klock[t] = "klockwait" /\ knl.call[t].o = o })
    BY <2>1, <2>2, EmptyLine
  <2> QED
    BY <1>4, <2>1, <2>3 DEF LockGood, Has
<1>11. LockerGood(knl) /\ TopGood(knl) /\ RestGood(knl)
  BY <1>2, <1>5 DEF LockerGood, TopGood, RestGood
<1> QED
  BY <1>3, <1>6, <1>7, <1>8, <1>9, <1>10, <1>11 DEF Kept, Good, Core

-----------------------------------------------------------------------------
(***************************************************************************)
(* What the properties ask for.                                            *)
(***************************************************************************)
LEMMA KeptQueues ==
  ASSUME Kept(knl)
  PROVE  QueuesAgree
<1>1. ReadyGood(knl, {}) /\ WaitGood(knl, {})
  BY DEF Kept, Good, Core
<1>2. Queues(knl.ready, { t \in Task : knl.state[t] = "ready" /\ knl.klock[t] # "klockwait" })
  <2>1. ReadySet(knl, {}) = { t \in Task : knl.state[t] = "ready" /\ knl.klock[t] # "klockwait" }
    BY DEF ReadySet
  <2> QED
    BY <1>1, <2>1, LineQueues DEF ReadyGood
<1>3. Sorted(knl.ready)
  BY <1>1 DEF ReadyGood, Sorted, Ordered
<1>4. ASSUME NEW o \in Object
      PROVE  /\ Queues(knl.obj[o].wait_queue, WaitingFor({ "mtx", "sem", "flg", "mbx", "smbf", "mpl", "mpf" }, o))
             /\ knl.obj[o].kind = "mbf" => Queues(knl.obj[o].recv_queue, WaitingFor({ "rmbf" }, o))
             /\ knl.obj[o].kind \notin { "free", "taken" } /\ "TPRI" \in knl.obj[o].atr => Sorted(knl.obj[o].wait_queue)
  <2>1. /\ IsLine(knl.obj[o].wait_queue, Waiters(knl, {}, o))
        /\ knl.obj[o].kind = "mbf" => IsLine(knl.obj[o].recv_queue, Receivers(knl, {}, o))
        /\ Used(knl.obj[o].kind) /\ "TPRI" \in knl.obj[o].atr => Ordered(knl.priority, knl.obj[o].wait_queue)
    BY <1>1 DEF WaitGood, LinesGood
  <2>2. Waiters(knl, {}, o) = WaitingFor({ "mtx", "sem", "flg", "mbx", "smbf", "mpl", "mpf" }, o)
    BY DEF Waiters, WaitingFor, InQueue
  <2>3. Receivers(knl, {}, o) = WaitingFor({ "rmbf" }, o)
    BY DEF Receivers, WaitingFor
  <2> QED
    BY <2>1, <2>2, <2>3, LineQueues DEF Used, Sorted, Ordered
<1>5. \A t \in Task : knl.timed[t] => waiting(knl, t)
  BY <1>1 DEF WaitGood, TimedGood
<1> QED
  BY <1>2, <1>3, <1>4, <1>5 DEF QueuesAgree

LEMMA KeptRuns ==
  ASSUME Kept(knl)
  PROVE  RunsReady
<1>1. ReadyGood(knl, {}) /\ TopGood(knl) /\ RestGood(knl)
  BY DEF Kept, Good, Core
<1>2. Running => knl.state[knl.ctxtsk] = "ready"
  BY <1>1, ReadyState DEF Running, RestGood
<1> QED
  BY <1>1, <1>2 DEF RunsReady, TopGood, Locker

LEMMA KeptMutexes ==
  ASSUME Kept(knl)
  PROVE  MutexesHeld
<1>1. OwnerGood(knl, {}) /\ ListGood(knl, {}, {})
  BY DEF Kept, Good, Core, MutexGood
<1>2. ASSUME NEW m \in OfKind("mtx"), NEW t \in Task
      PROVE  Cardinality({ i \in DOMAIN knl.mtxlist[t] : knl.mtxlist[t][i] = m })
               = IF t = knl.obj[m].mtxtsk THEN 1 ELSE 0
  <2> DEFINE places == { i \in DOMAIN knl.mtxlist[t] : knl.mtxlist[t][i] = m }
  <2>1. m \in Object /\ knl.obj[m].kind = "mtx"
    BY DEF OfKind
  <2>2. t = knl.obj[m].mtxtsk => m \in Range(knl.mtxlist[t])
    BY <1>1, <2>1, KernelTaskAssumption DEF OwnerGood
  <2>3. CASE t = knl.obj[m].mtxtsk
    <3>1. PICK i \in DOMAIN knl.mtxlist[t] : knl.mtxlist[t][i] = m
      BY <2>2, <2>3 DEF Range
    <3>2. places = { i }
      BY <1>1, <3>1 DEF ListGood, Once
    <3> QED
      BY <2>3, <3>2, FS_Singleton
  <2>4. CASE t # knl.obj[m].mtxtsk
    <3>1. m \notin Range(knl.mtxlist[t])
      BY <1>1, <2>4 DEF ListGood, Holds
    <3>2. places = {}
      BY <3>1 DEF Range
    <3> QED
      BY <2>4, <3>2, FS_EmptySet
  <2> QED
    BY <2>3, <2>4
<1>3. \A m \in OfKind("mtx") :
        /\ knl.obj[m].mtxtsk = NULL => knl.obj[m].wait_queue = << >>
        /\ knl.obj[m].mtxtsk # NULL => alive(knl, knl.obj[m].mtxtsk)
  BY <1>1 DEF OwnerGood, OfKind
<1> QED
  BY <1>2, <1>3 DEF MutexesHeld

LEMMA KeptRings == ASSUME Kept(knl), NullIsNoWord PROVE RingsAreWhole
<1>1. \A o \in Object : RingGood(knl.obj[o])
  BY DEF Kept, Good, Core, Typed, ObjectsTyped, ObjTyped
<1> QED
  BY <1>1, WholeIsWhole DEF RingsAreWhole, OfKind, RingGood

LEMMA KeptLocks ==
  ASSUME Kept(knl)
  PROVE  LocksHeld
<1>1. LockGood(knl)
  BY DEF Kept, Good, Core
<1>2. ASSUME NEW o \in Object
      PROVE  /\ Cardinality({ t \in Task : knl.klock[t] = "klocked" /\ knl.call[t].o = o })
                  = IF o \in knl.locked THEN 1 ELSE 0
             /\ Queues(knl.wtskq[o], { t \in Task : knl.klock[t] = "klockwait" /\ knl.call[t].o = o })
             /\ o \notin knl.locked => knl.wtskq[o] = << >>
  <2> DEFINE having == { t \in Task : knl.klock[t] = "klocked" /\ knl.call[t].o = o }
  <2>1. /\ IsLine(knl.wtskq[o], { t \in Task : knl.klock[t] = "klockwait" /\ knl.call[t].o = o })
        /\ o \notin knl.locked => knl.wtskq[o] = << >>
        /\ o \in knl.locked <=> \E t \in Task : Has(knl, t, o)
        /\ \A t, u \in Task : Has(knl, t, o) /\ Has(knl, u, o) => t = u
    BY <1>1 DEF LockGood
  <2>2. Cardinality(having) = IF o \in knl.locked THEN 1 ELSE 0
    <3>1. CASE o \in knl.locked
      <4>1. PICK t \in Task : Has(knl, t, o)
        BY <2>1, <3>1
      <4>2. having = { t }
        BY <2>1, <4>1 DEF Has
      <4> QED
        BY <3>1, <4>2, FS_Singleton
    <3>2. CASE o \notin knl.locked
      <4>1. having = {}
        BY <2>1, <3>2 DEF Has
      <4> QED
        BY <3>2, <4>1, FS_EmptySet
    <3> QED
      BY <3>1, <3>2
  <2> QED
    BY <2>1, <2>2, LineQueues
<1> QED
  BY <1>2 DEF LocksHeld

LEMMA CountedBlocks ==
  ASSUME NEW n \in Nat, NEW u \in 1 .. n + 1, NEW q \in Seq(1 .. u - 1), Once(q)
  PROVE  /\ ((1 .. u - 1) \ Range(q)) \cup Range(q) \cup (u .. n) = 1 .. n
         /\ Cardinality((1 .. u - 1) \ Range(q)) + Len(q) + Cardinality(u .. n) = n
         /\ Len(q) + n + 1 - u = Len(q) + Cardinality(u .. n)
<1> DEFINE used == 1 .. u - 1
           rest == u .. n
           lent == used \ Range(q)
<1>1. n \in Int /\ u \in Int /\ 1 <= u /\ u <= n + 1 /\ Len(q) \in Nat
  OBVIOUS
<1>2. Range(q) \subseteq used
  BY DEF Range
<1>3. Len(q) = Cardinality(Range(q))
  BY OwnLine, LineQueues DEF Queues
<1>4. IsFiniteSet(used) /\ Cardinality(used) = u - 1
  <2>1. 1 \in Int /\ u - 1 \in Int /\ (1 > u - 1 => u - 1 = 0) /\ (u - 1) - 1 + 1 = u - 1
    BY <1>1
  <2> QED
    BY <2>1, FS_Interval
<1>5. Cardinality(rest) = n + 1 - u
  <2>1. (u > n => n + 1 - u = 0) /\ n - u + 1 = n + 1 - u
    BY <1>1
  <2> QED
    BY <1>1, <2>1, FS_Interval
<1>6. lent \cup Range(q) \cup rest = 1 .. n
  <2>1. used \cup rest = 1 .. n
    BY <1>1
  <2> HIDE DEF used, rest
  <2> QED
    BY <1>2, <2>1
<1> HIDE DEF used, rest
<1>7. Cardinality(lent) = u - 1 - Len(q)
  <2>1. used \cap Range(q) = Range(q)
    BY <1>2
  <2>2. Cardinality(lent) = Cardinality(used) - Cardinality(used \cap Range(q))
    BY <1>4, FS_Difference
  <2> QED
    BY <1>3, <1>4, <2>1, <2>2
<1> HIDE DEF lent
<1>8. Cardinality(lent) + Len(q) + Cardinality(rest) = n
  BY <1>1, <1>5, <1>7
<1>9. Len(q) + n + 1 - u = Len(q) + Cardinality(rest)
  BY <1>1, <1>5
<1> QED
  BY <1>6, <1>8, <1>9 DEF lent, used, rest

LEMMA KeptBlocks ==
  ASSUME Kept(knl)
  PROVE  BlocksAccounted
<1>1. SUFFICES ASSUME NEW o \in OfKind("mpf")
               PROVE  LET mpf  == knl.obj[o]
                          rest == mpf.unused .. mpf.mpfcnt
                      IN  /\ mpf.lent \cup Range(mpf.freelist) \cup rest = 1 .. mpf.mpfcnt
                          /\ Cardinality(mpf.lent) + Len(mpf.freelist) + Cardinality(rest) = mpf.mpfcnt
                          /\ mpf.frbcnt = Len(mpf.freelist) + Cardinality(rest)
  BY DEF BlocksAccounted
<1> DEFINE mpf == knl.obj[o]
<1>2. BlocksGood(mpf) /\ mpf.kind = "mpf"
  BY DEF Kept, Good, Core, Typed, ObjectsTyped, ObjTyped, OfKind
<1> HIDE DEF mpf
<1>3. /\ mpf.mpfcnt \in Nat /\ mpf.unused \in 1 .. mpf.mpfcnt + 1
      /\ mpf.freelist \in Seq(1 .. mpf.unused - 1) /\ Once(mpf.freelist)
      /\ mpf.lent = (1 .. mpf.unused - 1) \ Range(mpf.freelist)
      /\ mpf.frbcnt = Len(mpf.freelist) + mpf.mpfcnt + 1 - mpf.unused
  BY <1>2 DEF BlocksGood
<1> DEFINE lent == (1 .. mpf.unused - 1) \ Range(mpf.freelist)
           rest == mpf.unused .. mpf.mpfcnt
<1>4. /\ lent \cup Range(mpf.freelist) \cup rest = 1 .. mpf.mpfcnt
      /\ Cardinality(lent) + Len(mpf.freelist) + Cardinality(rest) = mpf.mpfcnt
      /\ Len(mpf.freelist) + mpf.mpfcnt + 1 - mpf.unused = Len(mpf.freelist) + Cardinality(rest)
  BY <1>3, CountedBlocks
<1>5. mpf.lent = lent
  BY <1>3
<1>6. /\ mpf.lent \cup Range(mpf.freelist) \cup rest = 1 .. mpf.mpfcnt
      /\ Cardinality(mpf.lent) + Len(mpf.freelist) + Cardinality(rest) = mpf.mpfcnt
      /\ mpf.frbcnt = Len(mpf.freelist) + Cardinality(rest)
  <2> HIDE DEF lent, rest
  <2> QED
    BY <1>3, <1>4, <1>5
<1> QED
  BY <1>6 DEF mpf

-----------------------------------------------------------------------------
(***************************************************************************)
(* The theorems.                                                           *)
(***************************************************************************)
LEMMA InvInit == Init => IInv
<1>1. Init => Kept(knl)
  BY InitKept
<1> QED
  BY <1>1 DEF IInv

LEMMA InvNext == ASSUME InOneOrder, NullIsNoCall PROVE IInv /\ [Next]_knl => IInv'
<1>1. SUFFICES ASSUME IInv, [Next]_knl PROVE IInv'
  OBVIOUS
<1>2. Kept(knl)
  BY <1>1 DEF IInv
<1>3. Kept(knl')
  BY <1>1, <1>2, TaskStep, ObjectStep, PoolStep DEF Next
<1> QED
  BY <1>3 DEF IInv

LEMMA Invariance == ASSUME InOneOrder, NullIsNoCall PROVE Spec => []IInv
  BY InvInit, InvNext, PTL DEF Spec

(* The ready queue and those of the objects hold who should be in them, each
   once and by priority, and nobody is timed who does not wait (wait.c, wait.h,
   ready_queue.h, and all that call them). *)
THEOREM QueuesHoldWhoWaits == ASSUME InOneOrder, NullIsNoCall PROVE Spec => []QueuesAgree
<1>1. IInv => QueuesAgree
  BY KeptQueues DEF IInv
<1> QED
  BY Invariance, <1>1, PTL

(* Who should run is the first of those that are ready, or has an object lock;
   who runs is ready (knl_reschedule, cpuctl.c, klock.c). *)
THEOREM FirstRuns == ASSUME InOneOrder, NullIsNoCall PROVE Spec => []RunsReady
<1>1. IInv => RunsReady
  BY KeptRuns DEF IInv
<1> QED
  BY Invariance, <1>1, PTL

(* A mutex is in the list of its owner once and in no other, the owner is alive,
   and nobody waits for a free one (mutex.c, task_manage.c). *)
THEOREM OwnersHoldMutexes == ASSUME InOneOrder, NullIsNoCall PROVE Spec => []MutexesHeld
<1>1. IInv => MutexesHeld
  BY KeptMutexes DEF IInv
<1> QED
  BY Invariance, <1>1, PTL

(* From head to tail the ring of a message buffer holds whole messages, and no
   word else, wherever messages go past its end (messagebuf.c). *)
THEOREM RingsStayWhole == ASSUME InOneOrder, NullIsNoCall, NullIsNoWord PROVE Spec => []RingsAreWhole
<1>1. IInv => RingsAreWhole
  BY KeptRings DEF IInv
<1> QED
  BY Invariance, <1>1, PTL

(* A pool's lock is held by one task, in a call on that pool, or is free with
   nobody waiting for it (klock.c, mempfix.c, task_manage.c). *)
THEOREM OneHoldsTheLock == ASSUME InOneOrder, NullIsNoCall PROVE Spec => []LocksHeld
<1>1. IInv => LocksHeld
  BY KeptLocks DEF IInv
<1> QED
  BY Invariance, <1>1, PTL

(* Every block of a fixed-size pool is lent, in the free list or not used yet,
   and only one of these, and frbcnt counts those that are free, wherever the
   calls that move blocks are held up (mempfix.c). *)
THEOREM BlocksStayAccounted == ASSUME InOneOrder, NullIsNoCall PROVE Spec => []BlocksAccounted
<1>1. IInv => BlocksAccounted
  BY KeptBlocks DEF IInv
<1> QED
  BY Invariance, <1>1, PTL
=============================================================================
