-------------------------- MODULE KernelInvariant ---------------------------
(***************************************************************************)
(* The invariant of the kernel that the proofs are about, and what they    *)
(* assume of its constants.                                                *)
(***************************************************************************)
EXTENDS Kernel

-----------------------------------------------------------------------------
(* Sequences in which each element of a set is once, and by a priority. *)
Once(q) == \A i, j \in DOMAIN q : q[i] = q[j] => i = j
IsLine(q, S) == q \in Seq(S) /\ Once(q) /\ \A t \in S : \E i \in DOMAIN q : q[i] = t

Ordered(pri, q) == \A i, j \in DOMAIN q : i < j => pri[q[i]] <= pri[q[j]]

-----------------------------------------------------------------------------
(***************************************************************************)
(* The invariant, as a predicate of the record k, for it has to hold in    *)
(* the middle of a call too, but for a few things that are on their way:   *)
(*   X: tasks that have left the queue they were in;                       *)
(*   Z: those of them whose mutexes go to others;                          *)
(*   Y: mutexes that have left the list of their owner.                    *)
(***************************************************************************)
States == { "nonexist", "dormant", "ready", "wait", "suspend", "waitsus" }
Kinds == { "free", "taken", "mtx", "sem", "flg", "mbx", "mbf", "mpl", "mpf" }
InQueue == { "mtx", "sem", "flg", "mbx", "smbf", "mpl", "mpf" }
Used(kind) == kind \notin { "free", "taken" }

IsRec(r) == r = [f \in DOMAIN r |-> r[f]]
IsFun(f, S) == IsRec(f) /\ DOMAIN f = S

Fields == { "state", "priority", "bpriority", "ipriority", "suscnt", "wupcnt", "timed", "wspec",
            "wid", "winfo", "mtxlist", "klock", "call", "klocktsk", "locked", "wtskq", "imacb",
            "ready", "schedtsk", "ctxtsk", "dispatch_disabled", "obj" }

(* The words of a ring, counted from head on: from head to tail each is the header of
   a message that is there to its end, or follows the word before it in its message. *)
InRing(bufsz, head, i) == IF head + i < bufsz THEN head + i ELSE head + i - bufsz
WordOf(msg, n) == IF n = 0 THEN Packet_Header(msg) ELSE Packet_Word(msg, n)
WholeRing(bufsz, frbufsz, head, tail, buffer) ==
  LET used == bufsz - frbufsz
      word(i) == buffer[InRing(bufsz, head, i)]
  IN  /\ bufsz \in Nat \ {0} /\ frbufsz \in 0 .. bufsz /\ head \in 0 .. bufsz - 1
      /\ tail = (IF used = bufsz THEN head ELSE InRing(bufsz, head, used))
      /\ IsFun(buffer, 0 .. bufsz - 1)
      /\ \A i \in used .. bufsz - 1 : word(i) = NULL
      /\ \A i \in 0 .. used - 1 : \E msg \in Packet :
           \/ i + msg.size < used /\ \A n \in 0 .. msg.size : word(i + n) = WordOf(msg, n)
           \/ \E n \in 1 .. msg.size : i > 0 /\ word(i) = WordOf(msg, n) /\ word(i - 1) = WordOf(msg, n - 1)

RingGood(b) ==
  b.kind = "mbf" =>
    /\ { "bufsz", "frbufsz", "head", "tail", "buffer" } \subseteq DOMAIN b
    /\ WholeRing(b.bufsz, b.frbufsz, b.head, b.tail, b.buffer)

(* The blocks of a fixed-size pool: below unused each is lent or in the free list,
   once. *)
Blocks == { "mpfcnt", "frbcnt", "unused", "freelist", "lent" }
BlocksGood(b) ==
  b.kind = "mpf" =>
    /\ Blocks \subseteq DOMAIN b
    /\ b.mpfcnt \in Nat /\ b.unused \in 1 .. b.mpfcnt + 1
    /\ b.freelist \in Seq(1 .. b.unused - 1) /\ Once(b.freelist)
    /\ b.lent = (1 .. b.unused - 1) \ Range(b.freelist)
    /\ b.frbcnt = Len(b.freelist) + b.mpfcnt + 1 - b.unused
NextBlock(b) == IF b.freelist # << >> THEN Head(b.freelist) ELSE b.unused

ObjTyped(b) ==
  /\ IsRec(b) /\ { "kind", "wait_queue" } \subseteq DOMAIN b
  /\ b.kind \in Kinds /\ b.wait_queue \in Seq(Task)
  /\ Used(b.kind) => "atr" \in DOMAIN b
  /\ b.kind = "mtx" =>
       "mtxtsk" \in DOMAIN b /\ b.mtxtsk \in Task \cup {NULL} /\ "ceilpri" \in DOMAIN b /\ b.ceilpri \in Pri
  /\ b.kind = "mbf" => "recv_queue" \in DOMAIN b /\ b.recv_queue \in Seq(Task)
  /\ RingGood(b) /\ BlocksGood(b)

TasksTyped(k) ==
  /\ k.state \in [Task -> States]
  /\ k.priority \in [Task -> Pri] /\ k.bpriority \in [Task -> Pri] /\ k.ipriority \in [Task -> Pri]
  /\ IsFun(k.suscnt, Task) /\ IsFun(k.wupcnt, Task) /\ k.mtxlist \in [Task -> Seq(Object)]
WaitsTyped(k) ==
  k.timed \in [Task -> BOOLEAN] /\ IsFun(k.wspec, Task) /\ IsFun(k.wid, Task) /\ IsFun(k.winfo, Task)
LocksTyped(k) ==
  /\ k.klock \in [Task -> { "none", "klocked", "klockwait" }] /\ IsFun(k.call, Task)
  /\ k.locked \in SUBSET Object /\ k.wtskq \in [Object -> Seq(Task)]
RunTyped(k) ==
  /\ k.ready \in Seq(Task) /\ k.klocktsk \in Task \cup {NULL}
  /\ k.schedtsk \in Task \cup {NULL} /\ k.ctxtsk \in Task \cup {NULL} /\ k.dispatch_disabled \in BOOLEAN
ObjectsTyped(k) == IsFun(k.obj, Object) /\ \A o \in Object : ObjTyped(k.obj[o])
Typed(k) ==
  IsFun(k, Fields) /\ TasksTyped(k) /\ WaitsTyped(k) /\ LocksTyped(k) /\ RunTyped(k) /\ ObjectsTyped(k)

(* The ready queue, and who should run. *)
ReadySet(k, X) == { t \in Task \ X : k.state[t] = "ready" /\ k.klock[t] # "klockwait" }
ReadyGood(k, X) == IsLine(k.ready, ReadySet(k, X)) /\ Ordered(k.priority, k.ready)

Locker(k, t) == t \in Range(k.ready) /\ k.klock[t] = "klocked"
LockerGood(k) == k.klocktsk = NULL \/ Locker(k, k.klocktsk)
TopGood(k) == k.schedtsk = Top(k.ready) \/ Locker(k, k.schedtsk)

(* The queues of the objects; what a task waits for is of the kind it waits for. *)
Suits(kind, wspec) == \/ wspec = kind /\ wspec \in InQueue
                      \/ kind = "mbf" /\ wspec \in { "smbf", "rmbf" }
Waiters(k, X, o) == { t \in Task \ X : waiting(k, t) /\ k.wspec[t] \in InQueue /\ k.wid[t] = o }
Receivers(k, X, o) == { t \in Task \ X : waiting(k, t) /\ k.wspec[t] = "rmbf" /\ k.wid[t] = o }

LinesGood(k, X) ==
  \A o \in Object :
    /\ IsLine(k.obj[o].wait_queue, Waiters(k, X, o))
    /\ k.obj[o].kind = "mbf" => IsLine(k.obj[o].recv_queue, Receivers(k, X, o))
    /\ Used(k.obj[o].kind) /\ "TPRI" \in k.obj[o].atr => Ordered(k.priority, k.obj[o].wait_queue)
Wanted(wspec, winfo) == wspec = "smbf" => winfo \in Packet
WaitsFor(k, t) ==
  \/ k.wspec[t] \in { "slp", "dly" } /\ k.wid[t] = NULL
  \/ /\ k.wid[t] \in Object /\ Suits(k.obj[k.wid[t]].kind, k.wspec[t])
     /\ Wanted(k.wspec[t], k.winfo[t])
TimedGood(k, X) == \A t \in Task : k.timed[t] => waiting(k, t) /\ t \notin X
WaitGood(k, X) ==
  LinesGood(k, X) /\ TimedGood(k, X) /\ \A t \in Task \ X : waiting(k, t) => WaitsFor(k, t)

(* Mutexes: of a task that waits for one, they all come before it. *)
OwnerGood(k, Y) ==
  \A m \in Object : k.obj[m].kind = "mtx" =>
    /\ k.obj[m].mtxtsk = NULL => k.obj[m].wait_queue = << >>
    /\ k.obj[m].mtxtsk # NULL =>
         /\ alive(k, k.obj[m].mtxtsk)
         /\ m \notin Y => m \in Range(k.mtxlist[k.obj[m].mtxtsk])
Holds(k, t, m) == k.obj[m].kind = "mtx" /\ k.obj[m].mtxtsk = t
ListGood(k, Z, Y) ==
  /\ \A t \in Task : Once(k.mtxlist[t])
  /\ \A t \in Task \ Z : \A m \in Range(k.mtxlist[t]) : Holds(k, t, m) /\ m \notin Y
RankGood(k, X) ==
  \A t \in Task \ X : waiting(k, t) /\ k.wspec[t] = "mtx" =>
    \A m \in Range(k.mtxlist[t]) : Rank[m] < Rank[k.wid[t]]
MutexGood(k, X, Z, Y) == OwnerGood(k, Y) /\ ListGood(k, Z, Y) /\ RankGood(k, X)

(* Calls on pools, the locks they have, and what they know of the blocks. *)
Inside == { "locked", "get", "wait", "put", "unlock" }
CallGood(k, t) ==
  LET c == k.call[t]
  IN  /\ IsFun(c, { "does", "at", "o", "x", "mempool" })
      /\ k.state[t] \in { "ready", "suspend" } \/ (c.at = "wait" /\ alive(k, t))
      /\ c.at \in { "take", "lock", "free" } \cup Inside
      /\ c.at # "take" => c.o \in Object
      /\ c.at = "take" => c.does \in { "cre_mpl", "cre_mpf" }
      /\ c.at \in Inside => k.klock[t] = "klocked"
      /\ c.at \in { "take", "free" } => k.klock[t] = "none"
      /\ c.at \in { "get", "wait", "put" } => k.obj[c.o].kind = "mpf"
      /\ c.at \in { "get", "wait" } => c.does = "get_mpf"
      /\ c.at = "put" => c.does = "rel_mpf"
      /\ c.at \in { "lock", "locked" } => c.does \in { "cre_mpf", "del_mpf", "get_mpf", "rel_mpf" }
      /\ c.does = "cre_mpf" => c.at \in { "take", "lock", "locked" } /\ c.x.size \in Nat
      /\ c.does = "get_mpf" => IsFun(c.x, { "tmout", "blf" })
      /\ c.at = "get" => k.obj[c.o].frbcnt > 0 /\ c.x.blf = NextBlock(k.obj[c.o])
Makes(k, t, o) ==
  k.call[t] # NULL /\ k.call[t].does = "cre_mpf" /\ k.call[t].at # "take" /\ k.call[t].o = o
Gives(k, t, o) ==
  k.call[t] # NULL /\ k.call[t].does = "rel_mpf" /\ k.call[t].at # "unlock" /\ k.call[t].o = o
Deletes(k, t, o) == k.call[t] # NULL /\ k.call[t].does = "del_mpf" /\ k.call[t].o = o
GivesGood(k) ==
  /\ \A t \in Task, o \in Object : Gives(k, t, o) =>
       k.obj[o].kind = "mpf" /\ k.call[t].x.blf \in k.obj[o].lent
  /\ \A t, u \in Task, o \in Object :
       Gives(k, t, o) /\ Gives(k, u, o) /\ k.call[t].x.blf = k.call[u].x.blf => t = u
  /\ \A t, u \in Task, o \in Object : ~ (Gives(k, t, o) /\ Deletes(k, u, o))
CallsGood(k) ==
  /\ GivesGood(k)
  /\ \A t \in Task : k.call[t] # NULL => CallGood(k, t)
  /\ \A t \in Task, o \in Object : Makes(k, t, o) => k.obj[o].kind = "taken"
  /\ \A t, u \in Task, o \in Object : Makes(k, t, o) /\ Makes(k, u, o) => t = u

Has(k, t, o) == k.klock[t] = "klocked" /\ k.call[t].o = o
LockGood(k) ==
  /\ \A t \in Task : k.klock[t] # "none" => k.call[t] # NULL /\ k.call[t].o \in Object
  /\ \A t \in Task : k.klock[t] = "klockwait" => k.state[t] = "ready" /\ k.call[t].at = "lock"
  /\ \A o \in Object :
       /\ IsLine(k.wtskq[o], { t \in Task : k.klock[t] = "klockwait" /\ k.call[t].o = o })
       /\ o \notin k.locked => k.wtskq[o] = << >>
       /\ o \in k.locked <=> \E t \in Task : Has(k, t, o)
       /\ \A t, u \in Task : Has(k, t, o) /\ Has(k, u, o) => t = u

Core(k, X, Z, Y) ==
  /\ X \in SUBSET Task /\ Z \in SUBSET X
  /\ Typed(k) /\ ReadyGood(k, X) /\ LockerGood(k) /\ WaitGood(k, X)
  /\ MutexGood(k, X, Z, Y) /\ CallsGood(k) /\ LockGood(k)
Good(k, X, Z, Y) == Core(k, X, Z, Y) /\ TopGood(k)

(* At the end of a call the running task is ready, and not in a call on a pool
   if it has disabled dispatching. *)
RestGood(k) ==
  /\ k.ctxtsk = NULL \/ k.ctxtsk \in Range(k.ready)
  /\ k.dispatch_disabled => k.ctxtsk # NULL /\ k.call[k.ctxtsk] = NULL

(* What holds between the steps. *)
Kept(k) == Good(k, {}, {}, {}) /\ RestGood(k)

(* The inductive invariant. *)
IInv == Kept(knl)

-----------------------------------------------------------------------------
(* Tasks lock mutexes in one order. *)
InOneOrder == \A m, n \in Object : Rank[m] = Rank[n] => m = n

(* NULL is none of the values that stand for a call, or for a word of a message. *)
NullIsNoWord == \A msg \in Packet : \A n \in 0 .. msg.size : WordOf(msg, n) # NULL
NullIsNoCall == \A c : IsFun(c, { "does", "at", "o", "x", "mempool" }) => c # NULL
=============================================================================
