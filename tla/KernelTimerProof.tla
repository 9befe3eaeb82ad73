-------------------------- MODULE KernelTimerProof --------------------------
(***************************************************************************)
(* The timer queue (kernel/tkernel/timer.c) is a list through the event    *)
(* blocks themselves: an event put in twice, or taken out when it is not   *)
(* in, breaks it.  The first theorem of this module says that neither      *)
(* happens, the others that the times are kept: for any number of cyclic   *)
(* handlers, alarms and waits, any width of the clock and any period of    *)
(* the interrupt, although handlers set and stop one another while the     *)
(* interrupt works on the queue.                                           *)
(***************************************************************************)
EXTENDS KernelTimer, TLAPS, WellFoundedInduction

In(e, queue) == \E i \in DOMAIN queue : queue[i] = e

Once(queue) == \A i, j \in DOMAIN queue : queue[i] = queue[j] => i = j

Queues == { queue \in Seq(Event) : Once(queue) }

Stats == [Event -> {"none", "STP", "STA", "FEVR"}]

IInv ==
  /\ timer_queue \in Queues
  /\ stat \in Stats
  /\ \A e \in Event : stat[e] = "STA" <=> In(e, timer_queue)

(* The smallest of some numbers is one of them. *)
LEMMA MinIn ==
  ASSUME NEW S \in SUBSET Nat, S # {}
  PROVE  Min(S) \in S /\ \A y \in S : Min(S) <= y
  <1> DEFINE R == { ss \in Nat \X Nat : ss[1] < ss[2] }
  <1>1. IsWellFoundedOn(R, Nat)
    BY NatLessThanWellFounded DEF OpToRel
  <1>2. \A x, y \in Nat : y < x => << y, x >> \in R
    OBVIOUS
  <1> HIDE DEF R
  <1>3. PICK x \in S : \A y \in S : ~ (<< y, x >> \in R)
    BY <1>1, WFMin
  <1>4. \A y \in S : x <= y
    <2> SUFFICES ASSUME NEW y \in S PROVE x <= y
      OBVIOUS
    <2>1. x \in Nat /\ y \in Nat /\ ~ (y < x)
      BY <1>2, <1>3
    <2> QED
      BY <2>1
  <1> QED
    BY <1>4 DEF Min

(* q is queue with e put in at k. *)
Inserted(q, queue, k, e) ==
  /\ q \in Seq(Event) /\ Len(q) = Len(queue) + 1 /\ DOMAIN q = 1 .. Len(queue) + 1
  /\ \A i \in 1 .. Len(queue) + 1 :
       q[i] = IF i < k THEN queue[i] ELSE IF i = k THEN e ELSE queue[i - 1]

(* Where the elements are after one is put in at k. *)
LEMMA InsertIs ==
  ASSUME NEW queue \in Seq(Event), NEW k \in DOMAIN queue, NEW e \in Event
  PROVE  Inserted(InsertAt(queue, k, e), queue, k, e)
  <1> DEFINE n == Len(queue)
             q == InsertAt(queue, k, e)
  <1>1. n \in Nat /\ DOMAIN queue = 1 .. n /\ k \in 1 .. n
    OBVIOUS
  <1>2. /\ q \in Seq(Event) /\ Len(q) = n + 1 /\ DOMAIN q = 1 .. n + 1
        /\ \A i \in 1 .. n + 1 : q[i] = IF i < k THEN queue[i] ELSE IF i = k THEN e ELSE queue[i - 1]
    <2> DEFINE a == SubSeq(queue, 1, k - 1)
               b == SubSeq(queue, k, n)
    <2>1. a \in Seq(Event) /\ Len(a) = k - 1 /\ \A i \in 1 .. k - 1 : a[i] = queue[i]
      BY <1>1
    <2>2. b \in Seq(Event) /\ Len(b) = n - k + 1 /\ \A i \in 1 .. n - k + 1 : b[i] = queue[k + i - 1]
      BY <1>1
    <2>3. q = a \o << e >> \o b
      BY DEF InsertAt
    <2> HIDE DEF n, q, a, b
    <2> DEFINE c == a \o << e >>
    <2>4. c \in Seq(Event) /\ Len(c) = k /\ \A i \in 1 .. k : c[i] = IF i < k THEN queue[i] ELSE e
      BY <1>1, <2>1
    <2> HIDE DEF c
    <2>5. q = c \o b
      BY <2>3 DEF c
    <2>6. q \in Seq(Event) /\ Len(q) = n + 1
      BY <1>1, <2>2, <2>4, <2>5
    <2>7. \A i \in 1 .. k : q[i] = c[i]
      BY <1>1, <2>2, <2>4, <2>5
    <2>8. \A i \in k + 1 .. n + 1 : q[i] = b[i - k]
      BY <1>1, <2>2, <2>4, <2>5
    <2>9. \A i \in k + 1 .. n + 1 : q[i] = queue[i - 1]
      <3> SUFFICES ASSUME NEW i \in k + 1 .. n + 1 PROVE q[i] = queue[i - 1]
        OBVIOUS
      <3>1. i - k \in 1 .. n - k + 1 /\ k + (i - k) - 1 = i - 1
        BY <1>1
      <3> QED
        BY <2>2, <2>8, <3>1
    <2>10. ASSUME NEW i \in 1 .. n + 1
           PROVE  q[i] = IF i < k THEN queue[i] ELSE IF i = k THEN e ELSE queue[i - 1]
      <3>1. CASE i <= k
        <4>1. i \in 1 .. k /\ ~ (k < i) /\ (i < k \/ i = k)
          BY <1>1, <3>1
        <4>2. q[i] = c[i]
          BY <2>7, <4>1
        <4>3. c[i] = IF i < k THEN queue[i] ELSE e
          BY <2>4, <4>1
        <4> QED
          BY <4>1, <4>2, <4>3
      <3>2. CASE k < i
        <4>1. i \in k + 1 .. n + 1 /\ ~ (i < k) /\ i # k
          BY <1>1, <3>2
        <4> QED
          BY <2>9, <4>1
      <3> QED
        BY <1>1, <3>1, <3>2
    <2>11. DOMAIN q = 1 .. n + 1
      BY <2>6
    <2> QED
      BY <2>6, <2>10, <2>11
  <1> HIDE DEF q
  <1>3. Inserted(q, queue, k, e)
    BY <1>2 DEF Inserted
  <1> QED
    BY <1>3 DEF q

(* An event that is not in a queue is put in somewhere. *)
LEMMA InsertHolds ==
  ASSUME NEW queue \in Queues, NEW e \in Event, ~ In(e, queue), NEW k \in DOMAIN queue
  PROVE  /\ InsertAt(queue, k, e) \in Queues
         /\ \A x \in Event : In(x, InsertAt(queue, k, e)) <=> In(x, queue) \/ x = e
  <1> DEFINE n == Len(queue)
             q == InsertAt(queue, k, e)
  <1>1. queue \in Seq(Event) /\ n \in Nat /\ DOMAIN queue = 1 .. n /\ k \in 1 .. n
    BY DEF Queues
  <1>2. /\ q \in Seq(Event) /\ Len(q) = n + 1 /\ DOMAIN q = 1 .. n + 1
        /\ \A i \in 1 .. n + 1 : q[i] = IF i < k THEN queue[i] ELSE IF i = k THEN e ELSE queue[i - 1]
    <2>1. Inserted(q, queue, k, e)
      BY <1>1, InsertIs
    <2> HIDE DEF q
    <2> QED
      BY <2>1 DEF Inserted
  <1> HIDE DEF n, q
  <1>3. \A i \in 1 .. n : queue[i] # e
    BY <1>1 DEF In
  <1>4. Once(q)
    <2>1. \A i, j \in 1 .. n : queue[i] = queue[j] => i = j
      BY <1>1 DEF Queues, Once
    <2> SUFFICES ASSUME NEW i \in 1 .. n + 1, NEW j \in 1 .. n + 1, q[i] = q[j] PROVE i = j
      BY <1>2 DEF Once
    <2> DEFINE from(m) == IF m < k THEN m ELSE m - 1
    <2>2. \A m \in 1 .. n + 1 : m # k => from(m) \in 1 .. n /\ q[m] = queue[from(m)]
      BY <1>1, <1>2
    <2>3. CASE i = k \/ j = k
      BY <1>1, <1>2, <1>3, <2>2, <2>3
    <2>4. CASE i # k /\ j # k
      <3>1. from(i) = from(j)
        BY <2>1, <2>2, <2>4
      <3> QED
        BY <1>1, <2>4, <3>1
    <2> QED
      BY <2>3, <2>4
  <1>5. \A x \in Event : In(x, q) <=> In(x, queue) \/ x = e
    <2> SUFFICES ASSUME NEW x \in Event PROVE In(x, q) <=> In(x, queue) \/ x = e
      OBVIOUS
    <2>1. ASSUME In(x, q) PROVE In(x, queue) \/ x = e
      <3>1. PICK i \in 1 .. n + 1 : q[i] = x
        BY <1>2, <2>1 DEF In
      <3>2. CASE i < k
        <4>1. i \in 1 .. n /\ queue[i] = x
          BY <1>1, <1>2, <3>1, <3>2
        <4> QED
          BY <1>1, <4>1 DEF In
      <3>3. CASE i = k
        BY <1>2, <3>1, <3>3
      <3>4. CASE i > k
        <4>1. i - 1 \in 1 .. n /\ queue[i - 1] = x
          BY <1>1, <1>2, <3>1, <3>4
        <4> QED
          BY <1>1, <4>1 DEF In
      <3> QED
        BY <1>1, <3>1, <3>2, <3>3, <3>4
    <2>2. ASSUME x = e PROVE In(x, q)
      BY <1>1, <1>2, <2>2 DEF In
    <2>3. ASSUME In(x, queue) PROVE In(x, q)
      <3>1. PICK i \in 1 .. n : queue[i] = x
        BY <1>1, <2>3 DEF In
      <3>2. CASE i < k
        <4>1. i \in 1 .. n + 1 /\ q[i] = x
          BY <1>1, <1>2, <3>1, <3>2
        <4> QED
          BY <1>2, <4>1 DEF In
      <3>3. CASE ~ (i < k)
        <4>1. i + 1 \in 1 .. n + 1 /\ q[i + 1] = x
          BY <1>1, <1>2, <3>1, <3>3
        <4> QED
          BY <1>2, <4>1 DEF In
      <3> QED
        BY <3>2, <3>3
    <2> QED
      BY <2>1, <2>2, <2>3
  <1> QED
    BY <1>2, <1>4, <1>5 DEF Queues, q

LEMMA AppendHolds ==
  ASSUME NEW queue \in Queues, NEW e \in Event, ~ In(e, queue)
  PROVE  /\ Append(queue, e) \in Queues
         /\ \A x \in Event : In(x, Append(queue, e)) <=> In(x, queue) \/ x = e
  <1> DEFINE n == Len(queue)
             q == Append(queue, e)
  <1>1. queue \in Seq(Event) /\ n \in Nat /\ DOMAIN queue = 1 .. n
    BY DEF Queues
  <1>2. /\ q \in Seq(Event) /\ DOMAIN q = 1 .. n + 1
        /\ \A i \in 1 .. n + 1 : q[i] = IF i = n + 1 THEN e ELSE queue[i]
    BY <1>1
  <1> HIDE DEF n, q
  <1>3. Once(q)
    BY <1>1, <1>2 DEF Once, Queues, In
  <1>4. \A x \in Event : In(x, q) <=> In(x, queue) \/ x = e
    <2> SUFFICES ASSUME NEW x \in Event PROVE In(x, q) <=> In(x, queue) \/ x = e
      OBVIOUS
    <2>1. ASSUME In(x, q) PROVE In(x, queue) \/ x = e
      BY <1>1, <1>2, <2>1 DEF In
    <2>2. n + 1 \in DOMAIN q /\ q[n + 1] = e /\ \A i \in DOMAIN queue : i \in DOMAIN q /\ q[i] = queue[i]
      BY <1>1, <1>2
    <2> QED
      BY <2>1, <2>2 DEF In
  <1> QED
    BY <1>2, <1>3, <1>4 DEF Queues, q

LEMMA EnqueueHolds ==
  ASSUME NEW queue \in Queues, NEW e \in Event, ~ In(e, queue), NEW times
  PROVE  /\ knl_enqueue_tmeb(queue, times, e) \in Queues
         /\ \A x \in Event : In(x, knl_enqueue_tmeb(queue, times, e)) <=> In(x, queue) \/ x = e
  <1> DEFINE ofs == Minus(current_time, ABSTIM_DIFF_MIN)
             later == { i \in DOMAIN queue : Minus(times[e], ofs) < Minus(times[queue[i]], ofs) }
  <1>1. knl_enqueue_tmeb(queue, times, e)
          = IF later = {} THEN Append(queue, e) ELSE InsertAt(queue, Min(later), e)
    BY DEF knl_enqueue_tmeb
  <1>2. later \subseteq DOMAIN queue /\ DOMAIN queue \subseteq Nat
    BY DEF Queues
  <1> HIDE DEF later
  <1>3. later # {} => Min(later) \in DOMAIN queue
    BY <1>2, MinIn
  <1> QED
    BY <1>1, <1>3, AppendHolds, InsertHolds

(* q is queue without the element at k. *)
Removed(q, queue, k) ==
  /\ q \in Seq(Event) /\ DOMAIN q = 1 .. Len(queue) - 1
  /\ \A i \in 1 .. Len(queue) - 1 : q[i] = IF i < k THEN queue[i] ELSE queue[i + 1]

(* Where the elements are after the one at k is taken out. *)
LEMMA RemoveIs ==
  ASSUME NEW queue \in Seq(Event), NEW k \in DOMAIN queue
  PROVE  Removed(RemoveAt(queue, k), queue, k)
  <1> DEFINE n == Len(queue)
             q == RemoveAt(queue, k)
  <1>1. n \in Nat /\ DOMAIN queue = 1 .. n /\ k \in 1 .. n
    OBVIOUS
  <1>2. /\ q \in Seq(Event) /\ DOMAIN q = 1 .. n - 1
        /\ \A i \in 1 .. n - 1 : q[i] = IF i < k THEN queue[i] ELSE queue[i + 1]
    <2> DEFINE a == SubSeq(queue, 1, k - 1)
               b == SubSeq(queue, k + 1, n)
    <2>1. a \in Seq(Event) /\ Len(a) = k - 1 /\ \A i \in 1 .. k - 1 : a[i] = queue[i]
      BY <1>1
    <2>2. b \in Seq(Event) /\ Len(b) = n - k /\ \A i \in 1 .. n - k : b[i] = queue[k + i]
      BY <1>1
    <2>3. q = a \o b
      BY DEF RemoveAt
    <2> HIDE DEF n, q, a, b
    <2>4. q \in Seq(Event) /\ Len(q) = n - 1
      <3>1. a \in Seq(Event) /\ b \in Seq(Event) /\ n \in Nat /\ k \in Nat
        BY <1>1, <2>1, <2>2
      <3>2. q \in Seq(Event)
        BY <2>3, <3>1
      <3>3. Len(q) = Len(a) + Len(b)
        BY <2>3, <3>1
      <3> QED
        BY <2>1, <2>2, <3>1, <3>2, <3>3
    <2>5. \A i \in 1 .. k - 1 : q[i] = a[i]
      BY <1>1, <2>1, <2>2, <2>3
    <2>6. \A i \in k .. n - 1 : q[i] = b[i - (k - 1)]
      BY <1>1, <2>1, <2>2, <2>3
    <2>7. \A i \in k .. n - 1 : q[i] = queue[i + 1]
      <3> SUFFICES ASSUME NEW i \in k .. n - 1 PROVE q[i] = queue[i + 1]
        OBVIOUS
      <3>1. i - (k - 1) \in 1 .. n - k /\ k + (i - (k - 1)) = i + 1
        BY <1>1
      <3> QED
        BY <2>2, <2>6, <3>1
    <2> QED
      BY <1>1, <2>1, <2>4, <2>5, <2>7
  <1> HIDE DEF q
  <1>3. Removed(q, queue, k)
    BY <1>2 DEF Removed
  <1> QED
    BY <1>3 DEF q

(* An event is taken out, if it is in. *)
LEMMA RemoveHolds ==
  ASSUME NEW queue \in Queues, NEW k \in DOMAIN queue
  PROVE  /\ RemoveAt(queue, k) \in Queues
         /\ \A x \in Event : In(x, RemoveAt(queue, k)) <=> In(x, queue) /\ x # queue[k]
  <1> DEFINE n == Len(queue)
             q == RemoveAt(queue, k)
  <1>1. queue \in Seq(Event) /\ n \in Nat /\ DOMAIN queue = 1 .. n /\ k \in 1 .. n
    BY DEF Queues
  <1>2. /\ q \in Seq(Event) /\ DOMAIN q = 1 .. n - 1
        /\ \A i \in 1 .. n - 1 : q[i] = IF i < k THEN queue[i] ELSE queue[i + 1]
    <2>1. Removed(q, queue, k)
      BY <1>1, RemoveIs
    <2> HIDE DEF q
    <2> QED
      BY <2>1 DEF Removed
  <1> HIDE DEF n, q
  <1>3. \A i, j \in 1 .. n : queue[i] = queue[j] => i = j
    BY <1>1 DEF Queues, Once
  <1>4. Once(q)
    BY <1>1, <1>2, <1>3 DEF Once
  <1>5. \A x \in Event : In(x, q) <=> In(x, queue) /\ x # queue[k]
    <2> SUFFICES ASSUME NEW x \in Event PROVE In(x, q) <=> In(x, queue) /\ x # queue[k]
      OBVIOUS
    <2>1. ASSUME In(x, q) PROVE In(x, queue) /\ x # queue[k]
      <3>1. PICK i \in 1 .. n - 1 : q[i] = x
        BY <1>2, <2>1 DEF In
      <3>2. PICK j \in 1 .. n : queue[j] = x /\ j # k
        BY <1>1, <1>2, <3>1
      <3> QED
        BY <1>1, <1>3, <3>2 DEF In
    <2>2. ASSUME In(x, queue), x # queue[k] PROVE In(x, q)
      <3>1. PICK i \in 1 .. n : queue[i] = x
        BY <1>1, <2>2 DEF In
      <3>2. CASE i < k
        <4>1. i \in 1 .. n - 1 /\ q[i] = x
          BY <1>1, <1>2, <3>1, <3>2
        <4> QED
          BY <1>2, <4>1 DEF In
      <3>3. CASE i > k
        <4>1. i - 1 \in 1 .. n - 1 /\ q[i - 1] = x
          BY <1>1, <1>2, <3>1, <3>3
        <4> QED
          BY <1>2, <4>1 DEF In
      <3> QED
        BY <1>1, <2>2, <3>1, <3>2, <3>3
    <2> QED
      BY <2>1, <2>2
  <1> QED
    BY <1>2, <1>4, <1>5 DEF Queues, q

LEMMA DeleteHolds ==
  ASSUME NEW queue \in Queues, NEW e \in Event
  PROVE  /\ knl_timer_delete(queue, e) \in Queues
         /\ \A x \in Event : In(x, knl_timer_delete(queue, e)) <=> In(x, queue) /\ x # e
  <1> DEFINE at == { i \in DOMAIN queue : queue[i] = e }
  <1>1. CASE at = {}
    BY <1>1 DEF knl_timer_delete, In
  <1>2. CASE at # {}
    <2>1. (CHOOSE i \in at : TRUE) \in at
      BY <1>2
    <2>2. PICK k \in DOMAIN queue : queue[k] = e /\ knl_timer_delete(queue, e) = RemoveAt(queue, k)
      BY <1>2, <2>1 DEF knl_timer_delete
    <2> QED
      BY <2>2, RemoveHolds
  <1> QED
    BY <1>1, <1>2

LEMMA TailHolds ==
  ASSUME NEW queue \in Queues, queue # << >>
  PROVE  /\ Head(queue) \in Event /\ Tail(queue) \in Queues
         /\ \A x \in Event : In(x, Tail(queue)) <=> In(x, queue) /\ x # Head(queue)
  <1>1. queue \in Seq(Event) /\ 1 \in DOMAIN queue /\ Head(queue) = queue[1]
    BY DEF Queues
  <1>2. RemoveAt(queue, 1) = Tail(queue)
    BY <1>1 DEF RemoveAt
  <1>3. Head(queue) \in Event
    BY <1>1
  <1>4. /\ RemoveAt(queue, 1) \in Queues
        /\ \A x \in Event : In(x, RemoveAt(queue, 1)) <=> In(x, queue) /\ x # queue[1]
    BY <1>1, RemoveHolds
  <1> QED
    BY <1>1, <1>2, <1>3, <1>4

(* An event is set, or is not set any more: the rest stays as it is. *)
LEMMA StatHolds ==
  ASSUME IInv, NEW e \in Event, NEW s \in {"none", "STP", "STA", "FEVR"},
         stat' = [stat EXCEPT ![e] = s],
         timer_queue' \in Queues,
         \A x \in Event \ {e} : In(x, timer_queue') <=> In(x, timer_queue),
         In(e, timer_queue') <=> s = "STA"
  PROVE  IInv'
  <1>1. stat' \in Stats /\ stat'[e] = s /\ \A x \in Event \ {e} : stat'[x] = stat[x]
    BY DEF IInv, Stats
  <1>2. ASSUME NEW x \in Event PROVE stat'[x] = "STA" <=> In(x, timer_queue')
    BY <1>1 DEF IInv
  <1>3. \A x \in Event : In(x, timer_queue)' <=> In(x, timer_queue')
    BY DEF In
  <1> QED
    BY <1>1, <1>2, <1>3 DEF IInv

(* It is put into a queue it is not in, and counts as set. *)
LEMMA SetHolds ==
  ASSUME IInv, NEW e \in Event, stat' = [stat EXCEPT ![e] = "STA"],
         NEW queue \in Queues, ~ In(e, queue),
         \A x \in Event \ {e} : In(x, queue) <=> In(x, timer_queue),
         NEW tm, knl_timer_insert_abs(queue, e, tm)
  PROVE  IInv'
  <1>1. timer_queue' = knl_enqueue_tmeb(queue, time', e)
    BY DEF knl_timer_insert_abs
  <1>2. /\ timer_queue' \in Queues
        /\ \A x \in Event : In(x, timer_queue') <=> In(x, queue) \/ x = e
    BY <1>1, EnqueueHolds
  <1> QED
    BY <1>2, StatHolds

(* It is taken out, and counts as not set. *)
LEMMA UnsetHolds ==
  ASSUME IInv, NEW e \in Event, NEW s \in {"none", "STP", "FEVR"}, stat' = [stat EXCEPT ![e] = s],
         \/ timer_queue' = knl_timer_delete(timer_queue, e)
         \/ timer_queue' = timer_queue /\ stat[e] # "STA"
  PROVE  IInv'
  <1>1. timer_queue \in Queues /\ (stat[e] = "STA" <=> In(e, timer_queue))
    BY DEF IInv
  <1>2. CASE timer_queue' = knl_timer_delete(timer_queue, e)
    <2>1. timer_queue' \in Queues /\ \A x \in Event : In(x, timer_queue') <=> In(x, timer_queue) /\ x # e
      BY <1>1, <1>2, DeleteHolds
    <2> QED
      BY <2>1, StatHolds
  <1>3. CASE timer_queue' = timer_queue /\ stat[e] # "STA"
    BY <1>1, <1>3, StatHolds
  <1> QED
    BY <1>2, <1>3

(* The queue that is left when e is taken out, if it is set. *)
LEMMA RestHolds ==
  ASSUME IInv, NEW e \in Event
  PROVE  LET rest == IF stat[e] = "STA" THEN knl_timer_delete(timer_queue, e) ELSE timer_queue
         IN  /\ rest \in Queues /\ ~ In(e, rest)
             /\ \A x \in Event \ {e} : In(x, rest) <=> In(x, timer_queue)
  BY DeleteHolds DEF IInv

LEMMA QuietHolds == ASSUME IInv, UNCHANGED << timer_queue, stat >> PROVE IInv'
  BY DEF IInv, In

LEMMA SetsHolds == ASSUME IInv, NEW e \in Event, Sets(e) PROVE IInv'
  <1>0. stat \in Stats /\ timer_queue \in Queues /\ (stat[e] = "STA" <=> In(e, timer_queue))
    BY DEF IInv
  <1>1. CASE Wait(e)
    <2>1. stat[e] = "STP"
      BY <1>1 DEF Wait
    <2>2. CASE stat' = [stat EXCEPT ![e] = "FEVR"] /\ timer_queue' = timer_queue
      BY <2>1, <2>2, UnsetHolds
    <2>3. CASE \E tmout \in Reltims : /\ stat' = [stat EXCEPT ![e] = "STA"]
                                     /\ knl_timer_insert_abs(timer_queue, e, After(tmout))
      BY <1>0, <2>1, <2>3, SetHolds
    <2> QED
      BY <1>1, <2>2, <2>3 DEF Wait
  <1>2. CASE tk_cre_cyc(e)
    <2>1. stat[e] = "none"
      BY <1>2 DEF tk_cre_cyc
    <2>2. \/ stat' = [stat EXCEPT ![e] = "STP"] /\ timer_queue' = timer_queue
          \/ /\ stat' = [stat EXCEPT ![e] = "STA"]
             /\ \E tm : knl_timer_insert_abs(timer_queue, e, tm)
      BY <1>2 DEF tk_cre_cyc
    <2> QED
      BY <1>0, <2>1, <2>2, SetHolds, UnsetHolds
  <1>3. CASE tk_sta_cyc(e)
    <2> DEFINE rest == IF stat[e] = "STA" THEN knl_timer_delete(timer_queue, e) ELSE timer_queue
    <2>1. stat' = [stat EXCEPT ![e] = "STA"]
      BY <1>3 DEF tk_sta_cyc
    <2>2. \/ stat[e] = "STP" /\ \E tm : knl_timer_insert_abs(timer_queue, e, tm)
          \/ stat[e] = "STA" /\ timer_queue' = timer_queue
          \/ \E tm : knl_timer_insert_abs(rest, e, tm)
      BY <1>3 DEF tk_sta_cyc
    <2>3. CASE stat[e] = "STP" /\ \E tm : knl_timer_insert_abs(timer_queue, e, tm)
      BY <1>0, <2>1, <2>3, SetHolds
    <2>4. CASE stat[e] = "STA" /\ timer_queue' = timer_queue
      <3>1. stat' = stat
        BY <1>0, <2>1, <2>4 DEF Stats
      <3> QED
        BY <2>4, <3>1, QuietHolds
    <2>5. CASE \E tm : knl_timer_insert_abs(rest, e, tm)
      <3>1. /\ rest \in Queues /\ ~ In(e, rest)
            /\ \A x \in Event \ {e} : In(x, rest) <=> In(x, timer_queue)
        BY RestHolds
      <3> HIDE DEF rest
      <3> QED
        BY <2>1, <2>5, <3>1, SetHolds
    <2> QED
      BY <2>2, <2>3, <2>4, <2>5
  <1>4. CASE tk_sta_alm(e)
    <2> DEFINE rest == IF stat[e] = "STA" THEN knl_timer_delete(timer_queue, e) ELSE timer_queue
    <2>1. \/ /\ stat' = [stat EXCEPT ![e] = "STA"]
             /\ \E tm : knl_timer_insert_abs(rest, e, tm)
          \/ stat' = [stat EXCEPT ![e] = "STP"] /\ timer_queue' = rest
      BY <1>4 DEF tk_sta_alm, Forget
    <2>2. /\ rest \in Queues /\ ~ In(e, rest)
          /\ \A x \in Event \ {e} : In(x, rest) <=> In(x, timer_queue)
      BY RestHolds
    <2> HIDE DEF rest
    <2> QED
      BY <2>1, <2>2, SetHolds, StatHolds
  <1> QED
    BY <1>1, <1>2, <1>3, <1>4 DEF Sets

LEMMA UnsetsHolds == ASSUME IInv, NEW e \in Event, Unsets(e) PROVE IInv'
  <1>1. \E s \in {"none", "STP", "FEVR"} :
          /\ stat' = [stat EXCEPT ![e] = s]
          /\ \/ timer_queue' = knl_timer_delete(timer_queue, e)
             \/ timer_queue' = timer_queue /\ stat[e] # "STA"
    BY DEF Unsets, Release, tk_del_cyc, tk_stp_cyc, tk_cre_alm, tk_del_alm, tk_stp_alm, Forget
  <1> QED
    BY <1>1, UnsetHolds

(* What the interrupt takes from the queue is its head. *)
LEMMA CalledHolds == ASSUME IInv, Called PROVE IInv'
  <1> DEFINE e == Head(timer_queue)
  <1>1. timer_queue \in Queues /\ timer_queue # << >> /\ stat \in Stats
    BY DEF Called, knl_call_cychdr, knl_call_almhdr, knl_wait_release_tmout, Reached, IInv
  <1>2. /\ e \in Event /\ Tail(timer_queue) \in Queues
        /\ \A x \in Event : In(x, Tail(timer_queue)) <=> In(x, timer_queue) /\ x # e
    BY <1>1, TailHolds
  <1>3. In(e, timer_queue)
    <2>1. 1 \in DOMAIN timer_queue /\ timer_queue[1] = e
      BY <1>1 DEF Queues
    <2> QED
      BY <2>1 DEF In
  <1>4. stat[e] = "STA"
    BY <1>2, <1>3 DEF IInv
  <1>5. CASE knl_call_cychdr
    <2>1. stat' = stat /\ \E tm : knl_timer_insert_abs(Tail(timer_queue), e, tm)
      BY <1>5 DEF knl_call_cychdr
    <2>2. stat' = [stat EXCEPT ![e] = "STA"]
      BY <1>1, <1>2, <1>4, <2>1 DEF Stats
    <2> HIDE DEF e
    <2> QED
      BY <1>2, <2>1, <2>2, SetHolds
  <1>6. CASE knl_call_almhdr \/ knl_wait_release_tmout
    <2>1. stat' = [stat EXCEPT ![e] = "STP"] /\ timer_queue' = Tail(timer_queue)
      BY <1>6 DEF knl_call_almhdr, knl_wait_release_tmout, Forget
    <2> HIDE DEF e
    <2> QED
      BY <1>2, <2>1, StatHolds
  <1> QED
    BY <1>5, <1>6 DEF Called

LEMMA StepHolds == IInv /\ [Next]_vars => IInv'
  <1> SUFFICES ASSUME IInv, [Next]_vars PROVE IInv'
    OBVIOUS
  <1>1. CASE Tick \/ HandlerReturns \/ InterruptEnds \/ UNCHANGED vars
    BY <1>1, QuietHolds DEF Tick, HandlerReturns, InterruptEnds, vars
  <1>2. CASE Called
    BY <1>2, CalledHolds
  <1>3. CASE \E e \in Event : Sets(e) \/ Unsets(e)
    BY <1>3, SetsHolds, UnsetsHolds
  <1> QED
    BY <1>1, <1>2, <1>3 DEF Next, knl_timer_handler

LEMMA InitHolds == Init => IInv
  <1> SUFFICES ASSUME Init PROVE IInv
    OBVIOUS
  <1>1. timer_queue = << >> /\ stat = [e \in Event |-> IF e \in Tcb THEN "STP" ELSE "none"]
    BY DEF Init
  <1>2. timer_queue \in Queues /\ \A e \in Event : ~ In(e, timer_queue)
    BY <1>1 DEF Queues, Once, In
  <1>3. stat \in Stats /\ \A e \in Event : stat[e] # "STA"
    BY <1>1 DEF Stats
  <1> QED
    BY <1>2, <1>3 DEF IInv

(***************************************************************************)
(* Whatever handlers set and stop while the interrupt works on it, no      *)
(* event is ever in the timer queue twice, and it is in if and only if its *)
(* block says that it is set (timer.h:56, time_calls.c:254).               *)
(***************************************************************************)
THEOREM QueueIsSet == Spec => []QueueHoldsSet
  <1>1. Init => IInv
    BY InitHolds
  <1>2. IInv /\ [Next]_vars => IInv'
    BY StepHolds
  <1>3. IInv => QueueHoldsSet
    BY DEF IInv, QueueHoldsSet, Queues, Once, In
  <1> QED
    BY <1>1, <1>2, <1>3, PTL DEF Spec

-----------------------------------------------------------------------------
(***************************************************************************)
(* Times.  The clock wraps around, so that a time says only together with  *)
(* the clock how far it is ahead; Ahead is that distance, and it is as     *)
(* good as a number as long as no time is further ahead than half the      *)
(* clock's range, nor as far behind.                                       *)
(***************************************************************************)
Clock == 0 .. W - 1

(* The longest time that may be given. *)
LONGEST == ABSTIM_DIFF_MIN + 1 - TIMER_PERIOD

(* How far tm is ahead; what the queue is sorted by, less a constant. *)
Ahead(clock, tm) == Minus(tm, Minus(clock, ABSTIM_DIFF_MIN)) - ABSTIM_DIFF_MIN

(* What the constants are, for the arithmetic below. *)
LEMMA Width ==
  /\ W \in Nat \ {0} /\ W = 2 * ABSTIM_DIFF_MIN + 2
  /\ ABSTIM_DIFF_MIN \in Nat /\ TIMER_PERIOD \in Nat /\ TIMER_PERIOD >= 1
  /\ TIMER_PERIOD <= ABSTIM_DIFF_MIN
  /\ LONGEST \in Nat /\ LONGEST = ABSTIM_DIFF_MIN + 1 - TIMER_PERIOD
  /\ Reltims \subseteq 1 .. LONGEST
  BY KernelTimerAssumption DEF W, LONGEST

(* A number that is out of range by one turn at most. *)
LEMMA Wrap ==
  ASSUME NEW n \in Nat \ {0}, NEW a \in Int, -n <= a, a < 2 * n
  PROVE  a % n = IF a < 0 THEN a + n ELSE IF a < n THEN a ELSE a - n
  <1>1. CASE a < 0
    BY <1>1
  <1>2. CASE 0 <= a /\ a < n
    BY <1>2
  <1>3. CASE n <= a
    BY <1>3
  <1> QED
    BY <1>1, <1>2, <1>3

(* The clock's arithmetic, in the integers. *)
LEMMA MinusIs ==
  ASSUME NEW a \in Clock, NEW b \in Clock
  PROVE  Minus(a, b) = (IF a < b THEN a - b + W ELSE a - b) /\ Minus(a, b) \in Clock
  <1>1. a - b \in Int /\ -W <= a - b /\ a - b < 2 * W
    BY Width DEF Clock
  <1>2. (a - b) % W = IF a - b < 0 THEN a - b + W ELSE IF a - b < W THEN a - b ELSE a - b - W
    BY <1>1, Wrap, Width
  <1> QED
    BY <1>2, Width DEF Minus, Clock

LEMMA PlusIs ==
  ASSUME NEW a \in Int, NEW b \in Int, -W <= a + b, a + b < 2 * W
  PROVE  /\ Plus(a, b) = (IF a + b < 0 THEN a + b + W ELSE IF a + b < W THEN a + b ELSE a + b - W)
         /\ Plus(a, b) \in Clock
  <1> DEFINE s == a + b
  <1>1. s \in Int /\ -W <= s /\ s < 2 * W
    OBVIOUS
  <1> HIDE DEF s
  <1>2. s % W = IF s < 0 THEN s + W ELSE IF s < W THEN s ELSE s - W
    BY <1>1, Wrap, Width
  <1>3. s % W \in Clock
    BY <1>1, <1>2, Width DEF Clock
  <1>4. Plus(a, b) = s % W
    BY DEF Plus, s
  <1>5. s = a + b
    BY DEF s
  <1> QED
    BY <1>1, <1>2, <1>3, <1>4, <1>5, Width

(* The distance is one of three, according to who has wrapped around. *)
LEMMA AheadType ==
  ASSUME NEW clock \in Clock, NEW tm \in Clock
  PROVE  /\ Ahead(clock, tm) \in -ABSTIM_DIFF_MIN .. ABSTIM_DIFF_MIN + 1
         /\ Ahead(clock, tm) \in { tm - clock, tm - clock + W, tm - clock - W }
  <1> DEFINE ofs == Minus(clock, ABSTIM_DIFF_MIN)
  <1>1. ABSTIM_DIFF_MIN \in Clock
    BY Width DEF Clock
  <1>2. ofs \in Clock /\ ofs = IF clock < ABSTIM_DIFF_MIN THEN clock - ABSTIM_DIFF_MIN + W ELSE clock - ABSTIM_DIFF_MIN
    BY <1>1, MinusIs
  <1> HIDE DEF ofs
  <1>3. Minus(tm, ofs) \in Clock /\ Minus(tm, ofs) = IF tm < ofs THEN tm - ofs + W ELSE tm - ofs
    BY <1>2, MinusIs
  <1>4. Ahead(clock, tm) = Minus(tm, ofs) - ABSTIM_DIFF_MIN
    BY DEF Ahead, ofs
  <1> QED
    BY <1>2, <1>3, <1>4, Width DEF Clock

(* It is the only one of them that is in the range. *)
LEMMA AheadIs ==
  ASSUME NEW clock \in Clock, NEW tm \in Clock, NEW x \in -ABSTIM_DIFF_MIN .. ABSTIM_DIFF_MIN + 1,
         x \in { tm - clock, tm - clock + W, tm - clock - W }
  PROVE  Ahead(clock, tm) = x
  <1> DEFINE y == Ahead(clock, tm)
  <1>1. /\ y \in -ABSTIM_DIFF_MIN .. ABSTIM_DIFF_MIN + 1
        /\ y \in { tm - clock, tm - clock + W, tm - clock - W }
    BY AheadType
  <1> HIDE DEF y
  <1>2. x = y
    BY <1>1, Width DEF Clock
  <1> QED
    BY <1>2 DEF y

(* What the code takes for reached is not ahead. *)
LEMMA ReachedIs ==
  ASSUME NEW clock \in Clock, NEW tm \in Clock
  PROVE  knl_abstim_reached(clock, tm) <=> Ahead(clock, tm) <= 0
  <1> DEFINE x == Ahead(clock, tm)
             m == Minus(clock, tm)
  <1>1. x \in -ABSTIM_DIFF_MIN .. ABSTIM_DIFF_MIN + 1 /\ x \in { tm - clock, tm - clock + W, tm - clock - W }
    BY AheadType
  <1>2. m = IF clock < tm THEN clock - tm + W ELSE clock - tm
    BY MinusIs
  <1> HIDE DEF x, m
  <1>3. m <= ABSTIM_DIFF_MIN <=> x <= 0
    BY <1>1, <1>2, Width DEF Clock
  <1> QED
    BY <1>3 DEF x, m, knl_abstim_reached

(* A time that is set x after the clock is x ahead. *)
LEMMA AheadOfPlus ==
  ASSUME NEW clock \in Clock, NEW x \in -ABSTIM_DIFF_MIN .. ABSTIM_DIFF_MIN + 1
  PROVE  Plus(clock, x) \in Clock /\ Ahead(clock, Plus(clock, x)) = x
  <1>1. -W <= clock + x /\ clock + x < 2 * W /\ clock \in Int /\ x \in Int
    BY Width DEF Clock
  <1>2. Plus(clock, x) \in Clock /\ Plus(clock, x) \in { clock + x, clock + x + W, clock + x - W }
    BY <1>1, PlusIs
  <1>3. x \in { Plus(clock, x) - clock, Plus(clock, x) - clock + W, Plus(clock, x) - clock - W }
    BY <1>1, <1>2, Width DEF Clock
  <1> QED
    BY <1>2, <1>3, AheadIs

(* When the clock goes on, all that was ahead comes nearer by a period. *)
LEMMA AheadTicks ==
  ASSUME NEW clock \in Clock, NEW tm \in Clock, Ahead(clock, tm) > 0
  PROVE  /\ Plus(clock, TIMER_PERIOD) \in Clock
         /\ Ahead(Plus(clock, TIMER_PERIOD), tm) = Ahead(clock, tm) - TIMER_PERIOD
  <1> DEFINE soon == Plus(clock, TIMER_PERIOD)
             x == Ahead(clock, tm)
  <1>1. soon \in Clock /\ soon \in { clock + TIMER_PERIOD, clock + TIMER_PERIOD - W }
    <2>1. clock \in Int /\ TIMER_PERIOD \in Int /\ -W <= clock + TIMER_PERIOD /\ clock + TIMER_PERIOD < 2 * W
          /\ clock + TIMER_PERIOD >= 0
      BY Width DEF Clock
    <2> QED
      BY <2>1, PlusIs
  <1>2. x \in 1 .. ABSTIM_DIFF_MIN + 1 /\ x \in { tm - clock, tm - clock + W, tm - clock - W }
    BY AheadType, Width
  <1> HIDE DEF soon, x
  <1>3. x - TIMER_PERIOD \in -ABSTIM_DIFF_MIN .. ABSTIM_DIFF_MIN + 1
    BY <1>2, Width
  <1>4. x - TIMER_PERIOD \in { tm - soon, tm - soon + W, tm - soon - W }
    BY <1>1, <1>2, <1>3, Width DEF Clock
  <1>5. Ahead(soon, tm) = x - TIMER_PERIOD
    BY <1>1, <1>3, <1>4, AheadIs
  <1> QED
    BY <1>1, <1>5 DEF soon, x

(* The next time of a cycle is ahead, a whole number of cycles after the last
   one, and no cycle that would have been ahead is passed over. *)
LEMMA NextTimeIs ==
  ASSUME current_time \in Clock, NEW tm \in Clock, NEW cycle \in 1 .. LONGEST,
         Ahead(current_time, tm) <= TIMER_PERIOD
  PROVE  LET x == Ahead(current_time, tm)
             next == knl_cyc_next_time(tm, cycle)
         IN  /\ next \in Clock
             /\ Ahead(current_time, next) \in 1 .. ABSTIM_DIFF_MIN + 1
             /\ \E n \in Nat \ {0} :
                  /\ Ahead(current_time, next) = x + n * cycle
                  /\ (n - 1) * cycle <= (IF x < 0 THEN -x ELSE 0)
  <1> DEFINE x == Ahead(current_time, tm)
             next == Plus(tm, cycle)
             behind == Minus(current_time, tm)
             passed == behind \div cycle
             far == (passed + 1) * cycle
  <1>1. x \in -ABSTIM_DIFF_MIN .. TIMER_PERIOD /\ x \in { tm - current_time, tm - current_time + W, tm - current_time - W }
    BY AheadType, Width
  <1>2. cycle \in Nat \ {0} /\ cycle <= LONGEST /\ x + cycle \in -ABSTIM_DIFF_MIN .. ABSTIM_DIFF_MIN + 1
    BY <1>1, Width
  <1>3. next \in Clock /\ next \in { tm + cycle, tm + cycle - W }
    <2>1. tm \in Int /\ cycle \in Int /\ -W <= tm + cycle /\ tm + cycle < 2 * W /\ tm + cycle >= 0
      BY <1>2, Width DEF Clock
    <2> QED
      BY <2>1, PlusIs
  <1>4. Ahead(current_time, next) = x + cycle
    <2> HIDE DEF x, next
    <2>1. x + cycle \in { next - current_time, next - current_time + W, next - current_time - W }
      BY <1>1, <1>2, <1>3, Width DEF Clock
    <2> QED
      BY <1>2, <1>3, <2>1, AheadIs
  <1>5. knl_cyc_next_time(tm, cycle) = IF x + cycle <= 0 THEN Plus(far, tm) ELSE next
    BY <1>3, <1>4, ReachedIs DEF knl_cyc_next_time
  <1>6. CASE x + cycle > 0
    <2>1. Ahead(current_time, next) = x + 1 * cycle /\ (1 - 1) * cycle <= (IF x < 0 THEN -x ELSE 0)
      <3> HIDE DEF x, next
      <3> QED
        BY <1>1, <1>2, <1>4
    <2>2. knl_cyc_next_time(tm, cycle) = next
      BY <1>1, <1>2, <1>5, <1>6
    <2>3. x + cycle \in 1 .. ABSTIM_DIFF_MIN + 1
      BY <1>2, <1>6
    <2> HIDE DEF x, next
    <2> QED
      BY <1>3, <1>4, <2>1, <2>2, <2>3 DEF x
  <1>7. CASE x + cycle <= 0
    <2>1. behind = -x /\ behind \in Nat
      <3>1. behind = IF current_time < tm THEN current_time - tm + W ELSE current_time - tm
        BY MinusIs
      <3> HIDE DEF x, behind
      <3> QED
        BY <1>1, <1>2, <1>7, <3>1, Width DEF Clock
    <2> HIDE DEF behind
    <2>2. passed \in Nat /\ passed * cycle <= behind /\ behind < passed * cycle + cycle
      BY <1>2, <2>1
    <2> HIDE DEF passed
    <2>3. far = passed * cycle + cycle /\ far \in Nat
      BY <1>2, <2>2
    <2> HIDE DEF far
    <2>4. x + far \in 1 .. cycle /\ x + far \in -ABSTIM_DIFF_MIN .. ABSTIM_DIFF_MIN + 1
      <3> HIDE DEF x
      <3> QED
        BY <1>1, <1>2, <2>1, <2>2, <2>3, Width
    <2>5. Plus(far, tm) \in Clock /\ Plus(far, tm) \in { far + tm, far + tm - W }
      <3>1. far \in Int /\ tm \in Int /\ far + tm >= 0 /\ -W <= far + tm /\ far + tm < 2 * W
        <4> HIDE DEF x
        <4> QED
          BY <1>1, <1>2, <2>3, <2>4, Width DEF Clock
      <3> QED
        BY <3>1, PlusIs
    <2>6. Ahead(current_time, Plus(far, tm)) = x + far
      <3> HIDE DEF x
      <3>1. x + far \in { Plus(far, tm) - current_time, Plus(far, tm) - current_time + W,
                          Plus(far, tm) - current_time - W }
        BY <1>1, <2>3, <2>4, <2>5, Width DEF Clock
      <3> QED
        BY <2>4, <2>5, <3>1, AheadIs
    <2>7. knl_cyc_next_time(tm, cycle) = Plus(far, tm)
      BY <1>5, <1>7
    <2> DEFINE n == passed + 1
    <2>8. n \in Nat \ {0} /\ x + far = x + n * cycle /\ (n - 1) * cycle <= (IF x < 0 THEN -x ELSE 0)
      <3> HIDE DEF x
      <3> QED
        BY <1>1, <1>2, <1>7, <2>1, <2>2, <2>3
    <2>9. x + far \in 1 .. ABSTIM_DIFF_MIN + 1
      BY <1>2, <2>4, Width
    <2> HIDE DEF x, n
    <2>10. \E m \in Nat \ {0} : x + far = x + m * cycle /\ (m - 1) * cycle <= (IF x < 0 THEN -x ELSE 0)
      BY <2>8
    <2> QED
      BY <2>5, <2>6, <2>7, <2>9, <2>10 DEF x
  <1> QED
    BY <1>1, <1>2, <1>6, <1>7

-----------------------------------------------------------------------------
(***************************************************************************)
(* The invariant: the queue is in the order of the distances, and each     *)
(* event that is set keeps step with what is left of the time asked for.   *)
(* It also bounds how late an event may be: not at all while the interrupt *)
(* is off, and by less than a period while it works on the queue, which is *)
(* why the distances never leave the range.                                *)
(***************************************************************************)
Ordered(queue, times) ==
  \A i, j \in DOMAIN queue :
    i < j => Ahead(current_time, times[queue[i]]) <= Ahead(current_time, times[queue[j]])

(* What is left of the time asked for is up to a period less than e is ahead. *)
KeepsTime(e) ==
  /\ due[e] \in Int
  /\ Ahead(current_time, time[e]) - due[e] \in 1 .. TIMER_PERIOD
  /\ Ahead(current_time, time[e]) > (IF interrupt = "off" THEN 0 ELSE -TIMER_PERIOD)

TimesTyped ==
  /\ current_time \in Clock
  /\ time \in [Event -> Clock]
  /\ cyctim \in [Cyc -> 1 .. LONGEST]
  /\ phs \in [Cyc -> BOOLEAN]
  /\ interrupt \in {"off", "loop", "user"}
  /\ due \in [Event -> Int \cup {Off}]

Timed ==
  /\ TimesTyped
  /\ Ordered(timer_queue, time)
  /\ \A e \in Event : IF stat[e] = "STA" THEN KeepsTime(e) ELSE due[e] = Off

(* An event is put in before the first that is further ahead. *)
LEMMA InsertOrdered ==
  ASSUME current_time \in Clock, NEW queue \in Queues, NEW e \in Event,
         NEW times \in [Event -> Clock], Ordered(queue, times)
  PROVE  Ordered(knl_enqueue_tmeb(queue, times, e), times)
  <1> DEFINE ahead(x) == Ahead(current_time, times[x])
             ofs == Minus(current_time, ABSTIM_DIFF_MIN)
             later == { i \in DOMAIN queue : Minus(times[e], ofs) < Minus(times[queue[i]], ofs) }
             q == knl_enqueue_tmeb(queue, times, e)
             n == Len(queue)
  <1>1. queue \in Seq(Event) /\ n \in Nat /\ DOMAIN queue = 1 .. n /\ later \in SUBSET Nat
    BY DEF Queues
  <1>2. \A x \in Event : ahead(x) \in Int /\ Minus(times[x], ofs) = ahead(x) + ABSTIM_DIFF_MIN
    <2> SUFFICES ASSUME NEW x \in Event PROVE ahead(x) \in Int /\ Minus(times[x], ofs) = ahead(x) + ABSTIM_DIFF_MIN
      OBVIOUS
    <2>0. times[x] \in Clock /\ ABSTIM_DIFF_MIN \in Clock
      BY Width DEF Clock
    <2>1. ahead(x) \in Int /\ ofs \in Clock
      BY <2>0, AheadType, MinusIs
    <2>2. Minus(times[x], ofs) \in Int
      BY <2>0, <2>1, MinusIs DEF Clock
    <2> QED
      BY <2>1, <2>2, Width DEF Ahead
  <1>3. \A i \in 1 .. n : i \in later <=> ahead(e) < ahead(queue[i])
    <2> HIDE DEF ofs, ahead
    <2> QED
      BY <1>1, <1>2, Width
  <1>4. \A i, j \in 1 .. n : i < j => ahead(queue[i]) <= ahead(queue[j])
    BY <1>1 DEF Ordered
  <1>5. \A i \in 1 .. n : queue[i] \in Event
    BY <1>1
  <1>6. q = IF later = {} THEN Append(queue, e) ELSE InsertAt(queue, Min(later), e)
    BY DEF knl_enqueue_tmeb
  <1>7. SUFFICES \A i, j \in DOMAIN q : i < j => ahead(q[i]) <= ahead(q[j])
    BY DEF Ordered
  <1>8. CASE later = {}
    <2>1. DOMAIN q = 1 .. n + 1 /\ \A i \in 1 .. n + 1 : q[i] = IF i = n + 1 THEN e ELSE queue[i]
      BY <1>1, <1>6, <1>8
    <2> HIDE DEF ahead, q, later, n
    <2>2. \A i \in 1 .. n : ahead(queue[i]) <= ahead(e)
      BY <1>2, <1>3, <1>5, <1>8
    <2> QED
      BY <1>1, <1>4, <2>1, <2>2
  <1>9. CASE later # {}
    <2> DEFINE k == Min(later)
    <2>1. k \in later /\ k \in 1 .. n /\ \A i \in later : k <= i
      BY <1>1, <1>9, MinIn
    <2>2. DOMAIN q = 1 .. n + 1
          /\ \A i \in 1 .. n + 1 : q[i] = IF i < k THEN queue[i] ELSE IF i = k THEN e ELSE queue[i - 1]
      <3>1. q = InsertAt(queue, k, e) /\ k \in DOMAIN queue
        BY <1>1, <1>6, <1>9, <2>1
      <3> HIDE DEF k, q, later
      <3>2. Inserted(InsertAt(queue, k, e), queue, k, e)
        BY <1>1, <3>1, InsertIs
      <3>3. Inserted(q, queue, k, e)
        BY <3>1, <3>2
      <3> QED
        BY <3>3 DEF Inserted
    <2> HIDE DEF ahead, q, later, n, k
    <2>3. \A i \in 1 .. n : i < k => ahead(queue[i]) <= ahead(e)
      BY <1>2, <1>3, <1>5, <2>1
    <2>4. \A i \in 1 .. n : k <= i => ahead(e) <= ahead(queue[i])
      <3>1. ahead(e) <= ahead(queue[k])
        BY <1>2, <1>3, <1>5, <2>1
      <3> SUFFICES ASSUME NEW i \in 1 .. n, k <= i PROVE ahead(e) <= ahead(queue[i])
        OBVIOUS
      <3>2. ahead(queue[k]) <= ahead(queue[i]) \/ k = i
        BY <1>4, <2>1
      <3> QED
        BY <1>2, <1>5, <2>1, <3>1, <3>2
    <2> SUFFICES ASSUME NEW i \in 1 .. n + 1, NEW j \in 1 .. n + 1, i < j PROVE ahead(q[i]) <= ahead(q[j])
      BY <2>2
    <2>5. CASE j < k
      BY <1>1, <1>4, <2>1, <2>2, <2>5
    <2>6. CASE j = k
      BY <1>1, <2>1, <2>2, <2>3, <2>6
    <2>7. CASE j > k /\ i < k
      <3>1. q[i] = queue[i] /\ q[j] = queue[j - 1] /\ i \in 1 .. n /\ j - 1 \in 1 .. n /\ i < j - 1 /\ k <= j - 1
        BY <1>1, <2>1, <2>2, <2>7
      <3> QED
        BY <1>4, <3>1
    <2>8. CASE j > k /\ i = k
      <3>1. q[i] = e /\ q[j] = queue[j - 1] /\ j - 1 \in 1 .. n /\ k <= j - 1
        BY <1>1, <2>1, <2>2, <2>8
      <3> QED
        BY <2>4, <3>1
    <2>9. CASE i > k
      <3>1. q[i] = queue[i - 1] /\ q[j] = queue[j - 1] /\ i - 1 \in 1 .. n /\ j - 1 \in 1 .. n /\ i - 1 < j - 1
        BY <1>1, <2>1, <2>2, <2>9
      <3> QED
        BY <1>4, <3>1
    <2> QED
      BY <1>1, <2>1, <2>5, <2>6, <2>7, <2>8, <2>9
  <1> QED
    BY <1>8, <1>9

(* What is taken out leaves the others in order. *)
LEMMA RemoveOrdered ==
  ASSUME NEW queue \in Seq(Event), NEW k \in DOMAIN queue, NEW times, Ordered(queue, times)
  PROVE  Ordered(RemoveAt(queue, k), times)
  <1> DEFINE n == Len(queue)
             q == RemoveAt(queue, k)
  <1>1. n \in Nat /\ DOMAIN queue = 1 .. n /\ k \in 1 .. n
    OBVIOUS
  <1>2. DOMAIN q = 1 .. n - 1 /\ \A i \in 1 .. n - 1 : q[i] = IF i < k THEN queue[i] ELSE queue[i + 1]
    <2>1. Removed(q, queue, k)
      BY RemoveIs
    <2> HIDE DEF q
    <2> QED
      BY <2>1 DEF Removed
  <1> HIDE DEF n, q
  <1>3. ASSUME NEW i \in 1 .. n - 1, NEW j \in 1 .. n - 1, i < j
        PROVE  \E a, b \in 1 .. n : a < b /\ q[i] = queue[a] /\ q[j] = queue[b]
    <2>1. CASE j < k
      <3>1. i \in 1 .. n /\ j \in 1 .. n /\ q[i] = queue[i] /\ q[j] = queue[j]
        BY <1>1, <1>2, <1>3, <2>1
      <3> QED
        BY <1>3, <3>1
    <2>2. CASE i < k /\ j >= k
      <3>1. i \in 1 .. n /\ j + 1 \in 1 .. n /\ q[i] = queue[i] /\ q[j] = queue[j + 1] /\ i < j + 1
        BY <1>1, <1>2, <1>3, <2>2
      <3> QED
        BY <3>1
    <2>3. CASE i >= k
      <3>1. i + 1 \in 1 .. n /\ j + 1 \in 1 .. n /\ q[i] = queue[i + 1] /\ q[j] = queue[j + 1] /\ i + 1 < j + 1
        BY <1>1, <1>2, <1>3, <2>3
      <3> QED
        BY <3>1
    <2> QED
      BY <1>1, <1>3, <2>1, <2>2, <2>3
  <1>4. \A a, b \in 1 .. n : a < b => Ahead(current_time, times[queue[a]]) <= Ahead(current_time, times[queue[b]])
    BY <1>1 DEF Ordered
  <1>5. \A i, j \in 1 .. n - 1 : i < j => Ahead(current_time, times[q[i]]) <= Ahead(current_time, times[q[j]])
    BY <1>3, <1>4
  <1> QED
    BY <1>2, <1>5 DEF Ordered, q

LEMMA DeleteOrdered ==
  ASSUME NEW queue \in Queues, NEW e \in Event, NEW times, Ordered(queue, times)
  PROVE  Ordered(knl_timer_delete(queue, e), times)
  <1> DEFINE at == { i \in DOMAIN queue : queue[i] = e }
  <1>1. CASE at = {}
    BY <1>1 DEF knl_timer_delete
  <1>2. CASE at # {}
    <2>1. (CHOOSE i \in at : TRUE) \in at
      BY <1>2
    <2>2. \E k \in DOMAIN queue : knl_timer_delete(queue, e) = RemoveAt(queue, k)
      BY <1>2, <2>1 DEF knl_timer_delete
    <2> QED
      BY <2>2, RemoveOrdered DEF Queues
  <1> QED
    BY <1>1, <1>2

LEMMA TailOrdered ==
  ASSUME NEW queue \in Queues, queue # << >>, NEW times, Ordered(queue, times)
  PROVE  Ordered(Tail(queue), times)
  <1>1. queue \in Seq(Event) /\ 1 \in DOMAIN queue
    BY DEF Queues
  <1>2. RemoveAt(queue, 1) = Tail(queue)
    BY <1>1 DEF RemoveAt
  <1> QED
    BY <1>1, <1>2, RemoveOrdered

(* The time of an event that is not in the queue does not matter. *)
LEMMA OthersOrdered ==
  ASSUME NEW queue \in Queues, NEW e \in Event, ~ In(e, queue), NEW times, NEW times2,
         \A x \in Event \ {e} : times2[x] = times[x], Ordered(queue, times)
  PROVE  Ordered(queue, times2)
  <1>1. \A i \in DOMAIN queue : queue[i] \in Event \ {e}
    BY DEF Queues, In
  <1>2. \A i \in DOMAIN queue : times2[queue[i]] = times[queue[i]]
    BY <1>1
  <1> QED
    BY <1>2 DEF Ordered

(* A step that concerns one event, while the clock stands still. *)
LEMMA EventTimed ==
  ASSUME Timed, NEW e \in Event, TimesTyped', stat \in Stats, stat' \in Stats,
         current_time' = current_time, interrupt' = "off" => interrupt = "off",
         \A x \in Event \ {e} : time'[x] = time[x] /\ due'[x] = due[x] /\ stat'[x] = stat[x],
         Ordered(timer_queue', time'),
         IF stat'[e] = "STA" THEN KeepsTime(e)' ELSE due'[e] = Off
  PROVE  Timed'
  <1>1. Ordered(timer_queue, time)'
    BY DEF Ordered
  <1>2. ASSUME NEW x \in Event, x # e
        PROVE  IF stat'[x] = "STA" THEN KeepsTime(x)' ELSE due'[x] = Off
    <2>1. IF stat[x] = "STA" THEN KeepsTime(x) ELSE due[x] = Off
      BY DEF Timed
    <2>2. CASE stat[x] = "STA"
      <3>1. Ahead(current_time, time[x]) \in Int
        BY AheadType DEF Timed, TimesTyped
      <3>2. (Ahead(current_time, time[x]))' = Ahead(current_time, time[x])
        BY <1>2
      <3> QED
        BY <1>2, <2>1, <2>2, <3>1, <3>2, Width DEF KeepsTime
    <2>3. CASE stat[x] # "STA"
      BY <1>2, <2>1, <2>3
    <2> QED
      BY <2>2, <2>3
  <1> QED
    BY <1>1, <1>2 DEF Timed

(* An event that is set, out of a queue it is not in, to a time that is not
   reached. *)
LEMMA SetTimed ==
  ASSUME IInv, Timed, NEW e \in Event,
         NEW queue \in Queues, ~ In(e, queue), Ordered(queue, time),
         NEW tm \in Clock, Ahead(current_time, tm) > 0, knl_timer_insert_abs(queue, e, tm),
         stat' = [stat EXCEPT ![e] = "STA"],
         NEW d \in Int, Ahead(current_time, tm) - d \in 1 .. TIMER_PERIOD,
         due' = [due EXCEPT ![e] = d],
         current_time' = current_time, interrupt' = "off" => interrupt = "off",
         interrupt' \in {"off", "loop", "user"},
         cyctim' \in [Cyc -> 1 .. LONGEST], phs' \in [Cyc -> BOOLEAN]
  PROVE  Timed' /\ d \in 1 - TIMER_PERIOD .. ABSTIM_DIFF_MIN
  <1>1. TimesTyped /\ stat \in Stats
    BY DEF Timed, IInv
  <1>2. /\ time' = [time EXCEPT ![e] = tm] /\ time' \in [Event -> Clock] /\ time'[e] = tm
        /\ \A x \in Event \ {e} : time'[x] = time[x]
    BY <1>1 DEF knl_timer_insert_abs, TimesTyped
  <1>3. Ordered(timer_queue', time')
    <2>1. Ordered(queue, time')
      BY <1>2, OthersOrdered
    <2> QED
      BY <1>1, <1>2, <2>1, InsertOrdered DEF knl_timer_insert_abs, TimesTyped
  <1>4. TimesTyped'
    BY <1>1, <1>2 DEF TimesTyped
  <1>5. stat' \in Stats /\ stat'[e] = "STA" /\ \A x \in Event \ {e} : stat'[x] = stat[x] /\ due'[x] = due[x]
    BY <1>1 DEF Stats, TimesTyped
  <1>6. due'[e] = d /\ (Ahead(current_time, time[e]))' = Ahead(current_time, tm)
    BY <1>1, <1>2 DEF TimesTyped
  <1>7. Ahead(current_time, tm) \in 1 .. ABSTIM_DIFF_MIN + 1
    BY <1>1, AheadType, Width DEF TimesTyped
  <1>8. KeepsTime(e)'
    BY <1>6, <1>7, Width DEF KeepsTime
  <1>9. Timed'
    BY <1>1, <1>2, <1>3, <1>4, <1>5, <1>8, EventTimed
  <1> QED
    BY <1>7, <1>9, Width

(* An event that is not set any more, and not in the queue. *)
LEMMA UnsetTimed ==
  ASSUME IInv, Timed, NEW e \in Event,
         NEW s \in {"none", "STP", "FEVR"}, stat' = [stat EXCEPT ![e] = s],
         due' = [due EXCEPT ![e] = Off],
         time' = time \/ \E tm \in Clock : time' = [time EXCEPT ![e] = tm],
         timer_queue' \in Queues, ~ In(e, timer_queue'), Ordered(timer_queue', time),
         current_time' = current_time, interrupt' = "off" => interrupt = "off",
         interrupt' \in {"off", "loop", "user"},
         cyctim' \in [Cyc -> 1 .. LONGEST], phs' \in [Cyc -> BOOLEAN]
  PROVE  Timed'
  <1>1. TimesTyped /\ stat \in Stats
    BY DEF Timed, IInv
  <1>2. time' \in [Event -> Clock] /\ \A x \in Event \ {e} : time'[x] = time[x]
    BY <1>1 DEF TimesTyped
  <1>3. Ordered(timer_queue', time')
    BY <1>2, OthersOrdered
  <1>4. TimesTyped'
    BY <1>1, <1>2 DEF TimesTyped
  <1>5. /\ stat' \in Stats /\ stat'[e] # "STA" /\ due'[e] = Off
        /\ \A x \in Event \ {e} : stat'[x] = stat[x] /\ due'[x] = due[x]
    BY <1>1 DEF Stats, TimesTyped
  <1> QED
    BY <1>1, <1>2, <1>3, <1>4, <1>5, EventTimed

-----------------------------------------------------------------------------
(***************************************************************************)
(* Each operation keeps Timed, and is a step of the countdown.             *)
(***************************************************************************)
Cycles == [e \in Event |-> IF e \in Cyc THEN cyctim[e] ELSE 0]

CountStep == [Countdown_!Next]_<< due, Cycles >>

(* What the operations on e leave as it is. *)
Others(e) ==
  /\ current_time' = current_time
  /\ interrupt' \in {"off", "loop", "user"} /\ (interrupt' = "off" => interrupt = "off")
  /\ cyctim' \in [Cyc -> 1 .. LONGEST] /\ \A c \in Cyc \ {e} : cyctim'[c] = cyctim[c]
  /\ phs' \in [Cyc -> BOOLEAN]

(* The cycles of the others stay as they are. *)
LEMMA CyclesOf ==
  ASSUME TimesTyped, NEW e \in Event, Others(e)
  PROVE  Cycles' \in [Event -> Nat] /\ \A x \in Event \ {e} : Cycles'[x] = Cycles[x]
  <1>1. cyctim \in [Cyc -> 1 .. LONGEST] /\ cyctim' \in [Cyc -> 1 .. LONGEST]
    BY DEF TimesTyped, Others
  <1>2. Cycles' \in [Event -> Nat]
    BY <1>1, Width DEF Cycles
  <1>3. \A x \in Event \ {e} : Cycles'[x] = Cycles[x]
    BY DEF Cycles, Others
  <1> QED
    BY <1>2, <1>3

LEMMA AfterIs ==
  ASSUME current_time \in Clock, NEW reltim \in Reltims \cup {0}
  PROVE  After(reltim) \in Clock /\ Ahead(current_time, After(reltim)) = reltim + TIMER_PERIOD
  <1>1. reltim + TIMER_PERIOD \in -ABSTIM_DIFF_MIN .. ABSTIM_DIFF_MIN + 1
    BY Width
  <1> QED
    BY <1>1, AheadOfPlus DEF After

(* Of a time that is not past, the difference from the clock tells how far it
   is ahead. *)
LEMMA MinusAhead ==
  ASSUME NEW clock \in Clock, NEW tm \in Clock, Ahead(clock, tm) >= 0
  PROVE  Minus(tm, clock) = Ahead(clock, tm)
  <1> DEFINE x == Ahead(clock, tm)
  <1>1. x \in 0 .. ABSTIM_DIFF_MIN + 1 /\ x \in { tm - clock, tm - clock + W, tm - clock - W }
    BY AheadType, Width
  <1>2. Minus(tm, clock) = IF tm < clock THEN tm - clock + W ELSE tm - clock
    BY MinusIs
  <1> HIDE DEF x
  <1>3. Minus(tm, clock) = x
    BY <1>1, <1>2, Width DEF Clock
  <1> QED
    BY <1>3 DEF x

(* Somebody asks for an event in left from the clock's last step on. *)
LEMMA AskedTimed ==
  ASSUME IInv, Timed, NEW e \in Event, Others(e),
         NEW queue \in Queues, ~ In(e, queue), Ordered(queue, time),
         NEW tm \in Clock, NEW left \in Int,
         Ahead(current_time, tm) = left + TIMER_PERIOD, left + TIMER_PERIOD > 0,
         knl_timer_insert_abs(queue, e, tm), Asked(e, left),
         stat' = [stat EXCEPT ![e] = "STA"]
  PROVE  Timed' /\ Countdown_!Set(e)
  <1>1. PICK r \in 0 .. TIMER_PERIOD - 1 : due' = [due EXCEPT ![e] = left + r]
    BY DEF Asked
  <1> DEFINE d == left + r
  <1>2. d \in Int /\ Ahead(current_time, tm) - d \in 1 .. TIMER_PERIOD
    BY Width
  <1>3. due' = [due EXCEPT ![e] = d]
    BY <1>1
  <1> HIDE DEF d
  <1>4. Timed' /\ d \in 1 - TIMER_PERIOD .. ABSTIM_DIFF_MIN
    BY <1>2, <1>3, SetTimed DEF Others
  <1>5. d \in (1 - TIMER_PERIOD) .. ABSTIM_DIFF_MIN + 1
    BY <1>4, Width
  <1>6. Cycles' \in [Event -> Nat] /\ \A x \in Event \ {e} : Cycles'[x] = Cycles[x]
    BY CyclesOf DEF Timed
  <1>7. Countdown_!Set(e)
    BY <1>3, <1>5, <1>6 DEF Countdown_!Set, Cycles
  <1> QED
    BY <1>4, <1>7

(* An event is not set any more, if it was. *)
LEMMA CancelTimed ==
  ASSUME IInv, Timed, NEW e \in Event, Others(e),
         NEW s \in {"none", "STP", "FEVR"}, stat' = [stat EXCEPT ![e] = s],
         due' = [due EXCEPT ![e] = Off],
         time' = time \/ \E tm \in Clock : time' = [time EXCEPT ![e] = tm],
         timer_queue' \in Queues, ~ In(e, timer_queue'), Ordered(timer_queue', time)
  PROVE  Timed' /\ Countdown_!Cancel(e)
  <1>1. Timed'
    BY UnsetTimed DEF Others
  <1>2. Cycles' \in [Event -> Nat] /\ \A x \in Event \ {e} : Cycles'[x] = Cycles[x]
    BY CyclesOf DEF Timed
  <1> QED
    BY <1>1, <1>2 DEF Countdown_!Cancel, Cycles

(* The queue that is left when e is taken out. *)
LEMMA RestOrdered ==
  ASSUME IInv, Timed, NEW e \in Event
  PROVE  LET rest == IF stat[e] = "STA" THEN knl_timer_delete(timer_queue, e) ELSE timer_queue
         IN  Ordered(rest, time) /\ Ordered(knl_timer_delete(timer_queue, e), time)
  BY DeleteOrdered DEF IInv, Timed

(* What the lemmas need of the types. *)
LEMMA SetTypes ==
  ASSUME IInv, Timed
  PROVE  /\ current_time \in Clock /\ time \in [Event -> Clock] /\ 0 \in Clock
         /\ cyctim \in [Cyc -> 1 .. LONGEST] /\ phs \in [Cyc -> BOOLEAN]
         /\ interrupt \in {"off", "loop", "user"}
         /\ timer_queue \in Queues /\ Ordered(timer_queue, time)
         /\ due \in [Event -> Int \cup {Off}]
  BY Width DEF IInv, Timed, TimesTyped, Clock

LEMMA WaitTimed ==
  ASSUME IInv, Timed, NEW t \in Event, Wait(t)
  PROVE  Timed' /\ (Countdown_!Set(t) \/ Countdown_!Cancel(t))
  <1>1. stat[t] = "STP" /\ ~ In(t, timer_queue) /\ due[t] = Off
    BY DEF Wait, IInv, Timed
  <1>2. Others(t)
    BY SetTypes DEF Wait, Others
  <1>3. CASE stat' = [stat EXCEPT ![t] = "FEVR"] /\ UNCHANGED << time, timer_queue, due >>
    <2>1. due' = [due EXCEPT ![t] = Off]
      BY <1>1, <1>3, SetTypes
    <2> QED
      BY <1>1, <1>2, <1>3, <2>1, SetTypes, CancelTimed
  <1>4. ASSUME NEW tmout \in Reltims, stat' = [stat EXCEPT ![t] = "STA"],
               knl_timer_insert_abs(timer_queue, t, After(tmout)), Asked(t, tmout)
        PROVE  Timed' /\ Countdown_!Set(t)
    <2>1. After(tmout) \in Clock /\ Ahead(current_time, After(tmout)) = tmout + TIMER_PERIOD
      BY SetTypes, AfterIs
    <2>2. tmout \in Int /\ tmout + TIMER_PERIOD > 0
      BY Width
    <2> QED
      BY <1>1, <1>2, <1>4, <2>1, <2>2, SetTypes, AskedTimed
  <1> QED
    BY <1>3, <1>4 DEF Wait

LEMMA CreCycTimed ==
  ASSUME IInv, Timed, NEW c \in Event, tk_cre_cyc(c)
  PROVE  Timed' /\ (Countdown_!Set(c) \/ Countdown_!Cancel(c))
  <1>1. stat[c] = "none" /\ ~ In(c, timer_queue) /\ due[c] = Off /\ c \in Cyc
    BY DEF tk_cre_cyc, IInv, Timed
  <1> DEFINE first(cycphs) == After(cycphs)
             next(cycphs, cycle) == IF cycphs = 0 THEN knl_cyc_next_time(first(cycphs), cycle) ELSE first(cycphs)
             left(cycphs, cycle) == IF cycphs = 0 THEN cycle ELSE cycphs
  <1>2. PICK cycle \in Reltims, cycphs \in Reltims \cup {0}, ta_phs \in BOOLEAN, ta_sta \in BOOLEAN :
          /\ cyctim' = [cyctim EXCEPT ![c] = cycle]
          /\ phs' = [phs EXCEPT ![c] = ta_phs]
          /\ stat' = [stat EXCEPT ![c] = IF ta_sta THEN "STA" ELSE "STP"]
          /\ \/ /\ ta_sta
                /\ knl_timer_insert_abs(timer_queue, c, next(cycphs, cycle))
                /\ Asked(c, left(cycphs, cycle))
             \/ /\ ~ta_sta
                /\ time' = [time EXCEPT ![c] = first(cycphs)]
                /\ UNCHANGED << timer_queue, due >>
    BY DEF tk_cre_cyc
  <1>3. cycle \in 1 .. LONGEST /\ cycle \in Int
    BY Width
  <1>4. Others(c)
    <2>1. cyctim' \in [Cyc -> 1 .. LONGEST] /\ \A x \in Cyc \ {c} : cyctim'[x] = cyctim[x]
      BY <1>1, <1>2, <1>3, SetTypes
    <2>2. phs' \in [Cyc -> BOOLEAN]
      BY <1>2, SetTypes
    <2>3. current_time' = current_time /\ interrupt' = interrupt
      BY DEF tk_cre_cyc
    <2> QED
      BY <2>1, <2>2, <2>3, SetTypes DEF Others
  <1>5. first(cycphs) \in Clock /\ Ahead(current_time, first(cycphs)) = cycphs + TIMER_PERIOD
    BY SetTypes, AfterIs
  <1> HIDE DEF first
  <1>6. CASE ~ta_sta
    <2>1. due' = [due EXCEPT ![c] = Off] /\ timer_queue' = timer_queue
      BY <1>1, <1>2, <1>6, SetTypes
    <2>2. stat' = [stat EXCEPT ![c] = "STP"] /\ time' = [time EXCEPT ![c] = first(cycphs)]
      BY <1>2, <1>6
    <2> QED
      BY <1>1, <1>4, <1>5, <2>1, <2>2, SetTypes, CancelTimed
  <1>7. CASE ta_sta
    <2> DEFINE tm == next(cycphs, cycle)
               l == left(cycphs, cycle)
    <2>1. /\ stat' = [stat EXCEPT ![c] = "STA"] /\ knl_timer_insert_abs(timer_queue, c, tm)
          /\ Asked(c, l)
      BY <1>2, <1>7
    <2>2. l \in Int /\ l + TIMER_PERIOD > 0 /\ tm \in Clock /\ Ahead(current_time, tm) = l + TIMER_PERIOD
      <3>1. CASE cycphs # 0
        BY <1>5, <3>1, Width
      <3>2. CASE cycphs = 0
        <4>1. Ahead(current_time, first(cycphs)) = TIMER_PERIOD
          BY <1>5, <3>2, Width
        <4>2. tm = knl_cyc_next_time(first(cycphs), cycle) /\ l = cycle
          BY <3>2
        <4>3. tm \in Clock
          BY <1>3, <1>5, <4>1, <4>2, SetTypes, Width, NextTimeIs
        <4>4. PICK n \in Nat \ {0} :
                /\ Ahead(current_time, tm) = Ahead(current_time, first(cycphs)) + n * cycle
                /\ (n - 1) * cycle <= (IF Ahead(current_time, first(cycphs)) < 0
                                       THEN -Ahead(current_time, first(cycphs)) ELSE 0)
          <5>1. Ahead(current_time, first(cycphs)) <= TIMER_PERIOD
            BY <4>1, Width
          <5> HIDE DEF tm
          <5> QED
            BY <1>3, <1>5, <4>2, <5>1, SetTypes, NextTimeIs
        <4>5. n = 1
          <5>1. (n - 1) * cycle <= 0
            BY <4>1, <4>4, Width
          <5> QED
            BY <1>3, <5>1
        <4>6. Ahead(current_time, tm) = TIMER_PERIOD + cycle
          BY <1>3, <4>1, <4>4, <4>5
        <4> HIDE DEF tm, l
        <4> QED
          BY <1>3, <4>2, <4>3, <4>6, Width
      <3> QED
        BY <3>1, <3>2
    <2> HIDE DEF tm, l
    <2> QED
      BY <1>1, <1>4, <2>1, <2>2, SetTypes, AskedTimed
  <1> QED
    BY <1>6, <1>7

LEMMA StaCycTimed ==
  ASSUME IInv, Timed, NEW c \in Event, tk_sta_cyc(c)
  PROVE  Timed' /\ (Countdown_!Set(c) \/ UNCHANGED << due, Cycles >>)
  <1>1. c \in Cyc /\ stat' = [stat EXCEPT ![c] = "STA"] /\ stat[c] # "none"
    BY DEF tk_sta_cyc
  <1>2. current_time' = current_time /\ cyctim' = cyctim /\ phs' = phs /\ interrupt' = interrupt
    BY DEF tk_sta_cyc
  <1>3. Others(c)
    BY <1>2, SetTypes DEF Others
  <1>4. cyctim[c] \in 1 .. LONGEST /\ time[c] \in Clock /\ current_time \in Clock
    BY <1>1, SetTypes
  <1> DEFINE tm == IF knl_abstim_reached(current_time, time[c])
                   THEN knl_cyc_next_time(time[c], cyctim[c]) ELSE time[c]
             rest == IF stat[c] = "STA" THEN knl_timer_delete(timer_queue, c) ELSE timer_queue
  <1>5. \/ /\ stat[c] = "STP" /\ knl_timer_insert_abs(timer_queue, c, tm)
           /\ Asked(c, Minus(tm, current_time) - TIMER_PERIOD)
        \/ stat[c] = "STA" /\ UNCHANGED << timer_queue, time, due >>
        \/ knl_timer_insert_abs(rest, c, After(cyctim[c])) /\ Asked(c, cyctim[c])
    BY DEF tk_sta_cyc
  <1>6. CASE /\ stat[c] = "STP" /\ knl_timer_insert_abs(timer_queue, c, tm)
             /\ Asked(c, Minus(tm, current_time) - TIMER_PERIOD)
    <2>1. ~ In(c, timer_queue)
      BY <1>6 DEF IInv
    <2>2. tm \in Clock /\ Ahead(current_time, tm) \in 1 .. ABSTIM_DIFF_MIN + 1
      <3>1. CASE knl_abstim_reached(current_time, time[c])
        <4>1. Ahead(current_time, time[c]) <= 0 /\ Ahead(current_time, time[c]) \in Int
          BY <1>4, <3>1, ReachedIs, AheadType
        <4>2. Ahead(current_time, time[c]) <= TIMER_PERIOD
          BY <4>1, Width
        <4> QED
          BY <1>4, <3>1, <4>2, NextTimeIs
      <3>2. CASE ~ knl_abstim_reached(current_time, time[c])
        <4>1. ~ (Ahead(current_time, time[c]) <= 0)
          BY <1>4, <3>2, ReachedIs
        <4>2. Ahead(current_time, time[c]) \in -ABSTIM_DIFF_MIN .. ABSTIM_DIFF_MIN + 1
          BY <1>4, AheadType
        <4> QED
          BY <1>4, <3>2, <4>1, <4>2, Width
      <3> QED
        BY <3>1, <3>2
    <2>3. Asked(c, Minus(tm, current_time) - TIMER_PERIOD) /\ knl_timer_insert_abs(timer_queue, c, tm)
      BY <1>6
    <2> HIDE DEF tm
    <2>4. Minus(tm, current_time) = Ahead(current_time, tm)
      BY <1>4, <2>2, Width, MinusAhead
    <2> DEFINE left == Minus(tm, current_time) - TIMER_PERIOD
    <2>5. left \in Int /\ Ahead(current_time, tm) = left + TIMER_PERIOD /\ left + TIMER_PERIOD > 0
      BY <2>2, <2>4, Width
    <2>6. Asked(c, left)
      BY <2>3
    <2> HIDE DEF left
    <2> QED
      BY <1>1, <1>3, <2>1, <2>2, <2>3, <2>5, <2>6, SetTypes, AskedTimed
  <1>7. CASE stat[c] = "STA" /\ UNCHANGED << timer_queue, time, due >>
    <2>1. stat' = stat
      BY <1>1, <1>7 DEF IInv, Stats
    <2>2. Timed' <=> Timed
      BY <1>2, <1>7, <2>1 DEF Timed, TimesTyped, Ordered, KeepsTime
    <2> QED
      BY <1>2, <1>7, <2>2 DEF Cycles
  <1>8. CASE knl_timer_insert_abs(rest, c, After(cyctim[c])) /\ Asked(c, cyctim[c])
    <2>1. rest \in Queues /\ ~ In(c, rest) /\ Ordered(rest, time)
      BY RestHolds, RestOrdered
    <2> HIDE DEF rest
    <2>2. cyctim[c] + TIMER_PERIOD \in -ABSTIM_DIFF_MIN .. ABSTIM_DIFF_MIN + 1 /\ cyctim[c] + TIMER_PERIOD > 0
          /\ cyctim[c] \in Int
      BY <1>4, Width
    <2>3. After(cyctim[c]) \in Clock /\ Ahead(current_time, After(cyctim[c])) = cyctim[c] + TIMER_PERIOD
      BY <1>4, <2>2, AheadOfPlus DEF After
    <2> QED
      BY <1>1, <1>3, <1>8, <2>1, <2>2, <2>3, AskedTimed
  <1> QED
    BY <1>5, <1>6, <1>7, <1>8

LEMMA StaAlmTimed ==
  ASSUME IInv, Timed, NEW a \in Event, tk_sta_alm(a)
  PROVE  Timed' /\ (Countdown_!Set(a) \/ Countdown_!Cancel(a))
  <1> DEFINE rest == IF stat[a] = "STA" THEN knl_timer_delete(timer_queue, a) ELSE timer_queue
  <1>1. a \in Alm /\ current_time' = current_time /\ cyctim' = cyctim /\ phs' = phs /\ interrupt' = interrupt
    BY DEF tk_sta_alm
  <1>2. Others(a)
    BY <1>1, SetTypes DEF Others
  <1>3. rest \in Queues /\ ~ In(a, rest) /\ Ordered(rest, time)
    BY RestHolds, RestOrdered
  <1>4. \/ \E almtim \in Reltims :
             /\ knl_timer_insert_abs(rest, a, After(almtim))
             /\ stat' = [stat EXCEPT ![a] = "STA"]
             /\ Asked(a, almtim)
        \/ timer_queue' = rest /\ Forget(a, "STP")
    BY DEF tk_sta_alm
  <1> HIDE DEF rest
  <1>5. ASSUME NEW almtim \in Reltims, knl_timer_insert_abs(rest, a, After(almtim)),
               stat' = [stat EXCEPT ![a] = "STA"], Asked(a, almtim)
        PROVE  Timed' /\ Countdown_!Set(a)
    <2>1. After(almtim) \in Clock /\ Ahead(current_time, After(almtim)) = almtim + TIMER_PERIOD
      BY SetTypes, AfterIs
    <2>2. almtim \in Int /\ almtim + TIMER_PERIOD > 0
      BY Width
    <2> QED
      BY <1>2, <1>3, <1>5, <2>1, <2>2, AskedTimed
  <1>6. CASE timer_queue' = rest /\ Forget(a, "STP")
    <2>1. /\ stat' = [stat EXCEPT ![a] = "STP"] /\ due' = [due EXCEPT ![a] = Off]
          /\ time' = time \/ time' = [time EXCEPT ![a] = 0]
      BY <1>6 DEF Forget
    <2> QED
      BY <1>2, <1>3, <1>6, <2>1, SetTypes, CancelTimed
  <1> QED
    BY <1>4, <1>5, <1>6

(* An event is taken out, or was not in. *)
LEMMA UnsetsTimed ==
  ASSUME IInv, Timed, NEW e \in Event, Unsets(e)
  PROVE  Timed' /\ Countdown_!Cancel(e)
  <1>1. Others(e)
    <2>1. current_time' = current_time /\ interrupt' = interrupt
      BY DEF Unsets, Release, tk_del_cyc, tk_stp_cyc, tk_cre_alm, tk_del_alm, tk_stp_alm
    <2>2. \/ cyctim' = cyctim /\ phs' = phs
          \/ cyctim' = [cyctim EXCEPT ![e] = 1] /\ phs' = [phs EXCEPT ![e] = FALSE]
      BY DEF Unsets, Release, tk_del_cyc, tk_stp_cyc, tk_cre_alm, tk_del_alm, tk_stp_alm
    <2>3. 1 \in 1 .. LONGEST
      BY Width DEF LONGEST
    <2>4. cyctim' \in [Cyc -> 1 .. LONGEST] /\ \A c \in Cyc \ {e} : cyctim'[c] = cyctim[c]
      BY <2>2, <2>3, SetTypes
    <2>5. phs' \in [Cyc -> BOOLEAN]
      BY <2>2, SetTypes
    <2> QED
      BY <2>1, <2>4, <2>5, SetTypes DEF Others
  <1>2. \E s \in {"none", "STP", "FEVR"} :
          /\ stat' = [stat EXCEPT ![e] = s]
          /\ \/ timer_queue' = knl_timer_delete(timer_queue, e)
             \/ timer_queue' = timer_queue /\ stat[e] # "STA"
    BY DEF Unsets, Release, tk_del_cyc, tk_stp_cyc, tk_cre_alm, tk_del_alm, tk_stp_alm, Forget
  <1>3. timer_queue' \in Queues /\ ~ In(e, timer_queue') /\ Ordered(timer_queue', time)
    <2>1. timer_queue \in Queues /\ (stat[e] # "STA" => ~ In(e, timer_queue)) /\ Ordered(timer_queue, time)
      BY DEF IInv, Timed
    <2>2. knl_timer_delete(timer_queue, e) \in Queues /\ ~ In(e, knl_timer_delete(timer_queue, e))
      BY <2>1, DeleteHolds
    <2>3. Ordered(knl_timer_delete(timer_queue, e), time)
      BY RestOrdered
    <2> QED
      BY <1>2, <2>1, <2>2, <2>3
  <1>4. due' = [due EXCEPT ![e] = Off]
    <2>1. CASE tk_cre_alm(e)
      <3>1. due[e] = Off /\ due' = due
        BY <2>1 DEF tk_cre_alm, Timed
      <3> QED
        BY <3>1, SetTypes
    <2>2. CASE ~ tk_cre_alm(e)
      BY <2>2 DEF Unsets, Release, tk_del_cyc, tk_stp_cyc, tk_del_alm, tk_stp_alm, Forget
    <2> QED
      BY <2>1, <2>2
  <1>5. time' = time \/ time' = [time EXCEPT ![e] = 0]
    BY DEF Unsets, Release, tk_del_cyc, tk_stp_cyc, tk_cre_alm, tk_del_alm, tk_stp_alm, Forget
  <1> QED
    BY <1>1, <1>2, <1>3, <1>4, <1>5, SetTypes, CancelTimed

(* What the interrupt calls is set, and reached. *)
LEMMA HeadReached ==
  ASSUME IInv, Timed, Reached
  PROVE  LET e == Head(timer_queue)
         IN  /\ e \in Event /\ stat[e] = "STA" /\ due[e] \in Int
             /\ Ahead(current_time, time[e]) \in -ABSTIM_DIFF_MIN .. 0
             /\ Ahead(current_time, time[e]) > -TIMER_PERIOD
             /\ Ahead(current_time, time[e]) - due[e] \in 1 .. TIMER_PERIOD
             /\ Tail(timer_queue) \in Queues /\ ~ In(e, Tail(timer_queue)) /\ Ordered(Tail(timer_queue), time)
  <1> DEFINE e == Head(timer_queue)
  <1>1. timer_queue \in Queues /\ timer_queue # << >> /\ interrupt = "loop"
        /\ knl_abstim_reached(current_time, time[e])
    BY DEF Reached, IInv
  <1>2. e \in Event /\ Tail(timer_queue) \in Queues /\ ~ In(e, Tail(timer_queue))
    BY <1>1, TailHolds
  <1>3. stat[e] = "STA"
    <2>1. 1 \in DOMAIN timer_queue /\ timer_queue[1] = e
      BY <1>1 DEF Queues
    <2>2. In(e, timer_queue)
      BY <2>1 DEF In
    <2> QED
      BY <1>2, <2>2 DEF IInv
  <1>4. Ordered(Tail(timer_queue), time)
    BY <1>1, TailOrdered DEF Timed
  <1>5. KeepsTime(e)
    BY <1>2, <1>3 DEF Timed
  <1>6. current_time \in Clock /\ time[e] \in Clock
    BY <1>2, SetTypes
  <1>7. Ahead(current_time, time[e]) <= 0 /\ Ahead(current_time, time[e]) \in -ABSTIM_DIFF_MIN .. ABSTIM_DIFF_MIN + 1
    BY <1>1, <1>6, ReachedIs, AheadType
  <1> HIDE DEF e
  <1>8. Ahead(current_time, time[e]) \in -ABSTIM_DIFF_MIN .. 0
    BY <1>7, Width
  <1> QED
    BY <1>1, <1>2, <1>3, <1>4, <1>5, <1>8 DEF KeepsTime, e

(* A cyclic handler is set a whole number of its cycles later. *)
LEMMA CallCycTimed ==
  ASSUME IInv, Timed, knl_call_cychdr
  PROVE  Timed' /\ \E e \in Event : Countdown_!Happen(e)
  <1> DEFINE c == Head(timer_queue)
             cycle == cyctim[c]
             tm == knl_cyc_next_time(time[c], cycle)
             x == Ahead(current_time, time[c])
             gone == Minus(tm, time[c])
             d == due[c] + gone
  <1>1. /\ c \in Event /\ c \in Cyc /\ stat[c] = "STA" /\ due[c] \in Int
        /\ x \in -ABSTIM_DIFF_MIN .. 0 /\ x > -TIMER_PERIOD /\ x - due[c] \in 1 .. TIMER_PERIOD
        /\ Tail(timer_queue) \in Queues /\ ~ In(c, Tail(timer_queue)) /\ Ordered(Tail(timer_queue), time)
    BY HeadReached DEF knl_call_cychdr
  <1>2. /\ knl_timer_insert_abs(Tail(timer_queue), c, tm) /\ due' = [due EXCEPT ![c] = d]
        /\ current_time' = current_time /\ stat' = stat /\ cyctim' = cyctim /\ phs' = phs /\ interrupt' = "user"
    BY DEF knl_call_cychdr
  <1>3. cycle \in 1 .. LONGEST /\ time[c] \in Clock /\ current_time \in Clock
    BY <1>1, SetTypes
  <1>4. tm \in Clock /\ Ahead(current_time, tm) \in 1 .. ABSTIM_DIFF_MIN + 1
        /\ \E n \in Nat \ {0} : /\ Ahead(current_time, tm) = x + n * cycle
                                /\ (n - 1) * cycle <= (IF x < 0 THEN -x ELSE 0)
    <2>1. x <= TIMER_PERIOD
      BY <1>1, Width
    <2> HIDE DEF cycle
    <2> QED
      BY <1>3, <2>1, NextTimeIs
  <1> DEFINE a == Ahead(current_time, tm)
  <1>5. gone = a - x
    <2>1. x \in { time[c] - current_time, time[c] - current_time + W, time[c] - current_time - W }
      BY <1>3, AheadType
    <2>2. a \in { tm - current_time, tm - current_time + W, tm - current_time - W }
      BY <1>3, <1>4, AheadType
    <2>3. gone = IF tm < time[c] THEN tm - time[c] + W ELSE tm - time[c]
      BY <1>3, <1>4, MinusIs
    <2>4. a \in 1 .. ABSTIM_DIFF_MIN + 1
      BY <1>4
    <2> HIDE DEF gone, a, x, tm
    <2> QED
      BY <1>1, <1>3, <1>4, <2>1, <2>2, <2>3, <2>4, Width DEF Clock
  <1>6. a \in 1 .. ABSTIM_DIFF_MIN + 1
    BY <1>4
  <1>7. PICK n \in Nat \ {0} : a = x + n * cycle /\ (n - 1) * cycle <= (IF x < 0 THEN -x ELSE 0)
    BY <1>4
  <1> HIDE DEF gone, a, x, tm, cycle
  <1>8. d \in Int /\ a - d \in 1 .. TIMER_PERIOD
    BY <1>1, <1>5, <1>6, Width
  <1>9. Timed'
    <2>1. stat' = [stat EXCEPT ![c] = "STA"]
      BY <1>1, <1>2 DEF IInv, Stats
    <2> HIDE DEF c, d
    <2>2. /\ cyctim' \in [Cyc -> 1 .. LONGEST] /\ phs' \in [Cyc -> BOOLEAN]
          /\ interrupt' \in {"off", "loop", "user"} /\ interrupt' # "off"
      BY <1>2, SetTypes
    <2>3. Ahead(current_time, tm) > 0 /\ Ahead(current_time, tm) - d \in 1 .. TIMER_PERIOD
      BY <1>6, <1>8 DEF a
    <2> QED
      BY <1>1, <1>2, <1>4, <1>8, <2>1, <2>2, <2>3, SetTimed
  <1>10. Countdown_!Happen(c)
    <2>1. /\ n \in 1 .. 2 * TIMER_PERIOD /\ (cycle >= TIMER_PERIOD => n = 1) /\ n * cycle = gone
      <3>1. (n - 1) * cycle < TIMER_PERIOD
        <4> DEFINE m == (n - 1) * cycle
        <4>1. m \in Int /\ m <= (IF x < 0 THEN -x ELSE 0)
          BY <1>3, <1>7
        <4> HIDE DEF m
        <4>2. x \in Int /\ -x < TIMER_PERIOD /\ TIMER_PERIOD \in Nat \ {0}
          BY <1>1, Width
        <4>3. m < TIMER_PERIOD
          BY <4>1, <4>2
        <4> QED
          BY <4>3 DEF m
      <3>2. n * cycle = gone
        BY <1>1, <1>3, <1>5, <1>7
      <3>3. n - 1 < TIMER_PERIOD
        BY <1>3, <3>1, Width
      <3>4. cycle >= TIMER_PERIOD => n = 1
        BY <1>3, <3>1, Width
      <3> QED
        BY <3>2, <3>3, <3>4, Width
    <2>2. due[c] <= 0 /\ due[c] # Off
      BY <1>1, Width, KernelTimerAssumption
    <2>3. Cycles[c] = cycle /\ cycle > 0 /\ Cycles' = Cycles
      BY <1>1, <1>2, <1>3 DEF Cycles, cycle
    <2>4. due' = [due EXCEPT ![c] = @ + n * cycle]
      BY <1>2, <2>1
    <2>5. due'[c] > -TIMER_PERIOD
      <3>1. due'[c] = d
        BY <1>1, <1>2, SetTypes
      <3> QED
        BY <1>6, <1>8, <3>1, Width
    <2> HIDE DEF c, d
    <2> QED
      BY <1>1, <2>1, <2>2, <2>3, <2>4, <2>5 DEF Countdown_!Happen, Countdown_!Running, Cycles
  <1> QED
    BY <1>1, <1>9, <1>10

(* An alarm and a time-out have happened once and for all. *)
LEMMA CallTimed ==
  ASSUME IInv, Timed, knl_call_almhdr \/ knl_wait_release_tmout
  PROVE  Timed' /\ \E e \in Event : Countdown_!Happen(e)
  <1> DEFINE e == Head(timer_queue)
  <1>1. /\ e \in Event /\ stat[e] = "STA" /\ due[e] \in Int
        /\ Ahead(current_time, time[e]) \in -ABSTIM_DIFF_MIN .. 0
        /\ Ahead(current_time, time[e]) - due[e] \in 1 .. TIMER_PERIOD
        /\ Tail(timer_queue) \in Queues /\ ~ In(e, Tail(timer_queue)) /\ Ordered(Tail(timer_queue), time)
    BY HeadReached DEF knl_call_almhdr, knl_wait_release_tmout
  <1>2. /\ timer_queue' = Tail(timer_queue) /\ stat' = [stat EXCEPT ![e] = "STP"]
        /\ due' = [due EXCEPT ![e] = Off] /\ (time' = time \/ time' = [time EXCEPT ![e] = 0])
        /\ e \in Alm \cup Tcb
    BY DEF knl_call_almhdr, knl_wait_release_tmout, Forget
  <1>3. /\ current_time' = current_time /\ cyctim' = cyctim /\ phs' = phs
        /\ interrupt = "loop" /\ interrupt' \in {"loop", "user"}
    BY DEF knl_call_almhdr, knl_wait_release_tmout, Reached
  <1>4. Others(e)
    BY <1>3, SetTypes DEF Others
  <1> HIDE DEF e
  <1>5. Timed'
    BY <1>1, <1>2, <1>4, SetTypes, CancelTimed
  <1>6. due[e] <= 0 /\ due[e] # Off
    BY <1>1, Width, KernelTimerAssumption
  <1>7. Cycles[e] = 0 /\ Cycles' = Cycles
    BY <1>1, <1>2, <1>3, KernelTimerAssumption DEF Cycles
  <1>8. Countdown_!Happen(e)
    BY <1>1, <1>2, <1>6, <1>7 DEF Countdown_!Happen, Countdown_!Running, Cycles
  <1> QED
    BY <1>1, <1>5, <1>8

(* While the interrupt is off all that are set are ahead, so that none is
   late by a period when the clock goes on. *)
LEMMA TickTimed ==
  ASSUME IInv, Timed, Tick
  PROVE  Timed' /\ Countdown_!Tick
  <1>1. /\ interrupt = "off" /\ interrupt' = "loop" /\ current_time' = Plus(current_time, TIMER_PERIOD)
        /\ due' = [e \in Event |-> IF due[e] = Off THEN Off ELSE due[e] - TIMER_PERIOD]
        /\ timer_queue' = timer_queue /\ time' = time /\ stat' = stat /\ cyctim' = cyctim /\ phs' = phs
    BY DEF Tick
  <1>2. ASSUME NEW e \in Event, stat[e] = "STA"
        PROVE  /\ due[e] \in Int /\ due[e] # Off /\ due[e] > -TIMER_PERIOD
               /\ Ahead(current_time, time[e]) \in Int /\ Ahead(current_time, time[e]) > 0
               /\ Ahead(current_time, time[e]) - due[e] \in 1 .. TIMER_PERIOD
               /\ Ahead(current_time', time[e]) = Ahead(current_time, time[e]) - TIMER_PERIOD
               /\ current_time' \in Clock
    <2>1. /\ due[e] \in Int /\ Ahead(current_time, time[e]) > 0
          /\ Ahead(current_time, time[e]) - due[e] \in 1 .. TIMER_PERIOD
      BY <1>1, <1>2 DEF Timed, KeepsTime
    <2>2. current_time \in Clock /\ time[e] \in Clock
      BY SetTypes
    <2>3. Ahead(current_time, time[e]) \in Int
      BY <2>2, AheadType
    <2>4. due[e] # Off /\ due[e] > -TIMER_PERIOD
      BY <2>1, <2>3, Width, KernelTimerAssumption
    <2>5. Ahead(current_time', time[e]) = Ahead(current_time, time[e]) - TIMER_PERIOD /\ current_time' \in Clock
      BY <1>1, <2>1, <2>2, AheadTicks
    <2> QED
      BY <2>1, <2>3, <2>4, <2>5
  <1>3. current_time' \in Clock
    <2>1. current_time \in Int /\ TIMER_PERIOD \in Int /\ -W <= current_time + TIMER_PERIOD
          /\ current_time + TIMER_PERIOD < 2 * W
      BY SetTypes, Width DEF Clock
    <2> QED
      BY <1>1, <2>1, PlusIs
  <1>4. due' \in [Event -> Int \cup {Off}]
    <2>1. \A e \in Event : due[e] = Off \/ due[e] - TIMER_PERIOD \in Int
      BY SetTypes, Width
    <2> QED
      BY <1>1, <2>1
  <1>5. TimesTyped'
    BY <1>1, <1>3, <1>4, SetTypes DEF TimesTyped
  <1>6. Ordered(timer_queue, time)'
    <2> SUFFICES ASSUME NEW i \in DOMAIN timer_queue, NEW j \in DOMAIN timer_queue, i < j
                 PROVE  Ahead(current_time', time[timer_queue[i]]) <= Ahead(current_time', time[timer_queue[j]])
      BY <1>1 DEF Ordered
    <2> DEFINE a == timer_queue[i]
               b == timer_queue[j]
    <2>1. a \in Event /\ b \in Event /\ In(a, timer_queue) /\ In(b, timer_queue)
      BY SetTypes DEF In, Queues
    <2>2. stat[a] = "STA" /\ stat[b] = "STA"
      BY <2>1 DEF IInv
    <2>3. Ahead(current_time, time[a]) <= Ahead(current_time, time[b])
      BY SetTypes DEF Ordered
    <2> HIDE DEF a, b
    <2>4. Ahead(current_time', time[a]) <= Ahead(current_time', time[b])
      BY <1>2, <2>1, <2>2, <2>3, Width
    <2> QED
      BY <2>4 DEF a, b
  <1>7. ASSUME NEW e \in Event PROVE IF stat'[e] = "STA" THEN KeepsTime(e)' ELSE due'[e] = Off
    <2>1. CASE stat[e] = "STA"
      <3>1. due'[e] = due[e] - TIMER_PERIOD
        BY <1>1, <1>2, <2>1
      <3>2. due'[e] \in Int /\ Ahead(current_time', time[e]) - due'[e] \in 1 .. TIMER_PERIOD
            /\ Ahead(current_time', time[e]) > -TIMER_PERIOD
        BY <1>2, <2>1, <3>1, Width
      <3> QED
        BY <1>1, <2>1, <3>2 DEF KeepsTime
    <2>2. CASE stat[e] # "STA"
      <3>1. due[e] = Off
        BY <2>2 DEF Timed
      <3> QED
        BY <1>1, <2>2, <3>1
    <2> QED
      BY <2>1, <2>2
  <1>8. Timed'
    BY <1>5, <1>6, <1>7 DEF Timed
  <1>9. Countdown_!Tick
    <2>1. \A e \in Event : due[e] # Off => due[e] > -TIMER_PERIOD
      BY <1>2 DEF Timed
    <2>2. due' = [e \in Event |-> IF due[e] # Off THEN due[e] - TIMER_PERIOD ELSE Off]
      BY <1>1
    <2>3. Cycles' = Cycles
      BY <1>1 DEF Cycles
    <2> QED
      BY <2>1, <2>2, <2>3 DEF Countdown_!Tick, Countdown_!Running, Cycles
  <1> QED
    BY <1>8, <1>9

(* The loop ends when the first event of the queue, and so every other, is
   still ahead. *)
LEMMA EndsTimed ==
  ASSUME IInv, Timed, InterruptEnds
  PROVE  Timed'
  <1>1. interrupt = "loop" /\ interrupt' = "off" /\ ~ Reached
        /\ UNCHANGED << current_time, timer_queue, time, stat, cyctim, phs, due >>
    BY DEF InterruptEnds
  <1>2. ASSUME NEW e \in Event, stat[e] = "STA" PROVE Ahead(current_time, time[e]) > 0
    <2>1. PICK i \in DOMAIN timer_queue : timer_queue[i] = e
      BY <1>2 DEF IInv, In
    <2>2. timer_queue # << >> /\ 1 \in DOMAIN timer_queue /\ i \in Nat \ {0} /\ Head(timer_queue) = timer_queue[1]
          /\ timer_queue[1] \in Event
      BY SetTypes DEF Queues
    <2>3. ~ knl_abstim_reached(current_time, time[timer_queue[1]])
      BY <1>1, <2>2 DEF Reached
    <2>4. current_time \in Clock /\ time[timer_queue[1]] \in Clock /\ time[e] \in Clock
      BY <2>2, SetTypes
    <2>5. Ahead(current_time, time[timer_queue[1]]) > 0
      <3>1. Ahead(current_time, time[timer_queue[1]]) \in Int
        BY <2>4, AheadType
      <3> QED
        BY <2>3, <2>4, <3>1, ReachedIs
    <2>6. i = 1 \/ Ahead(current_time, time[timer_queue[1]]) <= Ahead(current_time, time[e])
      BY <2>1, <2>2, SetTypes DEF Ordered
    <2>7. Ahead(current_time, time[timer_queue[1]]) \in Int /\ Ahead(current_time, time[e]) \in Int
      BY <2>4, AheadType
    <2> QED
      BY <2>1, <2>5, <2>6, <2>7
  <1>3. TimesTyped'
    BY <1>1, SetTypes DEF TimesTyped
  <1>4. Ordered(timer_queue, time)'
    BY <1>1 DEF Ordered, Timed
  <1>5. \A e \in Event : IF stat'[e] = "STA" THEN KeepsTime(e)' ELSE due'[e] = Off
    BY <1>1, <1>2 DEF Timed, KeepsTime
  <1> QED
    BY <1>3, <1>4, <1>5 DEF Timed

LEMMA ReturnsTimed ==
  ASSUME IInv, Timed, HandlerReturns
  PROVE  Timed'
  <1>1. interrupt = "user" /\ interrupt' = "loop"
        /\ UNCHANGED << current_time, timer_queue, time, stat, cyctim, phs, due >>
    BY DEF HandlerReturns
  <1>2. TimesTyped' /\ Ordered(timer_queue, time)'
    BY <1>1, SetTypes DEF TimesTyped, Ordered
  <1>3. \A e \in Event : IF stat'[e] = "STA" THEN KeepsTime(e)' ELSE due'[e] = Off
    BY <1>1 DEF Timed, KeepsTime
  <1> QED
    BY <1>2, <1>3 DEF Timed

LEMMA StepTimed == IInv /\ Timed /\ [Next]_vars => Timed' /\ CountStep
  <1> SUFFICES ASSUME IInv, Timed, [Next]_vars PROVE Timed' /\ CountStep
    OBVIOUS
  <1>1. CASE Tick
    BY <1>1, TickTimed DEF CountStep, Countdown_!Next, Cycles
  <1>2. CASE Called
    BY <1>2, CallCycTimed, CallTimed DEF Called, CountStep, Countdown_!Next, Cycles
  <1>3. CASE HandlerReturns \/ InterruptEnds
    <2>1. due' = due /\ Cycles' = Cycles
      BY <1>3 DEF HandlerReturns, InterruptEnds, Cycles
    <2> QED
      BY <1>3, <2>1, ReturnsTimed, EndsTimed DEF CountStep
  <1>4. CASE \E e \in Event : Sets(e)
    <2>1. PICK e \in Event : Sets(e)
      BY <1>4
    <2>2. Timed' /\ (Countdown_!Set(e) \/ Countdown_!Cancel(e) \/ UNCHANGED << due, Cycles >>)
      BY <2>1, WaitTimed, CreCycTimed, StaCycTimed, StaAlmTimed DEF Sets
    <2> QED
      BY <2>2 DEF CountStep, Countdown_!Next, Cycles
  <1>5. CASE \E e \in Event : Unsets(e)
    BY <1>5, UnsetsTimed DEF CountStep, Countdown_!Next, Cycles
  <1>6. CASE UNCHANGED vars
    BY <1>6 DEF vars, Timed, TimesTyped, Ordered, KeepsTime, CountStep, Cycles
  <1> QED
    BY <1>1, <1>2, <1>3, <1>4, <1>5, <1>6 DEF Next, knl_timer_handler

LEMMA InitTimed == Init => Timed /\ Countdown_!Init
  <1> SUFFICES ASSUME Init PROVE Timed /\ Countdown_!Init
    OBVIOUS
  <1>1. 0 \in Clock /\ 1 \in 1 .. LONGEST
    BY Width DEF Clock, LONGEST
  <1>2. TimesTyped
    BY <1>1 DEF Init, TimesTyped
  <1>3. Ordered(timer_queue, time)
    BY DEF Init, Ordered
  <1>4. \A e \in Event : stat[e] # "STA" /\ due[e] = Off
    BY DEF Init
  <1>5. Cycles \in [Event -> Nat]
    BY <1>2, Width DEF Cycles, TimesTyped
  <1>6. due = [e \in Event |-> Off]
    BY DEF Init
  <1> QED
    BY <1>2, <1>3, <1>4, <1>5, <1>6 DEF Timed, Countdown_!Init, Cycles

LEMMA TimedTypes == IInv /\ Timed => TypeOK
  <1> SUFFICES ASSUME IInv, Timed PROVE TypeOK
    OBVIOUS
  <1>1. cyctim \in [Cyc -> Nat \ {0}]
    BY Width DEF Timed, TimesTyped
  <1> QED
    BY <1>1 DEF TypeOK, IInv, Timed, TimesTyped, Clock, Queues, Stats

LEMMA TimedTold == IInv /\ Timed => LeftTold
  <1> SUFFICES ASSUME IInv, Timed, NEW e \in Cyc \cup Alm, stat[e] = "STA", interrupt = "off"
               PROVE  LET told == IF e \in Cyc THEN tk_ref_cyc(e) ELSE tk_ref_alm(e)
                          left == IF due[e] > 0 THEN due[e] ELSE 0
                      IN  told \in left - TIMER_PERIOD + 1 .. left
    BY DEF LeftTold
  <1> DEFINE soon == Plus(current_time, TIMER_PERIOD)
             x == Ahead(current_time, time[e])
  <1>1. e \in Event /\ current_time \in Clock /\ time[e] \in Clock
    BY SetTypes DEF Event
  <1>2. due[e] \in Int /\ x - due[e] \in 1 .. TIMER_PERIOD /\ x > 0
    BY <1>1 DEF Timed, KeepsTime
  <1>3. x \in 1 .. ABSTIM_DIFF_MIN + 1
    BY <1>1, <1>2, AheadType, Width
  <1>4. soon \in Clock /\ Ahead(soon, time[e]) = x - TIMER_PERIOD
    BY <1>1, <1>2, AheadTicks
  <1>5. (IF e \in Cyc THEN tk_ref_cyc(e) ELSE tk_ref_alm(e)) = Left(time[e])
    BY DEF tk_ref_cyc, tk_ref_alm
  <1>6. Left(time[e]) = IF knl_abstim_reached(soon, time[e]) THEN 0 ELSE Minus(time[e], soon)
    BY DEF Left
  <1> HIDE DEF soon, x
  <1>7. Left(time[e]) = IF x <= TIMER_PERIOD THEN 0 ELSE x - TIMER_PERIOD
    <2>1. CASE x <= TIMER_PERIOD
      BY <1>1, <1>3, <1>4, <1>6, <2>1, ReachedIs, Width
    <2>2. CASE x > TIMER_PERIOD
      <3>1. x - TIMER_PERIOD >= 0 /\ ~ (x - TIMER_PERIOD <= 0)
        BY <1>3, <2>2, Width
      <3>2. ~ knl_abstim_reached(soon, time[e])
        BY <1>1, <1>4, <3>1, ReachedIs
      <3>3. Minus(time[e], soon) = x - TIMER_PERIOD
        BY <1>1, <1>4, <3>1, MinusAhead
      <3> QED
        BY <1>3, <1>6, <2>2, <3>2, <3>3, Width
    <2> QED
      BY <1>3, <2>1, <2>2, Width
  <1> DEFINE told == Left(time[e])
             left == IF due[e] > 0 THEN due[e] ELSE 0
  <1>8. told \in left - TIMER_PERIOD + 1 .. left
    BY <1>2, <1>3, <1>7, Width
  <1> QED
    BY <1>5, <1>8

(***************************************************************************)
(* The clock and all times keep to the clock's range, and what is in the   *)
(* queue are events.                                                       *)
(***************************************************************************)
THEOREM TypeCorrect == Spec => []TypeOK
  <1>1. Init => IInv /\ Timed
    BY InitHolds, InitTimed
  <1>2. IInv /\ Timed /\ [Next]_vars => (IInv /\ Timed)'
    BY StepHolds, StepTimed
  <1> QED
    BY <1>1, <1>2, TimedTypes, PTL DEF Spec

(***************************************************************************)
(* What tk_ref_cyc and tk_ref_alm say is left (time_calls.c:584, 1049) is   *)
(* not more than what is left of the time asked for, and less by a period  *)
(* at most, wherever the clock wraps around.                               *)
(***************************************************************************)
THEOREM TellsWhatIsLeft == Spec => []LeftTold
  <1>1. Init => IInv /\ Timed
    BY InitHolds, InitTimed
  <1>2. IInv /\ Timed /\ [Next]_vars => (IInv /\ Timed)'
    BY StepHolds, StepTimed
  <1> QED
    BY <1>1, <1>2, TimedTold, PTL DEF Spec

(***************************************************************************)
(* The clock that wraps around, the queue sorted by the distance from it   *)
(* and the handlers' calls implement the countdown: nothing is called      *)
(* before the time given has passed in full, and nothing two periods       *)
(* later (timer.c:105), for any number of events, any width of the clock    *)
(* and any period of the interrupt.                                        *)
(***************************************************************************)
THEOREM CountsDown == Spec => IsCountdown
  <1>1. Init => IInv /\ Timed /\ Countdown_!Init
    BY InitHolds, InitTimed
  <1>2. IInv /\ Timed /\ [Next]_vars => (IInv /\ Timed)'
    BY StepHolds, StepTimed
  <1>3. IInv /\ Timed /\ [Next]_vars => [Countdown_!Next]_<< due, Cycles >>
    BY StepTimed DEF CountStep
  <1> QED
    BY <1>1, <1>2, <1>3, PTL DEF Spec, IsCountdown, Countdown_!Spec, Cycles
=============================================================================
