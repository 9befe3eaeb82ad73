-------------------------- MODULE KernelQueueProof --------------------------
(***************************************************************************)
(* What the routines of the kernel that calls are made of do to its        *)
(* invariant: those that put tasks into queues and take them out, change   *)
(* priorities, hand on mutexes and start or end a task.  Loops over a      *)
(* queue are followed turn by turn (Turns).  Nothing is assumed of how     *)
(* many tasks and objects there are.                                       *)
(***************************************************************************)
EXTENDS KernelInvariant, FiniteSetTheorems, SequenceTheorems, WellFoundedInduction, TLAPS

-----------------------------------------------------------------------------
(***************************************************************************)
(* Lines: sequences in which each element of a set is once.                *)
(***************************************************************************)

(* A set of numbers has a least one. *)
LEMMA LeastNumber ==
  ASSUME NEW T \in SUBSET Nat, T # {}
  PROVE  \E x \in T : \A y \in T : x <= y
<1> DEFINE R == OpToRel(<, Nat)
<1>1. IsWellFoundedOn(R, Nat)
  BY NatLessThanWellFounded
<1>2. \A x, y \in Nat : << x, y >> \in R <=> x < y
  BY DEF OpToRel
<1> HIDE DEF R
<1>3. PICK x \in T : \A y \in T : ~ (<< y, x >> \in R)
  BY <1>1, WFMin
<1>4. \A y \in T : ~ (y < x)
  BY <1>2, <1>3
<1>5. \A y \in T : x <= y
  BY <1>4
<1> QED
  BY <1>5

(* Min is that one. *)
LEMMA MinIn ==
  ASSUME NEW S \in SUBSET Nat, S # {}
  PROVE  Min(S) \in S /\ \A y \in S : Min(S) <= y
<1>1. PICK x \in S : \A y \in S : x <= y
  BY LeastNumber
<1> QED
  BY <1>1 DEF Min

(* Induction up to n. *)
LEMMA InductionTo ==
  ASSUME NEW n \in Nat, NEW S, 0 \in S, \A k \in 0 .. n - 1 : k \in S => k + 1 \in S
  PROVE  \A k \in 0 .. n : k \in S
<1> DEFINE T == { k \in 0 .. n : k \notin S }
<1> SUFFICES ASSUME T # {} PROVE FALSE
  OBVIOUS
<1>1. T \in SUBSET Nat
  OBVIOUS
<1>2. PICK x \in T : \A y \in T : x <= y
  <2> HIDE DEF T
  <2> QED
    BY <1>1, LeastNumber
<1>3. x \in 0 .. n /\ x \notin S /\ x # 0
  BY <1>2
<1>4. x - 1 \in 0 .. n - 1 /\ x - 1 \notin T
  BY <1>2, <1>3
<1>5. x - 1 \in S
  BY <1>4
<1>6. (x - 1) + 1 \in S
  BY <1>4, <1>5
<1> QED
  BY <1>3, <1>6

(* q is queue with e put in at k. *)
Inserted(q, queue, k, e) ==
  /\ Len(q) = Len(queue) + 1 /\ DOMAIN q = 1 .. Len(queue) + 1
  /\ \A i \in 1 .. Len(queue) + 1 :
       q[i] = IF i < k THEN queue[i] ELSE IF i = k THEN e ELSE queue[i - 1]

(* Where the elements are after one is put in at k. *)
LEMMA InsertIs ==
  ASSUME NEW S, NEW queue \in Seq(S), NEW k \in 1 .. Len(queue) + 1, NEW e \in S
  PROVE  /\ InsertAt(queue, k, e) \in Seq(S)
         /\ Inserted(InsertAt(queue, k, e), queue, k, e)
<1> DEFINE n == Len(queue)
           q == InsertAt(queue, k, e)
<1>1. n \in Nat /\ DOMAIN queue = 1 .. n /\ k \in 1 .. n + 1
  OBVIOUS
<1>2. /\ q \in Seq(S) /\ Len(q) = n + 1 /\ DOMAIN q = 1 .. n + 1
      /\ \A i \in 1 .. n + 1 : q[i] = IF i < k THEN queue[i] ELSE IF i = k THEN e ELSE queue[i - 1]
  <2> DEFINE a == SubSeq(queue, 1, k - 1)
             b == SubSeq(queue, k, n)
  <2>1. a \in Seq(S) /\ Len(a) = k - 1 /\ \A i \in 1 .. k - 1 : a[i] = queue[i]
    BY <1>1
  <2>2. b \in Seq(S) /\ Len(b) = n - k + 1 /\ \A i \in 1 .. n - k + 1 : b[i] = queue[k + i - 1]
    BY <1>1
  <2>3. q = a \o << e >> \o b
    BY DEF InsertAt
  <2> HIDE DEF n, q, a, b
  <2> DEFINE c == a \o << e >>
  <2>4. c \in Seq(S) /\ Len(c) = k /\ \A i \in 1 .. k : c[i] = IF i < k THEN queue[i] ELSE e
    BY <1>1, <2>1
  <2> HIDE DEF c
  <2>5. q = c \o b
    BY <2>3 DEF c
  <2>6. q \in Seq(S) /\ Len(q) = n + 1
    <3>1. c \in Seq(S) /\ b \in Seq(S) /\ Len(c) = k /\ Len(b) = n - k + 1
      BY <2>2, <2>4
    <3>2. c \o b \in Seq(S) /\ Len(c \o b) = Len(c) + Len(b)
      BY <3>1
    <3> QED
      BY <1>1, <2>5, <3>1, <3>2
  <2>7. \A i \in 1 .. k : q[i] = c[i]
    BY <1>1, <2>2, <2>4, <2>5
  <2>8. \A i \in k + 1 .. n + 1 : q[i] = b[i - k]
    BY <1>1, <2>2, <2>4, <2>5
  <2>9. \A i \in k + 1 .. n + 1 : q[i] = queue[i - 1]
    <3> SUFFICES ASSUME NEW i \in k + 1 .. n + 1 PROVE q[i] = queue[i - 1]
      OBVIOUS
    <3>1. i - k \in 1 .. n - k + 1 /\ k + (i - k) - 1 = i - 1
      BY <1>1
    <3> QED
      BY <2>2, <2>8, <3>1
  <2>10. ASSUME NEW i \in 1 .. n + 1
         PROVE  q[i] = IF i < k THEN queue[i] ELSE IF i = k THEN e ELSE queue[i - 1]
    <3>1. CASE i <= k
      BY <1>1, <2>4, <2>7, <3>1
    <3>2. CASE k < i
      <4>1. i \in k + 1 .. n + 1 /\ ~ (i < k) /\ i # k
        BY <1>1, <3>2
      <4> QED
        BY <2>9, <4>1
    <3> QED
      BY <1>1, <3>1, <3>2
  <2>11. DOMAIN q = 1 .. n + 1
    BY <2>6
  <2> QED
    BY <2>6, <2>10, <2>11
<1> QED
  BY <1>2 DEF Inserted

(* Who is in a line with a new element. *)
LEMMA InsertLine ==
  ASSUME NEW S, NEW queue, IsLine(queue, S), NEW k \in 1 .. Len(queue) + 1, NEW e, e \notin S
  PROVE  IsLine(InsertAt(queue, k, e), S \cup {e})
<1> DEFINE n == Len(queue)
           q == InsertAt(queue, k, e)
<1>1. queue \in Seq(S \cup {e}) /\ n \in Nat /\ DOMAIN queue = 1 .. n /\ k \in 1 .. n + 1
  BY DEF IsLine
<1>2. q \in Seq(S \cup {e}) /\ Inserted(q, queue, k, e)
  BY <1>1, InsertIs
<1>3. \A i \in 1 .. n : queue[i] \in S
  BY <1>1 DEF IsLine
<1> HIDE DEF q
<1>4. /\ DOMAIN q = 1 .. n + 1
      /\ \A i \in 1 .. n + 1 : q[i] = IF i < k THEN queue[i] ELSE IF i = k THEN e ELSE queue[i - 1]
  BY <1>2 DEF Inserted
<1>5. Once(q)
  <2> SUFFICES ASSUME NEW i \in 1 .. n + 1, NEW j \in 1 .. n + 1, q[i] = q[j] PROVE i = j
    BY <1>4 DEF Once
  <2>1. \A x, y \in 1 .. n : queue[x] = queue[y] => x = y
    BY <1>1 DEF IsLine, Once
  <2>2. (i < k => i \in 1 .. n) /\ (i > k => i - 1 \in 1 .. n)
        /\ (j < k => j \in 1 .. n) /\ (j > k => j - 1 \in 1 .. n)
    BY <1>1
  <2> HIDE DEF n
  <2>3. CASE i = k
    BY <1>1, <1>3, <1>4, <2>2, <2>3
  <2>4. CASE j = k
    BY <1>1, <1>3, <1>4, <2>2, <2>4
  <2>5. CASE i # k /\ j # k
    BY <1>1, <1>4, <2>1, <2>2, <2>5
  <2> QED
    BY <2>3, <2>4, <2>5
<1>6. ASSUME NEW t \in S \cup {e} PROVE \E i \in 1 .. n + 1 : q[i] = t
  <2>1. CASE t = e
    BY <1>1, <1>4, <2>1
  <2>2. CASE t \in S
    <3>1. PICK i \in 1 .. n : queue[i] = t
      BY <1>1, <2>2 DEF IsLine
    <3>2. CASE i < k
      BY <1>1, <1>4, <3>1, <3>2
    <3>3. CASE i >= k
      <4>1. i + 1 \in 1 .. n + 1 /\ ~ (i + 1 < k) /\ i + 1 # k /\ (i + 1) - 1 = i
        BY <1>1, <3>3
      <4> QED
        BY <1>4, <3>1, <4>1
    <3> QED
      BY <1>1, <3>2, <3>3
  <2> QED
    BY <2>1, <2>2
<1> QED
  BY <1>2, <1>4, <1>5, <1>6 DEF IsLine, q

LEMMA AppendLine ==
  ASSUME NEW S, NEW queue, IsLine(queue, S), NEW e, e \notin S
  PROVE  IsLine(Append(queue, e), S \cup {e})
<1> DEFINE n == Len(queue)
           q == Append(queue, e)
<1>1. queue \in Seq(S \cup {e}) /\ n \in Nat /\ DOMAIN queue = 1 .. n
  BY DEF IsLine
<1>2. q \in Seq(S \cup {e}) /\ DOMAIN q = 1 .. n + 1 /\ q[n + 1] = e /\ \A i \in 1 .. n : q[i] = queue[i]
  BY <1>1
<1>3. /\ \A i \in 1 .. n : queue[i] \in S
      /\ \A x, y \in 1 .. n : queue[x] = queue[y] => x = y
      /\ \A t \in S : \E i \in 1 .. n : queue[i] = t
  BY <1>1 DEF IsLine, Once
<1> HIDE DEF q
<1>4. Once(q)
  <2> SUFFICES ASSUME NEW i \in 1 .. n + 1, NEW j \in 1 .. n + 1, q[i] = q[j] PROVE i = j
    BY <1>2 DEF Once
  <2>1. (i = n + 1 \/ i \in 1 .. n) /\ (j = n + 1 \/ j \in 1 .. n)
    BY <1>1
  <2> QED
    BY <1>2, <1>3, <2>1
<1>5. \A t \in S \cup {e} : \E i \in 1 .. n + 1 : q[i] = t
  <2>1. n + 1 \in 1 .. n + 1 /\ \A i \in 1 .. n : i \in 1 .. n + 1
    BY <1>1
  <2> QED
    BY <1>2, <1>3, <2>1
<1> QED
  BY <1>2, <1>4, <1>5 DEF IsLine, q

(* An element is taken out of a line. *)
LEMMA RemoveFirstIs ==
  ASSUME NEW S, NEW queue \in Seq(S), NEW e
  PROVE  \/ /\ \A i \in DOMAIN queue : queue[i] # e
            /\ RemoveFirst(queue, e) = queue
         \/ \E k \in DOMAIN queue :
              queue[k] = e /\ RemoveFirst(queue, e) = SubSeq(queue, 1, k - 1) \o SubSeq(queue, k + 1, Len(queue))
<1> DEFINE I == { i \in 1 .. Len(queue) : queue[i] = e }
<1>1. DOMAIN queue = 1 .. Len(queue) /\ I \in SUBSET Nat
  OBVIOUS
<1>2. CASE I = {}
  <2>1. \A i \in DOMAIN queue : queue[i] # e
    BY <1>1, <1>2
  <2> QED
    BY <1>1, <2>1 DEF RemoveFirst
<1>3. CASE I # {}
  <2>1. Min(I) \in I
    BY <1>1, <1>3, MinIn
  <2>2. SelectInSeq(queue, LAMBDA v : v = e) = Min(I)
    BY <1>3 DEF SelectInSeq
  <2>3. RemoveFirst(queue, e) = RemoveAt(queue, Min(I))
    BY <1>3, <2>2 DEF RemoveFirst
  <2> QED
    BY <1>1, <2>1, <2>3 DEF RemoveAt
<1> QED
  BY <1>2, <1>3

LEMMA RemoveLine ==
  ASSUME NEW S, NEW queue, IsLine(queue, S), NEW e
  PROVE  /\ IsLine(RemoveFirst(queue, e), S \ {e})
         /\ \A pri : Ordered(pri, queue) => Ordered(pri, RemoveFirst(queue, e))
<1> DEFINE n == Len(queue)
           q == RemoveFirst(queue, e)
<1>1. queue \in Seq(S) /\ n \in Nat /\ DOMAIN queue = 1 .. n
  BY DEF IsLine
<1>2. /\ \A i \in 1 .. n : queue[i] \in S
      /\ \A x, y \in 1 .. n : queue[x] = queue[y] => x = y
      /\ \A t \in S : \E i \in 1 .. n : queue[i] = t
  BY <1>1 DEF IsLine, Once
<1>3. CASE (\A i \in DOMAIN queue : queue[i] # e) /\ q = queue
  <2>1. S \ {e} = S
    BY <1>1, <1>2, <1>3
  <2> QED
    BY <1>3, <2>1
<1>4. CASE \E k \in DOMAIN queue : queue[k] = e /\ q = SubSeq(queue, 1, k - 1) \o SubSeq(queue, k + 1, Len(queue))
  <2>1. PICK k \in 1 .. n : queue[k] = e /\ q = SubSeq(queue, 1, k - 1) \o SubSeq(queue, k + 1, n)
    BY <1>1, <1>4
  <2> DEFINE a == SubSeq(queue, 1, k - 1)
             b == SubSeq(queue, k + 1, n)
  <2>2. a \in Seq(S) /\ Len(a) = k - 1 /\ \A i \in 1 .. k - 1 : a[i] = queue[i]
    BY <1>1
  <2>3. b \in Seq(S) /\ Len(b) = n - k /\ \A i \in 1 .. n - k : b[i] = queue[k + i]
    <3>1. b \in Seq(S) /\ Len(b) = n - k
      <4>1. k + 1 \in Int /\ n \in Int /\ \A i \in k + 1 .. n : queue[i] \in S
        BY <1>1, <1>2, <2>1
      <4>2. b \in Seq(S) /\ Len(b) = IF k + 1 <= n THEN n - (k + 1) + 1 ELSE 0
        BY <1>1, <4>1, SubSeqProperties
      <4>3. k \in 1 .. n
        BY <2>1
      <4> HIDE DEF b, n
      <4> QED
        BY <1>1, <4>2, <4>3
    <3>2. ASSUME NEW i \in 1 .. n - k PROVE b[i] = queue[k + i]
      BY <1>1, <3>2
    <3> QED
      BY <3>1, <3>2
  <2> HIDE DEF a, b, q, n
  <2>4. q = a \o b
    BY <2>1 DEF a, b
  <2>5. q \in Seq(S) /\ Len(q) = n - 1 /\ DOMAIN q = 1 .. n - 1
    <3>1. a \in Seq(S) /\ b \in Seq(S) /\ Len(a) = k - 1 /\ Len(b) = n - k
      BY <2>2, <2>3
    <3>2. a \o b \in Seq(S) /\ Len(a \o b) = Len(a) + Len(b)
      BY <3>1
    <3> QED
      BY <1>1, <2>4, <3>1, <3>2
  <2>6. \A i \in 1 .. n - 1 : q[i] = IF i < k THEN a[i] ELSE b[i - (k - 1)]
    BY <1>1, <2>2, <2>3, <2>4
  <2>7. ASSUME NEW i \in 1 .. n - 1 PROVE q[i] = IF i < k THEN queue[i] ELSE queue[i + 1]
    <3>1. CASE i < k
      BY <2>2, <2>6, <3>1
    <3>2. CASE i >= k
      <4>1. i - (k - 1) \in 1 .. n - k /\ k + (i - (k - 1)) = i + 1 /\ ~ (i < k)
        BY <1>1, <3>2
      <4> QED
        BY <2>3, <2>6, <4>1
    <3> QED
      BY <3>1, <3>2
  <2>8. ASSUME NEW i \in 1 .. n - 1 PROVE q[i] \in S \ {e}
    <3>1. (i < k => i \in 1 .. n /\ i # k) /\ (~ (i < k) => i + 1 \in 1 .. n /\ i + 1 # k)
      BY <1>1
    <3> QED
      BY <1>2, <2>1, <2>7, <3>1
  <2>9. q \in Seq(S \ {e})
    BY <2>5, <2>8
  <2>10. Once(q)
    <3> SUFFICES ASSUME NEW i \in 1 .. n - 1, NEW j \in 1 .. n - 1, q[i] = q[j] PROVE i = j
      BY <2>5 DEF Once
    <3>1. i \in 1 .. n /\ i + 1 \in 1 .. n /\ j \in 1 .. n /\ j + 1 \in 1 .. n
      BY <1>1
    <3> QED
      BY <1>1, <1>2, <2>7, <3>1
  <2>11. ASSUME NEW t \in S \ {e} PROVE \E i \in DOMAIN q : q[i] = t
    <3>1. PICK i \in 1 .. n : queue[i] = t
      BY <1>2
    <3>2. CASE i < k
      <4>1. i \in 1 .. n - 1
        BY <1>1, <3>2
      <4> QED
        BY <2>5, <2>7, <3>1, <3>2, <4>1
    <3>3. CASE i > k
      <4>1. i - 1 \in 1 .. n - 1 /\ ~ (i - 1 < k) /\ (i - 1) + 1 = i
        BY <1>1, <3>3
      <4> QED
        BY <2>5, <2>7, <3>1, <4>1
    <3> QED
      BY <1>1, <2>1, <3>1, <3>2, <3>3
  <2>12. ASSUME NEW pri, Ordered(pri, queue) PROVE Ordered(pri, q)
    <3> SUFFICES ASSUME NEW i \in 1 .. n - 1, NEW j \in 1 .. n - 1, i < j PROVE pri[q[i]] <= pri[q[j]]
      BY <2>5 DEF Ordered
    <3>1. /\ i \in 1 .. n /\ i + 1 \in 1 .. n /\ j \in 1 .. n /\ j + 1 \in 1 .. n
          /\ i < j + 1 /\ i + 1 < j + 1 /\ (j < k => i < k)
      BY <1>1
    <3> QED
      BY <1>1, <2>7, <2>12, <3>1 DEF Ordered
  <2> QED
    BY <2>9, <2>10, <2>11, <2>12 DEF IsLine, q
<1> QED
  BY <1>1, <1>3, <1>4, RemoveFirstIs

(* An element is put into a line before some others. *)
Put(queue, b, t) == IF b = {} THEN Append(queue, t) ELSE InsertAt(queue, Min(b), t)

LEMMA PutLine ==
  ASSUME NEW S, NEW queue, IsLine(queue, S), NEW t, t \notin S, NEW b \in SUBSET DOMAIN queue
  PROVE  /\ IsLine(Put(queue, b, t), S \cup {t})
         /\ Put(queue, b, t) # << >>
         /\ Head(Put(queue, b, t)) = IF 1 \in b \/ queue = << >> THEN t ELSE Head(queue)
<1> DEFINE n == Len(queue)
           q == Put(queue, b, t)
<1>1. queue \in Seq(S) /\ n \in Nat /\ DOMAIN queue = 1 .. n
  BY DEF IsLine
<1>2. CASE b = {}
  <2>1. q = Append(queue, t)
    BY <1>2 DEF Put
  <2>2. IsLine(q, S \cup {t})
    BY <2>1, AppendLine
  <2>3. q # << >> /\ q[1] = IF n = 0 THEN t ELSE queue[1]
    BY <1>1, <2>1
  <2>4. n = 0 <=> queue = << >>
    BY <1>1
  <2> HIDE DEF q, n
  <2>5. Head(q) = q[1] /\ (queue # << >> => Head(queue) = queue[1])
    BY <1>1, <2>2, <2>3 DEF IsLine
  <2> QED
    BY <1>2, <2>2, <2>3, <2>4, <2>5 DEF q
<1>3. CASE b # {}
  <2> DEFINE m == Min(b)
  <2>1. b \in SUBSET Nat
    BY <1>1
  <2>2. m \in b /\ \A y \in b : m <= y
    BY <1>3, <2>1, MinIn
  <2> HIDE DEF m
  <2>3. q = InsertAt(queue, m, t) /\ m \in 1 .. n
    BY <1>1, <1>3, <2>2 DEF Put, m
  <2>4. m \in 1 .. Len(queue) + 1
    BY <1>1, <2>3
  <2>5. IsLine(q, S \cup {t})
    BY <2>3, <2>4, InsertLine
  <2>6. queue \in Seq(S \cup {t})
    BY <1>1
  <2>7. Inserted(q, queue, m, t)
    BY <2>3, <2>4, <2>6, InsertIs
  <2> HIDE DEF q
  <2>8. 1 \in 1 .. n + 1 /\ (1 < m \/ 1 = m) /\ (m = 1 <=> 1 \in b) /\ n # 0
    BY <1>1, <2>2, <2>3
  <2>9. DOMAIN q = 1 .. n + 1 /\ q[1] = IF 1 < m THEN queue[1] ELSE IF 1 = m THEN t ELSE queue[1 - 1]
    BY <2>7, <2>8 DEF Inserted
  <2>10. q \in Seq(S \cup {t}) /\ q # << >> /\ Head(q) = q[1]
    BY <2>5, <2>8, <2>9 DEF IsLine
  <2>11. queue # << >> /\ Head(queue) = queue[1]
    BY <1>1, <2>8
  <2>12. Head(q) = IF 1 \in b \/ queue = << >> THEN t ELSE Head(queue)
    <3> HIDE DEF n
    <3>1. CASE 1 \in b
      BY <2>8, <2>9, <2>10, <3>1
    <3>2. CASE 1 \notin b
      BY <2>8, <2>9, <2>10, <2>11, <3>2
    <3> QED
      BY <3>1, <3>2
  <2> QED
    BY <2>5, <2>10, <2>12 DEF q
<1> QED
  BY <1>2, <1>3

(* If it goes before those of a lower priority the line stays in order. *)
LEMMA PutOrdered ==
  ASSUME NEW S \in SUBSET Task, NEW queue, IsLine(queue, S), NEW t \in Task \ S, NEW b \in SUBSET DOMAIN queue,
         NEW pri \in [Task -> Pri], Ordered(pri, queue),
         \A i \in b : pri[t] <= pri[queue[i]],
         \A i \in DOMAIN queue \ b : pri[queue[i]] <= pri[t]
  PROVE  Ordered(pri, Put(queue, b, t))
<1> DEFINE n == Len(queue)
           q == Put(queue, b, t)
<1>1. queue \in Seq(S) /\ n \in Nat /\ DOMAIN queue = 1 .. n
  BY DEF IsLine
<1>2. \A x \in Task : pri[x] \in Int
  BY KernelTaskAssumption DEF Pri
<1>3. \A i \in 1 .. n : queue[i] \in Task
  BY <1>1
<1>4. CASE b = {}
  <2>1. q = Append(queue, t)
    BY <1>4 DEF Put
  <2>2. DOMAIN q = 1 .. n + 1 /\ q[n + 1] = t /\ \A i \in 1 .. n : q[i] = queue[i]
    BY <1>1, <2>1
  <2> HIDE DEF q
  <2> SUFFICES ASSUME NEW i \in 1 .. n + 1, NEW j \in 1 .. n + 1, i < j PROVE pri[q[i]] <= pri[q[j]]
    BY <2>2 DEF Ordered, q
  <2>3. i \in 1 .. n /\ (j = n + 1 \/ j \in 1 .. n)
    BY <1>1
  <2>4. CASE j = n + 1
    BY <1>1, <1>4, <2>2, <2>3, <2>4
  <2>5. CASE j \in 1 .. n
    BY <1>1, <2>2, <2>3, <2>5 DEF Ordered
  <2> QED
    BY <2>3, <2>4, <2>5
<1>5. CASE b # {}
  <2> DEFINE m == Min(b)
  <2>1. b \in SUBSET Nat
    BY <1>1
  <2>2. m \in b /\ \A y \in b : m <= y
    BY <1>5, <2>1, MinIn
  <2> HIDE DEF m
  <2>3. q = InsertAt(queue, m, t) /\ m \in 1 .. n
    BY <1>1, <1>5, <2>2 DEF Put, m
  <2>4. m \in 1 .. Len(queue) + 1 /\ queue \in Seq(S \cup {t})
    BY <1>1, <2>3
  <2>5. Inserted(q, queue, m, t)
    BY <2>3, <2>4, InsertIs
  <2> HIDE DEF q
  <2>6. /\ DOMAIN q = 1 .. n + 1
        /\ \A i \in 1 .. n + 1 : q[i] = IF i < m THEN queue[i] ELSE IF i = m THEN t ELSE queue[i - 1]
    BY <2>5 DEF Inserted
  <2>7. \A i \in 1 .. n : i < m => pri[queue[i]] <= pri[t]
    <3>1. \A i \in 1 .. n : i < m => i \notin b
      BY <2>2, <2>3
    <3> QED
      BY <1>1, <3>1
  <2>8. ASSUME NEW i \in 1 .. n, m <= i PROVE pri[t] <= pri[queue[i]]
    <3>1. pri[t] <= pri[queue[m]]
      BY <2>2
    <3>2. m = i \/ pri[queue[m]] <= pri[queue[i]]
      BY <1>1, <2>3, <2>8 DEF Ordered
    <3> QED
      BY <1>2, <1>3, <2>3, <3>1, <3>2
  <2>9. \A x, y \in 1 .. n : x < y => pri[queue[x]] <= pri[queue[y]]
    BY <1>1 DEF Ordered
  <2> SUFFICES ASSUME NEW i \in 1 .. n + 1, NEW j \in 1 .. n + 1, i < j PROVE pri[q[i]] <= pri[q[j]]
    BY <2>6 DEF Ordered, q
  <2> HIDE DEF n
  <2>10. CASE j < m
    <3>1. i \in 1 .. n /\ j \in 1 .. n /\ i < m
      BY <1>1, <2>3, <2>10
    <3> QED
      BY <2>6, <2>9, <2>10, <3>1
  <2>11. CASE j = m
    <3>1. i \in 1 .. n /\ i < m /\ ~ (j < m)
      BY <1>1, <2>3, <2>11
    <3> QED
      BY <2>6, <2>7, <2>11, <3>1
  <2>12. CASE m < j
    <3>1. j - 1 \in 1 .. n /\ m <= j - 1 /\ ~ (j < m) /\ j # m
      BY <1>1, <2>3, <2>12
    <3>2. q[j] = queue[j - 1] /\ pri[t] <= pri[queue[j - 1]]
      BY <2>6, <2>8, <3>1
    <3>3. CASE i < m
      <4>1. i \in 1 .. n /\ i < j - 1
        BY <1>1, <2>3, <3>3, <3>1
      <4> QED
        BY <2>6, <2>9, <3>1, <3>2, <3>3, <4>1
    <3>4. CASE i = m
      BY <2>3, <2>6, <3>2, <3>4
    <3>5. CASE m < i
      <4>1. i - 1 \in 1 .. n /\ i - 1 < j - 1 /\ ~ (i < m) /\ i # m
        BY <1>1, <2>3, <3>5
      <4> QED
        BY <2>6, <2>9, <3>1, <3>2, <4>1
    <3> QED
      BY <2>3, <3>3, <3>4, <3>5
  <2> QED
    BY <2>3, <2>10, <2>11, <2>12
<1> QED
  BY <1>4, <1>5

(* A task is put into a queue by its priority. *)
Foremost(k, queue, t) ==
  IF queue = << >> \/ k.priority[Head(queue)] > k.priority[t] THEN t ELSE Head(queue)

LEMMA ByPriorityLine ==
  ASSUME NEW k, k.priority \in [Task -> Pri],
         NEW S, S \subseteq Task, NEW queue, IsLine(queue, S), NEW t, t \in Task, t \notin S
  PROVE  /\ IsLine(ByPriority(k, queue, t), S \cup {t})
         /\ Ordered(k.priority, queue) => Ordered(k.priority, ByPriority(k, queue, t))
         /\ Head(ByPriority(k, queue, t)) = Foremost(k, queue, t)
<1> DEFINE b == { i \in DOMAIN queue : k.priority[queue[i]] > k.priority[t] }
<1>1. ByPriority(k, queue, t) = Put(queue, b, t)
  BY DEF ByPriority, Put
<1>2. b \in SUBSET DOMAIN queue
  OBVIOUS
<1>3. \A x \in Task : k.priority[x] \in Int
  BY KernelTaskAssumption DEF Pri
<1>4. queue \in Seq(S) /\ \A i \in DOMAIN queue : queue[i] \in Task
  BY DEF IsLine
<1>5. \A i \in b : k.priority[t] <= k.priority[queue[i]]
  BY <1>3, <1>4
<1>6. \A i \in DOMAIN queue \ b : k.priority[queue[i]] <= k.priority[t]
  BY <1>3, <1>4
<1>7. queue # << >> => (1 \in b <=> k.priority[Head(queue)] > k.priority[t])
  BY <1>4
<1>8. t \notin S
  OBVIOUS
<1> HIDE DEF b
<1>9. /\ IsLine(Put(queue, b, t), S \cup {t})
      /\ Head(Put(queue, b, t)) = IF 1 \in b \/ queue = << >> THEN t ELSE Head(queue)
  BY <1>2, <1>8, PutLine
<1>10. Ordered(k.priority, queue) => Ordered(k.priority, Put(queue, b, t))
  BY <1>2, <1>5, <1>6, PutOrdered
<1> QED
  BY <1>1, <1>7, <1>9, <1>10 DEF Foremost

LEMMA EmptyLine == IsLine(<< >>, {}) /\ \A pri : Ordered(pri, << >>)
  BY DEF IsLine, Once, Ordered

(* Who is in a line is in the set, and the other way round. *)
LEMMA LineRange ==
  ASSUME NEW S, NEW queue, IsLine(queue, S)
  PROVE  /\ queue \in Seq(S) /\ Range(queue) = S
         /\ queue = << >> <=> S = {}
         /\ queue # << >> => Head(queue) \in S
<1>1. queue \in Seq(S) /\ \A t \in S : \E i \in DOMAIN queue : queue[i] = t
  BY DEF IsLine
<1>2. Range(queue) = S
  BY <1>1 DEF Range
<1>3. queue = << >> <=> DOMAIN queue = {}
  BY <1>1
<1>4. queue # << >> => Head(queue) \in S
  BY <1>1
<1> QED
  BY <1>1, <1>2, <1>3, <1>4 DEF Range

(* The first one goes. *)
LEMMA TailLine ==
  ASSUME NEW S, NEW queue, IsLine(queue, S), queue # << >>
  PROVE  IsLine(Tail(queue), S \ {Head(queue)})
<1> DEFINE n == Len(queue)
           q == Tail(queue)
<1>1. queue \in Seq(S) /\ n \in Nat /\ n # 0 /\ DOMAIN queue = 1 .. n
  BY DEF IsLine
<1>2. /\ \A i \in 1 .. n : queue[i] \in S
      /\ \A x, y \in 1 .. n : queue[x] = queue[y] => x = y
      /\ \A t \in S : \E i \in 1 .. n : queue[i] = t
  BY <1>1 DEF IsLine, Once
<1>3. q \in Seq(S) /\ Len(q) = n - 1 /\ DOMAIN q = 1 .. n - 1 /\ Head(queue) = queue[1]
      /\ \A i \in 1 .. n - 1 : q[i] = queue[i + 1]
  BY <1>1
<1>4. \A i \in 1 .. n - 1 : i + 1 \in 1 .. n /\ i + 1 # 1 /\ 1 \in 1 .. n
  BY <1>1
<1> HIDE DEF n, q
<1>5. \A i \in 1 .. n - 1 : q[i] \in S \ {Head(queue)}
  BY <1>2, <1>3, <1>4
<1>6. q \in Seq(S \ {Head(queue)})
  BY <1>3, <1>5
<1>7. Once(q)
  <2> SUFFICES ASSUME NEW i \in 1 .. n - 1, NEW j \in 1 .. n - 1, q[i] = q[j] PROVE i = j
    BY <1>3 DEF Once
  <2>1. i + 1 = j + 1
    BY <1>2, <1>3, <1>4
  <2> QED
    BY <2>1
<1>8. ASSUME NEW t \in S \ {Head(queue)} PROVE \E i \in 1 .. n - 1 : q[i] = t
  <2>1. PICK i \in 1 .. n : queue[i] = t
    BY <1>2
  <2>2. i - 1 \in 1 .. n - 1 /\ (i - 1) + 1 = i
    BY <1>1, <1>3, <2>1
  <2> QED
    BY <1>3, <2>1, <2>2
<1> QED
  BY <1>3, <1>6, <1>7, <1>8 DEF IsLine, q

(* The order of a line depends on the priorities of those in it. *)
LEMMA OrderKept ==
  ASSUME NEW S, NEW queue, IsLine(queue, S), NEW pri, NEW pri2, \A t \in S : pri2[t] = pri[t], Ordered(pri, queue)
  PROVE  Ordered(pri2, queue)
  BY DEF IsLine, Ordered

(* What QueuesAgree asks of a queue. *)
LEMMA LineQueues ==
  ASSUME NEW S, NEW queue, IsLine(queue, S)
  PROVE  Queues(queue, S)
<1>1. queue \in Seq(S) /\ Len(queue) \in Nat /\ DOMAIN queue = 1 .. Len(queue) /\ Range(queue) = S
  BY LineRange
<1>2. queue \in Bijection(1 .. Len(queue), S)
  BY <1>1 DEF IsLine, Once, Bijection, Injection, Surjection, IsInjective, Range
<1>3. ExistsBijection(1 .. Len(queue), S)
  BY <1>2 DEF ExistsBijection
<1>4. Cardinality(S) = Len(queue)
  BY <1>1, <1>3, FS_CountingElements
<1> QED
  BY <1>1, <1>4 DEF Queues


-----------------------------------------------------------------------------
(***************************************************************************)
(* The ring of a message buffer (WholeRing).                               *)
(***************************************************************************)
(* The words of the ring, counted from one on. *)
LEMMA PlaceIs ==
  ASSUME NEW b, b.bufsz \in Nat \ {0}, NEW start \in 0 .. b.bufsz - 1, NEW size \in 0 .. b.bufsz - 1
  PROVE  /\ \A n \in 1 .. size : Place(b, start, n) = InRing(b.bufsz, start, n)
         /\ Next_Start(b, start, size) = IF size + 1 = b.bufsz THEN start ELSE InRing(b.bufsz, start, size + 1)
<1>1. ASSUME NEW n \in 1 .. size PROVE Place(b, start, n) = InRing(b.bufsz, start, n)
  BY DEF Place, Body, Wrap, InRing
<1>2. Next_Start(b, start, size) = IF size + 1 = b.bufsz THEN start ELSE InRing(b.bufsz, start, size + 1)
  BY DEF Next_Start, Body, Wrap, InRing
<1> QED
  BY <1>1, <1>2

LEMMA WordsDiffer ==
  ASSUME NEW msg, NEW other, NEW n \in Nat, NEW m \in Nat, WordOf(msg, n) = WordOf(other, m), n > 0
  PROVE  m = n /\ msg = other
<1>1. WordOf(msg, n) = [msg |-> msg, word |-> n]
  BY DEF WordOf, Packet_Word
<1>2. CASE m = 0
  <2>1. WordOf(other, m) = [header |-> other.size]
    BY <1>2 DEF WordOf, Packet_Header
  <2>2. DOMAIN WordOf(msg, n) = { "msg", "word" } /\ DOMAIN WordOf(other, m) = { "header" }
    BY <1>1, <2>1
  <2> QED
    BY <2>2
<1>3. CASE m > 0
  <2>1. WordOf(other, m) = [msg |-> other, word |-> m]
    BY <1>3 DEF WordOf, Packet_Word
  <2>2. WordOf(msg, n).msg = msg /\ WordOf(msg, n).word = n
    BY <1>1
  <2>3. WordOf(other, m).msg = other /\ WordOf(other, m).word = m
    BY <2>1
  <2> QED
    BY <2>2, <2>3
<1> QED
  BY <1>2, <1>3

LEMMA InRingIs ==
  ASSUME NEW bufsz \in Nat \ {0}, NEW head \in 0 .. bufsz - 1
  PROVE  /\ \A i \in 0 .. bufsz - 1 : InRing(bufsz, head, i) \in 0 .. bufsz - 1
         /\ \A i, j \in 0 .. bufsz - 1 : InRing(bufsz, head, i) = InRing(bufsz, head, j) => i = j
         /\ InRing(bufsz, head, 0) = head
         /\ \A i \in 0 .. bufsz - 1 : \A n \in 0 .. bufsz - 1 - i :
              InRing(bufsz, InRing(bufsz, head, i), n) = InRing(bufsz, head, i + n)
  BY DEF InRing

(* A message that has room goes into the ring behind the others. *)
LEMMA MessageIn ==
  ASSUME NEW b, IsRec(b), { "bufsz", "frbufsz", "head", "tail", "buffer" } \subseteq DOMAIN b,
         WholeRing(b.bufsz, b.frbufsz, b.head, b.tail, b.buffer), NEW msg \in Packet, knl_mbf_free(b, msg.size)
  PROVE  LET c == knl_msg_to_mbf(b, msg) IN WholeRing(c.bufsz, c.frbufsz, c.head, c.tail, c.buffer)
<1> DEFINE c == knl_msg_to_mbf(b, msg)
           size == msg.size
           bufsz == b.bufsz
           used == bufsz - b.frbufsz
           head == b.head
           at == b.tail
           old(i) == b.buffer[InRing(bufsz, head, i)]
           new(i) == c.buffer[InRing(bufsz, head, i)]
           words == [i \in { Place(b, at, n) : n \in 1 .. size } |->
                       Packet_Word(msg, CHOOSE n \in 1 .. size : Place(b, at, n) = i)]
<1>1. /\ bufsz \in Nat \ {0} /\ b.frbufsz \in 0 .. bufsz /\ head \in 0 .. bufsz - 1
      /\ at = (IF used = bufsz THEN head ELSE InRing(bufsz, head, used))
  BY DEF WholeRing
<1>13. /\ IsFun(b.buffer, 0 .. bufsz - 1)
       /\ \A i \in used .. bufsz - 1 : old(i) = NULL
       /\ \A i \in 0 .. used - 1 : \E m \in Packet :
            \/ i + m.size < used /\ \A n \in 0 .. m.size : old(i + n) = WordOf(m, n)
            \/ \E n \in 1 .. m.size : i > 0 /\ old(i) = WordOf(m, n) /\ old(i - 1) = WordOf(m, n - 1)
  BY DEF WholeRing
<1>2. size \in Nat \ {0} /\ 1 + size <= b.frbufsz
  BY KernelAssumption DEF knl_mbf_free
<1>3. used \in 0 .. bufsz - 1 /\ used + size < bufsz /\ at = InRing(bufsz, head, used)
  BY <1>1, <1>2
<1>14. /\ \A i \in 0 .. bufsz - 1 : InRing(bufsz, head, i) \in 0 .. bufsz - 1
       /\ \A i, j \in 0 .. bufsz - 1 : InRing(bufsz, head, i) = InRing(bufsz, head, j) => i = j
       /\ \A n \in 0 .. bufsz - 1 - used : InRing(bufsz, at, n) = InRing(bufsz, head, used + n)
  <2>1. /\ \A i \in 0 .. bufsz - 1 : InRing(bufsz, head, i) \in 0 .. bufsz - 1
        /\ \A i, j \in 0 .. bufsz - 1 : InRing(bufsz, head, i) = InRing(bufsz, head, j) => i = j
        /\ \A i \in 0 .. bufsz - 1 : \A n \in 0 .. bufsz - 1 - i :
             InRing(bufsz, InRing(bufsz, head, i), n) = InRing(bufsz, head, i + n)
    <3>1. bufsz \in Nat \ {0} /\ head \in 0 .. bufsz - 1
      BY <1>1
    <3> HIDE DEF bufsz, head
    <3> QED
      BY <3>1, InRingIs
  <2> HIDE DEF used, bufsz, head, at
  <2> QED
    BY <1>3, <2>1
<1>15. at \in 0 .. bufsz - 1
  BY <1>3, <1>14
<1>4. /\ \A n \in 1 .. size : Place(b, at, n) = InRing(bufsz, head, used + n)
      /\ Next_Start(b, at, size) = IF used + 1 + size = bufsz THEN head ELSE InRing(bufsz, head, used + 1 + size)
  <2>1. size \in 0 .. bufsz - 1
    BY <1>1, <1>2
  <2>2. /\ \A n \in 1 .. size : Place(b, at, n) = InRing(bufsz, at, n)
        /\ Next_Start(b, at, size) = IF size + 1 = bufsz THEN at ELSE InRing(bufsz, at, size + 1)
    BY <1>1, <2>1, <1>15, PlaceIs
  <2>3. \A n \in 1 .. size : n \in 0 .. bufsz - 1 - used
    BY <1>1, <1>2, <1>3
  <2>4. Next_Start(b, at, size) = IF used + 1 + size = bufsz THEN head ELSE InRing(bufsz, head, used + 1 + size)
    BY <1>1, <1>2, <1>3, <2>2 DEF InRing
  <2> QED
    BY <1>14, <2>2, <2>3, <2>4
<1>5. /\ c.bufsz = bufsz /\ c.frbufsz = b.frbufsz - (1 + size) /\ c.head = head
      /\ c.tail = Next_Start(b, at, size)
      /\ c.buffer = [i \in DOMAIN b.buffer |->
           IF i = at THEN Packet_Header(msg) ELSE IF i \in DOMAIN words THEN words[i] ELSE b.buffer[i]]
  BY DEF knl_msg_to_mbf, IsRec
<1> HIDE DEF c
<1>6. IsFun(c.buffer, 0 .. bufsz - 1)
  BY <1>5, <1>13 DEF IsFun, IsRec
<1>7. ASSUME NEW n \in 0 .. size PROVE new(used + n) = WordOf(msg, n)
  <2> DEFINE x == InRing(bufsz, head, used + n)
  <2>1. used + n \in 0 .. bufsz - 1
    BY <1>1, <1>2, <1>3
  <2>2. x \in 0 .. bufsz - 1 /\ (x = at <=> n = 0)
    <3>1. used + n = used <=> n = 0
      BY <1>1, <1>2
    <3> QED
      BY <1>3, <1>14, <2>1, <3>1
  <2>3. CASE n = 0
    BY <1>5, <1>13, <2>2, <2>3 DEF WordOf, IsFun
  <2>4. CASE n # 0
    <3>1. n \in 1 .. size /\ Place(b, at, n) = x
      BY <1>2, <1>4, <2>4
    <3>2. ASSUME NEW m \in 1 .. size, Place(b, at, m) = x PROVE m = n
      <4>1. used + m \in 0 .. bufsz - 1
        BY <1>1, <1>2, <1>3
      <4>2. used + m = used + n
        BY <1>4, <1>14, <2>1, <3>2, <4>1
      <4> QED
        BY <1>1, <1>2, <4>2
    <3>3. (CHOOSE m \in 1 .. size : Place(b, at, m) = x) = n
      BY <3>1, <3>2
    <3>4. x \in DOMAIN words /\ words[x] = Packet_Word(msg, n)
      BY <3>1, <3>3
    <3> HIDE DEF x, words
    <3>5. c.buffer[x] = Packet_Word(msg, n)
      BY <1>5, <1>13, <2>2, <2>4, <3>4 DEF IsFun
    <3> QED
      BY <2>4, <3>5 DEF WordOf, x
  <2> QED
    BY <2>3, <2>4
<1>8. ASSUME NEW i \in 0 .. bufsz - 1, i < used \/ i > used + size PROVE new(i) = old(i)
  <2> DEFINE x == InRing(bufsz, head, i)
  <2>1. x \in 0 .. bufsz - 1 /\ x # at
    <3>1. i # used
      BY <1>2, <1>3, <1>8
    <3> QED
      BY <1>3, <1>14, <3>1
  <2>2. ASSUME NEW n \in 1 .. size PROVE Place(b, at, n) # x
    <3>1. used + n \in 0 .. bufsz - 1 /\ used + n # i
      BY <1>1, <1>2, <1>3, <1>8
    <3> QED
      BY <1>4, <1>14, <3>1
  <2>3. x \notin DOMAIN words
    BY <2>2
  <2> HIDE DEF words, x
  <2>4. c.buffer[x] = b.buffer[x]
    BY <1>5, <1>13, <2>1, <2>3 DEF IsFun
  <2> QED
    BY <2>4 DEF x
<1> DEFINE more == used + 1 + size
<1>9. /\ bufsz - c.frbufsz = more /\ c.frbufsz \in 0 .. bufsz
      /\ c.tail = (IF more = bufsz THEN head ELSE InRing(bufsz, head, more))
  BY <1>1, <1>2, <1>3, <1>4, <1>5
<1>10. ASSUME NEW i \in more .. bufsz - 1 PROVE new(i) = NULL
  <2>1. i \in used .. bufsz - 1 /\ i \in 0 .. bufsz - 1 /\ i > used + size
    BY <1>1, <1>2, <1>3
  <2> HIDE DEF old, new
  <2> QED
    BY <1>8, <1>13, <2>1
<1>11. ASSUME NEW i \in 0 .. more - 1
       PROVE  \E m \in Packet :
                \/ i + m.size < more /\ \A n \in 0 .. m.size : new(i + n) = WordOf(m, n)
                \/ \E n \in 1 .. m.size : i > 0 /\ new(i) = WordOf(m, n) /\ new(i - 1) = WordOf(m, n - 1)
  <2> HIDE DEF old, new
  <2>1. CASE i < used
    <3>1. i \in 0 .. used - 1
      BY <1>3, <2>1
    <3>2. PICK m \in Packet :
           \/ i + m.size < used /\ \A n \in 0 .. m.size : old(i + n) = WordOf(m, n)
           \/ \E n \in 1 .. m.size : i > 0 /\ old(i) = WordOf(m, n) /\ old(i - 1) = WordOf(m, n - 1)
      BY <1>13, <3>1
    <3>3. m.size \in Nat \ {0}
      BY KernelAssumption
    <3>4. CASE i + m.size < used /\ \A n \in 0 .. m.size : old(i + n) = WordOf(m, n)
      <4>1. ASSUME NEW n \in 0 .. m.size PROVE new(i + n) = old(i + n)
        <5>1. i + n \in 0 .. bufsz - 1 /\ i + n < used
          BY <1>1, <1>3, <3>1, <3>3, <3>4
        <5> QED
          BY <1>8, <5>1
      <4> QED
        BY <1>2, <1>3, <3>1, <3>3, <3>4, <4>1
    <3>5. CASE \E n \in 1 .. m.size : i > 0 /\ old(i) = WordOf(m, n) /\ old(i - 1) = WordOf(m, n - 1)
      <4>1. i > 0
        BY <3>5
      <4>2. i \in 0 .. bufsz - 1 /\ i - 1 \in 0 .. bufsz - 1 /\ i - 1 < used
        BY <1>1, <1>3, <3>1, <4>1
      <4>3. new(i) = old(i) /\ new(i - 1) = old(i - 1)
        BY <1>8, <2>1, <4>2
      <4> QED
        BY <3>5, <4>3
    <3> QED
      BY <3>2, <3>4, <3>5
  <2>2. CASE i = used
    <3>1. i + size < more
      BY <1>2, <1>3, <2>2
    <3> QED
      BY <1>7, <2>2, <3>1
  <2>3. CASE i > used
    <3> DEFINE n == i - used
    <3>1. n \in 1 .. size /\ i > 0 /\ n - 1 \in 0 .. size /\ i = used + n /\ i - 1 = used + (n - 1)
      BY <1>2, <1>3, <2>3
    <3>2. new(i) = WordOf(msg, n) /\ new(i - 1) = WordOf(msg, n - 1)
      BY <1>7, <3>1
    <3> QED
      BY <3>1, <3>2
  <2> QED
    BY <1>3, <2>1, <2>2, <2>3
<1>12. WholeRing(bufsz, c.frbufsz, head, c.tail, c.buffer)
  <2>1. \A i \in more .. bufsz - 1 : c.buffer[InRing(bufsz, head, i)] = NULL
    BY <1>10
  <2>2. \A i \in 0 .. more - 1 : \E m \in Packet :
          \/ i + m.size < more /\ \A n \in 0 .. m.size : c.buffer[InRing(bufsz, head, i + n)] = WordOf(m, n)
          \/ \E n \in 1 .. m.size :
               /\ i > 0 /\ c.buffer[InRing(bufsz, head, i)] = WordOf(m, n)
               /\ c.buffer[InRing(bufsz, head, i - 1)] = WordOf(m, n - 1)
    BY <1>11
  <2> HIDE DEF more
  <2> QED
    BY <1>1, <1>6, <1>9, <2>1, <2>2 DEF WholeRing
<1> QED
  BY <1>5, <1>12 DEF c

(* The first message leaves the ring. *)
LEMMA MessageOut ==
  ASSUME NEW b, IsRec(b), { "bufsz", "frbufsz", "head", "tail", "buffer" } \subseteq DOMAIN b,
         WholeRing(b.bufsz, b.frbufsz, b.head, b.tail, b.buffer), ~ knl_mbf_empty(b)
  PROVE  LET c == knl_mbf_to_msg(b) IN WholeRing(c.bufsz, c.frbufsz, c.head, c.tail, c.buffer)
<1> DEFINE c == knl_mbf_to_msg(b)
           bufsz == b.bufsz
           used == bufsz - b.frbufsz
           head == b.head
           old(i) == b.buffer[InRing(bufsz, head, i)]
<1>1. /\ bufsz \in Nat \ {0} /\ b.frbufsz \in 0 .. bufsz /\ head \in 0 .. bufsz - 1
      /\ b.tail = (IF used = bufsz THEN head ELSE InRing(bufsz, head, used))
      /\ used \in 1 .. bufsz
  BY DEF WholeRing, knl_mbf_empty
<1>2. /\ IsFun(b.buffer, 0 .. bufsz - 1)
      /\ \A i \in used .. bufsz - 1 : old(i) = NULL
      /\ \A i \in 0 .. used - 1 : \E m \in Packet :
           \/ i + m.size < used /\ \A n \in 0 .. m.size : old(i + n) = WordOf(m, n)
           \/ \E n \in 1 .. m.size : i > 0 /\ old(i) = WordOf(m, n) /\ old(i - 1) = WordOf(m, n - 1)
  BY DEF WholeRing
<1>3. PICK msg \in Packet : msg.size < used /\ \A n \in 0 .. msg.size : old(n) = WordOf(msg, n)
  <2>1. 0 \in 0 .. used - 1
    BY <1>1
  <2>2. PICK m \in Packet :
           \/ 0 + m.size < used /\ \A n \in 0 .. m.size : old(0 + n) = WordOf(m, n)
           \/ \E n \in 1 .. m.size : 0 > 0 /\ old(0) = WordOf(m, n) /\ old(0 - 1) = WordOf(m, n - 1)
    BY <1>2, <2>1
  <2> HIDE DEF used, old
  <2>3. m.size \in Nat
    BY KernelAssumption
  <2>4. 0 + m.size < used /\ \A n \in 0 .. m.size : old(0 + n) = WordOf(m, n)
    BY <2>2
  <2>5. \A n \in 0 .. m.size : 0 + n = n
    BY <2>3
  <2> QED
    BY <2>3, <2>4, <2>5
<1> DEFINE size == msg.size
           more == size + 1
           left == used - more
           copied == { head } \cup { Place(b, head, n) : n \in 1 .. size }
           next == Next_Start(b, head, size)
<1>4. size \in Nat \ {0} /\ more \in 2 .. used /\ left \in 0 .. bufsz - 2 /\ size \in 0 .. bufsz - 1
  BY <1>1, <1>3, KernelAssumption
<1>5. /\ \A i \in 0 .. bufsz - 1 : InRing(bufsz, head, i) \in 0 .. bufsz - 1
      /\ \A i, j \in 0 .. bufsz - 1 : InRing(bufsz, head, i) = InRing(bufsz, head, j) => i = j
      /\ InRing(bufsz, head, 0) = head
  <2> HIDE DEF bufsz, head
  <2> QED
    BY <1>1, InRingIs
<1>6. /\ \A n \in 1 .. size : Place(b, head, n) = InRing(bufsz, head, n)
      /\ next = IF more = bufsz THEN head ELSE InRing(bufsz, head, more)
  <2>1. b.bufsz \in Nat \ {0} /\ head \in 0 .. b.bufsz - 1 /\ size \in 0 .. b.bufsz - 1
    BY <1>1, <1>4
  <2> HIDE DEF head, size
  <2>2. /\ \A n \in 1 .. size : Place(b, head, n) = InRing(b.bufsz, head, n)
        /\ Next_Start(b, head, size) = IF size + 1 = b.bufsz THEN head ELSE InRing(b.bufsz, head, size + 1)
    BY <2>1, PlaceIs
  <2> QED
    BY <2>2
<1>7. b.buffer[head].header = size
  <2>1. old(0) = Packet_Header(msg)
    BY <1>3, <1>4 DEF WordOf
  <2>2. b.buffer[head] = [header |-> size]
    BY <1>5, <2>1 DEF Packet_Header
  <2> QED
    BY <2>2
<1>8. /\ c.bufsz = bufsz /\ c.frbufsz = b.frbufsz + (1 + size) /\ c.head = next /\ c.tail = b.tail
      /\ c.buffer = [i \in DOMAIN b.buffer |-> IF i \in copied THEN NULL ELSE b.buffer[i]]
  BY <1>7 DEF knl_mbf_to_msg, IsRec
<1> HIDE DEF c, next
<1>9. /\ next \in 0 .. bufsz - 1
      /\ \A i \in 0 .. bufsz - 1 : InRing(bufsz, next, i) =
           IF i + more < bufsz THEN InRing(bufsz, head, i + more) ELSE InRing(bufsz, head, i + more - bufsz)
  <2> HIDE DEF next, more, head, bufsz, used
  <2>1. bufsz \in Nat \ {0} /\ head \in 0 .. bufsz - 1 /\ more \in 2 .. bufsz
    BY <1>1, <1>4
  <2>2. next = IF more = bufsz THEN head ELSE IF head + more < bufsz THEN head + more ELSE head + more - bufsz
    BY <1>6 DEF InRing
  <2> QED
    BY <2>1, <2>2 DEF InRing
<1> DEFINE new(i) == c.buffer[InRing(bufsz, next, i)]
<1>10. IsFun(c.buffer, 0 .. bufsz - 1)
  BY <1>2, <1>8 DEF IsFun, IsRec
<1>11. ASSUME NEW j \in 0 .. bufsz - 1
       PROVE  c.buffer[InRing(bufsz, head, j)] = IF j < more THEN NULL ELSE old(j)
  <2> DEFINE x == InRing(bufsz, head, j)
  <2>1. x \in 0 .. bufsz - 1
    BY <1>5
  <2>2. x \in copied <=> j < more
    <3>1. \A n \in 1 .. size : n \in 0 .. bufsz - 1
      BY <1>1, <1>4
    <3>2. x = head <=> j = 0
      BY <1>1, <1>5
    <3>3. (\E n \in 1 .. size : x = Place(b, head, n)) <=> j \in 1 .. size
      BY <1>5, <1>6, <3>1
    <3> HIDE DEF x
    <3>4. x \in copied <=> j = 0 \/ j \in 1 .. size
      BY <3>2, <3>3
    <3> QED
      BY <1>4, <3>4
  <2> HIDE DEF x, copied
  <2>3. c.buffer[x] = IF j < more THEN NULL ELSE b.buffer[x]
    BY <1>2, <1>8, <2>1, <2>2 DEF IsFun
  <2> QED
    BY <2>3 DEF x
<1>12. /\ \A i \in 0 .. left - 1 : new(i) = old(i + more)
       /\ \A i \in left .. bufsz - 1 : new(i) = NULL
  <2> DEFINE now(j) == c.buffer[InRing(bufsz, head, j)]
  <2>1. \A i \in 0 .. bufsz - 1 : new(i) = IF i + more < bufsz THEN now(i + more) ELSE now(i + more - bufsz)
    BY <1>9
  <2>2. \A j \in 0 .. bufsz - 1 : now(j) = IF j < more THEN NULL ELSE old(j)
    BY <1>11
  <2>3. \A i \in used .. bufsz - 1 : old(i) = NULL
    BY <1>2
  <2> HIDE DEF now, old, new, more, left, used
  <2>4. more \in 2 .. used /\ used \in 1 .. bufsz /\ left = used - more /\ bufsz \in Nat
    BY <1>1, <1>4 DEF left
  <2> HIDE DEF bufsz
  <2>5. ASSUME NEW i \in 0 .. left - 1 PROVE new(i) = old(i + more)
    <3>1. i \in 0 .. bufsz - 1 /\ i + more \in 0 .. bufsz - 1 /\ i + more < bufsz /\ ~ (i + more < more)
      BY <2>4
    <3> QED
      BY <2>1, <2>2, <3>1
  <2>6. ASSUME NEW i \in left .. bufsz - 1 PROVE new(i) = NULL
    <3>1. i \in 0 .. bufsz - 1
      BY <2>4
    <3>2. CASE i + more < bufsz
      <4>1. i + more \in 0 .. bufsz - 1 /\ i + more \in used .. bufsz - 1
        BY <2>4, <3>2
      <4> QED
        BY <2>1, <2>2, <2>3, <3>1, <3>2, <4>1
    <3>3. CASE ~ (i + more < bufsz)
      <4>1. i + more - bufsz \in 0 .. bufsz - 1 /\ i + more - bufsz < more
        BY <2>4, <3>3
      <4> QED
        BY <2>1, <2>2, <3>1, <3>3, <4>1
    <3> QED
      BY <3>2, <3>3
  <2> QED
    BY <2>5, <2>6
<1>13. /\ bufsz - c.frbufsz = left /\ c.frbufsz \in 0 .. bufsz
       /\ c.tail = (IF left = bufsz THEN next ELSE InRing(bufsz, next, left))
  <2>1. bufsz - c.frbufsz = left /\ c.frbufsz \in 0 .. bufsz
    BY <1>1, <1>4, <1>8
  <2>2. left + more = used /\ left # bufsz /\ left \in 0 .. bufsz - 1
    BY <1>1, <1>4
  <2>3. c.tail = InRing(bufsz, next, left)
    <3>1. InRing(bufsz, next, left) = IF used < bufsz THEN InRing(bufsz, head, used) ELSE InRing(bufsz, head, used - bufsz)
      <4>1. InRing(bufsz, next, left) = IF left + more < bufsz THEN InRing(bufsz, head, left + more)
                                                               ELSE InRing(bufsz, head, left + more - bufsz)
        <5> HIDE DEF left, more, used
        <5> QED
          BY <1>9, <2>2
      <4>2. more \in Nat /\ used \in 1 .. bufsz /\ bufsz \in Nat
        BY <1>1, <1>4
      <4> HIDE DEF left, more, used, bufsz, head
      <4> QED
        BY <2>2, <4>1, <4>2
    <3>2. used = bufsz => used - bufsz = 0
      BY <1>1
    <3> QED
      BY <1>1, <1>5, <1>8, <3>1, <3>2
  <2> QED
    BY <2>1, <2>2, <2>3
<1>14. ASSUME NEW i \in 0 .. left - 1
       PROVE  \E m \in Packet :
                \/ i + m.size < left /\ \A n \in 0 .. m.size : new(i + n) = WordOf(m, n)
                \/ \E n \in 1 .. m.size : i > 0 /\ new(i) = WordOf(m, n) /\ new(i - 1) = WordOf(m, n - 1)
  <2> DEFINE j == i + more
  <2>1. j \in 0 .. used - 1 /\ new(i) = old(j)
    BY <1>1, <1>4, <1>12
  <2>2. PICK m \in Packet :
           \/ j + m.size < used /\ \A n \in 0 .. m.size : old(j + n) = WordOf(m, n)
           \/ \E n \in 1 .. m.size : j > 0 /\ old(j) = WordOf(m, n) /\ old(j - 1) = WordOf(m, n - 1)
    BY <1>2, <2>1
  <2> HIDE DEF old, new
  <2>3. m.size \in Nat \ {0}
    BY KernelAssumption
  <2>4. CASE j + m.size < used /\ \A n \in 0 .. m.size : old(j + n) = WordOf(m, n)
    <3>1. i + m.size < left
      BY <1>1, <1>4, <2>3, <2>4
    <3>2. ASSUME NEW n \in 0 .. m.size PROVE new(i + n) = WordOf(m, n)
      <4>1. i + n \in 0 .. left - 1 /\ (i + n) + more = j + n
        BY <1>1, <1>4, <2>3, <3>1
      <4>2. new(i + n) = old((i + n) + more)
        BY <1>12, <4>1
      <4> QED
        BY <2>4, <4>1, <4>2
    <3> QED
      BY <3>1, <3>2
  <2>5. CASE \E n \in 1 .. m.size : j > 0 /\ old(j) = WordOf(m, n) /\ old(j - 1) = WordOf(m, n - 1)
    <3>1. PICK n \in 1 .. m.size : old(j) = WordOf(m, n) /\ old(j - 1) = WordOf(m, n - 1)
      BY <2>5
    <3>2. i > 0
      <4>1. SUFFICES ASSUME i = 0 PROVE FALSE
        OBVIOUS
      <4>2. j - 1 = size
        BY <1>4, <4>1
      <4>3. WordOf(msg, size) = WordOf(m, n - 1)
        BY <1>3, <1>4, <3>1, <4>2
      <4>4. n - 1 = size /\ msg = m
        BY <1>4, <2>3, <4>3, WordsDiffer
      <4> QED
        BY <2>3, <4>4
    <3>3. i - 1 \in 0 .. left - 1 /\ (i - 1) + more = j - 1
      BY <1>1, <1>4, <3>2
    <3>4. new(i - 1) = old(j - 1)
      BY <1>12, <3>3
    <3> QED
      BY <2>1, <3>1, <3>2, <3>4
  <2> QED
    BY <2>2, <2>4, <2>5
<1>15. WholeRing(bufsz, c.frbufsz, next, c.tail, c.buffer)
  <2>1. \A i \in left .. bufsz - 1 : c.buffer[InRing(bufsz, next, i)] = NULL
    BY <1>12
  <2>2. \A i \in 0 .. left - 1 : \E m \in Packet :
          \/ i + m.size < left /\ \A n \in 0 .. m.size : c.buffer[InRing(bufsz, next, i + n)] = WordOf(m, n)
          \/ \E n \in 1 .. m.size :
               /\ i > 0 /\ c.buffer[InRing(bufsz, next, i)] = WordOf(m, n)
               /\ c.buffer[InRing(bufsz, next, i - 1)] = WordOf(m, n - 1)
    BY <1>14
  <2> HIDE DEF left
  <2> QED
    BY <1>1, <1>9, <1>10, <1>13, <2>1, <2>2 DEF WholeRing
<1> QED
  BY <1>8, <1>15 DEF c

LEMMA RingAt ==
  ASSUME NEW n \in Nat \ {0}, NEW head \in 0 .. n - 1, NEW i \in 0 .. n
  PROVE  (head + i) % n = InRing(n, head, i)
<1>1. CASE head + i < n
  BY <1>1 DEF InRing
<1>2. CASE head + i >= n
  BY <1>2 DEF InRing
<1> QED
  BY <1>1, <1>2

LEMMA WholeIsWhole ==
  ASSUME NEW b, WholeRing(b.bufsz, b.frbufsz, b.head, b.tail, b.buffer), NullIsNoWord
  PROVE  RingIsWhole(b)
<1> DEFINE bufsz == b.bufsz
           used == bufsz - b.frbufsz
           head == b.head
           at(i) == b.buffer[InRing(bufsz, head, i)]
           word == [i \in 0 .. used - 1 |-> b.buffer[(head + i) % bufsz]]
<1>1. /\ bufsz \in Nat \ {0} /\ b.frbufsz \in 0 .. bufsz /\ head \in 0 .. bufsz - 1
      /\ b.tail = (IF used = bufsz THEN head ELSE InRing(bufsz, head, used))
      /\ used \in 0 .. bufsz
  BY DEF WholeRing
<1>2. /\ IsFun(b.buffer, 0 .. bufsz - 1)
      /\ \A i \in used .. bufsz - 1 : at(i) = NULL
      /\ \A i \in 0 .. used - 1 : \E m \in Packet :
           \/ i + m.size < used /\ \A n \in 0 .. m.size : at(i + n) = WordOf(m, n)
           \/ \E n \in 1 .. m.size : i > 0 /\ at(i) = WordOf(m, n) /\ at(i - 1) = WordOf(m, n - 1)
  BY DEF WholeRing
<1>3. /\ \A i \in 0 .. bufsz - 1 : InRing(bufsz, head, i) \in 0 .. bufsz - 1
      /\ \A i, j \in 0 .. bufsz - 1 : InRing(bufsz, head, i) = InRing(bufsz, head, j) => i = j
      /\ InRing(bufsz, head, 0) = head
  <2> HIDE DEF bufsz, head
  <2> QED
    BY <1>1, InRingIs
<1>4. ASSUME NEW i \in 0 .. bufsz PROVE (head + i) % bufsz = InRing(bufsz, head, i)
  <2> HIDE DEF head, bufsz
  <2> QED
    BY <1>1, RingAt
<1>5. DOMAIN word = 0 .. used - 1 /\ \A i \in 0 .. used - 1 : word[i] = at(i)
  <2>1. \A i \in 0 .. used - 1 : i \in 0 .. bufsz
    BY <1>1
  <2> QED
    BY <1>4, <2>1
<1> HIDE DEF word, at
<1>6. ASSUME NEW i \in 0 .. used - 1
      PROVE  \E m \in Packet : \E n \in 0 .. m.size :
               /\ word[i] = WordOf(m, n)
               /\ n = 0 => i + m.size < used /\ \A l \in 1 .. m.size : word[i + l] = WordOf(m, l)
               /\ n > 0 => i > 0 /\ word[i - 1] = WordOf(m, n - 1)
  <2>1. PICK m \in Packet :
           \/ i + m.size < used /\ \A n \in 0 .. m.size : at(i + n) = WordOf(m, n)
           \/ \E n \in 1 .. m.size : i > 0 /\ at(i) = WordOf(m, n) /\ at(i - 1) = WordOf(m, n - 1)
    BY <1>2
  <2>2. m.size \in Nat \ {0}
    BY KernelAssumption
  <2>3. CASE i + m.size < used /\ \A n \in 0 .. m.size : at(i + n) = WordOf(m, n)
    <3>1. \A l \in 0 .. m.size : i + l \in 0 .. used - 1
      BY <1>1, <2>2, <2>3
    <3>2. \A l \in 0 .. m.size : word[i + l] = WordOf(m, l)
      BY <1>5, <2>3, <3>1
    <3>3. 0 \in 0 .. m.size /\ i + 0 = i /\ \A l \in 1 .. m.size : l \in 0 .. m.size
      BY <2>2
    <3>4. word[i] = WordOf(m, 0) /\ \A l \in 1 .. m.size : word[i + l] = WordOf(m, l)
      BY <3>2, <3>3
    <3> QED
      BY <2>3, <3>3, <3>4
  <2>4. CASE \E n \in 1 .. m.size : i > 0 /\ at(i) = WordOf(m, n) /\ at(i - 1) = WordOf(m, n - 1)
    <3>1. PICK n \in 1 .. m.size : i > 0 /\ at(i) = WordOf(m, n) /\ at(i - 1) = WordOf(m, n - 1)
      BY <2>4
    <3>2. i - 1 \in 0 .. used - 1
      BY <1>1, <3>1
    <3>3. word[i] = WordOf(m, n) /\ word[i - 1] = WordOf(m, n - 1)
      BY <1>5, <3>1, <3>2
    <3>4. n \in 0 .. m.size /\ n # 0
      BY <2>2
    <3> QED
      BY <3>1, <3>3, <3>4
  <2> QED
    BY <2>1, <2>3, <2>4
<1>7. ASSUME NEW i \in 0 .. used - 1
      PROVE  /\ word[i] # NULL
             /\ "header" \in DOMAIN word[i] =>
                  \E msg \in Packet :
                    /\ word[i] = Packet_Header(msg) /\ i + msg.size < used
                    /\ \A n \in 1 .. msg.size : word[i + n] = Packet_Word(msg, n)
             /\ i = 0 \/ ("word" \in DOMAIN word[i - 1] /\ word[i - 1].word = word[i - 1].msg.size)
                  => "header" \in DOMAIN word[i]
  <2>1. PICK m \in Packet : \E n \in 0 .. m.size :
               /\ word[i] = WordOf(m, n)
               /\ n = 0 => i + m.size < used /\ \A l \in 1 .. m.size : word[i + l] = WordOf(m, l)
               /\ n > 0 => i > 0 /\ word[i - 1] = WordOf(m, n - 1)
    BY <1>6
  <2>2. PICK n \in 0 .. m.size :
               /\ word[i] = WordOf(m, n)
               /\ n = 0 => i + m.size < used /\ \A l \in 1 .. m.size : word[i + l] = WordOf(m, l)
               /\ n > 0 => i > 0 /\ word[i - 1] = WordOf(m, n - 1)
    BY <2>1
  <2>3. m.size \in Nat \ {0}
    BY KernelAssumption
  <2>4. word[i] # NULL
    BY <2>2 DEF NullIsNoWord
  <2>5. CASE n = 0
    <3>1. word[i] = [header |-> m.size]
      BY <2>2, <2>5 DEF WordOf, Packet_Header
    <3>2. "header" \in DOMAIN word[i]
      BY <3>1
    <3>3. word[i] = Packet_Header(m) /\ i + m.size < used
      BY <2>2, <2>5 DEF WordOf
    <3>4. \A l \in 1 .. m.size : word[i + l] = Packet_Word(m, l)
      BY <2>2, <2>5 DEF WordOf
    <3> QED
      BY <2>4, <3>2, <3>3, <3>4
  <2>6. CASE n > 0
    <3>1. word[i] = [msg |-> m, word |-> n] /\ i > 0 /\ word[i - 1] = WordOf(m, n - 1)
      BY <2>2, <2>6 DEF WordOf, Packet_Word
    <3>2. "header" \notin DOMAIN word[i]
      BY <3>1
    <3>3. ~ ("word" \in DOMAIN word[i - 1] /\ word[i - 1].word = word[i - 1].msg.size)
      <4>1. CASE n = 1
        <5>1. word[i - 1] = [header |-> m.size]
          BY <3>1, <4>1 DEF WordOf, Packet_Header
        <5> QED
          BY <5>1
      <4>2. CASE n > 1
        <5>1. word[i - 1] = [msg |-> m, word |-> n - 1]
          BY <2>3, <3>1, <4>2 DEF WordOf, Packet_Word
        <5>2. word[i - 1].word = n - 1 /\ word[i - 1].msg = m
          BY <5>1
        <5>3. n - 1 # m.size
          BY <2>3
        <5> QED
          BY <5>2, <5>3
      <4> QED
        BY <2>3, <2>6, <4>1, <4>2
    <3>4. i # 0
      BY <3>1
    <3> QED
      BY <2>4, <3>2, <3>3, <3>4
  <2> QED
    BY <2>3, <2>5, <2>6
<1>8. b.tail = (head + used) % bufsz
  <2>1. (head + used) % bufsz = InRing(bufsz, head, used)
    BY <1>1, <1>4
  <2>2. used = bufsz => InRing(bufsz, head, used) = head
    BY <1>1 DEF InRing
  <2> QED
    BY <1>1, <2>1, <2>2
<1>9. Cardinality({ i \in DOMAIN b.buffer : b.buffer[i] # NULL }) = used
  <2> DEFINE S == 0 .. used - 1
             T == { i \in DOMAIN b.buffer : b.buffer[i] # NULL }
             f == [i \in S |-> InRing(bufsz, head, i)]
  <2>1. \A i \in S : i \in 0 .. bufsz - 1
    BY <1>1
  <2>2. \A i \in S : f[i] \in T
    <3>1. ASSUME NEW i \in S PROVE f[i] \in T
      <4>1. f[i] = InRing(bufsz, head, i) /\ f[i] \in 0 .. bufsz - 1
        BY <1>3, <2>1
      <4>2. b.buffer[f[i]] # NULL
        BY <1>5, <1>7, <4>1 DEF at
      <4> QED
        BY <1>2, <4>1, <4>2 DEF IsFun
    <3> QED
      BY <3>1
  <2>3. \A i, j \in S : f[i] = f[j] => i = j
    BY <1>3, <2>1
  <2>4. ASSUME NEW x \in T PROVE \E i \in S : f[i] = x
    <3>1. x \in 0 .. bufsz - 1
      BY <1>2 DEF IsFun
    <3>2. \E i \in 0 .. bufsz - 1 : InRing(bufsz, head, i) = x
      <4> DEFINE i == IF x >= head THEN x - head ELSE x - head + bufsz
      <4>1. i \in 0 .. bufsz - 1 /\ InRing(bufsz, head, i) = x
        BY <1>1, <3>1 DEF InRing
      <4> QED
        BY <4>1
    <3>3. PICK i \in 0 .. bufsz - 1 : InRing(bufsz, head, i) = x
      BY <3>2
    <3>4. at(i) # NULL
      BY <3>3 DEF at
    <3>5. i \in S
      BY <1>1, <1>2, <3>4
    <3> QED
      BY <3>3, <3>5
  <2> HIDE DEF T
  <2>5. f \in Bijection(S, T)
    BY <2>2, <2>3, <2>4 DEF Bijection, Injection, Surjection, IsInjective
  <2>6. IsFiniteSet(S) /\ Cardinality(S) = used
    BY <1>1, FS_Interval
  <2> HIDE DEF S, f
  <2>7. Cardinality(T) = Cardinality(S)
    BY <2>5, <2>6, FS_Bijection DEF ExistsBijection
  <2> QED
    BY <2>6, <2>7 DEF T
<1> QED
  <2> HIDE DEF used, bufsz, head
  <2>1. LET u == bufsz - b.frbufsz
            w == [i \in 0 .. u - 1 |-> b.buffer[(head + i) % bufsz]]
        IN  u = used /\ w = word
    BY DEF used, word
  <2> QED
    BY <1>5, <1>7, <1>8, <1>9, <2>1 DEF RingIsWhole, used, bufsz, head, word

-----------------------------------------------------------------------------
(***************************************************************************)
(* What calls leave as it is when they release tasks or change priorities: *)
(* nobody begins to wait, ceases to be ready or gets or loses a mutex.     *)
(***************************************************************************)
Calm(k, r) ==
  /\ r.ctxtsk = k.ctxtsk /\ r.dispatch_disabled = k.dispatch_disabled /\ r.call = k.call
  /\ r.mtxlist = k.mtxlist /\ r.wspec = k.wspec /\ r.wid = k.wid /\ r.winfo = k.winfo
  /\ r.locked = k.locked
  /\ \A o \in Object :
       /\ r.obj[o].kind = k.obj[o].kind
       /\ Used(k.obj[o].kind) => r.obj[o].atr = k.obj[o].atr
       /\ k.obj[o].kind = "mtx" => r.obj[o].mtxtsk = k.obj[o].mtxtsk
  /\ \A t \in Task : t \in Range(k.ready) => t \in Range(r.ready)
  /\ \A t \in Task : waiting(r, t) => waiting(k, t)
  /\ \A t \in Task : alive(k, t) <=> alive(r, t)
  /\ \A t \in Task : r.klock[t] = k.klock[t] \/ (k.klock[t] = "klockwait" /\ r.klock[t] = "none")

LEMMA CalmSelf == ASSUME NEW k PROVE Calm(k, k)
  BY DEF Calm

LEMMA CalmBoth == ASSUME NEW k, NEW r, NEW s, Calm(k, r), Calm(r, s) PROVE Calm(k, s)
  BY DEF Calm

LEMMA RemoveEmpty == ASSUME NEW t PROVE RemoveFirst(<< >>, t) = << >>
  BY DEF RemoveFirst

LEMMA RemoveTyped == ASSUME NEW S, NEW queue \in Seq(S), NEW t PROVE RemoveFirst(queue, t) \in Seq(S)
<1>1. CASE RemoveFirst(queue, t) = queue
  BY <1>1
<1>2. ASSUME NEW i \in DOMAIN queue,
             RemoveFirst(queue, t) = SubSeq(queue, 1, i - 1) \o SubSeq(queue, i + 1, Len(queue))
      PROVE  RemoveFirst(queue, t) \in Seq(S)
  <2>1. i \in 1 .. Len(queue) /\ \A j \in 1 .. Len(queue) : queue[j] \in S
    OBVIOUS
  <2>2. SubSeq(queue, 1, i - 1) \in Seq(S) /\ SubSeq(queue, i + 1, Len(queue)) \in Seq(S)
    BY <2>1, SubSeqProperties
  <2> QED
    BY <1>2, <2>2
<1> QED
  BY <1>1, <1>2, RemoveFirstIs

SameTasks(k, r) ==
  /\ r.state = k.state /\ r.priority = k.priority
  /\ r.bpriority = k.bpriority /\ r.ipriority = k.ipriority
SameWaits(k, r) == r.wspec = k.wspec /\ r.wid = k.wid /\ r.winfo = k.winfo
SameLocks(k, r) == r.klock = k.klock /\ r.locked = k.locked /\ r.wtskq = k.wtskq
SameCounts(k, r) == r.suscnt = k.suscnt /\ r.wupcnt = k.wupcnt
SameRun(k, r) == r.ctxtsk = k.ctxtsk /\ r.dispatch_disabled = k.dispatch_disabled
SameReady(k, r) == r.ready = k.ready /\ r.schedtsk = k.schedtsk /\ r.klocktsk = k.klocktsk
SameStock(b, c) == b.kind = "mpf" => \A f \in Blocks : c[f] = b[f]
SameObject(b, c) ==
  /\ c.kind = b.kind /\ SameStock(b, c)
  /\ Used(b.kind) => c.atr = b.atr
  /\ b.kind = "mtx" => c.mtxtsk = b.mtxtsk
SameObjects(k, r) == \A o \in Object : SameObject(k.obj[o], r.obj[o])

(* What a call knows of the blocks of a pool holds as long as these do not change. *)
LEMMA GivesKept ==
  ASSUME NEW k, NEW r, GivesGood(k),
         \A u \in Task, x \in Object :
           /\ Gives(r, u, x) => Gives(k, u, x) /\ r.call[u].x.blf = k.call[u].x.blf
           /\ Deletes(r, u, x) => Deletes(k, u, x),
         \A u \in Task, x \in Object :
           Gives(k, u, x) => r.obj[x].kind = k.obj[x].kind /\ SameStock(k.obj[x], r.obj[x])
  PROVE  GivesGood(r)
<1>1. ASSUME NEW u \in Task, NEW x \in Object, Gives(r, u, x)
      PROVE  r.obj[x].kind = "mpf" /\ r.call[u].x.blf \in r.obj[x].lent
  <2>1. k.obj[x].kind = "mpf" /\ k.call[u].x.blf \in k.obj[x].lent
        /\ r.obj[x].kind = k.obj[x].kind /\ SameStock(k.obj[x], r.obj[x])
    BY <1>1 DEF GivesGood
  <2> QED
    BY <1>1, <2>1 DEF SameStock, Blocks
<1> QED
  BY <1>1 DEF GivesGood

LEMMA CallsKept ==
  ASSUME NEW k, NEW r, CallsGood(k), r.call = k.call,
         \A u \in Task : k.call[u] # NULL =>
           /\ r.klock[u] = k.klock[u] \/ (k.klock[u] = "klockwait" /\ r.klock[u] = "none")
           /\ r.state[u] = k.state[u] \/ r.state[u] \in { "ready", "suspend" }
              \/ (k.call[u].at = "wait" /\ alive(r, u)),
         \A x \in Object : r.obj[x].kind = k.obj[x].kind /\ SameStock(k.obj[x], r.obj[x])
  PROVE  CallsGood(r)
<1>1. ASSUME NEW u \in Task, r.call[u] # NULL PROVE CallGood(r, u)
  <2>1. CallGood(k, u)
    BY <1>1 DEF CallsGood
  <2>2. k.call[u].at = "get" => k.obj[k.call[u].o].kind = "mpf" /\ k.call[u].o \in Object
    BY <2>1 DEF CallGood
  <2>3. k.call[u].at = "get" =>
          r.obj[k.call[u].o].frbcnt > 0 /\ k.call[u].x.blf = NextBlock(r.obj[k.call[u].o])
    BY <2>1, <2>2 DEF CallGood, SameStock, Blocks, NextBlock
  <2> QED
    BY <1>1, <2>1, <2>3 DEF CallGood, Inside, alive
<1>2. GivesGood(r)
  <2>1. \A u \in Task, x \in Object :
          /\ Gives(r, u, x) => Gives(k, u, x) /\ r.call[u].x.blf = k.call[u].x.blf
          /\ Deletes(r, u, x) => Deletes(k, u, x)
    BY DEF Gives, Deletes
  <2> QED
    BY <2>1, GivesKept DEF CallsGood
<1> QED
  BY <1>1, <1>2 DEF CallsGood, Makes

(* Who has a lock and who waits for one depends on these fields. *)
LEMMA LockKept ==
  ASSUME NEW k, NEW r, LockGood(k), r.state = k.state, r.klock = k.klock, r.call = k.call,
         r.wtskq = k.wtskq, r.locked = k.locked
  PROVE  LockGood(r)
<1>1. \A u \in Task, x \in Object : Has(r, u, x) <=> Has(k, u, x)
  BY DEF Has
<1>2. ASSUME NEW x \in Object
      PROVE  { t \in Task : r.klock[t] = "klockwait" /\ r.call[t].o = x }
               = { t \in Task : k.klock[t] = "klockwait" /\ k.call[t].o = x }
  OBVIOUS
<1> QED
  BY <1>1, <1>2 DEF LockGood

(* The ring of a message buffer and the blocks of a pool do not depend on who waits. *)
Ring == { "bufsz", "frbufsz", "head", "tail", "buffer" }

LEMMA BlocksKept ==
  ASSUME NEW b, NEW c, BlocksGood(b), c.kind = b.kind, SameStock(b, c), DOMAIN c = DOMAIN b
  PROVE  BlocksGood(c)
BY DEF BlocksGood, SameStock, Blocks

LEMMA RingKept ==
  ASSUME NEW b, NEW c, RingGood(b), c.kind = b.kind, DOMAIN c = DOMAIN b,
         \A f \in Ring \cap DOMAIN b : c[f] = b[f]
  PROVE  RingGood(c)
BY DEF RingGood, Ring

(* A task leaves the queue it waits in. *)
Cancelled(k, r, t) ==
  /\ Typed(r) /\ SameTasks(k, r) /\ SameWaits(k, r) /\ SameLocks(k, r) /\ SameRun(k, r)
  /\ SameReady(k, r) /\ SameCounts(k, r) /\ SameObjects(k, r) /\ r.call = k.call /\ r.mtxlist = k.mtxlist
  /\ r.timed = [k.timed EXCEPT ![t] = FALSE]
  /\ \A x \in Object :
       /\ r.obj[x].wait_queue = IF x = k.wid[t] /\ k.wspec[t] # "rmbf" THEN RemoveFirst(k.obj[x].wait_queue, t)
                                                                        ELSE k.obj[x].wait_queue
       /\ k.obj[x].kind = "mbf" =>
            r.obj[x].recv_queue = IF x = k.wid[t] /\ k.wspec[t] = "rmbf" THEN RemoveFirst(k.obj[x].recv_queue, t)
                                                                         ELSE k.obj[x].recv_queue

LEMMA CancelIs ==
  ASSUME NEW k, Typed(k), NEW t \in Task, WaitsFor(k, t)
  PROVE  Cancelled(k, knl_wait_cancel(k, t), t)
<1> DEFINE r == knl_wait_cancel(k, t)
           o == k.wid[t]
<1>1. IsFun(k, Fields) /\ TasksTyped(k) /\ WaitsTyped(k) /\ LocksTyped(k) /\ RunTyped(k) /\ ObjectsTyped(k)
  BY DEF Typed
<1>2. /\ IsFun(r, Fields) /\ SameTasks(k, r) /\ SameWaits(k, r) /\ SameLocks(k, r) /\ SameRun(k, r)
      /\ SameReady(k, r) /\ SameCounts(k, r) /\ r.call = k.call /\ r.mtxlist = k.mtxlist
      /\ r.timed = [k.timed EXCEPT ![t] = FALSE]
  BY <1>1 DEF knl_wait_cancel, SameTasks, SameWaits, SameLocks, SameRun, SameReady, SameCounts, IsFun, IsRec, Fields
<1>3. TasksTyped(r) /\ WaitsTyped(r) /\ LocksTyped(r) /\ RunTyped(r)
  <2> HIDE DEF r
  <2> QED
    BY <1>1, <1>2 DEF SameTasks, SameWaits, SameLocks, SameRun, SameReady, SameCounts,
                      TasksTyped, WaitsTyped, LocksTyped, RunTyped
<1>4. ObjectsTyped(r) /\ SameObjects(k, r)
      /\ \A x \in Object :
           /\ r.obj[x].wait_queue = IF x = k.wid[t] /\ k.wspec[t] # "rmbf" THEN RemoveFirst(k.obj[x].wait_queue, t)
                                                                            ELSE k.obj[x].wait_queue
           /\ k.obj[x].kind = "mbf" =>
                r.obj[x].recv_queue = IF x = k.wid[t] /\ k.wspec[t] = "rmbf" THEN RemoveFirst(k.obj[x].recv_queue, t)
                                                                             ELSE k.obj[x].recv_queue
  <2>1. CASE o = NULL
    <3>1. NULL \notin Object
      BY KernelTaskAssumption
    <3>2. r.obj = k.obj
      BY <1>1, <2>1 DEF knl_wait_cancel, IsFun, IsRec, Fields
    <3> QED
      BY <1>1, <2>1, <3>1, <3>2 DEF ObjectsTyped, SameObjects, SameObject, SameStock
  <2>2. CASE o # NULL /\ k.wspec[t] = "rmbf"
    <3>1. o \in Object /\ k.obj[o].kind = "mbf"
      BY <2>2 DEF WaitsFor, Suits, InQueue
    <3> DEFINE b == [k.obj[o] EXCEPT !.recv_queue = RemoveFirst(@, t)]
    <3>2. r.obj = [k.obj EXCEPT ![o] = b]
      BY <1>1, <2>2, <3>1 DEF knl_wait_cancel, ObjectsTyped, IsFun, IsRec, Fields
    <3>3. k.obj[o].recv_queue \in Seq(Task) /\ ObjTyped(k.obj[o])
      BY <1>1, <3>1 DEF ObjectsTyped, ObjTyped
    <3>4. /\ ObjTyped(b) /\ SameObject(k.obj[o], b) /\ b.wait_queue = k.obj[o].wait_queue
          /\ b.recv_queue = RemoveFirst(k.obj[o].recv_queue, t)
      <4>1. RingGood(b)
        BY <3>1, <3>3, RingKept DEF ObjTyped, IsRec, Ring
      <4>2. SameStock(k.obj[o], b)
        BY <3>3 DEF ObjTyped, IsRec, SameStock, BlocksGood, Blocks
      <4>3. BlocksGood(b)
        BY <3>1, <3>3, <4>2, BlocksKept DEF ObjTyped, IsRec
      <4> QED
        BY <3>1, <3>3, <4>1, <4>2, <4>3, RemoveTyped DEF ObjTyped, IsRec, SameObject, Used, Kinds
    <3> HIDE DEF b, r
    <3> QED
      BY <1>1, <2>2, <3>1, <3>2, <3>4 DEF ObjectsTyped, SameObjects, SameObject, SameStock, IsFun, IsRec
  <2>3. CASE o # NULL /\ k.wspec[t] # "rmbf"
    <3>1. o \in Object
      BY <2>3 DEF WaitsFor
    <3> DEFINE b == [k.obj[o] EXCEPT !.wait_queue = RemoveFirst(@, t)]
    <3>2. r.obj = [k.obj EXCEPT ![o] = b]
      BY <1>1, <2>3, <3>1 DEF knl_wait_cancel, ObjectsTyped, IsFun, IsRec, Fields
    <3>3. k.obj[o].wait_queue \in Seq(Task) /\ ObjTyped(k.obj[o])
      BY <1>1, <3>1 DEF ObjectsTyped, ObjTyped
    <3>4. /\ ObjTyped(b) /\ SameObject(k.obj[o], b) /\ b.wait_queue = RemoveFirst(k.obj[o].wait_queue, t)
          /\ k.obj[o].kind = "mbf" => b.recv_queue = k.obj[o].recv_queue
      <4>1. RingGood(b)
        BY <3>3, RingKept DEF ObjTyped, IsRec, Ring
      <4>2. SameStock(k.obj[o], b)
        BY <3>3 DEF ObjTyped, IsRec, SameStock, BlocksGood, Blocks
      <4>3. BlocksGood(b)
        BY <3>3, <4>2, BlocksKept DEF ObjTyped, IsRec
      <4> QED
        BY <3>1, <3>3, <4>1, <4>2, <4>3, RemoveTyped DEF ObjTyped, IsRec, SameObject, Used, Kinds
    <3> HIDE DEF b, r
    <3> QED
      BY <1>1, <2>3, <3>1, <3>2, <3>4 DEF ObjectsTyped, SameObjects, SameObject, SameStock, IsFun, IsRec
  <2> QED
    BY <2>1, <2>2, <2>3
<1> QED
  BY <1>2, <1>3, <1>4 DEF Cancelled, Typed


LEMMA LineWithout ==
  ASSUME NEW S, NEW queue, IsLine(queue, S), NEW t
  PROVE  IsLine(RemoveFirst(queue, t), S \ {t})
  BY RemoveLine

LEMMA OrderWithout ==
  ASSUME NEW S, NEW queue, IsLine(queue, S), NEW t, NEW pri, Ordered(pri, queue)
  PROVE  Ordered(pri, RemoveFirst(queue, t))
  BY RemoveLine

LEMMA CancelGood ==
  ASSUME NEW k, NEW X, NEW Z, NEW Y, Good(k, X, Z, Y), NEW t \in Task \ X, waiting(k, t),
         NEW r, Cancelled(k, r, t)
  PROVE  Good(r, X \cup {t}, Z, Y) /\ Calm(k, r)
<1> DEFINE W == X \cup {t}
           o == k.wid[t]
<1>1. /\ X \in SUBSET Task /\ Z \in SUBSET X
      /\ Typed(k) /\ ReadyGood(k, X) /\ LockerGood(k) /\ TopGood(k) /\ WaitGood(k, X)
      /\ MutexGood(k, X, Z, Y) /\ CallsGood(k) /\ LockGood(k)
  BY DEF Good, Core
<1>2. /\ Typed(r) /\ SameTasks(k, r) /\ SameWaits(k, r) /\ SameLocks(k, r) /\ SameRun(k, r)
      /\ SameReady(k, r) /\ SameObjects(k, r) /\ r.call = k.call /\ r.mtxlist = k.mtxlist
      /\ r.timed = [k.timed EXCEPT ![t] = FALSE]
  BY DEF Cancelled
<1>3. /\ \A u \in Task : (waiting(r, u) <=> waiting(k, u)) /\ (alive(r, u) <=> alive(k, u))
      /\ \A u \in Task : r.timed[u] = IF u = t THEN FALSE ELSE k.timed[u]
  BY <1>1, <1>2 DEF waiting, alive, SameTasks, Typed, WaitsTyped
<1>4. WaitsFor(k, t) /\ \A u \in Task \ X : waiting(k, u) => WaitsFor(r, u)
  BY <1>1, <1>2 DEF WaitGood, WaitsFor, SameWaits, SameObjects, SameObject
<1>5. k.state[t] # "ready"
  BY DEF waiting
<1>6. ReadyGood(r, W) /\ TopGood(r) /\ LockerGood(r)
  <2>1. ReadySet(r, W) = ReadySet(k, X)
    BY <1>1, <1>2, <1>5 DEF ReadySet, SameTasks, SameLocks
  <2> QED
    BY <1>1, <1>2, <2>1 DEF ReadyGood, TopGood, LockerGood, Locker, SameTasks, SameReady, SameLocks
<1>7. ASSUME NEW x \in Object
      PROVE  /\ IsLine(r.obj[x].wait_queue, Waiters(r, W, x))
             /\ r.obj[x].kind = "mbf" => IsLine(r.obj[x].recv_queue, Receivers(r, W, x))
             /\ Used(r.obj[x].kind) /\ "TPRI" \in r.obj[x].atr => Ordered(r.priority, r.obj[x].wait_queue)
             /\ k.obj[x].wait_queue = << >> => r.obj[x].wait_queue = << >>
  <2>1. /\ IsLine(k.obj[x].wait_queue, Waiters(k, X, x))
        /\ k.obj[x].kind = "mbf" => IsLine(k.obj[x].recv_queue, Receivers(k, X, x))
        /\ Used(k.obj[x].kind) /\ "TPRI" \in k.obj[x].atr => Ordered(k.priority, k.obj[x].wait_queue)
    BY <1>1 DEF WaitGood, LinesGood
  <2>2. Waiters(r, W, x) = Waiters(k, X, x) \ {t} /\ Receivers(r, W, x) = Receivers(k, X, x) \ {t}
    BY <1>2, <1>3 DEF Waiters, Receivers, SameWaits
  <2>3. SameObject(k.obj[x], r.obj[x]) /\ r.priority = k.priority
    BY <1>2 DEF SameObjects, SameTasks
  <2>4. CASE x = o /\ k.wspec[t] # "rmbf"
    <3>1. r.obj[x].wait_queue = RemoveFirst(k.obj[x].wait_queue, t)
          /\ (k.obj[x].kind = "mbf" => r.obj[x].recv_queue = k.obj[x].recv_queue)
      BY <2>4 DEF Cancelled
    <3>2. Receivers(k, X, x) \ {t} = Receivers(k, X, x)
      BY <2>4 DEF Receivers
    <3>3. IsLine(r.obj[x].wait_queue, Waiters(r, W, x))
      <4>1. IsLine(RemoveFirst(k.obj[x].wait_queue, t), Waiters(k, X, x) \ {t})
        BY <2>1, LineWithout
      <4> QED
        BY <2>2, <3>1, <4>1
    <3>4. Ordered(k.priority, k.obj[x].wait_queue) => Ordered(k.priority, r.obj[x].wait_queue)
      BY <2>1, <3>1, OrderWithout
    <3> QED
      BY <2>1, <2>2, <2>3, <3>1, <3>2, <3>3, <3>4, RemoveEmpty DEF SameObject
  <2>5. CASE ~ (x = o /\ k.wspec[t] # "rmbf")
    <3>1. Waiters(k, X, x) \ {t} = Waiters(k, X, x)
      BY <2>5 DEF Waiters, InQueue
    <3>2. r.obj[x].wait_queue = k.obj[x].wait_queue
      BY <2>5 DEF Cancelled
    <3>3. k.obj[x].kind = "mbf" => IsLine(r.obj[x].recv_queue, Receivers(r, W, x))
      <4>1. CASE x = o
        <5>1. k.obj[x].kind = "mbf" => r.obj[x].recv_queue = RemoveFirst(k.obj[x].recv_queue, t)
          BY <2>5, <4>1 DEF Cancelled
        <5>2. ASSUME k.obj[x].kind = "mbf"
              PROVE  IsLine(RemoveFirst(k.obj[x].recv_queue, t), Receivers(k, X, x) \ {t})
          BY <2>1, <5>2, LineWithout
        <5> QED
          BY <2>2, <5>1, <5>2
      <4>2. CASE x # o
        <5>1. Receivers(k, X, x) \ {t} = Receivers(k, X, x)
          BY <4>2 DEF Receivers
        <5> QED
          BY <2>1, <2>2, <4>2, <5>1 DEF Cancelled
      <4> QED
        BY <4>1, <4>2
    <3> QED
      BY <2>1, <2>2, <2>3, <3>1, <3>2, <3>3 DEF SameObject
  <2> QED
    BY <2>4, <2>5
<1>8. WaitGood(r, W)
  <2>1. TimedGood(r, W)
    BY <1>1, <1>3 DEF WaitGood, TimedGood
  <2> QED
    BY <1>1, <1>3, <1>4, <1>7, <2>1 DEF WaitGood, LinesGood
<1>9. MutexGood(r, W, Z, Y)
  <2>1. OwnerGood(r, Y)
    BY <1>1, <1>2, <1>3, <1>7 DEF MutexGood, OwnerGood, SameObjects, SameObject, Typed, ObjectsTyped, ObjTyped
  <2>2. ListGood(r, Z, Y)
    <3>1. \A u \in Task : \A m \in Range(k.mtxlist[u]) : m \in Object
      BY <1>1 DEF Typed, TasksTyped, Range
    <3>2. ListGood(k, Z, Y)
      BY <1>1 DEF MutexGood
    <3> QED
      BY <1>2, <3>1, <3>2 DEF ListGood, Holds, SameObjects, SameObject
  <2>3. RankGood(r, W)
    BY <1>1, <1>2, <1>3 DEF MutexGood, RankGood, SameWaits
  <2> QED
    BY <2>1, <2>2, <2>3 DEF MutexGood
<1>10. CallsGood(r) /\ LockGood(r)
  <2>1. CallsGood(r)
    BY <1>1, <1>2, CallsKept DEF SameTasks, SameLocks, SameObjects, SameObject
  <2>2. LockGood(r)
    <3>1. \A u \in Task, x \in Object : Has(r, u, x) <=> Has(k, u, x)
      BY <1>2 DEF Has, SameLocks
    <3>2. LockGood(k) /\ r.state = k.state /\ r.klock = k.klock /\ r.call = k.call
          /\ r.wtskq = k.wtskq /\ r.locked = k.locked
      BY <1>1, <1>2 DEF SameTasks, SameLocks
    <3> QED
      BY <3>1, <3>2, LockKept
  <2> QED
    BY <2>1, <2>2
<1>11. Calm(k, r)
  BY <1>1, <1>2, <1>3 DEF Calm, SameWaits, SameLocks, SameRun, SameReady, SameObjects, SameObject
<1> QED
  BY <1>1, <1>2, <1>6, <1>8, <1>9, <1>10, <1>11 DEF Good, Core

-----------------------------------------------------------------------------
(***************************************************************************)
(* Each part of the invariant depends on a few fields only.                *)
(***************************************************************************)
SameQueues(b, c) ==
  /\ c.kind = b.kind /\ c.wait_queue = b.wait_queue
  /\ Used(b.kind) => c.atr = b.atr
  /\ b.kind = "mbf" => c.recv_queue = b.recv_queue

LEMMA WaitKept ==
  ASSUME NEW k, NEW r, NEW X, NEW W, WaitGood(k, X),
         \A u \in Task : (u \notin W /\ waiting(r, u)) <=> (u \notin X /\ waiting(k, u)),
         \A u \in Task : u \notin X /\ waiting(k, u) =>
           /\ r.wspec[u] = k.wspec[u] /\ r.wid[u] = k.wid[u] /\ r.winfo[u] = k.winfo[u]
           /\ r.priority[u] = k.priority[u],
         \A x \in Object : SameQueues(k.obj[x], r.obj[x]),
         \A u \in Task : r.timed[u] => k.timed[u]
  PROVE  WaitGood(r, W)
<1>1. ASSUME NEW x \in Object
      PROVE  /\ IsLine(r.obj[x].wait_queue, Waiters(r, W, x))
             /\ r.obj[x].kind = "mbf" => IsLine(r.obj[x].recv_queue, Receivers(r, W, x))
             /\ Used(r.obj[x].kind) /\ "TPRI" \in r.obj[x].atr => Ordered(r.priority, r.obj[x].wait_queue)
  <2>1. /\ IsLine(k.obj[x].wait_queue, Waiters(k, X, x))
        /\ k.obj[x].kind = "mbf" => IsLine(k.obj[x].recv_queue, Receivers(k, X, x))
        /\ Used(k.obj[x].kind) /\ "TPRI" \in k.obj[x].atr => Ordered(k.priority, k.obj[x].wait_queue)
    BY DEF WaitGood, LinesGood
  <2>2. Waiters(r, W, x) = Waiters(k, X, x) /\ Receivers(r, W, x) = Receivers(k, X, x)
    BY DEF Waiters, Receivers
  <2>3. \A u \in Waiters(k, X, x) : r.priority[u] = k.priority[u]
    BY DEF Waiters
  <2>4. Ordered(k.priority, k.obj[x].wait_queue) => Ordered(r.priority, k.obj[x].wait_queue)
    BY <2>1, <2>3, OrderKept
  <2>5. SameQueues(k.obj[x], r.obj[x])
    OBVIOUS
  <2> QED
    BY <2>1, <2>2, <2>4, <2>5 DEF SameQueues
<1>2. TimedGood(r, W)
  BY DEF WaitGood, TimedGood
<1>3. ASSUME NEW u \in Task \ W, waiting(r, u) PROVE WaitsFor(r, u)
  <2>1. WaitsFor(k, u) /\ r.wspec[u] = k.wspec[u] /\ r.wid[u] = k.wid[u] /\ r.winfo[u] = k.winfo[u]
    BY <1>3 DEF WaitGood
  <2> QED
    BY <2>1 DEF WaitsFor, SameQueues
<1> QED
  BY <1>1, <1>2, <1>3 DEF WaitGood, LinesGood

LEMMA MutexKept ==
  ASSUME NEW k, NEW r, NEW X, NEW W, NEW Z, NEW V, NEW Y, MutexGood(k, X, Z, Y), Z \subseteq V,
         TasksTyped(k), ObjectsTyped(k), r.mtxlist = k.mtxlist,
         \A x \in Object : SameObject(k.obj[x], r.obj[x])
                           /\ (k.obj[x].wait_queue = << >> => r.obj[x].wait_queue = << >>),
         \A u \in Task : alive(k, u) => alive(r, u),
         \A u \in Task : u \notin W /\ waiting(r, u) =>
           u \notin X /\ waiting(k, u) /\ r.wspec[u] = k.wspec[u] /\ r.wid[u] = k.wid[u]
  PROVE  MutexGood(r, W, V, Y)
<1>1. OwnerGood(r, Y)
  <2>1. OwnerGood(k, Y)
    BY DEF MutexGood
  <2> QED
    BY <2>1 DEF OwnerGood, SameObject, ObjectsTyped, ObjTyped
<1>2. ListGood(r, V, Y)
  <2>1. \A u \in Task : \A m \in Range(k.mtxlist[u]) : m \in Object
    BY DEF TasksTyped, Range
  <2> QED
    BY <2>1 DEF MutexGood, ListGood, Holds, SameObject
<1>3. RankGood(r, W)
  BY DEF MutexGood, RankGood
<1> QED
  BY <1>1, <1>2, <1>3 DEF MutexGood

LEMMA LocksKept ==
  ASSUME NEW k, NEW r, LockGood(k), \A t \in Task : k.klock[t] = "klockwait" => r.state[t] = "ready",
         r.klock = k.klock, r.call = k.call, r.wtskq = k.wtskq, r.locked = k.locked
  PROVE  LockGood(r)
<1>1. \A u \in Task, x \in Object : Has(r, u, x) <=> Has(k, u, x)
  BY DEF Has
<1>2. ASSUME NEW x \in Object
      PROVE  { t \in Task : r.klock[t] = "klockwait" /\ r.call[t].o = x }
               = { t \in Task : k.klock[t] = "klockwait" /\ k.call[t].o = x }
  OBVIOUS
<1> QED
  BY <1>1, <1>2 DEF LockGood

LEMMA ReadyKept ==
  ASSUME NEW k, NEW r, NEW X, NEW W, ReadyGood(k, X),
         \A t \in Task : (t \notin W /\ r.state[t] = "ready") <=> (t \notin X /\ k.state[t] = "ready"),
         r.klock = k.klock, r.ready = k.ready, \A t \in Task : t \notin X => r.priority[t] = k.priority[t]
  PROVE  ReadyGood(r, W)
<1>1. ReadySet(r, W) = ReadySet(k, X)
  BY DEF ReadySet
<1>2. \A t \in ReadySet(k, X) : r.priority[t] = k.priority[t]
  BY DEF ReadySet
<1>3. IsLine(k.ready, ReadySet(k, X)) /\ Ordered(k.priority, k.ready)
  BY DEF ReadyGood
<1>4. Ordered(r.priority, k.ready)
  BY <1>2, <1>3, OrderKept
<1> QED
  BY <1>1, <1>3, <1>4 DEF ReadyGood

(* Whoever is first stays it when another one goes. *)
LEMMA RemoveHead ==
  ASSUME NEW S, NEW queue, IsLine(queue, S), queue # << >>, NEW t, Head(queue) # t
  PROVE  RemoveFirst(queue, t) # << >> /\ Head(RemoveFirst(queue, t)) = Head(queue)
<1> DEFINE n == Len(queue)
           q == RemoveFirst(queue, t)
<1>1. queue \in Seq(S) /\ n \in Nat /\ n # 0 /\ DOMAIN queue = 1 .. n /\ Head(queue) = queue[1]
  BY DEF IsLine
<1>2. CASE q = queue
  BY <1>2
<1>3. ASSUME NEW j \in DOMAIN queue, queue[j] = t, q = SubSeq(queue, 1, j - 1) \o SubSeq(queue, j + 1, n)
      PROVE  q # << >> /\ Head(q) = Head(queue)
  <2> DEFINE a == SubSeq(queue, 1, j - 1)
             b == SubSeq(queue, j + 1, n)
  <2>1. j \in 1 .. n /\ j # 1 /\ \A i \in 1 .. n : queue[i] \in S
    BY <1>1, <1>3
  <2>2. a \in Seq(S) /\ Len(a) = j - 1 /\ a[1] = queue[1]
    BY <1>1, <2>1
  <2>3. b \in Seq(S)
    <3>1. j + 1 \in Int /\ n \in Int /\ \A i \in j + 1 .. n : queue[i] \in S
      BY <1>1, <2>1
    <3> QED
      BY <1>1, <3>1, SubSeqProperties
  <2> HIDE DEF a, b, n
  <2>4. a \o b \in Seq(S) /\ Len(a \o b) = Len(a) + Len(b) /\ (a \o b)[1] = a[1]
    BY <2>1, <2>2, <2>3
  <2>5. Len(b) \in Nat /\ Len(a \o b) # 0
    BY <2>1, <2>2, <2>3, <2>4
  <2>6. a \o b # << >> /\ Head(a \o b) = (a \o b)[1]
    BY <2>4, <2>5
  <2> QED
    BY <1>1, <1>3, <2>2, <2>4, <2>6 DEF a, b
<1> QED
  BY <1>1, <1>2, <1>3, RemoveFirstIs

-----------------------------------------------------------------------------
(***************************************************************************)
(* A task leaves the queue of the ready tasks or of a lock.                *)
(***************************************************************************)
Left(k, r, t) ==
  /\ SameTasks(k, r) /\ SameWaits(k, r) /\ SameRun(k, r) /\ SameCounts(k, r)
  /\ r.obj = k.obj /\ r.call = k.call /\ r.mtxlist = k.mtxlist /\ r.timed = k.timed
  /\ r.locked = k.locked
  /\ \A u \in Task : r.klock[u] = IF u = t /\ k.klock[t] = "klockwait" THEN "none" ELSE k.klock[u]

LEMMA DeleteIs ==
  ASSUME NEW k, Typed(k), NEW t \in Task, LockGood(k)
  PROVE  LET r == knl_ready_queue_delete(k, t)
             o == k.call[t].o
         IN  /\ Typed(r) /\ Left(k, r, t) /\ r.schedtsk = k.schedtsk
             /\ k.klock[t] = "klockwait" =>
                  /\ o \in Object /\ r.wtskq = [k.wtskq EXCEPT ![o] = RemoveFirst(@, t)]
                  /\ r.ready = k.ready /\ r.klocktsk = k.klocktsk
             /\ k.klock[t] # "klockwait" =>
                  /\ r.wtskq = k.wtskq /\ r.ready = RemoveFirst(k.ready, t)
                  /\ r.klocktsk = IF k.klocktsk = t THEN NULL ELSE k.klocktsk
<1> DEFINE r == knl_ready_queue_delete(k, t)
           o == k.call[t].o
<1>1. IsFun(k, Fields) /\ TasksTyped(k) /\ WaitsTyped(k) /\ LocksTyped(k) /\ RunTyped(k) /\ ObjectsTyped(k)
  BY DEF Typed
<1>2. CASE k.klock[t] = "klockwait"
  <2>1. o \in Object
    BY <1>2 DEF LockGood
  <2>2. /\ IsFun(r, Fields) /\ SameTasks(k, r) /\ SameWaits(k, r) /\ SameRun(k, r) /\ SameCounts(k, r)
        /\ r.obj = k.obj /\ r.call = k.call /\ r.mtxlist = k.mtxlist /\ r.timed = k.timed
        /\ r.locked = k.locked /\ SameReady(k, r)
        /\ r.klock = [k.klock EXCEPT ![t] = "none"] /\ r.wtskq = [k.wtskq EXCEPT ![o] = RemoveFirst(@, t)]
    BY <1>1, <1>2 DEF knl_ready_queue_delete, SameTasks, SameWaits, SameRun, SameCounts, SameReady, IsFun, IsRec, Fields
  <2>3. RemoveFirst(k.wtskq[o], t) \in Seq(Task)
    BY <1>1, <2>1, RemoveTyped DEF LocksTyped
  <2> HIDE DEF r, o
  <2>4. TasksTyped(r) /\ WaitsTyped(r) /\ RunTyped(r) /\ ObjectsTyped(r)
    BY <1>1, <2>2 DEF SameTasks, SameWaits, SameRun, SameReady, SameCounts,
                      TasksTyped, WaitsTyped, RunTyped, ObjectsTyped
  <2>5. LocksTyped(r)
    BY <1>1, <2>1, <2>2, <2>3 DEF LocksTyped
  <2>6. \A u \in Task : r.klock[u] = IF u = t /\ k.klock[t] = "klockwait" THEN "none" ELSE k.klock[u]
    BY <1>1, <1>2, <2>2 DEF LocksTyped
  <2> QED
    BY <1>2, <2>1, <2>2, <2>4, <2>5, <2>6 DEF Typed, Left, SameReady, r, o
<1>3. CASE k.klock[t] # "klockwait"
  <2>1. /\ IsFun(r, Fields) /\ SameTasks(k, r) /\ SameWaits(k, r) /\ SameRun(k, r) /\ SameCounts(k, r)
        /\ r.obj = k.obj /\ r.call = k.call /\ r.mtxlist = k.mtxlist /\ r.timed = k.timed
        /\ SameLocks(k, r) /\ r.schedtsk = k.schedtsk /\ r.ready = RemoveFirst(k.ready, t)
        /\ r.klocktsk = IF k.klocktsk = t THEN NULL ELSE k.klocktsk
    BY <1>1, <1>3 DEF knl_ready_queue_delete, SameTasks, SameWaits, SameRun, SameCounts, SameLocks, IsFun, IsRec, Fields
  <2>2. RemoveFirst(k.ready, t) \in Seq(Task)
    BY <1>1, RemoveTyped DEF RunTyped
  <2> HIDE DEF r
  <2>3. TasksTyped(r) /\ WaitsTyped(r) /\ LocksTyped(r) /\ ObjectsTyped(r)
    BY <1>1, <2>1 DEF SameTasks, SameWaits, SameLocks, SameCounts,
                      TasksTyped, WaitsTyped, LocksTyped, ObjectsTyped
  <2>4. RunTyped(r)
    BY <1>1, <2>1, <2>2 DEF RunTyped, SameRun
  <2> QED
    BY <1>3, <2>1, <2>3, <2>4 DEF Typed, Left, SameLocks, r
<1> QED
  BY <1>2, <1>3

LEMMA DeleteCore ==
  ASSUME NEW k, NEW X, NEW Z, NEW Y, Core(k, X, Z, Y), NEW t \in Task \ X, k.state[t] = "ready"
  PROVE  LET r == knl_ready_queue_delete(k, t)
         IN  /\ Core(r, X \cup {t}, Z, Y) /\ Left(k, r, t) /\ r.schedtsk = k.schedtsk
             /\ \A u \in Task : u # t /\ u \in Range(k.ready) => u \in Range(r.ready)
             /\ TopGood(k) /\ k.schedtsk # t => TopGood(r)
<1> DEFINE r == knl_ready_queue_delete(k, t)
           o == k.call[t].o
           W == X \cup {t}
<1>1. /\ X \in SUBSET Task /\ Z \in SUBSET X
      /\ Typed(k) /\ ReadyGood(k, X) /\ LockerGood(k) /\ WaitGood(k, X)
      /\ MutexGood(k, X, Z, Y) /\ CallsGood(k) /\ LockGood(k)
  BY DEF Core
<1>2. /\ Typed(r) /\ Left(k, r, t) /\ r.schedtsk = k.schedtsk
      /\ k.klock[t] = "klockwait" =>
           /\ o \in Object /\ r.wtskq = [k.wtskq EXCEPT ![o] = RemoveFirst(@, t)]
           /\ r.ready = k.ready /\ r.klocktsk = k.klocktsk
      /\ k.klock[t] # "klockwait" =>
           /\ r.wtskq = k.wtskq /\ r.ready = RemoveFirst(k.ready, t)
           /\ r.klocktsk = IF k.klocktsk = t THEN NULL ELSE k.klocktsk
  BY <1>1, DeleteIs
<1> HIDE DEF r
<1>3. /\ SameTasks(k, r) /\ SameWaits(k, r) /\ r.obj = k.obj /\ r.call = k.call
      /\ r.mtxlist = k.mtxlist /\ r.timed = k.timed /\ r.locked = k.locked /\ r.schedtsk = k.schedtsk
      /\ \A u \in Task : r.klock[u] = IF u = t /\ k.klock[t] = "klockwait" THEN "none" ELSE k.klock[u]
  BY <1>2 DEF Left
<1>4. /\ \A u \in Task : waiting(r, u) <=> waiting(k, u)
      /\ \A u \in Task : alive(r, u) <=> alive(k, u)
      /\ ~ waiting(k, t)
  BY <1>3 DEF waiting, alive, SameTasks
<1>5. WaitGood(r, W)
  <2>1. \A u \in Task : (u \notin W /\ waiting(r, u)) <=> (u \notin X /\ waiting(k, u))
    BY <1>4
  <2> QED
    BY <1>1, <1>3, <2>1, WaitKept DEF SameWaits, SameTasks, SameQueues
<1>6. MutexGood(r, W, Z, Y)
  BY <1>1, <1>3, <1>4, MutexKept DEF SameWaits, SameObject, Typed, SameStock
<1>7. CallsGood(r)
  BY <1>1, <1>3, CallsKept DEF SameTasks, SameStock
<1>8. IsLine(k.ready, ReadySet(k, X)) /\ Ordered(k.priority, k.ready)
  BY <1>1 DEF ReadyGood
<1>9. CASE k.klock[t] = "klockwait"
  <2>1. ReadySet(r, W) = ReadySet(k, X)
    BY <1>3, <1>9 DEF ReadySet, SameTasks
  <2>2. ReadyGood(r, W) /\ LockerGood(r)
    <3>1. \A u \in Task : u \in Range(k.ready) => u # t
      BY <1>8, <1>9, LineRange DEF ReadySet
    <3> QED
      BY <1>1, <1>2, <1>3, <1>8, <1>9, <2>1 DEF ReadyGood, LockerGood, Locker, SameTasks, Typed, RunTyped
  <2>3. LockGood(r)
    <3>1. \A u \in Task, x \in Object : Has(r, u, x) <=> Has(k, u, x)
      BY <1>3, <1>9 DEF Has
    <3>2. ASSUME NEW x \in Object
          PROVE  /\ IsLine(r.wtskq[x], { u \in Task : r.klock[u] = "klockwait" /\ r.call[u].o = x })
                 /\ k.wtskq[x] = << >> => r.wtskq[x] = << >>
      <4> DEFINE S == { u \in Task : k.klock[u] = "klockwait" /\ k.call[u].o = x }
      <4>1. IsLine(k.wtskq[x], S)
        BY <1>1 DEF LockGood
      <4>2. { u \in Task : r.klock[u] = "klockwait" /\ r.call[u].o = x } = S \ {t}
        BY <1>3, <1>9
      <4>3. x # o => S \ {t} = S
        OBVIOUS
      <4>4. r.wtskq[x] = IF x = o THEN RemoveFirst(k.wtskq[x], t) ELSE k.wtskq[x]
        BY <1>1, <1>2, <1>9 DEF Typed, LocksTyped
      <4>5. IsLine(RemoveFirst(k.wtskq[x], t), S \ {t})
        BY <4>1, LineWithout
      <4> HIDE DEF S
      <4> QED
        BY <4>1, <4>2, <4>3, <4>4, <4>5, RemoveEmpty
    <3>3. /\ \A u \in Task : r.klock[u] # "none" => r.call[u] # NULL /\ r.call[u].o \in Object
          /\ \A u \in Task : r.klock[u] = "klockwait" => r.state[u] = "ready" /\ r.call[u].at = "lock"
      <4>1. /\ \A u \in Task : k.klock[u] # "none" => k.call[u] # NULL /\ k.call[u].o \in Object
            /\ \A u \in Task : k.klock[u] = "klockwait" => k.state[u] = "ready" /\ k.call[u].at = "lock"
        BY <1>1 DEF LockGood
      <4> QED
        BY <1>3, <4>1 DEF SameTasks
    <3>4. ASSUME NEW x \in Object
          PROVE  /\ x \notin r.locked => r.wtskq[x] = << >>
                 /\ x \in r.locked <=> \E u \in Task : Has(r, u, x)
                 /\ \A u, v \in Task : Has(r, u, x) /\ Has(r, v, x) => u = v
      <4>1. /\ x \notin k.locked => k.wtskq[x] = << >>
            /\ x \in k.locked <=> \E u \in Task : Has(k, u, x)
            /\ \A u, v \in Task : Has(k, u, x) /\ Has(k, v, x) => u = v
        BY <1>1 DEF LockGood
      <4> QED
        BY <1>3, <3>1, <3>2, <4>1
    <3> QED
      BY <3>2, <3>3, <3>4 DEF LockGood
  <2>4. /\ \A u \in Task : u \in Range(k.ready) => u \in Range(r.ready)
        /\ TopGood(k) => TopGood(r)
    <3>1. \A u \in Task : u \in Range(k.ready) => u # t /\ u \in Task
      BY <1>8, <1>9, LineRange DEF ReadySet
    <3>2. r.ready = k.ready /\ r.schedtsk = k.schedtsk
      BY <1>2, <1>3, <1>9
    <3>3. Locker(k, k.schedtsk) => Locker(r, k.schedtsk)
      <4>1. Range(k.ready) \subseteq Task
        BY <1>8, LineRange DEF ReadySet
      <4> QED
        BY <1>3, <3>1, <3>2, <4>1 DEF Locker
    <3> QED
      BY <3>2, <3>3 DEF TopGood
  <2> QED
    BY <1>1, <1>2, <1>5, <1>6, <1>7, <2>2, <2>3, <2>4 DEF Core, r
<1>10. CASE k.klock[t] # "klockwait"
  <2>1. r.klock = k.klock
    BY <1>1, <1>2, <1>3, <1>10 DEF Typed, LocksTyped
  <2>2. ReadySet(r, W) = ReadySet(k, X) \ {t}
    BY <1>3, <2>1 DEF ReadySet, SameTasks
  <2>3. IsLine(RemoveFirst(k.ready, t), ReadySet(k, X) \ {t}) /\ Ordered(k.priority, RemoveFirst(k.ready, t))
    BY <1>8, LineWithout, OrderWithout
  <2>4. IsLine(r.ready, ReadySet(r, W)) /\ Ordered(r.priority, r.ready)
    BY <1>2, <1>3, <1>10, <2>2, <2>3 DEF SameTasks
  <2>5. \A u \in Task : u # t /\ u \in Range(k.ready) => u \in Range(r.ready)
    <3>1. Range(k.ready) = ReadySet(k, X) /\ Range(r.ready) = ReadySet(k, X) \ {t}
      BY <1>8, <2>2, <2>4, LineRange
    <3> QED
      BY <3>1
  <2>6. LockerGood(r)
    BY <1>1, <1>2, <1>10, <2>1, <2>5 DEF LockerGood, Locker, Typed, RunTyped
  <2>7. LockGood(r)
    <3>1. \A u \in Task : k.klock[u] = "klockwait" => r.state[u] = "ready"
      BY <1>1, <1>3 DEF LockGood, SameTasks
    <3>2. r.call = k.call /\ r.locked = k.locked /\ r.wtskq = k.wtskq
      BY <1>2, <1>3, <1>10
    <3> QED
      BY <1>1, <2>1, <3>1, <3>2, LocksKept
  <2>8. ASSUME TopGood(k), k.schedtsk # t PROVE TopGood(r)
    <3>1. CASE Locker(k, k.schedtsk)
      <4>1. k.schedtsk \in Task
        BY <1>8, <3>1, LineRange DEF Locker, ReadySet
      <4> QED
        BY <1>3, <2>1, <2>5, <2>8, <3>1, <4>1 DEF TopGood, Locker
    <3>2. CASE k.schedtsk = Top(k.ready)
      <4>1. k.ready # << >> /\ Head(k.ready) # t
        <5>1. t \in ReadySet(k, X)
          BY <1>10 DEF ReadySet
        <5> QED
          BY <1>8, <2>8, <3>2, <5>1, LineRange DEF Top
      <4>2. RemoveFirst(k.ready, t) # << >> /\ Head(RemoveFirst(k.ready, t)) = Head(k.ready)
        BY <1>8, <4>1, RemoveHead
      <4> QED
        BY <1>2, <1>3, <1>10, <3>2, <4>1, <4>2 DEF TopGood, Top
    <3> QED
      BY <2>8, <3>1, <3>2 DEF TopGood
  <2> QED
    BY <1>1, <1>2, <1>5, <1>6, <1>7, <2>4, <2>5, <2>6, <2>7, <2>8 DEF Core, ReadyGood, r
<1> QED
  BY <1>9, <1>10

-----------------------------------------------------------------------------
(***************************************************************************)
(* A task that is in no queue is put into the ready queue.                 *)
(***************************************************************************)
Joined(k, r, t) ==
  /\ r.state = [k.state EXCEPT ![t] = "ready"]
  /\ r.priority = k.priority /\ r.bpriority = k.bpriority /\ r.ipriority = k.ipriority
  /\ SameWaits(k, r) /\ SameRun(k, r) /\ SameCounts(k, r) /\ SameLocks(k, r)
  /\ r.obj = k.obj /\ r.call = k.call /\ r.mtxlist = k.mtxlist /\ r.timed = k.timed
  /\ r.klocktsk = IF k.klock[t] = "klocked" THEN t ELSE k.klocktsk

LEMMA InsertTyped ==
  ASSUME NEW k, Typed(k), NEW t \in Task, NEW r, IsFun(r, Fields), Joined(k, r, t), r.ready \in Seq(Task),
         r.schedtsk \in Task \cup {NULL}
  PROVE  Typed(r)
<1>1. TasksTyped(k) /\ WaitsTyped(k) /\ LocksTyped(k) /\ RunTyped(k) /\ ObjectsTyped(k)
  BY DEF Typed
<1>2. TasksTyped(r) /\ WaitsTyped(r) /\ LocksTyped(r) /\ ObjectsTyped(r)
  BY <1>1 DEF Joined, SameWaits, SameLocks, SameCounts, States, TasksTyped, WaitsTyped, LocksTyped, ObjectsTyped
<1>3. RunTyped(r)
  BY <1>1 DEF RunTyped, Joined, SameRun
<1> QED
  BY <1>2, <1>3 DEF Typed

(* However it is put there. *)
LEMMA JoinCore ==
  ASSUME NEW k, NEW X, NEW Z, NEW Y, Core(k, X, Z, Y), NEW t \in X \ Z, k.klock[t] # "klockwait",
         NEW r, Typed(r), Joined(k, r, t),
         IsLine(r.ready, ReadySet(k, X) \cup {t}), Ordered(k.priority, r.ready)
  PROVE  /\ Core(r, X \ {t}, Z, Y)
         /\ \A u \in Task : u \in Range(r.ready) <=> u = t \/ u \in Range(k.ready)
<1> DEFINE W == X \ {t}
<1>1. /\ X \in SUBSET Task /\ Z \in SUBSET X
      /\ Typed(k) /\ ReadyGood(k, X) /\ LockerGood(k) /\ WaitGood(k, X)
      /\ MutexGood(k, X, Z, Y) /\ CallsGood(k) /\ LockGood(k)
  BY DEF Core
<1>2. /\ r.state = [k.state EXCEPT ![t] = "ready"] /\ r.priority = k.priority
      /\ SameWaits(k, r) /\ SameLocks(k, r) /\ r.obj = k.obj /\ r.call = k.call
      /\ r.mtxlist = k.mtxlist /\ r.timed = k.timed
  BY DEF Joined
<1>3. /\ \A u \in Task : r.state[u] = IF u = t THEN "ready" ELSE k.state[u]
      /\ \A u \in Task : waiting(r, u) <=> waiting(k, u) /\ u # t
      /\ \A u \in Task : alive(k, u) => alive(r, u)
  BY <1>1, <1>2 DEF waiting, alive, Typed, TasksTyped
<1>4. WaitGood(r, W)
  <2>1. \A u \in Task : (u \notin W /\ waiting(r, u)) <=> (u \notin X /\ waiting(k, u))
    BY <1>3
  <2> QED
    BY <1>1, <1>2, <2>1, WaitKept DEF SameWaits, SameQueues
<1>5. MutexGood(r, W, Z, Y)
  BY <1>1, <1>2, <1>3, MutexKept DEF SameWaits, SameObject, Typed, SameStock
<1>6. CallsGood(r)
  BY <1>1, <1>2, <1>3, CallsKept DEF SameLocks, SameStock
<1>7. LockGood(r)
  <2>1. \A u \in Task : k.klock[u] = "klockwait" => r.state[u] = "ready"
    BY <1>1, <1>3 DEF LockGood
  <2> QED
    BY <1>1, <1>2, <2>1, LocksKept DEF SameLocks
<1>8. ReadySet(r, W) = ReadySet(k, X) \cup {t}
  BY <1>1, <1>2, <1>3 DEF ReadySet, SameLocks
<1>9. \A u \in Task : u \in Range(r.ready) <=> u = t \/ u \in Range(k.ready)
  <2>1. Range(r.ready) = ReadySet(k, X) \cup {t}
    BY LineRange
  <2>2. Range(k.ready) = ReadySet(k, X)
    BY <1>1, LineRange DEF ReadyGood
  <2> QED
    BY <2>1, <2>2
<1>10. LockerGood(r)
  <2>1. r.klocktsk = IF k.klock[t] = "klocked" THEN t ELSE k.klocktsk
    BY DEF Joined
  <2>2. k.klocktsk \in Task \cup {NULL} /\ t \in Task
    BY <1>1 DEF Typed, RunTyped
  <2> QED
    BY <1>1, <1>2, <1>9, <2>1, <2>2 DEF LockerGood, Locker, SameLocks
<1>11. ReadyGood(r, W)
  BY <1>2, <1>8 DEF ReadyGood
<1>12. W \in SUBSET Task /\ Z \in SUBSET W
  BY <1>1
<1> QED
  BY <1>4, <1>5, <1>6, <1>7, <1>9, <1>10, <1>11, <1>12 DEF Core

LEMMA ReadyWith ==
  ASSUME NEW k, NEW X, NEW Z, NEW Y, Core(k, X, Z, Y), NEW t \in X
  PROVE  LET q == ByPriority(k, k.ready, t)
         IN  /\ IsLine(q, ReadySet(k, X) \cup {t}) /\ Ordered(k.priority, q)
             /\ q \in Seq(Task) /\ q # << >> /\ Head(q) = Foremost(k, k.ready, t)
<1> DEFINE S == ReadySet(k, X)
           q == ByPriority(k, k.ready, t)
<1>1. /\ S \subseteq Task /\ IsLine(k.ready, S) /\ t \in Task /\ t \notin S /\ k.priority \in [Task -> Pri]
      /\ Ordered(k.priority, k.ready)
  BY DEF Core, Typed, TasksTyped, ReadySet, ReadyGood
<1> HIDE DEF S
<1>2. IsLine(q, S \cup {t}) /\ Ordered(k.priority, q) /\ Head(q) = Foremost(k, k.ready, t)
  BY <1>1, ByPriorityLine
<1>3. q \in Seq(Task) /\ q # << >>
  <2> DEFINE W == S \cup {t}
  <2>1. IsLine(q, W) /\ W # {} /\ W \subseteq Task
    BY <1>1, <1>2
  <2> HIDE DEF W, q
  <2>2. q \in Seq(W) /\ q # << >>
    BY <2>1, LineRange
  <2> QED
    BY <2>1, <2>2
<1> QED
  BY <1>2, <1>3 DEF S

LEMMA InsertCore ==
  ASSUME NEW k, NEW X, NEW Z, NEW Y, Core(k, X, Z, Y), NEW t \in X \ Z, k.klock[t] # "klockwait",
         k.state[t] = "ready"
  PROVE  LET r == knl_ready_queue_insert(k, t)
         IN  /\ Core(r, X \ {t}, Z, Y) /\ Joined(k, r, t) /\ r.schedtsk = k.schedtsk
             /\ \A u \in Task : u \in Range(r.ready) <=> u = t \/ u \in Range(k.ready)
<1> DEFINE r == knl_ready_queue_insert(k, t)
<1>1. IsFun(k, Fields) /\ Typed(k) /\ t \in Task
  BY DEF Core, Typed
<1>2. Joined(k, r, t) /\ IsFun(r, Fields) /\ r.schedtsk = k.schedtsk /\ r.ready = ByPriority(k, k.ready, t)
  <2>1. /\ IsFun(r, Fields) /\ r.state = k.state
        /\ r.priority = k.priority /\ r.bpriority = k.bpriority /\ r.ipriority = k.ipriority
        /\ SameWaits(k, r) /\ SameRun(k, r) /\ SameCounts(k, r) /\ SameLocks(k, r)
        /\ r.obj = k.obj /\ r.call = k.call /\ r.mtxlist = k.mtxlist /\ r.timed = k.timed
        /\ r.klocktsk = (IF k.klock[t] = "klocked" THEN t ELSE k.klocktsk)
        /\ r.schedtsk = k.schedtsk /\ r.ready = ByPriority(k, k.ready, t)
    BY <1>1 DEF knl_ready_queue_insert, SameWaits, SameRun, SameCounts, SameLocks, IsFun, IsRec, Fields
  <2>2. k.state = [k.state EXCEPT ![t] = "ready"]
    BY <1>1 DEF Typed, TasksTyped
  <2> QED
    BY <2>1, <2>2 DEF Joined
<1> HIDE DEF r
<1>3. IsLine(r.ready, ReadySet(k, X) \cup {t}) /\ Ordered(k.priority, r.ready) /\ r.ready \in Seq(Task)
  BY <1>2, ReadyWith
<1>4. Typed(r)
  BY <1>1, <1>2, <1>3, InsertTyped DEF Typed, RunTyped
<1>5. /\ Core(r, X \ {t}, Z, Y)
      /\ \A u \in Task : u \in Range(r.ready) <=> u = t \/ u \in Range(k.ready)
  BY <1>2, <1>3, <1>4, JoinCore
<1> QED
  BY <1>2, <1>5 DEF r

LEMMA MakeReadyGood ==
  ASSUME NEW k, NEW X, NEW Z, NEW Y, Good(k, X, Z, Y), NEW t \in X \ Z, k.klock[t] # "klockwait"
  PROVE  LET r == knl_make_ready(k, t)
         IN  /\ Good(r, X \ {t}, Z, Y) /\ Joined(k, r, t)
             /\ \A u \in Task : u \in Range(r.ready) <=> u = t \/ u \in Range(k.ready)
<1> DEFINE r == knl_make_ready(k, t)
           first == k.ready = << >> \/ k.priority[t] < k.priority[Head(k.ready)]
<1>1. IsFun(k, Fields) /\ Typed(k) /\ t \in Task /\ Core(k, X, Z, Y) /\ TopGood(k)
  BY DEF Good, Core, Typed
<1>2. /\ IsFun(r, Fields) /\ Joined(k, r, t) /\ r.ready = ByPriority(k, k.ready, t)
      /\ r.schedtsk = IF first THEN t ELSE k.schedtsk
  BY <1>1 DEF knl_make_ready, knl_ready_queue_insert, Joined, SameWaits, SameRun, SameCounts, SameLocks, IsFun, IsRec, Fields
<1> HIDE DEF r
<1>3. /\ IsLine(r.ready, ReadySet(k, X) \cup {t}) /\ Ordered(k.priority, r.ready) /\ r.ready \in Seq(Task)
      /\ r.ready # << >> /\ Head(r.ready) = Foremost(k, k.ready, t)
  <2> DEFINE q == ByPriority(k, k.ready, t)
  <2>1. /\ IsLine(q, ReadySet(k, X) \cup {t}) /\ Ordered(k.priority, q) /\ q \in Seq(Task)
        /\ q # << >> /\ Head(q) = Foremost(k, k.ready, t)
    BY <1>1, ReadyWith
  <2>2. r.ready = q
    BY <1>2
  <2> HIDE DEF q
  <2> QED
    BY <2>1, <2>2
<1>4. Typed(r)
  BY <1>1, <1>2, <1>3, InsertTyped DEF Typed, RunTyped
<1>5. /\ Core(r, X \ {t}, Z, Y)
      /\ \A u \in Task : u \in Range(r.ready) <=> u = t \/ u \in Range(k.ready)
  BY <1>1, <1>2, <1>3, <1>4, JoinCore
<1>6. Foremost(k, k.ready, t) = IF first THEN t ELSE Head(k.ready)
  <2>1. k.ready # << >> => Head(k.ready) \in Task
    BY <1>1 DEF Typed, RunTyped
  <2>2. \A u \in Task : k.priority[u] \in Int
    BY <1>1, KernelTaskAssumption DEF Typed, TasksTyped, Pri
  <2>3. k.ready # << >> => (k.priority[t] < k.priority[Head(k.ready)] <=> k.priority[Head(k.ready)] > k.priority[t])
    BY <1>1, <2>1, <2>2
  <2> QED
    BY <2>3 DEF Foremost
<1>7. TopGood(r)
  <2>1. CASE first
    BY <1>2, <1>3, <1>6, <2>1 DEF TopGood, Top
  <2>2. CASE ~ first
    <3>1. Top(r.ready) = Top(k.ready) /\ r.schedtsk = k.schedtsk
      BY <1>2, <1>3, <1>6, <2>2 DEF Top
    <3>2. Locker(k, k.schedtsk) => Locker(r, k.schedtsk)
      <4>1. Range(k.ready) \subseteq Task
        BY <1>1 DEF Typed, RunTyped, Range
      <4> QED
        BY <1>2, <1>5, <4>1 DEF Locker, Joined, SameLocks
    <3> QED
      BY <1>1, <3>1, <3>2 DEF TopGood
  <2> QED
    BY <2>1, <2>2
<1> QED
  BY <1>2, <1>5, <1>7 DEF Good, r

(* What does not matter for the queues. *)
Alike(k, r) ==
  /\ r.state = k.state /\ r.priority = k.priority /\ r.klock = k.klock /\ r.ready = k.ready
  /\ r.klocktsk = k.klocktsk /\ r.obj = k.obj /\ SameWaits(k, r)
  /\ r.timed = k.timed /\ r.mtxlist = k.mtxlist /\ r.call = k.call /\ r.wtskq = k.wtskq
  /\ r.locked = k.locked

LEMMA AlikeCore ==
  ASSUME NEW k, NEW X, NEW Z, NEW Y, Core(k, X, Z, Y), NEW r, Typed(r), Alike(k, r)
  PROVE  Core(r, X, Z, Y)
<1>1. /\ X \in SUBSET Task /\ Z \in SUBSET X
      /\ Typed(k) /\ ReadyGood(k, X) /\ LockerGood(k) /\ WaitGood(k, X)
      /\ MutexGood(k, X, Z, Y) /\ CallsGood(k) /\ LockGood(k)
  BY DEF Core
<1>2. \A u \in Task : (waiting(r, u) <=> waiting(k, u)) /\ (alive(r, u) <=> alive(k, u))
  BY DEF Alike, waiting, alive
<1>3. ReadyGood(r, X)
  BY <1>1, ReadyKept DEF Alike
<1>4. LockerGood(r)
  BY <1>1 DEF LockerGood, Locker, Alike
<1>5. WaitGood(r, X)
  BY <1>1, <1>2, WaitKept DEF Alike, SameWaits, SameQueues
<1>6. MutexGood(r, X, Z, Y)
  BY <1>1, <1>2, MutexKept DEF Alike, SameWaits, SameObject, Typed, SameStock
<1>7. CallsGood(r)
  BY <1>1, CallsKept DEF Alike, SameStock
<1>8. LockGood(r)
  <2>1. \A u \in Task : k.klock[u] = "klockwait" => r.state[u] = "ready"
    BY <1>1 DEF LockGood, Alike
  <2> QED
    BY <1>1, <2>1, LocksKept DEF Alike
<1> QED
  BY <1>1, <1>3, <1>4, <1>5, <1>6, <1>7, <1>8 DEF Core

LEMMA AlikeGood ==
  ASSUME NEW k, NEW X, NEW Z, NEW Y, Good(k, X, Z, Y), NEW r, Typed(r), Alike(k, r),
         r.schedtsk = k.schedtsk
  PROVE  Good(r, X, Z, Y)
<1>1. Core(r, X, Z, Y)
  BY AlikeCore DEF Good
<1> QED
  BY <1>1 DEF Good, TopGood, Locker, Alike

(* Everything but who should run. *)
ButSched(k, r) ==
  /\ SameTasks(k, r) /\ SameWaits(k, r) /\ SameRun(k, r) /\ SameCounts(k, r) /\ SameLocks(k, r)
  /\ r.obj = k.obj /\ r.call = k.call /\ r.mtxlist = k.mtxlist /\ r.timed = k.timed
  /\ r.klocktsk = k.klocktsk /\ r.ready = k.ready

LEMMA SchedCore ==
  ASSUME NEW k, NEW X, NEW Z, NEW Y, Core(k, X, Z, Y), NEW r, IsFun(r, Fields), ButSched(k, r),
         r.schedtsk = knl_ready_queue_top(k)
  PROVE  Good(r, X, Z, Y)
<1>1. /\ TasksTyped(k) /\ WaitsTyped(k) /\ LocksTyped(k) /\ RunTyped(k) /\ ObjectsTyped(k)
      /\ LockerGood(k)
  BY DEF Core, Typed
<1>2. r.schedtsk \in Task \cup {NULL} /\ TopGood(r)
  <2>1. CASE k.klocktsk # NULL
    BY <1>1, <2>1 DEF knl_ready_queue_top, ButSched, SameLocks, TopGood, LockerGood, Locker, RunTyped
  <2>2. CASE k.klocktsk = NULL
    BY <1>1, <2>2 DEF knl_ready_queue_top, ButSched, TopGood, Top, RunTyped
  <2> QED
    BY <2>1, <2>2
<1>3. Typed(r)
  BY <1>1, <1>2 DEF ButSched, SameTasks, SameWaits, SameRun, SameCounts, SameLocks,
                    Typed, TasksTyped, WaitsTyped, LocksTyped, RunTyped, ObjectsTyped
<1>4. Alike(k, r)
  BY DEF Alike, ButSched, SameTasks, SameWaits, SameLocks
<1> QED
  BY <1>2, <1>3, <1>4, AlikeCore DEF Good

LEMMA RescheduleGood ==
  ASSUME NEW k, NEW X, NEW Z, NEW Y, Core(k, X, Z, Y)
  PROVE  Good(knl_reschedule(k), X, Z, Y) /\ ButSched(k, knl_reschedule(k))
<1>1. IsFun(k, Fields)
  BY DEF Core, Typed
<1>2. /\ IsFun(knl_reschedule(k), Fields) /\ ButSched(k, knl_reschedule(k))
      /\ knl_reschedule(k).schedtsk = knl_ready_queue_top(k)
  BY <1>1 DEF knl_reschedule, ButSched, SameTasks, SameWaits, SameRun, SameCounts, SameLocks, IsFun, IsRec, Fields
<1> QED
  BY <1>2, SchedCore

(* A task that is ready is made something else. *)
LEMMA MakeNonReadyGood ==
  ASSUME NEW k, NEW X, NEW Z, NEW Y, Good(k, X, Z, Y), NEW t \in Task \ X, k.state[t] = "ready"
  PROVE  LET r == knl_make_non_ready(k, t)
         IN  /\ Good(r, X \cup {t}, Z, Y) /\ Left(k, r, t)
             /\ \A u \in Task : u # t /\ u \in Range(k.ready) => u \in Range(r.ready)
<1> DEFINE out == knl_ready_queue_delete(k, t)
           r == knl_make_non_ready(k, t)
<1>1. /\ Core(out, X \cup {t}, Z, Y) /\ Left(k, out, t) /\ out.schedtsk = k.schedtsk
      /\ \A u \in Task : u # t /\ u \in Range(k.ready) => u \in Range(out.ready)
      /\ k.schedtsk # t => TopGood(out)
  BY DeleteCore DEF Good
<1>2. r = [out EXCEPT !.schedtsk = IF @ = t THEN knl_ready_queue_top(out) ELSE @]
  BY DEF knl_make_non_ready
<1> HIDE DEF out, r
<1>3. IsFun(out, Fields)
  BY <1>1 DEF Core, Typed
<1>4. /\ IsFun(r, Fields) /\ ButSched(out, r)
      /\ r.schedtsk = IF k.schedtsk = t THEN knl_ready_queue_top(out) ELSE out.schedtsk
  BY <1>1, <1>2, <1>3 DEF ButSched, SameTasks, SameWaits, SameRun, SameCounts, SameLocks, IsFun, IsRec, Fields
<1>5. Good(r, X \cup {t}, Z, Y)
  <2>1. CASE k.schedtsk = t
    BY <1>1, <1>4, <2>1, SchedCore
  <2>2. CASE k.schedtsk # t
    <3>1. r = out
      BY <1>1, <1>2, <1>3, <2>2 DEF IsFun, IsRec, Fields
    <3> QED
      BY <1>1, <2>2, <3>1 DEF Good
  <2> QED
    BY <2>1, <2>2
<1>6. Left(k, r, t)
  BY <1>1, <1>4 DEF Left, ButSched, SameTasks, SameWaits, SameRun, SameCounts, SameLocks
<1>7. r.ready = out.ready
  BY <1>4 DEF ButSched
<1> QED
  BY <1>1, <1>5, <1>6, <1>7 DEF r

-----------------------------------------------------------------------------
(***************************************************************************)
(* A task that is in no queue may change its state and its priority.       *)
(***************************************************************************)
Changed(k, r, t) ==
  /\ \A u \in Task : u # t => r.state[u] = k.state[u] /\ r.priority[u] = k.priority[u]
  /\ r.klock = k.klock /\ r.ready = k.ready /\ r.klocktsk = k.klocktsk
  /\ r.obj = k.obj /\ r.wspec = k.wspec /\ r.wid = k.wid /\ r.winfo = k.winfo
  /\ r.timed = k.timed /\ r.mtxlist = k.mtxlist /\ r.call = k.call /\ r.wtskq = k.wtskq
  /\ r.locked = k.locked

LEMMA OutsideCore ==
  ASSUME NEW k, NEW X, NEW Z, NEW Y, Core(k, X, Z, Y), NEW t \in X, NEW r, Typed(r), Changed(k, r, t),
         NEW W, W = X \/ (W = X \ {t} /\ t \notin Z /\ r.state[t] \notin { "ready", "wait", "waitsus" }),
         alive(k, t) => alive(r, t),
         r.state[t] = k.state[t] \/ r.state[t] \in { "ready", "suspend" },
         k.klock[t] = "klockwait" => r.state[t] = "ready"
  PROVE  Core(r, W, Z, Y)
<1>1. /\ X \in SUBSET Task /\ Z \in SUBSET X
      /\ Typed(k) /\ ReadyGood(k, X) /\ LockerGood(k) /\ WaitGood(k, X)
      /\ MutexGood(k, X, Z, Y) /\ CallsGood(k) /\ LockGood(k)
  BY DEF Core
<1>2. W \in SUBSET Task /\ Z \in SUBSET W
  BY <1>1
<1>3. \A u \in Task : (u \notin W /\ waiting(r, u)) <=> (u \notin X /\ waiting(k, u))
  BY <1>1 DEF Changed, waiting
<1>4. \A u \in Task : alive(k, u) => alive(r, u)
  BY <1>1 DEF Changed, alive
<1>5. ReadyGood(r, W)
  <2>1. \A u \in Task : (u \notin W /\ r.state[u] = "ready") <=> (u \notin X /\ k.state[u] = "ready")
    BY <1>1 DEF Changed
  <2>2. \A u \in Task : u \notin X => r.priority[u] = k.priority[u]
    BY DEF Changed
  <2> QED
    BY <1>1, <2>1, <2>2, ReadyKept DEF Changed
<1>6. LockerGood(r)
  BY <1>1 DEF LockerGood, Locker, Changed
<1>7. WaitGood(r, W)
  <2>1. \A u \in Task : u \notin X /\ waiting(k, u) =>
          r.wspec[u] = k.wspec[u] /\ r.wid[u] = k.wid[u] /\ r.winfo[u] = k.winfo[u]
          /\ r.priority[u] = k.priority[u]
    BY DEF Changed
  <2>2. \A x \in Object : SameQueues(k.obj[x], r.obj[x])
    BY DEF Changed, SameQueues
  <2>3. \A u \in Task : r.timed[u] => k.timed[u]
    BY DEF Changed
  <2> QED
    BY <1>1, <1>3, <2>1, <2>2, <2>3, WaitKept
<1>8. MutexGood(r, W, Z, Y)
  <2>1. \A u \in Task : u \notin W /\ waiting(r, u) =>
           u \notin X /\ waiting(k, u) /\ r.wspec[u] = k.wspec[u] /\ r.wid[u] = k.wid[u]
    BY <1>3 DEF Changed
  <2> QED
    BY <1>1, <1>4, <2>1, MutexKept DEF Changed, SameObject, Typed, SameStock
<1>9. CallsGood(r)
  <2>1. \A u \in Task : k.call[u] # NULL => r.state[u] = k.state[u] \/ r.state[u] \in { "ready", "suspend" }
    BY DEF Changed
  <2> QED
    BY <1>1, <2>1, CallsKept DEF Changed, SameStock
<1>10. LockGood(r)
  <2>1. \A u \in Task : k.klock[u] = "klockwait" => r.state[u] = "ready"
    BY <1>1 DEF LockGood, Changed
  <2> QED
    BY <1>1, <2>1, LocksKept DEF Changed
<1> QED
  BY <1>2, <1>5, <1>6, <1>7, <1>8, <1>9, <1>10 DEF Core

LEMMA OutsideGood ==
  ASSUME NEW k, NEW X, NEW Z, NEW Y, Good(k, X, Z, Y), NEW t \in X, NEW r, Typed(r), Changed(k, r, t),
         r.schedtsk = k.schedtsk,
         NEW W, W = X \/ (W = X \ {t} /\ t \notin Z /\ r.state[t] \notin { "ready", "wait", "waitsus" }),
         alive(k, t) => alive(r, t),
         r.state[t] = k.state[t] \/ r.state[t] \in { "ready", "suspend" },
         k.klock[t] = "klockwait" => r.state[t] = "ready"
  PROVE  Good(r, W, Z, Y)
<1>1. Core(r, W, Z, Y)
  BY OutsideCore DEF Good
<1> QED
  BY <1>1 DEF Good, TopGood, Locker, Changed

(* It is taken as one of those that are in no queue. *)
LEMMA StepAside ==
  ASSUME NEW k, NEW X, NEW Z, NEW Y, Good(k, X, Z, Y), NEW t \in Task \ X,
         k.state[t] \notin { "ready", "wait", "waitsus" }
  PROVE  Good(k, X \cup {t}, Z, Y)
<1> DEFINE W == X \cup {t}
<1>1. /\ X \in SUBSET Task /\ Z \in SUBSET X
      /\ Typed(k) /\ ReadyGood(k, X) /\ LockerGood(k) /\ WaitGood(k, X)
      /\ MutexGood(k, X, Z, Y) /\ CallsGood(k) /\ LockGood(k)
  BY DEF Good, Core
<1>2. W \in SUBSET Task /\ Z \in SUBSET W
  BY <1>1
<1>3. \A u \in Task : (u \notin W /\ waiting(k, u)) <=> (u \notin X /\ waiting(k, u))
  BY DEF waiting
<1>4. \A u \in Task : (u \notin W /\ k.state[u] = "ready") <=> (u \notin X /\ k.state[u] = "ready")
  OBVIOUS
<1> HIDE DEF W
<1>5. ReadyGood(k, W)
  BY <1>1, <1>4, ReadyKept
<1>6. WaitGood(k, W)
  BY <1>1, <1>3, WaitKept DEF SameQueues
<1>7. MutexGood(k, W, Z, Y)
  BY <1>1, <1>3, MutexKept DEF SameObject, Typed, SameStock
<1> QED
  BY <1>1, <1>2, <1>5, <1>6, <1>7 DEF Good, Core, W

-----------------------------------------------------------------------------
(***************************************************************************)
(* The end of a wait.                                                      *)
(***************************************************************************)
Released(k, r, t) ==
  /\ r.priority = k.priority /\ r.bpriority = k.bpriority /\ r.ipriority = k.ipriority
  /\ SameWaits(k, r) /\ SameRun(k, r) /\ SameCounts(k, r) /\ SameLocks(k, r) /\ SameObjects(k, r)
  /\ r.call = k.call /\ r.mtxlist = k.mtxlist
  /\ \A u \in Task : u # t => r.state[u] = k.state[u]
  /\ r.state[t] \in { "ready", "suspend" }
  /\ \A u \in Task : u \in Range(k.ready) => u \in Range(r.ready)

LEMMA NonWaitGood ==
  ASSUME NEW k, NEW X, NEW Z, NEW Y, Good(k, X, Z, Y), NEW t \in X \ Z, waiting(k, t)
  PROVE  LET r == knl_make_non_wait(k, t)
         IN  Good(r, X \ {t}, Z, Y) /\ Released(k, r, t) /\ r.obj = k.obj
<1> DEFINE r == knl_make_non_wait(k, t)
<1>1. Typed(k) /\ t \in Task /\ LockGood(k) /\ IsFun(k, Fields) /\ X \in SUBSET Task
  BY DEF Good, Core, Typed
<1>2. k.klock[t] # "klockwait"
  BY <1>1 DEF LockGood, waiting
<1>3. CASE k.state[t] = "wait"
  <2>1. r = knl_make_ready(k, t)
    BY <1>3 DEF knl_make_non_wait
  <2>2. /\ Good(r, X \ {t}, Z, Y) /\ Joined(k, r, t)
        /\ \A u \in Task : u \in Range(r.ready) <=> u = t \/ u \in Range(k.ready)
    BY <1>2, <2>1, MakeReadyGood
  <2> HIDE DEF r
  <2>3. Released(k, r, t) /\ r.obj = k.obj
    BY <1>1, <2>2 DEF Released, Joined, SameObjects, SameObject, Typed, TasksTyped, SameStock
  <2> QED
    BY <2>2, <2>3 DEF r
<1>4. CASE k.state[t] # "wait"
  <2>1. r = [k EXCEPT !.state[t] = "suspend"]
    BY <1>4 DEF knl_make_non_wait
  <2> HIDE DEF r
  <2>2. /\ IsFun(r, Fields) /\ r.state = [k.state EXCEPT ![t] = "suspend"]
        /\ r.priority = k.priority /\ r.bpriority = k.bpriority /\ r.ipriority = k.ipriority
        /\ SameWaits(k, r) /\ SameRun(k, r) /\ SameCounts(k, r) /\ SameLocks(k, r) /\ SameReady(k, r)
        /\ r.obj = k.obj /\ r.call = k.call /\ r.mtxlist = k.mtxlist /\ r.timed = k.timed
    BY <1>1, <2>1 DEF SameWaits, SameRun, SameCounts, SameLocks, SameReady, IsFun, IsRec, Fields
  <2>3. \A u \in Task : r.state[u] = IF u = t THEN "suspend" ELSE k.state[u]
    BY <1>1, <2>2 DEF Typed, TasksTyped
  <2>4. Typed(r)
    <3>1. TasksTyped(k) /\ WaitsTyped(k) /\ LocksTyped(k) /\ RunTyped(k) /\ ObjectsTyped(k)
      BY <1>1 DEF Typed
    <3>2. TasksTyped(r)
      BY <2>2, <3>1 DEF TasksTyped, States, SameCounts
    <3> QED
      BY <2>2, <3>1, <3>2 DEF SameWaits, SameRun, SameCounts, SameLocks, SameReady,
                    Typed, WaitsTyped, LocksTyped, RunTyped, ObjectsTyped
  <2>5. Changed(k, r, t) /\ r.schedtsk = k.schedtsk
    BY <2>2, <2>3 DEF Changed, SameWaits, SameLocks, SameReady
  <2>6. Good(r, X \ {t}, Z, Y)
    <3>1. alive(r, t) /\ r.state[t] = "suspend" /\ t \notin Z
      BY <1>1, <2>3 DEF alive
    <3> QED
      BY <1>2, <2>4, <2>5, <3>1, OutsideGood
  <2>7. Released(k, r, t)
    BY <1>1, <2>2, <2>3 DEF Released, SameObjects, SameObject, SameReady, SameStock
  <2> QED
    BY <2>2, <2>6, <2>7 DEF r
<1> QED
  BY <1>3, <1>4

LEMMA ReleasedCalm ==
  ASSUME NEW k, NEW r, NEW t \in Task, waiting(k, t), Released(k, r, t), Typed(k)
  PROVE  /\ Calm(k, r) /\ ~ waiting(r, t) /\ alive(r, t)
         /\ \A u \in Task : u # t => (waiting(r, u) <=> waiting(k, u))
<1>1. /\ ~ waiting(r, t) /\ alive(r, t) /\ alive(k, t)
      /\ \A u \in Task : u # t => (waiting(r, u) <=> waiting(k, u)) /\ (alive(r, u) <=> alive(k, u))
  BY DEF Released, waiting, alive
<1> QED
  BY <1>1 DEF Calm, Released, SameWaits, SameRun, SameLocks, SameObjects, SameObject

LEMMA WaitReleaseGood ==
  ASSUME NEW k, NEW X, NEW Z, NEW Y, Good(k, X, Z, Y), NEW t \in Task \ X, waiting(k, t)
  PROVE  LET r == knl_wait_release(k, t)
         IN  /\ Good(r, X, Z, Y) /\ Released(k, r, t) /\ Calm(k, r) /\ ~ waiting(r, t)
             /\ \A u \in Task : u # t => (waiting(r, u) <=> waiting(k, u))
<1> DEFINE c == knl_wait_cancel(k, t)
           r == knl_make_non_wait(c, t)
           W == X \cup {t}
<1>1. Typed(k) /\ WaitsFor(k, t) /\ X \in SUBSET Task /\ Z \in SUBSET X
  BY DEF Good, Core, WaitGood
<1>2. Cancelled(k, c, t)
  BY <1>1, CancelIs
<1> HIDE DEF c
<1>3. Good(c, W, Z, Y)
  BY <1>2, CancelGood
<1>4. waiting(c, t) /\ t \in W \ Z
  BY <1>1, <1>2 DEF Cancelled, SameTasks, waiting
<1> HIDE DEF W
<1>5. Good(r, W \ {t}, Z, Y) /\ Released(c, r, t)
  BY <1>3, <1>4, NonWaitGood
<1>6. W \ {t} = X
  BY DEF W
<1> HIDE DEF r
<1>7. Released(k, r, t)
  BY <1>2, <1>5 DEF Released, Cancelled, SameTasks, SameWaits, SameRun, SameCounts, SameLocks, SameReady,
                    SameObjects, SameObject, SameStock
<1>8. r = knl_wait_release(k, t)
  BY DEF knl_wait_release, r, c
<1> QED
  BY <1>1, <1>5, <1>6, <1>7, <1>8, ReleasedCalm

-----------------------------------------------------------------------------
(***************************************************************************)
(* Loops: what x is after the i-th turn of each loop of the kernel, a being *)
(* what the loop goes through.                                             *)
(***************************************************************************)
Turn(loop, a, i, x) ==
  CASE loop = "release" -> knl_wait_release(x, a.tasks[i])
    [] loop = "serve" ->
         LET cnt == a.k.winfo[a.queue[i]]
         IN  IF ~ x.going THEN x
             ELSE IF x.left < cnt THEN [x EXCEPT !.going = a.skip]
             ELSE [x EXCEPT !.left = @ - cnt, !.tasks = Append(@, a.queue[i])]
    [] loop = "set_flg" ->
         LET want == a.k.winfo[a.queue[i]]
             left == Taken(x.flgptn, want)
         IN  IF x.going /\ knl_eventflag_cond(x.flgptn, want)
             THEN [flgptn |-> left, tasks |-> Append(x.tasks, a.queue[i]), going |-> left # {}]
             ELSE x
    [] loop = "mbf_wakeup" ->
         LET msg == a.k.winfo[a.queue[i]]
         IN  IF x.going /\ knl_mbf_free(x.mbf, msg.size)
             THEN [x EXCEPT !.mbf = knl_msg_to_mbf(@, msg), !.tasks = Append(@, a.queue[i])]
             ELSE [x EXCEPT !.going = FALSE]
    [] loop = "mpl_wakeup" ->
         LET blksz == a.k.winfo[a.queue[i]]
         IN  IF x.obj[a.o].wait_queue = SubSeq(a.queue, i, Len(a.queue))
                  /\ blksz <= knl_MaxFreeSize(x.obj[a.o].pool)
             THEN knl_wait_release([x EXCEPT !.obj[a.o].pool = knl_get_blk(@, blksz)], a.queue[i])
             ELSE x
    [] loop = "change" -> IF x.t = NULL THEN x ELSE change_priority(x.k, x.t, x.priority)
    [] loop = "signal" -> Hand_Over(x, a.mutexes[i])

Turns(f, loop, a, first, n) ==
  f[0] = first /\ \A i \in 1 .. n : f[i] = Turn(loop, a, i, f[i - 1])

(* There is a function that does what a loop does. *)
IsLoop(g, loop, a, first, n) == g = [i \in 0 .. n |-> IF i = 0 THEN first ELSE Turn(loop, a, i, g[i - 1])]

LEMMA Looping ==
  ASSUME NEW loop, NEW a, NEW first, NEW n \in Nat
  PROVE  \E g : IsLoop(g, loop, a, first, n)
<1> DEFINE StepOf(g, i) == IF i = 0 THEN first ELSE Turn(loop, a, i, g[i - 1])
           S == { j \in Nat : \E g : g = [i \in 0 .. j |-> StepOf(g, i)] }
<1>1. 0 \in S
  <2> DEFINE g == [i \in 0 .. 0 |-> first]
  <2>1. g = [i \in 0 .. 0 |-> StepOf(g, i)]
    OBVIOUS
  <2> QED
    BY <2>1
<1>2. ASSUME NEW j \in 0 .. n - 1, j \in S PROVE j + 1 \in S
  <2>1. PICK h : h = [i \in 0 .. j |-> StepOf(h, i)]
    BY <1>2
  <2> DEFINE g == [i \in 0 .. j + 1 |-> IF i = j + 1 THEN StepOf(h, j + 1) ELSE h[i]]
  <2>2. ASSUME NEW i \in 0 .. j + 1 PROVE g[i] = StepOf(g, i)
    <3>1. CASE i = 0
      BY <2>1, <3>1
    <3>2. CASE i # 0
      <4>1. i - 1 \in 0 .. j /\ i - 1 # j + 1 /\ i - 1 \in 0 .. j + 1
        BY <3>2
      <4>2. g[i - 1] = h[i - 1]
        BY <4>1
      <4>3. CASE i = j + 1
        BY <4>2, <4>3, <3>2
      <4>4. CASE i # j + 1
        <5>1. i \in 0 .. j
          BY <4>4
        <5>2. h[i] = StepOf(h, i)
          BY <2>1, <5>1
        <5> QED
          BY <4>2, <4>4, <5>2, <3>2
      <4> QED
        BY <4>3, <4>4
    <3> QED
      BY <3>1, <3>2
  <2>3. g = [i \in 0 .. j + 1 |-> StepOf(g, i)]
    <3> HIDE DEF StepOf
    <3>1. DOMAIN g = 0 .. j + 1 /\ g = [i \in DOMAIN g |-> g[i]]
      OBVIOUS
    <3> HIDE DEF g
    <3> QED
      BY <3>1, <2>2
  <2> HIDE DEF g, StepOf
  <2> QED
    BY <2>3
<1>3. n \in S
  <2> HIDE DEF S
  <2>1. n \in 0 .. n
    OBVIOUS
  <2> QED
    BY <1>1, <1>2, <2>1, InductionTo
<1> QED
  BY <1>3 DEF IsLoop

LEMMA LoopTurns ==
  ASSUME NEW loop, NEW a, NEW first, NEW n \in Nat, NEW f, IsLoop(f, loop, a, first, n)
  PROVE  Turns(f, loop, a, first, n)
<1>1. 0 \in 0 .. n /\ \A i \in 1 .. n : i \in 0 .. n /\ i # 0
  OBVIOUS
<1>2. \A i \in 0 .. n : f[i] = IF i = 0 THEN first ELSE Turn(loop, a, i, f[i - 1])
  BY DEF IsLoop
<1> QED
  BY <1>1, <1>2 DEF Turns

LEMMA ReleaseAllTurns ==
  ASSUME NEW k, NEW tasks, Len(tasks) \in Nat
  PROVE  \E f : Turns(f, "release", [tasks |-> tasks], k, Len(tasks)) /\ ReleaseAll(k, tasks) = f[Len(tasks)]
<1> DEFINE a == [tasks |-> tasks]
           n == Len(tasks)
           f == CHOOSE g : g = [i \in 0 .. Len(tasks) |->
                  IF i = 0 THEN k ELSE LET before == g[i - 1] IN knl_wait_release(before, tasks[i])]
<1>1. \A i, x : Turn("release", a, i, x) = knl_wait_release(x, tasks[i])
  BY DEF Turn
<1>2. ReleaseAll(k, tasks) = f[Len(tasks)]
  BY DEF ReleaseAll
<1>3. \E g : IsLoop(g, "release", a, k, n)
  <2> HIDE DEF a
  <2> QED
    BY Looping
<1>4. \A g : IsLoop(g, "release", a, k, n)
              <=> g = [i \in 0 .. n |-> IF i = 0 THEN k ELSE LET before == g[i - 1] IN knl_wait_release(before, tasks[i])]
  <2> HIDE DEF a
  <2> QED
    BY <1>1 DEF IsLoop
<1>5. IsLoop(f, "release", a, k, n)
  <2> HIDE DEF a
  <2> QED
    BY <1>3, <1>4
<1>6. Turns(f, "release", a, k, n)
  <2> HIDE DEF f, a
  <2> QED
    BY <1>5, LoopTurns
<1> QED
  BY <1>2, <1>6

(* Tasks that wait are released, one after the other. *)
LEMMA ReleaseAllGood ==
  ASSUME NEW k, NEW X, NEW Z, NEW Y, Good(k, X, Z, Y), NEW tasks \in Seq(Task), Once(tasks),
         \A i \in DOMAIN tasks : tasks[i] \notin X /\ waiting(k, tasks[i])
  PROVE  LET r == ReleaseAll(k, tasks)
         IN  /\ Good(r, X, Z, Y) /\ Calm(k, r)
             /\ \A u \in Task : waiting(r, u) <=> waiting(k, u) /\ u \notin Range(tasks)
<1> DEFINE n == Len(tasks)
<1>1. n \in Nat /\ DOMAIN tasks = 1 .. n /\ \A i \in 1 .. n : tasks[i] \in Task
  OBVIOUS
<1>2. PICK f : Turns(f, "release", [tasks |-> tasks], k, n) /\ ReleaseAll(k, tasks) = f[n]
  BY <1>1, ReleaseAllTurns
<1>3. f[0] = k /\ \A i \in 1 .. n : f[i] = knl_wait_release(f[i - 1], tasks[i])
  BY <1>2 DEF Turns, Turn
<1> DEFINE P(r, i) == /\ Good(r, X, Z, Y) /\ Calm(k, r)
                      /\ \A u \in Task : waiting(r, u) <=> waiting(k, u) /\ u \notin { tasks[j] : j \in 1 .. i }
           S == { i \in 0 .. n : P(f[i], i) }
<1> HIDE DEF n
<1>4. 0 \in S
  <2>1. P(k, 0)
    BY CalmSelf
  <2> QED
    BY <1>1, <1>3, <2>1
<1>5. ASSUME NEW i \in 0 .. n - 1, i \in S PROVE i + 1 \in S
  <2> DEFINE r == f[i]
             s == f[i + 1]
             t == tasks[i + 1]
  <2>1. P(r, i)
    BY <1>5
  <2>2. i + 1 \in 1 .. n /\ s = knl_wait_release(r, t) /\ t \in Task /\ t \notin X /\ waiting(k, t)
    <3>1. i + 1 \in 1 .. n /\ (i + 1) - 1 = i
      BY <1>1
    <3>2. f[i + 1] = knl_wait_release(f[i], tasks[i + 1])
      BY <1>3, <3>1
    <3> QED
      BY <1>1, <3>1, <3>2
  <2>3. t \notin { tasks[j] : j \in 1 .. i }
    BY <1>1, <2>2 DEF Once
  <2> HIDE DEF r, s, t
  <2>4. waiting(r, t) /\ t \in Task \ X
    BY <2>1, <2>2, <2>3
  <2>5. Good(s, X, Z, Y) /\ Calm(r, s) /\ ~ waiting(s, t) /\ \A u \in Task : u # t => (waiting(s, u) <=> waiting(r, u))
    BY <2>1, <2>2, <2>4, WaitReleaseGood
  <2>6. Calm(k, s)
    BY <2>1, <2>5, CalmBoth
  <2>7. { tasks[j] : j \in 1 .. i + 1 } = { tasks[j] : j \in 1 .. i } \cup {t}
    BY <1>1, <2>2 DEF t
  <2>8. P(s, i + 1)
    <3> DEFINE T == { tasks[j] : j \in 1 .. i }
    <3>1. \A u \in Task : waiting(r, u) <=> waiting(k, u) /\ u \notin T
      BY <2>1
    <3>2. { tasks[j] : j \in 1 .. i + 1 } = T \cup {t}
      BY <2>7
    <3> HIDE DEF T
    <3>3. \A u \in Task : waiting(s, u) <=> waiting(k, u) /\ u \notin T \cup {t}
      BY <2>5, <3>1
    <3> QED
      BY <2>5, <2>6, <3>2, <3>3
  <2> HIDE DEF P
  <2> QED
    BY <1>1, <2>2, <2>8 DEF s
<1>6. n \in S
  <2> HIDE DEF S
  <2>1. n \in 0 .. n
    BY <1>1
  <2> QED
    BY <1>1, <1>4, <1>5, <2>1, InductionTo
<1>7. P(ReleaseAll(k, tasks), n)
  BY <1>2, <1>6 DEF n
<1>8. { tasks[j] : j \in 1 .. n } = Range(tasks)
  BY <1>1 DEF Range
<1> QED
  BY <1>7, <1>8

(* All that wait in a queue are released, so that none is left. *)
LEMMA WaitDeleteGood ==
  ASSUME NEW k, NEW X, NEW Z, NEW Y, Good(k, X, Z, Y), NEW o \in Object
  PROVE  LET r == knl_wait_delete(k, o)
         IN  /\ Good(r, X, Z, Y) /\ Calm(k, r) /\ r.obj[o].wait_queue = << >>
             /\ \A u \in Task : waiting(r, u) <=> waiting(k, u) /\ u \notin Waiters(k, X, o)
<1> DEFINE tasks == k.obj[o].wait_queue
           S == Waiters(k, X, o)
           r == knl_wait_delete(k, o)
<1>1. IsLine(tasks, S)
  BY DEF Good, Core, WaitGood, LinesGood
<1>2. S \subseteq Task \ X /\ \A t \in S : waiting(k, t)
  BY DEF Waiters
<1>3. tasks \in Seq(S) /\ Once(tasks) /\ Range(tasks) = S
  <2> HIDE DEF S, tasks
  <2> QED
    BY <1>1, LineRange DEF IsLine
<1>4. r = ReleaseAll(k, tasks)
  BY DEF knl_wait_delete
<1> HIDE DEF S, tasks, r
<1>5. tasks \in Seq(Task) /\ \A i \in DOMAIN tasks : tasks[i] \in S
  BY <1>2, <1>3
<1>6. /\ Good(r, X, Z, Y) /\ Calm(k, r)
      /\ \A u \in Task : waiting(r, u) <=> waiting(k, u) /\ u \notin S
  <2>1. \A i \in DOMAIN tasks : tasks[i] \notin X /\ waiting(k, tasks[i])
    BY <1>2, <1>5
  <2> QED
    BY <1>3, <1>4, <1>5, <2>1, ReleaseAllGood
<1>7. Waiters(r, X, o) = {}
  BY <1>6 DEF Waiters, Calm, S
<1>8. IsLine(r.obj[o].wait_queue, Waiters(r, X, o))
  BY <1>6 DEF Good, Core, WaitGood, LinesGood
<1>9. r.obj[o].wait_queue = << >>
  BY <1>7, <1>8, LineRange
<1> QED
  BY <1>6, <1>9 DEF r, S

-----------------------------------------------------------------------------
(***************************************************************************)
(* What is in an object changes, but not who waits for it.                 *)
(***************************************************************************)
Refilled(k, r) ==
  /\ SameTasks(k, r) /\ SameWaits(k, r) /\ SameLocks(k, r) /\ SameRun(k, r) /\ SameReady(k, r)
  /\ SameCounts(k, r) /\ r.call = k.call /\ r.mtxlist = k.mtxlist /\ r.timed = k.timed
  /\ \A x \in Object : SameQueues(k.obj[x], r.obj[x]) /\ SameObject(k.obj[x], r.obj[x])

LEMMA RefilledGood ==
  ASSUME NEW k, NEW X, NEW Z, NEW Y, Good(k, X, Z, Y), NEW r, Typed(r), Refilled(k, r)
  PROVE  Good(r, X, Z, Y) /\ Calm(k, r) /\ \A u \in Task : waiting(r, u) <=> waiting(k, u)
<1>1. /\ X \in SUBSET Task /\ Z \in SUBSET X
      /\ Typed(k) /\ ReadyGood(k, X) /\ LockerGood(k) /\ WaitGood(k, X) /\ TopGood(k)
      /\ MutexGood(k, X, Z, Y) /\ CallsGood(k) /\ LockGood(k)
  BY DEF Good, Core
<1>2. /\ SameTasks(k, r) /\ SameWaits(k, r) /\ SameLocks(k, r) /\ SameRun(k, r) /\ SameReady(k, r)
      /\ r.call = k.call /\ r.mtxlist = k.mtxlist /\ r.timed = k.timed
      /\ \A x \in Object : SameQueues(k.obj[x], r.obj[x]) /\ SameObject(k.obj[x], r.obj[x])
  BY DEF Refilled
<1>3. \A u \in Task : (waiting(r, u) <=> waiting(k, u)) /\ (alive(r, u) <=> alive(k, u))
  BY <1>2 DEF SameTasks, waiting, alive
<1>4. ReadyGood(r, X) /\ LockerGood(r) /\ TopGood(r)
  BY <1>1, <1>2 DEF ReadyGood, ReadySet, LockerGood, TopGood, Locker, SameTasks, SameLocks, SameReady
<1>5. WaitGood(r, X)
  BY <1>1, <1>2, <1>3, WaitKept DEF SameWaits, SameTasks
<1>6. MutexGood(r, X, Z, Y)
  BY <1>1, <1>2, <1>3, MutexKept DEF SameQueues, Typed, SameWaits
<1>7. CallsGood(r)
  BY <1>1, <1>2, CallsKept DEF SameTasks, SameLocks, SameQueues, SameObject
<1>8. LockGood(r)
  BY <1>1, <1>2, LockKept DEF SameTasks, SameLocks
<1>9. Calm(k, r)
  BY <1>2, <1>3 DEF Calm, SameRun, SameWaits, SameLocks, SameReady, SameObject
<1> QED
  BY <1>1, <1>3, <1>4, <1>5, <1>6, <1>7, <1>8, <1>9 DEF Good, Core

(* One object gets other contents. *)
LEMMA RefillIs ==
  ASSUME NEW k, Typed(k), NEW o \in Object, NEW b, ObjTyped(b), SameQueues(k.obj[o], b),
         SameObject(k.obj[o], b)
  PROVE  LET r == [k EXCEPT !.obj[o] = b]
         IN  Typed(r) /\ Refilled(k, r)
<1> DEFINE r == [k EXCEPT !.obj[o] = b]
<1>1. IsFun(k, Fields) /\ TasksTyped(k) /\ WaitsTyped(k) /\ LocksTyped(k) /\ RunTyped(k) /\ ObjectsTyped(k)
  BY DEF Typed
<1>2. /\ IsFun(r, Fields) /\ SameTasks(k, r) /\ SameWaits(k, r) /\ SameLocks(k, r) /\ SameRun(k, r)
      /\ SameReady(k, r) /\ SameCounts(k, r) /\ r.call = k.call /\ r.mtxlist = k.mtxlist
      /\ r.timed = k.timed
  BY <1>1 DEF SameTasks, SameWaits, SameLocks, SameRun, SameReady, SameCounts, IsFun, IsRec, Fields
<1>3. r.obj = [k.obj EXCEPT ![o] = b]
  BY <1>1 DEF IsFun, IsRec, Fields
<1> HIDE DEF r
<1>4. TasksTyped(r) /\ WaitsTyped(r) /\ LocksTyped(r) /\ RunTyped(r)
  BY <1>1, <1>2 DEF SameTasks, SameWaits, SameLocks, SameRun, SameReady, SameCounts,
                    TasksTyped, WaitsTyped, LocksTyped, RunTyped
<1>5. /\ IsFun(r.obj, Object) /\ \A x \in Object : r.obj[x] = IF x = o THEN b ELSE k.obj[x]
  BY <1>1, <1>3 DEF ObjectsTyped, IsFun, IsRec
<1>6. ObjectsTyped(r) /\ \A x \in Object : SameQueues(k.obj[x], r.obj[x]) /\ SameObject(k.obj[x], r.obj[x])
  BY <1>1, <1>5 DEF ObjectsTyped, SameQueues, SameObject, SameStock
<1> QED
  BY <1>1, <1>2, <1>4, <1>6 DEF Typed, Refilled, r

LEMMA PayloadGood ==
  ASSUME NEW k, NEW X, NEW Z, NEW Y, Good(k, X, Z, Y), NEW o \in Object, NEW b, ObjTyped(b),
         SameQueues(k.obj[o], b), SameObject(k.obj[o], b)
  PROVE  LET r == [k EXCEPT !.obj[o] = b]
         IN  Good(r, X, Z, Y) /\ Calm(k, r) /\ \A u \in Task : waiting(r, u) <=> waiting(k, u)
<1>1. Typed(k)
  BY DEF Good, Core
<1> DEFINE r == [k EXCEPT !.obj[o] = b]
<1>2. Typed(r) /\ Refilled(k, r)
  BY <1>1, RefillIs
<1> HIDE DEF r
<1>3. Good(r, X, Z, Y) /\ Calm(k, r) /\ \A u \in Task : waiting(r, u) <=> waiting(k, u)
  BY <1>2, RefilledGood
<1> QED
  BY <1>3 DEF r

(* One of the fields that the queues do not depend on. *)
Payload == { "semcnt", "flgptn", "mq", "pool" }

LEMMA FieldIs ==
  ASSUME NEW b, ObjTyped(b), NEW f \in Payload, NEW v
  PROVE  LET c == [b EXCEPT ![f] = v] IN ObjTyped(c) /\ SameQueues(b, c) /\ SameObject(b, c)
<1> DEFINE c == [b EXCEPT ![f] = v]
<1>1. RingGood(c)
  BY RingKept DEF ObjTyped, IsRec, Payload, Ring
<1>2. SameStock(b, c)
  BY DEF ObjTyped, IsRec, SameStock, BlocksGood, Blocks, Payload
<1>3. BlocksGood(c)
  BY <1>2, BlocksKept DEF ObjTyped, IsRec, Payload
<1> QED
  BY <1>1, <1>2, <1>3 DEF ObjTyped, SameQueues, SameObject, IsRec, Payload, Used

LEMMA FieldGood ==
  ASSUME NEW k, NEW X, NEW Z, NEW Y, Good(k, X, Z, Y), NEW o \in Object, NEW f \in Payload, NEW v
  PROVE  LET r == [k EXCEPT !.obj[o][f] = v]
         IN  Good(r, X, Z, Y) /\ Calm(k, r) /\ \A u \in Task : waiting(r, u) <=> waiting(k, u)
<1> DEFINE b == [k.obj[o] EXCEPT ![f] = v]
           s == [k EXCEPT !.obj[o] = b]
<1>1. ObjTyped(k.obj[o]) /\ IsFun(k, Fields) /\ IsFun(k.obj, Object)
  BY DEF Good, Core, Typed, ObjectsTyped
<1>2. ObjTyped(b) /\ SameQueues(k.obj[o], b) /\ SameObject(k.obj[o], b)
  BY <1>1, FieldIs
<1>3. [k EXCEPT !.obj[o][f] = v] = s
  OBVIOUS
<1> HIDE DEF b
<1>4. Good(s, X, Z, Y) /\ Calm(k, s) /\ \A u \in Task : waiting(s, u) <=> waiting(k, u)
  BY <1>2, PayloadGood
<1> QED
  BY <1>3, <1>4

-----------------------------------------------------------------------------
(***************************************************************************)
(* The objects that serve those who wait for them: going through a queue,  *)
(* they collect the tasks they can serve, and release them.                *)
(***************************************************************************)
Gathers(f, queue) ==
  /\ "tasks" \in DOMAIN f[0] /\ f[0].tasks = << >>
  /\ \A i \in 1 .. Len(queue) : "tasks" \in DOMAIN f[i - 1] =>
       /\ "tasks" \in DOMAIN f[i]
       /\ f[i].tasks = f[i - 1].tasks \/ f[i].tasks = Append(f[i - 1].tasks, queue[i])

LEMMA Gathered ==
  ASSUME NEW S, NEW queue, IsLine(queue, S), NEW f, Gathers(f, queue)
  PROVE  \E T \in SUBSET S : IsLine(f[Len(queue)].tasks, T)
<1> DEFINE n == Len(queue)
           Upto(i) == { queue[j] : j \in 1 .. i }
           I == { i \in 0 .. n : "tasks" \in DOMAIN f[i] /\ \E T \in SUBSET Upto(i) : IsLine(f[i].tasks, T) }
<1>1. /\ n \in Nat /\ DOMAIN queue = 1 .. n /\ \A i \in 1 .. n : queue[i] \in S
      /\ \A i, j \in 1 .. n : queue[i] = queue[j] => i = j
  BY DEF IsLine, Once
<1>2. /\ "tasks" \in DOMAIN f[0] /\ f[0].tasks = << >>
      /\ \A i \in 1 .. n : "tasks" \in DOMAIN f[i - 1] =>
           /\ "tasks" \in DOMAIN f[i]
           /\ f[i].tasks = f[i - 1].tasks \/ f[i].tasks = Append(f[i - 1].tasks, queue[i])
  BY DEF Gathers
<1> HIDE DEF n
<1>3. 0 \in I
  BY <1>1, <1>2, EmptyLine
<1>4. ASSUME NEW i \in 0 .. n - 1, i \in I PROVE i + 1 \in I
  <2> DEFINE t == queue[i + 1]
             old == f[i].tasks
             new == f[i + 1].tasks
  <2>1. PICK T \in SUBSET Upto(i) : IsLine(old, T)
    BY <1>4
  <2>2. i + 1 \in 1 .. n /\ (i + 1) - 1 = i /\ "tasks" \in DOMAIN f[i]
    BY <1>1, <1>4
  <2>3. "tasks" \in DOMAIN f[i + 1] /\ (new = old \/ new = Append(old, t))
    BY <1>2, <2>2
  <2>4. t \notin Upto(i)
    BY <1>1, <2>2
  <2>5. Upto(i) \subseteq Upto(i + 1) /\ t \in Upto(i + 1)
    BY <1>1, <2>2
  <2>6. i + 1 \in 0 .. n
    BY <2>2
  <2> HIDE DEF Upto, old, t
  <2>7. CASE new = old
    BY <2>1, <2>3, <2>5, <2>6, <2>7
  <2>8. CASE new = Append(old, t)
    <3>1. t \notin T /\ T \cup {t} \in SUBSET Upto(i + 1)
      BY <2>1, <2>4, <2>5
    <3>2. IsLine(Append(old, t), T \cup {t})
      BY <2>1, <3>1, AppendLine
    <3> QED
      BY <2>3, <2>6, <2>8, <3>1, <3>2
  <2> QED
    BY <2>3, <2>7, <2>8
<1>5. n \in I
  <2> HIDE DEF I
  <2>1. n \in 0 .. n
    BY <1>1
  <2> QED
    BY <1>1, <1>3, <1>4, <2>1, InductionTo
<1>6. Upto(n) \subseteq S
  BY <1>1
<1> QED
  BY <1>5, <1>6 DEF n

(* Some of those who wait for an object are released. *)
LEMMA SomeReleased ==
  ASSUME NEW k, NEW X, NEW Z, NEW Y, Good(k, X, Z, Y), NEW T, T \subseteq Task,
         \A t \in T : t \notin X /\ waiting(k, t), NEW tasks, IsLine(tasks, T)
  PROVE  LET r == ReleaseAll(k, tasks)
         IN  /\ Good(r, X, Z, Y) /\ Calm(k, r)
             /\ \A u \in Task : waiting(r, u) <=> waiting(k, u) /\ u \notin T
<1>1. tasks \in Seq(T) /\ Once(tasks) /\ Range(tasks) = T
  BY LineRange DEF IsLine
<1>2. tasks \in Seq(Task) /\ \A i \in DOMAIN tasks : tasks[i] \in T
  BY <1>1
<1>3. \A i \in DOMAIN tasks : tasks[i] \notin X /\ waiting(k, tasks[i])
  BY <1>2
<1> HIDE DEF Good
<1> QED
  BY <1>1, <1>2, <1>3, ReleaseAllGood

(* Whoever waits in the queue of an object. *)
LEMMA InLine ==
  ASSUME NEW k, NEW X, NEW Z, NEW Y, Good(k, X, Z, Y), NEW o \in Object
  PROVE  /\ IsLine(k.obj[o].wait_queue, Waiters(k, X, o))
         /\ Waiters(k, X, o) \subseteq Task
         /\ \A t \in Waiters(k, X, o) : t \notin X /\ waiting(k, t) /\ k.wspec[t] \in InQueue /\ k.wid[t] = o
         /\ Len(k.obj[o].wait_queue) \in Nat
<1>1. IsLine(k.obj[o].wait_queue, Waiters(k, X, o))
  BY DEF Good, Core, WaitGood, LinesGood
<1>2. Len(k.obj[o].wait_queue) \in Nat
  BY <1>1 DEF IsLine
<1> QED
  BY <1>1, <1>2 DEF Waiters

ServedBy(k, o, semcnt, skip, f) ==
  LET queue == k.obj[o].wait_queue
      first == [left |-> semcnt, tasks |-> << >>, going |-> TRUE]
  IN  /\ Turns(f, "serve", [k |-> k, queue |-> queue, skip |-> skip], first, Len(queue))
      /\ Served(k, o, semcnt, skip) = f[Len(queue)]

LEMMA ServedTurns ==
  ASSUME NEW k, NEW o, NEW semcnt, NEW skip, Len(k.obj[o].wait_queue) \in Nat
  PROVE  \E f : ServedBy(k, o, semcnt, skip, f)
<1> DEFINE queue == k.obj[o].wait_queue
           n == Len(queue)
           first == [left |-> semcnt, tasks |-> << >>, going |-> TRUE]
           a == [k |-> k, queue |-> queue, skip |-> skip]
           Round(i, x) == LET cnt == k.winfo[queue[i]]
                         IN  IF ~x.going THEN x
                             ELSE IF x.left < cnt THEN [x EXCEPT !.going = skip]
                             ELSE [x EXCEPT !.left = @ - cnt, !.tasks = Append(@, queue[i])]
           f == CHOOSE upto : upto = [i \in 0 .. Len(queue) |-> IF i = 0 THEN first ELSE Round(i, upto[i - 1])]
<1>1. \A i, x : Turn("serve", a, i, x) = Round(i, x)
  BY DEF Turn
<1>2. Served(k, o, semcnt, skip) = f[n]
  BY DEF Served
<1> HIDE DEF Round, first
<1>3. \E g : IsLoop(g, "serve", a, first, n)
  <2> HIDE DEF a
  <2> QED
    BY Looping
<1>4. \A g : IsLoop(g, "serve", a, first, n)
              <=> g = [i \in 0 .. n |-> IF i = 0 THEN first ELSE Round(i, g[i - 1])]
  <2> HIDE DEF a, n
  <2> QED
    BY <1>1 DEF IsLoop
<1>5. IsLoop(f, "serve", a, first, n)
  <2> HIDE DEF a
  <2> QED
    BY <1>3, <1>4
<1>6. Turns(f, "serve", a, first, n)
  <2> HIDE DEF f, a
  <2> QED
    BY <1>5, LoopTurns
<1> QED
  BY <1>2, <1>6 DEF ServedBy, first

LEMMA ServedIs ==
  ASSUME NEW k, NEW o, NEW S, IsLine(k.obj[o].wait_queue, S), NEW semcnt, NEW skip
  PROVE  \E T \in SUBSET S : IsLine(Served(k, o, semcnt, skip).tasks, T)
<1> DEFINE queue == k.obj[o].wait_queue
           first == [left |-> semcnt, tasks |-> << >>, going |-> TRUE]
<1>1. Len(queue) \in Nat
  BY DEF IsLine
<1>2. PICK f : ServedBy(k, o, semcnt, skip, f)
  BY <1>1, ServedTurns
<1>3. f[0] = first /\ \A i \in 1 .. Len(queue) : f[i] =
          LET cnt == k.winfo[queue[i]]
          IN  IF ~f[i - 1].going THEN f[i - 1]
              ELSE IF f[i - 1].left < cnt THEN [f[i - 1] EXCEPT !.going = skip]
              ELSE [f[i - 1] EXCEPT !.left = @ - cnt, !.tasks = Append(@, queue[i])]
  BY <1>2 DEF ServedBy, Turns, Turn
<1> HIDE DEF queue
<1>4. Gathers(f, queue)
  <2>1. "tasks" \in DOMAIN f[0] /\ f[0].tasks = << >>
    <3>1. f[0] = first
      BY <1>3
    <3> QED
      BY <3>1
  <2>2. ASSUME NEW i \in 1 .. Len(queue), "tasks" \in DOMAIN f[i - 1]
        PROVE  /\ "tasks" \in DOMAIN f[i]
               /\ f[i].tasks = f[i - 1].tasks \/ f[i].tasks = Append(f[i - 1].tasks, queue[i])
    <3> DEFINE x == f[i - 1]
               cnt == k.winfo[queue[i]]
    <3>1. f[i] = IF ~x.going THEN x
                 ELSE IF x.left < cnt THEN [x EXCEPT !.going = skip]
                 ELSE [x EXCEPT !.left = @ - cnt, !.tasks = Append(@, queue[i])]
      BY <1>3
    <3> HIDE DEF x, cnt
    <3>2. "tasks" \in DOMAIN x
      BY <2>2 DEF x
    <3>3. /\ "tasks" \in DOMAIN f[i]
          /\ f[i].tasks = x.tasks \/ f[i].tasks = Append(x.tasks, queue[i])
      BY <3>1, <3>2
    <3> QED
      BY <3>3 DEF x
  <2> QED
    BY <2>1, <2>2 DEF Gathers
<1>5. f[Len(queue)] = Served(k, o, semcnt, skip)
  BY <1>2 DEF ServedBy, queue
<1> QED
  BY <1>4, <1>5, Gathered DEF queue

LEMMA ServeGood ==
  ASSUME NEW k, NEW X, NEW Z, NEW Y, Good(k, X, Z, Y), NEW o \in Object, NEW semcnt, NEW skip
  PROVE  LET r == Serve(k, o, semcnt, skip) IN Good(r, X, Z, Y) /\ Calm(k, r)
<1> DEFINE S == Waiters(k, X, o)
           served == Served(k, o, semcnt, skip)
           tasks == served.tasks
           s == ReleaseAll(k, tasks)
           f == "semcnt"
           r == [s EXCEPT !.obj[o][f] = served.left]
<1>1. IsLine(k.obj[o].wait_queue, S) /\ S \subseteq Task /\ \A t \in S : t \notin X /\ waiting(k, t)
  BY InLine
<1> HIDE DEF S
<1>2. PICK T \in SUBSET S : IsLine(tasks, T)
  BY <1>1, ServedIs
<1>3. Good(s, X, Z, Y) /\ Calm(k, s)
  <2>1. T \subseteq Task /\ \A t \in T : t \notin X /\ waiting(k, t)
    BY <1>1, <1>2
  <2> HIDE DEF tasks
  <2> QED
    BY <1>2, <2>1, SomeReleased
<1>4. f \in Payload
  BY DEF Payload
<1>5. Serve(k, o, semcnt, skip) = r
  BY DEF Serve
<1> HIDE DEF s, f, served
<1>6. Good(r, X, Z, Y) /\ Calm(s, r)
  BY <1>3, <1>4, FieldGood
<1>7. Calm(k, r)
  BY <1>3, <1>6, CalmBoth
<1> QED
  BY <1>5, <1>6, <1>7

(* Event flags: all says how far the going through the queue has come. *)
FlagsBy(k, o, setptn, f) ==
  LET queue == k.obj[o].wait_queue
      first == [flgptn |-> k.obj[o].flgptn \cup setptn, tasks |-> << >>, going |-> TRUE]
      all   == f[Len(queue)]
  IN  /\ Turns(f, "set_flg", [k |-> k, queue |-> queue], first, Len(queue))
      /\ tk_set_flg(k, o, setptn) = [ReleaseAll(k, all.tasks) EXCEPT !.obj[o].flgptn = all.flgptn]

LEMMA FlagTurns ==
  ASSUME NEW k, NEW o, NEW setptn, Len(k.obj[o].wait_queue) \in Nat
  PROVE  \E f : FlagsBy(k, o, setptn, f)
<1> DEFINE queue == k.obj[o].wait_queue
           n == Len(queue)
           first == [flgptn |-> k.obj[o].flgptn \cup setptn, tasks |-> << >>, going |-> TRUE]
           a == [k |-> k, queue |-> queue]
           Round(i, x) == LET want == k.winfo[queue[i]]
                             left == Taken(x.flgptn, want)
                         IN  IF x.going /\ knl_eventflag_cond(x.flgptn, want)
                             THEN [flgptn |-> left, tasks |-> Append(x.tasks, queue[i]), going |-> left # {}]
                             ELSE x
           f == CHOOSE upto : upto = [i \in 0 .. Len(queue) |-> IF i = 0 THEN first ELSE Round(i, upto[i - 1])]
<1>1. \A i, x : Turn("set_flg", a, i, x) = Round(i, x)
  BY DEF Turn
<1>2. tk_set_flg(k, o, setptn) = [ReleaseAll(k, f[n].tasks) EXCEPT !.obj[o].flgptn = f[n].flgptn]
  BY DEF tk_set_flg
<1> HIDE DEF Round, first
<1>3. \E g : IsLoop(g, "set_flg", a, first, n)
  <2> HIDE DEF a
  <2> QED
    BY Looping
<1>4. \A g : IsLoop(g, "set_flg", a, first, n)
              <=> g = [i \in 0 .. n |-> IF i = 0 THEN first ELSE Round(i, g[i - 1])]
  <2> HIDE DEF a, n
  <2> QED
    BY <1>1 DEF IsLoop
<1>5. IsLoop(f, "set_flg", a, first, n)
  <2> HIDE DEF a
  <2> QED
    BY <1>3, <1>4
<1>6. Turns(f, "set_flg", a, first, n)
  <2> HIDE DEF f, a
  <2> QED
    BY <1>5, LoopTurns
<1> HIDE DEF f
<1>7. FlagsBy(k, o, setptn, f)
  BY <1>2, <1>6 DEF FlagsBy, first
<1> QED
  BY <1>7

LEMMA SetFlagGood ==
  ASSUME NEW k, NEW X, NEW Z, NEW Y, Good(k, X, Z, Y), NEW o \in Object, NEW setptn
  PROVE  LET r == tk_set_flg(k, o, setptn) IN Good(r, X, Z, Y) /\ Calm(k, r)
<1> DEFINE S == Waiters(k, X, o)
           queue == k.obj[o].wait_queue
           first == [flgptn |-> k.obj[o].flgptn \cup setptn, tasks |-> << >>, going |-> TRUE]
<1>1. IsLine(queue, S) /\ S \subseteq Task /\ (\A t \in S : t \notin X /\ waiting(k, t)) /\ Len(queue) \in Nat
  BY InLine
<1>2. PICK f : FlagsBy(k, o, setptn, f)
  BY <1>1, FlagTurns
<1>3. f[0] = first
  BY <1>2 DEF FlagsBy, Turns
<1>4. Gathers(f, queue)
  <2>1. "tasks" \in DOMAIN f[0] /\ f[0].tasks = << >>
    BY <1>3
  <2>2. ASSUME NEW i \in 1 .. Len(queue), "tasks" \in DOMAIN f[i - 1]
        PROVE  /\ "tasks" \in DOMAIN f[i]
               /\ f[i].tasks = f[i - 1].tasks \/ f[i].tasks = Append(f[i - 1].tasks, queue[i])
    <3> DEFINE x == f[i - 1]
               want == k.winfo[queue[i]]
               left == Taken(x.flgptn, want)
    <3>1. f[i] = IF x.going /\ knl_eventflag_cond(x.flgptn, want)
                 THEN [flgptn |-> left, tasks |-> Append(x.tasks, queue[i]), going |-> left # {}]
                 ELSE x
      BY <1>2 DEF FlagsBy, Turns, Turn
    <3> HIDE DEF x, want, left
    <3>2. "tasks" \in DOMAIN x
      BY <2>2 DEF x
    <3>3. /\ "tasks" \in DOMAIN f[i]
          /\ f[i].tasks = x.tasks \/ f[i].tasks = Append(x.tasks, queue[i])
      BY <3>1, <3>2
    <3> QED
      BY <3>3 DEF x
  <2> QED
    BY <2>1, <2>2 DEF Gathers
<1> DEFINE tasks == f[Len(queue)].tasks
           flgptn == f[Len(queue)].flgptn
           s == ReleaseAll(k, tasks)
           g == "flgptn"
           r == [s EXCEPT !.obj[o][g] = flgptn]
<1>5. PICK T \in SUBSET S : IsLine(tasks, T)
  <2> HIDE DEF S, queue
  <2> QED
    BY <1>1, <1>4, Gathered
<1>6. tk_set_flg(k, o, setptn) = r
  BY <1>2 DEF FlagsBy
<1>7. Good(s, X, Z, Y) /\ Calm(k, s)
  <2>1. T \subseteq Task /\ \A t \in T : t \notin X /\ waiting(k, t)
    BY <1>1, <1>5
  <2> HIDE DEF tasks
  <2> QED
    BY <1>5, <2>1, SomeReleased
<1>8. g \in Payload
  BY DEF Payload
<1> HIDE DEF s, g, flgptn
<1>9. Good(r, X, Z, Y) /\ Calm(s, r)
  BY <1>7, <1>8, FieldGood
<1>10. Calm(k, r)
  BY <1>7, <1>9, CalmBoth
<1> QED
  BY <1>6, <1>9, <1>10

(* Message buffers. *)
WakesBy(k, o, f) ==
  LET queue == k.obj[o].wait_queue
      first == [mbf |-> k.obj[o], tasks |-> << >>, going |-> TRUE]
      all   == f[Len(queue)]
  IN  /\ Turns(f, "mbf_wakeup", [k |-> k, queue |-> queue], first, Len(queue))
      /\ knl_mbf_wakeup(k, o) = ReleaseAll([k EXCEPT !.obj[o] = all.mbf], all.tasks)

LEMMA WakeTurns ==
  ASSUME NEW k, NEW o, Len(k.obj[o].wait_queue) \in Nat
  PROVE  \E f : WakesBy(k, o, f)
<1> DEFINE queue == k.obj[o].wait_queue
           n == Len(queue)
           first == [mbf |-> k.obj[o], tasks |-> << >>, going |-> TRUE]
           a == [k |-> k, queue |-> queue]
           Round(i, x) == LET msg == k.winfo[queue[i]]
                         IN  IF x.going /\ knl_mbf_free(x.mbf, msg.size)
                             THEN [x EXCEPT !.mbf = knl_msg_to_mbf(@, msg), !.tasks = Append(@, queue[i])]
                             ELSE [x EXCEPT !.going = FALSE]
           f == CHOOSE upto : upto = [i \in 0 .. Len(queue) |-> IF i = 0 THEN first ELSE Round(i, upto[i - 1])]
<1>1. \A i, x : Turn("mbf_wakeup", a, i, x) = Round(i, x)
  BY DEF Turn
<1>2. knl_mbf_wakeup(k, o) = ReleaseAll([k EXCEPT !.obj[o] = f[n].mbf], f[n].tasks)
  BY DEF knl_mbf_wakeup
<1> HIDE DEF Round, first
<1>3. \E g : IsLoop(g, "mbf_wakeup", a, first, n)
  <2> HIDE DEF a
  <2> QED
    BY Looping
<1>4. \A g : IsLoop(g, "mbf_wakeup", a, first, n)
              <=> g = [i \in 0 .. n |-> IF i = 0 THEN first ELSE Round(i, g[i - 1])]
  <2> HIDE DEF a, n
  <2> QED
    BY <1>1 DEF IsLoop
<1>5. IsLoop(f, "mbf_wakeup", a, first, n)
  <2> HIDE DEF a
  <2> QED
    BY <1>3, <1>4
<1>6. Turns(f, "mbf_wakeup", a, first, n)
  <2> HIDE DEF f, a
  <2> QED
    BY <1>5, LoopTurns
<1> HIDE DEF f
<1>7. WakesBy(k, o, f)
  BY <1>2, <1>6 DEF WakesBy, first
<1> QED
  BY <1>7

(* A message that is put into the ring or taken out changes nothing else. *)
LEMMA RingIs ==
  ASSUME NEW b, ObjTyped(b), NEW c, NEW msg, c = knl_msg_to_mbf(b, msg) \/ c = knl_mbf_to_msg(b),
         b.kind = "mbf" =>
           \/ c = knl_msg_to_mbf(b, msg) /\ msg \in Packet /\ knl_mbf_free(b, msg.size)
           \/ c = knl_mbf_to_msg(b) /\ ~ knl_mbf_empty(b)
  PROVE  ObjTyped(c) /\ SameQueues(b, c) /\ SameObject(b, c)
<1>1. IsRec(b) /\ { "kind", "wait_queue" } \subseteq DOMAIN b
  BY DEF ObjTyped
<1>2. /\ DOMAIN c = DOMAIN b /\ IsRec(c)
      /\ \A f \in DOMAIN b \ { "frbufsz", "head", "tail", "buffer" } : c[f] = b[f]
  BY <1>1 DEF knl_msg_to_mbf, knl_mbf_to_msg, IsRec
<1>3. RingGood(c)
  <2>1. SUFFICES ASSUME b.kind = "mbf"
                 PROVE  WholeRing(c.bufsz, c.frbufsz, c.head, c.tail, c.buffer)
    BY <1>1, <1>2 DEF RingGood, ObjTyped
  <2>2. /\ { "bufsz", "frbufsz", "head", "tail", "buffer" } \subseteq DOMAIN b
        /\ WholeRing(b.bufsz, b.frbufsz, b.head, b.tail, b.buffer)
    BY <2>1 DEF ObjTyped, RingGood
  <2>3. CASE c = knl_msg_to_mbf(b, msg) /\ msg \in Packet /\ knl_mbf_free(b, msg.size)
    BY <1>1, <2>2, <2>3, MessageIn
  <2>4. CASE c = knl_mbf_to_msg(b) /\ ~ knl_mbf_empty(b)
    BY <1>1, <2>2, <2>4, MessageOut
  <2> QED
    BY <2>1, <2>3, <2>4
<1>4. c.kind = b.kind /\ c.wait_queue = b.wait_queue
  BY <1>1, <1>2
<1>5. /\ "atr" \in DOMAIN b => "atr" \in DOMAIN c /\ c.atr = b.atr
      /\ "mtxtsk" \in DOMAIN b => "mtxtsk" \in DOMAIN c /\ c.mtxtsk = b.mtxtsk
      /\ "ceilpri" \in DOMAIN b => "ceilpri" \in DOMAIN c /\ c.ceilpri = b.ceilpri
      /\ "recv_queue" \in DOMAIN b => "recv_queue" \in DOMAIN c /\ c.recv_queue = b.recv_queue
  BY <1>2
<1>6. SameStock(b, c)
  BY <1>2 DEF ObjTyped, BlocksGood, SameStock, Blocks
<1>7. BlocksGood(c)
  BY <1>2, <1>4, <1>6, BlocksKept DEF ObjTyped
<1> QED
  BY <1>1, <1>2, <1>3, <1>4, <1>5, <1>6, <1>7 DEF ObjTyped, SameQueues, SameObject, Used

LEMMA MbfWakeupGood ==
  ASSUME NEW k, NEW X, NEW Z, NEW Y, Good(k, X, Z, Y), NEW o \in Object
  PROVE  LET r == knl_mbf_wakeup(k, o) IN Good(r, X, Z, Y) /\ Calm(k, r)
<1> DEFINE S == Waiters(k, X, o)
           queue == k.obj[o].wait_queue
           n == Len(queue)
           b == k.obj[o]
           first == [mbf |-> b, tasks |-> << >>, going |-> TRUE]
<1>1. IsLine(queue, S) /\ S \subseteq Task /\ (\A t \in S : t \notin X /\ waiting(k, t)) /\ n \in Nat
  BY InLine
<1>2. PICK f : WakesBy(k, o, f)
  BY <1>1, WakeTurns
<1>3. f[0] = first
  BY <1>2 DEF WakesBy, Turns
<1>4. ASSUME NEW i \in 1 .. n
      PROVE  LET x == f[i - 1]
                 msg == k.winfo[queue[i]]
             IN  f[i] = IF x.going /\ knl_mbf_free(x.mbf, msg.size)
                        THEN [x EXCEPT !.mbf = knl_msg_to_mbf(@, msg), !.tasks = Append(@, queue[i])]
                        ELSE [x EXCEPT !.going = FALSE]
  BY <1>2 DEF WakesBy, Turns, Turn
<1>5. Gathers(f, queue)
  <2>1. "tasks" \in DOMAIN f[0] /\ f[0].tasks = << >>
    BY <1>3
  <2>2. ASSUME NEW i \in 1 .. Len(queue), "tasks" \in DOMAIN f[i - 1]
        PROVE  /\ "tasks" \in DOMAIN f[i]
               /\ f[i].tasks = f[i - 1].tasks \/ f[i].tasks = Append(f[i - 1].tasks, queue[i])
    <3> DEFINE x == f[i - 1]
               msg == k.winfo[queue[i]]
    <3>1. f[i] = IF x.going /\ knl_mbf_free(x.mbf, msg.size)
                 THEN [x EXCEPT !.mbf = knl_msg_to_mbf(@, msg), !.tasks = Append(@, queue[i])]
                 ELSE [x EXCEPT !.going = FALSE]
      BY <1>4
    <3> HIDE DEF x, msg
    <3>2. "tasks" \in DOMAIN x
      BY <2>2 DEF x
    <3>3. /\ "tasks" \in DOMAIN f[i]
          /\ f[i].tasks = x.tasks \/ f[i].tasks = Append(x.tasks, queue[i])
      BY <3>1, <3>2
    <3> QED
      BY <3>3 DEF x
  <2> QED
    BY <2>1, <2>2 DEF Gathers
<1>6. ASSUME NEW i \in 1 .. n, b.kind = "mbf" PROVE k.winfo[queue[i]] \in Packet
  <2>1. queue[i] \in S
    BY <1>1, <1>6 DEF IsLine
  <2>2. queue[i] \in Task \ X /\ waiting(k, queue[i]) /\ k.wspec[queue[i]] \in InQueue /\ k.wid[queue[i]] = o
    BY <2>1 DEF Waiters
  <2>3. WaitsFor(k, queue[i])
    BY <2>2 DEF Good, Core, WaitGood
  <2> QED
    BY <1>6, <2>2, <2>3 DEF WaitsFor, Suits, InQueue, Wanted
<1> DEFINE Like(x) == /\ "mbf" \in DOMAIN x /\ ObjTyped(x.mbf) /\ SameQueues(b, x.mbf) /\ SameObject(b, x.mbf)
           I == { i \in 0 .. n : Like(f[i]) }
<1> HIDE DEF n
<1>7. n \in I
  <2>1. 0 \in I
    <3>1. ObjTyped(b)
      BY DEF Good, Core, Typed, ObjectsTyped
    <3>2. "mbf" \in DOMAIN f[0] /\ f[0].mbf = b
      BY <1>3
    <3> HIDE DEF b
    <3>3. Like(f[0])
      BY <3>1, <3>2 DEF SameQueues, SameObject, SameStock
    <3> QED
      BY <1>1, <3>3
  <2>2. ASSUME NEW i \in 0 .. n - 1, i \in I PROVE i + 1 \in I
    <3> DEFINE x == f[i]
               y == f[i + 1]
               msg == k.winfo[queue[i + 1]]
    <3>1. i + 1 \in 1 .. n /\ (i + 1) - 1 = i
      BY <1>1
    <3>2. y = IF x.going /\ knl_mbf_free(x.mbf, msg.size)
              THEN [x EXCEPT !.mbf = knl_msg_to_mbf(@, msg), !.tasks = Append(@, queue[i + 1])]
              ELSE [x EXCEPT !.going = FALSE]
      <4> DEFINE j == i + 1
      <4>1. j \in 1 .. n /\ f[j - 1] = x
        BY <3>1
      <4> HIDE DEF x
      <4>2. f[j] = IF x.going /\ knl_mbf_free(x.mbf, k.winfo[queue[j]].size)
              THEN [x EXCEPT !.mbf = knl_msg_to_mbf(@, k.winfo[queue[j]]), !.tasks = Append(@, queue[j])]
              ELSE [x EXCEPT !.going = FALSE]
        <5> HIDE DEF j
        <5> QED
          BY <1>4, <4>1
      <4> QED
        BY <4>2
    <3>3. Like(x)
      BY <2>2
    <3>4. b.kind = "mbf" => msg \in Packet
      <4> DEFINE j == i + 1
      <4>1. j \in 1 .. n
        BY <3>1
      <4>2. b.kind = "mbf" => k.winfo[queue[j]] \in Packet
        <5> HIDE DEF j
        <5> QED
          BY <1>6, <4>1
      <4> QED
        BY <4>2
    <3> HIDE DEF x, y, msg
    <3> DEFINE c == knl_msg_to_mbf(x.mbf, msg)
    <3>5. "mbf" \in DOMAIN y /\ (y.mbf = x.mbf \/ (y.mbf = c /\ knl_mbf_free(x.mbf, msg.size)))
      BY <3>2, <3>3
    <3>6. x.mbf.kind = b.kind
      BY <3>3 DEF SameQueues
    <3>7. knl_mbf_free(x.mbf, msg.size) => ObjTyped(c) /\ SameQueues(x.mbf, c) /\ SameObject(x.mbf, c)
      BY <3>3, <3>4, <3>6, RingIs
    <3> HIDE DEF c
    <3>8. Like(y)
      BY <3>3, <3>5, <3>7 DEF SameQueues, SameObject, SameStock
    <3> HIDE DEF Like
    <3> QED
      BY <3>1, <3>8 DEF y
  <2> HIDE DEF I
  <2>3. n \in 0 .. n
    BY <1>1
  <2> QED
    BY <1>1, <2>1, <2>2, <2>3, InductionTo
<1> DEFINE tasks == f[n].tasks
           c == f[n].mbf
           s == [k EXCEPT !.obj[o] = c]
           r == ReleaseAll(s, tasks)
<1>8. PICK T \in SUBSET S : IsLine(tasks, T)
  <2> HIDE DEF S, queue
  <2> QED
    BY <1>1, <1>5, Gathered DEF n
<1>9. knl_mbf_wakeup(k, o) = r
  BY <1>2 DEF WakesBy, n
<1>10. ObjTyped(c) /\ SameQueues(b, c) /\ SameObject(b, c)
  BY <1>7
<1> HIDE DEF c
<1>11. Good(s, X, Z, Y) /\ Calm(k, s) /\ \A u \in Task : waiting(s, u) <=> waiting(k, u)
  BY <1>10, PayloadGood
<1>12. T \subseteq Task /\ \A t \in T : t \notin X /\ waiting(s, t)
  BY <1>1, <1>8, <1>11
<1>13. Good(r, X, Z, Y) /\ Calm(s, r)
  <2> HIDE DEF tasks, s
  <2> QED
    BY <1>8, <1>11, <1>12, SomeReleased
<1>14. Calm(k, r)
  BY <1>11, <1>13, CalmBoth
<1> QED
  BY <1>9, <1>13, <1>14

(* Variable-size pools. *)
PoolBy(k, o, f) ==
  LET queue == k.obj[o].wait_queue
  IN  /\ Turns(f, "mpl_wakeup", [k |-> k, o |-> o, queue |-> queue], k, Len(queue))
      /\ knl_mpl_wakeup(k, o) = f[Len(queue)]

LEMMA PoolTurns ==
  ASSUME NEW k, NEW o, Len(k.obj[o].wait_queue) \in Nat
  PROVE  \E f : PoolBy(k, o, f)
<1> DEFINE queue == k.obj[o].wait_queue
           n == Len(queue)
           a == [k |-> k, o |-> o, queue |-> queue]
           Round(i, x) == LET blksz == k.winfo[queue[i]]
                         IN  IF x.obj[o].wait_queue = SubSeq(queue, i, Len(queue))
                                  /\ blksz <= knl_MaxFreeSize(x.obj[o].pool)
                             THEN knl_wait_release([x EXCEPT !.obj[o].pool = knl_get_blk(@, blksz)], queue[i])
                             ELSE x
           f == CHOOSE after : after = [i \in 0 .. Len(queue) |-> IF i = 0 THEN k ELSE Round(i, after[i - 1])]
<1>1. \A i, x : Turn("mpl_wakeup", a, i, x) = Round(i, x)
  BY DEF Turn
<1>2. knl_mpl_wakeup(k, o) = f[n]
  BY DEF knl_mpl_wakeup
<1> HIDE DEF Round
<1>3. \E g : IsLoop(g, "mpl_wakeup", a, k, n)
  <2> HIDE DEF a
  <2> QED
    BY Looping
<1>4. \A g : IsLoop(g, "mpl_wakeup", a, k, n)
              <=> g = [i \in 0 .. n |-> IF i = 0 THEN k ELSE Round(i, g[i - 1])]
  <2> HIDE DEF a, n
  <2> QED
    BY <1>1 DEF IsLoop
<1>5. IsLoop(f, "mpl_wakeup", a, k, n)
  <2> HIDE DEF a
  <2> QED
    BY <1>3, <1>4
<1>6. Turns(f, "mpl_wakeup", a, k, n)
  <2> HIDE DEF f, a
  <2> QED
    BY <1>5, LoopTurns
<1> HIDE DEF f
<1>7. PoolBy(k, o, f)
  BY <1>2, <1>6 DEF PoolBy
<1> QED
  BY <1>7

LEMMA MplWakeupGood ==
  ASSUME NEW k, NEW X, NEW Z, NEW Y, Good(k, X, Z, Y), NEW o \in Object
  PROVE  LET r == knl_mpl_wakeup(k, o) IN Good(r, X, Z, Y) /\ Calm(k, r)
<1> DEFINE queue == k.obj[o].wait_queue
           n == Len(queue)
<1>1. n \in Nat /\ queue \in Seq(Task)
  <2>1. queue \in Seq(Task)
    BY DEF Good, Core, Typed, ObjectsTyped, ObjTyped
  <2> QED
    BY <2>1
<1>2. PICK f : PoolBy(k, o, f)
  BY <1>1, PoolTurns
<1>3. f[0] = k
  BY <1>2 DEF PoolBy, Turns
<1>4. ASSUME NEW i \in 1 .. n
      PROVE  LET x == f[i - 1]
                 blksz == k.winfo[queue[i]]
             IN  f[i] = IF x.obj[o].wait_queue = SubSeq(queue, i, n) /\ blksz <= knl_MaxFreeSize(x.obj[o].pool)
                        THEN knl_wait_release([x EXCEPT !.obj[o].pool = knl_get_blk(@, blksz)], queue[i])
                        ELSE x
  BY <1>2 DEF PoolBy, Turns, Turn
<1>5. knl_mpl_wakeup(k, o) = f[n]
  BY <1>2 DEF PoolBy
<1>6. ASSUME NEW i \in 1 .. n
      PROVE  SubSeq(queue, i, n)[1] = queue[i] /\ 1 \in DOMAIN SubSeq(queue, i, n)
  BY <1>1
<1> DEFINE I == { i \in 0 .. n : Good(f[i], X, Z, Y) /\ Calm(k, f[i]) }
<1> HIDE DEF n, queue
<1>7. 0 \in I
  BY <1>1, <1>3, CalmSelf
<1>8. ASSUME NEW i \in 1 .. n, Good(f[i - 1], X, Z, Y), Calm(k, f[i - 1])
      PROVE  Good(f[i], X, Z, Y) /\ Calm(k, f[i])
  <2> DEFINE x == f[i - 1]
             blksz == k.winfo[queue[i]]
             t == queue[i]
             p == "pool"
             v == knl_get_blk(x.obj[o].pool, blksz)
             y == [x EXCEPT !.obj[o][p] = v]
             z == knl_wait_release(y, t)
  <2>1. f[i] = x \/ (x.obj[o].wait_queue = SubSeq(queue, i, n) /\ f[i] = z)
    BY <1>4
  <2>2. Good(x, X, Z, Y) /\ Calm(k, x)
    BY <1>8
  <2>3. CASE f[i] = x
    BY <2>2, <2>3
  <2>4. CASE x.obj[o].wait_queue = SubSeq(queue, i, n) /\ f[i] = z
    <3>1. x.obj[o].wait_queue[1] = t /\ 1 \in DOMAIN x.obj[o].wait_queue
      BY <1>6, <2>4
    <3> HIDE DEF x, t
    <3>2. IsLine(x.obj[o].wait_queue, Waiters(x, X, o))
      BY <2>2, InLine
    <3>3. t \in Waiters(x, X, o)
      BY <3>1, <3>2 DEF IsLine
    <3>4. t \in Task \ X /\ waiting(x, t)
      BY <3>3 DEF Waiters
    <3>5. p \in Payload
      BY DEF Payload
    <3> HIDE DEF p, v
    <3>6. Good(y, X, Z, Y) /\ Calm(x, y) /\ \A u \in Task : waiting(y, u) <=> waiting(x, u)
      BY <2>2, <3>5, FieldGood
    <3> HIDE DEF y
    <3>7. Good(z, X, Z, Y) /\ Calm(y, z)
      BY <3>4, <3>6, WaitReleaseGood
    <3>8. Calm(k, z)
      BY <2>2, <3>6, <3>7, CalmBoth
    <3> HIDE DEF z
    <3> QED
      BY <2>4, <3>7, <3>8
  <2> QED
    BY <2>1, <2>3, <2>4
<1>9. ASSUME NEW i \in 0 .. n - 1, i \in I PROVE i + 1 \in I
  <2>1. i + 1 \in 1 .. n /\ (i + 1) - 1 = i
    BY <1>1
  <2>2. Good(f[(i + 1) - 1], X, Z, Y) /\ Calm(k, f[(i + 1) - 1])
    BY <1>9, <2>1
  <2> DEFINE j == i + 1
  <2>3. j \in 1 .. n /\ Good(f[j - 1], X, Z, Y) /\ Calm(k, f[j - 1])
    BY <2>1, <2>2
  <2>4. Good(f[j], X, Z, Y) /\ Calm(k, f[j])
    <3> HIDE DEF j
    <3> QED
      BY <1>8, <2>3
  <2> QED
    BY <2>1, <2>4
<1>10. n \in I
  <2> HIDE DEF I
  <2>1. n \in 0 .. n
    BY <1>1
  <2> QED
    BY <1>1, <1>7, <1>9, <2>1, InductionTo
<1> QED
  BY <1>5, <1>10

-----------------------------------------------------------------------------
(***************************************************************************)
(* A task that is in no queue begins to wait, at its place in the queue of *)
(* what it waits for.                                                      *)
(***************************************************************************)
Blocked(k, r, X, t) ==
  /\ Typed(r) /\ waiting(r, t) /\ \A u \in Task : u # t => r.state[u] = k.state[u] /\ r.timed[u] = k.timed[u]
  /\ r.priority = k.priority /\ SameWaits(k, r) /\ SameLocks(k, r) /\ SameRun(k, r)
  /\ SameReady(k, r) /\ SameObjects(k, r) /\ r.call = k.call /\ r.mtxlist = k.mtxlist
  /\ \A x \in Object :
       /\ IF x = k.wid[t] /\ k.wspec[t] # "rmbf"
          THEN /\ IsLine(r.obj[x].wait_queue, Waiters(k, X, x) \cup {t})
               /\ Used(k.obj[x].kind) /\ "TPRI" \in k.obj[x].atr => Ordered(k.priority, r.obj[x].wait_queue)
          ELSE r.obj[x].wait_queue = k.obj[x].wait_queue
       /\ k.obj[x].kind = "mbf" =>
            IF x = k.wid[t] /\ k.wspec[t] = "rmbf"
            THEN IsLine(r.obj[x].recv_queue, Receivers(k, X, x) \cup {t})
            ELSE r.obj[x].recv_queue = k.obj[x].recv_queue

(* A task may wait for a mutex that is locked and comes after those it has. *)
MayBlock(k, t) ==
  /\ WaitsFor(k, t) /\ k.klock[t] # "klockwait" /\ alive(k, t)
  /\ k.call[t] # NULL => k.call[t].at = "wait"
  /\ k.wspec[t] = "mtx" =>
       /\ k.obj[k.wid[t]].mtxtsk # NULL
       /\ \A m \in Range(k.mtxlist[t]) : Rank[m] < Rank[k.wid[t]]

LEMMA BlockGood ==
  ASSUME NEW k, NEW X, NEW Z, NEW Y, Good(k, X, Z, Y), NEW t \in X \ Z, NEW r, Blocked(k, r, X, t),
         MayBlock(k, t)
  PROVE  Good(r, X \ {t}, Z, Y)
<1> DEFINE W == X \ {t}
           o == k.wid[t]
<1>1. /\ X \in SUBSET Task /\ Z \in SUBSET X /\ Z \in SUBSET W /\ t \in Task
      /\ Typed(k) /\ ReadyGood(k, X) /\ LockerGood(k) /\ TopGood(k) /\ WaitGood(k, X)
      /\ MutexGood(k, X, Z, Y) /\ CallsGood(k) /\ LockGood(k)
  BY DEF Good, Core
<1>2. /\ Typed(r) /\ r.priority = k.priority /\ SameWaits(k, r) /\ SameLocks(k, r) /\ SameRun(k, r)
      /\ SameReady(k, r) /\ SameObjects(k, r) /\ r.call = k.call /\ r.mtxlist = k.mtxlist
      /\ waiting(r, t) /\ \A u \in Task : u # t => r.state[u] = k.state[u] /\ r.timed[u] = k.timed[u]
  BY DEF Blocked
<1>3. /\ \A u \in Task : u # t => (waiting(r, u) <=> waiting(k, u))
      /\ \A u \in Task : alive(r, u) <=> alive(k, u)
  BY <1>1, <1>2 DEF waiting, alive, MayBlock
<1>4. \A u \in Task : u \notin W /\ waiting(r, u) => WaitsFor(r, u)
  BY <1>1, <1>2, <1>3 DEF WaitGood, WaitsFor, SameWaits, SameObjects, SameObject, MayBlock
<1>5. r.state[t] # "ready"
  BY <1>2 DEF waiting
<1>6. ReadyGood(r, W) /\ TopGood(r) /\ LockerGood(r)
  <2>1. ReadySet(r, W) = ReadySet(k, X)
    BY <1>1, <1>2, <1>5 DEF ReadySet, SameLocks
  <2> QED
    BY <1>1, <1>2, <2>1 DEF ReadyGood, TopGood, LockerGood, Locker, SameReady, SameLocks
<1>7. ASSUME NEW x \in Object
      PROVE  /\ IsLine(r.obj[x].wait_queue, Waiters(r, W, x))
             /\ r.obj[x].kind = "mbf" => IsLine(r.obj[x].recv_queue, Receivers(r, W, x))
             /\ Used(r.obj[x].kind) /\ "TPRI" \in r.obj[x].atr => Ordered(r.priority, r.obj[x].wait_queue)
  <2>1. /\ IsLine(k.obj[x].wait_queue, Waiters(k, X, x))
        /\ k.obj[x].kind = "mbf" => IsLine(k.obj[x].recv_queue, Receivers(k, X, x))
        /\ Used(k.obj[x].kind) /\ "TPRI" \in k.obj[x].atr => Ordered(k.priority, k.obj[x].wait_queue)
    BY <1>1 DEF WaitGood, LinesGood
  <2>2. /\ \A u \in Task : u \in Waiters(r, W, x) <=> u \in Waiters(k, X, x)
                             \/ (u = t /\ x = o /\ k.wspec[t] \in InQueue)
        /\ \A u \in Task : u \in Receivers(r, W, x) <=> u \in Receivers(k, X, x)
                             \/ (u = t /\ x = o /\ k.wspec[t] = "rmbf")
    BY <1>1, <1>2, <1>3 DEF Waiters, Receivers, SameWaits
  <2>3. SameObject(k.obj[x], r.obj[x]) /\ r.priority = k.priority
    BY <1>2 DEF SameObjects
  <2>4. CASE x = o /\ k.wspec[t] # "rmbf"
    <3>1. k.wspec[t] \in InQueue
      <4>1. NULL \notin Object
        BY KernelTaskAssumption
      <4> QED
        BY <2>4, <4>1 DEF MayBlock, WaitsFor, Suits, InQueue
    <3>2. Waiters(r, W, x) = Waiters(k, X, x) \cup {t} /\ Receivers(r, W, x) = Receivers(k, X, x)
      BY <1>1, <2>2, <2>4, <3>1 DEF Waiters, Receivers
    <3>3. /\ IsLine(r.obj[x].wait_queue, Waiters(k, X, x) \cup {t})
          /\ Used(k.obj[x].kind) /\ "TPRI" \in k.obj[x].atr => Ordered(k.priority, r.obj[x].wait_queue)
          /\ k.obj[x].kind = "mbf" => r.obj[x].recv_queue = k.obj[x].recv_queue
      BY <2>4 DEF Blocked
    <3> QED
      BY <2>1, <2>3, <3>2, <3>3 DEF SameObject
  <2>5. CASE ~ (x = o /\ k.wspec[t] # "rmbf")
    <3>1. Waiters(r, W, x) = Waiters(k, X, x)
      BY <2>2, <2>5 DEF Waiters, InQueue
    <3>2. r.obj[x].wait_queue = k.obj[x].wait_queue
      BY <2>5 DEF Blocked
    <3>3. k.obj[x].kind = "mbf" => IsLine(r.obj[x].recv_queue, Receivers(r, W, x))
      <4>1. CASE x = o
        <5>1. k.obj[x].kind = "mbf" => IsLine(r.obj[x].recv_queue, Receivers(k, X, x) \cup {t})
          BY <2>5, <4>1 DEF Blocked
        <5>2. Receivers(r, W, x) = Receivers(k, X, x) \cup {t}
          BY <1>1, <2>2, <2>5, <4>1 DEF Receivers
        <5> QED
          BY <5>1, <5>2
      <4>2. CASE x # o
        <5>1. Receivers(r, W, x) = Receivers(k, X, x)
          BY <2>2, <4>2 DEF Receivers
        <5> QED
          BY <2>1, <4>2, <5>1 DEF Blocked
      <4> QED
        BY <4>1, <4>2
    <3> QED
      BY <2>1, <2>3, <3>1, <3>2, <3>3 DEF SameObject
  <2> QED
    BY <2>4, <2>5
<1>8. WaitGood(r, W)
  <2>1. TimedGood(r, W)
    BY <1>1, <1>2, <1>3 DEF WaitGood, TimedGood
  <2> QED
    BY <1>4, <1>7, <2>1 DEF WaitGood, LinesGood
<1>9. MutexGood(r, W, Z, Y)
  <2>1. OwnerGood(r, Y)
    <3>1. ASSUME NEW m \in Object, k.obj[m].kind = "mtx", k.obj[m].mtxtsk = NULL
          PROVE  r.obj[m].wait_queue = << >>
      <4>1. k.obj[m].wait_queue = << >>
        BY <1>1, <3>1 DEF MutexGood, OwnerGood
      <4>2. m = o => k.wspec[t] # "mtx" /\ Suits(k.obj[m].kind, k.wspec[t])
        <5>1. NULL \notin Object
          BY KernelTaskAssumption
        <5> QED
          BY <3>1, <5>1 DEF MayBlock, WaitsFor
      <4>3. m # o
        BY <3>1, <4>2 DEF Suits
      <4> QED
        BY <4>1, <4>3 DEF Blocked
    <3> QED
      BY <1>1, <1>2, <1>3, <3>1 DEF MutexGood, OwnerGood, SameObjects, SameObject, Typed, ObjectsTyped, ObjTyped
  <2>2. ListGood(r, Z, Y)
    <3>1. \A u \in Task : \A m \in Range(k.mtxlist[u]) : m \in Object
      BY <1>1 DEF Typed, TasksTyped, Range
    <3>2. ListGood(k, Z, Y)
      BY <1>1 DEF MutexGood
    <3> QED
      BY <1>2, <3>1, <3>2 DEF ListGood, Holds, SameObjects, SameObject
  <2>3. RankGood(r, W)
    BY <1>1, <1>2, <1>3 DEF MutexGood, RankGood, SameWaits, MayBlock
  <2> QED
    BY <2>1, <2>2, <2>3 DEF MutexGood
<1>10. CallsGood(r)
  BY <1>1, <1>2, <1>3, CallsKept DEF MayBlock, SameLocks, SameObjects, SameObject
<1>11. LockGood(r)
  <2>1. \A u \in Task : k.klock[u] = "klockwait" => r.state[u] = "ready"
    BY <1>1, <1>2 DEF MayBlock, LockGood
  <2> QED
    BY <1>1, <1>2, <2>1, LocksKept DEF SameLocks
<1> QED
  BY <1>1, <1>2, <1>6, <1>8, <1>9, <1>10, <1>11 DEF Good, Core

(* The fields that knl_make_wait sets. *)
Stopped(k, r, t) ==
  /\ Typed(r) /\ r.state = [k.state EXCEPT ![t] = "wait"] /\ \A u \in Task : u # t => r.timed[u] = k.timed[u]
  /\ r.priority = k.priority /\ SameWaits(k, r) /\ SameLocks(k, r) /\ SameRun(k, r)
  /\ SameReady(k, r) /\ r.obj = k.obj /\ r.call = k.call /\ r.mtxlist = k.mtxlist

LEMMA StopIs ==
  ASSUME NEW k, Typed(k), NEW t \in Task, NEW b \in BOOLEAN
  PROVE  Stopped(k, [k EXCEPT !.state[t] = "wait", !.timed[t] = b], t)
<1> DEFINE r == [k EXCEPT !.state[t] = "wait", !.timed[t] = b]
<1>1. IsFun(k, Fields) /\ TasksTyped(k) /\ WaitsTyped(k) /\ LocksTyped(k) /\ RunTyped(k) /\ ObjectsTyped(k)
  BY DEF Typed
<1>2. /\ IsFun(r, Fields) /\ r.state = [k.state EXCEPT ![t] = "wait"] /\ r.timed = [k.timed EXCEPT ![t] = b]
      /\ r.priority = k.priority /\ r.bpriority = k.bpriority /\ r.ipriority = k.ipriority
      /\ SameWaits(k, r) /\ SameLocks(k, r) /\ SameRun(k, r) /\ SameReady(k, r) /\ SameCounts(k, r)
      /\ r.obj = k.obj /\ r.call = k.call /\ r.mtxlist = k.mtxlist
  BY <1>1 DEF SameWaits, SameLocks, SameRun, SameReady, SameCounts, IsFun, IsRec, Fields
<1> HIDE DEF r
<1>3. TasksTyped(r) /\ WaitsTyped(r)
  BY <1>1, <1>2 DEF TasksTyped, WaitsTyped, SameWaits, SameCounts, States
<1>4. LocksTyped(r) /\ RunTyped(r) /\ ObjectsTyped(r)
  BY <1>1, <1>2 DEF LocksTyped, RunTyped, ObjectsTyped, SameLocks, SameRun, SameReady
<1>5. \A u \in Task : u # t => r.timed[u] = k.timed[u]
  BY <1>1, <1>2 DEF WaitsTyped
<1> QED
  BY <1>2, <1>3, <1>4, <1>5 DEF Typed, Stopped, r

(* Only a queue of an object changes. *)
Lined(k, r, o, queue, field) ==
  /\ Typed(r) /\ SameTasks(k, r) /\ SameWaits(k, r) /\ SameLocks(k, r) /\ SameRun(k, r) /\ SameReady(k, r)
  /\ SameCounts(k, r) /\ r.call = k.call /\ r.mtxlist = k.mtxlist /\ r.timed = k.timed
  /\ SameObjects(k, r)
  /\ \A x \in Object :
       /\ r.obj[x].wait_queue = IF x = o /\ field = "wait_queue" THEN queue ELSE k.obj[x].wait_queue
       /\ k.obj[x].kind = "mbf" =>
            r.obj[x].recv_queue = IF x = o /\ field = "recv_queue" THEN queue ELSE k.obj[x].recv_queue

LEMMA LinedIs ==
  ASSUME NEW k, Typed(k), NEW o \in Object, NEW queue, queue \in Seq(Task), NEW field,
         field = "wait_queue" \/ (field = "recv_queue" /\ k.obj[o].kind = "mbf")
  PROVE  Lined(k, [k EXCEPT !.obj[o][field] = queue], o, queue, field)
<1> DEFINE b == [k.obj[o] EXCEPT ![field] = queue]
           r == [k EXCEPT !.obj[o] = b]
<1>1. IsFun(k, Fields) /\ TasksTyped(k) /\ WaitsTyped(k) /\ LocksTyped(k) /\ RunTyped(k) /\ ObjectsTyped(k)
  BY DEF Typed
<1>2. ObjTyped(k.obj[o])
  BY <1>1 DEF ObjectsTyped
<1>3. /\ ObjTyped(b) /\ SameObject(k.obj[o], b)
      /\ b.wait_queue = IF field = "wait_queue" THEN queue ELSE k.obj[o].wait_queue
      /\ k.obj[o].kind = "mbf" => b.recv_queue = IF field = "recv_queue" THEN queue ELSE k.obj[o].recv_queue
  <2>1. RingGood(b)
    BY <1>2, RingKept DEF ObjTyped, IsRec, Ring
  <2>2. SameStock(k.obj[o], b)
    BY <1>2 DEF ObjTyped, IsRec, SameStock, BlocksGood, Blocks
  <2>3. BlocksGood(b)
    BY <1>2, <2>2, BlocksKept DEF ObjTyped, IsRec
  <2> QED
    BY <1>2, <2>1, <2>2, <2>3 DEF ObjTyped, IsRec, SameObject, Used, Kinds
<1> HIDE DEF b
<1>4. /\ IsFun(r, Fields) /\ SameTasks(k, r) /\ SameWaits(k, r) /\ SameLocks(k, r) /\ SameRun(k, r)
      /\ SameReady(k, r) /\ SameCounts(k, r) /\ r.call = k.call /\ r.mtxlist = k.mtxlist
      /\ r.timed = k.timed /\ r.obj = [k.obj EXCEPT ![o] = b]
  BY <1>1 DEF SameTasks, SameWaits, SameLocks, SameRun, SameReady, SameCounts, IsFun, IsRec, Fields
<1>5. [k EXCEPT !.obj[o][field] = queue] = r
  BY DEF b
<1> HIDE DEF r
<1>6. TasksTyped(r) /\ WaitsTyped(r) /\ LocksTyped(r) /\ RunTyped(r)
  BY <1>1, <1>4 DEF SameTasks, SameWaits, SameLocks, SameRun, SameReady, SameCounts,
                    TasksTyped, WaitsTyped, LocksTyped, RunTyped
<1>7. /\ IsFun(r.obj, Object) /\ \A x \in Object : r.obj[x] = IF x = o THEN b ELSE k.obj[x]
  BY <1>1, <1>4 DEF ObjectsTyped, IsFun, IsRec
<1>8. ObjectsTyped(r) /\ SameObjects(k, r)
  BY <1>1, <1>3, <1>7 DEF ObjectsTyped, SameObjects, SameObject, SameStock
<1>9. \A x \in Object :
       /\ r.obj[x].wait_queue = IF x = o /\ field = "wait_queue" THEN queue ELSE k.obj[x].wait_queue
       /\ k.obj[x].kind = "mbf" =>
            r.obj[x].recv_queue = IF x = o /\ field = "recv_queue" THEN queue ELSE k.obj[x].recv_queue
  BY <1>3, <1>7
<1>10. Lined(k, r, o, queue, field)
  BY <1>4, <1>6, <1>8, <1>9 DEF Typed, Lined
<1> QED
  BY <1>5, <1>10

(* The place of a task in the queue it joins. *)
LEMMA PlaceGood ==
  ASSUME NEW k, NEW X, NEW Z, NEW Y, Good(k, X, Z, Y), NEW o \in Object, NEW t \in X, Used(k.obj[o].kind)
  PROVE  /\ IsLine(Line(k, o, t), Waiters(k, X, o) \cup {t})
         /\ "TPRI" \in k.obj[o].atr => Ordered(k.priority, Line(k, o, t))
         /\ Line(k, o, t) \in Seq(Task)
<1> DEFINE S == Waiters(k, X, o)
           queue == k.obj[o].wait_queue
<1>1. /\ k.priority \in [Task -> Pri] /\ IsLine(queue, S) /\ S \subseteq Task /\ t \in Task /\ t \notin S
      /\ "TPRI" \in k.obj[o].atr => Ordered(k.priority, queue)
  BY DEF Good, Core, Typed, TasksTyped, WaitGood, LinesGood, Waiters
<1> DEFINE q == Line(k, o, t)
<1>2. q = IF "TPRI" \in k.obj[o].atr THEN ByPriority(k, queue, t) ELSE Append(queue, t)
  BY DEF Line
<1> HIDE DEF S, queue, q
<1>3. IsLine(q, S \cup {t}) /\ ("TPRI" \in k.obj[o].atr => Ordered(k.priority, q))
  <2>1. IsLine(Append(queue, t), S \cup {t})
    BY <1>1, AppendLine
  <2>2. IsLine(ByPriority(k, queue, t), S \cup {t})
        /\ (Ordered(k.priority, queue) => Ordered(k.priority, ByPriority(k, queue, t)))
    BY <1>1, ByPriorityLine
  <2> QED
    BY <1>1, <1>2, <2>1, <2>2
<1>4. S \cup {t} \subseteq Task
  BY <1>1
<1>5. q \in Seq(Task)
  BY <1>3, <1>4 DEF IsLine
<1> QED
  BY <1>3, <1>5 DEF S, q

LEMMA StoppedGood ==
  ASSUME NEW k, NEW X, NEW Z, NEW Y, Good(k, X, Z, Y), NEW t \in X \ Z, MayBlock(k, t), k.wid[t] = NULL,
         NEW r, Stopped(k, r, t)
  PROVE  Good(r, X \ {t}, Z, Y)
<1>1. Typed(k) /\ NULL \notin Object /\ t \in Task
  BY KernelTaskAssumption DEF Good, Core
<1>2. waiting(r, t) /\ \A u \in Task : u # t => r.state[u] = k.state[u]
  BY <1>1 DEF Stopped, Typed, TasksTyped, waiting
<1>3. Blocked(k, r, X, t)
  BY <1>1, <1>2 DEF Stopped, Blocked, SameObjects, SameObject, SameStock
<1> QED
  BY <1>3, BlockGood

LEMMA LinedUpGood ==
  ASSUME NEW k, NEW X, NEW Z, NEW Y, Good(k, X, Z, Y), NEW t \in X \ Z, MayBlock(k, t),
         NEW o \in Object, k.wid[t] = o, k.wspec[t] # "rmbf",
         NEW w, Stopped(k, w, t), NEW r, Lined(w, r, o, Line(w, o, t), "wait_queue")
  PROVE  Good(r, X \ {t}, Z, Y)
<1>1. Typed(k) /\ NULL \notin Object /\ t \in Task
  BY KernelTaskAssumption DEF Good, Core
<1>2. waiting(w, t) /\ \A u \in Task : u # t => w.state[u] = k.state[u]
  BY <1>1 DEF Stopped, Typed, TasksTyped, waiting
<1>3. Used(k.obj[o].kind)
  BY <1>1 DEF MayBlock, WaitsFor, Suits, InQueue, Used
<1> DEFINE q == Line(k, o, t)
<1>4. Line(w, o, t) = q
  BY DEF Line, ByPriority, Stopped
<1>5. IsLine(q, Waiters(k, X, o) \cup {t}) /\ ("TPRI" \in k.obj[o].atr => Ordered(k.priority, q))
  BY <1>3, PlaceGood
<1> HIDE DEF q
<1>6. waiting(r, t) /\ \A u \in Task : u # t => r.state[u] = k.state[u] /\ r.timed[u] = k.timed[u]
  BY <1>2 DEF Stopped, Lined, SameTasks, waiting
<1>7. /\ Typed(r) /\ r.priority = k.priority /\ SameWaits(k, r) /\ SameLocks(k, r) /\ SameRun(k, r)
      /\ SameReady(k, r) /\ SameObjects(k, r) /\ r.call = k.call /\ r.mtxlist = k.mtxlist
  BY DEF Stopped, Lined, SameTasks, SameWaits, SameLocks, SameRun, SameReady, SameObjects
<1>8. ASSUME NEW x \in Object
      PROVE  /\ IF x = k.wid[t] /\ k.wspec[t] # "rmbf"
                THEN /\ IsLine(r.obj[x].wait_queue, Waiters(k, X, x) \cup {t})
                     /\ Used(k.obj[x].kind) /\ "TPRI" \in k.obj[x].atr => Ordered(k.priority, r.obj[x].wait_queue)
                ELSE r.obj[x].wait_queue = k.obj[x].wait_queue
             /\ k.obj[x].kind = "mbf" => r.obj[x].recv_queue = k.obj[x].recv_queue
  BY <1>4, <1>5 DEF Lined, Stopped
<1>9. Blocked(k, r, X, t)
  BY <1>6, <1>7, <1>8 DEF Blocked
<1> QED
  BY <1>9, BlockGood

LEMMA ReceiveGood ==
  ASSUME NEW k, NEW X, NEW Z, NEW Y, Good(k, X, Z, Y), NEW t \in X \ Z, MayBlock(k, t),
         NEW o \in Object, k.wid[t] = o, k.wspec[t] = "rmbf",
         NEW w, Stopped(k, w, t), NEW r, Lined(w, r, o, Append(w.obj[o].recv_queue, t), "recv_queue")
  PROVE  Good(r, X \ {t}, Z, Y)
<1>1. Typed(k) /\ NULL \notin Object /\ t \in Task /\ k.obj[o].kind = "mbf"
  BY KernelTaskAssumption DEF Good, Core, MayBlock, WaitsFor, Suits, InQueue
<1>2. waiting(w, t) /\ \A u \in Task : u # t => w.state[u] = k.state[u]
  BY <1>1 DEF Stopped, Typed, TasksTyped, waiting
<1> DEFINE S == Receivers(k, X, o)
<1>3. IsLine(k.obj[o].recv_queue, S) /\ t \notin S
  BY <1>1 DEF Good, Core, WaitGood, LinesGood, Receivers
<1>4. IsLine(Append(k.obj[o].recv_queue, t), S \cup {t})
  <2> HIDE DEF S
  <2> QED
    BY <1>3, AppendLine
<1>5. waiting(r, t) /\ \A u \in Task : u # t => r.state[u] = k.state[u] /\ r.timed[u] = k.timed[u]
  BY <1>2 DEF Stopped, Lined, SameTasks, waiting
<1>6. /\ Typed(r) /\ r.priority = k.priority /\ SameWaits(k, r) /\ SameLocks(k, r) /\ SameRun(k, r)
      /\ SameReady(k, r) /\ SameObjects(k, r) /\ r.call = k.call /\ r.mtxlist = k.mtxlist
  BY DEF Stopped, Lined, SameTasks, SameWaits, SameLocks, SameRun, SameReady, SameObjects
<1>7. ASSUME NEW x \in Object
      PROVE  /\ r.obj[x].wait_queue = k.obj[x].wait_queue
             /\ k.obj[x].kind = "mbf" =>
                  IF x = k.wid[t] /\ k.wspec[t] = "rmbf"
                  THEN IsLine(r.obj[x].recv_queue, Receivers(k, X, x) \cup {t})
                  ELSE r.obj[x].recv_queue = k.obj[x].recv_queue
  <2>1. w.obj = k.obj
    BY DEF Stopped
  <2>2. r.obj[x].wait_queue = k.obj[x].wait_queue
    BY <2>1 DEF Lined
  <2>3. ASSUME k.obj[x].kind = "mbf"
        PROVE  r.obj[x].recv_queue = IF x = o THEN Append(k.obj[o].recv_queue, t) ELSE k.obj[x].recv_queue
    BY <2>1, <2>3 DEF Lined
  <2> QED
    BY <1>4, <2>2, <2>3
<1>8. Blocked(k, r, X, t)
  BY <1>5, <1>6, <1>7 DEF Blocked
<1> QED
  BY <1>8, BlockGood

-----------------------------------------------------------------------------
(* What tasks that do not wait have waited for does not matter. *)
LEMMA ForgetGood ==
  ASSUME NEW k, NEW X, NEW Z, NEW Y, Good(k, X, Z, Y), NEW r, Typed(r),
         SameTasks(k, r), SameLocks(k, r), SameReady(k, r), r.obj = k.obj, r.call = k.call,
         r.mtxlist = k.mtxlist, r.timed = k.timed,
         \A u \in Task : u \notin X /\ waiting(k, u) =>
           r.wspec[u] = k.wspec[u] /\ r.wid[u] = k.wid[u] /\ r.winfo[u] = k.winfo[u]
  PROVE  Good(r, X, Z, Y)
<1>1. /\ X \in SUBSET Task /\ Z \in SUBSET X
      /\ Typed(k) /\ ReadyGood(k, X) /\ LockerGood(k) /\ WaitGood(k, X) /\ TopGood(k)
      /\ MutexGood(k, X, Z, Y) /\ CallsGood(k) /\ LockGood(k)
  BY DEF Good, Core
<1>2. \A u \in Task : (waiting(r, u) <=> waiting(k, u)) /\ (alive(r, u) <=> alive(k, u))
  BY DEF SameTasks, waiting, alive
<1>3. \A x \in Object : SameQueues(k.obj[x], r.obj[x]) /\ SameObject(k.obj[x], r.obj[x])
  BY DEF SameQueues, SameObject, SameStock
<1>4. ReadyGood(r, X) /\ LockerGood(r) /\ TopGood(r)
  BY <1>1 DEF ReadyGood, ReadySet, LockerGood, TopGood, Locker, SameTasks, SameLocks, SameReady
<1>5. WaitGood(r, X)
  BY <1>1, <1>2, <1>3, WaitKept DEF SameTasks
<1>6. MutexGood(r, X, Z, Y)
  BY <1>1, <1>2, <1>3, MutexKept DEF Typed
<1>7. CallsGood(r)
  BY <1>1, CallsKept DEF SameTasks, SameLocks, SameStock
<1>8. LockGood(r)
  BY <1>1, LockKept DEF SameTasks, SameLocks
<1> QED
  BY <1>1, <1>4, <1>5, <1>6, <1>7, <1>8 DEF Good, Core

LEMMA WaitsIs ==
  ASSUME NEW k, Typed(k), NEW t \in Task, t = k.ctxtsk, NEW wspec, NEW wid, NEW winfo
  PROVE  LET r == Waits(k, wspec, wid, winfo)
         IN  /\ Typed(r) /\ SameTasks(k, r) /\ SameLocks(k, r) /\ SameReady(k, r) /\ SameRun(k, r)
             /\ SameCounts(k, r) /\ r.obj = k.obj /\ r.call = k.call
             /\ r.mtxlist = k.mtxlist /\ r.timed = k.timed
             /\ \A u \in Task : r.wspec[u] = (IF u = t THEN wspec ELSE k.wspec[u])
                                /\ r.wid[u] = (IF u = t THEN wid ELSE k.wid[u])
                                /\ r.winfo[u] = (IF u = t THEN winfo ELSE k.winfo[u])
<1> DEFINE r == Waits(k, wspec, wid, winfo)
<1>1. IsFun(k, Fields) /\ TasksTyped(k) /\ WaitsTyped(k) /\ LocksTyped(k) /\ RunTyped(k) /\ ObjectsTyped(k)
  BY DEF Typed
<1>2. /\ IsFun(r, Fields) /\ SameTasks(k, r) /\ SameLocks(k, r) /\ SameReady(k, r) /\ SameRun(k, r)
      /\ SameCounts(k, r) /\ r.obj = k.obj /\ r.call = k.call
      /\ r.mtxlist = k.mtxlist /\ r.timed = k.timed
      /\ r.wspec = [k.wspec EXCEPT ![t] = wspec] /\ r.wid = [k.wid EXCEPT ![t] = wid]
      /\ r.winfo = [k.winfo EXCEPT ![t] = winfo]
  BY <1>1 DEF Waits, SameTasks, SameLocks, SameRun, SameReady, SameCounts, IsFun, IsRec, Fields
<1> HIDE DEF r
<1>3. TasksTyped(r) /\ LocksTyped(r) /\ RunTyped(r) /\ ObjectsTyped(r)
  BY <1>1, <1>2 DEF SameTasks, SameLocks, SameRun, SameReady, SameCounts,
                    TasksTyped, LocksTyped, RunTyped, ObjectsTyped
<1>4. WaitsTyped(r) /\ \A u \in Task : r.wspec[u] = (IF u = t THEN wspec ELSE k.wspec[u])
                                       /\ r.wid[u] = (IF u = t THEN wid ELSE k.wid[u])
                                       /\ r.winfo[u] = (IF u = t THEN winfo ELSE k.winfo[u])
  BY <1>1, <1>2 DEF WaitsTyped, IsFun, IsRec
<1> QED
  BY <1>2, <1>3, <1>4 DEF Typed, r

(* The running task may wait for o, or for a time if there is no o. *)
MayWaitFor(k, t, wspec, o) ==
  /\ k.ctxtsk = t /\ k.state[t] = "ready" /\ (k.call[t] # NULL => k.call[t].at = "wait")
  /\ (wspec \in { "slp", "dly" } /\ o = NULL) \/ (o \in Object /\ Suits(k.obj[o].kind, wspec))
  /\ wspec = "mtx" => k.obj[o].mtxtsk # NULL /\ \A m \in Range(k.mtxlist[t]) : Rank[m] < Rank[o]

Waited(k, r, t) ==
  /\ \A u \in Task : u # t => r.state[u] = k.state[u]
  /\ SameRun(k, r) /\ r.call = k.call /\ r.locked = k.locked /\ r.mtxlist = k.mtxlist /\ SameObjects(k, r)
  /\ \A u \in Task : r.klock[u] = IF u = t /\ k.klock[t] = "klockwait" THEN "none" ELSE k.klock[u]

(* It has left the ready queue. *)
LEMMA AboutToWait ==
  ASSUME NEW k, NEW X, NEW Z, NEW Y, Good(k, X, Z, Y), NEW t \in Task \ X, NEW wspec, NEW o, NEW winfo,
         NEW tmout, MayWaitFor(k, t, wspec, o), Wanted(wspec, winfo)
  PROVE  LET q == knl_make_non_ready(Waits(k, wspec, o, winfo), t)
             w == knl_make_wait(Waits(k, wspec, o, winfo), tmout)
         IN  /\ Good(q, X \cup {t}, Z, Y) /\ MayBlock(q, t) /\ q.wspec[t] = wspec /\ q.wid[t] = o
             /\ Stopped(q, w, t) /\ Waited(k, w, t)
             /\ \A x \in Object : w.obj[x] = k.obj[x]
<1> DEFINE k1 == Waits(k, wspec, o, winfo)
           q == knl_make_non_ready(k1, t)
           w == knl_make_wait(k1, tmout)
<1>1. Typed(k) /\ X \in SUBSET Task /\ k.ctxtsk = t /\ k.state[t] = "ready"
  BY DEF Good, Core, MayWaitFor
<1>2. /\ Typed(k1) /\ SameTasks(k, k1) /\ SameLocks(k, k1) /\ SameReady(k, k1) /\ SameRun(k, k1)
      /\ k1.obj = k.obj /\ k1.call = k.call /\ k1.mtxlist = k.mtxlist /\ k1.timed = k.timed
      /\ \A u \in Task : k1.wspec[u] = (IF u = t THEN wspec ELSE k.wspec[u])
                         /\ k1.wid[u] = (IF u = t THEN o ELSE k.wid[u])
                         /\ k1.winfo[u] = (IF u = t THEN winfo ELSE k.winfo[u])
  BY <1>1, WaitsIs
<1>3. w = [q EXCEPT !.state[t] = "wait", !.timed[t] = tmout = "finite"]
  BY <1>1, <1>2 DEF knl_make_wait, SameRun
<1> HIDE DEF k1
<1>4. Good(k1, X, Z, Y)
  <2>1. \A u \in Task : u \notin X /\ waiting(k, u) =>
          k1.wspec[u] = k.wspec[u] /\ k1.wid[u] = k.wid[u] /\ k1.winfo[u] = k.winfo[u]
    BY <1>1, <1>2 DEF waiting
  <2> QED
    BY <1>2, <2>1, ForgetGood
<1>5. k1.state[t] = "ready"
  BY <1>1, <1>2 DEF SameTasks
<1>6. Good(q, X \cup {t}, Z, Y) /\ Left(k1, q, t)
  BY <1>4, <1>5, MakeNonReadyGood
<1> HIDE DEF q, w
<1>7. Typed(q)
  BY <1>6 DEF Good, Core
<1>8. Stopped(q, w, t)
  <2>1. (tmout = "finite") \in BOOLEAN
    OBVIOUS
  <2> QED
    BY <1>3, <1>7, <2>1, StopIs
<1>9. MayBlock(q, t) /\ q.wspec[t] = wspec /\ q.wid[t] = o
  BY <1>1, <1>2, <1>6 DEF MayBlock, MayWaitFor, Left, SameTasks, SameWaits, SameLocks, WaitsFor, alive
<1>10. Waited(k, w, t)
  <2>1. q.state = k.state /\ SameRun(k, q) /\ q.call = k.call /\ q.locked = k.locked
        /\ q.mtxlist = k.mtxlist /\ q.obj = k.obj
        /\ \A u \in Task : q.klock[u] = IF u = t /\ k.klock[t] = "klockwait" THEN "none" ELSE k.klock[u]
    BY <1>2, <1>6 DEF Left, SameTasks, SameRun, SameLocks
  <2>2. \A u \in Task : u # t => w.state[u] = q.state[u]
    BY <1>7, <1>8 DEF Stopped, Typed, TasksTyped
  <2> QED
    BY <1>8, <2>1, <2>2 DEF Waited, Stopped, SameRun, SameLocks, SameObjects, SameObject, SameStock
<1>11. \A x \in Object : w.obj[x] = k.obj[x]
  BY <1>2, <1>6, <1>8 DEF Left, Stopped
<1> QED
  BY <1>6, <1>8, <1>9, <1>10, <1>11 DEF q, w, k1

LEMMA SleepGood ==
  ASSUME NEW k, NEW X, NEW Z, NEW Y, Good(k, X, Z, Y), NEW t \in Task \ X, NEW wspec, NEW winfo,
         NEW tmout, MayWaitFor(k, t, wspec, NULL)
  PROVE  LET w == knl_make_wait(Waits(k, wspec, NULL, winfo), tmout)
         IN  Good(w, X, Z, Y) /\ Waited(k, w, t)
<1> DEFINE q == knl_make_non_ready(Waits(k, wspec, NULL, winfo), t)
           w == knl_make_wait(Waits(k, wspec, NULL, winfo), tmout)
           W == X \cup {t}
<1>1. Wanted(wspec, winfo)
  BY KernelTaskAssumption DEF MayWaitFor, Suits, InQueue, Wanted
<1>2. /\ Good(q, W, Z, Y) /\ MayBlock(q, t) /\ q.wid[t] = NULL
      /\ Stopped(q, w, t) /\ Waited(k, w, t)
  BY <1>1, AboutToWait
<1>3. t \in W \ Z /\ W \ {t} = X
  BY DEF Good, Core
<1> HIDE DEF q, w, W
<1>4. Good(w, W \ {t}, Z, Y)
  BY <1>2, <1>3, StoppedGood
<1> QED
  BY <1>2, <1>3, <1>4 DEF w

LEMMA QueueUpGood ==
  ASSUME NEW k, NEW X, NEW Z, NEW Y, Good(k, X, Z, Y), NEW t \in Task \ X, NEW wspec, NEW o \in Object, NEW winfo,
         NEW tmout, MayWaitFor(k, t, wspec, o), Wanted(wspec, winfo), wspec # "rmbf"
  PROVE  LET w == knl_make_wait(Waits(k, wspec, o, winfo), tmout)
             r == [w EXCEPT !.obj[o].wait_queue = Line(w, o, t)]
         IN  Good(r, X, Z, Y) /\ Waited(k, r, t)
<1> DEFINE q == knl_make_non_ready(Waits(k, wspec, o, winfo), t)
           w == knl_make_wait(Waits(k, wspec, o, winfo), tmout)
           W == X \cup {t}
           f == "wait_queue"
           r == [w EXCEPT !.obj[o][f] = Line(w, o, t)]
<1>1. /\ Good(q, W, Z, Y) /\ MayBlock(q, t) /\ q.wid[t] = o /\ q.wspec[t] = wspec
      /\ Stopped(q, w, t) /\ Waited(k, w, t)
  BY AboutToWait
<1>2. t \in W \ Z /\ W \ {t} = X /\ NULL \notin Object
  BY KernelTaskAssumption DEF Good, Core
<1> HIDE DEF q, w, W
<1>3. Typed(w) /\ Line(w, o, t) \in Seq(Task)
  <2>1. Used(q.obj[o].kind)
    BY <1>1, <1>2 DEF MayBlock, WaitsFor, Suits, InQueue, Used
  <2>2. t \in W
    BY <1>2
  <2>3. Line(q, o, t) \in Seq(Task)
    BY <1>1, <2>1, <2>2, PlaceGood
  <2>4. Line(w, o, t) = Line(q, o, t)
    BY <1>1 DEF Line, ByPriority, Stopped
  <2> QED
    BY <1>1, <2>3, <2>4 DEF Stopped
<1> HIDE DEF f
<1>4. Lined(w, r, o, Line(w, o, t), f)
  BY <1>3, LinedIs DEF f
<1> HIDE DEF r
<1>5. Good(r, W \ {t}, Z, Y)
  BY <1>1, <1>2, <1>4, LinedUpGood DEF f
<1>6. Waited(k, r, t)
  BY <1>1, <1>4 DEF Waited, Lined, SameTasks, SameRun, SameLocks, SameObjects, SameObject, SameStock
<1> QED
  BY <1>2, <1>5, <1>6 DEF r, f, w

LEMMA ReceiveUpGood ==
  ASSUME NEW k, NEW X, NEW Z, NEW Y, Good(k, X, Z, Y), NEW t \in Task \ X, NEW o \in Object, NEW winfo,
         NEW tmout, MayWaitFor(k, t, "rmbf", o)
  PROVE  LET w == knl_make_wait(Waits(k, "rmbf", o, winfo), tmout)
             r == [w EXCEPT !.obj[o].recv_queue = Append(@, t)]
         IN  Good(r, X, Z, Y)
<1> DEFINE q == knl_make_non_ready(Waits(k, "rmbf", o, winfo), t)
           w == knl_make_wait(Waits(k, "rmbf", o, winfo), tmout)
           W == X \cup {t}
           f == "recv_queue"
           s == Append(w.obj[o].recv_queue, t)
           r == [w EXCEPT !.obj[o][f] = s]
<1>1. Wanted("rmbf", winfo)
  BY DEF Wanted
<1>2. /\ Good(q, W, Z, Y) /\ MayBlock(q, t) /\ q.wid[t] = o /\ q.wspec[t] = "rmbf"
      /\ Stopped(q, w, t)
  BY <1>1, AboutToWait
<1>3. t \in W \ Z /\ W \ {t} = X /\ NULL \notin Object
  BY KernelTaskAssumption DEF Good, Core
<1> HIDE DEF q, w, W
<1>4. Typed(w) /\ w.obj[o].kind = "mbf" /\ s \in Seq(Task)
  <2>1. Typed(w) /\ w.obj = q.obj
    BY <1>2 DEF Stopped
  <2>2. w.obj[o].kind = "mbf"
    BY <1>2, <1>3, <2>1 DEF MayBlock, WaitsFor, Suits, InQueue
  <2>3. w.obj[o].recv_queue \in Seq(Task)
    BY <2>1, <2>2 DEF Typed, ObjectsTyped, ObjTyped
  <2> QED
    BY <2>1, <2>2, <2>3
<1> HIDE DEF f
<1>5. Lined(w, r, o, s, f)
  <2> HIDE DEF s
  <2> QED
    BY <1>4, LinedIs DEF f
<1> HIDE DEF r
<1>6. Good(r, W \ {t}, Z, Y)
  BY <1>2, <1>3, <1>5, ReceiveGood DEF f
<1> QED
  BY <1>3, <1>6 DEF r, f, w

-----------------------------------------------------------------------------
(***************************************************************************)
(* Counts, and the suspension of tasks.                                    *)
(***************************************************************************)
(* Whether a task that waits is suspended does not matter. *)
LEMMA StateGood ==
  ASSUME NEW k, NEW X, NEW Z, NEW Y, Good(k, X, Z, Y), NEW r, Typed(r),
         \A u \in Task : r.state[u] = k.state[u] \/ (waiting(k, u) /\ waiting(r, u)),
         r.priority = k.priority, SameWaits(k, r), SameLocks(k, r), SameReady(k, r),
         r.obj = k.obj, r.call = k.call, r.mtxlist = k.mtxlist, r.timed = k.timed
  PROVE  Good(r, X, Z, Y)
<1>1. /\ X \in SUBSET Task /\ Z \in SUBSET X
      /\ Typed(k) /\ ReadyGood(k, X) /\ LockerGood(k) /\ WaitGood(k, X) /\ TopGood(k)
      /\ MutexGood(k, X, Z, Y) /\ CallsGood(k) /\ LockGood(k)
  BY DEF Good, Core
<1>2. \A u \in Task : /\ waiting(r, u) <=> waiting(k, u)
                      /\ alive(r, u) <=> alive(k, u)
                      /\ r.state[u] = "ready" <=> k.state[u] = "ready"
  BY DEF waiting, alive
<1>3. \A x \in Object : SameQueues(k.obj[x], r.obj[x]) /\ SameObject(k.obj[x], r.obj[x])
  BY DEF SameQueues, SameObject, SameStock
<1>4. ReadyGood(r, X)
  BY <1>1, <1>2, ReadyKept DEF SameLocks, SameReady
<1>5. LockerGood(r) /\ TopGood(r)
  BY <1>1 DEF LockerGood, TopGood, Locker, SameLocks, SameReady
<1>6. WaitGood(r, X)
  BY <1>1, <1>2, <1>3, WaitKept DEF SameWaits
<1>7. MutexGood(r, X, Z, Y)
  BY <1>1, <1>2, <1>3, MutexKept DEF Typed, SameWaits
<1>8. CallsGood(r)
  <2>1. \A u \in Task : k.call[u] # NULL =>
           r.state[u] = k.state[u] \/ (k.call[u].at = "wait" /\ alive(r, u))
    BY <1>1, <1>2 DEF CallsGood, CallGood, waiting, alive
  <2> QED
    BY <1>1, <2>1, CallsKept DEF SameLocks, SameStock
<1>9. LockGood(r)
  <2>1. \A u \in Task : k.klock[u] = "klockwait" => r.state[u] = "ready"
    BY <1>1, <1>2 DEF LockGood
  <2> QED
    BY <1>1, <2>1, LocksKept DEF SameLocks
<1> QED
  BY <1>1, <1>4, <1>5, <1>6, <1>7, <1>8, <1>9 DEF Good, Core

(* All is the same but counts and the base priorities. *)
Counted(k, r) ==
  /\ Typed(r) /\ r.state = k.state /\ r.priority = k.priority
  /\ SameWaits(k, r) /\ SameLocks(k, r) /\ SameReady(k, r)
  /\ SameRun(k, r) /\ r.obj = k.obj /\ r.call = k.call /\ r.mtxlist = k.mtxlist /\ r.timed = k.timed

LEMMA CountedGood ==
  ASSUME NEW k, NEW X, NEW Z, NEW Y, Good(k, X, Z, Y), NEW r, Counted(k, r)
  PROVE  Good(r, X, Z, Y) /\ Calm(k, r)
<1>1. Alike(k, r) /\ r.schedtsk = k.schedtsk /\ Typed(r)
  BY DEF Counted, Alike, SameWaits, SameLocks, SameReady
<1>2. Calm(k, r)
  BY DEF Counted, Calm, SameWaits, SameLocks, SameReady, SameRun, waiting, alive
<1> QED
  BY <1>1, <1>2, AlikeGood

LEMMA CountIs ==
  ASSUME NEW k, Typed(k), NEW t \in Task, NEW f, f \in { "suscnt", "wupcnt" }, NEW v
  PROVE  Counted(k, [k EXCEPT ![f][t] = v])
<1> DEFINE r == [k EXCEPT ![f][t] = v]
<1>1. IsFun(k, Fields) /\ TasksTyped(k) /\ WaitsTyped(k) /\ LocksTyped(k) /\ RunTyped(k) /\ ObjectsTyped(k)
  BY DEF Typed
<1>2. /\ IsFun(r, Fields) /\ SameTasks(k, r) /\ SameWaits(k, r) /\ SameLocks(k, r) /\ SameReady(k, r)
      /\ SameRun(k, r) /\ r.obj = k.obj /\ r.call = k.call /\ r.mtxlist = k.mtxlist /\ r.timed = k.timed
      /\ r.suscnt = (IF f = "suscnt" THEN [k.suscnt EXCEPT ![t] = v] ELSE k.suscnt)
      /\ r.wupcnt = (IF f = "wupcnt" THEN [k.wupcnt EXCEPT ![t] = v] ELSE k.wupcnt)
  BY <1>1 DEF SameTasks, SameWaits, SameLocks, SameReady, SameRun, IsFun, IsRec, Fields
<1> HIDE DEF r
<1>3. TasksTyped(r)
  BY <1>1, <1>2 DEF TasksTyped, SameTasks, IsFun, IsRec
<1>4. WaitsTyped(r) /\ LocksTyped(r) /\ RunTyped(r) /\ ObjectsTyped(r)
  BY <1>1, <1>2 DEF SameWaits, SameLocks, SameReady, SameRun, WaitsTyped, LocksTyped, RunTyped, ObjectsTyped
<1>5. Counted(k, r)
  BY <1>1, <1>2, <1>3, <1>4 DEF Counted, Typed, SameTasks
<1> QED
  BY <1>5 DEF r

LEMMA BaseIs ==
  ASSUME NEW k, Typed(k), NEW t \in Task, NEW f, f \in { "bpriority", "ipriority" }, NEW v \in Pri
  PROVE  Counted(k, [k EXCEPT ![f][t] = v])
<1> DEFINE r == [k EXCEPT ![f][t] = v]
<1>1. IsFun(k, Fields) /\ TasksTyped(k) /\ WaitsTyped(k) /\ LocksTyped(k) /\ RunTyped(k) /\ ObjectsTyped(k)
  BY DEF Typed
<1>2. /\ IsFun(r, Fields) /\ r.state = k.state /\ r.priority = k.priority
      /\ SameWaits(k, r) /\ SameLocks(k, r) /\ SameReady(k, r) /\ SameCounts(k, r)
      /\ SameRun(k, r) /\ r.obj = k.obj /\ r.call = k.call /\ r.mtxlist = k.mtxlist /\ r.timed = k.timed
      /\ r.bpriority = (IF f = "bpriority" THEN [k.bpriority EXCEPT ![t] = v] ELSE k.bpriority)
      /\ r.ipriority = (IF f = "ipriority" THEN [k.ipriority EXCEPT ![t] = v] ELSE k.ipriority)
  BY <1>1 DEF SameCounts, SameWaits, SameLocks, SameReady, SameRun, IsFun, IsRec, Fields
<1> HIDE DEF r
<1>3. TasksTyped(r)
  BY <1>1, <1>2 DEF TasksTyped, SameCounts
<1>4. WaitsTyped(r) /\ LocksTyped(r) /\ RunTyped(r) /\ ObjectsTyped(r)
  BY <1>1, <1>2 DEF SameWaits, SameLocks, SameReady, SameRun, WaitsTyped, LocksTyped, RunTyped, ObjectsTyped
<1>5. Counted(k, r)
  BY <1>1, <1>2, <1>3, <1>4 DEF Counted, Typed
<1> QED
  BY <1>5 DEF r

(* With dispatching disabled the running task stays ready, and is in no call. *)
Resting(k) ==
  k.dispatch_disabled => k.ctxtsk \in Task /\ k.ctxtsk \in Range(k.ready) /\ k.call[k.ctxtsk] = NULL
Fine(k) == Good(k, {}, {}, {}) /\ Resting(k)

LEMMA CalmFine ==
  ASSUME NEW k, Resting(k), NEW r, Calm(k, r), Good(r, {}, {}, {})
  PROVE  Fine(r)
  BY DEF Resting, Fine, Calm

LEMMA CountedFine ==
  ASSUME NEW k, Fine(k), NEW r, Counted(k, r)
  PROVE  Fine(r)
<1>1. Good(r, {}, {}, {}) /\ Calm(k, r)
  BY CountedGood DEF Fine
<1> QED
  BY <1>1, CalmFine DEF Fine

LEMMA StateIs ==
  ASSUME NEW k, Typed(k), NEW t \in Task, NEW s \in States
  PROVE  LET r == [k EXCEPT !.state[t] = s]
         IN  /\ Typed(r) /\ \A u \in Task : r.state[u] = IF u = t THEN s ELSE k.state[u]
             /\ r.priority = k.priority /\ SameWaits(k, r) /\ SameLocks(k, r) /\ SameReady(k, r) /\ SameRun(k, r)
             /\ r.obj = k.obj /\ r.call = k.call /\ r.mtxlist = k.mtxlist /\ r.timed = k.timed
<1> DEFINE r == [k EXCEPT !.state[t] = s]
<1>1. IsFun(k, Fields) /\ TasksTyped(k) /\ WaitsTyped(k) /\ LocksTyped(k) /\ RunTyped(k) /\ ObjectsTyped(k)
  BY DEF Typed
<1>2. /\ IsFun(r, Fields) /\ r.state = [k.state EXCEPT ![t] = s]
      /\ r.priority = k.priority /\ r.bpriority = k.bpriority /\ r.ipriority = k.ipriority
      /\ SameWaits(k, r) /\ SameLocks(k, r) /\ SameReady(k, r) /\ SameCounts(k, r)
      /\ SameRun(k, r) /\ r.obj = k.obj /\ r.call = k.call /\ r.mtxlist = k.mtxlist /\ r.timed = k.timed
  BY <1>1 DEF SameCounts, SameWaits, SameLocks, SameReady, SameRun, IsFun, IsRec, Fields
<1> HIDE DEF r
<1>3. TasksTyped(r) /\ \A u \in Task : r.state[u] = IF u = t THEN s ELSE k.state[u]
  BY <1>1, <1>2 DEF TasksTyped, SameCounts
<1>4. WaitsTyped(r) /\ LocksTyped(r) /\ RunTyped(r) /\ ObjectsTyped(r)
  BY <1>1, <1>2 DEF SameWaits, SameLocks, SameReady, SameRun, WaitsTyped, LocksTyped, RunTyped, ObjectsTyped
<1> QED
  BY <1>2, <1>3, <1>4 DEF Typed, r

(* One of the tasks that wait, or is suspended while it waits. *)
LEMMA SuspendedWait ==
  ASSUME NEW k, Fine(k), NEW t \in Task, waiting(k, t), NEW s \in { "wait", "waitsus" }
  PROVE  Fine([k EXCEPT !.state[t] = s])
<1> DEFINE r == [k EXCEPT !.state[t] = s]
<1>1. Typed(k) /\ s \in States
  BY DEF Fine, Good, Core, States
<1>2. /\ Typed(r) /\ \A u \in Task : r.state[u] = IF u = t THEN s ELSE k.state[u]
      /\ r.priority = k.priority /\ SameWaits(k, r) /\ SameLocks(k, r) /\ SameReady(k, r) /\ SameRun(k, r)
      /\ r.obj = k.obj /\ r.call = k.call /\ r.mtxlist = k.mtxlist /\ r.timed = k.timed
  BY <1>1, StateIs
<1> HIDE DEF r
<1>3. \A u \in Task : r.state[u] = k.state[u] \/ (waiting(k, u) /\ waiting(r, u))
  BY <1>2 DEF waiting
<1>4. Good(r, {}, {}, {})
  BY <1>2, <1>3, StateGood DEF Fine
<1>5. Fine(r)
  BY <1>2, <1>4 DEF Fine, Resting, SameReady, SameRun
<1> QED
  BY <1>5 DEF r

LEMMA SuspendFine ==
  ASSUME NEW k, Fine(k), NEW t \in Task
  PROVE  Fine(tk_sus_tsk(k, t))
<1> DEFINE r == tk_sus_tsk(k, t)
           f == "suscnt"
           counted == [k EXCEPT ![f][t] = @ + 1]
<1>1. Typed(k)
  BY DEF Fine, Good, Core
<1>2. Counted(k, counted)
  <2>1. f \in { "suscnt", "wupcnt" }
    OBVIOUS
  <2> HIDE DEF f
  <2> QED
    BY <1>1, <2>1, CountIs
<1>3. CASE ~ alive(k, t) \/ (t = k.ctxtsk /\ k.dispatch_disabled)
  BY <1>3 DEF tk_sus_tsk
<1>4. CASE ~ (~ alive(k, t) \/ (t = k.ctxtsk /\ k.dispatch_disabled))
  <2>1. r = CASE k.state[t] = "ready" ->
                  [knl_make_non_ready(counted, t) EXCEPT !.state[t] = "suspend"]
             [] k.state[t] = "wait" -> [counted EXCEPT !.state[t] = "waitsus"]
             [] OTHER -> counted
    BY <1>4 DEF tk_sus_tsk
  <2> HIDE DEF counted, r
  <2>2. Fine(counted) /\ counted.state = k.state /\ SameRun(k, counted)
    BY <1>2, CountedFine DEF Counted
  <2>3. CASE k.state[t] = "ready"
    <3> DEFINE q == knl_make_non_ready(counted, t)
               s == "suspend"
               z == [q EXCEPT !.state[t] = s]
    <3>1. r = z
      BY <2>1, <2>3
    <3>2. /\ Good(q, {} \cup {t}, {}, {}) /\ Left(counted, q, t)
          /\ \A u \in Task : u # t /\ u \in Range(counted.ready) => u \in Range(q.ready)
      <4>1. t \in Task \ {} /\ counted.state[t] = "ready" /\ Good(counted, {}, {}, {})
        BY <2>2, <2>3 DEF Fine
      <4> QED
        BY <4>1, MakeNonReadyGood
    <3>3. Good(q, {t}, {}, {}) /\ {} \cup {t} = {t}
      BY <3>2
    <3> HIDE DEF q
    <3>4. s \in States /\ Typed(q) /\ LockGood(q)
      BY <3>3 DEF States, Good, Core
    <3>5. /\ Typed(z) /\ \A u \in Task : z.state[u] = IF u = t THEN s ELSE q.state[u]
          /\ z.priority = q.priority /\ SameWaits(q, z) /\ SameLocks(q, z) /\ SameReady(q, z) /\ SameRun(q, z)
          /\ z.obj = q.obj /\ z.call = q.call /\ z.mtxlist = q.mtxlist /\ z.timed = q.timed
      BY <3>4, StateIs
    <3> HIDE DEF z
    <3>6. q.klock[t] # "klockwait"
      BY <3>2 DEF Left
    <3>7. Changed(q, z, t) /\ z.schedtsk = q.schedtsk /\ alive(z, t)
      BY <3>5 DEF Changed, SameWaits, SameLocks, SameReady, alive
    <3>8. Good(z, {}, {}, {})
      <4>1. {} = {t} \ {t} /\ t \notin {} /\ z.state[t] = "suspend"
        BY <3>5
      <4> QED
        BY <3>3, <3>5, <3>6, <3>7, <4>1, OutsideGood
    <3>9. Resting(z)
      BY <1>4, <2>2, <3>2, <3>5 DEF Fine, Resting, Left, SameRun, SameReady
    <3> QED
      BY <3>1, <3>8, <3>9 DEF Fine, r
  <2>4. CASE k.state[t] = "wait"
    <3>1. r = [counted EXCEPT !.state[t] = "waitsus"] /\ waiting(counted, t)
      BY <2>1, <2>2, <2>4 DEF waiting
    <3> DEFINE s == "waitsus"
    <3>2. s \in { "wait", "waitsus" }
      OBVIOUS
    <3> HIDE DEF s
    <3>3. Fine([counted EXCEPT !.state[t] = s])
      BY <2>2, <3>1, <3>2, SuspendedWait
    <3> QED
      BY <3>1, <3>3 DEF s, r
  <2>5. CASE k.state[t] \notin { "ready", "wait" }
    <3>1. r = counted
      BY <2>1, <2>5
    <3> QED
      BY <2>2, <3>1 DEF r
  <2> QED
    BY <2>3, <2>4, <2>5 DEF r
<1> QED
  BY <1>3, <1>4

(* The end of a call: what should run does. *)
LEMMA ReturnedGood ==
  ASSUME NEW r, Fine(r)
  PROVE  Good(Returned(r), {}, {}, {}) /\ RestGood(Returned(r))
<1> DEFINE x == Returned(r)
<1>1. Good(r, {}, {}, {}) /\ Resting(r) /\ Typed(r) /\ TopGood(r)
  BY DEF Fine, Good, Core
<1>2. /\ x.state = r.state /\ x.priority = r.priority /\ x.bpriority = r.bpriority /\ x.ipriority = r.ipriority
      /\ x.suscnt = r.suscnt /\ x.wupcnt = r.wupcnt /\ x.timed = r.timed /\ x.mtxlist = r.mtxlist
      /\ x.klock = r.klock /\ x.call = r.call /\ x.klocktsk = r.klocktsk /\ x.locked = r.locked
      /\ x.wtskq = r.wtskq /\ x.imacb = r.imacb /\ x.ready = r.ready /\ x.schedtsk = r.schedtsk
      /\ x.dispatch_disabled = r.dispatch_disabled /\ x.obj = r.obj
      /\ x.ctxtsk = IF r.dispatch_disabled THEN r.ctxtsk ELSE r.schedtsk
      /\ x.wspec = [t \in Task |-> IF waiting(r, t) THEN r.wspec[t] ELSE "none"]
      /\ x.wid = [t \in Task |-> IF waiting(r, t) THEN r.wid[t] ELSE NULL]
      /\ x.winfo = [t \in Task |-> IF waiting(r, t) THEN r.winfo[t] ELSE NULL]
      /\ IsFun(x, Fields)
  BY <1>1 DEF Returned, Typed, IsFun, IsRec, Fields
<1> HIDE DEF x
<1>3. Typed(x)
  <2>1. TasksTyped(x) /\ LocksTyped(x) /\ ObjectsTyped(x)
    BY <1>1, <1>2 DEF Typed, TasksTyped, LocksTyped, ObjectsTyped
  <2>2. WaitsTyped(x)
    BY <1>1, <1>2 DEF Typed, WaitsTyped, IsFun, IsRec
  <2>3. RunTyped(x)
    BY <1>1, <1>2 DEF Typed, RunTyped
  <2> QED
    BY <1>2, <2>1, <2>2, <2>3 DEF Typed
<1>4. Good(x, {}, {}, {})
  <2>1. SameTasks(r, x) /\ SameLocks(r, x) /\ SameReady(r, x)
    BY <1>2 DEF SameTasks, SameLocks, SameReady
  <2>2. \A u \in Task : u \notin {} /\ waiting(r, u) => x.wspec[u] = r.wspec[u] /\ x.wid[u] = r.wid[u]
    BY <1>2
  <2> QED
    BY <1>1, <1>2, <1>3, <2>1, <2>2, ForgetGood
<1>5. RestGood(x)
  <2>1. CASE r.dispatch_disabled
    <3>1. x.ctxtsk = r.ctxtsk /\ r.ctxtsk \in Range(r.ready) /\ r.call[r.ctxtsk] = NULL /\ r.ctxtsk \in Task
      BY <1>1, <1>2, <2>1 DEF Resting
    <3> QED
      BY <1>2, <3>1, KernelTaskAssumption DEF RestGood
  <2>2. CASE ~ r.dispatch_disabled
    <3>1. r.schedtsk = NULL \/ r.schedtsk \in Range(r.ready)
      <4>1. CASE r.schedtsk = Top(r.ready)
        <5>1. CASE r.ready = << >>
          BY <4>1, <5>1 DEF Top
        <5>2. CASE r.ready # << >>
          <6>1. IsLine(r.ready, ReadySet(r, {}))
            BY <1>1 DEF Good, Core, ReadyGood
          <6>2. Head(r.ready) \in Range(r.ready)
            BY <5>2, <6>1, LineRange
          <6> QED
            BY <4>1, <5>2, <6>2 DEF Top
        <5> QED
          BY <5>1, <5>2
      <4>2. CASE Locker(r, r.schedtsk)
        BY <4>2 DEF Locker
      <4> QED
        BY <1>1, <4>1, <4>2 DEF TopGood
    <3> QED
      BY <1>2, <2>2, <3>1 DEF RestGood
  <2> QED
    BY <2>1, <2>2
<1> QED
  BY <1>4, <1>5 DEF x

(* A task that is in no queue becomes ready. *)
LEMMA MakeReadyFine ==
  ASSUME NEW k, Fine(k), NEW t \in Task, k.state[t] \notin { "ready", "wait", "waitsus" }
  PROVE  Fine(knl_make_ready(k, t))
<1> DEFINE r == knl_make_ready(k, t)
<1>1. Good(k, {}, {}, {}) /\ LockGood(k) /\ Resting(k)
  BY DEF Fine, Good, Core
<1>2. k.klock[t] # "klockwait"
  BY <1>1 DEF LockGood
<1>3. t \in Task \ {} /\ {} \cup {t} = {t} /\ {t} \ {t} = {} /\ t \in {t} \ {}
  OBVIOUS
<1>4. Good(k, {t}, {}, {})
  BY <1>1, <1>3, StepAside
<1>5. /\ Good(r, {}, {}, {}) /\ Joined(k, r, t)
      /\ \A u \in Task : u \in Range(r.ready) <=> u = t \/ u \in Range(k.ready)
  BY <1>2, <1>3, <1>4, MakeReadyGood
<1> HIDE DEF r
<1>6. Resting(r)
  BY <1>1, <1>5 DEF Resting, Joined, SameRun
<1> QED
  BY <1>5, <1>6 DEF Fine, r

LEMMA ResumeFine ==
  ASSUME NEW k, Fine(k), NEW t \in Task, k.state[t] \in { "suspend", "waitsus" }, NEW n
  PROVE  Fine(Resume(k, t, n))
<1> DEFINE r == Resume(k, t, n)
           f == "suscnt"
           counted == [k EXCEPT ![f][t] = n]
<1>1. Typed(k)
  BY DEF Fine, Good, Core
<1>2. Counted(k, counted)
  <2>1. f \in { "suscnt", "wupcnt" }
    OBVIOUS
  <2> HIDE DEF f
  <2> QED
    BY <1>1, <2>1, CountIs
<1>3. r = IF n > 0 THEN counted
          ELSE IF k.state[t] = "suspend" THEN knl_make_ready(counted, t)
          ELSE [counted EXCEPT !.state[t] = "wait"]
  BY DEF Resume
<1> HIDE DEF counted, r
<1>4. Fine(counted) /\ counted.state = k.state
  BY <1>2, CountedFine DEF Counted
<1>5. CASE n > 0
  BY <1>3, <1>4, <1>5 DEF r
<1>6. CASE ~ (n > 0) /\ k.state[t] = "suspend"
  <2>1. Fine(knl_make_ready(counted, t))
    BY <1>4, <1>6, MakeReadyFine
  <2> QED
    BY <1>3, <1>6, <2>1 DEF r
<1>7. CASE ~ (n > 0) /\ k.state[t] = "waitsus"
  <2> DEFINE s == "wait"
  <2>1. s \in { "wait", "waitsus" } /\ waiting(counted, t)
    BY <1>4, <1>7 DEF waiting
  <2>2. r = [counted EXCEPT !.state[t] = s]
    BY <1>3, <1>7
  <2> HIDE DEF s
  <2>3. Fine([counted EXCEPT !.state[t] = s])
    BY <1>4, <2>1, SuspendedWait
  <2> QED
    BY <2>2, <2>3 DEF r
<1> QED
  BY <1>5, <1>6, <1>7

-----------------------------------------------------------------------------
(***************************************************************************)
(* The running task, when it is not in a call on a pool.                   *)
(***************************************************************************)
AtWork(k) ==
  /\ k.ctxtsk \in Task /\ k.state[k.ctxtsk] = "ready" /\ k.ctxtsk \in Range(k.ready)
  /\ k.call[k.ctxtsk] = NULL /\ k.klock[k.ctxtsk] = "none"

LEMMA ReadyState ==
  ASSUME NEW k, NEW X, ReadyGood(k, X), NEW t \in Range(k.ready)
  PROVE  t \in Task /\ t \notin X /\ k.state[t] = "ready" /\ k.klock[t] # "klockwait"
<1>1. Range(k.ready) = ReadySet(k, X)
  BY LineRange DEF ReadyGood
<1> QED
  BY <1>1 DEF ReadySet

LEMMA WorkIs ==
  ASSUME NEW k, Good(k, {}, {}, {}), RestGood(k)
  PROVE  /\ Fine(k)
         /\ k.ctxtsk # NULL /\ k.call[k.ctxtsk] = NULL => AtWork(k)
<1>1. Typed(k) /\ ReadyGood(k, {}) /\ LockGood(k)
  BY DEF Good, Core
<1>2. k.ctxtsk \in Task \cup {NULL}
  BY <1>1 DEF Typed, RunTyped
<1>3. Fine(k)
  BY <1>2 DEF Fine, Resting, RestGood
<1>4. ASSUME k.ctxtsk # NULL, k.call[k.ctxtsk] = NULL
      PROVE  AtWork(k)
  <2>1. k.ctxtsk \in Range(k.ready) /\ k.ctxtsk \in Task
    BY <1>2, <1>4 DEF RestGood
  <2>2. k.state[k.ctxtsk] = "ready"
    BY <1>1, <2>1, ReadyState
  <2>3. k.klock[k.ctxtsk] = "none"
    BY <1>1, <1>4, <2>1 DEF LockGood
  <2> QED
    BY <1>4, <2>1, <2>2, <2>3 DEF AtWork
<1> QED
  BY <1>3, <1>4

(* It sleeps, or for a time. *)
LEMMA TimeFine ==
  ASSUME NEW k, Fine(k), AtWork(k), ~ k.dispatch_disabled, NEW tmout, NEW wspec, wspec \in { "slp", "dly" }
  PROVE  Fine(knl_make_wait(Waits(k, wspec, NULL, NULL), tmout))
<1> DEFINE t == k.ctxtsk
           w == knl_make_wait(Waits(k, wspec, NULL, NULL), tmout)
<1>1. t \in Task \ {} /\ Good(k, {}, {}, {})
  BY DEF AtWork, Fine
<1>2. MayWaitFor(k, t, wspec, NULL)
  BY DEF MayWaitFor, AtWork
<1> HIDE DEF t
<1>3. Good(w, {}, {}, {}) /\ Waited(k, w, t)
  BY <1>1, <1>2, SleepGood
<1> HIDE DEF w
<1>4. Resting(w)
  BY <1>3 DEF Resting, Waited, SameRun
<1> QED
  BY <1>3, <1>4 DEF Fine, w

LEMMA WupIs ==
  ASSUME NEW k, Fine(k), NEW t \in Task, NEW v
  PROVE  Fine([k EXCEPT !.wupcnt[t] = v])
<1> DEFINE f == "wupcnt"
           r == [k EXCEPT ![f][t] = v]
<1>1. Typed(k) /\ f \in { "suscnt", "wupcnt" }
  BY DEF Fine, Good, Core
<1> HIDE DEF f
<1>2. Counted(k, r)
  BY <1>1, CountIs
<1> HIDE DEF r
<1>3. Fine(r)
  BY <1>2, CountedFine
<1> QED
  BY <1>3 DEF r, f

LEMMA SleepFine ==
  ASSUME NEW k, Fine(k), AtWork(k), ~ k.dispatch_disabled, NEW tmout
  PROVE  Fine(tk_slp_tsk(k, tmout))
<1>1. CASE k.wupcnt[k.ctxtsk] > 0
  <2>1. k.ctxtsk \in Task
    BY DEF AtWork
  <2> DEFINE t == k.ctxtsk
             v == k.wupcnt[t] - 1
             r == [k EXCEPT !.wupcnt[t] = v]
  <2>2. tk_slp_tsk(k, tmout) = r
    BY <1>1 DEF tk_slp_tsk
  <2> HIDE DEF v, t
  <2>3. Fine(r)
    BY <2>1, WupIs DEF t
  <2> QED
    BY <2>2, <2>3
<1>2. CASE ~ (k.wupcnt[k.ctxtsk] > 0) /\ tmout = "TMO_POL"
  BY <1>2 DEF tk_slp_tsk
<1>3. CASE ~ (k.wupcnt[k.ctxtsk] > 0) /\ tmout # "TMO_POL"
  <2> DEFINE wspec == "slp"
  <2>1. wspec \in { "slp", "dly" } /\ tk_slp_tsk(k, tmout) = knl_make_wait(Waits(k, wspec, NULL, NULL), tmout)
    BY <1>3 DEF tk_slp_tsk
  <2> HIDE DEF wspec
  <2> QED
    BY <2>1, TimeFine
<1> QED
  BY <1>1, <1>2, <1>3

LEMMA DelayFine ==
  ASSUME NEW k, Fine(k), AtWork(k), ~ k.dispatch_disabled
  PROVE  Fine(tk_dly_tsk(k))
<1> DEFINE wspec == "dly"
           tmout == "finite"
<1>1. wspec \in { "slp", "dly" } /\ tk_dly_tsk(k) = knl_make_wait(Waits(k, wspec, NULL, NULL), tmout)
  BY DEF tk_dly_tsk
<1> HIDE DEF wspec, tmout
<1> QED
  BY <1>1, TimeFine

LEMMA ReleaseFine ==
  ASSUME NEW k, Fine(k), NEW t \in Task, waiting(k, t)
  PROVE  Fine(knl_wait_release(k, t))
<1> DEFINE r == knl_wait_release(k, t)
<1>1. Good(k, {}, {}, {}) /\ Resting(k) /\ t \in Task \ {}
  BY DEF Fine
<1>2. Good(r, {}, {}, {}) /\ Calm(k, r)
  BY <1>1, WaitReleaseGood
<1> HIDE DEF r
<1> QED
  BY <1>1, <1>2, CalmFine DEF r

LEMMA WakeupFine ==
  ASSUME NEW k, Fine(k), NEW t \in Task
  PROVE  Fine(tk_wup_tsk(k, t)) /\ Fine(tk_can_wup(k, t))
<1>1. Fine(tk_can_wup(k, t))
  <2> DEFINE v == 0
  <2>1. tk_can_wup(k, t) = IF alive(k, t) THEN [k EXCEPT !.wupcnt[t] = v] ELSE k
    BY DEF tk_can_wup
  <2> HIDE DEF v
  <2>2. Fine([k EXCEPT !.wupcnt[t] = v])
    BY WupIs
  <2> QED
    BY <2>1, <2>2
<1>2. Fine(tk_wup_tsk(k, t))
  <2>1. CASE ~ alive(k, t)
    BY <2>1 DEF tk_wup_tsk
  <2>2. CASE alive(k, t) /\ waiting(k, t) /\ k.wspec[t] = "slp"
    <3>1. tk_wup_tsk(k, t) = knl_wait_release(k, t)
      BY <2>2 DEF tk_wup_tsk
    <3>2. Fine(knl_wait_release(k, t))
      BY <2>2, ReleaseFine
    <3> QED
      BY <3>1, <3>2
  <2>3. CASE alive(k, t) /\ ~ (waiting(k, t) /\ k.wspec[t] = "slp")
    <3> DEFINE v == k.wupcnt[t] + 1
    <3>1. tk_wup_tsk(k, t) = [k EXCEPT !.wupcnt[t] = v]
      BY <2>3 DEF tk_wup_tsk
    <3> HIDE DEF v
    <3>2. Fine([k EXCEPT !.wupcnt[t] = v])
      BY WupIs
    <3> QED
      BY <3>1, <3>2
  <2> QED
    BY <2>1, <2>2, <2>3
<1> QED
  BY <1>1, <1>2

(* Dispatching is disabled by a task that runs, and enabled. *)
LEMMA DispatchFine ==
  ASSUME NEW k, Fine(k), AtWork(k), NEW b \in BOOLEAN
  PROVE  Fine([k EXCEPT !.dispatch_disabled = b])
<1> DEFINE r == [k EXCEPT !.dispatch_disabled = b]
<1>1. Good(k, {}, {}, {}) /\ Typed(k)
  BY DEF Fine, Good, Core
<1>2. /\ r.state = k.state /\ r.priority = k.priority /\ r.bpriority = k.bpriority /\ r.ipriority = k.ipriority
      /\ r.suscnt = k.suscnt /\ r.wupcnt = k.wupcnt /\ r.timed = k.timed /\ r.mtxlist = k.mtxlist
      /\ r.klock = k.klock /\ r.call = k.call /\ r.klocktsk = k.klocktsk /\ r.locked = k.locked
      /\ r.wtskq = k.wtskq /\ r.ready = k.ready /\ r.schedtsk = k.schedtsk /\ r.ctxtsk = k.ctxtsk
      /\ r.dispatch_disabled = b /\ r.obj = k.obj
      /\ r.wspec = k.wspec /\ r.wid = k.wid /\ r.winfo = k.winfo /\ IsFun(r, Fields)
  BY <1>1 DEF Typed, IsFun, IsRec, Fields
<1> HIDE DEF r
<1>3. Typed(r)
  BY <1>1, <1>2 DEF Typed, TasksTyped, WaitsTyped, LocksTyped, RunTyped, ObjectsTyped
<1>4. Alike(k, r)
  BY <1>2 DEF Alike, SameWaits
<1>5. Good(r, {}, {}, {})
  BY <1>1, <1>2, <1>3, <1>4, AlikeGood
<1>6. Resting(r)
  BY <1>2 DEF Resting, AtWork
<1> QED
  BY <1>5, <1>6 DEF Fine, r

(* The first of the ready tasks of a priority becomes the last of them. *)
LEMMA RotateFine ==
  ASSUME NEW k, Fine(k), NEW priority
  PROVE  Fine(knl_rotate_ready_queue(k, priority))
<1> DEFINE those == { i \in DOMAIN k.ready : k.priority[k.ready[i]] = priority }
           t == k.ready[Min(those)]
           q == ByPriority(k, RemoveFirst(k.ready, t), t)
           m == [k EXCEPT !.ready = q]
           r == knl_reschedule(IF those = {} THEN k ELSE m)
           S == ReadySet(k, {})
<1>1. Good(k, {}, {}, {}) /\ Core(k, {}, {}, {}) /\ Typed(k) /\ ReadyGood(k, {}) /\ Resting(k)
  BY DEF Fine, Good, Core
<1>2. r = knl_rotate_ready_queue(k, priority)
  BY DEF knl_rotate_ready_queue
<1>3. CASE those = {}
  <2>1. r = knl_reschedule(k)
    BY <1>3
  <2>2. Good(r, {}, {}, {}) /\ ButSched(k, r)
    BY <1>1, <2>1, RescheduleGood
  <2>3. Resting(r)
    BY <1>1, <2>2 DEF Resting, ButSched, SameRun
  <2> QED
    BY <1>2, <2>2, <2>3 DEF Fine
<1>4. CASE those # {}
  <2>1. IsLine(k.ready, S) /\ k.ready \in Seq(Task) /\ S \subseteq Task /\ Ordered(k.priority, k.ready)
    BY <1>1 DEF ReadyGood, ReadySet, Typed, RunTyped
  <2>2. Min(those) \in DOMAIN k.ready
    <3>1. those \in SUBSET Nat
      BY <2>1
    <3> HIDE DEF those
    <3>2. Min(those) \in those
      BY <1>4, <3>1, MinIn
    <3> QED
      BY <3>2 DEF those
  <2>3. t \in S
    <3>1. k.ready \in Seq(S)
      BY <2>1 DEF IsLine
    <3> DEFINE i == Min(those)
    <3> HIDE DEF S, those
    <3>2. i \in DOMAIN k.ready
      BY <2>2
    <3> HIDE DEF i
    <3>3. k.ready[i] \in S
      BY <3>1, <3>2
    <3> QED
      BY <3>3 DEF i
  <2> HIDE DEF those, t
  <2>4. IsLine(RemoveFirst(k.ready, t), S \ {t}) /\ Ordered(k.priority, RemoveFirst(k.ready, t))
    BY <2>1, LineWithout, OrderWithout
  <2>5. IsLine(q, (S \ {t}) \cup {t}) /\ Ordered(k.priority, q)
    <3>1. k.priority \in [Task -> Pri] /\ S \ {t} \subseteq Task /\ t \in Task /\ t \notin S \ {t}
      BY <1>1, <2>1, <2>3 DEF Typed, TasksTyped
    <3> HIDE DEF S
    <3> QED
      BY <2>4, <3>1, ByPriorityLine
  <2>6. IsLine(q, S)
    <3>1. (S \ {t}) \cup {t} = S
      BY <2>3
    <3> QED
      BY <2>5, <3>1
  <2>7. Range(q) = S /\ Range(k.ready) = S /\ q \in Seq(S)
    BY <2>1, <2>6, LineRange
  <2> HIDE DEF q
  <2>8. /\ m.state = k.state /\ m.priority = k.priority /\ m.bpriority = k.bpriority /\ m.ipriority = k.ipriority
        /\ m.suscnt = k.suscnt /\ m.wupcnt = k.wupcnt /\ m.timed = k.timed /\ m.mtxlist = k.mtxlist
        /\ m.klock = k.klock /\ m.call = k.call /\ m.klocktsk = k.klocktsk /\ m.locked = k.locked
        /\ m.wtskq = k.wtskq /\ m.ready = q /\ m.schedtsk = k.schedtsk /\ m.ctxtsk = k.ctxtsk
        /\ m.dispatch_disabled = k.dispatch_disabled /\ m.obj = k.obj
        /\ m.wspec = k.wspec /\ m.wid = k.wid /\ m.winfo = k.winfo /\ IsFun(m, Fields)
    BY <1>1 DEF Typed, IsFun, IsRec, Fields
  <2>9. r = knl_reschedule(m)
    BY <1>4
  <2> HIDE DEF m, r
  <2>10. q \in Seq(Task)
    BY <2>1, <2>7
  <2>11. Typed(m)
    BY <1>1, <2>8, <2>10 DEF Typed, TasksTyped, WaitsTyped, LocksTyped, RunTyped, ObjectsTyped
  <2>12. ReadyGood(m, {})
    <3>1. ReadySet(m, {}) = S
      BY <2>8 DEF ReadySet
    <3> QED
      BY <2>5, <2>6, <2>8, <3>1 DEF ReadyGood
  <2>13. LockerGood(m)
    BY <1>1, <2>7, <2>8 DEF Core, LockerGood, Locker
  <2>14. WaitGood(m, {})
    <3>1. WaitGood(k, {})
      BY <1>1 DEF Core
    <3>2. \A u \in Task : (u \notin {} /\ waiting(m, u)) <=> (u \notin {} /\ waiting(k, u))
      BY <2>8 DEF waiting
    <3> QED
      BY <2>8, <3>1, <3>2, WaitKept DEF SameQueues
  <2>15. MutexGood(m, {}, {}, {})
    <3>1. MutexGood(k, {}, {}, {}) /\ TasksTyped(k) /\ ObjectsTyped(k)
      BY <1>1 DEF Core, Typed
    <3> QED
      BY <2>8, <3>1, MutexKept DEF SameObject, alive, waiting, SameStock
  <2>16. CallsGood(m)
    <3>1. CallsGood(k)
      BY <1>1 DEF Core
    <3> QED
      BY <2>8, <3>1, CallsKept DEF SameStock
  <2>17. LockGood(m)
    <3>1. LockGood(k)
      BY <1>1 DEF Core
    <3> QED
      BY <2>8, <3>1, LockKept
  <2>18. Core(m, {}, {}, {})
    BY <2>11, <2>12, <2>13, <2>14, <2>15, <2>16, <2>17 DEF Core
  <2>19. Good(r, {}, {}, {}) /\ ButSched(m, r)
    BY <2>9, <2>18, RescheduleGood
  <2>20. Resting(r)
    BY <1>1, <2>7, <2>8, <2>19 DEF Resting, ButSched, SameRun
  <2> QED
    BY <1>2, <2>19, <2>20 DEF Fine, r
<1> QED
  BY <1>3, <1>4

-----------------------------------------------------------------------------
(***************************************************************************)
(* The end of a task that is in no queue and has no mutex: it is dormant,  *)
(* or gone.                                                                *)
(***************************************************************************)
Ended(k, r, t) ==
  /\ r.state[t] \in { "dormant", "nonexist" } /\ r.klock[t] = "none" /\ r.call[t] = NULL /\ r.mtxlist[t] = << >>
  /\ \A u \in Task : u # t =>
       /\ r.state[u] = k.state[u] /\ r.priority[u] = k.priority[u] /\ r.klock[u] = k.klock[u]
       /\ r.call[u] = k.call[u] /\ r.mtxlist[u] = k.mtxlist[u]
  /\ r.ready = k.ready /\ r.schedtsk = k.schedtsk /\ r.klocktsk = k.klocktsk
  /\ r.obj = k.obj /\ r.wspec = k.wspec /\ r.wid = k.wid /\ r.winfo = k.winfo /\ r.timed = k.timed
  /\ r.wtskq = k.wtskq /\ r.locked = k.locked
  /\ SameRun(k, r)

LEMMA DormantIs ==
  ASSUME NEW k, Typed(k), NEW t \in Task
  PROVE  Typed(knl_make_dormant(k, t)) /\ Ended(k, knl_make_dormant(k, t), t)
<1> DEFINE r == knl_make_dormant(k, t)
<1>1. /\ r.state = [k.state EXCEPT ![t] = "dormant"]
      /\ r.priority = [k.priority EXCEPT ![t] = k.ipriority[t]]
      /\ r.bpriority = [k.bpriority EXCEPT ![t] = k.ipriority[t]]
      /\ r.ipriority = k.ipriority
      /\ r.suscnt = [k.suscnt EXCEPT ![t] = 0] /\ r.wupcnt = [k.wupcnt EXCEPT ![t] = 0]
      /\ r.timed = k.timed /\ r.mtxlist = [k.mtxlist EXCEPT ![t] = << >>]
      /\ r.klock = [k.klock EXCEPT ![t] = "none"] /\ r.call = [k.call EXCEPT ![t] = NULL]
      /\ r.klocktsk = k.klocktsk /\ r.locked = k.locked
      /\ r.wtskq = k.wtskq /\ r.ready = k.ready /\ r.schedtsk = k.schedtsk /\ r.ctxtsk = k.ctxtsk
      /\ r.dispatch_disabled = k.dispatch_disabled /\ r.obj = k.obj
      /\ r.wspec = k.wspec /\ r.wid = k.wid /\ r.winfo = k.winfo /\ IsFun(r, Fields)
  <2>1. IsFun(k, Fields)
    BY DEF Typed
  <2>2. DOMAIN r = Fields /\ IsRec(r)
    <3> DEFINE z == [k EXCEPT !.state[t] = "dormant", !.priority[t] = k.ipriority[t],
                              !.bpriority[t] = k.ipriority[t], !.wupcnt[t] = 0, !.suscnt[t] = 0,
                              !.klock[t] = "none", !.call[t] = NULL]
               g == "mtxlist"
               v == [z[g] EXCEPT ![t] = << >>]
    <3>1. DOMAIN z = Fields
      BY <2>1 DEF IsFun
    <3>2. r = [z EXCEPT ![g] = v]
      BY DEF knl_make_dormant
    <3> HIDE DEF z, v, r
    <3> QED
      BY <3>1, <3>2 DEF IsRec
  <2> QED
    BY <2>1, <2>2 DEF IsFun, IsRec, Fields, knl_make_dormant
<1> HIDE DEF r
<1>2. TasksTyped(r)
  <2>1. r.state \in [Task -> States]
    BY <1>1 DEF Typed, TasksTyped, States
  <2>2. r.priority \in [Task -> Pri] /\ r.bpriority \in [Task -> Pri] /\ r.ipriority \in [Task -> Pri]
    BY <1>1 DEF Typed, TasksTyped
  <2>3. IsFun(r.suscnt, Task) /\ IsFun(r.wupcnt, Task)
    <3>1. IsFun(k.suscnt, Task) /\ IsFun(k.wupcnt, Task) /\ r.suscnt = [k.suscnt EXCEPT ![t] = 0]
          /\ r.wupcnt = [k.wupcnt EXCEPT ![t] = 0]
      BY <1>1 DEF Typed, TasksTyped
    <3>2. IsFun(r.suscnt, Task)
      BY <3>1 DEF IsFun, IsRec
    <3>3. IsFun(r.wupcnt, Task)
      BY <3>1 DEF IsFun, IsRec
    <3> QED
      BY <3>2, <3>3
  <2>4. r.mtxlist \in [Task -> Seq(Object)]
    <3>1. << >> \in Seq(Object)
      OBVIOUS
    <3> QED
      BY <1>1, <3>1 DEF Typed, TasksTyped
  <2> QED
    BY <2>1, <2>2, <2>3, <2>4 DEF TasksTyped
<1>3. LocksTyped(r)
  <2>1. IsFun(r.call, Task)
    BY <1>1 DEF Typed, LocksTyped, IsFun, IsRec
  <2> QED
    BY <1>1, <2>1 DEF Typed, LocksTyped
<1>4. Typed(r)
  BY <1>1, <1>2, <1>3 DEF Typed, WaitsTyped, RunTyped, ObjectsTyped
<1>5. Ended(k, r, t)
  <2>1. t \in DOMAIN k.state /\ t \in DOMAIN k.klock /\ t \in DOMAIN k.call /\ t \in DOMAIN k.mtxlist
    BY DEF Typed, TasksTyped, LocksTyped, IsFun
  <2> QED
    BY <1>1, <2>1 DEF Ended, SameRun
<1> QED
  BY <1>4, <1>5 DEF r

LEMMA DormantGood ==
  ASSUME NEW k, NEW X, NEW Z, NEW Y, Good(k, X, Z, Y), NEW t \in X, k.klock[t] = "none",
         \A m \in Object : ~ Holds(k, t, m),
         NEW r, Typed(r), Ended(k, r, t)
  PROVE  Good(r, X \ {t}, Z \ {t}, Y)
<1> DEFINE W == X \ {t}
           V == Z \ {t}
<1>1. /\ X \in SUBSET Task /\ Z \in SUBSET X
      /\ Typed(k) /\ ReadyGood(k, X) /\ LockerGood(k) /\ WaitGood(k, X)
      /\ MutexGood(k, X, Z, Y) /\ CallsGood(k) /\ LockGood(k) /\ TopGood(k)
  BY DEF Good, Core
<1>2. W \in SUBSET Task /\ V \in SUBSET W /\ t \in Task
  BY <1>1
<1>3. \A u \in Task : u \notin W <=> u \notin X \/ u = t
  OBVIOUS
<1>4. ~ waiting(r, t) /\ ~ alive(r, t) /\ r.state[t] # "ready"
  BY DEF Ended, waiting, alive
<1>5. \A u \in Task : (u \notin W /\ waiting(r, u)) <=> (u \notin X /\ waiting(k, u))
  BY <1>3, <1>4 DEF Ended, waiting
<1> HIDE DEF W
<1>6. ReadyGood(r, W)
  <2>1. ReadySet(r, W) = ReadySet(k, X)
    BY <1>3, <1>4 DEF Ended, ReadySet
  <2>2. \A u \in ReadySet(k, X) : r.priority[u] = k.priority[u]
    BY DEF Ended, ReadySet
  <2>3. IsLine(k.ready, ReadySet(k, X)) /\ Ordered(k.priority, k.ready) /\ r.ready = k.ready
    BY <1>1 DEF ReadyGood, Ended
  <2>4. Ordered(r.priority, k.ready)
    BY <2>2, <2>3, OrderKept
  <2> QED
    BY <2>1, <2>3, <2>4 DEF ReadyGood
<1>7. \A u \in Task : Locker(k, u) => Locker(r, u)
  BY DEF Ended, Locker
<1>8. LockerGood(r) /\ TopGood(r)
  <2>1. Locker(k, k.schedtsk) => k.schedtsk \in Task
    BY <1>1, ReadyState DEF Locker
  <2>2. k.klocktsk \in Task \cup {NULL}
    BY <1>1 DEF Typed, RunTyped
  <2>3. r.schedtsk = k.schedtsk /\ r.klocktsk = k.klocktsk /\ r.ready = k.ready
    BY DEF Ended
  <2> QED
    BY <1>1, <1>7, <2>1, <2>2, <2>3 DEF LockerGood, TopGood
<1>9. WaitGood(r, W)
  <2>1. \A u \in Task : u \notin X /\ waiting(k, u) =>
          r.wspec[u] = k.wspec[u] /\ r.wid[u] = k.wid[u] /\ r.winfo[u] = k.winfo[u] /\ r.priority[u] = k.priority[u]
    BY DEF Ended
  <2>2. \A x \in Object : SameQueues(k.obj[x], r.obj[x])
    BY DEF Ended, SameQueues
  <2>3. \A u \in Task : r.timed[u] => k.timed[u]
    BY DEF Ended
  <2> QED
    BY <1>1, <1>5, <2>1, <2>2, <2>3, WaitKept
<1>10. MutexGood(r, W, V, Y)
  <2>1. OwnerGood(r, Y)
    <3> SUFFICES ASSUME NEW m \in Object, r.obj[m].kind = "mtx"
                 PROVE  /\ r.obj[m].mtxtsk = NULL => r.obj[m].wait_queue = << >>
                        /\ r.obj[m].mtxtsk # NULL =>
                             /\ alive(r, r.obj[m].mtxtsk)
                             /\ m \notin Y => m \in Range(r.mtxlist[r.obj[m].mtxtsk])
      BY DEF OwnerGood
    <3>1. r.obj = k.obj /\ k.obj[m].mtxtsk # t
      BY DEF Ended, Holds
    <3>2. k.obj[m].mtxtsk \in Task \cup {NULL}
      BY <1>1, <3>1 DEF Typed, ObjectsTyped, ObjTyped
    <3>3. /\ k.obj[m].mtxtsk = NULL => k.obj[m].wait_queue = << >>
          /\ k.obj[m].mtxtsk # NULL =>
               /\ alive(k, k.obj[m].mtxtsk)
               /\ m \notin Y => m \in Range(k.mtxlist[k.obj[m].mtxtsk])
      BY <1>1, <3>1 DEF MutexGood, OwnerGood
    <3> QED
      BY <3>1, <3>2, <3>3 DEF Ended, alive
  <2>2. ListGood(r, V, Y)
    <3>1. \A u \in Task : Once(r.mtxlist[u])
      <4>1. Once(<< >>)
        BY DEF Once
      <4> QED
        BY <1>1, <4>1 DEF MutexGood, ListGood, Ended
    <3>2. Range(r.mtxlist[t]) = {}
      BY DEF Ended, Range
    <3>3. ASSUME NEW u \in Task \ V, NEW m \in Range(r.mtxlist[u])
          PROVE  Holds(r, u, m) /\ m \notin Y
      <4>1. u # t /\ u \notin Z /\ r.mtxlist[u] = k.mtxlist[u] /\ r.obj = k.obj
        BY <3>2, <3>3 DEF Ended
      <4> QED
        BY <1>1, <3>3, <4>1 DEF MutexGood, ListGood, Holds
    <3> QED
      BY <3>1, <3>3 DEF ListGood
  <2>3. RankGood(r, W)
    <3> SUFFICES ASSUME NEW u \in Task \ W, waiting(r, u) /\ r.wspec[u] = "mtx", NEW m \in Range(r.mtxlist[u])
                 PROVE  Rank[m] < Rank[r.wid[u]]
      BY DEF RankGood
    <3>1. u # t /\ u \notin X /\ waiting(k, u) /\ r.mtxlist[u] = k.mtxlist[u] /\ r.wid = k.wid /\ r.wspec = k.wspec
      BY <1>4, <1>5 DEF Ended
    <3> QED
      BY <1>1, <3>1 DEF MutexGood, RankGood
  <2> QED
    BY <2>1, <2>2, <2>3 DEF MutexGood
<1>11. CallsGood(r)
  <2>1. \A u \in Task : r.call[u] # NULL =>
          u # t /\ r.call[u] = k.call[u] /\ r.state[u] = k.state[u] /\ r.klock[u] = k.klock[u]
    BY DEF Ended
  <2>2. \A u \in Task : r.call[u] # NULL => CallGood(r, u)
    BY <1>1, <2>1 DEF CallsGood, CallGood, Ended, alive
  <2>3. \A u \in Task, o \in Object : Makes(r, u, o) => Makes(k, u, o)
    BY <2>1 DEF Makes
  <2>4. r.obj = k.obj
    BY DEF Ended
  <2>5. GivesGood(r)
    <3>1. \A u \in Task, x \in Object :
            /\ Gives(r, u, x) => Gives(k, u, x) /\ r.call[u].x.blf = k.call[u].x.blf
            /\ Deletes(r, u, x) => Deletes(k, u, x)
      BY <2>1 DEF Gives, Deletes
    <3> QED
      BY <1>1, <2>4, <3>1, GivesKept DEF CallsGood, SameStock
  <2> QED
    BY <1>1, <2>2, <2>3, <2>4, <2>5 DEF CallsGood
<1>12. LockGood(r)
  <2>1. \A u \in Task : r.klock[u] # "none" =>
          u # t /\ r.klock[u] = k.klock[u] /\ r.call[u] = k.call[u] /\ r.state[u] = k.state[u]
    BY DEF Ended
  <2>2. \A u \in Task : k.klock[u] # "none" => r.klock[u] = k.klock[u] /\ r.call[u] = k.call[u]
    BY DEF Ended
  <2>3. \A u \in Task, o \in Object : Has(r, u, o) <=> Has(k, u, o)
    BY <2>1, <2>2 DEF Has
  <2>4. \A o \in Object : { u \in Task : r.klock[u] = "klockwait" /\ r.call[u].o = o }
                            = { u \in Task : k.klock[u] = "klockwait" /\ k.call[u].o = o }
    BY <2>1, <2>2
  <2>5. r.wtskq = k.wtskq /\ r.locked = k.locked
    BY DEF Ended
  <2>6. \A u \in Task : r.klock[u] # "none" => r.call[u] # NULL /\ r.call[u].o \in Object
    BY <1>1, <2>1 DEF LockGood
  <2>7. \A u \in Task : r.klock[u] = "klockwait" => r.state[u] = "ready" /\ r.call[u].at = "lock"
    <3> TAKE u \in Task
    <3> HAVE r.klock[u] = "klockwait"
    <3>1. k.klock[u] = "klockwait" /\ r.call[u] = k.call[u] /\ r.state[u] = k.state[u]
      BY <2>1
    <3> QED
      BY <1>1, <3>1 DEF LockGood
  <2>8. \A o \in Object :
          /\ IsLine(r.wtskq[o], { u \in Task : r.klock[u] = "klockwait" /\ r.call[u].o = o })
          /\ o \notin r.locked => r.wtskq[o] = << >>
          /\ o \in r.locked <=> \E u \in Task : Has(r, u, o)
          /\ \A u, v \in Task : Has(r, u, o) /\ Has(r, v, o) => u = v
    <3> TAKE o \in Object
    <3>1. /\ IsLine(k.wtskq[o], { u \in Task : k.klock[u] = "klockwait" /\ k.call[u].o = o })
          /\ o \notin k.locked => k.wtskq[o] = << >>
          /\ o \in k.locked <=> \E u \in Task : Has(k, u, o)
          /\ \A u, v \in Task : Has(k, u, o) /\ Has(k, v, o) => u = v
      BY <1>1 DEF LockGood
    <3>2. IsLine(r.wtskq[o], { u \in Task : r.klock[u] = "klockwait" /\ r.call[u].o = o })
      BY <2>4, <2>5, <3>1
    <3> QED
      BY <2>3, <2>5, <3>1, <3>2
  <2> QED
    BY <2>6, <2>7, <2>8 DEF LockGood
<1> QED
  BY <1>2, <1>6, <1>8, <1>9, <1>10, <1>11, <1>12 DEF Good, Core, W

(* A task that is not alive has no lock, no mutex and no call. *)
LEMMA LifelessHas ==
  ASSUME NEW k, NEW X, NEW Z, NEW Y, Good(k, X, Z, Y), NEW t \in Task, ~ alive(k, t)
  PROVE  k.klock[t] = "none" /\ k.call[t] = NULL /\ \A m \in Object : ~ Holds(k, t, m)
<1>1. CallsGood(k) /\ LockGood(k) /\ OwnerGood(k, Y) /\ t # NULL
  BY KernelTaskAssumption DEF Good, Core, MutexGood
<1>2. k.call[t] = NULL
  BY <1>1 DEF CallsGood, CallGood, alive
<1>3. k.klock[t] = "none"
  BY <1>1, <1>2 DEF LockGood
<1>4. \A m \in Object : ~ Holds(k, t, m)
  BY <1>1 DEF OwnerGood, Holds
<1> QED
  BY <1>2, <1>3, <1>4

LEMMA EndFine ==
  ASSUME NEW k, Fine(k), NEW t \in Task, k.state[t] \in { "dormant", "nonexist" },
         NEW r, Typed(r), Ended(k, r, t)
  PROVE  Fine(r)
<1>1. Good(k, {}, {}, {}) /\ Resting(k) /\ ReadyGood(k, {})
  BY DEF Fine, Good, Core
<1>2. t \in Task \ {} /\ {} \cup {t} = {t} /\ {t} \ {t} = {} /\ {} \ {t} = {} /\ t \in {t}
  OBVIOUS
<1>3. Good(k, {t}, {}, {})
  BY <1>1, <1>2, StepAside
<1>4. k.klock[t] = "none" /\ \A m \in Object : ~ Holds(k, t, m)
  <2>1. ~ alive(k, t)
    BY DEF alive
  <2> QED
    BY <1>1, <2>1, LifelessHas
<1>5. Good(r, {}, {}, {})
  BY <1>2, <1>3, <1>4, DormantGood
<1>6. Resting(r)
  <2> SUFFICES ASSUME r.dispatch_disabled
               PROVE  r.ctxtsk \in Task /\ r.ctxtsk \in Range(r.ready) /\ r.call[r.ctxtsk] = NULL
    BY DEF Resting
  <2>1. k.ctxtsk \in Task /\ k.ctxtsk \in Range(k.ready) /\ k.call[k.ctxtsk] = NULL
    BY <1>1 DEF Resting, Ended, SameRun
  <2>2. k.ctxtsk # t
    BY <1>1, <2>1, ReadyState
  <2> QED
    BY <2>1, <2>2 DEF Ended, SameRun
<1> QED
  BY <1>5, <1>6 DEF Fine

LEMMA CreateTaskFine ==
  ASSUME NEW k, Fine(k), NEW t \in Task, k.state[t] = "nonexist", NEW p \in Pri
  PROVE  Fine(tk_cre_tsk(k, t, p))
<1> DEFINE f == "ipriority"
           i == [k EXCEPT ![f][t] = p]
           r == knl_make_dormant(i, t)
<1>1. Typed(k) /\ f \in { "bpriority", "ipriority" }
  BY DEF Fine, Good, Core
<1>2. r = tk_cre_tsk(k, t, p)
  BY DEF tk_cre_tsk
<1> HIDE DEF f
<1>3. Counted(k, i)
  BY <1>1, BaseIs
<1> HIDE DEF i
<1>4. Fine(i) /\ Typed(i) /\ i.state[t] \in { "dormant", "nonexist" }
  BY <1>3, CountedFine DEF Counted
<1>5. Typed(r) /\ Ended(i, r, t)
  BY <1>4, DormantIs
<1> HIDE DEF r
<1>6. Fine(r)
  BY <1>4, <1>5, EndFine
<1> QED
  BY <1>2, <1>6

LEMMA DeletedIs ==
  ASSUME NEW k, Typed(k), NEW t \in Task
  PROVE  Typed(knl_del_tsk(k, t)) /\ Ended(k, knl_del_tsk(k, t), t)
<1> DEFINE f == "ipriority"
           p == 1
           s == "nonexist"
           i == [k EXCEPT ![f][t] = p]
           d == knl_make_dormant(i, t)
           r == [d EXCEPT !.state[t] = s]
<1>1. f \in { "bpriority", "ipriority" } /\ p \in Pri /\ s \in States
  BY KernelTaskAssumption DEF Pri, States
<1>2. r = knl_del_tsk(k, t)
  BY DEF knl_del_tsk
<1> HIDE DEF f, p
<1>3. Counted(k, i)
  BY <1>1, BaseIs
<1> HIDE DEF i
<1>4. Typed(d) /\ Ended(i, d, t)
  BY <1>3, DormantIs DEF Counted
<1> HIDE DEF d
<1> HIDE DEF s
<1>5. /\ Typed(r) /\ \A u \in Task : r.state[u] = IF u = t THEN s ELSE d.state[u]
      /\ r.priority = d.priority /\ SameWaits(d, r) /\ SameLocks(d, r) /\ SameReady(d, r) /\ SameRun(d, r)
      /\ r.obj = d.obj /\ r.call = d.call /\ r.mtxlist = d.mtxlist /\ r.timed = d.timed
  BY <1>1, <1>4, StateIs
<1> HIDE DEF r
<1>6. Ended(k, r, t)
  BY <1>3, <1>4, <1>5 DEF s, Ended, Counted, SameWaits, SameLocks, SameReady, SameRun
<1> QED
  BY <1>2, <1>5, <1>6

LEMMA DeleteTaskFine ==
  ASSUME NEW k, Fine(k), NEW t \in Task
  PROVE  Fine(tk_del_tsk(k, t))
<1>1. CASE k.state[t] # "dormant"
  BY <1>1 DEF tk_del_tsk
<1>2. CASE k.state[t] = "dormant"
  <2> DEFINE r == knl_del_tsk(k, t)
  <2>1. r = tk_del_tsk(k, t)
    BY <1>2 DEF tk_del_tsk
  <2>2. Typed(k)
    BY DEF Fine, Good, Core
  <2>3. Typed(r) /\ Ended(k, r, t)
    BY <2>2, DeletedIs
  <2> HIDE DEF r
  <2>4. k.state[t] \in { "dormant", "nonexist" }
    BY <1>2
  <2>5. Fine(r)
    BY <2>3, <2>4, EndFine
  <2> QED
    BY <2>1, <2>5
<1> QED
  BY <1>1, <1>2

LEMMA StartFine ==
  ASSUME NEW k, Fine(k), NEW t \in Task
  PROVE  Fine(tk_sta_tsk(k, t))
<1>1. CASE k.state[t] # "dormant"
  BY <1>1 DEF tk_sta_tsk
<1>2. CASE k.state[t] = "dormant"
  <2>1. tk_sta_tsk(k, t) = knl_make_ready(k, t)
    BY <1>2 DEF tk_sta_tsk
  <2>2. Fine(knl_make_ready(k, t))
    BY <1>2, MakeReadyFine
  <2> QED
    BY <2>1, <2>2
<1> QED
  BY <1>1, <1>2

-----------------------------------------------------------------------------
(***************************************************************************)
(* An object is made or deleted: nobody waits for it, and if it was a      *)
(* mutex it is in the list of no task any more.                            *)
(***************************************************************************)
Renewed(k, r, o, b) ==
  /\ Typed(r) /\ SameTasks(k, r) /\ SameWaits(k, r) /\ SameLocks(k, r) /\ SameReady(k, r)
  /\ SameRun(k, r) /\ SameCounts(k, r) /\ r.call = k.call /\ r.mtxlist = k.mtxlist
  /\ r.timed = k.timed
  /\ \A x \in Object : r.obj[x] = IF x = o THEN b ELSE k.obj[x]

LEMMA ObjectIs ==
  ASSUME NEW k, Typed(k), NEW o \in Object, NEW b, ObjTyped(b)
  PROVE  Renewed(k, [k EXCEPT !.obj[o] = b], o, b)
<1> DEFINE r == [k EXCEPT !.obj[o] = b]
<1>1. /\ r.state = k.state /\ r.priority = k.priority /\ r.bpriority = k.bpriority /\ r.ipriority = k.ipriority
      /\ r.suscnt = k.suscnt /\ r.wupcnt = k.wupcnt /\ r.timed = k.timed /\ r.mtxlist = k.mtxlist
      /\ r.klock = k.klock /\ r.call = k.call /\ r.klocktsk = k.klocktsk /\ r.locked = k.locked
      /\ r.wtskq = k.wtskq /\ r.ready = k.ready /\ r.schedtsk = k.schedtsk /\ r.ctxtsk = k.ctxtsk
      /\ r.dispatch_disabled = k.dispatch_disabled /\ r.obj = [k.obj EXCEPT ![o] = b]
      /\ r.wspec = k.wspec /\ r.wid = k.wid /\ r.winfo = k.winfo /\ IsFun(r, Fields)
  BY DEF Typed, IsFun, IsRec, Fields
<1> HIDE DEF r
<1>2. DOMAIN k.obj = Object
  BY DEF Typed, ObjectsTyped, IsFun
<1>3. \A x \in Object : r.obj[x] = IF x = o THEN b ELSE k.obj[x]
  BY <1>1, <1>2
<1>4. ObjectsTyped(r)
  BY <1>1, <1>3 DEF Typed, ObjectsTyped, IsFun, IsRec
<1>5. Typed(r)
  BY <1>1, <1>4 DEF Typed, TasksTyped, WaitsTyped, LocksTyped, RunTyped
<1> QED
  BY <1>1, <1>3, <1>5 DEF Renewed, SameTasks, SameWaits, SameLocks, SameReady, SameRun, SameCounts, r

NobodyAt(k, X, o) == \A t \in Task : t \notin X /\ waiting(k, t) => k.wid[t] # o \/ k.wspec[t] \in { "slp", "dly" }

(* No call is at work on the blocks of a pool or brings one back. *)
Idle(k, o) ==
  \A t \in Task :
    /\ ~ Gives(k, t, o)
    /\ ~ (k.call[t] # NULL /\ k.call[t].at \in { "get", "wait", "put" } /\ k.call[t].o = o)

LEMMA NoPoolIdle ==
  ASSUME NEW k, CallsGood(k), NEW o \in Object, k.obj[o].kind # "mpf"
  PROVE  Idle(k, o)
BY DEF CallsGood, CallGood, GivesGood, Idle

LEMMA ReplaceGood ==
  ASSUME NEW k, NEW X, NEW Z, NEW Y, Good(k, X, Z, Y), NEW o \in Object, NEW b, ObjTyped(b),
         b.wait_queue = << >>, b.kind = "mbf" => b.recv_queue = << >>, b.kind = "mtx" => b.mtxtsk = NULL,
         NobodyAt(k, X, o), k.obj[o].kind = "mtx" => o \in Y,
         Idle(k, o), \A t \in Task : Makes(k, t, o) => b.kind = "taken",
         NEW r, Renewed(k, r, o, b)
  PROVE  Good(r, X, Z, Y \ {o})
<1>1. /\ X \in SUBSET Task /\ Z \in SUBSET X
      /\ Typed(k) /\ ReadyGood(k, X) /\ LockerGood(k) /\ WaitGood(k, X)
      /\ MutexGood(k, X, Z, Y) /\ CallsGood(k) /\ LockGood(k) /\ TopGood(k)
  BY DEF Good, Core
<1>2. /\ Typed(r) /\ SameTasks(k, r) /\ SameWaits(k, r) /\ SameLocks(k, r) /\ SameReady(k, r)
      /\ SameRun(k, r) /\ SameCounts(k, r) /\ r.call = k.call /\ r.mtxlist = k.mtxlist
      /\ r.timed = k.timed
      /\ \A x \in Object : r.obj[x] = IF x = o THEN b ELSE k.obj[x]
  BY DEF Renewed
<1>3. /\ r.state = k.state /\ r.priority = k.priority /\ r.klock = k.klock /\ r.ready = k.ready
      /\ r.klocktsk = k.klocktsk /\ r.schedtsk = k.schedtsk /\ r.wspec = k.wspec /\ r.wid = k.wid
      /\ r.locked = k.locked /\ r.wtskq = k.wtskq
  BY <1>2 DEF SameTasks, SameWaits, SameLocks, SameReady
<1>4. ReadyGood(r, X)
  <2>1. \A t \in Task : (t \notin X /\ r.state[t] = "ready") <=> (t \notin X /\ k.state[t] = "ready")
    BY <1>3
  <2>2. ReadyGood(k, X) /\ r.klock = k.klock /\ r.ready = k.ready
        /\ \A t \in Task : t \notin X => r.priority[t] = k.priority[t]
    BY <1>1, <1>3
  <2> QED
    BY <2>1, <2>2, ReadyKept
<1>5. LockerGood(r) /\ TopGood(r)
  BY <1>1, <1>3 DEF LockerGood, TopGood, Locker
<1>6. WaitGood(r, X)
  <2>1. LinesGood(r, X)
    <3> SUFFICES ASSUME NEW x \in Object
                 PROVE  /\ IsLine(r.obj[x].wait_queue, Waiters(r, X, x))
                        /\ r.obj[x].kind = "mbf" => IsLine(r.obj[x].recv_queue, Receivers(r, X, x))
                        /\ Used(r.obj[x].kind) /\ "TPRI" \in r.obj[x].atr => Ordered(r.priority, r.obj[x].wait_queue)
      BY DEF LinesGood
    <3>1. Waiters(r, X, x) = Waiters(k, X, x) /\ Receivers(r, X, x) = Receivers(k, X, x)
      BY <1>3 DEF Waiters, Receivers, waiting
    <3>2. CASE x # o
      <4>1. r.obj[x] = k.obj[x]
        BY <1>2, <3>2
      <4> QED
        BY <1>1, <1>3, <3>1, <4>1 DEF WaitGood, LinesGood
    <3>3. CASE x = o
      <4>1. Waiters(k, X, o) = {} /\ Receivers(k, X, o) = {}
        BY DEF NobodyAt, Waiters, Receivers, InQueue
      <4>2. r.obj[o] = b
        BY <1>2
      <4> QED
        BY <3>1, <3>3, <4>1, <4>2, EmptyLine
    <3> QED
      BY <3>2, <3>3
  <2>2. TimedGood(r, X)
    BY <1>1, <1>2, <1>3 DEF WaitGood, TimedGood, waiting
  <2>3. \A t \in Task \ X : waiting(r, t) => WaitsFor(r, t)
    <3> TAKE t \in Task \ X
    <3> HAVE waiting(r, t)
    <3>1. waiting(k, t) /\ WaitsFor(k, t)
      BY <1>1, <1>3 DEF WaitGood, waiting
    <3>2. k.wid[t] \in Object /\ Suits(k.obj[k.wid[t]].kind, k.wspec[t]) => k.wid[t] # o
      BY <3>1 DEF NobodyAt, Suits, InQueue
    <3> QED
      BY <1>2, <1>3, <3>1, <3>2 DEF WaitsFor, SameWaits
  <2> QED
    BY <2>1, <2>2, <2>3 DEF WaitGood
<1>7. MutexGood(r, X, Z, Y \ {o})
  <2>1. OwnerGood(r, Y \ {o})
    <3> SUFFICES ASSUME NEW m \in Object, r.obj[m].kind = "mtx"
                 PROVE  /\ r.obj[m].mtxtsk = NULL => r.obj[m].wait_queue = << >>
                        /\ r.obj[m].mtxtsk # NULL =>
                             /\ alive(r, r.obj[m].mtxtsk)
                             /\ m \notin Y \ {o} => m \in Range(r.mtxlist[r.obj[m].mtxtsk])
      BY DEF OwnerGood
    <3>1. CASE m = o
      BY <1>2, <3>1
    <3>2. CASE m # o
      <4>1. r.obj[m] = k.obj[m]
        BY <1>2, <3>2
      <4> QED
        BY <1>1, <1>2, <1>3, <3>2, <4>1 DEF MutexGood, OwnerGood, alive
    <3> QED
      BY <3>1, <3>2
  <2>2. ListGood(r, Z, Y \ {o})
    <3>1. ASSUME NEW u \in Task \ Z, NEW m \in Range(r.mtxlist[u])
          PROVE  Holds(r, u, m) /\ m \notin Y \ {o}
      <4>1. Holds(k, u, m) /\ m \notin Y
        BY <1>1, <1>2, <3>1 DEF MutexGood, ListGood
      <4>2. m # o
        BY <4>1 DEF Holds
      <4>3. m \in Object
        BY <1>1, <1>2, <3>1 DEF Typed, TasksTyped, Range
      <4> QED
        BY <1>2, <4>1, <4>2, <4>3 DEF Holds
    <3> QED
      BY <1>1, <1>2, <3>1 DEF MutexGood, ListGood
  <2>3. RankGood(r, X)
    BY <1>1, <1>2, <1>3 DEF MutexGood, RankGood, waiting
  <2> QED
    BY <2>1, <2>2, <2>3 DEF MutexGood
<1>8. CallsGood(r)
  <2>1. ASSUME NEW t \in Task, r.call[t] # NULL
        PROVE  CallGood(r, t)
    <3>1. k.call[t] # NULL /\ CallGood(k, t) /\ r.call[t] = k.call[t]
      BY <1>1, <1>2, <2>1 DEF CallsGood
    <3>2. k.call[t].at \in { "get", "wait", "put" } =>
            k.call[t].o \in Object /\ r.obj[k.call[t].o] = k.obj[k.call[t].o]
      BY <1>2, <3>1 DEF CallGood, Idle
    <3> QED
      BY <1>3, <3>1, <3>2 DEF CallGood, alive
  <2>2. ASSUME NEW t \in Task, NEW x \in Object, Makes(r, t, x)
        PROVE  Makes(k, t, x) /\ r.obj[x].kind = "taken"
    <3>1. Makes(k, t, x)
      BY <1>2, <2>2 DEF Makes
    <3> QED
      BY <1>1, <1>2, <3>1 DEF CallsGood
  <2>3. GivesGood(r)
    <3>1. \A u \in Task, x \in Object : Gives(k, u, x) => r.obj[x] = k.obj[x]
      BY <1>2 DEF Idle
    <3>2. \A u \in Task, x \in Object :
            /\ Gives(r, u, x) => Gives(k, u, x) /\ r.call[u].x.blf = k.call[u].x.blf
            /\ Deletes(r, u, x) => Deletes(k, u, x)
      BY <1>2 DEF Gives, Deletes
    <3> QED
      BY <1>1, <3>1, <3>2, GivesKept DEF CallsGood, SameStock
  <2> QED
    BY <1>1, <2>1, <2>2, <2>3 DEF CallsGood
<1>9. LockGood(r)
  BY <1>1, <1>2, <1>3, LockKept
<1> QED
  BY <1>1, <1>2, <1>4, <1>5, <1>6, <1>7, <1>8, <1>9 DEF Good, Core

-----------------------------------------------------------------------------
(***************************************************************************)
(* A task gets another priority.                                           *)
(***************************************************************************)
Ranked(k, r, t, p) ==
  /\ Typed(r) /\ r.state = k.state /\ r.bpriority = k.bpriority /\ r.ipriority = k.ipriority
  /\ \A u \in Task : r.priority[u] = IF u = t THEN p ELSE k.priority[u]
  /\ SameWaits(k, r) /\ SameLocks(k, r) /\ SameReady(k, r) /\ SameRun(k, r) /\ SameCounts(k, r)
  /\ r.obj = k.obj /\ r.call = k.call /\ r.mtxlist = k.mtxlist /\ r.timed = k.timed

LEMMA PriorityIs ==
  ASSUME NEW k, Typed(k), NEW t \in Task, NEW p \in Pri
  PROVE  Ranked(k, [k EXCEPT !.priority[t] = p], t, p)
<1> DEFINE r == [k EXCEPT !.priority[t] = p]
<1>1. /\ r.state = k.state /\ r.priority = [k.priority EXCEPT ![t] = p]
      /\ r.bpriority = k.bpriority /\ r.ipriority = k.ipriority
      /\ r.suscnt = k.suscnt /\ r.wupcnt = k.wupcnt /\ r.timed = k.timed /\ r.mtxlist = k.mtxlist
      /\ r.klock = k.klock /\ r.call = k.call /\ r.klocktsk = k.klocktsk /\ r.locked = k.locked
      /\ r.wtskq = k.wtskq /\ r.ready = k.ready /\ r.schedtsk = k.schedtsk /\ r.ctxtsk = k.ctxtsk
      /\ r.dispatch_disabled = k.dispatch_disabled /\ r.obj = k.obj
      /\ r.wspec = k.wspec /\ r.wid = k.wid /\ r.winfo = k.winfo /\ IsFun(r, Fields)
  BY DEF Typed, IsFun, IsRec, Fields
<1> HIDE DEF r
<1>2. k.priority \in [Task -> Pri]
  BY DEF Typed, TasksTyped
<1>3. r.priority \in [Task -> Pri] /\ \A u \in Task : r.priority[u] = IF u = t THEN p ELSE k.priority[u]
  BY <1>1, <1>2
<1>4. Typed(r)
  BY <1>1, <1>3 DEF Typed, TasksTyped, WaitsTyped, LocksTyped, RunTyped, ObjectsTyped
<1> QED
  BY <1>1, <1>3, <1>4 DEF r, Ranked, SameWaits, SameLocks, SameReady, SameRun, SameCounts

(* It is in no queue that goes by priority. *)
LEMMA PriorityOnlyGood ==
  ASSUME NEW k, NEW X, NEW Z, NEW Y, Good(k, X, Z, Y), NEW t \in Task, NEW p \in Pri,
         k.state[t] # "ready",
         waiting(k, t) => k.wspec[t] \in { "slp", "dly", "rmbf" } \/ "TPRI" \notin k.obj[k.wid[t]].atr,
         NEW r, Ranked(k, r, t, p)
  PROVE  Good(r, X, Z, Y) /\ Calm(k, r)
<1>1. /\ X \in SUBSET Task /\ Z \in SUBSET X
      /\ Typed(k) /\ ReadyGood(k, X) /\ LockerGood(k) /\ WaitGood(k, X)
      /\ MutexGood(k, X, Z, Y) /\ CallsGood(k) /\ LockGood(k) /\ TopGood(k)
  BY DEF Good, Core
<1>2. /\ Typed(r) /\ r.state = k.state /\ r.bpriority = k.bpriority /\ r.ipriority = k.ipriority
      /\ \A u \in Task : r.priority[u] = IF u = t THEN p ELSE k.priority[u]
      /\ SameWaits(k, r) /\ SameLocks(k, r) /\ SameReady(k, r) /\ SameRun(k, r) /\ SameCounts(k, r)
      /\ r.obj = k.obj /\ r.call = k.call /\ r.mtxlist = k.mtxlist /\ r.timed = k.timed
  BY DEF Ranked
<1>3. /\ r.klock = k.klock /\ r.ready = k.ready /\ r.klocktsk = k.klocktsk /\ r.schedtsk = k.schedtsk
      /\ r.wspec = k.wspec /\ r.wid = k.wid /\ r.winfo = k.winfo /\ r.locked = k.locked /\ r.wtskq = k.wtskq
  BY <1>2 DEF SameWaits, SameLocks, SameReady
<1>4. ReadyGood(r, X)
  <2>1. ReadySet(r, X) = ReadySet(k, X)
    BY <1>2, <1>3 DEF ReadySet
  <2>2. \A u \in ReadySet(k, X) : r.priority[u] = k.priority[u]
    BY <1>2 DEF ReadySet
  <2>3. IsLine(k.ready, ReadySet(k, X)) /\ Ordered(k.priority, k.ready)
    BY <1>1 DEF ReadyGood
  <2>4. Ordered(r.priority, k.ready)
    <3> DEFINE S == ReadySet(k, X)
               queue == k.ready
               pri == k.priority
               pri2 == r.priority
    <3>1. IsLine(queue, S) /\ Ordered(pri, queue) /\ \A u \in S : pri2[u] = pri[u]
      BY <2>2, <2>3
    <3> HIDE DEF S, queue, pri, pri2
    <3>2. Ordered(pri2, queue)
      BY <3>1, OrderKept
    <3> QED
      BY <3>2 DEF pri2, queue
  <2> QED
    BY <1>3, <2>1, <2>3, <2>4 DEF ReadyGood
<1>5. LockerGood(r) /\ TopGood(r)
  BY <1>1, <1>3 DEF LockerGood, TopGood, Locker
<1>6. WaitGood(r, X)
  <2>1. ASSUME NEW x \in Object
        PROVE  /\ IsLine(r.obj[x].wait_queue, Waiters(r, X, x))
               /\ r.obj[x].kind = "mbf" => IsLine(r.obj[x].recv_queue, Receivers(r, X, x))
               /\ Used(r.obj[x].kind) /\ "TPRI" \in r.obj[x].atr => Ordered(r.priority, r.obj[x].wait_queue)
    <3>1. Waiters(r, X, x) = Waiters(k, X, x) /\ Receivers(r, X, x) = Receivers(k, X, x)
      BY <1>2, <1>3 DEF Waiters, Receivers, waiting
    <3>2. /\ IsLine(k.obj[x].wait_queue, Waiters(k, X, x))
          /\ k.obj[x].kind = "mbf" => IsLine(k.obj[x].recv_queue, Receivers(k, X, x))
          /\ Used(k.obj[x].kind) /\ "TPRI" \in k.obj[x].atr => Ordered(k.priority, k.obj[x].wait_queue)
      BY <1>1 DEF WaitGood, LinesGood
    <3>3. ASSUME Used(k.obj[x].kind), "TPRI" \in k.obj[x].atr
          PROVE  Ordered(r.priority, k.obj[x].wait_queue)
      <4>1. t \notin Waiters(k, X, x)
        BY <3>3 DEF Waiters, InQueue
      <4>2. \A u \in Waiters(k, X, x) : r.priority[u] = k.priority[u]
        BY <1>2, <4>1 DEF Waiters
      <4> DEFINE S == Waiters(k, X, x)
                 queue == k.obj[x].wait_queue
                 pri == k.priority
                 pri2 == r.priority
      <4>3. IsLine(queue, S) /\ Ordered(pri, queue) /\ \A u \in S : pri2[u] = pri[u]
        BY <3>2, <3>3, <4>2
      <4> HIDE DEF S, queue, pri, pri2
      <4>4. Ordered(pri2, queue)
        BY <4>3, OrderKept
      <4> QED
        BY <4>4 DEF pri2, queue
    <3> QED
      BY <1>2, <3>1, <3>2, <3>3
  <2>2. LinesGood(r, X)
    BY <2>1 DEF LinesGood
  <2>3. TimedGood(r, X)
    BY <1>1, <1>2 DEF WaitGood, TimedGood, waiting
  <2>4. \A u \in Task \ X : waiting(r, u) => WaitsFor(r, u)
    BY <1>1, <1>2, <1>3 DEF WaitGood, waiting, WaitsFor
  <2> QED
    BY <2>2, <2>3, <2>4 DEF WaitGood
<1>7. MutexGood(r, X, Z, Y)
  BY <1>1, <1>2, <1>3, MutexKept DEF SameObject, Typed, alive, waiting, SameStock
<1>8. CallsGood(r)
  <2>1. \A u \in Task : k.call[u] # NULL =>
           /\ r.klock[u] = k.klock[u] \/ (k.klock[u] = "klockwait" /\ r.klock[u] = "none")
           /\ r.state[u] = k.state[u] \/ r.state[u] \in { "ready", "suspend" }
              \/ (k.call[u].at = "wait" /\ alive(r, u))
    BY <1>2, <1>3
  <2>2. \A x \in Object : r.obj[x].kind = k.obj[x].kind /\ SameStock(k.obj[x], r.obj[x])
    BY <1>2 DEF SameStock
  <2>3. CallsGood(k) /\ r.call = k.call
    BY <1>1, <1>2
  <2> QED
    BY <2>1, <2>2, <2>3, CallsKept
<1>9. LockGood(r)
  BY <1>1, <1>2, <1>3, LockKept
<1>10. Calm(k, r)
  BY <1>2, <1>3 DEF Calm, SameRun, waiting, alive
<1> QED
  BY <1>1, <1>2, <1>4, <1>5, <1>6, <1>7, <1>8, <1>9, <1>10 DEF Good, Core

(* It is ready: out of its queue, and in again at its new place. *)
LEMMA RequeueGood ==
  ASSUME NEW k, NEW X, NEW Z, NEW Y, Good(k, X, Z, Y), NEW t \in Task \ X, k.state[t] = "ready", NEW p \in Pri
  PROVE  LET r == Requeue(k, t, p) IN Good(r, X, Z, Y) /\ Calm(k, r)
<1> DEFINE W == X \cup {t}
           d == knl_ready_queue_delete(k, t)
           e == [d EXCEPT !.priority[t] = p]
           i == knl_ready_queue_insert(e, t)
           r == knl_reschedule(i)
<1>1. Core(k, X, Z, Y) /\ X \in SUBSET Task /\ Z \in SUBSET X
  BY DEF Good, Core
<1>2. /\ Core(d, W, Z, Y) /\ Left(k, d, t) /\ d.schedtsk = k.schedtsk
      /\ \A u \in Task : u # t /\ u \in Range(k.ready) => u \in Range(d.ready)
  BY <1>1, DeleteCore
<1> HIDE DEF d
<1>3. /\ Typed(e) /\ e.state = d.state /\ e.bpriority = d.bpriority /\ e.ipriority = d.ipriority
      /\ \A u \in Task : e.priority[u] = IF u = t THEN p ELSE d.priority[u]
      /\ SameWaits(d, e) /\ SameLocks(d, e) /\ SameReady(d, e) /\ SameRun(d, e) /\ SameCounts(d, e)
      /\ e.obj = d.obj /\ e.call = d.call /\ e.mtxlist = d.mtxlist /\ e.timed = d.timed
  <2>1. Typed(d) /\ t \in Task
    BY <1>2 DEF Core
  <2> QED
    BY <2>1, PriorityIs DEF Ranked
<1> HIDE DEF e
<1>4. Changed(d, e, t) /\ d.klock[t] # "klockwait" /\ e.state[t] = "ready" /\ e.klock[t] # "klockwait"
  <2>1. d.state = k.state /\ d.klock[t] # "klockwait"
    BY <1>2 DEF Left, SameTasks
  <2> QED
    BY <1>3, <2>1 DEF Changed, SameWaits, SameLocks, SameReady
<1>5. t \in W /\ t \in W \ Z /\ W \ {t} = X
  BY <1>1
<1> HIDE DEF W
<1>6. Core(e, W, Z, Y)
  <2>1. alive(d, t) => alive(e, t)
    BY <1>3 DEF alive
  <2> QED
    BY <1>2, <1>3, <1>4, <1>5, <2>1, OutsideCore
<1>7. /\ Core(i, X, Z, Y) /\ Joined(e, i, t)
      /\ \A u \in Task : u \in Range(i.ready) <=> u = t \/ u \in Range(e.ready)
  <2>1. /\ Core(i, W \ {t}, Z, Y) /\ Joined(e, i, t)
        /\ \A u \in Task : u \in Range(i.ready) <=> u = t \/ u \in Range(e.ready)
    BY <1>4, <1>5, <1>6, InsertCore
  <2> QED
    BY <1>5, <2>1
<1> HIDE DEF i
<1>8. Good(r, X, Z, Y) /\ ButSched(i, r)
  BY <1>7, RescheduleGood
<1> HIDE DEF r
<1>9. Calm(k, r)
  <2>1. /\ r.ctxtsk = k.ctxtsk /\ r.dispatch_disabled = k.dispatch_disabled /\ r.call = k.call
        /\ r.mtxlist = k.mtxlist /\ r.wspec = k.wspec /\ r.wid = k.wid /\ r.winfo = k.winfo
        /\ r.locked = k.locked /\ r.obj = k.obj
    BY <1>2, <1>3, <1>7, <1>8 DEF Left, Joined, ButSched, SameRun, SameWaits, SameLocks
  <2>2. \A u \in Task : u \in Range(k.ready) => u \in Range(r.ready)
    BY <1>2, <1>3, <1>7, <1>8 DEF ButSched, SameReady
  <2>3. \A u \in Task : r.state[u] = k.state[u]
    <3>1. d.state = k.state /\ i.state = [e.state EXCEPT ![t] = "ready"] /\ r.state = i.state /\ e.state = d.state
      BY <1>2, <1>3, <1>7, <1>8 DEF Left, Joined, ButSched, SameTasks
    <3>2. k.state \in [Task -> States]
      BY <1>1 DEF Core, Typed, TasksTyped
    <3> QED
      BY <3>1, <3>2
  <2>4. \A u \in Task : r.klock[u] = k.klock[u] \/ (k.klock[u] = "klockwait" /\ r.klock[u] = "none")
    BY <1>2, <1>3, <1>7, <1>8 DEF Left, Joined, ButSched, SameLocks
  <2> QED
    BY <2>1, <2>2, <2>3, <2>4 DEF Calm, waiting, alive
<1> QED
  BY <1>8, <1>9 DEF Requeue, r, i, e, d

(* It waits in a queue: out of it, and in again by its new priority. *)
LEMMA MovedGood ==
  ASSUME NEW k, NEW X, NEW Z, NEW Y, Good(k, X, Z, Y), NEW t \in Task \ X, waiting(k, t),
         k.wspec[t] \in InQueue, NEW o, o = k.wid[t], NEW p \in Pri, NEW c, Ranked(k, c, t, p)
  PROVE  LET r == knl_gcb_change_priority(c, o, t) IN Good(r, X, Z, Y) /\ Calm(k, r) /\ r.priority = c.priority
<1> DEFINE W == X \cup {t}
           gone == RemoveFirst(k.obj[o].wait_queue, t)
           field == "wait_queue"
           out == [c EXCEPT !.obj[o][field] = gone]
           queue == ByPriority(out, gone, t)
           r == [out EXCEPT !.obj[o][field] = queue]
           d == knl_wait_cancel(k, t)
           e == [d EXCEPT !.priority[t] = p]
<1>1. /\ X \in SUBSET Task /\ Z \in SUBSET X
      /\ Typed(k) /\ WaitGood(k, X) /\ MutexGood(k, X, Z, Y) /\ CallsGood(k) /\ LockGood(k)
  BY DEF Good, Core
<1>2. WaitsFor(k, t) /\ o \in Object /\ Suits(k.obj[o].kind, k.wspec[t]) /\ k.wspec[t] # "rmbf" /\ Used(k.obj[o].kind)
  BY <1>1 DEF WaitGood, WaitsFor, Suits, InQueue, Used
<1>3. Cancelled(k, d, t)
  BY <1>1, <1>2, CancelIs
<1> HIDE DEF d
<1>4. Good(d, W, Z, Y)
  BY <1>3, CancelGood
<1>5. /\ Typed(e) /\ e.state = d.state
      /\ \A u \in Task : e.priority[u] = IF u = t THEN p ELSE d.priority[u]
      /\ SameWaits(d, e) /\ SameLocks(d, e) /\ SameReady(d, e) /\ SameRun(d, e) /\ SameCounts(d, e)
      /\ e.obj = d.obj /\ e.call = d.call /\ e.mtxlist = d.mtxlist /\ e.timed = d.timed
  <2>1. Typed(d)
    BY <1>3 DEF Cancelled
  <2> QED
    BY <2>1, PriorityIs DEF Ranked
<1>6. /\ Typed(c) /\ c.state = k.state /\ c.bpriority = k.bpriority /\ c.ipriority = k.ipriority
      /\ \A u \in Task : c.priority[u] = IF u = t THEN p ELSE k.priority[u]
      /\ SameWaits(k, c) /\ SameLocks(k, c) /\ SameReady(k, c) /\ SameRun(k, c) /\ SameCounts(k, c)
      /\ c.obj = k.obj /\ c.call = k.call /\ c.mtxlist = k.mtxlist /\ c.timed = k.timed
  BY DEF Ranked
<1> HIDE DEF e
<1>7. e.priority = c.priority
  <2>1. e.priority \in [Task -> Pri] /\ c.priority \in [Task -> Pri] /\ d.priority = k.priority
    BY <1>3, <1>5, <1>6 DEF Typed, TasksTyped, Cancelled, SameTasks
  <2> QED
    BY <1>5, <1>6, <2>1
<1>8. t \in W /\ t \in W \ Z /\ W \ {t} = X
  BY <1>1
<1>9. d.state = k.state /\ k.klock[t] # "klockwait" /\ d.klock = k.klock
  BY <1>1, <1>3 DEF Cancelled, SameTasks, SameLocks, LockGood, waiting
<1> HIDE DEF W
<1>10. Good(e, W, Z, Y)
  <2>1. Changed(d, e, t) /\ e.schedtsk = d.schedtsk /\ (alive(d, t) => alive(e, t)) /\ e.state[t] = d.state[t]
    BY <1>5 DEF Changed, SameWaits, SameLocks, SameReady, alive
  <2> QED
    BY <1>4, <1>5, <1>8, <1>9, <2>1, OutsideGood
<1>11. gone \in Seq(Task) /\ field = "wait_queue"
  <2>1. k.obj[o].wait_queue \in Seq(Task)
    BY <1>1, <1>2 DEF Typed, ObjectsTyped, ObjTyped
  <2> QED
    BY <2>1, RemoveTyped
<1> HIDE DEF gone, field
<1>12. Lined(c, out, o, gone, field)
  <2>1. Typed(c) /\ o \in Object /\ field = "wait_queue" /\ gone \in Seq(Task)
    BY <1>2, <1>6, <1>11
  <2> QED
    BY <2>1, LinedIs
<1> HIDE DEF out
<1>13. /\ IsLine(gone, Waiters(e, W, o))
       /\ "TPRI" \in k.obj[o].atr => Ordered(c.priority, gone)
  <2>1. IsLine(e.obj[o].wait_queue, Waiters(e, W, o))
        /\ (Used(e.obj[o].kind) /\ "TPRI" \in e.obj[o].atr => Ordered(e.priority, e.obj[o].wait_queue))
    BY <1>2, <1>10 DEF Good, Core, WaitGood, LinesGood
  <2>2. e.obj[o].wait_queue = gone
    BY <1>2, <1>3, <1>5 DEF Cancelled, gone
  <2>3. e.obj[o].kind = k.obj[o].kind /\ e.obj[o].atr = k.obj[o].atr
    BY <1>2, <1>3, <1>5 DEF Cancelled, SameObjects, SameObject
  <2> QED
    BY <1>2, <1>7, <2>1, <2>2, <2>3
<1>14. out.priority = c.priority /\ out.priority \in [Task -> Pri]
  BY <1>12 DEF Lined, SameTasks, Typed, TasksTyped
<1>15. /\ IsLine(queue, Waiters(e, W, o) \cup {t})
       /\ "TPRI" \in k.obj[o].atr => Ordered(c.priority, queue)
  <2>1. Waiters(e, W, o) \subseteq Task /\ t \notin Waiters(e, W, o)
    BY <1>8 DEF Waiters
  <2> QED
    BY <1>13, <1>14, <2>1, ByPriorityLine
<1> HIDE DEF queue
<1>16. queue \in Seq(Task)
  <2>1. Waiters(e, W, o) \cup {t} \subseteq Task
    BY DEF Waiters
  <2>2. queue \in Seq(Waiters(e, W, o) \cup {t})
    BY <1>15 DEF IsLine
  <2> QED
    BY <2>1, <2>2
<1>17. Lined(out, r, o, queue, field)
  <2>1. Typed(out)
    BY <1>12 DEF Lined
  <2> QED
    BY <1>2, <1>11, <1>16, <2>1, LinedIs
<1>18. r = knl_gcb_change_priority(c, o, t)
  <2>1. c.obj = k.obj
    BY <1>6
  <2>2. out = [c EXCEPT !.obj[o].wait_queue = RemoveFirst(@, t)]
    BY <1>11, <2>1 DEF out, gone
  <2>3. out.obj[o].wait_queue = gone
    BY <1>2, <1>11, <1>12 DEF Lined
  <2> QED
    BY <1>11, <2>2, <2>3 DEF knl_gcb_change_priority, queue
<1> HIDE DEF r
<1>19. /\ r.state = k.state /\ r.priority = c.priority /\ SameWaits(k, r) /\ SameLocks(k, r) /\ SameRun(k, r)
       /\ SameReady(k, r) /\ r.call = k.call /\ r.mtxlist = k.mtxlist /\ r.timed = k.timed /\ Typed(r)
       /\ SameObjects(k, r)
  BY <1>6, <1>12, <1>17 DEF Lined, SameTasks, SameWaits, SameLocks, SameRun, SameReady, SameObjects, SameObject, SameStock
<1>20. Blocked(e, r, W, t)
  <2>1. /\ waiting(r, t) /\ Typed(r)
        /\ \A u \in Task : u # t => r.state[u] = e.state[u] /\ r.timed[u] = e.timed[u]
    BY <1>3, <1>5, <1>9, <1>19 DEF waiting, Cancelled
  <2>2. /\ r.priority = e.priority /\ SameWaits(e, r) /\ SameLocks(e, r) /\ SameRun(e, r)
        /\ SameReady(e, r) /\ r.call = e.call /\ r.mtxlist = e.mtxlist
    BY <1>3, <1>5, <1>7, <1>19 DEF Cancelled, SameWaits, SameLocks, SameRun, SameReady
  <2>3. SameObjects(e, r)
    BY <1>3, <1>5, <1>19 DEF Cancelled, SameObjects, SameObject, SameStock
  <2>4. e.wid[t] = o /\ e.wspec[t] # "rmbf"
    BY <1>2, <1>3, <1>5 DEF Cancelled, SameWaits
  <2>5. ASSUME NEW x \in Object
        PROVE  /\ IF x = e.wid[t] /\ e.wspec[t] # "rmbf"
                  THEN /\ IsLine(r.obj[x].wait_queue, Waiters(e, W, x) \cup {t})
                       /\ Used(e.obj[x].kind) /\ "TPRI" \in e.obj[x].atr => Ordered(e.priority, r.obj[x].wait_queue)
                  ELSE r.obj[x].wait_queue = e.obj[x].wait_queue
               /\ e.obj[x].kind = "mbf" =>
                    r.obj[x].recv_queue = e.obj[x].recv_queue
    <3>1. e.obj[x].kind = k.obj[x].kind /\ (Used(k.obj[x].kind) => e.obj[x].atr = k.obj[x].atr)
      BY <1>3, <1>5 DEF Cancelled, SameObjects, SameObject
    <3>2. k.obj[x].kind = "mbf" => r.obj[x].recv_queue = k.obj[x].recv_queue /\ e.obj[x].recv_queue = k.obj[x].recv_queue
      <4>1. k.obj[x].kind = "mbf" => e.obj[x].recv_queue = k.obj[x].recv_queue
        BY <1>2, <1>3, <1>5 DEF Cancelled
      <4>2. c.obj[x].kind = k.obj[x].kind /\ out.obj[x].kind = c.obj[x].kind
        BY <1>6, <1>12 DEF Lined, SameObjects, SameObject
      <4>3. k.obj[x].kind = "mbf" => r.obj[x].recv_queue = k.obj[x].recv_queue
        BY <1>6, <1>11, <1>12, <1>17, <4>2 DEF Lined
      <4> QED
        BY <4>1, <4>3
    <3>3. CASE x = o
      <4>1. r.obj[x].wait_queue = queue
        BY <1>2, <1>11, <1>17, <3>3 DEF Lined
      <4> QED
        BY <1>7, <1>15, <2>4, <3>1, <3>2, <3>3, <4>1
    <3>4. CASE x # o
      <4>1. r.obj[x].wait_queue = k.obj[x].wait_queue /\ e.obj[x].wait_queue = k.obj[x].wait_queue
        BY <1>3, <1>5, <1>6, <1>12, <1>17, <3>4 DEF Lined, Cancelled
      <4> QED
        BY <2>4, <3>1, <3>2, <3>4, <4>1
    <3> QED
      BY <3>3, <3>4
  <2> QED
    BY <2>1, <2>2, <2>3, <2>4, <2>5 DEF Blocked
<1>21. MayBlock(e, t)
  <2>1. /\ SameWaits(k, e) /\ e.wspec = k.wspec /\ e.wid = k.wid /\ e.klock = k.klock /\ e.state = k.state /\ e.call = k.call
        /\ e.mtxlist = k.mtxlist /\ SameObjects(k, e)
    BY <1>3, <1>5 DEF Cancelled, SameWaits, SameLocks, SameTasks, SameObjects
  <2>2. WaitsFor(e, t)
    BY <1>2, <2>1 DEF WaitsFor, SameWaits, SameObjects, SameObject
  <2>3. alive(e, t) /\ (e.call[t] # NULL => e.call[t].at = "wait")
    BY <1>1, <2>1 DEF CallsGood, CallGood, alive, waiting
  <2>4. ASSUME e.wspec[t] = "mtx"
        PROVE  /\ e.obj[e.wid[t]].mtxtsk # NULL
               /\ \A m \in Range(e.mtxlist[t]) : Rank[m] < Rank[e.wid[t]]
    <3>1. k.wspec[t] = "mtx" /\ k.obj[o].kind = "mtx"
      BY <1>2, <2>1, <2>4 DEF Suits
    <3>2. t \in Waiters(k, X, o)
      BY DEF Waiters
    <3>3. k.obj[o].wait_queue # << >>
      <4>1. IsLine(k.obj[o].wait_queue, Waiters(k, X, o))
        BY <1>1, <1>2 DEF WaitGood, LinesGood
      <4> QED
        BY <3>2, <4>1, LineRange
    <3>4. k.obj[o].mtxtsk # NULL
      BY <1>1, <1>2, <3>1, <3>3 DEF MutexGood, OwnerGood
    <3>5. e.obj[o].mtxtsk = k.obj[o].mtxtsk
      BY <1>2, <2>1, <3>1 DEF SameObjects, SameObject
    <3>6. \A m \in Range(k.mtxlist[t]) : Rank[m] < Rank[k.wid[t]]
      BY <1>1, <3>1 DEF MutexGood, RankGood
    <3> QED
      BY <2>1, <3>4, <3>5, <3>6
  <2> QED
    BY <1>9, <2>1, <2>2, <2>3, <2>4 DEF MayBlock
<1>22. Good(r, X, Z, Y)
  <2>1. Good(r, W \ {t}, Z, Y)
    BY <1>8, <1>10, <1>20, <1>21, BlockGood
  <2> QED
    BY <1>8, <2>1
<1>23. Calm(k, r)
  BY <1>19 DEF Calm, SameWaits, SameLocks, SameRun, SameReady, SameObjects, SameObject, waiting, alive
<1> QED
  BY <1>18, <1>19, <1>22, <1>23

-----------------------------------------------------------------------------
(***************************************************************************)
(* A change of priority goes from a task to the owner of the mutex it      *)
(* waits for, and on.  It never comes to a task of X: those have mutexes   *)
(* that come before the one that is waited for.                            *)
(***************************************************************************)
Above(k, X, Y, m) ==
  /\ Y \subseteq Object
  /\ \A x \in X, n \in Object : Holds(k, x, n) => Rank[n] < Rank[m]
  /\ \A n \in Y : Rank[n] < Rank[m]
Start(k, X, Y, u) ==
  /\ u \in Task /\ u \notin X
  /\ waiting(k, u) /\ k.wspec[u] = "mtx" => Above(k, X, Y, k.wid[u])

LEMMA StartCalm ==
  ASSUME NEW k, NEW X, NEW Y, NEW u, Start(k, X, Y, u), NEW r, Calm(k, r), Typed(k), X \subseteq Task
  PROVE  Start(r, X, Y, u)
<1>1. u \in Task /\ u \notin X
  BY DEF Start
<1>2. ASSUME waiting(r, u), r.wspec[u] = "mtx"
      PROVE  Above(r, X, Y, r.wid[u])
  <2>1. waiting(k, u) /\ k.wspec[u] = "mtx" /\ r.wid[u] = k.wid[u]
    BY <1>1, <1>2 DEF Calm
  <2>2. Above(k, X, Y, k.wid[u])
    BY <2>1 DEF Start
  <2>3. \A x \in X, n \in Object : Holds(r, x, n) => Holds(k, x, n)
    BY DEF Calm, Holds
  <2> QED
    BY <2>1, <2>2, <2>3 DEF Above
<1> QED
  BY <1>1, <1>2 DEF Start

(* The owner of the mutex that a task waits for. *)
LEMMA StartNext ==
  ASSUME NEW k, NEW X, NEW Z, NEW Y, Good(k, X, Z, Y), NEW t, Start(k, X, Y, t), waiting(k, t),
         k.wspec[t] = "mtx", NEW m, m = k.wid[t], NEW owner, owner = k.obj[m].mtxtsk
  PROVE  Start(k, X, Y, owner)
<1>1. /\ X \in SUBSET Task /\ Typed(k) /\ WaitGood(k, X) /\ OwnerGood(k, Y) /\ RankGood(k, X)
  BY DEF Good, Core, MutexGood
<1>2. t \in Task \ X /\ Above(k, X, Y, m)
  BY DEF Start
<1>3. m \in Object /\ k.obj[m].kind = "mtx"
  <2>1. WaitsFor(k, t)
    BY <1>1, <1>2 DEF WaitGood
  <2> QED
    BY <2>1 DEF WaitsFor, Suits
<1>4. k.obj[m].wait_queue # << >>
  <2>1. IsLine(k.obj[m].wait_queue, Waiters(k, X, m)) /\ t \in Waiters(k, X, m)
    BY <1>1, <1>2, <1>3 DEF WaitGood, LinesGood, Waiters, InQueue
  <2> QED
    BY <2>1, LineRange
<1>5. owner # NULL /\ owner \in Task
  <2>1. owner # NULL
    BY <1>1, <1>3, <1>4 DEF OwnerGood
  <2>2. owner \in Task \cup {NULL}
    BY <1>1, <1>3 DEF Typed, ObjectsTyped, ObjTyped
  <2> QED
    BY <2>1, <2>2
<1>6. Rank[m] \in Nat
  BY <1>3, KernelAssumption
<1>7. owner \notin X
  <2>1. Holds(k, owner, m)
    BY <1>3 DEF Holds
  <2> QED
    BY <1>2, <1>3, <1>6, <2>1 DEF Above
<1>8. m \in Range(k.mtxlist[owner])
  <2>1. m \notin Y
    BY <1>2, <1>6 DEF Above
  <2> QED
    BY <1>1, <1>3, <1>5, <2>1 DEF OwnerGood
<1>9. ASSUME waiting(k, owner), k.wspec[owner] = "mtx"
      PROVE  Above(k, X, Y, k.wid[owner])
  <2> DEFINE n == k.wid[owner]
  <2>1. WaitsFor(k, owner)
    BY <1>1, <1>5, <1>7, <1>9 DEF WaitGood
  <2>2. n \in Object
    BY <1>9, <2>1 DEF WaitsFor
  <2>3. Rank[m] < Rank[n]
    BY <1>1, <1>5, <1>7, <1>8, <1>9 DEF RankGood
  <2> HIDE DEF n
  <2>4. Rank[n] \in Nat /\ \A y \in Object : Rank[y] \in Nat
    BY <2>2, KernelAssumption
  <2> HIDE DEF Holds
  <2>5. Above(k, X, Y, n)
    BY <1>2, <1>6, <2>3, <2>4 DEF Above
  <2> QED
    BY <2>5 DEF n
<1> QED
  BY <1>5, <1>7, <1>9 DEF Start

(* What mutexes ask for is a priority. *)
LEMMA DemandsIn ==
  ASSUME NEW k, Typed(k), NEW S, \A m \in S : m \in Object /\ k.obj[m].kind = "mtx"
  PROVE  Demands(k, S) \subseteq Pri
<1>1. ASSUME NEW m \in S
      PROVE  k.obj[m].ceilpri \in Pri /\ (mtx_waited(k, m) => Head_Pri(k, m) \in Pri)
  <2>1. k.obj[m].ceilpri \in Pri /\ k.obj[m].wait_queue \in Seq(Task)
    BY <1>1 DEF Typed, ObjectsTyped, ObjTyped
  <2>2. ASSUME mtx_waited(k, m)
        PROVE  Head_Pri(k, m) \in Pri
    <3>1. Head(k.obj[m].wait_queue) \in Task
      BY <2>1, <2>2 DEF mtx_waited
    <3> QED
      BY <3>1 DEF Head_Pri, Typed, TasksTyped
  <2> QED
    BY <2>1, <2>2
<1> QED
  BY <1>1 DEF Demands

LEMMA HighestIn ==
  ASSUME NEW k, Typed(k), NEW S, \A m \in S : m \in Object /\ k.obj[m].kind = "mtx", NEW p \in Pri
  PROVE  Min({ p } \cup Demands(k, S)) \in Pri
<1> DEFINE D == { p } \cup Demands(k, S)
<1>1. D \subseteq Pri /\ D # {}
  BY DemandsIn
<1>2. Pri \subseteq Nat
  BY KernelTaskAssumption DEF Pri
<1> HIDE DEF D
<1>3. Min(D) \in D
  BY <1>1, <1>2, MinIn
<1> QED
  BY <1>1, <1>3 DEF D

(* Nothing, or the task it is about gets another priority. *)
Dropped(k, t, m, d) ==
  /\ d.k = [k EXCEPT !.mtxlist[t] = RemoveFirst(k.mtxlist[t], m)]
  /\ d.t = NULL \/ (d.t = t /\ d.priority \in Pri)
  /\ m \notin Object => d.k = k

LEMMA ReleaseNext ==
  ASSUME NEW k, NEW X, NEW Z, NEW Y, Good(k, X, Z, Y), NEW t \in Task \ X, NEW m
  PROVE  Dropped(k, t, m, release_mutex(k, t, m))
<1> DEFINE left == RemoveFirst(k.mtxlist[t], m)
           out == [k EXCEPT !.mtxlist[t] = left]
           newpri == Min({ k.bpriority[t] } \cup Demands(k, Range(left)))
           d == release_mutex(k, t, m)
<1>1. /\ X \in SUBSET Task /\ Z \in SUBSET X /\ Typed(k) /\ ListGood(k, Z, Y)
      /\ k.mtxlist \in [Task -> Seq(Object)] /\ k.bpriority[t] \in Pri /\ IsFun(k, Fields)
  BY DEF Good, Core, MutexGood, Typed, TasksTyped
<1>2. k.mtxlist[t] \in Seq(Object)
  BY <1>1
<1>3. Range(left) \subseteq Range(k.mtxlist[t])
  <2> DEFINE q == k.mtxlist[t]
             S == Range(q)
  <2>1. q \in Seq(Object)
    BY <1>2
  <2>2. q \in Seq(S)
    BY <2>1 DEF Range
  <2> HIDE DEF q, S
  <2>3. RemoveFirst(q, m) \in Seq(S)
    BY <2>2, RemoveTyped
  <2>4. Range(RemoveFirst(q, m)) \subseteq S
    BY <2>3 DEF Range
  <2> QED
    BY <2>4 DEF q, S
<1>4. \A n \in Range(left) : n \in Object /\ k.obj[n].kind = "mtx"
  <2>1. t \notin Z
    BY <1>1
  <2>2. \A n \in Range(k.mtxlist[t]) : Holds(k, t, n) /\ n \in Object
    BY <1>1, <1>2, <2>1 DEF ListGood, Range
  <2> QED
    BY <1>3, <2>2 DEF Holds
<1>5. d = IF newpri = k.priority[t] THEN Done(out) ELSE Then(out, t, newpri)
  BY DEF release_mutex
<1> HIDE DEF left
<1>6. newpri \in Pri
  BY <1>1, <1>4, HighestIn
<1> HIDE DEF newpri, out, d
<1>7. d.k = out /\ (d.t = NULL \/ (d.t = t /\ d.priority \in Pri))
  BY <1>5, <1>6 DEF Done, Then
<1>8. ASSUME m \notin Object
      PROVE  out = k
  <2>1. left = k.mtxlist[t]
    <3>1. \A i \in DOMAIN k.mtxlist[t] : k.mtxlist[t][i] # m
      BY <1>2, <1>8
    <3> QED
      BY <1>2, <3>1, RemoveFirstIs DEF left
  <2>2. [k.mtxlist EXCEPT ![t] = left] = k.mtxlist
    BY <1>1, <2>1
  <2>3. out = [k EXCEPT !.mtxlist = k.mtxlist]
    BY <2>2 DEF out
  <2> QED
    BY <1>1, <2>3 DEF IsFun, IsRec, Fields
<1> QED
  BY <1>7, <1>8 DEF d, out, left, Dropped

(* Semaphores, when one who waited is gone. *)
LEMMA RelWaiGood ==
  ASSUME NEW k, NEW X, NEW Z, NEW Y, Good(k, X, Z, Y), NEW o \in Object
  PROVE  LET r == sem_rel_wai(k, o) IN Good(r, X, Z, Y) /\ Calm(k, r)
<1> DEFINE r == sem_rel_wai(k, o)
           semcnt == k.obj[o].semcnt
           skip == FALSE
           s == Serve(k, o, semcnt, skip)
<1>1. r = IF "CNT" \in k.obj[o].atr THEN k ELSE s
  BY DEF sem_rel_wai
<1> HIDE DEF semcnt, skip
<1>2. Good(s, X, Z, Y) /\ Calm(k, s)
  BY ServeGood
<1> HIDE DEF s, r
<1> QED
  BY <1>1, <1>2, CalmSelf DEF r

(* What is left to do after a step. *)
Onward(k, X, Z, Y, d) ==
  /\ Good(d.k, X, Z, Y) /\ Calm(k, d.k)
  /\ d.t = NULL \/ (Start(d.k, X, Y, d.t) /\ d.priority \in Pri)

LEMMA DoneOnward ==
  ASSUME NEW k, NEW X, NEW Z, NEW Y, NEW r, Good(r, X, Z, Y), Calm(k, r)
  PROVE  Onward(k, X, Z, Y, Done(r))
BY DEF Onward, Done

LEMMA ThenOnward ==
  ASSUME NEW k, NEW X, NEW Z, NEW Y, NEW r, Good(r, X, Z, Y), Calm(k, r),
         NEW u, Start(k, X, Y, u), NEW p \in Pri, Typed(k), X \subseteq Task
  PROVE  Onward(k, X, Z, Y, Then(r, u, p))
<1>1. Start(r, X, Y, u)
  BY StartCalm
<1> QED
  BY <1>1 DEF Onward, Then

LEMMA ReleaseOnward ==
  ASSUME NEW k, NEW X, NEW Z, NEW Y, Good(k, X, Z, Y), NEW u, Start(k, X, Y, u)
  PROVE  Onward(k, X, Z, Y, release_mutex(k, u, NULL))
<1>1. u \in Task \ X /\ NULL \notin Object
  BY KernelTaskAssumption DEF Start
<1> DEFINE e(m) == release_mutex(k, u, m)
<1>2. Dropped(k, u, NULL, e(NULL))
  BY <1>1, ReleaseNext
<1>3. e(NULL).t = NULL \/ (e(NULL).t = u /\ e(NULL).priority \in Pri)
  BY <1>2 DEF Dropped
<1>4. e(NULL).k = k
  BY <1>1, <1>2 DEF Dropped
<1> DEFINE d == e(NULL)
<1> HIDE DEF e, d
<1>5. (d.t = NULL \/ (d.t = u /\ d.priority \in Pri)) /\ d.k = k
  BY <1>3, <1>4 DEF d
<1>6. Onward(k, X, Z, Y, d)
  BY <1>5, CalmSelf DEF Onward
<1> QED
  BY <1>6 DEF d, e

LEMMA MtxOnward ==
  ASSUME NEW k, NEW X, NEW Z, NEW Y, Good(k, X, Z, Y), NEW t, Start(k, X, Y, t), waiting(k, t),
         k.wspec[t] = "mtx", NEW m, m = k.wid[t], NEW p \in Pri, NEW c, Ranked(k, c, t, p), NEW oldpri
  PROVE  Onward(k, X, Z, Y, mtx_chg_pri(c, m, t, oldpri))
<1> DEFINE moved == knl_gcb_change_priority(c, m, t)
           owner == k.obj[m].mtxtsk
           d == mtx_chg_pri(c, m, t, oldpri)
<1>1. t \in Task \ X /\ k.wspec[t] \in InQueue
  BY DEF Start, InQueue
<1>2. Good(moved, X, Z, Y) /\ Calm(k, moved)
  BY <1>1, MovedGood
<1>3. Start(k, X, Y, owner)
  BY StartNext
<1>4. c.obj = k.obj /\ c.priority[t] = p
  BY <1>1 DEF Ranked
<1>5. d = IF "INHERIT" \notin c.obj[m].atr THEN Done(moved)
          ELSE IF c.priority[owner] > c.priority[t] THEN Then(moved, owner, c.priority[t])
          ELSE IF c.priority[owner] = oldpri THEN release_mutex(moved, owner, NULL)
          ELSE Done(moved)
  BY <1>4 DEF mtx_chg_pri
<1> HIDE DEF moved, d, owner
<1>6. Typed(k) /\ X \subseteq Task
  BY DEF Good, Core
<1>7. Start(moved, X, Y, owner)
  BY <1>2, <1>3, <1>6, StartCalm
<1>8. CASE d = Done(moved)
  <2>1. Onward(k, X, Z, Y, Done(moved))
    BY <1>2, DoneOnward
  <2> QED
    BY <1>8, <2>1 DEF d
<1>9. CASE d = Then(moved, owner, c.priority[t])
  <2>1. Onward(k, X, Z, Y, Then(moved, owner, p))
    BY <1>2, <1>3, <1>6, ThenOnward
  <2> QED
    BY <1>4, <1>9, <2>1 DEF d
<1>10. CASE d = release_mutex(moved, owner, NULL)
  <2>1. Onward(moved, X, Z, Y, d)
    BY <1>2, <1>7, <1>10, ReleaseOnward
  <2>2. Onward(k, X, Z, Y, d)
    BY <1>2, <2>1, CalmBoth DEF Onward
  <2> QED
    BY <2>2 DEF d
<1> QED
  BY <1>5, <1>8, <1>9, <1>10 DEF d

LEMMA HookOnward ==
  ASSUME NEW k, NEW X, NEW Z, NEW Y, Good(k, X, Z, Y), NEW t, Start(k, X, Y, t), waiting(k, t),
         NEW p \in Pri, NEW c, Ranked(k, c, t, p), NEW oldpri
  PROVE  Onward(k, X, Z, Y, chg_pri_hook(c, t, oldpri))
<1> DEFINE o == k.wid[t]
           w == k.wspec[t]
           d == chg_pri_hook(c, t, oldpri)
           moved == knl_gcb_change_priority(c, o, t)
<1>1. t \in Task \ X /\ Typed(k) /\ X \subseteq Task /\ WaitGood(k, X)
  BY DEF Start, Good, Core
<1>2. c.obj = k.obj /\ c.wid = k.wid /\ c.wspec = k.wspec
  BY DEF Ranked, SameWaits
<1>3. WaitsFor(k, t)
  BY <1>1 DEF WaitGood
<1>4. CASE w \in { "slp", "dly", "rmbf" } \/ "TPRI" \notin k.obj[o].atr
  <2>1. d = Done(c)
    BY <1>2, <1>4 DEF chg_pri_hook
  <2>2. k.state[t] # "ready"
    BY DEF waiting
  <2>3. Good(c, X, Z, Y) /\ Calm(k, c)
    BY <1>1, <1>4, <2>2, PriorityOnlyGood
  <2> QED
    BY <2>1, <2>3, DoneOnward
<1>5. CASE ~ (w \in { "slp", "dly", "rmbf" } \/ "TPRI" \notin k.obj[o].atr)
  <2>1. w \in InQueue /\ o \in Object
    BY <1>3, <1>5 DEF WaitsFor, Suits, InQueue
  <2>2. d = CASE w = "mtx"  -> mtx_chg_pri(c, o, t, oldpri)
              [] w = "sem"  -> Done(sem_chg_pri(c, o, t))
              [] w = "smbf" -> Done(mbf_chg_pri(c, o, t))
              [] w = "mpl"  -> Done(mpl_chg_pri(c, o, t))
              [] OTHER -> Done(knl_gcb_change_priority(c, o, t))
    BY <1>2, <1>5 DEF chg_pri_hook
  <2>3. Good(moved, X, Z, Y) /\ Calm(k, moved)
    BY <1>1, <2>1, MovedGood
  <2>4. CASE w = "mtx"
    <3>1. Onward(k, X, Z, Y, mtx_chg_pri(c, o, t, oldpri))
      BY <2>4, MtxOnward
    <3>2. d = mtx_chg_pri(c, o, t, oldpri)
      BY <2>2, <2>4
    <3> QED
      BY <3>1, <3>2
  <2>5. CASE w = "sem"
    <3>1. d = Done(sem_rel_wai(moved, o))
      BY <2>2, <2>5 DEF sem_chg_pri
    <3> HIDE DEF moved, o
    <3>2. Good(sem_rel_wai(moved, o), X, Z, Y) /\ Calm(moved, sem_rel_wai(moved, o))
      BY <2>1, <2>3, RelWaiGood
    <3>3. Calm(k, sem_rel_wai(moved, o))
      BY <2>3, <3>2, CalmBoth
    <3>4. Onward(k, X, Z, Y, Done(sem_rel_wai(moved, o)))
      BY <3>2, <3>3, DoneOnward
    <3> QED
      BY <3>1, <3>4
  <2>6. CASE w = "smbf"
    <3>1. d = Done(knl_mbf_wakeup(moved, o))
      BY <2>2, <2>6 DEF mbf_chg_pri
    <3> HIDE DEF moved, o
    <3>2. Good(knl_mbf_wakeup(moved, o), X, Z, Y) /\ Calm(moved, knl_mbf_wakeup(moved, o))
      BY <2>1, <2>3, MbfWakeupGood
    <3>3. Calm(k, knl_mbf_wakeup(moved, o))
      BY <2>3, <3>2, CalmBoth
    <3>4. Onward(k, X, Z, Y, Done(knl_mbf_wakeup(moved, o)))
      BY <3>2, <3>3, DoneOnward
    <3> QED
      BY <3>1, <3>4
  <2>7. CASE w = "mpl"
    <3>1. d = Done(knl_mpl_wakeup(moved, o))
      BY <2>2, <2>7 DEF mpl_chg_pri
    <3> HIDE DEF moved, o
    <3>2. Good(knl_mpl_wakeup(moved, o), X, Z, Y) /\ Calm(moved, knl_mpl_wakeup(moved, o))
      BY <2>1, <2>3, MplWakeupGood
    <3>3. Calm(k, knl_mpl_wakeup(moved, o))
      BY <2>3, <3>2, CalmBoth
    <3>4. Onward(k, X, Z, Y, Done(knl_mpl_wakeup(moved, o)))
      BY <3>2, <3>3, DoneOnward
    <3> QED
      BY <3>1, <3>4
  <2>8. CASE w \notin { "mtx", "sem", "smbf", "mpl" }
    <3>1. d = Done(moved)
      BY <2>2, <2>8
    <3> QED
      BY <2>3, <3>1, DoneOnward
  <2> QED
    BY <2>4, <2>5, <2>6, <2>7, <2>8
<1> QED
  BY <1>4, <1>5

(* One task gets another priority. *)
LEMMA ChangeOnward ==
  ASSUME NEW k, NEW X, NEW Z, NEW Y, Good(k, X, Z, Y), NEW t, Start(k, X, Y, t), NEW p \in Pri
  PROVE  Onward(k, X, Z, Y, change_priority(k, t, p))
<1> DEFINE c == [k EXCEPT !.priority[t] = p]
           oldpri == k.priority[t]
           d == change_priority(k, t, p)
<1>1. t \in Task \ X /\ Typed(k)
  BY DEF Start, Good, Core
<1>2. Ranked(k, c, t, p)
  BY <1>1, PriorityIs
<1>3. d = IF k.state[t] = "ready" THEN Done(Requeue(k, t, p))
          ELSE IF waiting(k, t) THEN chg_pri_hook(c, t, oldpri) ELSE Done(c)
  BY DEF change_priority
<1> HIDE DEF c, d, oldpri
<1>4. CASE k.state[t] = "ready"
  <2>1. Good(Requeue(k, t, p), X, Z, Y) /\ Calm(k, Requeue(k, t, p))
    BY <1>1, <1>4, RequeueGood
  <2>2. Onward(k, X, Z, Y, Done(Requeue(k, t, p)))
    BY <2>1, DoneOnward
  <2> QED
    BY <1>3, <1>4, <2>2 DEF d
<1>5. CASE waiting(k, t)
  <2>1. k.state[t] # "ready"
    BY <1>5 DEF waiting
  <2>2. Onward(k, X, Z, Y, chg_pri_hook(c, t, oldpri))
    BY <1>2, <1>5, HookOnward
  <2> QED
    BY <1>3, <1>5, <2>1, <2>2 DEF d
<1>6. CASE k.state[t] # "ready" /\ ~ waiting(k, t)
  <2>1. Good(c, X, Z, Y) /\ Calm(k, c)
    BY <1>1, <1>2, <1>6, PriorityOnlyGood
  <2>2. Onward(k, X, Z, Y, Done(c))
    BY <2>1, DoneOnward
  <2> QED
    BY <1>3, <1>6, <2>2 DEF d
<1> QED
  BY <1>4, <1>5, <1>6

(* All of it. *)
ChangesBy(first, f) ==
  Turns(f, "change", NULL, first, MaxTurns) /\ AllDone(first) = f[MaxTurns].k

LEMMA TurnsNatural == MaxTurns \in Nat
<1>1. Cardinality(Task) \in Nat
  BY KernelTaskAssumption, FS_CardinalityType
<1> QED
  BY <1>1, KernelTaskAssumption DEF MaxTurns

LEMMA ChangeTurns ==
  ASSUME NEW first
  PROVE  \E f : ChangesBy(first, f)
<1> DEFINE n == MaxTurns
           IsAfter(g) == g = [i \in 0 .. n |-> IF i = 0 THEN first
                                ELSE LET before == g[i - 1]
                                     IN  IF before.t = NULL THEN before
                                         ELSE change_priority(before.k, before.t, before.priority)]
           f == CHOOSE g : IsAfter(g)
<1>1. n \in Nat
  BY TurnsNatural
<1>2. AllDone(first) = f[n].k
  BY DEF AllDone
<1>3. ASSUME NEW g
      PROVE  IsLoop(g, "change", NULL, first, n) <=> IsAfter(g)
  BY DEF IsLoop, Turn
<1> HIDE DEF n
<1>4. PICK g : IsLoop(g, "change", NULL, first, n)
  BY <1>1, Looping
<1>5. IsAfter(f)
  BY <1>3, <1>4
<1>6. IsLoop(f, "change", NULL, first, n)
  BY <1>3, <1>5
<1> HIDE DEF f, IsAfter
<1>7. Turns(f, "change", NULL, first, n)
  BY <1>1, <1>6, LoopTurns
<1> QED
  BY <1>2, <1>7 DEF ChangesBy, n

LEMMA AllDoneGood ==
  ASSUME NEW k, NEW X, NEW Z, NEW Y, NEW first, Onward(k, X, Z, Y, first)
  PROVE  Good(AllDone(first), X, Z, Y) /\ Calm(k, AllDone(first))
<1> DEFINE n == MaxTurns
<1>1. PICK f : ChangesBy(first, f)
  BY ChangeTurns
<1> DEFINE S == { i \in 0 .. n : Onward(k, X, Z, Y, f[i]) }
<1>2. n \in Nat
  BY TurnsNatural
<1>3. Turns(f, "change", NULL, first, n) /\ AllDone(first) = f[n].k
  BY <1>1 DEF ChangesBy
<1> HIDE DEF n
<1>4. 0 \in S
  BY <1>2, <1>3 DEF Turns
<1>5. ASSUME NEW i \in 0 .. n - 1, i \in S
      PROVE  i + 1 \in S
  <2> DEFINE x == f[i]
             y == f[i + 1]
  <2>1. y = Turn("change", NULL, i + 1, x)
    BY <1>2, <1>3 DEF Turns
  <2>2. y = IF x.t = NULL THEN x ELSE change_priority(x.k, x.t, x.priority)
    BY <2>1 DEF Turn
  <2>3. Onward(k, X, Z, Y, x)
    BY <1>5
  <2> HIDE DEF x, y
  <2>4. CASE x.t = NULL
    BY <2>2, <2>3, <2>4, <1>2 DEF y
  <2>5. CASE x.t # NULL
    <3>1. Good(x.k, X, Z, Y) /\ Calm(k, x.k) /\ Start(x.k, X, Y, x.t) /\ x.priority \in Pri
      BY <2>3, <2>5 DEF Onward
    <3>2. Onward(x.k, X, Z, Y, change_priority(x.k, x.t, x.priority))
      BY <3>1, ChangeOnward
    <3>3. y = change_priority(x.k, x.t, x.priority)
      BY <2>2, <2>5
    <3>4. Onward(x.k, X, Z, Y, y)
      BY <3>2, <3>3
    <3>5. Onward(k, X, Z, Y, y)
      BY <3>1, <3>4, CalmBoth DEF Onward
    <3> QED
      BY <3>5, <1>2 DEF y
  <2> QED
    BY <2>4, <2>5
<1> HIDE DEF S
<1>6. \A i \in 0 .. n : i \in S
  BY <1>2, <1>4, <1>5, InductionTo
<1>7. Onward(k, X, Z, Y, f[n])
  BY <1>2, <1>6 DEF S
<1> QED
  BY <1>3, <1>7 DEF Onward

LEMMA ChangeGood ==
  ASSUME NEW k, NEW X, NEW Z, NEW Y, Good(k, X, Z, Y), NEW t, Start(k, X, Y, t), NEW p \in Pri
  PROVE  LET r == knl_change_task_priority(k, t, p) IN Good(r, X, Z, Y) /\ Calm(k, r)
<1>1. Typed(k) /\ X \subseteq Task
  BY DEF Good, Core
<1>2. Onward(k, X, Z, Y, Then(k, t, p))
  BY <1>1, CalmSelf, ThenOnward
<1> QED
  BY <1>2, AllDoneGood DEF knl_change_task_priority

LEMMA ResetGood ==
  ASSUME NEW k, NEW X, NEW Z, NEW Y, Good(k, X, Z, Y), NEW t, Start(k, X, Y, t)
  PROVE  LET r == reset_priority(k, t) IN Good(r, X, Z, Y) /\ Calm(k, r)
<1>1. Onward(k, X, Z, Y, release_mutex(k, t, NULL))
  BY ReleaseOnward
<1> QED
  BY <1>1, AllDoneGood DEF reset_priority, knl_release_mutex

(* The same when the task that waits is on its way. *)
LEMMA StartAside ==
  ASSUME NEW k, NEW X, NEW Z, NEW Y, Good(k, X, Z, Y), NEW t, Start(k, X, Y, t), waiting(k, t),
         k.wspec[t] = "mtx", NEW m, m = k.wid[t], NEW owner, owner = k.obj[m].mtxtsk
  PROVE  Start(k, X \cup {t}, Y, owner)
<1>1. /\ X \in SUBSET Task /\ Typed(k) /\ WaitGood(k, X) /\ OwnerGood(k, Y) /\ RankGood(k, X)
  BY DEF Good, Core, MutexGood
<1>2. t \in Task \ X /\ Above(k, X, Y, m)
  BY DEF Start
<1>3. m \in Object /\ k.obj[m].kind = "mtx"
  <2>1. WaitsFor(k, t)
    BY <1>1, <1>2 DEF WaitGood
  <2> QED
    BY <2>1 DEF WaitsFor, Suits
<1>4. Start(k, X, Y, owner)
  BY StartNext
<1>5. \A n \in Object : Rank[n] \in Nat
  BY KernelAssumption
<1>6. ASSUME NEW n \in Object, Holds(k, t, n)
      PROVE  Rank[n] < Rank[m]
  <2>1. CASE n \in Y
    BY <1>2, <2>1 DEF Above
  <2>2. CASE n \notin Y
    <3>1. t # NULL
      BY <1>2, KernelTaskAssumption
    <3>2. n \in Range(k.mtxlist[t])
      BY <1>1, <1>6, <2>2, <3>1 DEF OwnerGood, Holds
    <3> QED
      BY <1>1, <1>2, <3>2 DEF RankGood
  <2> QED
    BY <2>1, <2>2
<1>7. Holds(k, owner, m)
  BY <1>3 DEF Holds
<1>8. owner # t
  BY <1>3, <1>5, <1>6, <1>7
<1>9. owner \in Task \ X
  BY <1>4 DEF Start
<1>10. ASSUME waiting(k, owner), k.wspec[owner] = "mtx"
       PROVE  Above(k, X \cup {t}, Y, k.wid[owner])
  <2> DEFINE n == k.wid[owner]
  <2>1. WaitsFor(k, owner)
    BY <1>1, <1>9, <1>10 DEF WaitGood
  <2>2. n \in Object
    BY <1>10, <2>1 DEF WaitsFor
  <2>3. m \in Range(k.mtxlist[owner])
    <3>1. m \notin Y
      BY <1>2, <1>3, <1>5 DEF Above
    <3>2. owner # NULL
      BY <1>9, KernelTaskAssumption
    <3> QED
      BY <1>1, <1>3, <3>1, <3>2 DEF OwnerGood
  <2>4. Rank[m] < Rank[n]
    BY <1>1, <1>9, <1>10, <2>3 DEF RankGood
  <2>5. Above(k, X, Y, n)
    BY <1>4, <1>10 DEF Start
  <2> HIDE DEF n, Holds
  <2>6. \A x \in Object : Holds(k, t, x) => Rank[x] < Rank[n]
    BY <1>3, <1>5, <1>6, <2>2, <2>4
  <2>7. Above(k, X \cup {t}, Y, n)
    BY <2>5, <2>6 DEF Above
  <2> QED
    BY <2>7 DEF n
<1> HIDE DEF Above
<1> QED
  BY <1>8, <1>9, <1>10 DEF Start

(***************************************************************************)
(* The object is told of the end of a wait.                                *)
(***************************************************************************)
LEMMA ToldGood ==
  ASSUME NEW k, NEW X, NEW Z, NEW Y, Good(k, X, Z, Y), NEW w, NEW o, NEW t,
         w \in { "slp", "dly" } \/ o \in Object, w = "mtx" => Start(k, X, Y, k.obj[o].mtxtsk)
  PROVE  LET r == rel_wai_hook(k, w, o, t) IN Good(r, X, Z, Y) /\ Calm(k, r)
<1> DEFINE r == rel_wai_hook(k, w, o, t)
           owner == k.obj[o].mtxtsk
<1>1. r = CASE w = "mtx" /\ "INHERIT" \in k.obj[o].atr ->
                   (IF k.priority[owner] = k.priority[t] THEN reset_priority(k, owner) ELSE k)
            [] w = "sem"  -> sem_rel_wai(k, o)
            [] w = "smbf" -> knl_mbf_wakeup(k, o)
            [] w = "mpl"  -> knl_mpl_wakeup(k, o)
            [] OTHER -> k
  BY DEF rel_wai_hook, mtx_rel_wai, mpl_rel_wai
<1> HIDE DEF r, owner
<1>2. CASE r = k
  <2>1. Good(k, X, Z, Y) /\ Calm(k, k)
    BY CalmSelf
  <2> QED
    BY <1>2, <2>1 DEF r
<1>3. CASE w = "mtx" /\ r = reset_priority(k, owner)
  <2>1. Start(k, X, Y, owner)
    BY <1>3 DEF owner
  <2>2. Good(reset_priority(k, owner), X, Z, Y) /\ Calm(k, reset_priority(k, owner))
    BY <2>1, ResetGood
  <2> QED
    BY <1>3, <2>2 DEF r
<1>4. CASE w = "sem" /\ r = sem_rel_wai(k, o)
  <2>1. o \in Object
    BY <1>4
  <2>2. Good(sem_rel_wai(k, o), X, Z, Y) /\ Calm(k, sem_rel_wai(k, o))
    BY <2>1, RelWaiGood
  <2> QED
    BY <1>4, <2>2 DEF r
<1>5. CASE w = "smbf" /\ r = knl_mbf_wakeup(k, o)
  <2>1. o \in Object
    BY <1>5
  <2>2. Good(knl_mbf_wakeup(k, o), X, Z, Y) /\ Calm(k, knl_mbf_wakeup(k, o))
    BY <2>1, MbfWakeupGood
  <2> QED
    BY <1>5, <2>2 DEF r
<1>6. CASE w = "mpl" /\ r = knl_mpl_wakeup(k, o)
  <2>1. o \in Object
    BY <1>6
  <2>2. Good(knl_mpl_wakeup(k, o), X, Z, Y) /\ Calm(k, knl_mpl_wakeup(k, o))
    BY <2>1, MplWakeupGood
  <2> QED
    BY <1>6, <2>2 DEF r
<1> QED
  BY <1>1, <1>2, <1>3, <1>4, <1>5, <1>6

(* What a task waits for. *)
LEMMA WaitedFor ==
  ASSUME NEW k, NEW X, NEW Z, NEW Y, Good(k, X, Z, Y), NEW t \in Task \ X, waiting(k, t)
  PROVE  WaitsFor(k, t) /\ (k.wspec[t] \in { "slp", "dly" } \/ k.wid[t] \in Object)
<1>1. WaitsFor(k, t)
  BY DEF Good, Core, WaitGood
<1> QED
  BY <1>1 DEF WaitsFor

(* A wait that ends without what it was for. *)
LEMMA ReleaseNgFine ==
  ASSUME NEW k, Fine(k), NEW t \in Task, waiting(k, t)
  PROVE  Fine(knl_wait_release_ng(k, t))
<1> DEFINE c == knl_wait_release(k, t)
           w == k.wspec[t]
           o == k.wid[t]
           owner == k.obj[o].mtxtsk
           r == rel_wai_hook(c, w, o, t)
           X == {}
<1>1. Good(k, X, X, X) /\ Resting(k) /\ t \in Task \ X
  BY DEF Fine
<1>2. Start(k, X, X, t)
  BY DEF Start, Above
<1>3. X \subseteq Task /\ Typed(k)
  BY <1>1 DEF Good, Core
<1> HIDE DEF X
<1>4. Good(c, X, X, X) /\ Calm(k, c)
  BY <1>1, WaitReleaseGood
<1> HIDE DEF c
<1>5. WaitsFor(k, t) /\ (w \in { "slp", "dly" } \/ o \in Object)
  BY <1>1, WaitedFor
<1>6. ASSUME w = "mtx"
      PROVE  Start(c, X, X, c.obj[o].mtxtsk)
  <2>1. Start(k, X, X, owner)
    BY <1>1, <1>2, <1>6, StartNext
  <2>2. o \in Object /\ k.obj[o].kind = "mtx"
    BY <1>5, <1>6 DEF WaitsFor, Suits
  <2>3. c.obj[o].mtxtsk = owner
    BY <1>4, <2>2 DEF Calm
  <2> HIDE DEF owner, o
  <2>4. Start(c, X, X, owner)
    BY <1>3, <1>4, <2>1, StartCalm
  <2> QED
    BY <2>3, <2>4
<1>7. w \in { "slp", "dly" } \/ o \in Object
  BY <1>5
<1> HIDE DEF w, o
<1>8. Good(r, X, X, X) /\ Calm(c, r)
  BY <1>4, <1>6, <1>7, ToldGood
<1>9. r = knl_wait_release_ng(k, t)
  BY DEF knl_wait_release_ng, r, c, w, o
<1> HIDE DEF r
<1>10. Calm(k, r)
  BY <1>4, <1>8, CalmBoth
<1>11. Good(r, {}, {}, {})
  BY <1>8 DEF X
<1>12. Fine(r)
  BY <1>1, <1>10, <1>11, CalmFine
<1> QED
  BY <1>9, <1>12

LEMMA ChangePriorityFine ==
  ASSUME NEW k, Fine(k), NEW t \in Task, NEW p \in Pri
  PROVE  Fine(tk_chg_pri(k, t, p))
<1> DEFINE b == [k EXCEPT !.bpriority[t] = p]
           new == hi_pri(k, t, p)
           r == knl_change_task_priority(b, t, new)
           S == Range(k.mtxlist[t])
           X == {}
<1>1. Good(k, X, X, X) /\ Resting(k) /\ Typed(k) /\ t \in Task \ X /\ X \subseteq Task
  BY DEF Fine, Good, Core
<1>2. new \in Pri
  <2>1. \A m \in S : m \in Object /\ k.obj[m].kind = "mtx"
    <3>1. ListGood(k, X, X) /\ k.mtxlist[t] \in Seq(Object)
      BY <1>1 DEF Good, Core, MutexGood, Typed, TasksTyped
    <3> QED
      BY <1>1, <3>1 DEF ListGood, Holds, Range
  <2> HIDE DEF S
  <2>2. Min({ p } \cup Demands(k, S)) \in Pri
    BY <1>1, <2>1, HighestIn
  <2> QED
    BY <2>2 DEF hi_pri, S
<1>3. Counted(k, b)
  BY <1>1, BaseIs
<1> HIDE DEF b, new
<1>4. Good(b, X, X, X) /\ Calm(k, b)
  BY <1>1, <1>3, CountedGood
<1>5. Start(b, X, X, t)
  BY <1>1 DEF Start, Above, X
<1> HIDE DEF X
<1>6. Good(r, X, X, X) /\ Calm(b, r)
  BY <1>2, <1>4, <1>5, ChangeGood
<1>7. tk_chg_pri(k, t, p) = k \/ tk_chg_pri(k, t, p) = r
  BY DEF tk_chg_pri, r, b, new
<1> HIDE DEF r
<1>8. Calm(k, r)
  BY <1>4, <1>6, CalmBoth
<1>9. Good(r, {}, {}, {})
  BY <1>6 DEF X
<1>10. Fine(r)
  BY <1>1, <1>8, <1>9, CalmFine
<1> QED
  BY <1>7, <1>10

-----------------------------------------------------------------------------
(***************************************************************************)
(* A mutex leaves the list of its owner, and goes to another task.         *)
(***************************************************************************)
Unlisted(k, r, t, m) ==
  /\ Typed(r) /\ SameTasks(k, r) /\ SameWaits(k, r) /\ SameLocks(k, r) /\ SameReady(k, r)
  /\ SameRun(k, r) /\ SameCounts(k, r) /\ r.call = k.call /\ r.obj = k.obj /\ r.timed = k.timed
  /\ \A u \in Task : r.mtxlist[u] = IF u = t THEN RemoveFirst(k.mtxlist[t], m) ELSE k.mtxlist[u]

LEMMA UnlistedIs ==
  ASSUME NEW k, Typed(k), NEW t \in Task, NEW m
  PROVE  Unlisted(k, [k EXCEPT !.mtxlist[t] = RemoveFirst(k.mtxlist[t], m)], t, m)
<1> DEFINE q == RemoveFirst(k.mtxlist[t], m)
           r == [k EXCEPT !.mtxlist[t] = q]
           l == [k.mtxlist EXCEPT ![t] = q]
<1>1. k.mtxlist \in [Task -> Seq(Object)] /\ IsFun(k, Fields)
  BY DEF Typed, TasksTyped
<1>2. k.mtxlist[t] \in Seq(Object)
  BY <1>1
<1>3. q \in Seq(Object)
  BY <1>2, RemoveTyped
<1> HIDE DEF q
<1>4. l \in [Task -> Seq(Object)] /\ \A u \in Task : l[u] = IF u = t THEN q ELSE k.mtxlist[u]
  BY <1>1, <1>3
<1>5. r = [k EXCEPT !.mtxlist = l]
  OBVIOUS
<1> HIDE DEF r, l
<1>6. IsFun(r, Fields) /\ r.mtxlist = l
  BY <1>1, <1>5 DEF IsFun, IsRec, Fields
<1>7. /\ r.state = k.state /\ r.priority = k.priority /\ r.bpriority = k.bpriority /\ r.ipriority = k.ipriority
      /\ r.suscnt = k.suscnt /\ r.wupcnt = k.wupcnt /\ r.timed = k.timed
      /\ r.wspec = k.wspec /\ r.wid = k.wid /\ r.winfo = k.winfo
      /\ r.klock = k.klock /\ r.call = k.call /\ r.klocktsk = k.klocktsk /\ r.locked = k.locked
      /\ r.wtskq = k.wtskq /\ r.ready = k.ready /\ r.schedtsk = k.schedtsk /\ r.ctxtsk = k.ctxtsk
      /\ r.dispatch_disabled = k.dispatch_disabled /\ r.obj = k.obj
  BY <1>1, <1>5 DEF IsFun, IsRec, Fields
<1> HIDE DEF Fields
<1>8. Typed(r)
  BY <1>4, <1>6, <1>7 DEF Typed, TasksTyped, WaitsTyped, LocksTyped, RunTyped, ObjectsTyped
<1>9. \A u \in Task : r.mtxlist[u] = IF u = t THEN q ELSE k.mtxlist[u]
  BY <1>4, <1>6
<1> QED
  BY <1>7, <1>8, <1>9 DEF Unlisted, SameTasks, SameWaits, SameLocks, SameReady, SameRun, SameCounts, r, q

(* A mutex that a task has is on its way to another. *)
LEMMA UnlistGood ==
  ASSUME NEW k, NEW X, NEW Z, NEW Y, Good(k, X, Z, Y), NEW t \in Task \ Z, NEW m \in Object, Holds(k, t, m),
         NEW r, Unlisted(k, r, t, m)
  PROVE  Good(r, X, Z, Y \cup {m})
<1> DEFINE V == Y \cup {m}
           l == k.mtxlist[t]
           q == RemoveFirst(l, m)
<1>1. /\ X \in SUBSET Task /\ Z \in SUBSET X /\ Typed(k) /\ ReadyGood(k, X) /\ LockerGood(k) /\ TopGood(k)
      /\ WaitGood(k, X) /\ OwnerGood(k, Y) /\ ListGood(k, Z, Y) /\ RankGood(k, X)
      /\ CallsGood(k) /\ LockGood(k)
  BY DEF Good, Core, MutexGood
<1>2. /\ Typed(r) /\ r.state = k.state /\ r.priority = k.priority /\ r.klock = k.klock /\ r.ready = k.ready
      /\ r.klocktsk = k.klocktsk /\ r.schedtsk = k.schedtsk /\ r.obj = k.obj /\ r.wspec = k.wspec
      /\ r.wid = k.wid /\ r.winfo = k.winfo /\ r.timed = k.timed /\ r.call = k.call /\ r.wtskq = k.wtskq
      /\ r.locked = k.locked
  BY DEF Unlisted, SameTasks, SameWaits, SameLocks, SameReady
<1>3. \A u \in Task : r.mtxlist[u] = IF u = t THEN q ELSE k.mtxlist[u]
  BY DEF Unlisted
<1>4. IsLine(l, Range(l)) /\ l \in Seq(Object)
  <2>1. l \in Seq(Object) /\ Once(l)
    BY <1>1 DEF Typed, TasksTyped, ListGood
  <2> HIDE DEF l
  <2>2. l \in Seq(Range(l)) /\ \A x \in Range(l) : \E i \in DOMAIN l : l[i] = x
    BY <2>1 DEF Range
  <2> QED
    BY <2>1, <2>2 DEF IsLine
<1> HIDE DEF l
<1>5. IsLine(q, Range(l) \ {m})
  BY <1>4, RemoveLine
<1>6. Once(q) /\ Range(q) = Range(l) \ {m}
  BY <1>5, LineRange DEF IsLine
<1> HIDE DEF q, V
<1>7. ReadyGood(r, X) /\ LockerGood(r) /\ TopGood(r)
  BY <1>1, <1>2 DEF ReadyGood, ReadySet, LockerGood, Locker, TopGood
<1>8. WaitGood(r, X)
  <2>1. \A u \in Task : waiting(r, u) <=> waiting(k, u)
    BY <1>2 DEF waiting
  <2> QED
    BY <1>1, <1>2, <2>1, WaitKept DEF SameQueues
<1>9. CallsGood(r)
  BY <1>1, <1>2, CallsKept DEF SameStock
<1>10. LockGood(r)
  BY <1>1, <1>2, LockKept
<1>11. \A u \in Task, n \in Object : n # m => (n \in Range(r.mtxlist[u]) <=> n \in Range(k.mtxlist[u]))
  BY <1>3, <1>6 DEF l
<1>12. OwnerGood(r, V)
  <2> SUFFICES ASSUME NEW n \in Object, k.obj[n].kind = "mtx"
               PROVE  /\ k.obj[n].mtxtsk = NULL => k.obj[n].wait_queue = << >>
                      /\ k.obj[n].mtxtsk # NULL =>
                           /\ alive(r, k.obj[n].mtxtsk)
                           /\ n \notin V => n \in Range(r.mtxlist[k.obj[n].mtxtsk])
    BY <1>2 DEF OwnerGood
  <2>1. /\ k.obj[n].mtxtsk = NULL => k.obj[n].wait_queue = << >>
        /\ k.obj[n].mtxtsk # NULL => alive(k, k.obj[n].mtxtsk)
        /\ k.obj[n].mtxtsk # NULL /\ n \notin Y => n \in Range(k.mtxlist[k.obj[n].mtxtsk])
    BY <1>1 DEF OwnerGood
  <2>2. k.obj[n].mtxtsk \in Task \cup {NULL}
    BY <1>1 DEF Typed, ObjectsTyped, ObjTyped
  <2>3. alive(r, k.obj[n].mtxtsk) <=> alive(k, k.obj[n].mtxtsk)
    BY <1>2 DEF alive
  <2> QED
    BY <1>11, <2>1, <2>2, <2>3 DEF V
<1>13. ListGood(r, Z, V)
  <2>1. \A u \in Task : Once(r.mtxlist[u])
    BY <1>1, <1>3, <1>6 DEF ListGood
  <2>2. ASSUME NEW u \in Task \ Z, NEW n \in Range(r.mtxlist[u])
        PROVE  Holds(r, u, n) /\ n \notin V
    <3>1. n \in Range(k.mtxlist[u]) /\ (u = t => n # m)
      BY <1>3, <1>6, <2>2 DEF l
    <3>2. Holds(k, u, n) /\ n \notin Y
      BY <1>1, <3>1 DEF ListGood
    <3>3. n # m
      BY <3>1, <3>2 DEF Holds
    <3> QED
      BY <1>2, <3>2, <3>3 DEF Holds, V
  <2> QED
    BY <2>1, <2>2 DEF ListGood
<1>14. RankGood(r, X)
  <2>1. \A u \in Task : Range(r.mtxlist[u]) \subseteq Range(k.mtxlist[u])
    BY <1>3, <1>6 DEF l
  <2> QED
    BY <1>1, <1>2, <2>1 DEF RankGood, waiting
<1> QED
  BY <1>1, <1>2, <1>7, <1>8, <1>9, <1>10, <1>12, <1>13, <1>14 DEF Good, Core, MutexGood, V

(***************************************************************************)
(* What matters of a step for the running task.                            *)
(***************************************************************************)
Mild(k, r) ==
  SameRun(k, r) /\ r.call = k.call /\ \A t \in Task : t \in Range(k.ready) => t \in Range(r.ready)

LEMMA MildBoth == ASSUME NEW k, NEW r, NEW s, Mild(k, r), Mild(r, s) PROVE Mild(k, s)
BY DEF Mild, SameRun

LEMMA CalmMild == ASSUME NEW k, NEW r, Calm(k, r) PROVE Mild(k, r)
BY DEF Calm, Mild, SameRun

LEMMA MildFine ==
  ASSUME NEW k, Resting(k), NEW r, Mild(k, r), Good(r, {}, {}, {})
  PROVE  Fine(r)
BY DEF Fine, Resting, Mild, SameRun

(* The task that has the mutex gives it up, and what follows from that for its
   priority, and for others, is done. *)
LEMMA ReleaseMutexGood ==
  ASSUME NEW k, NEW X, NEW Z, NEW Y, Good(k, X, Z, Y), NEW t, Start(k, X, Y, t), NEW m \in Object, Holds(k, t, m)
  PROVE  LET r == knl_release_mutex(k, t, m)
         IN  Good(r, X, Z, Y \cup {m}) /\ Mild(k, r) /\ r.obj[m].kind = "mtx"
<1> DEFINE V == Y \cup {m}
           out == [k EXCEPT !.mtxlist[t] = RemoveFirst(k.mtxlist[t], m)]
           d == release_mutex(k, t, m)
           r == AllDone(d)
<1>1. t \in Task \ X /\ t \in Task \ Z /\ Typed(k) /\ X \subseteq Task /\ k.obj[m].kind = "mtx"
  BY DEF Start, Good, Core, Holds
<1>2. Dropped(k, t, m, d)
  BY <1>1, ReleaseNext
<1>3. Unlisted(k, out, t, m)
  BY <1>1, UnlistedIs
<1>4. d.k = out /\ (d.t = NULL \/ (d.t = t /\ d.priority \in Pri))
  BY <1>2 DEF Dropped
<1>5. r = knl_release_mutex(k, t, m)
  BY DEF knl_release_mutex
<1> HIDE DEF out, d, r, V
<1>6. Good(out, X, Z, Y \cup {m})
  BY <1>1, <1>3, UnlistGood
<1>7. Good(out, X, Z, V)
  BY <1>6 DEF V
<1>8. Start(out, X, V, t)
  <2> SUFFICES ASSUME waiting(k, t), k.wspec[t] = "mtx"
               PROVE  Above(k, X, V, k.wid[t])
    BY <1>1, <1>3 DEF Start, Unlisted, SameTasks, SameWaits, waiting, Above, Holds
  <2>1. Above(k, X, Y, k.wid[t])
    BY DEF Start
  <2>2. OwnerGood(k, Y) /\ RankGood(k, X)
    BY DEF Good, Core, MutexGood
  <2>3. Rank[m] < Rank[k.wid[t]]
    <3>1. CASE m \in Y
      BY <2>1, <3>1 DEF Above
    <3>2. CASE m \notin Y
      <4>1. t # NULL
        BY <1>1, KernelTaskAssumption
      <4>2. m \in Range(k.mtxlist[t])
        BY <2>2, <3>2, <4>1 DEF OwnerGood, Holds
      <4> QED
        BY <1>1, <2>2, <4>2 DEF RankGood
    <3> QED
      BY <3>1, <3>2
  <2> QED
    BY <2>1, <2>3 DEF Above, V
<1>9. Onward(out, X, Z, V, d)
  BY <1>4, <1>7, <1>8, CalmSelf DEF Onward
<1>10. Good(r, X, Z, V) /\ Calm(out, r)
  BY <1>9, AllDoneGood DEF r
<1>11. Mild(k, out)
  BY <1>3 DEF Unlisted, SameRun, SameReady, Mild
<1>12. Mild(k, r)
  BY <1>10, <1>11, CalmMild, MildBoth
<1>13. r.obj[m].kind = "mtx"
  <2>1. out.obj[m].kind = "mtx"
    BY <1>1, <1>3 DEF Unlisted
  <2> QED
    BY <1>10, <2>1 DEF Calm
<1> QED
  BY <1>5, <1>10, <1>12, <1>13 DEF V

(***************************************************************************)
(* The mutex has another owner, or none.                                   *)
(***************************************************************************)
Owned(k, r, m, o) ==
  /\ Typed(r) /\ SameTasks(k, r) /\ SameWaits(k, r) /\ SameLocks(k, r) /\ SameReady(k, r)
  /\ SameRun(k, r) /\ SameCounts(k, r) /\ r.call = k.call /\ r.timed = k.timed
  /\ \A x \in Object : SameQueues(k.obj[x], r.obj[x]) /\ (x # m => r.obj[x] = k.obj[x])
  /\ r.obj[m].mtxtsk = o
  /\ \A u \in Task : r.mtxlist[u] = IF u = o THEN << m >> \o k.mtxlist[u] ELSE k.mtxlist[u]

(* The control block with it. *)
LEMMA OwnerIs ==
  ASSUME NEW b, ObjTyped(b), b.kind = "mtx", NEW o \in Task \cup {NULL}
  PROVE  LET c == [b EXCEPT !.mtxtsk = o] IN ObjTyped(c) /\ SameQueues(b, c) /\ c.mtxtsk = o
BY DEF ObjTyped, IsRec, Used, Kinds, SameQueues, RingGood, BlocksGood

LEMMA FreedIs ==
  ASSUME NEW k, Typed(k), NEW m \in Object, k.obj[m].kind = "mtx"
  PROVE  Owned(k, [k EXCEPT !.obj[m].mtxtsk = NULL], m, NULL)
<1> DEFINE b == [k.obj[m] EXCEPT !.mtxtsk = NULL]
           r == [k EXCEPT !.obj[m].mtxtsk = NULL]
<1>1. ObjTyped(b) /\ SameQueues(k.obj[m], b) /\ b.mtxtsk = NULL
  BY OwnerIs DEF Typed, ObjectsTyped
<1>2. r = [k EXCEPT !.obj[m] = b]
  OBVIOUS
<1> HIDE DEF b, r
<1>3. Renewed(k, r, m, b)
  BY <1>1, <1>2, ObjectIs
<1>4. NULL \notin Task
  BY KernelTaskAssumption
<1>5. \A x \in Object : SameQueues(k.obj[x], r.obj[x]) /\ (x # m => r.obj[x] = k.obj[x])
  BY <1>1, <1>3 DEF Renewed, SameQueues
<1>6. r.obj[m].mtxtsk = NULL
  BY <1>1, <1>3 DEF Renewed
<1>7. \A u \in Task : r.mtxlist[u] = IF u = NULL THEN << m >> \o k.mtxlist[u] ELSE k.mtxlist[u]
  BY <1>3, <1>4 DEF Renewed
<1> QED
  BY <1>3, <1>5, <1>6, <1>7 DEF Owned, Renewed, r

LEMMA TakenIs ==
  ASSUME NEW k, Typed(k), NEW m \in Object, k.obj[m].kind = "mtx", NEW t \in Task
  PROVE  Owned(k, [k EXCEPT !.obj[m].mtxtsk = t, !.mtxlist[t] = << m >> \o @], m, t)
<1> DEFINE b == [k.obj[m] EXCEPT !.mtxtsk = t]
           z == [k EXCEPT !.obj[m] = b]
           q == << m >> \o k.mtxlist[t]
           l == [k.mtxlist EXCEPT ![t] = q]
           r == [k EXCEPT !.obj[m].mtxtsk = t, !.mtxlist[t] = << m >> \o @]
<1>1. ObjTyped(b) /\ SameQueues(k.obj[m], b) /\ b.mtxtsk = t
  BY OwnerIs DEF Typed, ObjectsTyped
<1>2. k.mtxlist \in [Task -> Seq(Object)] /\ IsFun(k, Fields)
  BY DEF Typed, TasksTyped
<1>3. q \in Seq(Object)
  BY <1>2
<1> HIDE DEF q
<1>4. l \in [Task -> Seq(Object)] /\ \A u \in Task : l[u] = IF u = t THEN q ELSE k.mtxlist[u]
  BY <1>2, <1>3
<1> HIDE DEF b
<1>5. Renewed(k, z, m, b)
  BY <1>1, ObjectIs
<1>6. r = [z EXCEPT !.mtxlist = l]
  BY <1>2 DEF b, q, IsFun, IsRec, Fields
<1> HIDE DEF z, r, l
<1>7. IsFun(z, Fields)
  BY <1>5 DEF Renewed, Typed
<1>8. IsFun(r, Fields) /\ r.mtxlist = l
  BY <1>6, <1>7 DEF IsFun, IsRec, Fields
<1>9. /\ r.state = z.state /\ r.priority = z.priority /\ r.bpriority = z.bpriority /\ r.ipriority = z.ipriority
      /\ r.suscnt = z.suscnt /\ r.wupcnt = z.wupcnt /\ r.timed = z.timed
      /\ r.wspec = z.wspec /\ r.wid = z.wid /\ r.winfo = z.winfo
      /\ r.klock = z.klock /\ r.call = z.call /\ r.klocktsk = z.klocktsk /\ r.locked = z.locked
      /\ r.wtskq = z.wtskq /\ r.ready = z.ready /\ r.schedtsk = z.schedtsk /\ r.ctxtsk = z.ctxtsk
      /\ r.dispatch_disabled = z.dispatch_disabled /\ r.obj = z.obj
  BY <1>6, <1>7 DEF IsFun, IsRec, Fields
<1> HIDE DEF Fields
<1>10. Typed(r)
  BY <1>4, <1>5, <1>8, <1>9 DEF Renewed, Typed, TasksTyped, WaitsTyped, LocksTyped, RunTyped, ObjectsTyped
<1>11. \A x \in Object : SameQueues(k.obj[x], r.obj[x]) /\ (x # m => r.obj[x] = k.obj[x])
  BY <1>1, <1>5, <1>9 DEF Renewed, SameQueues
<1>12. r.obj[m].mtxtsk = t
  BY <1>1, <1>5, <1>9 DEF Renewed
<1>13. \A u \in Task : r.mtxlist[u] = IF u = t THEN << m >> \o k.mtxlist[u] ELSE k.mtxlist[u]
  BY <1>4, <1>8 DEF q
<1>14. /\ SameTasks(k, r) /\ SameWaits(k, r) /\ SameLocks(k, r) /\ SameReady(k, r)
       /\ SameRun(k, r) /\ SameCounts(k, r) /\ r.call = k.call /\ r.timed = k.timed
  BY <1>5, <1>9 DEF Renewed, SameTasks, SameWaits, SameLocks, SameReady, SameRun, SameCounts
<1> QED
  BY <1>10, <1>11, <1>12, <1>13, <1>14 DEF Owned, r

(* A mutex that is in nobody's list but that of a task of Z. *)
InTransit(k, Z, Y, m) ==
  k.obj[m].kind = "mtx" /\ (k.obj[m].mtxtsk = NULL \/ k.obj[m].mtxtsk \in Z \/ m \in Y)
MayOwn(k, X, m, o) ==
  IF o = NULL THEN k.obj[m].wait_queue = << >> ELSE o \in Task \ X /\ alive(k, o) /\ ~ waiting(k, o)

LEMMA PrefixIs ==
  ASSUME NEW S, NEW l \in Seq(S), NEW m \in S, m \notin Range(l), Once(l)
  PROVE  /\ << m >> \o l \in Seq(S) /\ Once(<< m >> \o l)
         /\ Range(<< m >> \o l) = Range(l) \cup {m}
<1> DEFINE q == << m >> \o l
<1>1. q \in Seq(S) /\ Len(q) = Len(l) + 1 /\ Len(l) \in Nat /\ DOMAIN l = 1 .. Len(l) /\ DOMAIN q = 1 .. Len(l) + 1
  OBVIOUS
<1>2. \A i \in DOMAIN q : q[i] = IF i = 1 THEN m ELSE l[i - 1]
  OBVIOUS
<1> HIDE DEF q
<1>3. \A i \in DOMAIN q : i # 1 => i - 1 \in DOMAIN l
  BY <1>1
<1>4. Once(q)
  BY <1>1, <1>2, <1>3 DEF Once, Range
<1>5. Range(q) = Range(l) \cup {m}
  <2>1. \A i \in DOMAIN l : i + 1 \in DOMAIN q /\ q[i + 1] = l[i]
    BY <1>1, <1>2
  <2>2. 1 \in DOMAIN q /\ q[1] = m
    BY <1>1, <1>2
  <2> QED
    BY <1>2, <1>3, <2>1, <2>2 DEF Range
<1> QED
  BY <1>1, <1>4, <1>5 DEF q

LEMMA OwnedGood ==
  ASSUME NEW k, NEW X, NEW Z, NEW Y, Good(k, X, Z, Y), NEW m \in Object, InTransit(k, Z, Y, m),
         NEW o, MayOwn(k, X, m, o), NEW r, Owned(k, r, m, o)
  PROVE  Good(r, X, Z, Y \ {m})
<1> DEFINE V == Y \ {m}
           l == k.mtxlist[o]
           q == << m >> \o l
<1>1. /\ X \in SUBSET Task /\ Z \in SUBSET X /\ Typed(k) /\ ReadyGood(k, X) /\ LockerGood(k) /\ TopGood(k)
      /\ WaitGood(k, X) /\ OwnerGood(k, Y) /\ ListGood(k, Z, Y) /\ RankGood(k, X)
      /\ CallsGood(k) /\ LockGood(k)
  BY DEF Good, Core, MutexGood
<1>2. /\ Typed(r) /\ r.state = k.state /\ r.priority = k.priority /\ r.klock = k.klock /\ r.ready = k.ready
      /\ r.klocktsk = k.klocktsk /\ r.schedtsk = k.schedtsk /\ r.wspec = k.wspec
      /\ r.wid = k.wid /\ r.winfo = k.winfo /\ r.timed = k.timed /\ r.call = k.call /\ r.wtskq = k.wtskq
      /\ r.locked = k.locked
  BY DEF Owned, SameTasks, SameWaits, SameLocks, SameReady
<1>3. /\ \A x \in Object : SameQueues(k.obj[x], r.obj[x]) /\ (x # m => r.obj[x] = k.obj[x])
      /\ r.obj[m].mtxtsk = o
      /\ \A u \in Task : r.mtxlist[u] = IF u = o THEN q ELSE k.mtxlist[u]
  BY DEF Owned
<1>4. k.obj[m].kind = "mtx" /\ (k.obj[m].mtxtsk = NULL \/ k.obj[m].mtxtsk \in Z \/ m \in Y)
  BY DEF InTransit
<1>5. NULL \notin Task
  BY KernelTaskAssumption
<1>6. \A u \in Task \ Z : m \notin Range(k.mtxlist[u])
  BY <1>1, <1>4, <1>5 DEF ListGood, Holds
<1>7. o \in Task => Once(q) /\ Range(q) = Range(l) \cup {m}
  <2> SUFFICES ASSUME o \in Task
               PROVE  Once(q) /\ Range(q) = Range(l) \cup {m}
    OBVIOUS
  <2>1. o \in Task \ Z
    BY <1>1, <1>5 DEF MayOwn
  <2>2. l \in Seq(Object) /\ Once(l)
    BY <1>1 DEF Typed, TasksTyped, ListGood
  <2>3. m \notin Range(l)
    BY <1>6, <2>1
  <2> HIDE DEF l
  <2> QED
    BY <2>2, <2>3, PrefixIs
<1> HIDE DEF l, q, V
<1>8. ReadyGood(r, X) /\ LockerGood(r) /\ TopGood(r)
  BY <1>1, <1>2 DEF ReadyGood, ReadySet, LockerGood, Locker, TopGood
<1>9. \A x \in Object : SameQueues(k.obj[x], r.obj[x])
  BY <1>3
<1>10. WaitGood(r, X)
  <2>1. \A u \in Task : (u \notin X /\ waiting(r, u)) <=> (u \notin X /\ waiting(k, u))
    BY <1>2 DEF waiting
  <2>2. \A u \in Task : u \notin X /\ waiting(k, u) =>
          r.wspec[u] = k.wspec[u] /\ r.wid[u] = k.wid[u] /\ r.winfo[u] = k.winfo[u] /\ r.priority[u] = k.priority[u]
    BY <1>2
  <2>3. \A u \in Task : r.timed[u] => k.timed[u]
    BY <1>2
  <2>4. WaitGood(k, X)
    BY <1>1
  <2> QED
    BY <1>9, <2>1, <2>2, <2>3, <2>4, WaitKept
<1>11. \A x \in Object : r.obj[x].kind = k.obj[x].kind /\ SameStock(k.obj[x], r.obj[x])
  BY <1>3, <1>9 DEF SameQueues, SameStock, InTransit, Holds
<1>12. CallsGood(r)
  <2>1. CallsGood(k)
    BY <1>1
  <2>2. r.call = k.call
    BY <1>2
  <2>3. \A u \in Task : k.call[u] # NULL =>
          /\ r.klock[u] = k.klock[u] \/ (k.klock[u] = "klockwait" /\ r.klock[u] = "none")
          /\ r.state[u] = k.state[u] \/ r.state[u] \in { "ready", "suspend" }
             \/ (k.call[u].at = "wait" /\ alive(r, u))
    BY <1>2
  <2> QED
    BY <1>11, <2>1, <2>2, <2>3, CallsKept
<1>13. LockGood(r)
  BY <1>1, <1>2, LockKept
<1>14. OwnerGood(r, V)
  <2> SUFFICES ASSUME NEW n \in Object, r.obj[n].kind = "mtx"
               PROVE  /\ r.obj[n].mtxtsk = NULL => r.obj[n].wait_queue = << >>
                      /\ r.obj[n].mtxtsk # NULL =>
                           /\ alive(r, r.obj[n].mtxtsk)
                           /\ n \notin V => n \in Range(r.mtxlist[r.obj[n].mtxtsk])
    BY DEF OwnerGood
  <2>1. CASE n = m
    <3>1. r.obj[m].wait_queue = k.obj[m].wait_queue
      BY <1>9 DEF SameQueues
    <3>2. CASE o = NULL
      BY <1>3, <2>1, <3>1, <3>2 DEF MayOwn
    <3>3. CASE o # NULL
      <4>1. o \in Task /\ alive(r, o)
        BY <1>2, <3>3 DEF MayOwn, alive
      <4>2. m \in Range(r.mtxlist[o])
        BY <1>3, <1>7, <4>1
      <4> QED
        BY <1>3, <2>1, <3>3, <4>1, <4>2
    <3> QED
      BY <3>2, <3>3
  <2>2. CASE n # m
    <3>1. r.obj[n] = k.obj[n]
      BY <1>3, <2>2
    <3>2. /\ k.obj[n].mtxtsk = NULL => k.obj[n].wait_queue = << >>
          /\ k.obj[n].mtxtsk # NULL => alive(k, k.obj[n].mtxtsk)
          /\ k.obj[n].mtxtsk # NULL /\ n \notin Y => n \in Range(k.mtxlist[k.obj[n].mtxtsk])
      BY <1>1, <3>1 DEF OwnerGood
    <3>3. k.obj[n].mtxtsk \in Task \cup {NULL}
      BY <1>1, <3>1 DEF Typed, ObjectsTyped, ObjTyped
    <3>4. alive(r, k.obj[n].mtxtsk) <=> alive(k, k.obj[n].mtxtsk)
      BY <1>2 DEF alive
    <3>5. \A u \in Task : n \in Range(k.mtxlist[u]) => n \in Range(r.mtxlist[u])
      BY <1>3, <1>7 DEF l
    <3> QED
      BY <2>2, <3>1, <3>2, <3>3, <3>4, <3>5 DEF V
  <2> QED
    BY <2>1, <2>2
<1>15. ListGood(r, Z, V)
  <2>1. \A u \in Task : Once(r.mtxlist[u])
    BY <1>1, <1>3, <1>7 DEF ListGood
  <2>2. ASSUME NEW u \in Task \ Z, NEW n \in Range(r.mtxlist[u])
        PROVE  Holds(r, u, n) /\ n \notin V
    <3>1. CASE u = o /\ n = m
      BY <1>3, <1>4, <1>11, <3>1 DEF Holds, V
    <3>2. CASE ~ (u = o /\ n = m)
      <4>1. n \in Range(k.mtxlist[u])
        BY <1>3, <1>7, <2>2, <3>2 DEF l
      <4>2. n # m
        BY <1>6, <4>1
      <4>3. Holds(k, u, n) /\ n \notin Y /\ n \in Object
        <5>1. k.mtxlist[u] \in Seq(Object)
          BY <1>1 DEF Typed, TasksTyped
        <5> QED
          BY <1>1, <4>1, <5>1 DEF ListGood, Range
      <4> QED
        BY <1>3, <4>2, <4>3 DEF Holds, V
    <3> QED
      BY <3>1, <3>2
  <2> QED
    BY <2>1, <2>2 DEF ListGood
<1>16. RankGood(r, X)
  <2> SUFFICES ASSUME NEW u \in Task \ X, waiting(r, u), r.wspec[u] = "mtx", NEW n \in Range(r.mtxlist[u])
               PROVE  Rank[n] < Rank[r.wid[u]]
    BY DEF RankGood
  <2>1. waiting(k, u) /\ k.wspec[u] = "mtx" /\ r.wid[u] = k.wid[u]
    BY <1>2 DEF waiting
  <2>2. u # o
    BY <1>5, <2>1 DEF MayOwn
  <2>3. n \in Range(k.mtxlist[u])
    BY <1>3, <2>2
  <2> QED
    BY <1>1, <2>1, <2>3 DEF RankGood
<1> QED
  BY <1>1, <1>2, <1>8, <1>10, <1>12, <1>13, <1>14, <1>15, <1>16 DEF Good, Core, MutexGood, V

(* What remains when a mutex goes to another task, none of X. *)
Passed(k, r, X, m) ==
  /\ Mild(k, r)
  /\ \A x \in Object :
       /\ r.obj[x].kind = k.obj[x].kind
       /\ k.obj[x].kind = "mtx" /\ x # m => r.obj[x].mtxtsk = k.obj[x].mtxtsk
  /\ r.obj[m].mtxtsk \notin X
  /\ \A t \in Task : alive(k, t) <=> alive(r, t)
  /\ \A t \in Task : r.klock[t] = k.klock[t] \/ (k.klock[t] = "klockwait" /\ r.klock[t] = "none")

LEMMA OwnedPassed ==
  ASSUME NEW k, NEW X, X \subseteq Task, NEW m \in Object, NEW o, MayOwn(k, X, m, o), NEW r, Owned(k, r, m, o)
  PROVE  Passed(k, r, X, m)
<1>1. o \notin X
  BY KernelTaskAssumption DEF MayOwn
<1> QED
  BY <1>1 DEF Passed, Owned, Mild, SameRun, SameReady, SameTasks, SameLocks, SameQueues, alive

LEMMA PassedCalm ==
  ASSUME NEW k, NEW X, NEW m \in Object, k.obj[m].kind = "mtx", NEW r, Passed(k, r, X, m), NEW s, Calm(r, s)
  PROVE  Passed(k, s, X, m)
<1>1. Mild(k, s)
  BY CalmMild, MildBoth DEF Passed
<1>2. \A x \in Object :
        /\ s.obj[x].kind = k.obj[x].kind
        /\ k.obj[x].kind = "mtx" => s.obj[x].mtxtsk = r.obj[x].mtxtsk
  BY DEF Passed, Calm
<1>3. \A t \in Task : alive(k, t) <=> alive(s, t)
  BY DEF Passed, Calm
<1>4. \A t \in Task : s.klock[t] = k.klock[t] \/ (k.klock[t] = "klockwait" /\ s.klock[t] = "none")
  BY DEF Passed, Calm
<1>5. s.obj[m].mtxtsk \notin X
  BY <1>2 DEF Passed
<1>6. \A x \in Object : k.obj[x].kind = "mtx" /\ x # m => s.obj[x].mtxtsk = k.obj[x].mtxtsk
  BY <1>2 DEF Passed
<1> QED
  BY <1>1, <1>2, <1>3, <1>4, <1>5, <1>6 DEF Passed

LEMMA CalmPassed ==
  ASSUME NEW k, NEW X, NEW m \in Object, k.obj[m].kind = "mtx", NEW r, Calm(k, r), NEW s, Passed(r, s, X, m)
  PROVE  Passed(k, s, X, m)
<1>1. Mild(k, s)
  BY CalmMild, MildBoth DEF Passed
<1>2. \A x \in Object : k.obj[x].kind = r.obj[x].kind /\ (k.obj[x].kind = "mtx" => k.obj[x].mtxtsk = r.obj[x].mtxtsk)
  BY DEF Calm
<1>3. \A t \in Task : alive(k, t) <=> alive(s, t)
  BY DEF Passed, Calm
<1>4. \A t \in Task : s.klock[t] = k.klock[t] \/ (k.klock[t] = "klockwait" /\ s.klock[t] = "none")
  BY DEF Passed, Calm
<1>5. \A x \in Object : s.obj[x].kind = k.obj[x].kind
  BY <1>2 DEF Passed
<1>6. \A x \in Object : k.obj[x].kind = "mtx" /\ x # m => s.obj[x].mtxtsk = k.obj[x].mtxtsk
  BY <1>2 DEF Passed
<1>7. s.obj[m].mtxtsk \notin X
  BY DEF Passed
<1> QED
  BY <1>1, <1>3, <1>4, <1>5, <1>6, <1>7 DEF Passed

LEMMA TakeGood ==
  ASSUME NEW k, NEW X, NEW Z, NEW Y, Good(k, X, Z, Y), NEW m \in Object, InTransit(k, Z, Y, m),
         NEW t \in Task \ X, alive(k, t), ~ waiting(k, t)
  PROVE  LET r == Take(k, m, t) IN Good(r, X, Z, Y \ {m}) /\ Passed(k, r, X, m)
<1> DEFINE V == Y \ {m}
           has == [k EXCEPT !.obj[m].mtxtsk = t, !.mtxlist[t] = << m >> \o @]
           p == k.obj[m].ceilpri
           c == knl_change_task_priority(has, t, p)
           r == Take(k, m, t)
<1>1. Typed(k) /\ X \subseteq Task /\ k.obj[m].kind = "mtx" /\ t \in Task
  BY DEF Good, Core, InTransit
<1>2. Owned(k, has, m, t)
  BY <1>1, TakenIs
<1>3. MayOwn(k, X, m, t)
  BY KernelTaskAssumption DEF MayOwn
<1>4. p \in Pri
  BY <1>1 DEF Typed, ObjectsTyped, ObjTyped
<1>5. r = c \/ r = has
  BY DEF Take
<1> HIDE DEF has, r, p, V
<1>6. Good(has, X, Z, Y \ {m})
  BY <1>2, <1>3, OwnedGood
<1>7. Good(has, X, Z, V)
  BY <1>6 DEF V
<1>8. Passed(k, has, X, m)
  BY <1>1, <1>2, <1>3, OwnedPassed
<1>9. Start(has, X, V, t)
  BY <1>2 DEF Start, Owned, SameTasks, waiting
<1>10. Good(c, X, Z, V) /\ Calm(has, c)
  BY <1>4, <1>7, <1>9, ChangeGood
<1> HIDE DEF c
<1>11. Passed(k, c, X, m)
  BY <1>1, <1>8, <1>10, PassedCalm
<1>12. Good(r, X, Z, V) /\ Passed(k, r, X, m)
  BY <1>5, <1>7, <1>8, <1>10, <1>11
<1> QED
  BY <1>12 DEF r, V

LEMMA HandOverGood ==
  ASSUME NEW k, NEW X, NEW Z, NEW Y, Good(k, X, Z, Y), NEW m \in Object, InTransit(k, Z, Y, m)
  PROVE  LET r == Hand_Over(k, m) IN Good(r, X, Z, Y \ {m}) /\ Passed(k, r, X, m)
<1> DEFINE queue == k.obj[m].wait_queue
           next == Head(queue)
           c == knl_wait_release(k, next)
           t == Take(c, m, next)
           freed == [k EXCEPT !.obj[m].mtxtsk = NULL]
           r == Hand_Over(k, m)
<1>1. Typed(k) /\ X \subseteq Task /\ k.obj[m].kind = "mtx"
  BY DEF Good, Core, InTransit
<1>2. r = IF queue # << >> THEN t ELSE freed
  BY DEF Hand_Over, mtx_waited
<1>3. IsLine(queue, Waiters(k, X, m)) /\ \A u \in Waiters(k, X, m) : u \in Task /\ u \notin X /\ waiting(k, u)
  BY InLine
<1> HIDE DEF r, c, freed, queue, next
<1>4. CASE queue # << >>
  <2>1. next \in Task \ X /\ waiting(k, next)
    BY <1>3, <1>4, LineRange DEF next
  <2>2. Good(c, X, Z, Y) /\ Calm(k, c) /\ ~ waiting(c, next)
    BY <2>1, WaitReleaseGood DEF c
  <2>3. alive(c, next)
    BY <2>1, <2>2 DEF Calm, waiting, alive
  <2>4. InTransit(c, Z, Y, m)
    BY <2>2 DEF InTransit, Calm
  <2>5. Good(t, X, Z, Y \ {m}) /\ Passed(c, t, X, m)
    BY <2>1, <2>2, <2>3, <2>4, TakeGood
  <2> HIDE DEF t
  <2>6. Passed(k, t, X, m)
    BY <1>1, <2>2, <2>5, CalmPassed
  <2> QED
    BY <1>2, <1>4, <2>5, <2>6 DEF r
<1>5. CASE queue = << >>
  <2>1. Owned(k, freed, m, NULL)
    BY <1>1, FreedIs DEF freed
  <2>2. MayOwn(k, X, m, NULL)
    BY <1>5 DEF MayOwn, queue
  <2>3. Good(freed, X, Z, Y \ {m})
    BY <2>1, <2>2, OwnedGood
  <2>4. Passed(k, freed, X, m)
    BY <1>1, <2>1, <2>2, OwnedPassed
  <2> QED
    BY <1>2, <1>5, <2>3, <2>4 DEF r
<1> QED
  BY <1>4, <1>5

(* All the mutexes of a task, one after the other. *)
SignalBy(k, t, f) ==
  LET mutexes == k.mtxlist[t]
  IN  /\ Turns(f, "signal", [mutexes |-> mutexes], k, Len(mutexes))
      /\ knl_signal_all_mutex(k, t) = f[Len(mutexes)]

LEMMA SignalTurns ==
  ASSUME NEW k, NEW t, Len(k.mtxlist[t]) \in Nat
  PROVE  \E f : SignalBy(k, t, f)
<1> DEFINE mutexes == k.mtxlist[t]
           n == Len(mutexes)
           a == [mutexes |-> mutexes]
           IsAfter(g) == g = [i \in 0 .. n |->
                                IF i = 0 THEN k ELSE LET before == g[i - 1] IN Hand_Over(before, mutexes[i])]
           f == CHOOSE g : IsAfter(g)
<1>1. n \in Nat
  OBVIOUS
<1>2. knl_signal_all_mutex(k, t) = f[n]
  BY DEF knl_signal_all_mutex
<1>3. ASSUME NEW g
      PROVE  IsLoop(g, "signal", a, k, n) <=> IsAfter(g)
  BY DEF IsLoop, Turn
<1> HIDE DEF n, a
<1>4. PICK g : IsLoop(g, "signal", a, k, n)
  BY <1>1, Looping
<1>5. IsAfter(f)
  BY <1>3, <1>4
<1>6. IsLoop(f, "signal", a, k, n)
  BY <1>3, <1>5
<1> HIDE DEF f, IsAfter
<1>7. Turns(f, "signal", a, k, n)
  BY <1>1, <1>6, LoopTurns
<1> QED
  BY <1>2, <1>7 DEF SignalBy, n, a

(* Those from the i-th on are still to go. *)
ToGo(k, X, Z, t, mutexes, i, x) ==
  /\ Good(x, X, Z, {}) /\ Mild(k, x) /\ x.klock[t] = "none"
  /\ \A m \in Object : Holds(x, t, m) <=> \E j \in DOMAIN mutexes : j > i /\ mutexes[j] = m

LEMMA SignalGood ==
  ASSUME NEW k, NEW X, NEW Z, Good(k, X, Z, {}), NEW t \in Z, k.klock[t] = "none",
         \A m \in Range(k.mtxlist[t]) : Holds(k, t, m)
  PROVE  LET r == knl_signal_all_mutex(k, t)
         IN  /\ Good(r, X, Z, {}) /\ Mild(k, r) /\ r.klock[t] = "none"
             /\ \A m \in Object : ~ Holds(r, t, m)
<1> DEFINE mutexes == k.mtxlist[t]
           n == Len(mutexes)
           a == [mutexes |-> mutexes]
<1>1. X \subseteq Task /\ t \in X /\ Typed(k) /\ OwnerGood(k, {}) /\ ListGood(k, Z, {}) /\ t # NULL
  BY KernelTaskAssumption DEF Good, Core, MutexGood
<1>2. mutexes \in Seq(Object) /\ Once(mutexes)
  BY <1>1 DEF Typed, TasksTyped, ListGood
<1>3. \A m \in Object : Holds(k, t, m) <=> m \in Range(mutexes)
  BY <1>1 DEF OwnerGood, Holds
<1>4. PICK f : SignalBy(k, t, f)
  BY <1>2, SignalTurns
<1> HIDE DEF mutexes
<1>5. n \in Nat /\ DOMAIN mutexes = 1 .. n
  BY <1>2
<1>6. Turns(f, "signal", a, k, n) /\ knl_signal_all_mutex(k, t) = f[n]
  BY <1>4 DEF SignalBy, mutexes
<1> DEFINE S == { i \in 0 .. n : ToGo(k, X, Z, t, mutexes, i, f[i]) }
<1> HIDE DEF n
<1>7. 0 \in S
  <2>1. f[0] = k
    BY <1>6 DEF Turns
  <2>2. Mild(k, k)
    BY DEF Mild, SameRun
  <2>3. \A m \in Object : Holds(k, t, m) <=> \E j \in DOMAIN mutexes : j > 0 /\ mutexes[j] = m
    BY <1>3, <1>5 DEF Range
  <2> QED
    BY <1>5, <2>1, <2>2, <2>3 DEF ToGo
<1>8. ASSUME NEW i \in 0 .. n - 1, i \in S
      PROVE  i + 1 \in S
  <2> DEFINE x == f[i]
             y == f[i + 1]
             m == mutexes[i + 1]
  <2>1. y = Hand_Over(x, m)
    <3>1. y = Turn("signal", a, i + 1, x)
      BY <1>5, <1>6 DEF Turns
    <3> QED
      BY <3>1 DEF Turn
  <2>2. ToGo(k, X, Z, t, mutexes, i, x) /\ i + 1 \in DOMAIN mutexes /\ i + 1 \in 0 .. n
    BY <1>5, <1>8
  <2>3. m \in Object
    BY <1>2, <2>2
  <2> HIDE DEF x, y, m
  <2>4. Holds(x, t, m)
    BY <2>2, <2>3 DEF ToGo, m
  <2>5. Good(x, X, Z, {}) /\ Mild(k, x) /\ x.klock[t] = "none"
    BY <2>2 DEF ToGo
  <2>6. InTransit(x, Z, {}, m)
    BY <2>4 DEF InTransit, Holds
  <2>7. Good(y, X, Z, {} \ {m}) /\ Passed(x, y, X, m)
    BY <2>1, <2>3, <2>5, <2>6, HandOverGood
  <2>8. Good(y, X, Z, {})
    <3>1. {} \ {m} = {}
      OBVIOUS
    <3> QED
      BY <2>7, <3>1
  <2>9. Mild(k, y)
    BY <2>5, <2>7, MildBoth DEF Passed
  <2>10. y.klock[t] = "none"
    BY <1>1, <2>5, <2>7 DEF Passed
  <2>11. ASSUME NEW w \in Object
         PROVE  Holds(y, t, w) <=> \E j \in DOMAIN mutexes : j > i + 1 /\ mutexes[j] = w
    <3>1. Holds(y, t, w) <=> Holds(x, t, w) /\ w # m
      BY <1>1, <2>7 DEF Passed, Holds
    <3>2. Holds(x, t, w) <=> \E j \in DOMAIN mutexes : j > i /\ mutexes[j] = w
      BY <2>2 DEF ToGo
    <3>3. \A j \in DOMAIN mutexes : mutexes[j] = m => j = i + 1
      BY <1>2, <2>2 DEF m, Once
    <3>4. \A j \in DOMAIN mutexes : j > i <=> j > i + 1 \/ j = i + 1
      BY <1>5
    <3>5. \A j \in DOMAIN mutexes : j > i + 1 => j # i + 1
      BY <1>5
    <3> QED
      BY <3>1, <3>2, <3>3, <3>4, <3>5 DEF m
  <2>12. ToGo(k, X, Z, t, mutexes, i + 1, y)
    BY <2>8, <2>9, <2>10, <2>11 DEF ToGo
  <2> QED
    BY <2>2, <2>12 DEF y
<1> HIDE DEF S
<1>9. \A i \in 0 .. n : i \in S
  BY <1>5, <1>7, <1>8, InductionTo DEF n
<1>10. ToGo(k, X, Z, t, mutexes, n, f[n])
  BY <1>5, <1>9 DEF S
<1>11. \A j \in DOMAIN mutexes : ~ (j > n)
  BY <1>5
<1>12. /\ Good(f[n], X, Z, {}) /\ Mild(k, f[n]) /\ f[n].klock[t] = "none"
       /\ \A m \in Object : ~ Holds(f[n], t, m)
  BY <1>10, <1>11 DEF ToGo
<1> QED
  BY <1>6, <1>12

-----------------------------------------------------------------------------
(***************************************************************************)
(* The end of a task.                                                      *)
(***************************************************************************)
LEMMA MoreOnWay ==
  ASSUME NEW k, NEW X, NEW Z, NEW Y, Good(k, X, Z, Y), NEW V, Z \subseteq V, V \subseteq X
  PROVE  Good(k, X, V, Y)
BY DEF Good, Core, MutexGood, ListGood

(* It is out of its queue, and what it waited for knows. *)
Out0(k, t) ==
  IF k.state[t] = "ready" THEN knl_make_non_ready(k, t)
  ELSE IF waiting(k, t)
  THEN rel_wai_hook(knl_wait_cancel(k, t), k.wspec[t], k.wid[t], t)
  ELSE k

Departed(k, r, t) ==
  /\ SameRun(k, r) /\ r.call = k.call /\ r.klock[t] = "none"
  /\ \A u \in Task : u # t /\ u \in Range(k.ready) => u \in Range(r.ready)

LEMMA OutGood ==
  ASSUME NEW k, Good(k, {}, {}, {}), NEW t \in Task, alive(k, t), k.klock[t] # "klocked"
  PROVE  Good(Out0(k, t), {t}, {}, {}) /\ Departed(k, Out0(k, t), t)
<1> DEFINE X == {}
           W == {t}
           c == knl_wait_cancel(k, t)
           w == k.wspec[t]
           o == k.wid[t]
           owner == k.obj[o].mtxtsk
           r == rel_wai_hook(c, w, o, t)
           n == knl_make_non_ready(k, t)
           out == Out0(k, t)
<1>1. Good(k, X, X, X) /\ Typed(k) /\ LockGood(k) /\ X \subseteq Task /\ W \subseteq Task /\ t \in Task \ X /\ X \cup {t} = W
  BY DEF Good, Core
<1>2. k.klock[t] = "none" \/ (k.klock[t] = "klockwait" /\ k.state[t] = "ready")
  BY <1>1 DEF LockGood, Typed, LocksTyped
<1>3. out = IF k.state[t] = "ready" THEN n ELSE IF waiting(k, t) THEN r ELSE k
  BY DEF Out0
<1>4. Start(k, X, X, t)
  BY DEF Start, Above
<1> HIDE DEF X, W, out
<1>5. CASE k.state[t] = "ready"
  <2>1. Good(n, X \cup {t}, X, X) /\ Left(k, n, t)
        /\ \A u \in Task : u # t /\ u \in Range(k.ready) => u \in Range(n.ready)
    BY <1>1, <1>5, MakeNonReadyGood
  <2> HIDE DEF n
  <2>2. Departed(k, n, t)
    BY <1>2, <2>1 DEF Departed, Left
  <2> QED
    BY <1>1, <1>3, <1>5, <2>1, <2>2 DEF out, X, W
<1>6. CASE waiting(k, t)
  <2>1. WaitsFor(k, t) /\ (w \in { "slp", "dly" } \/ o \in Object)
    BY <1>1, <1>6, WaitedFor
  <2>2. Cancelled(k, c, t)
    BY <1>1, <2>1, CancelIs
  <2> HIDE DEF c
  <2>3. Good(c, X \cup {t}, X, X) /\ Calm(k, c)
    BY <1>1, <1>6, <2>2, CancelGood
  <2>4. Good(c, W, X, X)
    BY <1>1, <2>3
  <2>5. ASSUME w = "mtx"
        PROVE  Start(c, W, X, c.obj[o].mtxtsk)
    <3>1. Start(k, X \cup {t}, X, owner)
      BY <1>1, <1>4, <1>6, <2>5, StartAside
    <3>2. o \in Object /\ k.obj[o].kind = "mtx"
      BY <2>1, <2>5 DEF WaitsFor, Suits
    <3>3. c.obj[o].mtxtsk = owner
      BY <2>3, <3>2 DEF Calm
    <3> HIDE DEF owner, o
    <3>4. Start(k, W, X, owner)
      BY <1>1, <3>1
    <3>5. Start(c, W, X, owner)
      BY <1>1, <2>3, <3>4, StartCalm
    <3> QED
      BY <3>3, <3>5
  <2>6. w \in { "slp", "dly" } \/ o \in Object
    BY <2>1
  <2> HIDE DEF w, o
  <2>7. Good(r, W, X, X) /\ Calm(c, r)
    BY <2>4, <2>5, <2>6, ToldGood
  <2> HIDE DEF r
  <2>8. Calm(k, r)
    BY <2>3, <2>7, CalmBoth
  <2>9. k.state[t] # "ready"
    BY <1>6 DEF waiting
  <2>10. Departed(k, r, t)
    BY <1>2, <2>8, <2>9 DEF Departed, Calm, SameRun
  <2> QED
    BY <1>3, <1>6, <2>7, <2>9, <2>10 DEF out, X, W
<1>7. CASE k.state[t] # "ready" /\ ~ waiting(k, t)
  <2>1. Good(k, X \cup {t}, X, X)
    BY <1>1, <1>7, StepAside DEF waiting
  <2>2. Departed(k, k, t)
    BY <1>2, <1>7 DEF Departed, SameRun
  <2> QED
    BY <1>1, <1>3, <1>7, <2>1, <2>2 DEF out, X, W
<1> QED
  BY <1>5, <1>6, <1>7

LEMMA TerminatedGood ==
  ASSUME NEW k, Good(k, {}, {}, {}), NEW t \in Task, alive(k, t), k.klock[t] # "klocked"
  PROVE  LET r == knl_ter_tsk(k, t)
         IN  Good(r, {t}, {t}, {}) /\ Departed(k, r, t) /\ \A m \in Object : ~ Holds(r, t, m)
<1> DEFINE out == Out0(k, t)
           r == knl_signal_all_mutex(out, t)
           W == {t}
<1>1. r = knl_ter_tsk(k, t)
  BY DEF knl_ter_tsk, Out0
<1>2. Good(out, {t}, {}, {}) /\ Departed(k, out, t)
  BY OutGood
<1> HIDE DEF out
<1>3. Good(out, W, W, {})
  BY <1>2, MoreOnWay DEF W
<1>4. \A m \in Range(out.mtxlist[t]) : Holds(out, t, m)
  BY <1>2 DEF Good, Core, MutexGood, ListGood
<1>5. t \in W /\ out.klock[t] = "none"
  BY <1>2 DEF W, Departed
<1> HIDE DEF W, r
<1>6. Good(r, W, W, {}) /\ Mild(out, r) /\ r.klock[t] = "none" /\ \A m \in Object : ~ Holds(r, t, m)
  BY <1>3, <1>4, <1>5, SignalGood DEF r
<1>7. Departed(k, r, t)
  BY <1>2, <1>6 DEF Departed, Mild, SameRun
<1> QED
  BY <1>1, <1>6, <1>7 DEF W

(* It is dormant, or gone. *)
LEMMA EndedGood ==
  ASSUME NEW k, Good(k, {}, {}, {}), NEW t \in Task, alive(k, t), k.klock[t] # "klocked",
         NEW r, r = knl_make_dormant(knl_ter_tsk(k, t), t) \/ r = knl_del_tsk(knl_ter_tsk(k, t), t)
  PROVE  /\ Good(r, {}, {}, {}) /\ SameRun(k, r) /\ \A u \in Task : u # t => r.call[u] = k.call[u]
         /\ \A u \in Task : u # t /\ u \in Range(k.ready) => u \in Range(r.ready)
<1> DEFINE d == knl_ter_tsk(k, t)
           W == {t}
<1>1. Good(d, W, W, {}) /\ Departed(k, d, t) /\ \A m \in Object : ~ Holds(d, t, m)
  BY TerminatedGood
<1>2. r = knl_make_dormant(d, t) \/ r = knl_del_tsk(d, t)
  OBVIOUS
<1> HIDE DEF d
<1>3. Typed(d) /\ d.klock[t] = "none"
  BY <1>1 DEF Good, Core, Departed
<1>4. Typed(r) /\ Ended(d, r, t)
  BY <1>2, <1>3, DormantIs, DeletedIs
<1>5. t \in W /\ W \ {t} = {}
  BY DEF W
<1> HIDE DEF W
<1>6. Good(r, W \ {t}, W \ {t}, {})
  BY <1>1, <1>3, <1>4, <1>5, DormantGood
<1>7. Good(r, {}, {}, {})
  BY <1>5, <1>6
<1> QED
  BY <1>1, <1>4, <1>7 DEF Ended, Departed, SameRun

LEMMA TerminateFine ==
  ASSUME NEW k, Fine(k), NEW t \in Task, t # k.ctxtsk
  PROVE  Fine(tk_ter_tsk(k, t))
<1> DEFINE r == knl_make_dormant(knl_ter_tsk(k, t), t)
<1>1. Good(k, {}, {}, {}) /\ Resting(k)
  BY DEF Fine
<1>2. tk_ter_tsk(k, t) = IF ~alive(k, t) \/ k.klock[t] = "klocked" THEN k ELSE r
  BY DEF tk_ter_tsk
<1>3. ASSUME alive(k, t), k.klock[t] # "klocked"
      PROVE  Fine(r)
  <2>1. /\ Good(r, {}, {}, {}) /\ SameRun(k, r) /\ \A u \in Task : u # t => r.call[u] = k.call[u]
        /\ \A u \in Task : u # t /\ u \in Range(k.ready) => u \in Range(r.ready)
    BY <1>1, <1>3, EndedGood
  <2> HIDE DEF r
  <2> QED
    BY <1>1, <2>1 DEF Fine, Resting, SameRun
<1> HIDE DEF r
<1> QED
  BY <1>2, <1>3

(* Dispatching is enabled in any case. *)
LEMMA EnabledFine ==
  ASSUME NEW k, Good(k, {}, {}, {})
  PROVE  Fine([k EXCEPT !.dispatch_disabled = FALSE])
<1> DEFINE r == [k EXCEPT !.dispatch_disabled = FALSE]
<1>1. Typed(k)
  BY DEF Good, Core
<1>2. /\ r.state = k.state /\ r.priority = k.priority /\ r.bpriority = k.bpriority /\ r.ipriority = k.ipriority
      /\ r.suscnt = k.suscnt /\ r.wupcnt = k.wupcnt /\ r.timed = k.timed /\ r.mtxlist = k.mtxlist
      /\ r.klock = k.klock /\ r.call = k.call /\ r.klocktsk = k.klocktsk /\ r.locked = k.locked
      /\ r.wtskq = k.wtskq /\ r.ready = k.ready /\ r.schedtsk = k.schedtsk /\ r.ctxtsk = k.ctxtsk
      /\ r.dispatch_disabled = FALSE /\ r.obj = k.obj
      /\ r.wspec = k.wspec /\ r.wid = k.wid /\ r.winfo = k.winfo /\ IsFun(r, Fields)
  BY <1>1 DEF Typed, IsFun, IsRec, Fields
<1> HIDE DEF r
<1>3. Typed(r)
  BY <1>1, <1>2 DEF Typed, TasksTyped, WaitsTyped, LocksTyped, RunTyped, ObjectsTyped
<1>4. Alike(k, r)
  BY <1>2 DEF Alike, SameWaits
<1>5. Good(r, {}, {}, {})
  BY <1>2, <1>3, <1>4, AlikeGood
<1> QED
  BY <1>2, <1>5 DEF Fine, Resting, r

LEMMA ExitFine ==
  ASSUME NEW k, Fine(k), AtWork(k)
  PROVE  Fine(tk_ext_tsk(k)) /\ Fine(tk_exd_tsk(k))
<1> DEFINE t == k.ctxtsk
           e == knl_make_dormant(knl_ter_tsk(k, t), t)
           d == knl_del_tsk(knl_ter_tsk(k, t), t)
<1>1. Good(k, {}, {}, {}) /\ t \in Task /\ alive(k, t) /\ k.klock[t] # "klocked"
  BY DEF Fine, AtWork, alive
<1>2. tk_ext_tsk(k) = [e EXCEPT !.dispatch_disabled = FALSE] /\ tk_exd_tsk(k) = [d EXCEPT !.dispatch_disabled = FALSE]
  BY DEF tk_ext_tsk, tk_exd_tsk
<1>3. Good(e, {}, {}, {})
  BY <1>1, EndedGood
<1>4. Good(d, {}, {}, {})
  BY <1>1, EndedGood
<1> HIDE DEF e, d
<1> QED
  BY <1>2, <1>3, <1>4, EnabledFine

-----------------------------------------------------------------------------
(***************************************************************************)
(* Objects that come and go.                                               *)
(***************************************************************************)
LEMMA TransitGood ==
  ASSUME NEW k, NEW X, NEW Z, NEW Y, Good(k, X, Z, Y), NEW m \in Object, InTransit(k, Z, Y, m)
  PROVE  Good(k, X, Z, Y \cup {m})
<1>1. OwnerGood(k, Y) /\ ListGood(k, Z, Y) /\ RankGood(k, X)
  BY DEF Good, Core, MutexGood
<1>2. NULL \notin Task
  BY KernelTaskAssumption
<1>3. ListGood(k, Z, Y \cup {m})
  BY <1>1, <1>2 DEF ListGood, Holds, InTransit
<1>4. OwnerGood(k, Y \cup {m})
  BY <1>1 DEF OwnerGood
<1> QED
  BY <1>1, <1>3, <1>4 DEF Good, Core, MutexGood

LEMMA RenewedMild == ASSUME NEW k, NEW r, NEW o, NEW b, Renewed(k, r, o, b) PROVE Mild(k, r)
BY DEF Renewed, Mild, SameRun, SameReady

LEMMA FreeTyped == ObjTyped(Free)
BY DEF ObjTyped, Free, IsRec, Kinds, Used, RingGood, BlocksGood

(* An object that nobody waits for is deleted. *)
LEMMA GoneGood ==
  ASSUME NEW k, NEW X, NEW Z, NEW Y, Good(k, X, Z, Y), NEW o \in Object, k.obj[o].kind \notin { "mpf", "taken" },
         NobodyAt(k, X, o), k.obj[o].kind = "mtx" => o \in Y
  PROVE  LET r == [k EXCEPT !.obj[o] = Free] IN Good(r, X, Z, Y \ {o}) /\ Mild(k, r)
<1> DEFINE b == Free
           r == [k EXCEPT !.obj[o] = b]
<1>1. Typed(k) /\ CallsGood(k)
  BY DEF Good, Core
<1>2. ObjTyped(b) /\ b.wait_queue = << >> /\ b.kind = "free"
  BY FreeTyped DEF Free
<1> HIDE DEF b
<1>3. Renewed(k, r, o, b)
  BY <1>1, <1>2, ObjectIs
<1> HIDE DEF r
<1>4. Idle(k, o)
  BY <1>1, NoPoolIdle
<1>5. \A t \in Task : Makes(k, t, o) => b.kind = "taken"
  BY <1>1 DEF CallsGood
<1>6. (b.kind = "mbf" => b.recv_queue = << >>) /\ (b.kind = "mtx" => b.mtxtsk = NULL)
  BY <1>2
<1>7. Good(r, X, Z, Y \ {o})
  BY <1>2, <1>3, <1>4, <1>5, <1>6, ReplaceGood
<1> QED
  BY <1>3, <1>7, RenewedMild DEF r, b

(* One is made out of a free control block. *)
Fresh(b) ==
  /\ ObjTyped(b) /\ b.wait_queue = << >>
  /\ b.kind = "mbf" => b.recv_queue = << >>
  /\ b.kind = "mtx" => b.mtxtsk = NULL

LEMMA NewGood ==
  ASSUME NEW k, Fine(k), NEW o \in Object, k.obj[o].kind = "free", NEW b, Fresh(b)
  PROVE  LET r == [k EXCEPT !.obj[o] = b] IN Fine(r)
<1> DEFINE r == [k EXCEPT !.obj[o] = b]
<1>1. Good(k, {}, {}, {}) /\ Typed(k) /\ CallsGood(k) /\ WaitGood(k, {}) /\ Resting(k)
  BY DEF Fine, Good, Core
<1>2. Renewed(k, r, o, b)
  BY <1>1, ObjectIs DEF Fresh
<1> HIDE DEF r
<1>3. Idle(k, o)
  BY <1>1, NoPoolIdle
<1>4. \A t \in Task : Makes(k, t, o) => b.kind = "taken"
  BY <1>1 DEF CallsGood
<1>5. NobodyAt(k, {}, o)
  BY <1>1 DEF NobodyAt, WaitGood, WaitsFor, Suits, InQueue
<1>6. ObjTyped(b) /\ b.wait_queue = << >> /\ (b.kind = "mbf" => b.recv_queue = << >>)
      /\ (b.kind = "mtx" => b.mtxtsk = NULL) /\ (k.obj[o].kind = "mtx" => o \in {})
  BY DEF Fresh
<1>7. Good(r, {}, {}, {} \ {o})
  BY <1>1, <1>2, <1>3, <1>4, <1>5, <1>6, ReplaceGood
<1>8. {} \ {o} = {}
  OBVIOUS
<1>9. Good(r, {}, {}, {})
  BY <1>7, <1>8
<1>10. Mild(k, r)
  BY <1>2, RenewedMild
<1>11. Fine(r)
  BY <1>1, <1>9, <1>10, MildFine
<1> QED
  BY <1>11 DEF r

(* Nobody is left of those who waited in its queue. *)
LEMMA NobodyLeft ==
  ASSUME NEW k, NEW X, NEW Z, NEW Y, Good(k, X, Z, Y), NEW o \in Object, NEW r, Calm(k, r),
         Receivers(k, X, o) = {},
         \A u \in Task : waiting(r, u) <=> waiting(k, u) /\ u \notin Waiters(k, X, o)
  PROVE  NobodyAt(r, X, o)
<1>1. WaitGood(k, X)
  BY DEF Good, Core
<1> SUFFICES ASSUME NEW u \in Task, u \notin X, waiting(r, u), r.wid[u] = o, r.wspec[u] \notin { "slp", "dly" }
             PROVE  FALSE
  BY DEF NobodyAt
<1>2. waiting(k, u) /\ u \notin Waiters(k, X, o) /\ k.wid[u] = o /\ k.wspec[u] \notin { "slp", "dly" }
  BY DEF Calm
<1>3. k.wspec[u] \in InQueue \/ k.wspec[u] = "rmbf"
  BY <1>1, <1>2 DEF WaitGood, WaitsFor, Suits, InQueue
<1> QED
  BY <1>2, <1>3 DEF Waiters, Receivers

LEMMA NoReceivers ==
  ASSUME NEW k, NEW X, NEW Z, NEW Y, Good(k, X, Z, Y), NEW o \in Object, k.obj[o].kind # "mbf"
  PROVE  Receivers(k, X, o) = {}
<1>1. WaitGood(k, X)
  BY DEF Good, Core
<1> QED
  BY <1>1 DEF Receivers, WaitGood, WaitsFor, Suits, InQueue

(* An object without calls is deleted, with all who wait for it. *)
LEMMA DeletedGood ==
  ASSUME NEW k, NEW X, NEW Z, NEW Y, Good(k, X, Z, Y), NEW o \in Object, k.obj[o].kind \notin { "mpf", "taken" },
         Receivers(k, X, o) = {}, k.obj[o].kind = "mtx" => o \in Y
  PROVE  LET r == [knl_wait_delete(k, o) EXCEPT !.obj[o] = Free] IN Good(r, X, Z, Y \ {o}) /\ Mild(k, r)
<1> DEFINE w == knl_wait_delete(k, o)
           r == [w EXCEPT !.obj[o] = Free]
<1>1. /\ Good(w, X, Z, Y) /\ Calm(k, w)
      /\ \A u \in Task : waiting(w, u) <=> waiting(k, u) /\ u \notin Waiters(k, X, o)
  BY WaitDeleteGood
<1> HIDE DEF w
<1>2. NobodyAt(w, X, o)
  BY <1>1, NobodyLeft
<1>3. w.obj[o].kind = k.obj[o].kind
  BY <1>1 DEF Calm
<1>4. Good(r, X, Z, Y \ {o}) /\ Mild(w, r)
  BY <1>1, <1>2, <1>3, GoneGood
<1> HIDE DEF r
<1>5. Mild(k, r)
  BY <1>1, <1>4, CalmMild, MildBoth
<1> QED
  BY <1>4, <1>5 DEF r, w

-----------------------------------------------------------------------------
(***************************************************************************)
(* Calls on mutexes.                                                       *)
(***************************************************************************)
LEMMA CreateMutexFine ==
  ASSUME NEW k, Fine(k), NEW o \in Object, k.obj[o].kind = "free", NEW atr, NEW p \in Pri
  PROVE  Fine(tk_cre_mtx(k, o, atr, p))
<1> DEFINE b == [kind |-> "mtx", wait_queue |-> << >>, atr |-> atr, ceilpri |-> p, mtxtsk |-> NULL]
<1>1. Fresh(b)
  BY DEF Fresh, ObjTyped, IsRec, Kinds, Used, RingGood, BlocksGood
<1>2. tk_cre_mtx(k, o, atr, p) = [k EXCEPT !.obj[o] = b]
  BY DEF tk_cre_mtx
<1> HIDE DEF b
<1> QED
  BY <1>1, <1>2, NewGood

LEMMA DeleteMutexFine ==
  ASSUME NEW k, Fine(k), NEW m \in Object, k.obj[m].kind = "mtx"
  PROVE  Fine(tk_del_mtx(k, m))
<1> DEFINE owner == k.obj[m].mtxtsk
           c == IF owner = NULL THEN k ELSE knl_release_mutex(k, owner, m)
           r == [knl_wait_delete(c, m) EXCEPT !.obj[m] = Free]
           V == {m}
           X == {}
<1>1. Good(k, X, X, X) /\ Resting(k) /\ Typed(k) /\ X \cup {m} = V /\ V \ {m} = {} /\ X = {}
  BY DEF Fine, Good, Core
<1>2. owner \in Task \cup {NULL}
  BY <1>1 DEF Typed, ObjectsTyped, ObjTyped
<1>3. ASSUME owner \in Task
      PROVE  Start(k, X, X, owner)
  BY <1>3 DEF Start, Above
<1>4. tk_del_mtx(k, m) = r
  BY DEF tk_del_mtx
<1> HIDE DEF X, V, r, c
<1>5. Good(c, X, X, V) /\ Mild(k, c) /\ c.obj[m].kind = "mtx"
  <2>1. CASE owner = NULL
    <3>1. InTransit(k, X, X, m)
      BY <2>1 DEF InTransit
    <3>2. Good(k, X, X, X \cup {m})
      BY <1>1, <3>1, TransitGood
    <3>3. c = k
      BY <2>1 DEF c
    <3> QED
      BY <1>1, <3>2, <3>3 DEF Mild, SameRun
  <2>2. CASE owner # NULL
    <3>1. Start(k, X, X, owner) /\ Holds(k, owner, m)
      BY <1>2, <1>3, <2>2 DEF Holds
    <3>2. c = knl_release_mutex(k, owner, m)
      BY <2>2 DEF c
    <3> HIDE DEF owner
    <3>3. Good(c, X, X, X \cup {m}) /\ Mild(k, c) /\ c.obj[m].kind = "mtx"
      BY <1>1, <3>1, <3>2, ReleaseMutexGood
    <3> QED
      BY <1>1, <3>3
  <2> QED
    BY <2>1, <2>2
<1>6. Receivers(c, X, m) = {} /\ m \in V
  BY <1>5, NoReceivers DEF V
<1>7. Good(r, X, X, V \ {m}) /\ Mild(c, r)
  BY <1>5, <1>6, DeletedGood DEF r
<1>8. Good(r, {}, {}, {})
  BY <1>1, <1>7
<1>9. Mild(k, r)
  BY <1>5, <1>7, MildBoth
<1> QED
  BY <1>1, <1>4, <1>8, <1>9, MildFine

LEMMA UnlockMutexFine ==
  ASSUME NEW k, Fine(k), AtWork(k), NEW m \in Object, k.obj[m].kind = "mtx"
  PROVE  Fine(tk_unl_mtx(k, m))
<1> DEFINE t == k.ctxtsk
           c == knl_release_mutex(k, t, m)
           r == Hand_Over(c, m)
           V == {m}
           X == {}
<1>1. Good(k, X, X, X) /\ Resting(k) /\ X \cup {m} = V /\ V \ {m} = {} /\ X = {} /\ m \in V
  BY DEF Fine
<1>2. tk_unl_mtx(k, m) = IF k.obj[m].mtxtsk # t THEN k ELSE r
  BY DEF tk_unl_mtx
<1>3. Start(k, X, X, t)
  BY DEF AtWork, Start, Above
<1> HIDE DEF X, V, t, c
<1>4. ASSUME k.obj[m].mtxtsk = t
      PROVE  Fine(r)
  <2>1. Holds(k, t, m)
    BY <1>4 DEF Holds
  <2>2. Good(c, X, X, X \cup {m}) /\ Mild(k, c) /\ c.obj[m].kind = "mtx"
    BY <1>1, <1>3, <2>1, ReleaseMutexGood DEF c
  <2>3. Good(c, X, X, V) /\ InTransit(c, X, V, m)
    BY <1>1, <2>2 DEF InTransit
  <2>4. Good(r, X, X, V \ {m}) /\ Passed(c, r, X, m)
    BY <2>3, HandOverGood
  <2> HIDE DEF r
  <2>5. Good(r, {}, {}, {})
    BY <1>1, <2>4
  <2>6. Mild(k, r)
    BY <2>2, <2>4, MildBoth DEF Passed
  <2> QED
    BY <1>1, <2>5, <2>6, MildFine
<1> HIDE DEF r
<1> QED
  BY <1>2, <1>4

LEMMA LockMutexFine ==
  ASSUME NEW k, Fine(k), AtWork(k), ~ k.dispatch_disabled, NEW m \in Object, k.obj[m].kind = "mtx", NEW tmout,
         \A held \in Range(k.mtxlist[k.ctxtsk]) : Rank[held] <= Rank[m], InOneOrder
  PROVE  Fine(tk_loc_mtx(k, m, tmout))
<1> DEFINE t == k.ctxtsk
           owner == k.obj[m].mtxtsk
           p == k.priority[t]
           c == IF "INHERIT" \in k.obj[m].atr /\ k.priority[owner] > p
                THEN knl_change_task_priority(k, owner, p) ELSE k
           w == knl_make_wait(Waits(c, "mtx", m, NULL), tmout)
           r == [w EXCEPT !.obj[m].wait_queue = Line(w, m, t)]
           took == Take(k, m, t)
           X == {}
<1>1. Good(k, X, X, X) /\ Resting(k) /\ X \ {m} = X /\ X = {} /\ Typed(k) /\ ListGood(k, X, X)
  BY DEF Fine, Good, Core, MutexGood
<1>2. t \in Task \ X /\ alive(k, t) /\ ~ waiting(k, t) /\ p \in Pri /\ t \in Range(k.ready) /\ k.call[t] = NULL
  BY <1>1 DEF AtWork, alive, waiting, Typed, TasksTyped
<1>3. owner \in Task \cup {NULL}
  BY <1>1 DEF Typed, ObjectsTyped, ObjTyped
<1>4. \/ tk_loc_mtx(k, m, tmout) = k
      \/ owner = NULL /\ tk_loc_mtx(k, m, tmout) = took
      \/ owner # NULL /\ owner # t /\ tk_loc_mtx(k, m, tmout) = r
  BY DEF tk_loc_mtx
<1>5. owner \in Task => Start(k, X, X, owner)
  BY DEF Start, Above
<1> HIDE DEF X, r, w, c, took, p
<1>6. ASSUME owner = NULL
      PROVE  Fine(took)
  <2>1. InTransit(k, X, X, m)
    BY <1>6 DEF InTransit
  <2> HIDE DEF t, owner
  <2>2. Good(took, X, X, X \ {m}) /\ Passed(k, took, X, m)
    BY <1>1, <1>2, <2>1, TakeGood DEF took
  <2>3. Good(took, {}, {}, {})
    BY <1>1, <2>2
  <2> QED
    BY <1>1, <2>2, <2>3, MildFine DEF Passed
<1>7. ASSUME owner # NULL, owner # t
      PROVE  Fine(r)
  <2>1. Good(c, X, X, X) /\ Calm(k, c)
    <3>1. Start(k, X, X, owner)
      BY <1>3, <1>5, <1>7
    <3> DEFINE d == knl_change_task_priority(k, owner, p)
    <3> HIDE DEF owner
    <3>2. Good(d, X, X, X) /\ Calm(k, d)
      BY <1>1, <1>2, <3>1, ChangeGood
    <3>3. c = k \/ c = d
      BY DEF c, owner
    <3> HIDE DEF d
    <3> QED
      BY <1>1, <3>2, <3>3, CalmSelf
  <2>2. \A x \in Range(k.mtxlist[t]) : Rank[x] < Rank[m]
    <3> SUFFICES ASSUME NEW x \in Range(k.mtxlist[t])
                 PROVE  Rank[x] < Rank[m]
      OBVIOUS
    <3>1. Holds(k, t, x) /\ x \in Object
      <4>1. k.mtxlist[t] \in Seq(Object)
        BY <1>1, <1>2 DEF Typed, TasksTyped
      <4> QED
        BY <1>1, <1>2, <4>1 DEF ListGood, Range
    <3>2. x # m
      BY <1>7, <3>1 DEF Holds
    <3>3. Rank[x] <= Rank[m] /\ Rank[x] # Rank[m]
      BY <3>1, <3>2 DEF InOneOrder
    <3>4. Rank[x] \in Nat /\ Rank[m] \in Nat
      BY <3>1, KernelAssumption
    <3> QED
      BY <3>3, <3>4
  <2>3. MayWaitFor(c, t, "mtx", m)
    <3>1. c.ctxtsk = t /\ c.call[t] = NULL /\ c.mtxlist = k.mtxlist
      BY <1>2, <2>1 DEF Calm
    <3>2. c.obj[m].kind = "mtx" /\ c.obj[m].mtxtsk = owner
      BY <2>1 DEF Calm
    <3>3. c.state[t] = "ready"
      <4>1. t \in Range(c.ready) /\ ReadyGood(c, X)
        BY <1>2, <2>1 DEF Calm, Good, Core
      <4> QED
        BY <4>1, ReadyState
    <3> QED
      BY <1>7, <2>2, <3>1, <3>2, <3>3 DEF MayWaitFor, Suits, InQueue
  <2> HIDE DEF t
  <2>4. Good(r, X, X, X) /\ Waited(c, r, t)
    <3>1. Wanted("mtx", NULL)
      BY DEF Wanted
    <3> QED
      BY <1>2, <2>1, <2>3, <3>1, QueueUpGood DEF r, w
  <2>5. r.dispatch_disabled = FALSE
    BY <1>1, <2>1, <2>4 DEF Waited, SameRun, Calm, Typed, RunTyped
  <2> QED
    BY <1>1, <2>4, <2>5 DEF Fine, Resting
<1> HIDE DEF t, owner
<1> QED
  BY <1>4, <1>6, <1>7

-----------------------------------------------------------------------------
(***************************************************************************)
(* Calls on semaphores, event flags and mailboxes.                         *)
(***************************************************************************)
(* The running task waits in the queue of an object, or does not want to. *)
LEMMA QueueFine ==
  ASSUME NEW k, Fine(k), AtWork(k), ~ k.dispatch_disabled, NEW o \in Object, NEW wspec, NEW winfo, NEW tmout,
         Suits(k.obj[o].kind, wspec), wspec \notin { "mtx", "rmbf" }, Wanted(wspec, winfo)
  PROVE  Fine(knl_gcb_make_wait(Waits(k, wspec, o, winfo), o, tmout))
<1> DEFINE t == k.ctxtsk
           c == Waits(k, wspec, o, winfo)
           w == knl_make_wait(c, tmout)
           r == [w EXCEPT !.obj[o].wait_queue = Line(w, o, t)]
           X == {}
<1>1. Good(k, X, X, X) /\ Resting(k) /\ X = {} /\ Typed(k)
  BY DEF Fine, Good, Core
<1>2. t \in Task \ X /\ k.call[t] = NULL /\ k.state[t] = "ready" /\ k.ctxtsk = t
  BY DEF AtWork
<1>3. MayWaitFor(k, t, wspec, o)
  BY <1>2 DEF MayWaitFor
<1>4. c.ctxtsk = t /\ knl_gcb_make_wait(c, o, tmout) = IF tmout = "TMO_POL" THEN c ELSE [w EXCEPT !.obj[o].wait_queue = Line(w, o, c.ctxtsk)]
  <2>1. c.ctxtsk = t
    BY <1>1, <1>2, WaitsIs DEF SameRun
  <2> HIDE DEF c
  <2> QED
    BY <2>1 DEF knl_gcb_make_wait
<1>5. knl_gcb_make_wait(c, o, tmout) = c \/ knl_gcb_make_wait(c, o, tmout) = r
  BY <1>4
<1> HIDE DEF X, t
<1>6. Fine(c)
  <2>1. /\ Typed(c) /\ SameTasks(k, c) /\ SameLocks(k, c) /\ SameReady(k, c) /\ SameRun(k, c)
        /\ c.obj = k.obj /\ c.call = k.call /\ c.mtxlist = k.mtxlist /\ c.timed = k.timed
        /\ \A u \in Task : c.wspec[u] = (IF u = t THEN wspec ELSE k.wspec[u])
                           /\ c.wid[u] = (IF u = t THEN o ELSE k.wid[u])
                           /\ c.winfo[u] = (IF u = t THEN winfo ELSE k.winfo[u])
    BY <1>1, <1>2, WaitsIs
  <2> HIDE DEF c
  <2>2. \A u \in Task : u \notin X /\ waiting(k, u) =>
          c.wspec[u] = k.wspec[u] /\ c.wid[u] = k.wid[u] /\ c.winfo[u] = k.winfo[u]
    BY <1>2, <2>1 DEF waiting
  <2>3. Good(c, X, X, X)
    BY <1>1, <2>1, <2>2, ForgetGood
  <2>4. Mild(k, c)
    BY <2>1 DEF Mild, SameReady
  <2> QED
    BY <1>1, <2>3, <2>4, MildFine
<1>7. Good(r, X, X, X) /\ Waited(k, r, t)
  BY <1>1, <1>2, <1>3, QueueUpGood
<1> HIDE DEF r, w, c
<1>8. Fine(r)
  BY <1>1, <1>7 DEF Fine, Resting, Waited, SameRun
<1> QED
  BY <1>5, <1>6, <1>8 DEF c

LEMMA CreateSemaphoreFine ==
  ASSUME NEW k, Fine(k), NEW o \in Object, k.obj[o].kind = "free", NEW atr, NEW isemcnt, NEW maxsem
  PROVE  Fine(tk_cre_sem(k, o, atr, isemcnt, maxsem))
<1> DEFINE b == [kind |-> "sem", wait_queue |-> << >>, atr |-> atr, semcnt |-> isemcnt, maxsem |-> maxsem]
<1>1. Fresh(b)
  BY DEF Fresh, ObjTyped, IsRec, Kinds, Used, RingGood, BlocksGood
<1>2. tk_cre_sem(k, o, atr, isemcnt, maxsem) = [k EXCEPT !.obj[o] = b]
  BY DEF tk_cre_sem
<1> HIDE DEF b
<1> QED
  BY <1>1, <1>2, NewGood

LEMMA CreateFlagFine ==
  ASSUME NEW k, Fine(k), NEW o \in Object, k.obj[o].kind = "free", NEW atr, NEW iflgptn
  PROVE  Fine(tk_cre_flg(k, o, atr, iflgptn))
<1> DEFINE b == [kind |-> "flg", wait_queue |-> << >>, atr |-> atr, flgptn |-> iflgptn]
<1>1. Fresh(b)
  BY DEF Fresh, ObjTyped, IsRec, Kinds, Used, RingGood, BlocksGood
<1>2. tk_cre_flg(k, o, atr, iflgptn) = [k EXCEPT !.obj[o] = b]
  BY DEF tk_cre_flg
<1> HIDE DEF b
<1> QED
  BY <1>1, <1>2, NewGood

LEMMA CreateMailboxFine ==
  ASSUME NEW k, Fine(k), NEW o \in Object, k.obj[o].kind = "free", NEW atr
  PROVE  Fine(tk_cre_mbx(k, o, atr))
<1> DEFINE b == [kind |-> "mbx", wait_queue |-> << >>, atr |-> atr, mq |-> << >>]
<1>1. Fresh(b)
  BY DEF Fresh, ObjTyped, IsRec, Kinds, Used, RingGood, BlocksGood
<1>2. tk_cre_mbx(k, o, atr) = [k EXCEPT !.obj[o] = b]
  BY DEF tk_cre_mbx
<1> HIDE DEF b
<1> QED
  BY <1>1, <1>2, NewGood

LEMMA FieldFine ==
  ASSUME NEW k, Fine(k), NEW o \in Object, NEW f \in Payload, NEW v
  PROVE  Fine([k EXCEPT !.obj[o][f] = v])
<1> DEFINE r == [k EXCEPT !.obj[o][f] = v]
<1>1. Good(k, {}, {}, {}) /\ Resting(k)
  BY DEF Fine
<1>2. Good(r, {}, {}, {}) /\ Calm(k, r)
  BY <1>1, FieldGood
<1> HIDE DEF r
<1> QED
  BY <1>1, <1>2, CalmFine DEF r

LEMMA SignalSemaphoreFine ==
  ASSUME NEW k, Fine(k), NEW o \in Object, NEW cnt
  PROVE  Fine(tk_sig_sem(k, o, cnt))
<1> DEFINE semcnt == k.obj[o].semcnt + cnt
           skip == "CNT" \in k.obj[o].atr
           r == Serve(k, o, semcnt, skip)
<1>1. Good(k, {}, {}, {}) /\ Resting(k)
  BY DEF Fine
<1>2. tk_sig_sem(k, o, cnt) = k \/ tk_sig_sem(k, o, cnt) = r
  BY DEF tk_sig_sem
<1> HIDE DEF semcnt, skip
<1>3. Good(r, {}, {}, {}) /\ Calm(k, r)
  BY <1>1, ServeGood
<1> HIDE DEF r
<1>4. Fine(r)
  BY <1>1, <1>3, CalmFine
<1> QED
  BY <1>2, <1>4

LEMMA WaitSemaphoreFine ==
  ASSUME NEW k, Fine(k), AtWork(k), ~ k.dispatch_disabled, NEW o \in Object, k.obj[o].kind = "sem", NEW cnt, NEW tmout
  PROVE  Fine(tk_wai_sem(k, o, cnt, tmout))
<1> DEFINE f == "semcnt"
           v == k.obj[o].semcnt - cnt
           got == [k EXCEPT !.obj[o][f] = v]
           w == knl_gcb_make_wait(Waits(k, "sem", o, cnt), o, tmout)
<1>1. [k EXCEPT !.obj[o].semcnt = @ - cnt] = got
  OBVIOUS
<1>2. tk_wai_sem(k, o, cnt, tmout) \in { k, got, w }
  BY <1>1 DEF tk_wai_sem
<1>3. f \in Payload
  BY DEF Payload
<1> HIDE DEF f, v
<1>4. Fine(got)
  BY <1>3, FieldFine
<1>5. Fine(w)
  <2>1. Suits(k.obj[o].kind, "sem") /\ \A x : Wanted("sem", x)
    BY DEF Suits, InQueue, Wanted
  <2> QED
    BY <2>1, QueueFine
<1> HIDE DEF got, w
<1> QED
  BY <1>2, <1>4, <1>5

LEMMA FlagsFine ==
  ASSUME NEW k, Fine(k), NEW o \in Object, NEW ptn
  PROVE  Fine(tk_set_flg(k, o, ptn)) /\ Fine(tk_clr_flg(k, o, ptn))
<1>1. Good(k, {}, {}, {}) /\ Resting(k)
  BY DEF Fine
<1>2. Fine(tk_set_flg(k, o, ptn))
  <2> DEFINE r == tk_set_flg(k, o, ptn)
  <2>1. Good(r, {}, {}, {}) /\ Calm(k, r)
    BY <1>1, SetFlagGood
  <2> HIDE DEF r
  <2>2. Fine(r)
    BY <1>1, <2>1, CalmFine
  <2> QED
    BY <2>2 DEF r
<1>3. Fine(tk_clr_flg(k, o, ptn))
  <2> DEFINE f == "flgptn"
             v == k.obj[o].flgptn \cap ptn
  <2>1. tk_clr_flg(k, o, ptn) = [k EXCEPT !.obj[o][f] = v]
    BY DEF tk_clr_flg
  <2>2. f \in Payload
    BY DEF Payload
  <2> HIDE DEF f, v
  <2> QED
    BY <2>1, <2>2, FieldFine
<1> QED
  BY <1>2, <1>3

LEMMA WaitFlagFine ==
  ASSUME NEW k, Fine(k), AtWork(k), ~ k.dispatch_disabled, NEW o \in Object, k.obj[o].kind = "flg", NEW want, NEW tmout
  PROVE  Fine(tk_wai_flg(k, o, want, tmout))
<1> DEFINE f == "flgptn"
           v == Taken(k.obj[o].flgptn, want)
           got == [k EXCEPT !.obj[o][f] = v]
           w == knl_gcb_make_wait(Waits(k, "flg", o, want), o, tmout)
<1>1. [k EXCEPT !.obj[o].flgptn = Taken(@, want)] = got
  OBVIOUS
<1>2. tk_wai_flg(k, o, want, tmout) \in { k, got, w }
  BY <1>1 DEF tk_wai_flg
<1>3. f \in Payload
  BY DEF Payload
<1> HIDE DEF f, v
<1>4. Fine(got)
  BY <1>3, FieldFine
<1>5. Fine(w)
  <2>1. Suits(k.obj[o].kind, "flg") /\ \A x : Wanted("flg", x)
    BY DEF Suits, InQueue, Wanted
  <2> QED
    BY <2>1, QueueFine
<1> HIDE DEF got, w
<1> QED
  BY <1>2, <1>4, <1>5

(* Who is first in a queue waits. *)
LEMMA FirstWaits ==
  ASSUME NEW k, Fine(k), NEW o \in Object
  PROVE  /\ k.obj[o].wait_queue # << >> => Head(k.obj[o].wait_queue) \in Task /\ waiting(k, Head(k.obj[o].wait_queue))
         /\ k.obj[o].kind = "mbf" /\ k.obj[o].recv_queue # << >> =>
              Head(k.obj[o].recv_queue) \in Task /\ waiting(k, Head(k.obj[o].recv_queue))
<1>1. WaitGood(k, {})
  BY DEF Fine, Good, Core
<1>2. IsLine(k.obj[o].wait_queue, Waiters(k, {}, o))
  BY <1>1 DEF WaitGood, LinesGood
<1>3. k.obj[o].kind = "mbf" => IsLine(k.obj[o].recv_queue, Receivers(k, {}, o))
  BY <1>1 DEF WaitGood, LinesGood
<1>4. k.obj[o].wait_queue # << >> => Head(k.obj[o].wait_queue) \in Waiters(k, {}, o)
  BY <1>2, LineRange
<1>5. k.obj[o].kind = "mbf" /\ k.obj[o].recv_queue # << >> => Head(k.obj[o].recv_queue) \in Receivers(k, {}, o)
  BY <1>3, LineRange
<1> QED
  BY <1>4, <1>5 DEF Waiters, Receivers

LEMMA SendMailboxFine ==
  ASSUME NEW k, Fine(k), NEW o \in Object, NEW msg
  PROVE  Fine(tk_snd_mbx(k, o, msg))
<1> DEFINE f == "mq"
           v == IF "MPRI" \in k.obj[o].atr THEN knl_queue_insert_mpri(k.obj[o].mq, msg) ELSE Append(k.obj[o].mq, msg)
           put == [k EXCEPT !.obj[o][f] = v]
           t == Head(k.obj[o].wait_queue)
           r == knl_wait_release(k, t)
<1>1. tk_snd_mbx(k, o, msg) = IF k.obj[o].wait_queue # << >> THEN r ELSE put
  BY DEF tk_snd_mbx
<1>2. f \in Payload
  BY DEF Payload
<1>3. k.obj[o].wait_queue # << >> => t \in Task /\ waiting(k, t)
  BY FirstWaits
<1> HIDE DEF f, v, t
<1>4. Fine(put)
  BY <1>2, FieldFine
<1>5. k.obj[o].wait_queue # << >> => Fine(r)
  BY <1>3, ReleaseFine
<1> HIDE DEF put, r
<1> QED
  BY <1>1, <1>4, <1>5

LEMMA ReceiveMailboxFine ==
  ASSUME NEW k, Fine(k), AtWork(k), ~ k.dispatch_disabled, NEW o \in Object, k.obj[o].kind = "mbx", NEW tmout
  PROVE  Fine(tk_rcv_mbx(k, o, tmout))
<1> DEFINE f == "mq"
           v == Tail(k.obj[o].mq)
           got == [k EXCEPT !.obj[o][f] = v]
           w == knl_gcb_make_wait(Waits(k, "mbx", o, NULL), o, tmout)
<1>1. tk_rcv_mbx(k, o, tmout) \in { got, w }
  BY DEF tk_rcv_mbx
<1>2. f \in Payload
  BY DEF Payload
<1> HIDE DEF f, v
<1>3. Fine(got)
  BY <1>2, FieldFine
<1>4. Fine(w)
  <2>1. Suits(k.obj[o].kind, "mbx") /\ \A x : Wanted("mbx", x)
    BY DEF Suits, InQueue, Wanted
  <2> QED
    BY <2>1, QueueFine
<1> HIDE DEF got, w
<1> QED
  BY <1>1, <1>3, <1>4

-----------------------------------------------------------------------------
(***************************************************************************)
(* Calls on message buffers.                                               *)
(***************************************************************************)
LEMMA CreateBufferFine ==
  ASSUME NEW k, Fine(k), NEW o \in Object, k.obj[o].kind = "free", NEW atr, NEW bufsz \in Nat \ {0}, NEW maxmsz
  PROVE  Fine(tk_cre_mbf(k, o, atr, bufsz, maxmsz))
<1> DEFINE ring == [i \in 0 .. bufsz - 1 |-> NULL]
           b == [kind |-> "mbf", wait_queue |-> << >>, recv_queue |-> << >>, atr |-> atr,
                 bufsz |-> bufsz, frbufsz |-> bufsz, maxmsz |-> maxmsz, head |-> 0, tail |-> 0,
                 buffer |-> ring]
<1>1. tk_cre_mbf(k, o, atr, bufsz, maxmsz) = [k EXCEPT !.obj[o] = b]
  BY DEF tk_cre_mbf
<1>2. WholeRing(bufsz, bufsz, 0, 0, ring)
  <2>1. bufsz - bufsz = 0 /\ 0 # bufsz /\ InRing(bufsz, 0, 0) = 0
    BY DEF InRing
  <2>2. \A i \in 0 .. bufsz - 1 : InRing(bufsz, 0, i) = i
    BY DEF InRing
  <2>3. IsFun(ring, 0 .. bufsz - 1) /\ \A i \in 0 .. bufsz - 1 : ring[i] = NULL
    BY DEF IsFun, IsRec
  <2> HIDE DEF ring
  <2>4. \A i \in 0 .. bufsz - 1 : ring[InRing(bufsz, 0, i)] = NULL
    BY <2>2, <2>3
  <2>5. bufsz \in 0 .. bufsz /\ 0 \in 0 .. bufsz - 1 /\ 0 .. 0 - 1 = {}
    OBVIOUS
  <2> QED
    BY <2>1, <2>3, <2>4, <2>5 DEF WholeRing
<1> HIDE DEF ring
<1>3. Fresh(b)
  <2>1. RingGood(b)
    BY <1>2 DEF RingGood
  <2> QED
    BY <2>1 DEF Fresh, ObjTyped, IsRec, Kinds, Used, BlocksGood
<1> HIDE DEF b
<1> QED
  BY <1>1, <1>3, NewGood

(* The ring of a buffer changes. *)
LEMMA RingFine ==
  ASSUME NEW k, Fine(k), NEW o \in Object, NEW msg, NEW c,
         \/ c = knl_msg_to_mbf(k.obj[o], msg) /\ msg \in Packet /\ knl_mbf_free(k.obj[o], msg.size)
         \/ c = knl_mbf_to_msg(k.obj[o]) /\ ~ knl_mbf_empty(k.obj[o])
  PROVE  Fine([k EXCEPT !.obj[o] = c])
<1> DEFINE r == [k EXCEPT !.obj[o] = c]
<1>1. Good(k, {}, {}, {}) /\ Resting(k) /\ ObjTyped(k.obj[o])
  BY DEF Fine, Good, Core, Typed, ObjectsTyped
<1>2. ObjTyped(c) /\ SameQueues(k.obj[o], c) /\ SameObject(k.obj[o], c)
  BY <1>1, RingIs
<1>3. Good(r, {}, {}, {}) /\ Calm(k, r)
  BY <1>1, <1>2, PayloadGood
<1> HIDE DEF r
<1>4. Fine(r)
  BY <1>1, <1>3, CalmFine
<1> QED
  BY <1>4 DEF r

LEMMA SendBufferFine ==
  ASSUME NEW k, Fine(k), NEW o \in Object, k.obj[o].kind = "mbf", NEW msg \in Packet, NEW tmout, NEW in_indp,
         tmout # "TMO_POL" => AtWork(k) /\ ~ k.dispatch_disabled
  PROVE  Fine(tk_snd_mbf(k, o, msg, tmout, in_indp))
<1> DEFINE t == Head(k.obj[o].recv_queue)
           c == knl_msg_to_mbf(k.obj[o], msg)
           r == knl_wait_release(k, t)
           put == [k EXCEPT !.obj[o] = c]
           w == knl_gcb_make_wait(Waits(k, "smbf", o, msg), o, tmout)
<1>1. \/ tk_snd_mbf(k, o, msg, tmout, in_indp) = k
      \/ knl_mbf_free(k.obj[o], msg.size) /\ tk_snd_mbf(k, o, msg, tmout, in_indp) = put
      \/ k.obj[o].recv_queue # << >> /\ tk_snd_mbf(k, o, msg, tmout, in_indp) = r
      \/ tmout # "TMO_POL" /\ tk_snd_mbf(k, o, msg, tmout, in_indp) = w
  BY DEF tk_snd_mbf
<1>2. k.obj[o].recv_queue # << >> => t \in Task /\ waiting(k, t)
  BY FirstWaits
<1> HIDE DEF t
<1>3. knl_mbf_free(k.obj[o], msg.size) => Fine(put)
  BY RingFine
<1>4. k.obj[o].recv_queue # << >> => Fine(r)
  BY <1>2, ReleaseFine
<1>5. tmout # "TMO_POL" => Fine(w)
  <2>1. Suits(k.obj[o].kind, "smbf") /\ Wanted("smbf", msg)
    BY DEF Suits, InQueue, Wanted
  <2> QED
    BY <2>1, QueueFine
<1> HIDE DEF put, r, w
<1> QED
  BY <1>1, <1>3, <1>4, <1>5

LEMMA WakeFine ==
  ASSUME NEW k, Fine(k), NEW o \in Object
  PROVE  Fine(knl_mbf_wakeup(k, o)) /\ Fine(knl_mpl_wakeup(k, o))
<1> DEFINE r == knl_mbf_wakeup(k, o)
           s == knl_mpl_wakeup(k, o)
<1>1. Good(k, {}, {}, {}) /\ Resting(k)
  BY DEF Fine
<1>2. Good(r, {}, {}, {}) /\ Calm(k, r)
  BY <1>1, MbfWakeupGood
<1>3. Good(s, {}, {}, {}) /\ Calm(k, s)
  BY <1>1, MplWakeupGood
<1> HIDE DEF r, s
<1>4. Fine(r) /\ Fine(s)
  BY <1>1, <1>2, <1>3, CalmFine
<1> QED
  BY <1>4 DEF r, s

LEMMA ReceiveBufferFine ==
  ASSUME NEW k, Fine(k), AtWork(k), ~ k.dispatch_disabled, NEW o \in Object, k.obj[o].kind = "mbf", NEW tmout
  PROVE  Fine(tk_rcv_mbf(k, o, tmout))
<1> DEFINE t == k.ctxtsk
           c == knl_mbf_to_msg(k.obj[o])
           got == [k EXCEPT !.obj[o] = c]
           a == knl_mbf_wakeup(got, o)
           first == Head(k.obj[o].wait_queue)
           sent == knl_wait_release(k, first)
           b == knl_mbf_wakeup(sent, o)
           w == knl_make_wait(Waits(k, "rmbf", o, NULL), tmout)
           r == [w EXCEPT !.obj[o].recv_queue = Append(@, t)]
<1>1. \/ tk_rcv_mbf(k, o, tmout) \in { k, r }
      \/ ~ knl_mbf_empty(k.obj[o]) /\ tk_rcv_mbf(k, o, tmout) = a
      \/ k.obj[o].wait_queue # << >> /\ tk_rcv_mbf(k, o, tmout) = b
  BY DEF tk_rcv_mbf
<1>2. ~ knl_mbf_empty(k.obj[o]) => Fine(a)
  <2>1. ~ knl_mbf_empty(k.obj[o]) => Fine(got)
    BY RingFine
  <2> HIDE DEF got
  <2> QED
    BY <2>1, WakeFine
<1>3. k.obj[o].wait_queue # << >> => Fine(b)
  <2>1. k.obj[o].wait_queue # << >> => first \in Task /\ waiting(k, first)
    BY FirstWaits
  <2> HIDE DEF first
  <2>2. k.obj[o].wait_queue # << >> => Fine(sent)
    BY <2>1, ReleaseFine
  <2> HIDE DEF sent
  <2> QED
    BY <2>2, WakeFine
<1>4. Fine(r)
  <2>1. Good(k, {}, {}, {}) /\ t \in Task \ {} /\ k.ctxtsk = t /\ Typed(k)
    BY DEF AtWork, Fine, Good, Core
  <2>2. MayWaitFor(k, t, "rmbf", o)
    BY DEF MayWaitFor, AtWork, Suits
  <2> HIDE DEF t
  <2>3. Wanted("rmbf", NULL)
    BY DEF Wanted
  <2>4. Good(r, {}, {}, {})
    BY <2>1, <2>2, ReceiveUpGood
  <2>5. r.dispatch_disabled = FALSE
    <3> DEFINE wid == o
               q == Append(w.obj[o].recv_queue, t)
               obj == [w.obj EXCEPT ![o].recv_queue = q]
    <3>1. r = [w EXCEPT !.obj = obj]
      OBVIOUS
    <3>2. IsFun(w, Fields) /\ w.dispatch_disabled = FALSE
      <4>1. Stopped(knl_make_non_ready(Waits(k, "rmbf", o, NULL), t), w, t) /\ Waited(k, w, t)
        BY <2>1, <2>2, <2>3, AboutToWait
      <4> HIDE DEF w
      <4> QED
        BY <2>1, <4>1 DEF Stopped, Waited, SameRun, Typed, RunTyped
    <3> HIDE DEF w, obj, r
    <3> QED
      BY <3>1, <3>2 DEF IsFun, IsRec, Fields
  <2> HIDE DEF r
  <2> QED
    BY <2>4, <2>5 DEF Fine, Resting
<1> HIDE DEF a, b, r
<1> QED
  BY <1>1, <1>2, <1>3, <1>4

LEMMA DeleteFine ==
  ASSUME NEW k, Fine(k), NEW o \in Object, k.obj[o].kind \notin { "mpf", "taken", "mtx", "mbf" }
  PROVE  Fine([knl_wait_delete(k, o) EXCEPT !.obj[o] = Free])
<1> DEFINE r == [knl_wait_delete(k, o) EXCEPT !.obj[o] = Free]
<1>1. Good(k, {}, {}, {}) /\ Resting(k) /\ {} \ {o} = {}
  BY DEF Fine
<1>2. Receivers(k, {}, o) = {}
  BY <1>1, NoReceivers
<1>3. Good(r, {}, {}, {} \ {o}) /\ Mild(k, r)
  BY <1>1, <1>2, DeletedGood
<1> HIDE DEF r
<1>4. Good(r, {}, {}, {})
  BY <1>1, <1>3
<1>5. Fine(r)
  BY <1>1, <1>3, <1>4, MildFine
<1> QED
  BY <1>5 DEF r

LEMMA DeleteBufferFine ==
  ASSUME NEW k, Fine(k), NEW o \in Object, k.obj[o].kind = "mbf"
  PROVE  Fine(tk_del_mbf(k, o))
<1> DEFINE queue == k.obj[o].recv_queue
           c == ReleaseAll(k, queue)
           r == [knl_wait_delete(c, o) EXCEPT !.obj[o] = Free]
           T == Receivers(k, {}, o)
<1>1. Good(k, {}, {}, {}) /\ Resting(k) /\ {} \ {o} = {} /\ WaitGood(k, {})
  BY DEF Fine, Good, Core
<1>2. IsLine(queue, T)
  BY <1>1 DEF WaitGood, LinesGood
<1>3. T \subseteq Task /\ \A t \in T : t \notin {} /\ waiting(k, t)
  BY DEF Receivers
<1>4. tk_del_mbf(k, o) = r
  BY DEF tk_del_mbf
<1> HIDE DEF queue, T
<1>5. Good(c, {}, {}, {}) /\ Calm(k, c) /\ \A u \in Task : waiting(c, u) <=> waiting(k, u) /\ u \notin T
  BY <1>1, <1>2, <1>3, SomeReleased
<1> HIDE DEF c
<1>6. Receivers(c, {}, o) = {}
  BY <1>5 DEF Receivers, T, Calm
<1>7. c.obj[o].kind = "mbf"
  BY <1>5 DEF Calm
<1>8. Good(r, {}, {}, {} \ {o}) /\ Mild(c, r)
  BY <1>5, <1>6, <1>7, DeletedGood
<1> HIDE DEF r
<1>9. Good(r, {}, {}, {})
  BY <1>1, <1>8
<1>10. Mild(k, r)
  BY <1>5, <1>8, CalmMild, MildBoth
<1> QED
  BY <1>1, <1>4, <1>9, <1>10, MildFine
=============================================================================
