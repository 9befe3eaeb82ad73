--------------------------- MODULE OrderListProof ---------------------------
(***************************************************************************)
(* That the linked list of orders is whole and implements the queue of     *)
(* OrderQueue, for any number of elements and any length of a reply,       *)
(* wherever the handler interrupts the drive task but where the list is    *)
(* exposed.  The elements of the list are a sequence es: linked, all       *)
(* different, and what the walk from the head meets.  What the walk meets  *)
(* and what a reply leaves are recursive functions; the facts about them   *)
(* are proved by induction on numbers, from the least counterexample.      *)
(***************************************************************************)
EXTENDS OrderList, FiniteSetTheorems, WellFoundedInduction, TLAPS

(* A set of numbers has a least one. *)
LEMMA LeastNumber ==
  ASSUME NEW T \in SUBSET Nat, T # {}
  PROVE  \E x \in T : \A y \in T : x <= y
<1> DEFINE R == OpToRel(<, Nat)
<1>1. IsWellFoundedOn(R, Nat)
  BY NatLessThanWellFounded
<1>2. \A x, y \in Nat : << x, y >> \in R <=> x < y
  BY DEF OpToRel
<1> HIDE DEF R
<1>3. PICK x \in T : \A y \in T : ~ (<< y, x >> \in R)
  BY <1>1, WFMin
<1>4. \A y \in T : ~ (y < x)
  BY <1>2, <1>3
<1>5. \A y \in T : x <= y
  BY <1>4
<1> QED
  BY <1>5

(* Induction up to n. *)
LEMMA InductionTo ==
  ASSUME NEW n \in Nat, NEW S, 0 \in S, \A k \in 0 .. n - 1 : k \in S => k + 1 \in S
  PROVE  \A k \in 0 .. n : k \in S
<1> DEFINE T == { k \in 0 .. n : k \notin S }
<1> SUFFICES ASSUME T # {} PROVE FALSE
  OBVIOUS
<1>0. T \in SUBSET Nat
  OBVIOUS
<1>1. PICK x \in T : \A y \in T : x <= y
  <2> HIDE DEF T
  <2> QED
    BY <1>0, LeastNumber
<1>2. x \in 0 .. n /\ x \notin S /\ x # 0
  BY <1>1
<1>3. x - 1 \in 0 .. n - 1 /\ x - 1 \notin T
  BY <1>1, <1>2
<1>4. x - 1 \in S
  BY <1>3
<1>5. (x - 1) + 1 \in S
  BY <1>3, <1>4
<1> QED
  BY <1>2, <1>5

(***************************************************************************)
(* FoldLeft is defined by a recursive function on sets.  That there is     *)
(* such a function is shown once for the two operators folded here, the    *)
(* one of the list and the one of the queue.                               *)
(***************************************************************************)
Fold(onList, x, d) == IF onList THEN Received(x, d) ELSE Queue!After(x, d)

Folds(f, onList, x0, n, reply) ==
  f = [s \in SUBSET (1 .. n) |->
         IF s = {} THEN x0 ELSE Fold(onList, f[s \ {Max(s)}], reply[Max(s)])]

LEMMA FoldExists ==
  ASSUME NEW onList \in BOOLEAN, NEW x0, NEW n \in Nat, NEW reply \in [1 .. n -> Direction]
  PROVE  \E f : Folds(f, onList, x0, n, reply)
<1> USE DEF Folds
<1> DEFINE Eq(f, N) == Folds(f, onList, x0, N, reply)
<1> DEFINE S == { N \in 0 .. n : \E f : Eq(f, N) }
<1>1. 0 \in S
  <2> DEFINE f == [s \in SUBSET (1 .. 0) |-> x0]
  <2>1. Eq(f, 0)
    OBVIOUS
  <2> QED
    BY <2>1
<1>2. ASSUME NEW N \in 0 .. n - 1, N \in S PROVE N + 1 \in S
  <2>1. PICK f : Eq(f, N)
    BY <1>2
  <2> DEFINE g == [s \in SUBSET (1 .. N + 1) |->
                     IF N + 1 \in s THEN Fold(onList, f[s \ {N + 1}], reply[N + 1]) ELSE f[s]]
  <2>2. ASSUME NEW s \in SUBSET (1 .. N + 1), N + 1 \in s
        PROVE  g[s] = Fold(onList, g[s \ {Max(s)}], reply[Max(s)])
    <3>1. Max(s) = N + 1
      <4>1. \A y \in s : y \in Int /\ N + 1 >= y
        OBVIOUS
      <4>2. \A x \in s : (\A y \in s : x >= y) <=> x = N + 1
        BY <2>2, <4>1
      <4> QED
        BY <2>2, <4>2 DEF Max
    <3>2. s \ {N + 1} \in SUBSET (1 .. N + 1) /\ N + 1 \notin s \ {N + 1}
      OBVIOUS
    <3>3. g[s \ {N + 1}] = f[s \ {N + 1}]
      BY <3>2
    <3> QED
      BY <2>2, <3>1, <3>3
  <2>3. ASSUME NEW s \in SUBSET (1 .. N + 1), N + 1 \notin s
        PROVE  g[s] = IF s = {} THEN x0 ELSE Fold(onList, g[s \ {Max(s)}], reply[Max(s)])
    <3>1. s \in SUBSET (1 .. N)
      <4>1. \A x \in 1 .. N + 1 : x # N + 1 => x \in 1 .. N
        OBVIOUS
      <4> QED
        BY <2>3, <4>1
    <3>5. s \ {Max(s)} \in SUBSET (1 .. N)
      BY <3>1
    <3>2. s \ {Max(s)} \in SUBSET (1 .. N + 1) /\ N + 1 \notin s \ {Max(s)}
      BY <2>3
    <3>3. g[s] = f[s] /\ g[s \ {Max(s)}] = f[s \ {Max(s)}]
      BY <2>3, <3>2
    <3>4. f[s] = IF s = {} THEN x0 ELSE Fold(onList, f[s \ {Max(s)}], reply[Max(s)])
      BY <2>1, <3>1, <3>5
    <3> QED
      BY <3>3, <3>4
  <2>4. g = [s \in SUBSET (1 .. N + 1) |->
               IF s = {} THEN x0 ELSE Fold(onList, g[s \ {Max(s)}], reply[Max(s)])]
    <3>1. \A s \in SUBSET (1 .. N + 1) :
            g[s] = IF s = {} THEN x0 ELSE Fold(onList, g[s \ {Max(s)}], reply[Max(s)])
      BY <2>2, <2>3
    <3>2. g = [s \in SUBSET (1 .. N + 1) |-> g[s]]
      OBVIOUS
    <3> HIDE DEF g
    <3> QED
      BY <3>1, <3>2
  <2>5. Eq(g, N + 1)
    BY <2>4
  <2> HIDE DEF Eq
  <2> QED
    BY <2>5
<1>3. n \in S
  <2>1. \A N \in 0 .. n - 1 : N \in S => N + 1 \in S
    BY <1>2
  <2> HIDE DEF S
  <2>2. \A N \in 0 .. n : N \in S
    BY <1>1, <2>1, InductionTo
  <2> QED
    BY <2>2
<1> QED
  BY <1>3

ListAfter(m, reply) == FoldLeft(Received, m, reply)
QueueAfter(q, reply) == Queue!FoldLeft(Queue!After, q, reply)

(* The memory after each order of a reply ... *)
ListStages(s, x0, n, reply) ==
  /\ s[0] = x0
  /\ \A k \in 0 .. n - 1 : s[k + 1] = Received(s[k], reply[k + 1])
  /\ ListAfter(x0, reply) = s[n]
LEMMA FoldReceived ==
  ASSUME NEW x0, NEW n \in Nat, NEW reply \in [1 .. n -> Direction]
  PROVE  \E s : ListStages(s, x0, n, reply)
<1> DEFINE Eq(f) == f = [s \in SUBSET (1 .. n) |->
                           IF s = {} THEN x0 ELSE Received(f[s \ {Max(s)}], reply[Max(s)])]
<1> DEFINE iter == CHOOSE f : Eq(f)
<1>1. Eq(iter)
  <2>1. \A x, d : Received(x, d) = Fold(TRUE, x, d)
    BY DEF Fold
  <2>3. PICK f : Folds(f, TRUE, x0, n, reply)
    BY FoldExists
  <2>4. Eq(f)
    BY <2>1, <2>3 DEF Folds
  <2> HIDE DEF Eq
  <2> QED
    BY <2>4
<1>2. ListAfter(x0, reply) = iter[1 .. n]
  BY DEF ListAfter, FoldLeft, MapThenFoldSet
<1> HIDE DEF iter
<1>3. iter[1 .. 0] = x0
  BY <1>1
<1>4. ASSUME NEW k \in 0 .. n - 1
      PROVE  iter[1 .. k + 1] = Received(iter[1 .. k], reply[k + 1])
  <2>1. Max(1 .. k + 1) = k + 1
    BY DEF Max
  <2>2. (1 .. k + 1) \ {k + 1} = 1 .. k /\ 1 .. k + 1 \in SUBSET (1 .. n) /\ 1 .. k + 1 # {}
    OBVIOUS
  <2> QED
    BY <1>1, <2>1, <2>2
<1> DEFINE states == [k \in 0 .. n |-> iter[1 .. k]]
<1>5. /\ states[0] = x0
      /\ \A k \in 0 .. n - 1 : states[k + 1] = Received(states[k], reply[k + 1])
      /\ ListAfter(x0, reply) = states[n]
  BY <1>2, <1>3, <1>4
<1> QED
  BY <1>5 DEF ListStages

(* ... and the queue. *)
QueueStages(s, x0, n, reply) ==
  /\ s[0] = x0
  /\ \A k \in 0 .. n - 1 : s[k + 1] = Queue!After(s[k], reply[k + 1])
  /\ QueueAfter(x0, reply) = s[n]
LEMMA FoldAfter ==
  ASSUME NEW x0, NEW n \in Nat, NEW reply \in [1 .. n -> Direction]
  PROVE  \E s : QueueStages(s, x0, n, reply)
<1> DEFINE Eq(f) == f = [s \in SUBSET (1 .. n) |->
                           IF s = {} THEN x0 ELSE Queue!After(f[s \ {Queue!Max(s)}], reply[Queue!Max(s)])]
<1> DEFINE iter == CHOOSE f : Eq(f)
<1>1. Eq(iter)
  <2>1. \A x, d : Queue!After(x, d) = Fold(FALSE, x, d)
    BY DEF Fold
  <2>2. \A s : Queue!Max(s) = Max(s)
    BY DEF Max, Queue!Max
  <2>3. PICK f : Folds(f, FALSE, x0, n, reply)
    BY FoldExists
  <2>4. Eq(f)
    BY <2>1, <2>2, <2>3 DEF Folds
  <2> HIDE DEF Eq
  <2> QED
    BY <2>4
<1>2. QueueAfter(x0, reply) = iter[1 .. n]
  BY DEF QueueAfter, Queue!FoldLeft, Queue!MapThenFoldSet
<1> HIDE DEF iter
<1>3. iter[1 .. 0] = x0
  BY <1>1
<1>4. ASSUME NEW k \in 0 .. n - 1
      PROVE  iter[1 .. k + 1] = Queue!After(iter[1 .. k], reply[k + 1])
  <2>1. Queue!Max(1 .. k + 1) = k + 1
    BY DEF Queue!Max
  <2>2. (1 .. k + 1) \ {k + 1} = 1 .. k /\ 1 .. k + 1 \in SUBSET (1 .. n) /\ 1 .. k + 1 # {}
    OBVIOUS
  <2> QED
    BY <1>1, <2>1, <2>2
<1> DEFINE states == [k \in 0 .. n |-> iter[1 .. k]]
<1>5. /\ states[0] = x0
      /\ \A k \in 0 .. n - 1 : states[k + 1] = Queue!After(states[k], reply[k + 1])
      /\ QueueAfter(x0, reply) = states[n]
  BY <1>2, <1>3, <1>4
<1> QED
  BY <1>5 DEF QueueStages

-----------------------------------------------------------------------------
(* From hd on, the elements es are linked, each once. *)
Linked(nx, hd, es) ==
  /\ es \in Seq(Element)
  /\ \A i, j \in 1 .. Len(es) : es[i] = es[j] => i = j
  /\ hd = IF es = << >> THEN NULL ELSE es[1]
  /\ \A i \in 1 .. Len(es) : nx[es[i]] = IF i < Len(es) THEN es[i + 1] ELSE NULL

LastOf(es) == IF es = << >> THEN NULL ELSE es[Len(es)]
RangeOf(es) == { es[i] : i \in 1 .. Len(es) }
Mapped(es, dt) == [i \in DOMAIN es |-> dt[es[i]]]

Nexts == [Element -> Element \cup {NULL}]
Datas == [Element -> Nat]

(* What an element stands for: the order it points to. *)
Value(dt, od) == [e \in Element |-> od[dt[e]]]

(* The elements of a set point to blocks that are allocated, each to its own. *)
Owns(H, dt, od) ==
  /\ \A x \in H : dt[x] \in 1 .. Len(od)
  /\ \A x, y \in H : dt[x] = dt[y] => x = y

(* The length and its neighbours, as the list counts them. *)
LEMMA Counts ==
  ASSUME NEW k \in Nat, k + 1 < 65535, NEW l \in Int, -1 <= l, l <= 1, k + l >= 0
  PROVE  Counted(k + l, 1) = (k + 1) + l /\ (k + 1) + l > 0
<1>1. (k + 1) + l > 0
  OBVIOUS
<1>2. Counted(k + l, 1) = (k + 1) + l
  BY DEF Counted
<1> QED
  BY <1>1, <1>2

LEMMA NotOne ==
  ASSUME NEW k \in Nat
  PROVE  /\ k >= 2 <=> k >= 1 /\ k # 1
         /\ k >= 2 <=> k - 1 >= 0 /\ k - 1 # 0
OBVIOUS

LEMMA NullIsNone == NULL \notin Element
  BY DEF NULL, Element

LEMMA ElementFinite == IsFiniteSet(Element) /\ Cardinality(Element) = MaxHeap
  BY OrderListAssumption, FS_Interval DEF Element

(* Elements that are all different are not more than there are. *)
LEMMA LinkedFits ==
  ASSUME NEW nx, NEW hd, NEW es, Linked(nx, hd, es)
  PROVE  Len(es) <= MaxHeap
<1>1. es \in Seq(Element) /\ Len(es) \in Nat /\ es \in [1 .. Len(es) -> Element]
  BY DEF Linked
<1>2. IsFiniteSet(1 .. Len(es)) /\ Cardinality(1 .. Len(es)) = Len(es)
  BY <1>1, FS_Interval
<1>3. IsFiniteSet(Element) /\ Cardinality(Element) = MaxHeap
  BY ElementFinite
<1>4. SUFFICES ASSUME MaxHeap < Len(es) PROVE FALSE
  BY <1>1, OrderListAssumption
<1>5. \E x, y \in 1 .. Len(es) : x # y /\ es[x] = es[y]
  BY <1>1, <1>2, <1>3, <1>4, FS_PigeonHole
<1> QED
  BY <1>5 DEF Linked

(* The walk from the head on meets the elements that are linked. *)
WalkMeetsLinked == \A es : Linked(next, list.head, es) => Elements = es

LEMMA ElementsAre == WalkMeetsLinked
<1> SUFFICES ASSUME NEW es, Linked(next, list.head, es) PROVE Elements = es
  BY DEF WalkMeetsLinked
<1>1. es \in Seq(Element) /\ Len(es) \in Nat /\ es = [i \in 1 .. Len(es) |-> es[i]]
  BY DEF Linked
<1>2. Len(es) <= MaxHeap
  BY LinkedFits
<1> DEFINE Eq(f) == f = [n \in Element |->
                           IF n = 1 THEN list.head
                           ELSE IF f[n - 1] = NULL THEN NULL ELSE next[f[n - 1]]]
<1> DEFINE w == [n \in Element |-> IF n <= Len(es) THEN es[n] ELSE NULL]
<1>3. Eq(w)
  <2>1. ASSUME NEW n \in Element
        PROVE  w[n] = IF n = 1 THEN list.head
                      ELSE IF w[n - 1] = NULL THEN NULL ELSE next[w[n - 1]]
    <3>1. n \in 1 .. MaxHeap
      BY DEF Element
    <3>2. CASE n = 1
      BY <1>1, <3>1, <3>2 DEF Linked
    <3>3. CASE n # 1
      <4>1. n - 1 \in Element
        BY <3>1, <3>3, OrderListAssumption DEF Element
      <4>2. CASE n <= Len(es)
        <5>1. w[n - 1] = es[n - 1] /\ n - 1 \in 1 .. Len(es) /\ n - 1 < Len(es)
          BY <1>1, <3>1, <3>3, <4>1, <4>2
        <5>2. es[n - 1] # NULL
          BY <1>1, <5>1, NullIsNone
        <5>3. next[es[n - 1]] = es[(n - 1) + 1]
          BY <5>1 DEF Linked
        <5> QED
          BY <3>1, <3>3, <4>2, <5>1, <5>2, <5>3
      <4>3. CASE n > Len(es)
        <5>1. CASE n - 1 <= Len(es)
          <6>1. n - 1 = Len(es) /\ n - 1 \in 1 .. Len(es) /\ w[n - 1] = es[n - 1]
            BY <1>1, <3>1, <3>3, <4>1, <4>3, <5>1
          <6>2. next[es[n - 1]] = NULL
            BY <1>1, <6>1 DEF Linked
          <6> QED
            BY <1>1, <3>1, <3>3, <4>3, <6>1, <6>2
        <5>2. CASE n - 1 > Len(es)
          BY <1>1, <3>1, <3>3, <4>1, <4>3, <5>2
        <5> QED
          BY <1>1, <3>1, <5>1, <5>2
      <4> QED
        BY <1>1, <3>1, <4>2, <4>3
    <3> QED
      BY <3>2, <3>3
  <2>2. w = [n \in Element |-> w[n]]
    OBVIOUS
  <2> HIDE DEF w
  <2> QED
    BY <2>1, <2>2
<1>4. Eq(Walk)
  <2>1. Walk = CHOOSE f : Eq(f)
    BY DEF Walk
  <2> HIDE DEF Eq
  <2> QED
    BY <1>3, <2>1
<1>5. \A k \in 0 .. MaxHeap : k \in { n \in 0 .. MaxHeap : n = 0 \/ Walk[n] = w[n] }
  <2> DEFINE S == { n \in 0 .. MaxHeap : n = 0 \/ Walk[n] = w[n] }
  <2>1. 0 \in S
    BY OrderListAssumption
  <2>2. ASSUME NEW k \in 0 .. MaxHeap - 1, k \in S PROVE k + 1 \in S
    <3>1. k + 1 \in Element /\ (k + 1) - 1 = k /\ (k + 1 = 1 <=> k = 0)
      BY OrderListAssumption DEF Element
    <3>2. /\ Walk[k + 1] = IF k + 1 = 1 THEN list.head
                           ELSE IF Walk[k] = NULL THEN NULL ELSE next[Walk[k]]
          /\ w[k + 1] = IF k + 1 = 1 THEN list.head
                        ELSE IF w[k] = NULL THEN NULL ELSE next[w[k]]
      <4>1. \A n \in Element : Walk[n] = IF n = 1 THEN list.head
                   ELSE IF Walk[n - 1] = NULL THEN NULL ELSE next[Walk[n - 1]]
        BY <1>4
      <4> HIDE DEF w
      <4>2. \A n \in Element : w[n] = IF n = 1 THEN list.head
                   ELSE IF w[n - 1] = NULL THEN NULL ELSE next[w[n - 1]]
        BY <1>3
      <4> HIDE DEF Eq
      <4> QED
        BY <4>1, <4>2, <3>1
    <3>3. k = 0 \/ Walk[k] = w[k]
      BY <2>2
    <3>4. Walk[k + 1] = w[k + 1]
      <4> HIDE DEF w
      <4> QED
        BY <3>1, <3>2, <3>3
    <3> QED
      BY <3>1, <3>4, OrderListAssumption DEF Element
  <2>3. \A k \in 0 .. MaxHeap - 1 : k \in S => k + 1 \in S
    BY <2>2
  <2> HIDE DEF S
  <2>4. \A k \in 0 .. MaxHeap : k \in S
    BY <2>1, <2>3, OrderListAssumption, InductionTo
  <2> QED
    BY <2>4 DEF S
<1>6. \A n \in Element : Walk[n] = IF n <= Len(es) THEN es[n] ELSE NULL
  <2>1. ASSUME NEW n \in Element PROVE Walk[n] = w[n]
    <3>1. n \in 0 .. MaxHeap /\ n # 0
      BY DEF Element
    <3> HIDE DEF w
    <3> QED
      BY <1>5, <3>1
  <2> QED
    BY <2>1
<1>7. { m \in Element : Walk[m] # NULL } = 1 .. Len(es)
  <2>1. \A i \in 1 .. Len(es) : i \in Element /\ es[i] # NULL
    BY <1>1, <1>2, OrderListAssumption, NullIsNone DEF Element
  <2>2. \A n \in Element : n \in Nat /\ n >= 1
    BY DEF Element
  <2> QED
    BY <1>1, <1>6, <2>1, <2>2
<1>8. \A i \in 1 .. Len(es) : i \in Element /\ Walk[i] = es[i]
  BY <1>1, <1>2, <1>6, OrderListAssumption DEF Element
<1> QED
  BY <1>1, <1>7, <1>8 DEF Elements


-----------------------------------------------------------------------------
(* What is written to other elements does not matter to a list. *)
LEMMA LinkedElsewhere ==
  ASSUME NEW nx, NEW ny, NEW hd, NEW es, Linked(nx, hd, es),
         \A i \in 1 .. Len(es) : ny[es[i]] = nx[es[i]]
  PROVE  Linked(ny, hd, es)
BY DEF Linked

(* list_unshift: an element before the first one. *)
Consed(nx, e, es, fs) ==
  /\ Linked(nx, e, fs)
  /\ Len(fs) = Len(es) + 1 /\ fs # << >>
  /\ RangeOf(fs) = RangeOf(es) \cup {e}
  /\ LastOf(fs) = IF es = << >> THEN e ELSE LastOf(es)
  /\ \A dt : Mapped(fs, dt) = << dt[e] >> \o Mapped(es, dt)

LEMMA LinkedCons ==
  ASSUME NEW nx, NEW hd, NEW es, Linked(nx, hd, es),
         NEW e \in Element, e \notin RangeOf(es), nx[e] = hd
  PROVE  Consed(nx, e, es, << e >> \o es)
<1> DEFINE fs == << e >> \o es
<1>1. es \in Seq(Element) /\ Len(es) \in Nat
  BY DEF Linked
<1>2. /\ fs \in Seq(Element) /\ Len(fs) = Len(es) + 1
      /\ fs[1] = e /\ \A i \in 1 .. Len(es) : fs[i + 1] = es[i]
  BY <1>1
<1>3. \A i \in 1 .. Len(fs) : i = 1 \/ (i - 1 \in 1 .. Len(es) /\ fs[i] = es[i - 1])
  <2> SUFFICES ASSUME NEW i \in 1 .. Len(fs), i # 1
               PROVE  i - 1 \in 1 .. Len(es) /\ fs[i] = es[i - 1]
    OBVIOUS
  <2>1. i - 1 \in 1 .. Len(es) /\ (i - 1) + 1 = i
    BY <1>1, <1>2
  <2> QED
    BY <1>2, <2>1
<1>4. fs # << >>
  BY <1>1, <1>2
<1> HIDE DEF fs
<1>5. \A i \in 1 .. Len(es) : es[i] # e
  BY DEF RangeOf
<1>6. ASSUME NEW i \in 1 .. Len(fs), NEW j \in 1 .. Len(fs), fs[i] = fs[j] PROVE i = j
  <2>1. CASE i = 1
    BY <1>2, <1>3, <1>5, <1>6, <2>1
  <2>2. CASE j = 1
    BY <1>2, <1>3, <1>5, <1>6, <2>2
  <2>3. CASE i # 1 /\ j # 1
    <3>1. /\ i - 1 \in 1 .. Len(es) /\ fs[i] = es[i - 1]
          /\ j - 1 \in 1 .. Len(es) /\ fs[j] = es[j - 1]
      BY <1>3, <2>3
    <3>2. i - 1 = j - 1
      BY <1>6, <3>1 DEF Linked
    <3> QED
      BY <1>1, <1>2, <3>2
  <2> QED
    BY <2>1, <2>2, <2>3
<1>7. ASSUME NEW i \in 1 .. Len(fs)
      PROVE  nx[fs[i]] = IF i < Len(fs) THEN fs[i + 1] ELSE NULL
  <2>1. CASE i = 1
    <3>1. CASE es = << >>
      <4>1. Len(es) = 0
        BY <3>1
      <4> QED
        BY <1>2, <2>1, <3>1, <4>1 DEF Linked
    <3>2. CASE es # << >>
      <4>1. 1 \in 1 .. Len(es)
        BY <1>1, <3>2
      <4>2. hd = es[1] /\ fs[1 + 1] = es[1]
        BY <1>2, <3>2, <4>1 DEF Linked
      <4> QED
        BY <1>1, <1>2, <2>1, <4>1, <4>2
    <3> QED
      BY <3>1, <3>2
  <2>2. CASE i # 1
    <3>1. i - 1 \in 1 .. Len(es) /\ fs[i] = es[i - 1] /\ (i - 1) + 1 = i
      BY <1>1, <1>2, <1>3, <2>2
    <3>2. nx[fs[i]] = IF i - 1 < Len(es) THEN es[(i - 1) + 1] ELSE NULL
      BY <3>1 DEF Linked
    <3>3. i < Len(fs) => fs[i + 1] = es[i] /\ i - 1 < Len(es)
      BY <1>1, <1>2, <3>1
    <3> QED
      BY <1>1, <1>2, <3>1, <3>2, <3>3
  <2> QED
    BY <2>1, <2>2
<1>8. Linked(nx, e, fs)
  BY <1>2, <1>4, <1>6, <1>7 DEF Linked
<1>9. RangeOf(fs) = RangeOf(es) \cup {e}
  <2>1. RangeOf(fs) \subseteq RangeOf(es) \cup {e}
    BY <1>2, <1>3 DEF RangeOf
  <2>2. \A i \in 1 .. Len(es) : i + 1 \in 1 .. Len(fs) /\ fs[i + 1] = es[i]
    BY <1>1, <1>2
  <2>3. 1 \in 1 .. Len(fs)
    BY <1>1, <1>2
  <2>4. e \in RangeOf(fs)
    BY <1>2, <2>3 DEF RangeOf
  <2>5. ASSUME NEW x \in RangeOf(es) PROVE x \in RangeOf(fs)
    <3>1. PICK i \in 1 .. Len(es) : x = es[i]
      BY DEF RangeOf
    <3>2. i + 1 \in 1 .. Len(fs) /\ fs[i + 1] = x
      BY <2>2, <3>1
    <3> HIDE <3>1
    <3> QED
      BY <3>2 DEF RangeOf
  <2> QED
    BY <2>1, <2>4, <2>5
<1>10. LastOf(fs) = IF es = << >> THEN e ELSE LastOf(es)
  <2>1. CASE es = << >>
    BY <1>2, <1>4, <2>1 DEF LastOf
  <2>2. CASE es # << >>
    <3>1. Len(es) \in 1 .. Len(es)
      BY <1>1, <2>2
    <3> QED
      BY <1>2, <1>4, <2>2, <3>1 DEF LastOf
  <2> QED
    BY <2>1, <2>2
<1>11. ASSUME NEW dt PROVE Mapped(fs, dt) = << dt[e] >> \o Mapped(es, dt)
  <2> DEFINE m == Mapped(es, dt)
  <2>1. m = [i \in 1 .. Len(es) |-> dt[es[i]]] /\ Len(m) = Len(es)
    BY <1>1 DEF Mapped
  <2>2. /\ << dt[e] >> \o m = [i \in 1 .. Len(es) + 1 |-> IF i = 1 THEN dt[e] ELSE m[i - 1]]
    BY <1>1, <2>1
  <2>3. Mapped(fs, dt) = [i \in 1 .. Len(es) + 1 |-> dt[fs[i]]]
    BY <1>2 DEF Mapped
  <2>4. \A i \in 1 .. Len(es) + 1 : dt[fs[i]] = IF i = 1 THEN dt[e] ELSE m[i - 1]
    BY <1>2, <1>3, <2>1
  <2> HIDE DEF m
  <2> QED
    BY <2>2, <2>3, <2>4 DEF m
<1> QED
  BY <1>2, <1>4, <1>8, <1>9, <1>10, <1>11 DEF fs, Consed

(* list_shift: the list without its first element. *)
Tailed(nx, hd, es, fs) ==
  /\ Linked(nx, nx[hd], fs)
  /\ Len(fs) = Len(es) - 1
  /\ hd \in Element /\ hd \notin RangeOf(fs)
  /\ RangeOf(es) = RangeOf(fs) \cup {hd}
  /\ LastOf(es) = IF fs = << >> THEN hd ELSE LastOf(fs)
  /\ \A dt : Mapped(fs, dt) = Tail(Mapped(es, dt)) /\ Mapped(es, dt) # << >>

LEMMA LinkedTail ==
  ASSUME NEW nx, NEW hd, NEW es, Linked(nx, hd, es), es # << >>
  PROVE  Tailed(nx, hd, es, Tail(es))
<1> DEFINE fs == Tail(es)
<1>1. es \in Seq(Element) /\ Len(es) \in Nat /\ Len(es) >= 1 /\ 1 \in 1 .. Len(es)
  BY DEF Linked
<1>2. /\ fs \in Seq(Element) /\ Len(fs) = Len(es) - 1
      /\ \A i \in 1 .. Len(es) - 1 : fs[i] = es[i + 1]
  BY <1>1
<1>3. fs = << >> <=> Len(es) = 1
  BY <1>1, <1>2
<1> HIDE DEF fs
<1>4. \A i \in 1 .. Len(fs) : i \in 1 .. Len(es) - 1 /\ i + 1 \in 1 .. Len(es) /\ fs[i] = es[i + 1]
  BY <1>1, <1>2
<1>5. hd = es[1] /\ hd \in Element
  BY <1>1 DEF Linked
<1>6. ASSUME NEW i \in 1 .. Len(fs), NEW j \in 1 .. Len(fs), fs[i] = fs[j] PROVE i = j
  <2>1. i + 1 = j + 1
    BY <1>4, <1>6 DEF Linked
  <2> QED
    BY <1>1, <1>2, <2>1
<1>7. hd \notin RangeOf(fs)
  <2>1. ASSUME NEW i \in 1 .. Len(fs), fs[i] = hd PROVE FALSE
    <3>1. i + 1 = 1
      BY <1>1, <1>4, <1>5, <2>1 DEF Linked
    <3> QED
      BY <1>1, <1>2, <3>1
  <2> QED
    BY <2>1 DEF RangeOf
<1>8. nx[hd] = IF fs = << >> THEN NULL ELSE fs[1]
  <2>1. nx[hd] = IF 1 < Len(es) THEN es[1 + 1] ELSE NULL
    BY <1>1, <1>5 DEF Linked
  <2>2. Len(es) > 1 => 1 \in 1 .. Len(es) - 1
    BY <1>1
  <2> QED
    BY <1>1, <1>2, <1>3, <2>1, <2>2
<1>9. ASSUME NEW i \in 1 .. Len(fs)
      PROVE  nx[fs[i]] = IF i < Len(fs) THEN fs[i + 1] ELSE NULL
  <2>1. nx[es[i + 1]] = IF i + 1 < Len(es) THEN es[(i + 1) + 1] ELSE NULL
    BY <1>4 DEF Linked
  <2>2. i < Len(fs) => fs[i + 1] = es[(i + 1) + 1] /\ i + 1 < Len(es)
    BY <1>1, <1>2
  <2>3. i >= Len(fs) => ~ (i + 1 < Len(es))
    BY <1>1, <1>2
  <2> QED
    BY <1>1, <1>2, <1>4, <2>1, <2>2, <2>3
<1>10. Linked(nx, nx[hd], fs)
  BY <1>2, <1>6, <1>8, <1>9 DEF Linked
<1>11. RangeOf(es) = RangeOf(fs) \cup {hd}
  <2>1. RangeOf(fs) \subseteq RangeOf(es) /\ hd \in RangeOf(es)
    BY <1>1, <1>4, <1>5 DEF RangeOf
  <2>2. ASSUME NEW x \in RangeOf(es), x # hd PROVE x \in RangeOf(fs)
    <3>1. PICK i \in 1 .. Len(es) : x = es[i]
      BY DEF RangeOf
    <3>2. i # 1
      BY <1>5, <2>2, <3>1
    <3>3. i - 1 \in 1 .. Len(fs) /\ i - 1 \in 1 .. Len(es) - 1 /\ (i - 1) + 1 = i
      BY <1>1, <1>2, <3>2
    <3>4. fs[i - 1] = x
      BY <1>2, <3>1, <3>3
    <3> HIDE <3>1
    <3> QED
      BY <3>3, <3>4 DEF RangeOf
  <2> QED
    BY <2>1, <2>2
<1>12. LastOf(es) = IF fs = << >> THEN hd ELSE LastOf(fs)
  <2>1. LastOf(es) = es[Len(es)]
    BY DEF LastOf
  <2>2. CASE fs = << >>
    BY <1>3, <1>5, <2>1, <2>2
  <2>3. CASE fs # << >>
    <3>1. Len(fs) \in 1 .. Len(es) - 1 /\ Len(fs) + 1 = Len(es)
      BY <1>1, <1>2, <1>3, <2>3
    <3> QED
      BY <1>2, <2>1, <2>3, <3>1 DEF LastOf
  <2> QED
    BY <2>2, <2>3
<1>13. ASSUME NEW dt PROVE Mapped(fs, dt) = Tail(Mapped(es, dt)) /\ Mapped(es, dt) # << >>
  <2> DEFINE m == Mapped(es, dt)
  <2>1. m = [i \in 1 .. Len(es) |-> dt[es[i]]] /\ Len(m) = Len(es)
    BY <1>1 DEF Mapped
  <2>2. Tail(m) = [i \in 1 .. Len(es) - 1 |-> m[i + 1]] /\ m # << >>
    BY <1>1, <2>1
  <2>3. Mapped(fs, dt) = [i \in 1 .. Len(es) - 1 |-> dt[fs[i]]]
    BY <1>2 DEF Mapped
  <2>4. \A i \in 1 .. Len(es) - 1 : dt[fs[i]] = m[i + 1]
    BY <1>1, <1>2, <2>1
  <2> HIDE DEF m
  <2> QED
    BY <2>2, <2>3, <2>4 DEF m
<1> QED
  BY <1>2, <1>5, <1>7, <1>10, <1>11, <1>12, <1>13 DEF fs, Tailed

(* list_append: an element after the last one. *)
LEMMA LinkedAppend ==
  ASSUME NEW nx \in Nexts, NEW hd, NEW es, Linked(nx, hd, es),
         NEW e \in Element, e \notin RangeOf(es)
  PROVE  LET fs == Append(es, e)
             ny == [(IF hd = NULL THEN nx ELSE [nx EXCEPT ![LastOf(es)] = e]) EXCEPT ![e] = NULL]
         IN  /\ Linked(ny, IF hd = NULL THEN e ELSE hd, fs)
             /\ ny \in Nexts
             /\ Len(fs) = Len(es) + 1 /\ LastOf(fs) = e
             /\ RangeOf(fs) = RangeOf(es) \cup {e}
             /\ \A dt : Mapped(fs, dt) = Append(Mapped(es, dt), dt[e])
<1> DEFINE fs == Append(es, e)
           nz == IF hd = NULL THEN nx ELSE [nx EXCEPT ![LastOf(es)] = e]
           ny == [nz EXCEPT ![e] = NULL]
<1>1. es \in Seq(Element) /\ Len(es) \in Nat
  BY DEF Linked
<1>2. /\ fs \in Seq(Element) /\ Len(fs) = Len(es) + 1
      /\ fs[Len(es) + 1] = e /\ \A i \in 1 .. Len(es) : fs[i] = es[i]
  BY <1>1
<1>3. fs # << >> /\ LastOf(fs) = e
  BY <1>1, <1>2 DEF LastOf
<1>4. \A i \in 1 .. Len(fs) : i = Len(es) + 1 \/ (i \in 1 .. Len(es) /\ fs[i] = es[i])
  BY <1>1, <1>2
<1> HIDE DEF fs
<1>5. \A i \in 1 .. Len(es) : es[i] # e /\ es[i] \in Element
  BY <1>1 DEF RangeOf
<1>6. hd = NULL <=> es = << >>
  <2>1. es # << >> => es[1] \in Element
    BY <1>1
  <2> QED
    BY <2>1, NullIsNone DEF Linked
<1>7. es # << >> => Len(es) \in 1 .. Len(es) /\ LastOf(es) = es[Len(es)]
  BY <1>1 DEF LastOf
<1>8. nz \in Nexts /\ ny \in Nexts
  BY <1>5, <1>6, <1>7 DEF Nexts
<1>9. \A x \in Element : ny[x] = IF x = e THEN NULL
                                 ELSE IF es # << >> /\ x = LastOf(es) THEN e ELSE nx[x]
  BY <1>6, <1>8 DEF Nexts
<1> HIDE DEF nz, ny
<1>10. ASSUME NEW i \in 1 .. Len(fs), NEW j \in 1 .. Len(fs), fs[i] = fs[j] PROVE i = j
  <2>1. CASE i = Len(es) + 1
    BY <1>2, <1>4, <1>5, <1>10, <2>1
  <2>2. CASE j = Len(es) + 1
    BY <1>2, <1>4, <1>5, <1>10, <2>2
  <2>3. CASE i # Len(es) + 1 /\ j # Len(es) + 1
    BY <1>4, <1>10, <2>3 DEF Linked
  <2> QED
    BY <2>1, <2>2, <2>3
<1>11. ASSUME NEW i \in 1 .. Len(fs)
       PROVE  ny[fs[i]] = IF i < Len(fs) THEN fs[i + 1] ELSE NULL
  <2>1. CASE i = Len(es) + 1
    BY <1>1, <1>2, <1>9, <2>1
  <2>2. CASE i # Len(es) + 1
    <3>1. i \in 1 .. Len(es) /\ fs[i] = es[i] /\ es[i] # e /\ es[i] \in Element /\ es # << >>
      BY <1>1, <1>4, <1>5, <2>2
    <3>2. CASE i = Len(es)
      <4>1. ny[fs[i]] = e
        BY <1>7, <1>9, <3>1, <3>2
      <4> QED
        BY <1>1, <1>2, <3>2, <4>1
    <3>3. CASE i # Len(es)
      <4>1. es[i] # LastOf(es)
        BY <1>7, <3>1, <3>3 DEF Linked
      <4>2. ny[fs[i]] = nx[es[i]]
        BY <1>9, <3>1, <4>1
      <4>3. i < Len(es) /\ nx[es[i]] = es[i + 1]
        BY <1>1, <3>1, <3>3 DEF Linked
      <4>4. i + 1 \in 1 .. Len(es) /\ fs[i + 1] = es[i + 1] /\ i < Len(fs)
        BY <1>1, <1>2, <3>1, <4>3
      <4> QED
        BY <4>2, <4>3, <4>4
    <3> QED
      BY <3>2, <3>3
  <2> QED
    BY <2>1, <2>2
<1>12. fs[1] = IF hd = NULL THEN e ELSE hd
  <2>1. CASE es = << >>
    <3>1. Len(es) = 0
      BY <2>1
    <3> QED
      BY <1>2, <1>6, <2>1, <3>1
  <2>2. CASE es # << >>
    <3>1. 1 \in 1 .. Len(es)
      BY <1>1, <2>2
    <3> QED
      BY <1>2, <1>6, <2>2, <3>1 DEF Linked
  <2> QED
    BY <2>1, <2>2
<1>13. Linked(ny, IF hd = NULL THEN e ELSE hd, fs)
  BY <1>2, <1>3, <1>10, <1>11, <1>12 DEF Linked
<1>14. RangeOf(fs) = RangeOf(es) \cup {e}
  <2>1. RangeOf(fs) \subseteq RangeOf(es) \cup {e}
    BY <1>2, <1>4 DEF RangeOf
  <2>2. \A i \in 1 .. Len(es) : i \in 1 .. Len(fs)
    BY <1>1, <1>2
  <2>3. Len(es) + 1 \in 1 .. Len(fs)
    BY <1>1, <1>2
  <2>4. e \in RangeOf(fs)
    BY <1>2, <2>3 DEF RangeOf
  <2>5. ASSUME NEW x \in RangeOf(es) PROVE x \in RangeOf(fs)
    <3>1. PICK i \in 1 .. Len(es) : x = es[i]
      BY DEF RangeOf
    <3>2. i \in 1 .. Len(fs) /\ fs[i] = x
      BY <1>2, <2>2, <3>1
    <3> HIDE <3>1
    <3> QED
      BY <3>2 DEF RangeOf
  <2> QED
    BY <2>1, <2>4, <2>5
<1>15. ASSUME NEW dt PROVE Mapped(fs, dt) = Append(Mapped(es, dt), dt[e])
  <2> DEFINE m == Mapped(es, dt)
  <2>1. m = [i \in 1 .. Len(es) |-> dt[es[i]]] /\ Len(m) = Len(es)
    BY <1>1 DEF Mapped
  <2>2. Append(m, dt[e]) = [i \in 1 .. Len(es) + 1 |-> IF i = Len(es) + 1 THEN dt[e] ELSE m[i]]
    BY <1>1, <2>1
  <2>3. Mapped(fs, dt) = [i \in 1 .. Len(es) + 1 |-> dt[fs[i]]]
    BY <1>2 DEF Mapped
  <2>4. \A i \in 1 .. Len(es) + 1 : dt[fs[i]] = IF i = Len(es) + 1 THEN dt[e] ELSE m[i]
    BY <1>1, <1>2, <1>4, <2>1
  <2> HIDE DEF m
  <2> QED
    BY <2>2, <2>3, <2>4 DEF m
<1> QED
  BY <1>2, <1>3, <1>8, <1>13, <1>14, <1>15 DEF fs, ny, nz


-----------------------------------------------------------------------------
(* Where the handler may come, memory m holds the elements es, and those of X that
   are not in the list; the length may be one too many or too few. *)
Heads == [head : Element \cup {NULL}, tail : Element \cup {NULL}, length : Nat]
Memories ==
  [list : Heads, next : Nexts, data : Datas, heap : SUBSET Element, order : Seq(Order)]

Represents(m, es, X, l) ==
  /\ Linked(m.next, m.list.head, es)
  /\ m.list.tail = LastOf(es) /\ m.list.length = Len(es) + l
  /\ m.heap = RangeOf(es) \cup X /\ X \cap RangeOf(es) = {}
  /\ Owns(m.heap, m.data, m.order)
  /\ l \in { -1, 0, 1 } /\ Len(es) + l >= 0 /\ (Len(es) > 0 <=> Len(es) + l > 0)

Holding(m) == Value(m.data, m.order)

(* The handler puts elements behind those of es, and leaves those of X alone. *)
Extends(m, es, X, r, fs) ==
  /\ Len(es) <= Len(fs) /\ \A i \in 1 .. Len(es) : fs[i] = es[i]
  /\ \A x \in X : r.next[x] = m.next[x] /\ Holding(r)[x] = Holding(m)[x]

(* Kmalloc gives an element as long as there is one. *)
LEMMA NewIsFree ==
  ASSUME NEW m, m.heap \in SUBSET Element, Free(m) # {}
  PROVE  New(m) \in Element /\ New(m) \notin m.heap
<1>1. Free(m) \in SUBSET Nat
  BY DEF Free, Element
<1>2. \E e \in Free(m) : \A f \in Free(m) : e <= f
  BY <1>1, LeastNumber
<1>3. New(m) \in Free(m)
  BY <1>2 DEF New
<1> QED
  BY <1>3 DEF Free

LEMMA HeapHasRoom ==
  ASSUME NEW m, m.heap \in SUBSET Element, Cardinality(m.heap) < MaxHeap
  PROVE  Free(m) # {}
<1>1. Cardinality(Element) = MaxHeap
  BY ElementFinite
<1>2. SUFFICES ASSUME Element \ m.heap = {} PROVE FALSE
  BY DEF Free
<1>3. m.heap = Element
  BY <1>2
<1> QED
  BY <1>1, <1>3, OrderListAssumption

LEMMA RoomTaken ==
  ASSUME NEW H \in SUBSET Element, NEW e \in Element
  PROVE  Cardinality(H) \in Nat /\ Cardinality(H \cup {e}) <= Cardinality(H) + 1
<1>1. IsFiniteSet(H)
  BY ElementFinite, FS_Subset
<1>2. Cardinality(H) \in Nat
  BY <1>1, FS_CardinalityType
<1>3. Cardinality(H \cup {e}) = IF e \in H THEN Cardinality(H) ELSE Cardinality(H) + 1
  <2>1. e \in H => H \cup {e} = H
    OBVIOUS
  <2>2. CASE e \in H
    BY <2>1, <2>2
  <2>3. CASE e \notin H
    BY <1>1, <2>3, FS_AddElement
  <2> QED
    BY <2>2, <2>3
<1> DEFINE n == Cardinality(H)
           k == Cardinality(H \cup {e})
<1>4. n \in Nat /\ k = IF e \in H THEN n ELSE n + 1
  BY <1>2, <1>3
<1> HIDE DEF n, k
<1>5. n \in Nat /\ k <= n + 1
  BY <1>4
<1> QED
  BY <1>5 DEF n, k

(* What the last element stands for is what the queue ends with. *)
LEMMA LastValue ==
  ASSUME NEW m \in Memories, NEW es, NEW X \in SUBSET Element, NEW l, Represents(m, es, X, l)
  PROVE  LET q == Mapped(es, Holding(m)) IN
         /\ es \in Seq(Element) /\ Len(es) \in Nat /\ Linked(m.next, m.list.head, es)
         /\ q = [i \in 1 .. Len(es) |-> Holding(m)[es[i]]] /\ Len(q) = Len(es)
         /\ m.list.length > 0 <=> Len(es) > 0
         /\ es # << >> <=> Len(es) > 0
         /\ q # << >> <=> Len(es) > 0
         /\ Len(es) > 0 =>
              /\ Len(es) \in 1 .. Len(es) /\ m.list.tail = es[Len(es)]
              /\ es[Len(es)] \in Element /\ es[Len(es)] \in m.heap
              /\ Last(q) = m.order[m.data[m.list.tail]]
<1> DEFINE q == Mapped(es, Holding(m))
<1>1. es \in Seq(Element) /\ Len(es) \in Nat /\ Linked(m.next, m.list.head, es)
  BY DEF Represents, Linked
<1>2. q = [i \in 1 .. Len(es) |-> Holding(m)[es[i]]] /\ Len(q) = Len(es)
  BY <1>1 DEF Mapped
<1>3. /\ m.list.length > 0 <=> Len(es) > 0
      /\ es # << >> <=> Len(es) > 0
  BY <1>1 DEF Represents
<1>4. q # << >> <=> Len(es) > 0
  BY <1>1, <1>2
<1>5. ASSUME Len(es) > 0
      PROVE  /\ Len(es) \in 1 .. Len(es) /\ m.list.tail = es[Len(es)]
             /\ es[Len(es)] \in Element /\ es[Len(es)] \in m.heap
             /\ Last(q) = m.order[m.data[m.list.tail]]
  <2>1. Len(es) \in 1 .. Len(es) /\ es[Len(es)] \in Element
    BY <1>1, <1>5
  <2>2. m.list.tail = es[Len(es)]
    BY <1>3, <1>5 DEF Represents, LastOf
  <2>3. es[Len(es)] \in m.heap
    BY <2>1 DEF Represents, RangeOf
  <2>4. q[Len(q)] = Holding(m)[es[Len(es)]]
    BY <1>2, <2>1
  <2> HIDE DEF q
  <2>5. Last(q) = Holding(m)[es[Len(es)]]
    BY <2>4 DEF Last
  <2> QED
    BY <2>1, <2>2, <2>3, <2>5 DEF Holding, Value
<1> QED
  BY <1>1, <1>2, <1>3, <1>4, <1>5

(* One order of a reply, to the list and to the queue it stands for. *)
Takes(m, es, X, l, r, fs, after) ==
  /\ Represents(r, fs, X, l) /\ r \in Memories
  /\ Mapped(fs, Holding(r)) = after
  /\ Extends(m, es, X, r, fs)

(* It makes the last order longer ... *)
LEMMA MergedStep ==
  ASSUME NEW m \in Memories, NEW es, NEW X \in SUBSET Element, NEW l, Represents(m, es, X, l),
         NEW d \in Direction, m.list.length > 0, m.order[m.data[m.list.tail]] = Sent(d)
  PROVE  /\ Takes(m, es, X, l, Received(m, d), es, Queue!After(Mapped(es, Holding(m)), d))
         /\ Received(m, d).heap = m.heap
<1> DEFINE q == Mapped(es, Holding(m))
           r == Received(m, d)
           t == m.list.tail
           last == m.data[t]
           od == [m.order EXCEPT ![last].time = 2]
<1>1. /\ m.list \in Heads /\ m.next \in Nexts /\ m.data \in Datas /\ m.heap \in SUBSET Element
      /\ m.order \in Seq(Order)
      /\ m = [list |-> m.list, next |-> m.next, data |-> m.data, heap |-> m.heap, order |-> m.order]
  BY DEF Memories
<1>2. /\ es \in Seq(Element) /\ Len(es) \in Nat /\ Linked(m.next, m.list.head, es)
      /\ q = [i \in 1 .. Len(es) |-> Holding(m)[es[i]]] /\ Len(q) = Len(es) /\ q # << >>
      /\ Len(es) \in 1 .. Len(es) /\ t = es[Len(es)] /\ t \in Element /\ t \in m.heap
      /\ Last(q) = Sent(d)
  BY LastValue
<1>3. r = [list |-> m.list, next |-> m.next, data |-> m.data, heap |-> m.heap, order |-> od]
  BY <1>1 DEF Received
<1>4. last \in 1 .. Len(m.order) /\ \A x \in m.heap : m.data[x] = last => x = t
  BY <1>2 DEF Represents, Owns
<1> HIDE DEF q, r, last
<1>5. /\ od \in Seq(Order) /\ Len(od) = Len(m.order)
      /\ od[last] = [dir |-> d, time |-> 2]
      /\ \A i \in 1 .. Len(m.order) : i # last => od[i] = m.order[i]
  <2>1. m.order \in [1 .. Len(m.order) -> Order] /\ Len(m.order) \in Nat
    BY <1>1
  <2>2. [m.order[last] EXCEPT !.time = 2] = [dir |-> d, time |-> 2]
    BY DEF Sent, last
  <2>3. [dir |-> d, time |-> 2] \in Order
    BY DEF Order
  <2>4. od \in [1 .. Len(m.order) -> Order]
    BY <1>4, <2>1, <2>2, <2>3
  <2> QED
    BY <1>4, <2>1, <2>2, <2>4
<1> HIDE DEF od
<1>6. r \in Memories
  BY <1>1, <1>3, <1>5 DEF Memories
<1>7. Represents(r, es, X, l)
  BY <1>3, <1>5 DEF Represents, Owns
<1>8. /\ Holding(r)[t] = [dir |-> d, time |-> 2]
      /\ \A x \in m.heap : x # t => Holding(r)[x] = Holding(m)[x]
  <2>1. Holding(r)[t] = od[last]
    BY <1>2, <1>3 DEF Holding, Value, last
  <2>2. \A x \in m.heap : Holding(r)[x] = od[m.data[x]] /\ Holding(m)[x] = m.order[m.data[x]]
    BY <1>1, <1>3 DEF Holding, Value
  <2>3. \A x \in m.heap : m.data[x] \in 1 .. Len(m.order)
    BY DEF Represents, Owns
  <2> QED
    BY <1>4, <1>5, <2>1, <2>2, <2>3
<1>9. Mapped(es, Holding(r)) = [q EXCEPT ![Len(q)].time = 2]
  <2>1. Mapped(es, Holding(r)) = [i \in 1 .. Len(es) |-> Holding(r)[es[i]]]
    BY <1>2 DEF Mapped
  <2>2. \A i \in 1 .. Len(es) : es[i] \in m.heap /\ (es[i] = t <=> i = Len(es))
    <3>1. \A i \in 1 .. Len(es) : es[i] \in m.heap
      BY DEF Represents, RangeOf
    <3>2. \A i, j \in 1 .. Len(es) : es[i] = es[j] => i = j
      BY <1>2 DEF Linked
    <3> QED
      BY <1>2, <3>1, <3>2
  <2>3. q[Len(es)] = Sent(d)
    BY <1>2 DEF Last
  <2>4. [q EXCEPT ![Len(q)].time = 2] =
          [i \in 1 .. Len(es) |-> IF i = Len(es) THEN [q[i] EXCEPT !.time = 2] ELSE q[i]]
    BY <1>2
  <2>5. [q[Len(es)] EXCEPT !.time = 2] = [dir |-> d, time |-> 2]
    BY <2>3 DEF Sent
  <2>6. \A i \in 1 .. Len(es) :
          Holding(r)[es[i]] = IF i = Len(es) THEN [q[i] EXCEPT !.time = 2] ELSE q[i]
    BY <1>2, <1>8, <2>2, <2>5
  <2> QED
    BY <2>1, <2>4, <2>6
<1>10. Queue!After(q, d) = [q EXCEPT ![Len(q)].time = 2]
  BY <1>2 DEF Queue!After, Queue!Last, Last, Queue!Sent, Sent
<1>11. Extends(m, es, X, r, es)
  <2>1. \A x \in X : x \in m.heap /\ x # t
    BY <1>2 DEF Represents, RangeOf
  <2> QED
    BY <1>2, <1>3, <1>8, <2>1 DEF Extends
<1> QED
  BY <1>3, <1>6, <1>7, <1>9, <1>10, <1>11 DEF Takes, q, r

(* ... or comes behind it. *)
LEMMA AppendedStep ==
  ASSUME NEW m \in Memories, NEW es, NEW X \in SUBSET Element, NEW l, Represents(m, es, X, l),
         NEW d \in Direction, Free(m) # {},
         ~ (m.list.length > 0 /\ m.order[m.data[m.list.tail]] = Sent(d))
  PROVE  \E fs : /\ Takes(m, es, X, l, Received(m, d), fs, Queue!After(Mapped(es, Holding(m)), d))
                 /\ \E e \in Element : Received(m, d).heap = m.heap \cup {e}
<1> DEFINE q == Mapped(es, Holding(m))
           r == Received(m, d)
           n == Allocated(m, d)
           e == New(n)
           hd == m.list.head
           nz == [(IF hd = NULL THEN m.next ELSE [m.next EXCEPT ![LastOf(es)] = e])
                    EXCEPT ![e] = NULL]
           od == Append(m.order, Sent(d))
           dt == [m.data EXCEPT ![e] = Len(m.order) + 1]
           fs == Append(es, e)
<1> HIDE DEF q, r, n, e, hd, nz, od, dt, fs
<1>1. /\ m.list \in Heads /\ m.next \in Nexts /\ m.data \in Datas /\ m.heap \in SUBSET Element
      /\ m.order \in Seq(Order)
      /\ m = [list |-> m.list, next |-> m.next, data |-> m.data, heap |-> m.heap, order |-> m.order]
  BY DEF Memories
<1>2. /\ es \in Seq(Element) /\ Len(es) \in Nat /\ Linked(m.next, hd, es)
      /\ q = [i \in 1 .. Len(es) |-> Holding(m)[es[i]]] /\ Len(q) = Len(es)
      /\ ~ (q # << >> /\ Last(q) = Sent(d))
  BY LastValue DEF q, hd
<1>3. n = [list |-> m.list, next |-> m.next, data |-> m.data, heap |-> m.heap, order |-> od]
  <2>1. n = [m EXCEPT !.order = od]
    BY DEF Allocated, n, od
  <2> HIDE <1>1
  <2>2. m \in [list : Heads, next : Nexts, data : Datas, heap : SUBSET Element, order : Seq(Order)]
    BY DEF Memories
  <2> QED
    BY <2>1, <2>2
<1>4. e \in Element /\ e \notin m.heap /\ e \notin RangeOf(es) /\ e \notin X
  <2>1. n.heap = m.heap /\ Free(n) = Free(m)
    BY <1>3 DEF Free
  <2>2. e \in Element /\ e \notin m.heap
    BY <1>1, <2>1, NewIsFree DEF e
  <2> QED
    BY <2>2 DEF Represents
<1>5. /\ m.list.tail = LastOf(es) /\ m.list.length = Len(es) + l /\ Len(es) + l >= 0
      /\ l \in Int /\ -1 <= l /\ l <= 1
  BY DEF Represents
<1>6. r = [list |-> [head |-> IF hd = NULL THEN e ELSE hd, tail |-> e,
                     length |-> Counted(m.list.length, 1)],
           next |-> nz, data |-> dt, heap |-> m.heap \cup {e}, order |-> od]
  <2>1. r = list_append(n, Len(m.order) + 1)
    BY DEF r, n, Received
  <2>2. New(n) = e
    BY DEF e
  <2>3. n.list = m.list /\ n.next = m.next /\ n.data = m.data /\ n.heap = m.heap /\ n.order = od
    BY <1>3
  <2> QED
    BY <1>5, <2>1, <2>2, <2>3 DEF list_append, hd, nz, dt
<1>7. /\ Linked(nz, IF hd = NULL THEN e ELSE hd, fs)
      /\ nz \in Nexts
      /\ Len(fs) = Len(es) + 1 /\ LastOf(fs) = e
      /\ RangeOf(fs) = RangeOf(es) \cup {e}
      /\ \A v : Mapped(fs, v) = Append(Mapped(es, v), v[e])
  <2>1. m.next \in Nexts /\ Linked(m.next, hd, es)
    BY <1>1, <1>2
  <2> QED
    BY <1>4, <2>1, LinkedAppend DEF nz, fs
<1>8. Counted(m.list.length, 1) = Len(fs) + l /\ Len(fs) + l > 0 /\ Len(fs) \in Nat
  <2>1. Len(fs) <= MaxHeap
    BY <1>7, LinkedFits
  <2> DEFINE k == Len(es)
  <2>2. k \in Nat /\ Len(fs) = k + 1 /\ m.list.length = k + l /\ k + l >= 0
    BY <1>2, <1>5, <1>7
  <2>3. k + 1 < 65535
    BY <2>1, <2>2, OrderListAssumption
  <2> HIDE DEF k
  <2>4. Counted(k + l, 1) = (k + 1) + l /\ (k + 1) + l > 0
    BY <1>5, <2>2, <2>3, Counts
  <2> QED
    BY <2>2, <2>4
<1>9. /\ od \in Seq(Order) /\ Len(od) = Len(m.order) + 1 /\ Len(m.order) \in Nat
      /\ od[Len(m.order) + 1] = Sent(d) /\ \A i \in 1 .. Len(m.order) : od[i] = m.order[i]
  <2>1. Sent(d) \in Order
    BY DEF Sent, Order
  <2> QED
    BY <1>1, <2>1 DEF od
<1>10. /\ dt \in Datas /\ dt[e] = Len(m.order) + 1
       /\ \A x \in Element : x # e => dt[x] = m.data[x]
  BY <1>1, <1>4, <1>9 DEF Datas, dt
<1>14. \A x \in X : nz[x] = m.next[x]
  <2>1. \A x \in X : x \in Element /\ x # e /\ x # LastOf(es)
    <3>1. LastOf(es) = NULL \/ LastOf(es) \in RangeOf(es)
      <4>1. es # << >> => Len(es) \in 1 .. Len(es)
        BY <1>2
      <4> QED
        BY <4>1 DEF LastOf, RangeOf
    <3>2. \A x \in X : x # NULL
      BY NullIsNone
    <3> QED
      BY <1>4, <3>1, <3>2 DEF Represents
  <2> QED
    BY <1>1, <2>1 DEF Nexts, nz
<1>15. \A i \in 1 .. Len(es) : fs[i] = es[i]
  BY <1>2 DEF fs
<1>11. Owns(m.heap \cup {e}, dt, od)
  <2>1. \A x \in m.heap : x # e /\ dt[x] = m.data[x] /\ m.data[x] \in 1 .. Len(m.order)
    BY <1>1, <1>4, <1>10 DEF Represents, Owns
  <2>2. \A x, y \in m.heap : dt[x] = dt[y] => x = y
    BY <2>1 DEF Represents, Owns
  <2>3. \A x \in m.heap : dt[x] # dt[e] /\ dt[x] \in 1 .. Len(od)
    BY <1>9, <1>10, <2>1
  <2>4. dt[e] \in 1 .. Len(od)
    BY <1>9, <1>10
  <2> QED
    BY <2>2, <2>3, <2>4 DEF Owns
<1>12. /\ Holding(r)[e] = Sent(d)
       /\ \A x \in m.heap : Holding(r)[x] = Holding(m)[x]
  <2>1. \A x \in Element : Holding(r)[x] = od[dt[x]] /\ Holding(m)[x] = m.order[m.data[x]]
    BY <1>6 DEF Holding, Value
  <2>2. \A x \in m.heap : x \in Element /\ x # e /\ m.data[x] \in 1 .. Len(m.order)
    BY <1>1, <1>4 DEF Represents, Owns
  <2> QED
    BY <1>4, <1>9, <1>10, <2>1, <2>2
<1>13. Represents(r, fs, X, l)
  <2>1. m.heap \cup {e} = RangeOf(fs) \cup X /\ X \cap RangeOf(fs) = {}
    BY <1>4, <1>7 DEF Represents
  <2>2. Len(fs) + l >= 0 /\ (Len(fs) > 0 <=> Len(fs) + l > 0)
    <3>1. Len(fs) = Len(es) + 1 /\ Len(fs) > 0
      BY <1>2, <1>7
    <3>2. Len(fs) + l \in Int
      BY <1>5, <1>8
    <3> QED
      BY <1>8, <3>1, <3>2
  <2>3. l \in { -1, 0, 1 }
    BY DEF Represents
  <2> QED
    BY <1>6, <1>7, <1>8, <1>11, <2>1, <2>2, <2>3 DEF Represents
<1>16. r \in Memories
  <2>1. [head |-> IF hd = NULL THEN e ELSE hd, tail |-> e, length |-> Counted(m.list.length, 1)] \in Heads
    <3>1. Counted(m.list.length, 1) \in Nat
      BY <1>5, <1>8
    <3>2. hd \in Element \cup {NULL}
      BY <1>1 DEF Heads, hd
    <3> QED
      BY <1>4, <3>1, <3>2 DEF Heads
  <2> QED
    BY <1>1, <1>4, <1>6, <1>7, <1>9, <1>10, <2>1 DEF Memories
<1>17. Mapped(fs, Holding(r)) = Queue!After(q, d)
  <2>1. Mapped(es, Holding(r)) = q
    <3>1. \A i \in 1 .. Len(es) : es[i] \in m.heap
      BY DEF Represents, RangeOf
    <3>2. Mapped(es, Holding(r)) = [i \in 1 .. Len(es) |-> Holding(r)[es[i]]]
      BY <1>2 DEF Mapped
    <3> QED
      BY <1>2, <1>12, <3>1, <3>2
  <2>2. Queue!After(q, d) = Append(q, Sent(d))
    BY <1>2 DEF Queue!After, Queue!Last, Last, Queue!Sent, Sent
  <2> QED
    BY <1>7, <1>12, <2>1, <2>2
<1>18. Extends(m, es, X, r, fs)
  <2>1. \A x \in X : x \in m.heap
    BY DEF Represents
  <2>2. r.next = nz
    BY <1>6
  <2>3. Len(es) <= Len(fs)
    BY <1>2, <1>7
  <2> QED
    BY <1>12, <1>14, <1>15, <2>1, <2>2, <2>3 DEF Extends
<1> QED
  BY <1>4, <1>6, <1>13, <1>16, <1>17, <1>18 DEF Takes, q, r

LEMMA ReceivedStep ==
  ASSUME NEW m \in Memories, NEW es, NEW X \in SUBSET Element, NEW l, Represents(m, es, X, l),
         NEW d \in Direction, Cardinality(m.heap) < MaxHeap
  PROVE  \E fs : /\ Takes(m, es, X, l, Received(m, d), fs, Queue!After(Mapped(es, Holding(m)), d))
                 /\ Cardinality(Received(m, d).heap) <= Cardinality(m.heap) + 1
<1>1. m.heap \in SUBSET Element
  BY DEF Memories
<1>2. Cardinality(m.heap) \in Nat
  <2>1. IsFiniteSet(m.heap)
    BY <1>1, ElementFinite, FS_Subset
  <2> QED
    BY <2>1, FS_CardinalityType
<1>3. CASE m.list.length > 0 /\ m.order[m.data[m.list.tail]] = Sent(d)
  BY <1>2, <1>3, MergedStep
<1>4. CASE ~ (m.list.length > 0 /\ m.order[m.data[m.list.tail]] = Sent(d))
  <2>1. Free(m) # {}
    BY <1>1, HeapHasRoom
  <2>2. PICK fs : /\ Takes(m, es, X, l, Received(m, d), fs, Queue!After(Mapped(es, Holding(m)), d))
                  /\ \E e \in Element : Received(m, d).heap = m.heap \cup {e}
    BY <1>4, <2>1, AppendedStep
  <2>3. Cardinality(Received(m, d).heap) <= Cardinality(m.heap) + 1
    BY <1>1, <2>2, RoomTaken
  <2> QED
    BY <2>2, <2>3
<1> QED
  BY <1>3, <1>4


-----------------------------------------------------------------------------
(* A whole reply, to the list and to the queue it stands for. *)
LEMMA ReplyStep ==
  ASSUME NEW m \in Memories, NEW es, NEW X \in SUBSET Element, NEW l, Represents(m, es, X, l),
         NEW n \in Nat, NEW reply \in [1 .. n -> Direction],
         Cardinality(m.heap) + n < MaxHeap
  PROVE  LET r == ListAfter(m, reply) IN
         \E fs : Takes(m, es, X, l, r, fs, QueueAfter(Mapped(es, Holding(m)), reply))
<1> DEFINE c == Cardinality(m.heap)
<1>1. PICK s : ListStages(s, m, n, reply)
  BY FoldReceived
<1>2. PICK q : QueueStages(q, Mapped(es, Holding(m)), n, reply)
  BY FoldAfter
<1> USE DEF ListStages, QueueStages
<1>3. c \in Nat
  <2>1. m.heap \in SUBSET Element
    BY DEF Memories
  <2>2. IsFiniteSet(m.heap)
    BY <2>1, ElementFinite, FS_Subset
  <2> QED
    BY <2>2, FS_CardinalityType
<1>4. c + n < MaxHeap
  OBVIOUS
<1> HIDE DEF c
<1> DEFINE Good(k) == \E fs : Takes(m, es, X, l, s[k], fs, q[k]) /\ Cardinality(s[k].heap) <= c + k
           S == { k \in 0 .. n : Good(k) }
<1>5. 0 \in S
  <2>1. Cardinality(s[0].heap) <= c + 0
    BY <1>1, <1>3 DEF c
  <2>2. Extends(m, es, X, m, es)
    BY DEF Extends, Represents, Linked
  <2>3. Takes(m, es, X, l, s[0], es, q[0])
    BY <1>1, <1>2, <2>2 DEF Takes
  <2> QED
    BY <2>1, <2>3
<1>6. ASSUME NEW k \in 0 .. n - 1, k \in S PROVE k + 1 \in S
  <2>0. PICK fs : Takes(m, es, X, l, s[k], fs, q[k]) /\ Cardinality(s[k].heap) <= c + k
    BY <1>6
  <2>1. /\ Represents(s[k], fs, X, l) /\ s[k] \in Memories /\ Mapped(fs, Holding(s[k])) = q[k]
        /\ Extends(m, es, X, s[k], fs) /\ Cardinality(s[k].heap) <= c + k
    BY <2>0 DEF Takes
  <2>2. Cardinality(s[k].heap) \in Nat
    <3>1. s[k].heap \in SUBSET Element
      BY <2>1 DEF Memories
    <3>2. IsFiniteSet(s[k].heap)
      BY <3>1, ElementFinite, FS_Subset
    <3> QED
      BY <3>2, FS_CardinalityType
  <2>3. Cardinality(s[k].heap) < MaxHeap
    BY <1>3, <1>4, <2>1, <2>2, OrderListAssumption
  <2>4. k + 1 \in 1 .. n /\ reply[k + 1] \in Direction
    OBVIOUS
  <2> DEFINE r == Received(s[k], reply[k + 1])
  <2>5. PICK gs : /\ Takes(s[k], fs, X, l, r, gs, Queue!After(q[k], reply[k + 1]))
                  /\ Cardinality(r.heap) <= Cardinality(s[k].heap) + 1
    BY <2>1, <2>3, <2>4, ReceivedStep
  <2>6. s[k + 1] = r /\ q[k + 1] = Queue!After(q[k], reply[k + 1])
    BY <1>1, <1>2
  <2>7. Cardinality(r.heap) \in Nat
    <3> HIDE DEF r
    <3>1. r.heap \in SUBSET Element
      BY <2>5 DEF Takes, Memories
    <3>2. IsFiniteSet(r.heap)
      BY <3>1, ElementFinite, FS_Subset
    <3> QED
      BY <3>2, FS_CardinalityType
  <2> HIDE DEF r
  <2>8. Cardinality(r.heap) <= c + (k + 1)
    <3> DEFINE x == Cardinality(r.heap)
               y == Cardinality(s[k].heap)
    <3>1. x \in Nat /\ y \in Nat /\ x <= y + 1 /\ y <= c + k
      BY <2>1, <2>2, <2>5, <2>7
    <3> HIDE DEF x, y
    <3>2. x <= c + (k + 1)
      BY <1>3, <3>1
    <3> QED
      BY <3>2 DEF x
  <2>9. Extends(m, es, X, r, gs)
    BY <2>1, <2>5 DEF Takes, Extends, Represents, Linked
  <2>10. Good(k + 1)
    BY <2>5, <2>6, <2>8, <2>9 DEF Takes
  <2> HIDE DEF Good
  <2> QED
    BY <2>4, <2>10
<1>7. n \in S
  <2>1. \A k \in 0 .. n - 1 : k \in S => k + 1 \in S
    BY <1>6
  <2> HIDE DEF S
  <2>2. \A k \in 0 .. n : k \in S
    BY <1>5, <2>1, InductionTo
  <2> QED
    BY <2>2
<1> QED
  BY <1>1, <1>2, <1>7

-----------------------------------------------------------------------------
(***************************************************************************)
(* The inductive invariant: some elements es are linked from the head on,  *)
(* and the other fields agree with them as far as the drive task has come. *)
(* It holds as long as the handler has not come where the list is exposed. *)
(***************************************************************************)
Places == {"idle", "put_head", "put_tail", "load_more", "store", "load_next", "take_head",
           "test_head", "clear_tail", "free", "load_less"}

Values == Value(data, order)

Types ==
  /\ list \in Heads /\ next \in Nexts /\ data \in Datas /\ heap \in SUBSET Element
  /\ order \in Seq(Order)
  /\ elem \in Element \cup {NULL} /\ reg \in Int /\ fault = FALSE
  /\ pc \in Places

(* The element of the task, which is not in the list yet, or not any more. *)
HeapIs(es) ==
  IF pc \in {"put_head", "test_head", "clear_tail", "free"}
  THEN elem \in Element /\ elem \notin RangeOf(es) /\ heap = RangeOf(es) \cup {elem}
  ELSE heap = RangeOf(es)

TailIs(es) ==
  list.tail = IF pc = "put_tail" /\ Len(es) = 1 THEN NULL
              ELSE IF pc \in {"test_head", "clear_tail"} /\ es = << >> THEN elem
              ELSE LastOf(es)

LengthIs(es) ==
  /\ pc \in {"idle", "put_head", "load_next", "take_head"} => list.length = Len(es)
  /\ pc \in {"put_tail", "load_more"} => list.length = Len(es) - 1
  /\ pc \in {"test_head", "clear_tail", "free", "load_less"} => list.length = Len(es) + 1
  /\ pc = "store" => reg = Len(es)

TaskIs(es) ==
  /\ pc = "put_head" => next[elem] = list.head /\ \E d \in Direction : Values[elem] = Sent(d)
  /\ pc = "put_tail" => es # << >> /\ es[1] = elem
  /\ pc \in {"load_next", "take_head"} => es # << >> /\ elem = list.head
  /\ pc = "take_head" => reg = next[list.head]
  /\ pc = "clear_tail" => es = << >>

Holds(es) ==
  /\ Linked(next, list.head, es) /\ HeapIs(es) /\ TailIs(es) /\ LengthIs(es) /\ TaskIs(es)
  /\ Owns(heap, data, order)

IInv == raced \in BOOLEAN /\ (~ raced => Types /\ \E es : Holds(es))

(* What a step of the list may do to the queue. *)
QueueStep(q, r) ==
  \/ r = q
  \/ \E d \in Direction : r = << Sent(d) >> \o q
  \/ \E n \in 1 .. MaxReply : \E reply \in [1 .. n -> Direction] :
       r = QueueAfter(q, reply)
  \/ q # << >> /\ r = Tail(q)

(* At first the list is empty. *)
LEMMA InitHolds == Init => IInv /\ Holds(<< >>)
<1> SUFFICES ASSUME Init PROVE IInv /\ Holds(<< >>)
  OBVIOUS
<1>2. Types
  BY DEF Init, Types, Heads, Nexts, Datas, Places, Element, NULL
<1>3. Linked(next, list.head, << >>)
  BY DEF Init, Linked
<1>4. RangeOf(<< >>) = {} /\ LastOf(<< >>) = NULL /\ Len(<< >>) = 0
  BY DEF RangeOf, LastOf
<1>5. Holds(<< >>)
  BY <1>3, <1>4 DEF Init, Holds, HeapIs, TailIs, LengthIs, TaskIs, Owns
<1> QED
  BY <1>2, <1>5 DEF IInv, Init


-----------------------------------------------------------------------------
(* The steps: each keeps the invariant and is a step of the queue. *)
Follows(es) == Types' /\ \E fs : Holds(fs)' /\ QueueStep(Mapped(es, Values), Mapped(fs, Values'))

LEMMA EmptyLast == ASSUME NEW nx, NEW hd, NEW es, Linked(nx, hd, es)
  PROVE  /\ es = << >> <=> Len(es) = 0
         /\ es = << >> <=> LastOf(es) = NULL
         /\ es = << >> <=> hd = NULL
         /\ es = << >> => RangeOf(es) = {}
         /\ es # << >> => hd \in RangeOf(es) /\ LastOf(es) \in RangeOf(es)
         /\ RangeOf(es) \subseteq Element
<1>1. es \in Seq(Element) /\ Len(es) \in Nat
  BY DEF Linked
<1>2. es = << >> <=> Len(es) = 0
  BY <1>1
<1>3. CASE es = << >>
  BY <1>1, <1>2, <1>3 DEF Linked, LastOf, RangeOf
<1>4. CASE es # << >>
  <2>1. 1 \in 1 .. Len(es) /\ Len(es) \in 1 .. Len(es)
    BY <1>1, <1>2, <1>4
  <2>2. hd = es[1] /\ LastOf(es) = es[Len(es)]
    BY <1>4 DEF Linked, LastOf
  <2>3. hd \in RangeOf(es) /\ LastOf(es) \in RangeOf(es)
    BY <2>1, <2>2 DEF RangeOf
  <2>4. RangeOf(es) \subseteq Element
    BY <1>1 DEF RangeOf
  <2> QED
    BY <1>2, <1>4, <2>3, <2>4, NullIsNone
<1> QED
  BY <1>3, <1>4

(* The orders of elements nobody writes to stay as they are. *)
LEMMA MappedElsewhere ==
  ASSUME NEW es \in Seq(Element), NEW d1, NEW d2, \A x \in RangeOf(es) : d1[x] = d2[x]
  PROVE  Mapped(es, d1) = Mapped(es, d2)
<1>1. DOMAIN es = 1 .. Len(es)
  OBVIOUS
<1>2. \A i \in 1 .. Len(es) : es[i] \in RangeOf(es)
  BY DEF RangeOf
<1> QED
  BY <1>1, <1>2 DEF Mapped

(* What the handler finds, where the list is not exposed. *)
Aside == IF pc \in {"put_head", "test_head", "free"} THEN {elem} ELSE {}
Ahead == IF pc \in {"put_tail", "load_more"} THEN -1
         ELSE IF pc \in {"test_head", "free", "load_less"} THEN 1 ELSE 0

LEMMA HandlerFinds ==
  ASSUME Types, NEW es, Holds(es), ~ Exposed
  PROVE  /\ Memory \in Memories /\ Represents(Memory, es, Aside, Ahead)
         /\ Aside \in SUBSET Element /\ ~ Astray
         /\ pc \notin {"clear_tail", "store"}
         /\ pc \in {"put_head", "put_tail", "test_head"} => Len(es) >= 1
         /\ pc \in {"put_tail", "take_head"} => Len(es) >= 2
<1>1. /\ Memory.list = list /\ Memory.next = next /\ Memory.data = data /\ Memory.heap = heap
      /\ Memory.order = order /\ Memory \in Memories
  BY DEF Memory, Memories, Types
<1>2. Linked(next, list.head, es) /\ Owns(heap, data, order) /\ Len(es) \in Nat
  BY DEF Holds, Linked
<1>3. /\ pc \notin {"clear_tail", "store"}
      /\ list.length = Len(es) + Ahead /\ Ahead \in { -1, 0, 1 }
      /\ Len(es) + Ahead >= 0 /\ (Len(es) > 0 <=> Len(es) + Ahead > 0)
      /\ pc \in {"put_head", "put_tail", "test_head"} => Len(es) >= 1
      /\ pc \in {"put_tail", "take_head"} => Len(es) >= 2
  <2>1. pc # "store" /\ pc # "clear_tail"
    <3>1. pc = "clear_tail" => list.length = 1
      <4>1. pc = "clear_tail" => es = << >> /\ list.length = Len(es) + 1
        BY DEF Holds, TaskIs, LengthIs
      <4>2. es = << >> => Len(es) = 0
        OBVIOUS
      <4> QED
        BY <1>2, <4>1, <4>2
    <3> QED
      BY <3>1 DEF Exposed
  <2>2. list.length = Len(es) + Ahead
    BY <1>2, <2>1 DEF Holds, LengthIs, Ahead, Types, Places
  <2>3. pc \in {"put_head", "put_tail", "load_more"} => list.length # 0
    BY DEF Exposed
  <2>4. pc \in {"take_head", "test_head", "free", "load_less"} => list.length # 1
    BY DEF Exposed
  <2>5. pc \in {"load_next", "take_head", "put_tail"} => Len(es) >= 1
    <3>1. pc \in {"load_next", "take_head", "put_tail"} => es # << >>
      BY DEF Holds, TaskIs
    <3> QED
      BY <1>2, <3>1, EmptyLast
  <2>6. list.length >= 0
    BY DEF Types, Heads
  <2>7. CASE pc \in {"put_tail", "load_more"}
    <3>1. Ahead = -1 /\ list.length = Len(es) - 1 /\ list.length # 0
      BY <1>2, <2>2, <2>3, <2>7 DEF Ahead
    <3>2. Len(es) - 1 >= 0 /\ Len(es) - 1 # 0
      BY <2>6, <3>1
    <3>3. Len(es) >= 2
      BY <1>2, <3>2, NotOne
    <3> QED
      BY <1>2, <2>1, <2>2, <2>7, <3>1, <3>3
  <2>8. CASE pc \in {"test_head", "free", "load_less"}
    <3>1. Ahead = 1 /\ list.length = Len(es) + 1 /\ list.length # 1
      BY <1>2, <2>2, <2>4, <2>8 DEF Ahead
    <3>2. Len(es) >= 1
      BY <1>2, <3>1
    <3> QED
      BY <1>2, <2>1, <2>2, <2>8, <3>1, <3>2
  <2>9. CASE pc \notin {"put_tail", "load_more", "test_head", "free", "load_less"}
    <3>1. Ahead = 0 /\ list.length = Len(es)
      BY <1>2, <2>2, <2>9 DEF Ahead
    <3>2. pc = "put_head" => Len(es) >= 1
      BY <1>2, <2>3, <3>1
    <3>3. pc = "take_head" => Len(es) >= 2
      <4>1. pc = "take_head" => Len(es) >= 1 /\ Len(es) # 1
        BY <2>4, <2>5, <3>1
      <4> QED
        BY <1>2, <4>1, NotOne
    <3> QED
      BY <1>2, <2>1, <2>2, <2>9, <3>1, <3>2, <3>3
  <2> QED
    BY <2>7, <2>8, <2>9
<1>4. list.tail = LastOf(es)
  <2>1. pc = "put_tail" => Len(es) # 1
    BY <1>2, <1>3, NotOne
  <2>2. pc = "test_head" => es # << >>
    BY <1>2, <1>3, EmptyLast
  <2> QED
    BY <1>3, <2>1, <2>2 DEF Holds, TailIs
<1>5. heap = RangeOf(es) \cup Aside /\ Aside \cap RangeOf(es) = {} /\ Aside \in SUBSET Element
  BY <1>3 DEF Holds, HeapIs, Aside
<1>6. ~ Astray
  <2>1. CASE es = << >>
    BY <1>2, <1>3, <1>4, <2>1, EmptyLast DEF Astray
  <2>2. CASE es # << >>
    BY <1>2, <1>4, <1>5, <2>2, EmptyLast DEF Astray
  <2> QED
    BY <2>1, <2>2
<1>7. Represents(Memory, es, Aside, Ahead)
  BY <1>1, <1>2, <1>3, <1>4, <1>5 DEF Represents
<1> QED
  BY <1>1, <1>3, <1>5, <1>6, <1>7

(* The handler. *)
LEMMA HandlerFollows ==
  ASSUME Types, NEW es, Holds(es), Handler, ~ Exposed
  PROVE  Follows(es)
<1>1. PICK reply \in Reply : receive_interrupt_handler(reply)
  BY DEF Handler
<1>2. PICK n \in 1 .. MaxReply : reply \in [1 .. n -> Direction]
  BY <1>1 DEF Reply
<1>3. n \in Nat /\ Len(reply) = n
  BY <1>2, OrderListAssumption
<1> DEFINE m == Memory
           r == ListAfter(m, reply)
<1>5. /\ m.list = list /\ m.next = next /\ m.data = data /\ m.heap = heap /\ m.order = order
  BY DEF Memory
<1>6. /\ m \in Memories /\ Represents(m, es, Aside, Ahead)
      /\ Aside \in SUBSET Element /\ ~ Astray
      /\ pc \notin {"clear_tail", "store"}
      /\ pc \in {"put_head", "put_tail", "test_head"} => Len(es) >= 1
      /\ pc \in {"put_tail", "take_head"} => Len(es) >= 2
  BY HandlerFinds
<1>8. Cardinality(m.heap) + n < MaxHeap
  BY <1>1, <1>3, <1>5 DEF receive_interrupt_handler
<1>9. Holding(m) = Values
  BY <1>5 DEF Holding, Values
<1>10. fault' = FALSE /\ Store(r) /\ UNCHANGED << pc, elem, reg >>
  BY <1>1, <1>6 DEF receive_interrupt_handler, ListAfter
<1> HIDE DEF m
<1>11. PICK fs : Takes(m, es, Aside, Ahead, r, fs, QueueAfter(Mapped(es, Values), reply))
  BY <1>2, <1>3, <1>6, <1>8, <1>9, ReplyStep
<1> HIDE DEF r
<1>12. /\ list' = r.list /\ next' = r.next /\ data' = r.data /\ heap' = r.heap
       /\ order' = r.order /\ Values' = Holding(r)
  BY <1>10 DEF Store, Holding, Values
<1>13. /\ Represents(r, fs, Aside, Ahead) /\ r \in Memories
       /\ Mapped(fs, Values') = QueueAfter(Mapped(es, Values), reply)
       /\ Extends(m, es, Aside, r, fs)
  BY <1>11, <1>12 DEF Takes
<1>14. Types'
  BY <1>10, <1>12, <1>13 DEF Memories, Types
<1>15. /\ Linked(next', list'.head, fs) /\ list'.tail = LastOf(fs)
       /\ list'.length = Len(fs) + Ahead /\ heap' = RangeOf(fs) \cup Aside
       /\ Aside \cap RangeOf(fs) = {} /\ Owns(heap', data', order')
  BY <1>12, <1>13 DEF Represents
<1>16. /\ Linked(next, list.head, es) /\ Len(es) \in Nat /\ Len(fs) \in Nat
       /\ Len(es) <= Len(fs) /\ \A i \in 1 .. Len(es) : fs[i] = es[i]
       /\ \A x \in Aside : next'[x] = next[x] /\ Values'[x] = Values[x]
  BY <1>5, <1>9, <1>12, <1>13, <1>15 DEF Extends, Holds, Linked
<1>17. Len(es) >= 1 => /\ es # << >> /\ fs # << >> /\ fs[1] = es[1]
                       /\ list.head = es[1] /\ list'.head = fs[1]
  <2> SUFFICES ASSUME Len(es) >= 1
               PROVE  es # << >> /\ fs # << >> /\ fs[1] = es[1]
                      /\ list.head = es[1] /\ list'.head = fs[1]
    OBVIOUS
  <2>1. es # << >> /\ fs # << >>
    BY <1>15, <1>16, EmptyLast
  <2> QED
    BY <1>15, <1>16, <2>1 DEF Linked
<1>18. HeapIs(fs)'
  BY <1>6, <1>10, <1>15 DEF HeapIs, Aside, Holds
<1>19. TailIs(fs)'
  BY <1>6, <1>10, <1>15, <1>16, <1>17 DEF TailIs
<1>20. LengthIs(fs)'
  BY <1>6, <1>10, <1>15, <1>16 DEF LengthIs, Ahead
<1>21. TaskIs(fs)'
  <2>1. CASE pc = "put_head"
    BY <1>6, <1>10, <1>16, <1>17, <2>1 DEF TaskIs, Holds, Aside
  <2>2. CASE pc = "put_tail"
    BY <1>6, <1>10, <1>16, <1>17, <2>2 DEF TaskIs, Holds
  <2>3. CASE pc = "load_next"
    <3>1. Len(es) >= 1 /\ elem = list.head
      BY <1>16, <2>3, EmptyLast DEF TaskIs, Holds
    <3> QED
      BY <1>10, <1>17, <2>3, <3>1 DEF TaskIs
  <2>4. CASE pc = "take_head"
    <3>1. Len(es) >= 2 /\ elem = list.head /\ reg = next[es[1]]
      BY <1>6, <1>17, <2>4 DEF TaskIs, Holds
    <3>2. /\ 1 \in 1 .. Len(es) /\ 1 \in 1 .. Len(fs) /\ 2 \in 1 .. Len(es)
          /\ 1 < Len(es) /\ 1 < Len(fs)
      BY <1>16, <3>1
    <3>3. next[es[1]] = es[1 + 1] /\ next'[fs[1]] = fs[1 + 1]
      BY <1>15, <1>16, <3>2 DEF Linked
    <3>4. fs[2] = es[2]
      BY <1>16, <3>2
    <3> QED
      BY <1>10, <1>17, <2>4, <3>1, <3>3, <3>4 DEF TaskIs
  <2>5. CASE pc \notin {"put_head", "put_tail", "load_next", "take_head"}
    BY <1>6, <1>10, <2>5 DEF TaskIs
  <2> QED
    BY <2>1, <2>2, <2>3, <2>4, <2>5
<1>22. Holds(fs)'
  BY <1>15, <1>18, <1>19, <1>20, <1>21 DEF Holds
<1>23. QueueStep(Mapped(es, Values), Mapped(fs, Values'))
  BY <1>2, <1>13 DEF QueueStep
<1> QED
  BY <1>14, <1>22, <1>23 DEF Follows

(* list_unshift *)
LEMMA UnshiftFollows ==
  ASSUME Types, NEW es, Holds(es), NEW d \in Direction, list_unshift(d)
  PROVE  Follows(es)
<1> DEFINE m == Memory
           e == New(m)
<1>1. /\ m.list = list /\ m.next = next /\ m.data = data /\ m.heap = heap
  BY DEF Memory
<1>2. pc = "idle" /\ Free(m) # {} /\ elem' = e /\ heap' = heap \cup {e}
      /\ order' = Append(order, Sent(d)) /\ data' = [data EXCEPT ![e] = Len(order')]
      /\ next' = [next EXCEPT ![e] = list.head]
      /\ pc' = "put_head" /\ UNCHANGED << list, reg, fault >>
  BY DEF list_unshift, Goto
<1>3. e \in Element /\ e \notin heap
  BY <1>1, <1>2, NewIsFree DEF Types
<1> HIDE DEF m, e
<1>4. heap = RangeOf(es) /\ list.tail = LastOf(es) /\ list.length = Len(es)
      /\ Linked(next, list.head, es) /\ Owns(heap, data, order)
  BY <1>2 DEF Holds, HeapIs, TailIs, LengthIs
<1>5. es \in Seq(Element) /\ \A i \in 1 .. Len(es) : es[i] \in RangeOf(es) /\ es[i] # e
  BY <1>3, <1>4 DEF Linked, RangeOf
<1>6. /\ order' \in Seq(Order) /\ Len(order) \in Nat /\ Len(order') = Len(order) + 1
      /\ order'[Len(order')] = Sent(d) /\ \A i \in 1 .. Len(order) : order'[i] = order[i]
  <2>1. Sent(d) \in Order
    BY DEF Sent, Order
  <2> QED
    BY <1>2, <2>1 DEF Types
<1>7. Types'
  BY <1>2, <1>3, <1>6 DEF Types, Nexts, Datas, Places, Heads
<1>8. /\ next'[e] = list.head /\ data'[e] = Len(order')
      /\ \A x \in Element : x # e => next'[x] = next[x] /\ data'[x] = data[x]
  BY <1>2, <1>3 DEF Types, Nexts, Datas
<1>9. Linked(next', list'.head, es)
  <2>1. \A i \in 1 .. Len(es) : next'[es[i]] = next[es[i]]
    BY <1>5, <1>8
  <2> QED
    BY <1>2, <1>4, <2>1, LinkedElsewhere
<1>10. \A x \in heap : x \in Element /\ x # e /\ data'[x] = data[x] /\ data[x] \in 1 .. Len(order)
  BY <1>3, <1>4, <1>8 DEF Types, Owns
<1>11. Owns(heap', data', order')
  <2>1. \A x \in heap : data'[x] # data'[e] /\ data'[x] \in 1 .. Len(order')
    BY <1>6, <1>8, <1>10
  <2>2. data'[e] \in 1 .. Len(order')
    BY <1>6, <1>8
  <2>3. \A x, y \in heap : data'[x] = data'[y] => x = y
    BY <1>4, <1>10 DEF Owns
  <2> QED
    BY <1>2, <2>1, <2>2, <2>3 DEF Owns
<1>12. Values'[e] = Sent(d) /\ \A x \in heap : Values'[x] = Values[x]
  BY <1>3, <1>6, <1>8, <1>10 DEF Values, Value
<1>13. Holds(es)'
  BY <1>2, <1>3, <1>4, <1>8, <1>9, <1>11, <1>12 DEF Holds, HeapIs, TailIs, LengthIs, TaskIs
<1>14. Mapped(es, Values') = Mapped(es, Values)
  BY <1>4, <1>5, <1>12, MappedElsewhere
<1> QED
  BY <1>7, <1>13, <1>14 DEF Follows, QueueStep

LEMMA PutHeadFollows ==
  ASSUME Types, NEW es, Holds(es), PutHead
  PROVE  Follows(es)
<1>1. pc = "put_head" /\ list' = [list EXCEPT !.head = elem] /\ pc' = "put_tail"
      /\ UNCHANGED << next, data, heap, order, elem, reg, fault >>
  BY DEF PutHead, Goto
<1>2. /\ elem \in Element /\ elem \notin RangeOf(es) /\ heap = RangeOf(es) \cup {elem}
      /\ list.tail = LastOf(es) /\ list.length = Len(es) /\ next[elem] = list.head
      /\ Linked(next, list.head, es)
  BY <1>1 DEF Holds, HeapIs, TailIs, LengthIs, TaskIs
<1>3. PICK d \in Direction : Values[elem] = Sent(d)
  BY <1>1 DEF Holds, TaskIs
<1>4. PICK fs : Consed(next, elem, es, fs)
  BY <1>2, LinkedCons
<1> USE DEF Consed
<1>5. es \in Seq(Element) /\ Len(es) \in Nat
  BY <1>2 DEF Linked
<1>6. fs[1] = elem
  BY <1>4 DEF Linked
<1>7. list' \in Heads /\ list'.head = elem /\ list'.tail = list.tail /\ list'.length = list.length
  BY <1>1, <1>2 DEF Types, Heads
<1>8. Types'
  BY <1>1, <1>7 DEF Types, Places
<1>9. TailIs(fs)'
  <2>1. es = << >> <=> Len(fs) = 1
    BY <1>2, <1>4, <1>5, EmptyLast
  <2>2. es = << >> => LastOf(es) = NULL
    BY DEF LastOf
  <2> QED
    BY <1>1, <1>2, <1>4, <1>7, <2>1, <2>2 DEF TailIs
<1>10. LengthIs(fs)'
  BY <1>1, <1>2, <1>4, <1>5, <1>7 DEF LengthIs
<1>11. Holds(fs)'
  BY <1>1, <1>2, <1>4, <1>6, <1>7, <1>9, <1>10 DEF Holds, HeapIs, TaskIs
<1>12. QueueStep(Mapped(es, Values), Mapped(fs, Values'))
  BY <1>1, <1>3, <1>4 DEF QueueStep, Values
<1> QED
  BY <1>8, <1>11, <1>12 DEF Follows


LEMMA PutTailFollows ==
  ASSUME Types, NEW es, Holds(es), PutTail
  PROVE  Follows(es)
<1>1. pc = "put_tail" /\ pc' = "load_more"
      /\ list' = (IF list.tail = NULL THEN [list EXCEPT !.tail = elem] ELSE list)
      /\ UNCHANGED << next, data, heap, order, elem, reg, fault >>
  BY DEF PutTail, Goto
<1>2. /\ Linked(next, list.head, es) /\ es # << >> /\ es[1] = elem /\ heap = RangeOf(es)
      /\ list.tail = IF Len(es) = 1 THEN NULL ELSE LastOf(es)
      /\ list.length = Len(es) - 1
  BY <1>1 DEF Holds, HeapIs, TailIs, LengthIs, TaskIs
<1>3. LastOf(es) # NULL /\ (Len(es) = 1 => LastOf(es) = elem)
  BY <1>2, EmptyLast DEF LastOf
<1>4. /\ list' \in Heads /\ list'.head = list.head /\ list'.tail = LastOf(es)
      /\ list'.length = list.length
  BY <1>1, <1>2, <1>3 DEF Types, Heads
<1>5. Types'
  BY <1>1, <1>4 DEF Types, Places
<1>6. Holds(es)'
  BY <1>1, <1>2, <1>4 DEF Holds, HeapIs, TailIs, LengthIs, TaskIs
<1> QED
  BY <1>1, <1>5, <1>6 DEF Follows, QueueStep, Values

(* The length goes to a register ... *)
LEMMA LoadFollows ==
  ASSUME Types, NEW es, Holds(es),
         LoadLength("load_more", "store", 1) \/ LoadLength("load_less", "store", -1)
  PROVE  Follows(es)
<1>1. /\ pc \in {"load_more", "load_less"} /\ pc' = "store"
      /\ reg' = Counted(list.length, IF pc = "load_more" THEN 1 ELSE -1)
      /\ UNCHANGED << list, next, data, heap, order, elem, fault >>
  BY DEF LoadLength, Goto, memory
<1>2. /\ Linked(next, list.head, es) /\ heap = RangeOf(es) /\ list.tail = LastOf(es)
      /\ list.length = IF pc = "load_more" THEN Len(es) - 1 ELSE Len(es) + 1
  BY <1>1 DEF Holds, HeapIs, TailIs, LengthIs
<1>3. Len(es) \in 0 .. MaxHeap
  BY <1>2, LinkedFits DEF Linked
<1>4. reg' = Len(es)
  BY <1>1, <1>2, <1>3, OrderListAssumption DEF Counted
<1>5. Types'
  BY <1>1, <1>3, <1>4 DEF Types, Places
<1>6. Holds(es)'
  BY <1>1, <1>2, <1>4 DEF Holds, HeapIs, TailIs, LengthIs, TaskIs
<1> QED
  BY <1>1, <1>5, <1>6 DEF Follows, QueueStep, Values

(* ... and comes back. *)
LEMMA StoreFollows ==
  ASSUME Types, NEW es, Holds(es), StoreLength
  PROVE  Follows(es)
<1>1. pc = "store" /\ pc' = "idle" /\ list' = [list EXCEPT !.length = reg]
      /\ elem' = NULL /\ reg' = 0 /\ UNCHANGED << next, data, heap, order, fault >>
  BY DEF StoreLength, Goto
<1>2. /\ Linked(next, list.head, es) /\ heap = RangeOf(es) /\ list.tail = LastOf(es)
      /\ reg = Len(es)
  BY <1>1 DEF Holds, HeapIs, TailIs, LengthIs
<1>3. /\ list' \in Heads /\ list'.head = list.head /\ list'.tail = list.tail
      /\ list'.length = Len(es)
  BY <1>1, <1>2 DEF Types, Heads
<1>4. Types'
  BY <1>1, <1>3 DEF Types, Places
<1>5. Holds(es)'
  BY <1>1, <1>2, <1>3 DEF Holds, HeapIs, TailIs, LengthIs, TaskIs
<1> QED
  BY <1>1, <1>4, <1>5 DEF Follows, QueueStep, Values

(* list_shift *)
LEMMA ShiftFollows ==
  ASSUME Types, NEW es, Holds(es), list_shift
  PROVE  Follows(es)
<1>1. pc = "idle" /\ pc' = "load_next" /\ list.head # NULL /\ elem' = list.head
      /\ UNCHANGED << list, next, data, heap, order, reg, fault >>
  BY DEF list_shift, Goto, memory
<1>2. /\ Linked(next, list.head, es) /\ heap = RangeOf(es) /\ list.tail = LastOf(es)
      /\ list.length = Len(es)
  BY <1>1 DEF Holds, HeapIs, TailIs, LengthIs
<1>3. es # << >>
  BY <1>1, <1>2, EmptyLast
<1>4. Types'
  BY <1>1 DEF Types, Heads, Places
<1>5. Holds(es)'
  BY <1>1, <1>2, <1>3 DEF Holds, HeapIs, TailIs, LengthIs, TaskIs
<1> QED
  BY <1>1, <1>4, <1>5 DEF Follows, QueueStep, Values

LEMMA LoadNextFollows ==
  ASSUME Types, NEW es, Holds(es), LoadNext
  PROVE  Follows(es)
<1>1. pc = "load_next" /\ pc' = "take_head" /\ reg' = next[list.head]
      /\ UNCHANGED << list, next, data, heap, order, elem, fault >>
  BY DEF LoadNext, Goto, memory
<1>2. /\ Linked(next, list.head, es) /\ heap = RangeOf(es) /\ list.tail = LastOf(es)
      /\ list.length = Len(es) /\ es # << >> /\ elem = list.head
  BY <1>1 DEF Holds, HeapIs, TailIs, LengthIs, TaskIs
<1>3. list.head \in Element /\ next[list.head] \in Int
  <2>1. list.head \in Element
    BY <1>2, EmptyLast
  <2>2. next[list.head] \in Element \cup {NULL}
    BY <2>1 DEF Types, Nexts
  <2> QED
    BY <2>1, <2>2 DEF Element, NULL
<1>4. Types'
  BY <1>1, <1>3 DEF Types, Heads, Places
<1>5. Holds(es)'
  BY <1>1, <1>2 DEF Holds, HeapIs, TailIs, LengthIs, TaskIs
<1> QED
  BY <1>1, <1>4, <1>5 DEF Follows, QueueStep, Values

LEMMA TakeHeadFollows ==
  ASSUME Types, NEW es, Holds(es), TakeHead
  PROVE  Follows(es)
<1>1. pc = "take_head" /\ pc' = "test_head" /\ list' = [list EXCEPT !.head = reg]
      /\ UNCHANGED << next, data, heap, order, elem, reg, fault >>
  BY DEF TakeHead, Goto
<1>2. /\ Linked(next, list.head, es) /\ heap = RangeOf(es) /\ list.tail = LastOf(es)
      /\ list.length = Len(es) /\ es # << >> /\ elem = list.head /\ reg = next[list.head]
  BY <1>1 DEF Holds, HeapIs, TailIs, LengthIs, TaskIs
<1>3. PICK fs : Tailed(next, list.head, es, fs)
  BY <1>2, LinkedTail
<1> USE DEF Tailed
<1>4. Len(es) \in Nat /\ Len(fs) \in Nat
  BY <1>2, <1>3 DEF Linked
<1>5. next[list.head] \in Element \cup {NULL}
  BY <1>3 DEF Types, Nexts
<1>6. /\ list' \in Heads /\ list'.head = next[list.head] /\ list'.tail = list.tail
      /\ list'.length = list.length
  BY <1>1, <1>2, <1>5 DEF Types, Heads
<1>7. Types'
  BY <1>1, <1>6 DEF Types, Places
<1>8. HeapIs(fs)' /\ TailIs(fs)'
  BY <1>1, <1>2, <1>3, <1>6 DEF HeapIs, TailIs
<1>9. LengthIs(fs)' /\ TaskIs(fs)'
  BY <1>1, <1>2, <1>3, <1>4, <1>6 DEF LengthIs, TaskIs
<1>10. Holds(fs)'
  BY <1>1, <1>3, <1>6, <1>8, <1>9 DEF Holds
<1>11. QueueStep(Mapped(es, Values), Mapped(fs, Values'))
  BY <1>1, <1>3 DEF QueueStep, Values
<1> QED
  BY <1>7, <1>10, <1>11 DEF Follows

LEMMA TestHeadFollows ==
  ASSUME Types, NEW es, Holds(es), TestHead
  PROVE  Follows(es)
<1>1. pc = "test_head" /\ pc' = (IF list.head = NULL THEN "clear_tail" ELSE "free")
      /\ UNCHANGED << list, next, data, heap, order, elem, reg, fault >>
  BY DEF TestHead, Goto, memory
<1>2. /\ Linked(next, list.head, es) /\ list.length = Len(es) + 1
      /\ elem \in Element /\ elem \notin RangeOf(es) /\ heap = RangeOf(es) \cup {elem}
      /\ list.tail = IF es = << >> THEN elem ELSE LastOf(es)
  BY <1>1 DEF Holds, HeapIs, TailIs, LengthIs
<1>3. es = << >> <=> list.head = NULL
  BY <1>2, EmptyLast
<1>4. Types'
  BY <1>1 DEF Types, Places
<1>5. Holds(es)'
  BY <1>1, <1>2, <1>3 DEF Holds, HeapIs, TailIs, LengthIs, TaskIs
<1> QED
  BY <1>1, <1>4, <1>5 DEF Follows, QueueStep, Values

LEMMA ClearTailFollows ==
  ASSUME Types, NEW es, Holds(es), ClearTail
  PROVE  Follows(es)
<1>1. pc = "clear_tail" /\ pc' = "free" /\ list' = [list EXCEPT !.tail = NULL]
      /\ UNCHANGED << next, data, heap, order, elem, reg, fault >>
  BY DEF ClearTail, Goto
<1>2. /\ Linked(next, list.head, es) /\ list.length = Len(es) + 1 /\ es = << >>
      /\ elem \in Element /\ elem \notin RangeOf(es) /\ heap = RangeOf(es) \cup {elem}
  BY <1>1 DEF Holds, HeapIs, TailIs, LengthIs, TaskIs
<1>3. LastOf(es) = NULL
  BY <1>2 DEF LastOf
<1>4. /\ list' \in Heads /\ list'.head = list.head /\ list'.tail = NULL
      /\ list'.length = list.length
  BY <1>1 DEF Types, Heads
<1>5. Types'
  BY <1>1, <1>4 DEF Types, Places
<1>6. Holds(es)'
  BY <1>1, <1>2, <1>3, <1>4 DEF Holds, HeapIs, TailIs, LengthIs, TaskIs
<1> QED
  BY <1>1, <1>5, <1>6 DEF Follows, QueueStep, Values

LEMMA FreeFollows ==
  ASSUME Types, NEW es, Holds(es), FreeElement
  PROVE  Follows(es)
<1>1. pc = "free" /\ pc' = "load_less" /\ heap' = heap \ {elem}
      /\ next' = [next EXCEPT ![elem] = NULL] /\ data' = [data EXCEPT ![elem] = NULL]
      /\ UNCHANGED << list, order, elem, reg, fault >>
  BY DEF FreeElement, Goto
<1>2. /\ Linked(next, list.head, es) /\ list.length = Len(es) + 1 /\ list.tail = LastOf(es)
      /\ elem \in Element /\ elem \notin RangeOf(es) /\ heap = RangeOf(es) \cup {elem}
      /\ Owns(heap, data, order)
  BY <1>1 DEF Holds, HeapIs, TailIs, LengthIs
<1>3. RangeOf(es) \subseteq Element /\ heap' = RangeOf(es)
  BY <1>1, <1>2, EmptyLast
<1>4. Types'
  BY <1>1 DEF Types, Nexts, Datas, Places, NULL
<1>5. \A x \in RangeOf(es) : next'[x] = next[x] /\ data'[x] = data[x]
  BY <1>1, <1>2, <1>3 DEF Types, Nexts, Datas
<1>6. es \in Seq(Element) /\ \A i \in 1 .. Len(es) : es[i] \in RangeOf(es)
  BY <1>2 DEF Linked, RangeOf
<1>7. Linked(next', list'.head, es)
  <2>1. \A i \in 1 .. Len(es) : next'[es[i]] = next[es[i]]
    BY <1>5, <1>6
  <2> QED
    BY <1>1, <1>2, <2>1, LinkedElsewhere
<1>8. Owns(heap', data', order')
  BY <1>1, <1>2, <1>3, <1>5 DEF Owns
<1>9. Holds(es)'
  BY <1>1, <1>2, <1>3, <1>7, <1>8 DEF Holds, HeapIs, TailIs, LengthIs, TaskIs
<1>10. Mapped(es, Values') = Mapped(es, Values)
  <2>1. \A x \in RangeOf(es) : Values'[x] = Values[x]
    BY <1>1, <1>3, <1>5 DEF Values, Value
  <2> QED
    BY <1>6, <2>1, MappedElsewhere
<1> QED
  BY <1>4, <1>9, <1>10 DEF Follows, QueueStep


-----------------------------------------------------------------------------
(* What is damaged stays damaged; and until then, each step keeps the invariant. *)
LEMMA StepFollows ==
  ASSUME raced \in BOOLEAN, [Next]_vars
  PROVE  /\ raced' \in BOOLEAN /\ (raced => raced')
         /\ ~ raced' /\ Types => \A es : Holds(es) => Follows(es)
<1>1. CASE Handler
  <2>1. raced' = (raced \/ Exposed)
    BY <1>1 DEF Handler, receive_interrupt_handler
  <2>2. Exposed \in BOOLEAN
    BY DEF Exposed
  <2> QED
    BY <1>1, <2>1, <2>2, HandlerFollows
<1>2. ASSUME NEW d \in Direction, list_unshift(d)
      PROVE  raced' = raced /\ (Types => \A es : Holds(es) => Follows(es))
  BY <1>2, UnshiftFollows DEF list_unshift, Goto
<1>3. CASE Unshift
  <2>1. raced' = raced
    BY <1>3 DEF Unshift, PutHead, PutTail, LoadLength, StoreLength, Goto
  <2> QED
    BY <1>3, <2>1, PutHeadFollows, PutTailFollows, LoadFollows, StoreFollows DEF Unshift
<1>4. CASE list_shift \/ Shift
  <2>1. raced' = raced
    BY <1>4 DEF list_shift, Shift, LoadNext, TakeHead, TestHead, ClearTail, FreeElement,
                LoadLength, Goto
  <2> QED
    BY <1>4, <2>1, ShiftFollows, LoadNextFollows, TakeHeadFollows, TestHeadFollows,
       ClearTailFollows, FreeFollows, LoadFollows DEF Shift
<1>5. CASE UNCHANGED vars
  <2>1. raced' = raced
    BY <1>5 DEF vars
  <2>2. Types => Types'
    BY <1>5 DEF vars, memory, Types
  <2>3. ASSUME NEW es, Holds(es) PROVE Holds(es)' /\ QueueStep(Mapped(es, Values), Mapped(es, Values'))
    BY <1>5, <2>3 DEF vars, memory, Holds, HeapIs, TailIs, LengthIs, TaskIs, Values, QueueStep
  <2> QED
    BY <2>1, <2>2, <2>3 DEF Follows
<1> QED
  BY <1>1, <1>2, <1>3, <1>4, <1>5 DEF Next

LEMMA Invariance == Spec => []IInv
<1>1. IInv /\ [Next]_vars => IInv'
  BY StepFollows DEF IInv, Follows
<1> QED
  BY <1>1, InitHolds, PTL DEF Spec

(***************************************************************************)
(* Wherever the handler interrupts the drive task, but where the list is   *)
(* exposed to it, the list is whole between two operations, whatever the   *)
(* size of the heap, the length of the replies and the order of the calls  *)
(* (CAV/src/list.c).                                                       *)
(***************************************************************************)
THEOREM ListIsWhole == Spec => []Whole
<1>1. IInv => Whole
  <2> SUFFICES ASSUME IInv, ~ raced, pc = "idle"
               PROVE  /\ list.length = Len(Elements)
                      /\ list.tail = IF Elements = << >> THEN NULL ELSE Last(Elements)
                      /\ ToSet(Elements) = heap
                      /\ \A e \in heap : data[e] \in DOMAIN order
                      /\ \A e, f \in heap : data[e] = data[f] => e = f
    BY DEF IInv, Types, Whole
  <2>1. PICK es : Holds(es)
    BY DEF IInv
  <2>2. Elements = es
    BY <2>1, ElementsAre DEF Holds, WalkMeetsLinked
  <2>3. DOMAIN es = 1 .. Len(es) /\ DOMAIN order = 1 .. Len(order)
    BY <2>1 DEF Holds, Linked, IInv, Types
  <2>4. ToSet(es) = RangeOf(es)
    BY <2>3 DEF ToSet, RangeOf
  <2>5. list.length = Len(es) /\ list.tail = LastOf(es) /\ heap = RangeOf(es)
        /\ Owns(heap, data, order)
    BY <2>1 DEF Holds, HeapIs, TailIs, LengthIs
  <2> QED
    BY <2>2, <2>3, <2>4, <2>5 DEF LastOf, Last, Owns
<1> QED
  BY <1>1, Invariance, PTL

(***************************************************************************)
(* The linked list implements the queue of orders, until the handler comes *)
(* where the list is exposed to it: a step of it is a step of the queue or *)
(* does not change what it holds.                                          *)
(***************************************************************************)
THEOREM ListIsQueue == Spec => IsQueue
<1>1. Init => Orders = << >> /\ ~ raced
  <2> SUFFICES ASSUME Init PROVE Orders = << >> /\ ~ raced
    OBVIOUS
  <2>1. Elements = << >>
    BY InitHolds, ElementsAre DEF Holds, WalkMeetsLinked
  <2> QED
    BY <2>1 DEF Orders, Init
<1>2. IInv /\ [Next]_vars => [Queue!Next]_<< Orders, raced >>
  <2> SUFFICES ASSUME IInv, [Next]_vars
               PROVE  [Queue!Next]_<< Orders, raced >>
    OBVIOUS
  <2>0. raced \in BOOLEAN /\ raced' \in BOOLEAN /\ (raced => raced')
    BY StepFollows DEF IInv
  <2>1. CASE raced'
    BY <2>1 DEF Queue!Next
  <2>2. CASE ~ raced'
    <3>1. PICK es : Holds(es)
      BY <2>0, <2>2 DEF IInv
    <3>2. PICK fs : Holds(fs)' /\ QueueStep(Mapped(es, Values), Mapped(fs, Values'))
      BY <2>0, <2>2, <3>1, StepFollows DEF IInv, Follows
    <3>3. Elements = es
      BY <3>1, ElementsAre DEF Holds, WalkMeetsLinked
    <3>4. Elements' = fs
      <4>1. WalkMeetsLinked'
        BY ElementsAre, PTL
      <4> QED
        BY <3>2, <4>1 DEF Holds, WalkMeetsLinked
    <3>5. Orders = Mapped(es, Values) /\ Orders' = Mapped(fs, Values')
      <4>1. es \in Seq(Element) /\ fs \in Seq(Element)
        BY <3>1, <3>2 DEF Holds, Linked
      <4>2. /\ \A i \in DOMAIN es : Values[es[i]] = order[data[es[i]]]
            /\ \A i \in DOMAIN fs : Values'[fs[i]] = order'[data'[fs[i]]]
        BY <4>1 DEF Values, Value
      <4> QED
        BY <3>3, <3>4, <4>2 DEF Orders, Mapped
    <3>6. QueueStep(Orders, Orders')
      BY <3>2, <3>5
    <3>7. \A d : Queue!Sent(d) = Sent(d)
      BY DEF Queue!Sent, Sent
    <3>8. Orders' = Orders \/ Queue!Enter \/ Queue!Reply \/ Queue!Done
      BY <3>6, <3>7 DEF QueueStep, QueueAfter, Queue!Enter, Queue!Reply, Queue!Done
    <3> QED
      BY <2>0, <2>2, <3>8 DEF Queue!Next
  <2> QED
    BY <2>0, <2>1, <2>2
<1> QED
  BY <1>1, <1>2, Invariance, PTL DEF Spec, IsQueue, Queue!Spec
=============================================================================
