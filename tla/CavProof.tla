------------------------------ MODULE CavProof ------------------------------
(***************************************************************************)
(* Proofs about the vehicles, the server and the channel between them.     *)
(***************************************************************************)
EXTENDS Cav, TLAPS, FiniteSetTheorems, WellFoundedInduction

-----------------------------------------------------------------------------
(***************************************************************************)
(* Numbers.  Induction is stated over sets of numbers, as the provers can  *)
(* instantiate a set.                                                      *)
(***************************************************************************)
LEMMA LeastNumber ==
  ASSUME NEW T \in SUBSET Nat, T # {}
  PROVE  Min(T) \in T /\ \A n \in T : Min(T) <= n
  <1> DEFINE R == OpToRel(<, Nat)
  <1>1. IsWellFoundedOn(R, Nat)
    BY NatLessThanWellFounded
  <1>2. \A m, n \in Nat : << n, m >> \in R <=> n < m
    BY DEF OpToRel
  <1> HIDE DEF R
  <1>3. PICK m \in T : \A n \in T : << n, m >> \notin R
    BY <1>1, WFMin
  <1>4. ASSUME NEW n \in T PROVE m <= n
    <2>1. m \in Nat /\ n \in Nat /\ << n, m >> \notin R
      BY <1>3
    <2>2. ~ (n < m)
      BY <1>2, <2>1
    <2> QED
      BY <2>1, <2>2
  <1> QED
    BY <1>3, <1>4 DEF Min

LEMMA Induction ==
  ASSUME NEW S, 0 \in S, \A n \in Nat : n \in S => n + 1 \in S
  PROVE  Nat \subseteq S
  <1> DEFINE T == { n \in Nat : n \notin S }
  <1> SUFFICES ASSUME T # {} PROVE FALSE
    OBVIOUS
  <1>1. PICK m \in T : \A n \in T : m <= n
    BY LeastNumber
  <1>2. m \in Nat /\ m # 0
    BY <1>1
  <1>3. m - 1 \in Nat /\ ~ (m <= m - 1) /\ (m - 1) + 1 = m
    BY <1>2
  <1>4. m - 1 \in S
    BY <1>1, <1>3
  <1> QED
    BY <1>1, <1>3, <1>4

-----------------------------------------------------------------------------
(***************************************************************************)
(* The list while the orders of a reply are appended.                      *)
(***************************************************************************)
LEMMA AppendOrderIs ==
  ASSUME NEW list \in Seq(Nat), NEW order \in Nat
  PROVE  AppendOrder[list][order] =
           IF list # << >> /\ list[Len(list)] = order
           THEN [list EXCEPT ![Len(list)] = Lengthened(order)]
           ELSE Append(list, order)
  BY DEF AppendOrder, Last

LEMMA DurationType == \A order \in Nat : get_order_duration(order) \in Nat
  BY DEF get_order_duration

LEMMA LengthenedType == \A order \in Nat : Lengthened(order) \in Nat
  BY DEF Lengthened, get_order_duration

(* What one order does to the list. *)
LEMMA OneMore ==
  ASSUME NEW list \in Seq(Nat), NEW order \in Nat
  PROVE  LET next == AppendOrder[list][order] IN
           /\ next \in Seq(Nat) /\ next # << >>
           /\ next[Len(next)] \in {order, Lengthened(order)}
           /\ Len(next) \in {Len(list), Len(list) + 1}
           /\ \A i \in 1 .. Len(list) - 1 : next[i] = list[i]
           /\ list = << >> \/ order # list[Len(list)] =>
                /\ Len(next) = Len(list) + 1 /\ next[Len(next)] = order
                /\ \A i \in 1 .. Len(list) : next[i] = list[i]
  <1> DEFINE next == AppendOrder[list][order]
             long == Lengthened(order)
             n    == Len(list)
  <1>0. long \in Nat /\ n \in Nat
    BY LengthenedType
  <1>1. CASE list # << >> /\ list[Len(list)] = order
    <2>1. next = [list EXCEPT ![n] = long]
      BY <1>1, AppendOrderIs
    <2>2. n \in 1 .. n
      BY <1>1
    <2> HIDE DEF next, long
    <2>3. next \in Seq(Nat) /\ Len(next) = n /\ next[n] = long
          /\ \A i \in 1 .. n - 1 : next[i] = list[i]
      BY <2>1, <2>2, <1>0
    <2> QED
      BY <2>2, <2>3, <1>1 DEF long, next
  <1>2. CASE ~ (list # << >> /\ list[Len(list)] = order)
    <2>1. next = Append(list, order)
      BY <1>2, AppendOrderIs
    <2> HIDE DEF next
    <2>2. next \in Seq(Nat) /\ Len(next) = n + 1 /\ next[n + 1] = order
          /\ \A i \in 1 .. n : next[i] = list[i]
      BY <2>1, <1>0
    <2> QED
      BY <2>2, <1>0, <1>2 DEF next
  <1> QED
    BY <1>1, <1>2

(* The list before the first order, after the first, after the second ...  *)
Grows(after, list, orders) ==
  /\ after[0] = list
  /\ \A i \in 1 .. Len(orders) : after[i] = AppendOrder[after[i - 1]][orders[i]]

LEMMA Appending ==
  ASSUME NEW list \in Seq(Nat), NEW orders \in Seq(Nat)
  PROVE  \E after :
           Grows(after, list, orders) /\ Appended(list, orders) = after[Len(orders)]
  <1> DEFINE StepOf(f, i) == IF i = 0 THEN list ELSE AppendOrder[f[i - 1]][orders[i]]
             S == { k \in Nat : \E f : f = [i \in 0 .. k |-> StepOf(f, i)] }
  <1>1. 0 \in S
    <2> DEFINE f == [i \in 0 .. 0 |-> list]
    <2>1. f = [i \in 0 .. 0 |-> StepOf(f, i)]
      OBVIOUS
    <2> QED
      BY <2>1
  <1>2. ASSUME NEW k \in Nat, k \in S PROVE k + 1 \in S
    <2>1. PICK f : f = [i \in 0 .. k |-> StepOf(f, i)]
      BY <1>2
    <2> DEFINE g == [i \in 0 .. k + 1 |-> IF i = k + 1 THEN StepOf(f, k + 1) ELSE f[i]]
    <2>2. ASSUME NEW i \in 0 .. k + 1 PROVE g[i] = StepOf(g, i)
      <3>1. CASE i = 0
        BY <2>1, <3>1
      <3>2. CASE i # 0
        <4>1. i - 1 \in 0 .. k /\ i - 1 # k + 1 /\ i - 1 \in 0 .. k + 1
          BY <3>2
        <4>2. g[i - 1] = f[i - 1]
          BY <4>1
        <4>3. CASE i = k + 1
          BY <4>2, <4>3, <3>2
        <4>4. CASE i # k + 1
          <5>1. i \in 0 .. k
            BY <4>4
          <5>2. f[i] = StepOf(f, i)
            BY <2>1, <5>1
          <5> QED
            BY <4>2, <4>4, <5>2, <3>2
        <4> QED
          BY <4>3, <4>4
      <3> QED
        BY <3>1, <3>2
    <2>3. g = [i \in 0 .. k + 1 |-> StepOf(g, i)]
      <3> HIDE DEF StepOf
      <3>1. DOMAIN g = 0 .. k + 1 /\ g = [i \in DOMAIN g |-> g[i]]
        OBVIOUS
      <3> HIDE DEF g
      <3> QED
        BY <3>1, <2>2
    <2> HIDE DEF g, StepOf
    <2> QED
      BY <2>3
  <1>3. Nat \subseteq S
    <2> HIDE DEF S
    <2> QED
      BY <1>1, <1>2, Induction
  <1>4. Len(orders) \in Nat
    OBVIOUS
  <1> DEFINE after == CHOOSE f : f = [i \in 0 .. Len(orders) |-> StepOf(f, i)]
  <1>5. after = [i \in 0 .. Len(orders) |-> StepOf(after, i)]
    BY <1>3, <1>4
  <1>6. Appended(list, orders) = after[Len(orders)]
    BY DEF Appended
  <1>7. Grows(after, list, orders)
    <2> HIDE DEF after
    <2>1. after[0] = list
      BY <1>4, <1>5
    <2>2. ASSUME NEW i \in 1 .. Len(orders)
          PROVE  after[i] = AppendOrder[after[i - 1]][orders[i]]
      <3>1. i \in 0 .. Len(orders) /\ i # 0
        BY <1>4
      <3>2. after[i] = StepOf(after, i)
        BY <1>5, <3>1
      <3> QED
        BY <3>1, <3>2
    <2> QED
      BY <2>1, <2>2 DEF Grows
  <1> QED
    BY <1>6, <1>7

(* Where the first order differs from the last of the list, nothing of the *)
(* list changes.                                                           *)
New(list, orders) == list = << >> \/ orders = << >> \/ orders[1] # list[Len(list)]

(* What the list is after i orders. *)
Kept(next, list, orders, i) ==
  /\ next \in Seq(Nat)
  /\ i = 0 => next = list
  /\ i > 0 => next # << >> /\ next[Len(next)] \in {orders[i], Lengthened(orders[i])}
  /\ New(list, orders) => /\ Len(next) >= Len(list) + (IF i = 0 THEN 0 ELSE 1)
                          /\ \A j \in 1 .. Len(list) : next[j] = list[j]

LEMMA OneMoreKeeps ==
  ASSUME NEW list \in Seq(Nat), NEW orders \in Seq(Nat), NEW before, NEW i \in Nat,
         i + 1 <= Len(orders), Kept(before, list, orders, i)
  PROVE  Kept(AppendOrder[before][orders[i + 1]], list, orders, i + 1)
  <1> DEFINE order == orders[i + 1]
             next  == AppendOrder[before][order]
  <1>1. order \in Nat /\ before \in Seq(Nat)
    BY DEF Kept
  <1>2. /\ next \in Seq(Nat) /\ next # << >>
        /\ next[Len(next)] \in {order, Lengthened(order)}
        /\ Len(next) \in {Len(before), Len(before) + 1}
        /\ \A j \in 1 .. Len(before) - 1 : next[j] = before[j]
        /\ before = << >> \/ order # before[Len(before)] =>
             /\ Len(next) = Len(before) + 1
             /\ \A j \in 1 .. Len(before) : next[j] = before[j]
    BY <1>1, OneMore
  <1>3. Len(before) \in Nat /\ Len(list) \in Nat
    BY <1>1
  <1>4. ASSUME New(list, orders)
        PROVE  /\ Len(next) >= Len(list) + 1
               /\ \A j \in 1 .. Len(list) : next[j] = list[j]
    <2>1. /\ Len(before) >= Len(list) + (IF i = 0 THEN 0 ELSE 1)
          /\ \A j \in 1 .. Len(list) : before[j] = list[j]
      BY <1>4 DEF Kept
    <2> HIDE DEF next
    <2>2. CASE before = << >> \/ order # before[Len(before)]
      BY <1>2, <1>3, <2>1, <2>2
    <2>3. CASE before # << >> /\ order = before[Len(before)]
      <3>1. i # 0
        <4> SUFFICES ASSUME i = 0 PROVE FALSE
          OBVIOUS
        <4>1. before = list
          BY DEF Kept
        <4> QED
          BY <4>1, <2>3, <1>4 DEF New
      <3> QED
        BY <1>2, <1>3, <2>1, <3>1
    <2> QED
      BY <2>2, <2>3
  <1>5. Len(list) + (IF i + 1 = 0 THEN 0 ELSE 1) = Len(list) + 1 /\ i + 1 # 0
    BY <1>3
  <1> HIDE DEF next, order
  <1>6. Kept(next, list, orders, i + 1)
    BY <1>2, <1>4, <1>5 DEF Kept, order
  <1> QED
    BY <1>6 DEF next, order

LEMMA GrowsKeeps ==
  ASSUME NEW list \in Seq(Nat), NEW orders \in Seq(Nat), NEW after,
         Grows(after, list, orders)
  PROVE  \A i \in 0 .. Len(orders) : Kept(after[i], list, orders, i)
  <1> DEFINE S == { i \in Nat : i <= Len(orders) => Kept(after[i], list, orders, i) }
  <1>0. Len(orders) \in Nat /\ Len(list) \in Nat
    OBVIOUS
  <1>1. 0 \in S
    BY <1>0 DEF Grows, Kept
  <1>2. ASSUME NEW i \in Nat, i \in S PROVE i + 1 \in S
    <2> SUFFICES ASSUME i + 1 <= Len(orders) PROVE Kept(after[i + 1], list, orders, i + 1)
      OBVIOUS
    <2>1. i + 1 \in 1 .. Len(orders) /\ (i + 1) - 1 = i /\ i <= Len(orders)
      BY <1>0
    <2>2. Kept(after[i], list, orders, i)
      BY <1>2, <2>1
    <2>3. after[i + 1] = AppendOrder[after[i]][orders[i + 1]]
      BY <2>1 DEF Grows
    <2> QED
      BY <2>1, <2>2, <2>3, OneMoreKeeps
  <1>3. Nat \subseteq S
    <2> HIDE DEF S
    <2> QED
      BY <1>1, <1>2, Induction
  <1> QED
    BY <1>3, <1>0

(* Each order makes the list longer or lengthens the order before it, if   *)
(* no order is the one before it, lengthened.                              *)
Grown(after, list, orders, i) ==
  \/ /\ after[i][Len(after[i])] = orders[i]
     /\ 2 * (Len(after[i]) - Len(list)) >= i + 1
  \/ /\ after[i][Len(after[i])] = Lengthened(orders[i])
     /\ 2 * (Len(after[i]) - Len(list)) >= i

LEMMA OneMoreGrows ==
  ASSUME NEW list \in Seq(Nat), NEW orders \in Seq(Nat), NEW after,
         Grows(after, list, orders), NEW k \in 1 .. Len(orders), k + 1 <= Len(orders),
         orders[k + 1] # Lengthened(orders[k]), Grown(after, list, orders, k)
  PROVE  Grown(after, list, orders, k + 1)
  <1>0. Len(orders) \in Nat /\ Len(list) \in Nat /\ k \in Nat
    OBVIOUS
  <1>1. k \in 0 .. Len(orders) /\ k # 0 /\ k + 1 \in 1 .. Len(orders) /\ (k + 1) - 1 = k
    BY <1>0
  <1>2. Kept(after[k], list, orders, k)
    BY <1>1, GrowsKeeps
  <1> DEFINE before == after[k]
             next   == after[k + 1]
             order  == orders[k + 1]
  <1>3. before \in Seq(Nat) /\ before # << >> /\ order \in Nat
    BY <1>0, <1>1, <1>2 DEF Kept
  <1>4. next = AppendOrder[before][order]
    BY <1>1 DEF Grows
  <1>5. Len(before) \in Nat /\ Len(before) \in 1 .. Len(before)
    BY <1>3
  <1>6. CASE order # before[Len(before)]
    <2>1. Len(next) = Len(before) + 1 /\ next[Len(next)] = order
      <3> HIDE DEF before, next, order
      <3> QED
        BY <1>3, <1>4, <1>6, OneMore
    <2>2. 2 * (Len(before) - Len(list)) >= k
      BY <1>0, <1>5 DEF Grown
    <2>3. 2 * (Len(next) - Len(list)) >= (k + 1) + 1
      BY <2>1, <2>2, <1>0, <1>5
    <2> QED
      BY <2>1, <2>3 DEF Grown
  <1>7. CASE order = before[Len(before)]
    <2>1. 2 * (Len(before) - Len(list)) >= k + 1
      BY <1>7 DEF Grown
    <2>2. next = [before EXCEPT ![Len(before)] = Lengthened(order)]
      BY <1>3, <1>4, <1>7, AppendOrderIs
    <2> HIDE DEF before, next, order
    <2>3. Lengthened(order) \in Nat
      BY <1>3, LengthenedType
    <2>4. Len(next) = Len(before) /\ next[Len(next)] = Lengthened(order)
      BY <2>2, <2>3, <1>3, <1>5
    <2> QED
      BY <2>1, <2>4 DEF Grown, before, next, order
  <1> QED
    BY <1>6, <1>7

LEMMA GrowsGrown ==
  ASSUME NEW list \in Seq(Nat), NEW orders \in Seq(Nat), NEW after,
         Grows(after, list, orders), New(list, orders), NEW m \in 1 .. Len(orders),
         \A j \in 1 .. m - 1 : orders[j + 1] # Lengthened(orders[j])
  PROVE  Grown(after, list, orders, m)
  <1> DEFINE S == { i \in Nat : i + 1 <= m => Grown(after, list, orders, i + 1) }
  <1>0. Len(list) \in Nat /\ m \in Nat /\ Len(orders) \in Nat /\ m <= Len(orders)
    OBVIOUS
  <1>1. 0 \in S
    <2>1. after[1] = AppendOrder[list][orders[1]] /\ orders[1] \in Nat
      BY <1>0 DEF Grows
    <2>2. list = << >> \/ orders[1] # list[Len(list)]
      BY <1>0 DEF New
    <2>3. Len(after[1]) = Len(list) + 1 /\ after[1][Len(after[1])] = orders[1]
      BY <2>1, <2>2, OneMore
    <2> QED
      BY <2>3, <1>0 DEF Grown
  <1>2. ASSUME NEW i \in Nat, i \in S PROVE i + 1 \in S
    <2> DEFINE k == i + 1
    <2> SUFFICES ASSUME k + 1 <= m PROVE Grown(after, list, orders, k + 1)
      OBVIOUS
    <2>1. k \in 1 .. m - 1 /\ k \in 1 .. Len(orders) /\ k + 1 <= Len(orders)
      BY <1>0
    <2>2. Grown(after, list, orders, k)
      BY <1>2, <2>1
    <2>3. orders[k + 1] # Lengthened(orders[k])
      BY <2>1
    <2> HIDE DEF k
    <2> QED
      BY <2>1, <2>2, <2>3, OneMoreGrows
  <1>3. Nat \subseteq S
    <2> HIDE DEF S
    <2> QED
      BY <1>1, <1>2, Induction
  <1>4. m - 1 \in Nat /\ (m - 1) + 1 = m /\ m <= m
    BY <1>0
  <1>5. m - 1 \in S
    BY <1>3, <1>4
  <1> QED
    BY <1>4, <1>5

(* What the handler leaves in the list. *)
LEMMA AppendedKeeps ==
  ASSUME NEW list \in Seq(Nat), NEW orders \in Seq(Nat)
  PROVE  Kept(Appended(list, orders), list, orders, Len(orders))
  <1>1. PICK after : Grows(after, list, orders) /\ Appended(list, orders) = after[Len(orders)]
    BY Appending
  <1>2. Len(orders) \in 0 .. Len(orders)
    OBVIOUS
  <1> QED
    BY <1>1, <1>2, GrowsKeeps

LEMMA AppendedType ==
  ASSUME NEW list \in Seq(Nat), NEW orders \in Seq(Nat)
  PROVE  Appended(list, orders) \in Seq(Nat)
  BY AppendedKeeps DEF Kept

LEMMA AppendingLonger ==
  ASSUME NEW list \in Seq(Nat), NEW orders \in Seq(Nat), NEW after,
         Grows(after, list, orders), NEW m \in 0 .. Len(orders)
  PROVE  \A i \in m .. Len(orders) : Len(after[i]) >= Len(after[m])
  <1> DEFINE S == { k \in Nat : m + k <= Len(orders) => Len(after[m + k]) >= Len(after[m]) }
  <1>0. m \in Nat /\ Len(orders) \in Nat
    OBVIOUS
  <1>a. \A i \in 0 .. Len(orders) : after[i] \in Seq(Nat)
    BY GrowsKeeps DEF Kept
  <1>b. \A i \in 0 .. Len(orders) : Len(after[i]) \in Nat
    BY <1>a
  <1>1. 0 \in S
    BY <1>0, <1>b
  <1>2. ASSUME NEW k \in Nat, k \in S PROVE k + 1 \in S
    <2> SUFFICES ASSUME m + (k + 1) <= Len(orders)
                 PROVE  Len(after[m + (k + 1)]) >= Len(after[m])
      OBVIOUS
    <2> DEFINE i == m + k
    <2>1. m + (k + 1) = i + 1 /\ i + 1 \in 1 .. Len(orders) /\ (i + 1) - 1 = i
          /\ i \in 0 .. Len(orders) /\ i + 1 \in 0 .. Len(orders)
      BY <1>0
    <2>2. Len(after[i]) >= Len(after[m])
      BY <1>2, <2>1
    <2>3. after[i + 1] = AppendOrder[after[i]][orders[i + 1]]
      BY <2>1 DEF Grows
    <2>4. after[i] \in Seq(Nat) /\ orders[i + 1] \in Nat
      BY <1>a, <2>1
    <2>5. Len(after[i + 1]) \in {Len(after[i]), Len(after[i]) + 1}
      BY <2>3, <2>4, OneMore
    <2>6. Len(after[i + 1]) \in Nat /\ Len(after[i]) \in Nat /\ Len(after[m]) \in Nat
      BY <1>b, <2>1
    <2>7. Len(after[i + 1]) >= Len(after[m])
      <3> HIDE DEF i
      <3> QED
        BY <2>2, <2>5, <2>6
    <2> QED
      BY <2>1, <2>7
  <1>3. Nat \subseteq S
    <2> HIDE DEF S
    <2> QED
      BY <1>1, <1>2, Induction
  <1>4. ASSUME NEW i \in m .. Len(orders) PROVE Len(after[i]) >= Len(after[m])
    <2>1. i - m \in Nat /\ m + (i - m) = i /\ i <= Len(orders)
      BY <1>0
    <2>2. i - m \in S
      BY <1>3, <2>1
    <2> QED
      BY <2>1, <2>2
  <1> QED
    BY <1>4

LEMMA AppendedGrows ==
  ASSUME NEW list \in Seq(Nat), NEW orders \in Seq(Nat), New(list, orders),
         NEW m \in 1 .. Len(orders),
         \A j \in 1 .. m - 1 : orders[j + 1] # Lengthened(orders[j])
  PROVE  2 * (Len(Appended(list, orders)) - Len(list)) >= m
  <1>1. PICK after : Grows(after, list, orders) /\ Appended(list, orders) = after[Len(orders)]
    BY Appending
  <1>2. Grown(after, list, orders, m)
    BY <1>1, GrowsGrown
  <1>3. m \in 0 .. Len(orders) /\ Len(orders) \in m .. Len(orders) /\ Len(orders) \in Nat
    OBVIOUS
  <1>4. Len(after[Len(orders)]) >= Len(after[m])
    BY <1>1, <1>3, AppendingLonger
  <1>5. after[m] \in Seq(Nat) /\ after[Len(orders)] \in Seq(Nat)
    BY <1>1, <1>3, GrowsKeeps DEF Kept
  <1>6. Len(after[m]) \in Nat /\ Len(after[Len(orders)]) \in Nat /\ Len(list) \in Nat /\ m \in Nat
    BY <1>5
  <1>7. 2 * (Len(after[m]) - Len(list)) >= m
    BY <1>2, <1>6 DEF Grown
  <1> QED
    BY <1>1, <1>4, <1>6, <1>7

-----------------------------------------------------------------------------
(***************************************************************************)
(* The time of all orders but the last is a number.                        *)
(***************************************************************************)
(* The sums up to the order k, from 0 on. *)
Sums(f, list, k) ==
  /\ f \in [1 .. k + 1 -> Nat] /\ f[1] = 0
  /\ \A i \in 1 .. k : f[i + 1] = f[i] + get_order_duration(list[i])

LEMMA SumsExist ==
  ASSUME NEW list \in Seq(Nat)
  PROVE  \E f : Sums(f, list, Len(list))
  <1> DEFINE S == { k \in Nat : k <= Len(list) => \E f : Sums(f, list, k) }
  <1>0. Len(list) \in Nat
    OBVIOUS
  <1>1. 0 \in S
    <2> DEFINE f == [i \in 1 .. 0 + 1 |-> 0]
    <2>1. Sums(f, list, 0)
      BY DEF Sums
    <2> QED
      BY <2>1
  <1>2. ASSUME NEW k \in Nat, k \in S PROVE k + 1 \in S
    <2> SUFFICES ASSUME k + 1 <= Len(list) PROVE \E f : Sums(f, list, k + 1)
      OBVIOUS
    <2>1. PICK f : Sums(f, list, k)
      BY <1>2, <1>0
    <2> DEFINE more == f[k + 1] + get_order_duration(list[k + 1])
               g == [i \in 1 .. (k + 1) + 1 |-> IF i = k + 2 THEN more ELSE f[i]]
    <2>2. more \in Nat
      <3>1. list[k + 1] \in Nat
        BY <1>0
      <3>2. get_order_duration(list[k + 1]) \in Nat
        BY <3>1, DurationType
      <3> QED
        BY <2>1, <3>2 DEF Sums
    <2>3. g \in [1 .. (k + 1) + 1 -> Nat] /\ g[1] = 0
      <3> HIDE DEF more
      <3> QED
        BY <2>1, <2>2 DEF Sums
    <2>4. ASSUME NEW i \in 1 .. k + 1 PROVE g[i + 1] = g[i] + get_order_duration(list[i])
      <3>1. g[i] = f[i] /\ i \in Nat
        OBVIOUS
      <3>2. CASE i = k + 1
        <4>1. g[i + 1] = more
          BY <3>2
        <4> QED
          BY <3>1, <3>2, <4>1
      <3>3. CASE i # k + 1
        <4>1. g[i + 1] = f[i + 1]
          BY <3>3
        <4>2. i \in 1 .. k
          BY <3>3
        <4> HIDE DEF g
        <4> QED
          BY <2>1, <3>1, <4>1, <4>2 DEF Sums
      <3> QED
        BY <3>2, <3>3
    <2> HIDE DEF g
    <2>5. Sums(g, list, k + 1)
      BY <2>3, <2>4 DEF Sums
    <2> QED
      BY <2>5
  <1>3. Nat \subseteq S
    <2> HIDE DEF S
    <2> QED
      BY <1>1, <1>2, Induction
  <1> QED
    BY <1>0, <1>3

LEMMA DelayType ==
  ASSUME NEW list \in Seq(Nat)
  PROVE  calculate_departure_delay_s(list) \in Nat
  <1> DEFINE n == Len(list)
             StepOf(f, i) == IF i = 1 THEN 0 ELSE f[i - 1] + get_order_duration(list[i - 1])
             Def(f) == f = [i \in 1 .. n + 1 |-> StepOf(f, i)]
             before == CHOOSE f : Def(f)
  <1>0. n \in Nat
    OBVIOUS
  <1>1. PICK f : Sums(f, list, n)
    BY SumsExist
  <1>2. ASSUME NEW i \in 1 .. n + 1 PROVE f[i] = StepOf(f, i)
    <2>1. CASE i = 1
      BY <1>1, <2>1 DEF Sums
    <2>2. CASE i # 1
      <3>1. i - 1 \in 1 .. n /\ (i - 1) + 1 = i
        BY <1>0, <2>2
      <3> QED
        BY <1>1, <2>2, <3>1 DEF Sums
    <2> QED
      BY <2>1, <2>2
  <1>3. f = [i \in 1 .. n + 1 |-> f[i]]
    BY <1>1 DEF Sums
  <1>4. Def(f)
    <2> HIDE DEF StepOf
    <2> QED
      BY <1>2, <1>3
  <1>5. Def(before)
    <2> HIDE DEF Def
    <2> QED
      BY <1>4
  <1>6. calculate_departure_delay_s(list) = before[IF list = << >> THEN 1 ELSE n]
    BY DEF calculate_departure_delay_s
  <1>7. \A i \in 1 .. n + 1 : before[i] = StepOf(before, i)
    <2> HIDE DEF before, StepOf
    <2> QED
      BY <1>5
  <1> HIDE DEF before, Def
  <1> DEFINE T == { k \in Nat : k <= n => before[k + 1] \in Nat }
  <1>9. Nat \subseteq T
    <2>1. 0 \in T
      <3>1. before[1] = 0
        BY <1>0, <1>7
      <3> QED
        BY <3>1
    <2>2. ASSUME NEW k \in Nat, k \in T PROVE k + 1 \in T
      <3> SUFFICES ASSUME k + 1 <= n PROVE before[k + 2] \in Nat
        OBVIOUS
      <3>1. k + 2 \in 1 .. n + 1 /\ k + 2 # 1 /\ (k + 2) - 1 = k + 1 /\ k <= n
        BY <1>0
      <3>2. before[k + 2] = before[k + 1] + get_order_duration(list[k + 1])
        BY <1>7, <3>1
      <3>3. before[k + 1] \in Nat
        BY <2>2, <3>1
      <3>4. list[k + 1] \in Nat
        BY <1>0
      <3>5. get_order_duration(list[k + 1]) \in Nat
        BY <3>4, DurationType
      <3> QED
        BY <3>2, <3>3, <3>5
    <2> HIDE DEF T
    <2> QED
      BY <2>1, <2>2, Induction
  <1>10. CASE list = << >>
    <2>1. 0 \in T
      BY <1>9
    <2> QED
      BY <1>6, <1>10, <2>1, <1>0
  <1>11. CASE list # << >>
    <2>1. n - 1 \in Nat /\ (n - 1) + 1 = n /\ n - 1 <= n
      BY <1>11, <1>0
    <2>2. n - 1 \in T
      BY <1>9, <2>1
    <2> QED
      BY <1>6, <1>11, <2>1, <2>2
  <1> QED
    BY <1>10, <1>11

-----------------------------------------------------------------------------
(***************************************************************************)
(* Packets.                                                                *)
(***************************************************************************)
Bytes == [1 .. PacketLength -> Nat]

LEMMA OverwriteIs ==
  ASSUME NEW p \in Bytes, NEW bytes \in Seq(Nat), Len(bytes) <= PacketLength
  PROVE  /\ Overwrite(p, bytes) \in Bytes
         /\ \A i \in 1 .. PacketLength :
              Overwrite(p, bytes)[i] = IF i <= Len(bytes) THEN bytes[i] ELSE p[i]
  <1> DEFINE n == Len(bytes)
             rest == SubSeq(p, n + 1, PacketLength)
             q == bytes \o rest
  <1>1. PacketLength \in Nat /\ n \in Nat
    BY PacketAssumption
  <1>2. p \in Seq(Nat) /\ Len(p) = PacketLength
    BY <1>1 DEF Bytes
  <1>3. rest \in Seq(Nat) /\ Len(rest) = PacketLength - n
        /\ \A i \in 1 .. PacketLength - n : rest[i] = p[n + i]
    BY <1>1, <1>2
  <1> HIDE DEF rest
  <1>4. q \in Seq(Nat) /\ Len(q) = PacketLength
    BY <1>1, <1>3
  <1>5. ASSUME NEW i \in 1 .. PacketLength PROVE q[i] = IF i <= n THEN bytes[i] ELSE p[i]
    <2>1. CASE i <= n
      BY <1>1, <1>3, <2>1
    <2>2. CASE ~ (i <= n)
      <3>1. i - n \in 1 .. PacketLength - n /\ n + (i - n) = i
        BY <1>1, <2>2
      <3>2. q[i] = rest[i - n]
        BY <1>1, <1>3, <2>2
      <3> QED
        BY <1>3, <2>2, <3>1, <3>2
    <2> QED
      BY <2>1, <2>2
  <1>6. Overwrite(p, bytes) = q
    BY DEF Overwrite, rest
  <1> HIDE DEF q
  <1>7. q \in Bytes
    BY <1>4 DEF Bytes
  <1> QED
    BY <1>5, <1>6, <1>7

(* The orders are the bytes before the first 0. *)
LEMMA OrdersInIs ==
  ASSUME NEW p \in Bytes
  PROVE  /\ OrdersIn(p) \in Seq(Nat)
         /\ \A m \in 0 .. PacketLength :
              /\ \A i \in 1 .. m : p[i] # 0
              /\ \A i \in m + 1 .. PacketLength : p[i] = 0
              => Len(OrdersIn(p)) = m /\ \A i \in 1 .. m : OrdersIn(p)[i] = p[i]
  <1> DEFINE Z == { i \in DOMAIN p : p[i] = 0 } \cup {PacketLength + 1}
             z == Min(Z)
  <1>1. PacketLength \in Nat
    BY PacketAssumption
  <1>2. DOMAIN p = 1 .. PacketLength /\ p \in Seq(Nat) /\ Len(p) = PacketLength
    BY <1>1 DEF Bytes
  <1>3. Z \subseteq 1 .. PacketLength + 1 /\ Z # {} /\ Z \in SUBSET Nat
    BY <1>1, <1>2
  <1>4. z \in Z /\ \A i \in Z : z <= i
    <2> HIDE DEF Z
    <2> QED
      BY <1>3, LeastNumber
  <1>5. OrdersIn(p) = SubSeq(p, 1, z - 1)
    BY DEF OrdersIn
  <1>6. z \in 1 .. PacketLength + 1
    BY <1>3, <1>4
  <1>7. ASSUME NEW m \in 0 .. PacketLength,
               \A i \in 1 .. m : p[i] # 0, \A i \in m + 1 .. PacketLength : p[i] = 0
        PROVE  z = m + 1
    <2>1. m + 1 \in Z
      BY <1>1, <1>2, <1>7
    <2>2. \A i \in Z : i >= m + 1
      BY <1>1, <1>2, <1>7
    <2> HIDE DEF Z, z
    <2> QED
      BY <1>4, <1>6, <2>1, <2>2, <1>1
  <1> HIDE DEF z
  <1>8. OrdersIn(p) \in Seq(Nat) /\ Len(OrdersIn(p)) = z - 1
        /\ \A i \in 1 .. z - 1 : OrdersIn(p)[i] = p[i]
    BY <1>1, <1>2, <1>5, <1>6
  <1>9. ASSUME NEW m \in 0 .. PacketLength,
               \A i \in 1 .. m : p[i] # 0, \A i \in m + 1 .. PacketLength : p[i] = 0
        PROVE  Len(OrdersIn(p)) = m /\ \A i \in 1 .. m : OrdersIn(p)[i] = p[i]
    <2>1. z - 1 = m
      BY <1>7, <1>9, <1>1
    <2> QED
      BY <1>8, <2>1
  <1> QED
    BY <1>8, <1>9

-----------------------------------------------------------------------------
(***************************************************************************)
(* Types.  A reply fits the packet whatever trip is asked for.             *)
(***************************************************************************)
RoutesFit ==
  \A start, goal \in Nat : \A orders \in Routes(start, goal) :
    orders \in Seq(Nat) /\ Len(orders) <= PacketLength

Drives ==
  [pc : {"ask", "asked", "asking", "sleep", "loop", "check", "get", "follow", "shift"},
   order_list : Seq(Nat), order : Nat, sent_flag : BOOLEAN,
   last_count : Nat, previous : Nat, current : Nat, trips : Nat]

Links ==
  [radio : {"disabled", "txidle", "rx", "rxidle"}, end : BOOLEAN, enabled : BOOLEAN,
   packet : Bytes, txaddress : Nat, task_id : Int, origin : Car]

Tasks == [Task -> {"none", "start", "sent", "listening", "woken", "dormant"}]

CarsTyped == drive \in [Car -> Drives] /\ link \in [Car -> Links] /\ task \in [Car -> Tasks]

ServerTyped ==
  /\ state \in {"disabled", "rxru", "rxidle", "rx", "txru", "txidle", "tx", "txdisable"}
  /\ event \subseteq {"READY", "END", "DISABLED"}
  /\ rxmatch \in Nat /\ buffer \in Bytes /\ current_id \in Nat
  /\ asker \in Car

Typed == CarsTyped /\ ServerTyped

LEMMA Positions == \A x, y \in Nat : POS(x, y) \in Nat
  BY DEF POS

LEMMA NoPacketType == NoPacket \in Bytes
  BY DEF NoPacket, Bytes

LEMMA InitTyped == Init => Typed
  <1> SUFFICES ASSUME Init PROVE Typed
    OBVIOUS
  <1>1. << >> \in Seq(Nat) /\ POS(0, 0) \in Nat /\ NULL \in Nat /\ NoPacket \in Bytes
    BY NoPacketType DEF POS, NULL
  <1>2. drive \in [Car -> Drives]
    BY <1>1 DEF Init, VehicleInit, Drives
  <1>3. link \in [Car -> Links]
    BY <1>1 DEF Init, VehicleInit, Links
  <1>4. task \in [Car -> Tasks]
    BY DEF Init, VehicleInit, Tasks
  <1>5. ServerTyped
    BY <1>1, CavAssumption DEF Init, ServerInit, ServerTyped
  <1> QED
    BY <1>2, <1>3, <1>4, <1>5 DEF Typed, CarsTyped

LEMMA NextTripType == ASSUME NEW d \in Drives PROVE NextTrip(d) \in Drives
  <1> DEFINE goal == IF d.current = POS(4, 0) THEN POS(0, 4) ELSE POS(4, 0)
  <1>0. POS(0, 4) \in Nat /\ POS(4, 0) \in Nat
    BY Positions
  <1>1. goal \in Nat /\ d.current \in Nat /\ d.trips + 1 \in Nat
    BY <1>0 DEF Drives
  <1>2. NextTrip(d) = [d EXCEPT !.previous = d.current, !.current = goal, !.trips = d.trips + 1]
    BY DEF NextTrip
  <1> HIDE DEF goal
  <1> QED
    BY <1>1, <1>2 DEF Drives

LEMMA RequestType ==
  ASSUME NEW p \in Bytes, NEW delay \in Nat, NEW d \in Drives
  PROVE  Overwrite(p, << delay, d.previous, d.current >>) \in Bytes
  <1>1. << delay, d.previous, d.current >> \in Seq(Nat)
        /\ Len(<< delay, d.previous, d.current >>) = 3
    BY DEF Drives
  <1> QED
    BY <1>1, OverwriteIs, PacketAssumption

LEMMA FreeTaskIs ==
  ASSUME NEW c \in Car, FreeTasks(c) # {}
  PROVE  Min(FreeTasks(c)) \in FreeTasks(c) /\ Min(FreeTasks(c)) \in Task
  <1>1. FreeTasks(c) \in SUBSET Nat /\ FreeTasks(c) \subseteq Task
    BY VehicleAssumption DEF FreeTasks, Task
  <1> QED
    BY <1>1, LeastNumber

LEMMA ReserveType ==
  ASSUME CarsTyped, NEW c \in Car, NEW d \in Drives, NEW l \in Links, NEW delay \in Nat,
         reserve_order(c, d, l, delay)
  PROVE  CarsTyped'
  <1> DEFINE n == NextTrip(d)
             t == IF FreeTasks(c) = {} THEN E_LIMIT ELSE Min(FreeTasks(c))
             p == Overwrite(l.packet, << delay, n.previous, n.current >>)
             k == [l EXCEPT !.packet = p, !.task_id = t]
  <1>1. n \in Drives
    BY NextTripType
  <1>2. p \in Bytes
    BY <1>1, RequestType DEF Links
  <1>3. t \in Int /\ (t # E_LIMIT => t \in Task)
    BY FreeTaskIs, VehicleAssumption DEF E_LIMIT, Task
  <1>4. /\ drive' = [drive EXCEPT ![c] = n] /\ link' = [link EXCEPT ![c] = k]
        /\ task' = IF t = E_LIMIT THEN task ELSE [task EXCEPT ![c][t] = "start"]
    BY DEF reserve_order
  <1> HIDE DEF n, t, p
  <1>5. k \in Links
    BY <1>2, <1>3 DEF Links
  <1> HIDE DEF k
  <1>6. drive' \in [Car -> Drives] /\ link' \in [Car -> Links]
    BY <1>1, <1>4, <1>5 DEF CarsTyped
  <1>7. task' \in [Car -> Tasks]
    BY <1>3, <1>4 DEF CarsTyped, Tasks
  <1> QED
    BY <1>6, <1>7 DEF CarsTyped

LEMMA HandlerType ==
  ASSUME CarsTyped, NEW c \in Car, receive_interrupt_handler(c)
  PROVE  CarsTyped'
  <1> DEFINE l == link[c]
             list == Appended(drive[c].order_list, OrdersIn(l.packet))
  <1>1. l \in Links /\ drive[c] \in Drives
    BY DEF CarsTyped
  <1>2. list \in Seq(Nat)
    BY <1>1, OrdersInIs, AppendedType DEF Links, Drives
  <1>3. /\ link' = [link EXCEPT ![c].end = FALSE, ![c].radio = "disabled", ![c].enabled = FALSE]
        /\ task' = IF l.task_id = E_LIMIT THEN task ELSE [task EXCEPT ![c][l.task_id] = "dormant"]
        /\ drive' = [drive EXCEPT ![c].order_list = list]
    BY DEF receive_interrupt_handler
  <1> HIDE DEF list, l
  <1>4. drive' \in [Car -> Drives]
    BY <1>2, <1>3 DEF CarsTyped, Drives
  <1>5. link' \in [Car -> Links]
    <2> DEFINE k == [link[c] EXCEPT !.end = FALSE, !.radio = "disabled", !.enabled = FALSE]
    <2>1. k \in Links
      BY <1>1 DEF Links, l
    <2>2. link' = [link EXCEPT ![c] = k]
      BY <1>3
    <2> HIDE DEF k
    <2> QED
      BY <2>1, <2>2 DEF CarsTyped
  <1>6. task' \in [Car -> Tasks]
    BY <1>3 DEF CarsTyped, Tasks
  <1> QED
    BY <1>4, <1>5, <1>6 DEF CarsTyped

LEMMA ShiftedType ==
  ASSUME NEW list \in Seq(Nat)
  PROVE  (IF list = << >> THEN list ELSE Tail(list)) \in Seq(Nat)
  OBVIOUS

LEMMA EnteredType ==
  ASSUME NEW list \in Seq(Nat)
  PROVE  << ORDER(MOVE_FORWARD, GRID_MOVE_TIME) >> \o list \in Seq(Nat)
  <1>1. ORDER(MOVE_FORWARD, GRID_MOVE_TIME) \in Nat
    BY DEF ORDER, MOVE_FORWARD, GRID_MOVE_TIME
  <1>2. << ORDER(MOVE_FORWARD, GRID_MOVE_TIME) >> \in Seq(Nat)
    BY <1>1
  <1> QED
    BY <1>2

LEMMA CarAloneType ==
  ASSUME CarsTyped, NEW c \in Car, CarAlone(c)
  PROVE  CarsTyped'
  <1> USE DEF CarsTyped
  <1>0. drive[c] \in Drives /\ link[c] \in Links /\ drive[c].order_list \in Seq(Nat)
    BY DEF Drives
  <1>1. CASE AskListen(c)
    <2> DEFINE k == [link[c] EXCEPT !.radio = "rx", !.end = FALSE]
               d == [drive[c] EXCEPT !.pc = "asking"]
    <2>1. k \in Links /\ d \in Drives
      BY <1>0 DEF Links, Drives
    <2>2. link' = [link EXCEPT ![c] = k] /\ drive' = [drive EXCEPT ![c] = d] /\ task' = task
      BY <1>1 DEF AskListen, StartListening
    <2> HIDE DEF k, d
    <2> QED
      BY <2>1, <2>2
  <1>2. CASE Adopt(c)
    <2> DEFINE l == [link[c] EXCEPT !.end = FALSE, !.txaddress = link[c].packet[1]]
               d == [drive[c] EXCEPT !.pc = "sleep"]
    <2>1. link[c].packet \in Bytes /\ link[c].packet[1] \in Nat /\ link[c].packet[2] \in Nat
      BY <1>0, PacketAssumption DEF Links, Bytes
    <2>2. l \in Links /\ d \in Drives
      BY <1>0, <2>1 DEF Links, Drives
    <2>3. reserve_order(c, d, l, link[c].packet[2])
      BY <1>2 DEF Adopt
    <2> QED
      BY <2>1, <2>2, <2>3, ReserveType
  <1>3. CASE Depart(c)
    <2> DEFINE list == << ORDER(MOVE_FORWARD, GRID_MOVE_TIME) >> \o drive[c].order_list
    <2>1. list \in Seq(Nat)
      BY <1>0, EnteredType
    <2>2. drive' = [drive EXCEPT ![c].pc = "loop", ![c].order_list = list]
          /\ UNCHANGED << link, task >>
      BY <1>3 DEF Depart
    <2> HIDE DEF list
    <2> QED
      BY <2>1, <2>2 DEF Drives
  <1>4. CASE Look(c)
    <2> DEFINE flag == drive[c].sent_flag /\ Len(drive[c].order_list) <= drive[c].last_count
    <2>1. drive' = [drive EXCEPT ![c].pc = "check", ![c].sent_flag = flag]
          /\ UNCHANGED << link, task >>
      BY <1>4 DEF Look
    <2>2. flag \in BOOLEAN
      BY <1>0 DEF Drives
    <2> HIDE DEF flag
    <2> QED
      BY <2>1, <2>2 DEF Drives
  <1>5. CASE process_orders(c)
    <2>1. CASE Enough(drive[c])
      <3> DEFINE d == [drive[c] EXCEPT !.pc = "get"]
      <3>1. d \in Drives
        BY <1>0 DEF Drives
      <3>2. drive' = [drive EXCEPT ![c] = d] /\ UNCHANGED << link, task >>
        BY <1>5, <2>1 DEF process_orders
      <3> HIDE DEF d
      <3> QED
        BY <3>1, <3>2
    <2>2. CASE ~ Enough(drive[c])
      <3> DEFINE list == drive[c].order_list
                 d == [drive[c] EXCEPT !.pc = "get", !.sent_flag = TRUE, !.last_count = Len(list)]
      <3>1. reserve_order(c, d, link[c], calculate_departure_delay_s(list))
        BY <1>5, <2>2 DEF process_orders
      <3>2. Len(list) \in Nat /\ calculate_departure_delay_s(list) \in Nat
        BY <1>0, DelayType
      <3>3. d \in Drives
        BY <1>0, <3>2 DEF Drives
      <3> QED
        BY <1>0, <3>1, <3>2, <3>3, ReserveType
    <2> QED
      BY <2>1, <2>2
  <1>6. CASE Follow(c)
    <2>1. CASE drive[c].order_list = << >>
      <3> DEFINE d == [drive[c] EXCEPT !.pc = "shift", !.order = NULL]
      <3>1. d \in Drives
        BY <1>0 DEF Drives, NULL
      <3>2. drive' = [drive EXCEPT ![c] = d] /\ UNCHANGED << link, task >>
        BY <1>6, <2>1 DEF Follow
      <3> HIDE DEF d
      <3> QED
        BY <3>1, <3>2
    <2>2. CASE drive[c].order_list # << >>
      <3>1. drive[c].order_list[1] \in Nat
        BY <1>0, <2>2
      <3>2. drive' = [drive EXCEPT ![c].pc = "follow", ![c].order = drive[c].order_list[1]]
            /\ UNCHANGED << link, task >>
        BY <1>6, <2>2 DEF Follow
      <3> QED
        BY <3>1, <3>2 DEF Drives
    <2> QED
      BY <2>1, <2>2
  <1>7. CASE Arrive(c)
    BY <1>7 DEF Arrive, Drives
  <1>8. CASE Shift(c)
    <2> DEFINE list == IF drive[c].order_list = << >> THEN drive[c].order_list
                       ELSE Tail(drive[c].order_list)
    <2>1. list \in Seq(Nat)
      BY <1>0, ShiftedType
    <2> DEFINE d == [drive[c] EXCEPT !.pc = "loop", !.order = NULL, !.order_list = list]
    <2>2. drive' = [drive EXCEPT ![c] = d] /\ UNCHANGED << link, task >>
      BY <1>8 DEF Shift
    <2> HIDE DEF list
    <2>3. d \in Drives
      BY <1>0, <2>1 DEF Drives, NULL
    <2> HIDE DEF d
    <2> QED
      BY <2>2, <2>3
  <1>9. CASE \E t \in Task : TransferListen(c, t)
    <2>1. PICK t \in Task : TransferListen(c, t)
      BY <1>9
    <2>2. task' \in [Car -> Tasks] /\ UNCHANGED drive
      BY <2>1 DEF TransferListen, Tasks
    <2>3. link' \in [Car -> Links]
      BY <2>1 DEF TransferListen, StartListening, Links
    <2> QED
      BY <2>2, <2>3
  <1>10. CASE receive_interrupt_handler(c)
    BY <1>10, HandlerType
  <1>11. CASE AskAgain(c)
    BY <1>11 DEF AskAgain, Drives
  <1>12. CASE \E t \in Task : TransferTimeout(c, t)
    <2>1. PICK t \in Task : TransferTimeout(c, t)
      BY <1>12
    <2>2. task' \in [Car -> Tasks] /\ UNCHANGED drive
      BY <2>1 DEF TransferTimeout, Tasks
    <2>3. link' \in [Car -> Links]
      BY <2>1 DEF TransferTimeout, Links
    <2> QED
      BY <2>2, <2>3
  <1> QED
    BY <1>1, <1>2, <1>3, <1>4, <1>5, <1>6, <1>7, <1>8, <1>9, <1>10, <1>11, <1>12
    DEF CarAlone, Quiet, TimeOut

LEMMA HeardType ==
  ASSUME NEW l \in Links, NEW bytes \in Bytes, NEW o \in Car
  PROVE  Heard(l, bytes, o) \in Links
  BY DEF Heard, Links

LEMMA HearingType ==
  ASSUME NEW links \in [Car -> Links], NEW bytes \in Bytes, NEW o \in Car, NEW cars
  PROVE  LinksHearing(cars, bytes, o, links) \in [Car -> Links]
  <1>1. ASSUME NEW x \in Car PROVE Heard(links[x], bytes, o) \in Links
    <2>1. links[x] \in Links
      OBVIOUS
    <2> QED
      BY <2>1, HeardType
  <1> QED
    BY <1>1 DEF LinksHearing

LEMMA SendType ==
  ASSUME CarsTyped, NEW c \in Car, CarSends(c)
  PROVE  drive' \in [Car -> Drives] /\ task' \in [Car -> Tasks]
  <1>1. CASE AskSend(c)
    BY <1>1 DEF AskSend, CarsTyped, Drives
  <1>2. CASE \E t \in Task : TransferSend(c, t)
    BY <1>2 DEF TransferSend, CarsTyped, Tasks
  <1> QED
    BY <1>1, <1>2 DEF CarSends

LEMMA TransmissionType ==
  ASSUME CarsTyped, NEW c \in Car, NEW cars, Transmission(c, cars)
  PROVE  link' \in [Car -> Links]
  <1> DEFINE k == [link[c] EXCEPT !.radio = "txidle", !.end = FALSE]
             links == [link EXCEPT ![c] = k]
  <1>0. link[c] \in Links
    BY DEF CarsTyped
  <1>1. k \in Links /\ link[c].packet \in Bytes
    BY <1>0 DEF Links
  <1>2. link' = LinksHearing(cars, link[c].packet, c, links)
    BY DEF Transmission
  <1> HIDE DEF k
  <1>3. links \in [Car -> Links]
    BY <1>1 DEF CarsTyped
  <1> HIDE DEF links
  <1> QED
    BY <1>1, <1>2, <1>3, HearingType

LEMMA AnswerType ==
  ASSUME Typed, NEW cars, Answer(cars)
  PROVE  Typed'
  <1>1. link' \in [Car -> Links]
    BY HearingType DEF Answer, Typed, CarsTyped, ServerTyped
  <1>2. CarsTyped'
    BY <1>1 DEF Answer, Typed, CarsTyped
  <1>3. ServerTyped'
    BY DEF Answer, Sent, Typed, ServerTyped
  <1> QED
    BY <1>2, <1>3 DEF Typed

(* What the server may answer to the trip in its buffer fits there. *)
ReplyFits ==
  \A orders \in Routes(buffer[2], buffer[3]) :
    orders \in Seq(Nat) /\ Len(orders) <= PacketLength

LEMMA ReadyType ==
  ASSUME ServerTyped, Ready, state = "txidle" /\ rxmatch # 0 => ReplyFits
  PROVE  ServerTyped'
  <1>1. /\ event' \subseteq {"READY", "END", "DISABLED"} /\ rxmatch' \in Nat /\ asker' \in Car
        /\ state' \in {"rx", "tx"}
    BY DEF Ready, ServerTyped
  <1>2. buffer' \in Bytes /\ current_id' \in Nat
    <2>1. CASE UNCHANGED << buffer, current_id, booked >>
      BY <2>1 DEF ServerTyped
    <2>2. CASE GiveId
      <3>1. << current_id + 1, DELAY >> \in Seq(Nat) /\ Len(<< current_id + 1, DELAY >>) = 2
        BY DEF ServerTyped, DELAY
      <3>a. buffer \in Bytes /\ 2 <= PacketLength
        BY PacketAssumption DEF ServerTyped
      <3>2. Overwrite(buffer, << current_id + 1, DELAY >>) \in Bytes
        BY <3>1, <3>a, OverwriteIs
      <3> QED
        BY <2>2, <3>2 DEF GiveId, ServerTyped
    <2>3. CASE state = "txidle" /\ Reserve
      <3>1. PICK orders \in Routes(buffer[2], buffer[3]) : buffer' = Overwrite(buffer, orders)
        BY <2>3 DEF Reserve
      <3>3. orders \in Seq(Nat) /\ Len(orders) <= PacketLength
        BY <2>3 DEF ReplyFits, Reserve
      <3>4. buffer' \in Bytes
        BY <3>1, <3>3, OverwriteIs DEF ServerTyped
      <3> QED
        BY <2>3, <3>4 DEF Reserve, ServerTyped
    <2> QED
      BY <2>1, <2>2, <2>3 DEF Ready
  <1> QED
    BY <1>1, <1>2 DEF ServerTyped

LEMMA StepTyped ==
  ASSUME Typed, [Next]_vars, Ready /\ state = "txidle" /\ rxmatch # 0 => ReplyFits
  PROVE  Typed'
  <1>0. CarsTyped /\ ServerTyped
    BY DEF Typed
  <1>1. ASSUME NEW c \in Car, CarHeard(c) PROVE Typed'
    <2>1. CarsTyped'
      BY <1>0, <1>1, SendType, TransmissionType DEF CarHeard, CarsTyped
    <2>2. link[c].txaddress \in Nat /\ link[c].packet \in Bytes
      BY <1>0 DEF CarsTyped, Links
    <2>3. ServerTyped'
      BY <1>0, <1>1, <2>2 DEF CarHeard, Receive, ServerTyped
    <2> QED
      BY <2>1, <2>3 DEF Typed
  <1>2. ASSUME NEW c \in Car, CarLost(c) PROVE Typed'
    <2>1. CarsTyped'
      BY <1>0, <1>2, SendType, TransmissionType DEF CarLost, CarsTyped
    <2> QED
      BY <1>0, <1>2, <2>1 DEF CarLost, Typed, ServerTyped, serverVars
  <1>3. ASSUME NEW c \in Car, CarAlone(c) PROVE Typed'
    <2>1. CarsTyped'
      BY <1>0, <1>3, CarAloneType
    <2> QED
      BY <1>0, <1>3, <2>1 DEF CarAlone, Typed, ServerTyped, serverVars
  <1>4. ASSUME NEW cars, Answer(cars) PROVE Typed'
    BY <1>4, AnswerType
  <1>5. CASE ServerAlone
    <2>1. CarsTyped'
      BY <1>0, <1>5 DEF ServerAlone, vehicleVars, CarsTyped
    <2>2. CASE Ready
      BY <1>0, <2>1, <2>2, ReadyType DEF Typed
    <2>3. CASE Radio \/ Disabled \/ End
      <3>1. ServerTyped'
        BY <1>0, <2>3 DEF Radio, Disabled, End, ServerTyped
      <3> QED
        BY <2>1, <3>1 DEF Typed
    <2> QED
      BY <1>5, <2>2, <2>3 DEF ServerAlone, radio_interrupt_handler
  <1>6. CASE UNCHANGED vars
    BY <1>0, <1>6 DEF vars, vehicleVars, serverVars, Typed, CarsTyped, ServerTyped
  <1> QED
    BY <1>1, <1>2, <1>3, <1>4, <1>5, <1>6 DEF Next, Answered, Unanswered

LEMMA AnyReplyFits == Typed /\ RoutesFit => ReplyFits
  <1> SUFFICES ASSUME Typed, RoutesFit PROVE ReplyFits
    OBVIOUS
  <1>1. buffer[2] \in Nat /\ buffer[3] \in Nat
    BY PacketAssumption DEF Typed, ServerTyped, Bytes
  <1> QED
    BY <1>1 DEF RoutesFit, ReplyFits

LEMMA TypedCars == Typed => TypeOK
  BY DEF Typed, CarsTyped, ServerTyped, TypeOK, Drives, Links, Tasks, Bytes

(***************************************************************************)
(* Every variable of the cars and of the server keeps its type, whatever   *)
(* the cars hear and in whatever order the radio reports its events        *)
(* (client.c, drive.c, server.c).                                          *)
(***************************************************************************)
THEOREM TypeCorrect == ASSUME RoutesFit PROVE Spec => []TypeOK
  <1>1. Init => Typed
    BY InitTyped
  <1>2. Typed /\ [Next]_vars => Typed'
    BY StepTyped, AnyReplyFits
  <1>3. Typed => TypeOK
    BY TypedCars
  <1> QED
    BY <1>1, <1>2, <1>3, PTL DEF Spec

-----------------------------------------------------------------------------
(***************************************************************************)
(* One request at a time.  A car has no transfer task but the last one it  *)
(* created, and while that one is alive it does not ask for more: either   *)
(* it is not on the road yet, or it remembers the request and the list has *)
(* not grown since.  With "late" a car may set out while the first request *)
(* is under way, and then makes another.                                   *)
(***************************************************************************)
Asks(c) == drive[c].pc \in {"ask", "asked", "asking"}

Single(c) ==
  /\ Alive(c) \subseteq {link[c].task_id}
  /\ Asks(c) => /\ Alive(c) = {} /\ ~ link[c].enabled
                /\ drive[c].order_list = << >> /\ ~ drive[c].sent_flag
  /\ drive[c].pc = "sleep" /\ Alive(c) # {} => drive[c].order_list = << >>
  /\ ~ Asks(c) /\ drive[c].pc # "sleep" /\ Alive(c) # {} =>
       drive[c].sent_flag /\ Len(drive[c].order_list) <= drive[c].last_count

SingleInv == Typed /\ \A c \in Car : Single(c)

LEMMA SameSingle ==
  ASSUME NEW c \in Car, Single(c), drive'[c] = drive[c], Alive(c)' = Alive(c),
         link'[c].task_id = link[c].task_id, link'[c].enabled = link[c].enabled
  PROVE  Single(c)'
  BY DEF Single, Asks

LEMMA SameAlive == ASSUME NEW c \in Car, task'[c] = task[c] PROVE Alive(c)' = Alive(c)
  BY DEF Alive

(* A step of car c leaves the others alone. *)
Others(c) == \A x \in Car \ {c} : drive'[x] = drive[x] /\ task'[x] = task[x] /\ link'[x] = link[x]

LEMMA OthersSingle ==
  ASSUME NEW c \in Car, \A x \in Car : Single(x), Others(c), Single(c)'
  PROVE  \A x \in Car : Single(x)'
  <1> TAKE x \in Car
  <1>1. CASE x # c
    BY <1>1, SameSingle, SameAlive DEF Others
  <1> QED
    BY <1>1

(* What reserve_order leaves of a car without a transfer task. *)
LEMMA ReserveIs ==
  ASSUME CarsTyped, NEW c \in Car, NEW d \in Drives, NEW l \in Links, NEW delay \in Nat,
         reserve_order(c, d, l, delay)
  PROVE  /\ drive'[c] = NextTrip(d)
         /\ Alive(c)' = Alive(c) \cup (IF FreeTasks(c) = {} THEN {} ELSE {link'[c].task_id})
         /\ FreeTasks(c) # {} => link'[c].task_id = Min(FreeTasks(c))
         /\ task'[c] = IF FreeTasks(c) = {} THEN task[c]
                       ELSE [task[c] EXCEPT ![Min(FreeTasks(c))] = "start"]
         /\ Others(c)
  <1> DEFINE n == NextTrip(d)
             t == IF FreeTasks(c) = {} THEN E_LIMIT ELSE Min(FreeTasks(c))
             p == Overwrite(l.packet, << delay, n.previous, n.current >>)
             k == [l EXCEPT !.packet = p, !.task_id = t]
  <1>1. /\ drive' = [drive EXCEPT ![c] = n] /\ link' = [link EXCEPT ![c] = k]
        /\ task' = IF t = E_LIMIT THEN task ELSE [task EXCEPT ![c][t] = "start"]
    BY DEF reserve_order
  <1>2. FreeTasks(c) # {} => t \in Task /\ t # E_LIMIT /\ t = Min(FreeTasks(c))
    BY FreeTaskIs, VehicleAssumption DEF Task, E_LIMIT
  <1>3. FreeTasks(c) = {} => t = E_LIMIT
    OBVIOUS
  <1> HIDE DEF n, t, p
  <1>4. drive'[c] = n /\ link'[c] = k
    BY <1>1 DEF CarsTyped
  <1>5. k.task_id = t
    BY DEF Links
  <1>6. task'[c] = IF FreeTasks(c) = {} THEN task[c] ELSE [task[c] EXCEPT ![t] = "start"]
    BY <1>1, <1>2, <1>3 DEF CarsTyped
  <1>7. Alive(c)' = Alive(c) \cup (IF FreeTasks(c) = {} THEN {} ELSE {t})
    <2>1. CASE FreeTasks(c) = {}
      BY <1>6, <2>1 DEF Alive
    <2>2. CASE FreeTasks(c) # {}
      BY <1>2, <1>6, <2>2 DEF Alive, CarsTyped, Tasks
    <2> QED
      BY <2>1, <2>2
  <1>8. Others(c)
    BY <1>1 DEF Others, CarsTyped
  <1> HIDE DEF k
  <1> QED
    BY <1>2, <1>4, <1>5, <1>6, <1>7, <1>8 DEF n

LEMMA NextTripKeeps ==
  ASSUME NEW d \in Drives
  PROVE  \A f \in {"pc", "order_list", "order", "sent_flag", "last_count"} : NextTrip(d)[f] = d[f]
  BY DEF NextTrip, Drives

LEMMA InitSingle == ASSUME Init, NEW c \in Car PROVE Single(c)
  BY DEF Init, VehicleInit, Single, Asks, Alive

LEMMA TransferAlive ==
  ASSUME CarsTyped, NEW c \in Car, NEW t \in Task,
         TransferSend(c, t) \/ TransferListen(c, t) \/ TransferTimeout(c, t)
  PROVE  Alive(c)' = Alive(c) /\ t \in Alive(c)
  BY DEF TransferSend, TransferListen, TransferTimeout, Alive, CarsTyped, Tasks

LEMMA HandlerIs ==
  ASSUME CarsTyped, NEW c \in Car, receive_interrupt_handler(c),
         Alive(c) \subseteq {link[c].task_id}
  PROVE  /\ drive'[c] = [drive[c] EXCEPT
              !.order_list = Appended(drive[c].order_list, OrdersIn(link[c].packet))]
         /\ link'[c] = [link[c] EXCEPT !.end = FALSE, !.radio = "disabled", !.enabled = FALSE]
         /\ Alive(c)' = {}
         /\ \A t \in Task :
              task'[c][t] = IF t = link[c].task_id THEN "dormant" ELSE task[c][t]
         /\ Others(c)
  <1>1. /\ link' = [link EXCEPT ![c].end = FALSE, ![c].radio = "disabled", ![c].enabled = FALSE]
        /\ task' = IF link[c].task_id = E_LIMIT THEN task
                   ELSE [task EXCEPT ![c][link[c].task_id] = "dormant"]
        /\ drive' = [drive EXCEPT ![c].order_list =
                       Appended(drive[c].order_list, OrdersIn(link[c].packet))]
    BY DEF receive_interrupt_handler
  <1>2. drive'[c] = [drive[c] EXCEPT
              !.order_list = Appended(drive[c].order_list, OrdersIn(link[c].packet))]
    BY <1>1 DEF CarsTyped
  <1>3. link'[c] = [link[c] EXCEPT !.end = FALSE, !.radio = "disabled", !.enabled = FALSE]
    BY <1>1 DEF CarsTyped
  <1>4. \A t \in Task : task'[c][t] = IF t = link[c].task_id THEN "dormant" ELSE task[c][t]
    <2>1. CASE link[c].task_id = E_LIMIT
      BY <1>1, <2>1, VehicleAssumption DEF Task, E_LIMIT
    <2>2. CASE link[c].task_id # E_LIMIT
      BY <1>1, <2>2 DEF CarsTyped, Tasks
    <2> QED
      BY <2>1, <2>2
  <1>5. Alive(c)' = {}
    BY <1>4 DEF Alive
  <1>6. Others(c)
    BY <1>1 DEF Others, CarsTyped
  <1> QED
    BY <1>2, <1>3, <1>4, <1>5, <1>6

LEMMA CarAloneSingle ==
  ASSUME SingleInv, "late" \notin Rare, NEW c \in Car, CarAlone(c)
  PROVE  \A x \in Car : Single(x)'
  <1> DEFINE d == drive[c]
             list == d.order_list
  <1>0. /\ CarsTyped /\ d \in Drives /\ link[c] \in Links /\ Single(c)
        /\ \A x \in Car : Single(x)
    BY DEF SingleInv, Typed, CarsTyped
  <1>a. list \in Seq(Nat) /\ Len(list) \in Nat /\ d.last_count \in Nat /\ d.sent_flag \in BOOLEAN
    BY <1>0 DEF Drives
  <1> SUFFICES Others(c) /\ Single(c)'
    BY <1>0, OthersSingle
  <1>1. CASE AskListen(c)
    <2>1. Others(c) /\ task'[c] = task[c] /\ drive'[c] = [d EXCEPT !.pc = "asking"]
          /\ link'[c] = [link[c] EXCEPT !.radio = "rx", !.end = FALSE]
          /\ d.pc = "asked"
      BY <1>0, <1>1 DEF AskListen, StartListening, Others, CarsTyped
    <2> QED
      BY <1>0, <2>1, SameAlive DEF Single, Asks, Drives, Links
  <1>2. CASE Adopt(c)
    <2> DEFINE l == [link[c] EXCEPT !.end = FALSE, !.txaddress = link[c].packet[1]]
               e == [d EXCEPT !.pc = "sleep"]
    <2>1. link[c].packet \in Bytes /\ link[c].packet[1] \in Nat /\ link[c].packet[2] \in Nat
      BY <1>0, PacketAssumption DEF Links, Bytes
    <2>2. l \in Links /\ e \in Drives
      BY <1>0, <2>1 DEF Links, Drives
    <2>3. reserve_order(c, e, l, link[c].packet[2]) /\ d.pc = "asking"
      BY <1>2 DEF Adopt
    <2>4. /\ drive'[c] = NextTrip(e) /\ Others(c)
          /\ Alive(c)' = Alive(c) \cup (IF FreeTasks(c) = {} THEN {} ELSE {link'[c].task_id})
      BY <1>0, <2>1, <2>2, <2>3, ReserveIs
    <2>5. drive'[c].pc = "sleep" /\ drive'[c].order_list = list
      BY <1>0, <2>2, <2>4, NextTripKeeps DEF Drives
    <2>6. Alive(c) = {} /\ list = << >>
      BY <1>0, <2>3 DEF Single, Asks
    <2> QED
      BY <2>4, <2>5, <2>6 DEF Single, Asks
  <1>3. CASE Depart(c)
    <2>1. d.pc = "sleep" /\ list # << >> /\ drive'[c].pc = "loop"
          /\ task' = task /\ link' = link /\ Others(c)
      BY <1>0, <1>3 DEF Depart, Step, Others, CarsTyped, Drives
    <2>2. Alive(c) = {}
      BY <1>0, <2>1 DEF Single
    <2> QED
      BY <1>0, <2>1, <2>2, SameAlive DEF Single, Asks
  <1>4. CASE Look(c)
    <2>1. /\ d.pc = "loop" /\ task' = task /\ link' = link /\ Others(c)
          /\ drive'[c] = [d EXCEPT !.pc = "check",
                                  !.sent_flag = d.sent_flag /\ Len(list) <= d.last_count]
      BY <1>0, <1>4 DEF Look, Step, Others, CarsTyped
    <2>2. /\ drive'[c].pc = "check" /\ drive'[c].order_list = list
          /\ drive'[c].last_count = d.last_count
          /\ drive'[c].sent_flag = (d.sent_flag /\ Len(list) <= d.last_count)
      BY <1>0, <2>1 DEF Drives
    <2> HIDE DEF d, list
    <2> QED
      BY <1>0, <2>1, <2>2, SameAlive DEF Single, Asks, d, list
  <1>5. CASE process_orders(c)
    <2>1. CASE Enough(d)
      <3>1. /\ d.pc = "check" /\ task' = task /\ link' = link /\ Others(c)
            /\ drive'[c] = [d EXCEPT !.pc = "get"]
        BY <1>0, <1>5, <2>1 DEF process_orders, Step, Others, CarsTyped
      <3> QED
        BY <1>0, <3>1, SameAlive DEF Single, Asks, Drives
    <2>2. CASE ~ Enough(d)
      <3> DEFINE e == [d EXCEPT !.pc = "get", !.sent_flag = TRUE, !.last_count = Len(list)]
      <3>1. reserve_order(c, e, link[c], calculate_departure_delay_s(list)) /\ d.pc = "check"
        BY <1>5, <2>2 DEF process_orders, Step
      <3>2. e \in Drives /\ calculate_departure_delay_s(list) \in Nat
        BY <1>0, <1>a, DelayType DEF Drives
      <3>3. /\ drive'[c] = NextTrip(e) /\ Others(c)
            /\ Alive(c)' = Alive(c) \cup (IF FreeTasks(c) = {} THEN {} ELSE {link'[c].task_id})
        BY <1>0, <3>1, <3>2, ReserveIs
      <3>4. /\ drive'[c].pc = "get" /\ drive'[c].order_list = list
            /\ drive'[c].sent_flag = TRUE /\ drive'[c].last_count = Len(list)
        <4>1. /\ e.pc = "get" /\ e.order_list = list
              /\ e.sent_flag = TRUE /\ e.last_count = Len(list)
          BY <1>0 DEF Drives
        <4> HIDE DEF e, d, list
        <4> QED
          BY <3>2, <3>3, <4>1, NextTripKeeps
      <3>5. Alive(c) = {}
        BY <1>0, <2>2, <3>1 DEF Enough, Single, Asks
      <3> QED
        BY <1>a, <3>3, <3>4, <3>5 DEF Single, Asks
    <2> QED
      BY <2>1, <2>2
  <1>6. CASE Follow(c)
    <2>1. /\ d.pc = "get" /\ task' = task /\ link' = link /\ Others(c)
          /\ drive'[c].pc \in {"shift", "follow"} /\ drive'[c].order_list = list
          /\ drive'[c].sent_flag = d.sent_flag /\ drive'[c].last_count = d.last_count
      BY <1>0, <1>6 DEF Follow, Step, Others, CarsTyped, Drives
    <2> HIDE DEF d, list
    <2> QED
      BY <1>0, <2>1, SameAlive DEF Single, Asks, d, list
  <1>7. CASE Arrive(c)
    <2>1. /\ d.pc = "follow" /\ task' = task /\ link' = link /\ Others(c)
          /\ drive'[c] = [d EXCEPT !.pc = "shift"]
      BY <1>0, <1>7 DEF Arrive, Step, Others, CarsTyped
    <2> QED
      BY <1>0, <2>1, SameAlive DEF Single, Asks, Drives
  <1>8. CASE Shift(c)
    <2> DEFINE rest == IF list = << >> THEN list ELSE Tail(list)
    <2>1. /\ d.pc = "shift" /\ task' = task /\ link' = link /\ Others(c)
          /\ drive'[c] = [d EXCEPT !.pc = "loop", !.order = NULL, !.order_list = rest]
      BY <1>0, <1>8 DEF Shift, Step, Others, CarsTyped
    <2>2. Len(rest) \in Nat /\ Len(rest) <= Len(list)
      BY <1>a
    <2> HIDE DEF rest
    <2>3. /\ drive'[c].pc = "loop" /\ drive'[c].order_list = rest
          /\ drive'[c].sent_flag = d.sent_flag /\ drive'[c].last_count = d.last_count
      BY <1>0, <2>1 DEF Drives
    <2> HIDE DEF d, list
    <2>4. Alive(c) # {} => d.sent_flag /\ Len(list) <= d.last_count
      BY <1>0, <2>1 DEF Single, Asks, d, list
    <2>5. Alive(c) # {} => Len(rest) <= d.last_count
      BY <2>2, <2>4, <1>a
    <2> QED
      BY <1>0, <2>1, <2>3, <2>4, <2>5, SameAlive DEF Single, Asks
  <1>9. ASSUME NEW t \in Task, TransferListen(c, t) \/ TransferTimeout(c, t)
        PROVE  Others(c) /\ Single(c)'
    <2>1. /\ drive' = drive /\ d.pc \in {"sleep", "follow"}
          /\ link'[c].task_id = link[c].task_id /\ Others(c)
      <3>1. drive' = drive /\ d.pc \in {"sleep", "follow"}
        BY <1>9 DEF TransferListen, TransferTimeout, Turn, Blocked
      <3>2. Others(c)
        BY <1>0, <1>9 DEF TransferListen, TransferTimeout, Others, CarsTyped
      <3>3. link'[c].task_id = link[c].task_id
        <4>1. CASE TransferListen(c, t)
          <5>1. link'[c] = [StartListening(link[c]) EXCEPT !.enabled = TRUE]
            BY <1>0, <4>1 DEF TransferListen, CarsTyped
          <5> QED
            BY <1>0, <5>1 DEF StartListening, Links
        <4>2. CASE TransferTimeout(c, t)
          <5>1. link'[c] = [link[c] EXCEPT !.enabled = FALSE]
            BY <1>0, <4>2 DEF TransferTimeout, CarsTyped
          <5> QED
            BY <1>0, <5>1 DEF Links
        <4> QED
          BY <1>9, <4>1, <4>2
      <3> QED
        BY <3>1, <3>2, <3>3
    <2>2. Alive(c)' = Alive(c)
      BY <1>0, <1>9, TransferAlive
    <2> QED
      BY <1>0, <2>1, <2>2 DEF Single, Asks
  <1>10. CASE receive_interrupt_handler(c)
    <2>1. /\ drive'[c] = [d EXCEPT !.order_list = drive'[c].order_list]
          /\ link'[c].task_id = link[c].task_id
          /\ Alive(c)' = {} /\ Others(c)
      <3>1. Alive(c) \subseteq {link[c].task_id}
        BY <1>0 DEF Single
      <3>2. /\ drive'[c] = [d EXCEPT !.order_list = Appended(list, OrdersIn(link[c].packet))]
            /\ link'[c] = [link[c] EXCEPT !.end = FALSE, !.radio = "disabled", !.enabled = FALSE]
            /\ Alive(c)' = {} /\ Others(c)
        BY <1>0, <1>10, <3>1, HandlerIs
      <3> QED
        BY <1>0, <3>2 DEF Drives, Links
    <2>2. link[c].enabled
      BY <1>10 DEF receive_interrupt_handler, Interrupted
    <2>3. ~ Asks(c)
      BY <1>0, <2>2 DEF Single
    <2>4. drive'[c].pc = d.pc
      BY <1>0, <2>1 DEF Drives
    <2> QED
      BY <2>1, <2>3, <2>4 DEF Single, Asks
  <1>11. CASE AskAgain(c)
    <2>1. /\ d.pc = "asking" /\ task' = task /\ link' = link /\ Others(c)
          /\ drive'[c] = [d EXCEPT !.pc = "ask"]
      BY <1>0, <1>11 DEF AskAgain, Others, CarsTyped
    <2> QED
      BY <1>0, <2>1, SameAlive DEF Single, Asks, Drives
  <1> QED
    BY <1>1, <1>2, <1>3, <1>4, <1>5, <1>6, <1>7, <1>8, <1>9, <1>10, <1>11
    DEF CarAlone, Quiet, TimeOut

(* The answers and what other cars send reach a car without its task.      *)
LEMMA HeardSingle ==
  ASSUME NEW links, NEW cars, NEW bytes, NEW o, NEW c \in Car,
         link' = LinksHearing(cars, bytes, o, links),
         links[c] \in Links
  PROVE  /\ link'[c].task_id = links[c].task_id /\ link'[c].enabled = links[c].enabled
  <1>1. link'[c] = IF c \in cars THEN Heard(links[c], bytes, o) ELSE links[c]
    BY DEF LinksHearing
  <1> QED
    BY <1>1 DEF Heard, Links

LEMMA SendsSingle ==
  ASSUME SingleInv, NEW c \in Car, CarSends(c), NEW cars, Transmission(c, cars)
  PROVE  \A x \in Car : Single(x)'
  <1>0. CarsTyped /\ \A x \in Car : Single(x)
    BY DEF SingleInv, Typed
  <1> DEFINE k == [link[c] EXCEPT !.radio = "txidle", !.end = FALSE]
             links == [link EXCEPT ![c] = k]
  <1>1. link' = LinksHearing(cars, link[c].packet, c, links)
    BY DEF Transmission
  <1>a. link[c] \in Links
    BY <1>0 DEF CarsTyped
  <1>2. k \in Links /\ k.task_id = link[c].task_id /\ k.enabled = link[c].enabled
    BY <1>a DEF Links
  <1> HIDE DEF k
  <1>3. \A x \in Car : /\ links[x] \in Links /\ links[x].task_id = link[x].task_id
                       /\ links[x].enabled = link[x].enabled
    BY <1>0, <1>2 DEF CarsTyped
  <1> HIDE DEF links
  <1>4. \A x \in Car : /\ link'[x].task_id = link[x].task_id
                       /\ link'[x].enabled = link[x].enabled
    BY <1>1, <1>3, HeardSingle
  <1>5. \A x \in Car \ {c} : drive'[x] = drive[x] /\ task'[x] = task[x]
    BY <1>0 DEF CarSends, AskSend, TransferSend, CarsTyped
  <1>6. Single(c)'
    <2>1. CASE AskSend(c)
      <3>1. task' = task /\ Asks(c) /\ drive'[c] = [drive[c] EXCEPT !.pc = "asked"]
        BY <1>0, <2>1 DEF AskSend, Asks, CarsTyped
      <3>2. /\ drive'[c].pc = "asked" /\ drive'[c].order_list = drive[c].order_list
            /\ drive'[c].sent_flag = drive[c].sent_flag
        BY <1>0, <3>1 DEF CarsTyped, Drives
      <3> QED
        BY <1>0, <1>4, <3>1, <3>2, SameAlive DEF Single, Asks
    <2>2. CASE \E t \in Task : TransferSend(c, t)
      <3>1. drive' = drive /\ Alive(c)' = Alive(c)
        BY <1>0, <2>2, TransferAlive DEF TransferSend
      <3> QED
        BY <1>0, <1>4, <3>1, SameSingle
    <2> QED
      BY <2>1, <2>2 DEF CarSends
  <1> QED
    BY <1>0, <1>4, <1>5, <1>6, SameSingle, SameAlive

LEMMA AnswerSingle ==
  ASSUME SingleInv, NEW cars, Answer(cars)
  PROVE  \A x \in Car : Single(x)'
  <1>1. \A x \in Car : link[x] \in Links /\ Single(x)
    BY DEF SingleInv, Typed, CarsTyped
  <1>2. link' = LinksHearing(cars, buffer, asker, link) /\ UNCHANGED << drive, task >>
    BY DEF Answer
  <1> QED
    BY <1>1, <1>2, HeardSingle, SameSingle, SameAlive

LEMMA StepSingle ==
  ASSUME "late" \notin Rare, SingleInv, [Next]_vars
  PROVE  \A x \in Car : Single(x)'
  <1>0. \A x \in Car : Single(x)
    BY DEF SingleInv
  <1>1. ASSUME NEW c \in Car, CarHeard(c) PROVE \A x \in Car : Single(x)'
    BY <1>1, SendsSingle DEF CarHeard
  <1>2. ASSUME NEW c \in Car, CarLost(c) PROVE \A x \in Car : Single(x)'
    BY <1>2, SendsSingle DEF CarLost
  <1>3. ASSUME NEW c \in Car, CarAlone(c) PROVE \A x \in Car : Single(x)'
    BY <1>3, CarAloneSingle
  <1>4. ASSUME NEW cars, Answer(cars) PROVE \A x \in Car : Single(x)'
    BY <1>4, AnswerSingle
  <1>5. CASE UNCHANGED vehicleVars
    BY <1>0, <1>5, SameSingle, SameAlive DEF vehicleVars
  <1> QED
    BY <1>1, <1>2, <1>3, <1>4, <1>5 DEF Next, Answered, Unanswered, ServerAlone, vars

LEMMA SingleRequest == SingleInv => OneRequest
  <1> SUFFICES ASSUME SingleInv, NEW c \in Car PROVE Cardinality(Alive(c)) <= 1
    BY DEF OneRequest
  <1>1. Alive(c) \subseteq {link[c].task_id}
    BY DEF SingleInv, Single
  <1>2. Alive(c) = {} \/ Alive(c) = {link[c].task_id}
    BY <1>1
  <1>3. CASE Alive(c) = {}
    BY <1>3, FS_EmptySet
  <1>4. CASE Alive(c) = {link[c].task_id}
    <2>1. Cardinality({link[c].task_id}) = 1
      BY FS_Singleton
    <2> QED
      BY <1>4, <2>1
  <1> QED
    BY <1>2, <1>3, <1>4

(***************************************************************************)
(* "No request until the last one has been answered" (drive.c:57), for any *)
(* number of cars, whatever they hear of each other and whatever is lost,  *)
(* if no car's list of orders runs empty on the road.                      *)
(***************************************************************************)
THEOREM RequestsOneByOne ==
  ASSUME RoutesFit, "late" \notin Rare
  PROVE  Spec => []OneRequest
  <1>1. Init => SingleInv
    BY InitTyped, InitSingle DEF SingleInv
  <1>2. SingleInv /\ [Next]_vars => SingleInv'
    BY StepTyped, AnyReplyFits, StepSingle DEF SingleInv
  <1>3. SingleInv => OneRequest
    BY SingleRequest
  <1> QED
    BY <1>1, <1>2, <1>3, PTL DEF Spec

-----------------------------------------------------------------------------
(***************************************************************************)
(* One car on the road, as in the demonstration.  The server has one       *)
(* packet of it at a time and the car has one request at a time, so what   *)
(* the server answers, even late, is what the car asked for last.          *)
(***************************************************************************)

(* The events of the server's radio are those of its last change. *)
EventsInOrder ==
  \/ state = "disabled" /\ event = {"DISABLED"}
  \/ state \in {"rxru", "rx", "txru", "tx", "txdisable"} /\ event = {}
  \/ state \in {"rxidle", "txidle"} /\ event \in {{"READY"}, {"END"}}

(* The server has received a packet and not answered it. *)
Received ==
  \/ state = "rxidle" /\ "END" \in event
  \/ state = "txru"
  \/ state = "txidle" /\ "READY" \in event

Busy == Received \/ state = "tx"

Ends == { r[Len(r)] : r \in DemonstrationRoutes }

EndOrders == Ends \cup { Lengthened(order) : order \in Ends }

(* After the head of a packet there may be orders of earlier replies: they *)
(* end as a route ends, and only zeros follow.                             *)
Clean(p, m) ==
  /\ \A i \in m + 1 .. PacketLength : p[i] = 0
  /\ m > 3 => p[m] \in Ends

Request(p, trip) ==
  /\ p[2] = trip[1] /\ p[3] = trip[2]

Rest(p) ==
  \E m \in 3 .. PacketLength : Clean(p, m) /\ \A i \in 4 .. m : p[i] # 0

Reply(p) ==
  \E r \in DemonstrationRoutes : \E m \in Len(r) .. PacketLength :
    /\ \A i \in 1 .. Len(r) : p[i] = r[i]
    /\ Clean(p, m) /\ \A i \in 1 .. m : p[i] # 0

Empty(p) == \A i \in 4 .. PacketLength : p[i] = 0

TripOf(c) == << drive[c].previous, drive[c].current >>

(* The server knows the trip of the car, or the one before it. *)
Reserved(c) ==
  /\ DOMAIN booked = {link[c].txaddress}
  /\ booked[link[c].txaddress] = [start |-> drive[c].previous, goal |-> drive[c].current]

Follows(c) ==
  /\ DOMAIN booked \subseteq {link[c].txaddress}
  /\ \A v \in DOMAIN booked :
       \/ booked[v] = [start |-> drive[c].previous, goal |-> drive[c].current]
       \/ booked[v].goal = drive[c].previous

Waiting(c) ==
  /\ TripOf(c) = << POS(0, 0), POS(0, 0) >> /\ drive[c].trips = 0
  /\ link[c].txaddress = 0 /\ DOMAIN booked = {}
  /\ \A t \in Task : task[c][t] = "none"
  /\ Empty(link[c].packet)
  /\ link[c].end => link[c].packet[1] # 0 /\ ~ Busy
  /\ Busy => rxmatch = 0 /\ Empty(buffer)
  /\ state = "tx" => buffer[1] # 0

OnRoad(c) ==
  /\ TripOf(c) \in Demonstration
  /\ link[c].txaddress # 0
  /\ drive[c].trips = 1 \/ drive[c].trips <= MaxTrips
  /\ \A t \in Task : t > drive[c].trips => task[c][t] = "none"
  /\ Rest(link[c].packet)
  /\ Follows(c)
  /\ Alive(c) = {} => Reserved(c) /\ ~ Busy
  /\ Interrupted(c) => Alive(c) # {} /\ Reserved(c) /\ Reply(link[c].packet) /\ ~ Busy
  /\ Alive(c) # {} /\ ~ Interrupted(c) => Request(link[c].packet, TripOf(c))
  /\ Busy => rxmatch = link[c].txaddress
  /\ Received => Request(buffer, TripOf(c)) /\ Rest(buffer)
  /\ state = "tx" => Reply(buffer) /\ Reserved(c)

LinkInv(c) == IF Asks(c) THEN Waiting(c) ELSE OnRoad(c)

ListInv(c) ==
  LET d == drive[c] list == d.order_list IN
  /\ d.last_count < D_LIST_MINIMUM_NUMBER
  /\ list # << >> => Last(list) \in EndOrders
  /\ Asks(c) \/ d.pc = "sleep" => ~ d.sent_flag
  /\ ~ Asks(c) /\ d.pc # "sleep" => list # << >>
  /\ d.pc = "shift" => Len(list) >= 2
  /\ d.pc \in {"follow", "shift"} => d.order = list[1]
  /\ d.sent_flag /\ Alive(c) = {} =>
       Len(list) >= d.last_count + (IF d.pc = "loop" THEN 1 ELSE 2)

LEMMA Elements ==
  ASSUME NEW s \in Seq(Nat)
  PROVE  DOMAIN s = 1 .. Len(s) /\ \A i \in 1 .. Len(s) : s[i] \in Nat
  OBVIOUS

LEMMA RouteIs ==
  ASSUME RoutesSuit, NEW r \in DemonstrationRoutes
  PROVE  /\ r \in Seq(Nat) /\ Len(r) \in 7 .. PacketLength
         /\ \A i \in 1 .. Len(r) : r[i] \in Nat /\ r[i] # 0
         /\ \A i \in 1 .. 6 : r[i + 1] # Lengthened(r[i])
         /\ r[Len(r)] \in Ends /\ r[1] \notin EndOrders
  <1>1. /\ r \in Seq(Nat) /\ Len(r) \in 7 .. PacketLength
        /\ \A i \in DOMAIN r : r[i] # 0
        /\ \A i \in 1 .. 6 : r[i + 1] # Lengthened(r[i])
    BY DEF RoutesSuit, Range
  <1>2. r[1] \notin EndOrders
    BY DEF RoutesSuit, EndOrders, Ends, Last
  <1>3. r[Len(r)] \in Ends
    BY DEF Ends
  <1>4. r \in Seq(Nat) /\ \A i \in 1 .. Len(r) : r[i] \in Nat /\ r[i] # 0
    <2>1. DOMAIN r = 1 .. Len(r) /\ \A i \in 1 .. Len(r) : r[i] \in Nat
      BY <1>1, Elements
    <2> QED
      BY <1>1, <2>1
  <1> QED
    BY <1>1, <1>2, <1>3, <1>4

LEMMA EmptyRest == ASSUME NEW p, Empty(p) PROVE Rest(p)
  <1>1. 3 \in 3 .. PacketLength /\ ~ (3 > 3) /\ \A i \in 3 + 1 .. PacketLength : i \in 4 .. PacketLength
    BY PacketAssumption
  <1>2. Clean(p, 3)
    BY <1>1 DEF Empty, Clean
  <1>3. \A i \in 4 .. 3 : p[i] # 0
    OBVIOUS
  <1> QED
    BY <1>1, <1>2, <1>3 DEF Rest

LEMMA ReplyRest == ASSUME RoutesSuit, NEW p, Reply(p) PROVE Rest(p)
  <1>a. PICK r \in DemonstrationRoutes :
          \E m \in Len(r) .. PacketLength : Clean(p, m) /\ \A i \in 1 .. m : p[i] # 0
    BY DEF Reply
  <1>1. PICK m \in Len(r) .. PacketLength : Clean(p, m) /\ \A i \in 1 .. m : p[i] # 0
    BY <1>a
  <1>2. Len(r) \in 7 .. PacketLength
    BY RouteIs
  <1>3. m \in 3 .. PacketLength /\ \A i \in 4 .. m : i \in 1 .. m
    BY <1>2
  <1> QED
    BY <1>1, <1>3 DEF Rest

LEMMA RequestPacket ==
  ASSUME NEW p \in Bytes, Rest(p), NEW delay \in Nat, NEW d \in Drives
  PROVE  LET q == Overwrite(p, << delay, d.previous, d.current >>) IN
           q \in Bytes /\ Rest(q) /\ Request(q, << d.previous, d.current >>)
  <1> DEFINE bytes == << delay, d.previous, d.current >>
             q == Overwrite(p, bytes)
  <1>1. bytes \in Seq(Nat) /\ Len(bytes) = 3 /\ 3 <= PacketLength /\ PacketLength \in Nat
    BY PacketAssumption DEF Drives
  <1>2. q \in Bytes /\ \A i \in 1 .. PacketLength : q[i] = IF i <= 3 THEN bytes[i] ELSE p[i]
    <2> HIDE DEF bytes
    <2>1. /\ Overwrite(p, bytes) \in Bytes
          /\ \A i \in 1 .. PacketLength :
               Overwrite(p, bytes)[i] = IF i <= Len(bytes) THEN bytes[i] ELSE p[i]
      BY <1>1, OverwriteIs
    <2> QED
      BY <1>1, <2>1
  <1>3. Request(q, << d.previous, d.current >>)
    BY <1>1, <1>2 DEF Request
  <1>4. PICK m \in 3 .. PacketLength : Clean(p, m) /\ \A i \in 4 .. m : p[i] # 0
    BY DEF Rest
  <1> HIDE DEF q, bytes
  <1>5. \A i \in 4 .. PacketLength : q[i] = p[i]
    BY <1>1, <1>2
  <1>6. Clean(q, m) /\ \A i \in 4 .. m : q[i] # 0
    BY <1>1, <1>4, <1>5 DEF Clean
  <1>7. Rest(q)
    BY <1>6 DEF Rest
  <1> QED
    BY <1>2, <1>3, <1>7 DEF q, bytes

LEMMA ReplyPacket ==
  ASSUME RoutesSuit, NEW p \in Bytes, Rest(p), NEW r \in DemonstrationRoutes
  PROVE  Reply(Overwrite(p, r))
  <1> DEFINE q == Overwrite(p, r)
             n == Len(r)
  <1>1. /\ r \in Seq(Nat) /\ n \in 7 .. PacketLength /\ PacketLength \in Nat
        /\ \A i \in 1 .. n : r[i] # 0
        /\ r[n] \in Ends
    BY RouteIs, PacketAssumption
  <1>2. \A i \in 1 .. PacketLength : q[i] = IF i <= n THEN r[i] ELSE p[i]
    BY <1>1, OverwriteIs
  <1>3. PICK m \in 3 .. PacketLength : Clean(p, m) /\ \A i \in 4 .. m : p[i] # 0
    BY DEF Rest
  <1> DEFINE k == IF m > n THEN m ELSE n
  <1> HIDE DEF q, n
  <1>4. k \in n .. PacketLength /\ k \in 7 .. PacketLength /\ n <= k /\ m <= k
    BY <1>1
  <1>5. \A i \in 1 .. n : q[i] = r[i]
    BY <1>1, <1>2
  <1>6. \A i \in 1 .. k : q[i] # 0
    BY <1>1, <1>2, <1>3
  <1>7. Clean(q, k)
    <2>1. \A i \in k + 1 .. PacketLength : q[i] = 0
      BY <1>1, <1>2, <1>3 DEF Clean
    <2>2. q[k] \in Ends
      BY <1>1, <1>2, <1>3 DEF Clean
    <2> HIDE DEF k
    <2> QED
      BY <2>1, <2>2 DEF Clean
  <1> HIDE DEF k
  <1>8. Reply(q)
    BY <1>4, <1>5, <1>6, <1>7 DEF Reply, n
  <1> QED
    BY <1>8 DEF q

(* What a reply adds to the list. *)
LEMMA ReplyOrders ==
  ASSUME RoutesSuit, NEW p \in Bytes, Reply(p), NEW list \in Seq(Nat),
         list # << >> => Last(list) \in EndOrders
  PROVE  LET all == Appended(list, OrdersIn(p)) IN
           /\ all \in Seq(Nat) /\ Len(all) >= Len(list) + 4
           /\ Last(all) \in EndOrders
           /\ \A i \in 1 .. Len(list) : all[i] = list[i]
  <1> DEFINE orders == OrdersIn(p)
             all == Appended(list, orders)
  <1>a. PICK r \in DemonstrationRoutes : \E m \in Len(r) .. PacketLength :
          /\ \A i \in 1 .. Len(r) : p[i] = r[i]
          /\ Clean(p, m) /\ \A i \in 1 .. m : p[i] # 0
    BY DEF Reply
  <1>1. PICK m \in Len(r) .. PacketLength :
          /\ \A i \in 1 .. Len(r) : p[i] = r[i]
          /\ Clean(p, m) /\ \A i \in 1 .. m : p[i] # 0
    BY <1>a
  <1>2. /\ Len(r) \in 7 .. PacketLength /\ PacketLength \in Nat
        /\ \A i \in 1 .. 6 : r[i + 1] # Lengthened(r[i])
        /\ r[1] \notin EndOrders
    BY RouteIs, PacketAssumption
  <1>3. m \in 0 .. PacketLength /\ m >= 7 /\ m > 3 /\ m >= Len(r)
    BY <1>2
  <1>4. orders \in Seq(Nat) /\ Len(orders) = m /\ \A i \in 1 .. m : orders[i] = p[i]
    BY <1>1, <1>3, OrdersInIs DEF Clean
  <1> HIDE DEF orders
  <1>5. ASSUME NEW i \in 1 .. 7 PROVE orders[i] = r[i]
    <2>1. i \in 1 .. Len(r) /\ i \in 1 .. m
      BY <1>2, <1>3
    <2> QED
      BY <1>1, <1>4, <2>1
  <1>6. New(list, orders)
    BY <1>2, <1>5 DEF New, Last
  <1>7. 7 \in 1 .. Len(orders) /\ \A j \in 1 .. 7 - 1 : orders[j + 1] # Lengthened(orders[j])
    BY <1>2, <1>3, <1>4, <1>5
  <1>8. 2 * (Len(all) - Len(list)) >= 7
    BY <1>4, <1>6, <1>7, AppendedGrows
  <1>9. Kept(all, list, orders, m)
    BY <1>4, AppendedKeeps
  <1>10. all \in Seq(Nat) /\ all[Len(all)] \in {orders[m], Lengthened(orders[m])}
         /\ \A i \in 1 .. Len(list) : all[i] = list[i]
    BY <1>3, <1>6, <1>9 DEF Kept
  <1>11. orders[m] \in Ends
    BY <1>1, <1>3, <1>4 DEF Clean
  <1>12. Last(all) \in EndOrders
    BY <1>10, <1>11 DEF Last, EndOrders
  <1>13. Len(all) \in Nat /\ Len(list) \in Nat
    BY <1>10
  <1> QED
    BY <1>8, <1>10, <1>12, <1>13 DEF orders

(* One car, whose list does not run empty and that listens only while it   *)
(* waits, with tasks enough for its trips.                                 *)
OneCar(c) ==
  /\ Car = {c} /\ RoutesSuit
  /\ "late" \notin Rare /\ "masked" \notin Rare
  /\ 1 <= MaxTask /\ MaxTrips <= MaxTask

CavInv(c) == SingleInv /\ EventsInOrder /\ LinkInv(c) /\ ListInv(c)

LEMMA InitCav == ASSUME NEW c, OneCar(c), Init PROVE CavInv(c)
  <1>0. c \in Car
    BY DEF OneCar
  <1>1. SingleInv
    BY InitTyped, InitSingle DEF SingleInv
  <1>2. EventsInOrder /\ ~ Busy
    BY DEF Init, ServerInit, EventsInOrder, Busy, Received
  <1>3. /\ drive[c].pc = "ask" /\ drive[c].order_list = << >> /\ drive[c].sent_flag = FALSE
        /\ drive[c].last_count = 0 /\ drive[c].trips = 0
        /\ TripOf(c) = << POS(0, 0), POS(0, 0) >>
        /\ link[c].txaddress = 0 /\ link[c].packet = NoPacket /\ link[c].end = FALSE
        /\ \A t \in Task : task[c][t] = "none"
    BY <1>0 DEF Init, VehicleInit, TripOf
  <1>4. Asks(c)
    BY <1>3 DEF Asks
  <1>5. Empty(NoPacket) /\ DOMAIN booked = {}
    BY PacketAssumption DEF Empty, NoPacket, Init, ServerInit
  <1>6. LinkInv(c)
    BY <1>2, <1>3, <1>4, <1>5 DEF LinkInv, Waiting, Busy
  <1>7. ListInv(c)
    BY <1>3, <1>4 DEF ListInv, D_LIST_MINIMUM_NUMBER
  <1> QED
    BY <1>1, <1>2, <1>6, <1>7 DEF CavInv

LEMMA StepEvents == ASSUME EventsInOrder, [Next]_vars PROVE EventsInOrder'
  <1>1. ASSUME NEW c \in Car, CarHeard(c) PROVE EventsInOrder'
    BY <1>1 DEF CarHeard, Receive, EventsInOrder
  <1>2. ASSUME UNCHANGED serverVars PROVE EventsInOrder'
    BY <1>2 DEF serverVars, EventsInOrder
  <1>3. ASSUME NEW c \in Car, CarLost(c) \/ CarAlone(c) PROVE EventsInOrder'
    BY <1>2, <1>3 DEF CarLost, CarAlone
  <1>4. ASSUME NEW cars, Answer(cars) PROVE EventsInOrder'
    BY <1>4 DEF Answer, Sent, EventsInOrder
  <1>5. CASE Radio
    BY <1>5 DEF Radio, EventsInOrder
  <1>6. CASE Disabled
    BY <1>6 DEF Disabled, EventsInOrder
  <1>7. CASE End
    BY <1>7 DEF End, EventsInOrder
  <1>8. CASE Ready
    BY <1>8 DEF Ready, EventsInOrder
  <1> QED
    BY <1>1, <1>2, <1>3, <1>4, <1>5, <1>6, <1>7, <1>8
    DEF Next, Answered, Unanswered, ServerAlone, radio_interrupt_handler, vars

-----------------------------------------------------------------------------
(***************************************************************************)
(* The car and the server.                                                 *)
(***************************************************************************)
LEMMA RoadKept ==
  ASSUME NEW c, OnRoad(c),
         TripOf(c)' = TripOf(c), drive'[c].trips = drive[c].trips,
         drive'[c].previous = drive[c].previous, drive'[c].current = drive[c].current,
         link'[c].txaddress = link[c].txaddress, link'[c].packet = link[c].packet,
         Alive(c)' = Alive(c), Interrupted(c)' <=> Interrupted(c),
         \A t \in Task : task[c][t] = "none" => task'[c][t] = "none",
         booked' = booked,
         Busy' => Busy /\ rxmatch' = rxmatch,
         Received' => Received /\ buffer' = buffer,
         state' = "tx" => state = "tx" /\ buffer' = buffer
  PROVE  OnRoad(c)'
  <1>1. Follows(c)' = Follows(c) /\ Reserved(c)' = Reserved(c)
    BY DEF Follows, Reserved
  <1>2. /\ TripOf(c)' \in Demonstration
        /\ link'[c].txaddress # 0
        /\ drive'[c].trips = 1 \/ drive'[c].trips <= MaxTrips
        /\ \A t \in Task : t > drive'[c].trips => task'[c][t] = "none"
        /\ Rest(link'[c].packet)
        /\ Follows(c)'
    BY <1>1 DEF OnRoad
  <1>3. /\ Alive(c)' = {} => Reserved(c)' /\ ~ Busy'
        /\ Interrupted(c)' =>
             Alive(c)' # {} /\ Reserved(c)' /\ Reply(link'[c].packet) /\ ~ Busy'
        /\ Alive(c)' # {} /\ ~ Interrupted(c)' => Request(link'[c].packet, TripOf(c)')
    BY <1>1 DEF OnRoad
  <1>4. /\ Busy' => rxmatch' = link'[c].txaddress
        /\ Received' => Request(buffer', TripOf(c)') /\ Rest(buffer')
        /\ state' = "tx" => Reply(buffer') /\ Reserved(c)'
    BY <1>1 DEF OnRoad
  <1> QED
    BY <1>2, <1>3, <1>4 DEF OnRoad

LEMMA WaitingKept ==
  ASSUME NEW c, Waiting(c),
         TripOf(c)' = TripOf(c), drive'[c].trips = drive[c].trips,
         link'[c].txaddress = link[c].txaddress, link'[c].packet = link[c].packet,
         link'[c].end => link[c].end,
         task'[c] = task[c], booked' = booked,
         Busy' => Busy /\ rxmatch' = rxmatch /\ buffer' = buffer,
         state' = "tx" => state = "tx"
  PROVE  Waiting(c)'
  <1>1. state' = "tx" => Busy'
    BY DEF Busy
  <1> QED
    BY <1>1 DEF Waiting

(* A server that only changes the state of its radio.                      *)
LEMMA LinkKept ==
  ASSUME NEW c, LinkInv(c), UNCHANGED << drive, link, task, rxmatch, buffer, booked >>,
         Received' => Received, state' = "tx" => state = "tx"
  PROVE  LinkInv(c)'
  <1>1. Busy' => Busy
    BY DEF Busy
  <1>2. Asks(c)' = Asks(c) /\ TripOf(c)' = TripOf(c) /\ Alive(c)' = Alive(c)
        /\ Interrupted(c)' = Interrupted(c)
    BY DEF Asks, TripOf, Alive, Interrupted
  <1>3. CASE Asks(c)
    BY <1>1, <1>2, <1>3, WaitingKept DEF LinkInv
  <1>4. CASE ~ Asks(c)
    BY <1>1, <1>2, <1>4, RoadKept DEF LinkInv
  <1> QED
    BY <1>3, <1>4

LEMMA GiveIdLink ==
  ASSUME NEW c, CavInv(c), Ready, state = "txidle", state' = "tx", GiveId, UNCHANGED vehicleVars
  PROVE  LinkInv(c)'
  <1>1. Busy /\ Busy' /\ ~ Received' /\ rxmatch = 0 /\ rxmatch' = rxmatch
    BY DEF Ready, GiveId, Busy, Received
  <1>2. Asks(c)
    BY <1>1 DEF CavInv, LinkInv, OnRoad
  <1>3. Waiting(c)
    BY <1>2 DEF CavInv, LinkInv
  <1>4. buffer \in Bytes /\ current_id \in Nat
    BY DEF CavInv, SingleInv, Typed, ServerTyped
  <1> DEFINE bytes == << current_id + 1, DELAY >>
  <1>5. bytes \in Seq(Nat) /\ Len(bytes) = 2 /\ bytes[1] # 0 /\ 2 <= PacketLength
        /\ PacketLength \in Nat
    BY <1>4, PacketAssumption DEF DELAY
  <1>6. buffer' = Overwrite(buffer, bytes) /\ booked' = booked
    BY DEF GiveId
  <1> HIDE DEF bytes
  <1>7. \A i \in 1 .. PacketLength : buffer'[i] = IF i <= 2 THEN bytes[i] ELSE buffer[i]
    <2>1. \A i \in 1 .. PacketLength :
            Overwrite(buffer, bytes)[i] = IF i <= Len(bytes) THEN bytes[i] ELSE buffer[i]
      BY <1>4, <1>5, OverwriteIs
    <2> QED
      BY <1>5, <1>6, <2>1
  <1>8. buffer'[1] # 0 /\ (Empty(buffer) => Empty(buffer'))
    BY <1>5, <1>7 DEF Empty
  <1>9. Waiting(c)'
    BY <1>1, <1>3, <1>6, <1>8 DEF vehicleVars, Waiting, TripOf
  <1>10. Asks(c)'
    BY <1>2 DEF Asks, vehicleVars
  <1> QED
    BY <1>9, <1>10 DEF LinkInv

LEMMA AskedRoutes ==
  ASSUME NEW c, OnRoad(c), Received
  PROVE  Routes(buffer[2], buffer[3]) \subseteq DemonstrationRoutes
  <1>1. TripOf(c) \in Demonstration /\ Request(buffer, TripOf(c))
    BY DEF OnRoad
  <1> QED
    BY <1>1 DEF DemonstrationRoutes, Request

LEMMA ReserveLink ==
  ASSUME NEW c, OneCar(c), CavInv(c), Ready, state = "txidle", state' = "tx", Reserve,
         UNCHANGED vehicleVars
  PROVE  /\ LinkInv(c)'
         /\ \A v \in DOMAIN booked : booked'[v] = booked[v] \/ booked'[v].start = booked[v].goal
  <1>1. Busy /\ Busy' /\ Received /\ ~ Received' /\ rxmatch # 0 /\ rxmatch' = rxmatch
    BY DEF Ready, Reserve, Busy, Received
  <1>2. ~ Asks(c)
    BY <1>1 DEF CavInv, LinkInv, Waiting
  <1>3. OnRoad(c)
    BY <1>2 DEF CavInv, LinkInv
  <1>4. buffer \in Bytes /\ RoutesSuit
    BY DEF CavInv, SingleInv, Typed, ServerTyped, OneCar
  <1>5. /\ Rest(buffer) /\ rxmatch = link[c].txaddress /\ Follows(c)
        /\ buffer[2] = drive[c].previous /\ buffer[3] = drive[c].current
        /\ Alive(c) # {} /\ ~ Interrupted(c)
    BY <1>1, <1>3 DEF OnRoad, Request, TripOf
  <1>6. PICK orders \in Routes(buffer[2], buffer[3]) : buffer' = Overwrite(buffer, orders)
    BY DEF Reserve
  <1>7. orders \in DemonstrationRoutes
    BY <1>1, <1>3, AskedRoutes
  <1>8. Reply(buffer')
    BY <1>4, <1>5, <1>6, <1>7, ReplyPacket
  <1> DEFINE trip == [start |-> drive[c].previous, goal |-> drive[c].current]
  <1>9. booked' = [v \in DOMAIN booked \cup {link[c].txaddress} |->
                     IF v = link[c].txaddress THEN trip ELSE booked[v]]
    BY <1>5 DEF Reserve
  <1>10. DOMAIN booked \subseteq {link[c].txaddress}
    BY <1>5 DEF Follows
  <1>11. DOMAIN booked' = {link[c].txaddress} /\ booked'[link[c].txaddress] = trip
    <2> HIDE DEF trip
    <2> QED
      BY <1>9, <1>10
  <1>12. UNCHANGED << drive, link, task >>
    BY DEF vehicleVars
  <1>13. /\ Reserved(c)' /\ Alive(c)' = Alive(c) /\ Interrupted(c)' = Interrupted(c)
         /\ Asks(c)' = Asks(c) /\ TripOf(c)' = TripOf(c)
    BY <1>11, <1>12 DEF Reserved, Alive, Interrupted, Asks, TripOf
  <1>14. Follows(c)'
    BY <1>11, <1>12 DEF Follows
  <1>15. OnRoad(c)'
    BY <1>1, <1>3, <1>5, <1>8, <1>12, <1>13, <1>14 DEF OnRoad
  <1>16. \A v \in DOMAIN booked : booked'[v] = booked[v] \/ booked'[v].start = booked[v].goal
    BY <1>5, <1>11 DEF Follows
  <1> QED
    BY <1>2, <1>13, <1>15, <1>16 DEF LinkInv

LEMMA ServerLink ==
  ASSUME NEW c, OneCar(c), CavInv(c), ServerAlone
  PROVE  /\ LinkInv(c)'
         /\ \A v \in DOMAIN booked : booked'[v] = booked[v] \/ booked'[v].start = booked[v].goal
  <1>0. LinkInv(c) /\ EventsInOrder /\ UNCHANGED vehicleVars
    BY DEF CavInv, ServerAlone
  <1>1. CASE Radio
    <2>1. UNCHANGED << rxmatch, buffer, booked >> /\ state' # "tx"
      BY <1>1 DEF Radio
    <2>2. Received' => Received
      BY <1>0, <1>1 DEF Radio, EventsInOrder, Received
    <2> QED
      BY <1>0, <2>1, <2>2, LinkKept DEF vehicleVars
  <1>2. CASE Disabled
    <2>1. UNCHANGED << rxmatch, buffer, booked >> /\ state' # "tx" /\ ~ Received'
      BY <1>2 DEF Disabled, Received
    <2> QED
      BY <1>0, <2>1, LinkKept DEF vehicleVars
  <1>3. CASE End
    <2>1. UNCHANGED << rxmatch, buffer, booked >> /\ state' # "tx"
      BY <1>0, <1>3 DEF End, EventsInOrder
    <2>2. Received' => Received
      BY <1>0, <1>3 DEF End, EventsInOrder, Received
    <2> QED
      BY <1>0, <2>1, <2>2, LinkKept DEF vehicleVars
  <1>4. CASE Ready /\ state' = "rx"
    <2>1. UNCHANGED << rxmatch, buffer, booked >> /\ ~ Received'
      BY <1>4 DEF Ready, Received
    <2> QED
      BY <1>0, <1>4, <2>1, LinkKept DEF vehicleVars
  <1>5. CASE Ready /\ state = "txidle" /\ state' = "tx" /\ GiveId
    <2>1. booked' = booked
      BY <1>5 DEF GiveId
    <2> QED
      BY <1>0, <1>5, <2>1, GiveIdLink
  <1>6. CASE Ready /\ state = "txidle" /\ state' = "tx" /\ Reserve
    BY <1>0, <1>6, ReserveLink
  <1> QED
    BY <1>1, <1>2, <1>3, <1>4, <1>5, <1>6 DEF ServerAlone, radio_interrupt_handler, Ready

(* What a transmission does to the only car.                               *)
LEMMA SendIs ==
  ASSUME NEW c, OneCar(c), CarsTyped, CarSends(c), NEW cars, c \notin cars, Transmission(c, cars)
  PROVE  /\ link'[c] = [link[c] EXCEPT !.radio = "txidle", !.end = FALSE]
         /\ \/ AskSend(c) /\ task' = task /\ drive'[c] = [drive[c] EXCEPT !.pc = "asked"]
            \/ /\ \E t \in Task : TransferSend(c, t)
               /\ drive' = drive /\ Alive(c)' = Alive(c) /\ Alive(c) # {}
               /\ \A t \in Task : task[c][t] = "none" => task'[c][t] = "none"
  <1>0. c \in Car
    BY DEF OneCar
  <1>1. link'[c] = [link[c] EXCEPT !.radio = "txidle", !.end = FALSE]
    BY <1>0 DEF Transmission, LinksHearing, CarsTyped
  <1>2. CASE AskSend(c)
    BY <1>0, <1>1, <1>2 DEF AskSend, CarsTyped
  <1>3. CASE \E t \in Task : TransferSend(c, t)
    <2>1. PICK t \in Task : TransferSend(c, t)
      BY <1>3
    <2>2. Alive(c)' = Alive(c) /\ t \in Alive(c)
      BY <1>0, <2>1, TransferAlive
    <2>3. drive' = drive /\ task' = [task EXCEPT ![c][t] = "sent"] /\ task[c][t] # "none"
      BY <2>1 DEF TransferSend
    <2>4. \A u \in Task : task[c][u] = "none" => task'[c][u] = "none"
      BY <1>0, <2>3 DEF CarsTyped, Tasks
    <2> QED
      BY <1>1, <2>1, <2>2, <2>3, <2>4
  <1> QED
    BY <1>2, <1>3 DEF CarSends

LEMMA HeardLink ==
  ASSUME NEW c, OneCar(c), CavInv(c), CarHeard(c)
  PROVE  LinkInv(c)'
  <1>0. CarsTyped /\ LinkInv(c) /\ EventsInOrder /\ c \in Car /\ Single(c)
    BY DEF CavInv, SingleInv, Typed, OneCar
  <1>1. CarSends(c) /\ Transmission(c, {}) /\ Receive(link[c].txaddress, link[c].packet, c)
    BY DEF CarHeard
  <1>2. drive[c] \in Drives /\ link[c] \in Links
    BY <1>0 DEF CarsTyped
  <1>3. /\ link'[c].radio = "txidle" /\ link'[c].end = FALSE
        /\ link'[c].txaddress = link[c].txaddress /\ link'[c].packet = link[c].packet
        /\ ~ Interrupted(c)'
    BY <1>0, <1>1, <1>2, SendIs DEF Links, Interrupted
  <1>4. /\ ~ Busy /\ Busy' /\ state' = "rxidle" /\ rxmatch' = link[c].txaddress
        /\ buffer' = link[c].packet /\ booked' = booked
    BY <1>0, <1>1 DEF Receive, EventsInOrder, Busy, Received
  <1>5. CASE AskSend(c)
    <2>1. task' = task /\ drive'[c] = [drive[c] EXCEPT !.pc = "asked"] /\ Asks(c)
      BY <1>0, <1>1, <1>5, SendIs DEF AskSend, TransferSend, Asks, Turn, Blocked
    <2>2. /\ drive'[c].pc = "asked" /\ drive'[c].trips = drive[c].trips
          /\ TripOf(c)' = TripOf(c)
      BY <1>2, <2>1 DEF Drives, TripOf
    <2>3. Waiting(c)
      BY <1>0, <2>1 DEF LinkInv
    <2>4. Waiting(c)'
      BY <1>3, <1>4, <2>1, <2>2, <2>3 DEF Waiting
    <2>5. Asks(c)'
      BY <2>2 DEF Asks
    <2> QED
      BY <2>4, <2>5 DEF LinkInv
  <1>6. CASE \E t \in Task : TransferSend(c, t)
    <2>1. /\ ~ Asks(c) /\ ~ Interrupted(c)
      BY <1>6 DEF TransferSend, Turn, Blocked, Asks
    <2>2. /\ drive' = drive /\ Alive(c)' = Alive(c) /\ Alive(c) # {}
          /\ \A t \in Task : task[c][t] = "none" => task'[c][t] = "none"
      BY <1>0, <1>1, <2>1, SendIs DEF AskSend, Asks
    <2>3. OnRoad(c)
      BY <1>0, <2>1 DEF LinkInv
    <2>4. Request(link[c].packet, TripOf(c)) /\ Rest(link[c].packet)
      BY <2>1, <2>2, <2>3 DEF OnRoad
    <2>5. Follows(c)' = Follows(c) /\ TripOf(c)' = TripOf(c) /\ Asks(c)' = Asks(c)
      BY <1>3, <1>4, <2>2 DEF Follows, TripOf, Asks
    <2>6. OnRoad(c)'
      BY <1>3, <1>4, <2>2, <2>3, <2>4, <2>5 DEF OnRoad
    <2> QED
      BY <2>1, <2>5, <2>6 DEF LinkInv
  <1> QED
    BY <1>1, <1>5, <1>6 DEF CarSends

LEMMA LostLink ==
  ASSUME NEW c, OneCar(c), CavInv(c), CarLost(c)
  PROVE  LinkInv(c)'
  <1>0. CarsTyped /\ LinkInv(c) /\ c \in Car /\ Car = {c}
    BY DEF CavInv, SingleInv, Typed, OneCar
  <1>1. PICK cars \in SUBSET (Listeners(link[c].txaddress) \ {c}) : Transmission(c, cars)
    BY DEF CarLost
  <1>2. CarSends(c) /\ UNCHANGED serverVars /\ c \notin cars
    BY <1>1 DEF CarLost
  <1>3. drive[c] \in Drives /\ link[c] \in Links
    BY <1>0 DEF CarsTyped
  <1>a. link'[c] = [link[c] EXCEPT !.radio = "txidle", !.end = FALSE]
    BY <1>0, <1>1, <1>2, SendIs
  <1>4. /\ link'[c].end = FALSE
        /\ link'[c].txaddress = link[c].txaddress /\ link'[c].packet = link[c].packet
        /\ ~ Interrupted(c)'
    BY <1>3, <1>a DEF Links, Interrupted
  <1>5. Busy' = Busy /\ Received' = Received /\ UNCHANGED << state, rxmatch, buffer, booked >>
    BY <1>2 DEF serverVars, Busy, Received
  <1>6. CASE AskSend(c)
    <2>1. task' = task /\ drive'[c] = [drive[c] EXCEPT !.pc = "asked"] /\ Asks(c)
      BY <1>0, <1>1, <1>2, <1>6, SendIs DEF AskSend, TransferSend, Asks, Turn, Blocked
    <2>2. /\ drive'[c].pc = "asked" /\ drive'[c].trips = drive[c].trips
          /\ TripOf(c)' = TripOf(c)
      BY <1>3, <2>1 DEF Drives, TripOf
    <2>3. Waiting(c)
      BY <1>0, <2>1 DEF LinkInv
    <2>4. Waiting(c)'
      BY <1>4, <1>5, <2>1, <2>2, <2>3, WaitingKept
    <2>5. Asks(c)'
      BY <2>2 DEF Asks
    <2> QED
      BY <2>4, <2>5 DEF LinkInv
  <1>7. CASE \E t \in Task : TransferSend(c, t)
    <2>1. /\ ~ Asks(c) /\ ~ Interrupted(c)
      BY <1>7 DEF TransferSend, Turn, Blocked, Asks
    <2>2. /\ drive' = drive /\ Alive(c)' = Alive(c) /\ Alive(c) # {}
          /\ \A t \in Task : task[c][t] = "none" => task'[c][t] = "none"
      BY <1>0, <1>1, <1>2, <2>1, SendIs DEF AskSend, Asks
    <2>3. OnRoad(c)
      BY <1>0, <2>1 DEF LinkInv
    <2>4. TripOf(c)' = TripOf(c) /\ Asks(c)' = Asks(c)
      BY <2>2 DEF TripOf, Asks
    <2>a. Interrupted(c)' <=> Interrupted(c)
      BY <1>4, <2>1
    <2>b. drive'[c].trips = drive[c].trips /\ drive'[c].previous = drive[c].previous
          /\ drive'[c].current = drive[c].current
      BY <2>2
    <2>5. OnRoad(c)'
      BY <1>4, <1>5, <2>2, <2>3, <2>4, <2>a, <2>b, RoadKept
    <2> QED
      BY <2>1, <2>4, <2>5 DEF LinkInv
  <1> QED
    BY <1>2, <1>6, <1>7 DEF CarSends

LEMMA AnswerLink ==
  ASSUME NEW c, OneCar(c), CavInv(c), NEW cars \in SUBSET Listeners(0), Answer(cars)
  PROVE  LinkInv(c)'
  <1>0. CarsTyped /\ LinkInv(c) /\ c \in Car /\ Car = {c} /\ Single(c) /\ RoutesSuit
    BY DEF CavInv, SingleInv, Typed, OneCar
  <1>1. /\ link' = LinksHearing(cars, buffer, asker, link) /\ UNCHANGED << drive, task >>
        /\ state = "tx" /\ state' = "txidle" /\ UNCHANGED << rxmatch, buffer, booked >>
    BY DEF Answer, Sent
  <1>2. Busy /\ ~ Busy' /\ ~ Received'
    <2>1. event = {} /\ event' = event \cup {"END"}
      BY <1>1 DEF Answer, Sent, CavInv, EventsInOrder
    <2>2. event' = {"END"}
      BY <2>1
    <2> QED
      BY <1>1, <2>2 DEF Busy, Received
  <1>3. link'[c] = IF c \in cars THEN Heard(link[c], buffer, asker) ELSE link[c]
    BY <1>0, <1>1 DEF LinksHearing
  <1>4. TripOf(c)' = TripOf(c) /\ Asks(c)' = Asks(c) /\ Alive(c)' = Alive(c)
    BY <1>1 DEF TripOf, Asks, Alive
  <1>5. CASE c \notin cars
    <2>1. link'[c] = link[c]
      BY <1>3, <1>5
    <2>2. Interrupted(c)' = Interrupted(c)
      BY <2>1 DEF Interrupted
    <2> QED
      BY <1>0, <1>1, <1>2, <1>4, <2>1, <2>2, WaitingKept, RoadKept DEF LinkInv
  <1>6. CASE c \in cars
    <2>1. link[c].radio = "rx" /\ (link[c].enabled \/ drive[c].pc = "asking")
      BY <1>6 DEF Listeners, Listens, Masked, OneCar
    <2>2. /\ link'[c].radio = "rxidle" /\ link'[c].end = TRUE /\ link'[c].packet = buffer
          /\ link'[c].txaddress = link[c].txaddress /\ link'[c].enabled = link[c].enabled
      BY <1>0, <1>3, <1>6 DEF Heard, Links, CarsTyped
    <2>3. CASE Asks(c)
      <3>1. Waiting(c)
        BY <1>0, <2>3 DEF LinkInv
      <3>2. Waiting(c)'
        BY <1>1, <1>2, <1>4, <2>2, <3>1 DEF Waiting
      <3> QED
        BY <1>4, <2>3, <3>2 DEF LinkInv
    <2>4. CASE ~ Asks(c)
      <3>1. OnRoad(c)
        BY <1>0, <2>4 DEF LinkInv
      <3>2. Interrupted(c)' /\ ~ Interrupted(c)
        BY <2>1, <2>2, <2>4 DEF Interrupted, Asks
      <3>3. Alive(c) # {} /\ Reply(buffer) /\ Reserved(c)
        BY <1>1, <1>2, <3>1 DEF OnRoad
      <3>4. Rest(buffer)
        BY <1>0, <3>3, ReplyRest
      <3>5. Reserved(c)' /\ Follows(c)' = Follows(c)
        BY <1>1, <2>2, <3>3 DEF Reserved, Follows
      <3>6. OnRoad(c)'
        BY <1>1, <1>2, <1>4, <2>2, <3>1, <3>2, <3>3, <3>4, <3>5 DEF OnRoad
      <3> QED
        BY <1>4, <2>4, <3>6 DEF LinkInv
    <2> QED
      BY <2>3, <2>4
  <1> QED
    BY <1>5, <1>6

(* What changes nothing of the drive task but where it is and its list.    *)
LEMMA DriveLink ==
  ASSUME NEW c, OnRoad(c), UNCHANGED << link, task >>, UNCHANGED serverVars,
         drive'[c].trips = drive[c].trips,
         drive'[c].previous = drive[c].previous, drive'[c].current = drive[c].current
  PROVE  OnRoad(c)'
  <1>1. UNCHANGED << state, event, rxmatch, buffer, booked >>
    BY DEF serverVars
  <1>2. Busy' = Busy /\ Received' = Received
    BY <1>1 DEF Busy, Received
  <1>3. /\ TripOf(c)' = TripOf(c) /\ Alive(c)' = Alive(c)
        /\ (Interrupted(c)' <=> Interrupted(c))
    BY DEF TripOf, Alive, Interrupted
  <1> QED
    BY <1>1, <1>2, <1>3, RoadKept

(* The request that reserve_order writes into the packet. *)
LEMMA ReserveRequest ==
  ASSUME CarsTyped, NEW c \in Car, NEW d \in Drives, NEW l \in Links, NEW delay \in Nat,
         reserve_order(c, d, l, delay), Rest(l.packet)
  PROVE  /\ link'[c].radio = l.radio /\ link'[c].end = l.end /\ link'[c].enabled = l.enabled
         /\ link'[c].txaddress = l.txaddress
         /\ Rest(link'[c].packet) /\ Request(link'[c].packet, TripOf(c)')
  <1> DEFINE n == NextTrip(d)
             t == IF FreeTasks(c) = {} THEN E_LIMIT ELSE Min(FreeTasks(c))
             p == Overwrite(l.packet, << delay, n.previous, n.current >>)
             k == [l EXCEPT !.packet = p, !.task_id = t]
  <1>1. drive' = [drive EXCEPT ![c] = n] /\ link' = [link EXCEPT ![c] = k]
    BY DEF reserve_order
  <1>2. n \in Drives /\ l.packet \in Bytes
    BY NextTripType DEF Links
  <1>3. Rest(p) /\ Request(p, << n.previous, n.current >>)
    <2> HIDE DEF n
    <2> QED
      BY <1>2, RequestPacket
  <1> HIDE DEF n, t, p
  <1>4. drive'[c] = n /\ link'[c] = k
    BY <1>1 DEF CarsTyped
  <1>5. /\ k.radio = l.radio /\ k.end = l.end /\ k.enabled = l.enabled
        /\ k.txaddress = l.txaddress /\ k.packet = p
    BY DEF Links
  <1>6. TripOf(c)' = << n.previous, n.current >>
    BY <1>4 DEF TripOf
  <1> HIDE DEF k
  <1> QED
    BY <1>3, <1>4, <1>5, <1>6

LEMMA AdoptLink ==
  ASSUME NEW c, OneCar(c), CavInv(c), Adopt(c), UNCHANGED serverVars
  PROVE  LinkInv(c)'
  <1> DEFINE l == [link[c] EXCEPT !.end = FALSE, !.txaddress = link[c].packet[1]]
             e == [drive[c] EXCEPT !.pc = "sleep"]
             delay == link[c].packet[2]
  <1>0. /\ CarsTyped /\ c \in Car /\ Single(c) /\ drive[c] \in Drives /\ link[c] \in Links
        /\ drive[c].pc = "asking" /\ link[c].end
        /\ reserve_order(c, e, l, delay)
    BY DEF CavInv, SingleInv, Typed, CarsTyped, OneCar, Adopt
  <1>1. Asks(c) /\ Waiting(c)
    BY <1>0 DEF CavInv, LinkInv, Asks
  <1>2. link[c].packet \in Bytes /\ link[c].packet[1] \in Nat /\ delay \in Nat
    BY <1>0, PacketAssumption DEF Links, Bytes
  <1>3. l \in Links /\ l.txaddress = link[c].packet[1] /\ l.packet = link[c].packet
        /\ l.enabled = link[c].enabled
    BY <1>0, <1>2 DEF Links
  <1>4. e \in Drives /\ e.pc = "sleep" /\ e.trips = 0 /\ e.current = POS(0, 0)
    BY <1>0, <1>1 DEF Drives, Waiting, TripOf
  <1> HIDE DEF l, e, delay
  <1>5. NextTrip(e) \in Drives
    BY <1>4, NextTripType
  <1>6. /\ NextTrip(e).pc = "sleep" /\ NextTrip(e).trips = 1
        /\ NextTrip(e).previous = POS(0, 0) /\ NextTrip(e).current = POS(4, 0)
    BY <1>4 DEF NextTrip, Drives, POS
  <1>7. /\ drive'[c] = NextTrip(e)
        /\ Alive(c)' = Alive(c) \cup (IF FreeTasks(c) = {} THEN {} ELSE {link'[c].task_id})
        /\ task'[c] = IF FreeTasks(c) = {} THEN task[c]
                      ELSE [task[c] EXCEPT ![Min(FreeTasks(c))] = "start"]
    BY <1>0, <1>2, <1>3, <1>4, ReserveIs
  <1>13. Rest(l.packet)
    BY <1>1, <1>3, EmptyRest DEF Waiting
  <1>8. /\ link'[c].txaddress = l.txaddress /\ link'[c].enabled = l.enabled
        /\ Rest(link'[c].packet) /\ Request(link'[c].packet, TripOf(c)')
    BY <1>0, <1>2, <1>3, <1>4, <1>13, ReserveRequest
  <1>9. FreeTasks(c) = Task /\ 1 \in Task
    BY <1>1, VehicleAssumption DEF FreeTasks, Waiting, Task, OneCar
  <1>10. Min(FreeTasks(c)) \in Task /\ Min(FreeTasks(c)) <= 1
    <2>1. FreeTasks(c) \in SUBSET Nat
      BY <1>9, VehicleAssumption DEF Task
    <2> QED
      BY <1>9, <2>1, LeastNumber
  <1>11. \A t \in Task : t > 1 => task'[c][t] = "none"
    <2> DEFINE m == Min(FreeTasks(c))
    <2>1. task'[c] = [task[c] EXCEPT ![m] = "start"]
      BY <1>7, <1>9
    <2>2. task[c] \in Tasks /\ m \in Task /\ m <= 1 /\ Task \subseteq Int
      BY <1>0, <1>10 DEF CarsTyped, Task
    <2>3. \A t \in Task : task[c][t] = "none"
      BY <1>1 DEF Waiting
    <2> HIDE DEF m
    <2> QED
      BY <2>1, <2>2, <2>3 DEF Tasks
  <1>12. Alive(c)' # {} /\ ~ Interrupted(c)' /\ ~ Asks(c)'
    BY <1>0, <1>1, <1>3, <1>6, <1>7, <1>8, <1>9 DEF Single, Interrupted, Asks
  <1>15. UNCHANGED << state, event, rxmatch, buffer, booked >>
    BY DEF serverVars
  <1>16. ~ Busy' /\ ~ Received' /\ state' # "tx" /\ DOMAIN booked' = {} /\ link'[c].txaddress # 0
    BY <1>0, <1>1, <1>3, <1>8, <1>15 DEF Waiting, Busy, Received
  <1>17. TripOf(c)' \in Demonstration /\ drive'[c].trips = 1
    BY <1>6, <1>7 DEF TripOf, Demonstration
  <1>18. Follows(c)'
    BY <1>16 DEF Follows
  <1>19. OnRoad(c)'
    BY <1>8, <1>11, <1>12, <1>16, <1>17, <1>18 DEF OnRoad
  <1> QED
    BY <1>12, <1>19 DEF LinkInv

LEMMA RequestLink ==
  ASSUME NEW c, OneCar(c), CavInv(c), process_orders(c), ~ Enough(drive[c]), UNCHANGED serverVars
  PROVE  OnRoad(c)' /\ Alive(c)' # {}
  <1> DEFINE d == drive[c]
             e == [d EXCEPT !.pc = "get", !.sent_flag = TRUE, !.last_count = Len(d.order_list)]
             delay == calculate_departure_delay_s(d.order_list)
  <1>0. /\ CarsTyped /\ c \in Car /\ Single(c) /\ d \in Drives /\ link[c] \in Links
        /\ d.pc = "check" /\ ~ Interrupted(c) /\ d.trips < MaxTrips
        /\ reserve_order(c, e, link[c], delay)
    BY DEF CavInv, SingleInv, Typed, CarsTyped, OneCar, process_orders, Step
  <1>1. ~ Asks(c) /\ OnRoad(c)
    BY <1>0 DEF CavInv, LinkInv, Asks
  <1>2. Alive(c) = {}
    BY <1>0, <1>1 DEF Single, Enough
  <1>3. /\ d.order_list \in Seq(Nat) /\ d.trips \in Nat /\ MaxTrips \in Nat /\ MaxTask \in Nat
        /\ MaxTrips <= MaxTask
    BY <1>0, VehicleAssumption DEF Drives, OneCar
  <1>4. delay \in Nat
    BY <1>3, DelayType
  <1>5. /\ e \in Drives /\ e.trips = d.trips /\ e.previous = d.previous /\ e.current = d.current
    <2>0. Len(d.order_list) \in Nat
      BY <1>3
    <2>1. e \in Drives
      BY <1>0, <2>0 DEF Drives
    <2>2. e.trips = d.trips /\ e.previous = d.previous /\ e.current = d.current
      BY <1>0 DEF Drives
    <2> QED
      BY <2>1, <2>2
  <1> HIDE DEF e, delay
  <1>6. /\ NextTrip(e).trips = d.trips + 1 /\ NextTrip(e).previous = d.current
        /\ NextTrip(e).current = IF d.current = POS(4, 0) THEN POS(0, 4) ELSE POS(4, 0)
    BY <1>5 DEF NextTrip, Drives
  <1> HIDE DEF d
  <1>7. /\ drive'[c] = NextTrip(e)
        /\ Alive(c)' = Alive(c) \cup (IF FreeTasks(c) = {} THEN {} ELSE {link'[c].task_id})
        /\ task'[c] = IF FreeTasks(c) = {} THEN task[c]
                      ELSE [task[c] EXCEPT ![Min(FreeTasks(c))] = "start"]
    BY <1>0, <1>4, <1>5, ReserveIs
  <1>8. Rest(link[c].packet)
    BY <1>1 DEF OnRoad
  <1>9. /\ link'[c].txaddress = link[c].txaddress /\ link'[c].enabled = link[c].enabled
        /\ link'[c].end = link[c].end /\ link'[c].radio = link[c].radio
        /\ Rest(link'[c].packet) /\ Request(link'[c].packet, TripOf(c)')
    BY <1>0, <1>4, <1>5, <1>8, ReserveRequest
  <1>10. ~ Interrupted(c)'
    BY <1>0, <1>9 DEF Interrupted
  <1>11. d.trips + 1 \in FreeTasks(c) /\ d.trips + 1 \in Task
    BY <1>0, <1>1, <1>3 DEF FreeTasks, OnRoad, Task, d
  <1>12. Min(FreeTasks(c)) \in Task /\ Min(FreeTasks(c)) <= d.trips + 1
    <2>1. FreeTasks(c) \in SUBSET Nat /\ FreeTasks(c) \subseteq Task
      BY VehicleAssumption DEF FreeTasks, Task
    <2> QED
      BY <1>11, <2>1, LeastNumber
  <1>13. \A t \in Task : t > d.trips + 1 => task'[c][t] = "none"
    <2> DEFINE m == Min(FreeTasks(c))
    <2>1. task'[c] = [task[c] EXCEPT ![m] = "start"]
      BY <1>7, <1>11
    <2>2. task[c] \in Tasks /\ m \in Task /\ m <= d.trips + 1 /\ Task \subseteq Int
      BY <1>0, <1>12 DEF CarsTyped, Task
    <2>3. \A t \in Task : t > d.trips => task[c][t] = "none"
      BY <1>1 DEF OnRoad, d
    <2> HIDE DEF m
    <2> QED
      BY <1>3, <2>1, <2>2, <2>3 DEF Tasks
  <1>14. Alive(c)' # {}
    BY <1>7, <1>11
  <1>15. UNCHANGED << state, event, rxmatch, buffer, booked >>
    BY DEF serverVars
  <1>16. ~ Busy' /\ ~ Received' /\ state' # "tx"
    BY <1>1, <1>2, <1>15 DEF OnRoad, Busy, Received
  <1>17. TripOf(c)' \in Demonstration /\ drive'[c].trips <= MaxTrips /\ drive'[c].trips = d.trips + 1
    <2>1. << d.previous, d.current >> \in Demonstration
      BY <1>1 DEF OnRoad, TripOf, d
    <2>2. TripOf(c)' \in Demonstration
      BY <1>6, <1>7, <2>1 DEF TripOf, Demonstration, POS
    <2> QED
      BY <1>0, <1>3, <1>6, <1>7, <2>2
  <1>18. Follows(c)'
    <2>1. DOMAIN booked = {link[c].txaddress} /\ booked[link[c].txaddress].goal = d.current
      BY <1>1, <1>2 DEF OnRoad, Reserved, d
    <2> QED
      BY <1>6, <1>7, <1>9, <1>15, <2>1 DEF Follows
  <1>19. link'[c].txaddress # 0
    BY <1>1, <1>9 DEF OnRoad
  <1> QED
    BY <1>9, <1>10, <1>13, <1>14, <1>16, <1>17, <1>18, <1>19 DEF OnRoad

LEMMA TransferLink ==
  ASSUME NEW c, OneCar(c), CavInv(c), UNCHANGED serverVars,
         NEW t \in Task, TransferListen(c, t) \/ TransferTimeout(c, t)
  PROVE  LinkInv(c)'
  <1>0. /\ CarsTyped /\ c \in Car /\ LinkInv(c) /\ link[c] \in Links /\ drive' = drive
        /\ ~ Interrupted(c) /\ ~ Asks(c)
    BY DEF CavInv, SingleInv, Typed, CarsTyped, OneCar, TransferListen, TransferTimeout, Turn,
           Blocked, Asks
  <1>1. OnRoad(c)
    BY <1>0 DEF LinkInv
  <1>2. Alive(c)' = Alive(c)
    BY <1>0, TransferAlive
  <1>3. \A u \in Task : task[c][u] = "none" => task'[c][u] = "none"
    <2>1. /\ task' = [task EXCEPT ![c][t] = "listening"] \/ task' = [task EXCEPT ![c][t] = "woken"]
          /\ task[c][t] # "none" /\ task[c] \in Tasks
      BY <1>0 DEF TransferListen, TransferTimeout, CarsTyped
    <2> QED
      BY <1>0, <2>1 DEF CarsTyped, Tasks
  <1>4. /\ link'[c].txaddress = link[c].txaddress /\ link'[c].packet = link[c].packet
        /\ ~ Interrupted(c)'
    <2>1. CASE TransferListen(c, t)
      <3>1. link'[c] = [StartListening(link[c]) EXCEPT !.enabled = TRUE]
        BY <1>0, <2>1 DEF TransferListen, CarsTyped
      <3>2. /\ link'[c].txaddress = link[c].txaddress /\ link'[c].packet = link[c].packet
            /\ link'[c].end = FALSE
        BY <1>0, <3>1 DEF StartListening, Links
      <3> QED
        BY <3>2 DEF Interrupted
    <2>2. CASE TransferTimeout(c, t)
      <3>1. link'[c] = [link[c] EXCEPT !.enabled = FALSE]
        BY <1>0, <2>2 DEF TransferTimeout, CarsTyped
      <3>2. /\ link'[c].txaddress = link[c].txaddress /\ link'[c].packet = link[c].packet
            /\ link'[c].enabled = FALSE
        BY <1>0, <3>1 DEF Links
      <3> QED
        BY <3>2 DEF Interrupted
    <2> QED
      BY <2>1, <2>2
  <1>5. /\ TripOf(c)' = TripOf(c) /\ Asks(c)' = Asks(c) /\ drive'[c].trips = drive[c].trips
        /\ drive'[c].previous = drive[c].previous /\ drive'[c].current = drive[c].current
    BY <1>0 DEF TripOf, Asks
  <1>6. UNCHANGED << state, event, rxmatch, buffer, booked >>
    BY DEF serverVars
  <1>7. Busy' = Busy /\ Received' = Received
    BY <1>6 DEF Busy, Received
  <1>8. OnRoad(c)'
    BY <1>0, <1>1, <1>2, <1>3, <1>4, <1>5, <1>6, <1>7, RoadKept
  <1> QED
    BY <1>0, <1>5, <1>8 DEF LinkInv

LEMMA HandlerLink ==
  ASSUME NEW c, OneCar(c), CavInv(c), receive_interrupt_handler(c), UNCHANGED serverVars
  PROVE  LinkInv(c)'
  <1>0. /\ CarsTyped /\ c \in Car /\ LinkInv(c) /\ link[c] \in Links /\ drive[c] \in Drives
        /\ Interrupted(c) /\ RoutesSuit /\ Single(c)
    BY DEF CavInv, SingleInv, Typed, CarsTyped, OneCar, receive_interrupt_handler
  <1>1. ~ Asks(c)
    BY <1>0 DEF Single, Interrupted
  <1>2. OnRoad(c)
    BY <1>0, <1>1 DEF LinkInv
  <1>3. /\ Alive(c) # {} /\ Reserved(c) /\ Reply(link[c].packet) /\ ~ Busy
    BY <1>0, <1>2 DEF OnRoad
  <1>4. Alive(c) \subseteq {link[c].task_id}
    BY <1>0 DEF Single
  <1>5. /\ drive'[c] = [drive[c] EXCEPT
             !.order_list = Appended(drive[c].order_list, OrdersIn(link[c].packet))]
        /\ link'[c] = [link[c] EXCEPT !.end = FALSE, !.radio = "disabled", !.enabled = FALSE]
        /\ Alive(c)' = {}
        /\ \A t \in Task :
             task'[c][t] = IF t = link[c].task_id THEN "dormant" ELSE task[c][t]
    BY <1>0, <1>4, HandlerIs
  <1>6. /\ link'[c].txaddress = link[c].txaddress /\ link'[c].packet = link[c].packet
        /\ ~ Interrupted(c)'
    BY <1>0, <1>5 DEF Links, Interrupted
  <1>7. /\ TripOf(c)' = TripOf(c) /\ Asks(c)' = Asks(c) /\ drive'[c].trips = drive[c].trips
        /\ drive'[c].previous = drive[c].previous /\ drive'[c].current = drive[c].current
    <2> DEFINE list == Appended(drive[c].order_list, OrdersIn(link[c].packet))
    <2>1. drive'[c] = [drive[c] EXCEPT !.order_list = list]
      BY <1>5
    <2> HIDE DEF list
    <2>2. /\ drive'[c].trips = drive[c].trips /\ drive'[c].pc = drive[c].pc
          /\ drive'[c].previous = drive[c].previous /\ drive'[c].current = drive[c].current
      BY <1>0, <2>1 DEF Drives
    <2> QED
      BY <2>2 DEF TripOf, Asks
  <1>8. UNCHANGED << state, event, rxmatch, buffer, booked >>
    BY DEF serverVars
  <1>9. ~ Busy' /\ ~ Received' /\ state' # "tx"
    BY <1>3, <1>8 DEF Busy, Received
  <1>10. Reserved(c)' = Reserved(c) /\ Follows(c)' = Follows(c)
    BY <1>6, <1>7, <1>8 DEF Reserved, Follows
  <1>11. \A t \in Task : t > drive'[c].trips => task'[c][t] = "none"
    <2> SUFFICES ASSUME NEW t \in Task, t > drive[c].trips PROVE task'[c][t] = "none"
      BY <1>7
    <2>1. task[c][t] = "none"
      BY <1>2 DEF OnRoad
    <2>2. t \notin Alive(c)
      BY <2>1 DEF Alive
    <2>3. PICK a \in Task : a \in Alive(c)
      BY <1>3 DEF Alive
    <2>4. t # link[c].task_id
      BY <1>4, <2>2, <2>3
    <2> QED
      BY <1>5, <2>1, <2>4
  <1>12. OnRoad(c)'
    BY <1>2, <1>3, <1>5, <1>6, <1>7, <1>9, <1>10, <1>11 DEF OnRoad
  <1> QED
    BY <1>1, <1>7, <1>12 DEF LinkInv

LEMMA AskingLink ==
  ASSUME NEW c, OneCar(c), CavInv(c), AskListen(c) \/ AskAgain(c), UNCHANGED serverVars
  PROVE  LinkInv(c)'
  <1>0. /\ CarsTyped /\ c \in Car /\ LinkInv(c) /\ link[c] \in Links /\ drive[c] \in Drives
        /\ Asks(c)
    BY DEF CavInv, SingleInv, Typed, CarsTyped, OneCar, AskListen, AskAgain, Asks
  <1>1. Waiting(c)
    BY <1>0 DEF LinkInv
  <1>2. \E next \in {"ask", "asking"} : drive'[c] = [drive[c] EXCEPT !.pc = next]
    BY <1>0 DEF AskListen, AskAgain, CarsTyped
  <1>3. /\ drive'[c].pc \in {"ask", "asking"} /\ drive'[c].trips = drive[c].trips
        /\ TripOf(c)' = TripOf(c)
    BY <1>0, <1>2 DEF Drives, TripOf
  <1>4. /\ link'[c].txaddress = link[c].txaddress /\ link'[c].packet = link[c].packet
        /\ (link'[c].end => link[c].end)
    <2>1. CASE AskListen(c)
      <3>1. link'[c] = StartListening(link[c])
        BY <1>0, <2>1 DEF AskListen, CarsTyped
      <3> QED
        BY <1>0, <3>1 DEF StartListening, Links
    <2>2. CASE AskAgain(c)
      BY <2>2 DEF AskAgain
    <2> QED
      BY <2>1, <2>2
  <1>5. task' = task /\ UNCHANGED << state, event, rxmatch, buffer, booked >>
    BY DEF serverVars, AskListen, AskAgain
  <1>6. Busy' = Busy
    BY <1>5 DEF Busy, Received
  <1>7. Waiting(c)'
    BY <1>1, <1>3, <1>4, <1>5, <1>6, WaitingKept
  <1> QED
    BY <1>3, <1>7 DEF LinkInv, Asks

LEMMA AloneLink ==
  ASSUME NEW c, OneCar(c), CavInv(c), CarAlone(c)
  PROVE  LinkInv(c)'
  <1>0. /\ CarsTyped /\ c \in Car /\ LinkInv(c) /\ drive[c] \in Drives /\ UNCHANGED serverVars
    BY DEF CavInv, SingleInv, Typed, CarsTyped, OneCar, CarAlone
  <1>1. ASSUME UNCHANGED << link, task >>, ~ Asks(c), ~ Asks(c)',
               drive'[c].trips = drive[c].trips, drive'[c].previous = drive[c].previous,
               drive'[c].current = drive[c].current
        PROVE  LinkInv(c)'
    <2>1. OnRoad(c)
      BY <1>0, <1>1 DEF LinkInv
    <2>2. OnRoad(c)'
      BY <1>0, <1>1, <2>1, DriveLink
    <2> QED
      BY <1>1, <2>2 DEF LinkInv
  <1>2. CASE Depart(c) \/ Look(c) \/ Follow(c) \/ Arrive(c) \/ Shift(c)
    <2>1. UNCHANGED << link, task >> /\ drive[c].pc \in {"sleep", "loop", "get", "follow", "shift"}
      BY <1>2 DEF Depart, Look, Follow, Arrive, Shift, Step
    <2>2. /\ drive'[c].pc \in {"loop", "check", "follow", "shift"}
          /\ drive'[c].trips = drive[c].trips /\ drive'[c].previous = drive[c].previous
          /\ drive'[c].current = drive[c].current
      <3>1. CASE Depart(c)
        BY <1>0, <3>1 DEF Depart, CarsTyped, Drives
      <3>2. CASE Look(c)
        BY <1>0, <3>2 DEF Look, CarsTyped, Drives
      <3>3. CASE Follow(c)
        BY <1>0, <3>3 DEF Follow, CarsTyped, Drives
      <3>4. CASE Arrive(c)
        BY <1>0, <3>4 DEF Arrive, CarsTyped, Drives
      <3>5. CASE Shift(c)
        BY <1>0, <3>5 DEF Shift, CarsTyped, Drives
      <3> QED
        BY <1>2, <3>1, <3>2, <3>3, <3>4, <3>5
    <2>3. ~ Asks(c) /\ ~ Asks(c)'
      BY <2>1, <2>2 DEF Asks
    <2> QED
      BY <1>1, <2>1, <2>2, <2>3
  <1>3. CASE process_orders(c)
    <2>0. drive[c].pc = "check"
      BY <1>3 DEF process_orders, Step
    <2>1. CASE Enough(drive[c])
      <3>1. UNCHANGED << link, task >> /\ drive' = [drive EXCEPT ![c].pc = "get"]
        BY <1>3, <2>1 DEF process_orders
      <3>2. /\ drive'[c].pc = "get" /\ drive'[c].trips = drive[c].trips
            /\ drive'[c].previous = drive[c].previous /\ drive'[c].current = drive[c].current
        BY <1>0, <3>1 DEF CarsTyped, Drives
      <3>3. ~ Asks(c) /\ ~ Asks(c)'
        BY <2>0, <3>2 DEF Asks
      <3> QED
        BY <1>1, <3>1, <3>2, <3>3
    <2>2. CASE ~ Enough(drive[c])
      <3>1. OnRoad(c)'
        BY <1>0, <1>3, <2>2, RequestLink
      <3> DEFINE e == [drive[c] EXCEPT !.pc = "get", !.sent_flag = TRUE,
                                       !.last_count = Len(drive[c].order_list)]
      <3>2. drive' = [drive EXCEPT ![c] = NextTrip(e)]
        BY <1>3, <2>2 DEF process_orders, reserve_order
      <3>3. drive[c].order_list \in Seq(Nat)
        BY <1>0 DEF Drives
      <3>4. Len(drive[c].order_list) \in Nat
        BY <3>3
      <3>5. e \in Drives /\ e.pc = "get"
        BY <1>0, <3>4 DEF Drives
      <3> HIDE DEF e
      <3>6. drive'[c].pc = "get"
        BY <1>0, <3>2, <3>5, NextTripKeeps DEF CarsTyped
      <3> QED
        BY <3>1, <3>6 DEF LinkInv, Asks
    <2> QED
      BY <2>1, <2>2
  <1>4. CASE AskListen(c) \/ AskAgain(c)
    BY <1>0, <1>4, AskingLink
  <1>5. CASE Adopt(c)
    BY <1>0, <1>5, AdoptLink
  <1>6. ASSUME NEW t \in Task, TransferListen(c, t) \/ TransferTimeout(c, t) PROVE LinkInv(c)'
    BY <1>0, <1>6, TransferLink
  <1>7. CASE receive_interrupt_handler(c)
    BY <1>0, <1>7, HandlerLink
  <1> QED
    BY <1>2, <1>3, <1>4, <1>5, <1>6, <1>7 DEF CarAlone, Quiet, TimeOut

-----------------------------------------------------------------------------
(***************************************************************************)
(* The car and its list.                                                   *)
(***************************************************************************)
LEMMA ListKept ==
  ASSUME NEW c, ListInv(c), drive'[c] = drive[c], Alive(c)' = Alive(c)
  PROVE  ListInv(c)'
  BY DEF ListInv, Asks

(* Asking, a car has no list yet. *)
LEMMA ListAsking ==
  ASSUME NEW c, ListInv(c), Single(c), Asks(c), NEW next \in {"ask", "asked", "asking", "sleep"},
         drive'[c].pc = next, drive'[c].order_list = drive[c].order_list,
         drive'[c].sent_flag = drive[c].sent_flag, drive'[c].last_count = drive[c].last_count
  PROVE  ListInv(c)'
  <1>1. drive[c].order_list = << >> /\ ~ drive[c].sent_flag
    BY DEF Single
  <1> QED
    BY <1>1 DEF ListInv, Asks

(* Under way, a car goes on to the next step with its list. *)
LEMMA ListMoves ==
  ASSUME NEW c, ListInv(c), CarsTyped, c \in Car, ~ Asks(c), Alive(c)' = Alive(c),
         drive'[c].order_list = drive[c].order_list, drive'[c].last_count = drive[c].last_count,
         drive[c].pc # "sleep", drive'[c].sent_flag = drive[c].sent_flag,
         \/ drive[c].pc = "check" /\ drive'[c].pc = "get"
         \/ /\ drive[c].pc = "get" /\ drive'[c].pc = "follow"
            /\ drive'[c].order = drive[c].order_list[1]
         \/ /\ drive[c].pc = "follow" /\ drive'[c].pc = "shift"
            /\ drive'[c].order = drive[c].order /\ Len(drive[c].order_list) # 1
  PROVE  ListInv(c)'
  <1>1. drive[c].order_list \in Seq(Nat) /\ drive[c].order_list # << >>
    BY DEF CarsTyped, Drives, ListInv
  <1>2. Len(drive[c].order_list) \in Nat /\ Len(drive[c].order_list) >= 1
    BY <1>1
  <1>3. /\ drive'[c].last_count < D_LIST_MINIMUM_NUMBER
        /\ Last(drive'[c].order_list) \in EndOrders /\ drive'[c].order_list # << >>
        /\ ~ Asks(c)' /\ drive'[c].pc # "sleep" /\ drive'[c].pc # "loop"
    BY <1>1 DEF ListInv, Asks
  <1>4. /\ drive'[c].pc = "shift" => Len(drive'[c].order_list) >= 2
        /\ drive'[c].pc \in {"follow", "shift"} => drive'[c].order = drive'[c].order_list[1]
    <2>1. drive[c].pc = "follow" => drive[c].order = drive[c].order_list[1]
      BY DEF ListInv
    <2>2. drive'[c].pc \in {"follow", "shift"} => drive'[c].order = drive'[c].order_list[1]
      BY <2>1
    <2>3. Len(drive[c].order_list) # 1 => Len(drive[c].order_list) >= 2
      <3> DEFINE n == Len(drive[c].order_list)
      <3>1. n \in Nat /\ n >= 1
        BY <1>2
      <3> HIDE DEF n
      <3>2. n # 1 => n >= 2
        BY <3>1
      <3> QED
        BY <3>2 DEF n
    <2>4. drive'[c].pc = "shift" => Len(drive'[c].order_list) >= 2
      BY <2>3
    <2> QED
      BY <2>2, <2>4
  <1>5. drive'[c].sent_flag /\ Alive(c)' = {} =>
          Len(drive'[c].order_list) >= drive'[c].last_count + 2
    BY DEF ListInv
  <1> QED
    BY <1>3, <1>4, <1>5 DEF ListInv

LEMMA DepartList ==
  ASSUME NEW c, OneCar(c), CavInv(c), Depart(c)
  PROVE  ListInv(c)'
  <1> DEFINE list == drive[c].order_list
             entry == ORDER(MOVE_FORWARD, GRID_MOVE_TIME)
             all == << entry >> \o list
  <1>0. CarsTyped /\ c \in Car /\ ListInv(c) /\ drive[c] \in Drives /\ "late" \notin Rare
    BY DEF CavInv, SingleInv, Typed, CarsTyped, OneCar
  <1>1. list \in Seq(Nat) /\ list # << >> /\ drive[c].pc = "sleep"
    BY <1>0 DEF Depart, Step, Drives
  <1>2. drive'[c] = [drive[c] EXCEPT !.pc = "loop", !.order_list = all]
    BY <1>0 DEF Depart, CarsTyped
  <1>3. entry \in Nat
    BY DEF ORDER, MOVE_FORWARD, GRID_MOVE_TIME
  <1> HIDE DEF entry
  <1>4. /\ all \in Seq(Nat) /\ Len(all) = Len(list) + 1 /\ Len(list) \in Nat \ {0}
    BY <1>1, <1>3
  <1>5. all[Len(all)] = list[Len(list)]
    BY <1>1, <1>3, <1>4
  <1>6. all # << >> /\ Last(all) \in EndOrders
    BY <1>0, <1>1, <1>4, <1>5 DEF ListInv, Last
  <1> HIDE DEF all
  <1>7. /\ drive'[c].pc = "loop" /\ drive'[c].order_list = all
        /\ drive'[c].sent_flag = drive[c].sent_flag /\ drive'[c].last_count = drive[c].last_count
    BY <1>0, <1>2 DEF Drives
  <1>8. ~ drive[c].sent_flag /\ drive[c].last_count < D_LIST_MINIMUM_NUMBER
    BY <1>0, <1>1 DEF ListInv
  <1> QED
    BY <1>6, <1>7, <1>8 DEF ListInv, Asks

LEMMA LookList ==
  ASSUME NEW c, OneCar(c), CavInv(c), Look(c)
  PROVE  ListInv(c)'
  <1> DEFINE list == drive[c].order_list
  <1>0. CarsTyped /\ c \in Car /\ ListInv(c) /\ drive[c] \in Drives /\ drive[c].pc = "loop"
    BY DEF CavInv, SingleInv, Typed, CarsTyped, OneCar, Look, Step
  <1>1. list \in Seq(Nat) /\ Len(list) \in Nat /\ drive[c].last_count \in Nat /\ list # << >>
    BY <1>0 DEF Drives, ListInv, Asks
  <1>2. /\ drive'[c].pc = "check" /\ drive'[c].order_list = list
        /\ drive'[c].sent_flag = (drive[c].sent_flag /\ Len(list) <= drive[c].last_count)
        /\ drive'[c].last_count = drive[c].last_count
    BY <1>0 DEF Look, CarsTyped, Drives
  <1>3. Alive(c)' = Alive(c)
    BY DEF Look, Alive
  <1>4. drive[c].sent_flag /\ Alive(c) = {} => Len(list) >= drive[c].last_count + 1
    BY <1>0 DEF ListInv
  <1>5. Alive(c)' # {} \/ ~ drive'[c].sent_flag
    <2> DEFINE n == Len(list)  m == drive[c].last_count
    <2>1. n \in Nat /\ m \in Nat
      BY <1>1
    <2> HIDE DEF n, m
    <2>2. n >= m + 1 => ~ (n <= m)
      BY <2>1
    <2> QED
      BY <1>2, <1>3, <1>4, <2>2 DEF n, m
  <1>6. Last(list) \in EndOrders /\ drive[c].last_count < D_LIST_MINIMUM_NUMBER
    BY <1>0, <1>1 DEF ListInv
  <1> QED
    BY <1>1, <1>2, <1>5, <1>6 DEF ListInv, Asks

LEMMA ShortIs ==
  ASSUME NEW list \in Seq(Nat), Len(list) >= 2
  PROVE  /\ Tail(list) \in Seq(Nat) /\ Len(Tail(list)) = Len(list) - 1 /\ Len(list) \in Nat
         /\ Tail(list) # << >> /\ Tail(list)[Len(Tail(list))] = list[Len(list)]
  <1> DEFINE n == Len(list)
             rest == Tail(list)
  <1>1. n \in Nat /\ rest \in Seq(Nat) /\ Len(rest) = n - 1
    OBVIOUS
  <1>2. \A i \in 1 .. n - 1 : rest[i] = list[i + 1]
    OBVIOUS
  <1>3. rest[n - 1] = list[n]
    <2> HIDE DEF rest
    <2>1. n - 1 \in 1 .. n - 1 /\ (n - 1) + 1 = n
      BY <1>1
    <2> QED
      BY <1>2, <2>1
  <1>4. rest # << >>
    <2>1. Len(rest) # 0 /\ Len(<< >>) = 0
      BY <1>1
    <2> HIDE DEF rest
    <2> QED
      BY <2>1
  <1> QED
    BY <1>1, <1>3, <1>4

LEMMA ShiftList ==
  ASSUME NEW c, OneCar(c), CavInv(c), Shift(c)
  PROVE  ListInv(c)'
  <1> DEFINE list == drive[c].order_list
             rest == Tail(list)
  <1>0. CarsTyped /\ c \in Car /\ ListInv(c) /\ drive[c] \in Drives /\ drive[c].pc = "shift"
    BY DEF CavInv, SingleInv, Typed, CarsTyped, OneCar, Shift, Step
  <1>1. list \in Seq(Nat) /\ Len(list) >= 2 /\ list # << >> /\ drive[c].last_count \in Nat
    BY <1>0 DEF Drives, ListInv, Asks
  <1>2. drive'[c] = [drive[c] EXCEPT !.pc = "loop", !.order = NULL, !.order_list = rest]
    BY <1>0, <1>1 DEF Shift, CarsTyped
  <1>3. /\ rest \in Seq(Nat) /\ Len(rest) = Len(list) - 1 /\ Len(list) \in Nat
        /\ rest # << >> /\ rest[Len(rest)] = list[Len(list)]
    BY <1>1, ShortIs
  <1>4. Last(rest) \in EndOrders
    BY <1>0, <1>1, <1>3 DEF ListInv, Last
  <1> HIDE DEF rest
  <1>5. /\ drive'[c].pc = "loop" /\ drive'[c].order_list = rest
        /\ drive'[c].sent_flag = drive[c].sent_flag /\ drive'[c].last_count = drive[c].last_count
    BY <1>0, <1>2 DEF Drives
  <1>6. Alive(c)' = Alive(c)
    BY DEF Shift, Alive
  <1>7. drive[c].sent_flag /\ Alive(c) = {} => Len(list) >= drive[c].last_count + 2
    BY <1>0 DEF ListInv
  <1>8. drive[c].sent_flag /\ Alive(c) = {} => Len(rest) >= drive[c].last_count + 1
    <2> DEFINE n == Len(rest)  m == Len(list)  k == drive[c].last_count
    <2>1. n = m - 1 /\ m \in Nat /\ k \in Nat
      BY <1>1, <1>3
    <2> HIDE DEF n, m, k
    <2>2. m >= k + 2 => n >= k + 1
      BY <2>1
    <2> QED
      BY <1>7, <2>2 DEF n, m, k
  <1>9. drive[c].last_count < D_LIST_MINIMUM_NUMBER
    BY <1>0 DEF ListInv
  <1> QED
    BY <1>3, <1>4, <1>5, <1>6, <1>8, <1>9 DEF ListInv, Asks

LEMMA RequestList ==
  ASSUME NEW c, OneCar(c), CavInv(c), process_orders(c), ~ Enough(drive[c]), UNCHANGED serverVars
  PROVE  ListInv(c)'
  <1> DEFINE d == drive[c]
             list == d.order_list
             e == [d EXCEPT !.pc = "get", !.sent_flag = TRUE, !.last_count = Len(list)]
  <1>0. /\ CarsTyped /\ c \in Car /\ ListInv(c) /\ d \in Drives /\ d.pc = "check"
        /\ drive' = [drive EXCEPT ![c] = NextTrip(e)]
    BY DEF CavInv, SingleInv, Typed, CarsTyped, OneCar, process_orders, reserve_order, Step
  <1>1. list \in Seq(Nat) /\ Len(list) \in Nat /\ list # << >> /\ Len(list) < D_LIST_MINIMUM_NUMBER
    BY <1>0 DEF Drives, ListInv, Asks, Enough, D_LIST_MINIMUM_NUMBER
  <1>2. /\ e \in Drives /\ e.pc = "get" /\ e.order_list = list /\ e.sent_flag = TRUE
        /\ e.last_count = Len(list)
    BY <1>0, <1>1 DEF Drives
  <1> HIDE DEF e
  <1>3. /\ drive'[c].pc = "get" /\ drive'[c].order_list = list
        /\ drive'[c].last_count = Len(list)
    <2>1. drive'[c] = NextTrip(e)
      BY <1>0 DEF CarsTyped
    <2> HIDE DEF list
    <2> QED
      BY <1>2, <2>1, NextTripKeeps
  <1>4. Alive(c)' # {}
    BY RequestLink
  <1>5. Last(list) \in EndOrders
    BY <1>0, <1>1 DEF ListInv
  <1> QED
    BY <1>1, <1>3, <1>4, <1>5 DEF ListInv, Asks

LEMMA HandlerList ==
  ASSUME NEW c, OneCar(c), CavInv(c), receive_interrupt_handler(c), UNCHANGED serverVars
  PROVE  ListInv(c)'
  <1> DEFINE d == drive[c]
             list == d.order_list
             all == Appended(list, OrdersIn(link[c].packet))
  <1>0. /\ CarsTyped /\ c \in Car /\ ListInv(c) /\ link[c] \in Links /\ d \in Drives
        /\ Interrupted(c) /\ RoutesSuit /\ Single(c) /\ LinkInv(c)
    BY DEF CavInv, SingleInv, Typed, CarsTyped, OneCar, receive_interrupt_handler
  <1>1. ~ Asks(c)
    BY <1>0 DEF Single, Interrupted
  <1>2. Reply(link[c].packet) /\ link[c].packet \in Bytes
    BY <1>0, <1>1 DEF LinkInv, OnRoad, Links
  <1>3. /\ list \in Seq(Nat) /\ Len(list) \in Nat /\ d.last_count \in Nat
        /\ list # << >> => Last(list) \in EndOrders
    BY <1>0 DEF Drives, ListInv
  <1>4. /\ all \in Seq(Nat) /\ Len(all) >= Len(list) + 4
        /\ Last(all) \in EndOrders
        /\ \A i \in 1 .. Len(list) : all[i] = list[i]
    BY <1>0, <1>2, <1>3, ReplyOrders
  <1>5. Alive(c) \subseteq {link[c].task_id}
    BY <1>0 DEF Single
  <1>6. drive'[c] = [d EXCEPT !.order_list = all] /\ Alive(c)' = {}
    BY <1>0, <1>5, HandlerIs
  <1> HIDE DEF all
  <1>7. /\ drive'[c].pc = d.pc /\ drive'[c].order_list = all /\ drive'[c].order = d.order
        /\ drive'[c].sent_flag = d.sent_flag /\ drive'[c].last_count = d.last_count
    BY <1>0, <1>6 DEF Drives
  <1>8. ~ Asks(c)'
    BY <1>1, <1>7 DEF Asks
  <1>9. d.pc # "sleep" => list # << >>
    BY <1>0, <1>1 DEF ListInv
  <1>10. /\ d.last_count < 4 /\ (d.pc = "sleep" => ~ d.sent_flag)
         /\ d.pc = "shift" => Len(list) >= 2
         /\ d.pc \in {"follow", "shift"} => d.order = list[1]
    BY <1>0 DEF ListInv, D_LIST_MINIMUM_NUMBER
  <1>11. Len(all) \in Nat /\ all # << >> /\ (list # << >> => Len(list) >= 1)
    BY <1>3, <1>4
  <1>12. d.pc \in {"follow", "shift"} => d.order = all[1]
    BY <1>3, <1>4, <1>9, <1>10, <1>11
  <1>13. /\ d.pc = "shift" => Len(all) >= 2
         /\ d.sent_flag => Len(all) >= d.last_count + 2
    <2> DEFINE n == Len(all)  m == Len(list)  k == d.last_count
    <2>1. n \in Nat /\ m \in Nat /\ k \in Nat /\ n >= m + 4 /\ k < 4
      BY <1>3, <1>4, <1>10, <1>11
    <2>2. /\ d.pc = "shift" => m >= 2
          /\ d.sent_flag => m >= 1
      BY <1>9, <1>10, <1>11
    <2> HIDE DEF n, m, k
    <2>3. (d.pc = "shift" => n >= 2) /\ (d.sent_flag => n >= k + 2)
      BY <2>1, <2>2
    <2> QED
      BY <2>3 DEF n, k
  <1>14. Len(all) >= d.last_count + 2 => Len(all) >= d.last_count + 1
    BY <1>3, <1>11
  <1> HIDE DEF d, list
  <1> QED
    BY <1>4, <1>7, <1>8, <1>10, <1>11, <1>12, <1>13, <1>14 DEF ListInv, D_LIST_MINIMUM_NUMBER

LEMMA AloneList ==
  ASSUME NEW c, OneCar(c), CavInv(c), CarAlone(c)
  PROVE  ListInv(c)'
  <1> DEFINE d == drive[c]
  <1>0. /\ CarsTyped /\ c \in Car /\ ListInv(c) /\ d \in Drives /\ UNCHANGED serverVars
        /\ Single(c) /\ "late" \notin Rare
    BY DEF CavInv, SingleInv, Typed, CarsTyped, OneCar, CarAlone
  <1>1. CASE AskListen(c) \/ AskAgain(c)
    <2>1. Asks(c) /\ \E next \in {"ask", "asking"} : drive'[c] = [d EXCEPT !.pc = next]
      BY <1>0, <1>1 DEF AskListen, AskAgain, CarsTyped, Asks
    <2>2. /\ drive'[c].pc \in {"ask", "asking"} /\ drive'[c].order_list = d.order_list
          /\ drive'[c].sent_flag = d.sent_flag /\ drive'[c].last_count = d.last_count
      BY <1>0, <2>1 DEF Drives
    <2> QED
      BY <1>0, <2>1, <2>2, ListAsking
  <1>2. CASE Adopt(c)
    <2> DEFINE e == [d EXCEPT !.pc = "sleep"]
    <2>1. drive' = [drive EXCEPT ![c] = NextTrip(e)] /\ Asks(c)
      BY <1>2 DEF Adopt, reserve_order, Asks
    <2>2. /\ e \in Drives /\ e.pc = "sleep" /\ e.order_list = d.order_list
          /\ e.sent_flag = d.sent_flag /\ e.last_count = d.last_count
      BY <1>0 DEF Drives
    <2> HIDE DEF e
    <2>3. drive'[c] = NextTrip(e)
      BY <1>0, <2>1 DEF CarsTyped
    <2>4. /\ drive'[c].pc = "sleep" /\ drive'[c].order_list = d.order_list
          /\ drive'[c].sent_flag = d.sent_flag /\ drive'[c].last_count = d.last_count
      <3> HIDE DEF d
      <3> QED
        BY <2>2, <2>3, NextTripKeeps
    <2> QED
      BY <1>0, <2>1, <2>4, ListAsking
  <1>3. CASE Depart(c)
    BY <1>3, DepartList
  <1>4. CASE Look(c)
    BY <1>4, LookList
  <1>5. CASE Shift(c)
    BY <1>5, ShiftList
  <1>6. CASE process_orders(c) /\ ~ Enough(d)
    BY <1>0, <1>6, RequestList
  <1>7. CASE process_orders(c) /\ Enough(d)
    <2>1. drive'[c] = [d EXCEPT !.pc = "get"] /\ d.pc = "check" /\ task' = task
      BY <1>0, <1>7 DEF process_orders, Step, CarsTyped
    <2>2. /\ drive'[c].pc = "get" /\ drive'[c].order_list = d.order_list
          /\ drive'[c].sent_flag = d.sent_flag /\ drive'[c].last_count = d.last_count
      BY <1>0, <2>1 DEF Drives
    <2>3. ~ Asks(c) /\ Alive(c)' = Alive(c)
      BY <1>0, <2>1, SameAlive DEF Asks
    <2> QED
      BY <1>0, <2>1, <2>2, <2>3, ListMoves
  <1>8. CASE Follow(c)
    <2>1. d.pc = "get" /\ task' = task /\ d.order_list # << >>
      BY <1>0, <1>8 DEF Follow, Step, ListInv, Asks
    <2>2. drive'[c] = [d EXCEPT !.pc = "follow", !.order = d.order_list[1]]
      BY <1>0, <1>8, <2>1 DEF Follow, CarsTyped
    <2>3. /\ drive'[c].pc = "follow" /\ drive'[c].order_list = d.order_list
          /\ drive'[c].sent_flag = d.sent_flag /\ drive'[c].last_count = d.last_count
          /\ drive'[c].order = d.order_list[1]
      BY <1>0, <2>2 DEF Drives
    <2>4. ~ Asks(c) /\ Alive(c)' = Alive(c)
      BY <1>0, <2>1, SameAlive DEF Asks
    <2> QED
      BY <1>0, <2>1, <2>3, <2>4, ListMoves
  <1>9. CASE Arrive(c)
    <2>1. d.pc = "follow" /\ task' = task /\ Len(d.order_list) # 1
          /\ drive'[c] = [d EXCEPT !.pc = "shift"]
      BY <1>0, <1>9 DEF Arrive, Step, CarsTyped
    <2>3. /\ drive'[c].pc = "shift" /\ drive'[c].order_list = d.order_list
          /\ drive'[c].sent_flag = d.sent_flag /\ drive'[c].last_count = d.last_count
          /\ drive'[c].order = d.order
      BY <1>0, <2>1 DEF Drives
    <2>4. ~ Asks(c) /\ Alive(c)' = Alive(c)
      BY <1>0, <2>1, SameAlive DEF Asks
    <2> QED
      BY <1>0, <2>1, <2>3, <2>4, ListMoves
  <1>10. ASSUME NEW t \in Task, TransferListen(c, t) \/ TransferTimeout(c, t) PROVE ListInv(c)'
    <2>1. drive'[c] = drive[c] /\ Alive(c)' = Alive(c)
      BY <1>0, <1>10, TransferAlive DEF TransferListen, TransferTimeout
    <2> QED
      BY <1>0, <2>1, ListKept
  <1>11. CASE receive_interrupt_handler(c)
    BY <1>0, <1>11, HandlerList
  <1> QED
    BY <1>1, <1>2, <1>3, <1>4, <1>5, <1>6, <1>7, <1>8, <1>9, <1>10, <1>11
    DEF CarAlone, Quiet, TimeOut

LEMMA SendsList ==
  ASSUME NEW c, OneCar(c), CavInv(c), CarHeard(c) \/ CarLost(c)
  PROVE  ListInv(c)'
  <1>0. CarsTyped /\ c \in Car /\ ListInv(c) /\ drive[c] \in Drives /\ Single(c)
    BY DEF CavInv, SingleInv, Typed, CarsTyped, OneCar
  <1>1. PICK cars : c \notin cars /\ CarSends(c) /\ Transmission(c, cars)
    BY DEF CarHeard, CarLost
  <1>2. CASE AskSend(c)
    <2>1. drive'[c] = [drive[c] EXCEPT !.pc = "asked"] /\ Asks(c)
      BY <1>0, <1>2 DEF AskSend, CarsTyped, Asks
    <2>2. /\ drive'[c].pc = "asked" /\ drive'[c].order_list = drive[c].order_list
          /\ drive'[c].sent_flag = drive[c].sent_flag /\ drive'[c].last_count = drive[c].last_count
      BY <1>0, <2>1 DEF Drives
    <2> QED
      BY <1>0, <2>1, <2>2, ListAsking
  <1>3. CASE \E t \in Task : TransferSend(c, t)
    <2>1. drive'[c] = drive[c] /\ Alive(c)' = Alive(c)
      BY <1>0, <1>3, TransferAlive DEF TransferSend
    <2> QED
      BY <1>0, <2>1, ListKept
  <1> QED
    BY <1>1, <1>2, <1>3 DEF CarSends

LEMMA StepCav ==
  ASSUME NEW c, OneCar(c), CavInv(c), [Next]_vars
  PROVE  CavInv(c)'
  <1>0. /\ Car = {c} /\ c \in Car /\ Typed /\ Single(c) /\ EventsInOrder /\ LinkInv(c) /\ ListInv(c)
        /\ "late" \notin Rare
    BY DEF CavInv, SingleInv, OneCar
  <1>1. Ready /\ state = "txidle" /\ rxmatch # 0 => ReplyFits
    <2> SUFFICES ASSUME Ready, state = "txidle", rxmatch # 0 PROVE ReplyFits
      OBVIOUS
    <2>1. Received /\ Busy
      BY DEF Ready, Received, Busy
    <2>2. OnRoad(c)
      BY <1>0, <2>1 DEF LinkInv, Waiting
    <2>3. Routes(buffer[2], buffer[3]) \subseteq DemonstrationRoutes
      BY <2>1, <2>2, AskedRoutes
    <2>4. \A r \in DemonstrationRoutes : r \in Seq(Nat) /\ Len(r) <= PacketLength
      BY RouteIs, PacketAssumption DEF OneCar
    <2> QED
      BY <2>3, <2>4 DEF ReplyFits
  <1>2. Typed'
    BY <1>0, <1>1, StepTyped
  <1>3. \A x \in Car : Single(x)'
    BY <1>0, StepSingle DEF CavInv
  <1>4. SingleInv'
    BY <1>2, <1>3 DEF SingleInv
  <1>5. EventsInOrder'
    BY <1>0, StepEvents
  <1>6. LinkInv(c)' /\ ListInv(c)'
    <2>1. CASE CarHeard(c)
      BY <2>1, HeardLink, SendsList
    <2>2. CASE CarLost(c)
      BY <2>2, LostLink, SendsList
    <2>3. CASE CarAlone(c)
      BY <2>3, AloneLink, AloneList
    <2>4. ASSUME NEW cars \in SUBSET Listeners(0), Answer(cars) PROVE LinkInv(c)' /\ ListInv(c)'
      <3>1. drive'[c] = drive[c] /\ Alive(c)' = Alive(c)
        BY <2>4 DEF Answer, Alive
      <3> QED
        BY <1>0, <2>4, <3>1, AnswerLink, ListKept
    <2>5. CASE ServerAlone
      <3>1. drive'[c] = drive[c] /\ Alive(c)' = Alive(c)
        BY <2>5 DEF ServerAlone, vehicleVars, Alive
      <3> QED
        BY <1>0, <2>5, <3>1, ServerLink, ListKept
    <2>6. CASE UNCHANGED vars
      <3>1. UNCHANGED << drive, link, task, state, event, rxmatch, buffer, booked >>
        BY <2>6 DEF vars, vehicleVars, serverVars
      <3>2. Received' = Received /\ Alive(c)' = Alive(c)
        BY <3>1 DEF Received, Alive
      <3> QED
        BY <1>0, <3>1, <3>2, LinkKept, ListKept
    <2> QED
      BY <1>0, <2>1, <2>2, <2>3, <2>4, <2>5, <2>6 DEF Next, Answered, Unanswered
  <1> QED
    BY <1>4, <1>5, <1>6 DEF CavInv

LEMMA InvariantCav == ASSUME NEW c, OneCar(c) PROVE Spec => []CavInv(c)
  <1>1. Init => CavInv(c)
    BY InitCav
  <1>2. CavInv(c) /\ [Next]_vars => CavInv(c)'
    BY StepCav
  <1> QED
    BY <1>1, <1>2, PTL DEF Spec

(***************************************************************************)
(* start_drive drops the order it has followed (drive.c:263-267), although *)
(* the handler lengthens the last order of the list and appends to it      *)
(* while the order is followed: the first order is never the last one then *)
(* if the list does not run empty.                                         *)
(***************************************************************************)
THEOREM FollowedOrderDropped ==
  ASSUME NEW c, OneCar(c)
  PROVE  Spec => []DropsWhatItFollowed
  <1>1. CavInv(c) => DropsWhatItFollowed
    BY DEF CavInv, ListInv, OneCar, DropsWhatItFollowed
  <1> QED
    BY <1>1, InvariantCav, PTL

(***************************************************************************)
(* A car that remembers a request (sent_flag, drive.c:57) is right to: its *)
(* transfer task is alive, or the reply has made the list longer than it   *)
(* was, which start_drive notices when it looks (drive.c:243-246).         *)
(***************************************************************************)
THEOREM RequestUnderWay ==
  ASSUME NEW c, OneCar(c)
  PROVE  Spec => []WaitsForSomething
  <1>1. CavInv(c) => WaitsForSomething
    <2> SUFFICES ASSUME CavInv(c), drive[c].sent_flag, Alive(c) = {}
                 PROVE  Len(drive[c].order_list) > drive[c].last_count
      BY DEF WaitsForSomething, OneCar
    <2>1. drive[c] \in Drives /\ ListInv(c)
      BY DEF CavInv, SingleInv, Typed, CarsTyped, OneCar
    <2>2. drive[c].last_count \in Nat /\ drive[c].order_list \in Seq(Nat)
      BY <2>1 DEF Drives
    <2>3. Len(drive[c].order_list) \in Nat
      BY <2>2
    <2> DEFINE n == Len(drive[c].order_list)  k == drive[c].last_count
    <2>4. n >= k + 1 \/ n >= k + 2
      BY <2>1 DEF ListInv
    <2> HIDE DEF n, k
    <2>5. n \in Nat /\ k \in Nat
      BY <2>2, <2>3 DEF n, k
    <2>6. n > k
      BY <2>4, <2>5
    <2> QED
      BY <2>6 DEF n, k
  <1> QED
    BY <1>1, InvariantCav, PTL

(***************************************************************************)
(* The server reserves the trips in the order in which the car makes them  *)
(* (server.c, stg_reserve), although requests are sent again when they     *)
(* have been answered and the answer is lost.                              *)
(***************************************************************************)
THEOREM TripsInOrder ==
  ASSUME NEW c, OneCar(c)
  PROVE  Spec => TripsChain
  <1>1. CavInv(c) /\ [Next]_vars => [BooksOn]_booked
    <2> SUFFICES ASSUME CavInv(c), [Next]_vars PROVE BooksOn \/ booked' = booked
      OBVIOUS
    <2>1. ASSUME NEW x \in Car, CarHeard(x) PROVE booked' = booked
      BY <2>1 DEF CarHeard, Receive
    <2>2. ASSUME UNCHANGED serverVars PROVE booked' = booked
      BY <2>2 DEF serverVars
    <2>3. ASSUME NEW cars, Answer(cars) PROVE booked' = booked
      BY <2>3 DEF Answer, Sent
    <2>4. CASE ServerAlone
      BY <2>4, ServerLink DEF BooksOn
    <2> QED
      BY <2>1, <2>2, <2>3, <2>4
      DEF Next, CarLost, CarAlone, Answered, Unanswered, vars
  <1>2. Spec => []CavInv(c)
    BY InvariantCav
  <1> QED
    BY <1>1, <1>2, PTL DEF TripsChain, Spec

(***************************************************************************)
(* What the handler takes is the answer to the request that the car made   *)
(* last, for the trip it is waiting for, and the server has nothing more   *)
(* to say about it, however late the answer comes (client.c:86-144).       *)
(***************************************************************************)
AnswersLastRequest(c) == Interrupted(c) => Reserved(c) /\ Alive(c) # {} /\ ~ Busy

THEOREM RepliesMatch ==
  ASSUME NEW c, OneCar(c)
  PROVE  Spec => []AnswersLastRequest(c)
  <1>1. CavInv(c) => AnswersLastRequest(c)
    <2> SUFFICES ASSUME CavInv(c), Interrupted(c)
                 PROVE  Reserved(c) /\ Alive(c) # {} /\ ~ Busy
      BY DEF AnswersLastRequest
    <2>1. Single(c) /\ LinkInv(c) /\ link[c].enabled
      BY DEF CavInv, SingleInv, OneCar, Interrupted
    <2>2. ~ Asks(c)
      BY <2>1 DEF Single
    <2> QED
      BY <2>1, <2>2 DEF LinkInv, OnRoad
  <1> QED
    BY <1>1, InvariantCav, PTL
====
