---------------------------- MODULE DeviceProof -----------------------------
(***************************************************************************)
(* Proofs about Device, for any number of tasks, devices, descriptors and  *)
(* requests.                                                               *)
(*                                                                         *)
(* Together is the invariant of suspension: the task that has REG has told *)
(* exactly the devices its pass has gone through.  IInv is that of         *)
(* requests, opening and closing: a request is in the queue of one         *)
(* descriptor or free (Places), bears the name of the task that is in the  *)
(* driver with it and of nobody else (Held, Owned), a task that waits for  *)
(* any request is alone in the driver (Alone), and a descriptor is in one  *)
(* pair of hands, those that open, use or close it (Fine).                 *)
(*                                                                         *)
(* The operations on the tables come first, then the two invariants.       *)
(***************************************************************************)
EXTENDS Device, TLAPS, FiniteSetTheorems

(* A queue holds a block once. *)
Once(queue) == \A i, j \in DOMAIN queue : queue[i] = queue[j] => i = j

LEMMA RemoveIs ==
  ASSUME NEW S, NEW queue \in Seq(S), NEW k \in DOMAIN queue
  PROVE  /\ RemoveAt(queue, k) \in Seq(S)
         /\ DOMAIN RemoveAt(queue, k) = 1 .. Len(queue) - 1
         /\ \A i \in 1 .. Len(queue) - 1 :
              RemoveAt(queue, k)[i] = queue[IF i < k THEN i ELSE i + 1]
  <1> DEFINE n == Len(queue)
             q == RemoveAt(queue, k)
             a == SubSeq(queue, 1, k - 1)
             b == SubSeq(queue, k + 1, n)
  <1>1. n \in Nat /\ DOMAIN queue = 1 .. n /\ k \in 1 .. n
    OBVIOUS
  <1>2. a \in Seq(S) /\ Len(a) = k - 1 /\ \A i \in 1 .. k - 1 : a[i] = queue[i]
    BY <1>1
  <1>3. b \in Seq(S) /\ Len(b) = n - k /\ \A i \in 1 .. n - k : b[i] = queue[k + i]
    BY <1>1
  <1>4. q = a \o b
    BY DEF RemoveAt
  <1> HIDE DEF n, q, a, b
  <1>5. q \in Seq(S) /\ Len(q) = n - 1
    <2>1. a \in Seq(S) /\ b \in Seq(S) /\ n \in Nat /\ k \in Nat
      BY <1>1, <1>2, <1>3
    <2>2. q \in Seq(S)
      BY <1>4, <2>1
    <2>3. Len(q) = Len(a) + Len(b)
      BY <1>4, <2>1
    <2> QED
      BY <1>2, <1>3, <2>1, <2>2, <2>3
  <1>6. \A i \in 1 .. k - 1 : q[i] = a[i]
    BY <1>1, <1>2, <1>3, <1>4
  <1>7. \A i \in k .. n - 1 : q[i] = b[i - (k - 1)]
    BY <1>1, <1>2, <1>3, <1>4
  <1>8. ASSUME NEW i \in 1 .. n - 1 PROVE q[i] = queue[IF i < k THEN i ELSE i + 1]
    <2>1. CASE i < k
      <3>1. i \in 1 .. k - 1
        BY <1>1, <2>1
      <3> QED
        BY <1>2, <1>6, <2>1, <3>1
    <2>2. CASE ~ (i < k)
      <3>1. i \in k .. n - 1 /\ i - (k - 1) \in 1 .. n - k /\ k + (i - (k - 1)) = i + 1
        BY <1>1, <2>2
      <3> QED
        BY <1>3, <1>7, <2>2, <3>1
    <2> QED
      BY <2>1, <2>2
  <1>9. DOMAIN q = 1 .. n - 1
    BY <1>5
  <1> QED
    BY <1>5, <1>8, <1>9 DEF n, q

LEMMA QueRemoveType ==
  ASSUME NEW S, NEW queue \in Seq(S), NEW e
  PROVE  QueRemove(queue, e) \in Seq(S)
  <1> DEFINE at == {i \in DOMAIN queue : queue[i] = e}
             k == CHOOSE i \in at : TRUE
  <1>1. CASE at = {}
    BY <1>1 DEF QueRemove
  <1>2. CASE at # {}
    <2>1. k \in at
      BY <1>2
    <2>2. k \in DOMAIN queue /\ QueRemove(queue, e) = RemoveAt(queue, k)
      BY <1>2, <2>1 DEF QueRemove
    <2> QED
      BY <2>2, RemoveIs
  <1> QED
    BY <1>1, <1>2

(* A block is taken out of the queue it may be in. *)
LEMMA QueRemoveHolds ==
  ASSUME NEW S, NEW queue \in Seq(S), Once(queue), NEW e
  PROVE  Once(QueRemove(queue, e)) /\ ToSet(QueRemove(queue, e)) = ToSet(queue) \ {e}
  <1> DEFINE at == {i \in DOMAIN queue : queue[i] = e}
             k == CHOOSE i \in at : TRUE
             n == Len(queue)
             q == QueRemove(queue, e)
  <1>1. CASE at = {}
    BY <1>1 DEF QueRemove, ToSet
  <1>2. CASE at # {}
    <2>1. k \in at
      BY <1>2
    <2>2. k \in DOMAIN queue /\ queue[k] = e /\ q = RemoveAt(queue, k)
      BY <1>2, <2>1 DEF QueRemove
    <2>3. n \in Nat /\ DOMAIN queue = 1 .. n /\ k \in 1 .. n
      BY <2>2
    <2> HIDE DEF k, q
    <2> DEFINE from(i) == IF i < k THEN i ELSE i + 1
    <2>4. DOMAIN q = 1 .. n - 1 /\ \A i \in 1 .. n - 1 : q[i] = queue[from(i)]
      BY <2>2, RemoveIs
    <2> HIDE DEF n
    <2>5. \A i, j \in 1 .. n : queue[i] = queue[j] => i = j
      BY <2>3 DEF Once
    <2>6. \A i \in 1 .. n - 1 : from(i) \in 1 .. n /\ from(i) # k
      BY <2>3
    <2>7. \A i, j \in 1 .. n - 1 : from(i) = from(j) => i = j
      BY <2>3
    <2>8. \A j \in 1 .. n : j # k => \E i \in 1 .. n - 1 : from(i) = j
      <3> SUFFICES ASSUME NEW j \in 1 .. n, j # k PROVE \E i \in 1 .. n - 1 : from(i) = j
        OBVIOUS
      <3>1. CASE j < k
        <4>1. j \in 1 .. n - 1 /\ from(j) = j
          BY <2>3, <3>1
        <4> QED
          BY <4>1
      <3>2. CASE j > k
        <4>1. j - 1 \in 1 .. n - 1 /\ from(j - 1) = j
          BY <2>3, <3>2
        <4> QED
          BY <4>1
      <3> QED
        BY <2>3, <3>1, <3>2
    <2> HIDE DEF from
    <2>9. Once(q)
      BY <2>4, <2>5, <2>6, <2>7 DEF Once
    <2>10. ToSet(q) = ToSet(queue) \ {e}
      <3>1. ASSUME NEW x \in ToSet(q) PROVE x \in ToSet(queue) \ {e}
        <4>1. PICK i \in 1 .. n - 1 : x = queue[from(i)]
          BY <2>4, <3>1 DEF ToSet
        <4>2. from(i) \in DOMAIN queue /\ queue[from(i)] # queue[k]
          BY <2>3, <2>5, <2>6
        <4> QED
          BY <2>2, <4>1, <4>2 DEF ToSet
      <3>2. ASSUME NEW x \in ToSet(queue) \ {e} PROVE x \in ToSet(q)
        <4>1. PICK j \in 1 .. n : queue[j] = x /\ j # k
          BY <2>2, <2>3, <3>2 DEF ToSet
        <4>2. PICK i \in 1 .. n - 1 : from(i) = j
          BY <2>8, <4>1
        <4> QED
          BY <2>4, <4>1, <4>2 DEF ToSet
      <3> QED
        BY <3>1, <3>2
    <2> QED
      BY <2>9, <2>10 DEF q
  <1> QED
    BY <1>1, <1>2

LEMMA AppendHolds ==
  ASSUME NEW S, NEW queue \in Seq(S), NEW e \in S
  PROVE  /\ Append(queue, e) \in Seq(S) /\ ToSet(Append(queue, e)) = ToSet(queue) \cup {e}
         /\ Once(queue) /\ e \notin ToSet(queue) => Once(Append(queue, e))
  <1> DEFINE n == Len(queue)
             q == Append(queue, e)
  <1>1. n \in Nat /\ DOMAIN queue = 1 .. n
    OBVIOUS
  <1>2. q \in Seq(S) /\ DOMAIN q = 1 .. n + 1 /\ q[n + 1] = e /\ \A i \in 1 .. n : q[i] = queue[i]
    OBVIOUS
  <1> HIDE DEF n, q
  <1>3. \A i \in 1 .. n + 1 : i \in 1 .. n \/ i = n + 1
    BY <1>1
  <1>4. \A i \in 1 .. n : i \in 1 .. n + 1
    BY <1>1
  <1>5. n + 1 \in 1 .. n + 1
    BY <1>1
  <1>6. ToSet(q) = ToSet(queue) \cup {e}
    BY <1>1, <1>2, <1>3, <1>4, <1>5 DEF ToSet
  <1>7. ASSUME Once(queue), e \notin ToSet(queue) PROVE Once(q)
    <2>1. \A i \in 1 .. n : queue[i] # e
      BY <1>1, <1>7 DEF ToSet
    <2> QED
      BY <1>1, <1>2, <1>3, <1>7, <2>1 DEF Once
  <1> QED
    BY <1>2, <1>6, <1>7 DEF q

LEMMA HeadHolds ==
  ASSUME NEW S, NEW queue \in Seq(S), queue # <<>>
  PROVE  /\ Head(queue) \in S /\ Head(queue) \in ToSet(queue)
         /\ Tail(queue) \in Seq(S) /\ ToSet(Tail(queue)) \subseteq ToSet(queue)
         /\ Once(queue) => Once(Tail(queue)) /\ ToSet(Tail(queue)) = ToSet(queue) \ {Head(queue)}
  <1> DEFINE n == Len(queue)
             q == Tail(queue)
             e == Head(queue)
  <1>1. n \in Nat /\ DOMAIN queue = 1 .. n /\ 1 \in 1 .. n /\ e = queue[1] /\ e \in S
    OBVIOUS
  <1>2. q \in Seq(S) /\ DOMAIN q = 1 .. n - 1 /\ \A i \in 1 .. n - 1 : q[i] = queue[i + 1]
    OBVIOUS
  <1> HIDE DEF n, q, e
  <1>3. \A i \in 1 .. n - 1 : i + 1 \in 1 .. n /\ i + 1 # 1
    BY <1>1
  <1>4. \A j \in 1 .. n : j # 1 => j - 1 \in 1 .. n - 1 /\ (j - 1) + 1 = j
    BY <1>1
  <1>5. e \in ToSet(queue)
    BY <1>1 DEF ToSet
  <1>6. ToSet(q) \subseteq ToSet(queue)
    BY <1>1, <1>2, <1>3 DEF ToSet
  <1>7. ASSUME Once(queue) PROVE Once(q) /\ ToSet(q) = ToSet(queue) \ {e}
    <2>1. \A i, j \in 1 .. n : queue[i] = queue[j] => i = j
      BY <1>1, <1>7 DEF Once
    <2>2. Once(q)
      <3> SUFFICES ASSUME NEW i \in 1 .. n - 1, NEW j \in 1 .. n - 1, q[i] = q[j] PROVE i = j
        BY <1>2 DEF Once
      <3>1. i + 1 = j + 1
        BY <1>2, <1>3, <2>1
      <3> QED
        BY <3>1
    <2>3. e \notin ToSet(q)
      BY <1>1, <1>2, <1>3, <2>1 DEF ToSet
    <2>4. ASSUME NEW x \in ToSet(queue), x # e PROVE x \in ToSet(q)
      <3>1. PICK j \in 1 .. n : queue[j] = x /\ j # 1
        BY <1>1, <2>4 DEF ToSet
      <3>2. j - 1 \in 1 .. n - 1 /\ q[j - 1] = x
        BY <1>2, <1>4, <3>1
      <3> QED
        BY <1>2, <3>2 DEF ToSet
    <2> QED
      BY <1>6, <2>2, <2>3, <2>4
  <1> QED
    BY <1>1, <1>2, <1>5, <1>6, <1>7 DEF q, e

(* A queue of all blocks of a table, in any order. *)
LEMMA AllHolds ==
  ASSUME NEW S, IsFiniteSet(S), NEW queue \in SetToSeqs(S)
  PROVE  queue \in Seq(S) /\ Once(queue)
  <1>1. Cardinality(S) \in Nat
    BY FS_CardinalityType
  <1>2. queue \in [1 .. Cardinality(S) -> S] /\ \A i, j \in 1 .. Cardinality(S) : i # j => queue[i] # queue[j]
    BY DEF SetToSeqs
  <1>3. queue \in Seq(S)
    BY <1>1, <1>2
  <1> QED
    BY <1>2, <1>3 DEF Once

-----------------------------------------------------------------------------
(***************************************************************************)
(* The tables, field by field.  An operation on them is described by what  *)
(* it does to these functions; m is the state of the tables.               *)
(***************************************************************************)
Of(m) == [r \in ReqCBs |-> m.reqcb[r].opncb]
By(m) == [r \in ReqCBs |-> m.reqcb[r].tskid]
Que(m) == [o \in OpnCBs |-> m.opncb[o].requestq]
Many(m) == [o \in OpnCBs |-> m.opncb[o].waireqlst]
Resid(m) == [o \in OpnCBs |-> m.opncb[o].resid]
AbortBy(m) == [o \in OpnCBs |-> m.opncb[o].abort_tskid]
AbortCnt(m) == [o \in OpnCBs |-> m.opncb[o].abort_cnt]
AbortSem(m) == [o \in OpnCBs |-> m.opncb[o].abort_sem]

(* What a step may leave alone together. *)
Requests(m) == << Of(m), By(m), Que(m), m.FreeReqCB >>
Aborts(m) == << AbortBy(m), AbortCnt(m), AbortSem(m) >>
Opened(m) == << Resid(m), m.FreeOpnCB, m.resq >>

Fields(m) ==
  /\ DOMAIN m = {"devcb", "opncb", "reqcb", "UsedDevCB", "FreeDevCB", "FreeOpnCB", "FreeReqCB",
                 "resq", "dissus"}
  /\ DOMAIN m.opncb = OpnCBs /\ DOMAIN m.reqcb = ReqCBs
  /\ \A o \in OpnCBs :
       DOMAIN m.opncb[o] = {"devcb", "unitno", "omode", "requestq", "waitone", "waireqlst",
                            "abort_tskid", "abort_cnt", "abort_sem", "resid"}
  /\ \A r \in ReqCBs : DOMAIN m.reqcb[r] = {"opncb", "tskid", "abort"}

LEMMA NewReqIs ==
  ASSUME NEW m, Fields(m), NEW o \in OpnCBs, NEW t,
         m.FreeReqCB \in Seq(ReqCBs), m.FreeReqCB # <<>>
  PROVE  LET n == newReqCB(m, o, t)
             r == Head(m.FreeReqCB)
         IN  /\ Fields(n) /\ r \in ReqCBs
             /\ Of(n) = [Of(m) EXCEPT ![r] = o] /\ By(n) = [By(m) EXCEPT ![r] = t]
             /\ Que(n) = [Que(m) EXCEPT ![o] = Append(@, r)] /\ n.FreeReqCB = Tail(m.FreeReqCB)
             /\ Many(n) = Many(m) /\ Aborts(n) = Aborts(m) /\ Opened(n) = Opened(m)
  <1> DEFINE n == newReqCB(m, o, t)
             r == Head(m.FreeReqCB)
  <1>1. r \in ReqCBs
    OBVIOUS
  <1> HIDE DEF r
  <1>2. n = [m EXCEPT !.FreeReqCB = Tail(@), !.opncb[o].requestq = Append(@, r),
                      !.reqcb[r] = [opncb |-> o, tskid |-> t, abort |-> FALSE]]
    BY DEF newReqCB, r
  <1> HIDE DEF n
  <1>3. Fields(n)
    BY <1>1, <1>2 DEF Fields
  <1>4. Of(n) = [Of(m) EXCEPT ![r] = o] /\ By(n) = [By(m) EXCEPT ![r] = t]
    BY <1>1, <1>2 DEF Fields, Of, By
  <1>5. Que(n) = [Que(m) EXCEPT ![o] = Append(@, r)] /\ n.FreeReqCB = Tail(m.FreeReqCB)
    BY <1>1, <1>2 DEF Fields, Que
  <1>6. Many(n) = Many(m)
    BY <1>1, <1>2 DEF Fields, Many
  <1>7. Aborts(n) = Aborts(m)
    BY <1>1, <1>2 DEF Fields, Aborts, AbortBy, AbortCnt, AbortSem
  <1>8. Opened(n) = Opened(m)
    BY <1>1, <1>2 DEF Fields, Opened, Resid
  <1> QED
    BY <1>1, <1>3, <1>4, <1>5, <1>6, <1>7, <1>8 DEF n, r

LEMMA DelReqIs ==
  ASSUME NEW m, Fields(m), NEW r \in ReqCBs, NEW o \in OpnCBs, Of(m)[r] = o
  PROVE  LET n == delReqCB(m, r)
         IN  /\ Fields(n)
             /\ Of(n) = [Of(m) EXCEPT ![r] = None] /\ By(n) = By(m)
             /\ Que(n) = [Que(m) EXCEPT ![o] = QueRemove(@, r)]
             /\ n.FreeReqCB = Append(m.FreeReqCB, r)
             /\ Many(n) = Many(m) /\ Aborts(n) = Aborts(m) /\ Opened(n) = Opened(m)
  <1> DEFINE n == delReqCB(m, r)
             q == [m EXCEPT !.opncb[o].requestq = QueRemove(@, r)]
  <1>1. m.reqcb[r].opncb = o /\ o # None
    BY DeviceAssumption DEF Of
  <1>2. n = [q EXCEPT !.FreeReqCB = Append(@, r), !.reqcb[r].opncb = None, !.reqcb[r].abort = FALSE]
    BY <1>1 DEF delReqCB
  <1>3. /\ Fields(q) /\ q.reqcb = m.reqcb /\ q.FreeReqCB = m.FreeReqCB /\ q.FreeOpnCB = m.FreeOpnCB
        /\ q.resq = m.resq /\ q.opncb = [m.opncb EXCEPT ![o].requestq = QueRemove(@, r)]
    BY DEF Fields
  <1> HIDE DEF n, q
  <1>4. /\ Fields(n) /\ n.FreeReqCB = Append(m.FreeReqCB, r) /\ n.FreeOpnCB = m.FreeOpnCB
        /\ n.resq = m.resq /\ n.opncb = q.opncb
        /\ n.reqcb = [m.reqcb EXCEPT ![r].opncb = None, ![r].abort = FALSE]
    BY <1>2, <1>3 DEF Fields
  <1>5. Of(n) = [Of(m) EXCEPT ![r] = None] /\ By(n) = By(m)
    <2>1. /\ n.reqcb[r].opncb = None /\ n.reqcb[r].tskid = m.reqcb[r].tskid
          /\ \A x \in ReqCBs \ {r} : n.reqcb[x] = m.reqcb[x]
      BY <1>4 DEF Fields
    <2> QED
      BY <2>1 DEF Of, By
  <1>6. Que(n) = [Que(m) EXCEPT ![o] = QueRemove(@, r)]
    <2>1. /\ n.opncb[o].requestq = QueRemove(m.opncb[o].requestq, r)
          /\ \A x \in OpnCBs \ {o} : n.opncb[x] = m.opncb[x]
      BY <1>3, <1>4 DEF Fields
    <2> QED
      BY <2>1 DEF Que
  <1>7. Many(n) = Many(m)
    BY <1>3, <1>4 DEF Fields, Many
  <1>8. Aborts(n) = Aborts(m)
    BY <1>3, <1>4 DEF Fields, Aborts, AbortBy, AbortCnt, AbortSem
  <1>9. Opened(n) = Opened(m)
    BY <1>3, <1>4 DEF Fields, Opened, Resid
  <1> QED
    BY <1>4, <1>5, <1>6, <1>7, <1>8, <1>9 DEF n

LEMMA NotifyIs ==
  ASSUME NEW m, Fields(m), NEW o \in OpnCBs
  PROVE  LET n == Notify(m, o)
             left == AbortCnt(m)[o] - 1
         IN  /\ Fields(n) /\ Requests(n) = Requests(m)
             /\ Many(n) = Many(m) /\ AbortBy(n) = AbortBy(m) /\ Opened(n) = Opened(m)
             /\ AbortBy(m)[o] = None => AbortCnt(n) = AbortCnt(m) /\ AbortSem(n) = AbortSem(m)
             /\ AbortBy(m)[o] # None =>
                  /\ AbortCnt(n) = [AbortCnt(m) EXCEPT ![o] = left]
                  /\ AbortSem(n) = [AbortSem(m) EXCEPT ![o] = IF left = 0 THEN 1 ELSE @]
  <1> DEFINE n == Notify(m, o)
             left == AbortCnt(m)[o] - 1
  <1>1. left = m.opncb[o].abort_cnt - 1 /\ AbortBy(m)[o] = m.opncb[o].abort_tskid
    BY DEF AbortCnt, AbortBy
  <1> HIDE DEF left
  <1>2. CASE AbortBy(m)[o] = None
    BY <1>1, <1>2 DEF Notify, Requests, Opened
  <1>3. CASE AbortBy(m)[o] # None
    <2>1. n = [m EXCEPT !.opncb[o].abort_cnt = left,
                        !.opncb[o].abort_sem = IF left = 0 THEN 1 ELSE @]
      BY <1>1, <1>3 DEF Notify
    <2> HIDE DEF n
    <2>2. Fields(n)
      BY <2>1 DEF Fields
    <2>3. Requests(n) = Requests(m)
      BY <2>1 DEF Fields, Requests, Of, By, Que
    <2>4. Many(n) = Many(m) /\ AbortBy(n) = AbortBy(m)
      BY <2>1 DEF Fields, Many, AbortBy
    <2>5. Opened(n) = Opened(m)
      BY <2>1 DEF Fields, Opened, Resid
    <2>6. AbortCnt(n) = [AbortCnt(m) EXCEPT ![o] = left]
      BY <2>1 DEF Fields, AbortCnt
    <2>7. AbortSem(n) = [AbortSem(m) EXCEPT ![o] = IF left = 0 THEN 1 ELSE @]
      BY <2>1 DEF Fields, AbortSem
    <2> QED
      BY <1>3, <2>2, <2>3, <2>4, <2>5, <2>6, <2>7 DEF n, left
  <1> QED
    BY <1>2, <1>3

LEMMA MarkedIs ==
  ASSUME NEW m, Fields(m), NEW rs, NEW t
  PROVE  LET n == Marked(m, rs, t)
         IN  /\ Fields(n) /\ Of(n) = Of(m) /\ Que(n) = Que(m) /\ n.FreeReqCB = m.FreeReqCB
             /\ By(n) = [r \in ReqCBs |-> IF r \in rs THEN t ELSE By(m)[r]]
             /\ Many(n) = Many(m) /\ Aborts(n) = Aborts(m) /\ Opened(n) = Opened(m)
             /\ n.opncb = m.opncb
  <1> DEFINE n == Marked(m, rs, t)
  <1>1. n = [m EXCEPT !.reqcb = [r \in ReqCBs |->
               IF r \in rs THEN [m.reqcb[r] EXCEPT !.tskid = t] ELSE m.reqcb[r]]]
    BY DEF Marked, Fields
  <1> HIDE DEF n
  <1>2. /\ n.opncb = m.opncb /\ n.FreeReqCB = m.FreeReqCB /\ n.FreeOpnCB = m.FreeOpnCB /\ n.resq = m.resq
        /\ n.reqcb = [r \in ReqCBs |->
               IF r \in rs THEN [m.reqcb[r] EXCEPT !.tskid = t] ELSE m.reqcb[r]]
        /\ DOMAIN n = DOMAIN m
    BY <1>1 DEF Fields
  <1>3. Fields(n)
    BY <1>2 DEF Fields
  <1>4. Of(n) = Of(m) /\ By(n) = [r \in ReqCBs |-> IF r \in rs THEN t ELSE By(m)[r]]
    BY <1>2 DEF Fields, Of, By
  <1>5. Que(n) = Que(m) /\ Many(n) = Many(m) /\ Aborts(n) = Aborts(m) /\ Opened(n) = Opened(m)
    BY <1>2 DEF Que, Many, Aborts, Opened, AbortBy, AbortCnt, AbortSem, Resid
  <1> QED
    BY <1>2, <1>3, <1>4, <1>5 DEF n

LEMMA NewOpnIs ==
  ASSUME NEW m, Fields(m), NEW d, NEW u, NEW omode,
         m.FreeOpnCB \in Seq(OpnCBs), m.FreeOpnCB # <<>>
  PROVE  LET n == newOpnCB(m, d, u, omode)
             o == Head(m.FreeOpnCB)
         IN  /\ Fields(n) /\ o \in OpnCBs
             /\ Of(n) = Of(m) /\ By(n) = By(m) /\ n.FreeReqCB = m.FreeReqCB
             /\ Que(n) = [Que(m) EXCEPT ![o] = <<>>] /\ Many(n) = [Many(m) EXCEPT ![o] = <<>>]
             /\ AbortBy(n) = [AbortBy(m) EXCEPT ![o] = None]
             /\ AbortCnt(n) = [AbortCnt(m) EXCEPT ![o] = 0]
             /\ AbortSem(n) = [AbortSem(m) EXCEPT ![o] = 0]
             /\ Resid(n) = [Resid(m) EXCEPT ![o] = 0]
             /\ n.FreeOpnCB = Tail(m.FreeOpnCB) /\ n.resq = Append(m.resq, o)
  <1> DEFINE n == newOpnCB(m, d, u, omode)
             o == Head(m.FreeOpnCB)
  <1>1. o \in OpnCBs
    OBVIOUS
  <1> HIDE DEF o
  <1>2. n = [m EXCEPT !.FreeOpnCB = Tail(@), !.resq = Append(@, o),
                !.devcb[d].openq = Append(@, o),
                !.opncb[o] = [NoOpn EXCEPT !.devcb = d, !.unitno = u, !.omode = omode]]
    BY DEF newOpnCB, o
  <1> HIDE DEF n
  <1>3. /\ DOMAIN n = DOMAIN m /\ n.reqcb = m.reqcb /\ n.FreeReqCB = m.FreeReqCB
        /\ n.FreeOpnCB = Tail(m.FreeOpnCB) /\ n.resq = Append(m.resq, o)
        /\ n.opncb = [m.opncb EXCEPT ![o] = [NoOpn EXCEPT !.devcb = d, !.unitno = u, !.omode = omode]]
    BY <1>2 DEF Fields
  <1>4. Fields(n)
    BY <1>1, <1>3 DEF Fields, NoOpn
  <1>5. Of(n) = Of(m) /\ By(n) = By(m)
    BY <1>3 DEF Of, By
  <1> DEFINE c == [NoOpn EXCEPT !.devcb = d, !.unitno = u, !.omode = omode]
  <1>6. /\ c.requestq = <<>> /\ c.waireqlst = <<>> /\ c.abort_tskid = None /\ c.abort_cnt = 0
        /\ c.abort_sem = 0 /\ c.resid = 0
    BY DEF NoOpn
  <1> HIDE DEF c
  <1>7. n.opncb[o] = c /\ \A x \in OpnCBs \ {o} : n.opncb[x] = m.opncb[x]
    BY <1>1, <1>3 DEF Fields, c
  <1>8. Que(n) = [Que(m) EXCEPT ![o] = <<>>] /\ Many(n) = [Many(m) EXCEPT ![o] = <<>>]
    BY <1>1, <1>6, <1>7 DEF Que, Many
  <1>9. /\ AbortBy(n) = [AbortBy(m) EXCEPT ![o] = None]
        /\ AbortCnt(n) = [AbortCnt(m) EXCEPT ![o] = 0]
        /\ AbortSem(n) = [AbortSem(m) EXCEPT ![o] = 0]
        /\ Resid(n) = [Resid(m) EXCEPT ![o] = 0]
    BY <1>1, <1>6, <1>7 DEF AbortBy, AbortCnt, AbortSem, Resid
  <1> QED
    BY <1>1, <1>3, <1>4, <1>5, <1>8, <1>9 DEF n, o

Deleted(m, o, queue) ==
  [m EXCEPT !.devcb[m.opncb[o].devcb].openq = QueRemove(@, o), !.resq = QueRemove(@, o),
            !.FreeOpnCB = queue, !.opncb[o].resid = 0]

LEMMA DelOpnEither ==
  ASSUME NEW m, NEW o
  PROVE  /\ delOpnCB(m, o, TRUE) = Deleted(m, o, Append(m.FreeOpnCB, o))
         /\ delOpnCB(m, o, FALSE) = Deleted(m, o, m.FreeOpnCB)
  BY DEF delOpnCB, Deleted

LEMMA DelOpnIs ==
  ASSUME NEW m, Fields(m), NEW o \in OpnCBs, NEW n, NEW queue, n = Deleted(m, o, queue)
  PROVE  /\ Fields(n) /\ Requests(n) = Requests(m) /\ Many(n) = Many(m) /\ Aborts(n) = Aborts(m)
         /\ Resid(n) = [Resid(m) EXCEPT ![o] = 0]
         /\ n.FreeOpnCB = queue /\ n.resq = QueRemove(m.resq, o)
  <1> DEFINE dev == m.opncb[o].devcb
  <1>1. n = [m EXCEPT !.devcb[dev].openq = QueRemove(@, o),
            !.resq = QueRemove(@, o),
            !.FreeOpnCB = queue,
            !.opncb[o].resid = 0]
    BY DEF Deleted
  <1> HIDE DEF dev
  <1>2. /\ DOMAIN n = DOMAIN m /\ n.reqcb = m.reqcb /\ n.FreeReqCB = m.FreeReqCB
        /\ n.FreeOpnCB = queue /\ n.resq = QueRemove(m.resq, o)
        /\ n.opncb = [m.opncb EXCEPT ![o].resid = 0]
    BY <1>1 DEF Fields
  <1>3. Fields(n)
    BY <1>2 DEF Fields
  <1>4. Requests(n) = Requests(m) /\ Many(n) = Many(m)
    BY <1>2 DEF Fields, Requests, Of, By, Que, Many
  <1>5. Aborts(n) = Aborts(m)
    BY <1>2 DEF Fields, Aborts, AbortBy, AbortCnt, AbortSem
  <1>6. Resid(n) = [Resid(m) EXCEPT ![o] = 0]
    <2>1. n.opncb[o].resid = 0 /\ \A x \in OpnCBs \ {o} : n.opncb[x] = m.opncb[x]
      BY <1>2 DEF Fields
    <2> QED
      BY <2>1 DEF Resid
  <1> QED
    BY <1>2, <1>3, <1>4, <1>5, <1>6

-----------------------------------------------------------------------------
(***************************************************************************)
(* Who is in the driver, who closes and who opens a descriptor.            *)
(***************************************************************************)
Closing == {"abort", "aborted", "semwait", "drain", "drainfn", "close", "closed", "closefn"}
Opening == {"opened", "openfn"}

Inside == [o \in OpnCBs |-> {t \in Tasks : call[t].at \in Serving /\ call[t].o = o}]
Closers == [o \in OpnCBs |-> {t \in Tasks : call[t].at \in Closing /\ call[t].o = o}]
Openers == [o \in OpnCBs |-> {t \in Tasks : call[t].at \in Opening /\ call[t].o = o}]

Call(c) == DOMAIN c = {"at", "o", "d", "list", "any", "sync", "clean"}
IsCall(c) ==
  Call(c) /\ c.o \in OpnCBs \cup {None} /\ c.d \in DevCBs \cup {None} /\ c.list \in Seq(ReqCBs)
Called == call = [t \in Tasks |-> call[t]] /\ \A t \in Tasks : IsCall(call[t])

Typed(m) ==
  /\ Fields(m)
  /\ Of(m) \in [ReqCBs -> OpnCBs \cup {None}] /\ By(m) \in [ReqCBs -> Tasks \cup {None}]
  /\ Que(m) \in [OpnCBs -> Seq(ReqCBs)] /\ Many(m) \in [OpnCBs -> Seq(ReqCBs)]
  /\ AbortBy(m) \in [OpnCBs -> Tasks \cup {None}] /\ AbortCnt(m) \in [OpnCBs -> Int]
  /\ AbortSem(m) \in [OpnCBs -> {0, 1}] /\ Resid(m) \in [OpnCBs -> {0, 1}]
  /\ m.FreeReqCB \in Seq(ReqCBs) /\ m.FreeOpnCB \in Seq(OpnCBs) /\ m.resq \in Seq(OpnCBs)

Types ==
  /\ Typed(dm) /\ Called /\ down \in BOOLEAN
  /\ \A t \in Tasks : call[t].at \in Serving \cup Closing \cup Opening => call[t].o \in OpnCBs

(* A request is in the queue of its descriptor, once, or free. *)
Places ==
  /\ \A o \in OpnCBs : Once(Que(dm)[o])
  /\ Once(dm.FreeReqCB)
  /\ \A r \in ReqCBs, o \in OpnCBs : r \in ToSet(Que(dm)[o]) <=> Of(dm)[r] = o
  /\ \A r \in ToSet(dm.FreeReqCB) : Of(dm)[r] = None

(* Who is in the driver has its requests, and they bear its name. *)
Held ==
  \A o \in OpnCBs : \A t \in Inside[o] :
    /\ call[t].list # <<>>
    /\ ~ call[t].any => Len(call[t].list) = 1
    /\ call[t].any => call[t].at = "waitfn" /\ Many(dm)[o] # <<>>
    /\ \A r \in ToSet(call[t].list) : Of(dm)[r] = o /\ By(dm)[r] = t

(* Whose name a request bears is in the driver with it. *)
Owned ==
  \A r \in ReqCBs, o \in OpnCBs, t \in Tasks :
    Of(dm)[r] = o /\ By(dm)[r] = t => t \in Inside[o] /\ r \in ToSet(call[t].list)

(* Who waits for any request of a descriptor is alone in the driver with it. *)
Alone ==
  \A o \in OpnCBs : Many(dm)[o] # <<>> => \E t \in Tasks : Inside[o] = {t} /\ call[t].any

Serve == Places /\ Held /\ Owned /\ Alone

LEMMA NoneApart == None \notin Tasks /\ None \notin DevCBs /\ None \notin OpnCBs
  BY DeviceAssumption

(* Where everybody is when t has gone on to c. *)
LEMMA Moved ==
  ASSUME Called, NEW t \in Tasks, NEW c, IsCall(c), Moves(t, c)
  PROVE  /\ Called' /\ call'[t] = c /\ \A u \in Tasks \ {t} : call'[u] = call[u]
         /\ \A o \in OpnCBs : Inside'[o] = (Inside[o] \ {t}) \cup {u \in {t} : c.at \in Serving /\ c.o = o}
         /\ \A o \in OpnCBs : Closers'[o] = (Closers[o] \ {t}) \cup {u \in {t} : c.at \in Closing /\ c.o = o}
         /\ \A o \in OpnCBs : Openers'[o] = (Openers[o] \ {t}) \cup {u \in {t} : c.at \in Opening /\ c.o = o}
         /\ \A o \in OpnCBs : (t \in Inside[o] <=> call[t].at \in Serving /\ call[t].o = o)
                           /\ (t \in Closers[o] <=> call[t].at \in Closing /\ call[t].o = o)
                           /\ (t \in Openers[o] <=> call[t].at \in Opening /\ call[t].o = o)
  <1>1. Called' /\ call'[t] = c /\ \A u \in Tasks \ {t} : call'[u] = call[u]
    <2>1. DOMAIN call = Tasks
      BY DEF Called
    <2>2. call'[t] = c /\ (\A u \in Tasks \ {t} : call'[u] = call[u]) /\ call' = [u \in Tasks |-> call'[u]]
      BY <2>1 DEF Moves
    <2>3. \A u \in Tasks : IsCall(call'[u])
      BY <2>2 DEF Called
    <2> QED
      BY <2>2, <2>3 DEF Called
  <1>2. \A o \in OpnCBs : Inside'[o] = (Inside[o] \ {t}) \cup {u \in {t} : c.at \in Serving /\ c.o = o}
    BY <1>1 DEF Inside
  <1>3. \A o \in OpnCBs : Closers'[o] = (Closers[o] \ {t}) \cup {u \in {t} : c.at \in Closing /\ c.o = o}
    BY <1>1 DEF Closers
  <1>4. \A o \in OpnCBs : Openers'[o] = (Openers[o] \ {t}) \cup {u \in {t} : c.at \in Opening /\ c.o = o}
    BY <1>1 DEF Openers
  <1>5. \A o \in OpnCBs : (t \in Inside[o] <=> call[t].at \in Serving /\ call[t].o = o)
                       /\ (t \in Closers[o] <=> call[t].at \in Closing /\ call[t].o = o)
                       /\ (t \in Openers[o] <=> call[t].at \in Opening /\ call[t].o = o)
    BY DEF Inside, Closers, Openers
  <1> QED
    BY <1>1, <1>2, <1>3, <1>4, <1>5

(* A step that concerns neither requests nor the driver. *)
LEMMA ServeSame ==
  ASSUME Types, Serve, Requests(dm') = Requests(dm), Many(dm') = Many(dm),
         Inside' = Inside, \A o \in OpnCBs : \A t \in Inside[o] : call'[t] = call[t]
  PROVE  Serve'
  <1>1. Of(dm') = Of(dm) /\ By(dm') = By(dm) /\ Que(dm') = Que(dm) /\ dm'.FreeReqCB = dm.FreeReqCB
    BY DEF Requests
  <1>2. Places'
    BY <1>1 DEF Serve, Places
  <1>3. Held'
    BY <1>1 DEF Serve, Held
  <1>4. Owned'
    BY <1>1 DEF Serve, Owned
  <1>5. Alone'
    <2>1. \A o \in OpnCBs, t \in Tasks : Inside[o] = {t} => call'[t] = call[t]
      OBVIOUS
    <2> QED
      BY <1>1, <2>1 DEF Serve, Alone
  <1> QED
    BY <1>2, <1>3, <1>4, <1>5 DEF Serve

(* A request that nobody is in the driver with is made, or goes. *)
LEMMA NewPlaces ==
  ASSUME Types, Serve, NEW o \in OpnCBs, dm.FreeReqCB # <<>>, NEW r, r = Head(dm.FreeReqCB),
         Of(dm') = [Of(dm) EXCEPT ![r] = o], Que(dm') = [Que(dm) EXCEPT ![o] = Append(@, r)],
         dm'.FreeReqCB = Tail(dm.FreeReqCB)
  PROVE  Places' /\ r \in ReqCBs /\ Of(dm)[r] = None
  <1>1. /\ r \in ReqCBs /\ r \in ToSet(dm.FreeReqCB) /\ Once(dm'.FreeReqCB)
        /\ ToSet(dm'.FreeReqCB) = ToSet(dm.FreeReqCB) \ {r}
    BY HeadHolds DEF Types, Typed, Serve, Places
  <1>2. Of(dm)[r] = None
    BY <1>1 DEF Serve, Places
  <1>3. r \notin ToSet(Que(dm)[o])
    BY <1>1, <1>2, NoneApart DEF Serve, Places
  <1>4. Que(dm)[o] \in Seq(ReqCBs) /\ Once(Que(dm)[o])
    BY DEF Types, Typed, Serve, Places
  <1>5. /\ ToSet(Append(Que(dm)[o], r)) = ToSet(Que(dm)[o]) \cup {r}
        /\ Once(Append(Que(dm)[o], r))
    BY <1>1, <1>3, <1>4, AppendHolds
  <1>6. \A p \in OpnCBs : Que(dm')[p] = IF p = o THEN Append(Que(dm)[o], r) ELSE Que(dm)[p]
    BY DEF Types, Typed
  <1>7. \A x \in ReqCBs : Of(dm')[x] = IF x = r THEN o ELSE Of(dm)[x]
    BY <1>1 DEF Types, Typed
  <1>8. \A p \in OpnCBs : Once(Que(dm')[p])
    BY <1>5, <1>6 DEF Serve, Places
  <1>9. \A x \in ReqCBs, p \in OpnCBs : x \in ToSet(Que(dm')[p]) <=> Of(dm')[x] = p
    BY <1>2, <1>5, <1>6, <1>7, NoneApart DEF Serve, Places
  <1>10. \A x \in ToSet(dm'.FreeReqCB) : x \in ReqCBs /\ Of(dm')[x] = None
    <2>1. \A x \in ToSet(dm.FreeReqCB) : x \in ReqCBs
      BY DEF Types, Typed, ToSet
    <2> QED
      BY <1>1, <1>7, <2>1 DEF Serve, Places
  <1> QED
    BY <1>1, <1>2, <1>8, <1>9, <1>10 DEF Places

LEMMA DelPlaces ==
  ASSUME Types, Serve, NEW o \in OpnCBs, NEW r \in ReqCBs, Of(dm)[r] = o,
         Of(dm') = [Of(dm) EXCEPT ![r] = None], Que(dm') = [Que(dm) EXCEPT ![o] = QueRemove(@, r)],
         dm'.FreeReqCB = Append(dm.FreeReqCB, r)
  PROVE  Places'
  <1>1. r \notin ToSet(dm.FreeReqCB)
    BY NoneApart DEF Serve, Places
  <1>2. Once(dm'.FreeReqCB) /\ ToSet(dm'.FreeReqCB) = ToSet(dm.FreeReqCB) \cup {r}
    BY <1>1, AppendHolds DEF Types, Typed, Serve, Places
  <1>3. Que(dm)[o] \in Seq(ReqCBs) /\ Once(Que(dm)[o])
    BY DEF Types, Typed, Serve, Places
  <1>4. Once(QueRemove(Que(dm)[o], r)) /\ ToSet(QueRemove(Que(dm)[o], r)) = ToSet(Que(dm)[o]) \ {r}
    BY <1>3, QueRemoveHolds
  <1>5. \A p \in OpnCBs : Que(dm')[p] = IF p = o THEN QueRemove(Que(dm)[o], r) ELSE Que(dm)[p]
    BY DEF Types, Typed
  <1>6. \A x \in ReqCBs : Of(dm')[x] = IF x = r THEN None ELSE Of(dm)[x]
    BY DEF Types, Typed
  <1>7. \A p \in OpnCBs : Once(Que(dm')[p])
    BY <1>4, <1>5 DEF Serve, Places
  <1>8. \A x \in ReqCBs, p \in OpnCBs : x \in ToSet(Que(dm')[p]) <=> Of(dm')[x] = p
    BY <1>4, <1>5, <1>6, NoneApart DEF Serve, Places
  <1>9. \A x \in ToSet(dm'.FreeReqCB) : Of(dm')[x] = None
    <2>1. \A x \in ToSet(dm.FreeReqCB) : x \in ReqCBs
      BY DEF Types, Typed, ToSet
    <2> QED
      BY <1>2, <1>6, <2>1 DEF Serve, Places
  <1> QED
    BY <1>2, <1>7, <1>8, <1>9 DEF Places
-----------------------------------------------------------------------------
(***************************************************************************)
(* Suspension.  Of the tables only the list of the registered devices and  *)
(* their kind matter, and no step changes them while somebody has REG.     *)
(***************************************************************************)
Suspending == {"suspend others", "suspend disks", "asleep", "resume disks", "resume others"}

Shaped(m) ==
  /\ DOMAIN m = {"devcb", "opncb", "reqcb", "UsedDevCB", "FreeDevCB", "FreeOpnCB", "FreeReqCB",
                 "resq", "dissus"}
  /\ DOMAIN m.devcb = DevCBs
  /\ \A d \in DevCBs : DOMAIN m.devcb[d] = {"devnm", "ddev", "openq"}

Disks(m) == [d \in DevCBs |-> m.devcb[d].ddev.disk]
Devs(m) == << Disks(m), m.UsedDevCB, m.FreeDevCB >>

Steps == {"none", "eventfn", "opened", "openfn", "execfn", "towait", "waitfn", "abort", "aborted",
          "semwait", "drain", "drainfn", "close", "closed", "closefn", "cleanup"}

(* The devices of either kind, and those of one kind whose turn in a pass  *)
(* is over while d is being told.                                          *)
AllDisks == {x \in ToSet(dm.UsedDevCB) : Disks(dm)[x] = TRUE}
Others == {x \in ToSet(dm.UsedDevCB) : Disks(dm)[x] = FALSE}
Over(d) == {i \in DOMAIN dm.UsedDevCB : i \notin Behind(d) /\ dm.UsedDevCB[i] # d}
Passed(d, kind) == {dm.UsedDevCB[i] : i \in Over(d)} \cap kind

Listed ==
  /\ Shaped(dm) /\ \A d \in DevCBs : Disks(dm)[d] \in BOOLEAN
  /\ dm.UsedDevCB \in Seq(DevCBs) /\ dm.FreeDevCB \in Seq(DevCBs)
  /\ Once(dm.UsedDevCB) /\ Once(dm.FreeDevCB)
  /\ ToSet(dm.UsedDevCB) \cap ToSet(dm.FreeDevCB) = {}
  /\ call = [t \in Tasks |-> call[t]] /\ \A t \in Tasks : Call(call[t])

(* How far the task that suspends the devices has got. *)
Telling(t) ==
  LET d == call[t].d
  IN  /\ call[t].at = "sus" => d = None
      /\ call[t].at = "suspend others" =>
           d \in Others \cup {None} /\ told = Passed(d, Others)
      /\ call[t].at = "suspend disks" =>
           d \in AllDisks \cup {None} /\ told = Others \cup Passed(d, AllDisks)
      /\ call[t].at = "asleep" => d = None /\ told = ToSet(dm.UsedDevCB)
      /\ call[t].at = "resume disks" =>
           d \in AllDisks \cup {None} /\ told = ToSet(dm.UsedDevCB) \ Passed(d, AllDisks)
      /\ call[t].at = "resume others" =>
           d \in Others \cup {None} /\ told = Others \ Passed(d, Others)

Together ==
  /\ Listed
  /\ reg = None => told = {}
  /\ \A t \in Tasks : call[t].at \in Suspending => reg = t
  /\ \A t \in Tasks : Telling(t)

(* A pass goes through the devices of its kind. *)
LEMMA PassGoes ==
  ASSUME Listed, NEW kind, kind \subseteq ToSet(dm.UsedDevCB), NEW d \in kind \cup {None},
         NEW next, next = {i \in Behind(d) : dm.UsedDevCB[i] \in kind}
  PROVE  /\ Passed(None, kind) = {} /\ Passed(d, kind) \subseteq kind
         /\ next = {} => kind = Passed(d, kind) \cup ({d} \ {None})
         /\ \A k \in next : (\A j \in next : k <= j) =>
              /\ dm.UsedDevCB[k] \in kind
              /\ Passed(dm.UsedDevCB[k], kind) = Passed(d, kind) \cup ({d} \ {None})
  <1> DEFINE q == dm.UsedDevCB
             n == Len(q)
             right(i) == q[i] \in kind
  <1>1. q \in Seq(DevCBs) /\ n \in Nat /\ DOMAIN q = 1 .. n /\ \A i \in 1 .. n : q[i] \in DevCBs
    BY DEF Listed
  <1>3. \A x : Behind(x) = {i \in 1 .. n : \A j \in {h \in 1 .. n : q[h] = x} : i > j}
    BY <1>1 DEF Behind
  <1>4. \A x : x \in kind <=> \E i \in 1 .. n : q[i] = x /\ right(i)
    BY <1>1 DEF ToSet
  <1>5. \A x, y : y \in Passed(x, kind) <=>
          \E i \in 1 .. n : i \notin Behind(x) /\ q[i] # x /\ right(i) /\ y = q[i]
    BY <1>1 DEF Passed, Over
  <1>6. \A i \in 1 .. n : i \in next <=> i \in Behind(d) /\ right(i)
    OBVIOUS
  <1>7. next \subseteq 1 .. n
    BY <1>1 DEF Behind
  <1>8. \A i, j \in 1 .. n : q[i] = q[j] => i = j
    BY <1>1 DEF Listed, Once
  <1>9. None \notin DevCBs
    BY NoneApart
  <1> HIDE DEF q, n, right
  <1>10. Passed(None, kind) = {}
    <2>1. Behind(None) = 1 .. n
      BY <1>1, <1>3, <1>9
    <2> QED
      BY <1>5, <2>1
  <1>11. Passed(d, kind) \subseteq kind
    BY <1>4, <1>5
  <1>12. ASSUME next = {} PROVE kind = Passed(d, kind) \cup ({d} \ {None})
    <2>1. \A i \in 1 .. n : right(i) => i \notin Behind(d)
      BY <1>6, <1>12
    <2>2. \A x \in kind : x \in Passed(d, kind) \cup ({d} \ {None})
      BY <1>1, <1>4, <1>5, <1>9, <2>1
    <2> QED
      BY <1>11, <2>2
  <1>13. ASSUME NEW k \in next, \A j \in next : k <= j
         PROVE  q[k] \in kind /\ Passed(q[k], kind) = Passed(d, kind) \cup ({d} \ {None})
    <2>1. k \in 1 .. n /\ k \in Behind(d) /\ right(k)
      BY <1>6, <1>7
    <2>2. q[k] \in kind
      BY <1>4, <2>1
    <2>3. \A i \in 1 .. n : i \in Behind(q[k]) <=> i > k
      BY <1>3, <1>8, <2>1
    <2>4. ASSUME NEW y \in Passed(q[k], kind) PROVE y \in Passed(d, kind) \cup ({d} \ {None})
      <3>1. PICK i \in 1 .. n : i \notin Behind(q[k]) /\ q[i] # q[k] /\ right(i) /\ y = q[i]
        BY <1>5
      <3>2. i \in Nat /\ k \in Nat /\ i # k /\ ~ (i > k)
        BY <1>1, <2>1, <2>3, <3>1
      <3>3. i \notin next
        BY <1>13, <3>2
      <3>4. i \notin Behind(d)
        BY <1>6, <3>1, <3>3
      <3> QED
        BY <1>1, <1>5, <1>9, <3>1, <3>4
    <2>5. ASSUME NEW j \in 1 .. n, q[j] = d PROVE k > j
      BY <1>3, <2>1, <2>5
    <2>6. ASSUME NEW y \in Passed(d, kind) \cup ({d} \ {None}) PROVE y \in Passed(q[k], kind)
      <3>1. PICK i \in 1 .. n : right(i) /\ y = q[i] /\ \E j \in 1 .. n : q[j] = d /\ i <= j
        <4>1. CASE y \in Passed(d, kind)
          <5>1. PICK i \in 1 .. n : i \notin Behind(d) /\ right(i) /\ y = q[i]
            BY <1>5, <4>1
          <5>2. PICK j \in 1 .. n : q[j] = d /\ ~ (i > j)
            BY <1>3, <5>1
          <5>3. i <= j
            BY <1>1, <5>2
          <5> QED
            BY <5>1, <5>2, <5>3
        <4>2. CASE y = d /\ d # None
          <5>1. d \in kind
            BY <4>2
          <5>2. PICK i \in 1 .. n : q[i] = d /\ right(i)
            BY <1>4, <5>1
          <5>3. i <= i
            BY <1>1
          <5> QED
            BY <4>2, <5>2, <5>3
        <4> QED
          BY <4>1, <4>2, <2>6
      <3>2. i < k
        <4>1. PICK j \in 1 .. n : q[j] = d /\ i <= j
          BY <3>1
        <4>2. k > j
          BY <2>5, <4>1
        <4> QED
          BY <1>1, <2>1, <4>1, <4>2
      <3>3. i \notin Behind(q[k]) /\ q[i] # q[k]
        <4>1. i # k /\ ~ (i > k)
          BY <1>1, <2>1, <3>2
        <4> QED
          BY <1>8, <2>1, <2>3, <4>1
      <3> QED
        BY <1>5, <3>1, <3>3
    <2> QED
      BY <2>2, <2>4, <2>6
  <1> QED
    BY <1>10, <1>11, <1>12, <1>13 DEF q

(* A step that leaves the devices alone, of a task that does not suspend them. *)
LEMMA DevsSame ==
  ASSUME Together, NEW t \in Tasks, NEW c, Call(c), Moves(t, c), call[t].at \in Steps,
         c.at \in Steps \/ (c.at = "sus" /\ c.d = None),
         Shaped(dm'), Devs(dm') = Devs(dm), UNCHANGED <<reg, told>>
  PROVE  Together'
  <1>1. Disks(dm') = Disks(dm) /\ dm'.UsedDevCB = dm.UsedDevCB /\ dm'.FreeDevCB = dm.FreeDevCB
    BY DEF Devs
  <1>2. /\ call' = [u \in Tasks |-> call'[u]] /\ call'[t] = c
        /\ \A u \in Tasks \ {t} : call'[u] = call[u]
    <2>1. call = [u \in Tasks |-> call[u]]
      BY DEF Together, Listed
    <2> QED
      BY <2>1 DEF Moves
  <1>3. Listed'
    BY <1>1, <1>2 DEF Together, Listed
  <1>4. c.at \notin Suspending
    BY DEF Steps, Suspending
  <1>5. \A u \in Tasks : call'[u].at \in Suspending => reg' = u
    BY <1>2, <1>4 DEF Together
  <1>6. ASSUME NEW u \in Tasks PROVE Telling(u)'
    <2>1. CASE u = t
      <3>1. c.at = "sus" => c.d = None
        BY DEF Steps
      <3> QED
        BY <1>2, <1>4, <2>1, <3>1 DEF Telling, Suspending
    <2>2. CASE u # t
      <3>1. call'[u] = call[u] /\ Telling(u)
        BY <1>2, <2>2 DEF Together
      <3>2. \A x : Behind(x)' = Behind(x)
        BY <1>1 DEF Behind
      <3>3. AllDisks' = AllDisks /\ Others' = Others
        BY <1>1 DEF AllDisks, Others
      <3>4. \A x : Passed(x, AllDisks)' = Passed(x, AllDisks) /\ Passed(x, Others)' = Passed(x, Others)
        BY <1>1, <3>2, <3>3 DEF Passed, Over
      <3> QED
        BY <1>1, <3>1, <3>3, <3>4 DEF Telling
    <2> QED
      BY <2>1, <2>2
  <1> QED
    BY <1>3, <1>5, <1>6 DEF Together
(* What the operations on descriptors and requests leave alone. *)
Apart(m, n) ==
  /\ DOMAIN n = DOMAIN m /\ n.devcb = m.devcb
  /\ n.UsedDevCB = m.UsedDevCB /\ n.FreeDevCB = m.FreeDevCB

LEMMA ApartDevs ==
  ASSUME NEW m, NEW n, Shaped(m), Apart(m, n)
  PROVE  Shaped(n) /\ Devs(n) = Devs(m)
  BY DEF Apart, Shaped, Devs, Disks

LEMMA OpnDevs ==
  ASSUME NEW m, Shaped(m), NEW d, NEW u, NEW omode, NEW o, NEW free \in BOOLEAN
  PROVE  /\ Shaped(newOpnCB(m, d, u, omode)) /\ Devs(newOpnCB(m, d, u, omode)) = Devs(m)
         /\ Shaped(delOpnCB(m, o, free)) /\ Devs(delOpnCB(m, o, free)) = Devs(m)
  <1>1. ASSUME NEW n, NEW x, NEW q, DOMAIN n = DOMAIN m, n.devcb = [m.devcb EXCEPT ![x].openq = q],
               n.UsedDevCB = m.UsedDevCB, n.FreeDevCB = m.FreeDevCB
        PROVE  Shaped(n) /\ Devs(n) = Devs(m)
    <2>1. DOMAIN n.devcb = DevCBs
      BY <1>1 DEF Shaped
    <2>2. ASSUME NEW y \in DevCBs
          PROVE  DOMAIN n.devcb[y] = DOMAIN m.devcb[y] /\ n.devcb[y].ddev = m.devcb[y].ddev
      <3>1. CASE y = x
        BY <1>1, <3>1 DEF Shaped
      <3>2. CASE y # x
        BY <1>1, <3>2 DEF Shaped
      <3> QED
        BY <3>1, <3>2
    <2> QED
      BY <1>1, <2>1, <2>2 DEF Shaped, Devs, Disks
  <1>2. Shaped(newOpnCB(m, d, u, omode)) /\ Devs(newOpnCB(m, d, u, omode)) = Devs(m)
    <2> DEFINE n == newOpnCB(m, d, u, omode)
               h == Head(m.FreeOpnCB)
               c == [NoOpn EXCEPT !.devcb = d, !.unitno = u, !.omode = omode]
    <2>1. n = [m EXCEPT !.FreeOpnCB = Tail(@), !.resq = Append(@, h),
                !.devcb[d].openq = Append(@, h), !.opncb[h] = c]
      BY DEF newOpnCB
    <2> HIDE DEF n, h, c
    <2>2. /\ DOMAIN n = DOMAIN m /\ n.devcb = [m.devcb EXCEPT ![d].openq = Append(m.devcb[d].openq, h)]
          /\ n.UsedDevCB = m.UsedDevCB /\ n.FreeDevCB = m.FreeDevCB
      BY <2>1 DEF Shaped
    <2>3. Shaped(n) /\ Devs(n) = Devs(m)
      BY <1>1, <2>2
    <2> QED
      BY <2>3 DEF n
  <1>3. Shaped(delOpnCB(m, o, free)) /\ Devs(delOpnCB(m, o, free)) = Devs(m)
    <2> DEFINE n == delOpnCB(m, o, free)
               x == m.opncb[o].devcb
    <2>1. n = [m EXCEPT !.devcb[x].openq = QueRemove(@, o), !.resq = QueRemove(@, o),
            !.FreeOpnCB = IF free THEN Append(@, o) ELSE @, !.opncb[o].resid = 0]
      BY DEF delOpnCB
    <2> HIDE DEF n, x
    <2>2. /\ DOMAIN n = DOMAIN m /\ n.devcb = [m.devcb EXCEPT ![x].openq = QueRemove(m.devcb[x].openq, o)]
          /\ n.UsedDevCB = m.UsedDevCB /\ n.FreeDevCB = m.FreeDevCB
      BY <2>1 DEF Shaped
    <2>3. Shaped(n) /\ Devs(n) = Devs(m)
      BY <1>1, <2>2
    <2> QED
      BY <2>3 DEF n
  <1> QED
    BY <1>2, <1>3

LEMMA ReqDevs ==
  ASSUME NEW m, Shaped(m)
  PROVE  /\ \A o, t : Apart(m, newReqCB(m, o, t))
         /\ \A r : Apart(m, delReqCB(m, r))
         /\ \A o : Apart(m, Notify(m, o))
         /\ \A rs, t : Apart(m, Marked(m, rs, t))
  <1>1. \A o, t : Apart(m, newReqCB(m, o, t))
    BY DEF newReqCB, Apart, Shaped
  <1>2. ASSUME NEW r PROVE Apart(m, delReqCB(m, r))
    <2> DEFINE o == m.reqcb[r].opncb
               q == IF o = None THEN [m EXCEPT !.FreeReqCB = QueRemove(@, r)]
                    ELSE [m EXCEPT !.opncb[o].requestq = QueRemove(@, r)]
    <2>1. Apart(m, q) /\ Shaped(q)
      BY DEF Apart, Shaped
    <2>2. delReqCB(m, r) = [q EXCEPT !.FreeReqCB = Append(@, r), !.reqcb[r].opncb = None,
                !.reqcb[r].abort = FALSE]
      BY DEF delReqCB
    <2> HIDE DEF q
    <2>3. Apart(q, delReqCB(m, r))
      BY <2>1, <2>2 DEF Apart, Shaped
    <2> QED
      BY <2>1, <2>3 DEF Apart
  <1>3. \A o : Apart(m, Notify(m, o))
    BY DEF Notify, Apart, Shaped
  <1>4. \A rs, t : Apart(m, Marked(m, rs, t))
    BY DEF Marked, Apart, Shaped
  <1> QED
    BY <1>1, <1>2, <1>3, <1>4

(* What is written to a descriptor or a request alone. *)
LEMMA FieldsDevs ==
  ASSUME NEW m, Shaped(m), NEW n,
         \/ \E x : n = [m EXCEPT !.opncb = x]
         \/ \E x : n = [m EXCEPT !.reqcb = x]
         \/ \E x, y : n = [m EXCEPT !.opncb = x, !.reqcb = y]
         \/ \E x, y : n = [m EXCEPT !.FreeOpnCB = x, !.opncb = y]
         \/ \E x, y : n = [m EXCEPT !.dissus = x, !.opncb = y]
         \/ \E x : n = [m EXCEPT !.dissus = x]
  PROVE  Shaped(n) /\ Devs(n) = Devs(m)
  <1>1. Apart(m, n)
    BY DEF Apart, Shaped
  <1> QED
    BY <1>1, ApartDevs

(* The steps that have nothing to do with suspension. *)
Plain(t, c) ==
  /\ Call(c) /\ Moves(t, c) /\ call[t].at \in Steps /\ c.at \in Steps
  /\ Shaped(dm') /\ Devs(dm') = Devs(dm) /\ UNCHANGED <<reg, told>>

LEMMA Staying ==
  ASSUME Together, NEW t \in Tasks, UNCHANGED call
  PROVE  Moves(t, call[t]) /\ Call(call[t])
  <1>1. call = [u \in Tasks |-> call[u]] /\ Call(call[t])
    BY DEF Together, Listed
  <1>2. [call EXCEPT ![t] = call[t]] = call
    BY <1>1
  <1> QED
    BY <1>1, <1>2 DEF Moves

LEMMA Callable ==
  ASSUME Together, NEW t \in Tasks
  PROVE  /\ Shaped(dm) /\ Call(call[t]) /\ Call(NoCall) /\ NoCall.at = "none"
         /\ \A where : LET c == [call[t] EXCEPT !.at = where] IN Call(c) /\ c.at = where
  <1>1. Shaped(dm) /\ Call(call[t])
    BY DEF Together, Listed
  <1>2. Call(NoCall) /\ NoCall.at = "none"
    BY DEF Call, NoCall
  <1> QED
    BY <1>1, <1>2 DEF Call

LEMMA PlainOpen ==
  ASSUME Together, NEW t \in Tasks,
         \/ \E d \in DevCBs : tk_evt_dev(t, d)
         \/ EventEnds(t)
         \/ \E n, u, omode : tk_opn_dev(t, n, u, omode)
         \/ OpenEnds(t)
         \/ OpenFails(t)
  PROVE  \E c : Plain(t, c)
  <1>1. ASSUME NEW d \in DevCBs, tk_evt_dev(t, d) PROVE \E c : Plain(t, c)
    <2> DEFINE c == [NoCall EXCEPT !.at = "eventfn", !.d = d]
    <2>1. Call(c) /\ c.at = "eventfn"
      BY DEF Call, NoCall
    <2>2. Moves(t, c) /\ call[t] = NoCall /\ UNCHANGED <<dm, reg, told>>
      BY <1>1 DEF tk_evt_dev, Starts
    <2> HIDE DEF c
    <2>3. Plain(t, c)
      BY <2>1, <2>2, Callable DEF Plain, Steps
    <2> QED
      BY <2>3
  <1>2. ASSUME EventEnds(t) PROVE \E c : Plain(t, c)
    <2>1. Plain(t, NoCall)
      BY <1>2, Callable DEF Plain, Steps, EventEnds, At, Ends
    <2> QED
      BY <2>1
  <1>3. ASSUME NEW n, NEW u, NEW omode, tk_opn_dev(t, n, u, omode)
        PROVE  \E c : Plain(t, c)
    <2> DEFINE o == Head(dm.FreeOpnCB)
    <2>1. PICK d \in searchDevCB(n), made \in BOOLEAN :
             /\ dm' = IF made THEN newOpnCB(dm, d, u, omode)
                      ELSE delOpnCB(newOpnCB(dm, d, u, omode), o, TRUE)
             /\ IF ~made THEN UNCHANGED call
                ELSE Moves(t, [NoCall EXCEPT !.o = o, !.at =
                       IF chkopen(dm, d, u) /\ ~dm.devcb[d].ddev.openreq
                       THEN "opened" ELSE "openfn"])
      BY <1>3 DEF tk_opn_dev
    <2>2. call[t] = NoCall /\ UNCHANGED <<reg, told>>
      BY <1>3 DEF tk_opn_dev, Starts
    <2>3. Shaped(dm)
      BY Callable
    <2>4. Shaped(dm') /\ Devs(dm') = Devs(dm)
      <3>1. Shaped(newOpnCB(dm, d, u, omode)) /\ Devs(newOpnCB(dm, d, u, omode)) = Devs(dm)
        BY <2>3, OpnDevs
      <3> DEFINE m == newOpnCB(dm, d, u, omode)
      <3> HIDE DEF m
      <3>2. Shaped(m) => Shaped(delOpnCB(m, o, TRUE)) /\ Devs(delOpnCB(m, o, TRUE)) = Devs(m)
        BY OpnDevs
      <3> QED
        BY <2>1, <3>1, <3>2 DEF m
    <2> HIDE DEF o
    <2>5. CASE made
      <3> DEFINE where == IF chkopen(dm, d, u) /\ ~dm.devcb[d].ddev.openreq THEN "opened" ELSE "openfn"
                 c == [NoCall EXCEPT !.o = o, !.at = where]
      <3>1. Moves(t, c)
        BY <2>1, <2>5
      <3>2. where \in {"opened", "openfn"}
        OBVIOUS
      <3> HIDE DEF where
      <3>3. Call(c) /\ c.at = where
        BY DEF Call, NoCall
      <3> HIDE DEF c
      <3>4. Plain(t, c)
        BY <2>2, <2>4, <3>1, <3>2, <3>3, Callable DEF Plain, Steps
      <3> QED
        BY <3>4
    <2>6. CASE ~made
      <3>1. Plain(t, call[t])
        BY <2>1, <2>2, <2>4, <2>6, Staying, Callable DEF Plain, Steps
      <3> QED
        BY <3>1
    <2> QED
      BY <2>5, <2>6
  <1>4. ASSUME OpenEnds(t) PROVE \E c : Plain(t, c)
    <2>1. Shaped(dm') /\ Devs(dm') = Devs(dm)
      BY <1>4, Callable, FieldsDevs DEF OpenEnds
    <2>2. Plain(t, NoCall)
      BY <1>4, <2>1, Callable DEF Plain, Steps, OpenEnds, At, Ends
    <2> QED
      BY <2>2
  <1>5. ASSUME OpenFails(t) PROVE \E c : Plain(t, c)
    <2>1. Shaped(dm') /\ Devs(dm') = Devs(dm)
      BY <1>5, Callable, OpnDevs DEF OpenFails
    <2>2. Plain(t, NoCall)
      BY <1>5, <2>1, Callable DEF Plain, Steps, OpenFails, At, Ends
    <2> QED
      BY <2>2
  <1> QED
    BY <1>1, <1>2, <1>3, <1>4, <1>5

LEMMA PlainRequest ==
  ASSUME Together, NEW t \in Tasks,
         \/ \E sync \in BOOLEAN : \E o, need : knl_request(t, o, need, sync)
         \/ RequestEnds(t) \/ RequestFails(t) \/ WaitRefused(t)
         \/ \E o : WaitAny(t, o)
         \/ \E o, r : WaitOne(t, o, r)
         \/ \E done : WaitEnds(t, done)
  PROVE  \E c : Plain(t, c)
  <1> USE Callable
  <1>1. ASSUME NEW o, NEW need, NEW sync \in BOOLEAN, knl_request(t, o, need, sync)
        PROVE  \E c : Plain(t, c)
    <2> DEFINE c == [NoCall EXCEPT !.at = "execfn", !.o = o, !.sync = sync,
                                   !.list = <<Head(dm.FreeReqCB)>>]
    <2>1. Call(c) /\ c.at = "execfn"
      BY DEF Call, NoCall
    <2>2. /\ Moves(t, c) /\ call[t] = NoCall /\ UNCHANGED <<reg, told>> /\ dm' = newReqCB(dm, o, t)
      BY <1>1 DEF knl_request, Starts
    <2> HIDE DEF c
    <2>3. Shaped(dm') /\ Devs(dm') = Devs(dm)
      BY <2>2, ReqDevs, ApartDevs
    <2>4. Plain(t, c)
      BY <2>1, <2>2, <2>3 DEF Plain, Steps
    <2> QED
      BY <2>4
  <1>2. \A r : LET m == [dm EXCEPT !.reqcb[r].tskid = None]
                   n == Notify(m, call[t].o)
               IN  Shaped(n) /\ Devs(n) = Devs(dm)
    <2> SUFFICES ASSUME NEW r
                 PROVE  LET m == [dm EXCEPT !.reqcb[r].tskid = None]
                            n == Notify(m, call[t].o)
                        IN  Shaped(n) /\ Devs(n) = Devs(dm)
      OBVIOUS
    <2> DEFINE m == [dm EXCEPT !.reqcb[r].tskid = None]
    <2>1. Shaped(m) /\ Devs(m) = Devs(dm)
      BY FieldsDevs
    <2> HIDE DEF m
    <2>2. Shaped(Notify(m, call[t].o)) /\ Devs(Notify(m, call[t].o)) = Devs(m)
      BY <2>1, ReqDevs, ApartDevs
    <2> QED
      BY <2>1, <2>2 DEF m
  <1>3. Shaped(Returned(t)) /\ Devs(Returned(t)) = Devs(dm)
    BY <1>2 DEF Returned
  <1>4. ASSUME RequestEnds(t) PROVE \E c : Plain(t, c)
    <2>1. Shaped(dm') /\ Devs(dm') = Devs(dm) /\ UNCHANGED <<reg, told>> /\ call[t].at = "execfn"
      BY <1>3, <1>4 DEF RequestEnds, At
    <2>2. Moves(t, NoCall) \/ Moves(t, [call[t] EXCEPT !.at = "towait"])
      BY <1>4 DEF RequestEnds, Ends
    <2>3. Moves(t, NoCall) => Plain(t, NoCall)
      BY <2>1 DEF Plain, Steps
    <2>4. Moves(t, [call[t] EXCEPT !.at = "towait"]) => Plain(t, [call[t] EXCEPT !.at = "towait"])
      BY <2>1 DEF Plain, Steps
    <2> QED
      BY <2>2, <2>3, <2>4
  <1>5. ASSUME RequestFails(t) PROVE \E c : Plain(t, c)
    <2>1. Shaped(dm') /\ Devs(dm') = Devs(dm)
      BY <1>3, <1>5, ReqDevs, ApartDevs DEF RequestFails
    <2>2. Plain(t, NoCall)
      BY <1>5, <2>1 DEF Plain, Steps, RequestFails, At, Ends
    <2> QED
      BY <2>2
  <1>6. ASSUME WaitRefused(t) PROVE \E c : Plain(t, c)
    <2>1. Plain(t, NoCall)
      BY <1>6 DEF Plain, Steps, WaitRefused, At, Ends
    <2> QED
      BY <2>1
  <1>7. ASSUME NEW o, WaitAny(t, o) PROVE \E c : Plain(t, c)
    <2> DEFINE q == dm.opncb[o].requestq
               m == Marked(dm, ToSet(q), t)
               c == [NoCall EXCEPT !.at = "waitfn", !.o = o, !.list = q, !.any = TRUE]
    <2>1. Call(c) /\ c.at = "waitfn"
      BY DEF Call, NoCall
    <2>2. Moves(t, c) /\ call[t] = NoCall /\ UNCHANGED <<reg, told>> /\ dm' = [m EXCEPT !.opncb[o].waireqlst = q]
      BY <1>7 DEF WaitAny, Starts
    <2>3. Shaped(m) /\ Devs(m) = Devs(dm)
      BY ReqDevs, ApartDevs
    <2> HIDE DEF c, m, q
    <2>4. Shaped(dm') /\ Devs(dm') = Devs(m)
      BY <2>2, <2>3, FieldsDevs
    <2>5. Plain(t, c)
      BY <2>1, <2>2, <2>3, <2>4 DEF Plain, Steps
    <2> QED
      BY <2>5
  <1>8. ASSUME NEW o, NEW r, WaitOne(t, o, r) PROVE \E c : Plain(t, c)
    <2> DEFINE m == Marked(dm, {r}, t)
               c == [NoCall EXCEPT !.at = "waitfn", !.o = o, !.list = <<r>>]
    <2>1. Call(c) /\ c.at = "waitfn"
      BY DEF Call, NoCall
    <2>2. /\ Moves(t, c) /\ UNCHANGED <<reg, told>> /\ dm' = [m EXCEPT !.opncb[o].waitone = @ + 1]
          /\ call[t].at \in {"none", "towait"}
      BY <1>8 DEF WaitOne, Starts, At
    <2>3. Shaped(m) /\ Devs(m) = Devs(dm)
      BY ReqDevs, ApartDevs
    <2> HIDE DEF c, m
    <2>4. Shaped(dm') /\ Devs(dm') = Devs(m)
      BY <2>2, <2>3, FieldsDevs
    <2>5. Plain(t, c)
      BY <2>1, <2>2, <2>3, <2>4 DEF Plain, Steps
    <2> QED
      BY <2>5
  <1>9. ASSUME NEW done, WaitEnds(t, done) PROVE \E c : Plain(t, c)
    <2> DEFINE k == call[t]
               counted == IF k.any THEN [dm EXCEPT !.opncb[k.o].waireqlst = <<>>]
                          ELSE [dm EXCEPT !.opncb[k.o].waitone = @ - 1]
               n == Notify(counted, k.o)
               m == Marked(n, ToSet(k.list), None)
    <2>1. /\ k.at = "waitfn" /\ Moves(t, NoCall) /\ UNCHANGED <<reg, told>>
          /\ dm' = IF done = 0 THEN m ELSE delReqCB(m, k.list[done])
      BY <1>9 DEF WaitEnds, At, Ends
    <2>2. Shaped(counted) /\ Devs(counted) = Devs(dm)
      BY FieldsDevs
    <2> HIDE DEF counted
    <2>3. Shaped(n) /\ Devs(n) = Devs(counted)
      BY <2>2, ReqDevs, ApartDevs
    <2> HIDE DEF n
    <2>4. Shaped(m) /\ Devs(m) = Devs(n)
      BY <2>3, ReqDevs, ApartDevs
    <2> HIDE DEF m
    <2>5. Shaped(dm') /\ Devs(dm') = Devs(m)
      BY <2>1, <2>4, ReqDevs, ApartDevs
    <2>6. Plain(t, NoCall)
      BY <2>1, <2>2, <2>3, <2>4, <2>5 DEF Plain, Steps
    <2> QED
      BY <2>6
  <1> QED
    BY <1>1, <1>4, <1>5, <1>6, <1>7, <1>8, <1>9

LEMMA PlainClose ==
  ASSUME Together, NEW t \in Tasks,
         \/ \E o : tk_cls_dev(t, o)
         \/ abort_allrequest(t) \/ AbortCounted(t) \/ AbortAwaited(t) \/ Drain(t)
         \/ knl_close_device(t) \/ CloseEnds(t)
         \/ knl_devmgr_cleanup(t)
  PROVE  \E c : Plain(t, c)
  <1> USE Callable
  <1>1. ASSUME NEW o, tk_cls_dev(t, o) PROVE \E c : Plain(t, c)
    <2> DEFINE c == [NoCall EXCEPT !.at = "abort", !.o = o]
    <2>1. Call(c) /\ c.at = "abort"
      BY DEF Call, NoCall
    <2>2. Moves(t, c) /\ call[t] = NoCall /\ UNCHANGED <<reg, told>> /\ dm' = [dm EXCEPT !.opncb[o].resid = 0]
      BY <1>1 DEF tk_cls_dev, Starts
    <2>3. Shaped(dm') /\ Devs(dm') = Devs(dm)
      BY <2>2, FieldsDevs
    <2> HIDE DEF c
    <2>4. Plain(t, c)
      BY <2>1, <2>2, <2>3 DEF Plain, Steps
    <2> QED
      BY <2>4
  <1>2. ASSUME NEW where \in Steps, Goes(t, where), call[t].at \in Steps,
               Shaped(dm') /\ Devs(dm') = Devs(dm), UNCHANGED <<reg, told>>
        PROVE  \E c : Plain(t, c)
    <2>1. Plain(t, [call[t] EXCEPT !.at = where])
      BY <1>2 DEF Plain, Goes
    <2> QED
      BY <2>1
  <1>3. ASSUME abort_allrequest(t) PROVE \E c : Plain(t, c)
    <2>1. Shaped(dm') /\ Devs(dm') = Devs(dm)
      <3>1. Apart(dm, dm')
        BY <1>3 DEF abort_allrequest, Apart, Shaped
      <3> QED
        BY <3>1, ApartDevs
    <2>2. Goes(t, "aborted") /\ call[t].at = "abort" /\ UNCHANGED <<reg, told>>
      BY <1>3 DEF abort_allrequest, At
    <2> QED
      BY <1>2, <2>1, <2>2 DEF Steps
  <1>4. ASSUME AbortCounted(t) PROVE \E c : Plain(t, c)
    <2>1. Shaped(dm') /\ Devs(dm') = Devs(dm)
      BY <1>4, FieldsDevs DEF AbortCounted
    <2>2. (Goes(t, "semwait") \/ Goes(t, "drain")) /\ call[t].at = "aborted" /\ UNCHANGED <<reg, told>>
      BY <1>4 DEF AbortCounted, At
    <2>3. "aborted" \in Steps /\ "semwait" \in Steps /\ "drain" \in Steps
      BY DEF Steps
    <2> QED
      BY <1>2, <2>1, <2>2, <2>3
  <1>5. ASSUME AbortAwaited(t) PROVE \E c : Plain(t, c)
    <2>1. Shaped(dm') /\ Devs(dm') = Devs(dm)
      <3>1. Apart(dm, dm')
        BY <1>5 DEF AbortAwaited, Apart, Shaped
      <3> QED
        BY <3>1, ApartDevs
    <2>2. Goes(t, "drain") /\ call[t].at = "semwait" /\ UNCHANGED <<reg, told>>
      BY <1>5 DEF AbortAwaited, At
    <2> QED
      BY <1>2, <2>1, <2>2 DEF Steps
  <1>6. ASSUME Drain(t) PROVE \E c : Plain(t, c)
    <2>1. PICK m : (m = dm \/ m = delReqCB(dm, call[t].list[1])) /\ Drained(t, m)
      BY <1>6 DEF Drain
    <2>2. Shaped(m) /\ Devs(m) = Devs(dm)
      <3>1. m = dm => Shaped(m) /\ Devs(m) = Devs(dm)
        OBVIOUS
      <3>2. m = delReqCB(dm, call[t].list[1]) => Shaped(m) /\ Devs(m) = Devs(dm)
        BY ReqDevs, ApartDevs
      <3> QED
        BY <2>1, <3>1, <3>2
    <2>3. call[t].at \in Steps /\ UNCHANGED <<reg, told>>
      BY <1>6 DEF Drain, At, Steps
    <2> DEFINE q == m.opncb[call[t].o].requestq
    <2>4. CASE q = <<>>
      <3> DEFINE c == [call[t] EXCEPT !.at = "close", !.list = <<>>]
      <3>1. dm' = m /\ Moves(t, c)
        BY <2>1, <2>4 DEF Drained
      <3>2. Call(c) /\ c.at = "close"
        BY DEF Call
      <3> HIDE DEF c
      <3>3. Plain(t, c)
        BY <2>2, <2>3, <3>1, <3>2 DEF Plain, Steps
      <3> QED
        BY <3>3
    <2>5. CASE q # <<>>
      <3> DEFINE c == [call[t] EXCEPT !.at = "drainfn", !.list = <<Head(q)>>]
      <3>1. dm' = [m EXCEPT !.reqcb[Head(q)].abort = TRUE] /\ Moves(t, c)
        BY <2>1, <2>5 DEF Drained
      <3>2. Call(c) /\ c.at = "drainfn"
        BY DEF Call
      <3>3. Shaped(dm') /\ Devs(dm') = Devs(m)
        BY <2>2, <3>1, FieldsDevs
      <3> HIDE DEF c
      <3>4. Plain(t, c)
        BY <2>2, <2>3, <3>1, <3>2, <3>3 DEF Plain, Steps
      <3> QED
        BY <3>4
    <2> QED
      BY <2>4, <2>5
  <1>7. ASSUME knl_close_device(t) PROVE \E c : Plain(t, c)
    <2>1. Shaped(dm') /\ Devs(dm') = Devs(dm)
      BY <1>7, OpnDevs DEF knl_close_device
    <2>2. (Goes(t, "closed") \/ Goes(t, "closefn")) /\ call[t].at = "close" /\ UNCHANGED <<reg, told>>
      BY <1>7 DEF knl_close_device, At
    <2>3. "close" \in Steps /\ "closed" \in Steps /\ "closefn" \in Steps
      BY DEF Steps
    <2> QED
      BY <1>2, <2>1, <2>2, <2>3
  <1>8. ASSUME CloseEnds(t) PROVE \E c : Plain(t, c)
    <2>1. Shaped(dm') /\ Devs(dm') = Devs(dm)
      <3> DEFINE x == Append(dm.FreeOpnCB, call[t].o)
                 y == [dm.opncb EXCEPT ![call[t].o] = NoOpn]
      <3>1. dm' = [dm EXCEPT !.FreeOpnCB = x, !.opncb = y]
        BY <1>8 DEF CloseEnds, Shaped
      <3> HIDE DEF x, y
      <3> QED
        BY <3>1, FieldsDevs
    <2>2. call[t].at \in Steps /\ UNCHANGED <<reg, told>>
      BY <1>8 DEF CloseEnds, At, Steps
    <2> DEFINE c == [NoCall EXCEPT !.at = "cleanup", !.clean = TRUE]
    <2>3. Moves(t, c) \/ Moves(t, NoCall)
      BY <1>8 DEF CloseEnds, Ends
    <2>4. Call(c) /\ c.at = "cleanup"
      BY DEF Call, NoCall
    <2> HIDE DEF c
    <2>5. Moves(t, c) => Plain(t, c)
      BY <2>1, <2>2, <2>4 DEF Plain, Steps
    <2>6. Moves(t, NoCall) => Plain(t, NoCall)
      BY <2>1, <2>2 DEF Plain, Steps
    <2> QED
      BY <2>3, <2>5, <2>6
  <1>9. ASSUME knl_devmgr_cleanup(t) PROVE \E c : Plain(t, c)
    <2> DEFINE o == Head(dm.resq)
               c == [NoCall EXCEPT !.at = "abort", !.o = o, !.clean = TRUE]
    <2>1. call[t].at \in Steps /\ UNCHANGED <<reg, told>>
      BY <1>9 DEF knl_devmgr_cleanup, Starts, At, Steps
    <2>2. Shaped(dm') /\ Devs(dm') = Devs(dm)
      <3> DEFINE y == [dm.opncb EXCEPT ![o].resid = 0]
      <3>1. dm' = [dm EXCEPT !.dissus = 0] \/ dm' = [dm EXCEPT !.dissus = 0, !.opncb = y]
        BY <1>9 DEF knl_devmgr_cleanup, Shaped
      <3> HIDE DEF y
      <3> QED
        BY <3>1, FieldsDevs
    <2>3. Moves(t, c) \/ Moves(t, NoCall)
      BY <1>9 DEF knl_devmgr_cleanup, Ends
    <2>4. Call(c) /\ c.at = "abort"
      BY DEF Call, NoCall
    <2> HIDE DEF c
    <2>5. Moves(t, c) => Plain(t, c)
      BY <2>1, <2>2, <2>4 DEF Plain, Steps
    <2>6. Moves(t, NoCall) => Plain(t, NoCall)
      BY <2>1, <2>2 DEF Plain, Steps
    <2> QED
      BY <2>3, <2>5, <2>6
  <1> QED
    BY <1>1, <1>3, <1>4, <1>5, <1>6, <1>7, <1>8, <1>9

(* Devices come and go only while nobody suspends them. *)
LEMMA DevicesChange ==
  ASSUME Together, NEW t \in Tasks, NEW n \in Names,
         Unregister(t, n) \/ \E ddev \in Ddevs[n] : tk_def_dev(t, n, ddev)
  PROVE  Together'
  <1>1. /\ reg = None /\ UNCHANGED <<call, reg, told>>
    BY DEF Unregister, tk_def_dev, RegFree
  <1>2. \A u \in Tasks : call[u].at \notin Suspending
    BY <1>1, NoneApart DEF Together
  <1>3. SUFFICES Listed'
    <2>1. \A u \in Tasks : call[u].at = "sus" => call[u].d = None
      BY DEF Together, Telling
    <2>2. \A u \in Tasks : Telling(u)'
      BY <1>1, <1>2, <2>1 DEF Telling, Suspending
    <2> QED
      BY <1>1, <1>2, <1>3, <2>2 DEF Together
  <1> DEFINE used == dm.UsedDevCB
             free == dm.FreeDevCB
  <1>4. /\ Shaped(dm) /\ \A d \in DevCBs : dm.devcb[d].ddev.disk \in BOOLEAN
        /\ used \in Seq(DevCBs) /\ free \in Seq(DevCBs) /\ Once(used) /\ Once(free)
        /\ ToSet(used) \cap ToSet(free) = {}
        /\ call = [u \in Tasks |-> call[u]] /\ \A u \in Tasks : Call(call[u])
    BY DEF Together, Listed, Disks
  <1>5. ASSUME NEW d \in DevCBs, d \in ToSet(used), dm' = delDevCB(dm, d) PROVE Listed'
    <2>1. /\ dm'.UsedDevCB = QueRemove(used, d) /\ dm'.FreeDevCB = Append(free, d)
          /\ DOMAIN dm' = DOMAIN dm /\ dm'.devcb = [dm.devcb EXCEPT ![d] = NoDev]
      BY <1>4, <1>5 DEF delDevCB, Shaped
    <2>2. Shaped(dm')
      BY <1>4, <2>1 DEF Shaped, NoDev
    <2>3. \A x \in DevCBs : dm'.devcb[x].ddev.disk \in BOOLEAN
      <3>1. NoDev.ddev.disk = FALSE
        BY DEF NoDev, NoDdev
      <3>2. \A x \in DevCBs : dm'.devcb[x] = IF x = d THEN NoDev ELSE dm.devcb[x]
        BY <1>4, <2>1 DEF Shaped
      <3> QED
        BY <1>4, <3>1, <3>2
    <2>4. QueRemove(used, d) \in Seq(DevCBs) /\ Once(QueRemove(used, d))
          /\ ToSet(QueRemove(used, d)) = ToSet(used) \ {d}
      BY <1>4, QueRemoveType, QueRemoveHolds
    <2>5. d \notin ToSet(free)
      BY <1>4, <1>5
    <2>6. Append(free, d) \in Seq(DevCBs) /\ Once(Append(free, d)) /\ ToSet(Append(free, d)) = ToSet(free) \cup {d}
      BY <1>4, <2>5, AppendHolds
    <2> HIDE DEF used, free
    <2> QED
      BY <1>1, <1>4, <2>1, <2>2, <2>3, <2>4, <2>6 DEF Listed, Disks
  <1>6. ASSUME NEW ddev \in Ddevs[n], tk_def_dev(t, n, ddev) PROVE Listed'
    <2> DEFINE m == IF searchDevCB(n) = {} THEN newDevCB(dm, n) ELSE dm
               d == CHOOSE x \in ToSet(m.UsedDevCB) : m.devcb[x].devnm = n
    <2>1. dm' = [m EXCEPT !.devcb[d].ddev = ddev] /\ ddev.disk \in BOOLEAN
      BY <1>6, DeviceAssumption DEF tk_def_dev
    <2>2. /\ Shaped(m) /\ (\A x \in DevCBs : m.devcb[x].ddev.disk \in BOOLEAN)
          /\ m.UsedDevCB \in Seq(DevCBs) /\ m.FreeDevCB \in Seq(DevCBs)
          /\ Once(m.UsedDevCB) /\ Once(m.FreeDevCB)
          /\ ToSet(m.UsedDevCB) \cap ToSet(m.FreeDevCB) = {}
      <3>1. CASE searchDevCB(n) # {}
        BY <1>4, <3>1
      <3>2. CASE searchDevCB(n) = {}
        <4> DEFINE h == Head(free)
        <4>1. free # <<>>
          BY <1>6, <3>2 DEF tk_def_dev
        <4>2. /\ h \in DevCBs /\ h \in ToSet(free)
              /\ Tail(free) \in Seq(DevCBs) /\ Once(Tail(free)) /\ ToSet(Tail(free)) = ToSet(free) \ {h}
          BY <1>4, <4>1, HeadHolds
        <4>3. h \notin ToSet(used)
          BY <1>4, <4>2
        <4>4. Append(used, h) \in Seq(DevCBs) /\ Once(Append(used, h)) /\ ToSet(Append(used, h)) = ToSet(used) \cup {h}
          BY <1>4, <4>2, <4>3, AppendHolds
        <4>5. m = [dm EXCEPT !.FreeDevCB = Tail(@), !.UsedDevCB = Append(@, h),
                !.devcb[h].devnm = n, !.devcb[h].openq = <<>>]
          BY <3>2 DEF newDevCB
        <4> HIDE DEF m, h
        <4>6. /\ m.UsedDevCB = Append(used, h) /\ m.FreeDevCB = Tail(free) /\ DOMAIN m = DOMAIN dm
              /\ m.devcb = [dm.devcb EXCEPT ![h].devnm = n, ![h].openq = <<>>]
          BY <1>4, <4>5 DEF Shaped
        <4>7. Shaped(m) /\ \A x \in DevCBs : m.devcb[x].ddev = dm.devcb[x].ddev
          BY <1>4, <4>2, <4>6 DEF Shaped
        <4> HIDE DEF used, free
        <4> QED
          BY <1>4, <4>2, <4>4, <4>6, <4>7
      <3> QED
        BY <3>1, <3>2
    <2> HIDE DEF m, d
    <2>3. DOMAIN dm' = DOMAIN m /\ dm'.UsedDevCB = m.UsedDevCB /\ dm'.FreeDevCB = m.FreeDevCB
          /\ dm'.devcb = [m.devcb EXCEPT ![d].ddev = ddev]
      BY <2>1, <2>2 DEF Shaped
    <2>4. Shaped(dm') /\ \A x \in DevCBs : dm'.devcb[x].ddev = IF x = d THEN ddev ELSE m.devcb[x].ddev
      BY <2>2, <2>3 DEF Shaped
    <2> QED
      BY <1>1, <1>4, <2>1, <2>2, <2>3, <2>4 DEF Listed, Disks
  <1>7. ASSUME Unregister(t, n) PROVE Listed'
    <2>1. PICK d \in searchDevCB(n) : dm' = delDevCB(dm, d)
      BY <1>7 DEF Unregister
    <2>2. d \in ToSet(used) /\ d \in DevCBs
      BY <1>4 DEF searchDevCB, ToSet
    <2> QED
      BY <1>5, <2>1, <2>2
  <1> QED
    BY <1>6, <1>7

(* Suspension itself. *)
LEMMA PassIs ==
  /\ DOMAIN Passes = 1 .. 5 /\ Passes[1] = "suspend others" /\ Passes[2] = "suspend disks"
  /\ Passes[3] = "asleep" /\ Passes[4] = "resume disks" /\ Passes[5] = "resume others"
  /\ ToSet(Passes) = Suspending
  /\ \A pass, k : k \in 1 .. 5 /\ Passes[k] = pass => (CHOOSE j \in DOMAIN Passes : Passes[j] = pass) = k
  <1>1. /\ DOMAIN Passes = 1 .. 5 /\ Passes[1] = "suspend others" /\ Passes[2] = "suspend disks"
        /\ Passes[3] = "asleep" /\ Passes[4] = "resume disks" /\ Passes[5] = "resume others"
    BY DEF Passes
  <1>2. \A j \in 1 .. 5 : j = 1 \/ j = 2 \/ j = 3 \/ j = 4 \/ j = 5
    OBVIOUS
  <1>3. \A j, k \in 1 .. 5 : Passes[j] = Passes[k] => j = k
    BY <1>1, <1>2
  <1>7. ToSet(Passes) = Suspending
    <2>1. ASSUME NEW x \in ToSet(Passes) PROVE x \in Suspending
      <3>1. PICK j \in 1 .. 5 : x = Passes[j]
        BY <1>1, <2>1 DEF ToSet
      <3> QED
        BY <1>1, <1>2, <3>1 DEF Suspending
    <2>2. ASSUME NEW x \in Suspending PROVE x \in ToSet(Passes)
      <3>1. 1 \in 1 .. 5 /\ 2 \in 1 .. 5 /\ 3 \in 1 .. 5 /\ 4 \in 1 .. 5 /\ 5 \in 1 .. 5
        OBVIOUS
      <3>2. x = Passes[1] \/ x = Passes[2] \/ x = Passes[3] \/ x = Passes[4] \/ x = Passes[5]
        BY <1>1, <2>2 DEF Suspending
      <3> QED
        BY <1>1, <3>1, <3>2 DEF ToSet
    <2> QED
      BY <2>1, <2>2
  <1>8. ASSUME NEW pass, NEW k \in 1 .. 5, Passes[k] = pass
        PROVE  (CHOOSE j \in DOMAIN Passes : Passes[j] = pass) = k
    <2> DEFINE i == CHOOSE j \in DOMAIN Passes : Passes[j] = pass
    <2>1. \E j \in DOMAIN Passes : Passes[j] = pass
      BY <1>1, <1>8
    <2>2. i \in DOMAIN Passes /\ Passes[i] = pass
      BY <2>1
    <2> HIDE DEF i
    <2>3. i = k
      BY <1>1, <1>3, <1>8, <2>2
    <2> QED
      BY <2>3 DEF i
  <1> QED
    BY <1>1, <1>7, <1>8

(* The others are not suspending, and see the same devices. *)
LEMMA TellingStep ==
  ASSUME Together, NEW t \in Tasks, NEW c, Call(c), Moves(t, c), UNCHANGED dm,
         call[t].at \in Suspending \/ reg = None,
         \/ c.at \notin Suspending /\ c.at # "sus" /\ reg' = None /\ told' = {}
         \/ c.at \in Suspending /\ reg' = t /\ Telling(t)'
  PROVE  Together'
  <1>1. /\ call' = [u \in Tasks |-> call'[u]] /\ call'[t] = c
        /\ \A u \in Tasks \ {t} : call'[u] = call[u]
    <2>1. call = [u \in Tasks |-> call[u]]
      BY DEF Together, Listed
    <2> QED
      BY <2>1 DEF Moves
  <1>2. Listed'
    BY <1>1 DEF Together, Listed, Disks, Shaped
  <1>3. \A u \in Tasks \ {t} : call'[u].at \notin Suspending
    BY <1>1, NoneApart DEF Together
  <1>4. \A u \in Tasks \ {t} : Telling(u)'
    <2>1. \A u \in Tasks \ {t} : call'[u].at = "sus" => call'[u].d = None
      BY <1>1 DEF Together, Telling
    <2> QED
      BY <1>3, <2>1 DEF Telling, Suspending
  <1>5. c.at \notin Suspending => Telling(t)'
    BY <1>1 DEF Telling, Suspending
  <1>6. \A u \in Tasks : call'[u].at \in Suspending => reg' = u
    BY <1>1, <1>3
  <1>7. reg' = None => told' = {}
    BY NoneApart
  <1> QED
    BY <1>2, <1>4, <1>5, <1>6, <1>7 DEF Together

LEMMA SuspensionSteps ==
  ASSUME Together, NEW t \in Tasks,
         \/ tk_sus_dev(t) \/ do_suspend(t) \/ Sleep(t)
         \/ \E pass \in ToSet(Passes) \ {"asleep"} : sendevt_alldevice(t, pass)
  PROVE  Together'
  <1> USE Callable
  <1>1. CASE tk_sus_dev(t)
    <2>1. /\ call[t] = NoCall /\ UNCHANGED <<reg, told>>
          /\ UNCHANGED dm \/ \E x : dm' = [dm EXCEPT !.dissus = x]
          /\ UNCHANGED call \/ Moves(t, [NoCall EXCEPT !.at = "sus"])
      BY <1>1 DEF tk_sus_dev, TD_DISSUS, TD_ENASUS, TD_SUSPEND, Starts
    <2>2. Shaped(dm') /\ Devs(dm') = Devs(dm)
      BY <2>1, FieldsDevs DEF Shaped, Devs, Disks
    <2>3. UNCHANGED call => Moves(t, NoCall)
      BY <2>1, Staying
    <2> DEFINE c == [NoCall EXCEPT !.at = "sus"]
    <2>4. Call(c) /\ c.at = "sus" /\ c.d = None
      BY DEF Call, NoCall
    <2> HIDE DEF c
    <2>5. NoCall.at \in Steps /\ Call(NoCall)
      BY DEF Steps
    <2>6. CASE Moves(t, c)
      BY <2>1, <2>2, <2>4, <2>5, <2>6, DevsSame
    <2>7. CASE Moves(t, NoCall)
      BY <2>1, <2>2, <2>5, <2>7, DevsSame
    <2> QED
      BY <2>1, <2>3, <2>6, <2>7 DEF c
  <1>2. /\ Listed /\ \A u \in Tasks : Telling(u)
        /\ reg = None => told = {}
        /\ call[t].at \in Suspending => reg = t
    BY DEF Together
  <1>3. ASSUME dm' = dm
        PROVE  /\ AllDisks' = AllDisks /\ Others' = Others
               /\ \A x : Passed(x, AllDisks)' = Passed(x, AllDisks)
               /\ \A x : Passed(x, Others)' = Passed(x, Others)
               /\ ToSet(dm.UsedDevCB)' = ToSet(dm.UsedDevCB)
    <2>1. Disks(dm') = Disks(dm) /\ dm'.UsedDevCB = dm.UsedDevCB
      BY <1>3 DEF Disks
    <2>2. \A x : Behind(x)' = Behind(x)
      BY <1>3 DEF Behind
    <2>3. AllDisks' = AllDisks /\ Others' = Others
      BY <2>1 DEF AllDisks, Others
    <2>4. \A x : Over(x)' = Over(x)
      BY <2>1, <2>2 DEF Over
    <2>5. \A x : Passed(x, AllDisks)' = Passed(x, AllDisks) /\ Passed(x, Others)' = Passed(x, Others)
      BY <2>1, <2>3, <2>4 DEF Passed
    <2> QED
      BY <2>1, <2>3, <2>5
  <1>4. /\ AllDisks \cap Others = {} /\ AllDisks \cup Others = ToSet(dm.UsedDevCB)
        /\ None \notin ToSet(dm.UsedDevCB)
    <2>1. \A x \in ToSet(dm.UsedDevCB) : Disks(dm)[x] \in BOOLEAN /\ x # None
      BY <1>2, NoneApart DEF Listed, ToSet
    <2> QED
      BY <2>1 DEF AllDisks, Others
  <1>5. \A k : Passed(None, k) = {}
    <2>1. Over(None) = {}
      <3>1. \A i \in DOMAIN dm.UsedDevCB : dm.UsedDevCB[i] # None
        BY <1>4 DEF ToSet
      <3> QED
        BY <3>1 DEF Over, Behind
    <2> QED
      BY <2>1 DEF Passed
  (* where t goes on to, and what has been told by then *)
  <1>6. ASSUME NEW c, Call(c), Moves(t, c), UNCHANGED dm, call[t].at \in Suspending \/ reg = None,
               reg' = t,
               \/ /\ c.at = "suspend others" /\ c.d \in Others \cup {None}
                  /\ told' = Passed(c.d, Others)
               \/ /\ c.at = "suspend disks" /\ c.d \in AllDisks \cup {None}
                  /\ told' = Others \cup Passed(c.d, AllDisks)
               \/ c.at = "asleep" /\ c.d = None /\ told' = ToSet(dm.UsedDevCB)
               \/ /\ c.at = "resume disks" /\ c.d \in AllDisks \cup {None}
                  /\ told' = ToSet(dm.UsedDevCB) \ Passed(c.d, AllDisks)
               \/ /\ c.at = "resume others" /\ c.d \in Others \cup {None}
                  /\ told' = Others \ Passed(c.d, Others)
        PROVE  Together'
    <2>1. call'[t] = c
      <3>1. call = [u \in Tasks |-> call[u]]
        BY <1>2 DEF Listed
      <3> QED
        BY <1>6, <3>1 DEF Moves
    <2>2. c.at \in Suspending
      BY <1>6 DEF Suspending
    <2>3. Telling(t)'
      BY <1>3, <1>6, <2>1 DEF Telling
    <2> QED
      BY <1>6, <2>2, <2>3, TellingStep
  <1>7. CASE do_suspend(t)
    <2> DEFINE c == [call[t] EXCEPT !.at = "suspend others"]
    <2>1. /\ call[t].at = "sus" /\ reg = None /\ reg' = t /\ UNCHANGED <<dm, told>> /\ Moves(t, c)
      BY <1>7 DEF do_suspend, At, RegFree, Goes
    <2>2. Call(c) /\ c.at = "suspend others" /\ c.d = None
      BY <1>2, <2>1 DEF Call, Telling
    <2> HIDE DEF c
    <2>3. told' = Passed(c.d, Others)
      BY <1>2, <1>5, <2>1, <2>2
    <2> QED
      BY <1>6, <2>1, <2>2, <2>3
  <1>8. CASE Sleep(t)
    <2> DEFINE c == [call[t] EXCEPT !.at = "resume disks"]
    <2>1. /\ call[t].at = "asleep" /\ UNCHANGED <<dm, reg, told>> /\ Moves(t, c)
      BY <1>8 DEF Sleep, At, Goes
    <2>2. Call(c) /\ c.at = "resume disks" /\ c.d = None /\ told = ToSet(dm.UsedDevCB)
      BY <1>2, <2>1 DEF Call, Telling
    <2> HIDE DEF c
    <2>3. told' = ToSet(dm.UsedDevCB) \ Passed(c.d, AllDisks)
      BY <1>5, <2>1, <2>2
    <2>4. reg' = t /\ call[t].at \in Suspending
      BY <1>2, <2>1 DEF Suspending
    <2> QED
      BY <1>6, <2>1, <2>2, <2>3, <2>4
  <1>9. ASSUME NEW pass \in ToSet(Passes) \ {"asleep"}, sendevt_alldevice(t, pass)
        PROVE  Together'
    <2> DEFINE d == call[t].d
               disks == pass \in {"suspend disks", "resume disks"}
               next == {j \in Behind(d) : IsDisk(dm.UsedDevCB[j]) = disks}
               i == CHOOSE j \in DOMAIN Passes : Passes[j] = pass
               on(k) == [call[t] EXCEPT !.d = dm.UsedDevCB[k]]
               off == [NoCall EXCEPT !.at = Passes[i + 1]]
               dd == {d} \ {None}
    <2>1. pass \in {"suspend others", "suspend disks", "resume disks", "resume others"}
      BY <1>9, PassIs DEF Suspending
    <2>2. /\ call[t].at = pass /\ UNCHANGED dm
          /\ told' = IF d = None THEN told ELSE IF i < 3 THEN told \cup {d} ELSE told \ {d}
      BY <1>9 DEF sendevt_alldevice, At
    <2>3. \/ /\ next # {} /\ UNCHANGED reg
             /\ \E k \in next : (\A j \in next : k <= j) /\ Moves(t, on(k))
          \/ next = {} /\ i < 5 /\ Moves(t, off) /\ UNCHANGED reg
          \/ next = {} /\ ~ (i < 5) /\ Moves(t, NoCall) /\ reg' = None
      BY <1>9 DEF sendevt_alldevice, Ends
    <2>4. call[t].at \in Suspending /\ reg = t
      BY <1>2, <2>1, <2>2 DEF Suspending
    <2>5. /\ pass = "suspend others" => i = 1 /\ Passes[i + 1] = "suspend disks"
          /\ pass = "suspend disks" => i = 2 /\ Passes[i + 1] = "asleep"
          /\ pass = "resume disks" => i = 4 /\ Passes[i + 1] = "resume others"
          /\ pass = "resume others" => i = 5
      <3>1. 1 \in 1 .. 5 /\ 2 \in 1 .. 5 /\ 4 \in 1 .. 5 /\ 5 \in 1 .. 5
        OBVIOUS
      <3>2. \A k : k \in 1 .. 5 /\ Passes[k] = pass => i = k
        BY PassIs
      <3> HIDE DEF i
      <3>3. /\ Passes[1] = "suspend others" /\ Passes[2] = "suspend disks" /\ Passes[3] = "asleep"
            /\ Passes[4] = "resume disks" /\ Passes[5] = "resume others"
        BY PassIs
      <3>4. /\ pass = "suspend others" => i = 1
            /\ pass = "suspend disks" => i = 2
            /\ pass = "resume disks" => i = 4
            /\ pass = "resume others" => i = 5
        BY <3>1, <3>2, <3>3
      <3>5. 1 + 1 = 2 /\ 2 + 1 = 3 /\ 4 + 1 = 5
        OBVIOUS
      <3> QED
        BY <3>3, <3>4, <3>5
    <2>6. /\ pass \in {"suspend others", "resume others"} => ~ disks
          /\ pass \in {"suspend disks", "resume disks"} => disks
      OBVIOUS
    <2>7. (disks => next = {j \in Behind(d) : dm.UsedDevCB[j] \in AllDisks})
          /\ (~ disks => next = {j \in Behind(d) : dm.UsedDevCB[j] \in Others})
      <3>1. \A j \in Behind(d) : dm.UsedDevCB[j] \in DevCBs /\ dm.UsedDevCB[j] \in ToSet(dm.UsedDevCB)
        BY <1>2 DEF Behind, Listed, ToSet
      <3>2. \A j \in Behind(d) : IsDisk(dm.UsedDevCB[j]) = Disks(dm)[dm.UsedDevCB[j]]
        BY <3>1 DEF IsDisk, Disks
      <3>3. ASSUME disks PROVE next = {j \in Behind(d) : dm.UsedDevCB[j] \in AllDisks}
        <4>1. disks = TRUE
          BY <3>3
        <4>2. next = {j \in Behind(d) : IsDisk(dm.UsedDevCB[j]) = TRUE}
          BY <4>1
        <4> HIDE DEF next, disks
        <4> QED
          BY <3>1, <3>2, <4>2 DEF AllDisks
      <3>4. ASSUME ~ disks PROVE next = {j \in Behind(d) : dm.UsedDevCB[j] \in Others}
        <4>1. \A b \in BOOLEAN : ~ b => b = FALSE
          OBVIOUS
        <4>2. disks \in BOOLEAN /\ next = {j \in Behind(d) : IsDisk(dm.UsedDevCB[j]) = disks}
          OBVIOUS
        <4> HIDE DEF next, disks
        <4>3. disks = FALSE
          BY <3>4, <4>1, <4>2
        <4> QED
          BY <3>1, <3>2, <4>2, <4>3 DEF Others
      <3> QED
        BY <3>3, <3>4
    <2>8. /\ i < 3 => told' = told \cup dd
          /\ ~ (i < 3) /\ None \notin told => told' = told \ dd
      BY <2>2
    <2>9. \A k : Call(on(k)) /\ on(k).at = pass /\ on(k).d = dm.UsedDevCB[k]
      BY <1>2, <2>2 DEF Call, Listed
    <2>10. Call(off) /\ off.at = Passes[i + 1] /\ off.d = None
      BY DEF Call, NoCall
    <2> HIDE DEF next, on, off, i, disks
    <2>11. ASSUME NEW kind, kind \subseteq ToSet(dm.UsedDevCB), d \in kind \cup {None},
                  next = {j \in Behind(d) : dm.UsedDevCB[j] \in kind}
           PROVE  /\ Passed(d, kind) \subseteq kind
                  /\ next = {} => kind = Passed(d, kind) \cup dd
                  /\ \A k \in next : (\A j \in next : k <= j) =>
                       dm.UsedDevCB[k] \in kind /\ Passed(dm.UsedDevCB[k], kind) = Passed(d, kind) \cup dd
      <3>1. Listed
        BY <1>2
      <3> HIDE DEF d
      <3> QED
        BY <3>1, <2>11, PassGoes
    <2>12. AllDisks \subseteq ToSet(dm.UsedDevCB) /\ Others \subseteq ToSet(dm.UsedDevCB)
      BY <1>4
    <2>13. CASE pass = "suspend others"
      <3>1. i = 1 /\ ~ disks
        BY <2>5, <2>6, <2>13
      <3>2. d \in Others \cup {None} /\ told = Passed(d, Others)
        BY <1>2, <2>2, <2>13 DEF Telling
      <3>3. /\ Passed(d, Others) \subseteq Others
            /\ next = {} => Others = Passed(d, Others) \cup dd
            /\ \A k \in next : (\A j \in next : k <= j) =>
                 dm.UsedDevCB[k] \in Others /\ Passed(dm.UsedDevCB[k], Others) = Passed(d, Others) \cup dd
        BY <2>7, <2>11, <2>12, <3>1, <3>2
      <3>4. told' = (Passed(d, Others) \cup dd)
        <4>1. told' = told \cup dd
          BY <2>8, <3>1
        <4> QED
          BY <3>2, <4>1
      <3>5. ASSUME NEW k \in next, \A j \in next : k <= j, Moves(t, on(k)), UNCHANGED reg PROVE Together'
        <4>1. dm.UsedDevCB[k] \in Others /\ told' = Passed(dm.UsedDevCB[k], Others)
          BY <3>3, <3>4, <3>5
        <4>2. Call(on(k)) /\ on(k).at = "suspend others" /\ on(k).d = dm.UsedDevCB[k]
          BY <2>9, <2>13
        <4> QED
          BY <1>6, <2>2, <2>4, <3>5, <4>1, <4>2
      <3>6. ASSUME next = {}, Moves(t, off), UNCHANGED reg PROVE Together'
        <4>1. told' = Others \cup Passed(None, AllDisks)
          BY <1>4, <1>5, <3>3, <3>4, <3>6
        <4>2. off.at = "suspend disks"
          BY <2>5, <2>10, <2>13
        <4> QED
          BY <1>6, <2>2, <2>4, <2>10, <3>6, <4>1, <4>2
      <3> QED
        BY <2>3, <3>1, <3>5, <3>6
    <2>14. CASE pass = "suspend disks"
      <3>1. i = 2 /\ disks
        BY <2>5, <2>6, <2>14
      <3>2. d \in AllDisks \cup {None} /\ told = Others \cup Passed(d, AllDisks)
        BY <1>2, <2>2, <2>14 DEF Telling
      <3>3. /\ Passed(d, AllDisks) \subseteq AllDisks
            /\ next = {} => AllDisks = Passed(d, AllDisks) \cup dd
            /\ \A k \in next : (\A j \in next : k <= j) =>
                 dm.UsedDevCB[k] \in AllDisks /\ Passed(dm.UsedDevCB[k], AllDisks) = Passed(d, AllDisks) \cup dd
        BY <2>7, <2>11, <2>12, <3>1, <3>2
      <3>4. told' = Others \cup (Passed(d, AllDisks) \cup dd)
        <4>1. told' = told \cup dd
          BY <2>8, <3>1
        <4> QED
          BY <3>2, <4>1
      <3>5. ASSUME NEW k \in next, \A j \in next : k <= j, Moves(t, on(k)), UNCHANGED reg PROVE Together'
        <4>1. dm.UsedDevCB[k] \in AllDisks /\ told' = Others \cup Passed(dm.UsedDevCB[k], AllDisks)
          BY <3>3, <3>4, <3>5
        <4>2. Call(on(k)) /\ on(k).at = "suspend disks" /\ on(k).d = dm.UsedDevCB[k]
          BY <2>9, <2>14
        <4> QED
          BY <1>6, <2>2, <2>4, <3>5, <4>1, <4>2
      <3>6. ASSUME next = {}, Moves(t, off), UNCHANGED reg PROVE Together'
        <4>1. told' = ToSet(dm.UsedDevCB)
          BY <1>4, <1>5, <3>3, <3>4, <3>6
        <4>2. off.at = "asleep"
          BY <2>5, <2>10, <2>14
        <4> QED
          BY <1>6, <2>2, <2>4, <2>10, <3>6, <4>1, <4>2
      <3> QED
        BY <2>3, <3>1, <3>5, <3>6
    <2>15. CASE pass = "resume disks"
      <3>1. i = 4 /\ disks
        BY <2>5, <2>6, <2>15
      <3>2. d \in AllDisks \cup {None} /\ told = ToSet(dm.UsedDevCB) \ Passed(d, AllDisks)
        BY <1>2, <2>2, <2>15 DEF Telling
      <3>3. /\ Passed(d, AllDisks) \subseteq AllDisks
            /\ next = {} => AllDisks = Passed(d, AllDisks) \cup dd
            /\ \A k \in next : (\A j \in next : k <= j) =>
                 dm.UsedDevCB[k] \in AllDisks /\ Passed(dm.UsedDevCB[k], AllDisks) = Passed(d, AllDisks) \cup dd
        BY <2>7, <2>11, <2>12, <3>1, <3>2
      <3>4. told' = ToSet(dm.UsedDevCB) \ (Passed(d, AllDisks) \cup dd)
        <4>1. None \notin told
          BY <1>4, <2>12, <3>2
        <4>2. told' = told \ dd
          BY <2>8, <3>1, <4>1
        <4> QED
          BY <3>2, <4>2
      <3>5. ASSUME NEW k \in next, \A j \in next : k <= j, Moves(t, on(k)), UNCHANGED reg PROVE Together'
        <4>1. dm.UsedDevCB[k] \in AllDisks /\ told' = ToSet(dm.UsedDevCB) \ Passed(dm.UsedDevCB[k], AllDisks)
          BY <3>3, <3>4, <3>5
        <4>2. Call(on(k)) /\ on(k).at = "resume disks" /\ on(k).d = dm.UsedDevCB[k]
          BY <2>9, <2>15
        <4> QED
          BY <1>6, <2>2, <2>4, <3>5, <4>1, <4>2
      <3>6. ASSUME next = {}, Moves(t, off), UNCHANGED reg PROVE Together'
        <4>1. told' = Others \ Passed(None, Others)
          BY <1>4, <1>5, <3>3, <3>4, <3>6
        <4>2. off.at = "resume others"
          BY <2>5, <2>10, <2>15
        <4> QED
          BY <1>6, <2>2, <2>4, <2>10, <3>6, <4>1, <4>2
      <3> QED
        BY <2>3, <3>1, <3>5, <3>6
    <2>16. CASE pass = "resume others"
      <3>1. i = 5 /\ ~ disks
        BY <2>5, <2>6, <2>16
      <3>2. d \in Others \cup {None} /\ told = Others \ Passed(d, Others)
        BY <1>2, <2>2, <2>16 DEF Telling
      <3>3. /\ Passed(d, Others) \subseteq Others
            /\ next = {} => Others = Passed(d, Others) \cup dd
            /\ \A k \in next : (\A j \in next : k <= j) =>
                 dm.UsedDevCB[k] \in Others /\ Passed(dm.UsedDevCB[k], Others) = Passed(d, Others) \cup dd
        BY <2>7, <2>11, <2>12, <3>1, <3>2
      <3>4. told' = Others \ (Passed(d, Others) \cup dd)
        <4>1. None \notin told
          BY <1>4, <2>12, <3>2
        <4>2. told' = told \ dd
          BY <2>8, <3>1, <4>1
        <4> QED
          BY <3>2, <4>2
      <3>5. ASSUME NEW k \in next, \A j \in next : k <= j, Moves(t, on(k)), UNCHANGED reg PROVE Together'
        <4>1. dm.UsedDevCB[k] \in Others /\ told' = Others \ Passed(dm.UsedDevCB[k], Others)
          BY <3>3, <3>4, <3>5
        <4>2. Call(on(k)) /\ on(k).at = "resume others" /\ on(k).d = dm.UsedDevCB[k]
          BY <2>9, <2>16
        <4> QED
          BY <1>6, <2>2, <2>4, <3>5, <4>1, <4>2
      <3>6. ASSUME next = {}, Moves(t, NoCall), reg' = None PROVE Together'
        <4>1. told' = {}
          BY <3>3, <3>4, <3>6
        <4>2. NoCall.at \notin Suspending /\ NoCall.at # "sus" /\ Call(NoCall)
          BY Callable DEF Suspending
        <4> QED
          BY <2>2, <2>4, <3>6, <4>1, <4>2, TellingStep
      <3> QED
        BY <2>3, <3>1, <3>5, <3>6
    <2> QED
      BY <2>1, <2>13, <2>14, <2>15, <2>16
  <1> QED
    BY <1>1, <1>7, <1>8, <1>9

LEMMA TogetherInit == Init => Together
  <1> SUFFICES ASSUME Init PROVE Together
    OBVIOUS
  <1>1. PICK ds \in SetToSeqs(DevCBs), os \in SetToSeqs(OpnCBs), rs \in SetToSeqs(ReqCBs) :
       dm = [devcb |-> [d \in DevCBs |-> NoDev], opncb |-> [o \in OpnCBs |-> NoOpn],
             reqcb |-> [r \in ReqCBs |-> NoReq], UsedDevCB |-> <<>>, FreeDevCB |-> ds,
             FreeOpnCB |-> os, FreeReqCB |-> rs, resq |-> <<>>, dissus |-> 0]
    BY DEF Init
  <1>2. ds \in Seq(DevCBs) /\ Once(ds)
    BY AllHolds, DeviceAssumption
  <1>3. Shaped(dm) /\ \A d \in DevCBs : Disks(dm)[d] \in BOOLEAN
    BY <1>1 DEF Shaped, Disks, NoDev, NoDdev
  <1>4. dm.UsedDevCB = <<>> /\ dm.FreeDevCB = ds
    BY <1>1
  <1>5. call = [t \in Tasks |-> NoCall] /\ reg = None /\ told = {}
    BY DEF Init
  <1>6. Call(NoCall) /\ NoCall.at = "none"
    BY DEF Call, NoCall
  <1>7. \A t \in Tasks : Telling(t)
    BY <1>5, <1>6 DEF Telling
  <1>8. Once(dm.UsedDevCB) /\ ToSet(dm.UsedDevCB) = {} /\ dm.UsedDevCB \in Seq(DevCBs)
    BY <1>4 DEF Once, ToSet
  <1>9. Listed
    BY <1>2, <1>3, <1>4, <1>5, <1>6, <1>8 DEF Listed
  <1> QED
    BY <1>5, <1>6, <1>7, <1>9 DEF Together, Suspending

LEMMA TogetherStep == Together /\ [Next]_vars => Together'
  <1> SUFFICES ASSUME Together, [Next]_vars PROVE Together'
    OBVIOUS
  <1>1. CASE UNCHANGED vars
    <2>1. UNCHANGED <<dm, call, reg, told>>
      BY <1>1 DEF vars
    <2>2. Listed'
      BY <2>1 DEF Together, Listed, Shaped, Disks
    <2>3. Disks(dm)' = Disks(dm)
      BY <2>1 DEF Disks
    <2>4. AllDisks' = AllDisks /\ Others' = Others /\ \A x : Over(x)' = Over(x)
      BY <2>1, <2>3 DEF AllDisks, Others, Over, Behind
    <2>5. \A x : Passed(x, AllDisks)' = Passed(x, AllDisks) /\ Passed(x, Others)' = Passed(x, Others)
      BY <2>1, <2>4 DEF Passed
    <2>6. \A t \in Tasks : Telling(t)'
      BY <2>1, <2>4, <2>5 DEF Together, Telling
    <2> QED
      BY <2>1, <2>2, <2>6 DEF Together
  <1>2. ASSUME NEW t \in Tasks, NEW c, Plain(t, c) PROVE Together'
    BY <1>2, DevsSame DEF Plain
  <1>3. CASE Next
    <2>1. PICK t \in Tasks :
            \/ \E n \in Names : \/ Unregister(t, n)
                                \/ \E ddev \in Ddevs[n] : tk_def_dev(t, n, ddev)
                                \/ \E ddev \in Ddevs[n], omode \in Modes[n] :
                                     \E u \in 0..ddev.nsub : tk_opn_dev(t, n, u, omode)
            \/ \E d \in DevCBs : tk_evt_dev(t, d)
            \/ \E o \in OpnCBs :
                 \/ tk_rea_dev(t, o) \/ tk_srea_dev(t, o) \/ tk_wri_dev(t, o) \/ tk_swri_dev(t, o)
                 \/ tk_wai_dev(t, o)
                 \/ tk_cls_dev(t, o)
            \/ EventEnds(t) \/ OpenEnds(t) \/ OpenFails(t)
            \/ RequestEnds(t) \/ RequestFails(t) \/ WaitRefused(t)
            \/ \E done \in 0..Len(call[t].list) : WaitEnds(t, done)
            \/ abort_allrequest(t) \/ AbortCounted(t) \/ AbortAwaited(t) \/ Drain(t)
            \/ knl_close_device(t) \/ CloseEnds(t)
            \/ tk_sus_dev(t) \/ do_suspend(t) \/ Sleep(t)
            \/ \E pass \in ToSet(Passes) \ {"asleep"} : sendevt_alldevice(t, pass)
            \/ knl_devmgr_cleanup(t)
      BY <1>3 DEF Next
    <2>2. ASSUME NEW o \in OpnCBs,
                 \/ tk_rea_dev(t, o) \/ tk_srea_dev(t, o) \/ tk_wri_dev(t, o) \/ tk_swri_dev(t, o)
                 \/ tk_wai_dev(t, o)
          PROVE  Together'
      <3>1. \/ \E need : knl_request(t, o, need, FALSE) \/ knl_request(t, o, need, TRUE)
            \/ WaitAny(t, o) \/ \E r : WaitOne(t, o, r)
        BY <2>2 DEF tk_rea_dev, tk_srea_dev, tk_wri_dev, tk_swri_dev, tk_wai_dev
      <3>2. \/ \E sync \in BOOLEAN : \E p, need : knl_request(t, p, need, sync)
            \/ (\E p : WaitAny(t, p)) \/ \E p, r : WaitOne(t, p, r)
        BY <3>1
      <3>3. \E c : Plain(t, c)
        BY <3>2, PlainRequest
      <3> QED
        BY <1>2, <3>3
    <2>3. ASSUME EventEnds(t) \/ OpenEnds(t) \/ OpenFails(t) \/ (\E d \in DevCBs : tk_evt_dev(t, d))
                 \/ \E n, u, omode : tk_opn_dev(t, n, u, omode)
          PROVE  Together'
      <3>1. \E c : Plain(t, c)
        BY <2>3, PlainOpen
      <3> QED
        BY <1>2, <3>1
    <2>4. ASSUME RequestEnds(t) \/ RequestFails(t) \/ WaitRefused(t) \/ \E done : WaitEnds(t, done)
          PROVE  Together'
      <3>1. \E c : Plain(t, c)
        BY <2>4, PlainRequest
      <3> QED
        BY <1>2, <3>1
    <2>5. ASSUME \/ \E o : tk_cls_dev(t, o)
                 \/ abort_allrequest(t) \/ AbortCounted(t) \/ AbortAwaited(t) \/ Drain(t)
                 \/ knl_close_device(t) \/ CloseEnds(t) \/ knl_devmgr_cleanup(t)
          PROVE  Together'
      <3>1. \E c : Plain(t, c)
        BY <2>5, PlainClose
      <3> QED
        BY <1>2, <3>1
    <2> QED
      BY <2>1, <2>2, <2>3, <2>4, <2>5, DevicesChange, SuspensionSteps
  <1> QED
    BY <1>1, <1>3

(* The machine is suspended only when every registered device has been     *)
(* told, and none is left suspended when nobody suspends: registration,    *)
(* opening, use and closing go on between the passes of do_suspend, but    *)
(* no device comes or goes, whatever their number and order.               *)
THEOREM SuspendsTogether == Spec => []SuspendTogether
  <1>1. Together => SuspendTogether
    BY DEF Together, Telling, SuspendTogether, At
  <1> QED
    BY <1>1, TogetherInit, TogetherStep, PTL DEF Spec

-----------------------------------------------------------------------------
(***************************************************************************)
(* Requests and the driver: how tasks come and go.                         *)
(***************************************************************************)

(* A task calls the driver with the requests of c, which are new or which  *)
(* nobody is in the driver with.                                           *)
LEMMA Enters ==
  ASSUME Types, Serve, NEW t \in Tasks, NEW c, IsCall(c), Moves(t, c), NEW o \in OpnCBs, c.o = o,
         c.at \in Serving, call[t].at \notin Serving, Many(dm)[o] = <<>>, c.list # <<>>,
         NEW L, L = ToSet(c.list), \A r \in L : Of(dm)[r] = None \/ By(dm)[r] = None,
         Places', \A r \in ReqCBs : Of(dm')[r] = (IF r \in L THEN o ELSE Of(dm)[r]),
         \A r \in ReqCBs : By(dm')[r] = (IF r \in L THEN t ELSE By(dm)[r]),
         \/ ~ c.any /\ Len(c.list) = 1 /\ Many(dm') = Many(dm)
         \/ c.any /\ c.at = "waitfn" /\ Inside[o] = {} /\ Many(dm') = [Many(dm) EXCEPT ![o] = c.list]
  PROVE  Serve'
  <1>1. /\ call'[t] = c /\ \A u \in Tasks \ {t} : call'[u] = call[u]
        /\ \A p \in OpnCBs : Inside'[p] = Inside[p] \cup {u \in {t} : p = o}
        /\ \A p \in OpnCBs : t \notin Inside[p]
    BY Moved DEF Types, Typed
  <1>2. L \subseteq ReqCBs
    <2>1. c.list \in Seq(ReqCBs)
      BY DEF IsCall
    <2> QED
      BY <2>1 DEF ToSet
  <1>3. \A p \in OpnCBs : Inside[p] \subseteq Tasks
    BY DEF Inside
  <1>4. \A p \in OpnCBs : p # o => Many(dm')[p] = Many(dm)[p]
    BY DEF Types, Typed
  <1>5. ASSUME NEW p \in OpnCBs, NEW u \in Inside'[p]
        PROVE  /\ call'[u].list # <<>>
               /\ ~ call'[u].any => Len(call'[u].list) = 1
               /\ call'[u].any => call'[u].at = "waitfn" /\ Many(dm')[p] # <<>>
               /\ \A r \in ToSet(call'[u].list) : Of(dm')[r] = p /\ By(dm')[r] = u
    <2>1. CASE u = t
      <3>1. p = o
        BY <1>1, <1>5, <2>1
      <3>2. c.any => Many(dm')[o] = c.list
        BY DEF Types, Typed
      <3> QED
        BY <1>1, <1>2, <2>1, <3>1, <3>2
    <2>2. CASE u # t
      <3>1. u \in Inside[p] /\ u \in Tasks /\ call'[u] = call[u]
        BY <1>1, <1>3, <1>5, <2>2
      <3>2. /\ call[u].list # <<>> /\ (~ call[u].any => Len(call[u].list) = 1)
            /\ call[u].any => call[u].at = "waitfn" /\ Many(dm)[p] # <<>>
            /\ \A r \in ToSet(call[u].list) : Of(dm)[r] = p /\ By(dm)[r] = u
        BY <3>1 DEF Serve, Held
      <3>3. \A r \in ToSet(call[u].list) : r \in ReqCBs /\ r \notin L
        <4>1. call[u].list \in Seq(ReqCBs)
          BY <3>1 DEF Types, Typed, Called, IsCall
        <4>2. \A r \in ToSet(call[u].list) : r \in ReqCBs
          BY <4>1 DEF ToSet
        <4> QED
          BY <3>1, <3>2, <4>2, NoneApart
      <3>4. call[u].any => p # o
        BY <3>2
      <3> QED
        BY <1>4, <3>1, <3>2, <3>3, <3>4
    <2> QED
      BY <2>1, <2>2
  <1>6. Held'
    BY <1>5 DEF Held
  <1>7. Owned'
    <2> SUFFICES ASSUME NEW r \in ReqCBs, NEW p \in OpnCBs, NEW u \in Tasks, Of(dm')[r] = p, By(dm')[r] = u
                 PROVE  u \in Inside'[p] /\ r \in ToSet(call'[u].list)
      BY DEF Owned
    <2>1. CASE r \in L
      BY <1>1, <2>1
    <2>2. CASE r \notin L
      <3>1. u \in Inside[p] /\ r \in ToSet(call[u].list)
        BY <2>2 DEF Serve, Owned
      <3> QED
        BY <1>1, <3>1
    <2> QED
      BY <2>1, <2>2
  <1>8. Alone'
    <2> SUFFICES ASSUME NEW p \in OpnCBs, Many(dm')[p] # <<>>
                 PROVE  \E u \in Tasks : Inside'[p] = {u} /\ call'[u].any
      BY DEF Alone
    <2>1. CASE p = o
      BY <1>1, <2>1
    <2>2. CASE p # o
      <3>1. PICK u \in Tasks : Inside[p] = {u} /\ call[u].any
        BY <1>4, <2>2 DEF Serve, Alone
      <3>2. u # t /\ Inside'[p] = {u}
        BY <1>1, <2>2, <3>1
      <3> QED
        BY <1>1, <3>1, <3>2
    <2> QED
      BY <2>1, <2>2
  <1> QED
    BY <1>6, <1>7, <1>8 DEF Serve

(* A task comes back from the driver; the request that is complete goes.   *)
LEMMA Leaves ==
  ASSUME Types, Serve, NEW t \in Tasks, NEW c, IsCall(c), Moves(t, c), NEW o \in OpnCBs, t \in Inside[o],
         c.at \notin Serving, NEW L, L = ToSet(call[t].list),
         \A r \in ReqCBs : By(dm')[r] = (IF r \in L THEN None ELSE By(dm)[r]),
         \/ Of(dm') = Of(dm) /\ Que(dm') = Que(dm) /\ dm'.FreeReqCB = dm.FreeReqCB
         \/ \E r \in L : /\ Of(dm') = [Of(dm) EXCEPT ![r] = None]
                         /\ Que(dm') = [Que(dm) EXCEPT ![o] = QueRemove(@, r)]
                         /\ dm'.FreeReqCB = Append(dm.FreeReqCB, r),
         Many(dm') = (IF call[t].any THEN [Many(dm) EXCEPT ![o] = <<>>] ELSE Many(dm))
  PROVE  Serve'
  <1>1. /\ call'[t] = c /\ \A u \in Tasks \ {t} : call'[u] = call[u]
        /\ \A p \in OpnCBs : Inside'[p] = Inside[p] \ {t}
        /\ \A p \in OpnCBs : t \in Inside[p] => p = o
    BY Moved DEF Types, Typed, Inside
  <1>2. \A p \in OpnCBs : Inside[p] \subseteq Tasks
    BY DEF Inside
  <1>3. \A u \in Tasks : \A r \in ToSet(call[u].list) : r \in ReqCBs
    <2>1. \A u \in Tasks : call[u].list \in Seq(ReqCBs)
      BY DEF Types, Typed, Called, IsCall
    <2> QED
      BY <2>1 DEF ToSet
  <1>4. \A r \in L : r \in ReqCBs /\ Of(dm)[r] = o /\ By(dm)[r] = t
    BY <1>3 DEF Serve, Held
  <1>5. Places'
    <2>1. CASE Of(dm') = Of(dm) /\ Que(dm') = Que(dm) /\ dm'.FreeReqCB = dm.FreeReqCB
      BY <2>1 DEF Serve, Places
    <2>2. ASSUME NEW r \in L, Of(dm') = [Of(dm) EXCEPT ![r] = None],
                 Que(dm') = [Que(dm) EXCEPT ![o] = QueRemove(@, r)],
                 dm'.FreeReqCB = Append(dm.FreeReqCB, r)
          PROVE  Places'
      <3>1. r \in ReqCBs /\ Of(dm)[r] = o
        BY <1>4
      <3> QED
        BY <2>2, <3>1, DelPlaces
    <2> QED
      BY <2>1, <2>2
  <1>6. \A r \in ReqCBs : r \notin L => Of(dm')[r] = Of(dm)[r]
    BY DEF Types, Typed
  <1>7. \A p \in OpnCBs : p # o => Many(dm')[p] = Many(dm)[p]
    BY DEF Types, Typed
  <1>8. ASSUME NEW p \in OpnCBs, NEW u \in Inside'[p]
        PROVE  /\ call'[u].list # <<>>
               /\ ~ call'[u].any => Len(call'[u].list) = 1
               /\ call'[u].any => call'[u].at = "waitfn" /\ Many(dm')[p] # <<>>
               /\ \A r \in ToSet(call'[u].list) : Of(dm')[r] = p /\ By(dm')[r] = u
    <2>1. u # t /\ u \in Inside[p] /\ u \in Tasks /\ call'[u] = call[u]
      BY <1>1, <1>2, <1>8
    <2>2. /\ call[u].list # <<>> /\ (~ call[u].any => Len(call[u].list) = 1)
          /\ call[u].any => call[u].at = "waitfn" /\ Many(dm)[p] # <<>>
          /\ \A r \in ToSet(call[u].list) : Of(dm)[r] = p /\ By(dm)[r] = u
      BY <2>1 DEF Serve, Held
    <2>3. \A r \in ToSet(call[u].list) : r \in ReqCBs /\ r \notin L
      BY <1>3, <1>4, <2>1, <2>2
    <2>4. call[u].any => p # o
      <3>1. ASSUME p = o, Many(dm)[p] # <<>> PROVE FALSE
        <4>1. PICK w \in Tasks : Inside[p] = {w}
          BY <3>1 DEF Serve, Alone
        <4> QED
          BY <2>1, <3>1, <4>1
      <3> QED
        BY <2>2, <3>1
    <2> QED
      BY <1>6, <1>7, <2>1, <2>2, <2>3, <2>4
  <1>9. Held'
    BY <1>8 DEF Held
  <1>10. Owned'
    <2> SUFFICES ASSUME NEW r \in ReqCBs, NEW p \in OpnCBs, NEW u \in Tasks, Of(dm')[r] = p, By(dm')[r] = u
                 PROVE  u \in Inside'[p] /\ r \in ToSet(call'[u].list)
      BY DEF Owned
    <2>1. r \notin L
      BY NoneApart
    <2>2. Of(dm)[r] = p /\ By(dm)[r] = u
      BY <1>6, <2>1
    <2>3. u \in Inside[p] /\ r \in ToSet(call[u].list)
      BY <2>2 DEF Serve, Owned
    <2>4. u # t
      BY <2>1, <2>3
    <2> QED
      BY <1>1, <2>3, <2>4
  <1>11. Alone'
    <2> SUFFICES ASSUME NEW p \in OpnCBs, Many(dm')[p] # <<>>
                 PROVE  \E u \in Tasks : Inside'[p] = {u} /\ call'[u].any
      BY DEF Alone
    <2>1. CASE p = o
      <3>1. ~ call[t].any /\ Many(dm)[o] # <<>>
        BY <2>1 DEF Types, Typed
      <3>2. PICK w \in Tasks : Inside[o] = {w} /\ call[w].any
        BY <3>1 DEF Serve, Alone
      <3> QED
        BY <3>1, <3>2
    <2>2. CASE p # o
      <3>1. PICK u \in Tasks : Inside[p] = {u} /\ call[u].any
        BY <1>7, <2>2 DEF Serve, Alone
      <3>2. u # t /\ Inside'[p] = {u}
        BY <1>1, <2>2, <3>1
      <3> QED
        BY <1>1, <3>1, <3>2
    <2> QED
      BY <2>1, <2>2
  <1> QED
    BY <1>5, <1>9, <1>10, <1>11 DEF Serve

(* A request of a descriptor nobody is in the driver with goes. *)
LEMMA RequestGoes ==
  ASSUME Types, Serve, NEW o \in OpnCBs, Inside[o] = {}, NEW r \in ReqCBs, Of(dm)[r] = o,
         Of(dm') = [Of(dm) EXCEPT ![r] = None], Que(dm') = [Que(dm) EXCEPT ![o] = QueRemove(@, r)],
         dm'.FreeReqCB = Append(dm.FreeReqCB, r), By(dm') = By(dm), Many(dm') = Many(dm),
         Inside' = Inside, \A p \in OpnCBs : \A t \in Inside[p] : call'[t] = call[t]
  PROVE  Serve'
  <1>1. Places'
    BY DelPlaces
  <1>2. \A x \in ReqCBs : Of(dm')[x] = IF x = r THEN None ELSE Of(dm)[x]
    BY DEF Types, Typed
  <1>3. Held'
    <2>1. ASSUME NEW p \in OpnCBs, NEW t \in Inside[p], NEW x \in ToSet(call[t].list)
          PROVE  Of(dm')[x] = p
      <3>1. Of(dm)[x] = p /\ p # o
        BY <2>1 DEF Serve, Held
      <3>2. x \in ReqCBs
        <4>1. call[t].list \in Seq(ReqCBs)
          BY DEF Types, Typed, Called, IsCall, Inside
        <4> QED
          BY <4>1 DEF ToSet
      <3> QED
        BY <1>2, <3>1, <3>2
    <2> QED
      BY <2>1 DEF Serve, Held
  <1>4. Owned'
    <2> SUFFICES ASSUME NEW x \in ReqCBs, NEW p \in OpnCBs, NEW u \in Tasks, Of(dm')[x] = p, By(dm')[x] = u
                 PROVE  u \in Inside'[p] /\ x \in ToSet(call'[u].list)
      BY DEF Owned
    <2>1. Of(dm)[x] = p
      BY <1>2, NoneApart
    <2>2. u \in Inside[p] /\ x \in ToSet(call[u].list)
      BY <2>1 DEF Serve, Owned
    <2> QED
      BY <2>2
  <1>5. Alone'
    <2>1. \A p \in OpnCBs, t \in Tasks : Inside[p] = {t} => call'[t] = call[t]
      OBVIOUS
    <2> QED
      BY <2>1 DEF Serve, Alone
  <1> QED
    BY <1>1, <1>3, <1>4, <1>5 DEF Serve

(* A descriptor without requests has nobody in the driver. *)
Bare(o) == \A r \in ReqCBs : Of(dm)[r] # o

LEMMA BareIs ==
  ASSUME Types, Serve, NEW o \in OpnCBs, Bare(o)
  PROVE  Que(dm)[o] = <<>> /\ Many(dm)[o] = <<>> /\ Inside[o] = {}
  <1>1. Que(dm)[o] \in Seq(ReqCBs)
    BY DEF Types, Typed
  <1>2. Que(dm)[o] = <<>>
    <2> SUFFICES ASSUME Que(dm)[o] # <<>> PROVE FALSE
      OBVIOUS
    <2>1. Head(Que(dm)[o]) \in ReqCBs /\ Head(Que(dm)[o]) \in ToSet(Que(dm)[o])
      BY <1>1, HeadHolds
    <2> QED
      BY <2>1 DEF Serve, Places, Bare
  <1>3. Inside[o] = {}
    <2> SUFFICES ASSUME NEW t \in Inside[o] PROVE FALSE
      OBVIOUS
    <2>1. call[t].list # <<>> /\ \A r \in ToSet(call[t].list) : Of(dm)[r] = o
      BY DEF Serve, Held
    <2>2. call[t].list \in Seq(ReqCBs)
      BY DEF Types, Typed, Called, IsCall, Inside
    <2>3. Head(call[t].list) \in ReqCBs /\ Head(call[t].list) \in ToSet(call[t].list)
      BY <2>1, <2>2, HeadHolds
    <2> QED
      BY <2>1, <2>3 DEF Bare
  <1>4. Many(dm)[o] = <<>>
    BY <1>3 DEF Serve, Alone
  <1> QED
    BY <1>2, <1>3, <1>4

(* As long as nobody waits for any request, each task in the driver has    *)
(* one, and abort_allrequest counts the tasks by counting requests.        *)
LEMMA BusyCount ==
  ASSUME Types, Serve, NEW o \in OpnCBs, Many(dm)[o] = <<>>
  PROVE  Cardinality(Busy(o)) = Cardinality(Inside[o])
  <1> DEFINE f == [t \in Inside[o] |-> call[t].list[1]]
  <1>1. Inside[o] \subseteq Tasks /\ IsFiniteSet(Inside[o])
    <2>1. Inside[o] \in SUBSET Tasks
      BY DEF Inside
    <2> QED
      BY <2>1, FS_Subset, DeviceAssumption
  <1>2. \A r : r \in Busy(o) <=> r \in ReqCBs /\ Of(dm)[r] = o /\ By(dm)[r] # None
    <2>1. Que(dm)[o] = dm.opncb[o].requestq /\ Que(dm)[o] \in Seq(ReqCBs)
      BY DEF Que, Types, Typed
    <2>2. \A r \in ToSet(Que(dm)[o]) : r \in ReqCBs
      BY <2>1 DEF ToSet
    <2>3. \A r \in ReqCBs : r \in ToSet(Que(dm)[o]) <=> Of(dm)[r] = o
      BY DEF Serve, Places
    <2>4. \A r \in ReqCBs : By(dm)[r] = dm.reqcb[r].tskid
      BY DEF By
    <2> QED
      BY <2>1, <2>2, <2>3, <2>4 DEF Busy
  <1>3. ASSUME NEW t \in Inside[o]
        PROVE  call[t].list = <<f[t]>> /\ f[t] \in ReqCBs /\ Of(dm)[f[t]] = o /\ By(dm)[f[t]] = t
    <2>1. /\ ~ call[t].any /\ Len(call[t].list) = 1
          /\ \A r \in ToSet(call[t].list) : Of(dm)[r] = o /\ By(dm)[r] = t
      BY DEF Serve, Held
    <2>2. call[t].list \in Seq(ReqCBs)
      BY DEF Types, Typed, Called, IsCall, Inside
    <2>3. call[t].list = <<call[t].list[1]>> /\ call[t].list[1] \in ReqCBs
      BY <2>1, <2>2
    <2>4. call[t].list[1] \in ToSet(call[t].list)
      BY <2>1, <2>2 DEF ToSet
    <2> QED
      BY <2>1, <2>3, <2>4
  <1>4. ASSUME NEW r \in Busy(o) PROVE \E t \in Inside[o] : f[t] = r
    <2>1. r \in ReqCBs /\ Of(dm)[r] = o /\ By(dm)[r] \in Tasks
      BY <1>2 DEF Types, Typed
    <2>2. By(dm)[r] \in Inside[o] /\ r \in ToSet(call[By(dm)[r]].list)
      BY <2>1 DEF Serve, Owned
    <2>3. call[By(dm)[r]].list = <<f[By(dm)[r]]>>
      BY <1>3, <2>2
    <2>4. r = f[By(dm)[r]]
      <3> HIDE DEF f
      <3> QED
        BY <2>2, <2>3 DEF ToSet
    <2> QED
      BY <2>2, <2>4
  <1>5. ASSUME NEW t \in Inside[o] PROVE f[t] \in Busy(o)
    <2>1. f[t] \in ReqCBs /\ Of(dm)[f[t]] = o /\ By(dm)[f[t]] = t
      BY <1>3
    <2>2. t # None
      BY <1>1, NoneApart
    <2> HIDE DEF f
    <2> QED
      BY <1>2, <2>1, <2>2
  <1>6. \A t, u \in Inside[o] : f[t] = f[u] => t = u
    BY <1>3
  <1>7. f \in Bijection(Inside[o], Busy(o))
    <2>1. f \in [Inside[o] -> Busy(o)]
      BY <1>5
    <2> HIDE DEF f
    <2>2. IsInjective(f)
      BY <1>6, <2>1 DEF IsInjective
    <2> QED
      BY <1>4, <2>1, <2>2 DEF Bijection, Injection, Surjection
  <1> QED
    BY <1>1, <1>7, FS_Bijection DEF ExistsBijection

-----------------------------------------------------------------------------
(***************************************************************************)
(* Opening and closing.  What holds of one descriptor, said of each.  Once *)
(* the device manager shuts down, a descriptor may be closed while it is   *)
(* being opened, and then be in the queue of free ones twice.              *)
(***************************************************************************)
WhenFree(o) ==
  o \in ToSet(dm.FreeOpnCB) =>
    Bare(o) /\ (~ down => Resid(dm)[o] = 0 /\ Closers[o] = {} /\ Openers[o] = {})

WhenOpened(o) ==
  \A t \in Openers[o] :
    Bare(o) /\ (~ down => Resid(dm)[o] = 0 /\ Closers[o] = {} /\ Openers[o] = {t})

WhenClosed(o) ==
  \A t \in Closers[o] :
    LET at == call[t].at
        cnt == AbortCnt(dm)[o]
    IN  /\ Closers[o] = {t}
        /\ Resid(dm)[o] = 0 \/ (down /\ Bare(o))
        /\ at = "abort" => AbortBy(dm)[o] = None /\ AbortSem(dm)[o] = 0
        /\ at \in {"aborted", "semwait"} =>
             /\ AbortBy(dm)[o] = t /\ cnt = Cardinality(Inside[o])
             /\ cnt > 0 => AbortSem(dm)[o] = 0
        /\ at = "semwait" /\ cnt = 0 => AbortSem(dm)[o] = 1
        /\ at \in {"drain", "drainfn", "close", "closed", "closefn"} => Inside[o] = {}
        /\ at = "drainfn" => \E r \in ReqCBs : call[t].list = <<r>> /\ Of(dm)[r] = o
        /\ at \in {"close", "closed", "closefn"} => Bare(o)

WhenNotClosed(o) == Closers[o] = {} => AbortBy(dm)[o] = None /\ AbortSem(dm)[o] = 0

Fine(o) == WhenFree(o) /\ WhenOpened(o) /\ WhenClosed(o) /\ WhenNotClosed(o)

Permitted ==
  \A t \in Tasks :
    /\ call[t].at \in Closing => May[t] \cap {"cls", "end"} # {}
    /\ call[t].clean \/ call[t].at = "cleanup" => "end" \in May[t]

IInv ==
  /\ Types /\ Serve
  /\ \A o \in OpnCBs : Fine(o)
  /\ ~ down => Once(dm.FreeOpnCB)
  /\ Permitted

(* Who shuts the device manager down is the only one who still closes.     *)
CleanupAlone ==
  \A t \in Tasks : "end" \in May[t] =>
    \A u \in Tasks \ {t} : May[u] \cap {"cls", "end"} = {}

(* A step that does not concern a descriptor. *)
LEMMA Elsewhere ==
  ASSUME Types, NEW t \in Tasks, NEW c, IsCall(c), Moves(t, c), NEW p \in OpnCBs, Fine(p),
         call[t].at \in Serving \cup Closing \cup Opening => call[t].o # p,
         c.at \in Serving \cup Closing \cup Opening => c.o # p,
         \A r \in ReqCBs : Of(dm')[r] = p <=> Of(dm)[r] = p,
         Resid(dm')[p] = Resid(dm)[p], AbortBy(dm')[p] = AbortBy(dm)[p],
         AbortCnt(dm')[p] = AbortCnt(dm)[p], AbortSem(dm')[p] = AbortSem(dm)[p],
         p \in ToSet(dm'.FreeOpnCB) => p \in ToSet(dm.FreeOpnCB), down => down'
  PROVE  Fine(p)'
  <1>1. /\ Inside'[p] = Inside[p] /\ Closers'[p] = Closers[p] /\ Openers'[p] = Openers[p]
        /\ \A u \in Closers[p] : call'[u] = call[u]
    <2>1. t \notin Inside[p] /\ t \notin Closers[p] /\ t \notin Openers[p]
      BY DEF Inside, Closers, Openers
    <2>2. /\ Inside'[p] = (Inside[p] \ {t}) \cup {u \in {t} : c.at \in Serving /\ c.o = p}
          /\ Closers'[p] = (Closers[p] \ {t}) \cup {u \in {t} : c.at \in Closing /\ c.o = p}
          /\ Openers'[p] = (Openers[p] \ {t}) \cup {u \in {t} : c.at \in Opening /\ c.o = p}
          /\ \A u \in Tasks \ {t} : call'[u] = call[u]
      BY Moved DEF Types, Typed
    <2>3. Closers[p] \subseteq Tasks
      BY DEF Closers
    <2> QED
      BY <2>1, <2>2, <2>3
  <1>2. Bare(p)' <=> Bare(p)
    BY DEF Bare
  <1>3. WhenFree(p)'
    BY <1>1, <1>2 DEF Fine, WhenFree
  <1>4. WhenOpened(p)'
    BY <1>1, <1>2 DEF Fine, WhenOpened
  <1>5. WhenClosed(p)'
    BY <1>1, <1>2 DEF Fine, WhenClosed
  <1>6. WhenNotClosed(p)'
    BY <1>1 DEF Fine, WhenNotClosed
  <1> QED
    BY <1>3, <1>4, <1>5, <1>6 DEF Fine

Engaged == Serving \cup Closing \cup Opening

(* A step of t that concerns the descriptor o alone. *)
LEMMA Settled ==
  ASSUME IInv, Typed(dm'), down' \in BOOLEAN, Serve', NEW t \in Tasks, NEW c, IsCall(c), Moves(t, c), NEW o \in OpnCBs,
         call[t].at \in Engaged => call[t].o = o, c.at \in Engaged => c.o = o,
         \A p \in OpnCBs \ {o} :
           /\ \A r \in ReqCBs : Of(dm')[r] = p <=> Of(dm)[r] = p
           /\ Resid(dm')[p] = Resid(dm)[p] /\ AbortBy(dm')[p] = AbortBy(dm)[p]
           /\ AbortCnt(dm')[p] = AbortCnt(dm)[p] /\ AbortSem(dm')[p] = AbortSem(dm)[p]
           /\ p \in ToSet(dm'.FreeOpnCB) => p \in ToSet(dm.FreeOpnCB),
         down => down', Fine(o)', ~ down' => Once(dm'.FreeOpnCB),
         c.at \in Closing => May[t] \cap {"cls", "end"} # {},
         c.clean \/ c.at = "cleanup" => "end" \in May[t]
  PROVE  IInv'
  <1>1. \A p \in OpnCBs : Fine(p)'
    <2> SUFFICES ASSUME NEW p \in OpnCBs, p # o PROVE Fine(p)'
      OBVIOUS
    <2>1. Types /\ Fine(p)
      BY DEF IInv
    <2>2. /\ call[t].at \in Serving \cup Closing \cup Opening => call[t].o # p
          /\ c.at \in Serving \cup Closing \cup Opening => c.o # p
      BY DEF Engaged
    <2> QED
      BY <2>1, <2>2, Elsewhere
  <1>2. call'[t] = c /\ \A u \in Tasks \ {t} : call'[u] = call[u]
    BY Moved DEF IInv, Types, Typed
  <1>3. Permitted'
    BY <1>2 DEF IInv, Permitted
  <1>4. Types'
    <2>1. Called'
      BY Moved DEF IInv, Types
    <2>2. \A u \in Tasks : call'[u].at \in Engaged => call'[u].o \in OpnCBs
      BY <1>2 DEF IInv, Types, Engaged
    <2> QED
      BY <2>1, <2>2 DEF Types, Engaged
  <1> QED
    BY <1>1, <1>3, <1>4 DEF IInv

(* A step that concerns no descriptor. *)
LEMMA Idle ==
  ASSUME IInv, NEW t \in Tasks, NEW c, IsCall(c), Moves(t, c),
         call[t].at \notin Engaged, c.at \notin Engaged,
         Fields(dm'), Requests(dm') = Requests(dm), Many(dm') = Many(dm), Aborts(dm') = Aborts(dm),
         Opened(dm') = Opened(dm), down' \in BOOLEAN, down => down',
         c.clean \/ c.at = "cleanup" => "end" \in May[t]
  PROVE  IInv'
  <1>1. /\ Of(dm') = Of(dm) /\ By(dm') = By(dm) /\ Que(dm') = Que(dm) /\ dm'.FreeReqCB = dm.FreeReqCB
        /\ AbortBy(dm') = AbortBy(dm) /\ AbortCnt(dm') = AbortCnt(dm) /\ AbortSem(dm') = AbortSem(dm)
        /\ Resid(dm') = Resid(dm) /\ dm'.FreeOpnCB = dm.FreeOpnCB /\ dm'.resq = dm.resq
    BY DEF Requests, Aborts, Opened
  <1>2. /\ Called' /\ call'[t] = c /\ \A u \in Tasks \ {t} : call'[u] = call[u]
    BY Moved DEF IInv, Types, Typed
  <1>3. Types'
    BY <1>1, <1>2 DEF IInv, Types, Typed, Engaged
  <1>4. \A p \in OpnCBs : Fine(p)'
    <2> SUFFICES ASSUME NEW p \in OpnCBs PROVE Fine(p)'
      OBVIOUS
    <2>1. Types /\ Fine(p)
      BY DEF IInv
    <2> QED
      BY <1>1, <2>1, Elsewhere DEF Engaged
  <1>5. Inside' = Inside /\ \A p \in OpnCBs : \A u \in Inside[p] : call'[u] = call[u]
    <2>1. \A p \in OpnCBs : Inside'[p] = Inside[p]
      BY Moved DEF IInv, Types, Typed, Inside, Engaged
    <2>2. \A p \in OpnCBs : \A u \in Inside[p] : u \in Tasks \ {t}
      BY DEF Inside, Engaged
    <2> QED
      BY <1>2, <2>1, <2>2 DEF Inside
  <1>6. Serve'
    BY <1>5, ServeSame DEF IInv
  <1>7. Permitted'
    BY <1>2 DEF IInv, Permitted, Engaged
  <1> QED
    BY <1>1, <1>3, <1>4, <1>6, <1>7 DEF IInv

LEMMA NoCalling ==
  /\ IsCall(NoCall) /\ NoCall.at = "none" /\ "none" \notin Engaged /\ NoCall.clean = FALSE
  <1>2. IsCall(NoCall)
    BY DEF NoCall, IsCall, Call
  <1>3. NoCall.at = "none" /\ NoCall.clean = FALSE
    BY DEF NoCall
  <1>4. "none" \notin Engaged
    BY DEF Engaged, Serving, Closing, Opening
  <1> QED
    BY <1>2, <1>3, <1>4

LEMMA CallIs ==
  ASSUME IInv, NEW t \in Tasks
  PROVE  /\ IsCall(call[t])
         /\ \A where : LET c == [call[t] EXCEPT !.at = where]
                       IN  /\ IsCall(c) /\ c.at = where /\ c.o = call[t].o
                           /\ c.list = call[t].list /\ c.clean = call[t].clean
         /\ \A d \in DevCBs : LET c == [call[t] EXCEPT !.d = d]
                              IN  IsCall(c) /\ c.at = call[t].at /\ c.clean = call[t].clean
         /\ UNCHANGED call => Moves(t, call[t])
         /\ call[t].clean => "end" \in May[t]
  <1>1. IsCall(call[t]) /\ Called
    BY DEF IInv, Types, Typed, Called
  <1>2. UNCHANGED call => Moves(t, call[t])
    BY <1>1 DEF Called, Moves
  <1>3. call[t].clean => "end" \in May[t]
    BY DEF IInv, Permitted
  <1> QED
    BY <1>1, <1>2, <1>3 DEF IsCall, Call

(* Registration, events and suspension. *)
LEMMA SuspendKeeps ==
  ASSUME IInv, Together, NEW t \in Tasks,
         \/ EventEnds(t) \/ WaitRefused(t) \/ tk_sus_dev(t) \/ do_suspend(t) \/ Sleep(t)
         \/ \E d \in DevCBs : tk_evt_dev(t, d)
         \/ \E n \in Names : Unregister(t, n) \/ \E ddev : tk_def_dev(t, n, ddev)
         \/ \E pass \in ToSet(Passes) \ {"asleep"} : sendevt_alldevice(t, pass)
  PROVE  IInv'
  <1>1. Fields(dm) /\ down \in BOOLEAN
    BY DEF IInv, Types, Typed
  <1>2. ASSUME NEW c, IsCall(c), Moves(t, c), call[t].at \notin Engaged, c.at \notin Engaged, UNCHANGED <<dm, down>>,
               c.clean => "end" \in May[t], c.at # "cleanup"
        PROVE  IInv'
    BY <1>1, <1>2, Idle DEF Fields, Requests, Many, Aborts, Opened, Of, By, Que, AbortBy, AbortCnt,
                            AbortSem, Resid
  <1>3. ASSUME Moves(t, NoCall), call[t].at \notin Engaged, UNCHANGED <<dm, down>> PROVE IInv'
    BY <1>2, <1>3, NoCalling
  <1>4. ASSUME NEW where, where \notin Engaged \cup {"cleanup"}, call[t].at \notin Engaged,
               Goes(t, where), UNCHANGED <<dm, down>>
        PROVE  IInv'
    <2>1. LET c == [call[t] EXCEPT !.at = where]
          IN  IsCall(c) /\ c.at = where /\ c.clean = call[t].clean
      BY CallIs
    <2>2. call[t].clean => "end" \in May[t]
      BY CallIs
    <2> QED
      BY <1>2, <1>4, <2>1, <2>2 DEF Goes
  <1>5. /\ "eventfn" \notin Engaged /\ "towait" \notin Engaged /\ "sus" \notin Engaged
        /\ "asleep" \notin Engaged /\ \A x \in Suspending : x \notin Engaged \cup {"cleanup"}
    BY DEF Engaged, Serving, Closing, Opening, Suspending
  <1>6. ASSUME NEW x, UNCHANGED <<call, down>>, call[t] = NoCall,
               \/ dm' = [dm EXCEPT !.dissus = x]
               \/ /\ DOMAIN dm' = DOMAIN dm /\ dm'.opncb = dm.opncb /\ dm'.reqcb = dm.reqcb
                  /\ dm'.FreeOpnCB = dm.FreeOpnCB /\ dm'.FreeReqCB = dm.FreeReqCB /\ dm'.resq = dm.resq
        PROVE  IInv'
    <2>1. /\ DOMAIN dm' = DOMAIN dm /\ dm'.opncb = dm.opncb /\ dm'.reqcb = dm.reqcb
          /\ dm'.FreeOpnCB = dm.FreeOpnCB /\ dm'.FreeReqCB = dm.FreeReqCB /\ dm'.resq = dm.resq
      BY <1>1, <1>6 DEF Fields
    <2>2. Fields(dm')
      BY <1>1, <2>1 DEF Fields
    <2>3. Requests(dm') = Requests(dm) /\ Many(dm') = Many(dm) /\ Aborts(dm') = Aborts(dm)
          /\ Opened(dm') = Opened(dm)
      BY <2>1 DEF Requests, Many, Aborts, Opened, Of, By, Que, AbortBy, AbortCnt, AbortSem, Resid
    <2>4. Moves(t, NoCall)
      BY <1>6, CallIs
    <2> QED
      BY <1>1, <1>6, <2>2, <2>3, <2>4, Idle, NoCalling
  <1>7. CASE EventEnds(t) \/ WaitRefused(t)
    BY <1>3, <1>5, <1>7 DEF EventEnds, WaitRefused, At, Ends
  <1>8. ASSUME NEW d \in DevCBs, tk_evt_dev(t, d) PROVE IInv'
    <2> DEFINE c == [NoCall EXCEPT !.at = "eventfn", !.d = d]
    <2>1. IsCall(c) /\ c.at = "eventfn" /\ c.clean = FALSE
      BY NoCalling DEF IsCall, Call
    <2> HIDE DEF c
    <2>2. Moves(t, c) /\ call[t] = NoCall /\ UNCHANGED <<dm, down>>
      BY <1>8 DEF tk_evt_dev, Starts, c
    <2> QED
      BY <1>2, <1>5, <2>1, <2>2, NoCalling
  <1>9. CASE tk_sus_dev(t)
    <2> DEFINE c == [NoCall EXCEPT !.at = "sus"]
    <2>1. IsCall(c) /\ c.at = "sus" /\ c.clean = FALSE
      BY NoCalling DEF IsCall, Call
    <2> HIDE DEF c
    <2>2. /\ call[t] = NoCall /\ UNCHANGED down
          /\ \/ UNCHANGED call /\ \E x : dm' = [dm EXCEPT !.dissus = x]
             \/ UNCHANGED dm /\ Moves(t, c)
      BY <1>9 DEF tk_sus_dev, TD_DISSUS, TD_ENASUS, TD_SUSPEND, Starts, c
    <2> QED
      BY <1>2, <1>5, <1>6, <2>1, <2>2, NoCalling
  <1>10. CASE do_suspend(t) \/ Sleep(t)
    BY <1>4, <1>5, <1>10 DEF do_suspend, Sleep, At, Suspending
  <1>11. ASSUME NEW n \in Names, Unregister(t, n) \/ \E ddev : tk_def_dev(t, n, ddev) PROVE IInv'
    <2>1. call[t] = NoCall /\ UNCHANGED <<call, down>>
      BY <1>11 DEF Unregister, tk_def_dev, Starts
    <2>2. /\ DOMAIN dm' = DOMAIN dm /\ dm'.opncb = dm.opncb /\ dm'.reqcb = dm.reqcb
          /\ dm'.FreeOpnCB = dm.FreeOpnCB /\ dm'.FreeReqCB = dm.FreeReqCB /\ dm'.resq = dm.resq
      <3>1. CASE Unregister(t, n)
        BY <1>1, <3>1 DEF Unregister, delDevCB, Fields
      <3>2. ASSUME NEW ddev, tk_def_dev(t, n, ddev)
            PROVE  /\ DOMAIN dm' = DOMAIN dm /\ dm'.opncb = dm.opncb /\ dm'.reqcb = dm.reqcb
                   /\ dm'.FreeOpnCB = dm.FreeOpnCB /\ dm'.FreeReqCB = dm.FreeReqCB /\ dm'.resq = dm.resq
        <4> DEFINE m == IF searchDevCB(n) = {} THEN newDevCB(dm, n) ELSE dm
                   d == CHOOSE x \in ToSet(m.UsedDevCB) : m.devcb[x].devnm = n
        <4>1. dm' = [m EXCEPT !.devcb[d].ddev = ddev]
          BY <3>2 DEF tk_def_dev
        <4>2. /\ DOMAIN m = DOMAIN dm /\ m.opncb = dm.opncb /\ m.reqcb = dm.reqcb
              /\ m.FreeOpnCB = dm.FreeOpnCB /\ m.FreeReqCB = dm.FreeReqCB /\ m.resq = dm.resq
          BY <1>1 DEF newDevCB, Fields
        <4> HIDE DEF m, d
        <4> QED
          BY <1>1, <4>1, <4>2 DEF Fields
      <3> QED
        BY <1>11, <3>1, <3>2
    <2> QED
      BY <1>6, <2>1, <2>2
  <1>12. ASSUME NEW pass \in ToSet(Passes) \ {"asleep"}, sendevt_alldevice(t, pass) PROVE IInv'
    <2> DEFINE i == CHOOSE j \in DOMAIN Passes : Passes[j] = pass
               off == [NoCall EXCEPT !.at = Passes[i + 1]]
               on(k) == [call[t] EXCEPT !.d = dm.UsedDevCB[k]]
    <2>1. pass \in Suspending /\ call[t].at = pass /\ UNCHANGED <<dm, down>>
      BY <1>12, PassIs DEF sendevt_alldevice, At
    <2>2. \/ \E k \in DOMAIN dm.UsedDevCB : Moves(t, on(k))
          \/ i < 5 /\ Moves(t, off)
          \/ Moves(t, NoCall)
      BY <1>12 DEF sendevt_alldevice, Ends, Behind
    <2>3. i \in 1 .. 5
      <3>1. \E j \in DOMAIN Passes : Passes[j] = pass
        BY <1>12 DEF ToSet
      <3>2. i \in DOMAIN Passes
        BY <3>1
      <3> QED
        BY <3>2, PassIs
    <2> HIDE DEF i
    <2>4. ASSUME i < 5 PROVE IsCall(off) /\ off.at \in Suspending /\ off.clean = FALSE
      <3>1. i + 1 \in DOMAIN Passes
        <4>1. i + 1 \in 1 .. 5
          BY <2>3, <2>4
        <4> QED
          BY <4>1, PassIs
      <3>2. Passes[i + 1] \in Suspending
        BY <3>1, PassIs DEF ToSet
      <3> QED
        BY <1>5, <3>2, NoCalling DEF IsCall, Call
    <2>5. ASSUME NEW k \in DOMAIN dm.UsedDevCB
          PROVE  IsCall(on(k)) /\ on(k).at = pass /\ on(k).clean = call[t].clean
      <3>1. dm.UsedDevCB[k] \in DevCBs
        BY DEF Together, Listed
      <3> QED
        BY <2>1, <3>1, CallIs
    <2>6. call[t].clean => "end" \in May[t]
      BY CallIs
    <2> HIDE DEF off, on
    <2> QED
      BY <1>2, <1>3, <1>5, <2>1, <2>2, <2>4, <2>5, <2>6
  <1> QED
    BY <1>7, <1>8, <1>9, <1>10, <1>11, <1>12

(* What the operations on the tables do to their types. *)
LEMMA RequestTyped ==
  ASSUME NEW m, Typed(m)
  PROVE  /\ \A o \in OpnCBs, t \in Tasks : m.FreeReqCB # <<>> => Typed(newReqCB(m, o, t))
         /\ \A r \in ReqCBs, o \in OpnCBs : Of(m)[r] = o => Typed(delReqCB(m, r))
         /\ \A o \in OpnCBs : Typed(Notify(m, o))
         /\ \A rs : \A t \in Tasks \cup {None} : Typed(Marked(m, rs, t))
  <1>1. ASSUME NEW o \in OpnCBs, NEW t \in Tasks, m.FreeReqCB # <<>> PROVE Typed(newReqCB(m, o, t))
    <2> DEFINE n == newReqCB(m, o, t)
               r == Head(m.FreeReqCB)
    <2>1. /\ Fields(n) /\ r \in ReqCBs
          /\ Of(n) = [Of(m) EXCEPT ![r] = o] /\ By(n) = [By(m) EXCEPT ![r] = t]
          /\ Que(n) = [Que(m) EXCEPT ![o] = Append(@, r)] /\ n.FreeReqCB = Tail(m.FreeReqCB)
          /\ Many(n) = Many(m) /\ Aborts(n) = Aborts(m) /\ Opened(n) = Opened(m)
      BY <1>1, NewReqIs DEF Typed
    <2>2. Append(Que(m)[o], r) \in Seq(ReqCBs)
      BY <2>1 DEF Typed
    <2>3. Tail(m.FreeReqCB) \in Seq(ReqCBs)
      BY <1>1 DEF Typed
    <2> HIDE DEF n, r
    <2> QED
      BY <2>1, <2>2, <2>3 DEF Typed, Aborts, Opened, n
  <1>2. ASSUME NEW r \in ReqCBs, NEW o \in OpnCBs, Of(m)[r] = o PROVE Typed(delReqCB(m, r))
    <2> DEFINE n == delReqCB(m, r)
    <2>1. /\ Fields(n)
          /\ Of(n) = [Of(m) EXCEPT ![r] = None] /\ By(n) = By(m)
          /\ Que(n) = [Que(m) EXCEPT ![o] = QueRemove(@, r)]
          /\ n.FreeReqCB = Append(m.FreeReqCB, r)
          /\ Many(n) = Many(m) /\ Aborts(n) = Aborts(m) /\ Opened(n) = Opened(m)
      <3>1. Fields(m)
        BY DEF Typed
      <3> QED
        BY <1>2, <3>1, DelReqIs
    <2>2. QueRemove(Que(m)[o], r) \in Seq(ReqCBs)
      <3>1. Que(m)[o] \in Seq(ReqCBs)
        BY DEF Typed
      <3> QED
        BY <3>1, QueRemoveType
    <2>3. Append(m.FreeReqCB, r) \in Seq(ReqCBs)
      BY DEF Typed
    <2> HIDE DEF n
    <2> QED
      BY <2>1, <2>2, <2>3 DEF Typed, Aborts, Opened, n
  <1>3. ASSUME NEW o \in OpnCBs PROVE Typed(Notify(m, o))
    <2> DEFINE n == Notify(m, o)
               left == AbortCnt(m)[o] - 1
    <2>1. /\ Fields(n) /\ Requests(n) = Requests(m)
          /\ Many(n) = Many(m) /\ AbortBy(n) = AbortBy(m) /\ Opened(n) = Opened(m)
          /\ AbortBy(m)[o] = None => AbortCnt(n) = AbortCnt(m) /\ AbortSem(n) = AbortSem(m)
          /\ AbortBy(m)[o] # None =>
               /\ AbortCnt(n) = [AbortCnt(m) EXCEPT ![o] = left]
               /\ AbortSem(n) = [AbortSem(m) EXCEPT ![o] = IF left = 0 THEN 1 ELSE @]
      BY NotifyIs DEF Typed
    <2>2. AbortCnt(n) \in [OpnCBs -> Int] /\ AbortSem(n) \in [OpnCBs -> {0, 1}]
      <3>1. left \in Int /\ AbortSem(m)[o] \in {0, 1}
        BY DEF Typed
      <3> HIDE DEF n, left
      <3> QED
        BY <2>1, <3>1 DEF Typed
    <2> HIDE DEF n
    <2> QED
      BY <2>1, <2>2 DEF Typed, Requests, Opened, n
  <1>4. ASSUME NEW rs, NEW t \in Tasks \cup {None} PROVE Typed(Marked(m, rs, t))
    <2> DEFINE n == Marked(m, rs, t)
    <2>1. /\ Fields(n) /\ Of(n) = Of(m) /\ Que(n) = Que(m) /\ n.FreeReqCB = m.FreeReqCB
          /\ By(n) = [r \in ReqCBs |-> IF r \in rs THEN t ELSE By(m)[r]]
          /\ Many(n) = Many(m) /\ Aborts(n) = Aborts(m) /\ Opened(n) = Opened(m)
      BY MarkedIs DEF Typed
    <2> HIDE DEF n
    <2> QED
      BY <2>1 DEF Typed, Aborts, Opened, n
  <1> QED
    BY <1>1, <1>2, <1>3, <1>4

LEMMA DescriptorTyped ==
  ASSUME NEW m, Typed(m)
  PROVE  /\ \A d, u, omode : m.FreeOpnCB # <<>> => Typed(newOpnCB(m, d, u, omode))
         /\ \A o \in OpnCBs : Typed(delOpnCB(m, o, TRUE)) /\ Typed(delOpnCB(m, o, FALSE))
  <1>1. ASSUME NEW d, NEW u, NEW omode, m.FreeOpnCB # <<>> PROVE Typed(newOpnCB(m, d, u, omode))
    <2> DEFINE n == newOpnCB(m, d, u, omode)
               o == Head(m.FreeOpnCB)
    <2>1. /\ Fields(n) /\ o \in OpnCBs
          /\ Of(n) = Of(m) /\ By(n) = By(m) /\ n.FreeReqCB = m.FreeReqCB
          /\ Que(n) = [Que(m) EXCEPT ![o] = <<>>] /\ Many(n) = [Many(m) EXCEPT ![o] = <<>>]
          /\ AbortBy(n) = [AbortBy(m) EXCEPT ![o] = None]
          /\ AbortCnt(n) = [AbortCnt(m) EXCEPT ![o] = 0]
          /\ AbortSem(n) = [AbortSem(m) EXCEPT ![o] = 0]
          /\ Resid(n) = [Resid(m) EXCEPT ![o] = 0]
          /\ n.FreeOpnCB = Tail(m.FreeOpnCB) /\ n.resq = Append(m.resq, o)
      BY <1>1, NewOpnIs DEF Typed
    <2>2. Tail(m.FreeOpnCB) \in Seq(OpnCBs) /\ Append(m.resq, o) \in Seq(OpnCBs)
      BY <1>1, <2>1 DEF Typed
    <2> HIDE DEF n, o
    <2> QED
      BY <2>1, <2>2 DEF Typed, n
  <1>2. ASSUME NEW o \in OpnCBs, NEW n, n = delOpnCB(m, o, TRUE) \/ n = delOpnCB(m, o, FALSE)
        PROVE  Typed(n)
    <2>1. PICK queue \in Seq(OpnCBs) : n = Deleted(m, o, queue)
      <3>1. m.FreeOpnCB \in Seq(OpnCBs) /\ Append(m.FreeOpnCB, o) \in Seq(OpnCBs)
        BY DEF Typed
      <3> QED
        BY <1>2, <3>1, DelOpnEither
    <2>2. /\ Fields(n) /\ Requests(n) = Requests(m) /\ Many(n) = Many(m) /\ Aborts(n) = Aborts(m)
          /\ Resid(n) = [Resid(m) EXCEPT ![o] = 0]
          /\ n.FreeOpnCB = queue /\ n.resq = QueRemove(m.resq, o)
      BY <2>1, DelOpnIs DEF Typed
    <2>3. QueRemove(m.resq, o) \in Seq(OpnCBs)
      BY QueRemoveType DEF Typed
    <2> QED
      BY <2>2, <2>3 DEF Typed, Requests, Aborts
  <1> QED
    BY <1>1, <1>2

(* A step that writes one descriptor. *)
LEMMA DescriptorIs ==
  ASSUME NEW m, Fields(m), NEW n, Fields(n), NEW o \in OpnCBs,
         \A p \in OpnCBs \ {o} : n.opncb[p] = m.opncb[p],
         \A r \in ReqCBs : n.reqcb[r].opncb = m.reqcb[r].opncb /\ n.reqcb[r].tskid = m.reqcb[r].tskid
  PROVE  /\ Of(n) = Of(m) /\ By(n) = By(m)
         /\ Que(n) = [Que(m) EXCEPT ![o] = n.opncb[o].requestq]
         /\ Many(n) = [Many(m) EXCEPT ![o] = n.opncb[o].waireqlst]
         /\ Resid(n) = [Resid(m) EXCEPT ![o] = n.opncb[o].resid]
         /\ AbortBy(n) = [AbortBy(m) EXCEPT ![o] = n.opncb[o].abort_tskid]
         /\ AbortCnt(n) = [AbortCnt(m) EXCEPT ![o] = n.opncb[o].abort_cnt]
         /\ AbortSem(n) = [AbortSem(m) EXCEPT ![o] = n.opncb[o].abort_sem]
  <1>1. Of(n) = Of(m) /\ By(n) = By(m)
    BY DEF Of, By
  <1>2. /\ Que(n) = [Que(m) EXCEPT ![o] = n.opncb[o].requestq]
        /\ Many(n) = [Many(m) EXCEPT ![o] = n.opncb[o].waireqlst]
        /\ Resid(n) = [Resid(m) EXCEPT ![o] = n.opncb[o].resid]
    BY DEF Que, Many, Resid
  <1>3. /\ AbortBy(n) = [AbortBy(m) EXCEPT ![o] = n.opncb[o].abort_tskid]
        /\ AbortCnt(n) = [AbortCnt(m) EXCEPT ![o] = n.opncb[o].abort_cnt]
        /\ AbortSem(n) = [AbortSem(m) EXCEPT ![o] = n.opncb[o].abort_sem]
    BY DEF AbortBy, AbortCnt, AbortSem
  <1> QED
    BY <1>1, <1>2, <1>3

(* A descriptor that may be used is in nobody else's hands. *)
LEMMA OpenIs ==
  ASSUME IInv, NEW o \in OpnCBs, Resid(dm)[o] # 0, ~ down \/ ~ Bare(o)
  PROVE  /\ o \notin ToSet(dm.FreeOpnCB) /\ Closers[o] = {} /\ Openers[o] = {}
         /\ AbortBy(dm)[o] = None /\ AbortSem(dm)[o] = 0
  <1>1. Fine(o)
    BY DEF IInv
  <1>2. o \notin ToSet(dm.FreeOpnCB)
    BY <1>1 DEF Fine, WhenFree
  <1>3. Closers[o] = {}
    BY <1>1 DEF Fine, WhenClosed
  <1>4. Openers[o] = {}
    BY <1>1 DEF Fine, WhenOpened
  <1> QED
    BY <1>1, <1>2, <1>3, <1>4 DEF Fine, WhenNotClosed

LEMMA EnterKeeps ==
  ASSUME IInv, Typed(dm'), Serve', NEW t \in Tasks, NEW c, IsCall(c), Moves(t, c), NEW o \in OpnCBs,
         c.o = o, c.at \in Serving, ~ c.clean, call[t].at \notin Engaged,
         Resid(dm)[o] # 0, ~ down \/ ~ Bare(o),
         \A p \in OpnCBs \ {o} : \A r \in ReqCBs : Of(dm')[r] = p <=> Of(dm)[r] = p,
         Aborts(dm') = Aborts(dm), Opened(dm') = Opened(dm), UNCHANGED down
  PROVE  IInv'
  <1>1. /\ AbortBy(dm') = AbortBy(dm) /\ AbortCnt(dm') = AbortCnt(dm) /\ AbortSem(dm') = AbortSem(dm)
        /\ Resid(dm') = Resid(dm) /\ dm'.FreeOpnCB = dm.FreeOpnCB
    BY DEF Aborts, Opened
  <1>2. c.at \notin Closing /\ c.at \notin Opening /\ c.at # "cleanup"
    BY DEF Serving, Closing, Opening
  <1>3. Closers'[o] = {} /\ Openers'[o] = {}
    BY <1>2, Moved, OpenIs DEF IInv, Types
  <1>4. Fine(o)'
    <2>1. WhenFree(o)'
      BY <1>1, OpenIs DEF WhenFree
    <2>2. WhenOpened(o)' /\ WhenClosed(o)'
      BY <1>3 DEF WhenOpened, WhenClosed
    <2>3. WhenNotClosed(o)'
      BY <1>1, OpenIs DEF WhenNotClosed
    <2> QED
      BY <2>1, <2>2, <2>3 DEF Fine
  <1>5. down' \in BOOLEAN /\ (~ down' => Once(dm'.FreeOpnCB))
    BY <1>1 DEF IInv, Types
  <1> QED
    BY <1>1, <1>2, <1>4, <1>5, Settled

(* What a task that comes back from the driver does to the count. *)
Notified(m, o) ==
  /\ AbortBy(m) = AbortBy(dm) /\ Opened(m) = Opened(dm)
  /\ AbortBy(dm)[o] = None => AbortCnt(m) = AbortCnt(dm) /\ AbortSem(m) = AbortSem(dm)
  /\ AbortBy(dm)[o] # None =>
       LET left == AbortCnt(dm)[o] - 1
       IN  /\ AbortCnt(m) = [AbortCnt(dm) EXCEPT ![o] = left]
           /\ AbortSem(m) = [AbortSem(dm) EXCEPT ![o] = IF left = 0 THEN 1 ELSE @]

LEMMA LeaveKeeps ==
  ASSUME IInv, Typed(dm'), Serve', NEW t \in Tasks, NEW c, IsCall(c), Moves(t, c), NEW o \in OpnCBs,
         t \in Inside[o], c.at \notin Engaged \cup {"cleanup"}, c.clean => "end" \in May[t],
         \A p \in OpnCBs \ {o} : \A r \in ReqCBs : Of(dm')[r] = p <=> Of(dm)[r] = p,
         Notified(dm', o), UNCHANGED down
  PROVE  IInv'
  <1>1. Fine(o) /\ Types /\ Serve
    BY DEF IInv
  <1>2. ~ Bare(o)
    BY <1>1, BareIs
  <1>3. AbortBy(dm') = AbortBy(dm) /\ Resid(dm') = Resid(dm) /\ dm'.FreeOpnCB = dm.FreeOpnCB
    BY DEF Notified, Opened
  <1>4. o \notin ToSet(dm.FreeOpnCB) /\ Openers[o] = {}
    BY <1>1, <1>2 DEF Fine, WhenFree, WhenOpened
  <1>5. call[t].at \in Serving /\ call[t].o = o
    BY DEF Inside
  <1>6. call[t].at \notin Closing /\ c.at \notin Serving /\ c.at \notin Closing /\ c.at \notin Opening
    BY <1>5 DEF Serving, Closing, Engaged
  <1>7. /\ Inside'[o] = Inside[o] \ {t} /\ Openers'[o] = {} /\ Closers'[o] = Closers[o]
        /\ \A u \in Tasks \ {t} : call'[u] = call[u]
    <2>1. /\ \A u \in Tasks \ {t} : call'[u] = call[u]
          /\ Inside'[o] = (Inside[o] \ {t}) \cup {u \in {t} : c.at \in Serving /\ c.o = o}
          /\ Closers'[o] = (Closers[o] \ {t}) \cup {u \in {t} : c.at \in Closing /\ c.o = o}
          /\ Openers'[o] = (Openers[o] \ {t}) \cup {u \in {t} : c.at \in Opening /\ c.o = o}
      BY <1>1, Moved DEF Types
    <2>2. t \notin Closers[o]
      BY <1>6 DEF Closers
    <2> QED
      BY <1>4, <1>6, <2>1, <2>2
  <1>8. WhenClosed(o)'
    <2> SUFFICES ASSUME NEW k \in Closers[o] PROVE WhenClosed(o)'
      BY <1>7 DEF WhenClosed
    <2>1. k \in Tasks /\ k # t /\ call'[k] = call[k] /\ call[k].at \in Closing
      BY <1>6, <1>7 DEF Closers
    <2>2. /\ Closers[o] = {k} /\ Resid(dm)[o] = 0
          /\ call[k].at = "abort" => AbortBy(dm)[o] = None /\ AbortSem(dm)[o] = 0
          /\ call[k].at \in {"aborted", "semwait"} =>
               /\ AbortBy(dm)[o] = k /\ AbortCnt(dm)[o] = Cardinality(Inside[o])
               /\ AbortCnt(dm)[o] > 0 => AbortSem(dm)[o] = 0
          /\ call[k].at \notin {"drain", "drainfn", "close", "closed", "closefn"}
      BY <1>1, <1>2 DEF Fine, WhenClosed
    <2>3. call[k].at \in {"abort", "aborted", "semwait"}
      BY <2>1, <2>2 DEF Closing
    <2>4. IsFiniteSet(Inside[o]) /\ Cardinality(Inside[o]) \in Nat
          /\ Cardinality(Inside[o]) > 0 /\ Cardinality(Inside[o] \ {t}) = Cardinality(Inside[o]) - 1
      <3>1. Inside[o] \in SUBSET Tasks
        BY DEF Inside
      <3>2. IsFiniteSet(Inside[o])
        BY <3>1, FS_Subset, DeviceAssumption
      <3>3. Cardinality(Inside[o] \ {t}) = Cardinality(Inside[o]) - 1
        BY <3>2, FS_RemoveElement
      <3>4. Cardinality(Inside[o]) \in Nat /\ Cardinality(Inside[o]) # 0
        BY <3>2, FS_CardinalityType, FS_EmptySet
      <3> QED
        BY <3>2, <3>3, <3>4
    <2>5. ASSUME call[k].at = "abort" PROVE AbortBy(dm')[o] = None /\ AbortSem(dm')[o] = 0
      BY <2>2, <2>5, <1>3 DEF Notified
    <2>6. ASSUME call[k].at \in {"aborted", "semwait"}
          PROVE  /\ AbortBy(dm')[o] = k /\ AbortCnt(dm')[o] = Cardinality(Inside'[o])
                 /\ AbortCnt(dm')[o] > 0 => AbortSem(dm')[o] = 0
                 /\ AbortCnt(dm')[o] = 0 => AbortSem(dm')[o] = 1
      <3>1. AbortBy(dm)[o] # None
        BY <2>1, <2>2, <2>6, NoneApart
      <3> DEFINE left == AbortCnt(dm)[o] - 1
      <3>2. /\ AbortCnt(dm') = [AbortCnt(dm) EXCEPT ![o] = left]
            /\ AbortSem(dm') = [AbortSem(dm) EXCEPT ![o] = IF left = 0 THEN 1 ELSE @]
        BY <3>1 DEF Notified
      <3>3. /\ AbortCnt(dm) \in [OpnCBs -> Int] /\ AbortSem(dm) \in [OpnCBs -> {0, 1}]
        BY <1>1 DEF Types, Typed
      <3> HIDE DEF left
      <3>4. AbortCnt(dm')[o] = left /\ AbortSem(dm')[o] = (IF left = 0 THEN 1 ELSE AbortSem(dm)[o])
        BY <3>2, <3>3
      <3>5. left = Cardinality(Inside[o] \ {t}) /\ left \in Int
        BY <2>2, <2>4, <2>6 DEF left
      <3>6. AbortSem(dm)[o] = 0
        BY <2>2, <2>4, <2>6
      <3> QED
        BY <1>3, <1>7, <2>2, <2>6, <3>4, <3>5, <3>6
    <2> QED
      BY <1>3, <1>7, <2>1, <2>2, <2>3, <2>5, <2>6 DEF WhenClosed
  <1>9. WhenNotClosed(o)'
    BY <1>1, <1>3, <1>7 DEF Fine, WhenNotClosed, Notified
  <1>10. Fine(o)'
    BY <1>3, <1>4, <1>7, <1>8, <1>9 DEF Fine, WhenFree, WhenOpened
  <1>11. \A p \in OpnCBs \ {o} :
           AbortCnt(dm')[p] = AbortCnt(dm)[p] /\ AbortSem(dm')[p] = AbortSem(dm)[p]
    BY <1>1 DEF Notified, Types, Typed
  <1>12. down' \in BOOLEAN /\ (~ down' => Once(dm'.FreeOpnCB))
    BY <1>3 DEF IInv, Types
  <1> QED
    BY <1>3, <1>5, <1>6, <1>10, <1>11, <1>12, Settled DEF Engaged

(* Requests: knl_request, tk_wai_dev and what comes of them. *)
LEMMA RequestKeeps ==
  ASSUME IInv, ~ Mixed, NEW t \in Tasks, NEW o \in OpnCBs, NEW need, NEW sync,
         knl_request(t, o, need, sync)
  PROVE  IInv'
  <1> DEFINE r == Head(dm.FreeReqCB)
             c == [NoCall EXCEPT !.at = "execfn", !.o = o, !.sync = sync, !.list = <<r>>]
  <1>1. /\ call[t] = NoCall /\ ~ down /\ dm.opncb[o].resid # 0 /\ dm.FreeReqCB # <<>>
        /\ dm.opncb[o].waireqlst = <<>> /\ dm' = newReqCB(dm, o, t) /\ Moves(t, c) /\ UNCHANGED down
    BY DEF knl_request, Starts
  <1>2. Types /\ Serve /\ Typed(dm) /\ Fields(dm)
    BY DEF IInv, Types, Typed
  <1>3. dm.FreeReqCB \in Seq(ReqCBs) /\ r \in ReqCBs
    BY <1>1, <1>2 DEF Typed
  <1>4. /\ Of(dm') = [Of(dm) EXCEPT ![r] = o] /\ By(dm') = [By(dm) EXCEPT ![r] = t]
        /\ Que(dm') = [Que(dm) EXCEPT ![o] = Append(@, r)] /\ dm'.FreeReqCB = Tail(dm.FreeReqCB)
        /\ Many(dm') = Many(dm) /\ Aborts(dm') = Aborts(dm) /\ Opened(dm') = Opened(dm)
    BY <1>1, <1>2, <1>3, NewReqIs
  <1>5. /\ IsCall(c) /\ c.at = "execfn" /\ c.o = o /\ c.list = <<r>> /\ c.any = FALSE /\ c.clean = FALSE
    BY <1>3 DEF NoCall, IsCall, Call
  <1>6. Typed(dm')
    BY <1>1, <1>2, RequestTyped
  <1> HIDE DEF c
  <1>7. Places' /\ Of(dm)[r] = None
    BY <1>1, <1>2, <1>4, NewPlaces
  <1>8. Serve'
    <2>1. ToSet(c.list) = {r} /\ Len(c.list) = 1 /\ c.list # <<>>
      BY <1>5 DEF ToSet
    <2>2. Many(dm)[o] = <<>>
      BY <1>1 DEF Many
    <2>3. "execfn" \in Serving /\ NoCall.at \notin Serving
      BY NoCalling DEF Serving, Engaged
    <2>4. \A x \in ReqCBs : /\ Of(dm')[x] = (IF x \in {r} THEN o ELSE Of(dm)[x])
                            /\ By(dm')[x] = (IF x \in {r} THEN t ELSE By(dm)[x])
      BY <1>2, <1>4 DEF Typed
    <2>5. \A x \in {r} : Of(dm)[x] = None \/ By(dm)[x] = None
      BY <1>7
    <2> HIDE DEF r
    <2> QED
      BY <1>1, <1>2, <1>4, <1>5, <1>7, <2>1, <2>2, <2>3, <2>4, <2>5, Enters
  <1>9. \A p \in OpnCBs \ {o} : \A x \in ReqCBs : Of(dm')[x] = p <=> Of(dm)[x] = p
    BY <1>2, <1>4, <1>7, NoneApart DEF Typed
  <1>10. Resid(dm)[o] # 0 /\ c.at \in Serving /\ call[t].at \notin Engaged /\ ~ c.clean
    BY <1>1, <1>5, NoCalling DEF Resid, Serving
  <1> QED
    BY <1>1, <1>4, <1>5, <1>6, <1>8, <1>9, <1>10, EnterKeeps

LEMMA WaitAnyKeeps ==
  ASSUME IInv, ~ Mixed, NEW t \in Tasks, NEW o \in OpnCBs, WaitAny(t, o)
  PROVE  IInv'
  <1> DEFINE q == dm.opncb[o].requestq
             c == [NoCall EXCEPT !.at = "waitfn", !.o = o, !.list = q, !.any = TRUE]
             m == Marked(dm, ToSet(q), t)
  <1>1. /\ call[t] = NoCall /\ ~ down /\ dm.opncb[o].resid # 0 /\ dm.opncb[o].waireqlst = <<>>
        /\ q # <<>> /\ Busy(o) = {} /\ dm' = [m EXCEPT !.opncb[o].waireqlst = q]
        /\ Moves(t, c) /\ UNCHANGED down
    BY DEF WaitAny, Starts
  <1>2. Types /\ Serve /\ Typed(dm) /\ Fields(dm)
    BY DEF IInv, Types, Typed
  <1>3. q = Que(dm)[o] /\ q \in Seq(ReqCBs) /\ Many(dm)[o] = <<>> /\ Resid(dm)[o] # 0
    BY <1>1, <1>2 DEF Typed, Que, Many, Resid
  <1>4. /\ IsCall(c) /\ c.at = "waitfn" /\ c.o = o /\ c.list = q /\ c.any = TRUE /\ c.clean = FALSE
    BY <1>3 DEF NoCall, IsCall, Call
  <1> HIDE DEF c, q
  <1>5. /\ Fields(m) /\ Of(m) = Of(dm) /\ Que(m) = Que(dm) /\ m.FreeReqCB = dm.FreeReqCB
        /\ By(m) = [r \in ReqCBs |-> IF r \in ToSet(q) THEN t ELSE By(dm)[r]]
        /\ Many(m) = Many(dm) /\ Aborts(m) = Aborts(dm) /\ Opened(m) = Opened(dm)
        /\ Typed(m)
    BY <1>2, MarkedIs, RequestTyped
  <1> HIDE DEF m
  <1>6. /\ Fields(dm') /\ dm'.reqcb = m.reqcb /\ dm'.FreeReqCB = m.FreeReqCB
        /\ dm'.FreeOpnCB = m.FreeOpnCB /\ dm'.resq = m.resq
        /\ \A p \in OpnCBs \ {o} : dm'.opncb[p] = m.opncb[p]
        /\ dm'.opncb[o] = [m.opncb[o] EXCEPT !.waireqlst = q]
    BY <1>1, <1>5 DEF Fields
  <1>7. /\ dm'.opncb[o].waireqlst = q /\ dm'.opncb[o].requestq = m.opncb[o].requestq
        /\ dm'.opncb[o].resid = m.opncb[o].resid /\ dm'.opncb[o].abort_tskid = m.opncb[o].abort_tskid
        /\ dm'.opncb[o].abort_cnt = m.opncb[o].abort_cnt /\ dm'.opncb[o].abort_sem = m.opncb[o].abort_sem
    BY <1>5, <1>6 DEF Fields
  <1>8. /\ Of(dm') = Of(m) /\ By(dm') = By(m) /\ Que(dm') = Que(m)
        /\ Many(dm') = [Many(m) EXCEPT ![o] = q] /\ Resid(dm') = Resid(m) /\ AbortBy(dm') = AbortBy(m)
        /\ AbortCnt(dm') = AbortCnt(m) /\ AbortSem(dm') = AbortSem(m)
    <2>1. /\ Of(dm') = Of(m) /\ By(dm') = By(m)
          /\ Que(dm') = [Que(m) EXCEPT ![o] = dm'.opncb[o].requestq]
          /\ Many(dm') = [Many(m) EXCEPT ![o] = dm'.opncb[o].waireqlst]
          /\ Resid(dm') = [Resid(m) EXCEPT ![o] = dm'.opncb[o].resid]
          /\ AbortBy(dm') = [AbortBy(m) EXCEPT ![o] = dm'.opncb[o].abort_tskid]
          /\ AbortCnt(dm') = [AbortCnt(m) EXCEPT ![o] = dm'.opncb[o].abort_cnt]
          /\ AbortSem(dm') = [AbortSem(m) EXCEPT ![o] = dm'.opncb[o].abort_sem]
      <3>1. \A r \in ReqCBs : dm'.reqcb[r].opncb = m.reqcb[r].opncb /\ dm'.reqcb[r].tskid = m.reqcb[r].tskid
        BY <1>6
      <3>2. Fields(m) /\ Fields(dm')
        BY <1>5, <1>6
      <3>3. \A p \in OpnCBs \ {o} : dm'.opncb[p] = m.opncb[p]
        BY <1>6
      <3> QED
        BY <3>1, <3>2, <3>3, DescriptorIs
    <2>2. /\ Que(m)[o] = m.opncb[o].requestq /\ Resid(m)[o] = m.opncb[o].resid
          /\ AbortBy(m)[o] = m.opncb[o].abort_tskid /\ AbortCnt(m)[o] = m.opncb[o].abort_cnt
          /\ AbortSem(m)[o] = m.opncb[o].abort_sem
      BY DEF Que, Resid, AbortBy, AbortCnt, AbortSem
    <2>3. /\ Que(m) \in [OpnCBs -> Seq(ReqCBs)] /\ Resid(m) \in [OpnCBs -> {0, 1}]
          /\ AbortBy(m) \in [OpnCBs -> Tasks \cup {None}] /\ AbortCnt(m) \in [OpnCBs -> Int]
          /\ AbortSem(m) \in [OpnCBs -> {0, 1}]
      BY <1>5 DEF Typed
    <2> QED
      BY <1>7, <2>1, <2>2, <2>3
  <1>9. Typed(dm')
    BY <1>3, <1>5, <1>6, <1>8 DEF Typed
  <1>10. \A r \in ToSet(q) : r \in ReqCBs /\ Of(dm)[r] = o /\ By(dm)[r] = None
    <2>1. \A r \in ToSet(q) : r \in ReqCBs
      BY <1>3 DEF ToSet
    <2>2. \A r \in ToSet(q) : Of(dm)[r] = o
      BY <1>2, <1>3, <2>1 DEF Serve, Places
    <2>3. \A r \in ToSet(q) : dm.reqcb[r].tskid = None
      BY <1>1 DEF Busy, q
    <2> QED
      BY <2>1, <2>2, <2>3 DEF By
  <1>11. Inside[o] = {}
    <2> SUFFICES ASSUME NEW u \in Inside[o] PROVE FALSE
      OBVIOUS
    <2>1. u \in Tasks /\ call[u].list # <<>> /\ \A r \in ToSet(call[u].list) : Of(dm)[r] = o /\ By(dm)[r] = u
      BY <1>2 DEF Serve, Held, Inside
    <2>2. call[u].list \in Seq(ReqCBs)
      BY <1>2, <2>1 DEF Types, Called, IsCall
    <2>3. Head(call[u].list) \in ReqCBs /\ Head(call[u].list) \in ToSet(call[u].list)
      BY <2>1, <2>2, HeadHolds
    <2>4. Head(call[u].list) \in ToSet(q)
      BY <1>2, <1>3, <2>1, <2>3 DEF Serve, Places
    <2> QED
      BY <1>10, <2>1, <2>3, <2>4, NoneApart
  <1>12. Places'
    BY <1>2, <1>5, <1>6, <1>8 DEF Serve, Places
  <1>13. Serve'
    <2>1. "waitfn" \in Serving /\ NoCall.at \notin Serving
      BY NoCalling DEF Serving, Engaged
    <2>2. \A x \in ReqCBs : /\ Of(dm')[x] = (IF x \in ToSet(q) THEN o ELSE Of(dm)[x])
                            /\ By(dm')[x] = (IF x \in ToSet(q) THEN t ELSE By(dm)[x])
      BY <1>5, <1>8, <1>10
    <2>3. Many(dm') = [Many(dm) EXCEPT ![o] = c.list]
      BY <1>4, <1>5, <1>8
    <2> QED
      BY <1>1, <1>2, <1>3, <1>4, <1>10, <1>11, <1>12, <2>1, <2>2, <2>3, Enters
  <1>14. Aborts(dm') = Aborts(dm) /\ Opened(dm') = Opened(dm)
    BY <1>5, <1>6, <1>8 DEF Aborts, Opened
  <1>15. c.at \in Serving /\ call[t].at \notin Engaged /\ ~ c.clean
    BY <1>1, <1>4, NoCalling DEF Serving
  <1>16. \A p \in OpnCBs \ {o} : \A r \in ReqCBs : Of(dm')[r] = p <=> Of(dm)[r] = p
    BY <1>5, <1>8
  <1> QED
    BY <1>1, <1>3, <1>4, <1>9, <1>13, <1>14, <1>15, <1>16, EnterKeeps

(* A step that writes what nobody looks at here. *)
LEMMA Unseen ==
  ASSUME NEW m, Typed(m), NEW n, Fields(n), NEW o \in OpnCBs,
         \A p \in OpnCBs \ {o} : n.opncb[p] = m.opncb[p],
         /\ n.opncb[o].requestq = m.opncb[o].requestq /\ n.opncb[o].waireqlst = m.opncb[o].waireqlst
         /\ n.opncb[o].resid = m.opncb[o].resid /\ n.opncb[o].abort_tskid = m.opncb[o].abort_tskid
         /\ n.opncb[o].abort_cnt = m.opncb[o].abort_cnt /\ n.opncb[o].abort_sem = m.opncb[o].abort_sem,
         \A r \in ReqCBs : n.reqcb[r].opncb = m.reqcb[r].opncb /\ n.reqcb[r].tskid = m.reqcb[r].tskid,
         n.FreeReqCB = m.FreeReqCB, n.FreeOpnCB = m.FreeOpnCB, n.resq = m.resq
  PROVE  /\ Typed(n) /\ Requests(n) = Requests(m) /\ Many(n) = Many(m) /\ Aborts(n) = Aborts(m)
         /\ Opened(n) = Opened(m)
  <1>1. \A p \in OpnCBs :
          /\ n.opncb[p].requestq = m.opncb[p].requestq /\ n.opncb[p].waireqlst = m.opncb[p].waireqlst
          /\ n.opncb[p].resid = m.opncb[p].resid /\ n.opncb[p].abort_tskid = m.opncb[p].abort_tskid
          /\ n.opncb[p].abort_cnt = m.opncb[p].abort_cnt /\ n.opncb[p].abort_sem = m.opncb[p].abort_sem
    OBVIOUS
  <1>2. Of(n) = Of(m) /\ By(n) = By(m)
    BY DEF Of, By
  <1>3. Que(n) = Que(m) /\ Many(n) = Many(m) /\ Resid(n) = Resid(m)
    BY <1>1 DEF Que, Many, Resid
  <1>4. AbortBy(n) = AbortBy(m) /\ AbortCnt(n) = AbortCnt(m) /\ AbortSem(n) = AbortSem(m)
    BY <1>1 DEF AbortBy, AbortCnt, AbortSem
  <1> QED
    BY <1>2, <1>3, <1>4 DEF Typed, Requests, Aborts, Opened

LEMMA WaitOneKeeps ==
  ASSUME IInv, NEW t \in Tasks, NEW o \in OpnCBs, NEW r \in ReqCBs, WaitOne(t, o, r)
  PROVE  IInv'
  <1> DEFINE c == [NoCall EXCEPT !.at = "waitfn", !.o = o, !.list = <<r>>]
             m == Marked(dm, {r}, t)
  <1>1. /\ call[t] = NoCall \/ call[t].at = "towait"
        /\ dm.opncb[o].resid # 0 /\ dm.opncb[o].waireqlst = <<>>
        /\ dm.reqcb[r].opncb = o /\ dm.reqcb[r].tskid = None
        /\ dm' = [m EXCEPT !.opncb[o].waitone = @ + 1] /\ Moves(t, c) /\ UNCHANGED down
    BY DEF WaitOne, Starts, At, MayWait, knl_check_reqid
  <1>2. Types /\ Serve /\ Typed(dm) /\ Fields(dm)
    BY DEF IInv, Types, Typed
  <1>3. Many(dm)[o] = <<>> /\ Resid(dm)[o] # 0 /\ Of(dm)[r] = o /\ By(dm)[r] = None
    BY <1>1 DEF Many, Resid, Of, By
  <1>4. /\ IsCall(c) /\ c.at = "waitfn" /\ c.o = o /\ c.list = <<r>> /\ c.any = FALSE /\ c.clean = FALSE
    BY DEF NoCall, IsCall, Call
  <1> HIDE DEF c
  <1>5. /\ Fields(m) /\ Of(m) = Of(dm) /\ Que(m) = Que(dm) /\ m.FreeReqCB = dm.FreeReqCB
        /\ By(m) = [x \in ReqCBs |-> IF x \in {r} THEN t ELSE By(dm)[x]]
        /\ Many(m) = Many(dm) /\ Aborts(m) = Aborts(dm) /\ Opened(m) = Opened(dm)
        /\ Typed(m)
    BY <1>2, MarkedIs, RequestTyped
  <1> HIDE DEF m
  <1>6. Typed(dm') /\ Requests(dm') = Requests(m) /\ Many(dm') = Many(m) /\ Aborts(dm') = Aborts(m)
        /\ Opened(dm') = Opened(m)
    <2>1. Fields(m) /\ dm' = [m EXCEPT !.opncb[o].waitone = @ + 1]
      BY <1>1, <1>5
    <2>2. /\ Fields(dm') /\ dm'.reqcb = m.reqcb /\ dm'.FreeReqCB = m.FreeReqCB
          /\ dm'.FreeOpnCB = m.FreeOpnCB /\ dm'.resq = m.resq
          /\ dm'.opncb = [m.opncb EXCEPT ![o].waitone = @ + 1]
      BY <2>1 DEF Fields
    <2>3. /\ \A p \in OpnCBs \ {o} : dm'.opncb[p] = m.opncb[p]
          /\ dm'.opncb[o].requestq = m.opncb[o].requestq /\ dm'.opncb[o].waireqlst = m.opncb[o].waireqlst
          /\ dm'.opncb[o].resid = m.opncb[o].resid /\ dm'.opncb[o].abort_tskid = m.opncb[o].abort_tskid
          /\ dm'.opncb[o].abort_cnt = m.opncb[o].abort_cnt /\ dm'.opncb[o].abort_sem = m.opncb[o].abort_sem
      BY <2>1, <2>2 DEF Fields
    <2> QED
      BY <1>5, <2>2, <2>3, Unseen
  <1>7. Of(dm') = Of(dm) /\ Que(dm') = Que(dm) /\ By(dm') = By(m) /\ dm'.FreeReqCB = dm.FreeReqCB
    BY <1>5, <1>6 DEF Requests
  <1>8. Places'
    BY <1>2, <1>7 DEF Serve, Places
  <1>9. Serve'
    <2>1. "waitfn" \in Serving /\ call[t].at \notin Serving
      BY <1>1, NoCalling DEF Serving, Engaged
    <2>2. \A x \in ReqCBs : /\ Of(dm')[x] = (IF x \in {r} THEN o ELSE Of(dm)[x])
                            /\ By(dm')[x] = (IF x \in {r} THEN t ELSE By(dm)[x])
      BY <1>3, <1>5, <1>7
    <2>3. ToSet(c.list) = {r} /\ Len(c.list) = 1 /\ c.list # <<>>
      BY <1>4 DEF ToSet
    <2>4. Many(dm') = Many(dm)
      BY <1>5, <1>6
    <2>5. \A x \in {r} : Of(dm)[x] = None \/ By(dm)[x] = None
      BY <1>3
    <2>6. ~ c.any /\ c.o = o /\ c.at \in Serving
      BY <1>4, <2>1
    <2>7. Types /\ Serve /\ IsCall(c) /\ Moves(t, c) /\ call[t].at \notin Serving /\ Many(dm)[o] = <<>>
      BY <1>1, <1>2, <1>3, <1>4, <2>1
    <2> QED
      BY <1>8, <2>2, <2>3, <2>4, <2>5, <2>6, <2>7, Enters
  <1>10. Aborts(dm') = Aborts(dm) /\ Opened(dm') = Opened(dm)
    BY <1>5, <1>6
  <1>11. c.at \in Serving /\ call[t].at \notin Engaged /\ ~ c.clean /\ ~ Bare(o)
    BY <1>1, <1>3, <1>4, NoCalling DEF Serving, Opening, Closing, Engaged, Bare
  <1>12. \A p \in OpnCBs \ {o} : \A x \in ReqCBs : Of(dm')[x] = p <=> Of(dm)[x] = p
    BY <1>7
  <1> QED
    BY <1>1, <1>3, <1>4, <1>6, <1>9, <1>10, <1>11, <1>12, EnterKeeps

(* A task in the driver. *)
LEMMA InsideIs ==
  ASSUME IInv, NEW t \in Tasks, call[t].at \in Serving
  PROVE  /\ call[t].o \in OpnCBs /\ t \in Inside[call[t].o] /\ IsCall(call[t])
         /\ call[t].list # <<>> /\ ToSet(call[t].list) \subseteq ReqCBs
         /\ \A r \in ToSet(call[t].list) : Of(dm)[r] = call[t].o /\ By(dm)[r] = t
         /\ call[t].at = "execfn" => ~ call[t].any /\ ToSet(call[t].list) = {call[t].list[1]}
  <1>1. Types /\ Serve
    BY DEF IInv
  <1>2. call[t].o \in OpnCBs /\ IsCall(call[t]) /\ call[t].list \in Seq(ReqCBs)
    BY <1>1 DEF Types, Called, IsCall
  <1>3. t \in Inside[call[t].o]
    BY <1>2 DEF Inside
  <1>4. /\ call[t].list # <<>> /\ (~ call[t].any => Len(call[t].list) = 1)
        /\ (call[t].any => call[t].at = "waitfn")
        /\ \A r \in ToSet(call[t].list) : Of(dm)[r] = call[t].o /\ By(dm)[r] = t
    BY <1>1, <1>2, <1>3 DEF Serve, Held
  <1>5. ToSet(call[t].list) \subseteq ReqCBs
    BY <1>2 DEF ToSet
  <1>6. ASSUME call[t].at = "execfn" PROVE ~ call[t].any /\ ToSet(call[t].list) = {call[t].list[1]}
    <2>1. ~ call[t].any
      BY <1>4, <1>6
    <2>2. Len(call[t].list) = 1
      BY <1>4, <2>1
    <2> QED
      BY <1>2, <2>1, <2>2 DEF ToSet
  <1> QED
    BY <1>2, <1>3, <1>4, <1>5, <1>6

(* What a task that comes back from the driver writes, before the request  *)
(* that is complete goes.                                                  *)
Back(m, t) ==
  LET o == call[t].o
  IN  /\ Typed(m) /\ Of(m) = Of(dm) /\ Que(m) = Que(dm) /\ m.FreeReqCB = dm.FreeReqCB
      /\ By(m) = [r \in ReqCBs |-> IF r \in ToSet(call[t].list) THEN None ELSE By(dm)[r]]
      /\ Many(m) = (IF call[t].any THEN [Many(dm) EXCEPT ![o] = <<>>] ELSE Many(dm))
      /\ Notified(m, o)

LEMMA BackKeeps ==
  ASSUME IInv, NEW t \in Tasks, call[t].at \in Serving, NEW m, Back(m, t), UNCHANGED down,
         NEW c, IsCall(c), Moves(t, c), c.at \notin Engaged \cup {"cleanup"}, c.clean => "end" \in May[t],
         dm' = m \/ \E r \in ToSet(call[t].list) : dm' = delReqCB(m, r)
  PROVE  IInv'
  <1> DEFINE o == call[t].o
             L == ToSet(call[t].list)
  <1>1. /\ o \in OpnCBs /\ t \in Inside[o] /\ L \subseteq ReqCBs
        /\ \A r \in L : Of(dm)[r] = o /\ By(dm)[r] = t
    BY InsideIs
  <1>2. /\ Typed(m) /\ Of(m) = Of(dm) /\ Que(m) = Que(dm) /\ m.FreeReqCB = dm.FreeReqCB
        /\ By(m) = [r \in ReqCBs |-> IF r \in L THEN None ELSE By(dm)[r]]
        /\ Many(m) = (IF call[t].any THEN [Many(dm) EXCEPT ![o] = <<>>] ELSE Many(dm))
        /\ Notified(m, o)
    BY DEF Back
  <1> HIDE DEF o, L
  <1>3. /\ Typed(dm') /\ By(dm') = By(m) /\ Many(dm') = Many(m) /\ Notified(dm', o)
        /\ \/ Of(dm') = Of(dm) /\ Que(dm') = Que(dm) /\ dm'.FreeReqCB = dm.FreeReqCB
           \/ \E r \in L : /\ Of(dm') = [Of(dm) EXCEPT ![r] = None]
                           /\ Que(dm') = [Que(dm) EXCEPT ![o] = QueRemove(@, r)]
                           /\ dm'.FreeReqCB = Append(dm.FreeReqCB, r)
    <2>1. CASE dm' = m
      BY <1>2, <2>1
    <2>2. ASSUME NEW r \in L, dm' = delReqCB(m, r)
          PROVE  /\ Typed(dm') /\ By(dm') = By(m) /\ Many(dm') = Many(m) /\ Notified(dm', o)
                 /\ Of(dm') = [Of(dm) EXCEPT ![r] = None]
                 /\ Que(dm') = [Que(dm) EXCEPT ![o] = QueRemove(@, r)]
                 /\ dm'.FreeReqCB = Append(dm.FreeReqCB, r)
      <3>1. r \in ReqCBs /\ Of(m)[r] = o /\ Fields(m)
        BY <1>1, <1>2 DEF Typed
      <3>2. /\ Of(dm') = [Of(m) EXCEPT ![r] = None] /\ By(dm') = By(m)
            /\ Que(dm') = [Que(m) EXCEPT ![o] = QueRemove(@, r)]
            /\ dm'.FreeReqCB = Append(m.FreeReqCB, r)
            /\ Many(dm') = Many(m) /\ Aborts(dm') = Aborts(m) /\ Opened(dm') = Opened(m)
        BY <1>1, <2>2, <3>1, DelReqIs
      <3>3. Typed(dm')
        BY <1>1, <1>2, <2>2, <3>1, RequestTyped
      <3>4. Notified(dm', o)
        BY <1>2, <3>2 DEF Notified, Aborts
      <3> QED
        BY <1>2, <3>2, <3>3, <3>4
    <2> QED
      BY <2>1, <2>2 DEF L
  <1>4. \A r \in ReqCBs : By(dm')[r] = (IF r \in L THEN None ELSE By(dm)[r])
    BY <1>2, <1>3
  <1>5. Types /\ Serve
    BY DEF IInv
  <1>6. c.at \notin Serving
    BY DEF Engaged
  <1>7. Many(dm') = (IF call[t].any THEN [Many(dm) EXCEPT ![o] = <<>>] ELSE Many(dm))
    BY <1>2, <1>3
  <1>8. Serve'
    <2>1. L = ToSet(call[t].list)
      BY DEF L
    <2>2. \/ Of(dm') = Of(dm) /\ Que(dm') = Que(dm) /\ dm'.FreeReqCB = dm.FreeReqCB
          \/ \E r \in L : /\ Of(dm') = [Of(dm) EXCEPT ![r] = None]
                          /\ Que(dm') = [Que(dm) EXCEPT ![o] = QueRemove(@, r)]
                          /\ dm'.FreeReqCB = Append(dm.FreeReqCB, r)
      BY <1>3
    <2> QED
      BY <1>1, <1>4, <1>5, <1>6, <1>7, <2>1, <2>2, Leaves
  <1>9. \A p \in OpnCBs \ {o} : \A r \in ReqCBs : Of(dm')[r] = p <=> Of(dm)[r] = p
    <2>1. Of(dm) \in [ReqCBs -> OpnCBs \cup {None}]
      BY <1>5 DEF Types, Typed
    <2> QED
      BY <1>1, <1>3, <2>1, NoneApart
  <1> QED
    BY <1>1, <1>3, <1>8, <1>9, LeaveKeeps

LEMMA NotifyBack ==
  ASSUME Types, NEW m, Typed(m), NEW o \in OpnCBs, Aborts(m) = Aborts(dm), Opened(m) = Opened(dm)
  PROVE  LET n == Notify(m, o)
         IN  /\ Typed(n) /\ Requests(n) = Requests(m) /\ Many(n) = Many(m) /\ Notified(n, o)
  <1> DEFINE n == Notify(m, o)
  <1>1. AbortBy(m) = AbortBy(dm) /\ AbortCnt(m) = AbortCnt(dm) /\ AbortSem(m) = AbortSem(dm)
    BY DEF Aborts
  <1>2. /\ Requests(n) = Requests(m) /\ Many(n) = Many(m) /\ AbortBy(n) = AbortBy(m) /\ Opened(n) = Opened(m)
        /\ AbortBy(m)[o] = None => AbortCnt(n) = AbortCnt(m) /\ AbortSem(n) = AbortSem(m)
        /\ AbortBy(m)[o] # None =>
             LET left == AbortCnt(m)[o] - 1
             IN  /\ AbortCnt(n) = [AbortCnt(m) EXCEPT ![o] = left]
                 /\ AbortSem(n) = [AbortSem(m) EXCEPT ![o] = IF left = 0 THEN 1 ELSE @]
    BY NotifyIs DEF Typed
  <1>3. Typed(n)
    BY RequestTyped
  <1> HIDE DEF n
  <1>4. Notified(n, o)
    BY <1>1, <1>2 DEF Notified
  <1> QED
    BY <1>2, <1>3, <1>4 DEF n

LEMMA RequestBack ==
  ASSUME IInv, NEW t \in Tasks, RequestEnds(t) \/ RequestFails(t)
  PROVE  IInv'
  <1> DEFINE o == call[t].o
             r == call[t].list[1]
             m == Marked(dm, {r}, None)
             n == Notify(m, o)
  <1>1. call[t].at = "execfn" /\ UNCHANGED down
    BY DEF RequestEnds, RequestFails, At
  <1>2. /\ Types /\ Typed(dm) /\ Fields(dm) /\ call[t].at \in Serving
    BY <1>1 DEF IInv, Types, Typed, Serving
  <1>3. /\ o \in OpnCBs /\ IsCall(call[t]) /\ ~ call[t].any
        /\ ToSet(call[t].list) = {r} /\ r \in ReqCBs
    BY <1>1, <1>2, InsideIs
  <1>4. /\ Of(m) = Of(dm) /\ Que(m) = Que(dm) /\ m.FreeReqCB = dm.FreeReqCB
        /\ By(m) = [x \in ReqCBs |-> IF x \in {r} THEN None ELSE By(dm)[x]]
        /\ Many(m) = Many(dm) /\ Aborts(m) = Aborts(dm) /\ Opened(m) = Opened(dm) /\ Typed(m)
    BY <1>2, MarkedIs, RequestTyped
  <1>5. Returned(t) = n
    <2>1. [dm EXCEPT !.reqcb[r].tskid = None] = m
      <3>1. DOMAIN dm.reqcb = ReqCBs
        BY <1>2 DEF Fields
      <3>2. [dm.reqcb EXCEPT ![r].tskid = None] =
              [x \in ReqCBs |-> IF x \in {r} THEN [dm.reqcb[x] EXCEPT !.tskid = None] ELSE dm.reqcb[x]]
        BY <1>3, <3>1
      <3> HIDE DEF r
      <3> QED
        BY <3>1, <3>2, Zenon DEF Marked
    <2> HIDE DEF m
    <2> QED
      BY <2>1 DEF Returned
  <1> HIDE DEF m
  <1>6. /\ Typed(n) /\ Requests(n) = Requests(m) /\ Many(n) = Many(m) /\ Notified(n, o)
    BY <1>2, <1>3, <1>4, NotifyBack
  <1> HIDE DEF n
  <1>7. Back(n, t)
    BY <1>3, <1>4, <1>6 DEF Back, Requests
  <1>8. r \in ToSet(call[t].list)
    BY <1>3
  <1>9. dm' = n \/ \E x \in ToSet(call[t].list) : dm' = delReqCB(n, x)
    BY <1>5, <1>8 DEF RequestEnds, RequestFails
  <1>10. CASE Moves(t, NoCall)
    BY <1>2, <1>1, <1>7, <1>9, <1>10, NoCalling, BackKeeps
  <1>11. ASSUME Moves(t, [call[t] EXCEPT !.at = "towait"]) PROVE IInv'
    <2> DEFINE c == [call[t] EXCEPT !.at = "towait"]
    <2>1. IsCall(c) /\ c.at = "towait" /\ c.clean = call[t].clean
      BY CallIs
    <2>2. call[t].clean => "end" \in May[t]
      BY CallIs
    <2>3. c.at \notin Engaged \cup {"cleanup"}
      BY <2>1 DEF Engaged, Serving, Opening, Closing
    <2>4. Moves(t, c)
      BY <1>11
    <2> HIDE DEF c
    <2> QED
      BY <1>2, <1>1, <1>7, <1>9, <2>1, <2>2, <2>3, <2>4, BackKeeps
  <1> QED
    BY <1>10, <1>11 DEF RequestEnds, RequestFails, Ends

LEMMA WaitBack ==
  ASSUME IInv, NEW t \in Tasks, NEW done \in 0 .. Len(call[t].list), WaitEnds(t, done)
  PROVE  IInv'
  <1> DEFINE o == call[t].o
             list == call[t].list
             counted == IF call[t].any THEN [dm EXCEPT !.opncb[o].waireqlst = <<>>]
                        ELSE [dm EXCEPT !.opncb[o].waitone = @ - 1]
             n == Notify(counted, o)
             m == Marked(n, ToSet(list), None)
  <1>1. /\ call[t].at = "waitfn" /\ UNCHANGED down /\ Moves(t, NoCall)
        /\ dm' = IF done = 0 THEN m ELSE delReqCB(m, list[done])
    BY DEF WaitEnds, At, Ends
  <1>2. /\ Types /\ Typed(dm) /\ Fields(dm) /\ call[t].at \in Serving
    BY <1>1 DEF IInv, Types, Typed, Serving
  <1>3. o \in OpnCBs /\ list \in Seq(ReqCBs)
    BY <1>2, InsideIs DEF IsCall
  <1> HIDE DEF o
  <1>4. /\ Typed(counted) /\ Requests(counted) = Requests(dm)
        /\ Many(counted) = (IF call[t].any THEN [Many(dm) EXCEPT ![o] = <<>>] ELSE Many(dm))
        /\ Aborts(counted) = Aborts(dm) /\ Opened(counted) = Opened(dm)
    <2>1. ASSUME NEW x, x = [dm EXCEPT !.opncb[o].waireqlst = <<>>]
          PROVE  /\ Typed(x) /\ Requests(x) = Requests(dm) /\ Many(x) = [Many(dm) EXCEPT ![o] = <<>>]
                 /\ Aborts(x) = Aborts(dm) /\ Opened(x) = Opened(dm)
      <3>1. /\ Fields(x) /\ x.reqcb = dm.reqcb /\ x.FreeReqCB = dm.FreeReqCB
            /\ x.FreeOpnCB = dm.FreeOpnCB /\ x.resq = dm.resq
            /\ x.opncb = [dm.opncb EXCEPT ![o].waireqlst = <<>>]
        BY <1>2, <1>3, <2>1 DEF Fields
      <3>2. Requests(x) = Requests(dm)
        BY <1>2, <1>3, <3>1 DEF Fields, Requests, Of, By, Que
      <3>3. Many(x) = [Many(dm) EXCEPT ![o] = <<>>]
        BY <1>2, <1>3, <3>1 DEF Fields, Many
      <3>4. Aborts(x) = Aborts(dm)
        BY <1>2, <1>3, <3>1 DEF Fields, Aborts, AbortBy, AbortCnt, AbortSem
      <3>5. Opened(x) = Opened(dm)
        BY <1>2, <1>3, <3>1 DEF Fields, Opened, Resid
      <3>6. Many(x) \in [OpnCBs -> Seq(ReqCBs)]
        <4>1. Many(dm) \in [OpnCBs -> Seq(ReqCBs)] /\ <<>> \in Seq(ReqCBs)
          BY <1>2 DEF Typed
        <4> QED
          BY <3>3, <4>1
      <3>7. Typed(x)
        BY <1>2, <3>1, <3>2, <3>4, <3>5, <3>6 DEF Typed, Requests, Aborts, Opened
      <3> QED
        BY <3>2, <3>3, <3>4, <3>5, <3>7
    <2>2. ASSUME NEW x, x = [dm EXCEPT !.opncb[o].waitone = @ - 1]
          PROVE  /\ Typed(x) /\ Requests(x) = Requests(dm) /\ Many(x) = Many(dm)
                 /\ Aborts(x) = Aborts(dm) /\ Opened(x) = Opened(dm)
      <3>1. /\ Fields(x) /\ x.reqcb = dm.reqcb /\ x.FreeReqCB = dm.FreeReqCB
            /\ x.FreeOpnCB = dm.FreeOpnCB /\ x.resq = dm.resq
            /\ x.opncb = [dm.opncb EXCEPT ![o].waitone = @ - 1]
        BY <1>2, <1>3, <2>2 DEF Fields
      <3>2. /\ \A p \in OpnCBs \ {o} : x.opncb[p] = dm.opncb[p]
            /\ x.opncb[o].requestq = dm.opncb[o].requestq /\ x.opncb[o].waireqlst = dm.opncb[o].waireqlst
            /\ x.opncb[o].resid = dm.opncb[o].resid /\ x.opncb[o].abort_tskid = dm.opncb[o].abort_tskid
            /\ x.opncb[o].abort_cnt = dm.opncb[o].abort_cnt /\ x.opncb[o].abort_sem = dm.opncb[o].abort_sem
        BY <1>2, <1>3, <3>1 DEF Fields
      <3> QED
        BY <1>2, <1>3, <3>1, <3>2, Unseen
    <2>3. CASE call[t].any
      BY <2>1, <2>3
    <2>4. CASE ~ call[t].any
      BY <2>2, <2>4
    <2> QED
      BY <2>3, <2>4
  <1> HIDE DEF counted
  <1>5. Typed(n) /\ Requests(n) = Requests(counted) /\ Many(n) = Many(counted) /\ Notified(n, o)
    BY <1>2, <1>3, <1>4, NotifyBack
  <1> HIDE DEF n
  <1>6. /\ Of(m) = Of(n) /\ Que(m) = Que(n) /\ m.FreeReqCB = n.FreeReqCB
        /\ By(m) = [r \in ReqCBs |-> IF r \in ToSet(list) THEN None ELSE By(n)[r]]
        /\ Many(m) = Many(n) /\ Aborts(m) = Aborts(n) /\ Opened(m) = Opened(n) /\ Typed(m)
    <2>1. Fields(n)
      BY <1>5 DEF Typed
    <2> QED
      BY <1>5, <2>1, MarkedIs, RequestTyped
  <1> HIDE DEF m
  <1>7. Back(m, t)
    <2>1. Of(n) = Of(dm) /\ By(n) = By(dm) /\ Que(n) = Que(dm) /\ n.FreeReqCB = dm.FreeReqCB
      BY <1>4, <1>5 DEF Requests
    <2>2. Notified(m, o)
      BY <1>5, <1>6 DEF Notified, Aborts
    <2> QED
      BY <1>4, <1>5, <1>6, <2>1, <2>2 DEF Back, o
  <1>8. dm' = m \/ \E r \in ToSet(call[t].list) : dm' = delReqCB(m, r)
    <2>1. done # 0 => list[done] \in ToSet(list)
      BY <1>3 DEF ToSet
    <2> QED
      BY <1>1, <2>1
  <1> QED
    BY <1>1, <1>2, <1>7, <1>8, NoCalling, BackKeeps

(* Opening: tk_opn_dev and what comes of it. *)
LEMMA OpenKeeps ==
  ASSUME IInv, NEW t \in Tasks, NEW n, NEW u, NEW omode, tk_opn_dev(t, n, u, omode),
         NEW o, o = Head(dm.FreeOpnCB)
  PROVE  IInv'
  <1>1. call[t] = NoCall /\ ~ down /\ dm.FreeOpnCB # <<>> /\ UNCHANGED down
    BY DEF tk_opn_dev, Starts
  <1>2. Types /\ Serve /\ Typed(dm) /\ Fields(dm) /\ dm.FreeOpnCB \in Seq(OpnCBs)
    BY DEF IInv, Types, Typed
  <1>3. PICK d \in searchDevCB(n) :
          \/ /\ dm' = newOpnCB(dm, d, u, omode)
             /\ \E where \in Opening : Moves(t, [NoCall EXCEPT !.o = o, !.at = where])
          \/ dm' = delOpnCB(newOpnCB(dm, d, u, omode), o, TRUE) /\ UNCHANGED call
    <2> DEFINE Where(d) == IF chkopen(dm, d, u) /\ ~ dm.devcb[d].ddev.openreq THEN "opened" ELSE "openfn"
    <2>1. \A d : Where(d) \in Opening
      BY DEF Opening
    <2> HIDE DEF Where
    <2>2. \E d \in searchDevCB(n) :
            \/ dm' = newOpnCB(dm, d, u, omode) /\ Moves(t, [NoCall EXCEPT !.o = o, !.at = Where(d)])
            \/ dm' = delOpnCB(newOpnCB(dm, d, u, omode), o, TRUE) /\ UNCHANGED call
      BY Zenon DEF tk_opn_dev, Where
    <2> QED
      BY <2>1, <2>2
  <1> DEFINE m == newOpnCB(dm, d, u, omode)
  <1>4. /\ Fields(m) /\ o \in OpnCBs /\ Of(m) = Of(dm) /\ By(m) = By(dm) /\ m.FreeReqCB = dm.FreeReqCB
        /\ Que(m) = [Que(dm) EXCEPT ![o] = <<>>] /\ Many(m) = [Many(dm) EXCEPT ![o] = <<>>]
        /\ AbortBy(m) = [AbortBy(dm) EXCEPT ![o] = None]
        /\ AbortCnt(m) = [AbortCnt(dm) EXCEPT ![o] = 0]
        /\ AbortSem(m) = [AbortSem(dm) EXCEPT ![o] = 0]
        /\ Resid(m) = [Resid(dm) EXCEPT ![o] = 0]
        /\ m.FreeOpnCB = Tail(dm.FreeOpnCB) /\ m.resq = Append(dm.resq, o)
    BY <1>1, <1>2, NewOpnIs
  <1>5. Typed(m)
    BY <1>1, <1>2, DescriptorTyped
  <1>6. /\ o \in ToSet(dm.FreeOpnCB) /\ Once(Tail(dm.FreeOpnCB))
        /\ ToSet(Tail(dm.FreeOpnCB)) = ToSet(dm.FreeOpnCB) \ {o}
    BY <1>1, <1>2, HeadHolds DEF IInv
  <1> HIDE DEF m
  <1>7. Fine(o) /\ Bare(o) /\ Resid(dm)[o] = 0 /\ Closers[o] = {} /\ Openers[o] = {} /\ AbortBy(dm)[o] = None
    BY <1>1, <1>4, <1>6 DEF IInv, Fine, WhenFree, WhenNotClosed
  <1>8. Requests(m) = Requests(dm) /\ Many(m) = Many(dm)
    <2>1. Que(dm)[o] = <<>> /\ Many(dm)[o] = <<>>
      BY <1>2, <1>4, <1>7, BareIs
    <2>2. DOMAIN Que(dm) = OpnCBs /\ DOMAIN Many(dm) = OpnCBs /\ Que(dm) = [p \in OpnCBs |-> Que(dm)[p]]
          /\ Many(dm) = [p \in OpnCBs |-> Many(dm)[p]]
      BY DEF Que, Many
    <2>3. Que(m) = Que(dm) /\ Many(m) = Many(dm)
      <3>1. Que(m) = [Que(dm) EXCEPT ![o] = <<>>] /\ Many(m) = [Many(dm) EXCEPT ![o] = <<>>]
        BY <1>4
      <3> QED
        BY <2>1, <2>2, <3>1
    <2> QED
      BY <1>4, <2>3 DEF Requests
  <1>9. ASSUME NEW c, IsCall(c), Moves(t, c), c.at \notin Serving, c.o = o \/ c.at \notin Engaged,
               c.at \notin Closing \cup {"cleanup"}, ~ c.clean, Typed(dm'), Requests(dm') = Requests(m),
               Many(dm') = Many(m), Aborts(dm') = Aborts(m), Resid(dm') = Resid(m),
               \/ dm'.FreeOpnCB = m.FreeOpnCB
               \/ dm'.FreeOpnCB = Append(m.FreeOpnCB, o) /\ c.at \notin Opening
        PROVE  IInv'
    <2>1. /\ call'[t] = c /\ \A v \in Tasks \ {t} : call'[v] = call[v]
          /\ \A p \in OpnCBs : Inside'[p] = Inside[p]
          /\ Closers'[o] = {} /\ Openers'[o] \subseteq {t} /\ (c.at \notin Opening => Openers'[o] = {})
      <3>1. call[t].at \notin Serving
        BY <1>1, NoCalling DEF Engaged
      <3>2. \A p \in OpnCBs : t \notin Inside[p]
        BY <3>1 DEF Inside
      <3>3. /\ call'[t] = c /\ \A v \in Tasks \ {t} : call'[v] = call[v]
            /\ \A p \in OpnCBs : Inside'[p] = (Inside[p] \ {t}) \cup {v \in {t} : c.at \in Serving /\ c.o = p}
            /\ Closers'[o] = (Closers[o] \ {t}) \cup {v \in {t} : c.at \in Closing /\ c.o = o}
            /\ Openers'[o] = (Openers[o] \ {t}) \cup {v \in {t} : c.at \in Opening /\ c.o = o}
        BY <1>2, <1>4, <1>9, Moved DEF Types
      <3>4. ASSUME NEW p \in OpnCBs PROVE Inside'[p] = Inside[p]
        <4>1. Inside'[p] = (Inside[p] \ {t}) \cup {v \in {t} : c.at \in Serving /\ c.o = p}
          BY <3>3
        <4>2. t \notin Inside[p] /\ c.at \notin Serving
          BY <1>9, <3>2
        <4> HIDE <1>9
        <4> QED
          BY <4>1, <4>2
      <3>5. Closers'[o] = {} /\ Openers'[o] \subseteq {t} /\ (c.at \notin Opening => Openers'[o] = {})
        BY <1>7, <1>9, <3>3
      <3> QED
        BY <3>3, <3>4, <3>5
    <2>2. Serve'
      <3>1. Inside' = Inside
        BY <2>1 DEF Inside
      <3>2. \A p \in OpnCBs : \A v \in Inside[p] : call'[v] = call[v]
        <4>1. \A p \in OpnCBs : \A v \in Inside[p] : v \in Tasks \ {t}
          BY <1>1, NoCalling DEF Inside, Engaged
        <4> QED
          BY <2>1, <4>1
      <3>3. Requests(dm') = Requests(dm) /\ Many(dm') = Many(dm)
        BY <1>8, <1>9
      <3> QED
        BY <1>2, <3>1, <3>2, <3>3, ServeSame
    <2>3. /\ AbortBy(dm') = [AbortBy(dm) EXCEPT ![o] = None] /\ Of(dm') = Of(dm)
          /\ AbortCnt(dm') = [AbortCnt(dm) EXCEPT ![o] = 0]
          /\ AbortSem(dm') = [AbortSem(dm) EXCEPT ![o] = 0]
          /\ Resid(dm') = [Resid(dm) EXCEPT ![o] = 0]
      BY <1>4, <1>9 DEF Aborts, Requests
    <2>4. /\ AbortBy(dm')[o] = None /\ AbortSem(dm')[o] = 0 /\ Resid(dm')[o] = 0
          /\ \A p \in OpnCBs \ {o} :
               /\ AbortBy(dm')[p] = AbortBy(dm)[p] /\ AbortCnt(dm')[p] = AbortCnt(dm)[p]
               /\ AbortSem(dm')[p] = AbortSem(dm)[p] /\ Resid(dm')[p] = Resid(dm)[p]
      BY <1>2, <1>4, <2>3 DEF Typed
    <2>5. /\ Once(dm'.FreeOpnCB) /\ ToSet(dm'.FreeOpnCB) \subseteq ToSet(dm.FreeOpnCB)
          /\ o \in ToSet(dm'.FreeOpnCB) => c.at \notin Opening
      <3>1. m.FreeOpnCB \in Seq(OpnCBs) /\ Once(m.FreeOpnCB) /\ ToSet(m.FreeOpnCB) = ToSet(dm.FreeOpnCB) \ {o}
        BY <1>4, <1>5, <1>6 DEF Typed
      <3>2. CASE dm'.FreeOpnCB = m.FreeOpnCB
        BY <3>1, <3>2
      <3>3. CASE dm'.FreeOpnCB = Append(m.FreeOpnCB, o) /\ c.at \notin Opening
        <4>1. /\ ToSet(Append(m.FreeOpnCB, o)) = ToSet(m.FreeOpnCB) \cup {o}
              /\ Once(m.FreeOpnCB) /\ o \notin ToSet(m.FreeOpnCB) => Once(Append(m.FreeOpnCB, o))
          <5>1. m.FreeOpnCB \in Seq(OpnCBs) /\ o \in OpnCBs
            BY <1>4, <3>1
          <5> QED
            BY <5>1, AppendHolds
        <4> QED
          BY <1>6, <3>1, <3>3, <4>1
      <3> QED
        BY <1>9, <3>2, <3>3
    <2>6. Bare(o)'
      BY <1>7, <2>3 DEF Bare
    <2>7. Fine(o)'
      <3>1. WhenFree(o)'
        BY <2>1, <2>4, <2>5, <2>6 DEF WhenFree
      <3>2. WhenOpened(o)'
        BY <2>1, <2>4, <2>6 DEF WhenOpened
      <3>3. WhenClosed(o)' /\ WhenNotClosed(o)'
        BY <2>1, <2>4 DEF WhenClosed, WhenNotClosed
      <3> QED
        BY <3>1, <3>2, <3>3 DEF Fine
    <2>8. call[t].at \notin Engaged /\ down' \in BOOLEAN
      BY <1>1, <1>2, NoCalling DEF Types
    <2> QED
      BY <1>1, <1>4, <1>9, <2>2, <2>3, <2>4, <2>5, <2>7, <2>8, Settled
  <1>10. ASSUME NEW where \in Opening, dm' = m, Moves(t, [NoCall EXCEPT !.o = o, !.at = where])
         PROVE  IInv'
    <2> DEFINE c == [NoCall EXCEPT !.o = o, !.at = where]
    <2>2. IsCall(c) /\ c.at = where /\ c.o = o /\ c.clean = FALSE
      BY <1>4 DEF IsCall, Call, NoCall
    <2>3. Moves(t, c)
      BY <1>10
    <2> HIDE DEF c
    <2>4. c.at \notin Serving /\ c.at \notin Closing \cup {"cleanup"}
      BY <2>2 DEF Opening, Serving, Closing
    <2> QED
      BY <1>5, <1>9, <1>10, <2>2, <2>3, <2>4
  <1>11. ASSUME dm' = delOpnCB(m, o, TRUE), UNCHANGED call PROVE IInv'
    <2>1. dm' = delOpnCB(m, o, TRUE) /\ UNCHANGED call
      BY <1>11
    <2>2. /\ Requests(dm') = Requests(m) /\ Many(dm') = Many(m) /\ Aborts(dm') = Aborts(m)
          /\ Resid(dm') = [Resid(m) EXCEPT ![o] = 0] /\ dm'.FreeOpnCB = Append(m.FreeOpnCB, o)
      <3>1. Fields(m) /\ o \in OpnCBs
        BY <1>4
      <3> DEFINE queue == Append(m.FreeOpnCB, o)
      <3>2. dm' = Deleted(m, o, queue)
        BY <2>1, DelOpnEither
      <3> HIDE DEF queue
      <3>3. /\ Requests(dm') = Requests(m) /\ Many(dm') = Many(m) /\ Aborts(dm') = Aborts(m)
            /\ Resid(dm') = [Resid(m) EXCEPT ![o] = 0] /\ dm'.FreeOpnCB = queue
        BY <3>1, <3>2, DelOpnIs
      <3> QED
        BY <3>3 DEF queue
    <2>3. Typed(dm')
      BY <1>4, <1>5, <2>1, DescriptorTyped
    <2>4. Resid(dm') = Resid(m)
      BY <1>2, <1>4, <2>2 DEF Typed
    <2>5. Moves(t, NoCall)
      BY <1>1, <2>1, CallIs
    <2>6. NoCall.at \notin Serving /\ NoCall.at \notin Closing \cup {"cleanup"} /\ NoCall.at \notin Opening
      BY NoCalling DEF Engaged
    <2> QED
      BY <1>9, <2>2, <2>3, <2>4, <2>5, <2>6, NoCalling
  <1> QED
    BY <1>3, <1>10, <1>11 DEF m

LEMMA OpenBack ==
  ASSUME IInv, NEW t \in Tasks, OpenEnds(t) \/ OpenFails(t), NEW o, o = call[t].o
  PROVE  IInv'
  <1>1. /\ call[t].at \in Opening /\ Moves(t, NoCall) /\ UNCHANGED down
        /\ dm' = [dm EXCEPT !.opncb[o].resid = 1] \/ dm' = delOpnCB(dm, o, TRUE)
    BY DEF OpenEnds, OpenFails, Opening, At, Ends
  <1>2. Types /\ Serve /\ Typed(dm) /\ Fields(dm)
    BY DEF IInv, Types, Typed
  <1>3. o \in OpnCBs /\ t \in Openers[o] /\ call[t].at \notin Serving
    <2>1. call[t].at \notin Serving
      BY <1>1 DEF Opening, Serving
    <2> QED
      BY <1>1, <1>2, <2>1 DEF Types, Openers
  <1>4. /\ Fine(o) /\ Bare(o)
        /\ ~ down => Closers[o] = {} /\ Openers[o] = {t} /\ o \notin ToSet(dm.FreeOpnCB)
    BY <1>3 DEF IInv, Fine, WhenOpened, WhenFree
  <1>5. /\ Typed(dm') /\ Requests(dm') = Requests(dm) /\ Many(dm') = Many(dm) /\ Aborts(dm') = Aborts(dm)
        /\ \A p \in OpnCBs \ {o} : Resid(dm')[p] = Resid(dm)[p]
        /\ \/ dm'.FreeOpnCB = dm.FreeOpnCB
           \/ dm'.FreeOpnCB = Append(dm.FreeOpnCB, o) /\ Resid(dm')[o] = 0
    <2>1. CASE dm' = [dm EXCEPT !.opncb[o].resid = 1]
      <3>1. /\ Fields(dm') /\ dm'.reqcb = dm.reqcb /\ dm'.FreeReqCB = dm.FreeReqCB
            /\ dm'.FreeOpnCB = dm.FreeOpnCB /\ dm'.resq = dm.resq
            /\ dm'.opncb = [dm.opncb EXCEPT ![o].resid = 1]
        BY <1>2, <1>3, <2>1 DEF Fields
      <3>2. Requests(dm') = Requests(dm)
        BY <1>2, <1>3, <3>1 DEF Fields, Requests, Of, By, Que
      <3>3. Many(dm') = Many(dm)
        BY <1>2, <1>3, <3>1 DEF Fields, Many
      <3>4. Aborts(dm') = Aborts(dm)
        BY <1>2, <1>3, <3>1 DEF Fields, Aborts, AbortBy, AbortCnt, AbortSem
      <3>5. Resid(dm') = [Resid(dm) EXCEPT ![o] = 1]
        BY <1>2, <1>3, <3>1 DEF Fields, Resid
      <3>6. Resid(dm') \in [OpnCBs -> {0, 1}]
        BY <1>2, <3>5 DEF Typed
      <3>7. Typed(dm')
        BY <1>2, <3>1, <3>2, <3>3, <3>4, <3>6 DEF Typed, Requests, Aborts
      <3> QED
        BY <3>1, <3>2, <3>3, <3>4, <3>5, <3>7
    <2>2. CASE dm' = delOpnCB(dm, o, TRUE)
      <3>1. Typed(dm')
        BY <1>2, <1>3, <2>2, DescriptorTyped
      <3>2. /\ Requests(dm') = Requests(dm) /\ Many(dm') = Many(dm) /\ Aborts(dm') = Aborts(dm)
            /\ Resid(dm') = [Resid(dm) EXCEPT ![o] = 0] /\ dm'.FreeOpnCB = Append(dm.FreeOpnCB, o)
        <4>1. Fields(dm) /\ o \in OpnCBs
          BY <1>2, <1>3
        <4> DEFINE queue == Append(dm.FreeOpnCB, o)
        <4>2. dm' = Deleted(dm, o, queue)
          BY <2>2, DelOpnEither
        <4> HIDE DEF queue
        <4>3. /\ Requests(dm') = Requests(dm) /\ Many(dm') = Many(dm) /\ Aborts(dm') = Aborts(dm)
              /\ Resid(dm') = [Resid(dm) EXCEPT ![o] = 0] /\ dm'.FreeOpnCB = queue
          BY <4>1, <4>2, DelOpnIs
        <4> QED
          BY <4>3 DEF queue
      <3>3. Resid(dm')[o] = 0 /\ \A p \in OpnCBs \ {o} : Resid(dm')[p] = Resid(dm)[p]
        BY <1>2, <1>3, <3>2 DEF Typed
      <3> QED
        BY <3>1, <3>2, <3>3
    <2> QED
      BY <1>1, <2>1, <2>2
  <1>6. /\ Of(dm') = Of(dm) /\ AbortBy(dm') = AbortBy(dm) /\ AbortCnt(dm') = AbortCnt(dm)
        /\ AbortSem(dm') = AbortSem(dm)
    BY <1>5 DEF Requests, Aborts
  <1>7. /\ \A u \in Tasks \ {t} : call'[u] = call[u]
        /\ \A p \in OpnCBs : Inside'[p] = Inside[p]
        /\ Closers'[o] = Closers[o] /\ Openers'[o] = Openers[o] \ {t}
    <2>1. /\ \A u \in Tasks \ {t} : call'[u] = call[u]
          /\ \A p \in OpnCBs : Inside'[p] = (Inside[p] \ {t}) \cup {u \in {t} : NoCall.at \in Serving /\ NoCall.o = p}
          /\ Closers'[o] = (Closers[o] \ {t}) \cup {u \in {t} : NoCall.at \in Closing /\ NoCall.o = o}
          /\ Openers'[o] = (Openers[o] \ {t}) \cup {u \in {t} : NoCall.at \in Opening /\ NoCall.o = o}
      BY <1>1, <1>2, <1>3, NoCalling, Moved DEF Types
    <2>2. NoCall.at \notin Serving /\ NoCall.at \notin Closing /\ NoCall.at \notin Opening
      BY NoCalling DEF Engaged
    <2>3. t \notin Closers[o] /\ \A p \in OpnCBs : t \notin Inside[p]
      BY <1>1, <1>3 DEF Closers, Inside, Opening, Closing
    <2>4. ASSUME NEW p \in OpnCBs PROVE Inside'[p] = Inside[p]
      <3>1. Inside'[p] = (Inside[p] \ {t}) \cup {u \in {t} : NoCall.at \in Serving /\ NoCall.o = p}
        BY <2>1
      <3>2. t \notin Inside[p]
        BY <2>3
      <3> QED
        BY <2>2, <3>1, <3>2
    <2> QED
      BY <2>1, <2>2, <2>3, <2>4
  <1>8. Serve'
    <2>1. Inside' = Inside
      BY <1>7 DEF Inside
    <2>2. \A p \in OpnCBs : \A u \in Inside[p] : call'[u] = call[u]
      BY <1>3, <1>7 DEF Inside
    <2> QED
      BY <1>2, <1>5, <2>1, <2>2, ServeSame
  <1>9. /\ ToSet(dm'.FreeOpnCB) \subseteq ToSet(dm.FreeOpnCB) \cup {o}
        /\ o \in ToSet(dm'.FreeOpnCB) /\ ~ down => Resid(dm')[o] = 0
        /\ ~ down => Once(dm'.FreeOpnCB)
    <2>1. /\ dm.FreeOpnCB \in Seq(OpnCBs) /\ (~ down => Once(dm.FreeOpnCB))
      BY <1>2 DEF IInv, Typed
    <2>2. /\ ToSet(Append(dm.FreeOpnCB, o)) = ToSet(dm.FreeOpnCB) \cup {o}
          /\ Once(dm.FreeOpnCB) /\ o \notin ToSet(dm.FreeOpnCB) => Once(Append(dm.FreeOpnCB, o))
      BY <1>3, <2>1, AppendHolds
    <2>3. CASE dm'.FreeOpnCB = dm.FreeOpnCB
      BY <1>4, <2>1, <2>3
    <2>4. CASE dm'.FreeOpnCB = Append(dm.FreeOpnCB, o) /\ Resid(dm')[o] = 0
      BY <1>4, <2>1, <2>2, <2>4
    <2> QED
      BY <1>5, <2>3, <2>4
  <1>10. Fine(o)'
    <2>1. Bare(o)'
      BY <1>4, <1>6 DEF Bare
    <2>2. WhenFree(o)'
      BY <1>1, <1>4, <1>7, <1>9, <2>1 DEF WhenFree
    <2>3. WhenOpened(o)'
      <3>1. ~ down => Openers'[o] = {}
        BY <1>4, <1>7
      <3> QED
        BY <1>1, <2>1, <3>1 DEF WhenOpened
    <2>4. WhenClosed(o)'
      <3> SUFFICES ASSUME NEW k \in Closers[o] PROVE WhenClosed(o)'
        BY <1>7 DEF WhenClosed
      <3>1. down /\ k \in Tasks \ {t}
        <4>1. down
          BY <1>4
        <4>2. k \in Tasks /\ call[k].at \in Closing
          BY <1>3 DEF Closers
        <4>3. k # t
          BY <1>1, <4>2 DEF Opening, Closing
        <4> QED
          BY <4>1, <4>2, <4>3
      <3>2. call'[k] = call[k] /\ Closers[o] = {k}
        BY <1>4, <1>7, <3>1 DEF Fine, WhenClosed
      <3>3. down' /\ Closers'[o] = {k} /\ Inside'[o] = Inside[o]
        BY <1>1, <1>3, <1>7, <3>1, <3>2
      <3>4. WhenClosed(o)
        BY <1>4 DEF Fine
      <3>5. call[k].at = "drainfn" => \E r \in ReqCBs : call'[k].list = <<r>> /\ Of(dm')[r] = o
        BY <1>6, <3>2, <3>4 DEF WhenClosed
      <3> QED
        BY <1>6, <2>1, <3>2, <3>3, <3>4, <3>5 DEF WhenClosed
    <2>5. WhenNotClosed(o)'
      BY <1>4, <1>6, <1>7 DEF Fine, WhenNotClosed
    <2> QED
      BY <2>2, <2>3, <2>4, <2>5 DEF Fine
  <1>11. /\ down' \in BOOLEAN /\ (down => down') /\ (~ down' => Once(dm'.FreeOpnCB))
         /\ \A p \in OpnCBs \ {o} : p \in ToSet(dm'.FreeOpnCB) => p \in ToSet(dm.FreeOpnCB)
    BY <1>1, <1>2, <1>9 DEF Types
  <1>12. /\ NoCall.at \notin Engaged /\ NoCall.at \notin Closing /\ ~ NoCall.clean /\ NoCall.at # "cleanup"
    BY NoCalling DEF Engaged
  <1> QED
    BY <1>1, <1>3, <1>5, <1>6, <1>8, <1>10, <1>11, <1>12, NoCalling, Settled

(* Closing.  What a step of a closing task writes to the descriptor, and   *)
(* how it moves.                                                           *)
Writes(m, n, o) ==
  /\ Typed(m) /\ Fields(n)
  /\ \A p \in OpnCBs \ {o} : n.opncb[p] = m.opncb[p]
  /\ n.opncb[o].requestq = m.opncb[o].requestq /\ n.opncb[o].waireqlst = m.opncb[o].waireqlst
  /\ \A r \in ReqCBs : n.reqcb[r].opncb = m.reqcb[r].opncb /\ n.reqcb[r].tskid = m.reqcb[r].tskid
  /\ n.FreeReqCB = m.FreeReqCB /\ n.FreeOpnCB \in Seq(OpnCBs) /\ n.resq \in Seq(OpnCBs)
  /\ n.opncb[o].abort_tskid \in Tasks \cup {None} /\ n.opncb[o].abort_cnt \in Int
  /\ n.opncb[o].abort_sem \in {0, 1} /\ n.opncb[o].resid \in {0, 1}

LEMMA Written ==
  ASSUME NEW m, NEW n, NEW o \in OpnCBs, Writes(m, n, o)
  PROVE  /\ Typed(n) /\ Requests(n) = Requests(m) /\ Many(n) = Many(m) /\ Of(n) = Of(m)
         /\ \A p \in OpnCBs \ {o} :
              /\ Resid(n)[p] = Resid(m)[p] /\ AbortBy(n)[p] = AbortBy(m)[p]
              /\ AbortCnt(n)[p] = AbortCnt(m)[p] /\ AbortSem(n)[p] = AbortSem(m)[p]
         /\ Resid(n)[o] = n.opncb[o].resid /\ AbortBy(n)[o] = n.opncb[o].abort_tskid
         /\ AbortCnt(n)[o] = n.opncb[o].abort_cnt /\ AbortSem(n)[o] = n.opncb[o].abort_sem
  <1>1. \A p \in OpnCBs : n.opncb[p].requestq = m.opncb[p].requestq /\ n.opncb[p].waireqlst = m.opncb[p].waireqlst
    BY DEF Writes
  <1>2. Of(n) = Of(m) /\ By(n) = By(m) /\ Que(n) = Que(m) /\ Many(n) = Many(m)
    BY <1>1 DEF Writes, Of, By, Que, Many
  <1>3. /\ \A p \in OpnCBs \ {o} :
              /\ Resid(n)[p] = Resid(m)[p] /\ AbortBy(n)[p] = AbortBy(m)[p]
              /\ AbortCnt(n)[p] = AbortCnt(m)[p] /\ AbortSem(n)[p] = AbortSem(m)[p]
        /\ Resid(n)[o] = n.opncb[o].resid /\ AbortBy(n)[o] = n.opncb[o].abort_tskid
        /\ AbortCnt(n)[o] = n.opncb[o].abort_cnt /\ AbortSem(n)[o] = n.opncb[o].abort_sem
    BY DEF Writes, Resid, AbortBy, AbortCnt, AbortSem
  <1>4. /\ Resid(n) \in [OpnCBs -> {0, 1}] /\ AbortBy(n) \in [OpnCBs -> Tasks \cup {None}]
        /\ AbortCnt(n) \in [OpnCBs -> Int] /\ AbortSem(n) \in [OpnCBs -> {0, 1}]
    <2>1. /\ Resid(m) \in [OpnCBs -> {0, 1}] /\ AbortBy(m) \in [OpnCBs -> Tasks \cup {None}]
          /\ AbortCnt(m) \in [OpnCBs -> Int] /\ AbortSem(m) \in [OpnCBs -> {0, 1}]
      BY DEF Writes, Typed
    <2>2. \A p \in OpnCBs : Resid(n)[p] \in {0, 1} /\ AbortBy(n)[p] \in Tasks \cup {None}
      BY <1>3, <2>1 DEF Writes
    <2>3. \A p \in OpnCBs : AbortCnt(n)[p] \in Int /\ AbortSem(n)[p] \in {0, 1}
      BY <1>3, <2>1 DEF Writes
    <2> QED
      BY <2>2, <2>3 DEF Resid, AbortBy, AbortCnt, AbortSem
  <1>5. Typed(n)
    BY <1>2, <1>4 DEF Writes, Typed
  <1> QED
    BY <1>2, <1>3, <1>5 DEF Writes, Requests

LEMMA CloserMoves ==
  ASSUME IInv, NEW t \in Tasks, NEW c, IsCall(c), Moves(t, c), NEW o \in OpnCBs,
         call[t].at \notin Serving \cup Opening, c.at \notin Serving \cup Opening,
         c.at \in Closing => c.o = o
  PROVE  /\ call'[t] = c /\ \A u \in Tasks \ {t} : call'[u] = call[u]
         /\ \A p \in OpnCBs : Inside'[p] = Inside[p]
         /\ Openers'[o] = Openers[o]
         /\ c.at \in Closing => Closers'[o] = Closers[o] \cup {t}
         /\ c.at \notin Closing => Closers'[o] = Closers[o] \ {t}
         /\ Requests(dm') = Requests(dm) /\ Many(dm') = Many(dm) => Serve'
  <1>1. Types /\ Serve /\ Called
    BY DEF IInv, Types
  <1>2. /\ call'[t] = c /\ \A u \in Tasks \ {t} : call'[u] = call[u]
        /\ \A p \in OpnCBs : Inside'[p] = (Inside[p] \ {t}) \cup {u \in {t} : c.at \in Serving /\ c.o = p}
        /\ Closers'[o] = (Closers[o] \ {t}) \cup {u \in {t} : c.at \in Closing /\ c.o = o}
        /\ Openers'[o] = (Openers[o] \ {t}) \cup {u \in {t} : c.at \in Opening /\ c.o = o}
    BY <1>1, Moved
  <1>3. t \notin Openers[o] /\ \A p \in OpnCBs : t \notin Inside[p]
    BY DEF Openers, Inside
  <1>4. ASSUME NEW p \in OpnCBs PROVE Inside'[p] = Inside[p]
    <2>1. Inside'[p] = (Inside[p] \ {t}) \cup {u \in {t} : c.at \in Serving /\ c.o = p} /\ t \notin Inside[p]
      BY <1>2, <1>3
    <2> QED
      BY <2>1
  <1>5. Openers'[o] = Openers[o]
    BY <1>2, <1>3
  <1>6. /\ c.at \in Closing => Closers'[o] = Closers[o] \cup {t}
        /\ c.at \notin Closing => Closers'[o] = Closers[o] \ {t}
    BY <1>2
  <1>7. ASSUME Requests(dm') = Requests(dm), Many(dm') = Many(dm) PROVE Serve'
    <2>1. Inside' = Inside
      BY <1>4 DEF Inside
    <2>2. \A p \in OpnCBs : \A u \in Inside[p] : call'[u] = call[u]
      BY <1>2, <1>3 DEF Inside
    <2> QED
      BY <1>1, <1>7, <2>1, <2>2, ServeSame
  <1> QED
    BY <1>2, <1>4, <1>5, <1>6, <1>7

(* The descriptor may no longer be used. *)
Refused(m, n, o) ==
  /\ n.opncb[o].resid = 0 /\ n.FreeOpnCB = m.FreeOpnCB
  /\ n.opncb[o].abort_tskid = m.opncb[o].abort_tskid /\ n.opncb[o].abort_sem = m.opncb[o].abort_sem

LEMMA Refuses ==
  ASSUME NEW m, Typed(m), NEW o \in OpnCBs, NEW n,
         n = [m EXCEPT !.opncb[o].resid = 0] \/ \E x : n = [m EXCEPT !.dissus = x, !.opncb[o].resid = 0]
  PROVE  Writes(m, n, o) /\ Refused(m, n, o)
  <1>1. Fields(m)
    BY DEF Typed
  <1>2. /\ Fields(n) /\ n.reqcb = m.reqcb /\ n.FreeReqCB = m.FreeReqCB
        /\ n.FreeOpnCB = m.FreeOpnCB /\ n.resq = m.resq
        /\ n.opncb = [m.opncb EXCEPT ![o].resid = 0]
    <2>1. /\ DOMAIN n = DOMAIN m /\ n.reqcb = m.reqcb /\ n.FreeReqCB = m.FreeReqCB
          /\ n.FreeOpnCB = m.FreeOpnCB /\ n.resq = m.resq
          /\ n.opncb = [m.opncb EXCEPT ![o].resid = 0]
      <3>1. CASE n = [m EXCEPT !.opncb[o].resid = 0]
        BY <1>1, <3>1 DEF Fields
      <3>2. ASSUME NEW x, n = [m EXCEPT !.dissus = x, !.opncb[o].resid = 0]
            PROVE  /\ DOMAIN n = DOMAIN m /\ n.reqcb = m.reqcb /\ n.FreeReqCB = m.FreeReqCB
                   /\ n.FreeOpnCB = m.FreeOpnCB /\ n.resq = m.resq
                   /\ n.opncb = [m.opncb EXCEPT ![o].resid = 0]
        BY <1>1, <3>2 DEF Fields
      <3> QED
        BY <3>1, <3>2
    <2> QED
      BY <1>1, <2>1 DEF Fields
  <1>3. /\ \A p \in OpnCBs \ {o} : n.opncb[p] = m.opncb[p]
        /\ n.opncb[o].requestq = m.opncb[o].requestq /\ n.opncb[o].waireqlst = m.opncb[o].waireqlst
        /\ n.opncb[o].resid = 0 /\ n.opncb[o].abort_tskid = m.opncb[o].abort_tskid
        /\ n.opncb[o].abort_cnt = m.opncb[o].abort_cnt /\ n.opncb[o].abort_sem = m.opncb[o].abort_sem
    BY <1>1, <1>2 DEF Fields
  <1>4. /\ AbortBy(m)[o] = m.opncb[o].abort_tskid /\ AbortCnt(m)[o] = m.opncb[o].abort_cnt
        /\ AbortSem(m)[o] = m.opncb[o].abort_sem
        /\ AbortBy(m)[o] \in Tasks \cup {None} /\ AbortCnt(m)[o] \in Int /\ AbortSem(m)[o] \in {0, 1}
        /\ m.FreeOpnCB \in Seq(OpnCBs) /\ m.resq \in Seq(OpnCBs)
    BY DEF Typed, AbortBy, AbortCnt, AbortSem
  <1> QED
    BY <1>2, <1>3, <1>4 DEF Writes, Refused

(* tk_cls_dev, and knl_devmgr_cleanup for one descriptor.                  *)
LEMMA CloseStarts ==
  ASSUME IInv, NEW t \in Tasks, NEW c, IsCall(c), Moves(t, c), NEW o \in OpnCBs,
         call[t].at \notin Engaged, c.at = "abort", c.o = o, c.clean => "end" \in May[t],
         May[t] \cap {"cls", "end"} # {},
         Writes(dm, dm', o), Refused(dm, dm', o),
         Closers[o] = {}, down' \in BOOLEAN, down => down',
         down' \/ (o \notin ToSet(dm.FreeOpnCB) /\ Openers[o] = {})
  PROVE  IInv'
  <1>5. /\ Typed(dm') /\ Requests(dm') = Requests(dm) /\ Many(dm') = Many(dm) /\ Of(dm') = Of(dm)
        /\ \A p \in OpnCBs \ {o} :
             /\ Resid(dm')[p] = Resid(dm)[p] /\ AbortBy(dm')[p] = AbortBy(dm)[p]
             /\ AbortCnt(dm')[p] = AbortCnt(dm)[p] /\ AbortSem(dm')[p] = AbortSem(dm)[p]
        /\ Resid(dm')[o] = 0 /\ AbortBy(dm')[o] = AbortBy(dm)[o] /\ AbortSem(dm')[o] = AbortSem(dm)[o]
    <2>1. /\ AbortBy(dm)[o] = dm.opncb[o].abort_tskid /\ AbortSem(dm)[o] = dm.opncb[o].abort_sem
      BY DEF AbortBy, AbortSem
    <2>2. /\ Typed(dm') /\ Requests(dm') = Requests(dm) /\ Many(dm') = Many(dm) /\ Of(dm') = Of(dm)
          /\ \A p \in OpnCBs \ {o} :
               /\ Resid(dm')[p] = Resid(dm)[p] /\ AbortBy(dm')[p] = AbortBy(dm)[p]
               /\ AbortCnt(dm')[p] = AbortCnt(dm)[p] /\ AbortSem(dm')[p] = AbortSem(dm)[p]
          /\ Resid(dm')[o] = dm'.opncb[o].resid /\ AbortBy(dm')[o] = dm'.opncb[o].abort_tskid
          /\ AbortSem(dm')[o] = dm'.opncb[o].abort_sem
      BY Written
    <2> QED
      BY <2>1, <2>2 DEF Refused
  <1>6. c.at \in Closing /\ c.at \notin Serving \cup Opening /\ call[t].at \notin Serving \cup Opening
    BY DEF Closing, Serving, Opening, Engaged
  <1>7. /\ call'[t] = c /\ Openers'[o] = Openers[o] /\ Closers'[o] = {t} /\ Serve'
    BY <1>5, <1>6, CloserMoves
  <1>8. Fine(o)
    BY DEF IInv
  <1>9. Fine(o)'
    <2>1. Bare(o)' <=> Bare(o)
      BY <1>5 DEF Bare
    <2>2. WhenFree(o)'
      BY <1>5, <1>8, <2>1 DEF Refused, Fine, WhenFree
    <2>3. WhenOpened(o)'
      BY <1>7, <1>8, <2>1 DEF Fine, WhenOpened
    <2>4. WhenClosed(o)'
      BY <1>5, <1>7, <1>8 DEF Fine, WhenNotClosed, WhenClosed
    <2>5. WhenNotClosed(o)'
      BY <1>7 DEF WhenNotClosed
    <2> QED
      BY <2>2, <2>3, <2>4, <2>5 DEF Fine
  <1>10. \A p \in OpnCBs \ {o} : p \in ToSet(dm'.FreeOpnCB) => p \in ToSet(dm.FreeOpnCB)
    BY DEF Refused
  <1>11. ~ down' => Once(dm'.FreeOpnCB)
    BY DEF Refused, IInv
  <1>12. c.at # "cleanup"
    OBVIOUS
  <1> QED
    BY <1>5, <1>7, <1>9, <1>10, <1>11, <1>12, Settled

LEMMA CloseKeeps ==
  ASSUME IInv, NEW t \in Tasks, NEW o \in OpnCBs, tk_cls_dev(t, o)
  PROVE  IInv'
  <1> DEFINE c == [NoCall EXCEPT !.at = "abort", !.o = o]
  <1>1. /\ call[t] = NoCall /\ "cls" \in May[t] /\ ~ down /\ Resid(dm)[o] # 0 /\ UNCHANGED down
        /\ dm' = [dm EXCEPT !.opncb[o].resid = 0] /\ Moves(t, c)
    BY DEF tk_cls_dev, Starts, Resid
  <1>2. IsCall(c) /\ c.at = "abort" /\ c.o = o /\ c.clean = FALSE
    BY DEF IsCall, Call, NoCall
  <1> HIDE DEF c
  <1>3. Writes(dm, dm', o) /\ Refused(dm, dm', o)
    BY <1>1, Refuses DEF IInv, Types
  <1>4. o \notin ToSet(dm.FreeOpnCB) /\ Closers[o] = {} /\ Openers[o] = {}
    BY <1>1, OpenIs
  <1>5. down' \in BOOLEAN /\ (down => down')
    BY <1>1 DEF IInv, Types
  <1>6. May[t] \cap {"cls", "end"} # {}
    BY <1>1
  <1>7. call[t].at \notin Engaged /\ ~ c.clean
    BY <1>1, <1>2, NoCalling
  <1> QED
    BY <1>1, <1>2, <1>3, <1>4, <1>5, <1>6, <1>7, CloseStarts

LEMMA CleanupKeeps ==
  ASSUME IInv, CleanupAlone, NEW t \in Tasks, knl_devmgr_cleanup(t), NEW o, o = Head(dm.resq)
  PROVE  IInv'
  <1> DEFINE freed == [dm EXCEPT !.dissus = 0]
             c == [NoCall EXCEPT !.at = "abort", !.o = o, !.clean = TRUE]
  <1>1. /\ (call[t] = NoCall /\ "end" \in May[t]) \/ call[t].at = "cleanup"
        /\ down' = TRUE
        /\ \/ dm.resq = <<>> /\ dm' = freed /\ Moves(t, NoCall)
           \/ /\ dm.resq # <<>> /\ dm' = [freed EXCEPT !.opncb[o].resid = 0]
              /\ Moves(t, c)
    BY DEF knl_devmgr_cleanup, Starts, At, Ends
  <1>2. /\ "end" \in May[t] /\ call[t].at \notin Engaged
    <2>1. CASE call[t] = NoCall /\ "end" \in May[t]
      BY <2>1, NoCalling
    <2>2. CASE call[t].at = "cleanup"
      BY <2>2 DEF IInv, Permitted, Engaged, Serving, Opening, Closing
    <2> QED
      BY <1>1, <2>1, <2>2
  <1>3. Typed(dm) /\ Fields(dm) /\ dm.resq \in Seq(OpnCBs)
    BY DEF IInv, Types, Typed
  <1>4. down' \in BOOLEAN /\ down'
    BY <1>1
  <1>5. CASE dm.resq = <<>> /\ dm' = freed /\ Moves(t, NoCall)
    <2>1. /\ DOMAIN dm' = DOMAIN dm /\ dm'.opncb = dm.opncb /\ dm'.reqcb = dm.reqcb
          /\ dm'.FreeOpnCB = dm.FreeOpnCB /\ dm'.FreeReqCB = dm.FreeReqCB /\ dm'.resq = dm.resq
      BY <1>3, <1>5 DEF Fields
    <2>2. Fields(dm')
      BY <1>3, <2>1 DEF Fields
    <2>3. Requests(dm') = Requests(dm) /\ Many(dm') = Many(dm) /\ Aborts(dm') = Aborts(dm)
          /\ Opened(dm') = Opened(dm)
      BY <2>1 DEF Requests, Many, Aborts, Opened, Of, By, Que, AbortBy, AbortCnt, AbortSem, Resid
    <2> QED
      BY <1>2, <1>4, <1>5, <2>2, <2>3, Idle, NoCalling
  <1>6. CASE dm.resq # <<>> /\ dm' = [freed EXCEPT !.opncb[o].resid = 0] /\ Moves(t, c)
    <2>1. o \in OpnCBs
      BY <1>3, <1>6, HeadHolds
    <2>2. IsCall(c) /\ c.at = "abort" /\ c.o = o
      BY <2>1 DEF IsCall, Call, NoCall
    <2> HIDE DEF c
    <2>3. Writes(dm, dm', o) /\ Refused(dm, dm', o)
      BY <1>3, <1>6, <2>1, Refuses
    <2>4. Closers[o] = {}
      <3> SUFFICES ASSUME NEW u \in Closers[o] PROVE FALSE
        OBVIOUS
      <3>1. u \in Tasks /\ call[u].at \in Closing
        BY <2>1 DEF Closers
      <3>2. u # t /\ May[u] \cap {"cls", "end"} # {}
        BY <1>2, <3>1 DEF IInv, Permitted, Engaged
      <3> QED
        BY <1>2, <3>1, <3>2 DEF CleanupAlone
    <2>5. May[t] \cap {"cls", "end"} # {}
      BY <1>2
    <2> QED
      BY <1>2, <1>4, <1>6, <2>1, <2>2, <2>3, <2>4, <2>5, CloseStarts
  <1> QED
    BY <1>1, <1>5, <1>6

(* A step of a task that closes a descriptor, and goes on closing it.      *)
LEMMA CloserIs ==
  ASSUME IInv, NEW t \in Tasks, call[t].at \in Closing, NEW o, o = call[t].o
  PROVE  /\ o \in OpnCBs /\ t \in Closers[o] /\ Closers[o] = {t} /\ Fine(o) /\ WhenClosed(o) /\ WhenOpened(o)
         /\ Typed(dm) /\ Fields(dm) /\ call[t].at \notin Serving \cup Opening /\ IsCall(call[t])
         /\ May[t] \cap {"cls", "end"} # {} /\ (call[t].clean => "end" \in May[t])
         /\ (~ down => o \notin ToSet(dm.FreeOpnCB) /\ Openers[o] = {})
  <1>1. o \in OpnCBs /\ IsCall(call[t])
    BY DEF IInv, Types, Called
  <1>2. t \in Closers[o] /\ Fine(o)
    BY <1>1 DEF Closers, IInv
  <1>3. Closers[o] = {t}
    BY <1>2 DEF Fine, WhenClosed
  <1>4. ~ down => o \notin ToSet(dm.FreeOpnCB) /\ Openers[o] = {}
    BY <1>2 DEF Fine, WhenFree, WhenOpened
  <1>5. call[t].at \notin Serving \cup Opening
    BY DEF Closing, Serving, Opening
  <1>6. Typed(dm) /\ Fields(dm)
    BY DEF IInv, Types, Typed
  <1>7. May[t] \cap {"cls", "end"} # {} /\ (call[t].clean => "end" \in May[t])
    BY DEF IInv, Permitted
  <1> QED
    BY <1>1, <1>2, <1>3, <1>4, <1>5, <1>6, <1>7 DEF Fine

LEMMA ClosingGoes ==
  ASSUME IInv, NEW t \in Tasks, call[t].at \in Closing, NEW o, o = call[t].o,
         Typed(dm'), Requests(dm') = Requests(dm), Many(dm') = Many(dm),
         \A p \in OpnCBs \ {o} :
           /\ Resid(dm')[p] = Resid(dm)[p] /\ AbortBy(dm')[p] = AbortBy(dm)[p]
           /\ AbortCnt(dm')[p] = AbortCnt(dm)[p] /\ AbortSem(dm')[p] = AbortSem(dm)[p],
         Resid(dm')[o] = Resid(dm)[o] \/ Resid(dm')[o] = 0,
         dm'.FreeOpnCB = dm.FreeOpnCB, UNCHANGED down,
         NEW c, IsCall(c), Moves(t, c), c.at \in Closing, c.o = o, c.clean = call[t].clean,
         c.at = "abort" => AbortBy(dm')[o] = None /\ AbortSem(dm')[o] = 0,
         c.at \in {"aborted", "semwait"} =>
           /\ AbortBy(dm')[o] = t /\ AbortCnt(dm')[o] = Cardinality(Inside[o])
           /\ AbortCnt(dm')[o] > 0 => AbortSem(dm')[o] = 0,
         c.at = "semwait" /\ AbortCnt(dm')[o] = 0 => AbortSem(dm')[o] = 1,
         c.at \in {"drain", "drainfn", "close", "closed", "closefn"} => Inside[o] = {},
         c.at = "drainfn" => \E r \in ReqCBs : c.list = <<r>> /\ Of(dm)[r] = o,
         c.at \in {"close", "closed", "closefn"} => Bare(o)
  PROVE  IInv'
  <1>1. /\ o \in OpnCBs /\ Closers[o] = {t} /\ Fine(o) /\ WhenClosed(o)
        /\ call[t].at \notin Serving \cup Opening /\ May[t] \cap {"cls", "end"} # {}
        /\ (call[t].clean => "end" \in May[t])
    BY CloserIs
  <1>2. c.at \notin Serving \cup Opening /\ c.at # "cleanup"
    BY DEF Closing, Serving, Opening
  <1>3. /\ call'[t] = c /\ Inside'[o] = Inside[o] /\ Openers'[o] = Openers[o] /\ Closers'[o] = {t} /\ Serve'
    <2>1. /\ call'[t] = c /\ Inside'[o] = Inside[o] /\ Openers'[o] = Openers[o]
          /\ Closers'[o] = Closers[o] \cup {t} /\ Serve'
      BY <1>1, <1>2, CloserMoves
    <2> QED
      BY <1>1, <2>1
  <1>4. Of(dm') = Of(dm) /\ (Bare(o)' <=> Bare(o))
    BY DEF Requests, Bare
  <1>5. Fine(o)'
    <2>1. WhenFree(o)'
      BY <1>1, <1>3, <1>4 DEF Fine, WhenFree
    <2>2. WhenOpened(o)'
      <3>1. WhenOpened(o)
        BY <1>1 DEF Fine
      <3> QED
        BY <1>1, <1>3, <1>4, <3>1 DEF WhenOpened
    <2>3. WhenClosed(o)'
      <3>1. Resid(dm)[o] = 0 \/ (down /\ Bare(o))
        BY <1>1 DEF WhenClosed
      <3>2. c.at = "drainfn" => \E r \in ReqCBs : c.list = <<r>> /\ Of(dm')[r] = o
        BY <1>4
      <3> QED
        BY <1>3, <1>4, <3>1, <3>2 DEF WhenClosed
    <2>4. WhenNotClosed(o)'
      BY <1>3 DEF WhenNotClosed
    <2> QED
      BY <2>1, <2>2, <2>3, <2>4 DEF Fine
  <1>6. down' \in BOOLEAN /\ (down => down') /\ (~ down' => Once(dm'.FreeOpnCB))
    BY DEF IInv, Types
  <1> QED
    BY <1>1, <1>2, <1>3, <1>4, <1>5, <1>6, Settled

(* The number of the tasks that abort_allrequest waits for. *)
LEMMA AbortCounts ==
  ASSUME IInv, NEW o \in OpnCBs
  PROVE  /\ (IF dm.opncb[o].waireqlst = <<>> THEN Cardinality(Busy(o)) ELSE 1) = Cardinality(Inside[o])
         /\ Cardinality(Inside[o]) \in Nat /\ (Cardinality(Inside[o]) = 0 => Inside[o] = {})
  <1>1. Types /\ Serve /\ Many(dm)[o] = dm.opncb[o].waireqlst
    BY DEF IInv, Many
  <1>2. Inside[o] \in SUBSET Tasks
    BY DEF Inside
  <1>3. IsFiniteSet(Inside[o])
    BY <1>2, FS_Subset, DeviceAssumption
  <1>4. CASE dm.opncb[o].waireqlst = <<>>
    BY <1>1, <1>3, <1>4, BusyCount, FS_CardinalityType, FS_EmptySet
  <1>5. CASE dm.opncb[o].waireqlst # <<>>
    <2>1. PICK t \in Tasks : Inside[o] = {t}
      BY <1>1, <1>5 DEF Serve, Alone
    <2>2. Cardinality(Inside[o]) = 1
      BY <2>1, FS_Singleton
    <2> QED
      BY <1>5, <2>2
  <1> QED
    BY <1>4, <1>5

LEMMA AbortKeeps ==
  ASSUME IInv, NEW t \in Tasks, abort_allrequest(t), NEW o, o = call[t].o
  PROVE  IInv'
  <1> DEFINE c == [call[t] EXCEPT !.at = "aborted"]
             n == IF dm.opncb[o].waireqlst = <<>> THEN Cardinality(Busy(o)) ELSE 1
  <1>1. /\ call[t].at = "abort" /\ Moves(t, c) /\ UNCHANGED down
        /\ \E x : dm' = [dm EXCEPT !.opncb[o].abort_tskid = t, !.opncb[o].abort_cnt = n,
                                   !.reqcb = [r \in DOMAIN @ |-> IF r \in x THEN [@[r] EXCEPT !.abort = TRUE]
                                                                 ELSE @[r]]]
    <2> DEFINE x == {r \in Busy(o) : dm.opncb[o].waireqlst = <<>>}
    <2>1. \A r : (dm.opncb[o].waireqlst = <<>> /\ r \in Busy(o)) <=> r \in x
      OBVIOUS
    <2>2. dm' = [dm EXCEPT !.opncb[o].abort_tskid = t, !.opncb[o].abort_cnt = n,
                           !.reqcb = [r \in DOMAIN @ |-> IF dm.opncb[o].waireqlst = <<>> /\ r \in Busy(o)
                                        THEN [@[r] EXCEPT !.abort = TRUE] ELSE @[r]]]
      BY DEF abort_allrequest
    <2> HIDE DEF x, n
    <2>3. [r \in DOMAIN dm.reqcb |-> IF dm.opncb[o].waireqlst = <<>> /\ r \in Busy(o)
                                     THEN [dm.reqcb[r] EXCEPT !.abort = TRUE] ELSE dm.reqcb[r]] =
          [r \in DOMAIN dm.reqcb |-> IF r \in x THEN [dm.reqcb[r] EXCEPT !.abort = TRUE] ELSE dm.reqcb[r]]
      BY <2>1
    <2>4. call[t].at = "abort" /\ Moves(t, c) /\ UNCHANGED down
      BY DEF abort_allrequest, At, Goes
    <2> QED
      BY <2>2, <2>3, <2>4
  <1>2. call[t].at \in Closing
    BY <1>1 DEF Closing
  <1>3. /\ o \in OpnCBs /\ WhenClosed(o) /\ t \in Closers[o] /\ Typed(dm) /\ Fields(dm)
    BY <1>2, CloserIs
  <1>4. n = Cardinality(Inside[o]) /\ n \in Nat
    BY <1>3, AbortCounts
  <1> HIDE DEF n
  <1>5. /\ Writes(dm, dm', o) /\ dm'.FreeOpnCB = dm.FreeOpnCB /\ dm'.opncb[o].resid = dm.opncb[o].resid
        /\ dm'.opncb[o].abort_tskid = t /\ dm'.opncb[o].abort_cnt = n
        /\ dm'.opncb[o].abort_sem = dm.opncb[o].abort_sem
    <2>1. PICK x : dm' = [dm EXCEPT !.opncb[o].abort_tskid = t, !.opncb[o].abort_cnt = n,
                                    !.reqcb = [r \in DOMAIN @ |-> IF r \in x THEN [@[r] EXCEPT !.abort = TRUE]
                                                                  ELSE @[r]]]
      BY <1>1
    <2>2. /\ DOMAIN dm' = DOMAIN dm /\ dm'.FreeReqCB = dm.FreeReqCB
          /\ dm'.FreeOpnCB = dm.FreeOpnCB /\ dm'.resq = dm.resq
          /\ dm'.opncb = [dm.opncb EXCEPT ![o].abort_tskid = t, ![o].abort_cnt = n]
          /\ dm'.reqcb = [r \in ReqCBs |-> IF r \in x THEN [dm.reqcb[r] EXCEPT !.abort = TRUE] ELSE dm.reqcb[r]]
      BY <1>3, <2>1 DEF Fields
    <2>3. /\ \A p \in OpnCBs \ {o} : dm'.opncb[p] = dm.opncb[p]
          /\ DOMAIN dm'.opncb = DOMAIN dm.opncb /\ DOMAIN dm'.opncb[o] = DOMAIN dm.opncb[o]
          /\ dm'.opncb[o].requestq = dm.opncb[o].requestq /\ dm'.opncb[o].waireqlst = dm.opncb[o].waireqlst
          /\ dm'.opncb[o].resid = dm.opncb[o].resid /\ dm'.opncb[o].abort_sem = dm.opncb[o].abort_sem
          /\ dm'.opncb[o].abort_tskid = t /\ dm'.opncb[o].abort_cnt = n
      BY <1>3, <2>2 DEF Fields
    <2>4. /\ DOMAIN dm'.reqcb = ReqCBs
          /\ \A r \in ReqCBs : /\ dm'.reqcb[r].opncb = dm.reqcb[r].opncb
                               /\ dm'.reqcb[r].tskid = dm.reqcb[r].tskid
                               /\ DOMAIN dm'.reqcb[r] = DOMAIN dm.reqcb[r]
      BY <1>3, <2>2 DEF Fields
    <2>5. Fields(dm')
      <3>1. \A p \in OpnCBs : DOMAIN dm'.opncb[p] = DOMAIN dm.opncb[p]
        BY <2>3
      <3>2. DOMAIN dm' = DOMAIN dm /\ DOMAIN dm'.opncb = DOMAIN dm.opncb /\ DOMAIN dm'.reqcb = ReqCBs
        BY <2>2, <2>3, <2>4
      <3>3. \A r \in ReqCBs : DOMAIN dm'.reqcb[r] = DOMAIN dm.reqcb[r]
        BY <2>4
      <3> QED
        BY <1>3, <3>1, <3>2, <3>3 DEF Fields
    <2>6. /\ AbortSem(dm)[o] = dm.opncb[o].abort_sem /\ Resid(dm)[o] = dm.opncb[o].resid
          /\ AbortSem(dm)[o] \in {0, 1} /\ Resid(dm)[o] \in {0, 1}
          /\ dm.FreeOpnCB \in Seq(OpnCBs) /\ dm.resq \in Seq(OpnCBs)
      BY <1>3 DEF Typed, AbortSem, Resid
    <2>7. dm'.FreeReqCB = dm.FreeReqCB /\ dm'.FreeOpnCB = dm.FreeOpnCB /\ dm'.resq = dm.resq
      BY <2>2
    <2>8. t \in Tasks /\ n \in Int
      BY <1>4
    <2> HIDE <2>1
    <2> QED
      BY <1>3, <2>3, <2>4, <2>5, <2>6, <2>7, <2>8 DEF Writes
  <1>6. AbortSem(dm)[o] = 0 /\ AbortSem(dm)[o] = dm.opncb[o].abort_sem /\ Resid(dm)[o] = dm.opncb[o].resid
    BY <1>1, <1>3 DEF WhenClosed, AbortSem, Resid
  <1>7. /\ Typed(dm') /\ Requests(dm') = Requests(dm) /\ Many(dm') = Many(dm)
        /\ \A p \in OpnCBs \ {o} :
             /\ Resid(dm')[p] = Resid(dm)[p] /\ AbortBy(dm')[p] = AbortBy(dm)[p]
             /\ AbortCnt(dm')[p] = AbortCnt(dm)[p] /\ AbortSem(dm')[p] = AbortSem(dm)[p]
        /\ Resid(dm')[o] = Resid(dm)[o] /\ AbortBy(dm')[o] = t
        /\ AbortCnt(dm')[o] = Cardinality(Inside[o]) /\ AbortSem(dm')[o] = 0
    BY <1>3, <1>4, <1>5, <1>6, Written
  <1>8. IsCall(c) /\ c.at = "aborted" /\ c.o = o /\ c.clean = call[t].clean
    BY CallIs
  <1> HIDE DEF c
  <1>9. c.at \in Closing
    BY <1>8 DEF Closing
  <1> QED
    BY <1>1, <1>2, <1>5, <1>7, <1>8, <1>9, ClosingGoes

LEMMA AbortGoes ==
  ASSUME IInv, NEW t \in Tasks, AbortCounted(t) \/ AbortAwaited(t), NEW o, o = call[t].o
  PROVE  IInv'
  <1> DEFINE c(where) == [call[t] EXCEPT !.at = where]
  <1>1. call[t].at \in {"aborted", "semwait"} /\ UNCHANGED down
    BY DEF AbortCounted, AbortAwaited, At
  <1>2. call[t].at \in Closing
    BY <1>1 DEF Closing
  <1>3. /\ o \in OpnCBs /\ WhenClosed(o) /\ t \in Closers[o] /\ Typed(dm) /\ Fields(dm)
    BY <1>2, CloserIs
  <1>4. /\ AbortBy(dm)[o] = t /\ AbortCnt(dm)[o] = Cardinality(Inside[o])
        /\ AbortCnt(dm)[o] > 0 => AbortSem(dm)[o] = 0
    BY <1>1, <1>3 DEF WhenClosed
  <1>5. Cardinality(Inside[o]) \in Nat /\ (Cardinality(Inside[o]) = 0 => Inside[o] = {})
    BY <1>3, AbortCounts
  <1>6. AbortCnt(dm)[o] = dm.opncb[o].abort_cnt /\ AbortSem(dm)[o] = dm.opncb[o].abort_sem
        /\ Resid(dm)[o] = dm.opncb[o].resid /\ AbortSem(dm)[o] \in {0, 1} /\ Resid(dm)[o] \in {0, 1}
        /\ dm.FreeOpnCB \in Seq(OpnCBs) /\ dm.resq \in Seq(OpnCBs) /\ AbortCnt(dm)[o] \in Int
    BY <1>3 DEF Typed, AbortCnt, AbortSem, Resid
  <1>7. \A where : LET d == c(where) IN IsCall(d) /\ d.at = where /\ d.o = o /\ d.clean = call[t].clean
    BY CallIs
  <1> HIDE DEF c
  <1>8. CASE AbortCnt(dm)[o] > 0 /\ UNCHANGED dm /\ Moves(t, c("semwait"))
    <2>1. c("semwait").at \in Closing
      BY <1>7 DEF Closing
    <2>2. /\ Typed(dm') /\ Requests(dm') = Requests(dm) /\ Many(dm') = Many(dm)
          /\ dm'.FreeOpnCB = dm.FreeOpnCB /\ Resid(dm') = Resid(dm) /\ AbortBy(dm') = AbortBy(dm)
          /\ AbortCnt(dm') = AbortCnt(dm) /\ AbortSem(dm') = AbortSem(dm)
      <3>1. dm' = dm
        BY <1>8
      <3> QED
        BY <1>3, <3>1
    <2> DEFINE d == c("semwait")
    <2>3. IsCall(d) /\ d.at = "semwait" /\ d.o = o /\ d.clean = call[t].clean /\ d.at \in Closing /\ Moves(t, d)
      BY <1>7, <1>8, <2>1
    <2> HIDE DEF d
    <2>4. AbortCnt(dm')[o] # 0
      BY <1>6, <1>8, <2>2
    <2> QED
      BY <1>1, <1>2, <1>4, <2>2, <2>3, <2>4, ClosingGoes
  <1>9. ASSUME Inside[o] = {}, Moves(t, c("drain")),
               \/ dm' = [dm EXCEPT !.opncb[o].abort_tskid = None]
               \/ dm' = [dm EXCEPT !.opncb[o].abort_sem = 0, !.opncb[o].abort_tskid = None]
        PROVE  IInv'
    <2>1. /\ Fields(dm') /\ dm'.reqcb = dm.reqcb /\ dm'.FreeReqCB = dm.FreeReqCB
          /\ dm'.FreeOpnCB = dm.FreeOpnCB /\ dm'.resq = dm.resq
          /\ \A p \in OpnCBs \ {o} : dm'.opncb[p] = dm.opncb[p]
          /\ dm'.opncb[o].requestq = dm.opncb[o].requestq /\ dm'.opncb[o].waireqlst = dm.opncb[o].waireqlst
          /\ dm'.opncb[o].resid = dm.opncb[o].resid /\ dm'.opncb[o].abort_tskid = None
          /\ dm'.opncb[o].abort_cnt = dm.opncb[o].abort_cnt
          /\ dm'.opncb[o].abort_sem = 0 \/ dm'.opncb[o].abort_sem = dm.opncb[o].abort_sem
      <3>1. CASE dm' = [dm EXCEPT !.opncb[o].abort_tskid = None]
        <4>1. /\ DOMAIN dm' = DOMAIN dm /\ dm'.reqcb = dm.reqcb /\ dm'.FreeReqCB = dm.FreeReqCB
              /\ dm'.FreeOpnCB = dm.FreeOpnCB /\ dm'.resq = dm.resq
              /\ dm'.opncb = [dm.opncb EXCEPT ![o].abort_tskid = None]
          BY <1>3, <3>1 DEF Fields
        <4> QED
          BY <1>3, <4>1 DEF Fields
      <3>2. CASE dm' = [dm EXCEPT !.opncb[o].abort_sem = 0, !.opncb[o].abort_tskid = None]
        <4>1. /\ DOMAIN dm' = DOMAIN dm /\ dm'.reqcb = dm.reqcb /\ dm'.FreeReqCB = dm.FreeReqCB
              /\ dm'.FreeOpnCB = dm.FreeOpnCB /\ dm'.resq = dm.resq
              /\ dm'.opncb = [dm.opncb EXCEPT ![o].abort_sem = 0, ![o].abort_tskid = None]
          BY <1>3, <3>2 DEF Fields
        <4> QED
          BY <1>3, <4>1 DEF Fields
      <3> QED
        BY <1>9, <3>1, <3>2
    <2>2. Writes(dm, dm', o)
      BY <1>3, <1>6, <2>1 DEF Writes
    <2>3. /\ Typed(dm') /\ Requests(dm') = Requests(dm) /\ Many(dm') = Many(dm)
          /\ \A p \in OpnCBs \ {o} :
               /\ Resid(dm')[p] = Resid(dm)[p] /\ AbortBy(dm')[p] = AbortBy(dm)[p]
               /\ AbortCnt(dm')[p] = AbortCnt(dm)[p] /\ AbortSem(dm')[p] = AbortSem(dm)[p]
          /\ Resid(dm')[o] = dm'.opncb[o].resid
      BY <1>3, <2>2, Written
    <2> DEFINE d == c("drain")
    <2>4. IsCall(d) /\ d.at = "drain" /\ d.o = o /\ d.clean = call[t].clean /\ Moves(t, d)
      BY <1>7, <1>9
    <2> HIDE DEF d
    <2>5. d.at \in Closing
      BY <2>4 DEF Closing
    <2>6. Resid(dm')[o] = Resid(dm)[o] /\ dm'.FreeOpnCB = dm.FreeOpnCB
      BY <1>6, <2>1, <2>3
    <2>7. Inside[o] = {}
      BY <1>9
    <2> QED
      BY <1>1, <1>2, <2>3, <2>4, <2>5, <2>6, <2>7, ClosingGoes
  <1>10. CASE AbortCounted(t)
    <2>1. \/ AbortCnt(dm)[o] > 0 /\ UNCHANGED dm /\ Moves(t, c("semwait"))
          \/ /\ ~ AbortCnt(dm)[o] > 0 /\ dm' = [dm EXCEPT !.opncb[o].abort_tskid = None]
             /\ Moves(t, c("drain"))
      BY <1>6, <1>10 DEF AbortCounted, Goes, c
    <2>2. ~ AbortCnt(dm)[o] > 0 => Inside[o] = {}
      BY <1>4, <1>5
    <2> QED
      BY <1>8, <1>9, <2>1, <2>2
  <1>11. CASE AbortAwaited(t)
    <2>1. /\ AbortSem(dm)[o] > 0 /\ Moves(t, c("drain"))
          /\ dm' = [dm EXCEPT !.opncb[o].abort_sem = 0, !.opncb[o].abort_tskid = None]
      BY <1>6, <1>11 DEF AbortAwaited, Goes, c
    <2>2. Inside[o] = {}
      BY <1>4, <1>5, <2>1
    <2> QED
      BY <1>9, <2>1, <2>2
  <1> QED
    BY <1>10, <1>11

(* One turn of the loop over what remains: the next request is aborted and *)
(* waited for, and has gone at the next turn.                              *)
LEMMA DrainedIs ==
  ASSUME IInv, NEW t \in Tasks, NEW o \in OpnCBs, o = call[t].o, NEW m, Typed(m), Drained(t, m)
  PROVE  /\ Typed(dm') /\ Requests(dm') = Requests(m) /\ Many(dm') = Many(m)
         /\ Aborts(dm') = Aborts(m) /\ Opened(dm') = Opened(m)
         /\ \E c : /\ IsCall(c) /\ Moves(t, c) /\ c.o = o /\ c.clean = call[t].clean
                   /\ \/ c.at = "close" /\ Que(m)[o] = <<>>
                      \/ /\ c.at = "drainfn"
                         /\ \E r \in ReqCBs : c.list = <<r>> /\ r \in ToSet(Que(m)[o])
  <1> DEFINE q == m.opncb[o].requestq
             r == Head(q)
             gone == [call[t] EXCEPT !.at = "close", !.list = <<>>]
             next == [call[t] EXCEPT !.at = "drainfn", !.list = <<r>>]
  <1>1. \/ q = <<>> /\ dm' = m /\ Moves(t, gone)
        \/ q # <<>> /\ dm' = [m EXCEPT !.reqcb[r].abort = TRUE] /\ Moves(t, next)
    BY DEF Drained
  <1>2. q = Que(m)[o] /\ q \in Seq(ReqCBs) /\ Fields(m)
    BY DEF Typed, Que
  <1>3. IsCall(call[t])
    BY CallIs
  <1> HIDE DEF q
  <1>4. CASE q = <<>> /\ dm' = m /\ Moves(t, gone)
    <2>1. IsCall(gone) /\ gone.at = "close" /\ gone.o = o /\ gone.clean = call[t].clean
      BY <1>3 DEF IsCall, Call
    <2> HIDE DEF gone
    <2> QED
      BY <1>2, <1>4, <2>1
  <1>5. CASE q # <<>> /\ dm' = [m EXCEPT !.reqcb[r].abort = TRUE] /\ Moves(t, next)
    <2>1. r \in ReqCBs /\ r \in ToSet(q)
      BY <1>2, <1>5, HeadHolds
    <2>2. /\ IsCall(next) /\ next.at = "drainfn" /\ next.o = o /\ next.clean = call[t].clean
          /\ next.list = <<r>>
      BY <1>3, <2>1 DEF IsCall, Call
    <2> HIDE DEF next, r
    <2>3. /\ DOMAIN dm' = DOMAIN m /\ dm'.opncb = m.opncb /\ dm'.FreeReqCB = m.FreeReqCB
          /\ dm'.FreeOpnCB = m.FreeOpnCB /\ dm'.resq = m.resq
          /\ dm'.reqcb = [m.reqcb EXCEPT ![r].abort = TRUE]
      BY <1>2, <1>5 DEF Fields
    <2>4. /\ Fields(dm')
          /\ \A x \in ReqCBs : dm'.reqcb[x].opncb = m.reqcb[x].opncb /\ dm'.reqcb[x].tskid = m.reqcb[x].tskid
      BY <1>2, <2>3 DEF Fields
    <2>5. /\ Requests(dm') = Requests(m) /\ Many(dm') = Many(m)
          /\ Aborts(dm') = Aborts(m) /\ Opened(dm') = Opened(m)
      BY <2>3, <2>4 DEF Requests, Many, Aborts, Opened, Of, By, Que, AbortBy, AbortCnt, AbortSem, Resid
    <2>6. Typed(dm')
      BY <2>4, <2>5 DEF Typed, Requests, Aborts, Opened
    <2> QED
      BY <1>2, <1>5, <2>1, <2>2, <2>5, <2>6
  <1> QED
    BY <1>1, <1>4, <1>5

LEMMA DrainKeeps ==
  ASSUME IInv, NEW t \in Tasks, Drain(t), NEW o, o = call[t].o
  PROVE  IInv'
  <1>1. call[t].at \in {"drain", "drainfn"} /\ UNCHANGED down
    BY DEF Drain, At
  <1>2. call[t].at \in Closing
    BY <1>1 DEF Closing
  <1>3. /\ o \in OpnCBs /\ Closers[o] = {t} /\ Fine(o) /\ WhenClosed(o) /\ t \in Closers[o]
        /\ Typed(dm) /\ Fields(dm) /\ call[t].at \notin Serving \cup Opening
        /\ May[t] \cap {"cls", "end"} # {} /\ (call[t].clean => "end" \in May[t])
    BY <1>2, CloserIs
  <1>4. Types /\ Serve /\ Inside[o] = {}
    BY <1>1, <1>3 DEF IInv, WhenClosed
  <1>5. PICK m : /\ Typed(m) /\ Drained(t, m) /\ Many(m) = Many(dm) /\ Aborts(m) = Aborts(dm)
                 /\ Opened(m) = Opened(dm)
                 /\ \/ Requests(m) = Requests(dm)
                    \/ \E r \in ReqCBs :
                         /\ Of(dm)[r] = o /\ Of(m) = [Of(dm) EXCEPT ![r] = None] /\ By(m) = By(dm)
                         /\ Que(m) = [Que(dm) EXCEPT ![o] = QueRemove(@, r)]
                         /\ m.FreeReqCB = Append(dm.FreeReqCB, r)
    <2>1. CASE call[t].at = "drain"
      <3>1. Drained(t, dm)
        BY <2>1 DEF Drain, At
      <3> QED
        BY <1>3, <3>1
    <2>2. CASE call[t].at = "drainfn"
      <3>1. PICK r \in ReqCBs : call[t].list = <<r>> /\ Of(dm)[r] = o
        BY <1>3, <2>2 DEF WhenClosed
      <3>2. call[t].list[1] = r
        BY <3>1
      <3>3. Drained(t, delReqCB(dm, r))
        BY <2>2, <3>2 DEF Drain, At
      <3>4. Typed(delReqCB(dm, r))
        BY <1>3, <3>1, RequestTyped
      <3> DEFINE n == delReqCB(dm, r)
      <3>5. /\ Of(n) = [Of(dm) EXCEPT ![r] = None] /\ By(n) = By(dm)
            /\ Que(n) = [Que(dm) EXCEPT ![o] = QueRemove(@, r)]
            /\ n.FreeReqCB = Append(dm.FreeReqCB, r)
            /\ Many(n) = Many(dm) /\ Aborts(n) = Aborts(dm) /\ Opened(n) = Opened(dm)
        BY <1>3, <3>1, DelReqIs
      <3>6. Typed(n) /\ Drained(t, n)
        BY <3>3, <3>4
      <3> HIDE DEF n
      <3> QED
        BY <3>1, <3>5, <3>6
    <2> QED
      BY <1>1, <2>1, <2>2
  <1>6. /\ Typed(dm') /\ Requests(dm') = Requests(m) /\ Many(dm') = Many(dm)
        /\ Aborts(dm') = Aborts(dm) /\ Opened(dm') = Opened(dm)
        /\ \E c : /\ IsCall(c) /\ Moves(t, c) /\ c.o = o /\ c.clean = call[t].clean
                  /\ \/ c.at = "close" /\ Que(m)[o] = <<>>
                     \/ /\ c.at = "drainfn"
                        /\ \E r \in ReqCBs : c.list = <<r>> /\ r \in ToSet(Que(m)[o])
    BY <1>3, <1>5, DrainedIs
  <1>7. PICK c : /\ IsCall(c) /\ Moves(t, c) /\ c.o = o /\ c.clean = call[t].clean
                 /\ \/ c.at = "close" /\ Que(m)[o] = <<>>
                    \/ /\ c.at = "drainfn"
                       /\ \E r \in ReqCBs : c.list = <<r>> /\ r \in ToSet(Que(m)[o])
    BY <1>6
  <1>8. c.at \in Closing /\ c.at \notin Serving \cup Opening /\ c.at # "cleanup"
    BY <1>7 DEF Closing, Serving, Opening
  <1>9. /\ call'[t] = c /\ (\A u \in Tasks \ {t} : call'[u] = call[u])
        /\ (\A p \in OpnCBs : Inside'[p] = Inside[p])
        /\ Openers'[o] = Openers[o] /\ Closers'[o] = {t}
        /\ (Requests(dm') = Requests(dm) /\ Many(dm') = Many(dm) => Serve')
    <2>1. /\ call'[t] = c /\ (\A u \in Tasks \ {t} : call'[u] = call[u])
          /\ (\A p \in OpnCBs : Inside'[p] = Inside[p])
          /\ Openers'[o] = Openers[o] /\ Closers'[o] = Closers[o] \cup {t}
          /\ (Requests(dm') = Requests(dm) /\ Many(dm') = Many(dm) => Serve')
      BY <1>3, <1>7, <1>8, CloserMoves
    <2> QED
      BY <1>3, <2>1
  <1>10. /\ Of(dm') = Of(m) /\ By(dm') = By(m) /\ Que(dm') = Que(m) /\ dm'.FreeReqCB = m.FreeReqCB
         /\ Resid(dm') = Resid(dm) /\ dm'.FreeOpnCB = dm.FreeOpnCB
         /\ AbortBy(dm') = AbortBy(dm) /\ AbortCnt(dm') = AbortCnt(dm) /\ AbortSem(dm') = AbortSem(dm)
    BY <1>6 DEF Requests, Opened, Aborts
  <1>11. /\ Serve'
         /\ \A x \in ReqCBs, p \in OpnCBs \ {o} : Of(dm')[x] = p <=> Of(dm)[x] = p
         /\ \A x \in ReqCBs : Of(dm')[x] = o => Of(dm)[x] = o
    <2>1. CASE Requests(m) = Requests(dm)
      <3>1. Of(dm') = Of(dm)
        BY <1>10, <2>1 DEF Requests
      <3> QED
        BY <1>6, <1>9, <2>1, <3>1
    <2>2. ASSUME NEW r \in ReqCBs, Of(dm)[r] = o, Of(m) = [Of(dm) EXCEPT ![r] = None], By(m) = By(dm),
                 Que(m) = [Que(dm) EXCEPT ![o] = QueRemove(@, r)], m.FreeReqCB = Append(dm.FreeReqCB, r)
          PROVE  /\ Serve'
                 /\ \A x \in ReqCBs, p \in OpnCBs \ {o} : Of(dm')[x] = p <=> Of(dm)[x] = p
                 /\ \A x \in ReqCBs : Of(dm')[x] = o => Of(dm)[x] = o
      <3>1. Inside' = Inside
        BY <1>9 DEF Inside
      <3>2. \A p \in OpnCBs : \A u \in Inside[p] : call'[u] = call[u]
        BY <1>3, <1>9 DEF Inside
      <3>5. /\ Of(dm') = [Of(dm) EXCEPT ![r] = None] /\ By(dm') = By(dm) /\ Many(dm') = Many(dm)
            /\ Que(dm') = [Que(dm) EXCEPT ![o] = QueRemove(@, r)]
            /\ dm'.FreeReqCB = Append(dm.FreeReqCB, r)
        BY <1>6, <1>10, <2>2
      <3>6. Types /\ Serve /\ Inside[o] = {} /\ o \in OpnCBs /\ Of(dm)[r] = o
        BY <1>3, <1>4, <2>2
      <3>3. Serve'
        BY <3>1, <3>2, <3>5, <3>6, RequestGoes
      <3>4. \A x \in ReqCBs : Of(dm')[x] = IF x = r THEN None ELSE Of(dm)[x]
        BY <1>3, <1>10, <2>2 DEF Typed
      <3> QED
        BY <1>3, <2>2, <3>3, <3>4, NoneApart
    <2> QED
      BY <1>5, <2>1, <2>2
  <1>12. Fine(o)'
    <2>1. Bare(o) => Bare(o)'
      BY <1>11 DEF Bare
    <2>2. /\ c.at = "close" => Bare(o)'
          /\ c.at = "drainfn" => \E r \in ReqCBs : c.list = <<r>> /\ Of(dm')[r] = o
      <3>1. \A x \in ReqCBs : x \in ToSet(Que(dm')[o]) <=> Of(dm')[x] = o
        BY <1>3, <1>11 DEF Serve, Places
      <3>2. ToSet(<<>>) = {}
        BY DEF ToSet
      <3> QED
        BY <1>7, <1>10, <3>1, <3>2 DEF Bare
    <2>3. WhenFree(o)'
      BY <1>1, <1>3, <1>9, <1>10, <2>1 DEF Fine, WhenFree
    <2>4. WhenOpened(o)'
      <3>1. WhenOpened(o)
        BY <1>3 DEF Fine
      <3> QED
        BY <1>1, <1>3, <1>9, <1>10, <2>1, <3>1 DEF WhenOpened
    <2>5. WhenClosed(o)'
      <3>1. Resid(dm)[o] = 0 \/ (down /\ Bare(o))
        BY <1>3 DEF WhenClosed
      <3>2. c.at \in {"close", "drainfn"}
        BY <1>7
      <3> QED
        BY <1>1, <1>3, <1>4, <1>9, <1>10, <2>1, <2>2, <3>1, <3>2 DEF WhenClosed
    <2>6. WhenNotClosed(o)'
      BY <1>9 DEF WhenNotClosed
    <2> QED
      BY <2>3, <2>4, <2>5, <2>6 DEF Fine
  <1>13. down' \in BOOLEAN /\ (down => down') /\ (~ down' => Once(dm'.FreeOpnCB))
    BY <1>1, <1>10 DEF IInv, Types
  <1> QED
    BY <1>3, <1>6, <1>7, <1>8, <1>10, <1>11, <1>12, <1>13, Settled

LEMMA CloseDeviceKeeps ==
  ASSUME IInv, NEW t \in Tasks, knl_close_device(t), NEW o, o = call[t].o
  PROVE  IInv'
  <1> DEFINE c(where) == [call[t] EXCEPT !.at = where]
  <1>1. /\ call[t].at = "close" /\ UNCHANGED down /\ dm' = delOpnCB(dm, o, FALSE)
        /\ Moves(t, c("closed")) \/ Moves(t, c("closefn"))
    BY DEF knl_close_device, At, Goes
  <1>2. call[t].at \in Closing
    BY <1>1 DEF Closing
  <1>3. o \in OpnCBs /\ WhenClosed(o) /\ t \in Closers[o] /\ Typed(dm) /\ Fields(dm)
    BY <1>2, CloserIs
  <1>4. Bare(o) /\ Inside[o] = {}
    BY <1>1, <1>3 DEF WhenClosed
  <1>5. PICK where \in {"closed", "closefn"} : Moves(t, c(where))
    BY <1>1
  <1> DEFINE d == c(where)
  <1>6. IsCall(d) /\ d.at = where /\ d.o = o /\ d.clean = call[t].clean /\ Moves(t, d)
    BY <1>5, CallIs
  <1> HIDE DEF d
  <1>7. d.at \in Closing
    BY <1>6 DEF Closing
  <1>8. Typed(dm')
    BY <1>1, <1>3, DescriptorTyped
  <1>9. /\ Requests(dm') = Requests(dm) /\ Many(dm') = Many(dm) /\ Aborts(dm') = Aborts(dm)
        /\ Resid(dm') = [Resid(dm) EXCEPT ![o] = 0] /\ dm'.FreeOpnCB = dm.FreeOpnCB
    <2> DEFINE queue == dm.FreeOpnCB
    <2>1. dm' = Deleted(dm, o, queue)
      BY <1>1, DelOpnEither
    <2> HIDE DEF queue
    <2>2. /\ Requests(dm') = Requests(dm) /\ Many(dm') = Many(dm) /\ Aborts(dm') = Aborts(dm)
          /\ Resid(dm') = [Resid(dm) EXCEPT ![o] = 0] /\ dm'.FreeOpnCB = queue
      BY <1>3, <2>1, DelOpnIs
    <2> QED
      BY <2>2 DEF queue
  <1>10. /\ \A p \in OpnCBs \ {o} :
              /\ Resid(dm')[p] = Resid(dm)[p] /\ AbortBy(dm')[p] = AbortBy(dm)[p]
              /\ AbortCnt(dm')[p] = AbortCnt(dm)[p] /\ AbortSem(dm')[p] = AbortSem(dm)[p]
         /\ Resid(dm')[o] = 0
    BY <1>3, <1>9 DEF Typed, Aborts
  <1> QED
    BY <1>1, <1>2, <1>4, <1>6, <1>7, <1>8, <1>9, <1>10, ClosingGoes

(* What is written when a descriptor goes back to the free ones. *)
LEMMA FreedIs ==
  ASSUME Types, Serve, NEW o \in OpnCBs, Bare(o), NEW n,
         n = [dm EXCEPT !.FreeOpnCB = Append(@, o), !.opncb[o] = NoOpn]
  PROVE  /\ Writes(dm, n, o) /\ n.FreeOpnCB = Append(dm.FreeOpnCB, o)
         /\ n.opncb[o].resid = 0 /\ n.opncb[o].abort_tskid = None /\ n.opncb[o].abort_sem = 0
  <1>1. Typed(dm) /\ Fields(dm) /\ dm.FreeOpnCB \in Seq(OpnCBs) /\ dm.resq \in Seq(OpnCBs)
    BY DEF Types, Typed
  <1>2. dm.opncb[o].requestq = <<>> /\ dm.opncb[o].waireqlst = <<>>
    <2>1. Que(dm)[o] = <<>> /\ Many(dm)[o] = <<>>
      BY BareIs
    <2> QED
      BY <2>1 DEF Que, Many
  <1>3. /\ DOMAIN n = DOMAIN dm /\ n.reqcb = dm.reqcb /\ n.FreeReqCB = dm.FreeReqCB
        /\ n.FreeOpnCB = Append(dm.FreeOpnCB, o) /\ n.resq = dm.resq
        /\ n.opncb = [dm.opncb EXCEPT ![o] = NoOpn]
    BY <1>1 DEF Fields
  <1>4. /\ NoOpn.requestq = <<>> /\ NoOpn.waireqlst = <<>> /\ NoOpn.resid = 0
        /\ NoOpn.abort_tskid = None /\ NoOpn.abort_cnt = 0 /\ NoOpn.abort_sem = 0
        /\ DOMAIN NoOpn = {"devcb", "unitno", "omode", "requestq", "waitone", "waireqlst",
                           "abort_tskid", "abort_cnt", "abort_sem", "resid"}
    BY DEF NoOpn
  <1>5. n.opncb[o] = NoOpn /\ DOMAIN n.opncb = OpnCBs /\ \A p \in OpnCBs \ {o} : n.opncb[p] = dm.opncb[p]
    BY <1>1, <1>3 DEF Fields
  <1>6. Fields(n)
    <2>1. \A p \in OpnCBs : DOMAIN n.opncb[p] = {"devcb", "unitno", "omode", "requestq", "waitone", "waireqlst",
                           "abort_tskid", "abort_cnt", "abort_sem", "resid"}
      BY <1>1, <1>4, <1>5 DEF Fields
    <2> QED
      BY <1>1, <1>3, <1>5, <2>1 DEF Fields
  <1>7. n.FreeOpnCB \in Seq(OpnCBs)
    BY <1>1, <1>3
  <1> QED
    BY <1>1, <1>2, <1>3, <1>4, <1>5, <1>6, <1>7 DEF Writes

LEMMA CloseBack ==
  ASSUME IInv, NEW t \in Tasks, CloseEnds(t), NEW o, o = call[t].o
  PROVE  IInv'
  <1> DEFINE again == [NoCall EXCEPT !.at = "cleanup", !.clean = TRUE]
             queue == dm.FreeOpnCB
  <1>1. /\ call[t].at \in {"closed", "closefn"} /\ UNCHANGED down
        /\ dm' = [dm EXCEPT !.FreeOpnCB = Append(@, o), !.opncb[o] = NoOpn]
        /\ (call[t].clean /\ Moves(t, again)) \/ Moves(t, NoCall)
    BY DEF CloseEnds, At, Ends
  <1>2. call[t].at \in Closing
    BY <1>1 DEF Closing
  <1>3. /\ o \in OpnCBs /\ WhenClosed(o) /\ t \in Closers[o] /\ Closers[o] = {t} /\ Fine(o)
        /\ Typed(dm) /\ Fields(dm) /\ call[t].at \notin Serving \cup Opening
        /\ (call[t].clean => "end" \in May[t])
        /\ (~ down => o \notin ToSet(dm.FreeOpnCB) /\ Openers[o] = {})
    BY <1>2, CloserIs
  <1>4. Types /\ Serve /\ Bare(o) /\ Inside[o] = {}
    BY <1>1, <1>3 DEF IInv, WhenClosed
  <1>5. PICK c : /\ IsCall(c) /\ Moves(t, c) /\ c.at \notin Engaged
                 /\ (c.clean \/ c.at = "cleanup" => "end" \in May[t])
    <2>1. IsCall(again) /\ again.at = "cleanup"
      BY DEF IsCall, Call, NoCall
    <2>2. again.at \notin Engaged
      BY <2>1 DEF Engaged, Serving, Opening, Closing
    <2> HIDE DEF again
    <2>3. CASE call[t].clean /\ Moves(t, again)
      BY <1>3, <2>1, <2>2, <2>3
    <2>4. CASE Moves(t, NoCall)
      BY <2>4, NoCalling
    <2> QED
      BY <1>1, <2>3, <2>4
  <1>6. c.at \notin Serving \cup Opening /\ c.at \notin Closing
    BY <1>5 DEF Engaged
  <1>7. /\ Writes(dm, dm', o) /\ dm'.FreeOpnCB = Append(queue, o)
        /\ dm'.opncb[o].resid = 0 /\ dm'.opncb[o].abort_tskid = None /\ dm'.opncb[o].abort_sem = 0
    <2>1. dm' = [dm EXCEPT !.FreeOpnCB = Append(@, o), !.opncb[o] = NoOpn]
      BY <1>1
    <2> QED
      BY <1>3, <1>4, <2>1, FreedIs
  <1>8. /\ Typed(dm') /\ Requests(dm') = Requests(dm) /\ Many(dm') = Many(dm) /\ Of(dm') = Of(dm)
        /\ \A p \in OpnCBs \ {o} :
              /\ Resid(dm')[p] = Resid(dm)[p] /\ AbortBy(dm')[p] = AbortBy(dm)[p]
              /\ AbortCnt(dm')[p] = AbortCnt(dm)[p] /\ AbortSem(dm')[p] = AbortSem(dm)[p]
        /\ Resid(dm')[o] = 0 /\ AbortBy(dm')[o] = None /\ AbortSem(dm')[o] = 0
    BY <1>3, <1>7, Written
  <1>9. /\ Openers'[o] = Openers[o] /\ Closers'[o] = {} /\ Serve'
    <2>1. Openers'[o] = Openers[o] /\ Closers'[o] = Closers[o] \ {t} /\ Serve'
      BY <1>3, <1>5, <1>6, <1>8, CloserMoves
    <2> QED
      BY <1>3, <2>1
  <1>10. /\ ToSet(dm'.FreeOpnCB) = ToSet(queue) \cup {o}
         /\ ~ down => Once(dm'.FreeOpnCB)
    <2>1. queue \in Seq(OpnCBs) /\ (~ down => Once(queue))
      BY <1>3 DEF IInv, Typed
    <2> HIDE DEF queue
    <2>2. /\ ToSet(Append(queue, o)) = ToSet(queue) \cup {o}
          /\ Once(queue) /\ o \notin ToSet(queue) => Once(Append(queue, o))
      BY <1>3, <2>1, AppendHolds
    <2>3. ~ down => o \notin ToSet(queue)
      BY <1>3 DEF queue
    <2> QED
      BY <1>7, <2>1, <2>2, <2>3
  <1>11. Bare(o)'
    BY <1>4, <1>8 DEF Bare
  <1>12. Fine(o)'
    <2>1. WhenFree(o)'
      BY <1>1, <1>3, <1>8, <1>9, <1>11 DEF WhenFree
    <2>2. WhenOpened(o)'
      BY <1>1, <1>3, <1>9, <1>11 DEF WhenOpened
    <2>3. WhenClosed(o)' /\ WhenNotClosed(o)'
      BY <1>8, <1>9 DEF WhenClosed, WhenNotClosed
    <2> QED
      BY <2>1, <2>2, <2>3 DEF Fine
  <1>13. down' \in BOOLEAN /\ (down => down') /\ (~ down' => Once(dm'.FreeOpnCB))
    BY <1>1, <1>4, <1>10 DEF Types
  <1>14. \A p \in OpnCBs \ {o} : p \in ToSet(dm'.FreeOpnCB) => p \in ToSet(dm.FreeOpnCB)
    BY <1>10
  <1> QED
    BY <1>3, <1>5, <1>6, <1>8, <1>9, <1>12, <1>13, <1>14, Settled

-----------------------------------------------------------------------------
LEMMA IInvInit == Init => IInv
  <1> SUFFICES ASSUME Init PROVE IInv
    OBVIOUS
  <1>1. PICK ds \in SetToSeqs(DevCBs), os \in SetToSeqs(OpnCBs), rs \in SetToSeqs(ReqCBs) :
       dm = [devcb |-> [d \in DevCBs |-> NoDev], opncb |-> [o \in OpnCBs |-> NoOpn],
             reqcb |-> [r \in ReqCBs |-> NoReq], UsedDevCB |-> <<>>, FreeDevCB |-> ds,
             FreeOpnCB |-> os, FreeReqCB |-> rs, resq |-> <<>>, dissus |-> 0]
    BY DEF Init
  <1>2. os \in Seq(OpnCBs) /\ Once(os) /\ rs \in Seq(ReqCBs) /\ Once(rs)
    BY AllHolds, DeviceAssumption
  <1>3. /\ dm.FreeReqCB = rs /\ dm.FreeOpnCB = os /\ dm.resq = <<>>
        /\ dm.opncb = [o \in OpnCBs |-> NoOpn] /\ dm.reqcb = [r \in ReqCBs |-> NoReq]
        /\ DOMAIN dm = {"devcb", "opncb", "reqcb", "UsedDevCB", "FreeDevCB", "FreeOpnCB", "FreeReqCB",
                        "resq", "dissus"}
    BY <1>1
  <1>4. /\ NoOpn.requestq = <<>> /\ NoOpn.waireqlst = <<>> /\ NoOpn.resid = 0
        /\ NoOpn.abort_tskid = None /\ NoOpn.abort_cnt = 0 /\ NoOpn.abort_sem = 0
        /\ DOMAIN NoOpn = {"devcb", "unitno", "omode", "requestq", "waitone", "waireqlst",
                           "abort_tskid", "abort_cnt", "abort_sem", "resid"}
    BY DEF NoOpn
  <1>5. NoReq.opncb = None /\ NoReq.tskid = None /\ DOMAIN NoReq = {"opncb", "tskid", "abort"}
    BY DEF NoReq
  <1>6. Fields(dm)
    BY <1>3, <1>4, <1>5 DEF Fields
  <1>7. /\ Of(dm) = [r \in ReqCBs |-> None] /\ By(dm) = [r \in ReqCBs |-> None]
        /\ Que(dm) = [o \in OpnCBs |-> <<>>] /\ Many(dm) = [o \in OpnCBs |-> <<>>]
        /\ Resid(dm) = [o \in OpnCBs |-> 0] /\ AbortBy(dm) = [o \in OpnCBs |-> None]
        /\ AbortCnt(dm) = [o \in OpnCBs |-> 0] /\ AbortSem(dm) = [o \in OpnCBs |-> 0]
    BY <1>3, <1>4, <1>5 DEF Of, By, Que, Many, Resid, AbortBy, AbortCnt, AbortSem
  <1>8. Typed(dm)
    BY <1>2, <1>3, <1>6, <1>7 DEF Typed
  <1>9. call = [t \in Tasks |-> NoCall] /\ down = FALSE
    BY DEF Init
  <1>10. Called /\ \A t \in Tasks : call[t].at \notin Engaged /\ call[t].at = "none" /\ call[t].clean = FALSE
    BY <1>9, NoCalling DEF Called
  <1>11. Types
    BY <1>8, <1>9, <1>10 DEF Types, Engaged
  <1>12. \A o \in OpnCBs : Inside[o] = {} /\ Closers[o] = {} /\ Openers[o] = {}
    BY <1>10 DEF Inside, Closers, Openers, Engaged
  <1>13. Serve
    <2>1. Places
      <3>1. Once(<<>>) /\ ToSet(<<>>) = {}
        BY DEF Once, ToSet
      <3>2. \A r \in ToSet(rs) : r \in ReqCBs
        BY <1>2 DEF ToSet
      <3> QED
        BY <1>2, <1>3, <1>7, <3>1, <3>2, NoneApart DEF Places
    <2>2. Held
      BY <1>12 DEF Held
    <2>3. Owned
      BY <1>7, NoneApart DEF Owned
    <2>4. Alone
      BY <1>7 DEF Alone
    <2> QED
      BY <2>1, <2>2, <2>3, <2>4 DEF Serve
  <1>14. ASSUME NEW o \in OpnCBs PROVE Fine(o)
    <2>1. Bare(o)
      BY <1>7, NoneApart DEF Bare
    <2> QED
      BY <1>7, <1>12, <2>1 DEF Fine, WhenFree, WhenOpened, WhenClosed, WhenNotClosed
  <1>15. Permitted
    BY <1>10 DEF Permitted, Engaged
  <1> QED
    BY <1>2, <1>3, <1>11, <1>13, <1>14, <1>15 DEF IInv

LEMMA IInvStep ==
  ASSUME CleanupAlone \/ ~ down', ~ Mixed, IInv, Together, [Next]_vars
  PROVE  IInv'
  <1>1. CASE UNCHANGED vars
    <2>1. dm' = dm /\ call' = call /\ down' = down
      BY <1>1 DEF vars
    <2>2. /\ Of(dm') = Of(dm) /\ By(dm') = By(dm) /\ Que(dm') = Que(dm) /\ Many(dm') = Many(dm)
          /\ Resid(dm') = Resid(dm) /\ AbortBy(dm') = AbortBy(dm) /\ AbortCnt(dm') = AbortCnt(dm)
          /\ AbortSem(dm') = AbortSem(dm) /\ (Typed(dm') <=> Typed(dm))
      BY <2>1
    <2>3. Inside' = Inside /\ Closers' = Closers /\ Openers' = Openers
      BY <2>1 DEF Inside, Closers, Openers
    <2>4. Types' /\ Permitted'
      BY <2>1, <2>2 DEF IInv, Types, Called, Permitted
    <2>5. Serve'
      BY <2>1, <2>2, <2>3 DEF IInv, Serve, Places, Held, Owned, Alone
    <2>6. ASSUME NEW o \in OpnCBs PROVE Fine(o)'
      BY <2>1, <2>2, <2>3 DEF IInv, Fine, WhenFree, WhenOpened, WhenClosed, WhenNotClosed, Bare
    <2>7. ~ down' => Once(dm'.FreeOpnCB)
      BY <2>1 DEF IInv
    <2> QED
      BY <2>4, <2>5, <2>6, <2>7 DEF IInv
  <1>2. CASE Next
    <2>1. PICK t \in Tasks :
            \/ \E n \in Names : \/ Unregister(t, n)
                                \/ \E ddev \in Ddevs[n] : tk_def_dev(t, n, ddev)
                                \/ \E ddev \in Ddevs[n], omode \in Modes[n] :
                                     \E u \in 0..ddev.nsub : tk_opn_dev(t, n, u, omode)
            \/ \E d \in DevCBs : tk_evt_dev(t, d)
            \/ \E o \in OpnCBs :
                 \/ tk_rea_dev(t, o) \/ tk_srea_dev(t, o) \/ tk_wri_dev(t, o) \/ tk_swri_dev(t, o)
                 \/ tk_wai_dev(t, o)
                 \/ tk_cls_dev(t, o)
            \/ EventEnds(t) \/ OpenEnds(t) \/ OpenFails(t)
            \/ RequestEnds(t) \/ RequestFails(t) \/ WaitRefused(t)
            \/ \E done \in 0..Len(call[t].list) : WaitEnds(t, done)
            \/ abort_allrequest(t) \/ AbortCounted(t) \/ AbortAwaited(t) \/ Drain(t)
            \/ knl_close_device(t) \/ CloseEnds(t)
            \/ tk_sus_dev(t) \/ do_suspend(t) \/ Sleep(t)
            \/ \E pass \in ToSet(Passes) \ {"asleep"} : sendevt_alldevice(t, pass)
            \/ knl_devmgr_cleanup(t)
      BY <1>2 DEF Next
    <2>2. ASSUME \/ EventEnds(t) \/ WaitRefused(t) \/ tk_sus_dev(t) \/ do_suspend(t) \/ Sleep(t)
                 \/ \E d \in DevCBs : tk_evt_dev(t, d)
                 \/ \E n \in Names : Unregister(t, n) \/ \E ddev : tk_def_dev(t, n, ddev)
                 \/ \E pass \in ToSet(Passes) \ {"asleep"} : sendevt_alldevice(t, pass)
          PROVE  IInv'
      BY <2>2, SuspendKeeps
    <2>3. ASSUME NEW n, NEW u, NEW omode, tk_opn_dev(t, n, u, omode) PROVE IInv'
      BY <2>3, OpenKeeps
    <2>4. ASSUME NEW o \in OpnCBs,
                 \/ tk_rea_dev(t, o) \/ tk_srea_dev(t, o) \/ tk_wri_dev(t, o) \/ tk_swri_dev(t, o)
          PROVE  IInv'
      <3>1. \E need, sync : knl_request(t, o, need, sync)
        BY <2>4 DEF tk_rea_dev, tk_srea_dev, tk_wri_dev, tk_swri_dev
      <3> QED
        BY <3>1, RequestKeeps
    <2>5. ASSUME NEW o \in OpnCBs, tk_wai_dev(t, o) PROVE IInv'
      BY <2>5, WaitAnyKeeps, WaitOneKeeps DEF tk_wai_dev
    <2>6. ASSUME NEW o \in OpnCBs, tk_cls_dev(t, o) PROVE IInv'
      BY <2>6, CloseKeeps
    <2>7. CASE OpenEnds(t) \/ OpenFails(t)
      BY <2>7, OpenBack
    <2>8. CASE RequestEnds(t) \/ RequestFails(t)
      BY <2>8, RequestBack
    <2>9. ASSUME NEW done \in 0 .. Len(call[t].list), WaitEnds(t, done) PROVE IInv'
      BY <2>9, WaitBack
    <2>10. CASE abort_allrequest(t)
      BY <2>10, AbortKeeps
    <2>11. CASE AbortCounted(t) \/ AbortAwaited(t)
      BY <2>11, AbortGoes
    <2>12. CASE Drain(t)
      BY <2>12, DrainKeeps
    <2>13. CASE knl_close_device(t)
      BY <2>13, CloseDeviceKeeps
    <2>14. CASE CloseEnds(t)
      BY <2>14, CloseBack
    <2>15. CASE knl_devmgr_cleanup(t)
      <3>1. CleanupAlone
        BY <2>15 DEF knl_devmgr_cleanup
      <3> QED
        BY <2>15, <3>1, CleanupKeeps
    <2> QED
      BY <2>1, <2>2, <2>3, <2>4, <2>5, <2>6, <2>7, <2>8, <2>9, <2>10, <2>11, <2>12, <2>13, <2>14, <2>15
  <1> QED
    BY <1>1, <1>2

(* Nothing is as before once the device manager shuts down. *)
LEMMA DownStays == [Next]_vars => UNCHANGED down \/ down' = TRUE
  <1> SUFFICES ASSUME Next PROVE UNCHANGED down \/ down' = TRUE
    BY DEF vars
  <1>1. PICK t \in Tasks :
          \/ \E n \in Names : \/ Unregister(t, n)
                              \/ \E ddev \in Ddevs[n] : tk_def_dev(t, n, ddev)
                              \/ \E ddev \in Ddevs[n], omode \in Modes[n] :
                                   \E u \in 0..ddev.nsub : tk_opn_dev(t, n, u, omode)
          \/ \E d \in DevCBs : tk_evt_dev(t, d)
          \/ \E o \in OpnCBs :
               \/ tk_rea_dev(t, o) \/ tk_srea_dev(t, o) \/ tk_wri_dev(t, o) \/ tk_swri_dev(t, o)
               \/ tk_wai_dev(t, o)
               \/ tk_cls_dev(t, o)
          \/ EventEnds(t) \/ OpenEnds(t) \/ OpenFails(t)
          \/ RequestEnds(t) \/ RequestFails(t) \/ WaitRefused(t)
          \/ \E done \in 0..Len(call[t].list) : WaitEnds(t, done)
          \/ abort_allrequest(t) \/ AbortCounted(t) \/ AbortAwaited(t) \/ Drain(t)
          \/ knl_close_device(t) \/ CloseEnds(t)
          \/ tk_sus_dev(t) \/ do_suspend(t) \/ Sleep(t)
          \/ \E pass \in ToSet(Passes) \ {"asleep"} : sendevt_alldevice(t, pass)
          \/ knl_devmgr_cleanup(t)
    BY DEF Next
  <1>2. /\ \A n : Unregister(t, n) => UNCHANGED down
        /\ \A n, ddev : tk_def_dev(t, n, ddev) => UNCHANGED down
        /\ \A n, u, omode : tk_opn_dev(t, n, u, omode) => UNCHANGED down
        /\ \A d : tk_evt_dev(t, d) => UNCHANGED down
    BY DEF Unregister, tk_def_dev, tk_opn_dev, tk_evt_dev
  <1>3. \A o : \/ tk_rea_dev(t, o) \/ tk_srea_dev(t, o) \/ tk_wri_dev(t, o) \/ tk_swri_dev(t, o)
               \/ tk_wai_dev(t, o) \/ tk_cls_dev(t, o)
               => UNCHANGED down
    BY DEF tk_rea_dev, tk_srea_dev, tk_wri_dev, tk_swri_dev, knl_request, tk_wai_dev, WaitAny, WaitOne,
           tk_cls_dev
  <1>4. EventEnds(t) \/ OpenEnds(t) \/ OpenFails(t) \/ RequestEnds(t) \/ RequestFails(t) \/ WaitRefused(t)
        => UNCHANGED down
    BY DEF EventEnds, OpenEnds, OpenFails, RequestEnds, RequestFails, WaitRefused
  <1>5. \A done : WaitEnds(t, done) => UNCHANGED down
    BY DEF WaitEnds
  <1>6. \/ abort_allrequest(t) \/ AbortCounted(t) \/ AbortAwaited(t) \/ Drain(t) \/ knl_close_device(t)
        \/ CloseEnds(t)
        => UNCHANGED down
    BY DEF abort_allrequest, AbortCounted, AbortAwaited, Drain, knl_close_device, CloseEnds
  <1>7. tk_sus_dev(t) \/ do_suspend(t) \/ Sleep(t) => UNCHANGED down
    BY DEF tk_sus_dev, TD_DISSUS, TD_ENASUS, TD_SUSPEND, do_suspend, Sleep
  <1>8. \A pass : sendevt_alldevice(t, pass) => UNCHANGED down
    BY DEF sendevt_alldevice
  <1>9. knl_devmgr_cleanup(t) => down' = TRUE
    BY DEF knl_devmgr_cleanup
  <1> QED
    BY <1>1, <1>2, <1>3, <1>4, <1>5, <1>6, <1>7, <1>8, <1>9

LEMMA InDriverIs ==
  ASSUME IInv, NEW t \in Tasks, call[t].at \in Serving \cup Closing
  PROVE  call[t].o \in OpnCBs /\ InDriver(call[t].o) = Inside[call[t].o]
  BY DEF IInv, Types, InDriver, Inside

LEMMA HoldsRequests == ASSUME IInv PROVE RequestsHeld
  <1> SUFFICES ASSUME NEW t \in Tasks, call[t].at \in Serving, NEW o, o = call[t].o,
                      NEW r \in ToSet(call[t].list)
               PROVE  /\ dm.reqcb[r].opncb = o /\ dm.reqcb[r].tskid = t
                      /\ r \in ToSet(dm.opncb[o].requestq) \ ToSet(dm.FreeReqCB)
    BY DEF RequestsHeld
  <1>1. o \in OpnCBs /\ call[t].list \in Seq(ReqCBs)
    BY DEF IInv, Types, Called, IsCall
  <1>2. t \in Inside[o] /\ r \in ReqCBs
    BY <1>1 DEF Inside, ToSet
  <1>3. Of(dm)[r] = o /\ By(dm)[r] = t
    BY <1>1, <1>2 DEF IInv, Serve, Held
  <1>4. r \in ToSet(Que(dm)[o]) /\ r \notin ToSet(dm.FreeReqCB)
    BY <1>1, <1>2, <1>3, NoneApart DEF IInv, Serve, Places
  <1> QED
    BY <1>1, <1>2, <1>3, <1>4 DEF Of, By, Que

LEMMA LeavesNothing == ASSUME IInv PROVE NothingLeftInDriver
  <1> SUFFICES ASSUME NEW t \in Tasks, NEW o, o = call[t].o,
                      call[t].at \in {"drain", "drainfn", "close", "closed", "closefn"}
               PROVE  /\ InDriver(o) = {}
                      /\ call[t].at \in {"closed", "closefn"} => \A r \in DOMAIN dm.reqcb : dm.reqcb[r].opncb # o
    BY DEF NothingLeftInDriver
  <1>1. call[t].at \in Closing
    BY DEF Closing
  <1>2. o \in OpnCBs /\ t \in Closers[o] /\ WhenClosed(o) /\ Fields(dm)
    BY <1>1, CloserIs
  <1>3. InDriver(o) = Inside[o]
    BY <1>1, InDriverIs
  <1>4. Inside[o] = {} /\ (call[t].at \in {"closed", "closefn"} => Bare(o))
    BY <1>2 DEF WhenClosed
  <1> QED
    BY <1>2, <1>3, <1>4 DEF Bare, Of, Fields

LEMMA Wakes == ASSUME IInv PROVE CloseIsWoken
  <1> SUFFICES ASSUME NEW t \in Tasks, NEW o, o = call[t].o, call[t].at \in {"aborted", "semwait"}
               PROVE  /\ dm.opncb[o].abort_cnt = Cardinality(InDriver(o))
                      /\ call[t].at = "semwait" =>
                           (dm.opncb[o].abort_sem = 0) = (dm.opncb[o].abort_cnt > 0)
    BY DEF CloseIsWoken
  <1>1. call[t].at \in Closing
    BY DEF Closing
  <1>2. o \in OpnCBs /\ t \in Closers[o] /\ WhenClosed(o)
    BY <1>1, CloserIs
  <1>3. InDriver(o) = Inside[o]
    BY <1>1, InDriverIs
  <1>4. Cardinality(Inside[o]) \in Nat
    BY <1>2, AbortCounts
  <1>5. /\ AbortCnt(dm)[o] = Cardinality(Inside[o]) /\ (AbortCnt(dm)[o] > 0 => AbortSem(dm)[o] = 0)
        /\ call[t].at = "semwait" /\ AbortCnt(dm)[o] = 0 => AbortSem(dm)[o] = 1
    BY <1>2 DEF WhenClosed
  <1>6. dm.opncb[o].abort_cnt = AbortCnt(dm)[o] /\ dm.opncb[o].abort_sem = AbortSem(dm)[o]
    BY <1>2 DEF AbortCnt, AbortSem
  <1>7. call[t].at = "semwait" => (AbortSem(dm)[o] = 0 <=> AbortCnt(dm)[o] > 0)
    BY <1>4, <1>5
  <1> QED
    BY <1>3, <1>5, <1>6, <1>7

LEMMA IInvHolds == ASSUME CleanupAlone, ~ Mixed PROVE Spec => []IInv
  <1>1. Init => Together /\ IInv
    BY TogetherInit, IInvInit
  <1>2. Together /\ IInv /\ [Next]_vars => (Together /\ IInv)'
    BY TogetherStep, IInvStep
  <1> QED
    BY <1>1, <1>2, PTL DEF Spec

(* The requests a task is in the driver with are its own as long as it is  *)
(* there: nobody takes them over, returns them to the free blocks or moves *)
(* them to another descriptor, however many tasks start, wait for and      *)
(* abort requests (knl_request, tk_wai_dev, abort_allrequest).             *)
THEOREM HoldsItsRequests == ASSUME CleanupAlone, ~ Mixed PROVE Spec => []RequestsHeld
  BY IInvHolds, HoldsRequests, PTL

(* Once knl_close_device waits for the remaining requests no task is in    *)
(* the driver with one of the descriptor, and when the descriptor goes it  *)
(* has no request.                                                         *)
THEOREM LeavesNothingInDriver == ASSUME CleanupAlone, ~ Mixed PROVE Spec => []NothingLeftInDriver
  BY IInvHolds, LeavesNothing, PTL

(* abort_cnt is the number of tasks in the driver from abort_allrequest    *)
(* on, and the semaphore is signalled exactly when it has come down to 0.  *)
THEOREM WakesWhoCloses == ASSUME CleanupAlone, ~ Mixed PROVE Spec => []CloseIsWoken
  BY IInvHolds, Wakes, PTL

(* Until the device manager shuts down the three hold whoever closes and   *)
(* whoever will shut down.                                                 *)
THEOREM HoldBeforeShutdown ==
  ASSUME ~ Mixed
  PROVE  Spec => [](~ down => RequestsHeld /\ NothingLeftInDriver /\ CloseIsWoken)
  <1> DEFINE Up == Together /\ (~ down => IInv)
  <1>1. Init => Up
    BY TogetherInit, IInvInit
  <1>2. Up /\ [Next]_vars => Up'
    <2> SUFFICES ASSUME Together, ~ down => IInv, [Next]_vars, ~ down' PROVE IInv'
      BY TogetherStep
    <2>1. ~ down
      BY DownStays
    <2> QED
      BY <2>1, IInvStep
  <1>3. Up => (~ down => RequestsHeld /\ NothingLeftInDriver /\ CloseIsWoken)
    BY HoldsRequests, LeavesNothing, Wakes
  <1> QED
    BY <1>1, <1>2, <1>3, PTL DEF Spec
=============================================================================
