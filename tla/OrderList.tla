----------------------------- MODULE OrderList ------------------------------
(***************************************************************************)
(* The linked list of orders (CAV/src/list.c) and its two users: the drive *)
(* task, which puts the entry order at the front, looks at the first order *)
(* and takes it off (CAV/src/drive.c), and the handler of the radio, which *)
(* appends a reply (CAV/src/client.c).  Nothing locks the list: the        *)
(* handler runs from its start to its end between any two memory accesses  *)
(* of the task, so the accesses of list_unshift and list_shift are steps,  *)
(* in source order.                                                        *)
(*                                                                         *)
(* An order is a direction and a time, 1 as sent and 2 when two equal      *)
(* orders have been merged.  It lies in a block of memory of its own, that *)
(* an element of the list points to: list_shift frees the element, and     *)
(* nobody the order.                                                       *)
(***************************************************************************)
EXTENDS Integers, SequencesExt

CONSTANTS
  Direction,
  MaxReply,      (* bound: orders in a reply *)
  MaxHeap,       (* bound: elements that are allocated at a time *)
  MaxOrder       (* bound: orders in all, for none is freed *)

ASSUME OrderListAssumption ==
  /\ Direction # {}
  /\ MaxReply \in Nat /\ MaxOrder \in Nat
  /\ MaxHeap \in Nat /\ MaxHeap < 65535

NULL == 0
Element == 1 .. MaxHeap

VARIABLES
  list,     (* head, tail and length *)
  next,     (* element -> the element after it or NULL *)
  data,     (* element -> the block its order is in *)
  heap,     (* the elements that are allocated *)
  order,    (* the blocks of the orders, as they were allocated *)
  pc,       (* where the drive task is; "idle" between two operations *)
  elem,     (* new_element of list_unshift, tmp of list_shift *)
  reg,      (* the value the task has loaded and not stored yet *)
  fault,    (* the handler has followed a pointer to no element *)
  raced     (* history: the handler came where the list is exposed to it *)

memory == << list, next, data, heap, order >>
vars == << memory, pc, elem, reg, fault, raced >>

Order == [dir : Direction, time : 1 .. 2]
Sent(d) == [dir |-> d, time |-> 1]

(* length is an UH. *)
Counted(length, change) == (length + change) % 65536

Free(m) == Element \ m.heap
New(m)  == CHOOSE e \in Free(m) : \A f \in Free(m) : e <= f

Memory == [list |-> list, next |-> next, data |-> data, heap |-> heap, order |-> order]

Store(m) ==
  list' = m.list /\ next' = m.next /\ data' = m.data /\ heap' = m.heap /\ order' = m.order

Init ==
  /\ list = [head |-> NULL, tail |-> NULL, length |-> 0]
  /\ next = [e \in Element |-> NULL]
  /\ data = [e \in Element |-> NULL]
  /\ heap = {} /\ order = << >>
  /\ pc = "idle" /\ elem = NULL /\ reg = 0
  /\ fault = FALSE /\ raced = FALSE

(* Mutant of list_append: tail stays where it was. *)
list_append_tail(m, block) ==
  LET e == New(m)
      linked == IF m.list.head = NULL THEN m.next ELSE [m.next EXCEPT ![m.list.tail] = e]
  IN  [list |-> [head   |-> IF m.list.head = NULL THEN e ELSE m.list.head,
                 tail   |-> IF m.list.head = NULL THEN e ELSE m.list.tail,
                 length |-> Counted(m.list.length, 1)],
       next |-> [linked EXCEPT ![e] = NULL],
       data |-> [m.data EXCEPT ![e] = block],
       heap |-> m.heap \cup {e},
       order |-> m.order]

list_append(m, block) ==
  LET e == New(m)
      linked == IF m.list.head = NULL THEN m.next ELSE [m.next EXCEPT ![m.list.tail] = e]
  IN  [list |-> [head   |-> IF m.list.head = NULL THEN e ELSE m.list.head,
                 tail   |-> e,
                 length |-> Counted(m.list.length, 1)],
       next |-> [linked EXCEPT ![e] = NULL],
       data |-> [m.data EXCEPT ![e] = block],
       heap |-> m.heap \cup {e},
       order |-> m.order]

(* Kmalloc for an order: the next block. *)
Allocated(m, d) == [m EXCEPT !.order = Append(@, Sent(d))]

(* One order of a reply: more of the last order, if that is the same. *)
Received(m, d) ==
  LET last == m.data[m.list.tail]
  IN  IF m.list.length > 0 /\ m.order[last] = Sent(d)
      THEN [m EXCEPT !.order[last].time = 2]
      ELSE list_append(Allocated(m, d), Len(m.order) + 1)

(***************************************************************************)
(* Where the handler does harm: while list_unshift puts an element into an *)
(* empty list, or list_shift takes out the last one; and with any list     *)
(* between the load and the store of its length.                           *)
(***************************************************************************)
Exposed ==
  \/ pc \in { "put_head", "put_tail", "load_more" } /\ list.length = 0
  \/ pc \in { "take_head", "test_head", "clear_tail", "free", "load_less" } /\ list.length = 1
  \/ pc = "store"

(***************************************************************************)
(* The handler.  The tail of an empty list is null and harmless to read;   *)
(* if it is null and the list is not empty, or the element it points to is *)
(* freed, the handler writes where it should not, and what follows is open.*)
(***************************************************************************)
Astray ==
  list.tail \notin heap /\ (list.tail # NULL \/ list.head # NULL \/ list.length # 0)

receive_interrupt_handler(reply) ==
  /\ ~ fault
  /\ Cardinality(heap) + Len(reply) < MaxHeap
  /\ Len(order) + Len(reply) <= MaxOrder
  /\ IF Astray
     THEN fault' = TRUE /\ UNCHANGED memory
     ELSE fault' = FALSE /\ Store(FoldLeft(Received, Memory, reply))
  /\ raced' = (raced \/ Exposed)
  /\ UNCHANGED << pc, elem, reg >>

Reply == UNION { [1 .. n -> Direction] : n \in 1 .. MaxReply }

(***************************************************************************)
(* The drive task.                                                         *)
(***************************************************************************)
Goto(l) == ~ fault /\ pc' = l /\ UNCHANGED << fault, raced >>

(* list_unshift of the entry order: it and the element are made ... *)
list_unshift(d) ==
  /\ pc = "idle" /\ Free(Memory) # {} /\ Len(order) < MaxOrder
  /\ order' = Append(order, Sent(d))
  /\ elem' = New(Memory)
  /\ heap' = heap \cup {elem'}
  /\ data' = [data EXCEPT ![elem'] = Len(order')]
  /\ next' = [next EXCEPT ![elem'] = list.head]
  /\ Goto("put_head")
  /\ UNCHANGED << list, reg >>

PutHead ==
  /\ pc = "put_head" /\ list' = [list EXCEPT !.head = elem]
  /\ Goto("put_tail")
  /\ UNCHANGED << next, data, heap, order, elem, reg >>

PutTail ==
  /\ pc = "put_tail"
  /\ list' = IF list.tail = NULL THEN [list EXCEPT !.tail = elem] ELSE list
  /\ Goto("load_more")
  /\ UNCHANGED << next, data, heap, order, elem, reg >>

(* length++ is a load and a store. *)
LoadLength(from, to, change) ==
  /\ pc = from /\ reg' = Counted(list.length, change)
  /\ Goto(to)
  /\ UNCHANGED << memory, elem >>

StoreLength ==
  /\ pc = "store" /\ list' = [list EXCEPT !.length = reg]
  /\ elem' = NULL /\ reg' = 0
  /\ Goto("idle")
  /\ UNCHANGED << next, data, heap, order >>

(* list_shift: nothing if there is no head. *)
list_shift ==
  /\ pc = "idle" /\ list.head # NULL
  /\ elem' = list.head
  /\ Goto("load_next")
  /\ UNCHANGED << memory, reg >>

LoadNext ==
  /\ pc = "load_next" /\ reg' = next[list.head]
  /\ Goto("take_head")
  /\ UNCHANGED << memory, elem >>

TakeHead ==
  /\ pc = "take_head" /\ list' = [list EXCEPT !.head = reg]
  /\ Goto("test_head")
  /\ UNCHANGED << next, data, heap, order, elem, reg >>

TestHead ==
  /\ pc = "test_head"
  /\ Goto(IF list.head = NULL THEN "clear_tail" ELSE "free")
  /\ UNCHANGED << memory, elem, reg >>

ClearTail ==
  /\ pc = "clear_tail" /\ list' = [list EXCEPT !.tail = NULL]
  /\ Goto("free")
  /\ UNCHANGED << next, data, heap, order, elem, reg >>

(* Mutant of FreeElement: the element is not given back. *)
FreeElement_not ==
  /\ pc = "free"
  /\ Goto("load_less")
  /\ UNCHANGED << memory, elem, reg >>

(* Kfree of the element, what it held is lost; drive.c drops the order that
   list_shift returns. *)
FreeElement ==
  /\ pc = "free" /\ heap' = heap \ {elem}
  /\ next' = [next EXCEPT ![elem] = NULL]
  /\ data' = [data EXCEPT ![elem] = NULL]
  /\ Goto("load_less")
  /\ UNCHANGED << list, order, elem, reg >>

Handler == \E reply \in Reply : receive_interrupt_handler(reply)

Unshift == PutHead \/ PutTail \/ LoadLength("load_more", "store", 1) \/ StoreLength

Shift ==
  LoadNext \/ TakeHead \/ TestHead \/ ClearTail \/ FreeElement
    \/ LoadLength("load_less", "store", -1)

Next ==
  \/ Handler
  \/ \E d \in Direction : list_unshift(d)
  \/ list_shift
  \/ Unshift \/ Shift

Spec == Init /\ [][Next]_vars

-----------------------------------------------------------------------------
(* From the head on, as list_get and calculate_departure_delay_s see the list. *)
Walk[n \in Element] ==
  IF n = 1 THEN list.head
           ELSE IF Walk[n - 1] = NULL THEN NULL ELSE next[Walk[n - 1]]

Elements == [n \in { m \in Element : Walk[m] # NULL } |-> Walk[n]]

(***************************************************************************)
(* Interrupted anywhere but where it is exposed, the list is whole between *)
(* two operations of the drive task: its length is the number of elements  *)
(* that can be reached from the head, the tail is the last of them, no     *)
(* other element is allocated, and each has an order of its own.  So no    *)
(* order is lost, and elements do not fill up the heap (orders that have   *)
(* been followed do).                                                      *)
(***************************************************************************)
Whole ==
  ~ raced =>
    /\ ~ fault
    /\ pc = "idle" =>
         LET es == Elements IN
           /\ list.length = Len(es)
           /\ list.tail = IF es = << >> THEN NULL ELSE Last(es)
           /\ ToSet(es) = heap
           /\ \A e \in heap : data[e] \in DOMAIN order
           /\ \A e, f \in heap : data[e] = data[f] => e = f

(***************************************************************************)
(* The queue the list stands for.  list_unshift takes effect when the head *)
(* is written, list_shift when it is taken.                                *)
(***************************************************************************)
Orders == LET es == Elements IN [i \in DOMAIN es |-> order[data[es[i]]]]

Queue == INSTANCE OrderQueue WITH queue <- Orders, broken <- raced

(***************************************************************************)
(* The linked list is a queue, until the handler comes where the list is   *)
(* exposed to it: the orders are followed in the order they were sent in,  *)
(* each once, and a reply that repeats the last order makes that one       *)
(* longer.                                                                 *)
(***************************************************************************)
IsQueue == Queue!Spec
=============================================================================
