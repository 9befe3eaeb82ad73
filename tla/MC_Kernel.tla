----------------------------- MODULE MC_Kernel -----------------------------
(***************************************************************************)
(* Instances of the kernel: three tasks, of which any but the initial one  *)
(* may take the place of another.                                          *)
(***************************************************************************)
EXTENDS Kernel

CONSTANTS t1, t2, t3, o1, o2, o3, b1, b2, none

Others == Permutations(Task \ { InitTask })

InOrder == [o \in Object |-> IF o = o1 THEN 1 ELSE 2]
InAnyOrder == [o \in Object |-> 1]

Mails == [name : { "m", "n" }, msgpri : { 1, 2 }] \ [name : { "n" }, msgpri : { 2 }]
Packets == [size : { 1, 2 }]

Wish(waiptn, wfmode) == [waiptn |-> waiptn, wfmode |-> wfmode]
SomeWishes ==
  { Wish({ b1 }, { }), Wish({ b1, b2 }, { "CLR" }), Wish({ b1, b2 }, { "ORW", "BITCLR" }) }
=============================================================================
