------------------------------ MODULE MC_Device ------------------------------
(* Device with one task that administers and two that read.  A disk may be  *)
(* opened by both, a serial line by one.                                    *)
EXTENDS Device, TLC

CONSTANTS admin, user1, user2, disk, serial

TheDdevs == (disk :> {[disk |-> TRUE, openreq |-> FALSE, nsub |-> 0]})
            @@ (serial :> {[disk |-> FALSE, openreq |-> TRUE, nsub |-> 0]})
TheModes == (disk :> {{"READ"}}) @@ (serial :> {{"READ", "EXCL"}})

Calls == (admin :> {"def", "dis", "end", "cls"})
         @@ (user1 :> {"opn", "rw", "wai", "evt"})
         @@ (user2 :> {"opn", "srw", "wai", "sus"})

Alike == { q @@ r @@ s :
           q \in Permutations(DevCBs), r \in Permutations(OpnCBs),
           s \in Permutations(ReqCBs) }
=============================================================================
