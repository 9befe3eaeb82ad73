---------------------------- MODULE KernelMemory ----------------------------
(***************************************************************************)
(* Areas of memory (kernel/tkernel/memory.c, and the part of mempool.c     *)
(* that does the same for a pool).  Sizes and addresses are in units of    *)
(* ROUNDSZ, the size of a QUEUE.  Between two areas lies the header of the *)
(* second one, of one unit.  areaque has all areas in the order of their   *)
(* addresses, freeque the free ones in classes of the same size, in the    *)
(* order of the sizes; of a class the first area is in the queue of the    *)
(* classes, with their size, and the others behind it.                     *)
(***************************************************************************)
EXTENDS Integers, Sequences, FiniteSets, SequencesExt

MIN_FRAGMENT == 2
Header == 1

roundSize(sz) == IF sz < MIN_FRAGMENT THEN MIN_FRAGMENT ELSE sz

Area(at, size, use) == [at |-> at, size |-> size, use |-> use]
FreeClass(size, at) == [size |-> size, areas |-> << at >>]

(* The place in freeque of the smallest areas that are at least blksz, behind
   all others if there is none. *)
knl_searchFreeArea(mem, blksz) ==
  Min({ i \in DOMAIN mem.freeque : mem.freeque[i].size >= blksz } \cup { Len(mem.freeque) + 1 })

(* Behind the first of its size, or as a new class before the greater ones. *)
knl_appendFreeArea(mem, area) ==
  LET i == knl_searchFreeArea(mem, area.size)
  IN  IF i <= Len(mem.freeque) /\ mem.freeque[i].size = area.size
      THEN [mem EXCEPT !.freeque[i].areas = InsertAt(@, 2, area.at)]
      ELSE [mem EXCEPT !.freeque = InsertAt(@, i, FreeClass(area.size, area.at))]

(* Mutant: the first area of a class takes the others with it. *)
knl_removeFreeQue_first(mem, at) ==
  LET without == [i \in DOMAIN mem.freeque |->
                    [mem.freeque[i] EXCEPT !.areas =
                       IF Head(@) = at THEN << >> ELSE Remove(@, at)]]
  IN  [mem EXCEPT !.freeque = SelectSeq(without, LAMBDA class : class.areas # << >>)]

(* The next one of a class takes the place of its first. *)
knl_removeFreeQue(mem, at) ==
  LET without == [i \in DOMAIN mem.freeque |->
                    [mem.freeque[i] EXCEPT !.areas = Remove(@, at)]]
  IN  [mem EXCEPT !.freeque = SelectSeq(without, LAMBDA class : class.areas # << >>)]

(* The n areas of areaque from place i on become the given ones. *)
Replace(mem, i, n, areas) ==
  [mem EXCEPT !.areaque = SubSeq(@, 1, i - 1) \o areas \o SubSeq(@, i + n, Len(@))]

Index(mem, at) == CHOOSE i \in DOMAIN mem.areaque : mem.areaque[i].at = at

(* One free area: knl_init_Imalloc, init_mempool. *)
Empty(memsz) ==
  [memsz |-> memsz, areaque |-> << Area(0, memsz, FALSE) >>,
   freeque |-> << FreeClass(memsz, 0) >>]

Fits(mem, blksz) == knl_searchFreeArea(mem, blksz) <= Len(mem.freeque)

(* Where knl_get_blk and knl_Imalloc find memory, if it fits. *)
Found(mem, blksz) == Head(mem.freeque[knl_searchFreeArea(mem, blksz)].areas)

(* The memory after that: what is left of the area becomes a free one, if it is
   large enough. *)
knl_get_blk(mem, blksz) ==
  LET at   == Found(mem, blksz)
      i    == Index(mem, at)
      rest == Area(at + blksz + Header, mem.areaque[i].size - blksz - Header, FALSE)
      out  == knl_removeFreeQue(mem, at)
  IN  IF mem.areaque[i].size - blksz < MIN_FRAGMENT + Header
      THEN [out EXCEPT !.areaque[i].use = TRUE]
      ELSE knl_appendFreeArea(Replace(out, i, 1, << Area(at, blksz, TRUE), rest >>), rest)

(* An area is free and becomes one with its neighbours that are free; also
   knl_Ifree. *)
knl_rel_blk(mem, at) ==
  LET i == Index(mem, at)
      IsFree(j) == j \in DOMAIN mem.areaque /\ ~mem.areaque[j].use
      first == IF IsFree(i - 1) THEN i - 1 ELSE i
      last  == IF IsFree(i + 1) THEN i + 1 ELSE i
      from  == mem.areaque[first].at
      merged == Area(from, mem.areaque[last].at + mem.areaque[last].size - from, FALSE)
      after  == IF last > i THEN knl_removeFreeQue(mem, mem.areaque[last].at) ELSE mem
      before == IF first < i THEN knl_removeFreeQue(after, from) ELSE after
  IN  knl_appendFreeArea(Replace(before, first, last - first + 1, << merged >>), merged)

knl_Imalloc(mem, size) == knl_get_blk(mem, roundSize(size))
knl_Ifree(mem, at) == knl_rel_blk(mem, at)

InUse(mem) == { mem.areaque[i].at : i \in { j \in DOMAIN mem.areaque : mem.areaque[j].use } }

knl_MaxFreeSize(mem) ==
  IF mem.freeque = << >> THEN 0 ELSE mem.freeque[Len(mem.freeque)].size

(***************************************************************************)
(* The areas and their headers fill the memory without a gap, no two free  *)
(* ones are neighbours, and freeque has the free areas, each once, under   *)
(* their true sizes and in order.                                          *)
(***************************************************************************)
Tiled(mem) ==
  LET areas == mem.areaque
      listed == UNION { { << class.size, at >> : at \in Range(class.areas) } :
                          class \in Range(mem.freeque) }
      free == { i \in DOMAIN areas : ~areas[i].use }
  IN  /\ areas[1].at = 0
      /\ areas[Len(areas)].at + areas[Len(areas)].size = mem.memsz
      /\ \A i \in 1 .. Len(areas) - 1 :
           /\ areas[i + 1].at = areas[i].at + areas[i].size + Header
           /\ areas[i].use \/ areas[i + 1].use
      /\ \A i \in DOMAIN areas : areas[i].size >= MIN_FRAGMENT
      /\ listed = { << areas[i].size, areas[i].at >> : i \in free }
      /\ \A class \in Range(mem.freeque) : IsInjective(class.areas)
      /\ \A i, j \in DOMAIN mem.freeque : i < j => mem.freeque[i].size < mem.freeque[j].size

=============================================================================
