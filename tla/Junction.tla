------------------------------ MODULE Junction ------------------------------
(***************************************************************************)
(* A small road for STG on which, unlike on that of RoadMap, a target lies *)
(* on the way to other cells: a one-way ring of six cells with a short cut.*)
(* The route search is the same for every road; here more vehicles and     *)
(* more of their interference fit into a run.                              *)
(***************************************************************************)
EXTENDS STG

JunctionCells == (0 .. 2) \X (0 .. 1)
JunctionMoves ==
  [c \in JunctionCells |->
     CASE c = << 0, 0 >> -> << << 1, 0 >> >>
       [] c = << 1, 0 >> -> << << 1, 1 >>, << 2, 0 >> >>
       [] c = << 2, 0 >> -> << << 2, 1 >> >>
       [] c = << 2, 1 >> -> << << 1, 1 >> >>
       [] c = << 1, 1 >> -> << << 0, 1 >> >>
       [] c = << 0, 1 >> -> << << 0, 0 >> >>]
JunctionWaits == { << 0, 0 >>, << 1, 1 >>, << 2, 0 >> }
JunctionEntry == << 0, 0 >>
JunctionTarget == [c \in JunctionCells |-> IF c = << 2, 0 >> THEN << 0, 1 >> ELSE << 2, 0 >>]
Gap(a, b) == IF a > b THEN a - b ELSE b - a
JunctionDistance(a, b) == Gap(a[1], b[1]) + Gap(a[2], b[2])
=============================================================================
