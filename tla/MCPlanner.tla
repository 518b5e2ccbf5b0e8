----------------------------- MODULE MCPlanner -----------------------------
(* The planner and the image-cap batcher over two pages of five lines and  *)
(* one line, in three blocks, for every hyphenation of the lines the       *)
(* linker can produce, and every subset of a page as the scope (a page, or *)
(* the targets of a failed chunk).                                         *)
EXTENDS Batching, Linker

TwoPages == [l \in Lines |-> IF l < N THEN 1 ELSE 2]
UniqueIds == [l \in Lines |-> l]
(* The second file numbers its lines from 1 again. *)
RestartedIds == [l \in Lines |-> IF l < N THEN l ELSE 1]

Blocks == [l \in Lines |-> IF l < 4 THEN 1 ELSE IF l < 6 THEN 2 ELSE 3]
CharCounts == [l \in Lines |-> IF l \in {3, 4} THEN 3 ELSE 1]

(* Every choice of lines ending in a break mark. *)
MarkedLinks ==
    {ParsedLinks([l \in Lines |-> IF l \in M THEN "PART1" ELSE "NONE"]) :
        M \in SUBSET (Lines \ Blank)}
=============================================================================
