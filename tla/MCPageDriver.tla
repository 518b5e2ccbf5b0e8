---------------------------- MODULE MCPageDriver ----------------------------
(* Small documents for the correction run. *)
EXTENDS PageDriver, Linker

OnePage == [l \in Lines |-> 1]
(* A page break before the last line; before the last two. *)
LastLineOver == [l \in Lines |-> IF l < N THEN 1 ELSE 2]
LastTwoOver == [l \in Lines |-> IF l < N - 1 THEN 1 ELSE 2]
OneFile == [p \in 1..NumPages |-> 1]
FilePerPage == [p \in 1..NumPages |-> p]

UniqueIds == [l \in Lines |-> l]
(* Each page is a file that numbers its lines from 1. *)
RestartedIds == [l \in Lines |-> Cardinality({m \in 1..l : PageOf[m] = PageOf[l]})]

OneBlock == [l \in Lines |-> 1]
BlockPerLine == [l \in Lines |-> l]
TwoPerBlock == [l \in Lines |-> (l + 1) \div 2]
UnitChars == [l \in Lines |-> 1]

MarkedLinks(M) == ParsedLinks([l \in Lines |-> IF l \in M THEN "PART1" ELSE "NONE"])
AllMarked == {MarkedLinks(Marked)}
AnyMarked == {MarkedLinks(M) : M \in SUBSET Marked}
(* No line both continues a word and opens one: units of at most two. *)
PairsOnly == {lk \in AnyMarked : \A l \in Lines : lk.role[l] # "BOTH"}
=============================================================================
