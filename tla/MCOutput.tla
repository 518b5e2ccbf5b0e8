----------------------------- MODULE MCOutput -----------------------------
(* Two source files, two documents a path may hold, two runs, two writes.  *)
EXTENDS Output

TwoFiles == <<"volume1/page.xml", "volume2/page.xml">>
Interchangeable == Permutations(FileNames) \cup Permutations(Xml)
=============================================================================
