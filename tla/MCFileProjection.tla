--------------------------- MODULE MCFileProjection ---------------------------
(* The requests, and the names, are interchangeable.  The worker looks for *)
(* dimensions and thumbnails only as long as no row has a codec string or  *)
(* a summary.                                                              *)
EXTENDS FileProjection, TLC

Interchangeable == Permutations(Requests) \cup Permutations(Names)
PicFirst == \A p \in Workers : proc[p].op = "pic" => \A i \in Inodes : row[i].meta = NoFacts
=============================================================================
