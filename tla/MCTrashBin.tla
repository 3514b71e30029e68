----------------------------- MODULE MCTrashBin -----------------------------
(* A directory with one file, and another file or directory beside it.     *)
EXTENDS TrashBin, TLC
CONSTANTS d, d2, c, f, a, b
BesideAFile == (d :> <<Top, a>>) @@ (c :> <<d, a>>) @@ (f :> <<Top, b>>) @@ (d2 :> Unborn)
BesideADirectory == (d :> <<Top, a>>) @@ (c :> <<d, a>>) @@ (d2 :> <<Top, b>>) @@ (f :> <<d2, a>>)
Symmetry == Permutations(Requests) \cup Permutations(Entries)
=============================================================================
