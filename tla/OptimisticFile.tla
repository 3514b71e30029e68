--------------------------- MODULE OptimisticFile ---------------------------
(***************************************************************************)
(* What the upload protocol promises about one pathname: the file is an    *)
(* optimistic register.  An editor may declare the generation it has read; *)
(* its upload then replaces the contents only while that generation is     *)
(* still the current one, and every upload publishes at most once however  *)
(* often its completion is retried.  Other writers (a FUSE mount, a        *)
(* deletion) may change the file at any time.                              *)
(***************************************************************************)
EXTENDS Naturals

CONSTANTS
  Uploads,        \* identities of the uploads
  MountSource,    \* the source of contents written through a mount
  NoSource        \* the source of an absent file

VARIABLES
  file,           \* [ino, gen, src]: inode, generation and who wrote it
  declared,       \* generation each upload's editor has read, 0 = undeclared
  published       \* uploads that have published

vars == <<file, declared, published>>

Absent == [ino |-> 0, gen |-> 0, src |-> NoSource]

Init ==
  /\ file = Absent
  /\ declared = [u \in Uploads |-> 0]
  /\ published = {}

Declare(u) ==
  /\ u \notin published
  /\ declared' = [declared EXCEPT ![u] = declared'[u]]
  /\ UNCHANGED <<file, published>>

OtherWrite ==
  /\ file'.src \in {MountSource, NoSource}
  /\ UNCHANGED <<declared, published>>

Publish(u) ==
  /\ u \notin published
  /\ declared[u] = 0 \/ declared[u] = file.gen
  /\ file'.src = u /\ file'.gen = file.gen + 1
  /\ published' = published \cup {u}
  /\ UNCHANGED declared

Next ==
  \/ OtherWrite
  \/ \E u \in Uploads : Declare(u) \/ Publish(u)

Spec == Init /\ [][Next]_vars
=============================================================================
