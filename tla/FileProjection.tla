---------------------------- MODULE FileProjection ----------------------------
(***************************************************************************)
(* What Domus says about a file: the projection of the DOFS tree.          *)
(*                                                                         *)
(* DOFS owns names, inodes and generations.  Domus keeps one row per inode *)
(* (domus_file_metadata): content hash, media metadata, thumbnail, stamped *)
(* with the generation they describe, and shows the row only while that is *)
(* the file's generation.  The rows are written by completing uploads, by  *)
(* copies and by the media worker, each of which resolves a pathname,      *)
(* works for a while and resolves it again, while mounts write and other   *)
(* requests rename, replace and delete.                                    *)
(*                                                                         *)
(* A version is one generation of one inode.  Information is identified by *)
(* the version whose plaintext it was computed from, so a row tells the    *)
(* truth when that is the version it is stamped with.                      *)
(***************************************************************************)
EXTENDS Naturals

CONSTANTS
  Inodes,         \* inode numbers, handed out in order
  Names,          \* pathnames of one user
  NoName,         \* the pathname of an idle process
  Requests,       \* HTTP requests being served
  Workers,        \* jobs of the media worker
  MaxGen          \* bound: generations of one inode

ASSUME InodesNumbered == Inodes \subseteq Nat \ {0}
ASSUME NamesDistinct == NoName \notin Names
ASSUME ProcsDistinct == Requests \cap Workers = {}
ASSUME GenBound == MaxGen \in Nat \ {0}

VARIABLES
  at,             \* the inode of each pathname, 0 when it is free
  gen,            \* generation of each inode, 0 before it is published
  row,            \* domus_file_metadata
  moved,          \* history: inodes that were renamed at least once
  proc            \* the operations in flight

vars == <<at, gen, row, moved, proc>>

-----------------------------------------------------------------------------
Versions == [ino : Inodes \cup {0}, gen : 0..MaxGen]
NoVersion == [ino |-> 0, gen |-> 0]

Procs == Requests \cup Workers

\* Whether a field describes the version its row is stamped with.
Truths == {"none", "own", "stale"}
Truth(of, on) == IF of = on THEN "own" ELSE "stale"

\* Facts about media; of stale ones also the inode the worker probed them for
\* (0: they came from a browser).
Facts == [truth : Truths, probed : Inodes \cup {0}]
NoFacts == [truth |-> "none", probed |-> 0]

\* pic: dimensions and duration, which come with a thumbnail from a browser or
\* the worker; meta: the worker's codec string and media summary.  The thumbnail
\* itself is a file of its own, and its facts are those of pic.
Blank(g) == [gen |-> g, hash |-> "none", pic |-> NoFacts, meta |-> NoFacts]
Rows == [gen : 0..MaxGen, hash : Truths, pic : Facts, meta : Facts]

\* of: the version the information comes from; on: the version it is put on, or
\* whose row is to be deleted; to: where a rename or copy goes.
Idle == [pc |-> "idle", op |-> "none", name |-> NoName, to |-> NoName,
         of |-> NoVersion, on |-> NoVersion]

Pcs == {"idle", "commit", "resolve", "upsert", "stamp", "attach", "read", "guard",
        "clone", "cloneCommit", "copyRow", "rename", "forget", "lookup", "unlink"}
Ops == {"none", "upload", "hash", "pic", "meta", "move", "moveNoReplace", "copy",
        "delete"}

Goto(p, pc) == proc' = [proc EXCEPT ![p].pc = pc]
Done(p) == proc' = [proc EXCEPT ![p] = Idle]
At(p, pc) == proc[p].pc = pc

Live(i) == \E n \in Names : at[n] = i
Version(i) == [ino |-> i, gen |-> IF i = 0 THEN 0 ELSE gen[i]]

\* recordFromNode shows a row only at its own generation.
Visible(i) == row[i].gen = gen[i] /\ gen[i] > 0

\* Reserved inodes are not free any more.
Unused ==
  {i \in Inodes : gen[i] = 0 /\ \A q \in Procs : i \notin {proc[q].of.ino, proc[q].on.ino}}
NextInode(i) == i \in Unused /\ \A j \in Unused : i <= j

\* What a reservation for pathname n captures: the file there, or a new one.
Captures(n, i) == gen[i] < MaxGen /\ (at[n] = i \/ (at[n] = 0 /\ NextInode(i)))

\* DOFS publishes version v while the name is free (a first generation), or the
\* captured generation is the current one.
CommitAllowed(v, n) ==
  gen[v.ino] + 1 = v.gen /\ IF v.gen = 1 THEN at[n] = 0 ELSE Live(v.ino)

PublishVersion(v, n) ==
  /\ gen' = [gen EXCEPT ![v.ino] = v.gen]
  /\ at' = IF v.gen = 1 THEN [at EXCEPT ![n] = v.ino] ELSE at

Init ==
  /\ at = [n \in Names |-> 0]
  /\ gen = [i \in Inodes |-> 0]
  /\ row = [i \in Inodes |-> Blank(0)]
  /\ moved = {}
  /\ proc = [p \in Procs |-> Idle]

-----------------------------------------------------------------------------
(* Writers of contents *)

\* A mount writes, or a historical generation is restored with a CAS.
NewGeneration(i) ==
  /\ Live(i) /\ gen[i] < MaxGen
  /\ gen' = [gen EXCEPT ![i] = @ + 1]
  /\ UNCHANGED <<at, row, moved, proc>>

MountCreate(n, i) ==
  /\ at[n] = 0 /\ NextInode(i)
  /\ at' = [at EXCEPT ![n] = i]
  /\ gen' = [gen EXCEPT ![i] = 1]
  /\ UNCHANGED <<row, moved, proc>>

-----------------------------------------------------------------------------
\* upsertMetadata: siblings survive within a generation, a newer generation
\* starts blank, and an older one is refused.
Base(i, g) == IF row[i].gen = g THEN row[i] ELSE Blank(g)
Refused(i, g) == row[i].gen > g

Described(r, p) ==
  LET truth == Truth(proc[p].of, proc[p].on)
      worker == p \in Workers /\ truth = "stale"
      facts == [truth |-> truth, probed |-> IF worker THEN proc[p].on.ino ELSE 0]
  IN CASE proc[p].op = "hash" -> [Blank(r.gen) EXCEPT !.hash = truth]
       [] proc[p].op = "pic"  -> [r EXCEPT !.pic = facts]
       [] proc[p].op = "meta" -> [r EXCEPT !.meta = facts]

\* Mutant: the row is overwritten whatever its generation.
UpsertUnordered(p) ==
  LET v == proc[p].on IN
  row' = [row EXCEPT ![v.ino] = Described(Base(v.ino, v.gen), p)]

UpsertMetadata(p) ==
  LET v == proc[p].on IN
  row' = [row EXCEPT ![v.ino] =
            IF Refused(v.ino, v.gen) THEN @ ELSE Described(Base(v.ino, v.gen), p)]

\* An upload may bring dimensions or a thumbnail and then goes on after its
\* hash; every other writer is done.
Stamp(p) ==
  /\ At(p, "stamp")
  /\ UpsertMetadata(p)
  /\ Done(p) \/ (proc[p].op = "hash" /\ Goto(p, "attach"))
  /\ UNCHANGED <<at, gen, moved>>

-----------------------------------------------------------------------------
(* POST /file/upload/complete, from the reservation on.  DirectUpload has    *)
(* its failures and retries.                                                 *)

StartUpload(p, n, i) ==
  /\ At(p, "idle") /\ Captures(n, i)
  /\ proc' = [proc EXCEPT ![p] =
       [pc |-> "commit", op |-> "upload", name |-> n, to |-> NoName,
        of |-> [ino |-> i, gen |-> gen[i] + 1], on |-> NoVersion]]
  /\ UNCHANGED <<at, gen, row, moved>>

\* The commit compares the generation that was captured; a rename in between
\* does not matter to it.
Publish(p) ==
  LET v == proc[p].of
      n == proc[p].name
  IN /\ At(p, "commit")
     /\ IF CommitAllowed(v, n)
          THEN PublishVersion(v, n) /\ Goto(p, "resolve")
          ELSE Done(p) /\ UNCHANGED <<at, gen>>
     /\ UNCHANGED <<row, moved>>

\* GetByID: where the published inode is now.
ResolvePublished(p) ==
  /\ At(p, "resolve")
  /\ \/ \E n \in Names :
          /\ at[n] = proc[p].of.ino
          /\ proc' = [proc EXCEPT ![p].pc = "upsert", ![p].name = n]
     \/ ~Live(proc[p].of.ino) /\ Done(p)
  /\ UNCHANGED <<at, gen, row, moved>>

\* Upsert resolves the pathname again and compares nothing but the size, which
\* other contents may share.
Upsert(p) ==
  LET i == at[proc[p].name] IN
  /\ At(p, "upsert")
  /\ \/ /\ i # 0
        /\ proc' = [proc EXCEPT ![p].pc = "stamp", ![p].op = "hash",
                                ![p].on = Version(i)]
     \/ (i = 0 \/ Version(i) # proc[p].of) /\ Done(p)
  /\ UNCHANGED <<at, gen, row, moved>>

\* UpdateThumbnail resolves the pathname once more.
Attach(p) ==
  LET i == at[proc[p].name] IN
  /\ At(p, "attach")
  /\ IF i = 0 THEN Done(p)
       ELSE proc' = [proc EXCEPT ![p].pc = "stamp", ![p].op = "pic",
                        ![p].on = Version(i)]
  /\ UNCHANGED <<at, gen, row, moved>>

-----------------------------------------------------------------------------
(* The media worker.  It collects records in one walk, opens each source by  *)
(* its pathname later, and publishes what it learned later still.            *)

\* A file that shows no thumbnail gets one, and a thumbnail may go at any time;
\* a file without codec string or summary is probed for them.
Collect(p, n, job) ==
  LET i == at[n] IN
  /\ At(p, "idle") /\ i # 0
  /\ job = "pic" \/ ~Visible(i) \/ row[i].meta = NoFacts
  /\ proc' = [proc EXCEPT ![p] =
       [pc |-> "read", op |-> job, name |-> n, to |-> NoName,
        of |-> NoVersion, on |-> Version(i)]]
  /\ UNCHANGED <<at, gen, row, moved>>

Read(p) ==
  LET v == Version(at[proc[p].name]) IN
  /\ At(p, "read")
  /\ IF v.ino = 0 THEN Done(p)
       ELSE proc' = [proc EXCEPT ![p].pc = "guard", ![p].of = v]
  /\ UNCHANGED <<at, gen, row, moved>>

\* Mutant: what was collected is put on whatever generation is current.
GuardCurrentOnly(p) ==
  LET i == at[proc[p].name] IN
  /\ At(p, "guard")
  /\ IF i = proc[p].on.ino /\ i # 0
       THEN proc' = [proc EXCEPT ![p].pc = "stamp", ![p].on = Version(i)]
       ELSE Done(p)
  /\ UNCHANGED <<at, gen, row, moved>>

\* UpdateThumbnailIfGeneration, UpdateMediaCodecs, UpdateMediaMeta: the
\* pathname must still name the inode and generation that were collected.
Guard(p) ==
  /\ At(p, "guard")
  /\ IF Version(at[proc[p].name]) = proc[p].on THEN Goto(p, "stamp") ELSE Done(p)
  /\ UNCHANGED <<at, gen, row, moved>>

-----------------------------------------------------------------------------
(* POST /file/copy of a single file *)

StartCopy(p, n, m) ==
  /\ At(p, "idle") /\ at[n] # 0 /\ n # m
  /\ proc' = [proc EXCEPT ![p] =
       [pc |-> "clone", op |-> "copy", name |-> n, to |-> m,
        of |-> Version(at[n]), on |-> NoVersion]]
  /\ UNCHANGED <<at, gen, row, moved>>

\* The clone reserves what is at the destination by now, to replace it, or a
\* new inode.
CloneReserve(p) ==
  /\ At(p, "clone")
  /\ \E i \in Inodes :
       /\ Captures(proc[p].to, i)
       /\ proc' = [proc EXCEPT ![p].pc = "cloneCommit",
                     ![p].on = [ino |-> i, gen |-> gen[i] + 1]]
  /\ UNCHANGED <<at, gen, row, moved>>

\* The immutable object of the source's generation becomes the destination's.
CloneCommit(p) ==
  /\ At(p, "cloneCommit")
  /\ IF CommitAllowed(proc[p].on, proc[p].to)
       THEN PublishVersion(proc[p].on, proc[p].to) /\ Goto(p, "copyRow")
       ELSE Done(p) /\ UNCHANGED <<at, gen>>
  /\ UNCHANGED <<row, moved>>

\* copyMetadata: the destination's row is overwritten, whatever it says by now.
\* All that the source's row says goes with the copy but the thumbnail.
CopyMetadata(p) ==
  LET s == row[proc[p].of.ino] IN
  /\ At(p, "copyRow")
  /\ row' = IF s.gen # proc[p].of.gen THEN row
            ELSE [row EXCEPT ![proc[p].on.ino] =
                   [s EXCEPT !.gen = proc[p].on.gen]]
  /\ Done(p)
  /\ UNCHANGED <<at, gen, moved>>

-----------------------------------------------------------------------------
(* Rename, move, trash and restore all end in Repo.move. *)

\* on: the inode that is being replaced, as it was looked up.
StartMove(p, n, m, op) ==
  /\ At(p, "idle") /\ at[n] # 0 /\ n # m
  /\ proc' = [proc EXCEPT ![p] =
       [pc |-> "rename", op |-> op, name |-> n, to |-> m,
        of |-> Version(at[n]), on |-> Version(at[m])]]
  /\ UNCHANGED <<at, gen, row, moved>>

Renamed(i, m) == [n \in Names |-> IF n = m THEN i ELSE IF at[n] = i THEN 0 ELSE at[n]]

\* Mutant: the projection is deleted although the rename was refused.
RenameUnchecked(p) ==
  LET i == proc[p].of.ino
      m == proc[p].to
      allowed == Live(i) /\ (proc[p].op = "move" \/ at[m] = 0)
  IN /\ At(p, "rename")
     /\ IF allowed THEN at' = Renamed(i, m) /\ moved' = moved \cup {i}
                   ELSE UNCHANGED <<at, moved>>
     /\ IF proc[p].on.ino \notin {0, i} THEN Goto(p, "forget") ELSE Done(p)
     /\ UNCHANGED <<gen, row>>

Rename(p) ==
  LET i == proc[p].of.ino
      m == proc[p].to
      allowed == Live(i) /\ (proc[p].op = "move" \/ at[m] = 0)
  IN /\ At(p, "rename")
     /\ IF allowed
          THEN /\ at' = Renamed(i, m) /\ moved' = moved \cup {i}
               /\ IF proc[p].on.ino \notin {0, i} THEN Goto(p, "forget") ELSE Done(p)
          ELSE Done(p) /\ UNCHANGED <<at, moved>>
     /\ UNCHANGED <<gen, row>>

\* deleteInodeProjection
Forget(p) ==
  /\ At(p, "forget")
  /\ row' = [row EXCEPT ![proc[p].on.ino] = Blank(0)]
  /\ Done(p)
  /\ UNCHANGED <<at, gen, moved>>

-----------------------------------------------------------------------------
(* DELETE /file: permanent deletion *)

\* permanentlyDeletePath has found the file, and reclaims its thumbnail ...
StartDelete(p, n) ==
  /\ At(p, "idle") /\ at[n] # 0
  /\ proc' = [proc EXCEPT ![p] =
       [pc |-> "lookup", op |-> "delete", name |-> n, to |-> NoName,
        of |-> NoVersion, on |-> NoVersion]]
  /\ UNCHANGED <<at, gen, row, moved>>

\* ... and Repo.Delete resolves the pathname again.
LookupVictim(p) ==
  LET i == at[proc[p].name] IN
  /\ At(p, "lookup")
  /\ IF i = 0 THEN Done(p)
       ELSE proc' = [proc EXCEPT ![p].pc = "unlink", ![p].on = Version(i)]
  /\ UNCHANGED <<at, gen, row, moved>>

\* Remove takes a name, not an inode.
Unlink(p) ==
  LET n == proc[p].name IN
  /\ At(p, "unlink")
  /\ IF at[n] = 0 THEN Done(p) /\ UNCHANGED at
       ELSE at' = [at EXCEPT ![n] = 0] /\ Goto(p, "forget")
  /\ UNCHANGED <<gen, row, moved>>

-----------------------------------------------------------------------------
UploadStep(p) ==
  \/ Publish(p) \/ ResolvePublished(p) \/ Upsert(p) \/ Stamp(p) \/ Attach(p)

WorkerStep(p) == Read(p) \/ Guard(p)

TreeStep(p) ==
  \/ CloneReserve(p) \/ CloneCommit(p) \/ CopyMetadata(p)
  \/ Rename(p) \/ Forget(p)
  \/ LookupVictim(p) \/ Unlink(p)

StartRequest(p) ==
  \E n \in Names :
    \/ \E i \in Inodes : StartUpload(p, n, i)
    \/ \E m \in Names, op \in {"move", "moveNoReplace"} : StartMove(p, n, m, op)
    \/ \E m \in Names : StartCopy(p, n, m)
    \/ StartDelete(p, n)

\* Any call may fail, and the process may stop; the step after it is not taken.
Abandon(p) ==
  /\ ~At(p, "idle")
  /\ Done(p)
  /\ UNCHANGED <<at, gen, row, moved>>

Next ==
  \/ \E i \in Inodes : NewGeneration(i) \/ \E n \in Names : MountCreate(n, i)
  \/ \E p \in Requests : StartRequest(p)
  \/ \E p \in Workers, n \in Names, job \in {"pic", "meta"} : Collect(p, n, job)
  \/ \E p \in Procs :
       \/ UploadStep(p) \/ WorkerStep(p) \/ TreeStep(p) \/ Abandon(p)

Spec == Init /\ [][Next]_vars

-----------------------------------------------------------------------------
\* Every variable keeps its type.
TypeOK ==
  /\ at \in [Names -> Inodes \cup {0}]
  /\ gen \in [Inodes -> 0..MaxGen]
  /\ row \in [Inodes -> Rows]
  /\ moved \subseteq Inodes
  /\ proc \in [Procs ->
       [pc : Pcs, op : Ops, name : Names \cup {NoName}, to : Names \cup {NoName},
        of : Versions, on : Versions]]

\* comments at UpdateThumbnailIfGeneration and UpdateMediaCodecs (mutations.go:
\* 307, 324): what the worker found in contents that were replaced meanwhile is
\* never shown with the new contents, nor with a copy of them.  What it found
\* wrongly can only have been probed for a file that was renamed, away and back
\* while it was probed: the exception the code does not notice.
WorkerNeverMisleads ==
  \A i \in Inodes :
    Live(i) /\ Visible(i) =>
      {row[i].pic.probed, row[i].meta.probed} \subseteq {0} \cup moved

\* comment at upsertMetadata (mutations.go:95): no late writer rolls a row back
\* to an older generation.  A row starts again when its file is deleted; and a
\* copy does not keep to it, which writes the row of its destination without
\* that guard (service.go:111).
NeverRolledBack ==
  [][\A i \in Inodes :
       row'[i].gen < row[i].gen =>
         \/ row'[i].gen = 0
         \/ \E p \in Procs : At(p, "copyRow") /\ proc[p].on.ino = i]_vars

\* The row of a file disappears only with the file: not when a rename that was
\* to replace it is refused, nor when the deletion of another file fails.
RowLivesWithFile ==
  [][\A i \in Inodes :
       row[i].gen > 0 /\ row'[i].gen = 0 => ~Live(i) \/ i \in moved]_vars

\* comment at Upsert (mutations.go:131): a replacement never shows the hash, the
\* dimensions or the thumbnail of other contents.
NothingShownIsStale ==
  \A i \in Inodes :
    Live(i) /\ Visible(i) =>
      "stale" \notin {row[i].hash, row[i].pic.truth, row[i].meta.truth}
=============================================================================
