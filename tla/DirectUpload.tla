---------------------------- MODULE DirectUpload ----------------------------
(***************************************************************************)
(* The life of browser uploads that target one pathname.                   *)
(*                                                                         *)
(* An upload is spread over four stores that share no transaction: the     *)
(* DOFS reservation (with the generation it will replace), the multipart   *)
(* upload and object in OSS, the upload row and the task row in            *)
(* PostgreSQL.  Handlers move through them one call at a time, so every    *)
(* call below is an action of its own; between two of them other requests, *)
(* the two hourly cleaners, a mount, the reservation TTL or a crash may    *)
(* step in.  A failed call and a crash look alike from outside (the        *)
(* request stops there), and Abandon stands for both.                      *)
(*                                                                         *)
(* DOFS and OSS are libraries and services outside this repository; what   *)
(* they do is modelled from how the handlers use them.                     *)
(***************************************************************************)
EXTENDS Naturals

CONSTANTS
  Uploads,        \* upload IDs; every successful init takes a fresh one
  Requests,       \* HTTP requests being served
  Cleaners,       \* background loops, a subset of {"sweeper", "orphans"}
  MountSource,    \* source of contents that did not come from an upload
  NoSource,       \* source of an absent file
  NoUpload,       \* the upload of an idle process
  MayFail,        \* whether a call may fail or the server crash
  MaxInode,       \* bound: inodes ever created at the pathname
  MaxGen,         \* bound: generations of one inode
  MaxAge          \* bound: the oldest age that is told apart

ASSUME SourcesDistinct ==
  /\ MountSource \notin Uploads /\ NoSource \notin Uploads
  /\ MountSource # NoSource /\ NoUpload \notin Uploads

ASSUME CleanersKnown ==
  Cleaners \subseteq {"sweeper", "orphans"} /\ Requests \cap Cleaners = {}

ASSUME BoundsOK ==
  /\ MaxInode \in Nat /\ MaxGen \in Nat \ {0}
  /\ MaxAge \in 0..3 /\ MayFail \in BOOLEAN

VARIABLES
  file,           \* DOFS: the ready node at the pathname
  lastInode,      \* DOFS: last inode number handed out
  direct,         \* DOFS: reservation of each upload
  oss,            \* OSS: multipart upload and object of each upload
  row,            \* domus_file_uploads.status
  task,           \* tasks.status
  age,            \* how long ago the upload was last touched
  declared,       \* expected_generation sent with init, 0 when omitted
  proc            \* the handler steps in flight

vars == <<file, lastInode, direct, oss, row, task, age, declared, proc>>

-----------------------------------------------------------------------------
Procs == Requests \cup Cleaners

\* Ages that some threshold of the code tells apart.
Fresh  == 0
Quiet  == 1       \* 15 seconds: another browser instance may clean up
Lapsed == 2       \* directUploadReservationTTL, 90 minutes
Stale  == 3       \* staleUploadAge, 24 hours

InitPcs == {"lookup", "prepare", "multipart", "task", "row",
            "undoTask", "undoMultipart", "undoDirect"}
CompletePcs == {"object", "commit", "project", "ready", "finishTask", "ack"}
AbortPcs == {"abortMultipart", "abortDirect", "dropRow", "endTask"}
DeletePcs == {"resolve", "unlink", "dropRows", "dropPath"}
BusyPcs == InitPcs \cup CompletePcs \cup AbortPcs
Pcs == {"idle"} \cup BusyPcs \cup DeletePcs

\* Who started an abort; init and complete keep their branch here too.
Aborters == {"cancel", "cleanup", "cancelTask", "remove", "sweeper", "orphans"}
Args == {"none", "create", "replace", "active", "committed"} \cup Aborters

Idle == [pc |-> "idle", u |-> NoUpload, arg |-> "none", ino |-> 0]

Absent == [ino |-> 0, gen |-> 0, src |-> NoSource]
NoReservation == [st |-> "none", ino |-> 0, exp |-> 0]

\* The generation became the file's contents at some point.
Published(u) == direct[u].st \in {"committed", "acked", "forgotten"}

Goto(p, pc) == proc' = [proc EXCEPT ![p].pc = pc]
Done(p) == proc' = [proc EXCEPT ![p] = Idle]
At(p, pc) == proc[p].pc = pc

\* One open reservation may create the name; replacements reserve the inode.
Creating(u) == direct[u].st = "active" /\ direct[u].exp = 0
NameReserved == \E u \in Uploads : Creating(u)

Init ==
  /\ file = Absent
  /\ lastInode = 0
  /\ direct = [u \in Uploads |-> NoReservation]
  /\ oss = [u \in Uploads |-> "none"]
  /\ row = [u \in Uploads |-> "none"]
  /\ task = [u \in Uploads |-> "none"]
  /\ age = [u \in Uploads |-> Fresh]
  /\ declared = [u \in Uploads |-> 0]
  /\ proc = [p \in Procs |-> Idle]

-----------------------------------------------------------------------------
(* DOFS and OSS, as the handlers use them *)

\* A reservation that ends unpublished takes its object with it; an open
\* multipart upload is not DOFS's to end.
Release(u) ==
  /\ direct' = [direct EXCEPT ![u].st = "released"]
  /\ oss' = [oss EXCEPT ![u] = IF @ = "object" THEN "gone" ELSE @]

\* The name is free, or the inode the reservation captured is unchanged.
CommitAllowed(u) ==
  /\ direct[u].st = "active"
  /\ IF direct[u].exp = 0
       THEN file = Absent
       ELSE file.ino = direct[u].ino /\ file.gen = direct[u].exp

PublishGeneration(u) ==
  /\ file' = [ino |-> direct[u].ino, gen |-> direct[u].exp + 1, src |-> u]
  /\ direct' = [direct EXCEPT ![u].st = "committed"]

\* AbortMultipartUpload is a no-op once the multipart upload was consumed.
AbortMultipart(u) ==
  oss' = [oss EXCEPT ![u] = IF @ \in {"open", "full"} THEN "gone" ELSE @]

\* A program writing through the mount.
MountWrite ==
  /\ file # Absent /\ file.gen < MaxGen
  /\ file' = [ino |-> file.ino, gen |-> file.gen + 1, src |-> MountSource]
  /\ UNCHANGED <<lastInode, direct, oss, row, task, age, declared, proc>>

MountCreate ==
  /\ file = Absent /\ ~NameReserved /\ lastInode < MaxInode
  /\ lastInode' = lastInode + 1
  /\ file' = [ino |-> lastInode + 1, gen |-> 1, src |-> MountSource]
  /\ UNCHANGED <<direct, oss, row, task, age, declared, proc>>

\* A program unlinks the file, or renames it away.
MountRemove ==
  /\ file # Absent
  /\ file' = Absent
  /\ UNCHANGED <<lastInode, direct, oss, row, task, age, declared, proc>>

\* The reservation TTL runs out.
ReservationExpires(u) ==
  /\ direct[u].st = "active" /\ age[u] >= Lapsed
  /\ Release(u)
  /\ UNCHANGED <<file, lastInode, row, task, age, declared, proc>>

\* The browser PUTs every part to its presigned URLs.
PutParts(u) ==
  /\ oss[u] = "open" /\ row[u] = "uploading"
  /\ oss' = [oss EXCEPT ![u] = "full"]
  /\ UNCHANGED <<file, lastInode, direct, row, task, age, declared, proc>>

TimePasses(u) ==
  /\ direct[u].st = "active" \/ row[u] = "uploading"
  /\ age[u] < MaxAge
  /\ age' = [age EXCEPT ![u] = @ + 1]
  /\ UNCHANGED <<file, lastInode, direct, oss, row, task, declared, proc>>

-----------------------------------------------------------------------------
(* POST /file/upload/init *)

\* The upload ID is a fresh UUID; g is the generation the editor has open.
StartInit(p, u, strategy, g) ==
  /\ At(p, "idle")
  /\ direct[u].st = "none" /\ \A q \in Procs : proc[q].u # u
  /\ proc' = [proc EXCEPT ![p] =
                [pc |-> "lookup", u |-> u, arg |-> strategy, ino |-> 0]]
  /\ declared' = [declared EXCEPT ![u] = g]
  /\ UNCHANGED <<file, lastInode, direct, oss, row, task, age>>

\* Files.Get falls back to an uploading row when no node is ready.
LookupExisting(p) ==
  LET u == proc[p].u
      nothing == file = Absent /\ \A v \in Uploads : row[v] # "uploading"
      replace == file # Absent /\ proc[p].arg = "replace"
      agrees  == declared[u] = 0 \/ (file # Absent /\ declared[u] = file.gen)
  IN /\ At(p, "lookup")
     /\ IF agrees /\ (nothing \/ replace)
          THEN proc' = [proc EXCEPT ![p].pc = "prepare",
                          ![p].arg = IF replace THEN "replace" ELSE "create"]
          ELSE Done(p)
     /\ UNCHANGED <<file, lastInode, direct, oss, row, task, age, declared>>

\* Mutant: the captured generation is not compared.
GenerationUnchecked(u, captured) == FALSE

\* The generation the reservation captured is compared once more: a mount may
\* have written since the lookup.
GenerationConflict(u, captured) == declared[u] > 0 /\ captured # declared[u]

Reserve(p, u, ino, captured) ==
  /\ direct' = [direct EXCEPT ![u] =
                  [st |-> "active", ino |-> ino, exp |-> captured]]
  /\ age' = [age EXCEPT ![u] = Fresh]
  /\ Goto(p, IF GenerationConflict(u, captured) THEN "undoDirect" ELSE "multipart")

PrepareReplacement(p) ==
  /\ At(p, "prepare") /\ proc[p].arg = "replace"
  /\ file # Absent /\ file.gen < MaxGen
  /\ Reserve(p, proc[p].u, file.ino, file.gen)
  /\ UNCHANGED <<file, lastInode, oss, row, task, declared>>

PrepareCreation(p) ==
  /\ At(p, "prepare") /\ file = Absent /\ ~NameReserved /\ lastInode < MaxInode
  /\ lastInode' = lastInode + 1
  /\ Reserve(p, proc[p].u, lastInode + 1, 0)
  /\ UNCHANGED <<file, oss, row, task, declared>>

\* ErrAlreadyExists, ErrConflict, or the file to replace is gone.
PrepareRefused(p) ==
  /\ At(p, "prepare")
  /\ \/ proc[p].arg = "create" /\ (file # Absent \/ NameReserved)
     \/ proc[p].arg = "replace" /\ file = Absent
  /\ Done(p)
  /\ UNCHANGED <<file, lastInode, direct, oss, row, task, age, declared>>

CreateMultipart(p) ==
  /\ At(p, "multipart")
  /\ \/ oss' = [oss EXCEPT ![proc[p].u] = "open"] /\ Goto(p, "task")
     \/ MayFail /\ Goto(p, "undoDirect") /\ UNCHANGED oss
  /\ UNCHANGED <<file, lastInode, direct, row, task, age, declared>>

\* Internal uploads (thumbnails, wallpapers) have no task.
CreateTask(p) ==
  /\ At(p, "task")
  /\ \/ task' = [task EXCEPT ![proc[p].u] = "running"] /\ Goto(p, "row")
     \/ Goto(p, "row") /\ UNCHANGED task
     \/ MayFail /\ Goto(p, "undoMultipart") /\ UNCHANGED task
  /\ UNCHANGED <<file, lastInode, direct, oss, row, age, declared>>

\* CreateUpload checks that the reservation is active and still at the name.
CreateRow(p) ==
  LET u == proc[p].u IN
  /\ At(p, "row")
  /\ \/ /\ direct[u].st = "active" /\ (Creating(u) \/ file.ino = direct[u].ino)
        /\ row' = [row EXCEPT ![u] = "uploading"]
        /\ age' = [age EXCEPT ![u] = Fresh]
        /\ Done(p)
     \/ /\ ~(direct[u].st = "active" /\ (Creating(u) \/ file.ino = direct[u].ino))
           \/ MayFail
        /\ Goto(p, "undoTask")
        /\ UNCHANGED <<row, age>>
  /\ UNCHANGED <<file, lastInode, direct, oss, task, declared>>

\* The errors of the undoing calls are ignored.
UndoTask(p) ==
  /\ At(p, "undoTask")
  /\ task' = [task EXCEPT ![proc[p].u] = "none"] \/ (MayFail /\ UNCHANGED task)
  /\ Goto(p, "undoMultipart")
  /\ UNCHANGED <<file, lastInode, direct, oss, row, age, declared>>

UndoMultipart(p) ==
  /\ At(p, "undoMultipart")
  /\ AbortMultipart(proc[p].u) \/ (MayFail /\ UNCHANGED oss)
  /\ Goto(p, "undoDirect")
  /\ UNCHANGED <<file, lastInode, direct, row, task, age, declared>>

UndoDirect(p) ==
  LET u == proc[p].u IN
  /\ At(p, "undoDirect")
  /\ IF direct[u].st = "active" THEN Release(u) ELSE UNCHANGED <<direct, oss>>
  /\ Done(p)
  /\ UNCHANGED <<file, lastInode, row, task, age, declared>>

-----------------------------------------------------------------------------
(* POST /file/upload/presign and /heartbeat *)

\* RefreshDirectUpload fails once the reservation is gone; then TouchUpload.
Heartbeat(u) ==
  /\ row[u] = "uploading" /\ direct[u].st = "active" /\ age[u] # Fresh
  /\ age' = [age EXCEPT ![u] = Fresh]
  /\ UNCHANGED <<file, lastInode, direct, oss, row, task, declared, proc>>

-----------------------------------------------------------------------------
(* POST /file/upload/complete *)

StartComplete(p, u) ==
  /\ At(p, "idle")
  /\ \/ row[u] = "ready" /\ file.ino = direct[u].ino
     \/ row[u] = "uploading" /\ direct[u].st \in {"active", "committed"}
  /\ proc' = [proc EXCEPT ![p] =
       IF row[u] = "ready"
         THEN [pc |-> "ack", u |-> u, arg |-> "none", ino |-> 0]
         ELSE [pc |-> "object", u |-> u, arg |-> direct[u].st, ino |-> 0]]
  /\ UNCHANGED <<file, lastInode, direct, oss, row, task, age, declared>>

\* Mutant: the result of HeadObject is ignored.
AssembleUnverified(p) ==
  /\ At(p, "object")
  /\ IF proc[p].arg = "active" /\ oss[proc[p].u] = "full"
       THEN oss' = [oss EXCEPT ![proc[p].u] = "object"]
       ELSE UNCHANGED oss
  /\ Goto(p, "commit")
  /\ UNCHANGED <<file, lastInode, direct, row, task, age, declared>>

\* An active reservation assembles its object unless an earlier attempt did;
\* then HeadObject has to find the object whole.
AssembleObject(p) ==
  LET u == proc[p].u IN
  /\ At(p, "object")
  /\ IF oss[u] = "object" \/ (proc[p].arg = "active" /\ oss[u] = "full")
       THEN oss' = [oss EXCEPT ![u] = "object"] /\ Goto(p, "commit")
       ELSE Done(p) /\ UNCHANGED oss
  /\ UNCHANGED <<file, lastInode, direct, row, task, age, declared>>

\* Mutant: ErrConflict is taken for a commit that is already done.
CommitIgnoringConflict(p) ==
  LET u == proc[p].u IN
  /\ At(p, "commit")
  /\ IF CommitAllowed(u) THEN PublishGeneration(u) ELSE UNCHANGED <<file, direct>>
  /\ Goto(p, "project")
  /\ UNCHANGED <<lastInode, oss, row, task, age, declared>>

CommitDirectUpload(p) ==
  LET u == proc[p].u IN
  /\ At(p, "commit")
  /\ \/ CommitAllowed(u) /\ PublishGeneration(u) /\ Goto(p, "project")
     \/ /\ direct[u].st = "committed"       \* a retry finds its own commit
        /\ Goto(p, "project") /\ UNCHANGED <<file, direct>>
     \/ /\ ~CommitAllowed(u) /\ direct[u].st # "committed"
        /\ Done(p) /\ UNCHANGED <<file, direct>>
  /\ UNCHANGED <<lastInode, oss, row, task, age, declared>>

\* Mutant: the commit record is acknowledged before the row is ready.
ResolveThenAcknowledge(p) ==
  /\ At(p, "project")
  /\ IF file.ino = direct[proc[p].u].ino THEN Goto(p, "ack") ELSE Done(p)
  /\ UNCHANGED <<file, lastInode, direct, oss, row, task, age, declared>>

\* GetByID and Upsert resolve the published node; Projection models the rest.
ResolvePublished(p) ==
  /\ At(p, "project")
  /\ IF file.ino = direct[proc[p].u].ino THEN Goto(p, "ready") ELSE Done(p)
  /\ UNCHANGED <<file, lastInode, direct, oss, row, task, age, declared>>

MarkReady(p) ==
  LET u == proc[p].u IN
  /\ At(p, "ready")
  /\ IF row[u] # "none"
       THEN /\ row' = [row EXCEPT ![u] = "ready"]
            /\ age' = [age EXCEPT ![u] = Fresh]
            /\ Goto(p, "finishTask")
       ELSE Done(p) /\ UNCHANGED <<row, age>>
  /\ UNCHANGED <<file, lastInode, direct, oss, task, declared>>

EndTaskAs(u, status) ==
  task' = [task EXCEPT ![u] = IF @ = "none" THEN "none" ELSE status]


\* The error of UpdateStatus is ignored.
FinishTask(p) ==
  /\ At(p, "finishTask")
  /\ EndTaskAs(proc[p].u, "completed") \/ (MayFail /\ UNCHANGED task)
  /\ Goto(p, "ack")
  /\ UNCHANGED <<file, lastInode, direct, oss, row, age, declared>>

Acknowledge(p) ==
  LET u == proc[p].u IN
  /\ At(p, "ack")
  /\ IF direct[u].st = "committed"
       THEN direct' = [direct EXCEPT ![u].st = "acked"]
       ELSE UNCHANGED direct
  /\ Done(p)
  /\ UNCHANGED <<file, lastInode, oss, row, task, age, declared>>

-----------------------------------------------------------------------------
(* Everything that ends an upload: the cancel and cleanup endpoints, task    *)
(* cancellation, deletion of a path that is still uploading, and the two     *)
(* hourly loops.  Each takes the row it read and then makes the same calls.  *)
(* A loop that collected several rows is that many aborts, started together. *)

AbortGuard(u, by) ==
  CASE by = "cancel"     -> row[u] # "none"
    [] by = "cleanup"    -> row[u] = "uploading" /\ age[u] >= Quiet
    [] by = "cancelTask" -> task[u] # "none"
    [] by = "remove"     -> row[u] = "uploading" /\ file = Absent
    [] by \in {"sweeper", "orphans"} -> row[u] = "uploading" /\ age[u] >= Stale

\* A task without an uploading row is only marked.  A browser that gives up
\* may ask for "failed" in place of "cancelled"; the two are not told apart.
StartAbort(p, u, by) ==
  /\ At(p, "idle") /\ AbortGuard(u, by)
  /\ proc' = [proc EXCEPT ![p] =
       [pc |-> IF by = "cancelTask" /\ row[u] # "uploading"
                 THEN "endTask" ELSE "abortMultipart",
        u |-> u, arg |-> by, ino |-> 0]]
  /\ UNCHANGED <<file, lastInode, direct, oss, row, task, age, declared>>

AbortMultipartCall(p) ==
  /\ At(p, "abortMultipart")
  /\ AbortMultipart(proc[p].u) \/ (MayFail /\ UNCHANGED oss)
  /\ Goto(p, "abortDirect")
  /\ UNCHANGED <<file, lastInode, direct, row, task, age, declared>>

\* The orphan cleaner and a path deletion know no task.
LeavesTask(by) == by \in {"remove", "orphans"}

AfterAbort(p) ==
  IF LeavesTask(proc[p].arg) THEN Done(p) ELSE Goto(p, "endTask")

\* Mutant: a reservation that is already gone keeps the row.
AbortDirectStopsWhenGone(p) ==
  LET u == proc[p].u IN
  /\ At(p, "abortDirect") /\ direct[u].st # "committed"
  /\ IF direct[u].st = "active"
       THEN Release(u) /\ Goto(p, "dropRow")
       ELSE AfterAbort(p) /\ UNCHANGED <<direct, oss>>
  /\ UNCHANGED <<file, lastInode, row, task, age, declared>>

\* A reservation that is already gone (ErrNotFound) does not stop the row from
\* being deleted; any other error does.
AbortDirectOpen(p) ==
  LET u == proc[p].u IN
  /\ At(p, "abortDirect") /\ direct[u].st # "committed"
  /\ IF direct[u].st = "active" THEN Release(u) ELSE UNCHANGED <<direct, oss>>
  /\ Goto(p, "dropRow")
  /\ UNCHANGED <<file, lastInode, row, task, age, declared>>

\* Of a committed upload DOFS only forgets the reservation, or refuses.
AbortDirectCommitted(p) ==
  LET u == proc[p].u IN
  /\ At(p, "abortDirect") /\ direct[u].st = "committed"
  /\ \/ direct' = [direct EXCEPT ![u].st = "forgotten"] /\ Goto(p, "dropRow")
     \/ AfterAbort(p) /\ UNCHANGED direct
  /\ UNCHANGED <<file, lastInode, oss, row, task, age, declared>>

\* Mutant: the row is deleted although the reservation could not be aborted.
AbortDirectErrorIgnored(p) ==
  /\ At(p, "abortDirect") /\ MayFail
  /\ Goto(p, "dropRow")
  /\ UNCHANGED <<file, lastInode, direct, oss, row, task, age, declared>>

AbortDirectFails(p) ==
  /\ At(p, "abortDirect") /\ MayFail
  /\ AfterAbort(p)
  /\ UNCHANGED <<file, lastInode, direct, oss, row, task, age, declared>>

DropRow(p) ==
  /\ At(p, "dropRow")
  /\ row' = [row EXCEPT ![proc[p].u] = "none"]
  /\ AfterAbort(p)
  /\ UNCHANGED <<file, lastInode, direct, oss, task, age, declared>>

EndTask(p) ==
  /\ At(p, "endTask")
  /\ EndTaskAs(proc[p].u, "cancelled")
  /\ Done(p)
  /\ UNCHANGED <<file, lastInode, direct, oss, row, age, declared>>

-----------------------------------------------------------------------------
(* Permanent deletion of the ready file: Repo.Delete, deleteNode *)

\* The handler has found the file ready at the pathname ...
StartDelete(p) ==
  /\ At(p, "idle") /\ file # Absent
  /\ proc' = [proc EXCEPT ![p].pc = "resolve"]
  /\ UNCHANGED <<file, lastInode, direct, oss, row, task, age, declared>>

\* ... and Repo.Delete resolves it again.
LookupVictim(p) ==
  /\ At(p, "resolve")
  /\ IF file # Absent
       THEN proc' = [proc EXCEPT ![p].pc = "unlink", ![p].ino = file.ino]
       ELSE Goto(p, "dropPath")
  /\ UNCHANGED <<file, lastInode, direct, oss, row, task, age, declared>>

\* The file is gone by then: every upload row of the pathname is deleted, and
\* nothing is aborted.
DropPathRows(p) ==
  /\ At(p, "dropPath")
  /\ row' = [u \in Uploads |-> "none"]
  /\ Done(p)
  /\ UNCHANGED <<file, lastInode, direct, oss, task, age, declared>>

\* Remove takes the name: it unlinks whatever is there by now.
Unlink(p) ==
  /\ At(p, "unlink")
  /\ IF file # Absent
       THEN file' = Absent /\ Goto(p, "dropRows")
       ELSE Done(p) /\ UNCHANGED file
  /\ UNCHANGED <<lastInode, direct, oss, row, task, age, declared>>

\* deleteInodeProjection forgets every upload of the inode.
DeleteInodeProjection(p) ==
  /\ At(p, "dropRows")
  /\ row' = [u \in Uploads |->
               IF direct[u].ino = proc[p].ino THEN "none" ELSE row[u]]
  /\ Done(p)
  /\ UNCHANGED <<file, lastInode, direct, oss, task, age, declared>>

-----------------------------------------------------------------------------
Abandon(p) ==
  /\ MayFail /\ ~At(p, "idle")
  /\ Done(p)
  /\ UNCHANGED <<file, lastInode, direct, oss, row, task, age, declared>>

InitStep(p) ==
  \/ LookupExisting(p)
  \/ PrepareReplacement(p) \/ PrepareCreation(p) \/ PrepareRefused(p)
  \/ CreateMultipart(p) \/ CreateTask(p) \/ CreateRow(p)
  \/ UndoTask(p) \/ UndoMultipart(p) \/ UndoDirect(p)

CompleteStep(p) ==
  \/ AssembleObject(p) \/ CommitDirectUpload(p) \/ ResolvePublished(p)
  \/ MarkReady(p) \/ FinishTask(p) \/ Acknowledge(p)

AbortStep(p) ==
  \/ AbortMultipartCall(p)
  \/ AbortDirectOpen(p) \/ AbortDirectCommitted(p) \/ AbortDirectFails(p)
  \/ DropRow(p) \/ EndTask(p)

DeleteStep(p) ==
  LookupVictim(p) \/ DropPathRows(p) \/ Unlink(p) \/ DeleteInodeProjection(p)

StartRequest(p) ==
  \/ StartDelete(p)
  \/ \E u \in Uploads :
       \/ \E s \in {"create", "replace"}, g \in {0, file.gen} : StartInit(p, u, s, g)
       \/ StartComplete(p, u)
       \/ \E by \in Aborters \ {"sweeper", "orphans"} : StartAbort(p, u, by)

Environment ==
  \/ MountWrite \/ MountCreate \/ MountRemove
  \/ \E u \in Uploads :
       ReservationExpires(u) \/ PutParts(u) \/ TimePasses(u) \/ Heartbeat(u)

Next ==
  \/ Environment
  \/ \E p \in Requests : StartRequest(p)
  \/ \E p \in Cleaners, u \in Uploads : StartAbort(p, u, p)
  \/ \E p \in Procs :
       InitStep(p) \/ CompleteStep(p) \/ AbortStep(p) \/ DeleteStep(p) \/ Abandon(p)

Spec == Init /\ [][Next]_vars

\* The hourly tickers visit every stale row, a handler that started is carried
\* on, and an abort that is retried for ever does not fail for ever at the same
\* call.  Browsers, mounts and users promise nothing.
Step(p) == InitStep(p) \/ CompleteStep(p) \/ AbortStep(p) \/ DeleteStep(p)

CleanersRun ==
  \A p \in Cleaners, u \in Uploads :
    /\ SF_vars(StartAbort(p, u, p))
    /\ SF_vars(proc[p].u = u /\ AbortMultipartCall(p))
    /\ SF_vars(proc[p].u = u /\ AbortDirectOpen(p))
    /\ SF_vars(proc[p].u = u /\ DropRow(p))

Fairness == CleanersRun /\ \A p \in Procs : WF_vars(Step(p))

FairSpec == Spec /\ Fairness

-----------------------------------------------------------------------------
\* A step that handles an upload names it.
Processes ==
  {r \in [pc : Pcs, u : Uploads \cup {NoUpload}, arg : Args, ino : 0..MaxInode] :
     r.pc \in BusyPcs => r.u \in Uploads}

Files ==
  [ino : 0..MaxInode, gen : 0..MaxGen, src : Uploads \cup {MountSource, NoSource}]

Reservations ==
  [st : {"none", "active", "committed", "acked", "forgotten", "released"},
   ino : 0..MaxInode, exp : 0..(MaxGen - 1)]

TypeOK ==
  /\ file \in Files
  /\ lastInode \in 0..MaxInode
  /\ direct \in [Uploads -> Reservations]
  /\ oss \in [Uploads -> {"none", "open", "full", "object", "gone"}]
  /\ row \in [Uploads -> {"none", "uploading", "ready"}]
  /\ task \in [Uploads -> {"none", "running", "completed", "cancelled"}]
  /\ age \in [Uploads -> Fresh..Stale]
  /\ declared \in [Uploads -> 0..MaxGen]
  /\ proc \in [Procs -> Processes]

\* Contents an upload published have their ciphertext object, whatever was
\* cancelled, swept or retried while the completion was running.
PublishedIsStored == \A u \in Uploads : file.src = u => oss[u] = "object"

\* What a row or task tells the user has happened: a ready row or a completed
\* task belongs to an upload whose generation really was published.
SuccessIsPublished ==
  \A u \in Uploads :
    row[u] = "ready" \/ task[u] = "completed" => Published(u)

\* The DOFS record that makes a retried completion find its own commit is
\* given up only after the row can answer the retry by itself.
RetryStaysAnswerable ==
  \A u \in Uploads : direct[u].st = "acked" => row[u] # "uploading"

\* comment at CancelUploadsForOtherInstances (uploads.go:122): the row a
\* cleaner finds an upload by disappears only after the reservation has been
\* aborted.  Two deletions do not keep to it: that of the file whose contents
\* the upload was to replace, and one that finds its file gone and then takes
\* whatever waits at the pathname.
RowOutlivesReservation ==
  [][\A u \in Uploads :
       direct[u].st = "active" /\ row[u] = "uploading" /\ row'[u] # row[u] =>
         \/ direct[u].exp > 0 /\ file.ino # direct[u].ino
         \/ \E p \in Procs : DropPathRows(p)]_vars

\* One editor's upload never overwrites a generation another one wrote: the
\* protocol implements the optimistic register.
Register ==
  INSTANCE OptimisticFile
    WITH published <- {u \in Uploads : Published(u)}
Optimistic == Register!Spec

\* No upload is stuck for ever: a stale row is reclaimed unless its browser
\* comes back or its generation is published after all.
StaleUploadReclaimed ==
  \A u \in Uploads :
    (row[u] = "uploading" /\ age[u] = Stale /\ direct[u].st # "committed")
      ~> (row[u] # "uploading" \/ age[u] = Fresh \/ direct[u].st = "committed")
=============================================================================
