# Formal verification of Domus

TLA+ models of the parts of Domus whose correctness depends on the order in
which several actors take steps, the TLC configurations that check them on small
instances, and TLAPS proofs about them.  Source paths are relative to the
repository; line numbers refer to the commit this directory stands beside.

1. [The system](#1-the-system)
2. [Modules](#2-modules)
3. [How the modules correspond to the code](#3-how-the-modules-correspond-to-the-code)
4. [Runs](#4-runs)
5. [Bounds](#5-bounds)
6. [Fairness and deadlock](#6-fairness-and-deadlock)
7. [Proofs](#7-proofs)
8. [Disagreements between code and documentation](#8-disagreements-between-code-and-documentation)
9. [What is not modelled](#9-what-is-not-modelled)
10. [Plan](#10-plan)

## 1. The system

Domus is a private cloud drive.  Users see one tree of files through a browser
and through FUSE mounts on the server's host.  File contents are encrypted and
live in an object store (OSS, the S3 protocol); names, inodes, generations and
upload reservations live in the metadata store of DOFS, an external library;
everything else (accounts, upload rows, task rows, file metadata, trash entries,
renditions, shares) lives in PostgreSQL.  **No transaction spans any two of the
three stores.**  Almost everything that is hard in Domus follows from that.

| Component | Where | State it keeps | Operations | What makes it correct |
|---|---|---|---|---|
| Upload control plane | `internal/handler/upload.go`, `sweeper.go`, `internal/fileview/uploads.go`, `internal/handler/task.go` | DOFS reservation, multipart upload, `uploads` row, `tasks` row | init, presign, heartbeat, complete, cancel, clean-up, sweep | one publication per upload, never over a generation the editor has not seen; a success answered is a success; nothing half done stays |
| File projection and tree operations | `internal/fileview`, `internal/handler/files.go`, media part of `cmd/worker.go` | `domus_file_metadata`: hash, media data, thumbnail, stamped with a generation | upload's upsert, copy, rename, replace, delete, restore of a generation, probe | what is shown was computed from the contents it is shown with |
| Trash | `internal/handler/trash.go`, `internal/model/repo_trash.go` | `domus_trash_entries` row and an inode in a hidden directory | create, list, restore (with merges), delete, empty, recover | no file is destroyed that nobody deleted; no entry is stuck |
| DOFS mount manager | `internal/dofs/manager_linux.go` | desired users (memory and marker files), mounts, directories, state per user | ensure, unmount, reconcile, watch, scan, shutdown | no mount is lost from sight; what is wanted is mounted in the end and what is unwanted is not |
| Transcode jobs and renditions | `internal/handler/transcode.go`, `task.go`, `cmd/worker.go` | `tasks` and `renditions` rows, segment files | request, claim, publish, cancel, requeue | one live job per rendition; a cancelled job ends; a ready rendition is complete |
| WebSocket hub and event relay | `internal/ws`, `internal/handler/session_revoke.go`, `dofs_events.go` | connections, three maps over them, subscriptions, send queues, a cursor per user | upgrade, subscribe, answer, publish, revoke, close | a revocation leaves no connection open; a subscribed browser misses no change; every closing ends |
| Users and their namespaces | `internal/handler/admin*.go`, `dofs_reclaim.go`, `internal/dofsbridge/runtime.go`, the start of every process in `cmd` | table `users`, namespaces of the DOFS store | create, change, delete, ensure at start, reclaim | who exists keeps a namespace, who is gone leaves none; a root user remains |
| Service process and PID file | `shared/daemon/pid.go`, `cmd/root.go` | PID file and its lock | start, stop, restart, shut down | one server at a time |
| Backup, restore and reset | `cmd/backup_restore.go`, `reset.go` | bucket, database, metadata with their log, runtime state, the backup | three commands over all stores | run alone; a backup is the instance; success is complete and a refusal is harmless |
| Authentication and sessions | `internal/auth`, `internal/handler/auth.go`, `account.go` | sessions, challenges, codes | login, refresh, lock out | one use per code; revocation takes effect |
| Browser upload engine and pending operations | `frontend/src/uploads`, `frontend/src/stores/pendingOps.ts` | slots, attempts, a queue that survives reloads | start, pause, resume, cancel, replay | no two attempts of one file at a time; operations are not applied twice |

The remaining components (listing, search, shares, configuration, logs, mail,
audit, the Vue components) are in `PROJECT.json` with the reason they are left
out.

How they interact.  A browser asks the HTTP server to start an upload, encrypts
and sends the parts to the object store by itself, and asks the server to
complete it; the completion publishes a generation in DOFS (the upload control
plane) and then writes the row that describes it (the projection).  The media
worker, a process of its own, finds files without media data through a FUSE
mount (served by the mount manager) and writes to the same rows.  Deleting a file
moves its inode to the trash; expired uploads, pending trash entries and removed
users' data are taken care of by background loops of the server.  A mount writes
to DOFS without asking the server at all, so every handler that looks something
up by pathname and acts on it later competes with it.  A relay in the server
turns the events of the DOFS store into messages for the WebSocket connections
that subscribed to a directory.  An administrator creates and deletes users, whose
namespaces three kinds of processes ensure when they start.  The offline commands
work on every store at once and rely on the PID file and the control socket of the
mount service to know that nobody else does.

The hard behaviours, with the line where each bites and the properties that
watch it, are listed in `PROJECT.json` under `hazards`.  They come in six groups:
pathnames that are resolved twice; rows and inodes that can only be changed one
after the other, with a failure or a crash in between; retried requests and
background loops that meet a request still running; state read under a lock and
used after it; a check that nobody else is there, and who comes after it; and
counters, leases and time-outs at their limit.

## 2. Modules

| Module | Content |
|---|---|
| `OptimisticFile` | abstract: a file whose uploads publish if and only if the generation their editor declared is still current |
| `DirectUpload` | uploads to one pathname over DOFS, OSS and PostgreSQL, call by call |
| `DirectUploadProofs` | theorems about `DirectUpload`, `OptimisticFile` being implemented among them |
| `FileProjection` | inodes, names, generations and the rows that describe them |
| `FileProjectionProofs` | theorems about `FileProjection` |
| `TrashBin` | trash entries, their payloads, every request on them, recovery and restart |
| `TrashBinProofs` | theorems about `TrashBin` |
| `MountManager` | the mount manager of one host, its requests, its goroutines and its end |
| `MountManagerProofs` | theorems about `MountManager` |
| `Transcode` | rendition rows, task rows, the requests on them and the workers that claim tasks |
| `TranscodeProofs` | theorems about `Transcode` |
| `LiveHub` | WebSocket connections in the hub's maps, revocation, and the relay of events |
| `LiveHubProofs` | theorems about `LiveHub` |
| `Accounts` | users and their namespaces, the processes that ensure them, the reclaimer |
| `AccountsProofs` | theorems about `Accounts` |
| `ServiceLock` | the PID file of the server: start, stop, restart, crash |
| `Maintenance` | backup, restore and reset; extends `ServiceLock`, and composes it with the mount service and the stores |
| `MaintenanceProofs` | theorems about `ServiceLock` and `Maintenance` |
| `MC*` | the symmetry and the initial placements the configurations use |

`Maintenance` takes every step of `ServiceLock` and adds to those that open or close
the stores what happens to them.  The other modules share no variable: each takes what another does to its state as an
action of its environment.  `Transcode` takes uploads and deletions of a video as a
change of its generation followed by the removal of its renditions, which is
the order of their handlers.  `DirectUpload` and `FileProjection` take the writes of
a mount (`MountWrite` and its like) as always enabled; `FileProjection` takes an
upload from its commit on, which is where `DirectUpload` ends; `TrashBin` takes
renames by other handlers and mounts as `Edit`; `Accounts` leaves the revocation of
sessions to `LiveHub`.  Each is a superset of what the
other module allows, so the results can be read together.

Before some definitions stands another one marked as a mutant: the same definition with
a plausible defect.  `PROJECT.json` lists them under `mutants`: for every
property of every passing run, one with which TLC finds the property violated.

## 3. How the modules correspond to the code

`map` in `PROJECT.json` gives the lines of every definition.  What follows is how
to read them.

### DirectUpload

One action per call that leaves the process (to DOFS, OSS or PostgreSQL), since
between two of them anything may happen.  A handler is a process with a program
counter; `proc[p]` holds it with what the handler read before.  Handlers:
`StartInit` .. (upload.go `handleUploadInit`: reserve, create the multipart upload,
the row, the task), complete (`handleUploadComplete`: mark, list the parts,
`CompleteMultipartUpload`, head, `CommitDirectUpload`, the row, the task), and
abort in the forms in which cancel, clean-up, task cancellation, the sweeper and
the orphan loop use it.  `Abandon` stands for a failed call, a closed connection and a crash:
in all three the handler takes no further step, and what it had deferred to be
undone runs as steps that can themselves stop.  The deletion of a pathname resolves it twice,
for the inode and for the removal, and a mount may remove the file in between; when the file
is gone, the handler deletes every upload row of the pathname and aborts nothing (`DropPathRows`,
mutations.go:179-182).  The contents of a file are
identified by the upload they came from (`MountSource` for a mount).  Part
numbers and sizes are left out; presign and heartbeat change only the time of
the last activity, which is the row's age.

The age of an upload (0 to 3) tells apart what the code distinguishes: younger
than the 90 minutes of the reservation, older, and older than the 24 hours of the
cleaners.

### FileProjection

`at` is the tree (name to inode), `gen` the published generation of each inode and
`row` the projection.  A version is a pair of an inode and a generation; a row
holds the generation it is stamped with and, for each part of it, whether that part was computed from the
plaintext of this version.  So "the row tells the truth" is a
comparison and no contents are needed.  The parts are the hash, `pic` (dimensions and
duration) and `meta` (the codec string and the summary, which only the worker writes); a
part that is stale also names the inode the worker had probed, if it was the worker.
A copy is `CloneReserve` and `CloneCommit`, which replaces what it finds at the destination
(service.go:118), followed by `CopyMetadata`, which copies the whole row except the thumbnail
(service.go:102-114).  Handlers resolve a pathname at each
step where the code does.  `moved` is a history variable that only
`WorkerNeverMisleads` and its like read.

### TrashBin

`place` maps every inode to the directory and key where it is, `row` is the state of
each entry, `proc` the requests.  Every path operation resolves again at the step
in which it is called, and a move or a purge may fail, or be carried out and reported as
failed.  A creation that deletes its row after such an answer leaves a row that is `undone`: the
entry is gone and its payload may be in the slot.  A purge of a directory tree is atomic per call, and may
stop part way.  `RecoverEntry` is `recoverTrashEntry` for one entry; `Restart` is
`PrepareTrashStorage` with `RecoverTrash`, which the server runs before it accepts
requests (cmd/root.go:681), and is therefore atomic.  `Outlasting` names the kinds of
requests that may still be running when the grace of two minutes has passed.
The comment at trash.go:1020-1022 says that the grace is there so that recovery and
requests do not meet; recursive operations are not bounded by it, so
`trash_recovery` lets them meet and checks what must hold even then.

### MountManager

A step is one critical section of `Manager.mu`, one file-system call or one call of
the provider.  The operation lock of a user is `busy`.  `server` is the FUSE server
behind each handle, `watching` the goroutine that waits for its end, `reports` the
failures a reconciliation has yet to record, `dead` the users whose mount was left
disconnected in the kernel by an earlier process.  `Exit` ends the process
between any two steps; `NewManager` starts the next one from the marker files and
the mount table.  The scan inspects, probes and unmounts one mountpoint (`SweepMountpoint`,
manager_linux.go:1056-1085) in one step.  `OtherMounts` are the places that other users' mounts
take of the limit.  `calm` is a bound of the liveness run only: after `FaultsEnd` no
call fails, and the others have left their places.

### Transcode

Two tables: `rend`, one row per source and profile (`CreateRendition` resets the row
that is there), and `task`, the queue.  One statement is one step; the look-up and
the list at the beginning of a request, and the look-ups of row and source by which a worker
compares generations, are one step each, since nothing but their answer is used.  Of a
generation only "is it the current one" is kept, and `NewGeneration` makes it false in
the row, in every request and in every worker.  A segment is the
worker that wrote it and its position.  Every statement may fail, or take effect and be
reported as failed, the status updates and the undoing statements included, whose errors the code
discards.  Segment files, rows whose files vanished and the limit of jobs per pass are left out.

Most failures are repaired or undone.  Some leave a row in progress with nothing that ends it:
the read-back after the upsert fails (renditions.go:40), a row cannot be deleted or marked when a
request is undone, a job cancelled or ended, a claim is committed and reported as failed, a starting worker cannot
requeue; the server stops
between the row and its task or while it undoes one (`ServerStops`), a worker stops
or starts while a request is about to overwrite the status of a task
(`Overwriting`), or stops when its task has ended under it or its row is still to be failed
(`Disowned`).  `cut` records that a chain of statements was broken off in such a place; the properties
of `Transcode` do not hold afterwards and say so by their premise, and
the run does not explore further.  Every other failure, stop and start is explored, and is
repaired by the handler, by `RequeueStale` or by `ResetStale`.

### LiveHub

The hub keeps a connection in `conns` and `userConns` and its subscriptions in `dirSubs`,
all `sync.Map`s without a lock around them, so each `Store` and `Delete` is a step.
`conn[c]` has the program counters of the connection's two goroutines (`reader`, `writer`),
the progress of `unregister` (`stage`), which only the goroutine that set the closed flag
(`closer`) takes on, and the send queue.  A best-effort message to a full queue is dropped
(`Notify`); an answer waits and then closes the connection (`Answer`).  A revocation is the
deletion of the rows, the last message, and `DisconnectUser`, which closes the connections of
the user's set and waits for each; `late` marks a connection that was upgraded with the session
still valid and was not yet in that set.  `log` is what happened to a user's directories and
`relay` the goroutine that passes it on.  When the relay cannot look up the directory of a change it
passes over it, and nobody is told (dofs_events.go:121); `skipped` is the history of that.  `ack` and
`seen` are histories, too: how much had happened when
the browser was told of its subscription, and what it was sent since.

### Accounts

`row` is the table of users, `ns` the namespace of each: `CreateNamespace` and
`EnsureDirectories` are two calls, so it may be `bare`.  `Ensurers` are the processes that
call `EnsureUser`: a request that creates a user, and the start of the API server, of the
worker, of the mount service and of a mount, each over the list of users it read before.
A request begins with its first statement, so a creation with the insertion, a change with the
reading of the user.  `GuardLastRoot` counts the root users, and `UpdateRole` or `DeleteUserAndRelatedData` follow
as steps of their own; `late` marks a request during which, after it had read or counted and
before it wrote, another request changed who is root.  `MaxBusy` bounds how many requests and
helpers are in progress at a time.  The reclaimer looks the owner up and deletes afterwards (`LookUpOwner`, `DeleteOrphan`).
IDs are not used again.

### ServiceLock and Maintenance

A lock belongs to an open file and not to its name, so `file` is what the path leads to and
`server[s].ino` what a server has open; a server may hold the lock of a file that is no
longer there (`Evicted`).  The commands stop and restart read the PID, signal it, wait for five seconds
and remove the files.  `overlap` is a history of what makes that unsafe: a server starts while
another is being stopped, or restart no longer waits.  A server that ends releases its file
as its last step; goroutines of it that outlive the release by a moment, until the
process exits, are not in the model.

`Maintenance` has the stores: objects, database, the metadata file with its write-ahead log,
and the runtime state of the mount service.  An object name stands for a version: its
ciphertext, its metadata and its row.  `CheckStatus` and `RequireDOFSStopped` are the checks of
the PID file and of the control socket, which the mount service opens after the stores and closes
before them.  Then each command goes through the stores one by one, and may end by itself or be
killed after any step; `obstacle` is what would refuse it (an unsafe path, the bucket),
`company` a service that uses the stores all the same: `unseen` by the checks or started `late`.
The operator may damage or remove the backup at any time (`BundleDamaged`).

## 4. Runs

| Run | Question | Properties |
|---|---|---|
| `upload` | an upload started, completed, retried, cancelled, swept and deleted beside a writing mount, failing and crashing at every call | `PublishedIsStored` `SuccessIsPublished` `RetryStaysAnswerable` `RowOutlivesReservation`, refinement `Optimistic`, `StaleUploadReclaimed` (liveness) |
| `projection` | a worker job and a request (an upload, a copy, a move, a deletion) beside a writing mount | `WorkerNeverMisleads` `NeverRolledBack` `RowLivesWithFile` |
| `projection_stale` | a mount between commit and upsert (section 8) | `NothingShownIsStale` violated |
| `trash` | two requests of any kind on two entries, failures, recovery, restarts | `TypeOK` `OwnPayloadHasRow` `SoleMutator` `PurgedOnlyOnRequest` |
| `trash_recovery` | requests slower than the grace, one entry | `OwnPayloadHasRow`, `EntrySettles` (liveness) |
| `trash_names` | a rename inside the creation of an entry (section 8) | `TrashHoldsWhatItNames` violated |
| `mounts` | one user's requests, reconciler, watcher, failures, shutdown, exit | `TypeOK` `MountedIsMarked` `NothingUntracked` `WantedOrLeaving` `ShutdownLeavesNoMount`, `ForgottenSettles` `DesiredServed` (liveness) |
| `mounts_capacity` | a late failure report (section 8) | `WithinCapacity` violated |
| `transcode` | requests of every kind, statements that fail or only seem to, a stop and a worker on one video | `TypeOK` `ReadyIsWhole` `NothingStranded` |
| `hub` | a connection that subscribes, is closed by anyone and revoked, beside a relay | `TypeOK` `HubAgrees` `RevokedIsClosed` `NoMissedChange`, `ClosingEnds` (liveness) |
| `accounts` | two users created, changed and deleted by two requests that may overtake each other, beside starts of every process and the reclaimer | `ServesOnlyWhole` `LiveKeepsNamespace` `RootLostOnlyWhenOvertaken`, `OrphanReclaimed` (liveness) |
| `maintenance` | a race for the PID file, and the offline commands over what servers and mounts leave | `OneServer` `OfflineAlone` `SucceedsExactly` `BundleIsSnapshot` `LogBelongs` `RefusedIsHarmless` |

The type invariants are proved (section 7); those of `DirectUpload`, `FileProjection`, `Accounts` and `Maintenance`
are not checked again.

What the properties say:

* `PublishedIsStored`: the generation a pathname shows has its object in OSS,
  whatever cancel, clean-up and sweep do beside the completion.
* `SuccessIsPublished`: a client that was told "complete" has its contents
  published, also when it was a retry that was told so.
* `RetryStaysAnswerable`: the record of the commit, by which a retry of the completion recognises
  its own, is given up only after the row can answer the retry.  It says nothing of a crash
  between `CompleteMultipartUpload` and the commit.
* `RowOutlivesReservation`: the row by which a later sweep finds an upload changes only
  after the reservation has ended, with two exceptions: the deletion of the file whose contents it was
  to replace, and the deletion of a pathname whose file is gone (section 8).
* `Optimistic`: every behaviour of the protocol is one of the register in
  `OptimisticFile`: an upload replaces the generation its editor declared or nothing.
* `StaleUploadReclaimed`: the row of an abandoned upload leaves `uploading`, unless its browser comes back
  or it is published after all.  Of the multipart upload it says nothing.
* `WorkerNeverMisleads`, `NeverRolledBack`, `RowLivesWithFile`: what a probe learned of a file is
  never shown with other contents, nor with a copy of them, except if that file was renamed away and back
  meanwhile; a row never goes back to an earlier generation, except when a copy writes it without
  the guard (section 8); a row of a live file is never deleted by an operation on another.
* `OwnPayloadHasRow`, `PurgedOnlyOnRequest`, `SoleMutator`, `EntrySettles`: a payload
  in the trash that came there through its entry is accounted for, except after a creation whose move
  was carried out and reported as failed (section 8); nothing
  is destroyed that no deletion or emptying named; at most one request changes
  an entry; an entry left half way becomes ready or goes.
* `MountedIsMarked`, `NothingUntracked`, `WantedOrLeaving`, `ShutdownLeavesNoMount`,
  `ForgottenSettles`, `DesiredServed`: a live mount has its marker, so that a later
  process knows of it; no live server escapes the manager's maps; a reconciliation
  that acts on an old snapshot does not undo an unmount; a shutdown that
  finished leaves nothing; an unmount that failed half way is carried out, as long as the process
  that began it runs and the user is not wanted again;
  a wanted mount is served.
* `ReadyIsWhole`: requests and the worker reset, empty, delete and create the same row
  under each other, and their statements fail; when they have settled, a row offered as ready has its init segment
  and all its media segments, in order, from one worker.
* `NothingStranded`: a row in progress, which refuses every further request for its
  profile (transcode.go:58), has a task, a request or a worker that will end it.  Neither is claimed
  where a chain of statements was cut (section 3).
* `HubAgrees`, `RevokedIsClosed`, `NoMissedChange`, `ClosingEnds`: a connection that serves requests is
  in the maps that pushes and revocations go through, with exactly its own subscriptions; a
  revocation that has returned left no connection of a deleted session open, but for one that was
  still being upgraded; a browser that lists a directory after it was told of its subscription
  is sent every later change, unless its queue was full or the relay could not look the change up; whoever closes a
  connection first, both goroutines end, both maps of connections forget it for good, and a
  revocation that waits for it ends.  Two things are not claimed (section 8): that the end of the server
  finds a connection under its user, and that no subscription of a closed connection stays.
* `ServesOnlyWhole`, `LiveKeepsNamespace`, `OrphanReclaimed`, `RootLostOnlyWhenOvertaken`: while
  requests are served, users of before the start have a namespace with its directories; nobody's
  namespace is taken while he exists; the namespace of a deleted user does not stay, also when
  a process that had listed him creates it again; the last root user is lost only to a
  request during which another changed who is root.
* `OneServer`: losers of a race for the PID file, crashes and left-over files never make two servers;
  only the overlaps named in section 3 do.
* `OfflineAlone`, `BundleIsSnapshot`, `SucceedsExactly`, `LogBelongs`, `RefusedIsHarmless`: once a command is
  past its checks nothing serves but what came later and a server that lost its PID file (a mount service
  without its socket does not serve, and nothing is said of it); a backup
  becomes acceptable to restore only as the instance of that moment; a restore or reset that
  succeeds leaves exactly the backup, or nothing, whatever earlier commands left half done; metadata
  never meet the log of other metadata; what the backup, a path or the bucket would refuse
  changes no store.  What no check finds is another matter: a `database.sql` that was cut short passes
  (backup_restore.go:479) and fails in psql after the stores were wiped; `SucceedsExactly` says only that
  this is no success.

## 5. Bounds

| Run | Constants |
|---|---|
| `upload` | 1 upload, 1 request, the sweeper, 1 inode, 3 generations, ages 0..3 |
| `projection`, `projection_stale` | 2 inodes, 2 names, 1 request, 1 worker (none), 2 generations |
| `trash` | 2 directories, 2 files, 2 names, 2 entries, 2 requests |
| `trash_recovery`, `trash_names` | the same with 1 entry, with another directory or file to be edited |
| `mounts` | 1 user, 1 request, capacity 1, of which others hold 0 or 1, 1 handle |
| `mounts_capacity` | 2 users, capacity 1, 2 handles |
| `transcode` | 1 user, 2 requests, 1 worker, 2 tasks, 1 media segment beside the init segment, 1 stop |
| `hub` | 1 user, 1 connection, 1 directory, 1 revoker, a queue of 1, 1 event |
| `accounts` | 2 users, 2 requests, 1 helper, 2 of these in progress at once |
| `maintenance` | 2 servers, 2 files, 1 object |

Why they are enough.  Every run has the sweeper's, the reconciler's or another background actor
beside the request, so two actors meet in each.  In `upload` a retry is the next request of the same process, because
`Abandon` stops one anywhere; the theorems of section 7 say the same of any number of
uploads, requests and generations.  The orphan loop takes the steps of a path deletion
under the guard of the sweeper, and the run leaves it to the proofs.
Three generations are one more than the declared and
the current one.  The hazards of the projection compare the version a row is
stamped with, the version it was computed from and the version that is current:
two inodes with two generations give all patterns of equality, and section 7 has every number.
The trash
needs two entries for the same file name and two requests on one entry; a
directory with a child on each side for a merge; the theorems have any number of each.  Mount operations of different
users share only the capacity, which `mounts_capacity` has with a second user; in `mounts` the handle of a mount
that ended is used for the next, so an old watcher never meets a new mount there; the theorems have any number of users, requests and handles.  A rendition
has at most two jobs at a time, that of a request that went ahead and that of one that
had already passed its check; a second user is left out because of the claim in section
8, with which `NothingStranded` and `ReadyIsWhole` fail; the theorems have any number of requests, tasks, segments and stops.  Connections meet only in the maps, in which each has
entries of its own, and in the revoker, which closes them one after the other; the theorems of section 7 have any number of each.
In `accounts` a second user is who else may be root, and two requests can overtake each other: the run
reaches the state without a root user in which `RootLostOnlyWhenOvertaken` has to find the one that was
overtaken.  Two requests beside a helper of their own, three in progress, would add no pair that does not meet
already; the theorems have any number of each.

`maintenance` bounds its instance with a constraint, `MCMaintenance!Instance`: two servers race only on an
empty instance, and once there is a backup no command stops a server, no PID file of a dead server is left, and a
server or the mounts are used, not both.  It keeps what a command meets (a running server, mounts, the log of
a crashed one, what an earlier command left) and has 1.5 million states; without it there are too many for
TLC, and the theorems of section 7 hold without it.  In `Maintenance` itself one thing is a bound: services do
not stop during a command, only before or after it.  `MCTranscode!Instance` stops where its properties are silent, and
lets requests overtake each other only until something has stopped.  `MCFileProjection!PicFirst` lets the worker look
for dimensions only as long as no row has a codec string or a summary, which a later look for dimensions
leaves as it is.  Both keep a run to two million states and a half; the theorems need neither.

Interchangeable, and symmetric in their runs, are the requests of `transcode`, `trash`, `trash_names` and `projection`, the names
of `projection`, the entries of `trash` and `trash_names`, the users and requests of `mounts_capacity`, and the servers and PID
files of `maintenance`.
No run with a liveness property uses symmetry.

## 6. Fairness and deadlock

* `DirectUpload!FairSpec`: weak fairness of the steps of a handler that was
  started (the runtime runs every goroutine), strong fairness of the sweeper's
  start and of each of its calls (it retries hourly, and does not fail at the same call
  for ever).  Browsers, mounts and users have none.
* `TrashBin!FairSpec`: weak fairness of the steps of requests after their start
  and of `RecoverEntry`, which a ticker repeats.  Restarts, edits and new requests have none.
* `MountManager!FairSpec`: weak fairness of calls in progress, of the reconciler's
  ticker, of what a server does after its lease is lost, of the start of a new process
  (systemd restarts it), and strong fairness of the reconciler's taking of a user's lock, which
  Go's mutex grants to a waiter that has starved for a millisecond.  `FaultsEnd` is
  fair: the property is about what happens after failures stop, and after the other users' mounts no
longer fill the limit, since a user who finds it full is promised nothing.
* `LiveHub!FairSpec`: weak fairness of the two goroutines of each connection, of whoever unregisters it
  and of each revocation that has begun, since the runtime runs every goroutine.  Browsers, mounts,
  administrators and the relay may do nothing.
* `Accounts!FairSpec`: weak fairness of the steps of requests and of the processes that ensure namespaces,
  of the start of the API server (systemd restarts it), of the reclaimer's passes (a ticker),
  and of `FaultsEnd`.  Nobody has to ask for anything.

Deadlock is checked in the runs of `TrashBin` only: elsewhere the bounded counters run out, and a system without
requests has nothing to do.

## 7. Proofs

Each theorem holds for all values of the constants that satisfy the assumptions of its
module, with every bound of a counter included; no constraint or symmetry of a run is used.

| Module | Theorem | States | Assumptions |
|---|---|---|---|
| `DirectUploadProofs` | `TypeCorrect`, `Invariance` | `TypeOK`, the invariant | `SourcesDistinct` `CleanersKnown` `BoundsOK` |
| | `PublishedAlwaysStored` `SuccessAlwaysPublished` `RetryAlwaysAnswerable` | `PublishedIsStored` `SuccessIsPublished` `RetryStaysAnswerable` | |
| | `OptimisticRegister` | `Optimistic`: `DirectUpload` implements `OptimisticFile` | |
| | `RowAlwaysOutlives` | `RowOutlivesReservation` | |
| `FileProjectionProofs` | `TypeCorrect` `WorkerNeverMisleadsHolds` `NeverRolledBackHolds` `RowLivesWithFileHolds` | `TypeOK` `WorkerNeverMisleads` `NeverRolledBack` `RowLivesWithFile` | `InodesNumbered` `NamesDistinct` `ProcsDistinct` `GenBound` |
| `TrashBinProofs` | `TypeCorrect` `OwnPayloadHasRowHolds` | `TypeOK` `OwnPayloadHasRow` | `ConstantsAssumption` `HomeAssumption` |
| | `SoleMutatorHolds` `PurgedOnlyOnRequestHolds` | `SoleMutator` `PurgedOnlyOnRequest` | the same, and `Outlasting = {}` |
| `MountManagerProofs` | `TypeCorrect` `MountedIsMarkedHolds` `NothingUntrackedHolds` `WantedOrLeavingHolds` `ShutdownLeavesNoMountHolds` | `TypeOK` `MountedIsMarked` `NothingUntracked` `WantedOrLeaving` `ShutdownLeavesNoMount` | `MountsAssumption` `NoOneIsNobody` |
| `TranscodeProofs` | `TypeCorrect` | `TypeOK` | `TranscodeAssumption` |
| | `ReadyIsWholeHolds` `NothingStrandedHolds` | `ReadyIsWhole` `NothingStranded` | the same, and `OneOfEach`: one user, one worker |
| `LiveHubProofs` | `TypeCorrect` `HubAgreesHolds` `RevokedIsClosedHolds` `NoMissedChangeHolds` | `TypeOK` `HubAgrees` `RevokedIsClosed` `NoMissedChange` | `HubAssumption` |
| `AccountsProofs` | `TypeCorrect` `ServesOnlyWholeHolds` `LiveKeepsNamespaceHolds` `RootLostOnlyWhenOvertakenHolds` | `TypeOK` `ServesOnlyWhole` `LiveKeepsNamespace` `RootLostOnlyWhenOvertaken` | `AccountsAssumption` |
| `MaintenanceProofs` | `LockOneServer` | `OneServer`, of the lock alone | `ServiceLockAssumption` |
| | `TypeCorrect` `OneServerHolds` `OfflineAloneHolds` `SucceedsExactlyHolds` `BundleIsSnapshotHolds` `LogBelongsHolds` `RefusedIsHarmlessHolds` | `TypeOK`, the six properties of `maintenance` | the same |

None of the properties is inductive.  What each proof adds:

**Uploads.**  That an abort does not destroy a published
object depends on who may still hold the upload's reservation and
on what each handler has read by then.  The inductive invariant `Inv` adds to
the properties
`OwnershipInv` (which states of a reservation and which program counters can
occur together), `UnusedInv` (an upload that has not been started appears nowhere),
`CompletionInv` (a handler past the assembly of the parts has them assembled),
`SourceInv` (what is at the pathname came from a mount or from a committed upload) and
`AgreementInv` (the reservation, the row and what handlers remember of either
agree).  Each action has an effect lemma that says what it changes in terms of these parts, and the
preservation proof has one step per action on top of them.  For the
refinement, the publishing branch of `CommitDirectUpload` is the
register's `Publish`, `StartInit` its `Declare`, the writes and unlinks of a mount its
`OtherWrite`, and every other action leaves the mapped variables unchanged.

**The row of an upload** is dropped by an abort, which has ended the reservation by then, by the
deletion of a file, which names an inode, and by a deletion that finds its file gone, which is the
exception `RowOutlivesReservation` names.  For the second the argument is about inode numbers: none is ahead of the
allocator (`AllocationInv`), an upload that creates the name holds a number that no
file, upload or deletion has (`CreationInv`), and `DeletionInv` is what aborts and deletions have
established before they drop a row.  Most steps touch none of it (`Calm`).

**The projection.**  A file keeps its name until it is moved or deleted, a deleted file
never comes back, and generations only grow.  An operation that remembers a file, a name and
a generation can lose them in these three ways only; `Fit` and `WorkerFit` say for each program counter
what is left of its knowledge, `Placed` that a file has one name, and `Told` that what a row says wrong of the
worker's findings was probed for a file that was moved, which a copy carries along.

**The trash.**  A slot is entered once, by the request that made its entry, while no other request knows the entry
(`Alone`).  From then on inodes only leave it (`Keeps`), so what a request found missing stays missing; and every
pathname a request changes, other than those of its own entry, begins with a visible name and is never in a slot.
`Filled` says which rows may account for what is in a slot (`Held`), the undone among them, and
`Formed` which pathnames a request holds at each step, `Knows` what it may still believe of its entry.  `Sole`
adds that the request which won the transition of a row is alone with the entry, and needs that recovery does not
overtake it: with a request of a kind in `Outlasting` two may be at one entry, `SoleMutator` and
`PurgedOnlyOnRequest` are not claimed, and what remains is `OwnPayloadHasRow`, which is proved for every `Outlasting`.

**Mounts.**  `Fits` says for each step of a call what it knows of the user whose lock it holds: a mount is made only for
a user that is desired and has no handle, and a marker goes only when nothing is mounted.  `HandleFits` and
`ServerFits` tie the manager's handles to servers that are watched, `MemoryFits` what the process wants to what it has
written down.  A call disturbs only the users whose locks it holds (`Within`, `OthersFit`); the watchers, the scan, `Shutdown` and
the end of the process hold none, and are shown to leave alone what the holders rely on.

**Renditions.**  What a row will come to is somebody's debt (`Owed`): of a request that is about to create its task or to
undo what it did, of a task that a worker will take up (`Works`), or of the worker at it.  A debt is handed on, or the
row is settled or is what the worker has published so far (`Kept`, `Matches`).  A statement that fails leaves the
debt with whoever undoes it or takes it up again; where nobody does, `cut` becomes true, and of the invariant only
what workers and requests know is left (`CutInv`).  The premise `OneOfEach` is not a
convenience: the claim drops its filter by user (repo_task.go:62), and a second worker that starts requeues the jobs of
the first (repo_task.go:81).  With two users, or with two workers, TLC finds `ReadyIsWhole` violated even if nothing
ever stops.

**Connections** share only the hub's maps, in which each has entries of its own, the relay and the
revocations.  So the invariant is one formula per connection, `Fits`: where it is in the maps at each step of its reader
(`Mapped`), what its browser was told and sent of what the relay did not pass over (`Told`), which revocation will close it (`Doomed`) and that this revocation
still knows it (`Remembered`).  A step disturbs it for one connection, or for all of a user's by a message.

**Accounts.**  `Current` is the heart: a request during which nobody else changed who is root still knows what it
saw: if it had to count the root users, there is another than its own, and if not, its user is root exactly if
it was read as root.  `StartInv` follows the
start of the API server: each user is done, in hand or still to do.  `UserKnown` says that
nobody makes a namespace for a user who never was, and that only those of users who are gone are dropped.

**The PID file.**  `Base` holds always; `Alone` as long as no stop or restart has overlapped with a start:
the file is the one that the server which holds the lock has open.  In `Maintenance`,
`NextIsLockStep` shows that each step is, for the PID file, a step of `ServiceLock` or a stutter,
so `LockInv` is inherited and not proved again.

**Backup, restore, reset.**  `Ordered` says for each step a command has reached what the earlier ones established
(`Copied`, `Checked`, `Cleared`), and `NobodyElse` that a service which uses the stores since the
checks has left its trace in the command's `company`.

Only model-checked: the liveness properties (`StaleUploadReclaimed`, `EntrySettles`, `ForgottenSettles`,
`DesiredServed`, `ClosingEnds`, `OrphanReclaimed`), which are outside the prover's reach.  Every safety and action property
of a passing run is proved, under the premises of the table.

## 8. Disagreements between code and documentation

Each is a run TLC must find violated; `PROJECT.json` quotes the lines.

1. `projection_stale`: `Upsert` after a commit stamps the upload's hash on whichever
   generation is current by then, if the size is the same.
2. `trash_names`: the inode is compared at the pathname and the pathname moved
   later; another file renamed there in between ends in the entry's slot.
3. `mounts_capacity`: a reconciliation records a failure without the user's operation
   lock, over the "mounting" state of an operation in progress, which the
   capacity check then does not count.

Known limits that no run covers: a crash between `CreateMultipartUpload` and the
creation of the row leaves a multipart upload to the bucket's life-cycle rule
(upload.go:489); `expected_generation` is compared without the inode
(upload.go:483); a replacing rename removes its target before it
may fail (trash.go:766); the orphan loop
(cmd/root.go:830) deletes the row by which the sweeper would have ended the upload's
task, which then stays running (sweeper.go:12 speaks of orphaned tasks).

Several properties name an exception because the code does not keep to them without it, and the models
have the behaviour:

* `RowOutlivesReservation`: a deletion that finds its file gone deletes every upload row of the pathname without
  aborting the reservations (mutations.go:179-182), against the comment at uploads.go:122.
* `NeverRolledBack`: a copy writes the row of its destination without comparing generations
  (service.go:111), where every other writer does (mutations.go:95).
* `OwnPayloadHasRow`: the creation of an entry deletes its row after any error of the move, also one that DOFS
  carried out and reported as failed (trash.go:284); the payload then lies in a slot without a
  row, where the user does not see it, and the next start of the server destroys it.
* `ReadyIsWhole`, `NothingStranded`: nothing repairs a row whose read-back failed (transcode.go:65-67), an undo whose
  errors are discarded (transcode.go:71 and 75), a cancellation that could not delete the row (task.go:55), a row that
  could not be marked or removed at the end of a job (worker.go:547, 559, 567), a failed requeue at a worker's
  start (worker.go:92), a claim that was committed and reported as failed, and a stop between the row and its
  task.  The row stays in progress, and its profile can no longer be asked for.
* `NoMissedChange`: a change whose directory the relay fails to look up is not told to anybody
  (dofs_events.go:121-124), and the cursor goes past it (line 89).
* `ClosingEnds`: a subscription added after its connection was unregistered stays in `dirSubs` (conn.go:100-105,
  hub.go:73-84); a connection that the end of the server closes between the two stores of `register` stays in
  `userConns` (hub.go:49).
* `ForgottenSettles`: a process that ends after an unmount was asked for and before the marker is gone
  mounts the user again at its next start.
* `RootLostOnlyWhenOvertaken`: the guard counts the root users before the write and not with it
  (admin_root_guard.go:9), so two requests at once can take away the last two.

`ServiceLock` and `Maintenance` show four that the properties admit by a premise.  `Release` unlocks the
PID file before it removes the path (shared/daemon/pid.go:64-73), so a server that starts in between loses its
file to the one that ends, and a third can start beside it (`Evicted`).  Restart waits five seconds (cmd/root.go:195) for a server
that may drain requests for ten, removes its PID file and starts the next (`overlap`).  "A real but stale socket cannot
have a live manager behind it" (cmd/backup_restore.go:589) holds of the socket, but the mount service opens the metadata before the socket and
closes it before the unmount (`unseen`).  `domus dofs mount` has no socket and the worker is not asked;
docs/dofs-production.md:98 leaves both to the operator, and so does the model, which has no step for either.

`Transcode` has the behaviour behind four more, for which runs are planned: the
cancellation of a running job finds the rendition by its task (task.go:60), but the
worker has deleted and created the row (worker.go:476) and so unlinked it, and the job
goes on; the claim drops its filter by user (repo_task.go:62, against the comment at
54), so that a pass for one user claims and fails another's job and leaves that rendition
queued; a start of a worker queues again the jobs another live worker runs
(repo_task.go:81); a write by a mount never removes renditions, which then are of an earlier
generation (docs/api/file.md:461 says an overwrite does).

## 9. What is not modelled

Cryptography, HTTP, formats, formatting and the browser's components; DOFS and
OSS themselves, which are taken from how the code uses them (`external` in `map`);
in `MountManager` the host-wide lock files, the validation of the mount root and
foreign file systems, and the moments between inspection, probe and unmount of the scan; in `FileProjection`
directories, shares, thumbnail files, and a change between the reading and the writing of `copyMetadata`, which
are one step; in `ServiceLock` what goroutines of a server do after it released its PID file; in `LiveHub` the limits of connections and sizes of messages; in `Maintenance` the
PostgreSQL driver of the metadata, with which they are a part of the database, the encryption of
the archive and who may call the commands.  Login challenges and one-time codes are single updates of one
entry each.  `PROJECT.json` gives each component its reason.

## 10. Plan

1. `UploadEngine`: the browser's slots, pause, resume, cancel, and the replay of its pending
   operations, composed with the requests `DirectUpload` accepts.  It covers the hazard of
   `pendingOps.ts`.
2. `Transcode` continued: runs for the limits of section 8 (a second user, a second worker,
   the cancellation of a running job), and liveness: a queued job ends.
3. `MountManager` continued: the scan for orphans against an `Ensure` in progress (manager_linux.go:1052), and what becomes of
   a mount that stays unhealthy.
4. The owner of a thumbnail after a rename (upload.go:723), in `FileProjection`.
5. `UploadMath`: the pure functions of upload.go (part sizes, encrypted sizes, the
   authoritative list of parts, the next free name) against reference definitions.
6. Proofs: an abstract trash (an entry holds its payload or is gone) that `TrashBin` implements, and an
   abstract queue of renditions for `Transcode`; and what of `SoleMutator` remains when a request
   outlasts the grace.
