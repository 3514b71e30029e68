------------------------------- MODULE Maintenance -------------------------------
(***************************************************************************)
(* The offline commands backup, restore and reset.  An instance is spread  *)
(* over stores without a common transaction: the objects of the bucket,    *)
(* the product database, the SQLite file of the DOFS metadata with its     *)
(* write-ahead log, and the runtime state of the DOFS service.  A command  *)
(* checks that no service runs and that nothing will refuse it halfway,    *)
(* and then works on one store after the other; it may fail, or be killed, *)
(* after any step, and the operator may start it again, or the services.   *)
(*                                                                         *)
(* The contents of a store are the objects it holds or refers to.          *)
(***************************************************************************)
EXTENDS ServiceLock

CONSTANTS Objects         \* bound: objects of the bucket, written once each

VARIABLES
  objs,         \* the objects in the bucket
  db,           \* what the product database refers to
  meta,         \* the metadata: file and log (None: not there); foreign: a log of another file
  spool,        \* the DOFS service has left state of its mounts
  mounts,       \* the DOFS service; it answers at its control socket when "serving"
  bundle,       \* the backup at its path
  cmd           \* the command in progress

stores == <<objs, db, meta, spool>>
vars == <<lockVars, stores, mounts, bundle, cmd>>

NoBundle == [kind |-> "none", objs |-> {}, db |-> None, meta |-> None, manifest |-> None]
\* obstacle: what refuses the command, an unsafe path or a bucket out of reach (bound:
\* one at most, from its begin to its end).  company: services that use the stores all
\* the same, "unseen" by the checks or started "late", after the command.
IdleCmd == [op |-> "none", pc |-> "idle", left |-> {}, obstacle |-> "none", company |-> "none"]
Obstacles == {"none", "metadata", "runtime", "bucket"}

Used == mounts # "down" \/ \E s \in Servers : Serving(s)
Content ==
  IF meta.file = None THEN {} ELSE IF meta.log = None THEN meta.file ELSE meta.log

\* What restore verifies before it destroys anything.
Acceptable(b) ==
  /\ b.manifest # None /\ b.manifest \subseteq b.objs
  /\ b.db # None /\ b.meta # None

Restorable(b) == b.kind = "kept" /\ Acceptable(b)

-----------------------------------------------------------------------------
(* The services, as far as they use the stores.                            *)

JoinCommand == cmd' = IF cmd.pc = "idle" THEN cmd ELSE [cmd EXCEPT !.company = "late"]
\* An empty metadata file is created; SQLite drops a log that has no file.
OpenStores ==
  /\ meta' = IF meta.file = None THEN [file |-> {}, log |-> None, foreign |-> FALSE] ELSE meta
  /\ JoinCommand

Checkpointed ==
  IF meta.file = None THEN meta ELSE [file |-> Content, log |-> None, foreign |-> FALSE]

ServerUp(s) == WritePid(s) /\ OpenStores /\ UNCHANGED <<objs, db, spool, mounts>>
\* Whoever closes the metadata last takes the log into the file.
ServerEnds(s) ==
  /\ Release(s)
  /\ meta' = IF mounts # "down" \/ \E t \in Servers \ {s} : Serving(t) THEN meta ELSE Checkpointed
  /\ UNCHANGED <<objs, db, spool, mounts, cmd>>
ServerCrashes(s) == Crash(s) /\ UNCHANGED <<stores, mounts, cmd>>

\* The stores are opened before the control socket is, and closed after it.
StartMounts ==
  /\ mounts = "down" /\ mounts' = "opening" /\ OpenStores
  /\ UNCHANGED <<lockVars, objs, db, spool>>
ServeControl ==
  /\ mounts = "opening" /\ mounts' = "serving" /\ JoinCommand
  /\ UNCHANGED <<lockVars, stores>>
StopControl ==
  /\ mounts = "serving" /\ mounts' = "closing" /\ UNCHANGED <<lockVars, stores, cmd>>
StopMounts ==
  /\ mounts = "closing" /\ mounts' = "down"
  /\ meta' = IF \E s \in Servers : Serving(s) THEN meta ELSE Checkpointed
  /\ spool' \in {spool, FALSE}
  /\ UNCHANGED <<lockVars, objs, db, cmd>>
CrashMounts ==
  /\ mounts # "down" /\ mounts' = "down" /\ UNCHANGED <<lockVars, stores, cmd>>

\* A new version is an object first, then metadata, then a row; a version that is
\* given up goes the other way.
WriteObject(o) ==
  /\ objs' \in {objs \cup {o}, IF o \in Content THEN objs ELSE objs \ {o}}
  /\ UNCHANGED <<db, meta, spool>>
Commit(o) ==
  /\ o \in objs /\ meta.file # None
  /\ \E c \in {Content \cup {o}, Content \ {o}} : meta' = [meta EXCEPT !.log = c]
  /\ UNCHANGED <<objs, db, spool>>
Project ==
  /\ \E s \in Servers : Serving(s)
  /\ db' = Content /\ UNCHANGED <<objs, meta, spool>>
KeepState ==
  /\ mounts \in {"serving", "closing"} /\ spool' = TRUE /\ UNCHANGED <<objs, db, meta>>

\* bound: not during a command, for which nothing holds that is not alone.
Work ==
  /\ Used /\ cmd.pc = "idle"
  /\ (\E o \in Objects : WriteObject(o) \/ Commit(o)) \/ Project \/ KeepState
  /\ UNCHANGED <<lockVars, mounts, cmd>>

-----------------------------------------------------------------------------
(* What the commands have in common.                                       *)

Go(pc) == cmd' = [cmd EXCEPT !.pc = pc]
On(op, pc) == cmd.op = op /\ cmd.pc = pc
Destroying == cmd.op \in {"restore", "reset"}
\* bound: one operator, who does not stop the server meanwhile.
Begin(op) ==
  /\ cmd.pc = "idle" /\ ctl.pc = "idle"
  /\ \E x \in IF op = "backup" THEN {"none"} ELSE Obstacles :
       cmd' = [IdleCmd EXCEPT !.op = op, !.pc = "status", !.obstacle = x]
  /\ UNCHANGED <<stores, bundle>>

\* A check fails, a call fails, or the process is killed.  The stage of an archive is
\* not at the path.
CommandEnds ==
  /\ cmd.pc # "idle" /\ cmd' = IdleCmd
  /\ bundle' = IF bundle.kind = "stage" THEN NoBundle ELSE bundle
  /\ UNCHANGED stores

CheckStatus ==
  /\ cmd.pc = "status" /\ NotRunning /\ Go("dofs")
  /\ UNCHANGED <<stores, bundle>>

\* Mutant: a service that does not answer counts as stopped.
DOFSSeemsStopped ==
  /\ cmd.pc = "dofs"
  /\ cmd' = [cmd EXCEPT !.pc = CASE cmd.op = "backup" -> "list"
                                 [] cmd.op = "restore" -> "bundle"
                                 [] cmd.op = "reset" -> "bucket",
                        !.company = IF cmd.company = "none" /\ Used THEN "unseen" ELSE @]
  /\ UNCHANGED <<stores, bundle>>
RequireDOFSStopped ==
  /\ cmd.pc = "dofs" /\ mounts # "serving"
  /\ cmd' = [cmd EXCEPT !.pc = CASE cmd.op = "backup" -> "list"
                                 [] cmd.op = "restore" -> "bundle"
                                 [] cmd.op = "reset" -> "bucket",
                        !.company = IF cmd.company = "none" /\ Used THEN "unseen" ELSE @]
  /\ UNCHANGED <<stores, bundle>>

-----------------------------------------------------------------------------
(* Backup.                                                                 *)

BeginBackup == bundle.kind = "none" /\ Begin("backup")

ListObjects ==
  /\ On("backup", "list")
  /\ \E kind \in {"kept", "stage"} : bundle' = [NoBundle EXCEPT !.kind = kind]
  /\ cmd' = [cmd EXCEPT !.pc = "copy", !.left = objs]
  /\ UNCHANGED stores

\* Mutant: an object that cannot be read is left out.
CopyOrSkip(o) ==
  /\ On("backup", "copy") /\ o \in cmd.left
  /\ bundle' \in {bundle, [bundle EXCEPT !.objs = @ \cup {o}]}
  /\ cmd' = [cmd EXCEPT !.left = @ \ {o}]
  /\ UNCHANGED stores
CopyObject(o) ==
  /\ On("backup", "copy") /\ o \in cmd.left \cap objs
  /\ bundle' = [bundle EXCEPT !.objs = @ \cup {o}]
  /\ cmd' = [cmd EXCEPT !.left = @ \ {o}]
  /\ UNCHANGED stores

DumpDatabase ==
  /\ On("backup", "copy") /\ cmd.left = {}
  /\ bundle' = [bundle EXCEPT !.db = db] /\ Go("checkpoint")
  /\ UNCHANGED stores

Checkpoint ==
  /\ On("backup", "checkpoint") /\ meta.file # None
  /\ meta' = Checkpointed /\ Go("metadata")
  /\ UNCHANGED <<objs, db, spool, bundle>>

\* Refused when another process has written to the log since.
CopyMetadata ==
  /\ On("backup", "metadata") /\ meta.log = None
  /\ bundle' = [bundle EXCEPT !.meta = meta.file] /\ Go("manifest")
  /\ UNCHANGED stores

WriteManifest ==
  /\ On("backup", "manifest")
  /\ bundle' = [bundle EXCEPT !.manifest = bundle.objs]
  /\ Go(IF bundle.kind = "kept" THEN "done" ELSE "archive")
  /\ UNCHANGED stores

CreateTarGz ==
  /\ On("backup", "archive")
  /\ bundle' = [bundle EXCEPT !.kind = "kept"] /\ Go("done")
  /\ UNCHANGED stores

-----------------------------------------------------------------------------
(* Restore and reset: the checks, then store after store.                  *)

BeginRestore == bundle.kind = "kept" /\ Begin("restore")
BeginReset == Begin("reset")

ValidateBundle ==
  /\ On("restore", "bundle") /\ Acceptable(bundle) /\ Go("paths")
  /\ UNCHANGED <<stores, bundle>>

\* Mutant: the runtime state is validated when it is cleared.
ValidateMetadataPath ==
  /\ cmd.pc = "paths" /\ cmd.obstacle # "metadata"
  /\ Go(IF cmd.op = "restore" THEN "bucket" ELSE "resetDB")
  /\ UNCHANGED <<stores, bundle>>
ValidatePaths ==
  /\ cmd.pc = "paths" /\ cmd.obstacle \notin {"metadata", "runtime"}
  /\ Go(IF cmd.op = "restore" THEN "bucket" ELSE "resetDB")
  /\ UNCHANGED <<stores, bundle>>

CheckBucket ==
  /\ cmd.pc = "bucket" /\ cmd.obstacle # "bucket"
  /\ Go(IF cmd.op = "restore" THEN "resetDB" ELSE "paths")
  /\ UNCHANGED <<stores, bundle>>

ResetDatabase ==
  /\ cmd.pc = "resetDB" /\ db' = {}
  /\ Go(IF cmd.op = "restore" THEN "runtime" ELSE "file")
  /\ UNCHANGED <<objs, meta, spool, bundle>>

\* Only reset removes the metadata before it goes on; restore replaces them at the end.
ClearMetadataFile ==
  /\ cmd.pc = "file" /\ meta' = [meta EXCEPT !.file = None] /\ Go("log")
  /\ UNCHANGED <<objs, db, spool, bundle>>
ClearMetadataLog ==
  /\ cmd.pc = "log" /\ meta' = [meta EXCEPT !.log = None, !.foreign = FALSE] /\ Go("runtime")
  /\ UNCHANGED <<objs, db, spool, bundle>>

\* Mutant: the state of the mounts stays.
KeepRuntimeState ==
  /\ cmd.pc = "runtime" /\ Go("delete") /\ UNCHANGED <<stores, bundle>>
ClearRuntimeState ==
  /\ cmd.pc = "runtime" /\ cmd.obstacle # "runtime"
  /\ spool' = FALSE /\ Go("delete")
  /\ UNCHANGED <<objs, db, meta, bundle>>

DeleteAllObjects ==
  /\ cmd.pc = "delete"
  /\ \/ \E o \in objs : objs' = objs \ {o} /\ UNCHANGED cmd
     \/ /\ objs = {} /\ UNCHANGED objs
        /\ cmd' = IF cmd.op = "reset" THEN [cmd EXCEPT !.pc = "done"]
                  ELSE [cmd EXCEPT !.pc = "put", !.left = bundle.manifest]
  /\ UNCHANGED <<db, meta, spool, bundle>>

PutObject(o) ==
  /\ cmd.pc = "put" /\ o \in cmd.left
  /\ objs' = objs \cup {o} /\ cmd' = [cmd EXCEPT !.left = @ \ {o}]
  /\ UNCHANGED <<db, meta, spool, bundle>>

\* An error stops psql after the statements before it.
ImportDatabase ==
  /\ cmd.pc = "put" /\ cmd.left = {}
  /\ \/ db' = bundle.db /\ Go("removeLog")
     \/ db' \in SUBSET bundle.db /\ cmd' = IdleCmd
  /\ UNCHANGED <<objs, meta, spool, bundle>>

\* Mutant: the file is renamed first, and the old log removed then.
RenameFirst ==
  /\ cmd.pc = "removeLog"
  /\ meta' = [meta EXCEPT !.file = bundle.meta, !.foreign = meta.log # None] /\ Go("rename")
  /\ UNCHANGED <<objs, db, spool, bundle>>
\* The copy is validated beside the target before anything is removed.
RemoveOldLog ==
  /\ cmd.pc = "removeLog"
  /\ meta' = [meta EXCEPT !.log = None, !.foreign = FALSE] /\ Go("rename")
  /\ UNCHANGED <<objs, db, spool, bundle>>
RenameMetadata ==
  /\ cmd.pc = "rename"
  /\ meta' = [meta EXCEPT !.file = bundle.meta, !.foreign = meta.log # None] /\ Go("done")
  /\ UNCHANGED <<objs, db, spool, bundle>>

-----------------------------------------------------------------------------
\* Anything may happen to a directory that nobody reads; the operator removes a backup.
BundleDamaged ==
  /\ cmd.pc = "idle" /\ bundle.kind # "none"
  /\ \/ bundle' = NoBundle
     \/ /\ bundle.kind = "kept" /\ bundle.manifest # None
        /\ \E o \in bundle.objs : bundle' = [bundle EXCEPT !.objs = @ \ {o}]
  /\ UNCHANGED <<lockVars, stores, mounts, cmd>>

Init ==
  /\ LockInit /\ mounts = "down" /\ bundle = NoBundle /\ cmd = IdleCmd
  /\ objs = {} /\ db = {} /\ spool = FALSE
  /\ meta = [file |-> None, log |-> None, foreign |-> FALSE]

BackupStep ==
  \/ BeginBackup \/ ListObjects \/ (\E o \in Objects : CopyObject(o)) \/ DumpDatabase
  \/ Checkpoint \/ CopyMetadata \/ WriteManifest \/ CreateTarGz
RestoreStep ==
  \/ BeginRestore \/ ValidateBundle \/ (\E o \in Objects : PutObject(o)) \/ ImportDatabase
  \/ RemoveOldLog \/ RenameMetadata
DestroyStep ==
  \/ BeginReset \/ ValidatePaths \/ CheckBucket \/ ResetDatabase \/ ClearMetadataFile
  \/ ClearMetadataLog \/ ClearRuntimeState \/ DeleteAllObjects
CommandStep ==
  /\ CheckStatus \/ RequireDOFSStopped \/ BackupStep \/ RestoreStep \/ DestroyStep \/ CommandEnds
  /\ cmd.company = "late" => cmd'.pc = "idle"
  /\ UNCHANGED <<lockVars, mounts>>

\* bound: services may start during a command, and stop before or after it.
ServicesStart ==
  \/ StartingStep /\ UNCHANGED <<stores, mounts, cmd>> /\ Observed
  \/ (\E s \in Servers : ServerUp(s)) /\ Observed
  \/ StartMounts \/ ServeControl
ServicesStop ==
  /\ cmd.pc = "idle"
  /\ \/ StoppingStep /\ UNCHANGED <<stores, mounts, cmd>> /\ Observed
     \/ (\E s \in Servers : ServerEnds(s) \/ ServerCrashes(s)) /\ Observed
     \/ StopControl \/ StopMounts \/ CrashMounts
ServiceStep == (ServicesStart \/ ServicesStop \/ Work) /\ UNCHANGED bundle

Next == ServiceStep \/ CommandStep \/ BundleDamaged
Spec == Init /\ [][Next]_vars
-----------------------------------------------------------------------------
Contents == (SUBSET Objects) \cup {None}
TypeOK ==
  /\ LockTypeOK
  /\ objs \subseteq Objects /\ db \subseteq Objects /\ spool \in BOOLEAN
  /\ mounts \in {"down", "opening", "serving", "closing"}
  /\ meta \in [file : Contents, log : Contents, foreign : BOOLEAN]
  /\ bundle \in [kind : {"none", "kept", "stage"}, objs : SUBSET Objects,
                 db : Contents, meta : Contents, manifest : Contents]
  /\ cmd \in [op : {"none", "backup", "restore", "reset"},
              pc : {"idle", "status", "dofs", "list", "copy", "checkpoint", "metadata", "manifest",
                    "archive", "bundle", "paths", "bucket", "resetDB", "file", "log", "runtime",
                    "delete", "put", "removeLog", "rename", "done"},
              left : SUBSET Objects, obstacle : Obstacles, company : {"none", "unseen", "late"}]
  /\ bundle.kind = "stage" => cmd.op = "backup"

\* Once a command has found that nothing runs (root.go:253, 261), no server and no DOFS service
\* serves, but for one that started afterwards and a server whose PID file was taken from it.
\* A DOFS service that has not opened its control socket yet or has closed it already does not
\* serve: nothing is said of it.
OfflineAlone ==
  cmd.pc \notin {"idle", "status", "dofs"} /\ cmd.company # "late" =>
    mounts # "serving" /\ \A s \in Servers : Serving(s) => Evicted(s)

\* What restore accepts is a backup of the instance as it was: when a backup becomes
\* acceptable it has the objects, the rows and all committed metadata of that moment.
BundleIsSnapshot ==
  [][ Restorable(bundle') /\ ~Restorable(bundle) /\ cmd.company = "none" =>
        bundle'.manifest = objs' /\ bundle'.db = db' /\ bundle'.meta = Content' ]_vars

\* A command that succeeds leaves exactly the backup, or nothing, in every store, and no
\* state of mounts, whatever commands before it left half done.
SucceedsExactly ==
  cmd.pc = "done" /\ cmd.company = "none" /\ Destroying =>
    /\ ~spool /\ meta.log = None
    /\ IF cmd.op = "reset" THEN objs = {} /\ db = {} /\ meta.file = None
       ELSE objs = bundle.manifest /\ db = bundle.db /\ meta.file = bundle.meta

\* Metadata are never paired with the log of the metadata they replaced, wherever a
\* command ends.
LogBelongs == [][~meta.foreign /\ meta'.foreign => cmd.company # "none"]_vars

\* A command that cannot succeed, for its backup, its paths or its bucket, changes nothing.
RefusedIsHarmless ==
  [][ ~Used /\ ~Used' /\ <<objs, db, Content, spool>>' # <<objs, db, Content, spool>> =>
        cmd.obstacle = "none" /\ (cmd.op = "restore" => Acceptable(bundle)) ]_vars
=============================================================================
