----------------------------- MODULE MountManager -----------------------------
(***************************************************************************)
(* The DOFS mount manager (internal/dofs/manager_linux.go): one process    *)
(* per host that owns the FUSE mounts of all users.  What a user wants is  *)
(* kept twice, in memory (desired) and in a marker file that survives the  *)
(* process.  Every operation on one user holds that user's operation lock; *)
(* the goroutine that watches a mount, the failures a reconciliation       *)
(* records and the scan of the mount root do not, and read the manager's   *)
(* maps and the mount table at different times.                            *)
(*                                                                         *)
(* A step is one critical section of Manager.mu, one file-system call or   *)
(* one call of the provider.  Each of those calls may fail.  FUSE servers  *)
(* live in the manager's process: when it ends their mounts stay in the    *)
(* kernel, disconnected, until somebody unmounts them.                     *)
(***************************************************************************)
EXTENDS Integers, FiniteSets

CONSTANTS
  Users,
  Requests,     \* calls through the control socket
  Loop,         \* the goroutine RunReconciler
  Reconcilers,  \* who reconciles: Loop, and requests that ask for it
  MaxMounts,    \* options.MaxMounts
  Others,       \* bound: how many mounts users outside Users may have
  Handles       \* bound: mounts the manager's memory can refer to at a time

ASSUME MountsAssumption ==
  /\ MaxMounts \in Nat \ {0}
  /\ Others \subseteq Nat
  /\ Loop \notin Requests
  /\ Reconcilers \subseteq Requests \cup {Loop}
  /\ Handles \subseteq Nat \ {0}

VARIABLES
  known,        \* users in the product database
  calm,         \* no call fails any more (a bound, for liveness only)
  marker,       \* users with a desired-state marker on disk
  dir,          \* users whose mountpoint directory exists
  dead,         \* users with a disconnected mount left by an earlier process
  phase,        \* of the process
  desired, forgetting, entry, handle,   \* Manager, under mu
  busy,         \* who runs a user's operation
  server,       \* the FUSE servers of this process, by handle
  watching,     \* handles whose watchMount goroutine runs
  reports,      \* handles with an unread failure
  leaving,      \* handles Shutdown still waits for
  proc          \* the calls in progress

world   == <<known, calm>>
disk    == <<marker, dir, dead>>
memory  == <<desired, forgetting, entry, handle>>
mounts  == <<server, watching, reports>>
process == <<phase, leaving>>
vars    == <<world, disk, process, memory, busy, mounts, proc>>

Nil    == 0
NoOne  == "no one"
NoUser == "no user"
Calls  == Requests \cup {Loop}
States == {"none", "pending", "mounting", "mounted", "failed",
           "unmounting", "unmount_failed", "unmounted", "blocked"}

Idle == [pc |-> "idle", call |-> "none", u |-> NoUser, h |-> Nil,
         retry |-> {}, want |-> {}, scan |-> {}]
Following(retry, want) == [Idle EXCEPT !.pc = "next", !.call = "reconcile",
                                  !.retry = retry, !.want = want]
Free == [u |-> NoUser, st |-> "free"]

\* What the maps of the manager say for nobody is none of its keys.
ASSUME NoOneIsNobody == NoOne \notin Calls

Serves(h)   == server[h].st = "serving"
Served(u)   == \E h \in Handles : Serves(h) /\ server[h].u = u
\* Handles nothing refers to: a new mount takes one of them.
Unused(h)   == /\ server[h] = Free
               /\ \A c \in Calls : proc[c].h # h
NewHandle   == CHOOSE h \in Handles : Unused(h)

At(c, pc)       == proc[c].pc = pc
Goto(c, pc)     == proc' = [proc EXCEPT ![c].pc = pc]
Set(f, u, v)    == [f EXCEPT ![u] = v]
Unlock(u)       == busy' = Set(busy, u, NoOne)

\* A call ends.  The calls a reconciliation makes return to its loop, where
\* the failure to keep a desired mount is recorded first.
Returned(c, ok) ==
  proc' = [proc EXCEPT ![c] =
    CASE @.call \in {"ensure", "unmount"} -> Idle
      [] @.call = "retry" \/ ok           -> Following(@.retry, @.want)
      [] OTHER                            -> [@ EXCEPT !.pc = "record", !.h = Nil]]

-----------------------------------------------------------------------------
\* Calls through the control socket, and the reconciler's ticker and wake-ups.
Ensure(c, u) ==
  /\ c \in Requests /\ At(c, "idle") /\ phase = "running"
  /\ proc' = [proc EXCEPT ![c] = [Idle EXCEPT !.pc = "resolve", !.call = "ensure", !.u = u]]
  /\ UNCHANGED <<world, disk, process, memory, busy, mounts>>

Unmount(c, u) ==
  /\ c \in Requests /\ At(c, "idle") /\ phase = "running"
  /\ proc' = [proc EXCEPT ![c] = [Idle EXCEPT !.pc = "begin", !.call = "unmount", !.u = u]]
  /\ UNCHANGED <<world, disk, process, memory, busy, mounts>>

NeedsUnmount(u) == handle[u] # Nil /\ entry[u] \in {"failed", "unmount_failed"}

\* Mutant: what an unmount left to forget is not retried.
ReconcileForgetsToForget(c) ==
  /\ c \in Reconcilers /\ At(c, "idle") /\ phase = "running"
  /\ proc' = [proc EXCEPT ![c] = Following({u \in Users : NeedsUnmount(u)}, desired)]
  /\ UNCHANGED <<world, disk, process, memory, busy, mounts>>

ReconcileOnce(c) ==
  /\ c \in Reconcilers /\ At(c, "idle") /\ phase = "running"
  /\ proc' = [proc EXCEPT ![c] =
       Following(forgetting \cup {u \in Users : NeedsUnmount(u)}, desired)]
  /\ UNCHANGED <<world, disk, process, memory, busy, mounts>>

-----------------------------------------------------------------------------
\* Manager.ensure.  "keep" is the reconciliation's ensure(onlyIfDesired).
Resolve(c) ==
  /\ At(c, "resolve")
  /\ UNCHANGED <<world, disk, process, memory, busy, mounts>>
  /\ \/ proc[c].u \in known /\ Goto(c, "begin")
     \/ proc[c].u \notin known /\ proc[c].call = "keep"
        /\ proc' = [proc EXCEPT ![c].pc = "begin", ![c].call = "drop"]
     \/ proc[c].u \notin known /\ proc[c].call = "ensure" /\ Returned(c, FALSE)
     \/ ~calm /\ Returned(c, FALSE)             \* the database did not answer

\* The context of a control request may end while it waits; the reconciler's
\* ends when the service stops.
Cancelled(c) == (c \in Requests /\ ~calm) \/ phase # "running"

BeginUserOperation(c) ==
  LET u == proc[c].u IN
  /\ At(c, "begin")
  /\ UNCHANGED <<world, disk, process, memory, mounts>>
  /\ \/ /\ phase = "running" /\ busy[u] = NoOne
        /\ busy' = Set(busy, u, c)
        /\ Goto(c, IF proc[c].call \in {"ensure", "keep"} THEN "check" ELSE "mark")
     \/ /\ phase # "running" \/ (busy[u] # NoOne /\ Cancelled(c))
        /\ Returned(c, FALSE) /\ UNCHANGED busy

\* Mutant: a reconciliation trusts its snapshot of the desired users.
CheckDesiredNever(c) ==
  /\ At(c, "check")
  /\ Goto(c, IF proc[c].u \notin desired /\ proc[c].call = "ensure" THEN "persist" ELSE "admit")
  /\ UNCHANGED <<world, disk, process, memory, busy, mounts>>

CheckDesired(c) ==
  LET u == proc[c].u IN
  /\ At(c, "check")
  /\ UNCHANGED <<world, disk, process, memory, mounts>>
  /\ \/ u \in desired /\ Goto(c, "admit") /\ UNCHANGED busy
     \/ u \notin desired /\ proc[c].call = "ensure" /\ Goto(c, "persist") /\ UNCHANGED busy
     \/ u \notin desired /\ proc[c].call = "keep" /\ Unlock(u) /\ Returned(c, TRUE)

\* Mutant: an error of the marker is not looked at.
PersistDesiredUnchecked(c) ==
  LET u == proc[c].u IN
  /\ At(c, "persist")
  /\ marker' \in {marker, marker \cup {u}}
  /\ desired' = desired \cup {u} /\ forgetting' = forgetting \ {u}
  /\ Goto(c, "admit")
  /\ UNCHANGED <<world, dir, dead, process, entry, handle, busy, mounts>>

\* The marker is published before the memory changes; a failed sync of the
\* directory reports an error although the marker is there.
PersistDesired(c) ==
  LET u == proc[c].u IN
  /\ At(c, "persist")
  /\ UNCHANGED <<world, dir, dead, process, entry, handle, mounts>>
  /\ \/ /\ marker' = marker \cup {u}
        /\ desired' = desired \cup {u} /\ forgetting' = forgetting \ {u}
        /\ Goto(c, "admit") /\ UNCHANGED busy
     \/ /\ ~calm /\ marker' \in {marker, marker \cup {u}}
        /\ Unlock(u) /\ Returned(c, FALSE) /\ UNCHANGED <<desired, forgetting>>

ActiveMounts == {u \in Users : handle[u] # Nil \/ entry[u] = "mounting"}
\* The other users do not take every place for ever (for liveness only).
OtherMounts == IF calm THEN {0} ELSE Others

Admit(c) ==
  LET u == proc[c].u IN
  /\ At(c, "admit")
  /\ UNCHANGED <<world, disk, process, desired, forgetting, handle, mounts>>
  /\ \/ /\ handle[u] # Nil                      \* mounted, or ErrMountUnhealthy
        /\ Unlock(u) /\ Returned(c, entry[u] = "mounted") /\ UNCHANGED entry
     \/ /\ handle[u] = Nil
        /\ \E n \in OtherMounts : Cardinality(ActiveMounts) + n >= MaxMounts
        /\ entry' = Set(entry, u, "pending")
        /\ Unlock(u) /\ Returned(c, TRUE)
     \/ /\ handle[u] = Nil
        /\ \E n \in OtherMounts : Cardinality(ActiveMounts) + n < MaxMounts
        /\ entry' = Set(entry, u, "mounting")
        /\ Goto(c, "prepare") /\ UNCHANGED busy

\* A disconnected mount at the mountpoint is removed, a live one is foreign.
PrepareMountpoint(c) ==
  LET u == proc[c].u IN
  /\ At(c, "prepare")
  /\ UNCHANGED <<world, marker, process, memory, busy, mounts>>
  /\ \/ ~Served(u) /\ dead' = dead \ {u} /\ dir' = dir \cup {u} /\ Goto(c, "mount")
     \/ ~calm /\ Goto(c, "failed") /\ UNCHANGED <<dir, dead>>

ProviderMount(c) ==
  LET u == proc[c].u IN
  /\ At(c, "mount")
  /\ UNCHANGED <<world, disk, process, memory, busy, watching, reports>>
  /\ \/ /\ u \in known /\ u \in dir
        /\ \E h \in Handles : Unused(h)
        /\ server' = Set(server, NewHandle, [u |-> u, st |-> "serving"])
        /\ proc' = [proc EXCEPT ![c].pc = "mounted", ![c].h = NewHandle]
     \/ /\ ~calm \/ u \notin known \/ u \notin dir
        /\ Goto(c, "failed") /\ UNCHANGED server

MountFailed(c) ==
  /\ At(c, "failed")
  /\ entry' = Set(entry, proc[c].u, "failed")
  /\ Unlock(proc[c].u) /\ Returned(c, FALSE)
  /\ UNCHANGED <<world, disk, process, desired, forgetting, handle, mounts>>

Mounted(c) ==
  LET u == proc[c].u IN
  /\ At(c, "mounted")
  /\ handle' = Set(handle, u, proc[c].h)
  /\ entry' = Set(entry, u, "mounted")
  /\ watching' = watching \cup {proc[c].h}
  /\ Unlock(u) /\ Returned(c, TRUE)
  /\ UNCHANGED <<world, disk, process, desired, forgetting, server, reports>>

-----------------------------------------------------------------------------
\* Manager.unmount.  "retry" is unmount(forget = false), "unmount" and "drop"
\* forget the user.
Forgets(c) == proc[c].call \in {"unmount", "drop"}

StillNeedsRetry(u) == u \in forgetting \/ NeedsUnmount(u)

MarkForgotten(c) ==
  LET u == proc[c].u IN
  /\ At(c, "mark")
  /\ UNCHANGED <<world, disk, process, handle, mounts>>
  /\ \/ /\ ~Forgets(c) /\ ~StillNeedsRetry(u)
        /\ Unlock(u) /\ Returned(c, TRUE)
        /\ UNCHANGED <<desired, forgetting, entry>>
     \/ /\ Forgets(c) \/ StillNeedsRetry(u)
        /\ IF Forgets(c)
             THEN desired' = desired \ {u} /\ forgetting' = forgetting \cup {u}
             ELSE UNCHANGED <<desired, forgetting>>
        /\ entry' = Set(entry, u, CASE handle[u] # Nil -> "unmounting"
                                    [] entry[u] = "none" -> "unmounted"
                                    [] OTHER -> entry[u])
        /\ proc' = [proc EXCEPT ![c].pc = IF handle[u] # Nil THEN "stop" ELSE "inspect",
                                ![c].h = handle[u]]
        /\ UNCHANGED busy

\* handle.Unmount(): the server stops serving, or answers an error (busy).
StopServer(h) == [server EXCEPT ![h].st = IF @ = "serving" THEN "closing" ELSE @]

StopMount(c) ==
  /\ At(c, "stop")
  /\ UNCHANGED <<world, disk, process, desired, forgetting, handle, watching, reports>>
  /\ \/ server' = StopServer(proc[c].h) /\ Goto(c, "await") /\ UNCHANGED <<entry, busy>>
     \/ /\ ~calm /\ entry' = Set(entry, proc[c].u, "unmount_failed")
        /\ Unlock(proc[c].u) /\ Returned(c, FALSE) /\ UNCHANGED server

\* Mutant: Done is not awaited.
AwaitNothing(c) ==
  /\ At(c, "await") /\ Goto(c, "clean")
  /\ UNCHANGED <<world, disk, process, memory, busy, mounts>>

\* Done closes, or the request's context ends first.
AwaitDone(c) ==
  /\ At(c, "await")
  /\ UNCHANGED <<world, disk, process, memory, mounts>>
  /\ \/ server[proc[c].h].st \in {"done", "free"} /\ Goto(c, "clean") /\ UNCHANGED busy
     \/ Cancelled(c) /\ Unlock(proc[c].u) /\ Returned(c, FALSE)

InspectMount(c) ==
  LET u == proc[c].u IN
  /\ At(c, "inspect")
  /\ UNCHANGED <<world, marker, dir, process, memory, mounts>>
  /\ \/ ~Served(u) /\ dead' = dead \ {u} /\ Goto(c, "clean") /\ UNCHANGED busy
     \/ ~calm /\ Unlock(u) /\ Returned(c, FALSE) /\ UNCHANGED dead

\* removeEmptyRealDirectory; a directory something is mounted on stays.
RemoveMountpoint(c) ==
  LET u == proc[c].u IN
  /\ At(c, "clean")
  /\ UNCHANGED <<world, marker, dead, process, desired, forgetting, mounts>>
  /\ \/ /\ ~Served(u) /\ u \notin dead
        /\ dir' = dir \ {u} /\ Goto(c, "forget") /\ UNCHANGED <<entry, handle, busy>>
     \/ /\ ~calm /\ u \in dir
        /\ entry' = Set(entry, u, "blocked") /\ handle' = Set(handle, u, Nil)
        /\ Unlock(u) /\ Returned(c, FALSE) /\ UNCHANGED dir

\* The marker goes last, and the memory of the forgetting with it.
ForgetMarker(c) ==
  LET u == proc[c].u IN
  /\ At(c, "forget")
  /\ handle' = Set(handle, u, Nil)
  /\ Unlock(u)
  /\ UNCHANGED <<world, dir, dead, process, desired, mounts>>
  /\ \/ /\ marker' = IF u \in forgetting THEN marker \ {u} ELSE marker
        /\ forgetting' = forgetting \ {u}
        /\ entry' = Set(entry, u, "unmounted")
        /\ Returned(c, TRUE)
     \/ /\ ~calm /\ u \in forgetting
        /\ marker' \in {marker, marker \ {u}}
        /\ entry' = Set(entry, u, "blocked")
        /\ Returned(c, FALSE) /\ UNCHANGED forgetting

-----------------------------------------------------------------------------
\* Mutant: the scan starts before the desired mounts were kept.
NextUserSkipsDesired(c) ==
  /\ At(c, "next")
  /\ UNCHANGED <<world, disk, process, memory, busy, mounts>>
  /\ \/ \E u \in proc[c].retry :
          proc' = [proc EXCEPT ![c].pc = "begin", ![c].call = "retry", ![c].u = u,
                               ![c].retry = @ \ {u}]
     \/ /\ proc[c].retry = {}
        /\ proc' = [proc EXCEPT ![c] = IF dir = {} THEN Idle
                                       ELSE [Idle EXCEPT !.pc = "scan", !.call = "scan", !.scan = dir]]

\* ReconcileOnce: retries of unmounts, then desired mounts, then the scan of
\* the mount root.
NextUser(c) ==
  /\ At(c, "next")
  /\ UNCHANGED <<world, disk, process, memory, busy, mounts>>
  /\ \/ \E u \in proc[c].retry :
          proc' = [proc EXCEPT ![c].pc = "begin", ![c].call = "retry", ![c].u = u,
                               ![c].retry = @ \ {u}]
     \/ /\ proc[c].retry = {}
        /\ \E u \in proc[c].want :
             proc' = [proc EXCEPT ![c].pc = "resolve", ![c].call = "keep", ![c].u = u,
                                  ![c].want = @ \ {u}]
     \/ /\ proc[c].retry = {} /\ proc[c].want = {}
        /\ proc' = [proc EXCEPT ![c] = IF dir = {} THEN Idle
                                       ELSE [Idle EXCEPT !.pc = "scan", !.call = "scan", !.scan = dir]]

\* Not under the user's operation lock.
RecordReconcileFailure(c) ==
  LET u == proc[c].u IN
  /\ At(c, "record")
  /\ entry' = IF handle[u] = Nil THEN Set(entry, u, "failed") ELSE entry
  /\ proc' = [proc EXCEPT ![c] = Following(@.retry, @.want)]
  /\ UNCHANGED <<world, disk, process, desired, forgetting, handle, busy, mounts>>

ScanEnds(c, rest) ==
  proc' = [proc EXCEPT ![c] = IF rest = {} THEN Idle
                              ELSE [Idle EXCEPT !.pc = "scan", !.call = "scan", !.scan = rest]]

\* reconcileOrphanMountpoints, the decision that a mountpoint is an orphan ...
ScanMountpoint(c) ==
  /\ At(c, "scan")
  /\ UNCHANGED <<world, disk, process, memory, busy, mounts>>
  /\ \E u \in proc[c].scan :
       IF handle[u] # Nil \/ u \in desired
         THEN ScanEnds(c, proc[c].scan \ {u})
         ELSE proc' = [proc EXCEPT ![c].pc = "sweep", ![c].u = u, ![c].scan = @ \ {u}]

\* ... and what is done with it, without the operation lock.
SweepMountpoint(c) ==
  LET u == proc[c].u IN
  /\ At(c, "sweep")
  /\ ScanEnds(c, proc[c].scan)
  /\ UNCHANGED <<world, marker, process, desired, forgetting, handle, busy, mounts>>
  /\ \/ Served(u) /\ entry' = Set(entry, u, "blocked") /\ UNCHANGED <<dir, dead>>
     \/ ~Served(u) /\ u \in dead /\ entry' = Set(entry, u, "blocked") /\ UNCHANGED <<dir, dead>>
     \/ ~Served(u) /\ dead' = dead \ {u} /\ dir' \in {dir, dir \ {u}} /\ UNCHANGED entry
     \/ UNCHANGED <<entry, dir, dead>>          \* the mount table was not read

-----------------------------------------------------------------------------
\* The servers, and the goroutine that watches each.
ServerStops(h) ==
  /\ ~calm /\ Serves(h)
  /\ server' = StopServer(h)
  /\ UNCHANGED <<world, disk, process, memory, busy, watching, reports, proc>>

\* Plaintext keys, local lock and lease are released, and Done closes.
ServerDone(h) ==
  /\ server[h].st = "closing"
  /\ server' = [server EXCEPT ![h].st = "done"]
  /\ UNCHANGED <<world, disk, process, memory, busy, watching, reports, proc>>

\* The lease is lost: the mount reports it and unmounts itself, if it can.
LeaseLost(h) ==
  /\ ~calm /\ Serves(h) /\ h \notin reports
  /\ reports' = reports \cup {h}
  /\ server' \in {server, StopServer(h)}
  /\ UNCHANGED <<world, disk, process, memory, busy, watching, proc>>

WatchFailure(h) ==
  LET u == server[h].u IN
  /\ h \in watching /\ h \in reports
  /\ reports' = reports \ {h}
  /\ entry' = IF handle[u] = h THEN Set(entry, u, "failed") ELSE entry
  /\ UNCHANGED <<world, disk, process, desired, forgetting, handle, busy, server, watching, proc>>

WatchDone(h) ==
  LET u == server[h].u
      expected == phase # "running" \/ u \notin desired \/ entry[u] = "unmounting"
  IN
  /\ h \in watching /\ server[h].st = "done"
  /\ watching' = watching \ {h} /\ reports' = reports \ {h}
  /\ server' = Set(server, h, Free)
  /\ IF handle[u] = h
       THEN /\ handle' = Set(handle, u, Nil)
            /\ entry' = Set(entry, u, IF expected THEN "unmounted" ELSE "failed")
       ELSE UNCHANGED <<handle, entry>>
  /\ UNCHANGED <<world, disk, process, desired, forgetting, busy, proc>>

-----------------------------------------------------------------------------
\* The process stops: new operations are refused, those in progress end, then
\* every mount is stopped.
Shutdown ==
  /\ phase = "running"
  /\ phase' = "closing"
  /\ UNCHANGED <<world, disk, leaving, memory, busy, mounts, proc>>

\* Mutant: Shutdown does not wait for the operations in progress.
OperationsGoOn == TRUE

OperationsDone == \A u \in Users : busy[u] = NoOne

\* Mutant: entries without a mount are not passed over.
CollectEntries ==
  /\ phase = "closing" /\ OperationsDone
  /\ phase' = "stopping"
  /\ leaving' = {handle[u] : u \in Users}
  /\ entry' = [u \in Users |-> "unmounting"]
  /\ UNCHANGED <<world, disk, desired, forgetting, handle, busy, mounts, proc>>

CollectHandles ==
  LET held == {u \in Users : handle[u] # Nil} IN
  /\ phase = "closing" /\ OperationsDone
  /\ phase' = "stopping"
  /\ leaving' = {handle[u] : u \in held}
  /\ entry' = [u \in Users |-> IF u \in held THEN "unmounting" ELSE entry[u]]
  /\ UNCHANGED <<world, disk, desired, forgetting, handle, busy, mounts, proc>>

StopLeaving(h) ==
  /\ phase = "stopping" /\ h \in leaving /\ Serves(h)
  /\ server' = StopServer(h)
  /\ UNCHANGED <<world, disk, process, memory, busy, watching, reports, proc>>

\* The process ends, after Shutdown or at any time; its mounts disconnect.
Exit ==
  /\ phase # "down" /\ (phase = "running" => ~calm)
  /\ phase' = "down"
  /\ dead' = dead \cup {u \in Users : Served(u)}
  /\ desired' = {} /\ forgetting' = {}
  /\ entry' = [u \in Users |-> "none"] /\ handle' = [u \in Users |-> Nil]
  /\ busy' = [u \in Users |-> NoOne]
  /\ server' = [h \in Handles |-> Free] /\ watching' = {} /\ reports' = {}
  /\ leaving' = {}
  /\ proc' = [c \in Calls |-> Idle]
  /\ UNCHANGED <<world, marker, dir>>

NewManager ==
  /\ phase = "down"
  /\ phase' = "running"
  /\ desired' = marker
  /\ UNCHANGED <<world, disk, leaving, forgetting, entry, handle, busy, mounts, proc>>

\* The account is deleted in the product database.
RemoveUser(u) ==
  /\ u \in known
  /\ known' = known \ {u}
  /\ UNCHANGED <<calm, disk, process, memory, busy, mounts, proc>>

-----------------------------------------------------------------------------
Init ==
  /\ known = Users /\ calm = FALSE
  /\ marker = {} /\ dir = {} /\ dead = {}
  /\ phase = "running" /\ leaving = {}
  /\ desired = {} /\ forgetting = {}
  /\ entry = [u \in Users |-> "none"] /\ handle = [u \in Users |-> Nil]
  /\ busy = [u \in Users |-> NoOne]
  /\ server = [h \in Handles |-> Free] /\ watching = {} /\ reports = {}
  /\ proc = [c \in Calls |-> Idle]

EnsureStep(c) ==
  \/ Resolve(c) \/ BeginUserOperation(c) \/ CheckDesired(c) \/ PersistDesired(c)
  \/ Admit(c) \/ PrepareMountpoint(c) \/ ProviderMount(c) \/ MountFailed(c) \/ Mounted(c)
UnmountStep(c) ==
  \/ MarkForgotten(c) \/ StopMount(c) \/ AwaitDone(c) \/ InspectMount(c)
  \/ RemoveMountpoint(c) \/ ForgetMarker(c)
ReconcileStep(c) ==
  \/ NextUser(c) \/ RecordReconcileFailure(c) \/ ScanMountpoint(c) \/ SweepMountpoint(c)
CallStep(c) == EnsureStep(c) \/ UnmountStep(c) \/ ReconcileStep(c)
ServerStep(h) == ServerDone(h) \/ WatchFailure(h) \/ WatchDone(h) \/ StopLeaving(h)

Next ==
  \/ \E c \in Calls : CallStep(c) \/ ReconcileOnce(c)
  \/ \E c \in Requests, u \in Users : Ensure(c, u) \/ Unmount(c, u)
  \/ \E h \in Handles : ServerStep(h) \/ ServerStops(h) \/ LeaseLost(h)
  \/ \E u \in Users : RemoveUser(u)
  \/ Shutdown \/ CollectHandles \/ Exit \/ NewManager

Spec == Init /\ [][Next]_vars

(***************************************************************************)
(* Goroutines run, the service manager restarts the process and a stopping *)
(* one ends at its deadline, a server asked to stop releases its lease,    *)
(* and the reconciler is not passed over for ever by those who want the    *)
(* same operation lock.  Calls fail for a while only.                      *)
(***************************************************************************)
FaultsEnd == calm' = TRUE /\ UNCHANGED <<known, disk, process, memory, busy, mounts, proc>>

Fairness ==
  /\ \A c \in Calls : WF_vars(CallStep(c))
  /\ SF_vars(BeginUserOperation(Loop))
  /\ WF_vars(ReconcileOnce(Loop))
  /\ \A h \in Handles : WF_vars(ServerStep(h))
  /\ WF_vars(NewManager \/ CollectHandles \/ (phase # "running" /\ Exit))
  /\ WF_vars(FaultsEnd)

FairSpec == Init /\ [][Next \/ FaultsEnd]_vars /\ Fairness
-----------------------------------------------------------------------------
\* Where a call holds the operation lock of its user, where it only names one,
\* and where it names none.
Locked  == {"check", "persist", "admit", "prepare", "mount", "failed", "mounted",
            "mark", "stop", "await", "inspect", "clean", "forget"}
Naming  == Locked \cup {"resolve", "begin", "record", "sweep"}
Records ==
  [pc : Naming \cup {"idle", "next", "scan"},
   call : {"none", "ensure", "unmount", "reconcile", "keep", "drop", "retry", "scan"},
   u : Users \cup {NoUser}, h : Handles \cup {Nil},
   retry : SUBSET Users, want : SUBSET Users, scan : SUBSET Users]

\* The values each variable takes; a call on a user names one.
TypeOK ==
  /\ known \subseteq Users /\ calm \in BOOLEAN
  /\ marker \subseteq Users /\ dir \subseteq Users /\ dead \subseteq Users
  /\ phase \in {"running", "closing", "stopping", "down"}
  /\ desired \subseteq Users /\ forgetting \subseteq Users
  /\ entry \in [Users -> States]
  /\ handle \in [Users -> Handles \cup {Nil}]
  /\ busy \in [Users -> Calls \cup {NoOne}]
  /\ server \in [Handles -> [u : Users \cup {NoUser}, st : {"free", "serving", "closing", "done"}]]
  /\ watching \subseteq Handles /\ reports \subseteq Handles /\ leaving \subseteq Handles
  /\ proc \in [Calls -> Records]
  /\ \A c \in Calls : proc[c].pc \in Naming => proc[c].u \in Users

\* comment in unmount (manager_linux.go:825): a crash at any point "reloads the
\* marker": no plaintext mount, live or left by an earlier process, is without
\* the marker from which a new process knows of it.
MountedIsMarked == \A u \in Users : Served(u) \/ u \in dead => u \in marker

Live(h) == server[h].st \in {"serving", "closing"}

\* A server that holds plaintext keys, a lock or a lease is the one the manager
\* has a handle of, or the call that started it is about to record it: nothing
\* unlocks, forgets or replaces an entry over a live server.
NothingUntracked ==
  \A h \in Handles : Live(h) =>
    \/ handle[server[h].u] = h
    \/ \E c \in Calls : At(c, "mounted") /\ proc[c].h = h

\* comment at ensure (manager_linux.go:464): "a stale reconcile snapshot cannot
\* recreate a mount just removed by an explicit concurrent Unmount".  A mount is
\* wanted, or an unmount of it is in progress or will be retried.
WantedOrLeaving == \A u \in Users : Served(u) => u \in desired \cup forgetting

ShutdownDone == phase = "stopping" /\ \A h \in leaving : ~Live(h)

\* Shutdown (manager_linux.go:1124) returns when the handles it collected are
\* done: no operation that was in progress when it began has started another.
ShutdownLeavesNoMount == ShutdownDone => \A h \in Handles : ~Live(h)

\* The reconciler of the same process carries out an Unmount that failed half way,
\* timed out or was interrupted (manager_linux.go:963): in the end the user has
\* neither mount nor marker, or was ensured again.  A process that ends before
\* that forgets the Unmount: the next one finds the marker (380) and mounts the
\* user again.
ForgottenSettles ==
  \A u \in Users :
    u \in forgetting ~> (u \notin marker /\ ~Served(u)) \/ u \in desired \/ phase = "down"

\* A mount that is wanted is served in the end, whatever failed before: the
\* provider, the mount itself, an unmount on the way, or the process.
DesiredServed == \A u \in Users : u \in desired ~> Served(u) \/ u \notin desired

\* status text at ensure (manager_linux.go:566) and TestManagerMountCapacityQueuesDesiredUser
\* (manager_linux_test.go:94): an Ensure over the limit waits for capacity.
WithinCapacity == Cardinality({h \in Handles : Serves(h)}) <= MaxMounts
=============================================================================
