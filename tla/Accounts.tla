-------------------------------- MODULE Accounts --------------------------------
(***************************************************************************)
(* Users and their DOFS namespaces.  A user is a row of the product        *)
(* database, a namespace a row of the DOFS store, and no transaction spans *)
(* the two.  Administrators create, change and delete users; the API       *)
(* server, the worker and the mount service make sure, when they start,    *)
(* that every user has a namespace; a reclaimer in the API server deletes  *)
(* the namespaces of users that are gone.                                  *)
(*                                                                         *)
(* A step is one statement or one transaction of the database, or one call *)
(* of the DOFS store.  Who asks, and the sessions a request revokes, are   *)
(* not told apart here (LiveHub has the revocation).                       *)
(***************************************************************************)
EXTENDS Naturals, FiniteSets

CONSTANTS
  Users,        \* bound: IDs of users, each used at most once
  Requests,     \* concurrent requests of administrators
  Api,          \* the start of the API server
  Helpers,      \* the processes beside it: worker, mount service, dofs mount
  Nobody,
  MaxBusy       \* bound: requests and helpers in progress at once

ASSUME AccountsAssumption ==
  /\ Nobody \notin Users /\ MaxBusy \in Nat
  /\ Api \notin Requests \cup Helpers /\ Requests \cap Helpers = {}

VARIABLES
  row,          \* table users: the role, or why there is no row
  ns,           \* the namespace of a user: none, bare (without its directories), whole
  api,          \* the API server: down, starting, up
  proc,         \* the requests, and the processes that ensure namespaces
  victim,       \* the user whose namespace the reclaimer has decided to delete
  young,        \* users created since the API server started
  calm          \* no call fails any more (a bound, for liveness only)

vars == <<row, ns, api, proc, victim, young, calm>>

Ensurers  == Requests \cup {Api} \cup Helpers
Live(u)   == row[u] \in {"user", "root"}
LiveUsers == {u \in Users : Live(u)}
Roots     == {u \in Users : row[u] = "root"}

\* late is a history: another request changed who is root between what the
\* request read, or its count of the root users, and its write.
Idle == [pc |-> "idle", u |-> Nobody, role |-> "none", want |-> "none",
         todo |-> {}, late |-> FALSE]
Ensuring(todo) == [Idle EXCEPT !.pc = "next", !.todo = todo]

At(p, pc)   == proc[p].pc = pc
Become(p, next) == proc' = [proc EXCEPT ![p] = next]
Goto(p, pc) == Become(p, [proc[p] EXCEPT !.pc = pc])

RoomForOne == Cardinality({p \in Requests \cup Helpers : ~At(p, "idle")}) < MaxBusy

\* Request r changes users and becomes next.
Overtake(r, next) ==
  proc' = [q \in Ensurers |->
             IF q = r THEN next
             ELSE [proc[q] EXCEPT !.late = @ \/ (Roots' # Roots /\ proc[q].pc \in {"write", "tx"})]]

-----------------------------------------------------------------------------
(* EnsureUser: the namespace, then its private directories.                *)

GetNamespace(p, u) ==
  /\ At(p, "next") /\ u \in proc[p].todo
  /\ Become(p, [proc[p] EXCEPT !.pc = IF ns[u] = "none" THEN "make" ELSE "dirs",
                               !.u = u, !.todo = @ \ {u}])
  /\ UNCHANGED <<row, ns, api, victim, young, calm>>

\* If somebody else created it meanwhile, it is read again.
CreateNamespace(p) ==
  LET u == proc[p].u IN
  /\ At(p, "make") /\ Goto(p, "dirs")
  /\ ns' = IF ns[u] = "none" THEN [ns EXCEPT ![u] = "bare"] ELSE ns
  /\ UNCHANGED <<row, api, victim, young, calm>>

EnsureDirectories(p) ==
  LET u == proc[p].u IN
  /\ At(p, "dirs") /\ ns[u] # "none"
  /\ ns' = [ns EXCEPT ![u] = "whole"]
  /\ Become(p, Ensuring(proc[p].todo))
  /\ UNCHANGED <<row, api, victim, young, calm>>

\* Mutant: a user who cannot be ensured does not end the start of the server.
EnsureGoesOn(p) ==
  /\ \/ At(p, "dirs") /\ ns[proc[p].u] = "none"
     \/ ~calm /\ proc[p].pc \in {"next", "make", "dirs"}
  /\ Become(p, IF p = Api THEN Ensuring(proc[p].todo) ELSE Idle)
  /\ UNCHANGED <<row, ns, api, victim, young, calm>>

\* A call fails, or the namespace was deleted under the process.  A request
\* answers 500 and leaves what it has done; the other processes end.
EnsureFails(p) ==
  /\ \/ At(p, "dirs") /\ ns[proc[p].u] = "none"
     \/ ~calm /\ proc[p].pc \in {"next", "make", "dirs"}
  /\ Become(p, Idle)
  /\ api' = IF p = Api THEN "down" ELSE api
  /\ UNCHANGED <<row, ns, victim, young, calm>>

\* A request answers 201; a helper serves its mounts, or looks for work.
EnsureEnds(p) ==
  /\ p # Api /\ At(p, "next") /\ proc[p].todo = {}
  /\ Become(p, Idle)
  /\ UNCHANGED <<row, ns, api, victim, young, calm>>

\* The worker and the mount service list all users and ensure them one by one.
StartService(p) ==
  /\ p \in Helpers /\ At(p, "idle") /\ RoomForOne
  /\ Become(p, Ensuring(LiveUsers))
  /\ UNCHANGED <<row, ns, api, victim, young, calm>>

\* A mount ensures the user it looked up.
MountUser(p, u) ==
  /\ p \in Helpers /\ At(p, "idle") /\ Live(u) /\ RoomForOne
  /\ Become(p, Ensuring({u}))
  /\ UNCHANGED <<row, ns, api, victim, young, calm>>

-----------------------------------------------------------------------------
(* The start of the API server, and its end.                               *)

StartApi ==
  /\ api = "down" /\ api' = "starting"
  /\ Become(Api, Ensuring(LiveUsers))
  /\ UNCHANGED <<row, ns, victim, young, calm>>

Unused == {u \in Users : row[u] = "unused"}

\* When nobody is there the first user is created.  A failed count is ignored.
CountUsers ==
  /\ At(Api, "next") /\ proc[Api].todo = {}
  /\ \/ /\ LiveUsers = {} /\ Unused # {}
        /\ Goto(Api, "root") /\ UNCHANGED api
     \/ /\ LiveUsers # {} \/ Unused = {} \/ ~calm
        /\ Become(Api, Idle) /\ api' = "up"
  /\ UNCHANGED <<row, ns, victim, young, calm>>

CreateRoot ==
  /\ At(Api, "root")
  /\ \E u \in Unused : row' = [row EXCEPT ![u] = "root"] /\ Become(Api, Ensuring({u}))
  /\ UNCHANGED <<ns, api, victim, young, calm>>

StopApi ==
  /\ api # "down" /\ ~calm
  /\ api' = "down" /\ victim' = Nobody /\ young' = {}
  /\ proc' = [p \in Ensurers |-> IF p \in Helpers THEN proc[p] ELSE Idle]
  /\ UNCHANGED <<row, ns, calm>>

-----------------------------------------------------------------------------
(* The requests of administrators.  A request that reads no user, or fails *)
(* before it has changed anything, is no step.                             *)

Accepted(r) == api = "up" /\ r \in Requests /\ At(r, "idle") /\ RoomForOne

CreateUser(r, role) ==
  /\ Accepted(r)
  /\ \E u \in Unused :
       /\ row' = [row EXCEPT ![u] = role]
       /\ young' = young \cup {u}
       /\ Overtake(r, Ensuring({u}))
  /\ UNCHANGED <<ns, api, victim, calm>>

\* Mutant: a demotion is guarded, a deletion is not.
GuardedIfDemoted(role, want) == role = "root" /\ want = "user"
\* ensureNotDemotingLastRoot, ensureNotDeletingLastRoot: what needs a count of the root users.
Guarded(role, want) == role = "root" /\ want \in {"user", "gone"}
Acting(want) == IF want = "gone" THEN "tx" ELSE "write"

ReadUser(r, u, want) ==
  /\ Accepted(r) /\ Live(u)
  /\ Become(r, [Idle EXCEPT !.u = u, !.want = want, !.role = row[u],
                            !.pc = IF Guarded(row[u], want) THEN "guard" ELSE Acting(want)])
  /\ UNCHANGED <<row, ns, api, victim, young, calm>>

\* want is "none" when only the password is set.
UpdateUser(r, u) == \E want \in {"none", "user", "root"} : ReadUser(r, u, want)
DeleteUser(r, u) == ReadUser(r, u, "gone")

GuardLastRoot(r) ==
  /\ At(r, "guard")
  /\ Become(r, IF Cardinality(Roots) <= 1 THEN Idle
               ELSE [proc[r] EXCEPT !.pc = Acting(proc[r].want)])
  /\ UNCHANGED <<row, ns, api, victim, young, calm>>

\* Without a new role the one that was read is written back.
UpdateRole(r) ==
  LET u == proc[r].u
      role == IF proc[r].want = "none" THEN proc[r].role ELSE proc[r].want
  IN /\ At(r, "write")
     /\ row' = IF Live(u) THEN [row EXCEPT ![u] = role] ELSE row
     /\ IF row' = row THEN Become(r, Idle) ELSE Overtake(r, Idle)
     /\ UNCHANGED <<ns, api, victim, young, calm>>

DeleteUserAndRelatedData(r) ==
  LET u == proc[r].u IN
  /\ At(r, "tx")
  /\ row' = [row EXCEPT ![u] = "deleted"] /\ young' = young \ {u}
  /\ Overtake(r, [Idle EXCEPT !.pc = "drop", !.u = u])
  /\ UNCHANGED <<ns, api, victim, calm>>

DeleteNamespace(r) ==
  /\ At(r, "drop")
  /\ ns' = [ns EXCEPT ![proc[r].u] = "none"]
  /\ Become(r, Idle)
  /\ UNCHANGED <<row, api, victim, young, calm>>

\* A statement fails: the request answers 500, or logs that the namespace stays.
RequestFails(r) ==
  /\ r \in Requests /\ ~calm
  /\ proc[r].pc \in {"guard", "write", "tx", "drop"}
  /\ Become(r, Idle)
  /\ UNCHANGED <<row, ns, api, victim, young, calm>>

-----------------------------------------------------------------------------
(* The reclaimer passes over the namespaces at the start of the server and *)
(* every 30 seconds.  A live user's namespace it only tidies up.           *)

\* Mutant: an owner that could not be looked up counts as gone.
LookUpOwnerOrError(u) ==
  /\ api = "up" /\ victim = Nobody /\ ns[u] # "none"
  /\ ~Live(u) \/ ~calm
  /\ victim' = u
  /\ UNCHANGED <<row, ns, api, proc, young, calm>>
\* Mutant: a pass looks only at the namespaces an interrupted creation left.
LookUpOwnerOfBare(u) ==
  /\ api = "up" /\ victim = Nobody /\ ns[u] = "bare"
  /\ ~Live(u)
  /\ victim' = u
  /\ UNCHANGED <<row, ns, api, proc, young, calm>>

LookUpOwner(u) ==
  /\ api = "up" /\ victim = Nobody /\ ns[u] # "none"
  /\ ~Live(u)
  /\ victim' = u
  /\ UNCHANGED <<row, ns, api, proc, young, calm>>

DeleteOrphan ==
  /\ victim # Nobody
  /\ \/ ns' = [ns EXCEPT ![victim] = "none"]
     \/ ~calm /\ UNCHANGED ns
  /\ victim' = Nobody
  /\ UNCHANGED <<row, api, proc, young, calm>>

-----------------------------------------------------------------------------
\* A new installation: nothing is there, nothing runs.
Init ==
  /\ row = [u \in Users |-> "unused"] /\ ns = [u \in Users |-> "none"]
  /\ api = "down" /\ victim = Nobody /\ young = {} /\ calm = FALSE
  /\ proc = [p \in Ensurers |-> Idle]

EnsureStep(p) ==
  \/ \E u \in Users : GetNamespace(p, u)
  \/ CreateNamespace(p) \/ EnsureDirectories(p) \/ EnsureFails(p) \/ EnsureEnds(p)
RequestStep(r) ==
  \/ GuardLastRoot(r) \/ UpdateRole(r) \/ DeleteUserAndRelatedData(r) \/ DeleteNamespace(r)
ApiStep == StartApi \/ CountUsers \/ CreateRoot
ReclaimStep == (\E u \in Users : LookUpOwner(u)) \/ DeleteOrphan
Asked(r) ==
  \/ \E role \in {"user", "root"} : CreateUser(r, role)
  \/ \E u \in Users : UpdateUser(r, u) \/ DeleteUser(r, u)

Next ==
  \/ \E p \in Ensurers : EnsureStep(p)
  \/ \E r \in Requests : Asked(r) \/ RequestStep(r) \/ RequestFails(r)
  \/ \E p \in Helpers : StartService(p) \/ \E u \in Users : MountUser(p, u)
  \/ ApiStep \/ StopApi \/ ReclaimStep

FaultsEnd == ~calm /\ calm' = TRUE /\ UNCHANGED <<row, ns, api, proc, victim, young>>

\* Processes go on, the server is started again, its reclaimer keeps passing,
\* and calls do not fail for ever.  Nobody has to ask for anything.
Fairness ==
  /\ \A p \in Ensurers : WF_vars(EnsureStep(p))
  /\ \A r \in Requests : WF_vars(RequestStep(r))
  /\ WF_vars(ApiStep) /\ WF_vars(ReclaimStep) /\ WF_vars(FaultsEnd)
Spec == Init /\ [][Next \/ FaultsEnd]_vars
FairSpec == Spec /\ Fairness
-----------------------------------------------------------------------------
\* The values each variable takes; a process in the middle of a call names a user.
Processes ==
  [pc : {"idle", "next", "make", "dirs", "root", "guard", "write", "tx", "drop"},
   u : Users \cup {Nobody}, role : {"none", "user", "root"},
   want : {"none", "user", "root", "gone"}, todo : SUBSET Users, late : BOOLEAN]
TypeOK ==
  /\ row \in [Users -> {"unused", "user", "root", "deleted"}]
  /\ ns \in [Users -> {"none", "bare", "whole"}]
  /\ api \in {"down", "starting", "up"} /\ calm \in BOOLEAN
  /\ victim \in Users \cup {Nobody} /\ young \subseteq Users
  /\ proc \in [Ensurers -> Processes]
  /\ \A p \in Ensurers :
       proc[p].pc \in {"make", "dirs", "guard", "write", "tx", "drop"} => proc[p].u \in Users

\* The namespace of a user that exists is never taken away, whatever the reclaimer,
\* deletions of other users and interrupted deletions do.
LiveKeepsNamespace ==
  [][\A u \in LiveUsers : ns[u] # "none" => ns'[u] # "none" /\ (ns[u] = "whole" => ns'[u] = "whole")]_vars

\* While requests are served, every user of before this start has a namespace with
\* its directories; only the creation of a user in this run may have left less.
ServesOnlyWhole == api = "up" => \A u \in LiveUsers \ young : ns[u] = "whole"

\* ensureNotDemotingLastRoot and ensureNotDeletingLastRoot count before the change, and
\* a role that was read is written back: the last root user is lost only to a request
\* whose write came after another request had changed who is root since it read or counted.
RootLostOnlyWhenOvertaken ==
  [][ Roots # {} /\ Roots' = {} =>
        \E r \in Requests : /\ proc[r].pc \in {"write", "tx"} /\ proc[r].late
                            /\ proc'[r].pc # proc[r].pc ]_vars

\* The namespace of a user that is gone does not stay: also when it was created by a
\* process that had listed the user before, or its deletion failed or was interrupted.
OrphanReclaimed == \A u \in Users : (row[u] = "deleted" /\ ns[u] # "none") ~> ns[u] = "none"
=============================================================================
