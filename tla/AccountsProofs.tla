----------------------------- MODULE AccountsProofs -----------------------------
(***************************************************************************)
(* For every set of users, requests and helpers: the safety properties of  *)
(* Accounts.                                                               *)
(***************************************************************************)
EXTENDS Accounts, FiniteSetTheorems, TLAPS

\* What a request has read, when it comes to write it.
ChangeKnown(x) ==
  /\ x.pc = "guard" => Guarded(x.role, x.want)
  /\ x.pc = "write" => x.role \in {"user", "root"} /\ x.want # "gone"
  /\ x.pc = "tx" => x.role \in {"user", "root"} /\ x.want = "gone"

\* Nobody makes the namespace of a user that never was, and a deletion drops
\* only the namespace of a user that is gone.
UserKnown(x) ==
  /\ \A u \in x.todo : row[u] # "unused"
  /\ x.pc \in {"make", "dirs"} => row[x.u] # "unused"
  /\ x.pc = "drop" => row[x.u] = "deleted"

\* Which step goes with which state of the API server.
Phase(p, x) ==
  /\ p \in Requests => x.pc # "root" /\ (x.pc # "idle" => api = "up")
  /\ p = Api => /\ x.pc \in {"idle", "next", "make", "dirs", "root"}
                /\ x.pc # "idle" <=> api = "starting"
  /\ p \in Helpers => x.pc \in {"idle", "next", "make", "dirs"}

\* A request nobody overtook: if it counted the root users there is another one
\* than its own, and if not its user is root exactly when it was read as root.
Current(x) ==
  ~x.late /\ x.pc \in {"write", "tx"} =>
    IF Guarded(x.role, x.want) THEN \E v \in Users : row[v] = "root" /\ v # x.u
    ELSE row[x.u] = "root" <=> x.role = "root"

Proper(p, x) == ChangeKnown(x) /\ UserKnown(x) /\ Phase(p, x) /\ Current(x)
ProcessInv == \A p \in Ensurers : Proper(p, proc[p])

NamespaceInv ==
  /\ \A u \in Users : row[u] = "unused" => ns[u] = "none"
  /\ victim # Nobody => row[victim] = "deleted"

\* The start of the server: every user is done, in hand or still to do.
StartInv ==
  api = "starting" =>
    /\ \A u \in Users : Live(u) =>
         \/ ns[u] = "whole" \/ u \in proc[Api].todo
         \/ proc[Api].pc \in {"make", "dirs"} /\ u = proc[Api].u
    /\ proc[Api].pc = "root" => \A u \in Users : ~Live(u)

Inv == TypeOK /\ ProcessInv /\ NamespaceInv /\ StartInv /\ ServesOnlyWhole

-----------------------------------------------------------------------------
Busy == {"make", "dirs", "guard", "write", "tx", "drop"}

\* The two ways proc changes.
LEMMA BecomeEffect ==
  ASSUME TypeOK, NEW p \in Ensurers, NEW x \in Processes, x.pc \in Busy => x.u \in Users,
         Become(p, x)
  PROVE  /\ proc' \in [Ensurers -> Processes] /\ proc'[p] = x
         /\ \A q \in Ensurers \ {p} : proc'[q] = proc[q]
         /\ \A q \in Ensurers : proc'[q].pc \in Busy => proc'[q].u \in Users
BY DEF Become, TypeOK, Busy

\* What being overtaken changes in a process.
SameBut(x, y) ==
  /\ y.pc = x.pc /\ y.u = x.u /\ y.role = x.role /\ y.want = x.want /\ y.todo = x.todo
  /\ x.late => y.late

LEMMA OvertakeEffect ==
  ASSUME TypeOK, NEW p \in Ensurers, NEW x \in Processes, x.pc \in Busy => x.u \in Users,
         Overtake(p, x)
  PROVE  /\ proc' \in [Ensurers -> Processes] /\ proc'[p] = x
         /\ \A q \in Ensurers \ {p} :
              /\ SameBut(proc[q], proc'[q])
              /\ Roots' # Roots /\ proc'[q].pc \in {"write", "tx"} => proc'[q].late
         /\ \A q \in Ensurers : proc'[q].pc \in Busy => proc'[q].u \in Users
<1> DEFINE y(q) == [proc[q] EXCEPT !.late = @ \/ (Roots' # Roots /\ proc[q].pc \in {"write", "tx"})]
<1>1. ASSUME NEW q \in Ensurers
      PROVE  /\ y(q) \in Processes /\ SameBut(proc[q], y(q))
             /\ Roots' # Roots /\ y(q).pc \in {"write", "tx"} => y(q).late
  <2>1. proc[q] \in Processes
    BY DEF TypeOK
  <2>2. (proc[q].late \/ (Roots' # Roots /\ proc[q].pc \in {"write", "tx"})) \in BOOLEAN
    OBVIOUS
  <2> QED BY <2>1, <2>2 DEF Processes, SameBut
<1>2. proc' = [q \in Ensurers |-> IF q = p THEN x ELSE y(q)]
  BY DEF Overtake
<1> HIDE DEF y
<1>3. /\ proc'[p] = x /\ \A q \in Ensurers \ {p} : proc'[q] = y(q)
  BY <1>2
<1>4. \A q \in Ensurers : proc[q].pc \in Busy => proc[q].u \in Users
  BY DEF TypeOK, Busy
<1> QED BY <1>1, <1>2, <1>3, <1>4 DEF SameBut

\* A process that does not take the step stays proper.
LEMMA Kept ==
  ASSUME NEW q \in Ensurers, Proper(q, proc[q]), SameBut(proc[q], proc'[q]),
         proc[q] \in Processes, proc[q].pc \in Busy => proc[q].u \in Users,
         \A u \in Users : /\ row[u] # "unused" => row'[u] # "unused"
                          /\ row[u] = "deleted" => row'[u] = "deleted",
         api' = api \/ q \in Helpers \/ (q \in Requests /\ proc[q].pc = "idle"),
         Roots' = Roots \/ (proc'[q].pc \in {"write", "tx"} => proc'[q].late)
  PROVE  Proper(q, proc[q])'
<1>1. ChangeKnown(proc[q])'
  BY DEF Proper, ChangeKnown, SameBut, Guarded
<1>2. UserKnown(proc[q])'
  BY DEF Proper, UserKnown, SameBut, Processes, Busy
<1>3. Phase(q, proc[q])'
  BY AccountsAssumption DEF Proper, Phase, SameBut
<1>4. Current(proc[q])'
  <2>1. CASE Roots' = Roots
    <3>1. \A v \in Users : row'[v] = "root" <=> row[v] = "root"
      BY <2>1 DEF Roots
    <3>2. proc[q].pc \in {"write", "tx"} => proc[q].u \in Users
      BY DEF Busy
    <3> QED BY <3>1, <3>2 DEF Proper, Current, SameBut, Guarded
  <2>2. CASE proc'[q].pc \in {"write", "tx"} => proc'[q].late
    BY <2>2 DEF Current
  <2> QED BY <2>1, <2>2
<1> QED BY <1>1, <1>2, <1>3, <1>4 DEF Proper

\* A step that changes one process, and neither users nor the API server.
LEMMA OneProcess ==
  ASSUME Inv, NEW p \in Ensurers, NEW x \in Processes, x.pc \in Busy => x.u \in Users,
         Become(p, x), Proper(p, x), UNCHANGED <<row, api>>
  PROVE  /\ proc' \in [Ensurers -> Processes] /\ proc'[p] = x
         /\ \A q \in Ensurers \ {p} : proc'[q] = proc[q]
         /\ \A q \in Ensurers : proc'[q].pc \in Busy => proc'[q].u \in Users
         /\ ProcessInv'
<1>1. /\ proc' \in [Ensurers -> Processes] /\ proc'[p] = x
      /\ \A q \in Ensurers \ {p} : proc'[q] = proc[q]
      /\ \A q \in Ensurers : proc'[q].pc \in Busy => proc'[q].u \in Users
  BY BecomeEffect DEF Inv
<1>2. ASSUME NEW q \in Ensurers PROVE Proper(q, proc[q])'
  <2>1. CASE q = p
    BY <1>1, <2>1 DEF Proper, ChangeKnown, UserKnown, Phase, Current
  <2>2. CASE q # p
    BY <1>1, <2>2 DEF Inv, ProcessInv, Proper, ChangeKnown, UserKnown, Phase, Current
  <2> QED BY <2>1, <2>2
<1> QED BY <1>1, <1>2 DEF ProcessInv

\* Nothing but proc changes, and only process p, not in the start of the API server.
LEMMA OnlyProcess ==
  ASSUME Inv, NEW p \in Ensurers, NEW x \in Processes, x.pc \in Busy => x.u \in Users,
         Become(p, x), Proper(p, x), UNCHANGED <<row, ns, api, victim, young, calm>>,
         p # Api
  PROVE  Inv'
<1>1. /\ proc' \in [Ensurers -> Processes] /\ ProcessInv'
      /\ \A q \in Ensurers : proc'[q].pc \in Busy => proc'[q].u \in Users
      /\ proc'[Api] = proc[Api]
  BY OneProcess DEF Ensurers
<1>2. TypeOK'
  BY <1>1 DEF Inv, TypeOK, Busy
<1>3. NamespaceInv'
  BY DEF Inv, NamespaceInv
<1>4. StartInv'
  BY <1>1 DEF Inv, StartInv, Live
<1>5. ServesOnlyWhole'
  BY DEF Inv, ServesOnlyWhole, LiveUsers, Live
<1> QED BY <1>1, <1>2, <1>3, <1>4, <1>5 DEF Inv

-----------------------------------------------------------------------------
(* The steps that ensure namespaces.                                       *)

LEMMA GetNamespaceInv ==
  ASSUME Inv, NEW p \in Ensurers, NEW u \in Users, GetNamespace(p, u) PROVE Inv'
<1> DEFINE pc == IF ns[u] = "none" THEN "make" ELSE "dirs"
           x == [proc[p] EXCEPT !.pc = pc, !.u = u, !.todo = @ \ {u}]
<1>1. proc[p] \in Processes /\ Proper(p, proc[p]) /\ u \in proc[p].todo /\ proc[p].pc = "next"
  BY DEF Inv, TypeOK, ProcessInv, GetNamespace, At
<1>2. /\ x \in Processes /\ x.pc = pc /\ x.u = u /\ x.todo = proc[p].todo \ {u}
  BY <1>1 DEF Processes
<1>3. Become(p, x) /\ UNCHANGED <<row, ns, api, victim, young, calm>>
  BY DEF GetNamespace
<1>4. pc \in {"make", "dirs"}
  OBVIOUS
<1> HIDE DEF x, pc
<1>5. Proper(p, x)
  BY <1>1, <1>2, <1>4 DEF Proper, ChangeKnown, UserKnown, Phase, Current
<1>6. CASE p # Api
  BY <1>2, <1>3, <1>5, <1>6, OnlyProcess
<1>7. CASE p = Api
  <2>1. /\ proc' \in [Ensurers -> Processes] /\ ProcessInv' /\ proc'[Api] = x
        /\ \A q \in Ensurers : proc'[q].pc \in Busy => proc'[q].u \in Users
    BY <1>2, <1>3, <1>5, <1>7, OneProcess
  <2>2. TypeOK'
    BY <1>3, <2>1 DEF Inv, TypeOK, Busy
  <2>3. StartInv'
    BY <1>1, <1>2, <1>3, <1>4, <1>7, <2>1 DEF Inv, StartInv, Live
  <2>4. NamespaceInv' /\ ServesOnlyWhole'
    BY <1>3 DEF Inv, NamespaceInv, ServesOnlyWhole, LiveUsers, Live
  <2> QED BY <2>1, <2>2, <2>3, <2>4 DEF Inv
<1> QED BY <1>6, <1>7

LEMMA CreateNamespaceInv ==
  ASSUME Inv, NEW p \in Ensurers, CreateNamespace(p) PROVE Inv'
<1> DEFINE x == [proc[p] EXCEPT !.pc = "dirs"]
           u == proc[p].u
<1>1. /\ proc[p] \in Processes /\ Proper(p, proc[p]) /\ proc[p].pc = "make" /\ u \in Users
  BY DEF Inv, TypeOK, ProcessInv, CreateNamespace, At
<1>2. /\ x \in Processes /\ x.pc = "dirs" /\ x.u = u /\ x.todo = proc[p].todo
  BY <1>1 DEF Processes
<1>3. /\ Become(p, x) /\ UNCHANGED <<row, api, victim, young, calm>>
      /\ ns' = IF ns[u] = "none" THEN [ns EXCEPT ![u] = "bare"] ELSE ns
  BY DEF CreateNamespace, Goto
<1> HIDE DEF x
<1>4. Proper(p, x)
  BY <1>1, <1>2 DEF Proper, ChangeKnown, UserKnown, Phase, Current
<1>5. /\ proc' \in [Ensurers -> Processes] /\ ProcessInv' /\ proc'[p] = x
      /\ \A q \in Ensurers \ {p} : proc'[q] = proc[q]
      /\ \A q \in Ensurers : proc'[q].pc \in Busy => proc'[q].u \in Users
  BY <1>1, <1>2, <1>3, <1>4, OneProcess
<1>6. TypeOK'
  BY <1>3, <1>5 DEF Inv, TypeOK, Busy
<1>7. /\ \A v \in Users : v # u => ns'[v] = ns[v]
      /\ ns[u] # "none" => ns' = ns
  BY <1>3 DEF Inv, TypeOK
<1>8. NamespaceInv'
  BY <1>1, <1>3, <1>7 DEF Inv, NamespaceInv, Proper, UserKnown
<1>9. StartInv'
  BY <1>1, <1>2, <1>3, <1>5, <1>7 DEF Inv, StartInv, Live, Ensurers
<1>10. ServesOnlyWhole'
  BY <1>3, <1>7 DEF Inv, ServesOnlyWhole, LiveUsers, Live
<1> QED BY <1>5, <1>6, <1>8, <1>9, <1>10 DEF Inv

LEMMA EnsuringType ==
  ASSUME NEW todo \in SUBSET Users
  PROVE  /\ Ensuring(todo) \in Processes /\ Ensuring(todo).pc = "next"
         /\ Ensuring(todo).todo = todo
         /\ Idle \in Processes /\ Idle.pc = "idle" /\ Idle.todo = {}
BY DEF Ensuring, Idle, Processes

LEMMA EnsureDirectoriesInv ==
  ASSUME Inv, NEW p \in Ensurers, EnsureDirectories(p) PROVE Inv'
<1> DEFINE x == Ensuring(proc[p].todo)
           u == proc[p].u
<1>1. /\ proc[p] \in Processes /\ Proper(p, proc[p]) /\ proc[p].pc = "dirs" /\ u \in Users
      /\ proc[p].todo \in SUBSET Users
  BY DEF Inv, TypeOK, ProcessInv, EnsureDirectories, At, Processes
<1>2. x \in Processes /\ x.pc = "next" /\ x.todo = proc[p].todo
  BY <1>1, EnsuringType
<1>3. /\ Become(p, x) /\ UNCHANGED <<row, api, victim, young, calm>>
      /\ ns' = [ns EXCEPT ![u] = "whole"]
  BY DEF EnsureDirectories
<1> HIDE DEF x
<1>4. Proper(p, x)
  BY <1>1, <1>2 DEF Proper, ChangeKnown, UserKnown, Phase, Current
<1>5. /\ proc' \in [Ensurers -> Processes] /\ ProcessInv' /\ proc'[p] = x
      /\ \A q \in Ensurers \ {p} : proc'[q] = proc[q]
      /\ \A q \in Ensurers : proc'[q].pc \in Busy => proc'[q].u \in Users
  BY <1>2, <1>3, <1>4, OneProcess DEF Busy
<1>6. TypeOK'
  BY <1>3, <1>5 DEF Inv, TypeOK, Busy
<1>7. ns'[u] = "whole" /\ \A v \in Users : v # u => ns'[v] = ns[v]
  BY <1>1, <1>3 DEF Inv, TypeOK
<1>8. NamespaceInv'
  BY <1>1, <1>3, <1>7 DEF Inv, NamespaceInv, Proper, UserKnown
<1>9. StartInv'
  BY <1>1, <1>2, <1>3, <1>5, <1>7 DEF Inv, StartInv, Live, Ensurers
<1>10. ServesOnlyWhole'
  BY <1>3, <1>7 DEF Inv, ServesOnlyWhole, LiveUsers, Live
<1> QED BY <1>5, <1>6, <1>8, <1>9, <1>10 DEF Inv

\* An idle process is proper, as long as it is not the API server in its start.
LEMMA IdleProper ==
  ASSUME NEW p \in Ensurers, p = Api => api # "starting"
  PROVE  Idle \in Processes /\ Proper(p, Idle) /\ Idle.pc \notin Busy
BY EnsuringType
DEF Proper, ChangeKnown, UserKnown, Phase, Current, Idle, Guarded, Busy

LEMMA EnsureFailsInv ==
  ASSUME Inv, NEW p \in Ensurers, EnsureFails(p) PROVE Inv'
<1>1. Become(p, Idle) /\ UNCHANGED <<row, ns, victim, young, calm>>
  BY DEF EnsureFails
<1>2. CASE p # Api
  BY <1>1, <1>2, IdleProper, OnlyProcess DEF EnsureFails
<1>3. CASE p = Api
  <2>1. api = "starting" /\ api' = "down"
    BY <1>3 DEF EnsureFails, At, Inv, ProcessInv, Proper, Phase
  <2>2. /\ proc' \in [Ensurers -> Processes] /\ proc'[Api] = Idle
        /\ \A q \in Ensurers \ {Api} : proc'[q] = proc[q]
        /\ \A q \in Ensurers : proc'[q].pc \in Busy => proc'[q].u \in Users
    BY <1>1, <1>3, EnsuringType, BecomeEffect DEF Inv, Busy
  <2>3. ASSUME NEW q \in Ensurers \ {Api} PROVE Proper(q, proc[q])'
    <3>1. q \in Helpers \/ (q \in Requests /\ proc[q].pc = "idle")
      BY <2>1 DEF Inv, ProcessInv, Proper, Phase, Ensurers
    <3>2. Roots' = Roots
      BY <1>1 DEF Roots
    <3> QED BY <1>1, <2>2, <3>1, <3>2, Kept DEF Inv, TypeOK, ProcessInv, SameBut, Busy
  <2>4. Proper(Api, proc[Api])'
    BY <2>1, <2>2, AccountsAssumption
    DEF Proper, ChangeKnown, UserKnown, Phase, Current, Idle, Guarded
  <2>5. TypeOK'
    BY <1>1, <2>1, <2>2 DEF Inv, TypeOK, Busy
  <2>6. NamespaceInv' /\ StartInv' /\ ServesOnlyWhole'
    BY <1>1, <2>1 DEF Inv, NamespaceInv, StartInv, ServesOnlyWhole
  <2> QED BY <2>3, <2>4, <2>5, <2>6 DEF Inv, ProcessInv
<1> QED BY <1>2, <1>3

LEMMA EnsureStepInv ==
  ASSUME Inv, NEW p \in Ensurers, EnsureStep(p) PROVE Inv'
<1>1. ASSUME EnsureEnds(p) PROVE Inv'
  BY <1>1, IdleProper, OnlyProcess DEF EnsureEnds
<1> QED BY <1>1, GetNamespaceInv, CreateNamespaceInv, EnsureDirectoriesInv, EnsureFailsInv
        DEF EnsureStep

\* The users a process is about to ensure are users that are there.
LEMMA EnsuringProper ==
  ASSUME NEW p \in Ensurers, NEW todo \in SUBSET Users, \A u \in todo : row[u] # "unused",
         p = Api => api = "starting", p \in Requests => api = "up"
  PROVE  Ensuring(todo) \in Processes /\ Proper(p, Ensuring(todo))
BY EnsuringType
DEF Proper, ChangeKnown, UserKnown, Phase, Current, Ensuring, Idle, Guarded

LEMMA HelperInv ==
  ASSUME Inv, NEW p \in Helpers, StartService(p) \/ \E u \in Users : MountUser(p, u)
  PROVE  Inv'
<1>1. PICK todo \in SUBSET Users :
        /\ \A u \in todo : row[u] # "unused"
        /\ Become(p, Ensuring(todo)) /\ UNCHANGED <<row, ns, api, victim, young, calm>>
  <2> DEFINE Suits(todo) ==
        /\ \A u \in todo : row[u] # "unused"
        /\ Become(p, Ensuring(todo)) /\ UNCHANGED <<row, ns, api, victim, young, calm>>
  <2>1. ASSUME StartService(p) PROVE LiveUsers \in SUBSET Users /\ Suits(LiveUsers)
    BY <2>1 DEF StartService, LiveUsers, Live
  <2>2. ASSUME NEW u \in Users, MountUser(p, u)
        PROVE  {u} \in SUBSET Users /\ Suits({u})
    BY <2>2 DEF MountUser, Live
  <2> HIDE DEF Suits
  <2>3. \E todo \in SUBSET Users : Suits(todo)
    BY <2>1, <2>2
  <2> QED BY <2>3 DEF Suits
<1>2. p \in Ensurers /\ p # Api /\ p \notin Requests
  BY AccountsAssumption DEF Ensurers
<1>3. Ensuring(todo) \in Processes /\ Proper(p, Ensuring(todo)) /\ Ensuring(todo).pc \notin Busy
  BY <1>1, <1>2, EnsuringProper, EnsuringType DEF Busy
<1> QED BY <1>1, <1>2, <1>3, OnlyProcess

-----------------------------------------------------------------------------
(* The API server.                                                         *)

\* While the server is not up, no request is in progress.
LEMMA NoRequest ==
  ASSUME Inv, api # "up", NEW q \in Ensurers \ {Api}
  PROVE  q \in Helpers \/ (q \in Requests /\ proc[q].pc = "idle")
BY DEF Inv, ProcessInv, Proper, Phase, Ensurers

\* A step of the server that does not change users leaves the others proper.
LEMMA ApiEffect ==
  ASSUME Inv, NEW x \in Processes, x.pc \in Busy => x.u \in Users, Become(Api, x),
         UNCHANGED row, api # "up", Proper(Api, x)'
  PROVE  /\ proc' \in [Ensurers -> Processes] /\ proc'[Api] = x /\ ProcessInv'
         /\ \A q \in Ensurers : proc'[q].pc \in Busy => proc'[q].u \in Users
<1>1. /\ proc' \in [Ensurers -> Processes] /\ proc'[Api] = x
      /\ \A q \in Ensurers \ {Api} : proc'[q] = proc[q]
      /\ \A q \in Ensurers : proc'[q].pc \in Busy => proc'[q].u \in Users
  BY BecomeEffect DEF Inv, Ensurers
<1>2. ASSUME NEW q \in Ensurers \ {Api} PROVE Proper(q, proc[q])'
  <2>1. Proper(q, proc[q]) /\ proc[q] \in Processes
        /\ (proc[q].pc \in Busy => proc[q].u \in Users)
    BY DEF Inv, TypeOK, ProcessInv, Busy
  <2>2. Roots' = Roots
    BY DEF Roots
  <2> QED BY <1>1, <2>1, <2>2, NoRequest, Kept DEF SameBut
<1>3. Proper(Api, proc[Api])'
  BY <1>1 DEF Proper, ChangeKnown, UserKnown, Phase, Current
<1> QED BY <1>1, <1>2, <1>3 DEF ProcessInv

LEMMA StartApiInv == ASSUME Inv, StartApi PROVE Inv'
<1>2. LiveUsers \in SUBSET Users /\ \A u \in LiveUsers : row[u] # "unused"
  BY DEF LiveUsers, Live
<1>3. PICK x \in Processes : x = Ensuring(LiveUsers) /\ x.pc = "next" /\ x.todo = LiveUsers
  BY <1>2, EnsuringType
<1>1. /\ api = "down" /\ api' = "starting" /\ Become(Api, x)
      /\ UNCHANGED <<row, ns, victim, young, calm>>
  BY <1>3 DEF StartApi
<1>4. x.pc # "idle" /\ Api \notin Requests /\ Api \notin Helpers
  BY <1>3, AccountsAssumption
<1>5. Proper(Api, x)'
  BY <1>1, <1>2, <1>3, <1>4 DEF Proper, ChangeKnown, UserKnown, Phase, Current
<1>6. /\ proc' \in [Ensurers -> Processes] /\ proc'[Api] = x /\ ProcessInv'
      /\ \A q \in Ensurers : proc'[q].pc \in Busy => proc'[q].u \in Users
  BY <1>1, <1>3, <1>5, ApiEffect DEF Busy
<1>7. TypeOK'
  BY <1>1, <1>6 DEF Inv, TypeOK, Busy
<1>8. StartInv'
  BY <1>1, <1>3, <1>6 DEF StartInv, LiveUsers, Live
<1>9. NamespaceInv' /\ ServesOnlyWhole'
  BY <1>1 DEF Inv, NamespaceInv, ServesOnlyWhole
<1> QED BY <1>6, <1>7, <1>8, <1>9 DEF Inv

LEMMA CountUsersInv == ASSUME Inv, CountUsers PROVE Inv'
<1>1. /\ Api \in Ensurers /\ Api \notin Requests /\ Api \notin Helpers
  BY AccountsAssumption DEF Ensurers
<1>2. /\ proc[Api] \in Processes /\ Proper(Api, proc[Api]) /\ proc[Api].pc = "next"
      /\ proc[Api].todo = {} /\ api = "starting"
  BY <1>1 DEF CountUsers, At, Inv, TypeOK, ProcessInv, Proper, Phase
<1>3. UNCHANGED <<row, ns, victim, young, calm>>
  BY DEF CountUsers
<1>4. CASE LiveUsers = {} /\ Unused # {} /\ Goto(Api, "root") /\ UNCHANGED api
  <2>1. PICK x \in Processes : /\ x = [proc[Api] EXCEPT !.pc = "root"]
                              /\ x.pc = "root" /\ x.todo = {}
    <3> DEFINE y == [proc[Api] EXCEPT !.pc = "root"]
    <3>1. y \in Processes /\ y.pc = "root" /\ y.todo = {}
      BY <1>2 DEF Processes
    <3> QED BY <3>1
  <2>2. Become(Api, x)
    BY <1>4, <2>1 DEF Goto
  <2>3. Proper(Api, x)'
    BY <1>1, <1>2, <1>4, <2>1 DEF Proper, ChangeKnown, UserKnown, Phase, Current
  <2>4. /\ proc' \in [Ensurers -> Processes] /\ proc'[Api] = x /\ ProcessInv'
        /\ \A q \in Ensurers : proc'[q].pc \in Busy => proc'[q].u \in Users
    BY <1>2, <1>3, <2>1, <2>2, <2>3, ApiEffect DEF Busy
  <2>5. TypeOK'
    BY <1>3, <1>4, <2>4 DEF Inv, TypeOK, Busy
  <2>6. StartInv'
    BY <1>3, <1>4, <2>4 DEF StartInv, LiveUsers, Live
  <2>7. NamespaceInv' /\ ServesOnlyWhole'
    BY <1>3, <1>4 DEF Inv, NamespaceInv, ServesOnlyWhole, LiveUsers, Live
  <2> QED BY <2>4, <2>5, <2>6, <2>7 DEF Inv
<1>5. CASE Become(Api, Idle) /\ api' = "up"
  <2>1. Idle \in Processes /\ Idle.pc = "idle" /\ Idle.todo = {}
    BY EnsuringType
  <2>2. Proper(Api, Idle)'
    BY <1>1, <1>5, <2>1 DEF Proper, ChangeKnown, UserKnown, Phase, Current
  <2>3. /\ proc' \in [Ensurers -> Processes] /\ ProcessInv'
        /\ \A q \in Ensurers : proc'[q].pc \in Busy => proc'[q].u \in Users
    BY <1>2, <1>3, <1>5, <2>1, <2>2, ApiEffect DEF Busy
  <2>4. TypeOK'
    BY <1>3, <1>5, <2>3 DEF Inv, TypeOK, Busy
  <2>5. NamespaceInv' /\ StartInv'
    BY <1>3, <1>5 DEF Inv, NamespaceInv, StartInv
  <2>6. ServesOnlyWhole'
    BY <1>2, <1>3 DEF Inv, StartInv, ServesOnlyWhole, LiveUsers, Live
  <2> QED BY <2>3, <2>4, <2>5, <2>6 DEF Inv
<1> QED BY <1>4, <1>5 DEF CountUsers

\* One user becomes a user that was not there before.
LEMMA CreateRootInv == ASSUME Inv, CreateRoot PROVE Inv'
<1>1. Api \in Ensurers /\ Api \notin Requests /\ Api \notin Helpers
  BY AccountsAssumption DEF Ensurers
<1>2. /\ proc[Api].pc = "root" /\ api = "starting" /\ \A v \in Users : ~Live(v)
  BY <1>1 DEF CreateRoot, At, Inv, ProcessInv, Proper, Phase, StartInv
<1>3. PICK u \in Unused : row' = [row EXCEPT ![u] = "root"] /\ Become(Api, Ensuring({u}))
  BY DEF CreateRoot
<1>4. UNCHANGED <<ns, api, victim, young, calm>>
  BY DEF CreateRoot
<1>5. /\ u \in Users /\ row[u] = "unused" /\ row'[u] = "root"
      /\ \A v \in Users : v # u => row'[v] = row[v]
  BY <1>3 DEF Unused, Inv, TypeOK
<1>6. /\ Ensuring({u}) \in Processes /\ Ensuring({u}).pc = "next"
      /\ Ensuring({u}).todo = {u}
  BY <1>5, EnsuringType
<1>7. /\ proc' \in [Ensurers -> Processes] /\ proc'[Api] = Ensuring({u})
      /\ \A q \in Ensurers \ {Api} : proc'[q] = proc[q]
      /\ \A q \in Ensurers : proc'[q].pc \in Busy => proc'[q].u \in Users
  BY <1>1, <1>3, <1>6, BecomeEffect DEF Inv, Busy
<1>8. ASSUME NEW q \in Ensurers \ {Api} PROVE Proper(q, proc[q])'
  <2>1. /\ Proper(q, proc[q]) /\ proc[q] \in Processes
        /\ proc[q].pc \in Busy => proc[q].u \in Users
    BY DEF Inv, TypeOK, ProcessInv, Busy
  <2>2. proc'[q].pc \notin {"guard", "write", "tx"}
    BY <1>2, <1>7, <2>1, NoRequest DEF Proper, Phase
  <2> QED BY <1>4, <1>5, <1>7, <2>1, <2>2, Kept DEF SameBut
<1>9. Proper(Api, proc[Api])'
  BY <1>1, <1>2, <1>4, <1>5, <1>6, <1>7
  DEF Proper, ChangeKnown, UserKnown, Phase, Current
<1>10. TypeOK'
  BY <1>3, <1>4, <1>5, <1>7 DEF Inv, TypeOK, Busy
<1>11. NamespaceInv' /\ StartInv' /\ ServesOnlyWhole'
  BY <1>2, <1>4, <1>5, <1>6, <1>7
  DEF Inv, TypeOK, NamespaceInv, StartInv, ServesOnlyWhole, Live
<1> QED BY <1>8, <1>9, <1>10, <1>11 DEF Inv, ProcessInv

LEMMA StopApiInv == ASSUME Inv, StopApi PROVE Inv'
<1>1. /\ api' = "down" /\ victim' = Nobody /\ young' = {}
      /\ proc' = [p \in Ensurers |-> IF p \in Helpers THEN proc[p] ELSE Idle]
      /\ UNCHANGED <<row, ns, calm>>
  BY DEF StopApi
<1>2. Idle \in Processes /\ Idle.pc = "idle" /\ Idle.todo = {}
  BY EnsuringType
<1>3. TypeOK'
  BY <1>1, <1>2 DEF Inv, TypeOK
<1>4. ASSUME NEW q \in Ensurers PROVE Proper(q, proc[q])'
  <2>1. CASE q \in Helpers
    <3>1. proc'[q] = proc[q] /\ Proper(q, proc[q]) /\ q # Api /\ q \notin Requests
      BY <1>1, <2>1, AccountsAssumption DEF Inv, ProcessInv, Ensurers
    <3> QED BY <1>1, <3>1 DEF Proper, ChangeKnown, UserKnown, Phase, Current
  <2>2. CASE q \notin Helpers
    <3>1. proc'[q] = Idle
      BY <1>1, <2>2
    <3> QED BY <1>1, <1>2, <2>2, <3>1
            DEF Proper, ChangeKnown, UserKnown, Phase, Current
  <2> QED BY <2>1, <2>2
<1>5. NamespaceInv' /\ StartInv' /\ ServesOnlyWhole'
  BY <1>1 DEF Inv, NamespaceInv, StartInv, ServesOnlyWhole
<1> QED BY <1>3, <1>4, <1>5 DEF Inv, ProcessInv

-----------------------------------------------------------------------------
(* The requests.                                                           *)

LEMMA ReadUserInv ==
  ASSUME Inv, NEW r \in Requests, NEW u \in Users, NEW want \in {"none", "user", "root", "gone"},
         ReadUser(r, u, want)
  PROVE  Inv'
<1> DEFINE pc == IF Guarded(row[u], want) THEN "guard" ELSE Acting(want)
           x == [Idle EXCEPT !.u = u, !.want = want, !.role = row[u], !.pc = pc]
<1>1. r \in Ensurers /\ r # Api /\ r \notin Helpers /\ api = "up"
  BY AccountsAssumption DEF Ensurers, ReadUser, Accepted
<1>2. row[u] \in {"user", "root"} /\ Become(r, x)
  BY DEF ReadUser, Live
<1>3. pc \in {"guard", "write", "tx"}
  BY DEF Acting
<1>4. /\ x \in Processes /\ x.pc = pc /\ x.u = u /\ x.role = row[u] /\ x.want = want /\ x.todo = {}
  BY <1>2, <1>3 DEF Processes, Idle
<1>5. /\ pc = "guard" => Guarded(row[u], want)
      /\ pc = "write" => want # "gone" /\ ~Guarded(row[u], want)
      /\ pc = "tx" => want = "gone" /\ ~Guarded(row[u], want)
  BY DEF Acting
<1> HIDE DEF x, pc
<1>6. Proper(r, x)
  BY <1>1, <1>2, <1>3, <1>4, <1>5 DEF Proper, ChangeKnown, UserKnown, Phase, Current
<1> QED BY <1>1, <1>2, <1>4, <1>6, OnlyProcess DEF ReadUser

\* More than one root user: another one than u.
LEMMA AnotherRoot ==
  ASSUME ~(Cardinality(Roots) <= 1), NEW u
  PROVE  \E v \in Users : row[v] = "root" /\ v # u
<1>1. SUFFICES ASSUME Roots \subseteq {u} PROVE FALSE
  BY DEF Roots
<1>2. Roots = {} \/ Roots = {u}
  BY <1>1
<1>3. Cardinality({}) = 0 /\ Cardinality({u}) = 1
  BY FS_EmptySet, FS_Singleton
<1> QED BY <1>2, <1>3

LEMMA GuardLastRootInv == ASSUME Inv, NEW r \in Requests, GuardLastRoot(r) PROVE Inv'
<1> DEFINE x == [proc[r] EXCEPT !.pc = Acting(proc[r].want)]
<1>1. r \in Ensurers /\ r # Api /\ r \notin Helpers
  BY AccountsAssumption DEF Ensurers
<1>2. /\ proc[r] \in Processes /\ Proper(r, proc[r]) /\ proc[r].pc = "guard"
      /\ proc[r].u \in Users
  BY <1>1 DEF Inv, TypeOK, ProcessInv, GuardLastRoot, At
<1>3. CASE ~(Cardinality(Roots) <= 1) /\ Become(r, x)
  <2>1. /\ x \in Processes /\ x.pc = Acting(proc[r].want) /\ x.u = proc[r].u
        /\ x.role = proc[r].role /\ x.want = proc[r].want /\ x.todo = proc[r].todo
        /\ x.late = proc[r].late
    BY <1>2 DEF Processes, Acting
  <2>2. x.pc \in {"write", "tx"} /\ (x.pc = "tx" <=> x.want = "gone")
    BY <2>1 DEF Acting
  <2> HIDE DEF x
  <2>3. \E v \in Users : row[v] = "root" /\ v # x.u
    BY <1>3, AnotherRoot
  <2>4. Proper(r, x)
    BY <1>1, <1>2, <2>1, <2>2, <2>3
    DEF Proper, ChangeKnown, UserKnown, Phase, Current, Guarded
  <2> QED BY <1>1, <1>2, <1>3, <2>1, <2>4, OnlyProcess DEF GuardLastRoot
<1>4. CASE Become(r, Idle)
  BY <1>1, <1>4, IdleProper, OnlyProcess DEF GuardLastRoot
<1> QED BY <1>3, <1>4 DEF GuardLastRoot

\* A request that is in progress, and the server that serves it.
LEMMA InProgress ==
  ASSUME Inv, NEW r \in Requests, proc[r].pc # "idle"
  PROVE  /\ r \in Ensurers /\ r # Api /\ r \notin Helpers /\ api = "up"
         /\ proc[r] \in Processes /\ Proper(r, proc[r])
         /\ proc[r].pc \in Busy => proc[r].u \in Users
BY AccountsAssumption DEF Ensurers, Inv, TypeOK, ProcessInv, Proper, Phase, Busy

\* A step that changes users overtakes every other request.
LEMMA UsersChange ==
  ASSUME Inv, NEW r \in Requests, api = "up", NEW x \in Processes,
         x.pc \in Busy => x.u \in Users, Overtake(r, x), Proper(r, x)',
         \A u \in Users : /\ row[u] # "unused" => row'[u] # "unused"
                          /\ row[u] = "deleted" => row'[u] = "deleted",
         row' \in [Users -> {"unused", "user", "root", "deleted"}],
         \A u \in Users : row'[u] = "unused" => row[u] = "unused",
         \A u \in Users : row'[u] \in {"user", "root"} => Live(u) \/ u \in young',
         young \ {u \in Users : row'[u] = "deleted"} \subseteq young', young' \subseteq Users,
         UNCHANGED <<ns, api, victim, calm>>
  PROVE  Inv'
<1>1. r \in Ensurers /\ r # Api /\ r \notin Helpers
  BY AccountsAssumption DEF Ensurers
<1>2. /\ proc' \in [Ensurers -> Processes] /\ proc'[r] = x
      /\ \A q \in Ensurers \ {r} :
           /\ SameBut(proc[q], proc'[q])
           /\ Roots' # Roots /\ proc'[q].pc \in {"write", "tx"} => proc'[q].late
      /\ \A q \in Ensurers : proc'[q].pc \in Busy => proc'[q].u \in Users
  BY <1>1, OvertakeEffect DEF Inv
<1>3. ASSUME NEW q \in Ensurers \ {r} PROVE Proper(q, proc[q])'
  <2>1. /\ Proper(q, proc[q]) /\ proc[q] \in Processes
        /\ proc[q].pc \in Busy => proc[q].u \in Users
    BY DEF Inv, TypeOK, ProcessInv, Busy
  <2> QED BY <1>2, <2>1, Kept
<1>4. Proper(r, proc[r])'
  BY <1>2 DEF Proper, ChangeKnown, UserKnown, Phase, Current
<1>5. TypeOK'
  BY <1>2 DEF Inv, TypeOK, Busy
<1>6. NamespaceInv'
  BY DEF Inv, TypeOK, NamespaceInv
<1>7. StartInv' /\ ServesOnlyWhole'
  BY <1>1 DEF Inv, StartInv, ServesOnlyWhole, LiveUsers, Live
<1> QED BY <1>3, <1>4, <1>5, <1>6, <1>7 DEF Inv, ProcessInv

LEMMA CreateUserInv ==
  ASSUME Inv, NEW r \in Requests, NEW role \in {"user", "root"}, CreateUser(r, role) PROVE Inv'
<1>1. api = "up" /\ UNCHANGED <<ns, api, victim, calm>>
  BY DEF CreateUser, Accepted
<1>2. r \in Ensurers /\ r # Api /\ r \notin Helpers
  BY AccountsAssumption DEF Ensurers
<1>3. PICK u \in Unused : /\ row' = [row EXCEPT ![u] = role]
                          /\ young' = young \cup {u} /\ Overtake(r, Ensuring({u}))
  BY DEF CreateUser
<1>4. /\ u \in Users /\ row[u] = "unused" /\ row'[u] \in {"user", "root"}
      /\ \A v \in Users : v # u => row'[v] = row[v]
      /\ row' \in [Users -> {"unused", "user", "root", "deleted"}]
  BY <1>2, <1>3 DEF Unused, Inv, TypeOK
<1>5. PICK x \in Processes : x = Ensuring({u}) /\ x.pc = "next" /\ x.todo = {u}
  BY <1>4, EnsuringType
<1>6. Proper(r, x)'
  BY <1>1, <1>2, <1>4, <1>5 DEF Proper, ChangeKnown, UserKnown, Phase, Current
<1>7. young' \subseteq Users /\ young \subseteq young'
  BY <1>3, <1>4 DEF Inv, TypeOK
<1>8. /\ \A v \in Users : /\ row[v] # "unused" => row'[v] # "unused"
                          /\ row[v] = "deleted" => row'[v] = "deleted"
                          /\ row'[v] = "unused" => row[v] = "unused"
                          /\ row'[v] \in {"user", "root"} => Live(v) \/ v \in young'
  BY <1>3, <1>4 DEF Live
<1> QED BY <1>1, <1>3, <1>4, <1>5, <1>6, <1>7, <1>8, UsersChange DEF Busy

LEMMA UpdateRoleInv == ASSUME Inv, NEW r \in Requests, UpdateRole(r) PROVE Inv'
<1> DEFINE u == proc[r].u
           role == IF proc[r].want = "none" THEN proc[r].role ELSE proc[r].want
<1>1. proc[r].pc = "write" /\ UNCHANGED <<ns, api, victim, young, calm>>
      /\ row' = IF Live(u) THEN [row EXCEPT ![u] = role] ELSE row
  BY DEF UpdateRole, At
<1>2. /\ r \in Ensurers /\ r # Api /\ r \notin Helpers /\ api = "up" /\ u \in Users
      /\ role \in {"user", "root"}
  BY <1>1, InProgress DEF Proper, ChangeKnown, Processes, Busy
<1>3. CASE row' = row /\ Become(r, Idle)
  BY <1>1, <1>2, <1>3, IdleProper, OnlyProcess
<1>4. CASE Overtake(r, Idle)
  <2>1. /\ \A v \in Users : /\ row[v] # "unused" => row'[v] # "unused"
                            /\ row[v] = "deleted" => row'[v] = "deleted"
                            /\ row'[v] = "unused" => row[v] = "unused"
                            /\ row'[v] \in {"user", "root"} => Live(v)
        /\ row' \in [Users -> {"unused", "user", "root", "deleted"}]
    BY <1>1, <1>2 DEF Inv, TypeOK, Live
  <2>2. Idle \in Processes /\ Idle.pc = "idle" /\ Idle.todo = {}
    BY EnsuringType
  <2>3. Proper(r, Idle)'
    BY <1>2, <2>2 DEF Proper, ChangeKnown, UserKnown, Phase, Current
  <2>4. young' \subseteq Users
    BY <1>1 DEF Inv, TypeOK
  <2> QED BY <1>1, <1>2, <1>4, <2>1, <2>2, <2>3, <2>4, UsersChange DEF Busy
<1> QED BY <1>3, <1>4 DEF UpdateRole

LEMMA DeleteUserInv ==
  ASSUME Inv, NEW r \in Requests, DeleteUserAndRelatedData(r) PROVE Inv'
<1> DEFINE u == proc[r].u
<1>1. /\ proc[r].pc = "tx" /\ UNCHANGED <<ns, api, victim, calm>>
      /\ row' = [row EXCEPT ![u] = "deleted"] /\ young' = young \ {u}
      /\ Overtake(r, [Idle EXCEPT !.pc = "drop", !.u = u])
  BY DEF DeleteUserAndRelatedData, At
<1>2. /\ r \in Ensurers /\ r # Api /\ r \notin Helpers /\ api = "up" /\ u \in Users
  BY <1>1, InProgress DEF Busy
<1>3. PICK x \in Processes : /\ x = [Idle EXCEPT !.pc = "drop", !.u = u]
                             /\ x.pc = "drop" /\ x.u = u /\ x.todo = {}
  <2> DEFINE y == [Idle EXCEPT !.pc = "drop", !.u = u]
  <2>1. y \in Processes /\ y.pc = "drop" /\ y.u = u /\ y.todo = {}
    BY <1>2 DEF Processes, Idle
  <2> QED BY <2>1
<1>4. /\ row'[u] = "deleted" /\ \A v \in Users : v # u => row'[v] = row[v]
      /\ row' \in [Users -> {"unused", "user", "root", "deleted"}]
  BY <1>1, <1>2 DEF Inv, TypeOK
<1>5. Proper(r, x)'
  BY <1>1, <1>2, <1>3, <1>4 DEF Proper, ChangeKnown, UserKnown, Phase, Current
<1>6. young' \subseteq Users /\ young \ {v \in Users : row'[v] = "deleted"} \subseteq young'
  BY <1>1, <1>2, <1>4 DEF Inv, TypeOK
<1>7. \A v \in Users : /\ row[v] # "unused" => row'[v] # "unused"
                       /\ row[v] = "deleted" => row'[v] = "deleted"
                       /\ row'[v] = "unused" => row[v] = "unused"
                       /\ row'[v] \in {"user", "root"} => Live(v)
  BY <1>4 DEF Live
<1> QED BY <1>1, <1>2, <1>3, <1>4, <1>5, <1>6, <1>7, UsersChange DEF Busy

LEMMA DeleteNamespaceInv ==
  ASSUME Inv, NEW r \in Requests, DeleteNamespace(r) PROVE Inv'
<1> DEFINE u == proc[r].u
<1>1. /\ proc[r].pc = "drop" /\ Become(r, Idle) /\ ns' = [ns EXCEPT ![u] = "none"]
      /\ UNCHANGED <<row, api, victim, young, calm>>
  BY DEF DeleteNamespace, At
<1>2. r \in Ensurers /\ r # Api /\ api = "up" /\ u \in Users /\ row[u] = "deleted"
  BY <1>1, InProgress DEF Proper, UserKnown, Busy
<1>3. /\ proc' \in [Ensurers -> Processes] /\ ProcessInv'
      /\ \A q \in Ensurers : proc'[q].pc \in Busy => proc'[q].u \in Users
  BY <1>1, <1>2, IdleProper, OneProcess
<1>4. /\ ns'[u] = "none" /\ \A v \in Users : v # u => ns'[v] = ns[v]
      /\ ns' \in [Users -> {"none", "bare", "whole"}]
  BY <1>1, <1>2 DEF Inv, TypeOK
<1>5. TypeOK' /\ NamespaceInv'
  BY <1>1, <1>3, <1>4 DEF Inv, TypeOK, NamespaceInv, Busy
<1>6. StartInv' /\ ServesOnlyWhole'
  BY <1>1, <1>2, <1>4 DEF Inv, StartInv, ServesOnlyWhole, LiveUsers, Live
<1> QED BY <1>3, <1>5, <1>6 DEF Inv

LEMMA AskedInv == ASSUME Inv, NEW r \in Requests, Asked(r) PROVE Inv'
BY CreateUserInv, ReadUserInv DEF Asked, UpdateUser, DeleteUser

LEMMA RequestInv ==
  ASSUME Inv, NEW r \in Requests, RequestStep(r) \/ RequestFails(r) PROVE Inv'
<1>1. ASSUME RequestFails(r) PROVE Inv'
  <2>1. r \in Ensurers /\ r # Api
    BY AccountsAssumption DEF Ensurers
  <2> QED BY <1>1, <2>1, IdleProper, OnlyProcess DEF RequestFails
<1> QED BY <1>1, GuardLastRootInv, UpdateRoleInv, DeleteUserInv,
           DeleteNamespaceInv
        DEF RequestStep

-----------------------------------------------------------------------------
(* The reclaimer, and the steps that change nothing that matters.          *)

LEMMA RestKept ==
  ASSUME Inv, UNCHANGED <<row, api, proc, young>>, calm' \in BOOLEAN,
         victim' \in Users \cup {Nobody}, victim' # Nobody => row[victim'] = "deleted",
         ns' \in [Users -> {"none", "bare", "whole"}],
         \A u \in Users : ns'[u] = ns[u] \/ (ns'[u] = "none" /\ row[u] = "deleted")
  PROVE  Inv'
<1>1. TypeOK' /\ NamespaceInv'
  BY DEF Inv, TypeOK, NamespaceInv
<1>2. ProcessInv'
  BY DEF Inv, ProcessInv, Proper, ChangeKnown, UserKnown, Phase, Current
<1>3. StartInv' /\ ServesOnlyWhole'
  BY DEF Inv, StartInv, ServesOnlyWhole, LiveUsers, Live
<1> QED BY <1>1, <1>2, <1>3 DEF Inv

LEMMA ReclaimInv == ASSUME Inv, ReclaimStep PROVE Inv'
<1>1. ASSUME NEW u \in Users, LookUpOwner(u) PROVE Inv'
  <2>1. row[u] = "deleted"
    BY <1>1 DEF LookUpOwner, Live, Inv, TypeOK, NamespaceInv
  <2> QED BY <1>1, <2>1, RestKept DEF LookUpOwner, Inv, TypeOK
<1>2. ASSUME DeleteOrphan PROVE Inv'
  <2>1. victim \in Users /\ row[victim] = "deleted" /\ victim' = Nobody
        /\ UNCHANGED <<row, api, proc, young, calm>>
    BY <1>2 DEF DeleteOrphan, Inv, TypeOK, NamespaceInv
  <2>2. /\ ns' \in [Users -> {"none", "bare", "whole"}]
        /\ \A u \in Users : ns'[u] = ns[u] \/ (ns'[u] = "none" /\ row[u] = "deleted")
    BY <1>2, <2>1 DEF DeleteOrphan, Inv, TypeOK
  <2> QED BY <2>1, <2>2, RestKept DEF Inv, TypeOK
<1> QED BY <1>1, <1>2 DEF ReclaimStep

LEMMA NextInv == ASSUME Inv, Next \/ FaultsEnd \/ UNCHANGED vars PROVE Inv'
<1>1. ASSUME StopApi \/ ApiStep PROVE Inv'
  BY <1>1, StartApiInv, CountUsersInv, CreateRootInv, StopApiInv DEF ApiStep
<1>2. ASSUME NEW r \in Requests, Asked(r) \/ RequestStep(r) \/ RequestFails(r) PROVE Inv'
  BY <1>2, AskedInv, RequestInv
<1>3. ASSUME UNCHANGED <<row, ns, api, proc, victim, young>>, calm' \in BOOLEAN PROVE Inv'
  BY <1>3, RestKept DEF Inv, TypeOK, NamespaceInv
<1>4. FaultsEnd \/ UNCHANGED vars =>
        UNCHANGED <<row, ns, api, proc, victim, young>> /\ calm' \in BOOLEAN
  BY DEF FaultsEnd, vars, Inv, TypeOK
<1> QED BY <1>1, <1>2, <1>3, <1>4, EnsureStepInv, HelperInv, ReclaimInv DEF Next

LEMMA InitInv == Init => Inv
<1>1. SUFFICES ASSUME Init PROVE Inv
  OBVIOUS
<1>2. \A p \in Ensurers : proc[p] = Idle
  BY <1>1 DEF Init
<1>3. TypeOK
  BY <1>1, EnsuringType DEF Init, TypeOK, Idle
<1>4. ProcessInv
  BY <1>1, <1>2, IdleProper DEF Init, ProcessInv
<1>5. NamespaceInv /\ StartInv /\ ServesOnlyWhole
  BY <1>1 DEF Init, NamespaceInv, StartInv, ServesOnlyWhole
<1> QED BY <1>3, <1>4, <1>5 DEF Inv

-----------------------------------------------------------------------------
(* What a step may not do.                                                 *)

\* A namespace is taken away only from a user that is gone: by the deletion of
\* that user, or by the reclaimer, whose decision no creation can overtake.
LEMMA StepKeepsNamespace ==
  ASSUME Inv, Next \/ FaultsEnd, NEW u \in LiveUsers, ns[u] # "none"
  PROVE  ns'[u] # "none" /\ (ns[u] = "whole" => ns'[u] = "whole")
<1>1. u \in Users /\ row[u] \in {"user", "root"} /\ ns \in [Users -> {"none", "bare", "whole"}]
  BY DEF LiveUsers, Live, Inv, TypeOK
<1>2. ASSUME NEW p \in Ensurers, EnsureStep(p)
      PROVE  ns' = ns \/ ns' = [ns EXCEPT ![proc[p].u] = "whole"]
             \/ (ns' = [ns EXCEPT ![proc[p].u] = "bare"] /\ ns[proc[p].u] = "none")
  BY <1>2 DEF EnsureStep, GetNamespace, CreateNamespace, EnsureDirectories, EnsureFails,
              EnsureEnds
<1>3. ASSUME NEW r \in Requests, DeleteNamespace(r)
      PROVE  proc[r].u # u /\ ns' = [ns EXCEPT ![proc[r].u] = "none"]
  <2>1. proc[r].pc = "drop" /\ ns' = [ns EXCEPT ![proc[r].u] = "none"]
    BY <1>3 DEF DeleteNamespace, At
  <2>2. row[proc[r].u] = "deleted"
    BY <2>1, InProgress DEF Proper, UserKnown
  <2> QED BY <1>1, <2>1, <2>2
<1>4. ASSUME DeleteOrphan PROVE victim # u /\ (ns' = ns \/ ns' = [ns EXCEPT ![victim] = "none"])
  BY <1>1, <1>4 DEF DeleteOrphan, Inv, NamespaceInv
<1>5. \/ ns' = ns \/ \E p \in Ensurers : EnsureStep(p)
      \/ (\E r \in Requests : DeleteNamespace(r)) \/ DeleteOrphan
  BY DEF Next, FaultsEnd, Asked, RequestStep, RequestFails, StartService, MountUser, ApiStep,
         StopApi, ReclaimStep, CreateUser, UpdateUser, DeleteUser, ReadUser,
         GuardLastRoot, UpdateRole, DeleteUserAndRelatedData, StartApi, CountUsers, CreateRoot,
         LookUpOwner
<1> QED BY <1>1, <1>2, <1>3, <1>4, <1>5

\* A request in time has seen another root user, and nobody has changed users since.
LEMMA LastRootKept ==
  ASSUME Inv, Next \/ FaultsEnd, Roots # {}, Roots' = {}
  PROVE  \E r \in Requests : /\ proc[r].pc \in {"write", "tx"} /\ proc[r].late
                             /\ proc'[r].pc # proc[r].pc
<1>1. row \in [Users -> {"unused", "user", "root", "deleted"}] /\ row' # row
  BY DEF Inv, TypeOK, Roots
<1>2. PICK v \in Users : row[v] = "root"
  BY DEF Roots
<1>3. \A w \in Users : row'[w] # "root"
  BY DEF Roots
<1>4. ~CreateRoot
  BY <1>1, <1>3 DEF CreateRoot, Unused
<1>5. ASSUME NEW r \in Requests, NEW role PROVE ~CreateUser(r, role)
  BY <1>1, <1>2, <1>3 DEF CreateUser, Unused
<1>6. PICK r \in Requests : UpdateRole(r) \/ DeleteUserAndRelatedData(r)
  BY <1>1, <1>4, <1>5
  DEF Next, FaultsEnd, Asked, RequestStep, RequestFails, StartService, MountUser, ApiStep,
      StopApi, ReclaimStep, UpdateUser, DeleteUser, ReadUser,
      GuardLastRoot, StartApi, CountUsers, LookUpOwner, EnsureStep, GetNamespace,
      CreateNamespace, EnsureDirectories, EnsureFails, EnsureEnds, DeleteNamespace, DeleteOrphan
<1> DEFINE u == proc[r].u
<1>7. /\ proc[r].pc \in {"write", "tx"} /\ proc[r] \in Processes
      /\ ChangeKnown(proc[r]) /\ Current(proc[r]) /\ u \in Users /\ r \in Ensurers
  BY <1>6, InProgress DEF UpdateRole, DeleteUserAndRelatedData, At, Proper, Busy
<1>8. proc[r].late
  <2>1. SUFFICES ASSUME ~proc[r].late PROVE FALSE
    BY <1>7 DEF Processes
  <2>2. /\ proc[r].role \in {"user", "root"}
        /\ IF Guarded(proc[r].role, proc[r].want) THEN \E w \in Users : row[w] = "root" /\ w # u
           ELSE row[u] = "root" <=> proc[r].role = "root"
    BY <1>7, <2>1 DEF Current, ChangeKnown
  <2>3. CASE UpdateRole(r)
    BY <1>1, <1>3, <1>7, <2>2, <2>3 DEF UpdateRole, At, ChangeKnown, Processes, Live, Guarded
  <2>4. CASE DeleteUserAndRelatedData(r)
    <3>1. proc[r].want = "gone" /\ row' = [row EXCEPT ![u] = "deleted"]
      BY <1>7, <2>4 DEF DeleteUserAndRelatedData, At, ChangeKnown
    <3> QED BY <1>1, <1>2, <1>3, <1>7, <2>2, <3>1 DEF Guarded
  <2> QED BY <1>6, <2>3, <2>4
<1>9. proc'[r].pc # proc[r].pc
  <2>1. ASSUME NEW x, x.pc \in {"idle", "drop"}, Become(r, x) \/ Overtake(r, x)
        PROVE  proc'[r].pc \in {"idle", "drop"}
    <3>1. proc'[r] = x
      BY <1>7, <2>1, Zenon DEF Become, Overtake, Inv, TypeOK
    <3> QED BY <2>1, <3>1
  <2>2. CASE UpdateRole(r)
    <3>1. Idle.pc = "idle"
      BY DEF Idle
    <3> QED BY <1>7, <2>1, <2>2, <3>1 DEF UpdateRole
  <2>3. CASE DeleteUserAndRelatedData(r)
    <3> DEFINE x == [Idle EXCEPT !.pc = "drop", !.u = u]
    <3>1. x.pc = "drop"
      BY DEF Idle
    <3>2. Overtake(r, x)
      BY <2>3 DEF DeleteUserAndRelatedData
    <3> HIDE DEF x
    <3> QED BY <1>7, <2>1, <3>1, <3>2
  <2> QED BY <1>6, <2>2, <2>3
<1> QED BY <1>7, <1>8, <1>9

-----------------------------------------------------------------------------
\* The variables keep their types: no request writes a role nobody asked for,
\* and whoever is in the middle of a call names a user.
THEOREM TypeCorrect == Spec => []TypeOK
<1>1. Inv /\ [Next \/ FaultsEnd]_vars => Inv'
  BY NextInv
<1>2. Inv => TypeOK
  BY DEF Inv
<1> QED BY <1>1, <1>2, InitInv, PTL DEF Spec

\* A server that serves requests has given every user of before its start a whole
\* namespace, however many other processes, deletions and failed starts there were.
THEOREM ServesOnlyWholeHolds == Spec => []ServesOnlyWhole
<1>1. Inv /\ [Next \/ FaultsEnd]_vars => Inv'
  BY NextInv
<1>2. Inv => ServesOnlyWhole
  BY DEF Inv
<1> QED BY <1>1, <1>2, InitInv, PTL DEF Spec

\* No step takes the namespace of a user that exists, or its directories.
THEOREM LiveKeepsNamespaceHolds == Spec => LiveKeepsNamespace
<1>1. Inv /\ [Next \/ FaultsEnd]_vars => Inv'
  BY NextInv
<1>2. Inv /\ [Next \/ FaultsEnd]_vars =>
        [\A u \in LiveUsers : ns[u] # "none" =>
           ns'[u] # "none" /\ (ns[u] = "whole" => ns'[u] = "whole")]_vars
  BY StepKeepsNamespace
<1> QED BY <1>1, <1>2, InitInv, PTL DEF Spec, LiveKeepsNamespace

\* With any number of concurrent requests, only one whose write came after another
\* request had changed who is root can take away the last root user.
THEOREM RootLostOnlyWhenOvertakenHolds == Spec => RootLostOnlyWhenOvertaken
<1>1. Inv /\ [Next \/ FaultsEnd]_vars => Inv'
  BY NextInv
<1>2. Inv /\ [Next \/ FaultsEnd]_vars =>
        [Roots # {} /\ Roots' = {} =>
           \E r \in Requests : /\ proc[r].pc \in {"write", "tx"} /\ proc[r].late
                               /\ proc'[r].pc # proc[r].pc]_vars
  BY LastRootKept
<1> QED BY <1>1, <1>2, InitInv, PTL DEF Spec, RootLostOnlyWhenOvertaken
=============================================================================
