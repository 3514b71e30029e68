----------------------------- MODULE MaintenanceProofs -----------------------------
(***************************************************************************)
(* The properties of backup, restore and reset, for any number of servers  *)
(* and objects.  The inductive invariant says, for each step a command has *)
(* reached, what its earlier steps have established: services that start   *)
(* meanwhile are written down in the command, and void the rest.           *)
(***************************************************************************)
EXTENDS Maintenance, TLAPS

(***************************************************************************)
(* OneServer for any number of servers.  What a step may rely on is in     *)
(* two parts: Base, which always holds, and Alone, which holds as long as  *)
(* no server has started while another was being stopped.                  *)
(***************************************************************************)

HasOpen(s) == Pc(s) \in {"lock", "write", "up", "drain"}

\* A process that has the file open has one open.
Base == LockTypeOK /\ \A s \in Servers : HasOpen(s) => server[s].ino \in Inodes

\* The file that anyone has open is the file at the path, it names the server that
\* serves, a command waits for that server, and whoever removes the file is alone.
Alone ==
  /\ ~Overlaps
  /\ \A s \in Servers : HasOpen(s) => file = server[s].ino
  /\ \A s \in Servers : Serving(s) => pid = s
  /\ ctl.pc = "wait" => \A s \in Servers : Serving(s) => ctl.target = s
  /\ ctl.pc = "clean" => \A s \in Servers : ~Serving(s)
  /\ \A s, t \in Servers : Pc(s) \in {"remove", "clean"} => ~Serving(t)

LockInv == Base /\ (~overlap => Alone)

-----------------------------------------------------------------------------
\* When no server and no command is left, a new start finds nothing to overlap with.
LEMMA QuietIsAlone == Quiet => Alone
  BY DEF Quiet, Alone, Pc, HasOpen, Serving, Overlaps, Starting, Stopping, Gone

LEMMA LockInitHolds == LockInit => LockInv
  <1> SUFFICES ASSUME LockInit PROVE LockInv
    OBVIOUS
  <1>1. \A s \in Servers : server[s].pc = "down" /\ server[s].ino = None
    BY DEF LockInit, Down
  <1>2. Base
    BY <1>1 DEF LockInit, Base, LockTypeOK, HasOpen, Pc, Holders, Down, IdleCtl, ServerPcs
  <1>3. Quiet
    BY <1>1 DEF LockInit, Quiet, Pc, IdleCtl
  <1> QED BY <1>2, <1>3, QuietIsAlone DEF LockInv

\* One server takes a step of its own: the others keep their files, and nobody gets a
\* lock that another holds.
LEMMA MovePreservesBase ==
  ASSUME NEW s \in Servers, NEW q \in ServerPcs, Base, Move(s, q),
         q \in {"lock", "write", "up", "drain"} => HasOpen(s),
         q \in {"write", "up", "drain"} =>
           Pc(s) \in {"write", "up", "drain"} \/ Holders(server[s].ino) = {},
         file' \in Inodes \cup {None}, pid' \in Servers \cup {None},
         ctl' \in [pc : {"idle", "wait", "clean"}, op : {"stop", "restart"},
                   target : Servers \cup {None}],
         overlap' \in BOOLEAN
  PROVE  Base'
  <1>1. /\ server' \in [Servers -> [pc : ServerPcs, ino : Inodes \cup {None}]]
        /\ \A t \in Servers : server'[t].ino = server[t].ino
        /\ \A t \in Servers : server'[t].pc = IF t = s THEN q ELSE server[t].pc
    BY DEF Base, LockTypeOK, Move
  <1>2. \A i \in Inodes : \A t, u \in Holders(i)' : t = u
    BY <1>1 DEF Base, LockTypeOK, Holders, Pc
  <1>3. \A t \in Servers : HasOpen(t)' => server'[t].ino \in Inodes
    BY <1>1 DEF Base, HasOpen, Pc
  <1> QED BY <1>1, <1>2, <1>3 DEF Base, LockTypeOK

\* A process ends, and gives up what it had open.
LEMMA LeavePreservesBase ==
  ASSUME NEW s \in Servers, NEW q \in {"down", "remove"}, Base,
         server' = [server EXCEPT ![s] = [pc |-> q, ino |-> None]],
         file' \in Inodes \cup {None}, pid' \in Servers \cup {None},
         ctl' \in [pc : {"idle", "wait", "clean"}, op : {"stop", "restart"},
                   target : Servers \cup {None}],
         overlap' \in BOOLEAN
  PROVE  Base'
  <1>1. /\ server' \in [Servers -> [pc : ServerPcs, ino : Inodes \cup {None}]]
        /\ server'[s].pc = q
        /\ \A t \in Servers \ {s} : server'[t] = server[t]
    BY DEF Base, LockTypeOK, ServerPcs
  <1>2. \A i \in Inodes : \A t, u \in Holders(i)' : t = u
    BY <1>1 DEF Base, LockTypeOK, Holders, Pc
  <1>3. \A t \in Servers : HasOpen(t)' => server'[t].ino \in Inodes
    BY <1>1 DEF Base, HasOpen, Pc
  <1> QED BY <1>1, <1>2, <1>3 DEF Base, LockTypeOK

LEMMA BaseIsInductive == Base /\ [LockNext]_lockVars => Base'
  <1> SUFFICES ASSUME Base, [LockNext]_lockVars PROVE Base'
    OBVIOUS
  <1> USE DEF ServerPcs
  <1>0. CASE UNCHANGED lockVars
    BY <1>0 DEF lockVars, Base, LockTypeOK, HasOpen, Holders, Pc
  <1>1. CASE LockNext
    <2>1. overlap' \in BOOLEAN
      BY <1>1 DEF LockNext, Observed
    <2>2. ASSUME NEW s \in Servers,
                 Start(s) \/ Lock(s) \/ Shutdown(s) \/ RemoveFile(s) \/ WritePid(s)
          PROVE  Base'
      <3>1. CASE Start(s)
        BY <2>1, <3>1, MovePreservesBase DEF Start, Base, LockTypeOK, HasOpen
      <3>2. CASE Lock(s)
        BY <2>1, <3>2, MovePreservesBase DEF Lock, Base, LockTypeOK, HasOpen
      <3>3. CASE Shutdown(s)
        BY <2>1, <3>3, MovePreservesBase DEF Shutdown, Base, LockTypeOK, HasOpen
      <3>4. CASE RemoveFile(s)
        BY <2>1, <3>4, MovePreservesBase DEF RemoveFile, Unlink, Base, LockTypeOK, HasOpen
      <3>5. CASE WritePid(s)
        <4>1. pid' \in Servers \cup {None}
          BY <3>5 DEF WritePid, Base, LockTypeOK
        <4> QED BY <2>1, <3>5, <4>1, MovePreservesBase DEF WritePid, Base, LockTypeOK, HasOpen
      <3> QED BY <2>2, <3>1, <3>2, <3>3, <3>4, <3>5
    <2>3. ASSUME NEW s \in Servers, OpenFile(s) PROVE Base'
      <3>1. /\ file' \in Inodes
            /\ server' = [server EXCEPT ![s] = [pc |-> "lock", ino |-> file']]
            /\ UNCHANGED <<pid, ctl>>
        BY <2>3 DEF OpenFile, Base, LockTypeOK
      <3>2. /\ server' \in [Servers -> [pc : ServerPcs, ino : Inodes \cup {None}]]
            /\ server'[s].pc = "lock" /\ server'[s].ino \in Inodes
            /\ \A t \in Servers \ {s} : server'[t] = server[t]
        BY <3>1 DEF Base, LockTypeOK
      <3>3. \A i \in Inodes : \A t, u \in Holders(i)' : t = u
        BY <3>2 DEF Base, LockTypeOK, Holders, Pc
      <3>4. \A t \in Servers : HasOpen(t)' => server'[t].ino \in Inodes
        BY <3>2 DEF Base, HasOpen, Pc
      <3> QED BY <2>1, <3>1, <3>2, <3>3, <3>4 DEF Base, LockTypeOK
    <2>4. ASSUME NEW s \in Servers, AlreadyRunning(s) \/ Release(s) \/ Crash(s) PROVE Base'
      <3>1. CASE AlreadyRunning(s)
        BY <2>1, <3>1, LeavePreservesBase DEF AlreadyRunning, Down, Base, LockTypeOK
      <3>2. CASE Release(s)
        BY <2>1, <3>2, LeavePreservesBase DEF Release, Base, LockTypeOK
      <3>3. CASE Crash(s)
        BY <2>1, <3>3, LeavePreservesBase DEF Crash, Dies, Down, Base, LockTypeOK
      <3> QED BY <2>4, <3>1, <3>2, <3>3
    <2>5. ASSUME NEW op \in {"stop", "restart"}, StopOrRestart(op) PROVE Base'
      <3>1. ctl' \in [pc : {"idle", "wait", "clean"}, op : {"stop", "restart"},
                      target : Servers \cup {None}]
        BY <2>5 DEF StopOrRestart, Base, LockTypeOK
      <3>2. CASE Gone(pid)
        BY <2>1, <2>5, <3>1, <3>2 DEF StopOrRestart, Base, LockTypeOK, HasOpen, Holders, Pc
      <3>3. CASE ~Gone(pid)
        <4>1. pid \in Servers
          BY <3>3 DEF Gone, Base, LockTypeOK
        <4>2. CASE Serving(pid)
          BY <2>1, <2>5, <3>1, <3>3, <4>1, <4>2, MovePreservesBase
          DEF StopOrRestart, Base, LockTypeOK, Serving, HasOpen
        <4>3. CASE ~Serving(pid)
          BY <2>1, <2>5, <3>1, <3>3, <4>1, <4>3, LeavePreservesBase
          DEF StopOrRestart, Base, LockTypeOK, Dies, Down
        <4> QED BY <4>2, <4>3
      <3> QED BY <3>2, <3>3
    <2>6. CASE WaitForStop \/ CleanupFiles
      BY <2>1, <2>6
      DEF WaitForStop, CleanupFiles, Unlink, IdleCtl, Base, LockTypeOK, HasOpen, Holders, Pc
    <2> QED BY <1>1, <2>2, <2>3, <2>4, <2>5, <2>6 DEF LockNext, StartingStep, StoppingStep
  <1> QED BY <1>0, <1>1

-----------------------------------------------------------------------------
\* A step that starts nothing while something is stopped keeps what Alone says.
LEMMA AloneIsKept ==
  Base /\ Base' /\ Alone /\ LockNext /\ ~Overlaps' => Alone'
  <1> SUFFICES ASSUME Base, Base', Alone, LockNext, ~Overlaps' PROVE Alone'
    OBVIOUS
  <1> USE DEF ServerPcs
  <1>0. server \in [Servers -> [pc : ServerPcs, ino : Inodes \cup {None}]]
    BY DEF Base, LockTypeOK
  <1>1. ASSUME NEW s \in Servers, Start(s) PROVE Alone'
    BY <1>0, <1>1 DEF Start, Move, Alone, HasOpen, Serving, Pc
  <1>2. ASSUME NEW s \in Servers, OpenFile(s) PROVE Alone'
    <2>1. /\ server'[s].pc = "lock" /\ server'[s].ino = file'
          /\ \A t \in Servers \ {s} : server'[t] = server[t]
      BY <1>0, <1>2 DEF OpenFile
    <2>2. \A t \in Servers \ {s} : HasOpen(t) => file' = file
      BY <1>2, ServiceLockAssumption DEF OpenFile, Alone, Base
    <2> QED BY <1>2, <2>1, <2>2 DEF OpenFile, Alone, HasOpen, Serving, Pc
  <1>3. ASSUME NEW s \in Servers, Lock(s) PROVE Alone'
    BY <1>0, <1>3 DEF Lock, Move, Alone, HasOpen, Serving, Pc
  <1>4. ASSUME NEW s \in Servers, AlreadyRunning(s) \/ Crash(s) \/ Release(s) PROVE Alone'
    <2>1. /\ server'[s].pc \in {"down", "remove"} /\ server'[s].ino = None
          /\ \A t \in Servers \ {s} : server'[t] = server[t]
          /\ UNCHANGED <<file, pid, ctl>>
      BY <1>0, <1>4 DEF AlreadyRunning, Crash, Release, Dies, Down
    <2>2. CASE server'[s].pc = "remove"
      <3>1. Pc(s) = "drain"
        BY <1>0, <1>4, <2>2 DEF AlreadyRunning, Crash, Release, Dies, Down
      <3>2. \A t \in Servers \ {s} : ~Serving(t)
        BY <3>1 DEF Alone, Base, LockTypeOK, HasOpen, Serving, Holders, Pc
      <3> QED BY <2>1, <2>2, <3>2 DEF Alone, HasOpen, Serving, Pc
    <2>3. CASE server'[s].pc = "down"
      BY <2>1, <2>3 DEF Alone, HasOpen, Serving, Pc
    <2> QED BY <2>1, <2>2, <2>3
  <1>5. ASSUME NEW s \in Servers, WritePid(s) PROVE Alone'
    <2>1. /\ server'[s].pc = "up" /\ server'[s].ino = server[s].ino
          /\ \A t \in Servers \ {s} : server'[t] = server[t]
      BY <1>0, <1>5 DEF WritePid, Move
    <2>2. file = server[s].ino /\ pid' = s /\ UNCHANGED <<file, ctl>>
      BY <1>5 DEF WritePid, Alone, HasOpen
    <2>3. \A t \in Servers \ {s} : ~Serving(t)
      BY <1>5, <2>2 DEF WritePid, Alone, Base, LockTypeOK, HasOpen, Serving, Holders, Pc
    <2>4. ctl.pc = "idle" /\ \A t \in Servers : ~Stopping(t)
      BY <1>5 DEF WritePid, Alone, Overlaps, Starting
    <2> QED BY <2>1, <2>2, <2>3, <2>4 DEF Alone, HasOpen, Serving, Stopping, Pc
  <1>6. ASSUME NEW s \in Servers, Shutdown(s) PROVE Alone'
    BY <1>0, <1>6 DEF Shutdown, Move, Alone, HasOpen, Serving, Pc
  <1>7. ASSUME NEW s \in Servers, RemoveFile(s) PROVE Alone'
    <2>1. \A t \in Servers : ~Starting(t) /\ ~Serving(t)
      BY <1>7 DEF RemoveFile, Stopping, Alone, Overlaps
    <2>2. \A t \in Servers : ~HasOpen(t)' /\ ~Serving(t)'
      BY <1>0, <1>7, <2>1 DEF RemoveFile, Move, Starting, Serving, HasOpen, Pc
    <2> QED BY <2>2 DEF Alone
  <1>8. ASSUME NEW op \in {"stop", "restart"}, StopOrRestart(op) PROVE Alone'
    <2>1. /\ \A t \in Servers : server'[t].ino = server[t].ino \/ server'[t].pc = "down"
          /\ \A t \in Servers : HasOpen(t)' => HasOpen(t)
          /\ \A t \in Servers : Serving(t)' => Serving(t)
          /\ \A t \in Servers : Pc(t)' \in {"remove", "clean"} => Pc(t) \in {"remove", "clean"}
      BY SMTT(30), <1>0, <1>8
      DEF StopOrRestart, Move, Dies, Down, HasOpen, Serving, Pc, Gone, Base, LockTypeOK
    <2>2. \A t \in Servers : HasOpen(t)' => server'[t].ino = server[t].ino
      BY <2>1 DEF HasOpen, Pc
    <2>3. /\ UNCHANGED <<file, pid>>
          /\ ctl' = ctl \/ (ctl'.pc = "wait" /\ ctl'.target = pid)
      BY <1>8 DEF StopOrRestart
    <2>4. /\ \A t \in Servers : HasOpen(t)' => file' = server'[t].ino
          /\ \A t \in Servers : Serving(t)' => pid' = t
          /\ \A t, u \in Servers : Pc(t)' \in {"remove", "clean"} => ~Serving(u)'
      BY <2>1, <2>2, <2>3 DEF Alone
    <2>5. /\ ctl'.pc = "wait" => \A t \in Servers : Serving(t)' => ctl'.target = t
          /\ ctl'.pc = "clean" => \A t \in Servers : ~Serving(t)'
      BY <2>1, <2>3 DEF Alone
    <2> QED BY <2>4, <2>5 DEF Alone
  <1>9. CASE WaitForStop
    <2>1. UNCHANGED <<file, pid, server>> /\ ctl'.pc \in {"clean", "idle"}
      BY <1>9 DEF WaitForStop, IdleCtl, Base, LockTypeOK
    <2>2. ASSUME ctl'.pc = "clean" PROVE \A t \in Servers : ~Serving(t)
      <3>1. ctl'.target = ctl.target /\ \A t \in Servers : Serving(t) => ctl.target = t
        BY <1>9, <2>2 DEF WaitForStop, IdleCtl, Alone, Base, LockTypeOK
      <3>2. ctl.target # None => server[ctl.target].pc = "down"
        BY <2>1, <2>2, <3>1 DEF Overlaps, Gone, Pc
      <3> QED BY <3>1, <3>2, ServiceLockAssumption DEF Serving, Pc
    <2> QED BY <2>1, <2>2 DEF Alone, HasOpen, Serving, Pc
  <1>10. CASE CleanupFiles
    <2>1. \A t \in Servers : ~HasOpen(t)
      BY <1>10 DEF CleanupFiles, Alone, Overlaps, HasOpen, Starting, Serving
    <2> QED BY <1>10, <2>1 DEF CleanupFiles, IdleCtl, Alone, HasOpen, Serving, Pc
  <1> QED
    BY <1>1, <1>2, <1>3, <1>4, <1>5, <1>6, <1>7, <1>8, <1>9, <1>10
    DEF LockNext, StartingStep, StoppingStep

LEMMA LockInvIsInductive == LockInv /\ [LockNext]_lockVars => LockInv'
  <1> SUFFICES ASSUME LockInv, [LockNext]_lockVars PROVE LockInv'
    OBVIOUS
  <1>1. Base /\ Base'
    BY BaseIsInductive DEF LockInv
  <1>2. CASE UNCHANGED lockVars
    BY <1>1, <1>2
    DEF lockVars, LockInv, Alone, Overlaps, Starting, Stopping, HasOpen, Serving, Gone, Pc
  <1>3. CASE LockNext
    <2>1. CASE Quiet'
      BY <1>1, <2>1, QuietIsAlone, PTL DEF LockInv
    <2>2. CASE ~Quiet' /\ ~overlap'
      <3>1. ~overlap /\ ~Overlaps'
        BY <1>3, <2>2 DEF LockNext, Observed
      <3> QED BY <1>1, <1>3, <3>1, AloneIsKept DEF LockInv
    <2> QED BY <1>1, <2>1, <2>2 DEF LockInv
  <1> QED BY <1>2, <1>3

\* Any number of servers start, end and crash, and are stopped and restarted: unless
\* one started while another was being stopped, the one that serves is alone, is named
\* by the PID file and has locked it.
LEMMA LockInvGivesOneServer == LockInv => OneServer
  <1> SUFFICES ASSUME LockInv, ~overlap, NEW s \in Servers, Serving(s)
               PROVE  ~Evicted(s) /\ pid = s /\ \A t \in Servers \ {s} : ~Serving(t)
    BY DEF OneServer
  <1>1. ~Evicted(s) /\ \A t \in Servers : Serving(t) => pid = t
    BY DEF LockInv, Alone, Evicted, HasOpen, Serving
  <1> QED BY <1>1

THEOREM LockOneServer == LockSpec => []OneServer
  <1> QED BY LockInitHolds, LockInvIsInductive, LockInvGivesOneServer, PTL DEF LockSpec

-----------------------------------------------------------------------------
BackupPcs == {"list", "copy", "checkpoint", "metadata", "manifest", "archive"}
RestorePcs == {"bundle", "put", "removeLog", "rename"}
ResetPcs == {"file", "log"}
SharedPcs == {"bucket", "paths", "resetDB", "runtime", "delete"}
Pcs == {"idle", "status", "dofs", "done"} \cup BackupPcs \cup RestorePcs \cup ResetPcs \cup SharedPcs

\* The types, and which command is at which step.
DataTypeOK ==
  /\ objs \in SUBSET Objects /\ db \in SUBSET Objects /\ spool \in BOOLEAN
  /\ mounts \in {"down", "opening", "serving", "closing"}
  /\ meta \in [file : Contents, log : Contents, foreign : BOOLEAN]
  /\ bundle \in [kind : {"none", "kept", "stage"}, objs : SUBSET Objects,
                 db : Contents, meta : Contents, manifest : Contents]
  /\ cmd \in [op : {"none", "backup", "restore", "reset"}, pc : Pcs,
              left : SUBSET Objects, obstacle : Obstacles, company : {"none", "unseen", "late"}]

OpOfPc ==
  /\ cmd.pc = "idle" <=> cmd.op = "none"
  /\ cmd.pc \in BackupPcs => cmd.op = "backup"
  /\ cmd.pc \in RestorePcs => cmd.op = "restore"
  /\ cmd.pc \in ResetPcs => cmd.op = "reset"
  /\ cmd.pc \in SharedPcs => cmd.op \in {"restore", "reset"}
  /\ bundle.kind = "stage" => cmd.pc \in BackupPcs

\* What the checks have found and no service has changed without leaving a trace.
NobodyElse ==
  /\ cmd.pc \notin {"idle", "status"} /\ cmd.company # "late" =>
       \A s \in Servers : Serving(s) => Evicted(s)
  /\ cmd.pc \notin {"idle", "status", "dofs"} /\ cmd.company # "late" => mounts # "serving"
  /\ cmd.pc \notin {"idle", "status", "dofs"} /\ cmd.company = "none" => ~Used

\* What a backup holds at each step.
Copied ==
  /\ cmd.pc \in {"copy", "checkpoint", "metadata", "manifest"} => bundle.manifest = None
  /\ cmd.company = "none" =>
       /\ cmd.pc = "copy" => bundle.objs \cup cmd.left = objs
       /\ cmd.pc \in {"checkpoint", "metadata", "manifest", "archive"} =>
            bundle.objs = objs /\ bundle.db = db
       /\ cmd.pc = "metadata" => meta.file # None
       /\ cmd.pc \in {"manifest", "archive"} => bundle.meta = Content
       /\ cmd.pc = "archive" => bundle.manifest = objs

\* What restore and reset have checked at each step.
Checked ==
  /\ cmd.op = "restore" /\ cmd.pc \notin {"status", "dofs", "bundle"} => Acceptable(bundle)
  /\ \/ cmd.op = "restore" /\ cmd.pc \notin {"status", "dofs", "bundle", "paths"}
     \/ cmd.op = "reset" /\ cmd.pc \notin {"status", "dofs", "bucket", "paths"}
     => cmd.obstacle \notin {"metadata", "runtime"}
  /\ \/ cmd.op = "restore" /\ cmd.pc \notin {"status", "dofs", "bundle", "paths", "bucket"}
     \/ cmd.op = "reset" /\ cmd.pc \notin {"status", "dofs", "bucket"}
     => cmd.obstacle # "bucket"

\* What restore and reset have left of each store at each step.
Cleared ==
  cmd.company = "none" =>
    /\ cmd.op = "reset" /\ cmd.pc \in {"file", "log", "runtime", "delete", "done"} => db = {}
    /\ cmd.op = "reset" /\ cmd.pc \in {"log", "runtime", "delete", "done"} => meta.file = None
    /\ cmd.op = "reset" /\ cmd.pc \in {"runtime", "delete", "done"} => meta.log = None
    /\ cmd.op \in {"restore", "reset"} /\ cmd.pc \in {"delete", "put", "removeLog", "rename", "done"} => ~spool
    /\ cmd.op = "reset" /\ cmd.pc = "done" => objs = {}
    /\ cmd.pc = "put" => objs \cup cmd.left = bundle.manifest
    /\ cmd.op = "restore" /\ cmd.pc \in {"removeLog", "rename", "done"} =>
         objs = bundle.manifest /\ db = bundle.db
    /\ cmd.op = "restore" /\ cmd.pc \in {"rename", "done"} => meta.log = None
    /\ cmd.op = "restore" /\ cmd.pc = "done" => meta.file = bundle.meta

Ordered == DataTypeOK /\ OpOfPc /\ NobodyElse /\ Copied /\ Checked /\ Cleared
IInv == LockInv /\ Ordered

-----------------------------------------------------------------------------
(* How the commands and the services change the lock.                      *)

LEMMA InitHolds == Init => IInv
  <1> SUFFICES ASSUME Init PROVE IInv
    OBVIOUS
  <1>1. LockInv
    BY LockInitHolds DEF Init
  <1>2. DataTypeOK
    <2>1. {} \in SUBSET Objects /\ {} \in Contents /\ None \in Contents /\ "idle" \in Pcs
          /\ "none" \in Obstacles
      BY DEF Contents, Pcs, Obstacles
    <2>2. meta \in [file : Contents, log : Contents, foreign : BOOLEAN]
      BY <2>1 DEF Init
    <2>3. bundle \in [kind : {"none", "kept", "stage"}, objs : SUBSET Objects,
                      db : Contents, meta : Contents, manifest : Contents]
      BY <2>1 DEF Init, NoBundle
    <2>4. cmd \in [op : {"none", "backup", "restore", "reset"}, pc : Pcs, left : SUBSET Objects,
                   obstacle : Obstacles, company : {"none", "unseen", "late"}]
      BY <2>1 DEF Init, IdleCmd
    <2> QED BY <2>1, <2>2, <2>3, <2>4 DEF DataTypeOK, Init
  <1>3. cmd.pc = "idle" /\ cmd.op = "none" /\ bundle.kind = "none"
    BY DEF Init, IdleCmd, NoBundle
  <1>4. OpOfPc /\ NobodyElse /\ Copied /\ Checked /\ Cleared
    BY <1>3 DEF OpOfPc, NobodyElse, Copied, Checked, Cleared, BackupPcs, RestorePcs, ResetPcs, SharedPcs
  <1> QED BY <1>1, <1>2, <1>4 DEF IInv, Ordered

\* Seen from the PID file, every step is one of its own or none.
LEMMA NextIsLockStep == [Next]_vars => [LockNext]_lockVars
  <1> SUFFICES ASSUME [Next]_vars PROVE [LockNext]_lockVars
    OBVIOUS
  <1>1. CASE UNCHANGED vars
    BY <1>1 DEF vars, lockVars
  <1>2. CASE ServiceStep
    <2>1. CASE ServicesStart
      BY <2>1 DEF ServicesStart, LockNext, ServerUp, StartMounts, ServeControl
    <2>2. CASE ServicesStop
      BY <2>2 DEF ServicesStop, LockNext, ServerEnds, ServerCrashes, StopControl, StopMounts, CrashMounts
    <2>3. CASE Work
      BY <2>3 DEF Work
    <2> QED BY <1>2, <2>1, <2>2, <2>3 DEF ServiceStep
  <1>3. CASE CommandStep \/ BundleDamaged
    BY <1>3 DEF CommandStep, BundleDamaged
  <1> QED BY <1>1, <1>2, <1>3 DEF Next

\* What a command sees of a service: nothing, or that it has joined.
LEMMA ServicesAndCommand ==
  ASSUME ServiceStep, cmd.pc # "idle", DataTypeOK
  PROVE  /\ UNCHANGED <<objs, db, spool, bundle>>
         /\ \/ cmd' = [cmd EXCEPT !.company = "late"]
            \/ UNCHANGED <<cmd, meta, mounts>> /\ StartingStep
  <1>1. ServicesStart /\ UNCHANGED bundle
    BY DEF ServiceStep, ServicesStop, Work
  <1>2. CASE StartingStep /\ UNCHANGED <<stores, mounts, cmd>>
    BY <1>1, <1>2 DEF stores
  <1>3. CASE \E s \in Servers : ServerUp(s)
    BY <1>1, <1>3 DEF ServerUp, OpenStores, JoinCommand
  <1>4. CASE StartMounts
    BY <1>1, <1>4 DEF StartMounts, OpenStores, JoinCommand
  <1>5. CASE ServeControl
    BY <1>1, <1>5 DEF ServeControl, stores, JoinCommand
  <1> QED BY <1>1, <1>2, <1>3, <1>4, <1>5 DEF ServicesStart

\* A service that has nothing to do with a command works on the stores as they are.
LEMMA ServicesWithoutCommand ==
  ASSUME ServiceStep, cmd.pc = "idle" PROVE UNCHANGED <<cmd, bundle>>
  BY DEF ServiceStep, ServicesStart, ServicesStop, Work, ServerUp, ServerEnds, ServerCrashes,
         StartMounts, ServeControl, StopControl, StopMounts, CrashMounts, OpenStores, JoinCommand

\* Where the first steps of a command leave it.
LEMMA BeginSets ==
  ASSUME NEW op \in {"backup", "restore", "reset"}, Begin(op)
  PROVE  /\ UNCHANGED <<objs, db, meta, spool, bundle>> /\ cmd.pc = "idle"
         /\ \E x \in Obstacles :
              cmd' = [op |-> op, pc |-> "status", left |-> {}, obstacle |-> x, company |-> "none"]
  <1>1. PICK x \in Obstacles :
          cmd' = [IdleCmd EXCEPT !.op = op, !.pc = "status", !.obstacle = x]
    BY DEF Begin, Obstacles
  <1> QED BY <1>1 DEF Begin, IdleCmd, stores

LEMMA RequireSets ==
  ASSUME RequireDOFSStopped, DataTypeOK, OpOfPc
  PROVE  /\ UNCHANGED <<objs, db, meta, spool, bundle>> /\ cmd.pc = "dofs" /\ mounts # "serving"
         /\ cmd'.op = cmd.op /\ cmd'.left = cmd.left /\ cmd'.obstacle = cmd.obstacle
         /\ \/ cmd.op = "backup" /\ cmd'.pc = "list"
            \/ cmd.op = "restore" /\ cmd'.pc = "bundle"
            \/ cmd.op = "reset" /\ cmd'.pc = "bucket"
         /\ cmd'.company = IF cmd.company = "none" /\ Used THEN "unseen" ELSE cmd.company
         /\ cmd' \in [op : {"none", "backup", "restore", "reset"}, pc : Pcs, left : SUBSET Objects,
                      obstacle : Obstacles, company : {"none", "unseen", "late"}]
  <1> DEFINE q == CASE cmd.op = "backup" -> "list" [] cmd.op = "restore" -> "bundle"
                    [] cmd.op = "reset" -> "bucket"
             c == IF cmd.company = "none" /\ Used THEN "unseen" ELSE cmd.company
  <1>1. cmd' = [cmd EXCEPT !.pc = q, !.company = c]
    BY DEF RequireDOFSStopped
  <1>2. cmd.op \in {"backup", "restore", "reset"}
    BY DEF RequireDOFSStopped, DataTypeOK, OpOfPc
  <1>3. \/ cmd.op = "backup" /\ q = "list"
        \/ cmd.op = "restore" /\ q = "bundle"
        \/ cmd.op = "reset" /\ q = "bucket"
    BY <1>2
  <1>4. q \in Pcs /\ c \in {"none", "unseen", "late"}
    BY <1>3 DEF Pcs, BackupPcs, RestorePcs, SharedPcs, DataTypeOK
  <1> HIDE DEF q, c
  <1> QED BY <1>1, <1>3, <1>4 DEF RequireDOFSStopped, DataTypeOK, stores, c

-----------------------------------------------------------------------------
(* The steps of the commands keep the types.                               *)

LEMMA CommandKeepsTypes ==
  ASSUME DataTypeOK, OpOfPc, Checked, CommandStep PROVE DataTypeOK'
  <1>0. mounts' = mounts
    BY DEF CommandStep
  <1>1. CASE CheckStatus
    BY <1>0, <1>1 DEF CheckStatus, On, DataTypeOK, Contents, Pcs, BackupPcs, RestorePcs,
       ResetPcs, SharedPcs, Obstacles, stores, Go
  <1>2. CASE RequireDOFSStopped
    BY <1>0, <1>2, RequireSets DEF DataTypeOK
  <1>3. CASE BeginBackup
    <2>1. PICK x \in Obstacles : cmd' = [op |-> "backup", pc |-> "status", left |-> {},
                                        obstacle |-> x, company |-> "none"]
      BY <1>3, BeginSets DEF BeginBackup
    <2> QED BY <1>0, <1>3, <2>1, BeginSets DEF BeginBackup, DataTypeOK, Pcs
  <1>4. CASE ListObjects
    BY <1>0, <1>4 DEF ListObjects, On, DataTypeOK, Contents, Pcs, BackupPcs, RestorePcs,
       ResetPcs, SharedPcs, Obstacles, stores, NoBundle
  <1>5. ASSUME NEW o \in Objects, CopyObject(o) PROVE DataTypeOK'
    BY <1>0, <1>5 DEF CopyObject, On, DataTypeOK, Contents, Pcs, BackupPcs, RestorePcs,
       ResetPcs, SharedPcs, Obstacles, stores
  <1>6. CASE DumpDatabase
    BY <1>0, <1>6 DEF DumpDatabase, On, DataTypeOK, Contents, Pcs, BackupPcs, RestorePcs,
       ResetPcs, SharedPcs, Obstacles, stores, Go
  <1>7. CASE Checkpoint
    BY <1>0, <1>7 DEF Checkpoint, On, DataTypeOK, Contents, Pcs, BackupPcs, RestorePcs,
       ResetPcs, SharedPcs, Obstacles, stores, Go, Checkpointed, Content
  <1>8. CASE CopyMetadata
    BY <1>0, <1>8 DEF CopyMetadata, On, DataTypeOK, Contents, Pcs, BackupPcs, RestorePcs,
       ResetPcs, SharedPcs, Obstacles, stores, Go
  <1>9. CASE WriteManifest
    BY <1>0, <1>9 DEF WriteManifest, On, DataTypeOK, Contents, Pcs, BackupPcs, RestorePcs,
       ResetPcs, SharedPcs, Obstacles, stores, Go
  <1>10. CASE CreateTarGz
    BY <1>0, <1>10 DEF CreateTarGz, On, DataTypeOK, Contents, Pcs, BackupPcs, RestorePcs,
       ResetPcs, SharedPcs, Obstacles, stores, Go
  <1>11. CASE BeginRestore
    <2>1. PICK x \in Obstacles : cmd' = [op |-> "restore", pc |-> "status", left |-> {},
                                        obstacle |-> x, company |-> "none"]
      BY <1>11, BeginSets DEF BeginRestore
    <2> QED BY <1>0, <1>11, <2>1, BeginSets DEF BeginRestore, DataTypeOK, Pcs
  <1>12. CASE ValidateBundle
    BY <1>0, <1>12 DEF ValidateBundle, On, DataTypeOK, Contents, Pcs, BackupPcs, RestorePcs,
       ResetPcs, SharedPcs, Obstacles, stores, Go
  <1>13. ASSUME NEW o \in Objects, PutObject(o) PROVE DataTypeOK'
    BY <1>0, <1>13 DEF PutObject, On, DataTypeOK, Contents, Pcs, BackupPcs, RestorePcs,
       ResetPcs, SharedPcs, Obstacles, stores
  <1>14. CASE ImportDatabase
    <2>1. bundle.db \in SUBSET Objects
      BY <1>14 DEF ImportDatabase, Checked, OpOfPc, RestorePcs, Acceptable, DataTypeOK, Contents
    <2>2. db' \in SUBSET Objects
      BY <1>14, <2>1 DEF ImportDatabase
    <2>3. CASE Go("removeLog")
      BY <1>0, <1>14, <2>2, <2>3 DEF ImportDatabase, DataTypeOK, Go, Pcs, RestorePcs
    <2>4. CASE cmd' = IdleCmd
      BY <1>0, <1>14, <2>2, <2>4 DEF ImportDatabase, DataTypeOK, IdleCmd, Pcs, Obstacles
    <2> QED BY <1>14, <2>3, <2>4 DEF ImportDatabase
  <1>15. CASE RemoveOldLog
    BY <1>0, <1>15 DEF RemoveOldLog, On, DataTypeOK, Contents, Pcs, BackupPcs, RestorePcs,
       ResetPcs, SharedPcs, Obstacles, stores, Go
  <1>16. CASE RenameMetadata
    BY <1>0, <1>16 DEF RenameMetadata, On, DataTypeOK, Contents, Pcs, BackupPcs, RestorePcs,
       ResetPcs, SharedPcs, Obstacles, stores, Go
  <1>17. CASE BeginReset
    <2>1. PICK x \in Obstacles : cmd' = [op |-> "reset", pc |-> "status", left |-> {},
                                        obstacle |-> x, company |-> "none"]
      BY <1>17, BeginSets DEF BeginReset
    <2> QED BY <1>0, <1>17, <2>1, BeginSets DEF BeginReset, DataTypeOK, Pcs
  <1>18. CASE ValidatePaths
    BY <1>0, <1>18 DEF ValidatePaths, On, DataTypeOK, Contents, Pcs, BackupPcs, RestorePcs,
       ResetPcs, SharedPcs, Obstacles, stores, Go
  <1>19. CASE CheckBucket
    BY <1>0, <1>19 DEF CheckBucket, On, DataTypeOK, Contents, Pcs, BackupPcs, RestorePcs,
       ResetPcs, SharedPcs, Obstacles, stores, Go
  <1>20. CASE ResetDatabase
    BY <1>0, <1>20 DEF ResetDatabase, On, DataTypeOK, Contents, Pcs, BackupPcs, RestorePcs,
       ResetPcs, SharedPcs, Obstacles, stores, Go
  <1>21. CASE ClearMetadataFile
    BY <1>0, <1>21 DEF ClearMetadataFile, On, DataTypeOK, Contents, Pcs, BackupPcs,
       RestorePcs, ResetPcs, SharedPcs, Obstacles, stores, Go
  <1>22. CASE ClearMetadataLog
    BY <1>0, <1>22 DEF ClearMetadataLog, On, DataTypeOK, Contents, Pcs, BackupPcs,
       RestorePcs, ResetPcs, SharedPcs, Obstacles, stores, Go
  <1>23. CASE ClearRuntimeState
    BY ZenonT(40), <1>0, <1>23 DEF ClearRuntimeState, On, DataTypeOK, Contents, Pcs, BackupPcs,
       RestorePcs, ResetPcs, SharedPcs, Obstacles, stores, Go
  <1>24. CASE DeleteAllObjects
    <2>1. cmd' \in [op : {"none", "backup", "restore", "reset"}, pc : Pcs, left : SUBSET Objects,
                    obstacle : Obstacles, company : {"none", "unseen", "late"}]
      <3>1. cmd.op \in {"restore", "reset"}
        BY <1>24 DEF DeleteAllObjects, OpOfPc, SharedPcs
      <3>2. cmd.op = "restore" => bundle.manifest \in SUBSET Objects
        BY <1>24 DEF DeleteAllObjects, Checked, Acceptable, DataTypeOK, Contents
      <3> QED BY ZenonT(40), <1>24, <3>1, <3>2 DEF DeleteAllObjects, DataTypeOK, Pcs, RestorePcs
    <2> QED BY <1>0, <1>24, <2>1 DEF DeleteAllObjects, DataTypeOK
  <1>25. CASE CommandEnds
    BY <1>0, <1>25 DEF CommandEnds, On, DataTypeOK, Contents, Pcs, BackupPcs, RestorePcs,
       ResetPcs, SharedPcs, Obstacles, stores, IdleCmd, NoBundle
  <1> QED
    BY <1>1, <1>2, <1>3, <1>4, <1>5, <1>6, <1>7, <1>8, <1>9, <1>10, <1>11, <1>12, <1>13,
       <1>14, <1>15, <1>16, <1>17, <1>18, <1>19, <1>20, <1>21, <1>22, <1>23, <1>24, <1>25
    DEF CommandStep, BackupStep, RestoreStep, DestroyStep

\* A step is only ever reached by the command it belongs to.
LEMMA CommandKeepsOpOfPc ==
  ASSUME DataTypeOK, OpOfPc, CommandStep PROVE OpOfPc'
  <1>1. CASE CheckStatus
    BY <1>1 DEF CheckStatus, On, DataTypeOK, OpOfPc, BackupPcs, RestorePcs, ResetPcs,
       SharedPcs, stores, Go
  <1>2. CASE RequireDOFSStopped
    BY <1>2, RequireSets DEF OpOfPc, BackupPcs, RestorePcs, ResetPcs, SharedPcs
  <1>3. CASE BeginBackup
    BY <1>3, BeginSets DEF BeginBackup, OpOfPc, BackupPcs, RestorePcs, ResetPcs, SharedPcs
  <1>4. CASE ListObjects
    BY <1>4 DEF ListObjects, On, DataTypeOK, OpOfPc, BackupPcs, RestorePcs, ResetPcs,
       SharedPcs, stores, NoBundle
  <1>5. ASSUME NEW o \in Objects, CopyObject(o) PROVE OpOfPc'
    BY <1>5 DEF CopyObject, On, DataTypeOK, OpOfPc, BackupPcs, RestorePcs, ResetPcs,
       SharedPcs, stores
  <1>6. CASE DumpDatabase
    BY <1>6 DEF DumpDatabase, On, DataTypeOK, OpOfPc, BackupPcs, RestorePcs, ResetPcs,
       SharedPcs, stores, Go
  <1>7. CASE Checkpoint
    BY <1>7 DEF Checkpoint, On, DataTypeOK, OpOfPc, BackupPcs, RestorePcs, ResetPcs,
       SharedPcs, stores, Go, Checkpointed, Content
  <1>8. CASE CopyMetadata
    BY <1>8 DEF CopyMetadata, On, DataTypeOK, OpOfPc, BackupPcs, RestorePcs, ResetPcs,
       SharedPcs, stores, Go
  <1>9. CASE WriteManifest
    BY <1>9 DEF WriteManifest, On, DataTypeOK, OpOfPc, BackupPcs, RestorePcs, ResetPcs,
       SharedPcs, stores, Go
  <1>10. CASE CreateTarGz
    BY <1>10 DEF CreateTarGz, On, DataTypeOK, OpOfPc, BackupPcs, RestorePcs, ResetPcs,
       SharedPcs, stores, Go
  <1>11. CASE BeginRestore
    BY <1>11, BeginSets DEF BeginRestore, OpOfPc, BackupPcs, RestorePcs, ResetPcs, SharedPcs
  <1>12. CASE ValidateBundle
    BY <1>12 DEF ValidateBundle, On, DataTypeOK, OpOfPc, BackupPcs, RestorePcs, ResetPcs,
       SharedPcs, stores, Go
  <1>13. ASSUME NEW o \in Objects, PutObject(o) PROVE OpOfPc'
    BY <1>13 DEF PutObject, On, DataTypeOK, OpOfPc, BackupPcs, RestorePcs, ResetPcs,
       SharedPcs, stores
  <1>14. CASE ImportDatabase
    BY <1>14 DEF ImportDatabase, On, DataTypeOK, OpOfPc, BackupPcs, RestorePcs, ResetPcs,
       SharedPcs, stores, Go, IdleCmd
  <1>15. CASE RemoveOldLog
    BY <1>15 DEF RemoveOldLog, On, DataTypeOK, OpOfPc, BackupPcs, RestorePcs, ResetPcs,
       SharedPcs, stores, Go
  <1>16. CASE RenameMetadata
    BY <1>16 DEF RenameMetadata, On, DataTypeOK, OpOfPc, BackupPcs, RestorePcs, ResetPcs,
       SharedPcs, stores, Go
  <1>17. CASE BeginReset
    BY <1>17, BeginSets DEF BeginReset, OpOfPc, BackupPcs, RestorePcs, ResetPcs, SharedPcs
  <1>18. CASE ValidatePaths
    BY <1>18 DEF ValidatePaths, On, DataTypeOK, OpOfPc, BackupPcs, RestorePcs, ResetPcs,
       SharedPcs, stores, Go
  <1>19. CASE CheckBucket
    BY <1>19 DEF CheckBucket, On, DataTypeOK, OpOfPc, BackupPcs, RestorePcs, ResetPcs,
       SharedPcs, stores, Go
  <1>20. CASE ResetDatabase
    BY <1>20 DEF ResetDatabase, On, DataTypeOK, OpOfPc, BackupPcs, RestorePcs, ResetPcs,
       SharedPcs, stores, Go
  <1>21. CASE ClearMetadataFile
    BY <1>21 DEF ClearMetadataFile, On, DataTypeOK, OpOfPc, BackupPcs, RestorePcs, ResetPcs,
       SharedPcs, stores, Go
  <1>22. CASE ClearMetadataLog
    BY <1>22 DEF ClearMetadataLog, On, DataTypeOK, OpOfPc, BackupPcs, RestorePcs, ResetPcs,
       SharedPcs, stores, Go
  <1>23. CASE ClearRuntimeState
    BY <1>23 DEF ClearRuntimeState, On, DataTypeOK, OpOfPc, BackupPcs, RestorePcs, ResetPcs,
       SharedPcs, stores, Go
  <1>24. CASE DeleteAllObjects
    BY ZenonT(40), <1>24 DEF DeleteAllObjects, On, DataTypeOK, OpOfPc, BackupPcs, RestorePcs, ResetPcs,
       SharedPcs, stores
  <1>25. CASE CommandEnds
    BY <1>25 DEF CommandEnds, On, DataTypeOK, OpOfPc, BackupPcs, RestorePcs, ResetPcs,
       SharedPcs, stores, IdleCmd, NoBundle
  <1> QED
    BY <1>1, <1>2, <1>3, <1>4, <1>5, <1>6, <1>7, <1>8, <1>9, <1>10, <1>11, <1>12, <1>13,
       <1>14, <1>15, <1>16, <1>17, <1>18, <1>19, <1>20, <1>21, <1>22, <1>23, <1>24, <1>25
    DEF CommandStep, BackupStep, RestoreStep, DestroyStep

\* No command gets past a check that would refuse it later.
LEMMA CommandKeepsChecked ==
  ASSUME DataTypeOK, OpOfPc, Checked, CommandStep PROVE Checked'
  <1>1. CASE CheckStatus
    BY <1>1 DEF CheckStatus, On, DataTypeOK, Checked, OpOfPc, Acceptable, BackupPcs,
       RestorePcs, ResetPcs, SharedPcs, stores, Go
  <1>2. CASE RequireDOFSStopped
    BY <1>2, RequireSets DEF Checked, OpOfPc, Acceptable, BackupPcs, RestorePcs, ResetPcs,
       SharedPcs
  <1>3. CASE BeginBackup
    BY <1>3, BeginSets DEF BeginBackup, Checked, OpOfPc, Acceptable, BackupPcs, RestorePcs,
       ResetPcs, SharedPcs
  <1>4. CASE ListObjects
    BY <1>4 DEF ListObjects, On, DataTypeOK, Checked, OpOfPc, Acceptable, BackupPcs,
       RestorePcs, ResetPcs, SharedPcs, stores, NoBundle
  <1>5. ASSUME NEW o \in Objects, CopyObject(o) PROVE Checked'
    BY <1>5 DEF CopyObject, On, DataTypeOK, Checked, OpOfPc, Acceptable, BackupPcs,
       RestorePcs, ResetPcs, SharedPcs, stores
  <1>6. CASE DumpDatabase
    BY <1>6 DEF DumpDatabase, On, DataTypeOK, Checked, OpOfPc, Acceptable, BackupPcs,
       RestorePcs, ResetPcs, SharedPcs, stores, Go
  <1>7. CASE Checkpoint
    BY <1>7 DEF Checkpoint, On, DataTypeOK, Checked, OpOfPc, Acceptable, BackupPcs,
       RestorePcs, ResetPcs, SharedPcs, stores, Go, Checkpointed, Content
  <1>8. CASE CopyMetadata
    BY <1>8 DEF CopyMetadata, On, DataTypeOK, Checked, OpOfPc, Acceptable, BackupPcs,
       RestorePcs, ResetPcs, SharedPcs, stores, Go
  <1>9. CASE WriteManifest
    BY <1>9 DEF WriteManifest, On, DataTypeOK, Checked, OpOfPc, Acceptable, BackupPcs,
       RestorePcs, ResetPcs, SharedPcs, stores, Go
  <1>10. CASE CreateTarGz
    BY <1>10 DEF CreateTarGz, On, DataTypeOK, Checked, OpOfPc, Acceptable, BackupPcs,
       RestorePcs, ResetPcs, SharedPcs, stores, Go
  <1>11. CASE BeginRestore
    BY <1>11, BeginSets DEF BeginRestore, Checked, OpOfPc, Acceptable, BackupPcs,
       RestorePcs, ResetPcs, SharedPcs
  <1>12. CASE ValidateBundle
    BY <1>12 DEF ValidateBundle, On, DataTypeOK, Checked, OpOfPc, Acceptable, BackupPcs,
       RestorePcs, ResetPcs, SharedPcs, stores, Go
  <1>13. ASSUME NEW o \in Objects, PutObject(o) PROVE Checked'
    BY <1>13 DEF PutObject, On, DataTypeOK, Checked, OpOfPc, Acceptable, BackupPcs,
       RestorePcs, ResetPcs, SharedPcs, stores
  <1>14. CASE ImportDatabase
    BY <1>14 DEF ImportDatabase, On, DataTypeOK, Checked, OpOfPc, Acceptable, BackupPcs,
       RestorePcs, ResetPcs, SharedPcs, stores, Go, IdleCmd
  <1>15. CASE RemoveOldLog
    BY <1>15 DEF RemoveOldLog, On, DataTypeOK, Checked, OpOfPc, Acceptable, BackupPcs,
       RestorePcs, ResetPcs, SharedPcs, stores, Go
  <1>16. CASE RenameMetadata
    BY <1>16 DEF RenameMetadata, On, DataTypeOK, Checked, OpOfPc, Acceptable, BackupPcs,
       RestorePcs, ResetPcs, SharedPcs, stores, Go
  <1>17. CASE BeginReset
    BY <1>17, BeginSets DEF BeginReset, Checked, OpOfPc, Acceptable, BackupPcs, RestorePcs,
       ResetPcs, SharedPcs
  <1>18. CASE ValidatePaths
    BY <1>18 DEF ValidatePaths, On, DataTypeOK, Checked, OpOfPc, Acceptable, BackupPcs,
       RestorePcs, ResetPcs, SharedPcs, stores, Go
  <1>19. CASE CheckBucket
    BY <1>19 DEF CheckBucket, On, DataTypeOK, Checked, OpOfPc, Acceptable, BackupPcs,
       RestorePcs, ResetPcs, SharedPcs, stores, Go
  <1>20. CASE ResetDatabase
    BY <1>20 DEF ResetDatabase, On, DataTypeOK, Checked, OpOfPc, Acceptable, BackupPcs,
       RestorePcs, ResetPcs, SharedPcs, stores, Go
  <1>21. CASE ClearMetadataFile
    BY <1>21 DEF ClearMetadataFile, On, DataTypeOK, Checked, OpOfPc, Acceptable, BackupPcs,
       RestorePcs, ResetPcs, SharedPcs, stores, Go
  <1>22. CASE ClearMetadataLog
    BY <1>22 DEF ClearMetadataLog, On, DataTypeOK, Checked, OpOfPc, Acceptable, BackupPcs,
       RestorePcs, ResetPcs, SharedPcs, stores, Go
  <1>23. CASE ClearRuntimeState
    BY <1>23 DEF ClearRuntimeState, On, DataTypeOK, Checked, OpOfPc, Acceptable, BackupPcs,
       RestorePcs, ResetPcs, SharedPcs, stores, Go
  <1>24. CASE DeleteAllObjects
    BY ZenonT(40), <1>24 DEF DeleteAllObjects, On, DataTypeOK, Checked, OpOfPc, Acceptable, BackupPcs,
       RestorePcs, ResetPcs, SharedPcs, stores
  <1>25. CASE CommandEnds
    BY <1>25 DEF CommandEnds, On, DataTypeOK, Checked, OpOfPc, Acceptable, BackupPcs,
       RestorePcs, ResetPcs, SharedPcs, stores, IdleCmd, NoBundle
  <1> QED
    BY <1>1, <1>2, <1>3, <1>4, <1>5, <1>6, <1>7, <1>8, <1>9, <1>10, <1>11, <1>12, <1>13,
       <1>14, <1>15, <1>16, <1>17, <1>18, <1>19, <1>20, <1>21, <1>22, <1>23, <1>24, <1>25
    DEF CommandStep, BackupStep, RestoreStep, DestroyStep

\* A backup takes in what the stores hold, one after the other.
LEMMA CommandKeepsCopied ==
  ASSUME DataTypeOK, OpOfPc, Copied, CommandStep PROVE Copied'
  <1>1. CASE CheckStatus
    BY <1>1 DEF CheckStatus, On, DataTypeOK, Copied, Content, OpOfPc, BackupPcs, RestorePcs,
       ResetPcs, SharedPcs, stores, Go
  <1>2. CASE RequireDOFSStopped
    BY <1>2, RequireSets DEF Copied, Content, OpOfPc, BackupPcs, RestorePcs, ResetPcs,
       SharedPcs
  <1>3. CASE BeginBackup
    BY <1>3, BeginSets DEF BeginBackup, Copied, Content, OpOfPc, BackupPcs, RestorePcs,
       ResetPcs, SharedPcs
  <1>4. CASE ListObjects
    BY <1>4 DEF ListObjects, On, DataTypeOK, Copied, Content, OpOfPc, BackupPcs, RestorePcs,
       ResetPcs, SharedPcs, stores, NoBundle
  <1>5. ASSUME NEW o \in Objects, CopyObject(o) PROVE Copied'
    BY <1>5 DEF CopyObject, On, DataTypeOK, Copied, Content, OpOfPc, BackupPcs, RestorePcs,
       ResetPcs, SharedPcs, stores
  <1>6. CASE DumpDatabase
    BY <1>6 DEF DumpDatabase, On, DataTypeOK, Copied, Content, OpOfPc, BackupPcs,
       RestorePcs, ResetPcs, SharedPcs, stores, Go
  <1>7. CASE Checkpoint
    BY <1>7 DEF Checkpoint, On, DataTypeOK, Copied, Content, OpOfPc, BackupPcs, RestorePcs,
       ResetPcs, SharedPcs, stores, Go, Checkpointed, Content
  <1>8. CASE CopyMetadata
    BY <1>8 DEF CopyMetadata, On, DataTypeOK, Copied, Content, OpOfPc, BackupPcs,
       RestorePcs, ResetPcs, SharedPcs, stores, Go
  <1>9. CASE WriteManifest
    BY <1>9 DEF WriteManifest, On, DataTypeOK, Copied, Content, OpOfPc, BackupPcs,
       RestorePcs, ResetPcs, SharedPcs, stores, Go
  <1>10. CASE CreateTarGz
    BY <1>10 DEF CreateTarGz, On, DataTypeOK, Copied, Content, OpOfPc, BackupPcs,
       RestorePcs, ResetPcs, SharedPcs, stores, Go
  <1>11. CASE BeginRestore
    BY <1>11, BeginSets DEF BeginRestore, Copied, Content, OpOfPc, BackupPcs, RestorePcs,
       ResetPcs, SharedPcs
  <1>12. CASE ValidateBundle
    BY <1>12 DEF ValidateBundle, On, DataTypeOK, Copied, Content, OpOfPc, BackupPcs,
       RestorePcs, ResetPcs, SharedPcs, stores, Go
  <1>13. ASSUME NEW o \in Objects, PutObject(o) PROVE Copied'
    BY <1>13 DEF PutObject, On, DataTypeOK, Copied, Content, OpOfPc, BackupPcs, RestorePcs,
       ResetPcs, SharedPcs, stores
  <1>14. CASE ImportDatabase
    BY <1>14 DEF ImportDatabase, On, DataTypeOK, Copied, Content, OpOfPc, BackupPcs,
       RestorePcs, ResetPcs, SharedPcs, stores, Go, IdleCmd
  <1>15. CASE RemoveOldLog
    BY <1>15 DEF RemoveOldLog, On, DataTypeOK, Copied, Content, OpOfPc, BackupPcs,
       RestorePcs, ResetPcs, SharedPcs, stores, Go
  <1>16. CASE RenameMetadata
    BY <1>16 DEF RenameMetadata, On, DataTypeOK, Copied, Content, OpOfPc, BackupPcs,
       RestorePcs, ResetPcs, SharedPcs, stores, Go
  <1>17. CASE BeginReset
    BY <1>17, BeginSets DEF BeginReset, Copied, Content, OpOfPc, BackupPcs, RestorePcs,
       ResetPcs, SharedPcs
  <1>18. CASE ValidatePaths
    BY <1>18 DEF ValidatePaths, On, DataTypeOK, Copied, Content, OpOfPc, BackupPcs,
       RestorePcs, ResetPcs, SharedPcs, stores, Go
  <1>19. CASE CheckBucket
    BY <1>19 DEF CheckBucket, On, DataTypeOK, Copied, Content, OpOfPc, BackupPcs,
       RestorePcs, ResetPcs, SharedPcs, stores, Go
  <1>20. CASE ResetDatabase
    BY <1>20 DEF ResetDatabase, On, DataTypeOK, Copied, Content, OpOfPc, BackupPcs,
       RestorePcs, ResetPcs, SharedPcs, stores, Go
  <1>21. CASE ClearMetadataFile
    BY <1>21 DEF ClearMetadataFile, On, DataTypeOK, Copied, Content, OpOfPc, BackupPcs,
       RestorePcs, ResetPcs, SharedPcs, stores, Go
  <1>22. CASE ClearMetadataLog
    BY <1>22 DEF ClearMetadataLog, On, DataTypeOK, Copied, Content, OpOfPc, BackupPcs,
       RestorePcs, ResetPcs, SharedPcs, stores, Go
  <1>23. CASE ClearRuntimeState
    BY <1>23 DEF ClearRuntimeState, On, DataTypeOK, Copied, Content, OpOfPc, BackupPcs,
       RestorePcs, ResetPcs, SharedPcs, stores, Go
  <1>24. CASE DeleteAllObjects
    BY ZenonT(40), <1>24 DEF DeleteAllObjects, On, DataTypeOK, Copied, Content, OpOfPc, BackupPcs,
       RestorePcs, ResetPcs, SharedPcs, stores
  <1>25. CASE CommandEnds
    BY <1>25 DEF CommandEnds, On, DataTypeOK, Copied, Content, OpOfPc, BackupPcs,
       RestorePcs, ResetPcs, SharedPcs, stores, IdleCmd, NoBundle
  <1> QED
    BY <1>1, <1>2, <1>3, <1>4, <1>5, <1>6, <1>7, <1>8, <1>9, <1>10, <1>11, <1>12, <1>13,
       <1>14, <1>15, <1>16, <1>17, <1>18, <1>19, <1>20, <1>21, <1>22, <1>23, <1>24, <1>25
    DEF CommandStep, BackupStep, RestoreStep, DestroyStep

\* Restore and reset put their stores into the state they leave, one after the other.
LEMMA CommandKeepsCleared ==
  ASSUME DataTypeOK, OpOfPc, Checked, Cleared, CommandStep PROVE Cleared'
  <1>1. CASE CheckStatus
    BY <1>1 DEF CheckStatus, On, DataTypeOK, Cleared, OpOfPc, BackupPcs, RestorePcs,
       ResetPcs, SharedPcs, stores, Go
  <1>2. CASE RequireDOFSStopped
    BY <1>2, RequireSets DEF Cleared, OpOfPc, BackupPcs, RestorePcs, ResetPcs, SharedPcs
  <1>3. CASE BeginBackup
    BY <1>3, BeginSets DEF BeginBackup, Cleared, OpOfPc, BackupPcs, RestorePcs, ResetPcs,
       SharedPcs
  <1>4. CASE ListObjects
    BY <1>4 DEF ListObjects, On, DataTypeOK, Cleared, OpOfPc, BackupPcs, RestorePcs,
       ResetPcs, SharedPcs, stores, NoBundle
  <1>5. ASSUME NEW o \in Objects, CopyObject(o) PROVE Cleared'
    BY <1>5 DEF CopyObject, On, DataTypeOK, Cleared, OpOfPc, BackupPcs, RestorePcs,
       ResetPcs, SharedPcs, stores
  <1>6. CASE DumpDatabase
    BY <1>6 DEF DumpDatabase, On, DataTypeOK, Cleared, OpOfPc, BackupPcs, RestorePcs,
       ResetPcs, SharedPcs, stores, Go
  <1>7. CASE Checkpoint
    BY <1>7 DEF Checkpoint, On, DataTypeOK, Cleared, OpOfPc, BackupPcs, RestorePcs,
       ResetPcs, SharedPcs, stores, Go, Checkpointed, Content
  <1>8. CASE CopyMetadata
    BY <1>8 DEF CopyMetadata, On, DataTypeOK, Cleared, OpOfPc, BackupPcs, RestorePcs,
       ResetPcs, SharedPcs, stores, Go
  <1>9. CASE WriteManifest
    BY <1>9 DEF WriteManifest, On, DataTypeOK, Cleared, OpOfPc, BackupPcs, RestorePcs,
       ResetPcs, SharedPcs, stores, Go
  <1>10. CASE CreateTarGz
    BY <1>10 DEF CreateTarGz, On, DataTypeOK, Cleared, OpOfPc, BackupPcs, RestorePcs,
       ResetPcs, SharedPcs, stores, Go
  <1>11. CASE BeginRestore
    BY <1>11, BeginSets DEF BeginRestore, Cleared, OpOfPc, BackupPcs, RestorePcs, ResetPcs,
       SharedPcs
  <1>12. CASE ValidateBundle
    BY <1>12 DEF ValidateBundle, On, DataTypeOK, Cleared, OpOfPc, BackupPcs, RestorePcs,
       ResetPcs, SharedPcs, stores, Go
  <1>13. ASSUME NEW o \in Objects, PutObject(o) PROVE Cleared'
    BY <1>13 DEF PutObject, On, DataTypeOK, Cleared, OpOfPc, BackupPcs, RestorePcs,
       ResetPcs, SharedPcs, stores
  <1>14. CASE ImportDatabase
    BY <1>14 DEF ImportDatabase, On, DataTypeOK, Cleared, OpOfPc, BackupPcs, RestorePcs,
       ResetPcs, SharedPcs, stores, Go, IdleCmd
  <1>15. CASE RemoveOldLog
    BY <1>15 DEF RemoveOldLog, On, DataTypeOK, Cleared, OpOfPc, BackupPcs, RestorePcs,
       ResetPcs, SharedPcs, stores, Go
  <1>16. CASE RenameMetadata
    BY <1>16 DEF RenameMetadata, On, DataTypeOK, Cleared, OpOfPc, BackupPcs, RestorePcs,
       ResetPcs, SharedPcs, stores, Go
  <1>17. CASE BeginReset
    BY <1>17, BeginSets DEF BeginReset, Cleared, OpOfPc, BackupPcs, RestorePcs, ResetPcs,
       SharedPcs
  <1>18. CASE ValidatePaths
    BY <1>18 DEF ValidatePaths, On, DataTypeOK, Cleared, OpOfPc, BackupPcs, RestorePcs,
       ResetPcs, SharedPcs, stores, Go
  <1>19. CASE CheckBucket
    BY <1>19 DEF CheckBucket, On, DataTypeOK, Cleared, OpOfPc, BackupPcs, RestorePcs,
       ResetPcs, SharedPcs, stores, Go
  <1>20. CASE ResetDatabase
    BY <1>20 DEF ResetDatabase, On, DataTypeOK, Cleared, OpOfPc, BackupPcs, RestorePcs,
       ResetPcs, SharedPcs, stores, Go
  <1>21. CASE ClearMetadataFile
    BY <1>21 DEF ClearMetadataFile, On, DataTypeOK, Cleared, OpOfPc, BackupPcs, RestorePcs,
       ResetPcs, SharedPcs, stores, Go
  <1>22. CASE ClearMetadataLog
    BY <1>22 DEF ClearMetadataLog, On, DataTypeOK, Cleared, OpOfPc, BackupPcs, RestorePcs,
       ResetPcs, SharedPcs, stores, Go
  <1>23. CASE ClearRuntimeState
    BY <1>23 DEF ClearRuntimeState, On, DataTypeOK, Cleared, OpOfPc, BackupPcs, RestorePcs,
       ResetPcs, SharedPcs, stores, Go
  <1>24. CASE DeleteAllObjects
    BY ZenonT(40), <1>24 DEF DeleteAllObjects, On, DataTypeOK, Cleared, OpOfPc, BackupPcs, RestorePcs,
       ResetPcs, SharedPcs, stores
  <1>25. CASE CommandEnds
    BY <1>25 DEF CommandEnds, On, DataTypeOK, Cleared, OpOfPc, BackupPcs, RestorePcs,
       ResetPcs, SharedPcs, stores, IdleCmd, NoBundle
  <1> QED
    BY <1>1, <1>2, <1>3, <1>4, <1>5, <1>6, <1>7, <1>8, <1>9, <1>10, <1>11, <1>12, <1>13,
       <1>14, <1>15, <1>16, <1>17, <1>18, <1>19, <1>20, <1>21, <1>22, <1>23, <1>24, <1>25
    DEF CommandStep, BackupStep, RestoreStep, DestroyStep

\* No service comes or goes with a step of a command; its checks find those that run.
LEMMA CommandKeepsNobodyElse ==
  ASSUME DataTypeOK, OpOfPc, LockInv, NobodyElse, CommandStep PROVE NobodyElse'
  <1>0. /\ UNCHANGED mounts /\ (Used' <=> Used)
        /\ \A s \in Servers : (Serving(s)' <=> Serving(s)) /\ (Evicted(s)' <=> Evicted(s))
    BY DEF CommandStep, lockVars, Serving, Evicted, Pc, Used
  <1>1. CASE CheckStatus
    <2>1. \A s \in Servers : Serving(s) => Evicted(s)
      BY <1>1, ServiceLockAssumption
      DEF CheckStatus, NotRunning, Holders, LockInv, Base, HasOpen, Serving, Evicted, Pc
    <2> QED BY <1>0, <1>1, <2>1 DEF CheckStatus, Go, DataTypeOK, NobodyElse
  <1>2. CASE RequireDOFSStopped
    <2>1. cmd'.pc \notin {"idle", "status", "dofs"} /\ cmd.pc = "dofs" /\ mounts # "serving"
      BY <1>2, RequireSets
    <2>2. cmd'.company = IF cmd.company = "none" /\ Used THEN "unseen" ELSE cmd.company
      BY <1>2, RequireSets
    <2> QED BY <1>0, <2>1, <2>2 DEF NobodyElse
  <1>3. CASE BeginBackup
    BY <1>0, <1>3, BeginSets DEF BeginBackup, NobodyElse
  <1>4. CASE ListObjects
    BY <1>0, <1>4 DEF ListObjects, On, DataTypeOK, NobodyElse
  <1>5. ASSUME NEW o \in Objects, CopyObject(o) PROVE NobodyElse'
    BY <1>0, <1>5 DEF CopyObject, On, DataTypeOK, NobodyElse
  <1>6. CASE DumpDatabase
    BY <1>0, <1>6 DEF DumpDatabase, On, DataTypeOK, NobodyElse, Go
  <1>7. CASE Checkpoint
    BY <1>0, <1>7 DEF Checkpoint, On, DataTypeOK, NobodyElse, Go
  <1>8. CASE CopyMetadata
    BY <1>0, <1>8 DEF CopyMetadata, On, DataTypeOK, NobodyElse, Go
  <1>9. CASE WriteManifest
    BY <1>0, <1>9 DEF WriteManifest, On, DataTypeOK, NobodyElse, Go
  <1>10. CASE CreateTarGz
    BY <1>0, <1>10 DEF CreateTarGz, On, DataTypeOK, NobodyElse, Go
  <1>11. CASE BeginRestore
    BY <1>0, <1>11, BeginSets DEF BeginRestore, NobodyElse
  <1>12. CASE ValidateBundle
    BY <1>0, <1>12 DEF ValidateBundle, On, DataTypeOK, NobodyElse, Go
  <1>13. ASSUME NEW o \in Objects, PutObject(o) PROVE NobodyElse'
    BY <1>0, <1>13 DEF PutObject, On, DataTypeOK, NobodyElse
  <1>14. CASE ImportDatabase
    BY <1>0, <1>14 DEF ImportDatabase, On, DataTypeOK, NobodyElse, Go, IdleCmd
  <1>15. CASE RemoveOldLog
    BY <1>0, <1>15 DEF RemoveOldLog, On, DataTypeOK, NobodyElse, Go
  <1>16. CASE RenameMetadata
    BY <1>0, <1>16 DEF RenameMetadata, On, DataTypeOK, NobodyElse, Go
  <1>17. CASE BeginReset
    BY <1>0, <1>17, BeginSets DEF BeginReset, NobodyElse
  <1>18. CASE ValidatePaths
    BY <1>0, <1>18 DEF ValidatePaths, On, DataTypeOK, NobodyElse, Go
  <1>19. CASE CheckBucket
    BY <1>0, <1>19 DEF CheckBucket, On, DataTypeOK, NobodyElse, Go
  <1>20. CASE ResetDatabase
    BY <1>0, <1>20 DEF ResetDatabase, On, DataTypeOK, NobodyElse, Go
  <1>21. CASE ClearMetadataFile
    BY <1>0, <1>21 DEF ClearMetadataFile, On, DataTypeOK, NobodyElse, Go
  <1>22. CASE ClearMetadataLog
    BY <1>0, <1>22 DEF ClearMetadataLog, On, DataTypeOK, NobodyElse, Go
  <1>23. CASE ClearRuntimeState
    BY <1>0, <1>23 DEF ClearRuntimeState, On, DataTypeOK, NobodyElse, Go
  <1>24. CASE DeleteAllObjects
    BY <1>0, <1>24 DEF DeleteAllObjects, On, DataTypeOK, NobodyElse
  <1>25. CASE CommandEnds
    BY <1>0, <1>25 DEF CommandEnds, On, DataTypeOK, NobodyElse, IdleCmd
  <1> QED
    BY <1>1, <1>2, <1>3, <1>4, <1>5, <1>6, <1>7, <1>8, <1>9, <1>10, <1>11, <1>12, <1>13,
       <1>14, <1>15, <1>16, <1>17, <1>18, <1>19, <1>20, <1>21, <1>22, <1>23, <1>24, <1>25
    DEF CommandStep, BackupStep, RestoreStep, DestroyStep

-----------------------------------------------------------------------------
(* The steps of the services.                                              *)

\* The services keep the types of what they write.
LEMMA ServicesKeepTypes ==
  ASSUME DataTypeOK, ServiceStep PROVE DataTypeOK'
  <1> USE DEF DataTypeOK, Contents
  <1>1. JoinCommand => cmd' \in [op : {"none", "backup", "restore", "reset"}, pc : Pcs,
                     left : SUBSET Objects, obstacle : Obstacles, company : {"none", "unseen", "late"}]
    BY DEF JoinCommand
  <1>2. Content \in SUBSET Objects
    BY DEF Content
  <1>3. Checkpointed \in [file : Contents, log : Contents, foreign : BOOLEAN]
    BY <1>2 DEF Checkpointed
  <1>4. OpenStores => meta' \in [file : Contents, log : Contents, foreign : BOOLEAN]
    BY DEF OpenStores
  <1>5. CASE ServicesStart
    <2>1. CASE StartingStep /\ UNCHANGED <<stores, mounts, cmd>>
      BY <2>1 DEF ServiceStep, stores
    <2>2. CASE \E s \in Servers : ServerUp(s)
      BY <1>1, <1>4, <2>2 DEF ServiceStep, ServerUp, OpenStores
    <2>3. CASE StartMounts \/ ServeControl
      BY <1>1, <1>4, <2>3 DEF ServiceStep, StartMounts, ServeControl, OpenStores, stores
    <2> QED BY <1>5, <2>1, <2>2, <2>3 DEF ServicesStart
  <1>6. CASE ServicesStop
    <2>1. CASE StoppingStep /\ UNCHANGED <<stores, mounts, cmd>>
      BY <2>1 DEF ServiceStep, stores
    <2>2. CASE \E s \in Servers : ServerEnds(s) \/ ServerCrashes(s)
      BY <1>3, <2>2 DEF ServiceStep, ServerEnds, ServerCrashes, stores
    <2>3. CASE StopControl \/ StopMounts \/ CrashMounts
      BY <1>3, <2>3 DEF ServiceStep, StopControl, StopMounts, CrashMounts, stores
    <2> QED BY <1>6, <2>1, <2>2, <2>3 DEF ServicesStop
  <1>7. CASE Work
    <2>1. UNCHANGED <<mounts, cmd, bundle>>
      BY <1>7 DEF ServiceStep, Work
    <2>2. CASE \E o \in Objects : WriteObject(o)
      BY <2>1, <2>2 DEF WriteObject
    <2>3. CASE \E o \in Objects : Commit(o)
      <3>0. PICK o \in Objects : Commit(o)
        BY <2>3
      <3>1. PICK c \in {Content \cup {o}, Content \ {o}} :
              meta' = [meta EXCEPT !.log = c] /\ UNCHANGED <<objs, db, spool>>
        BY <3>0 DEF Commit
      <3>2. c \in SUBSET Objects
        BY <1>2, <3>1
      <3> QED BY <2>1, <3>1, <3>2
    <2>4. CASE Project
      <3>1. db' \in SUBSET Objects /\ UNCHANGED <<objs, spool, meta>>
        BY <1>2, <2>4 DEF Project
      <3> QED BY <2>1, <3>1
    <2>5. CASE KeepState
      BY <1>2, <2>1, <2>5 DEF KeepState
    <2> QED BY <1>7, <2>2, <2>3, <2>4, <2>5 DEF Work
  <1> QED BY <1>5, <1>6, <1>7 DEF ServiceStep

\* A start never serves the file at the path to a server that has lost it.
LEMMA StartingKeepsEvicted ==
  ASSUME LockInv, StartingStep, NEW t \in Servers, Serving(t) => Evicted(t)
  PROVE  Serving(t)' => Evicted(t)'
  <1>0. server \in [Servers -> [pc : ServerPcs, ino : Inodes \cup {None}]]
    BY DEF LockInv, Base, LockTypeOK
  <1>1. ASSUME NEW s \in Servers, Start(s) \/ Lock(s) \/ AlreadyRunning(s)
        PROVE  Serving(t)' => Evicted(t)'
    BY <1>0, <1>1 DEF Start, Lock, AlreadyRunning, Move, Down, Serving, Evicted, Pc
  <1>2. ASSUME NEW s \in Servers, OpenFile(s) PROVE Serving(t)' => Evicted(t)'
    <2>1. Serving(t) => server[t].ino \in Inodes
      BY DEF LockInv, Base, Serving, HasOpen
    <2> QED BY <1>0, <1>2, <2>1 DEF OpenFile, Serving, Evicted, Pc
  <1> QED BY <1>1, <1>2 DEF StartingStep

LEMMA ServicesKeepOrder ==
  ASSUME LockInv, Ordered, ServiceStep PROVE Ordered'
  <1>1. DataTypeOK'
    BY ServicesKeepTypes DEF Ordered
  <1>2. CASE cmd.pc = "idle"
    <2>1. UNCHANGED <<cmd, bundle>> /\ cmd.op = "none"
      BY <1>2, ServicesWithoutCommand DEF Ordered, OpOfPc
    <2> QED
      BY <1>1, <1>2, <2>1
      DEF Ordered, OpOfPc, NobodyElse, Copied, Checked, Cleared,
          BackupPcs, RestorePcs, ResetPcs, SharedPcs
  <1>3. CASE cmd.pc # "idle" /\ cmd' = [cmd EXCEPT !.company = "late"]
    <2>1. UNCHANGED <<objs, db, spool, bundle>>
      BY <1>3, ServicesAndCommand DEF Ordered
    <2>2. /\ cmd'.company = "late" /\ cmd'.pc = cmd.pc /\ cmd'.op = cmd.op
          /\ cmd'.left = cmd.left /\ cmd'.obstacle = cmd.obstacle
      BY <1>3 DEF Ordered, DataTypeOK
    <2>3. OpOfPc' /\ NobodyElse'
      BY <2>1, <2>2 DEF Ordered, OpOfPc, NobodyElse
    <2>4. Copied' /\ Checked' /\ Cleared'
      BY <2>1, <2>2 DEF Ordered, Copied, Checked, Cleared, Acceptable
    <2> QED BY <1>1, <2>3, <2>4 DEF Ordered
  <1>4. CASE cmd.pc # "idle" /\ UNCHANGED <<cmd, meta, mounts>> /\ StartingStep
    <2>1. UNCHANGED <<objs, db, spool, bundle>>
      BY <1>4, ServicesAndCommand DEF Ordered
    <2>2. \A s \in Servers : (Serving(s) => Evicted(s)) => (Serving(s)' => Evicted(s)')
      BY <1>4, StartingKeepsEvicted
    <2>3. \A s \in Servers : Serving(s)' => Serving(s)
      BY <1>4
      DEF StartingStep, Start, OpenFile, Lock, AlreadyRunning, Move, Down, Serving, Pc,
          LockInv, Base, LockTypeOK
    <2>4. NobodyElse'
      BY <1>4, <2>2, <2>3 DEF Ordered, NobodyElse, Used
    <2>5. OpOfPc' /\ Copied' /\ Checked' /\ Cleared'
      BY <1>4, <2>1 DEF Ordered, OpOfPc, Copied, Checked, Cleared, Acceptable, Content
    <2> QED BY <1>1, <2>4, <2>5 DEF Ordered
  <1> QED BY <1>2, <1>3, <1>4, ServicesAndCommand DEF Ordered

\* Nobody reads a backup while it is damaged.
LEMMA DamageKeepsOrder ==
  ASSUME Ordered, BundleDamaged PROVE Ordered'
  <1>1. UNCHANGED <<lockVars, objs, db, meta, spool, mounts, cmd>> /\ cmd.pc = "idle" /\ cmd.op = "none"
    BY DEF BundleDamaged, stores, Ordered, OpOfPc
  <1>2. /\ bundle' \in [kind : {"none", "kept", "stage"}, objs : SUBSET Objects,
                        db : Contents, meta : Contents, manifest : Contents]
        /\ bundle'.kind # "stage"
    BY DEF BundleDamaged, NoBundle, Contents, Ordered, DataTypeOK
  <1> QED
    BY <1>1, <1>2
    DEF Ordered, DataTypeOK, OpOfPc, NobodyElse, Copied, Checked, Cleared,
        BackupPcs, RestorePcs, ResetPcs, SharedPcs

-----------------------------------------------------------------------------
(* The invariant, and what follows from it.                                *)

LEMMA IInvIsInductive == IInv /\ [Next]_vars => IInv'
  <1> SUFFICES ASSUME IInv, [Next]_vars PROVE IInv'
    OBVIOUS
  <1>1. LockInv'
    BY NextIsLockStep, LockInvIsInductive DEF IInv
  <1>2. CASE UNCHANGED vars
    BY <1>1, <1>2
    DEF vars, stores, lockVars, IInv, Ordered, DataTypeOK, OpOfPc, NobodyElse, Copied, Checked,
        Cleared, Acceptable, Content, Used, Serving, Evicted, Pc
  <1>3. CASE ServiceStep
    BY <1>1, <1>3, ServicesKeepOrder DEF IInv
  <1>4. CASE CommandStep
    BY <1>1, <1>4, CommandKeepsTypes, CommandKeepsOpOfPc, CommandKeepsNobodyElse,
       CommandKeepsCopied, CommandKeepsChecked, CommandKeepsCleared
    DEF IInv, Ordered
  <1>5. CASE BundleDamaged
    BY <1>1, <1>5, DamageKeepsOrder DEF IInv
  <1> QED BY <1>2, <1>3, <1>4, <1>5 DEF Next

LEMMA IInvGivesInvariants == IInv => TypeOK /\ OneServer /\ OfflineAlone /\ SucceedsExactly
  <1> SUFFICES ASSUME IInv PROVE TypeOK /\ OneServer /\ OfflineAlone /\ SucceedsExactly
    OBVIOUS
  <1>1. TypeOK
    <2>1. bundle.kind = "stage" => cmd.op = "backup"
      BY DEF IInv, Ordered, OpOfPc
    <2>2. LockTypeOK /\ DataTypeOK
      BY DEF IInv, LockInv, Base, Ordered
    <2> QED
      BY <2>1, <2>2 DEF TypeOK, DataTypeOK, Pcs, BackupPcs, RestorePcs, ResetPcs, SharedPcs
  <1>2. OneServer
    BY LockInvGivesOneServer DEF IInv
  <1>3. OfflineAlone
    BY DEF IInv, Ordered, NobodyElse, OfflineAlone
  <1>4. SucceedsExactly
    BY DEF IInv, Ordered, DataTypeOK, Cleared, SucceedsExactly, Destroying
  <1> QED BY <1>1, <1>2, <1>3, <1>4

\* The types: in particular, what an archive is staged in never outlives its backup.
THEOREM TypeCorrect == Spec => []TypeOK
  <1> QED BY InitHolds, IInvIsInductive, IInvGivesInvariants, PTL DEF Spec

\* With any number of servers, and whatever the offline commands do besides.
THEOREM OneServerHolds == Spec => []OneServer
  <1> QED BY InitHolds, IInvIsInductive, IInvGivesInvariants, PTL DEF Spec

\* A command that is past its checks meets no server and no DOFS service that serves,
\* but those that started afterwards or lost their PID file.
THEOREM OfflineAloneHolds == Spec => []OfflineAlone
  <1> QED BY InitHolds, IInvIsInductive, IInvGivesInvariants, PTL DEF Spec

\* A restore or reset that succeeds leaves nothing of what was there before, whatever
\* failed before it.
THEOREM SucceedsExactlyHolds == Spec => []SucceedsExactly
  <1> QED BY InitHolds, IInvIsInductive, IInvGivesInvariants, PTL DEF Spec

\* A command that is on writes to the metadata with nobody else around.
LEMMA CommandLogBelongs ==
  ASSUME IInv, CommandStep, ~meta.foreign, meta'.foreign PROVE cmd.company # "none"
  <1>0. meta \in [file : Contents, log : Contents, foreign : BOOLEAN] /\ ~Checkpointed.foreign
    BY DEF IInv, Ordered, DataTypeOK, Checkpointed
  <1>a. meta' # meta
    OBVIOUS
  <1>b. ~CheckStatus /\ ~RequireDOFSStopped /\ ~CommandEnds
    BY <1>a DEF CheckStatus, RequireDOFSStopped, CommandEnds, stores
  <1>c. ~BackupStep
    <2>1. ~BeginBackup /\ ~ListObjects /\ ~DumpDatabase
      BY <1>a DEF BeginBackup, Begin, ListObjects, DumpDatabase, stores
    <2>2. ~(\E o \in Objects : CopyObject(o)) /\ ~CopyMetadata /\ ~WriteManifest /\ ~CreateTarGz
      BY <1>a DEF CopyObject, CopyMetadata, WriteManifest, CreateTarGz, stores
    <2>3. ~Checkpoint
      BY <1>0 DEF Checkpoint
    <2> QED BY <2>1, <2>2, <2>3 DEF BackupStep
  <1>d. ~DestroyStep
    <2>1. ~BeginReset /\ ~ValidatePaths /\ ~CheckBucket
      BY <1>a DEF BeginReset, Begin, ValidatePaths, CheckBucket, stores
    <2>2. ~ResetDatabase /\ ~ClearRuntimeState /\ ~DeleteAllObjects
      BY <1>a DEF ResetDatabase, ClearRuntimeState, DeleteAllObjects
    <2>3. ~ClearMetadataFile /\ ~ClearMetadataLog
      BY <1>0 DEF ClearMetadataFile, ClearMetadataLog
    <2> QED BY <2>1, <2>2, <2>3 DEF DestroyStep
  <1>e. ~BeginRestore /\ ~ValidateBundle /\ ~ImportDatabase /\ ~(\E o \in Objects : PutObject(o))
    BY <1>a DEF BeginRestore, Begin, ValidateBundle, ImportDatabase, PutObject, stores
  <1>f. ~RemoveOldLog
    BY <1>0 DEF RemoveOldLog
  <1>1. RenameMetadata
    BY <1>b, <1>c, <1>d, <1>e, <1>f DEF CommandStep, RestoreStep
  <1>2. cmd.op = "restore" /\ cmd.pc = "rename" /\ meta.log # None
    BY <1>1 DEF RenameMetadata, IInv, Ordered, DataTypeOK, OpOfPc, RestorePcs
  <1> QED BY <1>2 DEF IInv, Ordered, Cleared

\* No service pairs metadata with a log that is not theirs.
LEMMA ServicesLogBelongs ==
  ASSUME IInv, ServiceStep, ~meta.foreign PROVE ~meta'.foreign
  <1>0. meta \in [file : Contents, log : Contents, foreign : BOOLEAN] /\ ~Checkpointed.foreign
    BY DEF IInv, Ordered, DataTypeOK, Checkpointed
  <1>1. CASE ServicesStart
    BY <1>0, <1>1 DEF ServicesStart, ServerUp, StartMounts, ServeControl, OpenStores, stores
  <1>2. CASE ServicesStop
    BY <1>0, <1>2
    DEF ServicesStop, ServerEnds, ServerCrashes, StopControl, StopMounts, CrashMounts, stores
  <1>3. CASE Work
    BY <1>0, <1>3 DEF Work, WriteObject, Commit, Project, KeepState
  <1> QED BY <1>1, <1>2, <1>3 DEF ServiceStep

\* SQLite never finds a log beside the metadata of another backup, wherever a command,
\* or several after each other, have ended.
THEOREM LogBelongsHolds == Spec => LogBelongs
  <1>1. IInv /\ [Next]_vars => (~meta.foreign /\ meta'.foreign => cmd.company # "none") \/ UNCHANGED vars
    <2> SUFFICES ASSUME IInv, Next, ~meta.foreign, meta'.foreign PROVE cmd.company # "none"
      BY DEF vars
    <2>1. CASE CommandStep
      BY <2>1, CommandLogBelongs
    <2>2. ~ServiceStep /\ ~BundleDamaged
      BY ServicesLogBelongs DEF BundleDamaged, stores
    <2> QED BY <2>1, <2>2 DEF Next
  <1> QED BY <1>1, InitHolds, IInvIsInductive, PTL DEF Spec, LogBelongs

\* When a step makes a backup restorable, it has everything the instance has.
LEMMA StepIsSnapshot ==
  ASSUME IInv, Next, Restorable(bundle'), ~Restorable(bundle), cmd.company = "none"
  PROVE  bundle'.manifest = objs' /\ bundle'.db = db' /\ bundle'.meta = Content'
  <1>1. ~BundleDamaged
    BY DEF BundleDamaged, Restorable, Acceptable, NoBundle, IInv, Ordered, DataTypeOK
  <1>2. ~ServiceStep
    BY DEF ServiceStep
  <1>3. CommandStep
    BY <1>1, <1>2 DEF Next
  <1>4. WriteManifest \/ CreateTarGz
    <2>1. ASSUME NEW o \in Objects, CopyObject(o) PROVE FALSE
      BY <2>1 DEF CopyObject, On, Restorable, Acceptable, IInv, Ordered, DataTypeOK, Copied
    <2>2. ~DumpDatabase /\ ~CopyMetadata
      BY DEF DumpDatabase, CopyMetadata, On, Restorable, Acceptable, IInv, Ordered, DataTypeOK, Copied
    <2>3. ~ListObjects /\ ~CommandEnds
      BY DEF ListObjects, CommandEnds, NoBundle, Restorable, Acceptable
    <2>4. ~BeginBackup /\ ~BeginRestore /\ ~BeginReset
      BY DEF BeginBackup, BeginRestore, BeginReset, Begin
    <2>5. WriteManifest \/ CreateTarGz \/ UNCHANGED bundle
      BY <1>3, <2>1, <2>2, <2>3, <2>4
      DEF CommandStep, BackupStep, RestoreStep, DestroyStep, CheckStatus, RequireDOFSStopped,
          Checkpoint, ValidateBundle, PutObject, ImportDatabase, RemoveOldLog, RenameMetadata,
          ValidatePaths, CheckBucket, ResetDatabase, ClearMetadataFile, ClearMetadataLog,
          ClearRuntimeState, DeleteAllObjects
    <2> QED BY <2>5
  <1>5. UNCHANGED <<objs, db, meta>>
    BY <1>4 DEF WriteManifest, CreateTarGz, stores
  <1>6. Content' = Content
    BY <1>5 DEF Content
  <1>7. CASE WriteManifest
    BY <1>5, <1>6, <1>7 DEF WriteManifest, On, IInv, Ordered, DataTypeOK, Copied
  <1>8. CASE CreateTarGz
    BY <1>5, <1>6, <1>8 DEF CreateTarGz, On, IInv, Ordered, DataTypeOK, Copied
  <1> QED BY <1>4, <1>7, <1>8

\* What restore would accept is the instance as it was when the backup was finished.
THEOREM BundleIsSnapshotHolds == Spec => BundleIsSnapshot
  <1>1. IInv /\ [Next]_vars =>
          \/ Restorable(bundle') /\ ~Restorable(bundle) /\ cmd.company = "none" =>
               bundle'.manifest = objs' /\ bundle'.db = db' /\ bundle'.meta = Content'
          \/ UNCHANGED vars
    BY StepIsSnapshot
  <1> QED BY <1>1, InitHolds, IInvIsInductive, PTL DEF Spec, BundleIsSnapshot

\* Without a service, the stores change in the destroying steps only.
LEMMA StepIsHarmless ==
  ASSUME IInv, Next, ~Used, ~Used',
         <<objs, db, Content, spool>>' # <<objs, db, Content, spool>>
  PROVE  cmd.obstacle = "none" /\ (cmd.op = "restore" => Acceptable(bundle))
  <1>0. server \in [Servers -> [pc : ServerPcs, ino : Inodes \cup {None}]]
    BY DEF IInv, LockInv, Base, LockTypeOK
  <1>1. ~(UNCHANGED stores)
    BY DEF stores, Content
  <1>2. ~BundleDamaged
    BY <1>1 DEF BundleDamaged
  <1>3. ~ServicesStart
    <2>1. ASSUME NEW s \in Servers, ServerUp(s) PROVE FALSE
      BY <1>0, <2>1 DEF ServerUp, WritePid, Move, Used, Serving, Pc
    <2> QED BY <1>1, <2>1 DEF ServicesStart, StartMounts, ServeControl, Used
  <1>4. ~ServicesStop /\ ~Work
    <2>1. ASSUME NEW s \in Servers, ServerEnds(s) PROVE FALSE
      BY <2>1 DEF ServerEnds, Release, Used, Serving
    <2> QED
      BY <1>1, <2>1 DEF ServicesStop, ServerCrashes, StopControl, StopMounts, CrashMounts, Work, Used
  <1>5. ~Checkpoint
    BY DEF Checkpoint, Checkpointed, Content, IInv, Ordered, DataTypeOK, Contents
  <1>6. CommandStep
    BY <1>2, <1>3, <1>4 DEF Next, ServiceStep
  <1>7. \/ \E o \in Objects : PutObject(o)
        \/ ImportDatabase \/ RemoveOldLog \/ RenameMetadata \/ ResetDatabase \/ ClearMetadataFile
        \/ ClearMetadataLog \/ ClearRuntimeState \/ DeleteAllObjects
    BY <1>1, <1>5, <1>6
    DEF CommandStep, BackupStep, RestoreStep, DestroyStep, CheckStatus, RequireDOFSStopped,
        BeginBackup, ListObjects, CopyObject, DumpDatabase, CopyMetadata, WriteManifest, CreateTarGz,
        BeginRestore, ValidateBundle, BeginReset, ValidatePaths, CheckBucket, CommandEnds, Begin
  <1>8. cmd.pc \in {"put", "removeLog", "rename", "resetDB", "file", "log", "runtime", "delete"}
    BY <1>7
    DEF PutObject, ImportDatabase, RemoveOldLog, RenameMetadata, ResetDatabase, ClearMetadataFile,
        ClearMetadataLog, ClearRuntimeState, DeleteAllObjects
  <1>9. cmd.op \in {"restore", "reset"} /\ Checked /\ cmd.obstacle \in Obstacles
    BY <1>8 DEF IInv, Ordered, DataTypeOK, OpOfPc, RestorePcs, ResetPcs, SharedPcs
  <1> QED BY <1>8, <1>9 DEF Checked, Obstacles

\* A restore or reset that something would refuse is refused before it has changed anything.
THEOREM RefusedIsHarmlessHolds == Spec => RefusedIsHarmless
  <1>1. IInv /\ [Next]_vars =>
          \/ ~Used /\ ~Used' /\ <<objs, db, Content, spool>>' # <<objs, db, Content, spool>> =>
               cmd.obstacle = "none" /\ (cmd.op = "restore" => Acceptable(bundle))
          \/ UNCHANGED vars
    BY StepIsHarmless
  <1> QED BY <1>1, InitHolds, IInvIsInductive, PTL DEF Spec, RefusedIsHarmless
=============================================================================
