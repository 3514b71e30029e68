------------------------------- MODULE ServiceLock -------------------------------
(***************************************************************************)
(* The PID file of the API server.  A server runs as long as it holds the  *)
(* lock of the file it has opened; the file's name and the lock are two    *)
(* things, since a file that is removed stays locked by whoever has it     *)
(* open.  Servers start, stop, end in a fatal error or crash; the commands *)
(* stop and restart signal the process the file names, wait, and remove    *)
(* what it left.                                                           *)
(***************************************************************************)
EXTENDS Naturals, FiniteSets

CONSTANTS
  Servers,      \* processes that may run the API server
  Inodes,       \* files that have been the PID file: as many as servers suffice
  None

ASSUME ServiceLockAssumption == None \notin Servers /\ None \notin Inodes

VARIABLES
  file,         \* the file the path of the PID file leads to
  pid,          \* the process that file names
  server,       \* a server's step and the file it has open
  ctl,          \* the command stop or restart
  overlap       \* history: a server has started while another was being stopped

lockVars == <<file, pid, server, ctl, overlap>>

ServerPcs == {"down", "open", "lock", "write", "up", "drain", "remove", "clean"}
Down == [pc |-> "down", ino |-> None]
IdleCtl == [pc |-> "idle", op |-> "stop", target |-> None]

Pc(s) == server[s].pc
\* Who holds the lock of file i.
Holders(i) == {s \in Servers : server[s].ino = i /\ Pc(s) \in {"write", "up", "drain"}}
\* A server that uses the stores: it may still finish requests when it is told to stop.
Serving(s) == Pc(s) \in {"up", "drain"}
Starting(s) == Pc(s) \in {"open", "lock", "write"}
Stopping(s) == Pc(s) \in {"drain", "remove", "clean"}
NotRunning == file = None \/ Holders(file) = {}
\* It holds the lock of a file that the path no longer leads to.
Evicted(s) == Serving(s) /\ server[s].ino # file

Move(s, pc) == server' = [server EXCEPT ![s].pc = pc]
Unlink == file' = None /\ pid' = None

-----------------------------------------------------------------------------
(* The server.                                                             *)

\* The command start: a running service ends it.
Start(s) ==
  /\ Pc(s) = "down" /\ NotRunning
  /\ Move(s, "open") /\ UNCHANGED <<file, pid, ctl>>

\* The file is created when the path leads to none; then it names nobody.
OpenFile(s) ==
  /\ Pc(s) = "open"
  /\ file' \in IF file = None THEN {i \in Inodes : \A t \in Servers : server[t].ino # i} ELSE {file}
  /\ server' = [server EXCEPT ![s] = [pc |-> "lock", ino |-> file']]
  /\ UNCHANGED <<pid, ctl>>

Lock(s) ==
  /\ Pc(s) = "lock" /\ Holders(server[s].ino) = {}
  /\ Move(s, "write") /\ UNCHANGED <<file, pid, ctl>>

\* Mutant: the loser cleans up like a server that ends.
AlreadyRunningCleansUp(s) ==
  /\ Pc(s) = "lock"
  /\ server' = [server EXCEPT ![s] = Down] /\ Unlink /\ UNCHANGED ctl

\* Somebody else holds the lock, or holds it for a moment to see whether the service
\* runs: the process ends and leaves the file alone.
AlreadyRunning(s) ==
  /\ Pc(s) = "lock"
  /\ server' = [server EXCEPT ![s] = Down] /\ UNCHANGED <<file, pid, ctl>>

WritePid(s) ==
  /\ Pc(s) = "write" /\ Move(s, "up")
  /\ pid' = IF file = server[s].ino THEN s ELSE pid
  /\ UNCHANGED <<file, ctl>>

\* A signal: requests in progress have ten seconds, and the stores stay open.
Shutdown(s) ==
  /\ Pc(s) = "up" /\ Move(s, "drain") /\ UNCHANGED <<file, pid, ctl>>

Release(s) ==
  /\ Pc(s) = "drain"
  /\ server' = [server EXCEPT ![s] = [pc |-> "remove", ino |-> None]]
  /\ UNCHANGED <<file, pid, ctl>>

\* The files are removed with the lock's release, and once more by the service.
RemoveFile(s) ==
  /\ \/ Pc(s) = "remove" /\ Move(s, "clean")
     \/ Pc(s) = "clean" /\ Move(s, "down")
  /\ Unlink /\ UNCHANGED ctl

Dies(s) == server' = [server EXCEPT ![s] = Down]

\* A crash or a fatal error: the lock goes with the process, the file stays.
Crash(s) ==
  /\ Pc(s) # "down" /\ Dies(s) /\ UNCHANGED <<file, pid, ctl>>

-----------------------------------------------------------------------------
(* The commands stop and restart.                                          *)

Gone(p) == p # None => Pc(p) = "down"

\* Only a process that serves handles the signal; it kills any other one.  A PID that
\* is missing or names no process ends stop, and restart goes on.
StopOrRestart(op) ==
  /\ ctl.pc = "idle" /\ ~NotRunning
  /\ ctl' = IF op = "stop" /\ Gone(pid) THEN ctl
            ELSE [pc |-> "wait", op |-> op, target |-> pid]
  /\ \/ Gone(pid) /\ UNCHANGED server
     \/ ~Gone(pid) /\ Serving(pid) /\ Move(pid, "drain")
     \/ ~Gone(pid) /\ ~Serving(pid) /\ Dies(pid)
  /\ UNCHANGED <<file, pid>>

\* After five seconds stop gives up, and restart goes on all the same.
WaitForStop ==
  /\ ctl.pc = "wait"
  /\ \/ ctl' = [ctl EXCEPT !.pc = "clean"] /\ (Gone(ctl.target) \/ ctl.op = "restart")
     \/ ctl' = IdleCtl /\ ~Gone(ctl.target) /\ ctl.op = "stop"
  /\ UNCHANGED <<file, pid, server>>

CleanupFiles ==
  /\ ctl.pc = "clean" /\ ctl' = IdleCtl
  /\ Unlink /\ UNCHANGED server

-----------------------------------------------------------------------------
LockInit ==
  /\ file = None /\ pid = None /\ ctl = IdleCtl /\ overlap = FALSE
  /\ server = [s \in Servers |-> Down]

\* A server starts while another is being stopped, or restart no longer waits.
Overlaps ==
  \/ \E s \in Servers : Starting(s) /\ (ctl.pc # "idle" \/ \E t \in Servers : Stopping(t))
  \/ ctl.pc = "clean" /\ ~Gone(ctl.target)

\* The steps that neither open nor close the stores; WritePid, Release and Crash do.
StartingStep == \E s \in Servers : Start(s) \/ OpenFile(s) \/ Lock(s) \/ AlreadyRunning(s)
StoppingStep ==
  \/ \E s \in Servers : Shutdown(s) \/ RemoveFile(s)
  \/ (\E op \in {"stop", "restart"} : StopOrRestart(op)) \/ WaitForStop \/ CleanupFiles
\* Forgotten when no server and no command is left.
Quiet == ctl.pc = "idle" /\ \A s \in Servers : Pc(s) = "down"
Observed == overlap' = (~Quiet' /\ (overlap \/ Overlaps'))
LockNext ==
  /\ StartingStep \/ StoppingStep \/ \E s \in Servers : WritePid(s) \/ Release(s) \/ Crash(s)
  /\ Observed
LockSpec == LockInit /\ [][LockNext]_lockVars

-----------------------------------------------------------------------------
LockTypeOK ==
  /\ file \in Inodes \cup {None} /\ pid \in Servers \cup {None}
  /\ server \in [Servers -> [pc : ServerPcs, ino : Inodes \cup {None}]]
  /\ ctl \in [pc : {"idle", "wait", "clean"}, op : {"stop", "restart"},
              target : Servers \cup {None}]
  /\ overlap \in BOOLEAN
  /\ \A i \in Inodes : \A s, t \in Holders(i) : s = t

\* Unless a server started while another was being stopped, or restart gave up waiting,
\* at most one server serves, and the PID file is the one it has locked and names it:
\* losers of a race, crashed servers and what they left behind do not matter.
OneServer ==
  ~overlap =>
    \A s \in Servers : Serving(s) =>
      ~Evicted(s) /\ pid = s /\ \A t \in Servers \ {s} : ~Serving(t)
=============================================================================
