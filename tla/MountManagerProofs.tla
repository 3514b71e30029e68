--------------------------- MODULE MountManagerProofs ---------------------------
(***************************************************************************)
(* The safety properties of MountManager, for any number of users, calls,  *)
(* reconcilers and mounts.  A call that holds the operation lock of a user *)
(* relies on what only the lock's holder changes; the watcher of a mount,  *)
(* the failures a reconciliation records, the scan, Shutdown and the end   *)
(* of the process hold no lock, and are shown to leave that alone.         *)
(***************************************************************************)
EXTENDS MountManager, TLAPS

\* What a call knows, at each step of it, of the user whose lock it holds: a
\* mount is made only for a user that is desired and has no handle, and the
\* marker goes only when nothing is mounted.
Fits(c) ==
  LET u == proc[c].u
      h == proc[c].h
      pc == proc[c].pc
  IN
  /\ pc \in Locked => busy[u] = c
  /\ pc \in {"admit", "prepare", "mount", "mounted"} => u \in desired
  /\ pc \in {"prepare", "mount", "failed", "mounted", "inspect"} => handle[u] = Nil
  /\ pc = "mounted" =>
       /\ h \in Handles /\ server[h].u = u /\ server[h].st # "free"
       /\ h \notin watching
  /\ pc \in {"stop", "await"} =>
       /\ h \in Handles /\ handle[u] \in {h, Nil}
       /\ server[h].u = u \/ server[h].st = "free"
  /\ pc \in {"clean", "forget"} => handle[u] = Nil \/ server[handle[u]].st = "done"
  /\ pc = "forget" => ~Served(u) /\ u \notin dead

\* The manager's handle of a user is a mount of that user that is watched.
HandleFits(u) ==
  handle[u] # Nil =>
    handle[u] \in watching /\ server[handle[u]].u = u /\ server[handle[u]].st # "free"

ServerFits(h) ==
  /\ server[h].st # "free" => server[h].u \in Users
  /\ h \in watching => server[h].st # "free"

\* What the process wants it has written down, and it does not want what it
\* is to forget; one that stops has no operation in progress.
MemoryFits ==
  /\ desired \subseteq marker
  /\ desired \cap forgetting = {}
  /\ phase = "down" => forgetting = {}
  /\ phase \in {"stopping", "down"} => OperationsDone
  /\ phase = "stopping" => \A h \in Handles : Live(h) => h \in leaving

Inv ==
  /\ TypeOK /\ MemoryFits
  /\ \A c \in Calls : Fits(c)
  /\ \A u \in Users : HandleFits(u)
  /\ \A h \in Handles : ServerFits(h)
  /\ MountedIsMarked /\ NothingUntracked /\ WantedOrLeaving

-----------------------------------------------------------------------------
(* What a step of one call leaves of the other calls and users.            *)

\* The call c takes a step.
OneCall(c) ==
  /\ proc' \in [Calls -> Records]
  /\ \A d \in Calls \ {c} : proc'[d] = proc[d]
  /\ proc'[c].pc \in Naming => proc'[c].u \in Users

\* It holds the locks of U, or they are free, and it changes nothing of others
\* but that disconnected mounts are gone.
Within(c, U) ==
  /\ OneCall(c)
  /\ At(c, "mounted") => proc[c].u \in U
  /\ \A u \in U : busy[u] \in {c, NoOne}
  /\ \A u \in Users \ U :
       /\ busy'[u] = busy[u] /\ handle'[u] = handle[u]
       /\ u \in desired => u \in desired'
       /\ u \in forgetting => u \in forgetting'
       /\ u \in marker => u \in marker'
  /\ dead' \subseteq dead
  /\ \A h \in Handles :
       \/ server'[h] = server[h]
       \/ /\ server'[h].u \in U /\ server'[h].st # "free"
          /\ (server[h].u \in U /\ server[h].st # "free") \/ Unused(h)
  /\ watching \subseteq watching'
  /\ \A h \in watching' \ watching : h \in Handles /\ server[h].u \in U /\ server[h].st # "free"

LEMMA OthersFit ==
  ASSUME Inv, NEW c \in Calls, NEW U \in SUBSET Users, Within(c, U), NEW d \in Calls \ {c}
  PROVE  Fits(d)'
  <1> DEFINE v == proc[d].u
  <1>1. proc'[d] = proc[d] /\ Fits(d)
    BY DEF Within, OneCall, Inv
  <1>2. CASE proc[d].pc \notin Locked
    BY <1>1, <1>2 DEF Fits, Locked
  <1>3. CASE proc[d].pc \in Locked
    <2>1. v \in Users \ U
      BY <1>1, <1>3, NoOneIsNobody DEF Inv, TypeOK, Fits, Within, Naming
    <2>2. busy'[v] = busy[v] /\ handle'[v] = handle[v] /\ (v \in desired => v \in desired')
      BY <2>1 DEF Within
    <2>3. ASSUME NEW h \in Handles, server[h].u = v, server[h].st # "free"
          PROVE  server'[h] = server[h] /\ (h \notin watching => h \notin watching')
      BY <2>1, <2>3 DEF Within, Unused, Free
    <2>4. Served(v)' => Served(v)
      BY <1>1, <2>1 DEF Within, Served, Serves
    <2>5. v \in dead' => v \in dead
      BY DEF Within
    <2>6. handle[v] # Nil =>
            handle[v] \in Handles /\ server'[handle[v]] = server[handle[v]]
      BY <2>1, <2>3 DEF Inv, HandleFits, TypeOK
    <2>7. proc[d].pc = "mounted" =>
            server'[proc[d].h] = server[proc[d].h] /\ proc[d].h \notin watching'
      BY <1>1, <2>3 DEF Fits
    <2>8. proc[d].pc \in {"stop", "await"} => server'[proc[d].h] = server[proc[d].h]
      BY <1>1, <2>1, <2>3 DEF Fits, Within, Unused
    <2> QED
      BY <1>1, <2>1, <2>2, <2>4, <2>5, <2>6, <2>7, <2>8 DEF Fits
  <1> QED BY <1>2, <1>3

\* A live mount of a user whose lock no other call holds is the manager's, or
\* c is about to record it.
LEMMA OwnServer ==
  ASSUME Inv, NEW c \in Calls, NEW u \in Users, busy[u] \in {c, NoOne},
         NEW h \in Handles, Live(h), server[h].u = u
  PROVE  handle[u] = h \/ (At(c, "mounted") /\ proc[c].h = h)
  <1>1. ASSUME NEW d \in Calls \ {c}, At(d, "mounted"), proc[d].h = h PROVE FALSE
    BY <1>1, NoOneIsNobody DEF Inv, Fits, At, Locked
  <1> QED BY <1>1 DEF Inv, NothingUntracked

LEMMA CallInv ==
  ASSUME Inv, NEW c \in Calls, NEW U \in SUBSET Users, Within(c, U),
         TypeOK', MemoryFits', Fits(c)',
         \A u \in U :
           /\ HandleFits(u)'
           /\ Served(u)' => u \in desired' \cup forgetting'
           /\ Served(u)' \/ u \in dead' => u \in marker',
         \A h \in Handles : Live(h)' /\ server'[h].u \in U =>
           handle'[server'[h].u] = h \/ (At(c, "mounted")' /\ proc'[c].h = h)
  PROVE  Inv'
  <1>1. \A d \in Calls : Fits(d)'
    BY OthersFit
  <1>2. ASSUME NEW u \in Users PROVE HandleFits(u)'
    <2>1. CASE u \in U
      BY <2>1
    <2>2. CASE u \notin U
      BY <2>2 DEF Inv, HandleFits, Within, TypeOK, Unused, Free
    <2> QED BY <2>1, <2>2
  <1>3. ASSUME NEW h \in Handles PROVE ServerFits(h)'
    BY DEF Inv, ServerFits, Within, TypeOK, Unused, Free
  <1>4. ASSUME NEW u \in Users
        PROVE  /\ Served(u)' => u \in desired' \cup forgetting'
               /\ Served(u)' \/ u \in dead' => u \in marker'
    <2>1. CASE u \in U
      BY <2>1
    <2>2. CASE u \notin U
      <3>1. Served(u)' => Served(u)
        BY <2>2 DEF Within, Served, Serves
      <3> QED BY <3>1, <2>2 DEF Inv, MountedIsMarked, WantedOrLeaving, Within
    <2> QED BY <2>1, <2>2
  <1>5. ASSUME NEW h \in Handles, Live(h)'
        PROVE  handle'[server'[h].u] = h \/ \E d \in Calls : At(d, "mounted")' /\ proc'[d].h = h
    <2>1. CASE server'[h].u \in U
      BY <1>5, <2>1
    <2>2. CASE server'[h].u \notin U
      <3>1. server'[h] = server[h] /\ server[h].u \in Users
        BY <1>5, <2>2 DEF Within, Inv, ServerFits, Live
      <3>2. Live(h)
        BY <1>5, <3>1 DEF Live
      <3>3. CASE handle[server[h].u] = h
        BY <3>1, <3>3, <2>2 DEF Within
      <3>4. CASE \E d \in Calls : At(d, "mounted") /\ proc[d].h = h
        <4>1. PICK d \in Calls : At(d, "mounted") /\ proc[d].h = h
          BY <3>4
        <4>2. d # c
          BY <4>1, <3>1, <2>2 DEF Inv, Fits, At, Within
        <4> QED BY <4>1, <4>2 DEF Within, OneCall, At
      <3> QED BY <3>2, <3>3, <3>4 DEF Inv, NothingUntracked
    <2> QED BY <2>1, <2>2
  <1> QED
    BY <1>1, <1>2, <1>3, <1>4, <1>5 DEF Inv, MountedIsMarked, NothingUntracked, WantedOrLeaving

-----------------------------------------------------------------------------
(* How a call goes on, and what it leaves when it ends.                    *)

LEMMA OneRecord ==
  ASSUME TypeOK, NEW c \in Calls, NEW r \in Records, r.pc \in Naming => r.u \in Users,
         proc' = [proc EXCEPT ![c] = r]
  PROVE  OneCall(c) /\ proc'[c] = r
  BY DEF TypeOK, OneCall

LEMMA GotoOne ==
  ASSUME TypeOK, NEW c \in Calls, NEW pc \in Naming, proc[c].pc \in Naming, Goto(c, pc)
  PROVE  OneCall(c) /\ proc'[c].pc = pc /\ proc'[c].u = proc[c].u /\ proc'[c].h = proc[c].h
  <1> DEFINE r == [proc[c] EXCEPT !.pc = pc]
  <1>1. r \in Records /\ r.pc = pc /\ r.u = proc[c].u /\ r.h = proc[c].h /\ r.u \in Users
    BY ZenonT(40) DEF TypeOK, Records
  <1>2. proc' = [proc EXCEPT ![c] = r]
    BY DEF Goto
  <1> HIDE DEF r
  <1> QED BY <1>1, <1>2, OneRecord

LEMMA ReturnedOne ==
  ASSUME TypeOK, NEW c \in Calls, NEW ok, proc[c].pc \in Naming, Returned(c, ok)
  PROVE  OneCall(c) /\ proc'[c].pc \notin Locked
  <1> DEFINE failure == [proc[c] EXCEPT !.pc = "record", !.h = Nil]
             round == Following(proc[c].retry, proc[c].want)
             next == CASE proc[c].call \in {"ensure", "unmount"} -> Idle
                       [] proc[c].call = "retry" \/ ok -> round
                       [] OTHER -> failure
  <1>1. proc[c] \in Records /\ proc[c].u \in Users
    BY DEF TypeOK
  <1>2. Idle \in Records /\ Idle.pc = "idle"
    BY DEF Records, Idle
  <1>3. round \in Records /\ round.pc = "next"
    BY <1>1 DEF Records, Idle, Following
  <1>4. failure \in Records /\ failure.pc = "record" /\ failure.u = proc[c].u
    BY <1>1 DEF Records, Naming
  <1>5. next \in {Idle, round, failure}
    OBVIOUS
  <1>6. proc' = [proc EXCEPT ![c] = next]
    BY DEF Returned
  <1> HIDE DEF next, round, failure
  <1>7. next \in Records /\ (next.pc \in Naming => next.u \in Users) /\ next.pc \notin Locked
    BY <1>1, <1>2, <1>3, <1>4, <1>5 DEF Naming, Locked
  <1> QED BY <1>6, <1>7, OneRecord

LEMMA UnlockedFits ==
  ASSUME NEW c \in Calls, proc'[c].pc \notin Locked
  PROVE  Fits(c)'
  BY DEF Fits, Locked

LEMMA UnlockOne ==
  ASSUME TypeOK, NEW u \in Users, Unlock(u)
  PROVE  /\ busy' \in [Users -> Calls \cup {NoOne}] /\ busy'[u] = NoOne
         /\ \A v \in Users \ {u} : busy'[v] = busy[v]
         /\ OperationsDone => OperationsDone'
  BY DEF TypeOK, Unlock, Set, OperationsDone

\* A call on a user that holds its lock: the holder is the call.
LEMMA Holder ==
  ASSUME Inv, NEW c \in Calls, proc[c].pc \in Locked
  PROVE  proc[c].u \in Users /\ busy[proc[c].u] = c /\ ~OperationsDone
  BY NoOneIsNobody DEF Inv, Fits, TypeOK, Naming, OperationsDone

\* A step about the call, the lock and the status of the user alone.
LEMMA QuietInv ==
  ASSUME Inv, NEW c \in Calls, NEW U \in SUBSET Users, OneCall(c), ~At(c, "mounted"),
         \A u \in U : busy[u] \in {c, NoOne},
         busy' \in [Users -> Calls \cup {NoOne}],
         \A u \in Users \ U : busy'[u] = busy[u],
         phase \in {"stopping", "down"} /\ OperationsDone => OperationsDone',
         entry' \in [Users -> States],
         UNCHANGED <<world, disk, process, desired, forgetting, handle, mounts>>,
         Fits(c)'
  PROVE  Inv'
  <1> USE DEF world, disk, process, mounts
  <1>1. Within(c, U)
    BY DEF Within
  <1>2. TypeOK'
    BY DEF Inv, TypeOK, OneCall
  <1>3. MemoryFits'
    BY DEF Inv, MemoryFits, Live
  <1>4. ASSUME NEW u \in Users
        PROVE  /\ HandleFits(u)'
               /\ Served(u)' => u \in desired' \cup forgetting'
               /\ Served(u)' \/ u \in dead' => u \in marker'
    BY DEF Inv, HandleFits, MountedIsMarked, WantedOrLeaving, Served, Serves
  <1>5. ASSUME NEW h \in Handles, Live(h)', server'[h].u \in U
        PROVE  handle'[server'[h].u] = h
    BY <1>5, OwnServer DEF Live
  <1> QED BY <1>1, <1>2, <1>3, <1>4, <1>5, CallInv

\* A call that gives up the lock of its user and changes at most its status.
LEMMA GivesUpInv ==
  ASSUME Inv, NEW c \in Calls, proc[c].pc \in Locked, ~At(c, "mounted"), NEW ok,
         Unlock(proc[c].u), Returned(c, ok), entry' \in [Users -> States],
         UNCHANGED <<world, disk, process, desired, forgetting, handle, mounts>>
  PROVE  Inv'
  <1>1. TypeOK /\ proc[c].pc \in Naming
    BY DEF Inv, Naming
  <1>2. OneCall(c) /\ Fits(c)'
    BY <1>1, ReturnedOne, UnlockedFits
  <1> DEFINE U == {proc[c].u}
  <1>3. /\ U \in SUBSET Users
        /\ \A u \in U : busy[u] \in {c, NoOne}
        /\ ~OperationsDone
    BY Holder
  <1>4. busy' \in [Users -> Calls \cup {NoOne}] /\ \A u \in Users \ U : busy'[u] = busy[u]
    BY <1>1, <1>3, UnlockOne
  <1> HIDE DEF U
  <1> QED BY <1>1, <1>2, <1>3, <1>4, QuietInv

\* A call that goes on with the lock of its user, or without one.
LEMMA GoesOnInv ==
  ASSUME Inv, NEW c \in Calls, NEW pc \in Naming, proc[c].pc \in Naming, ~At(c, "mounted"),
         Goto(c, pc), entry' \in [Users -> States],
         UNCHANGED <<world, disk, process, desired, forgetting, handle, mounts, busy>>,
         Fits(c)'
  PROVE  Inv'
  <1>1. TypeOK /\ OneCall(c)
    BY GotoOne DEF Inv
  <1>2. UNCHANGED OperationsDone
    BY DEF OperationsDone
  <1>3. busy' \in [Users -> Calls \cup {NoOne}]
    BY <1>1 DEF TypeOK
  <1> DEFINE U == {}
  <1>4. /\ U \in SUBSET Users
        /\ \A u \in U : busy[u] \in {c, NoOne}
        /\ \A u \in Users \ U : busy'[u] = busy[u]
    OBVIOUS
  <1> HIDE DEF U
  <1> QED BY <1>1, <1>2, <1>3, <1>4, QuietInv

\* A call without a lock goes on to where it has none.
LEMMA UnlockedInv ==
  ASSUME Inv, NEW c \in Calls, OneCall(c), proc'[c].pc \notin Locked, ~At(c, "mounted"),
         entry' \in [Users -> States],
         UNCHANGED <<world, disk, process, desired, forgetting, handle, mounts, busy>>
  PROVE  Inv'
  <1>1. UNCHANGED OperationsDone
    BY DEF OperationsDone
  <1>2. busy' \in [Users -> Calls \cup {NoOne}]
    BY DEF Inv, TypeOK
  <1> DEFINE U == {}
  <1>3. /\ U \in SUBSET Users
        /\ \A u \in U : busy[u] \in {c, NoOne}
        /\ \A u \in Users \ U : busy'[u] = busy[u]
    OBVIOUS
  <1> HIDE DEF U
  <1> QED BY <1>1, <1>2, <1>3, QuietInv, UnlockedFits

LEMMA RecordInv ==
  ASSUME Inv, NEW c \in Calls, NEW r \in Records, proc' = [proc EXCEPT ![c] = r],
         r.pc \in Naming => r.u \in Users, r.pc \notin Locked, ~At(c, "mounted"),
         entry' \in [Users -> States],
         UNCHANGED <<world, disk, process, desired, forgetting, handle, mounts, busy>>
  PROVE  Inv'
  <1>1. OneCall(c) /\ proc'[c] = r
    BY OneRecord DEF Inv
  <1> QED BY <1>1, UnlockedInv

LEMMA ScanEndsOne ==
  ASSUME TypeOK, NEW c \in Calls, NEW rest \in SUBSET Users, ScanEnds(c, rest)
  PROVE  OneCall(c) /\ proc'[c].pc \in {"idle", "scan"}
  <1> DEFINE scan == [Idle EXCEPT !.pc = "scan", !.call = "scan", !.scan = rest]
             r == IF rest = {} THEN Idle ELSE scan
  <1>1. scan \in Records /\ scan.pc = "scan" /\ Idle \in Records /\ Idle.pc = "idle"
    BY DEF Idle, Records
  <1>2. r \in {Idle, scan} /\ proc' = [proc EXCEPT ![c] = r]
    BY DEF ScanEnds
  <1> HIDE DEF r, scan
  <1>3. r \in Records /\ r.pc \in {"idle", "scan"} /\ r.pc \notin Naming
    BY <1>1, <1>2 DEF Naming, Locked
  <1> QED BY <1>2, <1>3, OneRecord

LEMMA ScanEndsInv ==
  ASSUME Inv, NEW c \in Calls, NEW rest \in SUBSET Users, ScanEnds(c, rest), ~At(c, "mounted"),
         entry' \in [Users -> States],
         UNCHANGED <<world, disk, process, desired, forgetting, handle, mounts, busy>>
  PROVE  Inv'
  <1>1. OneCall(c) /\ proc'[c].pc \notin Locked
    BY ScanEndsOne DEF Inv, Locked
  <1> QED BY <1>1, UnlockedInv

-----------------------------------------------------------------------------
(* The calls, step by step.                                                *)

LEMMA EnsureInv == ASSUME Inv, NEW c, NEW u \in Users, Ensure(c, u) PROVE Inv'
  <1> DEFINE r == [Idle EXCEPT !.pc = "resolve", !.call = "ensure", !.u = u]
  <1>1. r \in Records /\ r.pc = "resolve" /\ r.u = u
    BY DEF Idle, Records, Naming
  <1>2. c \in Calls /\ proc' = [proc EXCEPT ![c] = r] /\ ~At(c, "mounted")
    BY DEF Ensure, Calls, At
  <1> HIDE DEF r
  <1>3. entry' \in [Users -> States]
    BY DEF Ensure, memory, Inv, TypeOK
  <1> QED BY <1>1, <1>2, <1>3, RecordInv DEF Ensure, memory, Locked

LEMMA UnmountInv == ASSUME Inv, NEW c, NEW u \in Users, Unmount(c, u) PROVE Inv'
  <1> DEFINE r == [Idle EXCEPT !.pc = "begin", !.call = "unmount", !.u = u]
  <1>1. r \in Records /\ r.pc = "begin" /\ r.u = u
    BY DEF Idle, Records, Naming
  <1>2. c \in Calls /\ proc' = [proc EXCEPT ![c] = r] /\ ~At(c, "mounted")
    BY DEF Unmount, Calls, At
  <1> HIDE DEF r
  <1>3. entry' \in [Users -> States]
    BY DEF Unmount, memory, Inv, TypeOK
  <1> QED BY <1>1, <1>2, <1>3, RecordInv DEF Unmount, memory, Locked

LEMMA FollowingType ==
  ASSUME NEW retry \in SUBSET Users, NEW want \in SUBSET Users
  PROVE  Following(retry, want) \in Records /\ Following(retry, want).pc = "next"
  BY DEF Following, Idle, Records

LEMMA ReconcileOnceInv == ASSUME Inv, NEW c \in Calls, ReconcileOnce(c) PROVE Inv'
  <1> DEFINE r == Following(forgetting \cup {u \in Users : NeedsUnmount(u)}, desired)
  <1>1. r \in Records /\ r.pc = "next"
    BY FollowingType DEF Inv, TypeOK
  <1>2. proc' = [proc EXCEPT ![c] = r] /\ ~At(c, "mounted")
    BY DEF ReconcileOnce, At
  <1> HIDE DEF r
  <1>3. entry' \in [Users -> States]
    BY DEF ReconcileOnce, memory, Inv, TypeOK
  <1> QED BY <1>1, <1>2, <1>3, RecordInv DEF ReconcileOnce, memory, Locked, Naming

LEMMA ResolveInv == ASSUME Inv, NEW c \in Calls, Resolve(c) PROVE Inv'
  <1>1. TypeOK /\ proc[c].pc = "resolve" /\ proc[c].pc \in Naming /\ ~At(c, "mounted")
    BY DEF Inv, Resolve, At, Naming
  <1>2. /\ entry' \in [Users -> States]
        /\ UNCHANGED <<world, disk, process, desired, forgetting, handle, mounts, busy>>
    BY DEF Resolve, memory, Inv, TypeOK
  <1>3. CASE Goto(c, "begin")
    <2>1. "begin" \in Naming \ Locked
      BY DEF Naming, Locked
    <2> QED BY <1>1, <1>2, <1>3, <2>1, GotoOne, UnlockedInv
  <1>4. CASE proc' = [proc EXCEPT ![c].pc = "begin", ![c].call = "drop"]
    <2> DEFINE r == [proc[c] EXCEPT !.pc = "begin", !.call = "drop"]
    <2>1. r \in Records /\ r.pc = "begin" /\ r.u \in Users
      BY ZenonT(40), <1>1 DEF TypeOK, Records, Naming
    <2>2. proc' = [proc EXCEPT ![c] = r]
      BY <1>4, <1>1 DEF TypeOK
    <2> HIDE DEF r
    <2> QED BY <1>1, <1>2, <2>1, <2>2, RecordInv DEF Locked
  <1>5. CASE Returned(c, FALSE)
    BY <1>1, <1>2, <1>5, ReturnedOne, UnlockedInv
  <1> QED BY <1>3, <1>4, <1>5 DEF Resolve

LEMMA BeginInv == ASSUME Inv, NEW c \in Calls, BeginUserOperation(c) PROVE Inv'
  <1> DEFINE u == proc[c].u
  <1>1. TypeOK /\ proc[c].pc = "begin" /\ proc[c].pc \in Naming /\ ~At(c, "mounted") /\ u \in Users
    BY DEF Inv, TypeOK, BeginUserOperation, At, Naming
  <1>2. /\ entry' \in [Users -> States]
        /\ UNCHANGED <<world, disk, process, desired, forgetting, handle, mounts>>
    BY DEF BeginUserOperation, memory, Inv, TypeOK
  <1>3. CASE Returned(c, FALSE) /\ UNCHANGED busy
    BY <1>1, <1>2, <1>3, ReturnedOne, UnlockedInv
  <1>4. ASSUME phase = "running", busy[u] = NoOne, busy' = Set(busy, u, c),
               NEW pc \in {"check", "mark"}, Goto(c, pc)
        PROVE  Inv'
    <2>1. pc \in Naming /\ pc \in Locked
      BY DEF Naming, Locked
    <2>2. OneCall(c) /\ proc'[c].pc = pc /\ proc'[c].u = u
      BY <1>1, <1>4, <2>1, GotoOne
    <2>3. busy' \in [Users -> Calls \cup {NoOne}] /\ busy'[u] = c /\ \A v \in Users \ {u} : busy'[v] = busy[v]
      BY <1>1, <1>4 DEF Set, TypeOK
    <2>4. Fits(c)'
      BY <2>2, <2>3 DEF Fits
    <2> DEFINE U == {u}
    <2>5. /\ U \in SUBSET Users
          /\ \A v \in U : busy[v] \in {c, NoOne}
          /\ \A v \in Users \ U : busy'[v] = busy[v]
      BY <1>1, <1>4, <2>3
    <2> HIDE DEF U
    <2> QED BY <1>1, <1>2, <1>4, <2>2, <2>3, <2>4, <2>5, QuietInv
  <1> QED BY <1>3, <1>4 DEF BeginUserOperation

LEMMA CheckInv == ASSUME Inv, NEW c \in Calls, CheckDesired(c) PROVE Inv'
  <1>1. /\ TypeOK /\ proc[c].pc = "check" /\ proc[c].pc \in Naming /\ proc[c].pc \in Locked
        /\ ~At(c, "mounted")
    BY DEF Inv, CheckDesired, At, Naming, Locked
  <1>2. /\ entry' \in [Users -> States]
        /\ UNCHANGED <<world, disk, process, desired, forgetting, handle, mounts>>
    BY DEF CheckDesired, memory, Inv, TypeOK
  <1>3. CASE Unlock(proc[c].u) /\ Returned(c, TRUE)
    BY <1>1, <1>2, <1>3, GivesUpInv
  <1>4. ASSUME NEW pc \in {"admit", "persist"}, Goto(c, pc), UNCHANGED busy,
               pc = "admit" => proc[c].u \in desired
        PROVE  Inv'
    <2>1. pc \in Naming
      BY DEF Naming, Locked
    <2>2. OneCall(c) /\ proc'[c].pc = pc /\ proc'[c].u = proc[c].u
      BY <1>1, <1>4, <2>1, GotoOne
    <2>3. Fits(c)'
      BY <1>1, <1>2, <1>4, <2>2, Holder DEF Fits
    <2> QED BY <1>1, <1>2, <1>4, <2>1, <2>3, GoesOnInv
  <1> QED BY <1>3, <1>4 DEF CheckDesired

LEMMA AdmitInv == ASSUME Inv, NEW c \in Calls, Admit(c) PROVE Inv'
  <1> DEFINE u == proc[c].u
  <1>1. /\ TypeOK /\ proc[c].pc = "admit" /\ proc[c].pc \in Naming /\ proc[c].pc \in Locked
        /\ ~At(c, "mounted")
    BY DEF Inv, Admit, At, Naming, Locked
  <1>2. /\ entry' \in [Users -> States]
        /\ UNCHANGED <<world, disk, process, desired, forgetting, handle, mounts>>
    BY DEF Admit, Inv, TypeOK, Set, States
  <1>3. ASSUME Unlock(u), NEW ok, Returned(c, ok)
        PROVE  Inv'
    BY <1>1, <1>2, <1>3, GivesUpInv
  <1>4. CASE handle[u] = Nil /\ Goto(c, "prepare") /\ UNCHANGED busy
    <2>1. "prepare" \in Naming
      BY DEF Naming, Locked
    <2>2. OneCall(c) /\ proc'[c].pc = "prepare" /\ proc'[c].u = u
      BY <1>1, <1>4, <2>1, GotoOne
    <2>3. Fits(c)'
      BY <1>1, <1>2, <1>4, <2>2, Holder DEF Fits, Inv
    <2> QED BY <1>1, <1>2, <1>4, <2>1, <2>3, GoesOnInv
  <1> QED BY <1>3, <1>4 DEF Admit

LEMMA MountFailedInv == ASSUME Inv, NEW c \in Calls, MountFailed(c) PROVE Inv'
  <1>1. proc[c].pc \in Locked /\ ~At(c, "mounted")
    BY DEF MountFailed, At, Locked
  <1>2. /\ entry' \in [Users -> States]
        /\ UNCHANGED <<world, disk, process, desired, forgetting, handle, mounts>>
    BY DEF MountFailed, Inv, TypeOK, Set, States
  <1> QED BY <1>1, <1>2, GivesUpInv DEF MountFailed

LEMMA AwaitInv == ASSUME Inv, NEW c \in Calls, AwaitDone(c) PROVE Inv'
  <1> DEFINE u == proc[c].u
  <1>1. /\ TypeOK /\ proc[c].pc = "await" /\ proc[c].pc \in Naming /\ proc[c].pc \in Locked
        /\ ~At(c, "mounted")
    BY DEF Inv, AwaitDone, At, Naming, Locked
  <1>2. /\ entry' \in [Users -> States]
        /\ UNCHANGED <<world, disk, process, desired, forgetting, handle, mounts>>
    BY DEF AwaitDone, memory, Inv, TypeOK
  <1>3. CASE Unlock(u) /\ Returned(c, FALSE)
    BY <1>1, <1>2, <1>3, GivesUpInv
  <1>4. CASE server[proc[c].h].st \in {"done", "free"} /\ Goto(c, "clean") /\ UNCHANGED busy
    <2>1. "clean" \in Naming
      BY DEF Naming, Locked
    <2>2. OneCall(c) /\ proc'[c].pc = "clean" /\ proc'[c].u = u
      BY <1>1, <1>4, <2>1, GotoOne
    <2>3. handle[u] = Nil \/ server[handle[u]].st = "done"
      BY <1>1, <1>4, Holder DEF Inv, Fits, HandleFits
    <2>4. UNCHANGED <<handle, server, busy>>
      BY <1>2, <1>4 DEF mounts
    <2>5. Fits(c)'
      BY <1>1, <2>2, <2>3, <2>4, Holder DEF Fits
    <2> QED BY <1>1, <1>2, <1>4, <2>1, <2>5, GoesOnInv
  <1> QED BY <1>3, <1>4 DEF AwaitDone

LEMMA NextUserInv == ASSUME Inv, NEW c \in Calls, NextUser(c) PROVE Inv'
  <1>1. /\ TypeOK /\ proc[c].pc = "next" /\ ~At(c, "mounted") /\ proc[c] \in Records
    BY DEF Inv, TypeOK, NextUser, At
  <1>2. /\ entry' \in [Users -> States]
        /\ UNCHANGED <<world, disk, process, desired, forgetting, handle, mounts, busy>>
    BY DEF NextUser, memory, Inv, TypeOK
  <1>3. ASSUME NEW u \in proc[c].retry,
               proc' = [proc EXCEPT ![c].pc = "begin", ![c].call = "retry", ![c].u = u,
                                    ![c].retry = @ \ {u}]
        PROVE  Inv'
    <2> DEFINE r == [proc[c] EXCEPT !.pc = "begin", !.call = "retry", !.u = u, !.retry = @ \ {u}]
    <2>1. r \in Records /\ r.pc = "begin" /\ r.u \in Users
      BY <1>1 DEF Records, Naming
    <2>2. proc' = [proc EXCEPT ![c] = r]
      BY <1>1, <1>3 DEF TypeOK
    <2> HIDE DEF r
    <2> QED BY <1>1, <1>2, <2>1, <2>2, RecordInv DEF Locked
  <1>4. ASSUME NEW u \in proc[c].want,
               proc' = [proc EXCEPT ![c].pc = "resolve", ![c].call = "keep", ![c].u = u,
                                    ![c].want = @ \ {u}]
        PROVE  Inv'
    <2> DEFINE r == [proc[c] EXCEPT !.pc = "resolve", !.call = "keep", !.u = u, !.want = @ \ {u}]
    <2>1. r \in Records /\ r.pc = "resolve" /\ r.u \in Users
      BY <1>1 DEF Records, Naming
    <2>2. proc' = [proc EXCEPT ![c] = r]
      BY <1>1, <1>4 DEF TypeOK
    <2> HIDE DEF r
    <2> QED BY <1>1, <1>2, <2>1, <2>2, RecordInv DEF Locked
  <1>5. CASE ScanEnds(c, dir)
    BY <1>1, <1>2, <1>5, ScanEndsInv DEF TypeOK
  <1> QED BY <1>3, <1>4, <1>5 DEF NextUser, ScanEnds

LEMMA RecordFailureInv == ASSUME Inv, NEW c \in Calls, RecordReconcileFailure(c) PROVE Inv'
  <1> DEFINE r == Following(proc[c].retry, proc[c].want)
  <1>1. proc[c] \in Records /\ proc[c].u \in Users /\ ~At(c, "mounted")
    BY DEF Inv, TypeOK, RecordReconcileFailure, At, Naming
  <1>2. r \in Records /\ r.pc = "next"
    BY <1>1, FollowingType DEF Records
  <1>3. proc' = [proc EXCEPT ![c] = r]
    BY DEF RecordReconcileFailure
  <1>4. /\ entry' \in [Users -> States]
        /\ UNCHANGED <<world, disk, process, desired, forgetting, handle, mounts, busy>>
    BY <1>1 DEF RecordReconcileFailure, Inv, TypeOK, Set, States
  <1> HIDE DEF r
  <1> QED BY <1>1, <1>2, <1>3, <1>4, RecordInv DEF Locked, Naming

LEMMA ScanInv == ASSUME Inv, NEW c \in Calls, ScanMountpoint(c) PROVE Inv'
  <1>1. TypeOK /\ ~At(c, "mounted") /\ proc[c] \in Records
    BY DEF Inv, TypeOK, ScanMountpoint, At
  <1>2. /\ entry' \in [Users -> States]
        /\ UNCHANGED <<world, disk, process, desired, forgetting, handle, mounts, busy>>
    BY DEF ScanMountpoint, memory, Inv, TypeOK
  <1>3. PICK u \in proc[c].scan :
          \/ ScanEnds(c, proc[c].scan \ {u})
          \/ proc' = [proc EXCEPT ![c].pc = "sweep", ![c].u = u, ![c].scan = @ \ {u}]
    BY DEF ScanMountpoint
  <1>4. CASE ScanEnds(c, proc[c].scan \ {u})
    <2>1. proc[c].scan \ {u} \in SUBSET Users
      BY <1>1 DEF Records
    <2> QED BY <1>1, <1>2, <1>4, <2>1, ScanEndsInv
  <1>5. CASE proc' = [proc EXCEPT ![c].pc = "sweep", ![c].u = u, ![c].scan = @ \ {u}]
    <2> DEFINE r == [proc[c] EXCEPT !.pc = "sweep", !.u = u, !.scan = @ \ {u}]
    <2>1. r \in Records /\ r.pc = "sweep" /\ r.u \in Users
      BY <1>1 DEF Records, Naming
    <2>2. proc' = [proc EXCEPT ![c] = r]
      BY <1>1, <1>5 DEF TypeOK
    <2> HIDE DEF r
    <2> QED BY <1>1, <1>2, <2>1, <2>2, RecordInv DEF Locked
  <1> QED BY <1>3, <1>4, <1>5

-----------------------------------------------------------------------------
(* The steps of a call that change what the lock of its user protects.     *)

LEMMA HolderInv ==
  ASSUME Inv, NEW c \in Calls, proc[c].pc \in Locked, NEW u \in Users, u = proc[c].u,
         UNCHANGED process, TypeOK', Within(c, {u}), Fits(c)',
         desired' \subseteq marker', desired' \cap forgetting' = {},
         HandleFits(u)',
         Served(u)' => u \in desired' \cup forgetting',
         Served(u)' \/ u \in dead' => u \in marker',
         \A h \in Handles : Live(h)' /\ server'[h].u = u =>
           handle'[u] = h \/ (At(c, "mounted")' /\ proc'[c].h = h)
  PROVE  Inv'
  <1>1. phase \notin {"stopping", "down"}
    BY Holder DEF Inv, MemoryFits
  <1>2. MemoryFits'
    BY <1>1 DEF MemoryFits, process
  <1> DEFINE U == {u}
  <1>3. U \in SUBSET Users /\ Within(c, U)
    OBVIOUS
  <1>4. \A v \in U :
           /\ HandleFits(v)'
           /\ Served(v)' => v \in desired' \cup forgetting'
           /\ Served(v)' \/ v \in dead' => v \in marker'
    OBVIOUS
  <1>5. \A h \in Handles : Live(h)' /\ server'[h].u \in U =>
           handle'[server'[h].u] = h \/ (At(c, "mounted")' /\ proc'[c].h = h)
    OBVIOUS
  <1> HIDE DEF U
  <1> QED BY <1>2, <1>3, <1>4, <1>5, CallInv

\* What the holder c of the lock of u may rely on.
Knows(c, u) ==
  /\ TypeOK /\ Fits(c) /\ HandleFits(u) /\ busy[u] = c /\ proc[c].pc \in Naming
  /\ desired \subseteq marker /\ desired \cap forgetting = {}
  /\ Served(u) => u \in desired \cup forgetting
  /\ Served(u) \/ u \in dead => u \in marker
  /\ \A h \in Handles : Live(h) /\ server[h].u = u =>
       handle[u] = h \/ (At(c, "mounted") /\ proc[c].h = h)

LEMMA HolderKnows ==
  ASSUME Inv, NEW c \in Calls, proc[c].pc \in Locked, NEW u \in Users, u = proc[c].u
  PROVE  Knows(c, u)
  <1>1. busy[u] = c
    BY Holder
  <1>2. \A h \in Handles : Live(h) /\ server[h].u = u =>
              handle[u] = h \/ (At(c, "mounted") /\ proc[c].h = h)
    BY <1>1, OwnServer
  <1> QED BY <1>1, <1>2 DEF Knows, Inv, MemoryFits, MountedIsMarked, WantedOrLeaving, Naming

LEMMA PersistInv == ASSUME Inv, NEW c \in Calls, PersistDesired(c) PROVE Inv'
  <1> DEFINE u == proc[c].u
  <1>1. proc[c].pc = "persist" /\ proc[c].pc \in Locked /\ ~At(c, "mounted") /\ u \in Users
    BY Holder DEF PersistDesired, At, Locked
  <1>2. PICK v \in Users : v = u
    BY <1>1
  <1>3. Knows(c, v)
    BY <1>1, <1>2, HolderKnows
  <1> USE DEF Knows
  <1>4. UNCHANGED <<known, calm, dir, dead, phase, leaving, entry, handle, server, watching, reports>>
    BY DEF PersistDesired, world, process, mounts
  <1>5. UNCHANGED process
    BY DEF PersistDesired
  <1>6. /\ HandleFits(v)' /\ Served(v)' = Served(v)
        /\ \A h \in Handles : Live(h)' /\ server'[h].u = v => handle'[v] = h
    BY <1>1, <1>3, <1>4 DEF HandleFits, Live, Served, Serves
  <1>7. CASE /\ marker' = marker \cup {u}
             /\ desired' = desired \cup {u} /\ forgetting' = forgetting \ {u}
             /\ Goto(c, "admit") /\ UNCHANGED busy
    <2>1. OneCall(c) /\ proc'[c].pc = "admit" /\ proc'[c].u = u
      BY <1>3, <1>7, GotoOne DEF Naming, Locked
    <2>2. TypeOK'
      BY <1>2, <1>3, <1>4, <1>7, <2>1 DEF TypeOK, OneCall
    <2>3. Within(c, {v})
      BY <1>1, <1>2, <1>3, <1>4, <1>7, <2>1 DEF Within
    <2>4. Fits(c)'
      BY <1>2, <1>3, <1>7, <2>1 DEF Fits
    <2>5. desired' \subseteq marker' /\ desired' \cap forgetting' = {}
      BY <1>2, <1>3, <1>7
    <2>6. (Served(v)' => v \in desired' \cup forgetting') /\ v \in marker'
      BY <1>2, <1>7
    <2> QED BY <1>1, <1>2, <1>5, <1>6, <2>2, <2>3, <2>4, <2>5, <2>6, HolderInv
  <1>8. CASE /\ marker' \in {marker, marker \cup {u}}
             /\ Unlock(u) /\ Returned(c, FALSE) /\ UNCHANGED <<desired, forgetting>>
    <2>1. OneCall(c) /\ Fits(c)'
      BY <1>3, <1>8, ReturnedOne, UnlockedFits
    <2>2. busy' \in [Users -> Calls \cup {NoOne}] /\ \A w \in Users \ {v} : busy'[w] = busy[w]
      BY <1>2, <1>3, <1>8, UnlockOne
    <2>3. TypeOK'
      BY <1>2, <1>3, <1>4, <1>8, <2>1, <2>2 DEF TypeOK, OneCall
    <2>4. Within(c, {v})
      BY <1>1, <1>2, <1>3, <1>4, <1>8, <2>1, <2>2 DEF Within
    <2>5. desired' \subseteq marker' /\ desired' \cap forgetting' = {}
      BY <1>3, <1>8
    <2>6. (Served(v)' => v \in desired' \cup forgetting') /\ (Served(v)' \/ v \in dead' => v \in marker')
      BY <1>2, <1>3, <1>4, <1>6, <1>8
    <2> QED BY <1>1, <1>2, <1>5, <1>6, <2>1, <2>3, <2>4, <2>5, <2>6, HolderInv
  <1> QED BY <1>7, <1>8 DEF PersistDesired

LEMMA PrepareInv == ASSUME Inv, NEW c \in Calls, PrepareMountpoint(c) PROVE Inv'
  <1> DEFINE u == proc[c].u
  <1>1. proc[c].pc = "prepare" /\ proc[c].pc \in Locked /\ ~At(c, "mounted") /\ u \in Users
    BY Holder DEF PrepareMountpoint, At, Locked
  <1>2. PICK v \in Users : v = u
    BY <1>1
  <1>3. Knows(c, v)
    BY <1>1, <1>2, HolderKnows
  <1> USE DEF Knows
  <1>4. /\ UNCHANGED <<known, calm, marker, phase, leaving, desired, forgetting, entry, handle, busy>>
        /\ UNCHANGED <<server, watching, reports>> /\ UNCHANGED process
    BY DEF PrepareMountpoint, world, process, memory, mounts
  <1>5. /\ HandleFits(v)' /\ Served(v)' = Served(v)
        /\ \A h \in Handles : Live(h)' /\ server'[h].u = v => handle'[v] = h
    BY <1>1, <1>3, <1>4 DEF HandleFits, Live, Served, Serves
  <1>6. /\ dead' \subseteq dead /\ dir' \subseteq Users
        /\ \E pc \in {"mount", "failed"} : Goto(c, pc)
    BY <1>2, <1>3 DEF PrepareMountpoint, TypeOK
  <1>7. PICK pc \in {"mount", "failed"} : Goto(c, pc)
    BY <1>6
  <1>8. OneCall(c) /\ proc'[c].pc = pc /\ proc'[c].u = u
    BY <1>3, <1>7, GotoOne DEF Naming, Locked
  <1>9. TypeOK'
    BY <1>3, <1>4, <1>6, <1>8 DEF TypeOK, OneCall
  <1>10. Within(c, {v})
    BY <1>1, <1>2, <1>3, <1>4, <1>6, <1>8 DEF Within
  <1>11. Fits(c)'
    BY <1>1, <1>3, <1>4, <1>8 DEF Fits
  <1> QED BY <1>1, <1>2, <1>3, <1>4, <1>5, <1>6, <1>9, <1>10, <1>11, HolderInv

\* A mount is made only when something is free to be its handle.
LEMMA NewHandleUnused ==
  ASSUME NEW h \in Handles, Unused(h)
  PROVE  NewHandle \in Handles /\ Unused(NewHandle)
  BY DEF NewHandle

LEMMA ProviderMountInv == ASSUME Inv, NEW c \in Calls, ProviderMount(c) PROVE Inv'
  <1> DEFINE u == proc[c].u
  <1>1. proc[c].pc = "mount" /\ proc[c].pc \in Locked /\ ~At(c, "mounted") /\ u \in Users
    BY Holder DEF ProviderMount, At, Locked
  <1>2. PICK v \in Users : v = u
    BY <1>1
  <1>3. Knows(c, v)
    BY <1>1, <1>2, HolderKnows
  <1> USE DEF Knows
  <1>4. /\ UNCHANGED <<known, calm, marker, dir, dead, phase, leaving, desired, forgetting, entry>>
        /\ UNCHANGED <<handle, busy, watching, reports>> /\ UNCHANGED process
    BY DEF ProviderMount, world, disk, process, memory
  <1>5. u \in desired /\ handle[u] = Nil
    BY <1>1, <1>3 DEF Fits
  <1>6. CASE Goto(c, "failed") /\ UNCHANGED server
    <2>1. Fits(c)'
      <3>1. OneCall(c) /\ proc'[c].pc = "failed" /\ proc'[c].u = u
        BY <1>3, <1>6, GotoOne DEF Naming, Locked
      <3> QED BY <3>1, <1>1, <1>2, <1>3, <1>4, <1>5 DEF Fits
    <2>2. entry' \in [Users -> States]
      BY <1>3, <1>4 DEF TypeOK
    <2>3. UNCHANGED <<world, disk, process, desired, forgetting, handle, mounts, busy>>
      BY <1>4, <1>6 DEF world, disk, process, mounts
    <2> QED BY <1>1, <1>3, <1>6, <2>1, <2>2, <2>3, GoesOnInv DEF Naming, Locked
  <1>7. CASE /\ \E h \in Handles : Unused(h)
             /\ server' = Set(server, NewHandle, [u |-> u, st |-> "serving"])
             /\ proc' = [proc EXCEPT ![c].pc = "mounted", ![c].h = NewHandle]
    <2>1. PICK h \in Handles : h = NewHandle /\ Unused(h)
      BY <1>7, NewHandleUnused
    <2>2. server[h].st = "free" /\ h \notin watching /\ server[h] = Free
      BY <2>1 DEF Unused, Free, Inv, ServerFits
    <2> DEFINE r == [proc[c] EXCEPT !.pc = "mounted", !.h = h]
    <2>3. r \in Records /\ r.pc = "mounted" /\ r.h = h /\ r.u = u
      <3>1. proc[c] \in Records
        BY <1>3 DEF TypeOK
      <3>2. r.pc = "mounted" /\ r.h = h /\ r.u = u
        BY <3>1 DEF Records
      <3>3. r \in Records
        BY <3>1 DEF Records, Naming, Locked
      <3> QED BY <3>2, <3>3
    <2>4. proc' = [proc EXCEPT ![c] = r]
      BY <1>3, <1>7, <2>1 DEF TypeOK
    <2> HIDE DEF r
    <2>5. OneCall(c) /\ proc'[c].pc = "mounted" /\ proc'[c].h = h /\ proc'[c].u = u
      BY <1>1, <1>3, <2>3, <2>4, OneRecord
    <2>6. /\ server' \in [Handles -> [u : Users \cup {NoUser}, st : {"free", "serving", "closing", "done"}]]
          /\ server'[h].u = v /\ server'[h].st = "serving"
          /\ \A g \in Handles \ {h} : server'[g] = server[g]
      BY <1>2, <1>3, <1>7, <2>1 DEF TypeOK, Set
    <2>7. TypeOK'
      BY <1>2, <1>3, <1>4, <2>5, <2>6 DEF TypeOK, OneCall
    <2>8. Within(c, {v})
      BY <1>1, <1>3, <1>4, <2>1, <2>2, <2>5, <2>6 DEF Within
    <2>9. Fits(c)'
      BY <1>2, <1>3, <1>4, <1>5, <2>2, <2>5, <2>6 DEF Fits
    <2>10. HandleFits(v)' /\ v \in desired' /\ v \in marker'
      BY <1>2, <1>3, <1>4, <1>5 DEF HandleFits
    <2>11. \A g \in Handles : Live(g)' /\ server'[g].u = v =>
             handle'[v] = g \/ (At(c, "mounted")' /\ proc'[c].h = g)
      BY <1>1, <1>3, <1>4, <2>5, <2>6 DEF Live, At
    <2>12. desired' \subseteq marker' /\ desired' \cap forgetting' = {}
      BY <1>3, <1>4
    <2> QED BY <1>1, <1>2, <1>4, <2>7, <2>8, <2>9, <2>10, <2>11, <2>12, HolderInv
  <1> QED BY <1>6, <1>7 DEF ProviderMount

LEMMA MountedInv == ASSUME Inv, NEW c \in Calls, Mounted(c) PROVE Inv'
  <1> DEFINE u == proc[c].u
  <1>1. proc[c].pc = "mounted" /\ proc[c].pc \in Locked /\ At(c, "mounted") /\ u \in Users
    BY Holder DEF Mounted, At, Locked
  <1>2. PICK v \in Users : v = u
    BY <1>1
  <1>3. Knows(c, v)
    BY <1>1, <1>2, HolderKnows
  <1> USE DEF Knows
  <1>4. /\ UNCHANGED <<known, calm, marker, dir, dead, phase, leaving, desired, forgetting>>
        /\ UNCHANGED <<server, reports>> /\ UNCHANGED process
    BY DEF Mounted, world, disk, process
  <1>5. PICK h \in Handles : h = proc[c].h /\ server[h].u = v /\ server[h].st # "free"
    BY <1>1, <1>2, <1>3 DEF Fits
  <1>6. /\ handle' = Set(handle, v, h) /\ entry' = Set(entry, v, "mounted")
        /\ watching' = watching \cup {h} /\ Unlock(v) /\ Returned(c, TRUE)
    BY <1>2, <1>5 DEF Mounted
  <1>7. OneCall(c) /\ Fits(c)'
    BY <1>3, <1>6, ReturnedOne, UnlockedFits
  <1>8. busy' \in [Users -> Calls \cup {NoOne}] /\ \A w \in Users \ {v} : busy'[w] = busy[w]
    BY <1>3, <1>6, UnlockOne
  <1>9. TypeOK'
    BY ZenonT(40), <1>3, <1>4, <1>6, <1>7, <1>8 DEF TypeOK, OneCall, Set, States
  <1>10. handle'[v] = h /\ \A w \in Users \ {v} : handle'[w] = handle[w]
    BY <1>3, <1>6 DEF Set, TypeOK
  <1>11. Within(c, {v})
    BY <1>2, <1>3, <1>4, <1>5, <1>6, <1>7, <1>8, <1>10 DEF Within
  <1>12. HandleFits(v)' /\ Served(v)' = Served(v)
    BY <1>4, <1>5, <1>6, <1>10 DEF HandleFits, Served, Serves
  <1>13. \A g \in Handles : Live(g)' /\ server'[g].u = v => handle'[v] = g
    BY <1>1, <1>2, <1>3, <1>4, <1>5, <1>10, MountsAssumption DEF Live, Fits, Nil
  <1> QED
    BY <1>1, <1>2, <1>3, <1>4, <1>7, <1>9, <1>11, <1>12, <1>13, HolderInv

LEMMA MarkInv == ASSUME Inv, NEW c \in Calls, MarkForgotten(c) PROVE Inv'
  <1> DEFINE u == proc[c].u
  <1>1. proc[c].pc = "mark" /\ proc[c].pc \in Locked /\ ~At(c, "mounted") /\ u \in Users
    BY Holder DEF MarkForgotten, At, Locked
  <1>2. PICK v \in Users : v = u
    BY <1>1
  <1>3. Knows(c, v)
    BY <1>1, <1>2, HolderKnows
  <1> USE DEF Knows
  <1>4. /\ UNCHANGED <<known, calm, marker, dir, dead, phase, leaving, handle>>
        /\ UNCHANGED <<server, watching, reports>> /\ UNCHANGED process
    BY DEF MarkForgotten, world, disk, process, mounts
  <1>5. /\ HandleFits(v)' /\ Served(v)' = Served(v)
        /\ \A h \in Handles : Live(h)' /\ server'[h].u = v => handle'[v] = h
    BY <1>1, <1>3, <1>4 DEF HandleFits, Live, Served, Serves
  <1>6. CASE Unlock(u) /\ Returned(c, TRUE) /\ UNCHANGED <<desired, forgetting, entry>>
    <2>1. entry' \in [Users -> States] /\ UNCHANGED <<world, disk, mounts>>
      BY <1>3, <1>4, <1>6 DEF TypeOK, world, disk, mounts
    <2> QED BY <1>1, <1>4, <1>6, <2>1, GivesUpInv
  <1>7. ASSUME NEW s \in States, entry' = Set(entry, u, s),
               \/ UNCHANGED <<desired, forgetting>>
               \/ desired' = desired \ {u} /\ forgetting' = forgetting \cup {u},
               proc' = [proc EXCEPT ![c].pc = IF handle[u] # Nil THEN "stop" ELSE "inspect",
                                    ![c].h = handle[u]],
               UNCHANGED busy
        PROVE  Inv'
    <2> DEFINE pc == IF handle[u] # Nil THEN "stop" ELSE "inspect"
               r == [proc[c] EXCEPT !.pc = pc, !.h = handle[u]]
    <2>1. /\ pc \in {"stop", "inspect"} /\ (pc = "stop" => handle[u] # Nil) /\ (pc = "inspect" => handle[u] = Nil)
          /\ handle[u] \in Handles \cup {Nil} /\ proc[c] \in Records
      BY <1>1, <1>3 DEF TypeOK
    <2>2. proc' = [proc EXCEPT ![c] = r]
      BY <1>3, <1>7 DEF TypeOK
    <2> HIDE DEF pc
    <2>3. r.pc = pc /\ r.h = handle[u] /\ r.u = u
      BY <2>1 DEF Records
    <2>4. r \in Records
      BY <2>1 DEF Records, Naming, Locked
    <2> HIDE DEF r
    <2>5. OneCall(c) /\ proc'[c].pc = pc /\ proc'[c].h = handle[u] /\ proc'[c].u = u
      BY <1>1, <1>3, <2>2, <2>3, <2>4, OneRecord
    <2>6. entry' \in [Users -> States]
      BY <1>3, <1>7 DEF TypeOK, Set
    <2>7. desired' \subseteq Users /\ forgetting' \subseteq Users
      BY <1>1, <1>3, <1>7 DEF TypeOK
    <2>8. TypeOK'
      BY <1>3, <1>4, <1>7, <2>5, <2>6, <2>7 DEF TypeOK, OneCall
    <2>9. \A w \in Users \ {v} : (w \in desired => w \in desired') /\ (w \in forgetting => w \in forgetting')
      BY <1>2, <1>7
    <2>10. Within(c, {v})
      BY <1>1, <1>3, <1>4, <1>7, <2>5, <2>9 DEF Within
    <2>11. Fits(c)'
      <3>1. handle[u] # Nil => server[handle[u]].u = u
        BY <1>2, <1>3 DEF HandleFits
      <3> QED BY <3>1, <1>1, <1>2, <1>3, <1>4, <1>7, <2>1, <2>5 DEF Fits
    <2>12. desired' \subseteq marker' /\ desired' \cap forgetting' = {}
      BY <1>3, <1>4, <1>7
    <2>13. (Served(v)' => v \in desired' \cup forgetting') /\ (Served(v)' \/ v \in dead' => v \in marker')
      BY <1>2, <1>3, <1>4, <1>5, <1>7
    <2> QED BY <1>1, <1>2, <1>4, <1>5, <2>8, <2>10, <2>11, <2>12, <2>13, HolderInv
  <1>8. entry[u] \in States /\ {"unmounting", "unmounted"} \subseteq States
    BY <1>1, <1>3 DEF TypeOK, States
  <1>9. (CASE handle[u] # Nil -> "unmounting"
           [] entry[u] = "none" -> "unmounted"
           [] OTHER -> entry[u]) \in States
    BY <1>8
  <1> QED BY <1>6, <1>7, <1>9 DEF MarkForgotten

LEMMA StopServerType ==
  ASSUME TypeOK, NEW h
  PROVE  /\ StopServer(h) \in [Handles -> [u : Users \cup {NoUser}, st : {"free", "serving", "closing", "done"}]]
         /\ \A g \in Handles :
              /\ StopServer(h)[g].u = server[g].u
              /\ g # h => StopServer(h)[g] = server[g]
              /\ StopServer(h)[g].st \in {server[g].st, "closing"}
              /\ StopServer(h)[g].st = "closing" => server[g].st \in {"serving", "closing"}
              /\ server[g].st \in {"free", "done"} => StopServer(h)[g] = server[g]
  BY DEF TypeOK, StopServer

LEMMA StopInv == ASSUME Inv, NEW c \in Calls, StopMount(c) PROVE Inv'
  <1> DEFINE u == proc[c].u
  <1>1. proc[c].pc = "stop" /\ proc[c].pc \in Locked /\ ~At(c, "mounted") /\ u \in Users
    BY Holder DEF StopMount, At, Locked
  <1>2. PICK v \in Users : v = u
    BY <1>1
  <1>3. Knows(c, v)
    BY <1>1, <1>2, HolderKnows
  <1> USE DEF Knows
  <1>4. /\ UNCHANGED <<known, calm, marker, dir, dead, phase, leaving, desired, forgetting>>
        /\ UNCHANGED <<handle, watching, reports>> /\ UNCHANGED process
    BY DEF StopMount, world, disk, process
  <1>5. CASE entry' = Set(entry, u, "unmount_failed") /\ Unlock(u) /\ Returned(c, FALSE) /\ UNCHANGED server
    <2>1. entry' \in [Users -> States] /\ UNCHANGED <<world, disk, mounts>>
      BY <1>3, <1>4, <1>5 DEF TypeOK, world, disk, mounts, Set, States
    <2> QED BY <1>1, <1>4, <1>5, <2>1, GivesUpInv
  <1>6. CASE server' = StopServer(proc[c].h) /\ Goto(c, "await") /\ UNCHANGED <<entry, busy>>
    <2>1. OneCall(c) /\ proc'[c].pc = "await" /\ proc'[c].u = u /\ proc'[c].h = proc[c].h
      BY <1>3, <1>6, GotoOne DEF Naming, Locked
    <2>2. PICK h \in Handles :
            /\ h = proc[c].h /\ handle[u] \in {h, Nil}
            /\ (server[h].u = u \/ server[h].st = "free")
      BY <1>1, <1>3 DEF Fits
    <2>3. /\ server' \in [Handles -> [u : Users \cup {NoUser}, st : {"free", "serving", "closing", "done"}]]
          /\ \A g \in Handles :
               /\ server'[g].u = server[g].u /\ (g # h => server'[g] = server[g])
               /\ server'[g].st \in {server[g].st, "closing"}
               /\ server'[g].st = "closing" => server[g].st \in {"serving", "closing"}
      BY <1>3, <1>6, <2>2, StopServerType
    <2>4. TypeOK'
      BY <1>3, <1>4, <1>6, <2>1, <2>3 DEF TypeOK, OneCall
    <2>5. server'[h] = server[h] \/ (server[h].u = v /\ server[h].st # "free" /\ server'[h].st # "free")
      BY <1>2, <1>3, <1>6, <2>2, <2>3, StopServerType
    <2>6. Within(c, {v})
      BY <1>1, <1>3, <1>4, <1>6, <2>1, <2>3, <2>5 DEF Within
    <2>7. Fits(c)'
      BY <1>2, <1>3, <1>4, <1>6, <2>1, <2>2, <2>3, <2>5 DEF Fits
    <2>8. /\ HandleFits(v)'
          /\ Served(v)' => Served(v)
          /\ \A g \in Handles : Live(g)' /\ server'[g].u = v => handle'[v] = g
      BY <1>1, <1>3, <1>4, <2>3 DEF HandleFits, Live, Served, Serves, TypeOK
    <2> QED BY <1>1, <1>2, <1>3, <1>4, <2>4, <2>6, <2>7, <2>8, HolderInv
  <1> QED BY <1>5, <1>6 DEF StopMount

LEMMA InspectInv == ASSUME Inv, NEW c \in Calls, InspectMount(c) PROVE Inv'
  <1> DEFINE u == proc[c].u
  <1>1. proc[c].pc = "inspect" /\ proc[c].pc \in Locked /\ ~At(c, "mounted") /\ u \in Users
    BY Holder DEF InspectMount, At, Locked
  <1>2. PICK v \in Users : v = u
    BY <1>1
  <1>3. Knows(c, v)
    BY <1>1, <1>2, HolderKnows
  <1> USE DEF Knows
  <1>4. /\ UNCHANGED <<known, calm, marker, dir, phase, leaving, desired, forgetting, entry, handle>>
        /\ UNCHANGED <<server, watching, reports>> /\ UNCHANGED process
    BY DEF InspectMount, world, process, memory, mounts
  <1>5. CASE Unlock(u) /\ Returned(c, FALSE) /\ UNCHANGED dead
    <2>1. entry' \in [Users -> States] /\ UNCHANGED <<world, disk, mounts>>
      BY <1>3, <1>4, <1>5 DEF TypeOK, world, disk, mounts
    <2> QED BY <1>1, <1>4, <1>5, <2>1, GivesUpInv
  <1>6. CASE dead' = dead \ {u} /\ Goto(c, "clean") /\ UNCHANGED busy
    <2>1. OneCall(c) /\ proc'[c].pc = "clean" /\ proc'[c].u = u
      BY <1>3, <1>6, GotoOne DEF Naming, Locked
    <2>2. TypeOK'
      BY <1>3, <1>4, <1>6, <2>1 DEF TypeOK, OneCall
    <2>3. Within(c, {v})
      BY <1>1, <1>3, <1>4, <1>6, <2>1 DEF Within
    <2>4. Fits(c)'
      BY <1>1, <1>2, <1>3, <1>4, <1>6, <2>1 DEF Fits
    <2>5. /\ HandleFits(v)' /\ Served(v)' = Served(v)
          /\ \A g \in Handles : Live(g)' /\ server'[g].u = v => handle'[v] = g
      BY <1>1, <1>3, <1>4 DEF HandleFits, Live, Served, Serves
    <2> QED BY <1>1, <1>2, <1>3, <1>4, <1>6, <2>2, <2>3, <2>4, <2>5, HolderInv
  <1> QED BY <1>5, <1>6 DEF InspectMount

LEMMA RemoveInv == ASSUME Inv, NEW c \in Calls, RemoveMountpoint(c) PROVE Inv'
  <1> DEFINE u == proc[c].u
  <1>1. proc[c].pc = "clean" /\ proc[c].pc \in Locked /\ ~At(c, "mounted") /\ u \in Users
    BY Holder DEF RemoveMountpoint, At, Locked
  <1>2. PICK v \in Users : v = u
    BY <1>1
  <1>3. Knows(c, v)
    BY <1>1, <1>2, HolderKnows
  <1> USE DEF Knows
  <1>4. /\ UNCHANGED <<known, calm, marker, dead, phase, leaving, desired, forgetting>>
        /\ UNCHANGED <<server, watching, reports>> /\ UNCHANGED process
    BY DEF RemoveMountpoint, world, process, mounts
  <1>5. \A g \in Handles : server[g].u = v => ~Live(g)
    BY <1>1, <1>2, <1>3, MountsAssumption DEF Fits, Live, Nil
  <1>6. \A g \in Handles : Live(g)' /\ server'[g].u = v => FALSE
    BY <1>4, <1>5 DEF Live
  <1>7. Served(v)' = Served(v)
    BY <1>4 DEF Served, Serves
  <1>8. CASE /\ ~Served(u) /\ u \notin dead /\ dir' = dir \ {u} /\ Goto(c, "forget")
             /\ UNCHANGED <<entry, handle, busy>>
    <2>1. OneCall(c) /\ proc'[c].pc = "forget" /\ proc'[c].u = u
      BY <1>3, <1>8, GotoOne DEF Naming, Locked
    <2>2. TypeOK'
      BY <1>3, <1>4, <1>8, <2>1 DEF TypeOK, OneCall
    <2>3. Within(c, {v})
      BY <1>1, <1>3, <1>4, <1>8, <2>1 DEF Within
    <2>4. ~Served(v)' /\ v \notin dead'
      BY <1>2, <1>4, <1>7, <1>8
    <2>5. Fits(c)'
      BY <1>1, <1>2, <1>3, <1>4, <1>8, <2>1, <2>4 DEF Fits
    <2>6. HandleFits(v)'
      BY <1>3, <1>4, <1>8 DEF HandleFits
    <2> QED BY <1>1, <1>2, <1>3, <1>4, <1>6, <2>2, <2>3, <2>4, <2>5, <2>6, HolderInv
  <1>9. CASE /\ entry' = Set(entry, u, "blocked") /\ handle' = Set(handle, u, Nil)
             /\ Unlock(u) /\ Returned(c, FALSE) /\ UNCHANGED dir
    <2>1. OneCall(c) /\ Fits(c)'
      BY <1>3, <1>9, ReturnedOne, UnlockedFits
    <2>2. busy' \in [Users -> Calls \cup {NoOne}] /\ \A w \in Users \ {v} : busy'[w] = busy[w]
      BY <1>2, <1>3, <1>9, UnlockOne
    <2>3. /\ handle' \in [Users -> Handles \cup {Nil}] /\ entry' \in [Users -> States]
          /\ handle'[v] = Nil /\ \A w \in Users \ {v} : handle'[w] = handle[w]
      BY <1>2, <1>3, <1>9 DEF Set, TypeOK, States
    <2>4. TypeOK'
      BY <1>3, <1>4, <1>9, <2>1, <2>2, <2>3 DEF TypeOK, OneCall
    <2>5. Within(c, {v})
      BY <1>1, <1>3, <1>4, <1>9, <2>1, <2>2, <2>3 DEF Within
    <2>6. HandleFits(v)'
      BY <2>3 DEF HandleFits
    <2> QED BY <1>1, <1>2, <1>3, <1>4, <1>6, <1>7, <2>1, <2>4, <2>5, <2>6, HolderInv
  <1> QED BY <1>8, <1>9 DEF RemoveMountpoint

LEMMA ForgetInv == ASSUME Inv, NEW c \in Calls, ForgetMarker(c) PROVE Inv'
  <1> DEFINE u == proc[c].u
  <1>1. proc[c].pc = "forget" /\ proc[c].pc \in Locked /\ ~At(c, "mounted") /\ u \in Users
    BY Holder DEF ForgetMarker, At, Locked
  <1>2. PICK v \in Users : v = u
    BY <1>1
  <1>3. Knows(c, v)
    BY <1>1, <1>2, HolderKnows
  <1> USE DEF Knows
  <1>4. /\ UNCHANGED <<known, calm, dir, dead, phase, leaving, desired>>
        /\ UNCHANGED <<server, watching, reports>> /\ UNCHANGED process
    BY DEF ForgetMarker, world, process, mounts
  <1>5. ~Served(v) /\ v \notin dead
    BY <1>1, <1>2, <1>3 DEF Fits
  <1>6. ~Served(v)' /\ v \notin dead'
    BY <1>4, <1>5 DEF Served, Serves
  <1>7. \A g \in Handles : Live(g)' /\ server'[g].u = v => FALSE
    BY <1>1, <1>2, <1>3, <1>4, MountsAssumption DEF Fits, Live, Nil
  <1>8. OneCall(c) /\ Fits(c)'
    BY <1>3, ReturnedOne, UnlockedFits DEF ForgetMarker
  <1>9. busy' \in [Users -> Calls \cup {NoOne}] /\ \A w \in Users \ {v} : busy'[w] = busy[w]
    BY <1>2, <1>3, UnlockOne DEF ForgetMarker
  <1>10. /\ handle' \in [Users -> Handles \cup {Nil}]
         /\ handle'[v] = Nil /\ \A w \in Users \ {v} : handle'[w] = handle[w]
    BY <1>2, <1>3 DEF ForgetMarker, Set, TypeOK
  <1>11. entry' \in [Users -> States]
    BY <1>3 DEF ForgetMarker, Set, TypeOK, States
  <1>12. /\ marker' \subseteq marker /\ marker \ {v} \subseteq marker'
         /\ v \notin forgetting => marker' = marker
         /\ forgetting' \subseteq forgetting /\ forgetting \ {v} \subseteq forgetting'
    BY <1>2 DEF ForgetMarker
  <1>13. TypeOK'
    BY <1>3, <1>4, <1>8, <1>9, <1>10, <1>11, <1>12 DEF TypeOK, OneCall
  <1>14. Within(c, {v})
    BY <1>1, <1>3, <1>4, <1>8, <1>9, <1>10, <1>12 DEF Within
  <1>15. desired' \subseteq marker' /\ desired' \cap forgetting' = {}
    BY <1>3, <1>4, <1>12
  <1>16. HandleFits(v)'
    BY <1>10 DEF HandleFits
  <1> QED BY <1>1, <1>2, <1>4, <1>6, <1>7, <1>8, <1>13, <1>14, <1>15, <1>16, HolderInv

\* The scan holds no lock: it changes directories, what is left of earlier
\* processes and what a status says, and nobody relies on those.
LEMMA SweepInv == ASSUME Inv, NEW c \in Calls, SweepMountpoint(c) PROVE Inv'
  <1>1. /\ TypeOK /\ proc[c].u \in Users /\ ~At(c, "mounted") /\ proc[c] \in Records
        /\ proc[c].scan \in SUBSET Users
    BY DEF SweepMountpoint, Inv, TypeOK, At, Naming, Records
  <1>2. OneCall(c) /\ proc'[c].pc \notin Locked
    BY <1>1, ScanEndsOne DEF SweepMountpoint, Locked
  <1>3. /\ UNCHANGED <<known, calm, marker, phase, leaving, desired, forgetting, handle, busy>>
        /\ UNCHANGED <<server, watching, reports>>
    BY DEF SweepMountpoint, world, process, mounts
  <1>4. dead' \subseteq dead /\ dir' \subseteq dir /\ entry' \in [Users -> States]
    BY <1>1 DEF SweepMountpoint, TypeOK, Set, States
  <1>5. TypeOK'
    BY <1>1, <1>2, <1>3, <1>4 DEF TypeOK, OneCall
  <1>6. MemoryFits'
    BY <1>3 DEF Inv, MemoryFits, OperationsDone, Live
  <1> DEFINE U == {}
  <1>7. U \in SUBSET Users /\ Within(c, U)
    BY <1>1, <1>2, <1>3, <1>4 DEF Within
  <1>8. /\ \A v \in U : /\ HandleFits(v)'
                        /\ Served(v)' => v \in desired' \cup forgetting'
                        /\ Served(v)' \/ v \in dead' => v \in marker'
        /\ \A h \in Handles : Live(h)' /\ server'[h].u \in U =>
             handle'[server'[h].u] = h \/ (At(c, "mounted")' /\ proc'[c].h = h)
    OBVIOUS
  <1> HIDE DEF U
  <1> QED BY <1>2, <1>5, <1>6, <1>7, <1>8, UnlockedFits, CallInv

-----------------------------------------------------------------------------
(* The servers and their watchers, which hold no lock.                     *)

ServerType == [u : Users \cup {NoUser}, st : {"free", "serving", "closing", "done"}]

\* A server only moves on: it stops serving, then it is done.
LEMMA ServersMoveOn ==
  ASSUME Inv, server' \in [Handles -> ServerType],
         \A g \in Handles :
           /\ server'[g].u = server[g].u
           /\ Serves(g)' => Serves(g)
           /\ Live(g)' => Live(g)
           /\ server'[g].st = "free" <=> server[g].st = "free"
           /\ server[g].st = "done" => server'[g].st = "done",
         reports' \subseteq Handles, entry' \in [Users -> States],
         UNCHANGED <<world, disk, process, desired, forgetting, handle, busy, watching, proc>>
  PROVE  Inv'
  <1> USE DEF world, disk, process
  <1>1. TypeOK'
    BY DEF Inv, TypeOK, ServerType
  <1>2. \A u \in Users : Served(u)' => Served(u)
    BY DEF Served
  <1>3. ASSUME NEW u \in Users PROVE HandleFits(u)'
    BY DEF Inv, HandleFits, TypeOK
  <1>4. ASSUME NEW h \in Handles PROVE ServerFits(h)'
    BY DEF Inv, ServerFits
  <1>5. ASSUME NEW c \in Calls PROVE Fits(c)'
    <2>1. Fits(c) /\ (proc[c].pc \in Locked => proc[c].u \in Users)
      BY DEF Inv, TypeOK, Naming
    <2>2. \A u \in Users : handle[u] # Nil => handle[u] \in Handles
      BY DEF Inv, TypeOK
    <2> QED BY <1>2, <2>1, <2>2 DEF Fits, Locked
  <1>6. MemoryFits'
    BY DEF Inv, MemoryFits, OperationsDone
  <1>7. MountedIsMarked' /\ WantedOrLeaving'
    BY <1>2 DEF Inv, MountedIsMarked, WantedOrLeaving
  <1>8. NothingUntracked'
    BY DEF Inv, NothingUntracked, At
  <1> QED BY <1>1, <1>3, <1>4, <1>5, <1>6, <1>7, <1>8 DEF Inv

LEMMA StoppedInv ==
  ASSUME Inv, NEW h \in Handles, server' \in {server, StopServer(h)},
         reports' \subseteq Handles,
         UNCHANGED <<world, disk, process, memory, busy, watching, proc>>
  PROVE  Inv'
  <1>1. TypeOK
    BY DEF Inv
  <1>2. server' \in [Handles -> ServerType]
    BY <1>1, StopServerType DEF ServerType, TypeOK
  <1>3. ASSUME NEW g \in Handles
        PROVE  /\ server'[g].u = server[g].u
               /\ Serves(g)' => Serves(g)
               /\ Live(g)' => Live(g)
               /\ server'[g].st = "free" <=> server[g].st = "free"
               /\ server[g].st = "done" => server'[g].st = "done"
    BY <1>1, StopServerType DEF Serves, Live
  <1>4. entry' \in [Users -> States]
    BY <1>1 DEF TypeOK, memory
  <1> QED BY <1>2, <1>3, <1>4, ServersMoveOn DEF memory

LEMMA ServerStopsInv ==
  ASSUME Inv, NEW h \in Handles, ServerStops(h) \/ StopLeaving(h) \/ LeaseLost(h)
  PROVE  Inv'
  <1>1. reports' \subseteq Handles
    BY DEF ServerStops, StopLeaving, LeaseLost, Inv, TypeOK
  <1> QED BY <1>1, StoppedInv DEF ServerStops, StopLeaving, LeaseLost

LEMMA ServerDoneInv == ASSUME Inv, NEW h \in Handles, ServerDone(h) PROVE Inv'
  <1>1. /\ server[h].st = "closing" /\ server' = [server EXCEPT ![h].st = "done"]
        /\ server \in [Handles -> ServerType]
    BY DEF ServerDone, Inv, TypeOK, ServerType
  <1>2. server' \in [Handles -> ServerType]
    BY <1>1 DEF ServerType
  <1>3. /\ server'[h].st = "done" /\ server'[h].u = server[h].u
        /\ \A g \in Handles \ {h} : server'[g] = server[g]
    BY <1>1 DEF ServerType
  <1>4. ASSUME NEW g \in Handles
        PROVE  /\ server'[g].u = server[g].u
               /\ Serves(g)' => Serves(g)
               /\ Live(g)' => Live(g)
               /\ server'[g].st = "free" <=> server[g].st = "free"
               /\ server[g].st = "done" => server'[g].st = "done"
    BY <1>1, <1>3 DEF Serves, Live
  <1>5. entry' \in [Users -> States] /\ reports' \subseteq Handles
    BY DEF ServerDone, memory, Inv, TypeOK
  <1> QED BY <1>2, <1>4, <1>5, ServersMoveOn DEF ServerDone, memory

LEMMA WatchFailureInv == ASSUME Inv, NEW h \in Handles, WatchFailure(h) PROVE Inv'
  <1>1. entry' \in [Users -> States] /\ reports' \subseteq Handles
    BY DEF WatchFailure, Inv, TypeOK, ServerFits, Set, States
  <1>2. server' = server /\ server \in [Handles -> ServerType]
    BY DEF WatchFailure, Inv, TypeOK, ServerType
  <1>3. ASSUME NEW g \in Handles
        PROVE  /\ server'[g].u = server[g].u
               /\ Serves(g)' => Serves(g)
               /\ Live(g)' => Live(g)
               /\ server'[g].st = "free" <=> server[g].st = "free"
               /\ server[g].st = "done" => server'[g].st = "done"
    BY <1>2 DEF Serves, Live
  <1> QED BY <1>1, <1>2, <1>3, ServersMoveOn DEF WatchFailure

\* The watcher forgets the handle of a server that is done, under no lock: a
\* call that waits for it is told, and one that does not never had it.
LEMMA WatchDoneInv == ASSUME Inv, NEW h \in Handles, WatchDone(h) PROVE Inv'
  <1> DEFINE u == server[h].u
  <1>1. /\ h \in watching /\ server[h].st = "done" /\ u \in Users
        /\ UNCHANGED <<known, calm, marker, dir, dead, phase, leaving, desired, forgetting, busy, proc>>
        /\ watching' = watching \ {h} /\ reports' \subseteq Handles
    BY DEF WatchDone, Inv, ServerFits, TypeOK, world, disk, process
  <1>2. /\ server' \in [Handles -> ServerType] /\ server'[h] = Free
        /\ \A g \in Handles \ {h} : server'[g] = server[g]
    BY DEF WatchDone, Inv, TypeOK, Set, Free, ServerType
  <1>3. handle[u] = h => handle' = Set(handle, u, Nil)
    BY DEF WatchDone
  <1>4. handle[u] # h => UNCHANGED handle
    BY DEF WatchDone
  <1>5. /\ handle' \in [Users -> Handles \cup {Nil}]
        /\ \A v \in Users : handle'[v] = IF handle[v] = h THEN Nil ELSE handle[v]
    <2>1. \A v \in Users : handle[v] = h => v = u
      BY MountsAssumption DEF Inv, HandleFits, Nil
    <2>2. CASE handle[u] = h
      BY <1>1, <1>3, <2>1, <2>2 DEF Set, Inv, TypeOK
    <2>3. CASE handle[u] # h
      BY <1>4, <2>1, <2>3 DEF Inv, TypeOK
    <2> QED BY <2>2, <2>3
  <1>6. entry' \in [Users -> States]
    BY <1>1 DEF WatchDone, Inv, TypeOK, Set, States
  <1>7. TypeOK'
    BY <1>1, <1>2, <1>5, <1>6 DEF Inv, TypeOK, ServerType
  <1>8. \A v \in Users : Served(v)' => Served(v)
    BY <1>2 DEF Served, Serves, Free
  <1>9. ASSUME NEW v \in Users PROVE HandleFits(v)'
    BY <1>1, <1>2, <1>5 DEF Inv, HandleFits, TypeOK
  <1>10. ASSUME NEW g \in Handles PROVE ServerFits(g)'
    BY <1>1, <1>2 DEF Inv, ServerFits, Free
  <1>11. ASSUME NEW c \in Calls PROVE Fits(c)'
    <2>1. Fits(c) /\ (proc[c].pc \in Locked => proc[c].u \in Users)
      BY DEF Inv, TypeOK, Naming
    <2>2. \A v \in Users : handle'[v] # Nil =>
            handle'[v] = handle[v] /\ handle'[v] \in Handles /\ server'[handle'[v]] = server[handle[v]]
      BY <1>2, <1>5 DEF Inv, TypeOK
    <2>3. proc[c].pc = "mounted" => server'[proc[c].h] = server[proc[c].h]
      BY <1>1, <1>2, <2>1 DEF Fits
    <2>4. proc[c].pc \in {"stop", "await"} =>
            /\ handle'[proc[c].u] \in {proc[c].h, Nil}
            /\ server'[proc[c].h].u = proc[c].u \/ server'[proc[c].h].st = "free"
      BY <1>1, <1>2, <1>5, <2>1 DEF Fits, Free, Locked
    <2> QED BY <1>1, <1>5, <1>8, <2>1, <2>2, <2>3, <2>4 DEF Fits, Locked
  <1>12. MemoryFits'
    BY <1>1, <1>2 DEF Inv, MemoryFits, OperationsDone, Live, Free
  <1>13. MountedIsMarked' /\ WantedOrLeaving'
    BY <1>1, <1>8 DEF Inv, MountedIsMarked, WantedOrLeaving
  <1>14. NothingUntracked'
    <2> SUFFICES ASSUME NEW g \in Handles, Live(g)'
                 PROVE  handle'[server'[g].u] = g \/ \E c \in Calls : At(c, "mounted")' /\ proc'[c].h = g
      BY DEF NothingUntracked
    <2>1. g # h /\ server'[g] = server[g] /\ Live(g) /\ server[g].u \in Users
      BY <1>2 DEF Live, Free, Inv, ServerFits
    <2> QED BY <1>1, <1>5, <2>1 DEF Inv, NothingUntracked, At
  <1> QED BY <1>7, <1>9, <1>10, <1>11, <1>12, <1>13, <1>14 DEF Inv

-----------------------------------------------------------------------------
(* The process, and the accounts.                                          *)

\* What only Fits, the handles and the servers are about stays the same.
LEMMA OutsideInv ==
  ASSUME Inv, TypeOK', MemoryFits', desired \subseteq desired',
         UNCHANGED <<disk, forgetting, handle, busy, mounts, proc>>
  PROVE  Inv'
  <1> USE DEF disk, mounts
  <1>1. \A u \in Users : Served(u)' = Served(u)
    BY DEF Served, Serves
  <1>2. ASSUME NEW c \in Calls PROVE Fits(c)'
    <2>1. Fits(c) /\ (proc[c].pc \in Locked => proc[c].u \in Users)
      BY DEF Inv, TypeOK, Naming
    <2>2. proc[c].pc = "forget" => Served(proc[c].u)' = Served(proc[c].u)
      BY <1>1, <2>1 DEF Locked
    <2> QED BY <2>1, <2>2 DEF Fits
  <1>3. \A u \in Users : HandleFits(u)'
    BY DEF Inv, HandleFits
  <1>4. \A h \in Handles : ServerFits(h)'
    BY DEF Inv, ServerFits
  <1>5. MountedIsMarked' /\ WantedOrLeaving'
    BY <1>1 DEF Inv, MountedIsMarked, WantedOrLeaving
  <1>6. NothingUntracked'
    BY DEF Inv, NothingUntracked, Live, At
  <1> QED BY <1>2, <1>3, <1>4, <1>5, <1>6 DEF Inv

LEMMA ShutdownInv == ASSUME Inv, Shutdown PROVE Inv'
  <1> USE DEF Shutdown, world, disk, memory, mounts
  <1>1. TypeOK'
    BY DEF Inv, TypeOK
  <1>2. MemoryFits'
    BY DEF Inv, MemoryFits
  <1> QED BY <1>1, <1>2, OutsideInv

\* No operation is in progress, so every live mount has its handle collected.
LEMMA CollectInv == ASSUME Inv, CollectHandles PROVE Inv'
  <1>1. /\ phase' = "stopping" /\ OperationsDone
        /\ leaving' = {handle[u] : u \in {v \in Users : handle[v] # Nil}}
        /\ UNCHANGED <<known, calm, disk, desired, forgetting, handle, busy, mounts, proc>>
    BY DEF CollectHandles, world
  <1>2. entry' \in [Users -> States]
    BY DEF CollectHandles, Inv, TypeOK, States
  <1>3. TypeOK'
    BY <1>1, <1>2 DEF Inv, TypeOK, disk, mounts
  <1>4. ASSUME NEW h \in Handles, Live(h)' PROVE h \in leaving'
    <2>1. Live(h) /\ server[h].u \in Users
      BY <1>1, <1>4 DEF mounts, Live, Inv, ServerFits
    <2>2. \A c \in Calls : ~At(c, "mounted")
      BY <1>1, Holder DEF At, Locked
    <2>3. handle[server[h].u] = h
      BY <2>1, <2>2 DEF Inv, NothingUntracked
    <2> QED BY <1>1, <2>1, <2>3, MountsAssumption DEF Nil
  <1>5. MemoryFits'
    BY <1>1, <1>4 DEF Inv, MemoryFits, OperationsDone, disk
  <1> QED BY <1>1, <1>3, <1>5, OutsideInv

\* What the process served is left as a disconnected mount, and was marked.
LEMMA ExitInv == ASSUME Inv, Exit PROVE Inv'
  <1>1. /\ phase' = "down" /\ dead' = dead \cup {u \in Users : Served(u)}
        /\ desired' = {} /\ forgetting' = {} /\ leaving' = {} /\ watching' = {} /\ reports' = {}
        /\ entry' = [u \in Users |-> "none"] /\ handle' = [u \in Users |-> Nil]
        /\ busy' = [u \in Users |-> NoOne] /\ server' = [h \in Handles |-> Free]
        /\ proc' = [c \in Calls |-> Idle] /\ UNCHANGED <<known, calm, marker, dir>>
    BY DEF Exit, world
  <1>2. Idle \in Records /\ Idle.pc = "idle" /\ "idle" \notin Naming
    BY DEF Idle, Records, Naming, Locked
  <1>3. Free \in ServerType /\ Free.st = "free"
    BY DEF Free, ServerType
  <1>4. TypeOK'
    BY <1>1, <1>2, <1>3 DEF Inv, TypeOK, ServerType, States
  <1>5. \A h \in Handles : ~Live(h)' /\ ~Serves(h)'
    BY <1>1, <1>3 DEF Live, Serves
  <1>6. MemoryFits'
    BY <1>1 DEF MemoryFits, OperationsDone
  <1>7. \A c \in Calls : Fits(c)'
    BY <1>1, <1>2, UnlockedFits DEF Naming
  <1>8. (\A u \in Users : HandleFits(u)') /\ (\A h \in Handles : ServerFits(h)')
    BY <1>1, <1>3 DEF HandleFits, ServerFits
  <1>9. MountedIsMarked' /\ WantedOrLeaving'
    BY <1>1, <1>5 DEF Inv, MountedIsMarked, WantedOrLeaving, Served
  <1>10. NothingUntracked'
    BY <1>5 DEF NothingUntracked
  <1> QED BY <1>4, <1>6, <1>7, <1>8, <1>9, <1>10 DEF Inv

LEMMA NewManagerInv == ASSUME Inv, NewManager PROVE Inv'
  <1> USE DEF NewManager, world, disk, mounts
  <1>1. TypeOK'
    BY DEF Inv, TypeOK
  <1>2. MemoryFits'
    BY DEF Inv, MemoryFits
  <1>3. desired \subseteq desired'
    BY DEF Inv, MemoryFits
  <1> QED BY <1>1, <1>2, <1>3, OutsideInv

\* Accounts and the health of the calls are read by the calls only.
LEMMA WorldInv ==
  ASSUME Inv, known' \subseteq known, calm' \in BOOLEAN,
         UNCHANGED <<disk, process, memory, busy, mounts, proc>>
  PROVE  Inv'
  <1> USE DEF disk, process, memory, mounts
  <1>1. TypeOK'
    BY DEF Inv, TypeOK
  <1>2. MemoryFits'
    BY DEF Inv, MemoryFits, OperationsDone, Live
  <1> QED BY <1>1, <1>2, OutsideInv

-----------------------------------------------------------------------------
LEMMA InitInv == Init => Inv
  <1> SUFFICES ASSUME Init PROVE Inv
    OBVIOUS
  <1>1. Idle \in Records /\ Idle.pc = "idle" /\ "idle" \notin Naming
    BY DEF Idle, Records, Naming, Locked
  <1>2. Free \in ServerType /\ Free.st = "free"
    BY DEF Free, ServerType
  <1>3. TypeOK
    BY <1>1, <1>2 DEF Init, TypeOK, ServerType, States
  <1>4. \A h \in Handles : ~Live(h) /\ ~Serves(h)
    BY <1>2 DEF Init, Live, Serves
  <1>5. MemoryFits
    BY DEF Init, MemoryFits
  <1>6. \A c \in Calls : Fits(c)
    BY <1>1 DEF Init, Fits, Naming, Locked
  <1>7. (\A u \in Users : HandleFits(u)) /\ (\A h \in Handles : ServerFits(h))
    BY <1>2 DEF Init, HandleFits, ServerFits
  <1>8. MountedIsMarked /\ WantedOrLeaving /\ NothingUntracked
    BY <1>4 DEF Init, MountedIsMarked, WantedOrLeaving, NothingUntracked, Served
  <1> QED BY <1>3, <1>5, <1>6, <1>7, <1>8 DEF Inv

LEMMA CallStepInv ==
  ASSUME Inv, NEW c \in Calls, CallStep(c) \/ ReconcileOnce(c)
  PROVE  Inv'
  <1>1. ASSUME EnsureStep(c) PROVE Inv'
    BY <1>1, ResolveInv, BeginInv, CheckInv, PersistInv, AdmitInv, PrepareInv, ProviderMountInv,
       MountFailedInv, MountedInv DEF EnsureStep
  <1>2. ASSUME UnmountStep(c) PROVE Inv'
    BY <1>2, MarkInv, StopInv, AwaitInv, InspectInv, RemoveInv, ForgetInv DEF UnmountStep
  <1>3. ASSUME ReconcileStep(c) PROVE Inv'
    BY <1>3, NextUserInv, RecordFailureInv, ScanInv, SweepInv DEF ReconcileStep
  <1> QED BY <1>1, <1>2, <1>3, ReconcileOnceInv DEF CallStep

LEMMA StepInv == Inv /\ [Next \/ FaultsEnd]_vars => Inv'
  <1> SUFFICES ASSUME Inv, [Next \/ FaultsEnd]_vars PROVE Inv'
    OBVIOUS
  <1>1. ASSUME NEW c \in Requests, NEW u \in Users, Ensure(c, u) \/ Unmount(c, u) PROVE Inv'
    BY <1>1, EnsureInv, UnmountInv
  <1>2. ASSUME NEW h \in Handles, ServerStep(h) \/ ServerStops(h) \/ LeaseLost(h) PROVE Inv'
    BY <1>2, ServerDoneInv, WatchFailureInv, WatchDoneInv, ServerStopsInv DEF ServerStep
  <1>3. ASSUME (\E u \in Users : RemoveUser(u)) \/ FaultsEnd PROVE Inv'
    BY <1>3, WorldInv DEF RemoveUser, FaultsEnd, Inv, TypeOK
  <1>4. ASSUME UNCHANGED vars PROVE Inv'
    <2>1. known' \subseteq known /\ calm' \in BOOLEAN /\ UNCHANGED <<disk, process, memory, busy, mounts, proc>>
      BY <1>4 DEF vars, world, Inv, TypeOK
    <2> QED BY <2>1, WorldInv
  <1> QED
    BY <1>1, <1>2, <1>3, <1>4, CallStepInv, ShutdownInv, CollectInv, ExitInv, NewManagerInv DEF Next

\* The inductive invariant holds whether calls fail for a while or for ever.
THEOREM Invariant == Spec \/ FairSpec => []Inv
  <1>1. Inv /\ [Next]_vars => Inv'
    BY StepInv
  <1>2. Spec => []Inv
    BY <1>1, InitInv, PTL DEF Spec
  <1>3. FairSpec => []Inv
    BY StepInv, InitInv, PTL DEF FairSpec
  <1> QED BY <1>2, <1>3

\* Every variable keeps its type, and a call on a user names one of them.
THEOREM TypeCorrect == Spec \/ FairSpec => []TypeOK
  <1>1. Inv => TypeOK
    BY DEF Inv
  <1> QED BY <1>1, Invariant, PTL

\* A user something is mounted for, or was when an earlier process ended, has
\* the marker a new process reads, at every point a process may end at.
THEOREM MountedIsMarkedHolds == Spec \/ FairSpec => []MountedIsMarked
  <1>1. Inv => MountedIsMarked
    BY DEF Inv
  <1> QED BY <1>1, Invariant, PTL

\* No interleaving of calls, watchers and reconciliations takes a live server
\* from the manager's sight.
THEOREM NothingUntrackedHolds == Spec \/ FairSpec => []NothingUntracked
  <1>1. Inv => NothingUntracked
    BY DEF Inv
  <1> QED BY <1>1, Invariant, PTL

\* No stale snapshot of a reconciliation leaves a mount that nobody wants and
\* nobody takes down.
THEOREM WantedOrLeavingHolds == Spec \/ FairSpec => []WantedOrLeaving
  <1>1. Inv => WantedOrLeaving
    BY DEF Inv
  <1> QED BY <1>1, Invariant, PTL

\* When the handles Shutdown collected are done, nothing is mounted.
THEOREM ShutdownLeavesNoMountHolds == Spec \/ FairSpec => []ShutdownLeavesNoMount
  <1>1. Inv => ShutdownLeavesNoMount
    BY DEF Inv, MemoryFits, ShutdownLeavesNoMount, ShutdownDone
  <1> QED BY <1>1, Invariant, PTL
=============================================================================
