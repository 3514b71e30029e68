------------------------- MODULE DirectUploadProofs -------------------------
(***************************************************************************)
(* For every set of uploads, requests and cleaners and every bound: the    *)
(* safety properties of DirectUpload, and that it implements the           *)
(* optimistic register.                                                    *)
(***************************************************************************)
EXTENDS DirectUpload, TLAPS

\* The editor's condition, once init has compared it with the reservation.
Agreed(u) == declared[u] = 0 \/ direct[u].exp = declared[u]

\* An init is alone with its upload, but for a task cancellation that found
\* the task and no row.
OwnershipInv ==
  \A p \in Procs :
    /\ proc[p].pc \in InitPcs =>
         /\ row[proc[p].u] = "none"
         /\ ~Published(proc[p].u)
         /\ \A q \in Procs \ {p} :
              proc[q].u = proc[p].u => proc[q].pc = "endTask"
         /\ direct[proc[p].u].st = "none" <=> proc[p].pc \in {"lookup", "prepare"}

\* An upload without a reservation has neither row nor object yet.
UnusedInv ==
  \A u \in Uploads :
    direct[u].st = "none" => row[u] = "none" /\ oss[u] = "none"

\* What a completion has established when it reaches a step.
CompletionInv ==
  \A p \in Procs :
    LET u == proc[p].u IN
    /\ proc[p].pc = "commit" /\ direct[u].st = "active" => oss[u] = "object"
    /\ proc[p].pc \in {"project", "ready", "finishTask", "ack"} => Published(u)
    /\ proc[p].pc \in {"finishTask", "ack"} => row[u] # "uploading"

\* Whoever wrote the file has published.
SourceInv == \A u \in Uploads : file.src = u => Published(u)

\* From the check in init to the commit, the captured generation is the one the
\* editor declared.
AgreementInv ==
  /\ \A u \in Uploads : row[u] # "none" => Agreed(u)
  /\ \A p \in Procs :
       proc[p].pc \in {"multipart", "task", "row"} \cup CompletePcs =>
         Agreed(proc[p].u)

Inv ==
  /\ OwnershipInv /\ UnusedInv /\ CompletionInv /\ SourceInv /\ AgreementInv
  /\ PublishedIsStored /\ SuccessIsPublished /\ RetryStaysAnswerable

-----------------------------------------------------------------------------
\* What moving one process to a step does to proc.
LEMMA GotoEffect ==
  ASSUME NEW p \in Procs, proc \in [Procs -> Processes],
         NEW pc \in Pcs, pc \in BusyPcs => proc[p].u \in Uploads,
         Goto(p, pc)
  PROVE  /\ proc' \in [Procs -> Processes]
         /\ proc'[p].pc = pc /\ proc'[p].u = proc[p].u
         /\ proc'[p].arg = proc[p].arg /\ proc'[p].ino = proc[p].ino
         /\ \A q \in Procs \ {p} : proc'[q] = proc[q]
<1> DEFINE r == [proc[p] EXCEPT !.pc = pc]
<1>1. proc' = [proc EXCEPT ![p] = r]
  BY DEF Goto
<1>2. proc[p] \in Processes
  OBVIOUS
<1>3. /\ r \in Processes /\ r.pc = pc
      /\ r.u = proc[p].u /\ r.arg = proc[p].arg /\ r.ino = proc[p].ino
  BY <1>2 DEF Processes
<1> HIDE DEF r
<1> QED BY <1>1, <1>3

\* What the end of a request does to proc.
LEMMA DoneEffect ==
  ASSUME NEW p \in Procs, proc \in [Procs -> Processes], Done(p), BoundsOK
  PROVE  /\ proc' \in [Procs -> Processes]
         /\ proc'[p] = Idle
         /\ \A q \in Procs \ {p} : proc'[q] = proc[q]
<1>1. Idle \in Processes
  BY DEF Idle, Processes, Pcs, BusyPcs, InitPcs, CompletePcs, AbortPcs, Args,
         BoundsOK
<1> QED BY <1>1 DEF Done

\* What a change of state does to the reservations.
LEMMA StateEffect ==
  ASSUME NEW u \in Uploads, direct \in [Uploads -> Reservations],
         NEW st \in {"none", "active", "committed", "acked", "forgotten",
                     "released"},
         direct' = [direct EXCEPT ![u].st = st]
  PROVE  /\ direct' \in [Uploads -> Reservations]
         /\ direct'[u].st = st /\ direct'[u].ino = direct[u].ino
         /\ direct'[u].exp = direct[u].exp
         /\ \A v \in Uploads \ {u} : direct'[v] = direct[v]
<1> DEFINE r == [direct[u] EXCEPT !.st = st]
<1>1. direct' = [direct EXCEPT ![u] = r]
  OBVIOUS
<1>3. /\ r \in Reservations /\ r.st = st
      /\ r.ino = direct[u].ino /\ r.exp = direct[u].exp
  BY DEF Reservations
<1> HIDE DEF r
<1> QED BY <1>1, <1>3

\* TypeOK is preserved by the steps of init.
LEMMA InitTypes ==
  ASSUME TypeOK, NEW p \in Procs, InitStep(p) PROVE TypeOK'
<1> USE DEF At, Processes, Pcs, BusyPcs, InitPcs, CompletePcs, AbortPcs
<1>1. ASSUME LookupExisting(p) PROVE TypeOK'
  <2> DEFINE a == IF file # Absent /\ proc[p].arg = "replace"
                    THEN "replace" ELSE "create"
             r == [[proc[p] EXCEPT !.pc = "prepare"] EXCEPT !.arg = a]
  <2>1. proc[p] \in Processes /\ proc[p].u \in Uploads
    BY <1>1 DEF LookupExisting, TypeOK
  <2>2. r \in Processes
    BY <2>1 DEF Args
  <2>3. proc' = [proc EXCEPT ![p] = r] \/ Done(p)
    BY <1>1, <2>1 DEF LookupExisting, TypeOK
  <2> HIDE DEF r
  <2>4. proc' \in [Procs -> Processes]
    BY <2>2, <2>3, DoneEffect, BoundsOK DEF TypeOK
  <2> QED BY <1>1, <2>4 DEF LookupExisting, TypeOK
<1>2. ASSUME PrepareReplacement(p) PROVE TypeOK'
  <2>1. proc[p].u \in Uploads
    BY <1>2 DEF PrepareReplacement, TypeOK
  <2>2. proc' \in [Procs -> Processes]
    BY <1>2, <2>1, GotoEffect DEF PrepareReplacement, Reserve, TypeOK
  <2>3. direct' \in [Uploads -> Reservations]
    BY <1>2, BoundsOK
    DEF PrepareReplacement, Reserve, TypeOK, Files, Reservations
  <2> QED BY <1>2, <2>2, <2>3
  DEF PrepareReplacement, Reserve, TypeOK, Fresh, Stale
<1>3. ASSUME PrepareCreation(p) PROVE TypeOK'
  <2>1. proc[p].u \in Uploads
    BY <1>3 DEF PrepareCreation, TypeOK
  <2>2. proc' \in [Procs -> Processes]
    BY <1>3, <2>1, GotoEffect DEF PrepareCreation, Reserve, TypeOK
  <2>3. direct' \in [Uploads -> Reservations] /\ lastInode' \in 0..MaxInode
    BY <1>3, BoundsOK DEF PrepareCreation, Reserve, TypeOK, Reservations
  <2> QED BY <1>3, <2>2, <2>3 DEF PrepareCreation, Reserve, TypeOK, Fresh, Stale
<1>4. ASSUME PrepareRefused(p) PROVE TypeOK'
  BY <1>4, BoundsOK, DoneEffect
  DEF PrepareRefused, TypeOK
<1>5. ASSUME CreateMultipart(p) PROVE TypeOK'
  BY <1>5, BoundsOK, GotoEffect
  DEF CreateMultipart, TypeOK
<1>6. ASSUME CreateTask(p) PROVE TypeOK'
  BY <1>6, BoundsOK, GotoEffect
  DEF CreateTask, TypeOK
<1>7. ASSUME CreateRow(p) PROVE TypeOK'
  BY SMTT(30), <1>7, BoundsOK, GotoEffect, DoneEffect
  DEF CreateRow, TypeOK, Fresh, Stale
<1>8. ASSUME UndoTask(p) PROVE TypeOK'
  BY <1>8, BoundsOK, GotoEffect
  DEF UndoTask, TypeOK
<1>9. ASSUME UndoMultipart(p) PROVE TypeOK'
  BY <1>9, BoundsOK, GotoEffect
  DEF UndoMultipart, TypeOK, AbortMultipart
<1>10. ASSUME UndoDirect(p) PROVE TypeOK'
  BY SMTT(30), <1>10, BoundsOK, DoneEffect, StateEffect
  DEF UndoDirect, TypeOK, Release
<1> QED
  BY <1>1, <1>2, <1>3, <1>4, <1>5, <1>6, <1>7, <1>8, <1>9, <1>10 DEF InitStep

\* TypeOK is preserved by the steps of complete.
LEMMA CompleteTypes ==
  ASSUME TypeOK, NEW p \in Procs, CompleteStep(p) PROVE TypeOK'
<1> USE DEF At, Processes, Pcs, BusyPcs, InitPcs, CompletePcs, AbortPcs
<1>1. ASSUME AssembleObject(p) PROVE TypeOK'
  BY <1>1, BoundsOK, GotoEffect, DoneEffect
  DEF AssembleObject, TypeOK
<1>2. ASSUME CommitDirectUpload(p) PROVE TypeOK'
  <2>1. proc[p].u \in Uploads
    BY <1>2 DEF CommitDirectUpload, TypeOK
  <2>2. proc' \in [Procs -> Processes]
    BY <1>2, <2>1, BoundsOK, GotoEffect, DoneEffect
    DEF CommitDirectUpload, TypeOK
  <2>3. direct' \in [Uploads -> Reservations]
    BY <1>2, <2>1, StateEffect DEF CommitDirectUpload, PublishGeneration, TypeOK
  <2>4. file' \in Files
    BY <1>2, <2>1, BoundsOK
    DEF CommitDirectUpload, PublishGeneration, TypeOK, Files, Reservations
  <2> QED BY <1>2, <2>2, <2>3, <2>4 DEF CommitDirectUpload, TypeOK
<1>3. ASSUME ResolvePublished(p) PROVE TypeOK'
  BY <1>3, BoundsOK, GotoEffect, DoneEffect
  DEF ResolvePublished, TypeOK
<1>4. ASSUME MarkReady(p) PROVE TypeOK'
  BY <1>4, BoundsOK, GotoEffect, DoneEffect
  DEF MarkReady, TypeOK, Fresh, Stale
<1>5. ASSUME FinishTask(p) PROVE TypeOK'
  BY <1>5, BoundsOK, GotoEffect
  DEF FinishTask, TypeOK, EndTaskAs
<1>6. ASSUME Acknowledge(p) PROVE TypeOK'
  <2>1. proc[p].u \in Uploads
    BY <1>6 DEF Acknowledge, TypeOK
  <2>2. proc' \in [Procs -> Processes]
    BY <1>6, BoundsOK, DoneEffect DEF Acknowledge, TypeOK
  <2>3. direct' \in [Uploads -> Reservations]
    BY <1>6, <2>1, StateEffect DEF Acknowledge, TypeOK
  <2> QED BY <1>6, <2>2, <2>3 DEF Acknowledge, TypeOK
<1> QED
  BY <1>1, <1>2, <1>3, <1>4, <1>5, <1>6 DEF CompleteStep

\* TypeOK is preserved by the steps of an abort.
LEMMA AbortTypes ==
  ASSUME TypeOK, NEW p \in Procs, AbortStep(p) PROVE TypeOK'
<1> USE DEF At, Processes, Pcs, BusyPcs, InitPcs, CompletePcs, AbortPcs
<1>1. ASSUME AbortMultipartCall(p) PROVE TypeOK'
  BY SMTT(30), <1>1, BoundsOK, GotoEffect
  DEF AbortMultipartCall, TypeOK, AbortMultipart
<1>2. ASSUME AbortDirectOpen(p) PROVE TypeOK'
  <2>1. proc[p].u \in Uploads
    BY <1>2 DEF AbortDirectOpen, TypeOK
  <2>2. proc' \in [Procs -> Processes]
    BY <1>2, <2>1, GotoEffect DEF AbortDirectOpen, TypeOK
  <2>3. direct' \in [Uploads -> Reservations]
    BY <1>2, <2>1, StateEffect DEF AbortDirectOpen, Release, TypeOK
  <2> QED BY <1>2, <2>2, <2>3 DEF AbortDirectOpen, Release, TypeOK
<1>3. ASSUME AbortDirectCommitted(p) PROVE TypeOK'
  BY <1>3, BoundsOK, GotoEffect, DoneEffect, StateEffect
  DEF AbortDirectCommitted, TypeOK, AfterAbort
<1>4. ASSUME AbortDirectFails(p) PROVE TypeOK'
  BY <1>4, BoundsOK, GotoEffect, DoneEffect
  DEF AbortDirectFails, TypeOK, AfterAbort
<1>5. ASSUME DropRow(p) PROVE TypeOK'
  BY <1>5, BoundsOK, GotoEffect, DoneEffect
  DEF DropRow, TypeOK, AfterAbort
<1>6. ASSUME EndTask(p) PROVE TypeOK'
  BY <1>6, BoundsOK, DoneEffect
  DEF EndTask, TypeOK, EndTaskAs
<1> QED
  BY <1>1, <1>2, <1>3, <1>4, <1>5, <1>6 DEF AbortStep

\* TypeOK is preserved by a permanent deletion.
LEMMA DeleteTypes ==
  ASSUME TypeOK, NEW p \in Procs, DeleteStep(p) PROVE TypeOK'
<1> USE
DEF At, Processes, Pcs, BusyPcs, InitPcs, CompletePcs, AbortPcs, DeletePcs
<1>1. ASSUME Unlink(p) PROVE TypeOK'
  <2>1. proc' \in [Procs -> Processes]
    BY <1>1, BoundsOK, GotoEffect, DoneEffect DEF Unlink, TypeOK
  <2>2. file' \in Files
    BY <1>1, BoundsOK DEF Unlink, TypeOK, Files, Absent
  <2> QED BY <1>1, <2>1, <2>2 DEF Unlink, TypeOK
<1>2. ASSUME DeleteInodeProjection(p) PROVE TypeOK'
  BY <1>2, BoundsOK, DoneEffect
  DEF DeleteInodeProjection, TypeOK
<1>3. ASSUME LookupVictim(p) PROVE TypeOK'
  <2>1. file.ino \in 0..MaxInode /\ proc[p] \in Processes
    BY DEF TypeOK, Files
  <2> DEFINE r == [[proc[p] EXCEPT !.pc = "unlink"] EXCEPT !.ino = file.ino]
  <2>2. r \in Processes
    BY <2>1
  <2>3. proc' = [proc EXCEPT ![p] = r] \/ Goto(p, "dropPath")
    BY <1>3 DEF LookupVictim, TypeOK
  <2> HIDE DEF r
  <2>4. proc' \in [Procs -> Processes]
    BY <2>2, <2>3, GotoEffect DEF TypeOK
  <2> QED BY <1>3, <2>4 DEF LookupVictim, TypeOK
<1>4. ASSUME DropPathRows(p) PROVE TypeOK'
  BY <1>4, BoundsOK, DoneEffect
  DEF DropPathRows, TypeOK
<1> QED
  BY <1>1, <1>2, <1>3, <1>4 DEF DeleteStep

\* TypeOK is preserved when a request or a loop starts.
LEMMA StartTypes ==
  ASSUME TypeOK, NEW p \in Procs, NEW u \in Uploads
  PROVE  /\ \A s \in {"create", "replace"}, g \in {0, file.gen} :
              StartInit(p, u, s, g) => TypeOK'
         /\ StartComplete(p, u) => TypeOK'
         /\ \A by \in Aborters : StartAbort(p, u, by) => TypeOK'
<1> USE
DEF Processes, Pcs, BusyPcs, InitPcs, CompletePcs, AbortPcs, DeletePcs, Args
<1>1. ASSUME NEW s \in {"create", "replace"}, NEW g \in {0, file.gen},
             StartInit(p, u, s, g)
      PROVE  TypeOK'
  BY <1>1, BoundsOK DEF StartInit, TypeOK, Files
<1>2. ASSUME StartComplete(p, u) PROVE TypeOK'
  <2>1. direct[u].st \in {"active", "committed"} \/ row[u] = "ready"
    BY <1>2 DEF StartComplete
  <2> QED BY <1>2, <2>1, BoundsOK DEF StartComplete, TypeOK
<1>3. ASSUME NEW by \in Aborters, StartAbort(p, u, by) PROVE TypeOK'
  BY <1>3, BoundsOK DEF StartAbort, TypeOK
<1> QED BY <1>1, <1>2, <1>3

\* TypeOK is preserved by mounts, expiry, the browser's PUTs and time.
LEMMA EnvironmentTypes == ASSUME TypeOK, Environment PROVE TypeOK'
<1>1. ASSUME MountWrite PROVE TypeOK'
  BY <1>1, BoundsOK DEF MountWrite, TypeOK, Files
<1>2. ASSUME MountCreate PROVE TypeOK'
  BY <1>2, BoundsOK DEF MountCreate, TypeOK, Files
<1>3. ASSUME NEW u \in Uploads, ReservationExpires(u) PROVE TypeOK'
  BY <1>3, StateEffect DEF ReservationExpires, Release, TypeOK
<1>4. ASSUME NEW u \in Uploads, PutParts(u) PROVE TypeOK'
  BY <1>4 DEF PutParts, TypeOK
<1>5. ASSUME NEW u \in Uploads, TimePasses(u) PROVE TypeOK'
  BY <1>5, BoundsOK DEF TimePasses, TypeOK, Fresh, Stale
<1>6. ASSUME NEW u \in Uploads, Heartbeat(u) PROVE TypeOK'
  BY <1>6 DEF Heartbeat, TypeOK, Fresh, Stale
<1>7. ASSUME MountRemove PROVE TypeOK'
  BY <1>7, BoundsOK DEF MountRemove, TypeOK, Files, Absent
<1> QED BY <1>1, <1>2, <1>3, <1>4, <1>5, <1>6, <1>7 DEF Environment

\* Every variable keeps its type; a process that handles an upload names it.
THEOREM TypeCorrect == Spec => []TypeOK
<1>1. Init => TypeOK
  BY SourcesDistinct, BoundsOK
  DEF Init, TypeOK, Files, Absent, NoReservation, Reservations, Idle, Processes,
      Pcs, BusyPcs, InitPcs, CompletePcs, AbortPcs, DeletePcs, Args, Fresh, Stale
<1>2. TypeOK /\ [Next]_vars => TypeOK'
  <2> SUFFICES ASSUME TypeOK, [Next]_vars PROVE TypeOK'
    OBVIOUS
  <2>1. ASSUME NEW p \in Procs, Abandon(p) PROVE TypeOK'
    BY <2>1, BoundsOK, DoneEffect DEF Abandon, TypeOK
  <2>2. ASSUME NEW p \in Requests, StartRequest(p) PROVE TypeOK'
    <3>1. ASSUME StartDelete(p) PROVE TypeOK'
      BY <3>1, BoundsOK
      DEF StartDelete, TypeOK, Files, Processes, Procs, Pcs, BusyPcs, InitPcs,
          CompletePcs, AbortPcs, DeletePcs, Args
    <3> QED BY <2>2, <3>1, StartTypes DEF StartRequest, Procs
  <2>3. ASSUME NEW p \in Cleaners, NEW u \in Uploads, StartAbort(p, u, p)
        PROVE  TypeOK'
    BY <2>3, StartTypes, CleanersKnown DEF Procs, Aborters
  <2>4. CASE UNCHANGED vars
    BY <2>4 DEF vars, TypeOK
  <2> QED
    BY <2>1, <2>2, <2>3, <2>4, InitTypes, CompleteTypes, AbortTypes,
       DeleteTypes, EnvironmentTypes DEF Next
<1> QED BY <1>1, <1>2, PTL DEF Spec

-----------------------------------------------------------------------------
\* How the steps change a variable: the vocabulary of the effect lemmas.

\* p goes to one of the steps pcs with the same upload, or ends.
Moves(p, pcs) ==
  /\ \A q \in Procs \ {p} : proc'[q] = proc[q]
  /\ \/ proc'[p].pc \in pcs /\ proc'[p].u = proc[p].u
     \/ proc'[p] = Idle

\* f changes at u only.
OnlyAt(f, u) == \A v \in Uploads \ {u} : f'[v] = f[v]

StateMoves(u, st) ==
  /\ OnlyAt(direct, u)
  /\ direct'[u].st = st /\ direct'[u].exp = direct[u].exp

MayRelease(u) ==
  \/ UNCHANGED <<direct, oss>>
  \/ /\ direct[u].st = "active" /\ StateMoves(u, "released")
     /\ OnlyAt(oss, u) /\ (oss'[u] = "none" <=> oss[u] = "none")

MayAbortMultipart(u) ==
  /\ OnlyAt(oss, u)
  /\ oss'[u] = oss[u] \/ (oss'[u] = "gone" /\ oss[u] \in {"open", "full"})

\* Part of TypeOK: a step that handles an upload names it.
Named == \A q \in Procs : proc[q].pc \in BusyPcs => proc[q].u \in Uploads

\* LookupExisting: the lookup decides only where init goes on.
LEMMA LookupExistingEffect ==
  ASSUME TypeOK, NEW p \in Procs, LookupExisting(p)
  PROVE  LET u == proc[p].u IN
         /\ proc[p].pc = "lookup" /\ u \in Uploads
         /\ Moves(p, {"prepare"})
         /\ UNCHANGED <<file, direct, oss, row, task, declared>>
<1>1. proc[p].pc = "lookup" /\ proc[p].u \in Uploads
  BY DEF LookupExisting, TypeOK, At, Processes, Pcs, BusyPcs, InitPcs,
         CompletePcs, AbortPcs
<1> DEFINE a == IF file # Absent /\ proc[p].arg = "replace"
                   THEN "replace" ELSE "create"
            r == [[proc[p] EXCEPT !.pc = "prepare"] EXCEPT !.arg = a]
<1>2. r.pc = "prepare" /\ r.u = proc[p].u
  BY DEF TypeOK, Processes
<1>3. proc' = [proc EXCEPT ![p] = r] \/ Done(p)
  BY DEF LookupExisting, TypeOK, Processes
<1> HIDE DEF r
<1>4. Moves(p, {"prepare"})
  BY <1>2, <1>3, BoundsOK, DoneEffect DEF TypeOK, Moves
<1> QED BY <1>1, <1>4 DEF LookupExisting

\* PrepareReplacement: init goes on to the multipart upload only if the
\* captured generation is the declared one.
LEMMA PrepareReplacementEffect ==
  ASSUME TypeOK, NEW p \in Procs, PrepareReplacement(p)
  PROVE  LET u == proc[p].u IN
         /\ proc[p].pc = "prepare" /\ u \in Uploads
         /\ Moves(p, {"multipart", "undoDirect"})
         /\ OnlyAt(direct, u) /\ direct'[u].st = "active"
         /\ proc'[p].pc = "multipart" => Agreed(u)'
         /\ UNCHANGED <<file, oss, row, task, declared>>
<1>1. proc[p].pc = "prepare" /\ proc[p].u \in Uploads
  BY DEF PrepareReplacement, TypeOK, At, Processes, Pcs, BusyPcs, InitPcs,
         CompletePcs, AbortPcs
<1>2. Moves(p, {"multipart", "undoDirect"})
  BY <1>1, BoundsOK, GotoEffect, DoneEffect
  DEF PrepareReplacement, Reserve, GenerationConflict, TypeOK, Moves, Pcs,
      BusyPcs, InitPcs, CompletePcs, AbortPcs
<1> QED
  BY <1>1, <1>2, BoundsOK, GotoEffect, DoneEffect
  DEF PrepareReplacement, Reserve, GenerationConflict, Agreed, Reservations,
      TypeOK, OnlyAt, Pcs, BusyPcs, InitPcs, CompletePcs

\* PrepareCreation: as for a replacement, with nothing captured.
LEMMA PrepareCreationEffect ==
  ASSUME TypeOK, NEW p \in Procs, PrepareCreation(p)
  PROVE  LET u == proc[p].u IN
         /\ proc[p].pc = "prepare" /\ u \in Uploads
         /\ Moves(p, {"multipart", "undoDirect"})
         /\ OnlyAt(direct, u) /\ direct'[u].st = "active"
         /\ proc'[p].pc = "multipart" => Agreed(u)'
         /\ UNCHANGED <<file, oss, row, task, declared>>
<1>1. proc[p].pc = "prepare" /\ proc[p].u \in Uploads
  BY DEF PrepareCreation, TypeOK, At, Processes, Pcs, BusyPcs, InitPcs,
         CompletePcs, AbortPcs
<1>2. Moves(p, {"multipart", "undoDirect"})
  BY <1>1, BoundsOK, GotoEffect, DoneEffect
  DEF PrepareCreation, Reserve, GenerationConflict, TypeOK, Moves, Pcs,
      BusyPcs, InitPcs, CompletePcs, AbortPcs
<1> QED
  BY <1>1, <1>2, BoundsOK, GotoEffect, DoneEffect
  DEF PrepareCreation, Reserve, GenerationConflict, Agreed, Reservations,
      TypeOK, OnlyAt, Pcs, BusyPcs, InitPcs, CompletePcs

\* PrepareRefused: nothing is reserved.
LEMMA PrepareRefusedEffect ==
  ASSUME TypeOK, NEW p \in Procs, PrepareRefused(p)
  PROVE  LET u == proc[p].u IN
         /\ proc[p].pc = "prepare" /\ u \in Uploads
         /\ Moves(p, {})
         /\ UNCHANGED <<file, direct, oss, row, task, declared>>
<1>1. proc[p].pc = "prepare" /\ proc[p].u \in Uploads
  BY DEF PrepareRefused, TypeOK, At, Processes, Pcs, BusyPcs, InitPcs,
         CompletePcs, AbortPcs
<1>2. Moves(p, {})
  BY <1>1, BoundsOK, GotoEffect, DoneEffect
  DEF PrepareRefused, TypeOK, Moves, Pcs, BusyPcs, InitPcs, CompletePcs,
      AbortPcs
<1> QED BY <1>1, <1>2 DEF PrepareRefused

\* CreateMultipart: only the multipart upload changes.
LEMMA CreateMultipartEffect ==
  ASSUME TypeOK, NEW p \in Procs, CreateMultipart(p)
  PROVE  LET u == proc[p].u IN
         /\ proc[p].pc = "multipart" /\ u \in Uploads
         /\ Moves(p, {"task", "undoDirect"})
         /\ OnlyAt(oss, u)
         /\ UNCHANGED <<file, direct, row, task, declared>>
<1>1. proc[p].pc = "multipart" /\ proc[p].u \in Uploads
  BY DEF CreateMultipart, TypeOK, At, Processes, Pcs, BusyPcs, InitPcs,
         CompletePcs, AbortPcs
<1>2. Moves(p, {"task", "undoDirect"})
  BY <1>1, BoundsOK, GotoEffect, DoneEffect
  DEF CreateMultipart, TypeOK, Moves, Pcs, BusyPcs, InitPcs, CompletePcs,
      AbortPcs
<1> QED
  BY <1>1, <1>2
  DEF CreateMultipart, TypeOK, OnlyAt

\* CreateTask: only the task changes, and it is not completed.
LEMMA CreateTaskEffect ==
  ASSUME TypeOK, NEW p \in Procs, CreateTask(p)
  PROVE  LET u == proc[p].u IN
         /\ proc[p].pc = "task" /\ u \in Uploads
         /\ Moves(p, {"row", "undoMultipart"})
         /\ OnlyAt(task, u) /\ task'[u] \in {task[u], "running"}
         /\ UNCHANGED <<file, direct, oss, row, declared>>
<1>1. proc[p].pc = "task" /\ proc[p].u \in Uploads
  BY DEF CreateTask, TypeOK, At, Processes, Pcs, BusyPcs, InitPcs, CompletePcs,
         AbortPcs
<1>2. Moves(p, {"row", "undoMultipart"})
  BY <1>1, BoundsOK, GotoEffect, DoneEffect
  DEF CreateTask, TypeOK, Moves, Pcs, BusyPcs, InitPcs, CompletePcs, AbortPcs
<1> QED
  BY <1>1, <1>2
  DEF CreateTask, TypeOK, OnlyAt

\* CreateRow: a row appears only while the reservation is active.
LEMMA CreateRowEffect ==
  ASSUME TypeOK, NEW p \in Procs, CreateRow(p)
  PROVE  LET u == proc[p].u IN
         /\ proc[p].pc = "row" /\ u \in Uploads
         /\ Moves(p, {"undoTask"})
         /\ OnlyAt(row, u)
         /\ \/ row'[u] = row[u]
            \/ row'[u] = "uploading" /\ direct[u].st = "active" /\ proc'[p] = Idle
         /\ UNCHANGED <<file, direct, oss, task, declared>>
<1>1. proc[p].pc = "row" /\ proc[p].u \in Uploads
  BY DEF CreateRow, TypeOK, At, Processes, Pcs, BusyPcs, InitPcs, CompletePcs,
         AbortPcs
<1>2. Moves(p, {"undoTask"})
  BY <1>1, BoundsOK, GotoEffect, DoneEffect
  DEF CreateRow, TypeOK, Moves, Pcs, BusyPcs, InitPcs, CompletePcs, AbortPcs
<1> QED
  BY <1>1, <1>2, BoundsOK, GotoEffect, DoneEffect
  DEF CreateRow, TypeOK, OnlyAt, Pcs, BusyPcs, InitPcs, CompletePcs

\* UndoTask: the task is gone.
LEMMA UndoTaskEffect ==
  ASSUME TypeOK, NEW p \in Procs, UndoTask(p)
  PROVE  LET u == proc[p].u IN
         /\ proc[p].pc = "undoTask" /\ u \in Uploads
         /\ Moves(p, {"undoMultipart"})
         /\ OnlyAt(task, u) /\ task'[u] \in {task[u], "none"}
         /\ UNCHANGED <<file, direct, oss, row, declared>>
<1>1. proc[p].pc = "undoTask" /\ proc[p].u \in Uploads
  BY DEF UndoTask, TypeOK, At, Processes, Pcs, BusyPcs, InitPcs, CompletePcs,
         AbortPcs
<1>2. Moves(p, {"undoMultipart"})
  BY <1>1, BoundsOK, GotoEffect, DoneEffect
  DEF UndoTask, TypeOK, Moves, Pcs, BusyPcs, InitPcs, CompletePcs, AbortPcs
<1> QED
  BY <1>1, <1>2
  DEF UndoTask, TypeOK, OnlyAt

\* UndoMultipart: an object is out of its reach.
LEMMA UndoMultipartEffect ==
  ASSUME TypeOK, NEW p \in Procs, UndoMultipart(p)
  PROVE  LET u == proc[p].u IN
         /\ proc[p].pc = "undoMultipart" /\ u \in Uploads
         /\ Moves(p, {"undoDirect"})
         /\ MayAbortMultipart(u)
         /\ UNCHANGED <<file, direct, row, task, declared>>
<1>1. proc[p].pc = "undoMultipart" /\ proc[p].u \in Uploads
  BY DEF UndoMultipart, TypeOK, At, Processes, Pcs, BusyPcs, InitPcs,
         CompletePcs, AbortPcs
<1>2. Moves(p, {"undoDirect"})
  BY <1>1, BoundsOK, GotoEffect, DoneEffect
  DEF UndoMultipart, TypeOK, Moves, Pcs, BusyPcs, InitPcs, CompletePcs, AbortPcs
<1> QED
  BY <1>1, <1>2
  DEF UndoMultipart, AbortMultipart, MayAbortMultipart, TypeOK, OnlyAt

\* UndoDirect: an active reservation is released.
LEMMA UndoDirectEffect ==
  ASSUME TypeOK, NEW p \in Procs, UndoDirect(p)
  PROVE  LET u == proc[p].u IN
         /\ proc[p].pc = "undoDirect" /\ u \in Uploads
         /\ Moves(p, {})
         /\ MayRelease(u)
         /\ UNCHANGED <<file, row, task, declared>>
<1>1. proc[p].pc = "undoDirect" /\ proc[p].u \in Uploads
  BY DEF UndoDirect, TypeOK, At, Processes, Pcs, BusyPcs, InitPcs, CompletePcs,
         AbortPcs
<1>2. Moves(p, {})
  BY <1>1, BoundsOK, GotoEffect, DoneEffect
  DEF UndoDirect, TypeOK, Moves, Pcs, BusyPcs, InitPcs, CompletePcs, AbortPcs
<1>3. MayRelease(proc[p].u)
  <2>1. CASE direct[proc[p].u].st = "active"
    <3>1. oss' = [oss EXCEPT ![proc[p].u] = IF @ = "object" THEN "gone" ELSE @]
      BY <2>1 DEF UndoDirect, Release
    <3>2. direct' = [direct EXCEPT ![proc[p].u].st = "released"]
      BY <2>1 DEF UndoDirect, Release
    <3>3. StateMoves(proc[p].u, "released")
      BY <1>1, <3>2, StateEffect DEF TypeOK, StateMoves, OnlyAt
    <3> QED BY <1>1, <2>1, <3>1, <3>3 DEF TypeOK, MayRelease, OnlyAt
  <2>2. CASE direct[proc[p].u].st # "active"
    BY <2>2 DEF UndoDirect, MayRelease
  <2> QED BY <2>1, <2>2
<1> QED BY <1>1, <1>2, <1>3 DEF UndoDirect

\* AssembleObject: a completion commits only what is an object.
LEMMA AssembleObjectEffect ==
  ASSUME TypeOK, NEW p \in Procs, AssembleObject(p)
  PROVE  LET u == proc[p].u IN
         /\ proc[p].pc = "object" /\ u \in Uploads
         /\ Moves(p, {"commit"})
         /\ OnlyAt(oss, u)
         /\ oss'[u] = oss[u] \/ (oss[u] = "full" /\ oss'[u] = "object")
         /\ proc'[p].pc = "commit" => oss'[u] = "object"
         /\ UNCHANGED <<file, direct, row, task, declared>>
<1>1. proc[p].pc = "object" /\ proc[p].u \in Uploads
  BY DEF AssembleObject, TypeOK, At, Processes, Pcs, BusyPcs, InitPcs,
         CompletePcs, AbortPcs
<1>2. Moves(p, {"commit"})
  BY <1>1, BoundsOK, GotoEffect, DoneEffect
  DEF AssembleObject, TypeOK, Moves, Pcs, BusyPcs, InitPcs, CompletePcs,
      AbortPcs
<1>3. CASE oss'[proc[p].u] = "object" /\ oss' = [oss EXCEPT ![proc[p].u] = "object"]
  BY <1>1, <1>2, <1>3 DEF AssembleObject, TypeOK, OnlyAt
<1>4. CASE Done(p) /\ UNCHANGED oss
  BY <1>1, <1>2, <1>4, BoundsOK, DoneEffect
  DEF AssembleObject, TypeOK, OnlyAt, Idle
<1> QED BY <1>1, <1>3, <1>4, BoundsOK DEF AssembleObject, TypeOK, At, Processes

\* CommitDirectUpload: the only step that publishes, over the captured
\* generation.
LEMMA CommitDirectUploadEffect ==
  ASSUME TypeOK, NEW p \in Procs, CommitDirectUpload(p)
  PROVE  LET u == proc[p].u IN
         /\ proc[p].pc = "commit" /\ u \in Uploads
         /\ Moves(p, {"project"})
         /\ UNCHANGED <<oss, row, task, declared>>
         /\ \/ /\ UNCHANGED <<file, direct>>
               /\ direct[u].st = "committed" \/ proc'[p] = Idle
            \/ /\ direct[u].st = "active" /\ StateMoves(u, "committed")
               /\ file'.src = u /\ file'.gen = file.gen + 1
               /\ direct[u].exp = file.gen
<1>1. proc[p].pc = "commit" /\ proc[p].u \in Uploads
  BY DEF CommitDirectUpload, TypeOK, At, Processes, Pcs, BusyPcs, InitPcs,
         CompletePcs, AbortPcs
<1>2. Moves(p, {"project"})
  BY <1>1, BoundsOK, GotoEffect, DoneEffect
  DEF CommitDirectUpload, TypeOK, Moves, Pcs, BusyPcs, InitPcs, CompletePcs,
      AbortPcs
<1>3. CASE CommitAllowed(proc[p].u) /\ PublishGeneration(proc[p].u)
  <2>1. direct' = [direct EXCEPT ![proc[p].u].st = "committed"]
    BY <1>3 DEF PublishGeneration
  <2>2. StateMoves(proc[p].u, "committed")
    BY <1>1, <2>1, StateEffect DEF TypeOK, StateMoves, OnlyAt
  <2>3. direct[proc[p].u].exp = file.gen
    BY <1>3 DEF CommitAllowed, Absent
  <2> QED
    BY <1>1, <1>2, <1>3, <2>2, <2>3
    DEF CommitDirectUpload, CommitAllowed, PublishGeneration
<1>4. CASE /\ UNCHANGED <<file, direct>>
           /\ direct[proc[p].u].st = "committed" \/ Done(p)
  BY <1>1, <1>2, <1>4, BoundsOK, DoneEffect DEF CommitDirectUpload, TypeOK
<1> QED BY <1>3, <1>4 DEF CommitDirectUpload

\* ResolvePublished: nothing but the step changes.
LEMMA ResolvePublishedEffect ==
  ASSUME TypeOK, NEW p \in Procs, ResolvePublished(p)
  PROVE  LET u == proc[p].u IN
         /\ proc[p].pc = "project" /\ u \in Uploads
         /\ Moves(p, {"ready"})
         /\ UNCHANGED <<file, direct, oss, row, task, declared>>
<1>1. proc[p].pc = "project" /\ proc[p].u \in Uploads
  BY DEF ResolvePublished, TypeOK, At, Processes, Pcs, BusyPcs, InitPcs,
         CompletePcs, AbortPcs
<1>2. Moves(p, {"ready"})
  BY <1>1, BoundsOK, GotoEffect, DoneEffect
  DEF ResolvePublished, TypeOK, Moves, Pcs, BusyPcs, InitPcs, CompletePcs,
      AbortPcs
<1> QED BY <1>1, <1>2 DEF ResolvePublished

\* MarkReady: a row that is still there becomes ready.
LEMMA MarkReadyEffect ==
  ASSUME TypeOK, NEW p \in Procs, MarkReady(p)
  PROVE  LET u == proc[p].u IN
         /\ proc[p].pc = "ready" /\ u \in Uploads
         /\ Moves(p, {"finishTask"})
         /\ OnlyAt(row, u)
         /\ \/ row'[u] = "ready" /\ row[u] # "none"
            \/ row'[u] = row[u] /\ proc'[p] = Idle
         /\ UNCHANGED <<file, direct, oss, task, declared>>
<1>1. proc[p].pc = "ready" /\ proc[p].u \in Uploads
  BY DEF MarkReady, TypeOK, At, Processes, Pcs, BusyPcs, InitPcs, CompletePcs,
         AbortPcs
<1>2. Moves(p, {"finishTask"})
  BY <1>1, BoundsOK, GotoEffect, DoneEffect
  DEF MarkReady, TypeOK, Moves, Pcs, BusyPcs, InitPcs, CompletePcs, AbortPcs
<1> QED
  BY <1>1, <1>2, BoundsOK, GotoEffect, DoneEffect
  DEF MarkReady, TypeOK, OnlyAt, Pcs, BusyPcs, InitPcs, CompletePcs

\* FinishTask: the task, if there is one, is completed.
LEMMA FinishTaskEffect ==
  ASSUME TypeOK, NEW p \in Procs, FinishTask(p)
  PROVE  LET u == proc[p].u IN
         /\ proc[p].pc = "finishTask" /\ u \in Uploads
         /\ Moves(p, {"ack"})
         /\ OnlyAt(task, u) /\ task'[u] \in {task[u], "none", "completed"}
         /\ UNCHANGED <<file, direct, oss, row, declared>>
<1>1. proc[p].pc = "finishTask" /\ proc[p].u \in Uploads
  BY DEF FinishTask, TypeOK, At, Processes, Pcs, BusyPcs, InitPcs, CompletePcs,
         AbortPcs
<1>2. Moves(p, {"ack"})
  BY <1>1, BoundsOK, GotoEffect, DoneEffect
  DEF FinishTask, TypeOK, Moves, Pcs, BusyPcs, InitPcs, CompletePcs, AbortPcs
<1> QED
  BY <1>1, <1>2
  DEF FinishTask, EndTaskAs, TypeOK, OnlyAt

\* Acknowledge: a committed reservation is acknowledged.
LEMMA AcknowledgeEffect ==
  ASSUME TypeOK, NEW p \in Procs, Acknowledge(p)
  PROVE  LET u == proc[p].u IN
         /\ proc[p].pc = "ack" /\ u \in Uploads
         /\ Moves(p, {})
         /\ \/ UNCHANGED direct
            \/ direct[u].st = "committed" /\ StateMoves(u, "acked")
         /\ UNCHANGED <<file, oss, row, task, declared>>
<1>1. proc[p].pc = "ack" /\ proc[p].u \in Uploads
  BY DEF Acknowledge, TypeOK, At, Processes, Pcs, BusyPcs, InitPcs,
         CompletePcs, AbortPcs
<1>2. Moves(p, {})
  BY <1>1, BoundsOK, GotoEffect, DoneEffect
  DEF Acknowledge, TypeOK, Moves, Pcs, BusyPcs, InitPcs, CompletePcs, AbortPcs
<1>3. \/ direct' = direct
      \/ direct[proc[p].u].st = "committed" /\ StateMoves(proc[p].u, "acked")
  BY <1>1, StateEffect DEF Acknowledge, TypeOK, OnlyAt, StateMoves
<1> QED BY <1>1, <1>2, <1>3 DEF Acknowledge

\* AbortMultipartCall: an object is out of its reach.
LEMMA AbortMultipartCallEffect ==
  ASSUME TypeOK, NEW p \in Procs, AbortMultipartCall(p)
  PROVE  LET u == proc[p].u IN
         /\ proc[p].pc = "abortMultipart" /\ u \in Uploads
         /\ Moves(p, {"abortDirect"})
         /\ MayAbortMultipart(u)
         /\ UNCHANGED <<file, direct, row, task, declared>>
<1>1. proc[p].pc = "abortMultipart" /\ proc[p].u \in Uploads
  BY DEF AbortMultipartCall, TypeOK, At, Processes, Pcs, BusyPcs, InitPcs,
         CompletePcs, AbortPcs
<1>2. Moves(p, {"abortDirect"})
  BY <1>1, BoundsOK, GotoEffect, DoneEffect
  DEF AbortMultipartCall, TypeOK, Moves, Pcs, BusyPcs, InitPcs, CompletePcs,
      AbortPcs
<1> QED
  BY <1>1, <1>2
  DEF AbortMultipartCall, AbortMultipart, MayAbortMultipart, TypeOK, OnlyAt

\* AbortDirectOpen: an active reservation is released.
LEMMA AbortDirectOpenEffect ==
  ASSUME TypeOK, NEW p \in Procs, AbortDirectOpen(p)
  PROVE  LET u == proc[p].u IN
         /\ proc[p].pc = "abortDirect" /\ u \in Uploads
         /\ Moves(p, {"dropRow"})
         /\ MayRelease(u)
         /\ UNCHANGED <<file, row, task, declared>>
<1>1. proc[p].pc = "abortDirect" /\ proc[p].u \in Uploads
  BY DEF AbortDirectOpen, TypeOK, At, Processes, Pcs, BusyPcs, InitPcs,
         CompletePcs, AbortPcs
<1>2. Moves(p, {"dropRow"})
  BY <1>1, BoundsOK, GotoEffect, DoneEffect
  DEF AbortDirectOpen, TypeOK, Moves, Pcs, BusyPcs, InitPcs, CompletePcs,
      AbortPcs
<1>3. MayRelease(proc[p].u)
  <2>1. CASE direct[proc[p].u].st = "active"
    <3>1. oss' = [oss EXCEPT ![proc[p].u] = IF @ = "object" THEN "gone" ELSE @]
      BY <2>1 DEF AbortDirectOpen, Release
    <3>2. direct' = [direct EXCEPT ![proc[p].u].st = "released"]
      BY <2>1 DEF AbortDirectOpen, Release
    <3>3. StateMoves(proc[p].u, "released")
      BY <1>1, <3>2, StateEffect DEF TypeOK, StateMoves, OnlyAt
    <3> QED BY <1>1, <2>1, <3>1, <3>3 DEF TypeOK, MayRelease, OnlyAt
  <2>2. CASE direct[proc[p].u].st # "active"
    BY <2>2 DEF AbortDirectOpen, MayRelease
  <2> QED BY <2>1, <2>2
<1> QED BY <1>1, <1>2, <1>3 DEF AbortDirectOpen

\* AbortDirectCommitted: a committed reservation is at most forgotten.
LEMMA AbortDirectCommittedEffect ==
  ASSUME TypeOK, NEW p \in Procs, AbortDirectCommitted(p)
  PROVE  LET u == proc[p].u IN
         /\ proc[p].pc = "abortDirect" /\ u \in Uploads
         /\ Moves(p, {"dropRow", "endTask"})
         /\ \/ UNCHANGED direct
            \/ direct[u].st = "committed" /\ StateMoves(u, "forgotten")
         /\ UNCHANGED <<file, oss, row, task, declared>>
<1>1. proc[p].pc = "abortDirect" /\ proc[p].u \in Uploads
  BY DEF AbortDirectCommitted, TypeOK, At, Processes, Pcs, BusyPcs, InitPcs,
         CompletePcs, AbortPcs
<1>2. Moves(p, {"dropRow", "endTask"})
  BY <1>1, BoundsOK, GotoEffect, DoneEffect
  DEF AbortDirectCommitted, AfterAbort, TypeOK, Moves, Pcs, BusyPcs, InitPcs,
      CompletePcs, AbortPcs
<1>3. \/ direct' = direct
      \/ direct[proc[p].u].st = "committed" /\ StateMoves(proc[p].u, "forgotten")
  BY <1>1, StateEffect DEF AbortDirectCommitted, TypeOK, OnlyAt, StateMoves
<1> QED BY <1>1, <1>2, <1>3 DEF AbortDirectCommitted

\* AbortDirectFails: nothing but the step changes.
LEMMA AbortDirectFailsEffect ==
  ASSUME TypeOK, NEW p \in Procs, AbortDirectFails(p)
  PROVE  LET u == proc[p].u IN
         /\ proc[p].pc = "abortDirect" /\ u \in Uploads
         /\ Moves(p, {"endTask"})
         /\ UNCHANGED <<file, direct, oss, row, task, declared>>
<1>1. proc[p].pc = "abortDirect" /\ proc[p].u \in Uploads
  BY DEF AbortDirectFails, TypeOK, At, Processes, Pcs, BusyPcs, InitPcs,
         CompletePcs, AbortPcs
<1>2. Moves(p, {"endTask"})
  BY <1>1, BoundsOK, GotoEffect, DoneEffect
  DEF AbortDirectFails, AfterAbort, TypeOK, Moves, Pcs, BusyPcs, InitPcs,
      CompletePcs, AbortPcs
<1> QED BY <1>1, <1>2 DEF AbortDirectFails

\* DropRow: the row is gone.
LEMMA DropRowEffect ==
  ASSUME TypeOK, NEW p \in Procs, DropRow(p)
  PROVE  LET u == proc[p].u IN
         /\ proc[p].pc = "dropRow" /\ u \in Uploads
         /\ Moves(p, {"endTask"})
         /\ OnlyAt(row, u) /\ row'[u] = "none"
         /\ UNCHANGED <<file, direct, oss, task, declared>>
<1>1. proc[p].pc = "dropRow" /\ proc[p].u \in Uploads
  BY DEF DropRow, TypeOK, At, Processes, Pcs, BusyPcs, InitPcs, CompletePcs,
         AbortPcs
<1>2. Moves(p, {"endTask"})
  BY <1>1, BoundsOK, GotoEffect, DoneEffect
  DEF DropRow, AfterAbort, TypeOK, Moves, Pcs, BusyPcs, InitPcs, CompletePcs,
      AbortPcs
<1> QED
  BY <1>1, <1>2
  DEF DropRow, AfterAbort, TypeOK, OnlyAt

\* EndTask: the task, if there is one, is cancelled.
LEMMA EndTaskEffect ==
  ASSUME TypeOK, NEW p \in Procs, EndTask(p)
  PROVE  LET u == proc[p].u IN
         /\ proc[p].pc = "endTask" /\ u \in Uploads
         /\ Moves(p, {})
         /\ OnlyAt(task, u) /\ task'[u] \in {"none", "cancelled"}
         /\ UNCHANGED <<file, direct, oss, row, declared>>
<1>1. proc[p].pc = "endTask" /\ proc[p].u \in Uploads
  BY DEF EndTask, TypeOK, At, Processes, Pcs, BusyPcs, InitPcs, CompletePcs,
         AbortPcs
<1>2. Moves(p, {})
  BY <1>1, BoundsOK, GotoEffect, DoneEffect
  DEF EndTask, TypeOK, Moves, Pcs, BusyPcs, InitPcs, CompletePcs, AbortPcs
<1> QED
  BY <1>1, <1>2
  DEF EndTask, EndTaskAs, TypeOK, OnlyAt

\* Init keeps the invariant: until its row exists the upload is its own.
LEMMA InitKeeps ==
  ASSUME TypeOK, Named, Inv, NEW p \in Procs, InitStep(p) PROVE Inv'
<1> USE SourcesDistinct
  DEF Inv, OwnershipInv, UnusedInv, CompletionInv, SourceInv, AgreementInv,
      PublishedIsStored, SuccessIsPublished, RetryStaysAnswerable, Agreed,
      Published, Named, Idle, BusyPcs, InitPcs, CompletePcs, AbortPcs
<1>1. ASSUME LookupExisting(p) PROVE Inv'
  BY <1>1, LookupExistingEffect DEF Moves
<1>2. ASSUME PrepareReplacement(p) PROVE Inv'
  BY SMTT(30), <1>2, PrepareReplacementEffect DEF Moves, OnlyAt
<1>3. ASSUME PrepareCreation(p) PROVE Inv'
  BY SMTT(30), <1>3, PrepareCreationEffect DEF Moves, OnlyAt
<1>4. ASSUME PrepareRefused(p) PROVE Inv'
  BY <1>4, PrepareRefusedEffect DEF Moves
<1>5. ASSUME CreateMultipart(p) PROVE Inv'
  BY <1>5, CreateMultipartEffect DEF Moves, OnlyAt
<1>6. ASSUME CreateTask(p) PROVE Inv'
  BY <1>6, CreateTaskEffect DEF Moves, OnlyAt
<1>7. ASSUME CreateRow(p) PROVE Inv'
  BY <1>7, CreateRowEffect DEF Moves, OnlyAt
<1>8. ASSUME UndoTask(p) PROVE Inv'
  BY <1>8, UndoTaskEffect DEF Moves, OnlyAt
<1>9. ASSUME UndoMultipart(p) PROVE Inv'
  BY <1>9, UndoMultipartEffect DEF Moves, MayAbortMultipart, OnlyAt
<1>10. ASSUME UndoDirect(p) PROVE Inv'
  BY <1>10, UndoDirectEffect DEF Moves, MayRelease, StateMoves, OnlyAt
<1> QED
  BY <1>1, <1>2, <1>3, <1>4, <1>5, <1>6, <1>7, <1>8, <1>9, <1>10
  DEF InitStep

\* Complete keeps the invariant: each step has what the next one promises.
LEMMA CompleteKeeps ==
  ASSUME TypeOK, Named, Inv, NEW p \in Procs, CompleteStep(p) PROVE Inv'
<1> USE SourcesDistinct
  DEF Inv, OwnershipInv, UnusedInv, CompletionInv, SourceInv, AgreementInv,
      PublishedIsStored, SuccessIsPublished, RetryStaysAnswerable, Agreed,
      Published, Named, Idle, BusyPcs, InitPcs, CompletePcs, AbortPcs
<1>1. ASSUME AssembleObject(p) PROVE Inv'
  BY <1>1, AssembleObjectEffect DEF Moves, OnlyAt
<1>2. ASSUME CommitDirectUpload(p) PROVE Inv'
  BY SMTT(30), <1>2, CommitDirectUploadEffect DEF Moves, StateMoves, OnlyAt
<1>3. ASSUME ResolvePublished(p) PROVE Inv'
  BY <1>3, ResolvePublishedEffect DEF Moves
<1>4. ASSUME MarkReady(p) PROVE Inv'
  BY <1>4, MarkReadyEffect DEF Moves, OnlyAt
<1>5. ASSUME FinishTask(p) PROVE Inv'
  BY <1>5, FinishTaskEffect DEF Moves, OnlyAt
<1>6. ASSUME Acknowledge(p) PROVE Inv'
  BY <1>6, AcknowledgeEffect DEF Moves, StateMoves, OnlyAt
<1> QED BY <1>1, <1>2, <1>3, <1>4, <1>5, <1>6 DEF CompleteStep

\* An abort keeps the invariant: it takes nothing a publication rests on.
LEMMA AbortKeeps ==
  ASSUME TypeOK, Named, Inv, NEW p \in Procs, AbortStep(p) PROVE Inv'
<1> USE SourcesDistinct
  DEF Inv, OwnershipInv, UnusedInv, CompletionInv, SourceInv, AgreementInv,
      PublishedIsStored, SuccessIsPublished, RetryStaysAnswerable, Agreed,
      Published, Named, Idle, BusyPcs, InitPcs, CompletePcs, AbortPcs
<1>1. ASSUME AbortMultipartCall(p) PROVE Inv'
  BY <1>1, AbortMultipartCallEffect DEF Moves, MayAbortMultipart, OnlyAt
<1>2. ASSUME AbortDirectOpen(p) PROVE Inv'
  BY SMTT(30), <1>2, AbortDirectOpenEffect DEF Moves, MayRelease, StateMoves, OnlyAt
<1>3. ASSUME AbortDirectCommitted(p) PROVE Inv'
  BY <1>3, AbortDirectCommittedEffect DEF Moves, StateMoves, OnlyAt
<1>4. ASSUME AbortDirectFails(p) PROVE Inv'
  BY <1>4, AbortDirectFailsEffect DEF Moves
<1>5. ASSUME DropRow(p) PROVE Inv'
  BY <1>5, DropRowEffect DEF Moves, OnlyAt
<1>6. ASSUME EndTask(p) PROVE Inv'
  BY <1>6, EndTaskEffect DEF Moves, OnlyAt
<1> QED BY <1>1, <1>2, <1>3, <1>4, <1>5, <1>6 DEF AbortStep

\* A permanent deletion, and a request that stops anywhere, keep the invariant.
LEMMA DeleteKeeps ==
  ASSUME TypeOK, Named, Inv, NEW p \in Procs, DeleteStep(p) \/ Abandon(p)
  PROVE  Inv'
<1> USE SourcesDistinct
  DEF Inv, OwnershipInv, UnusedInv, CompletionInv, SourceInv, AgreementInv,
      PublishedIsStored, SuccessIsPublished, RetryStaysAnswerable, Agreed,
      Published, Named, Idle, BusyPcs, InitPcs, CompletePcs, AbortPcs
<1>1. ASSUME Unlink(p) PROVE Inv'
  <2>1. proc[p].pc = "unlink" /\ Moves(p, {"dropRows"})
    BY <1>1, BoundsOK, GotoEffect, DoneEffect
    DEF Unlink, At, Moves, TypeOK, Pcs, DeletePcs
  <2>2. file' = file \/ file'.src = NoSource
    BY <1>1 DEF Unlink, Absent
  <2> QED BY <1>1, <2>1, <2>2 DEF Unlink, Moves
<1>2. ASSUME DeleteInodeProjection(p) PROVE Inv'
  <2>1. proc[p].pc = "dropRows" /\ Moves(p, {})
    BY <1>2, BoundsOK, DoneEffect DEF DeleteInodeProjection, At, Moves, TypeOK
  <2>2. \A v \in Uploads : row'[v] \in {row[v], "none"}
    BY <1>2 DEF DeleteInodeProjection
  <2> QED BY <1>2, <2>1, <2>2 DEF DeleteInodeProjection, Moves
<1>3. ASSUME Abandon(p) PROVE Inv'
  <2>1. Moves(p, {})
    BY <1>3, BoundsOK, DoneEffect DEF Abandon, Moves, TypeOK
  <2> QED BY <1>3, <2>1 DEF Abandon, Moves
<1>4. ASSUME LookupVictim(p) PROVE Inv'
  <2>1. proc[p].pc = "resolve" /\ Moves(p, {"unlink", "dropPath"})
    BY <1>4, GotoEffect
    DEF LookupVictim, At, Moves, TypeOK, Pcs, DeletePcs, Processes
  <2> QED BY <1>4, <2>1 DEF LookupVictim, Moves
<1>5. ASSUME DropPathRows(p) PROVE Inv'
  <2>1. proc[p].pc = "dropPath" /\ Moves(p, {})
    BY <1>5, BoundsOK, DoneEffect DEF DropPathRows, At, Moves, TypeOK
  <2>2. \A v \in Uploads : row'[v] = "none"
    BY <1>5 DEF DropPathRows
  <2> QED BY <1>5, <2>1, <2>2 DEF DropPathRows, Moves
<1> QED BY <1>1, <1>2, <1>3, <1>4, <1>5 DEF DeleteStep

\* Whatever starts finds the upload in a state its handler accepts.
LEMMA StartKeeps ==
  ASSUME TypeOK, Named, Inv, NEW p \in Procs, NEW u \in Uploads
  PROVE  /\ \A s \in {"create", "replace"}, g \in {0, file.gen} :
              StartInit(p, u, s, g) => Inv'
         /\ StartComplete(p, u) => Inv'
         /\ \A by \in Aborters : StartAbort(p, u, by) => Inv'
<1> USE SourcesDistinct
  DEF Inv, OwnershipInv, UnusedInv, CompletionInv, SourceInv, AgreementInv,
      PublishedIsStored, SuccessIsPublished, RetryStaysAnswerable, Agreed,
      Published, Named, Idle, BusyPcs, InitPcs, CompletePcs, AbortPcs
<1> DEFINE Enters(pcs) == /\ \A q \in Procs \ {p} : proc'[q] = proc[q]
                          /\ proc'[p].pc \in pcs /\ proc'[p].u = u
<1>1. ASSUME NEW s \in {"create", "replace"}, NEW g \in {0, file.gen},
             StartInit(p, u, s, g)
      PROVE  Inv'
  <2>1. Enters({"lookup"}) /\ OnlyAt(declared, u)
    BY <1>1 DEF StartInit, OnlyAt, TypeOK
  <2> QED BY <1>1, <2>1 DEF StartInit, OnlyAt
<1>2. ASSUME StartComplete(p, u) PROVE Inv'
  <2>1. \/ Enters({"ack"}) /\ row[u] = "ready"
        \/ Enters({"object"}) /\ row[u] = "uploading"
    BY <1>2 DEF StartComplete, TypeOK
  <2> QED BY <1>2, <2>1 DEF StartComplete
<1>3. ASSUME NEW by \in Aborters, StartAbort(p, u, by) PROVE Inv'
  <2>1. \/ Enters({"endTask"})
        \/ Enters({"abortMultipart"}) /\ row[u] # "none"
    <3>1. CASE by = "cancelTask"
      BY <1>3, <3>1 DEF StartAbort, TypeOK
    <3>2. CASE by # "cancelTask"
      <4>1. row[u] # "none"
        BY <1>3, <3>2 DEF StartAbort, AbortGuard, Aborters
      <4> QED BY <1>3, <3>2, <4>1 DEF StartAbort, TypeOK
    <3> QED BY <3>1, <3>2
  <2> QED BY <1>3, <2>1 DEF StartAbort
<1> QED BY <1>1, <1>2, <1>3

\* Mounts, expiry, the browser's PUTs and time keep the invariant.
LEMMA EnvironmentKeeps ==
  ASSUME TypeOK, Named, Inv, Environment PROVE Inv'
<1> USE SourcesDistinct
  DEF Inv, OwnershipInv, UnusedInv, CompletionInv, SourceInv, AgreementInv,
      PublishedIsStored, SuccessIsPublished, RetryStaysAnswerable, Agreed,
      Published, Named, Idle, BusyPcs, InitPcs, CompletePcs, AbortPcs
<1>1. ASSUME MountWrite \/ MountCreate PROVE Inv'
  <2>1. file'.src = MountSource
    BY <1>1 DEF MountWrite, MountCreate
  <2> QED BY <1>1, <2>1 DEF MountWrite, MountCreate
<1>5. ASSUME MountRemove PROVE Inv'
  BY <1>5 DEF MountRemove, Absent
<1>2. ASSUME NEW u \in Uploads, ReservationExpires(u) PROVE Inv'
  <2>1. StateMoves(u, "released")
    BY <1>2, StateEffect
    DEF ReservationExpires, Release, TypeOK, StateMoves, OnlyAt
  <2>2. OnlyAt(oss, u) /\ (oss'[u] = "none" <=> oss[u] = "none")
    BY <1>2 DEF ReservationExpires, Release, TypeOK, OnlyAt
  <2> QED
    BY <1>2, <2>1, <2>2 DEF ReservationExpires, StateMoves, OnlyAt
<1>3. ASSUME NEW u \in Uploads, PutParts(u) PROVE Inv'
  <2>1. OnlyAt(oss, u) /\ oss[u] = "open" /\ oss'[u] = "full"
    BY <1>3 DEF PutParts, TypeOK, OnlyAt
  <2> QED BY <1>3, <2>1 DEF PutParts, OnlyAt
<1>4. ASSUME NEW u \in Uploads, TimePasses(u) \/ Heartbeat(u) PROVE Inv'
  BY <1>4 DEF TimePasses, Heartbeat
<1> QED BY <1>1, <1>2, <1>3, <1>4, <1>5 DEF Environment

\* The inductive invariant: what handlers have established by each step, and
\* with it the safety properties of DirectUpload.
THEOREM Invariance == Spec => []Inv
<1>1. Init => Inv
  BY SourcesDistinct
  DEF Init, NoReservation, Idle, Absent,
      Inv, OwnershipInv, UnusedInv, CompletionInv, SourceInv, AgreementInv,
      PublishedIsStored, SuccessIsPublished, RetryStaysAnswerable, Agreed,
      Published, InitPcs, CompletePcs
<1>2. TypeOK /\ Inv /\ [Next]_vars => Inv'
  <2> SUFFICES ASSUME TypeOK, Inv, [Next]_vars PROVE Inv'
    OBVIOUS
  <2>1. Named
    BY DEF Named, TypeOK, Processes
  <2>2. ASSUME NEW p \in Requests, StartRequest(p) PROVE Inv'
    <3>1. ASSUME StartDelete(p) PROVE Inv'
      <4>1. /\ \A q \in Procs \ {p} : proc'[q] = proc[q]
            /\ proc'[p].pc = "resolve" /\ proc'[p].u = proc[p].u
            /\ proc[p].pc = "idle" /\ p \in Procs
        BY <3>1 DEF StartDelete, At, TypeOK, Processes, Procs
      <4> QED
        BY <2>1, <3>1, <4>1, SourcesDistinct
        DEF StartDelete, Inv, OwnershipInv, UnusedInv, CompletionInv,
            SourceInv, AgreementInv, PublishedIsStored, SuccessIsPublished,
            RetryStaysAnswerable, Agreed, Published, Named, BusyPcs, InitPcs,
            CompletePcs, AbortPcs
    <3> QED BY <2>1, <2>2, <3>1, StartKeeps DEF StartRequest, Procs
  <2>3. ASSUME NEW p \in Cleaners, NEW u \in Uploads, StartAbort(p, u, p)
        PROVE  Inv'
    BY <2>1, <2>3, StartKeeps, CleanersKnown DEF Procs, Aborters
  <2>4. CASE UNCHANGED vars
    BY <2>4 DEF vars, Inv, OwnershipInv, UnusedInv, CompletionInv, SourceInv,
            AgreementInv, PublishedIsStored, SuccessIsPublished,
            RetryStaysAnswerable, Agreed, Published
  <2> QED
    BY <2>1, <2>2, <2>3, <2>4, InitKeeps, CompleteKeeps, AbortKeeps,
       DeleteKeeps, EnvironmentKeeps DEF Next
<1> QED BY <1>1, <1>2, TypeCorrect, PTL DEF Spec

\* Published contents have their object (PublishedIsStored).
THEOREM PublishedAlwaysStored == Spec => []PublishedIsStored
<1>1. Inv => PublishedIsStored
  BY DEF Inv
<1> QED BY <1>1, Invariance, PTL

\* A row or task reports success only for a published upload
\* (SuccessIsPublished).
THEOREM SuccessAlwaysPublished == Spec => []SuccessIsPublished
<1>1. Inv => SuccessIsPublished
  BY DEF Inv
<1> QED BY <1>1, Invariance, PTL

\* The commit record is given up only when the row can answer a retry
\* (RetryStaysAnswerable).
THEOREM RetryAlwaysAnswerable == Spec => []RetryStaysAnswerable
<1>1. Inv => RetryStaysAnswerable
  BY DEF Inv
<1> QED BY <1>1, Invariance, PTL

-----------------------------------------------------------------------------
(* Refinement: the protocol implements the optimistic register. *)

\* Nothing the register shows has changed.
Invisible ==
  UNCHANGED <<file, declared>> /\ \A v \in Uploads : Published(v)' <=> Published(v)

\* No step of init or of an abort shows: committed is as published as forgotten.
LEMMA InitAndAbortInvisible ==
  ASSUME TypeOK, Inv, NEW p \in Procs, InitStep(p) \/ AbortStep(p)
  PROVE  Invisible
<1> USE DEF Invisible, Published, Moves, OnlyAt, StateMoves, MayRelease,
            MayAbortMultipart
<1>1. ASSUME InitStep(p) PROVE Invisible
  <2>1. proc[p].pc = "prepare" => direct[proc[p].u].st = "none"
    BY DEF Inv, OwnershipInv, InitPcs
  <2> QED
    BY <1>1, <2>1, LookupExistingEffect, PrepareReplacementEffect,
       PrepareCreationEffect, PrepareRefusedEffect, CreateMultipartEffect,
       CreateTaskEffect, CreateRowEffect, UndoTaskEffect, UndoMultipartEffect,
       UndoDirectEffect DEF InitStep
<1>2. ASSUME AbortStep(p) PROVE Invisible
  BY <1>2, AbortMultipartCallEffect, AbortDirectOpenEffect,
     AbortDirectCommittedEffect, AbortDirectFailsEffect, DropRowEffect,
     EndTaskEffect DEF AbortStep
<1> QED BY <1>1, <1>2

\* Of complete only the commit shows, once per upload, over the generation its
\* editor declared.
LEMMA CompletePublishes ==
  ASSUME TypeOK, Inv, NEW p \in Procs, CompleteStep(p)
  PROVE  Invisible \/ \E u \in Uploads : Register!Publish(u)
<1>1. ASSUME CommitDirectUpload(p) PROVE Invisible \/ Register!Publish(proc[p].u)
  <2>1. Agreed(proc[p].u)
    BY <1>1, CommitDirectUploadEffect DEF Inv, AgreementInv, CompletePcs
  <2> QED
    BY <1>1, <2>1, CommitDirectUploadEffect
    DEF Invisible, Published, Agreed, StateMoves, OnlyAt, Register!Publish
<1>2. ASSUME Acknowledge(p) PROVE Invisible
  BY <1>2, AcknowledgeEffect DEF Invisible, Published, StateMoves, OnlyAt
<1>3. ASSUME \/ AssembleObject(p) \/ ResolvePublished(p)
             \/ MarkReady(p) \/ FinishTask(p)
      PROVE  Invisible
  BY <1>3, AssembleObjectEffect, ResolvePublishedEffect, MarkReadyEffect,
     FinishTaskEffect DEF Invisible, Published
<1> QED BY <1>1, <1>2, <1>3, CommitDirectUploadEffect DEF CompleteStep

\* The upload protocol implements the optimistic register (Optimistic): one
\* editor's upload never overwrites a generation another one wrote.
THEOREM OptimisticRegister == Spec => Optimistic
<1>1. Init => Register!Init
  BY DEF Init, Register!Init, Absent, Register!Absent, Published, NoReservation
<1>2. TypeOK /\ Inv /\ [Next]_vars => [Register!Next]_(Register!vars)
  <2> SUFFICES ASSUME TypeOK, Inv, [Next]_vars
               PROVE  Register!Next \/ UNCHANGED Register!vars
    OBVIOUS
  <2>1. Invisible => UNCHANGED Register!vars
    BY DEF Invisible, Register!vars, Published
  <2>2. ASSUME NEW p \in Requests, StartRequest(p)
        PROVE  Invisible \/ \E u \in Uploads : Register!Declare(u)
    <3>1. ASSUME NEW u \in Uploads, NEW s \in {"create", "replace"},
                 NEW g \in {0, file.gen}, StartInit(p, u, s, g)
          PROVE  Register!Declare(u)
      BY <3>1 DEF StartInit, Register!Declare, Published, TypeOK
    <3> QED
      BY <2>2, <3>1

      DEF StartRequest, StartDelete, StartComplete, StartAbort, Invisible,
          Published
  <2>3. ASSUME NEW p \in Cleaners, NEW u \in Uploads, StartAbort(p, u, p)
        PROVE  Invisible
    BY <2>3 DEF StartAbort, Invisible, Published
  <2>4. ASSUME NEW p \in Procs, DeleteStep(p) \/ Abandon(p)
        PROVE  Invisible \/ Register!OtherWrite
    BY <2>4
    DEF DeleteStep, LookupVictim, DropPathRows, Unlink, DeleteInodeProjection,
        Abandon, Absent, Invisible, Published, Register!OtherWrite
  <2>5. ASSUME Environment PROVE Invisible \/ Register!OtherWrite
    <3>1. ASSUME NEW u \in Uploads, ReservationExpires(u) PROVE Invisible
      <4>1. StateMoves(u, "released")
        BY <3>1, StateEffect
        DEF ReservationExpires, Release, TypeOK, StateMoves, OnlyAt
      <4> QED
        BY <3>1, <4>1
        DEF ReservationExpires, Invisible, Published, StateMoves, OnlyAt
    <3> QED
      BY <2>5, <3>1
      DEF Environment, MountWrite, MountCreate, MountRemove, PutParts, TimePasses,
          Heartbeat, Absent, Invisible, Published, Register!OtherWrite
  <2>6. ASSUME UNCHANGED vars PROVE Invisible
    BY <2>6 DEF vars, Invisible, Published
  <2>7. \/ Invisible \/ Register!OtherWrite
        \/ \E u \in Uploads : Register!Declare(u) \/ Register!Publish(u)
    BY <2>2, <2>3, <2>4, <2>5, <2>6, InitAndAbortInvisible, CompletePublishes
    DEF Next
  <2> QED BY <2>1, <2>7 DEF Register!Next
<1> QED BY <1>1, <1>2, TypeCorrect, Invariance, PTL DEF Spec, Optimistic, Register!Spec

-----------------------------------------------------------------------------
(***************************************************************************)
(* For every set of uploads, requests and cleaners: the row a cleaner      *)
(* finds an upload by outlives the reservation.  The argument is about     *)
(* inode numbers: a deletion forgets the rows of the inode it unlinked,    *)
(* and an upload that creates the name holds a number nobody else has.     *)
(***************************************************************************)

\* Steps that know the inode of the file.
VictimPcs == {"unlink", "dropRows"}
Deleting(p) == proc[p].pc \in VictimPcs

\* No inode is ahead of the allocator, and what is there has one.
AllocationInv ==
  /\ file.ino <= lastInode
  /\ file # Absent => file.ino > 0 /\ file.gen > 0
  /\ \A u \in Uploads :
       /\ direct[u].ino <= lastInode
       /\ direct[u].st = "active" => direct[u].ino > 0
  /\ \A p \in Procs :
       Deleting(p) => proc[p].ino > 0 /\ proc[p].ino <= lastInode

\* The number held by an upload that creates the name is its own.
CreationInv ==
  \A u \in Uploads :
    Creating(u) =>
      /\ direct[u].ino # file.ino
      /\ \A v \in Uploads : Creating(v) => u = v
      /\ \A p \in Procs : Deleting(p) => proc[p].ino # direct[u].ino

\* What an abort and a deletion have established before they delete rows.
DeletionInv ==
  \A p \in Procs :
    /\ proc[p].pc = "dropRows" => file.ino # proc[p].ino
    /\ proc[p].pc = "dropRow" => direct[proc[p].u].st # "active"

InodeInv == AllocationInv /\ CreationInv /\ DeletionInv

\* A step that takes no inode, and opens no reservation or deletion.
Calm ==
  /\ UNCHANGED <<file, lastInode>>
  /\ \A u \in Uploads :
       \/ direct'[u] = direct[u]
       \/ direct'[u].st # "active" /\ direct'[u].ino = direct[u].ino
  /\ \A p \in Procs :
       \/ proc'[p] = proc[p]
       \/ /\ ~Deleting(p)'
          /\ proc'[p].pc = "dropRow" => direct'[proc'[p].u].st # "active"

\* A calm step keeps the invariant.
LEMMA CalmKeeps ==
  ASSUME TypeOK, InodeInv, Calm PROVE InodeInv'
<1>1. \A p \in Procs : proc[p].pc = "dropRow" => proc[p].u \in Uploads
  BY DEF TypeOK, Processes, BusyPcs, AbortPcs
<1>2. \A u \in Uploads : Creating(u)' => direct'[u] = direct[u] /\ Creating(u)
  BY DEF Calm, Creating
<1>3. AllocationInv'
  BY DEF InodeInv, AllocationInv, Calm, Deleting
<1>4. CreationInv'
  BY <1>2 DEF InodeInv, CreationInv, Calm, Deleting
<1>5. DeletionInv'
  <2> SUFFICES ASSUME NEW p \in Procs
               PROVE  /\ proc'[p].pc = "dropRows" => file'.ino # proc'[p].ino
                      /\ proc'[p].pc = "dropRow" =>
                           direct'[proc'[p].u].st # "active"
    BY DEF DeletionInv
  <2>1. CASE proc'[p] = proc[p]
    BY <1>1, <2>1 DEF InodeInv, DeletionInv, Calm
  <2>2. CASE proc'[p] # proc[p]
    BY <2>2 DEF Calm, Deleting, VictimPcs
  <2> QED BY <2>1, <2>2
<1> QED BY <1>3, <1>4, <1>5 DEF InodeInv

\* One process goes on, ends or starts, outside deletions; the reservations
\* stay.
LEMMA MoveIsCalm ==
  ASSUME TypeOK, NEW p \in Procs, NEW pcs,
         UNCHANGED <<file, lastInode, direct>>,
         Moves(p, pcs), pcs \cap (VictimPcs \cup {"dropRow"}) = {}
  PROVE  Calm
<1>1. ~Deleting(p)' /\ proc'[p].pc # "dropRow"
  BY DEF Moves, Deleting, VictimPcs, Idle
<1> QED BY <1>1 DEF Calm, Moves

\* A reservation that leaves the state "active", or changes its ending.
LEMMA EndIsCalm ==
  ASSUME TypeOK, NEW u \in Uploads,
         NEW st \in {"committed", "acked", "forgotten", "released"},
         direct' = [direct EXCEPT ![u].st = st]
  PROVE  \A v \in Uploads :
           \/ direct'[v] = direct[v]
           \/ direct'[v].st # "active" /\ direct'[v].ino = direct[v].ino
<1>1. /\ direct'[u].st = st /\ direct'[u].ino = direct[u].ino
      /\ \A v \in Uploads \ {u} : direct'[v] = direct[v]
  BY StateEffect DEF TypeOK
<1> QED BY <1>1

\* Every step of an abort is calm: the row is dropped once the reservation is
\* no longer active.
LEMMA AbortIsCalm ==
  ASSUME TypeOK, NEW p \in Procs, AbortStep(p) PROVE Calm
<1> USE DEF VictimPcs
<1>1. ASSUME AbortMultipartCall(p) PROVE Calm
  BY <1>1, AbortMultipartCallEffect, MoveIsCalm DEF AbortMultipartCall
<1>2. ASSUME AbortDirectOpen(p) PROVE Calm
  <2>1. /\ proc[p].u \in Uploads /\ Moves(p, {"dropRow"})
        /\ UNCHANGED <<file, lastInode>>
    BY <1>2, AbortDirectOpenEffect DEF AbortDirectOpen
  <2>2. \A v \in Uploads :
          \/ direct'[v] = direct[v]
          \/ direct'[v].st # "active" /\ direct'[v].ino = direct[v].ino
    BY <1>2, <2>1, EndIsCalm DEF AbortDirectOpen, Release
  <2>3. direct'[proc[p].u].st # "active"
    BY <1>2, <2>1, StateEffect DEF AbortDirectOpen, Release, TypeOK
  <2>4. ~Deleting(p)' /\ (proc'[p].pc = "dropRow" => proc'[p].u = proc[p].u)
    BY <2>1 DEF Moves, Deleting, Idle
  <2> QED BY <2>1, <2>2, <2>3, <2>4 DEF Calm, Moves
<1>3. ASSUME AbortDirectCommitted(p) PROVE Calm
  <2>1. /\ proc[p].u \in Uploads /\ Moves(p, {"dropRow", "endTask"})
        /\ direct[proc[p].u].st = "committed"
        /\ UNCHANGED <<file, lastInode>>
    BY <1>3, AbortDirectCommittedEffect DEF AbortDirectCommitted
  <2>2. \A v \in Uploads :
          \/ direct'[v] = direct[v]
          \/ direct'[v].st # "active" /\ direct'[v].ino = direct[v].ino
    BY <1>3, <2>1, EndIsCalm DEF AbortDirectCommitted
  <2>3. direct'[proc[p].u].st # "active"
    BY <2>1, <2>2
  <2>4. ~Deleting(p)' /\ (proc'[p].pc = "dropRow" => proc'[p].u = proc[p].u)
    BY <2>1 DEF Moves, Deleting, Idle
  <2> QED BY <2>1, <2>2, <2>3, <2>4 DEF Calm, Moves
<1>4. ASSUME AbortDirectFails(p) PROVE Calm
  BY <1>4, AbortDirectFailsEffect, MoveIsCalm DEF AbortDirectFails
<1>5. ASSUME DropRow(p) PROVE Calm
  BY <1>5, DropRowEffect, MoveIsCalm DEF DropRow
<1>6. ASSUME EndTask(p) PROVE Calm
  BY <1>6, EndTaskEffect, MoveIsCalm DEF EndTask
<1> QED BY <1>1, <1>2, <1>3, <1>4, <1>5, <1>6 DEF AbortStep

\* The steps of init are calm, but for those that take a reservation.
LEMMA InitIsCalm ==
  ASSUME TypeOK, NEW p \in Procs, InitStep(p)
  PROVE  Calm \/ PrepareReplacement(p) \/ PrepareCreation(p)
<1> USE DEF VictimPcs
<1>1. ASSUME LookupExisting(p) PROVE Calm
  BY <1>1, LookupExistingEffect, MoveIsCalm DEF LookupExisting
<1>2. ASSUME PrepareRefused(p) PROVE Calm
  BY <1>2, PrepareRefusedEffect, MoveIsCalm DEF PrepareRefused
<1>3. ASSUME CreateMultipart(p) PROVE Calm
  BY <1>3, CreateMultipartEffect, MoveIsCalm DEF CreateMultipart
<1>4. ASSUME CreateTask(p) PROVE Calm
  BY <1>4, CreateTaskEffect, MoveIsCalm DEF CreateTask
<1>5. ASSUME CreateRow(p) PROVE Calm
  BY <1>5, CreateRowEffect, MoveIsCalm DEF CreateRow
<1>6. ASSUME UndoTask(p) PROVE Calm
  BY <1>6, UndoTaskEffect, MoveIsCalm DEF UndoTask
<1>7. ASSUME UndoMultipart(p) PROVE Calm
  BY <1>7, UndoMultipartEffect, MoveIsCalm DEF UndoMultipart
<1>8. ASSUME UndoDirect(p) PROVE Calm
  <2>1. /\ proc[p].u \in Uploads /\ Moves(p, {})
        /\ UNCHANGED <<file, lastInode>>
    BY <1>8, UndoDirectEffect DEF UndoDirect
  <2>2. \A v \in Uploads :
          \/ direct'[v] = direct[v]
          \/ direct'[v].st # "active" /\ direct'[v].ino = direct[v].ino
    BY <1>8, <2>1, EndIsCalm DEF UndoDirect, Release
  <2>3. ~Deleting(p)' /\ proc'[p].pc # "dropRow"
    BY <2>1 DEF Moves, Deleting, Idle
  <2> QED BY <2>1, <2>2, <2>3 DEF Calm, Moves
<1> QED BY <1>1, <1>2, <1>3, <1>4, <1>5, <1>6, <1>7, <1>8 DEF InitStep

\* The steps of complete are calm, but for the commit that publishes.
LEMMA CompleteIsCalm ==
  ASSUME TypeOK, NEW p \in Procs, CompleteStep(p)
  PROVE  \/ Calm
         \/ /\ CommitDirectUpload(p)
            /\ CommitAllowed(proc[p].u) /\ PublishGeneration(proc[p].u)
<1> USE DEF VictimPcs
<1>1. ASSUME AssembleObject(p) PROVE Calm
  BY <1>1, AssembleObjectEffect, MoveIsCalm DEF AssembleObject
<1>2. ASSUME CommitDirectUpload(p), UNCHANGED <<file, direct>> PROVE Calm
  BY <1>2, CommitDirectUploadEffect, MoveIsCalm DEF CommitDirectUpload
<1>3. ASSUME ResolvePublished(p) PROVE Calm
  BY <1>3, ResolvePublishedEffect, MoveIsCalm DEF ResolvePublished
<1>4. ASSUME MarkReady(p) PROVE Calm
  BY <1>4, MarkReadyEffect, MoveIsCalm DEF MarkReady
<1>5. ASSUME FinishTask(p) PROVE Calm
  BY <1>5, FinishTaskEffect, MoveIsCalm DEF FinishTask
<1>6. ASSUME Acknowledge(p) PROVE Calm
  <2>1. /\ proc[p].u \in Uploads /\ Moves(p, {})
        /\ UNCHANGED <<file, lastInode>>
    BY <1>6, AcknowledgeEffect DEF Acknowledge
  <2>2. \A v \in Uploads :
          \/ direct'[v] = direct[v]
          \/ direct'[v].st # "active" /\ direct'[v].ino = direct[v].ino
    BY <1>6, <2>1, EndIsCalm DEF Acknowledge
  <2>3. ~Deleting(p)' /\ proc'[p].pc # "dropRow"
    BY <2>1 DEF Moves, Deleting, Idle
  <2> QED BY <2>1, <2>2, <2>3 DEF Calm, Moves
<1>7. CommitDirectUpload(p) =>
        \/ UNCHANGED <<file, direct>>
        \/ CommitAllowed(proc[p].u) /\ PublishGeneration(proc[p].u)
  BY DEF CommitDirectUpload
<1> QED BY <1>1, <1>2, <1>3, <1>4, <1>5, <1>6, <1>7 DEF CompleteStep

-----------------------------------------------------------------------------
\* A program on the mount writes under the same inode, or takes a new one while
\* no upload holds the name.
LEMMA MountKeeps ==
  ASSUME TypeOK, InodeInv, MountWrite \/ MountCreate \/ MountRemove
  PROVE  InodeInv'
<1>1. ASSUME MountWrite PROVE InodeInv'
  BY <1>1, BoundsOK
  DEF MountWrite, Absent, InodeInv, AllocationInv, CreationInv, DeletionInv,
      Creating, Deleting, TypeOK, Files
<1>2. ASSUME MountCreate PROVE InodeInv'
  <2>1. /\ file'.ino = lastInode + 1 /\ file'.gen = 1
        /\ lastInode' = lastInode + 1 /\ UNCHANGED <<direct, proc>>
        /\ \A u \in Uploads : ~Creating(u)
    BY <1>2 DEF MountCreate, NameReserved
  <2>2. /\ lastInode \in Nat /\ \A p \in Procs : proc[p].ino \in Nat
        /\ \A u \in Uploads : direct[u].ino \in Nat
    BY BoundsOK DEF TypeOK, Reservations, Processes
  <2>3. AllocationInv'
    BY <2>1, <2>2 DEF InodeInv, AllocationInv, Deleting
  <2>4. CreationInv'
    BY <2>1 DEF CreationInv, Creating
  <2>5. DeletionInv'
    BY <2>1, <2>2
    DEF InodeInv, AllocationInv, DeletionInv, Deleting, VictimPcs
  <2> QED BY <2>3, <2>4, <2>5 DEF InodeInv
<1>3. ASSUME MountRemove PROVE InodeInv'
  BY <1>3, BoundsOK
  DEF MountRemove, Absent, InodeInv, AllocationInv, CreationInv, DeletionInv,
      Creating, Deleting, VictimPcs, TypeOK
<1> QED BY <1>1, <1>2, <1>3

\* A reservation for a replacement captures an inode that is there.
LEMMA ReplacementKeeps ==
  ASSUME TypeOK, Inv, InodeInv, NEW p \in Procs, PrepareReplacement(p)
  PROVE  InodeInv'
<1> DEFINE u == proc[p].u
<1>1. /\ proc[p].pc = "prepare" /\ u \in Uploads
      /\ Moves(p, {"multipart", "undoDirect"})
  BY PrepareReplacementEffect
<1>2. /\ direct'[u] = [st |-> "active", ino |-> file.ino, exp |-> file.gen]
      /\ OnlyAt(direct, u) /\ UNCHANGED <<file, lastInode>> /\ file # Absent
  BY <1>1 DEF PrepareReplacement, Reserve, OnlyAt, TypeOK
<1>3. \A q \in Procs : proc'[q].pc \in VictimPcs \cup {"dropRow"} =>
        proc'[q] = proc[q] /\ q # p
  BY <1>1 DEF Moves, VictimPcs, Idle
<1>4. \A q \in Procs : proc'[q].pc = "dropRow" => proc'[q].u # u
  BY <1>1, <1>3 DEF Inv, OwnershipInv, InitPcs
<1>5. file.ino > 0 /\ file.gen > 0 /\ file.ino <= lastInode
  BY <1>2 DEF InodeInv, AllocationInv
<1> HIDE DEF u
<1>6. AllocationInv'
  BY <1>2, <1>3, <1>5
  DEF InodeInv, AllocationInv, OnlyAt, Deleting
<1>7. \A v \in Uploads : Creating(v)' => v # u /\ Creating(v)
  BY <1>2, <1>5 DEF Creating, OnlyAt, TypeOK, Files
<1>8. CreationInv'
  BY <1>2, <1>3, <1>7 DEF InodeInv, CreationInv, OnlyAt, Deleting
<1>9. DeletionInv'
  <2> SUFFICES ASSUME NEW q \in Procs
               PROVE  /\ proc'[q].pc = "dropRows" => file'.ino # proc'[q].ino
                      /\ proc'[q].pc = "dropRow" =>
                           direct'[proc'[q].u].st # "active"
    BY DEF DeletionInv
  <2>1. ASSUME proc'[q].pc = "dropRows" PROVE file'.ino # proc'[q].ino
    BY <1>2, <1>3, <2>1 DEF InodeInv, DeletionInv, VictimPcs
  <2>2. ASSUME proc'[q].pc = "dropRow" PROVE direct'[proc'[q].u].st # "active"
    <3>1. proc'[q] = proc[q] /\ proc[q].u \in Uploads \ {u}
      BY <1>3, <1>4, <2>2 DEF TypeOK, Processes, BusyPcs, AbortPcs
    <3> QED BY <1>2, <2>2, <3>1 DEF InodeInv, DeletionInv, OnlyAt
  <2> QED BY <2>1, <2>2
<1> QED BY <1>6, <1>8, <1>9 DEF InodeInv

\* A reservation for a creation takes a number nobody has.
LEMMA CreationKeeps ==
  ASSUME TypeOK, Inv, InodeInv, NEW p \in Procs, PrepareCreation(p)
  PROVE  InodeInv'
<1> DEFINE u == proc[p].u
<1>1. /\ proc[p].pc = "prepare" /\ u \in Uploads
      /\ Moves(p, {"multipart", "undoDirect"})
  BY PrepareCreationEffect
<1>2. /\ direct'[u] = [st |-> "active", ino |-> lastInode + 1, exp |-> 0]
      /\ OnlyAt(direct, u) /\ UNCHANGED file /\ lastInode' = lastInode + 1
      /\ \A v \in Uploads : ~Creating(v)
  BY <1>1 DEF PrepareCreation, Reserve, OnlyAt, TypeOK, NameReserved
<1>3. \A q \in Procs : proc'[q].pc \in VictimPcs \cup {"dropRow"} =>
        proc'[q] = proc[q] /\ q # p
  BY <1>1 DEF Moves, VictimPcs, Idle
<1>4. \A q \in Procs : proc'[q].pc = "dropRow" => proc'[q].u # u
  BY <1>1, <1>3 DEF Inv, OwnershipInv, InitPcs
<1>5. /\ lastInode \in Nat /\ file.ino \in Nat
      /\ \A v \in Uploads : direct[v].ino \in Nat
      /\ \A q \in Procs : proc[q].ino \in Nat
  BY BoundsOK DEF TypeOK, Files, Reservations, Processes
<1> HIDE DEF u
<1>6. AllocationInv'
  BY <1>1, <1>2, <1>3, <1>5
  DEF InodeInv, AllocationInv, OnlyAt, Deleting
<1>7. \A v \in Uploads : Creating(v)' => v = u
  BY <1>2 DEF Creating, OnlyAt
<1>8. CreationInv'
  BY <1>1, <1>2, <1>3, <1>5, <1>7
  DEF InodeInv, AllocationInv, CreationInv, OnlyAt, Deleting
<1>9. DeletionInv'
  <2> SUFFICES ASSUME NEW q \in Procs
               PROVE  /\ proc'[q].pc = "dropRows" => file'.ino # proc'[q].ino
                      /\ proc'[q].pc = "dropRow" =>
                           direct'[proc'[q].u].st # "active"
    BY DEF DeletionInv
  <2>1. ASSUME proc'[q].pc = "dropRows" PROVE file'.ino # proc'[q].ino
    BY <1>2, <1>3, <2>1 DEF InodeInv, DeletionInv, VictimPcs
  <2>2. ASSUME proc'[q].pc = "dropRow" PROVE direct'[proc'[q].u].st # "active"
    <3>1. proc'[q] = proc[q] /\ proc[q].u \in Uploads \ {u}
      BY <1>3, <1>4, <2>2 DEF TypeOK, Processes, BusyPcs, AbortPcs
    <3> QED BY <1>2, <2>2, <3>1 DEF InodeInv, DeletionInv, OnlyAt
  <2> QED BY <2>1, <2>2
<1> QED BY <1>6, <1>8, <1>9 DEF InodeInv

\* The commit keeps the inode, or is the creation that held its number alone.
LEMMA CommitKeeps ==
  ASSUME TypeOK, InodeInv, NEW p \in Procs, CommitDirectUpload(p),
         CommitAllowed(proc[p].u), PublishGeneration(proc[p].u)
  PROVE  InodeInv'
<1> DEFINE u == proc[p].u
<1>1. u \in Uploads /\ Moves(p, {"project"}) /\ UNCHANGED lastInode
  BY CommitDirectUploadEffect DEF CommitDirectUpload
<1>2. /\ direct'[u].st = "committed" /\ direct'[u].ino = direct[u].ino
      /\ \A v \in Uploads \ {u} : direct'[v] = direct[v]
  BY <1>1, StateEffect DEF PublishGeneration, TypeOK
<1>3. /\ direct[u].st = "active"
      /\ file' = [ino |-> direct[u].ino, gen |-> direct[u].exp + 1, src |-> u]
      /\ Creating(u) \/ file.ino = direct[u].ino
  BY DEF CommitAllowed, PublishGeneration, Creating
<1>4. \A q \in Procs : proc'[q].pc \in VictimPcs \cup {"dropRow"} =>
        proc'[q] = proc[q]
  BY <1>1 DEF Moves, VictimPcs, Idle
<1>5. direct[u].exp \in Nat
  BY <1>1, BoundsOK DEF TypeOK, Reservations
<1> HIDE DEF u
<1>6. AllocationInv'
  BY <1>1, <1>2, <1>3, <1>4, <1>5 DEF InodeInv, AllocationInv, Deleting
<1>7. \A v \in Uploads : Creating(v)' => v # u /\ Creating(v)
  BY <1>1, <1>2 DEF Creating
<1>8. CreationInv'
  BY <1>1, <1>2, <1>3, <1>4, <1>7 DEF InodeInv, CreationInv, Deleting
<1>9. DeletionInv'
  <2> SUFFICES ASSUME NEW q \in Procs
               PROVE  /\ proc'[q].pc = "dropRows" => file'.ino # proc'[q].ino
                      /\ proc'[q].pc = "dropRow" =>
                           direct'[proc'[q].u].st # "active"
    BY DEF DeletionInv
  <2>1. ASSUME proc'[q].pc = "dropRows" PROVE file'.ino # proc'[q].ino
    BY <1>1, <1>3, <1>4, <2>1
    DEF InodeInv, CreationInv, DeletionInv, Deleting, VictimPcs
  <2>2. ASSUME proc'[q].pc = "dropRow" PROVE direct'[proc'[q].u].st # "active"
    <3>1. proc'[q] = proc[q] /\ proc[q].u \in Uploads
      BY <1>4, <2>2 DEF TypeOK, Processes, BusyPcs, AbortPcs
    <3> QED BY <1>2, <2>2, <3>1 DEF InodeInv, DeletionInv
  <2> QED BY <2>1, <2>2
<1> QED BY <1>6, <1>8, <1>9 DEF InodeInv

\* A deletion unlinks the file, and remembers an inode that no creation holds.
LEMMA DeleteKeepsInodes ==
  ASSUME TypeOK, InodeInv, NEW p \in Procs, DeleteStep(p) \/ Abandon(p)
  PROVE  InodeInv'
<1>1. ASSUME Unlink(p) PROVE InodeInv'
  <2>1. /\ proc[p].pc = "unlink" /\ UNCHANGED <<lastInode, direct>>
        /\ \A q \in Procs \ {p} : proc'[q] = proc[q]
        /\ file' = file \/ file' = Absent
        /\ \/ proc'[p] = Idle
           \/ /\ proc'[p].pc = "dropRows" /\ proc'[p].ino = proc[p].ino
              /\ file' = Absent
    BY <1>1, BoundsOK, GotoEffect, DoneEffect
    DEF Unlink, At, TypeOK, Pcs, DeletePcs, BusyPcs, InitPcs, CompletePcs, AbortPcs
  <2>2. \A q \in Procs :
          Deleting(q)' => Deleting(q) /\ proc'[q].ino = proc[q].ino
    BY <2>1 DEF Deleting, VictimPcs, Idle
  <2>3. AllocationInv'
    BY <2>1, <2>2, BoundsOK
    DEF InodeInv, AllocationInv, Absent, Deleting, TypeOK
  <2>4. CreationInv'
    BY <2>1, <2>2
    DEF InodeInv, AllocationInv, CreationInv, Creating, Absent, Deleting
  <2>5. DeletionInv'
    BY <2>1, <2>2
    DEF InodeInv, AllocationInv, DeletionInv, Absent, Deleting, VictimPcs, Idle
  <2> QED BY <2>3, <2>4, <2>5 DEF InodeInv
<1>2. ASSUME DeleteInodeProjection(p) \/ DropPathRows(p) \/ Abandon(p)
      PROVE  InodeInv'
  <2>1. Moves(p, {}) /\ UNCHANGED <<file, lastInode, direct>>
    BY <1>2, BoundsOK, DoneEffect
    DEF DeleteInodeProjection, DropPathRows, Abandon, Moves, TypeOK
  <2> QED BY <2>1, MoveIsCalm, CalmKeeps
<1>3. ASSUME LookupVictim(p), file = Absent PROVE InodeInv'
  <2>1. Moves(p, {"dropPath"}) /\ UNCHANGED <<file, lastInode, direct>>
    BY <1>3, GotoEffect
    DEF LookupVictim, Moves, TypeOK, Pcs, DeletePcs, BusyPcs, InitPcs,
        CompletePcs, AbortPcs
  <2>2. {"dropPath"} \cap (VictimPcs \cup {"dropRow"}) = {}
    BY DEF VictimPcs
  <2> QED BY <2>1, <2>2, MoveIsCalm, CalmKeeps
<1>4. ASSUME LookupVictim(p), file # Absent PROVE InodeInv'
  <2>1. /\ proc'[p].pc = "unlink" /\ proc'[p].ino = file.ino
        /\ \A q \in Procs \ {p} : proc'[q] = proc[q]
        /\ UNCHANGED <<file, lastInode, direct>>
    BY <1>4 DEF LookupVictim, TypeOK, Processes
  <2>2. AllocationInv'
    BY <1>4, <2>1 DEF InodeInv, AllocationInv, Deleting
  <2>3. CreationInv'
    BY <2>1 DEF InodeInv, CreationInv, Creating, Deleting
  <2>4. DeletionInv'
    BY <2>1 DEF InodeInv, DeletionInv
  <2> QED BY <2>2, <2>3, <2>4 DEF InodeInv
<1> QED BY <1>1, <1>2, <1>3, <1>4 DEF DeleteStep

\* A request or a loop that starts finds the inodes as they are.
LEMMA StartKeepsInodes ==
  ASSUME TypeOK, InodeInv, NEW p \in Procs
  PROVE  /\ p \in Requests /\ StartRequest(p) => InodeInv'
         /\ \A u \in Uploads, by \in Aborters : StartAbort(p, u, by) => InodeInv'
<1> DEFINE Enters == /\ \A q \in Procs \ {p} : proc'[q] = proc[q]
                     /\ proc'[p].pc \notin VictimPcs \cup {"dropRow"}
                     /\ UNCHANGED <<file, lastInode, direct>>
<1>1. Enters => InodeInv'
  BY CalmKeeps DEF Calm, Deleting
<1>2. ASSUME NEW u \in Uploads, NEW by \in Aborters, StartAbort(p, u, by)
      PROVE  Enters
  BY <1>2 DEF StartAbort, TypeOK, VictimPcs
<1>3. ASSUME NEW u \in Uploads, StartComplete(p, u) PROVE Enters
  BY <1>3 DEF StartComplete, TypeOK, VictimPcs
<1>4. ASSUME NEW u \in Uploads, NEW s, NEW g, StartInit(p, u, s, g)
      PROVE  Enters
  BY <1>4 DEF StartInit, TypeOK, VictimPcs
<1>5. ASSUME StartDelete(p) PROVE Enters
  BY <1>5 DEF StartDelete, TypeOK, VictimPcs, Processes
<1> HIDE DEF Enters
<1>6. p \in Requests /\ StartRequest(p) => InodeInv'
  BY <1>1, <1>2, <1>3, <1>4, <1>5 DEF StartRequest
<1> QED BY <1>1, <1>2, <1>6

\* Expiry, the browser's PUTs and time are calm.
LEMMA EnvironmentKeepsInodes ==
  ASSUME TypeOK, InodeInv, Environment PROVE InodeInv'
<1>1. ASSUME NEW u \in Uploads, ReservationExpires(u) PROVE InodeInv'
  <2>1. \A v \in Uploads :
          \/ direct'[v] = direct[v]
          \/ direct'[v].st # "active" /\ direct'[v].ino = direct[v].ino
    BY <1>1, EndIsCalm DEF ReservationExpires, Release
  <2> QED BY <1>1, <2>1, CalmKeeps DEF ReservationExpires, Calm
<1>2. ASSUME NEW u \in Uploads, PutParts(u) \/ TimePasses(u) \/ Heartbeat(u)
      PROVE  InodeInv'
  BY <1>2, CalmKeeps DEF PutParts, TimePasses, Heartbeat, Calm
<1> QED BY <1>1, <1>2, MountKeeps DEF Environment

\* The inode numbers are what the argument needs, in every reachable state.
THEOREM InodesInvariant == Spec => []InodeInv
<1>1. Init => InodeInv
  BY DEF Init, InodeInv, AllocationInv, CreationInv, DeletionInv, Creating,
         Deleting, VictimPcs, Absent, NoReservation, Idle
<1>2. TypeOK /\ Inv /\ InodeInv /\ [Next]_vars => InodeInv'
  <2> SUFFICES ASSUME TypeOK, Inv, InodeInv, [Next]_vars PROVE InodeInv'
    OBVIOUS
  <2>1. ASSUME NEW p \in Procs, InitStep(p) PROVE InodeInv'
    BY <2>1, InitIsCalm, CalmKeeps, ReplacementKeeps, CreationKeeps
  <2>2. ASSUME NEW p \in Procs, CompleteStep(p) PROVE InodeInv'
    BY <2>2, CompleteIsCalm, CalmKeeps, CommitKeeps
  <2>3. ASSUME NEW p \in Procs, AbortStep(p) PROVE InodeInv'
    BY <2>3, AbortIsCalm, CalmKeeps
  <2>4. ASSUME NEW p \in Cleaners, NEW u \in Uploads, StartAbort(p, u, p)
        PROVE  InodeInv'
    BY <2>4, StartKeepsInodes, CleanersKnown DEF Procs, Aborters
  <2>5. ASSUME NEW p \in Requests, StartRequest(p) PROVE InodeInv'
    BY <2>5, StartKeepsInodes DEF Procs
  <2>6. CASE UNCHANGED vars
    BY <2>6, CalmKeeps DEF vars, Calm
  <2> QED
    BY <2>1, <2>2, <2>3, <2>4, <2>5, <2>6, DeleteKeepsInodes,
       EnvironmentKeepsInodes DEF Next
<1> QED BY <1>1, <1>2, TypeCorrect, Invariance, PTL DEF Spec

-----------------------------------------------------------------------------
\* The row of an upload that still waits changes only as RowOutlivesReservation
\* allows.
RowKept ==
  \A u \in Uploads :
    direct[u].st = "active" /\ row[u] = "uploading" /\ row'[u] # row[u] =>
      \/ direct[u].exp > 0 /\ file.ino # direct[u].ino
      \/ \E p \in Procs : DropPathRows(p)

\* Only the creation of a row, its publication and its deletions touch it.
LEMMA RowSteps ==
  ASSUME TypeOK, Inv, NEW p \in Procs, InitStep(p) \/ CompleteStep(p)
  PROVE  RowKept
<1>1. ASSUME CreateRow(p) PROVE RowKept
  <2>1. proc[p].pc = "row" /\ OnlyAt(row, proc[p].u)
    BY <1>1, CreateRowEffect
  <2>2. row[proc[p].u] = "none"
    BY <2>1 DEF Inv, OwnershipInv, InitPcs
  <2> QED BY <2>1, <2>2 DEF RowKept, OnlyAt
<1>2. ASSUME MarkReady(p) PROVE RowKept
  <2>1. proc[p].pc = "ready" /\ OnlyAt(row, proc[p].u)
    BY <1>2, MarkReadyEffect
  <2>2. direct[proc[p].u].st # "active"
    BY <2>1 DEF Inv, CompletionInv, Published
  <2> QED BY <2>1, <2>2 DEF RowKept, OnlyAt
<1>3. ASSUME UNCHANGED row PROVE RowKept
  BY <1>3 DEF RowKept
<1> QED
  BY <1>1, <1>2, <1>3, LookupExistingEffect, PrepareReplacementEffect,
     PrepareCreationEffect, PrepareRefusedEffect, CreateMultipartEffect,
     CreateTaskEffect, UndoTaskEffect, UndoMultipartEffect, UndoDirectEffect,
     AssembleObjectEffect, CommitDirectUploadEffect, ResolvePublishedEffect,
     FinishTaskEffect, AcknowledgeEffect DEF InitStep, CompleteStep

\* The row a cleaner finds an upload by disappears only after the reservation
\* has been aborted, except with the file whose contents it was to replace, and
\* in a deletion that finds its file gone and takes every row of the pathname
\* (RowOutlivesReservation).
THEOREM RowAlwaysOutlives == Spec => RowOutlivesReservation
<1>1. TypeOK /\ Inv /\ InodeInv /\ [Next]_vars => [RowKept]_vars
  <2> SUFFICES ASSUME TypeOK, Inv, InodeInv, Next PROVE RowKept
    OBVIOUS
  <2>1. ASSUME NEW p \in Procs, DropRow(p) PROVE RowKept
    <3>1. proc[p].pc = "dropRow" /\ OnlyAt(row, proc[p].u)
      BY <2>1, DropRowEffect
    <3>2. direct[proc[p].u].st # "active"
      BY <3>1 DEF InodeInv, DeletionInv
    <3> QED BY <3>1, <3>2 DEF RowKept, OnlyAt
  <2>2. ASSUME NEW p \in Procs, DeleteInodeProjection(p) PROVE RowKept
    <3> SUFFICES ASSUME NEW u \in Uploads, direct[u].st = "active",
                        row'[u] # row[u]
                 PROVE  direct[u].exp > 0 /\ file.ino # direct[u].ino
      BY DEF RowKept
    <3>1. proc[p].pc = "dropRows" /\ direct[u].ino = proc[p].ino
      BY <2>2 DEF DeleteInodeProjection, At
    <3>2. file.ino # direct[u].ino
      BY <3>1 DEF InodeInv, DeletionInv
    <3>3. direct[u].exp # 0
      BY <3>1 DEF InodeInv, CreationInv, Creating, Deleting, VictimPcs
    <3>4. direct[u].exp \in Nat
      BY BoundsOK DEF TypeOK, Reservations
    <3> QED BY <3>2, <3>3, <3>4
  <2>3. ASSUME UNCHANGED row PROVE RowKept
    BY <2>3 DEF RowKept
  <2>4. ASSUME NEW p \in Procs, AbortStep(p) PROVE RowKept
    BY <2>1, <2>3, <2>4, AbortMultipartCallEffect, AbortDirectOpenEffect,
       AbortDirectCommittedEffect, AbortDirectFailsEffect, EndTaskEffect
    DEF AbortStep
  <2>5. ASSUME NEW p \in Procs, DeleteStep(p) \/ Abandon(p) PROVE RowKept
    BY <2>2, <2>3, <2>5 DEF DeleteStep, LookupVictim, Unlink, Abandon, RowKept
  <2>6. ASSUME NEW p \in Requests, StartRequest(p) PROVE UNCHANGED row
    BY <2>6 DEF StartRequest, StartDelete, StartInit, StartComplete, StartAbort
  <2>7. ASSUME NEW p \in Cleaners, NEW u \in Uploads, StartAbort(p, u, p)
        PROVE  UNCHANGED row
    BY <2>7 DEF StartAbort
  <2>8. ASSUME Environment PROVE UNCHANGED row
    BY <2>8
    DEF Environment, MountWrite, MountCreate, MountRemove, ReservationExpires,
        PutParts, TimePasses, Heartbeat
  <2> QED
    BY <2>3, <2>4, <2>5, <2>6, <2>7, <2>8, RowSteps DEF Next
<1> QED
  BY <1>1, TypeCorrect, Invariance, InodesInvariant, PTL
  DEF Spec, RowOutlivesReservation, RowKept
=============================================================================
