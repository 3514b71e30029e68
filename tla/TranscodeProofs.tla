---------------------------- MODULE TranscodeProofs ----------------------------
(***************************************************************************)
(* Theorems about Transcode, for any number of requests, segments, tasks   *)
(* and stops.  That every variable keeps its type holds for any number of  *)
(* users and workers as well.                                              *)
(*                                                                         *)
(* What a rendition row will come to is somebody's debt: of a request that *)
(* is about to create its task or to undo what it did, of a task that a    *)
(* worker will claim, or of the worker at it.  The argument is that a debt *)
(* is never dropped, only handed on, unless the row is deleted at that     *)
(* moment (Accounted); it is one of one worker and one user.               *)
(***************************************************************************)
EXTENDS Transcode, TLAPS

-----------------------------------------------------------------------------
(* Types.                                                                  *)

LEMMA SomeUserIsOne == SomeUser \in Users
  BY TranscodeAssumption DEF SomeUser

LEMMA Constants ==
  /\ NoRow \in Renditions /\ Unborn \in TaskRows /\ Idle \in Records
  /\ Free \in Processes /\ Off \in Processes
  <1>1. 0 \in 0..Segments /\ Segments \in Nat
    BY TranscodeAssumption
  <1>2. <<>> \in Seq(Workers \X (1..Segments))
    OBVIOUS
  <1>3. Free \in Processes
    BY <1>1, SomeUserIsOne DEF Free, Processes
  <1>4. Off \in Processes
    BY <1>3 DEF Off, Free, Processes
  <1> QED BY <1>2, <1>3, <1>4, SomeUserIsOne
       DEF NoRow, Renditions, Unborn, TaskRows, Idle, Records

\* A row that is replaced, changed or emptied is a row.
LEMMA RowTypes ==
  ASSUME NEW row \in Renditions
  PROVE  /\ \A s \in Live \cup {"none", "ready", "failed"} :
              Emptied(row, s) \in Renditions /\ [row EXCEPT !.status = s] \in Renditions
         /\ \A t \in Tasks \cup {NoTask} : [row EXCEPT !.task = t] \in Renditions
         /\ \A w \in Workers : [row EXCEPT !.init = w] \in Renditions
         /\ \A b \in BOOLEAN : [row EXCEPT !.current = b] \in Renditions
  <1>1. <<>> \in Seq(Workers \X (1..Segments))
    OBVIOUS
  <1>2. \A s \in Live \cup {"none", "ready", "failed"} : Emptied(row, s) \in Renditions
    BY <1>1 DEF Emptied, Renditions
  <1> QED BY <1>2 DEF Renditions

LEMMA SetRowType ==
  ASSUME rend \in [Users -> Renditions], NEW u \in Users, NEW row \in Renditions,
         SetRow(u, row) \/ UpdateRow(u, row)
  PROVE  rend' \in [Users -> Renditions]
  BY DEF SetRow, UpdateRow

LEMMA CreateType ==
  ASSUME rend \in [Users -> Renditions], NEW u \in Users, NEW b \in BOOLEAN, CreateRendition(u, b)
  PROVE  rend' \in [Users -> Renditions]
  <1>1. [NoRow EXCEPT !.status = "queued", !.current = b] \in Renditions
    BY Constants DEF Renditions, Live
  <1> QED BY <1>1, SetRowType DEF CreateRendition

LEMMA DeleteType ==
  ASSUME rend \in [Users -> Renditions], NEW u \in Users, DeleteRendition(u)
  PROVE  rend' \in [Users -> Renditions]
  BY Constants DEF DeleteRendition, SetRow

LEMMA RemovalType ==
  ASSUME rend \in [Users -> Renditions], NEW u \in Users, RemovalFails(u)
  PROVE  rend' \in [Users -> Renditions]
  <1>1. rend[u] \in Renditions /\ rend[u].status \in Live \cup {"none", "ready", "failed"}
    BY DEF Renditions
  <1>2. Emptied(rend[u], rend[u].status) \in Renditions
    BY <1>1, RowTypes
  <1> QED BY <1>2 DEF RemovalFails

LEMMA TryDeleteType ==
  ASSUME rend \in [Users -> Renditions], cut \in BOOLEAN, NEW u \in Users, TryDelete(u)
  PROVE  rend' \in [Users -> Renditions] /\ cut' \in BOOLEAN
  BY DeleteType, RemovalType DEF TryDelete

LEMMA StatusType ==
  ASSUME task \in [Tasks -> TaskRows], NEW t,
         NEW s \in Live \cup Terminal \cup {"deleted"}, TryStatus(t, s) \/ UpdateStatus(t, s)
  PROVE  task' \in [Tasks -> TaskRows]
  BY DEF TryStatus, UpdateStatus, TaskRows

LEMMA BeginType ==
  ASSUME req \in [Requests -> Records], NEW r \in Requests, NEW u \in Users,
         NEW t \in Tasks \cup {NoTask}, NEW at \in {"reserve", "drop", "flag"}, Begin(r, at, u, t)
  PROVE  req' \in [Requests -> Records]
  BY DEF Begin, Records

LEMMA GoType ==
  ASSUME req \in [Requests -> Records], NEW r \in Requests,
         NEW at \in {"undo", "undoTask", "cancelled", "cancelling"},
         Go(r, at) \/ Answer(r)
  PROVE  req' \in [Requests -> Records]
  BY Constants DEF Go, Answer, Records

LEMMA ThenType ==
  ASSUME worker \in [Workers -> Processes], NEW w \in Workers,
         NEW at \in {"discard", "create", "tick", "publish", "failTask", "failRow", "settle", "remove",
                     "ready", "completed", "cancelled"},
         Then(w, at) \/ GiveUp(w, at) \/ Release(w)
  PROVE  worker' \in [Workers -> Processes]
  <1>1. CASE GiveUp(w, at)
    BY <1>1, Constants DEF GiveUp, Free, Processes
  <1> QED BY <1>1, Constants DEF Then, Release, Processes

LEMMA TypeInit == Init => TypeOK
  <1>1. 0 \in 0..MaxStops
    BY TranscodeAssumption
  <1> QED BY <1>1, Constants DEF Init, TypeOK

LEMMA TypeStop ==
  ASSUME TypeOK, NEW b \in BOOLEAN, Stop(b)
  PROVE  stops' \in 0..MaxStops /\ cut' \in BOOLEAN
  BY TranscodeAssumption DEF Stop, TypeOK

LEMMA TypeRequestStep ==
  ASSUME TypeOK, NEW r \in Requests, RequestStep(r)
  PROVE  TypeOK'
  <1> USE DEF TypeOK
  <1>1. req[r] \in Records /\ req[r].user \in Users /\ req[r].current \in BOOLEAN
    BY DEF Records
  <1>2. CASE Reserve(r)
    <2>1. rend' \in [Users -> Renditions] /\ cut' \in BOOLEAN
      BY <1>1, <1>2, CreateType DEF Reserve
    <2>2. req' \in [Requests -> Records]
      BY <1>2, GoType DEF Reserve, Records
    <2> QED BY <1>2, <2>1, <2>2 DEF Reserve
  <1>3. CASE CreateQueued(r)
    <2>1. ASSUME NEW t \in Tasks, task' = [task EXCEPT ![t] = [status |-> "queued", user |-> req[r].user]]
          PROVE  task' \in [Tasks -> TaskRows]
      BY <1>1, <2>1 DEF TaskRows, Live
    <2>2. ASSUME NEW t \in Tasks, req' = [req EXCEPT ![r].at = "link", ![r].task = t]
          PROVE  req' \in [Requests -> Records]
      BY <1>1, <2>2 DEF Records
    <2> QED BY <1>3, <2>1, <2>2, GoType DEF CreateQueued
  <1>4. CASE LinkTask(r)
    <2>1. ASSUME SetRenditionTask(req[r].user, req[r].task)
          PROVE  rend' \in [Users -> Renditions]
      <3>1. rend[req[r].user] \in Renditions /\ req[r].task \in Tasks \cup {NoTask}
        BY <1>1 DEF Records
      <3>2. [rend[req[r].user] EXCEPT !.task = req[r].task] \in Renditions
        BY <3>1, RowTypes
      <3> QED BY <1>1, <2>1, <3>2, SetRowType DEF SetRenditionTask
    <2> QED BY <1>4, <2>1, GoType DEF LinkTask
  <1>5. CASE UndoRendition(r)
    BY <1>1, <1>5, TryDeleteType, GoType DEF UndoRendition
  <1>6. CASE UndoTask(r)
    BY <1>6, StatusType, GoType DEF UndoTask
  <1>7. CASE CancelQueued(r)
    BY <1>1, <1>7, TryDeleteType, GoType DEF CancelQueued
  <1>8. CASE CancelRunning(r)
    <2>1. rend' \in [Users -> Renditions]
      <3>1. rend[req[r].user] \in Renditions
        BY <1>1
      <3>2. [rend[req[r].user] EXCEPT !.status = "cancelling"] \in Renditions
        BY <3>1, RowTypes DEF Live
      <3> QED BY <1>1, <1>8, <3>1, <3>2, SetRowType DEF CancelRunning, SetRenditionCancelling
    <2> QED BY <1>8, <2>1, GoType DEF CancelRunning
  <1>9. CASE CancelStatus(r)
    <2>1. req[r].at \in Live \cup Terminal \cup {"deleted"}
      BY <1>9 DEF CancelStatus, Live, Terminal
    <2> QED BY <1>9, <2>1, StatusType, GoType DEF CancelStatus
  <1>10. CASE CleanupRenditions(r)
    BY <1>1, <1>10, TryDeleteType, GoType DEF CleanupRenditions
  <1> QED BY <1>2, <1>3, <1>4, <1>5, <1>6, <1>7, <1>8, <1>9, <1>10 DEF RequestStep

LEMMA TypeGeneration ==
  ASSUME TypeOK, NEW u \in Users, NewGeneration(u)
  PROVE  /\ rend' \in [Users -> Renditions] /\ worker' \in [Workers -> Processes]
         /\ Outdate(u) \in [Requests -> Records]
  <1>1. rend' \in [Users -> Renditions]
    BY ZenonT(40) DEF NewGeneration, TypeOK, Renditions
  <1>2. worker' \in [Workers -> Processes]
    <2>1. \A w \in Workers : [worker[w] EXCEPT !.current = FALSE] \in Processes
      BY ZenonT(40) DEF TypeOK, Processes
    <2> QED BY <2>1 DEF NewGeneration, TypeOK
  <1>3. Outdate(u) \in [Requests -> Records]
    BY DEF Outdate, TypeOK, Records
  <1> QED BY <1>1, <1>2, <1>3

LEMMA TypeOthers ==
  ASSUME TypeOK,
         \/ \E r \in Requests, u \in Users :
               RequestTranscode(r, u) \/ ReplaceSource(r, u) \/ DeleteSource(r, u)
         \/ \E r \in Requests, t \in Tasks : CancelTask(r, t)
         \/ \E u \in Users : ClearDone(u) \/ MountWrite(u)
         \/ ServerStops
  PROVE  TypeOK'
  <1>1. ASSUME NEW r \in Requests, NEW u \in Users, RequestTranscode(r, u)
        PROVE  TypeOK'
    BY <1>1, BeginType DEF RequestTranscode, TypeOK
  <1>2. ASSUME NEW r \in Requests, NEW u \in Users, NewGeneration(u)
        PROVE  [Outdate(u) EXCEPT ![r] = [Idle EXCEPT !.at = "cleanup", !.user = u]]
                  \in [Requests -> Records]
    <2>1. [Idle EXCEPT !.at = "cleanup", !.user = u] \in Records
      BY Constants DEF Records
    <2> QED BY <1>2, <2>1, TypeGeneration
  <1>3. ASSUME NEW r \in Requests, NEW u \in Users, ReplaceSource(r, u) \/ DeleteSource(r, u)
        PROVE  TypeOK'
    <2>1. NewGeneration(u)
      BY <1>3 DEF ReplaceSource, DeleteSource
    <2>2. req' = [Outdate(u) EXCEPT ![r] = [Idle EXCEPT !.at = "cleanup", !.user = u]]
      BY <1>3 DEF ReplaceSource, DeleteSource
    <2>3. source' \subseteq Users
      BY <1>3 DEF ReplaceSource, DeleteSource, TypeOK
    <2> QED BY <1>2, <1>3, <2>1, <2>2, <2>3, TypeGeneration DEF ReplaceSource, DeleteSource, TypeOK
  <1>4. ASSUME NEW r \in Requests, NEW t \in Tasks, CancelTask(r, t)
        PROVE  TypeOK'
    <2>1. task[t].user \in Users
      BY DEF TypeOK, TaskRows
    <2> QED BY <1>4, <2>1, BeginType DEF CancelTask, TypeOK
  <1>5. ASSUME NEW u \in Users, ClearDone(u)
        PROVE  TypeOK'
    <2>1. task' \in [Tasks -> TaskRows]
      BY <1>5 DEF ClearDone, TypeOK, TaskRows
    <2> QED BY <1>5, <2>1 DEF ClearDone, TypeOK
  <1>6. ASSUME NEW u \in Users, MountWrite(u)
        PROVE  TypeOK'
    BY <1>6, TypeGeneration DEF MountWrite, TypeOK
  <1>7. CASE ServerStops
    <2>1. stops' \in 0..MaxStops /\ cut' \in BOOLEAN
      BY <1>7, TypeStop DEF ServerStops
    <2> QED BY <1>7, <2>1, Constants DEF ServerStops, TypeOK
  <1> QED BY <1>1, <1>3, <1>4, <1>5, <1>6, <1>7

LEMMA TypeJobStarts ==
  ASSUME TypeOK, NEW w \in Workers,
         \/ RequeueStale(w) \/ ResetStale(w) \/ \E u \in Users : ClaimNextTranscode(w, u)
         \/ CheckSource(w) \/ DiscardPrevious(w) \/ RecreateRendition(w) \/ StartTranscode(w)
  PROVE  TypeOK'
  <1> USE DEF TypeOK
  <1>1. worker[w] \in Processes /\ worker[w].user \in Users /\ worker[w].current \in BOOLEAN
    BY DEF Processes
  <1>2. CASE RequeueStale(w)
    <2> DEFINE stale == {t \in Tasks : task[t].status \in {"running", "cancelling"}}
    <2>1. task' \in [Tasks -> TaskRows]
      BY <1>2 DEF RequeueStale, TaskRows, Live
    <2>2. [Free EXCEPT !.at = "resetStale", !.stale = stale] \in Processes
      BY Constants DEF Processes
    <2>3. worker' \in [Workers -> Processes]
      BY <1>2, <2>2, ThenType DEF RequeueStale
    <2>4. cut' \in BOOLEAN
      BY <1>2 DEF RequeueStale, Overwriting
    <2> QED BY <1>2, <2>1, <2>3, <2>4 DEF RequeueStale
  <1>3. CASE ResetStale(w)
    <2>1. \A u \in Users : /\ Emptied(rend[u], "queued") \in Renditions
                            /\ Emptied(rend[u], rend[u].status) \in Renditions
      <3>1. \A u \in Users : rend[u] \in Renditions /\ rend[u].status \in Live \cup {"none", "ready", "failed"}
        BY DEF Renditions
      <3> QED BY <3>1, RowTypes DEF Live
    <2>2. rend' \in [Users -> Renditions]
      BY <1>3, <2>1 DEF ResetStale, ResetRenditionsForTasks
    <2> QED BY <1>3, <2>2, ThenType DEF ResetStale
  <1>4. ASSUME NEW u \in Users, ClaimNextTranscode(w, u)
        PROVE  TypeOK'
    <2>1. PICK t \in Tasks :
             /\ UpdateStatus(t, "running")
             /\ \/ worker' = [worker EXCEPT ![w] = [Free EXCEPT !.at = "check", !.user = u, !.task = t]]
                \/ worker' = worker
      BY <1>4 DEF ClaimNextTranscode
    <2>2. [Free EXCEPT !.at = "check", !.user = u, !.task = t] \in Processes
      BY Constants DEF Processes
    <2>3. task' \in [Tasks -> TaskRows]
      BY <2>1, StatusType DEF Live
    <2>4. cut' \in BOOLEAN
      BY <1>4 DEF ClaimNextTranscode
    <2> QED BY <1>4, <2>1, <2>2, <2>3, <2>4 DEF ClaimNextTranscode
  <1>5. CASE CheckSource(w)
    <2>1. [worker[w] EXCEPT !.at = "discard", !.current = TRUE] \in Processes
      BY <1>1 DEF Processes
    <2> QED BY <1>5, <2>1, ThenType DEF CheckSource
  <1>6. CASE DiscardPrevious(w)
    BY <1>1, <1>6, DeleteType, RemovalType, ThenType DEF DiscardPrevious
  <1>7. CASE RecreateRendition(w)
    <2>1. [worker[w] EXCEPT !.at = "start", !.current = FALSE] \in Processes
      BY <1>1 DEF Processes
    <2> QED BY <1>1, <1>7, <2>1, CreateType, ThenType DEF RecreateRendition
  <1>8. CASE StartTranscode(w)
    <2>1. [rend[worker[w].user] EXCEPT !.status = "running"] \in Renditions
      BY <1>1, RowTypes DEF Live
    <2>2. rend' \in [Users -> Renditions]
      BY <1>1, <1>8, <2>1, SetRowType DEF StartTranscode, UpdateRenditionStatus
    <2>3. [worker[w] EXCEPT !.at = "tick", !.ffmpeg = "on"] \in Processes
      BY <1>1 DEF Processes
    <2> QED BY <1>8, <2>2, <2>3, ThenType DEF StartTranscode
  <1> QED BY <1>2, <1>3, <1>4, <1>5, <1>6, <1>7, <1>8

LEMMA TypeJobRuns ==
  ASSUME TypeOK, NEW w \in Workers,
         CheckCancelled(w) \/ PublishInit(w) \/ AppendRenditionSegment(w) \/ TickEnds(w) \/ Settle(w)
  PROVE  TypeOK'
  <1> USE DEF TypeOK
  <1>1. worker[w] \in Processes /\ worker[w].user \in Users /\ worker[w].sent \in 0..Segments
    BY DEF Processes
  <1>2. CASE CheckCancelled(w)
    <2>1. [worker[w] EXCEPT !.at = "publish", !.ffmpeg = "killed"] \in Processes
      BY <1>1 DEF Processes
    <2> QED BY <1>2, <2>1, ThenType DEF CheckCancelled
  <1>3. CASE PublishInit(w)
    <2>1. [rend[worker[w].user] EXCEPT !.init = w] \in Renditions
      BY <1>1, RowTypes
    <2>2. rend' \in [Users -> Renditions]
      BY <1>1, <1>3, <2>1, SetRowType DEF PublishInit, SetRenditionInit
    <2>3. [worker[w] EXCEPT !.init = TRUE] \in Processes
      BY <1>1 DEF Processes
    <2> QED BY <1>3, <2>2, <2>3 DEF PublishInit
  <1>4. CASE AppendRenditionSegment(w)
    <2> DEFINE u == worker[w].user
    <2>1. worker[w].sent + 1 \in 1..Segments /\ worker[w].sent + 1 \in 0..Segments
      BY <1>1, <1>4, TranscodeAssumption DEF AppendRenditionSegment
    <2>2. rend[u].segs \in Seq(Workers \X (1..Segments))
      BY <1>1 DEF Renditions
    <2>3. Append(rend[u].segs, <<w, worker[w].sent + 1>>) \in Seq(Workers \X (1..Segments))
      BY <2>1, <2>2
    <2>4. [rend[u] EXCEPT !.segs = Append(@, <<w, worker[w].sent + 1>>)] \in Renditions
      <3> DEFINE segs == Append(rend[u].segs, <<w, worker[w].sent + 1>>)
      <3>1. segs \in Seq(Workers \X (1..Segments))
        BY <2>3
      <3>2. rend[u] \in Renditions
        BY <1>1
      <3>3. ASSUME NEW s \in Seq(Workers \X (1..Segments))
            PROVE  [rend[u] EXCEPT !.segs = s] \in Renditions
        BY <3>2 DEF Renditions
      <3> QED BY <3>1, <3>3
    <2>5. [worker[w] EXCEPT !.sent = @ + 1] \in Processes
      BY <1>1, <2>1 DEF Processes
    <2>6. ASSUME SetRow(u, [rend[u] EXCEPT !.segs = Append(@, <<w, worker[w].sent + 1>>)])
          PROVE  rend' \in [Users -> Renditions]
      BY <1>1, <2>4, <2>6 DEF SetRow
    <2> QED BY <1>4, <2>5, <2>6, ThenType DEF AppendRenditionSegment
  <1>5. CASE TickEnds(w)
    <2>1. \A f \in {"whole", "broken"} :
             [worker[w] EXCEPT !.at = "settle", !.ffmpeg = f] \in Processes
      BY <1>1 DEF Processes
    <2> QED BY <1>5, <2>1, ThenType DEF TickEnds
  <1>6. CASE Settle(w)
    <2>1. \E at \in {"remove", "ready", "failTask"} : Then(w, at) \/ GiveUp(w, at)
      BY <1>6 DEF Settle
    <2> QED BY <1>6, <2>1, ThenType DEF Settle
  <1> QED BY <1>2, <1>3, <1>4, <1>5, <1>6

LEMMA TypeJobEnds ==
  ASSUME TypeOK, NEW w \in Workers,
         \/ RemoveCancelled(w) \/ MarkReady(w) \/ EndTask(w) \/ FailTask(w) \/ FailRow(w)
         \/ RequeueTask(w) \/ WorkerStops(w) \/ WorkerDies(w)
  PROVE  TypeOK'
  <1> USE DEF TypeOK
  <1>1. worker[w] \in Processes /\ worker[w].user \in Users
    BY DEF Processes
  <1>2. CASE RemoveCancelled(w)
    BY <1>1, <1>2, TryDeleteType, ThenType DEF RemoveCancelled
  <1>3. CASE MarkReady(w)
    <2>1. [rend[worker[w].user] EXCEPT !.status = "ready"] \in Renditions
      BY <1>1, RowTypes
    <2>2. rend' \in [Users -> Renditions] /\ cut' \in BOOLEAN
      BY <1>1, <1>3, <2>1, SetRowType DEF MarkReady, UpdateRenditionStatus
    <2> QED BY <1>3, <2>2, ThenType DEF MarkReady
  <1>4. CASE EndTask(w)
    <2>1. worker[w].at \in Terminal
      BY <1>4 DEF EndTask, Terminal
    <2> QED BY <1>4, <2>1, StatusType, ThenType DEF EndTask
  <1>5. CASE FailTask(w)
    BY <1>5, StatusType, ThenType DEF FailTask, Terminal
  <1>6. CASE FailRow(w)
    <2>1. Emptied(rend[worker[w].user], "failed") \in Renditions
      BY <1>1, RowTypes
    <2>2. rend' \in [Users -> Renditions] /\ cut' \in BOOLEAN
      BY <1>1, <1>6, <2>1, SetRowType, RemovalType DEF FailRow, FailRendition
    <2> QED BY <1>6, <2>2, ThenType DEF FailRow
  <1>7. CASE RequeueTask(w)
    <2>1. task' \in [Tasks -> TaskRows]
      BY <1>7, StatusType DEF RequeueTask, Live
    <2> QED BY <1>7, <2>1, Constants DEF RequeueTask
  <1>8. CASE WorkerStops(w)
    <2>1. stops' \in 0..MaxStops /\ cut' \in BOOLEAN
      BY <1>8, TypeStop DEF WorkerStops, Overwriting, Disowned
    <2>2. Emptied(rend[worker[w].user], "queued") \in Renditions
      BY <1>1, RowTypes DEF Live
    <2>3. rend' \in [Users -> Renditions]
      BY <1>1, <1>8, <2>2, SetRowType, RemovalType DEF WorkerStops, ResetRendition
    <2>4. [worker[w] EXCEPT !.at = "requeue"] \in Processes
      BY <1>1 DEF Processes
    <2> QED BY <1>8, <2>1, <2>3, <2>4 DEF WorkerStops
  <1>9. CASE WorkerDies(w)
    <2>1. stops' \in 0..MaxStops /\ cut' \in BOOLEAN
      BY <1>9, TypeStop DEF WorkerDies, Overwriting, Disowned
    <2> QED BY <1>9, <2>1, Constants DEF WorkerDies
  <1> QED BY <1>2, <1>3, <1>4, <1>5, <1>6, <1>7, <1>8, <1>9

LEMMA TypeStep == TypeOK /\ [Next]_vars => TypeOK'
  <1> SUFFICES ASSUME TypeOK, [Next]_vars PROVE TypeOK'
    OBVIOUS
  <1>1. ASSUME NEW w \in Workers, WorkerStep(w) \/ WorkerStops(w) \/ WorkerDies(w)
        PROVE  TypeOK'
    BY <1>1, TypeJobStarts, TypeJobRuns, TypeJobEnds DEF WorkerStep
  <1>2. CASE UNCHANGED vars
    BY <1>2 DEF vars, TypeOK
  <1> QED BY <1>1, <1>2, TypeRequestStep, TypeOthers DEF Next

\* Every row, request and worker has its shape, for any number of users and
\* workers; no manifest lists a segment that ffmpeg does not produce.
THEOREM TypeCorrect == Spec => []TypeOK
  BY TypeInit, TypeStep, PTL DEF Spec

-----------------------------------------------------------------------------
(* One user and one worker: who will settle a row.                         *)

OneOfEach == (\E u : Users = {u}) /\ (\E w : Workers = {w})

\* A request is about to delete the row, or has, and ends its task next.
Refers(r, t) == req[r].at \in {"cancelled", "undoTask"} /\ req[r].task = t

\* A worker will take the task up: it is queued, or will be when the worker starts.
Down(w) == worker[w].at \in {"off", "requeue"}
Works(t) ==
  /\ \A r \in Requests : ~Refers(r, t)
  /\ \/ task[t].status = "queued"
     \/ task[t].status \in {"running", "cancelling"} /\ \A w \in Workers : Down(w)

Requesting(r) == req[r].at \in {"enqueue", "undo"}
Working(w) == worker[w].at \in {"check", "discard", "create", "remove", "failTask", "failRow"}
Owed ==
  \/ \E r \in Requests : Requesting(r)
  \/ \E t \in Tasks : Works(t)
  \/ \E w \in Workers : Working(w)

\* Nobody need do anything about the row; or it is what the worker published.
Upto(segs, w, n) == Len(segs) = n /\ \A i \in 1..n : segs[i] = <<w, i>>
Settled(row) == row.status \notin Live /\ (row.status = "ready" => Whole(row))
Active(w) == worker[w].at \in {"start", "tick", "publish", "settle", "ready"}
Matches(w, row) ==
  row # NoRow => /\ row.init = IF worker[w].init THEN w ELSE NoWorker
                 /\ Upto(row.segs, w, worker[w].sent)
Kept(u) ==
  IF \E w \in Workers : Active(w) THEN \A w \in Workers : Matches(w, rend[u]) ELSE Settled(rend[u])

\* A worker at a job: nobody else queues its task.
Busy(w) == worker[w].at \notin {"off", "free", "resetStale"}
Knows(w) ==
  /\ Busy(w) => worker[w].task \in Tasks /\ task[worker[w].task].status \notin {"unborn", "queued"}
  /\ worker[w].at \in {"check", "discard", "create", "start"} => ~worker[w].init /\ worker[w].sent = 0
  /\ worker[w].at = "settle" /\ worker[w].ffmpeg = "whole" /\ worker[w].init => worker[w].sent = Segments
  /\ worker[w].at = "ready" => worker[w].init /\ worker[w].sent = Segments

\* A request has a task that was created; one that flags a running task finds
\* it queued only while no worker is up.
Asks(r) ==
  req[r].task \in Tasks =>
    /\ task[req[r].task].status # "unborn"
    /\ ~cut /\ req[r].at \in {"flag", "cancelling"} /\ task[req[r].task].status = "queued"
         => \A w \in Workers : worker[w].at = "off"

Accounted == ~cut => \A u \in Users : Owed \/ Kept(u)
Inv == TypeOK /\ (\A w \in Workers : Knows(w)) /\ (\A r \in Requests : Asks(r)) /\ Accounted

\* What the rest of a job sees of a worker, and of a request.
SameWorker(w) ==
  /\ worker'[w].at = worker[w].at /\ worker'[w].task = worker[w].task
  /\ worker'[w].init = worker[w].init /\ worker'[w].sent = worker[w].sent
  /\ worker'[w].ffmpeg = worker[w].ffmpeg
SameRequest(r) == req'[r].at = req[r].at /\ req'[r].task = req[r].task
SameRow(u) ==
  /\ rend[u] = NoRow => rend'[u] = NoRow
  /\ rend'[u].init = rend[u].init /\ rend'[u].segs = rend[u].segs
  /\ rend'[u].status = rend[u].status \/ rend[u].status \in Live

\* Once a chain of statements was broken off, only what workers and requests
\* know is left to show.
LEMMA CutInv ==
  ASSUME TypeOK', cut' = TRUE, \A w \in Workers : Knows(w)',
         \A r \in Requests : req'[r].task \in Tasks => task'[req'[r].task].status # "unborn"
  PROVE  Inv'
  BY DEF Inv, Accounted, Asks

\* A deleted row owes nothing.
LEMMA NoRowKept ==
  ASSUME NEW u, rend'[u] = NoRow
  PROVE  Kept(u)'
  BY DEF Kept, Matches, Settled, NoRow, Live

LEMMA KeptStays ==
  ASSUME NEW u, Kept(u), SameRow(u), \A w \in Workers : SameWorker(w)
  PROVE  Kept(u)'
  <1>1. \A w \in Workers : Active(w)' <=> Active(w)
    BY DEF Active, SameWorker
  <1>2. CASE \E w \in Workers : Active(w)
    BY <1>1, <1>2 DEF Kept, Matches, SameRow, SameWorker, Upto
  <1>3. CASE ~\E w \in Workers : Active(w)
    BY <1>1, <1>3 DEF Kept, Settled, SameRow, Whole
  <1> QED BY <1>2, <1>3

LEMMA KnowsOn ==
  ASSUME NEW w \in Workers, Knows(w), SameWorker(w),
         worker[w].task \in Tasks => task'[worker[w].task].status = task[worker[w].task].status
              \/ task'[worker[w].task].status \notin {"unborn", "queued"}
  PROVE  Knows(w)'
  BY DEF Knows, SameWorker, Busy

\* A request changes the row, or what it is about to do.
LEMMA ByRequest ==
  ASSUME Inv, TypeOK', task' = task, cut' = cut, \A w \in Workers : SameWorker(w),
         NEW S \in SUBSET Requests, \A q \in Requests \ S : SameRequest(q),
         \A r \in S : req'[r].task \in Tasks =>
            /\ task[req'[r].task].status # "unborn"
            /\ req'[r].at \in {"flag", "cancelling"} =>
                 \/ req[r].at \in {"flag", "cancelling"} /\ req[r].task = req'[r].task
                 \/ task[req'[r].task].status # "queued",
         \A u \in Users :
            \/ rend'[u] = NoRow
            \/ \E r \in S : Requesting(r)'
            \/ /\ SameRow(u)
               /\ \A r \in S : /\ ~Requesting(r)
                               /\ \A t \in Tasks : Refers(r, t)' => Refers(r, t)
  PROVE  Inv'
  <1>1. \A w \in Workers : Knows(w)'
    BY KnowsOn DEF Inv
  <1>2. \A r \in Requests : Asks(r)'
    <2>1. \A w \in Workers : worker[w].at = worker'[w].at
      BY DEF SameWorker
    <2>2. \A r \in Requests \ S : Asks(r)'
      BY <2>1 DEF Inv, Asks, SameRequest
    <2>3. \A r \in S : Asks(r)'
      BY <2>1 DEF Inv, Asks
    <2> QED BY <2>2, <2>3
  <1>3. ASSUME ~cut', NEW u \in Users
        PROVE  Owed' \/ Kept(u)'
    <2>1. CASE rend'[u] = NoRow
      BY <2>1, NoRowKept
    <2>2. CASE \E r \in S : Requesting(r)'
      BY <2>2 DEF Owed
    <2>3. CASE /\ SameRow(u)
               /\ \A r \in S : ~Requesting(r) /\ \A t \in Tasks : Refers(r, t)' => Refers(r, t)
      <3>1. CASE Kept(u)
        BY <2>3, <3>1, KeptStays
      <3>2. CASE Owed
        <4>1. \A r \in Requests : Requesting(r) => Requesting(r)'
          BY <2>3 DEF Requesting, SameRequest
        <4>2. \A w \in Workers : (Working(w) => Working(w)') /\ (Down(w) => Down(w)')
          BY DEF Working, Down, SameWorker
        <4>3. \A r \in Requests, t \in Tasks : Refers(r, t)' => Refers(r, t)
          BY <2>3 DEF Refers, SameRequest
        <4>4. \A t \in Tasks : Works(t) => Works(t)'
          BY <4>2, <4>3 DEF Works
        <4> QED BY <3>2, <4>1, <4>2, <4>4 DEF Owed
      <3> QED BY <1>3, <3>1, <3>2 DEF Inv, Accounted
    <2> QED BY <2>1, <2>2, <2>3
  <1> QED BY <1>1, <1>2, <1>3 DEF Inv, Accounted

LEMMA ByOneRequest ==
  ASSUME Inv, TypeOK', task' = task, cut' = cut, \A w \in Workers : SameWorker(w),
         NEW r \in Requests, \A q \in Requests \ {r} : SameRequest(q),
         req'[r].task \in Tasks =>
            /\ task[req'[r].task].status # "unborn"
            /\ req'[r].at \in {"flag", "cancelling"} =>
                 \/ req[r].at \in {"flag", "cancelling"} /\ req[r].task = req'[r].task
                 \/ task[req'[r].task].status # "queued",
         \/ \A u \in Users : rend'[u] = NoRow
         \/ Requesting(r)'
         \/ /\ \A u \in Users : SameRow(u)
            /\ ~Requesting(r) /\ \A t \in Tasks : Refers(r, t)' => Refers(r, t)
  PROVE  Inv'
  <1> DEFINE S == {r}
  <1>1. /\ S \in SUBSET Requests /\ \A q \in Requests \ S : SameRequest(q)
        /\ r \in S /\ \A q \in S : q = r
    OBVIOUS
  <1>2. \A q \in S : req'[q].task \in Tasks =>
            /\ task[req'[q].task].status # "unborn"
            /\ req'[q].at \in {"flag", "cancelling"} =>
                 \/ req[q].at \in {"flag", "cancelling"} /\ req[q].task = req'[q].task
                 \/ task[req'[q].task].status # "queued"
    OBVIOUS
  <1>3. \A u \in Users :
            \/ rend'[u] = NoRow
            \/ \E q \in S : Requesting(q)'
            \/ /\ SameRow(u)
               /\ \A q \in S : /\ ~Requesting(q)
                               /\ \A t \in Tasks : Refers(q, t)' => Refers(q, t)
    OBVIOUS
  <1> HIDE DEF S
  <1> QED BY <1>1, <1>2, <1>3, ByRequest

LEMMA SameAll == (worker' = worker => \A w \in Workers : SameWorker(w))
                 /\ (rend' = rend => \A u : SameRow(u))
  BY DEF SameWorker, SameRow

\* Only the request itself is at another step.
LEMMA OneRequest ==
  ASSUME TypeOK, NEW r \in Requests,
         \/ \E at : Go(r, at)
         \/ Answer(r)
         \/ \E at, u, t : Begin(r, at, u, t)
  PROVE  /\ \A q \in Requests \ {r} : SameRequest(q)
         /\ \A at : Go(r, at) => req'[r].at = at /\ req'[r].task = req[r].task
         /\ Answer(r) => req'[r] = Idle
         /\ \A at, u, t : Begin(r, at, u, t) => req[r] = Idle /\ req'[r].at = at /\ req'[r].task = t
  BY DEF Go, Answer, Begin, SameRequest, TypeOK, Records

\* An answered request knows no task, and is about to do nothing.
LEMMA IdleKnowsNothing ==
  Idle.task \notin Tasks /\ Idle.at = "idle"
  BY TranscodeAssumption DEF Idle, Tasks, NoTask

\* A request breaks off, or goes on without what it should have done.
LEMMA RequestCut ==
  ASSUME Inv, TypeOK', cut' = TRUE, NEW r \in Requests, Answer(r) \/ \E at : Go(r, at),
         UNCHANGED <<task, worker>>
  PROVE  Inv'
  <1>1. TypeOK
    BY DEF Inv
  <1>2. /\ \A q \in Requests \ {r} : SameRequest(q)
        /\ req'[r].task \in Tasks => req'[r].task = req[r].task
    BY <1>1, OneRequest, IdleKnowsNothing
  <1>3. \A w \in Workers : Knows(w)'
    BY SameAll, KnowsOn DEF Inv
  <1>4. \A q \in Requests : req'[q].task \in Tasks => task'[req'[q].task].status # "unborn"
    BY <1>2 DEF Inv, Asks, SameRequest
  <1> QED BY <1>3, <1>4, CutInv

LEMMA RequestTranscodeInv ==
  ASSUME Inv, TypeOK', NEW r \in Requests, NEW u \in Users, RequestTranscode(r, u)
  PROVE  Inv'
  <1>1. Begin(r, "reserve", u, NoTask) /\ TypeOK
    BY DEF RequestTranscode, Inv
  <1>2. /\ \A q \in Requests \ {r} : SameRequest(q)
        /\ req[r] = Idle /\ req'[r].at = "reserve" /\ req'[r].task = NoTask
    BY <1>1, OneRequest
  <1>3. \A v \in Users : SameRow(v) /\ ~Requesting(r) /\ \A t \in Tasks : Refers(r, t)' => Refers(r, t)
    BY <1>2, SameAll, IdleKnowsNothing DEF RequestTranscode, Requesting, Refers
  <1>4. NoTask \notin Tasks
    BY DEF NoTask, Tasks
  <1> QED BY <1>2, <1>3, <1>4, SameAll, ByOneRequest DEF RequestTranscode

LEMMA CancelTaskInv ==
  ASSUME Inv, TypeOK', NEW r \in Requests, NEW t \in Tasks, CancelTask(r, t)
  PROVE  Inv'
  <1>1. PICK at \in {"drop", "flag"} :
           /\ Begin(r, at, task[t].user, t) /\ TypeOK
           /\ task[t].status = IF at = "drop" THEN "queued" ELSE "running"
    BY DEF CancelTask, Inv
  <1>2. /\ \A q \in Requests \ {r} : SameRequest(q)
        /\ req[r] = Idle /\ req'[r].at = at /\ req'[r].task = t
    BY <1>1, OneRequest
  <1>3. \A v \in Users : SameRow(v) /\ ~Requesting(r) /\ \A x \in Tasks : Refers(r, x)' => Refers(r, x)
    BY <1>2, SameAll, IdleKnowsNothing DEF CancelTask, Requesting, Refers
  <1>4. req'[r].task \in Tasks =>
            /\ task[req'[r].task].status # "unborn"
            /\ req'[r].at \in {"flag", "cancelling"} => task[req'[r].task].status # "queued"
    BY <1>1, <1>2
  <1> QED BY <1>2, <1>3, <1>4, SameAll, ByOneRequest DEF CancelTask

\* The statements that delete the row of the request.
LEMMA DeletingInv ==
  ASSUME Inv, TypeOK', OneOfEach, NEW r \in Requests, TryDelete(req[r].user),
         Answer(r) \/ \E at \in {"undoTask", "cancelled"} : Go(r, at),
         UNCHANGED <<task, worker>>
  PROVE  Inv'
  <1>0. CASE cut' = TRUE
    BY <1>0, RequestCut
  <1> SUFFICES ASSUME cut' = cut, DeleteRendition(req[r].user) PROVE Inv'
    BY <1>0 DEF TryDelete
  <1>1. TypeOK /\ req[r].user \in Users
    BY DEF Inv, TypeOK, Records
  <1>2. /\ \A q \in Requests \ {r} : SameRequest(q)
        /\ req'[r].task \in Tasks => req'[r].task = req[r].task /\ req'[r].at \in {"undoTask", "cancelled"}
    BY <1>1, OneRequest, IdleKnowsNothing
  <1>3. \A v \in Users : rend'[v] = NoRow
    BY <1>1 DEF OneOfEach, DeleteRendition, SetRow, TypeOK
  <1>4. req'[r].task \in Tasks =>
            /\ task[req'[r].task].status # "unborn"
            /\ req'[r].at \notin {"flag", "cancelling"}
    BY <1>2 DEF Inv, Asks
  <1> QED BY <1>2, <1>3, <1>4, SameAll, ByOneRequest

\* A request that was about to do nothing more to the row gives up.
LEMMA AnswerInv ==
  ASSUME Inv, TypeOK', NEW r \in Requests, ~Requesting(r), Answer(r),
         UNCHANGED <<rend, task, worker, cut>>
  PROVE  Inv'
  <1>1. TypeOK
    BY DEF Inv
  <1>2. (\A q \in Requests \ {r} : SameRequest(q)) /\ req'[r] = Idle
    BY <1>1, OneRequest
  <1>3. \A v \in Users : SameRow(v) /\ \A x \in Tasks : Refers(r, x)' => Refers(r, x)
    BY <1>2, SameAll, IdleKnowsNothing DEF Refers
  <1> QED BY <1>2, <1>3, SameAll, IdleKnowsNothing, ByOneRequest

LEMMA ReserveInv ==
  ASSUME Inv, TypeOK', NEW r \in Requests, Reserve(r)
  PROVE  Inv'
  <1>1. TypeOK /\ req[r].at = "reserve"
    BY DEF Inv, Reserve, At
  <1>2. CASE cut' = cut /\ req' = [req EXCEPT ![r].at = "enqueue", ![r].current = FALSE]
    <2>1. /\ \A q \in Requests \ {r} : SameRequest(q)
          /\ req'[r].at = "enqueue" /\ req'[r].task = req[r].task
      BY <1>1, <1>2 DEF SameRequest, TypeOK, Records
    <2>2. req'[r].task \in Tasks =>
            /\ task[req'[r].task].status # "unborn"
            /\ req'[r].at \notin {"flag", "cancelling"}
      BY <2>1 DEF Inv, Asks
    <2>3. Requesting(r)'
      BY <2>1 DEF Requesting
    <2> QED BY <1>2, <2>1, <2>2, <2>3, SameAll, ByOneRequest DEF Reserve
  <1>3. CASE UNCHANGED <<rend, cut>> /\ Answer(r)
    <2>1. ~Requesting(r)
      BY <1>1 DEF Requesting
    <2> QED BY <1>3, <2>1, AnswerInv DEF Reserve
  <1>4. CASE cut' = TRUE /\ Answer(r)
    BY <1>4, RequestCut DEF Reserve
  <1> QED BY <1>1, <1>2, <1>3, <1>4 DEF Reserve

LEMMA LinkTaskInv ==
  ASSUME Inv, TypeOK', OneOfEach, NEW r \in Requests, LinkTask(r)
  PROVE  Inv'
  <1>1. TypeOK /\ req[r].at = "link" /\ req[r].user \in Users
    BY DEF Inv, LinkTask, At, TypeOK, Records
  <1>2. CASE SetRenditionTask(req[r].user, req[r].task) /\ Answer(r)
    <2>1. (\A q \in Requests \ {r} : SameRequest(q)) /\ req'[r] = Idle
      BY <1>1, <1>2, OneRequest
    <2>2. \A v \in Users : SameRow(v)
      BY <1>1, <1>2 DEF OneOfEach, SetRenditionTask, UpdateRow, SameRow, TypeOK, Renditions
    <2>3. ~Requesting(r) /\ \A x \in Tasks : Refers(r, x)' => Refers(r, x)
      BY <1>1, <2>1, IdleKnowsNothing DEF Requesting, Refers
    <2> QED BY <2>1, <2>2, <2>3, SameAll, IdleKnowsNothing, ByOneRequest DEF LinkTask
  <1>3. CASE Go(r, "undo")
    <2>1. (\A q \in Requests \ {r} : SameRequest(q)) /\ req'[r].at = "undo" /\ req'[r].task = req[r].task
      BY <1>1, <1>3, OneRequest
    <2>2. req'[r].task \in Tasks =>
            /\ task[req'[r].task].status # "unborn"
            /\ req'[r].at \notin {"flag", "cancelling"}
      BY <2>1 DEF Inv, Asks
    <2>3. Requesting(r)'
      BY <2>1 DEF Requesting
    <2> QED BY <2>1, <2>2, <2>3, SameAll, ByOneRequest DEF LinkTask
  <1> QED BY <1>2, <1>3 DEF LinkTask

LEMMA CancelRunningInv ==
  ASSUME Inv, TypeOK', OneOfEach, NEW r \in Requests, CancelRunning(r)
  PROVE  Inv'
  <1>1. TypeOK /\ req[r].at = "flag" /\ req[r].user \in Users /\ Go(r, "cancelling")
    BY DEF Inv, CancelRunning, At, TypeOK, Records
  <1>2. /\ \A q \in Requests \ {r} : SameRequest(q)
        /\ req'[r].at = "cancelling" /\ req'[r].task = req[r].task
    BY <1>1, OneRequest
  <1>3. \A v \in Users : SameRow(v)
    <2>1. SetRenditionCancelling(req[r].user, req[r].task) \/ rend' = rend
      BY DEF CancelRunning
    <2> DEFINE u == req[r].user
    <2>2. rend[u] \in Renditions /\ \A v \in Users : v = u
      BY <1>1 DEF OneOfEach, TypeOK
    <2>3. \/ rend'[u] = rend[u]
          \/ /\ rend'[u] = [rend[u] EXCEPT !.status = "cancelling"]
             /\ rend[u].status \in {"queued", "running"}
      BY <1>1, <2>1 DEF SetRenditionCancelling, SetRow, TypeOK
    <2>4. SameRow(u)
      BY <2>2, <2>3 DEF SameRow, Renditions, NoRow, Live
    <2> QED BY <2>2, <2>4
  <1>4. ~Requesting(r) /\ \A x \in Tasks : Refers(r, x)' => Refers(r, x)
    BY <1>1, <1>2 DEF Requesting, Refers
  <1>5. req'[r].task \in Tasks =>
            /\ task[req'[r].task].status # "unborn"
            /\ req[r].at \in {"flag", "cancelling"} /\ req[r].task = req'[r].task
    BY <1>1, <1>2 DEF Inv, Asks
  <1> QED BY <1>2, <1>3, <1>4, <1>5, SameAll, ByOneRequest DEF CancelRunning

LEMMA GenerationInv ==
  ASSUME Inv, TypeOK', NEW u \in Users, NewGeneration(u), NEW S \in SUBSET Requests,
         \A r \in S : req[r] = Idle /\ req'[r] = [Idle EXCEPT !.at = "cleanup", !.user = u],
         \A r \in Requests \ S : req'[r] = Outdate(u)[r],
         UNCHANGED <<task, cut>>
  PROVE  Inv'
  <1>1. \A w \in Workers : SameWorker(w)
    BY DEF Inv, TypeOK, Processes, NewGeneration, SameWorker
  <1>2. \A v \in Users : SameRow(v)
    <2> SUFFICES ASSUME NEW v \in Users PROVE SameRow(v)
      OBVIOUS
    <2>1. rend[v] \in Renditions
      BY DEF Inv, TypeOK
    <2>2. rend'[v] = rend[v] \/ rend'[v] = [rend[v] EXCEPT !.current = FALSE]
      BY DEF NewGeneration, Inv, TypeOK
    <2>3. [NoRow EXCEPT !.current = FALSE] = NoRow
      <3>1. ASSUME NEW row \in Renditions, row.current = FALSE
            PROVE  [row EXCEPT !.current = FALSE] = row
        BY <3>1 DEF Renditions
      <3>2. NoRow \in Renditions /\ NoRow.current = FALSE
        BY Constants DEF NoRow
      <3> QED BY <3>1, <3>2
    <2> QED BY <2>1, <2>2, <2>3 DEF SameRow, Renditions
  <1>3. \A r \in Requests \ S : SameRequest(r)
    BY DEF Inv, TypeOK, Records, Outdate, SameRequest
  <1>4. \A r \in S : /\ req'[r].task \notin Tasks /\ ~Requesting(r)
                     /\ \A x \in Tasks : Refers(r, x)' => Refers(r, x)
    BY IdleKnowsNothing DEF Idle, Requesting, Refers
  <1> QED BY <1>1, <1>2, <1>3, <1>4, ByRequest

\* What the update of a task's status does to the tasks.
LEMMA StatusOf ==
  ASSUME TypeOK, NEW t, NEW s, UpdateStatus(t, s), NEW x \in Tasks
  PROVE  /\ x # t => task'[x].status = task[x].status
         /\ x = t => task'[x].status = IF task[x].status = "deleted" THEN "deleted" ELSE s
  BY DEF UpdateStatus, TypeOK, TaskRows

LEMMA CreateQueuedInv ==
  ASSUME Inv, TypeOK', NEW r \in Requests, CreateQueued(r)
  PROVE  Inv'
  <1>1. TypeOK /\ req[r].at = "enqueue"
    BY DEF Inv, CreateQueued, At
  <1>2. CASE task' = task /\ Go(r, "undo")
    <2>1. (\A q \in Requests \ {r} : SameRequest(q)) /\ req'[r].at = "undo" /\ req'[r].task = req[r].task
      BY <1>1, <1>2, OneRequest
    <2>2. req'[r].task \in Tasks => task[req'[r].task].status # "unborn" /\ req'[r].at \notin {"flag", "cancelling"}
      BY <2>1 DEF Inv, Asks
    <2>3. Requesting(r)'
      BY <2>1 DEF Requesting
    <2> QED BY <1>2, <2>1, <2>2, <2>3, SameAll, ByOneRequest DEF CreateQueued
  <1>3. ASSUME NEW t \in Tasks, task[t] = Unborn,
               task' = [task EXCEPT ![t] = [status |-> "queued", user |-> req[r].user]],
               req' = [req EXCEPT ![r].at = "link", ![r].task = t] \/ Go(r, "undo")
        PROVE  Inv'
    <2>1. /\ \A x \in Tasks \ {t} : task'[x] = task[x]
          /\ task[t].status = "unborn" /\ task'[t].status = "queued"
      BY <1>1, <1>3 DEF TypeOK, Unborn
    <2>2. /\ \A q \in Requests \ {r} : req'[q] = req[q]
          /\ \/ req'[r].at = "link" /\ req'[r].task = t
             \/ req'[r].at = "undo" /\ req'[r].task = req[r].task
      BY <1>1, <1>3 DEF TypeOK, Records, Go
    <2>3. \A w \in Workers : Knows(w)'
      BY <2>1 DEF Inv, Knows, Busy, CreateQueued
    <2>4. \A q \in Requests : Asks(q)'
      BY <2>1, <2>2 DEF Inv, Asks, CreateQueued
    <2>5. Works(t)'
      <3>1. \A q \in Requests : ~Refers(q, t)'
        BY <2>1, <2>2 DEF Refers, Inv, Asks
      <3> QED BY <2>1, <3>1 DEF Works
    <2> QED BY <2>3, <2>4, <2>5 DEF Inv, Accounted, Owed
  <1> QED BY <1>2, <1>3 DEF CreateQueued

\* The end of an undoing or a cancellation: it is the task's own request that
\* ends it, or there is a worker to come for it.
LEMMA EndingInv ==
  ASSUME Inv, TypeOK', NEW r \in Requests, Answer(r), UNCHANGED <<rend, worker, cut>>,
         NEW s, TryStatus(req[r].task, s),
         \/ req[r].at = "undoTask" /\ s = "deleted"
         \/ req[r].at \in {"cancelled", "cancelling"} /\ s = req[r].at
  PROVE  Inv'
  <1>0. CASE task' = task
    <2>1. ~Requesting(r)
      BY DEF Requesting
    <2> QED BY <1>0, <2>1, AnswerInv
  <1> SUFFICES ASSUME UpdateStatus(req[r].task, s) PROVE Inv'
    BY <1>0 DEF TryStatus
  <1>1. TypeOK /\ s \in {"deleted", "cancelled", "cancelling"}
    BY DEF Inv
  <1>2. (\A q \in Requests \ {r} : SameRequest(q)) /\ req'[r].task \notin Tasks /\ req'[r].at = "idle"
    BY <1>1, OneRequest, IdleKnowsNothing
  <1>3. \A x \in Tasks :
           /\ x # req[r].task => task'[x].status = task[x].status
           /\ x = req[r].task => task'[x].status = IF task[x].status = "deleted" THEN "deleted" ELSE s
    BY <1>1, StatusOf
  <1>4. \A w \in Workers : Knows(w)'
    BY <1>1, <1>3, SameAll, KnowsOn DEF Inv
  <1>5. \A q \in Requests : Asks(q)'
    BY <1>1, <1>2, <1>3 DEF Inv, Asks, SameRequest
  <1>6. ASSUME ~cut', NEW u \in Users
        PROVE  Owed' \/ Kept(u)'
    <2>1. CASE Kept(u)
      BY <2>1, SameAll, KeptStays
    <2>2. CASE Owed
      <3>1. \A q \in Requests : Requesting(q) => Requesting(q)'
        BY <1>2 DEF Requesting, SameRequest
      <3>2. \A q \in Requests, x \in Tasks : Refers(q, x)' => Refers(q, x)
        BY <1>2 DEF Refers, SameRequest
      <3>3. \A x \in Tasks : Works(x) => Works(x)'
        <4> SUFFICES ASSUME NEW x \in Tasks, Works(x) PROVE Works(x)'
          OBVIOUS
        <4>1. CASE x # req[r].task
          BY <1>3, <3>2, <4>1 DEF Works, Down
        <4>2. CASE x = req[r].task
          <5>1. req[r].at = "cancelling" /\ s = "cancelling"
            BY <4>2 DEF Works, Refers
          <5>2. \A w \in Workers : Down(w)
            BY <1>6, <4>2, <5>1 DEF Works, Inv, Asks, Down
          <5>3. task'[x].status = "cancelling"
            BY <1>3, <4>2, <5>1 DEF Works
          <5> QED BY <3>2, <5>2, <5>3 DEF Works, Down
        <4> QED BY <4>1, <4>2
      <3>4. \A w \in Workers : Working(w) => Working(w)'
        BY DEF Working
      <3> QED BY <2>2, <3>1, <3>3, <3>4 DEF Owed
    <2> QED BY <1>6, <2>1, <2>2 DEF Inv, Accounted
  <1> QED BY <1>4, <1>5, <1>6 DEF Inv, Accounted

LEMMA ClearDoneInv ==
  ASSUME Inv, TypeOK', NEW u \in Users, ClearDone(u)
  PROVE  Inv'
  <1>1. \A x \in Tasks : task'[x].status = task[x].status
                          \/ (task[x].status \in Terminal /\ task'[x].status = "deleted")
    BY DEF ClearDone, Inv, TypeOK, TaskRows
  <1>2. UNCHANGED <<rend, req, worker, cut>>
    BY DEF ClearDone
  <1>3. \A w \in Workers : Knows(w)'
    BY <1>1, <1>2, SameAll, KnowsOn DEF Inv
  <1>4. \A q \in Requests : Asks(q)'
    BY <1>1, <1>2 DEF Inv, Asks
  <1>5. ASSUME ~cut', NEW v \in Users
        PROVE  Owed' \/ Kept(v)'
    <2>1. CASE Kept(v)
      BY <1>2, <2>1, SameAll, KeptStays
    <2>2. CASE Owed
      BY <1>1, <1>2, <2>2 DEF Owed, Works, Requesting, Working, Refers, Down, Terminal
    <2> QED BY <1>2, <1>5, <2>1, <2>2 DEF Inv, Accounted
  <1> QED BY <1>3, <1>4, <1>5 DEF Inv, Accounted

LEMMA ServerStopsInv ==
  ASSUME Inv, TypeOK', ServerStops
  PROVE  Inv'
  <1>1. UNCHANGED <<rend, task, worker>> /\ \A r \in Requests : req'[r] = Idle
    BY DEF ServerStops
  <1>2. ~cut' => ~cut /\ \A r \in Requests : ~Requesting(r)
    BY DEF ServerStops, Stop, Requesting
  <1>3. \A w \in Workers : Knows(w)'
    BY <1>1, SameAll, KnowsOn DEF Inv
  <1>4. \A q \in Requests : Asks(q)' /\ \A x \in Tasks : ~Refers(q, x)'
    BY <1>1, IdleKnowsNothing DEF Asks, Refers
  <1>5. ASSUME ~cut', NEW v \in Users
        PROVE  Owed' \/ Kept(v)'
    <2>1. CASE Kept(v)
      BY <1>1, <2>1, SameAll, KeptStays
    <2>2. CASE Owed
      BY <1>1, <1>2, <1>4, <1>5, <2>2 DEF Owed, Works, Working, Down
    <2> QED BY <1>2, <1>5, <2>1, <2>2 DEF Inv, Accounted
  <1> QED BY <1>3, <1>4, <1>5 DEF Inv, Accounted

LEMMA RequestsInv ==
  ASSUME Inv, TypeOK', OneOfEach,
         \/ \E r \in Requests, u \in Users :
               RequestTranscode(r, u) \/ ReplaceSource(r, u) \/ DeleteSource(r, u)
         \/ \E r \in Requests, t \in Tasks : CancelTask(r, t)
         \/ \E r \in Requests : RequestStep(r)
         \/ \E u \in Users : ClearDone(u) \/ MountWrite(u)
         \/ ServerStops
  PROVE  Inv'
  <1>1. ASSUME NEW r \in Requests, RequestStep(r)
        PROVE  Inv'
    <2>1. CASE UndoRendition(r) \/ CancelQueued(r) \/ (CleanupRenditions(r) /\ TryDelete(req[r].user))
      BY <2>1, DeletingInv DEF UndoRendition, CancelQueued, CleanupRenditions
    <2>4. CASE CleanupRenditions(r) /\ UNCHANGED <<rend, cut>>
      <3>1. ~Requesting(r)
        BY <2>4 DEF CleanupRenditions, At, Requesting
      <3> QED BY <2>4, <3>1, AnswerInv DEF CleanupRenditions
    <2>2. CASE UndoTask(r)
      BY <2>2, EndingInv DEF UndoTask, At
    <2>3. CASE CancelStatus(r)
      BY <2>3, EndingInv DEF CancelStatus
    <2>5. CASE CleanupRenditions(r)
      BY <2>1, <2>4, <2>5 DEF CleanupRenditions
    <2> QED BY <1>1, <2>1, <2>2, <2>3, <2>5, ReserveInv, CreateQueuedInv, LinkTaskInv, CancelRunningInv
         DEF RequestStep
  <1>2. ASSUME NEW r \in Requests, NEW u \in Users, ReplaceSource(r, u) \/ DeleteSource(r, u)
        PROVE  Inv'
    <2> DEFINE S == {r}
    <2>1. /\ NewGeneration(u) /\ S \in SUBSET Requests /\ UNCHANGED <<task, cut>>
          /\ req[r] = Idle /\ req' = [Outdate(u) EXCEPT ![r] = [Idle EXCEPT !.at = "cleanup", !.user = u]]
      BY <1>2 DEF ReplaceSource, DeleteSource
    <2>2. DOMAIN Outdate(u) = Requests
      BY DEF Outdate
    <2>3. \A q \in S : req[q] = Idle /\ req'[q] = [Idle EXCEPT !.at = "cleanup", !.user = u]
      BY <2>1, <2>2 DEF Outdate
    <2>4. \A q \in Requests \ S : req'[q] = Outdate(u)[q]
      BY <2>1, <2>2 DEF Outdate
    <2> HIDE DEF S
    <2> QED BY <2>1, <2>3, <2>4, GenerationInv
  <1>3. ASSUME NEW u \in Users, MountWrite(u)
        PROVE  Inv'
    <2> DEFINE S == {}
    <2>1. /\ NewGeneration(u) /\ S \in SUBSET Requests /\ UNCHANGED <<task, cut>>
          /\ \A q \in S : req[q] = Idle /\ req'[q] = [Idle EXCEPT !.at = "cleanup", !.user = u]
          /\ \A q \in Requests \ S : req'[q] = Outdate(u)[q]
      BY <1>3 DEF MountWrite
    <2> HIDE DEF S
    <2> QED BY <2>1, GenerationInv
  <1> QED BY <1>1, <1>2, <1>3, RequestTranscodeInv, CancelTaskInv, ClearDoneInv, ServerStopsInv

-----------------------------------------------------------------------------
(* The steps of the worker.                                                *)

\* With one worker, a row that is kept is settled or as the worker left it.
LEMMA KeptIs ==
  ASSUME OneOfEach, NEW w \in Workers, NEW u
  PROVE  /\ Kept(u) <=> IF Active(w) THEN Matches(w, rend[u]) ELSE Settled(rend[u])
         /\ Kept(u)' <=> IF Active(w)' THEN Matches(w, rend[u])' ELSE Settled(rend'[u])
  <1>1. \A v \in Workers : v = w
    BY DEF OneOfEach
  <1>2. Kept(u) <=> IF Active(w) THEN Matches(w, rend[u]) ELSE Settled(rend[u])
    BY <1>1 DEF Kept
  <1>3. Kept(u)' <=> IF Active(w)' THEN Matches(w, rend[u])' ELSE Settled(rend'[u])
    BY <1>1 DEF Kept, Settled, Whole
  <1> QED BY <1>2, <1>3

\* A step of a job: it queues no task, and what it leaves undone it will do.
LEMMA ByWorker ==
  ASSUME Inv, TypeOK', OneOfEach, NEW w \in Workers, ~Down(w), UNCHANGED <<req, cut>>, Knows(w)',
         \A x \in Tasks :
            \/ task'[x].status = task[x].status
            \/ /\ task'[x].status \notin {"unborn", "queued"}
               /\ task[x].status # "queued" \/ Working(w)',
         \/ Working(w)'
         \/ \A u \in Users : Kept(u)'
         \/ ~Working(w) /\ \A u \in Users : Kept(u) => Kept(u)'
  PROVE  Inv'
  <1>1. \A v \in Workers : v = w
    BY DEF OneOfEach
  <1>2. \A v \in Workers : Knows(v)'
    BY <1>1
  <1>3. \A r \in Requests : Asks(r)'
    BY <1>1 DEF Inv, Asks, Down
  <1>4. ASSUME ~cut', NEW u \in Users, ~Working(w)', ~Working(w), ~Kept(u)'
        PROVE  Owed'
    <2>1. Owed
      BY <1>4 DEF Inv, Accounted
    <2>2. \A t \in Tasks : Works(t) => Works(t)'
      BY <1>4 DEF Works, Refers
    <2>3. \A r \in Requests : Requesting(r) => Requesting(r)'
      BY DEF Requesting
    <2> QED BY <1>1, <1>4, <2>1, <2>2, <2>3 DEF Owed
  <1>5. Working(w)' => Owed'
    BY DEF Owed
  <1> QED BY <1>2, <1>3, <1>4, <1>5 DEF Inv, Accounted

\* Only the row of the one user is changed.
LEMMA OneRow ==
  ASSUME TypeOK, OneOfEach, NEW u \in Users, NEW row, SetRow(u, row) \/ UpdateRow(u, row)
  PROVE  /\ \A v \in Users : v = u
         /\ SetRow(u, row) => rend'[u] = row
         /\ UpdateRow(u, row) => rend'[u] = IF rend[u] = NoRow THEN NoRow ELSE row
  BY DEF OneOfEach, SetRow, UpdateRow, TypeOK

LEMMA ResetStaleInv ==
  ASSUME Inv, TypeOK', OneOfEach, NEW w \in Workers, ResetStale(w)
  PROVE  Inv'
  <1>1. TypeOK /\ worker[w].at = "resetStale" /\ worker'[w] = Free
    BY DEF Inv, ResetStale, Doing, Release, TypeOK
  <1>2. Knows(w)' /\ ~Working(w) /\ ~Active(w) /\ ~Active(w)' /\ ~Down(w)
    BY <1>1 DEF Knows, Busy, Free, Working, Active, Down
  <1>3. ASSUME NEW u \in Users, Settled(rend[u])
        PROVE  rend'[u] = rend[u]
    BY <1>3 DEF ResetStale, ResetRenditionsForTasks, TransientRowOf, Settled
  <1>4. \A u \in Users : Kept(u) => Kept(u)'
    BY <1>2, <1>3, KeptIs
  <1> QED BY <1>2, <1>4, ByWorker DEF ResetStale

LEMMA ClaimInv ==
  ASSUME Inv, TypeOK', OneOfEach, NEW w \in Workers, NEW u \in Users, ClaimNextTranscode(w, u)
  PROVE  Inv'
  <1>1. TypeOK /\ worker[w].at = "free"
    BY DEF Inv, ClaimNextTranscode, Doing
  <1>2. PICK t \in Tasks :
           /\ task[t].status = "queued" /\ UpdateStatus(t, "running")
           /\ \/ worker' = [worker EXCEPT ![w] = [Free EXCEPT !.at = "check", !.user = u, !.task = t]]
                 /\ cut' = cut
              \/ worker' = worker /\ cut' = TRUE
    BY DEF ClaimNextTranscode
  <1>3. \A x \in Tasks : IF x = t THEN task'[x].status = "running" ELSE task'[x].status = task[x].status
    BY <1>1, <1>2, StatusOf
  <1>7. CASE worker' = worker /\ cut' = TRUE
    <2>1. \A v \in Workers : Knows(v)'
      BY <1>3, <1>7, SameAll, KnowsOn DEF Inv
    <2>2. \A r \in Requests : req'[r].task \in Tasks => task'[req'[r].task].status # "unborn"
      BY <1>3 DEF Inv, Asks, ClaimNextTranscode
    <2> QED BY <1>7, <2>1, <2>2, CutInv
  <1> SUFFICES ASSUME worker' = [worker EXCEPT ![w] = [Free EXCEPT !.at = "check", !.user = u, !.task = t]],
                      cut' = cut
               PROVE  Inv'
    BY <1>2, <1>7
  <1>4. /\ worker'[w].at = "check" /\ worker'[w].task = t
        /\ ~worker'[w].init /\ worker'[w].sent = 0
    BY <1>1, <1>2 DEF TypeOK, Free
  <1>5. Knows(w)'
    BY <1>3, <1>4 DEF Knows
  <1>6. Working(w)' /\ ~Down(w)
    BY <1>1, <1>4 DEF Working, Down
  <1> QED BY <1>3, <1>5, <1>6, ByWorker DEF ClaimNextTranscode

\* What a worker keeps when it goes to another step.
LEMMA ThenIs ==
  ASSUME TypeOK, NEW w \in Workers, NEW at, Then(w, at)
  PROVE  /\ worker'[w].at = at /\ worker'[w].task = worker[w].task
         /\ worker'[w].init = worker[w].init /\ worker'[w].sent = worker[w].sent
         /\ worker'[w].ffmpeg = worker[w].ffmpeg /\ worker'[w].user = worker[w].user
  BY DEF Then, TypeOK, Processes

\* A job that fails, or whose rendition is to be removed, has the row to settle.
LEMMA WillSettle ==
  ASSUME Inv, TypeOK', OneOfEach, NEW w \in Workers, NEW at \in {"remove", "failTask", "failRow"},
         Then(w, at) \/ GiveUp(w, at), Busy(w), ~Down(w), UNCHANGED <<task, req, cut>>
  PROVE  Inv'
  <1>1. worker'[w].at = at /\ worker'[w].task = worker[w].task
    <2>1. CASE GiveUp(w, at)
      BY <2>1 DEF GiveUp, Free, Inv, TypeOK, Processes
    <2> QED BY <2>1, ThenIs DEF Inv
  <1>2. Knows(w)'
    BY <1>1 DEF Inv, Knows, Busy
  <1>3. Working(w)'
    BY <1>1 DEF Working
  <1> QED BY <1>2, <1>3, ByWorker

LEMMA CheckSourceInv ==
  ASSUME Inv, TypeOK', OneOfEach, NEW w \in Workers, CheckSource(w)
  PROVE  Inv'
  <1>1. TypeOK /\ worker[w].at = "check" /\ Busy(w) /\ ~Down(w)
    BY DEF Inv, CheckSource, Doing, Busy, Down
  <1>2. CASE worker' = [worker EXCEPT ![w].at = "discard", ![w].current = TRUE]
    <2>1. /\ worker'[w].at = "discard" /\ worker'[w].task = worker[w].task
          /\ worker'[w].init = worker[w].init /\ worker'[w].sent = worker[w].sent
      BY <1>1, <1>2 DEF TypeOK, Processes
    <2>2. Knows(w)' /\ Working(w)'
      BY <1>1, <2>1 DEF Inv, Knows, Busy, Working, CheckSource
    <2> QED BY <1>1, <2>2, ByWorker DEF CheckSource
  <1>3. CASE GiveUp(w, "failTask")
    BY <1>1, <1>3, WillSettle DEF CheckSource
  <1> QED BY <1>2, <1>3 DEF CheckSource

\* The worker goes on without what it should have done to the row.
LEMMA WorkerCut ==
  ASSUME Inv, TypeOK', OneOfEach, NEW w \in Workers, cut' = TRUE, UNCHANGED <<task, req>>, Knows(w)'
  PROVE  Inv'
  <1>1. \A v \in Workers : v = w
    BY DEF OneOfEach
  <1>2. \A r \in Requests : req'[r].task \in Tasks => task'[req'[r].task].status # "unborn"
    BY DEF Inv, Asks
  <1> QED BY <1>1, <1>2, CutInv

LEMMA DiscardInv ==
  ASSUME Inv, TypeOK', OneOfEach, NEW w \in Workers, DiscardPrevious(w)
  PROVE  Inv'
  <1>1. TypeOK /\ worker[w].at = "discard" /\ ~Down(w)
    BY DEF Inv, DiscardPrevious, Doing, Down
  <1>2. /\ worker'[w].at = "create" /\ worker'[w].task = worker[w].task
        /\ worker'[w].init = worker[w].init /\ worker'[w].sent = worker[w].sent
    BY <1>1, ThenIs DEF DiscardPrevious
  <1>3. Knows(w)' /\ Working(w)'
    BY <1>1, <1>2 DEF Inv, Knows, Busy, Working, DiscardPrevious
  <1> QED BY <1>1, <1>3, ByWorker DEF DiscardPrevious

LEMMA RemoveCancelledInv ==
  ASSUME Inv, TypeOK', OneOfEach, NEW w \in Workers, RemoveCancelled(w)
  PROVE  Inv'
  <1>1. /\ TypeOK /\ worker[w].at = "remove" /\ worker[w].user \in Users
        /\ Busy(w) /\ ~Down(w)
    BY DEF Inv, RemoveCancelled, Doing, Busy, Down, TypeOK, Processes
  <1>2. worker'[w].at = "cancelled" /\ worker'[w].task = worker[w].task
    BY <1>1, ThenIs DEF RemoveCancelled
  <1>3. Knows(w)'
    BY <1>1, <1>2 DEF Inv, Knows, Busy, RemoveCancelled
  <1>4. CASE DeleteRendition(worker[w].user) /\ cut' = cut
    <2>1. \A u \in Users : Kept(u)'
      BY <1>1, <1>4, OneRow, NoRowKept DEF DeleteRendition
    <2> QED BY <1>1, <1>3, <1>4, <2>1, ByWorker DEF RemoveCancelled
  <1>5. CASE cut' = TRUE
    BY <1>3, <1>5, WorkerCut DEF RemoveCancelled
  <1> QED BY <1>4, <1>5 DEF RemoveCancelled, TryDelete

LEMMA RecreateInv ==
  ASSUME Inv, TypeOK', OneOfEach, NEW w \in Workers, RecreateRendition(w)
  PROVE  Inv'
  <1>1. TypeOK /\ worker[w].at = "create" /\ Busy(w) /\ ~Down(w) /\ worker[w].user \in Users
    BY DEF Inv, RecreateRendition, Doing, Busy, Down, TypeOK, Processes
  <1>2. CASE /\ CreateRendition(worker[w].user, worker[w].current)
             /\ worker' = [worker EXCEPT ![w].at = "start", ![w].current = FALSE]
    <2>1. /\ worker'[w].at = "start" /\ worker'[w].task = worker[w].task
          /\ worker'[w].init = worker[w].init /\ worker'[w].sent = worker[w].sent
      BY <1>1, <1>2 DEF TypeOK, Processes
    <2>2. ~worker[w].init /\ worker[w].sent = 0
      BY <1>1 DEF Inv, Knows
    <2>3. Knows(w)'
      BY <1>1, <2>1, <2>2 DEF Inv, Knows, Busy, RecreateRendition
    <2>4. PICK u \in Users : u = worker[w].user
      BY <1>1
    <2> DEFINE row == [NoRow EXCEPT !.status = "queued", !.current = worker[w].current]
    <2>5. rend'[u] = row /\ row.init = NoWorker /\ row.segs = <<>> /\ \A v \in Users : v = u
      <3>1. row.init = NoWorker /\ row.segs = <<>>
        BY DEF NoRow
      <3>2. SetRow(u, row)
        BY <1>2, <2>4 DEF CreateRendition
      <3> HIDE DEF row
      <3> QED BY <1>1, <3>1, <3>2, OneRow
    <2>6. Matches(w, rend[u])' /\ Active(w)'
      <3> HIDE DEF row
      <3> QED BY <2>1, <2>2, <2>5 DEF Matches, Active, Upto
    <2>7. \A v \in Users : Kept(v)'
      BY <2>5, <2>6, KeptIs
    <2> QED BY <1>1, <2>3, <2>7, ByWorker DEF RecreateRendition
  <1>3. CASE GiveUp(w, "failTask")
    BY <1>1, <1>3, WillSettle DEF RecreateRendition
  <1> QED BY <1>2, <1>3 DEF RecreateRendition

\* A step while segments are published: the row goes on matching the worker.
LEMMA ByPublisher ==
  ASSUME Inv, TypeOK', OneOfEach, NEW w \in Workers, Active(w), UNCHANGED <<task, req, cut>>,
         Active(w)', Knows(w)', \A u \in Users : Matches(w, rend[u]) => Matches(w, rend[u])'
  PROVE  Inv'
  <1>1. ~Working(w) /\ ~Down(w)
    BY DEF Active, Working, Down
  <1>2. \A u \in Users : Kept(u) => Kept(u)'
    BY KeptIs
  <1> QED BY <1>1, <1>2, ByWorker

LEMMA StartTranscodeInv ==
  ASSUME Inv, TypeOK', OneOfEach, NEW w \in Workers, StartTranscode(w)
  PROVE  Inv'
  <1>1. TypeOK /\ worker[w].at = "start" /\ Busy(w) /\ ~Down(w) /\ Active(w)
    BY DEF Inv, StartTranscode, Doing, Busy, Down, Active
  <1>2. PICK u \in Users : u = worker[w].user
    BY <1>1 DEF TypeOK, Processes
  <1>3. CASE worker' = [worker EXCEPT ![w].at = "tick", ![w].ffmpeg = "on"]
    <2>1. /\ worker'[w].at = "tick" /\ worker'[w].task = worker[w].task
          /\ worker'[w].init = worker[w].init /\ worker'[w].sent = worker[w].sent
      BY <1>1, <1>3 DEF TypeOK, Processes
    <2>2. Knows(w)' /\ Active(w)'
      BY <1>1, <2>1 DEF Inv, Knows, Busy, Active, StartTranscode
    <2>3. /\ \/ rend'[u] = IF rend[u] = NoRow THEN NoRow ELSE [rend[u] EXCEPT !.status = "running"]
             \/ rend'[u] = rend[u]
          /\ \A v \in Users : v = u
      BY <1>1, <1>2, OneRow DEF StartTranscode, UpdateRenditionStatus, OneOfEach
    <2>4. rend[u] \in Renditions
      BY <1>1 DEF TypeOK
    <2>5. Matches(w, rend[u]) => Matches(w, rend[u])'
      BY <2>1, <2>3, <2>4 DEF Matches, Upto, Renditions
    <2> QED BY <1>1, <2>2, <2>3, <2>5, ByPublisher DEF StartTranscode
  <1>4. CASE GiveUp(w, "failTask")
    BY <1>1, <1>4, WillSettle DEF StartTranscode
  <1> QED BY <1>3, <1>4 DEF StartTranscode

LEMMA CheckCancelledInv ==
  ASSUME Inv, TypeOK', OneOfEach, NEW w \in Workers, CheckCancelled(w)
  PROVE  Inv'
  <1>1. TypeOK /\ worker[w].at = "tick" /\ Busy(w) /\ Active(w)
    BY DEF Inv, CheckCancelled, Doing, Busy, Active
  <1>2. /\ worker'[w].at = "publish" /\ worker'[w].task = worker[w].task
        /\ worker'[w].init = worker[w].init /\ worker'[w].sent = worker[w].sent
    BY <1>1, ThenIs DEF CheckCancelled, TypeOK, Processes
  <1>3. Knows(w)' /\ Active(w)'
    BY <1>1, <1>2 DEF Inv, Knows, Busy, Active, CheckCancelled
  <1>4. \A u \in Users : Matches(w, rend[u]) => Matches(w, rend[u])'
    BY <1>2 DEF Matches, Upto, CheckCancelled
  <1> QED BY <1>1, <1>3, <1>4, ByPublisher DEF CheckCancelled

LEMMA PublishInitInv ==
  ASSUME Inv, TypeOK', OneOfEach, NEW w \in Workers, PublishInit(w)
  PROVE  Inv'
  <1>1. TypeOK /\ worker[w].at = "publish" /\ Busy(w) /\ Active(w)
    BY DEF Inv, PublishInit, Doing, Busy, Active
  <1>2. PICK u \in Users : u = worker[w].user
    BY <1>1 DEF TypeOK, Processes
  <1>3. /\ worker'[w].at = "publish" /\ worker'[w].task = worker[w].task
        /\ worker'[w].init = TRUE /\ worker'[w].sent = worker[w].sent
    BY <1>1 DEF PublishInit, TypeOK, Processes
  <1>4. Knows(w)' /\ Active(w)'
    BY <1>1, <1>3 DEF Inv, Knows, Busy, Active, PublishInit
  <1>5. /\ rend'[u] = IF rend[u] = NoRow THEN NoRow ELSE [rend[u] EXCEPT !.init = w]
        /\ \A v \in Users : v = u
    BY <1>1, <1>2, OneRow DEF PublishInit, SetRenditionInit
  <1>6. rend[u] \in Renditions
    BY <1>1 DEF TypeOK
  <1>7. Matches(w, rend[u]) => Matches(w, rend[u])'
    BY <1>3, <1>5, <1>6 DEF Matches, Upto, Renditions
  <1> QED BY <1>1, <1>4, <1>5, <1>7, ByPublisher DEF PublishInit

LEMMA AppendInv ==
  ASSUME Inv, TypeOK', OneOfEach, NEW w \in Workers, AppendRenditionSegment(w)
  PROVE  Inv'
  <1>1. TypeOK /\ worker[w].at = "publish" /\ Busy(w) /\ ~Down(w) /\ Active(w)
    BY DEF Inv, AppendRenditionSegment, Doing, Busy, Down, Active
  <1>2. PICK u \in Users : u = worker[w].user
    BY <1>1 DEF TypeOK, Processes
  <1>3. CASE /\ rend[u] # NoRow
             /\ SetRow(u, [rend[u] EXCEPT !.segs = Append(@, <<w, worker[w].sent + 1>>)])
             /\ worker' = [worker EXCEPT ![w].sent = @ + 1]
    <2> DEFINE n == worker[w].sent
               segs == rend[u].segs
    <2>1. /\ worker'[w].at = "publish" /\ worker'[w].task = worker[w].task
          /\ worker'[w].init = worker[w].init /\ worker'[w].sent = n + 1 /\ n \in Nat
      BY <1>1, <1>3, TranscodeAssumption DEF TypeOK, Processes
    <2>2. Knows(w)' /\ Active(w)'
      BY <1>1, <2>1 DEF Inv, Knows, Busy, Active, AppendRenditionSegment
    <2>3. rend'[u].init = rend[u].init /\ rend'[u].segs = Append(segs, <<w, n + 1>>) /\ \A v \in Users : v = u
      BY <1>1, <1>3 DEF SetRow, OneOfEach, TypeOK, Renditions
    <2>4. segs \in Seq(Workers \X (1..Segments))
      BY <1>1 DEF TypeOK, Renditions
    <2>5. ASSUME Upto(segs, w, n)
          PROVE  Upto(Append(segs, <<w, n + 1>>), w, n + 1)
      <3> DEFINE x == <<w, n + 1>>
      <3>1. /\ Len(segs) = n /\ n \in Nat /\ \A i \in 1..n : segs[i] = <<w, i>>
        BY <2>1, <2>5 DEF Upto
      <3>2. Len(Append(segs, x)) = n + 1 /\ Append(segs, x)[n + 1] = x
        BY <2>4, <3>1
      <3>3. ASSUME NEW i \in 1..n
            PROVE  Append(segs, x)[i] = segs[i]
        BY <2>4, <3>1
      <3>4. \A i \in 1..(n + 1) : i = n + 1 \/ i \in 1..n
        BY <3>1
      <3> QED BY <3>1, <3>2, <3>3, <3>4 DEF Upto
    <2>6. Matches(w, rend[u]) => Matches(w, rend[u])'
      <3>1. ASSUME Matches(w, rend[u])
            PROVE  /\ rend'[u].init = IF worker'[w].init THEN w ELSE NoWorker
                   /\ Upto(rend'[u].segs, w, worker'[w].sent)
        BY <1>3, <2>1, <2>3, <2>5, <3>1 DEF Matches
      <3> QED BY <3>1 DEF Matches, Upto
    <2> QED BY <1>1, <2>2, <2>3, <2>6, ByPublisher DEF AppendRenditionSegment
  <1>4. CASE GiveUp(w, "failTask")
    BY <1>1, <1>4, WillSettle DEF AppendRenditionSegment
  <1> QED BY <1>2, <1>3, <1>4 DEF AppendRenditionSegment

LEMMA TickEndsInv ==
  ASSUME Inv, TypeOK', OneOfEach, NEW w \in Workers, TickEnds(w)
  PROVE  Inv'
  <1>1. TypeOK /\ worker[w].at = "publish" /\ Busy(w) /\ Active(w)
    BY DEF Inv, TickEnds, Doing, Busy, Active
  <1>2. /\ worker'[w].task = worker[w].task
        /\ worker'[w].init = worker[w].init /\ worker'[w].sent = worker[w].sent
        /\ \/ worker'[w].at = "tick"
           \/ /\ worker'[w].at = "settle" /\ worker'[w].ffmpeg = "whole"
              /\ worker[w].init => worker[w].sent = Segments
           \/ worker'[w].at = "settle" /\ worker'[w].ffmpeg = "broken"
    <2>1. CASE Then(w, "tick")
      BY <1>1, <2>1, ThenIs
    <2>2. ASSUME NEW f, worker' = [worker EXCEPT ![w].at = "settle", ![w].ffmpeg = f]
          PROVE  /\ worker'[w].at = "settle" /\ worker'[w].ffmpeg = f /\ worker'[w].task = worker[w].task
                 /\ worker'[w].init = worker[w].init /\ worker'[w].sent = worker[w].sent
      BY <1>1, <2>2 DEF TypeOK, Processes
    <2> QED BY <2>1, <2>2 DEF TickEnds
  <1>3. Knows(w)' /\ Active(w)'
    BY <1>1, <1>2 DEF Inv, Knows, Busy, Active, TickEnds
  <1>4. \A u \in Users : Matches(w, rend[u]) => Matches(w, rend[u])'
    BY <1>2 DEF Matches, Upto, TickEnds
  <1> QED BY <1>1, <1>3, <1>4, ByPublisher DEF TickEnds

LEMMA SettleInv ==
  ASSUME Inv, TypeOK', OneOfEach, NEW w \in Workers, Settle(w)
  PROVE  Inv'
  <1>1. TypeOK /\ worker[w].at = "settle" /\ Busy(w) /\ ~Down(w) /\ Active(w) /\ UNCHANGED <<task, req, cut, rend>>
    BY DEF Inv, Settle, Doing, Busy, Down, Active
  <1>2. CASE GiveUp(w, "remove") \/ GiveUp(w, "failTask")
    BY <1>1, <1>2, WillSettle
  <1>3. CASE Then(w, "ready") /\ worker[w].ffmpeg = "whole" /\ worker[w].init
    <2>1. /\ worker'[w].at = "ready" /\ worker'[w].task = worker[w].task
          /\ worker'[w].init = worker[w].init /\ worker'[w].sent = worker[w].sent
      BY <1>1, <1>3, ThenIs
    <2>2. Knows(w)' /\ Active(w)'
      BY <1>1, <1>3, <2>1 DEF Inv, Knows, Busy, Active
    <2>3. \A u \in Users : Matches(w, rend[u]) => Matches(w, rend[u])'
      BY <1>1, <2>1 DEF Matches, Upto
    <2> QED BY <1>1, <2>2, <2>3, ByPublisher
  <1> QED BY <1>2, <1>3 DEF Settle, Complete

LEMMA MarkReadyInv ==
  ASSUME Inv, TypeOK', OneOfEach, NEW w \in Workers, MarkReady(w)
  PROVE  Inv'
  <1>1. TypeOK /\ worker[w].at = "ready" /\ Busy(w) /\ ~Down(w) /\ Active(w)
    BY DEF Inv, MarkReady, Doing, Busy, Down, Active
  <1>2. PICK u \in Users : u = worker[w].user
    BY <1>1 DEF TypeOK, Processes
  <1>3. worker'[w].at = "completed" /\ worker'[w].task = worker[w].task
    BY <1>1, ThenIs DEF MarkReady
  <1>4. Knows(w)' /\ ~Active(w)' /\ ~Working(w)
    BY <1>1, <1>3 DEF Inv, Knows, Busy, Active, Working, MarkReady
  <1>9. CASE cut' = TRUE
    BY <1>4, <1>9, WorkerCut DEF MarkReady
  <1> SUFFICES ASSUME UpdateRenditionStatus(worker[w].user, "ready"), cut' = cut PROVE Inv'
    BY <1>9 DEF MarkReady
  <1>5. /\ rend'[u] = IF rend[u] = NoRow THEN NoRow ELSE [rend[u] EXCEPT !.status = "ready"]
        /\ \A v \in Users : v = u
    BY <1>1, <1>2, OneRow DEF UpdateRenditionStatus
  <1>6. rend[u] \in Renditions /\ worker[w].init /\ worker[w].sent = Segments
    BY <1>1 DEF TypeOK, Inv, Knows
  <1>7. ASSUME Matches(w, rend[u])
        PROVE  Settled(rend'[u])
    <2>1. CASE rend[u] = NoRow
      BY <1>5, <2>1 DEF Settled, NoRow, Live
    <2>2. CASE rend[u] # NoRow
      <3> DEFINE segs == rend[u].segs
      <3>1. rend[u].init = w /\ Len(segs) = Segments /\ \A i \in 1..Segments : segs[i] = <<w, i>>
        BY <1>6, <1>7, <2>2 DEF Matches, Upto
      <3>2. segs \in Seq(Workers \X (1..Segments))
        BY <1>6 DEF Renditions
      <3>3. segs = [i \in 1..Segments |-> <<w, i>>]
        <4> HIDE DEF segs
        <4> QED BY <3>1, <3>2
      <3>4. rend'[u].status = "ready" /\ rend'[u].init = w /\ rend'[u].segs = segs
        BY <1>5, <1>6, <2>2, <3>1 DEF Renditions
      <3> QED BY <3>3, <3>4 DEF Settled, Whole, Live
    <2> QED BY <2>1, <2>2
  <1>8. \A v \in Users : Kept(v) => Kept(v)'
    BY <1>1, <1>4, <1>5, <1>7, KeptIs
  <1> QED BY <1>1, <1>4, <1>8, ByWorker DEF MarkReady

\* A worker ends its own task, which is not queued.
LEMMA OwnTask ==
  ASSUME Inv, NEW w \in Workers, Busy(w), NEW s, TryStatus(worker[w].task, s)
  PROVE  /\ worker[w].task \in Tasks /\ task[worker[w].task].status \notin {"unborn", "queued"}
         /\ \A x \in Tasks :
              /\ x # worker[w].task => task'[x].status = task[x].status
              /\ x = worker[w].task => task'[x].status \in {task[x].status, s}
  <1>1. TypeOK /\ Knows(w)
    BY DEF Inv
  <1> QED BY <1>1, StatusOf DEF Knows, TryStatus

LEMMA EndTaskInv ==
  ASSUME Inv, TypeOK', OneOfEach, NEW w \in Workers, EndTask(w)
  PROVE  Inv'
  <1>1. /\ TypeOK /\ worker[w].at \in {"completed", "cancelled"}
        /\ Busy(w) /\ ~Down(w) /\ ~Active(w) /\ ~Working(w)
    BY DEF Inv, EndTask, Busy, Down, Active, Working
  <1>2. worker'[w] = Free
    BY <1>1 DEF EndTask, Release, TypeOK
  <1>3. Knows(w)' /\ ~Active(w)'
    BY <1>2 DEF Knows, Busy, Active, Free
  <1>4. \A x \in Tasks : \/ task'[x].status = task[x].status
                         \/ task'[x].status \notin {"unborn", "queued"} /\ task[x].status # "queued"
    BY <1>1, OwnTask DEF EndTask
  <1>5. \A u \in Users : Kept(u) => Kept(u)'
    BY <1>1, <1>3, KeptIs DEF EndTask
  <1> QED BY <1>1, <1>3, <1>4, <1>5, ByWorker DEF EndTask

LEMMA FailTaskInv ==
  ASSUME Inv, TypeOK', OneOfEach, NEW w \in Workers, FailTask(w)
  PROVE  Inv'
  <1>1. TypeOK /\ worker[w].at = "failTask" /\ Busy(w) /\ ~Down(w)
    BY DEF Inv, FailTask, Doing, Busy, Down
  <1>2. worker'[w].at = "failRow" /\ worker'[w].task = worker[w].task
    BY <1>1, ThenIs DEF FailTask
  <1>3. /\ worker[w].task \in Tasks /\ task'[worker[w].task].status \notin {"unborn", "queued"}
        /\ \A x \in Tasks : \/ task'[x].status = task[x].status
                            \/ task'[x].status \notin {"unborn", "queued"} /\ task[x].status # "queued"
    BY <1>1, OwnTask DEF FailTask
  <1>4. Knows(w)' /\ Working(w)'
    BY <1>2, <1>3 DEF Knows, Working
  <1> QED BY <1>1, <1>3, <1>4, ByWorker DEF FailTask

LEMMA FailRowInv ==
  ASSUME Inv, TypeOK', OneOfEach, NEW w \in Workers, FailRow(w)
  PROVE  Inv'
  <1>1. TypeOK /\ worker[w].at = "failRow" /\ Busy(w) /\ ~Down(w)
    BY DEF Inv, FailRow, Doing, Busy, Down
  <1>2. PICK u \in Users : u = worker[w].user
    BY <1>1 DEF TypeOK, Processes
  <1>3. worker'[w] = Free
    BY <1>1 DEF FailRow, Release, TypeOK
  <1>4. Knows(w)' /\ ~Active(w)'
    BY <1>3 DEF Knows, Busy, Active, Free
  <1>7. CASE cut' = TRUE
    BY <1>4, <1>7, WorkerCut DEF FailRow
  <1> SUFFICES ASSUME cut' = cut,
                      \/ RowOf(w) = NoRow /\ rend' = rend
                      \/ RowOf(w) # NoRow /\ FailRendition(worker[w].user)
               PROVE  Inv'
    BY <1>7 DEF FailRow
  <1>5. Settled(rend'[u])
    <2>1. RowOf(w) = rend[u]
      <3>1. worker[w].task \in Tasks
        BY <1>1 DEF Inv, Knows
      <3>2. task[worker[w].task].user \in Users
        BY <1>1, <3>1 DEF TypeOK, TaskRows
      <3> QED BY <1>2, <3>2 DEF RowOf, OneOfEach
    <2>2. CASE rend[u] = NoRow
      BY <2>1, <2>2 DEF Settled, NoRow, Live
    <2>3. CASE rend[u] # NoRow
      <3>1. UpdateRow(u, Emptied(rend[u], "failed"))
        BY <1>2, <2>1, <2>3 DEF FailRendition
      <3>2. rend'[u] = Emptied(rend[u], "failed")
        BY <1>1, <2>3, <3>1, OneRow
      <3>3. rend'[u].status = "failed"
        BY <1>1, <3>2 DEF TypeOK, Renditions, Emptied
      <3> QED BY <3>3 DEF Settled, Live
    <2> QED BY <2>2, <2>3
  <1>6. \A v \in Users : Kept(v)'
    <2>1. \A v \in Users : v = u
      BY DEF OneOfEach
    <2> QED BY <1>4, <1>5, <2>1, KeptIs
  <1> QED BY <1>1, <1>4, <1>6, ByWorker DEF FailRow

\* The start of the worker takes up whatever was left running.
LEMMA RequeueStaleInv ==
  ASSUME Inv, TypeOK', OneOfEach, NEW w \in Workers, RequeueStale(w)
  PROVE  Inv'
  <1>1. TypeOK /\ worker[w].at = "off" /\ \A v \in Workers : v = w
    BY DEF Inv, RequeueStale, Doing, OneOfEach
  <1>2. worker'[w].at \in {"resetStale", "free"}
    <2> DEFINE stale == {t \in Tasks : task[t].status \in {"running", "cancelling"}}
               begun == [Free EXCEPT !.at = "resetStale", !.stale = stale]
    <2>1. worker' = [worker EXCEPT ![w] = begun] \/ worker' = [worker EXCEPT ![w] = Free]
      BY DEF RequeueStale, Release
    <2>2. Free.at = "free" /\ begun.at = "resetStale"
      BY DEF Free
    <2> HIDE DEF begun
    <2> QED BY <1>1, <2>1, <2>2 DEF TypeOK
  <1>3. \A x \in Tasks : \/ task'[x].status = task[x].status /\ task[x].status \notin {"running", "cancelling"}
                         \/ task'[x].status = "queued" /\ task[x].status \in {"running", "cancelling"}
                         \/ task'[x].status = task[x].status /\ cut'
    BY <1>1 DEF RequeueStale, TypeOK, TaskRows
  <1>4. UNCHANGED <<rend, req>> /\ (~cut' => ~cut /\ \A r \in Requests : req[r].at \notin {"flag", "cancelling"})
    BY DEF RequeueStale, Overwriting
  <1>5. \A v \in Workers : Knows(v)' /\ ~Working(v) /\ ~Active(v) /\ ~Active(v)'
    BY <1>1, <1>2 DEF Knows, Busy, Working, Active
  <1>6. \A r \in Requests : Asks(r)'
    BY <1>3, <1>4 DEF Inv, Asks
  <1>7. ASSUME ~cut', NEW u \in Users
        PROVE  Owed' \/ Kept(u)'
    <2>1. CASE Kept(u)
      BY <1>4, <1>5, <2>1, KeptIs
    <2>2. CASE Owed
      <3>1. \A x \in Tasks : Works(x) => Works(x)'
        BY <1>3, <1>4, <1>7 DEF Works, Refers
      <3> QED BY <1>4, <1>5, <2>2, <3>1 DEF Owed, Requesting
    <2> QED BY <1>4, <1>7, <2>1, <2>2 DEF Inv, Accounted
  <1> QED BY <1>5, <1>6, <1>7 DEF Inv, Accounted

\* A worker that stopped hands its task to the next start.
LEMMA RequeueTaskInv ==
  ASSUME Inv, TypeOK', OneOfEach, NEW w \in Workers, RequeueTask(w)
  PROVE  Inv'
  <1>1. TypeOK /\ worker[w].at = "requeue" /\ Busy(w) /\ \A v \in Workers : v = w
    BY DEF Inv, RequeueTask, Doing, Busy, OneOfEach
  <1>2. worker'[w].at = "off"
    BY <1>1 DEF RequeueTask, TypeOK, Off, Free
  <1>3. \A x \in Tasks : \/ task'[x].status = task[x].status
                         \/ task'[x].status = "queued" /\ task[x].status \notin {"unborn", "queued"}
    BY <1>1, OwnTask DEF RequeueTask
  <1>4. UNCHANGED <<rend, req, cut>>
    BY DEF RequeueTask
  <1>5. \A v \in Workers : Knows(v)' /\ ~Working(v) /\ ~Active(v) /\ ~Active(v)' /\ Down(v)' /\ worker'[v].at = "off"
    BY <1>1, <1>2 DEF Knows, Busy, Working, Active, Down
  <1>6. \A r \in Requests : Asks(r)'
    BY <1>3, <1>4, <1>5 DEF Inv, Asks
  <1>7. ASSUME ~cut', NEW u \in Users
        PROVE  Owed' \/ Kept(u)'
    <2>1. CASE Kept(u)
      BY <1>1, <1>4, <1>5, <2>1, KeptIs
    <2>2. CASE Owed
      <3>1. \A x \in Tasks : Works(x) => Works(x)'
        BY <1>3, <1>4, <1>5 DEF Works, Refers
      <3> QED BY <1>4, <1>5, <2>2, <3>1 DEF Owed, Requesting
    <2> QED BY <1>4, <1>7, <2>1, <2>2 DEF Inv, Accounted
  <1> QED BY <1>5, <1>6, <1>7 DEF Inv, Accounted

\* Whatever a worker was at, its task is still there for the next start: where
\* it is not, the stop is a cut.
LEMMA WorkerGoesInv ==
  ASSUME Inv, TypeOK', OneOfEach, NEW w \in Workers, WorkerStops(w) \/ WorkerDies(w)
  PROVE  Inv'
  <1>1. TypeOK /\ Knows(w) /\ \A v \in Workers : v = w
    BY DEF Inv, OneOfEach
  <1>2. /\ \/ worker'[w].at = "off"
           \/ worker'[w].at = "requeue" /\ worker[w].at = "tick" /\ worker'[w].task = worker[w].task
        /\ UNCHANGED <<task, req>>
    BY <1>1 DEF WorkerStops, WorkerDies, Doing, TypeOK, Processes, Off, Free
  <1>3. ~cut' => ~cut /\ ~Disowned(w) /\ \A r \in Requests, t \in Tasks : ~Refers(r, t)
    BY DEF WorkerStops, WorkerDies, Stop, Overwriting, Refers
  <1>4. \A v \in Workers : Knows(v)' /\ Down(v)'
    BY <1>1, <1>2 DEF Knows, Busy, Down
  <1>5. \A r \in Requests : Asks(r)'
    BY <1>1, <1>2, <1>3 DEF Inv, Asks
  <1>6. ASSUME ~cut', NEW u \in Users
        PROVE  Owed' \/ Kept(u)'
    <2>1. CASE Busy(w)
      <3> DEFINE t == worker[w].task
      <3>1. t \in Tasks /\ t # NoTask /\ task[t].status \notin {"unborn", "queued"}
        BY <1>1, <2>1 DEF Knows, Tasks, NoTask
      <3>2. task[t].status \in Live
        BY <1>3, <1>6, <3>1 DEF Disowned
      <3>3. task[t].status \in {"running", "cancelling"}
        BY <3>1, <3>2 DEF Live
      <3>4. \E x \in Tasks : Works(x)'
        <4>1. PICK x \in Tasks : x = t
          BY <3>1
        <4> HIDE DEF t
        <4> QED BY <1>2, <1>3, <1>4, <1>6, <3>3, <4>1 DEF Works, Refers
      <3> QED BY <3>4 DEF Owed
    <2>2. CASE ~Busy(w)
      <3>1. ~Working(w) /\ ~Active(w) /\ ~Active(w)' /\ rend' = rend
        BY <1>2, <2>2 DEF Busy, Working, Active, WorkerStops, WorkerDies, Doing
      <3>2. CASE Kept(u)
        BY <3>1, <3>2, KeptIs
      <3>3. CASE Owed
        <4>1. \A x \in Tasks : Works(x) => Works(x)'
          BY <1>2, <1>4 DEF Works, Refers
        <4> QED BY <1>1, <1>2, <3>1, <3>3, <4>1 DEF Owed, Requesting
      <3> QED BY <1>3, <1>6, <3>2, <3>3 DEF Inv, Accounted
    <2> QED BY <2>1, <2>2
  <1> QED BY <1>4, <1>5, <1>6 DEF Inv, Accounted

-----------------------------------------------------------------------------
(* What holds with one user and one worker.                                *)

LEMMA InitInv == OneOfEach /\ Init => Inv
  <1> SUFFICES ASSUME Init PROVE Inv
    OBVIOUS
  <1>1. \A w \in Workers : Knows(w) /\ ~Active(w)
    BY DEF Init, Knows, Busy, Active, Off, Free
  <1>2. \A r \in Requests : Asks(r)
    BY IdleKnowsNothing DEF Init, Asks
  <1>3. \A u \in Users : Kept(u)
    BY <1>1 DEF Init, Kept, Settled, NoRow, Live
  <1> QED BY <1>1, <1>2, <1>3, TypeInit DEF Inv, Accounted

LEMMA StutterInv ==
  ASSUME Inv, UNCHANGED vars
  PROVE  Inv'
  <1> USE DEF vars
  <1>1. TypeOK'
    BY DEF Inv, TypeOK
  <1>2. \A w \in Workers : Knows(w)'
    BY DEF Inv, Knows, Busy
  <1>3. \A r \in Requests : Asks(r)'
    BY DEF Inv, Asks
  <1>4. Owed' <=> Owed
    BY DEF Owed, Requesting, Works, Refers, Down, Working
  <1>5. \A u \in Users : Kept(u) => Kept(u)'
    BY SameAll, KeptStays
  <1> QED BY <1>1, <1>2, <1>3, <1>4, <1>5 DEF Inv, Accounted

LEMMA StepInv ==
  ASSUME OneOfEach
  PROVE  Inv /\ [Next]_vars => Inv'
  <1> SUFFICES ASSUME Inv, [Next]_vars PROVE Inv'
    OBVIOUS
  <1>1. TypeOK'
    BY TypeStep DEF Inv
  <1>2. ASSUME NEW w \in Workers, WorkerStep(w)
        PROVE  Inv'
    BY <1>1, <1>2, RequeueStaleInv, ResetStaleInv, ClaimInv, CheckSourceInv, DiscardInv, RemoveCancelledInv, RecreateInv,
       StartTranscodeInv, CheckCancelledInv, PublishInitInv, AppendInv, TickEndsInv, SettleInv,
       MarkReadyInv, EndTaskInv, FailTaskInv, FailRowInv, RequeueTaskInv DEF WorkerStep
  <1> QED BY <1>1, <1>2, RequestsInv, WorkerGoesInv, StutterInv DEF Next

THEOREM Invariant == OneOfEach => (Spec => []Inv)
  <1> SUFFICES ASSUME OneOfEach PROVE Spec => []Inv
    OBVIOUS
  <1>1. Init => Inv
    BY InitInv
  <1>2. Inv /\ [Next]_vars => Inv'
    BY StepInv
  <1> QED BY <1>1, <1>2, PTL DEF Spec

\* Where nothing is pending, nothing is owed.
LEMMA NothingOwed ==
  ASSUME Inv, OneOfEach, NEW u \in Users, ~Pending(u), ~cut
  PROVE  Settled(rend[u])
  <1>1. TypeOK /\ \A v \in Users : v = u
    BY DEF Inv, OneOfEach
  <1>2. \A w \in Workers : worker[w].at \in {"off", "free"}
    BY DEF Pending
  <1>3. \A r \in Requests : ~Requesting(r)
    <2>1. \A r \in Requests : req[r].user = u
      BY <1>1 DEF TypeOK, Records
    <2>2. \A r \in Requests : req[r] = Idle
      BY <2>1 DEF Pending
    <2> QED BY <2>2 DEF Requesting, Idle
  <1>4. \A t \in Tasks : ~Works(t)
    <2>1. \A t \in Tasks : task[t].user = u
      BY <1>1 DEF TypeOK, TaskRows
    <2>2. \A t \in Tasks : task[t].status # "queued"
      BY <2>1 DEF Pending
    <2>3. ASSUME NEW t \in Tasks, task[t].status \in {"running", "cancelling"}, NEW w \in Workers
          PROVE  ~Down(w)
      BY <1>2, <2>1, <2>3 DEF Pending, Down
    <2>4. Workers # {}
      BY DEF OneOfEach
    <2> QED BY <2>2, <2>3, <2>4 DEF Works
  <1>5. ~Owed /\ \A w \in Workers : ~Active(w)
    BY <1>2, <1>3, <1>4 DEF Owed, Working, Active
  <1> QED BY <1>5 DEF Inv, Accounted, Kept

\* worker.go:455-569 and transcode.go:54-80: whatever requests reset, empty and
\* delete under the worker, and whichever statement fails and is made good, a
\* rendition offered as ready, once nothing is pending, has its init segment
\* and every media segment in order.  Nothing is said where a chain of
\* statements was broken off (cut).
THEOREM ReadyIsWholeHolds == OneOfEach => (Spec => []ReadyIsWhole)
  <1> SUFFICES ASSUME OneOfEach PROVE Spec => []ReadyIsWhole
    OBVIOUS
  <1>1. Inv => ReadyIsWhole
    BY NothingOwed DEF ReadyIsWhole, Settled
  <1> QED BY <1>1, Invariant, PTL

\* transcode.go:58: a rendition that refuses a new request has a task, a request
\* or a worker that will settle it, unless a chain of statements was broken off
\* (cut): by the failures and stops that the code neither undoes nor repairs.
THEOREM NothingStrandedHolds == OneOfEach => (Spec => []NothingStranded)
  <1> SUFFICES ASSUME OneOfEach PROVE Spec => []NothingStranded
    OBVIOUS
  <1>1. Inv => NothingStranded
    BY NothingOwed DEF NothingStranded, Settled
  <1> QED BY <1>1, Invariant, PTL

===============================================================================
