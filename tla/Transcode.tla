------------------------------- MODULE Transcode -------------------------------
(***************************************************************************)
(* Playback renditions: the API process queues, cancels and discards them, *)
(* worker processes produce them.                                          *)
(*                                                                         *)
(* Two tables describe one job.  The rendition row is keyed by the source  *)
(* file and the profile and holds the manifest that is played; the task    *)
(* row is keyed by its ID and is what workers claim and users cancel.      *)
(* Every statement is a step of its own: no transaction spans the tables,  *)
(* and nothing in the rendition row says which job may write it.  Every    *)
(* statement may fail, and may have taken effect although it is reported   *)
(* as failed.                                                              *)
(*                                                                         *)
(* There is one video per user and one profile.  Generations of the video  *)
(* are only ever compared with the current one, so a row, a request or a   *)
(* worker holds whether the generation it knows is (still) current.  A     *)
(* segment is identified by the worker that published it and its position. *)
(* Tasks are numbered in the order of their creation and of their claims.  *)
(***************************************************************************)
EXTENDS Naturals, Sequences, FiniteSets

CONSTANTS
  Users,
  Requests,     \* HTTP requests being served
  Kinds,        \* what they may ask for
  Workers,      \* worker processes
  NoWorker,
  Segments,     \* segments of the whole rendition
  MaxTask,      \* bound: tasks ever created
  MaxStops      \* bound: how often the server, and the workers, stop

ASSUME TranscodeAssumption ==
  /\ Kinds \subseteq {"transcode", "cancel", "upload", "delete"}
  /\ NoWorker \notin Workers
  /\ {Segments, MaxTask, MaxStops} \subseteq Nat
  /\ Users # {} /\ Segments > 0

VARIABLES
  source,       \* users whose video still exists
  rend,         \* domus_file_renditions
  task,         \* tasks
  req,          \* the requests in flight
  worker,       \* the worker processes
  stops,        \* how often the server and the workers have stopped
  cut           \* history: a chain of statements was broken off, by a stop, a
                \* start or a failure that is not undone, and nothing repairs
                \* what it left

vars == <<source, rend, task, req, worker, stops, cut>>

-----------------------------------------------------------------------------
(* The tables.                                                             *)

Tasks == 1..MaxTask
NoTask == 0
SomeUser == CHOOSE u \in Users : TRUE

Live == {"queued", "running", "cancelling"}
Terminal == {"completed", "failed", "cancelled"}

NoRow == [status |-> "none", task |-> NoTask, current |-> FALSE, init |-> NoWorker, segs |-> <<>>]
Unborn == [status |-> "unborn", user |-> SomeUser]

\* Every statement but CreateRendition acts on the row that is there, whoever
\* created it, and does nothing without one.
SetRow(u, row) == rend' = [rend EXCEPT ![u] = row]
UpdateRow(u, row) == rend' = [rend EXCEPT ![u] = IF @ = NoRow THEN @ ELSE row]
Emptied(row, s) == [row EXCEPT !.status = s, !.init = NoWorker, !.segs = <<>>]

CreateRendition(u, current) == SetRow(u, [NoRow EXCEPT !.status = "queued", !.current = current])
DeleteRendition(u) == SetRow(u, NoRow)
UpdateRenditionStatus(u, s) == UpdateRow(u, [rend[u] EXCEPT !.status = s])
SetRenditionTask(u, t) == UpdateRow(u, [rend[u] EXCEPT !.task = t])
SetRenditionInit(u, w) == UpdateRow(u, [rend[u] EXCEPT !.init = w])
FailRendition(u) == UpdateRow(u, Emptied(rend[u], "failed"))
ResetRendition(u) == UpdateRow(u, Emptied(rend[u], "queued"))
SetRenditionCancelling(u, t) ==
  SetRow(u, IF rend[u].task = t /\ rend[u].status \in {"queued", "running"}
            THEN [rend[u] EXCEPT !.status = "cancelling"] ELSE rend[u])

\* The segments are removed before the row changes: a call that fails has done
\* nothing, or has left a row without the segments it lists.
RemovalFails(u) == rend' \in {rend, [rend EXCEPT ![u] = Emptied(@, @.status)]}
TransientRowOf(u, ts) ==
  \E t \in ts : task[t].user = u /\ rend[u].task = t /\ rend[u].status \in Live
ResetRenditionsForTasks(done, failed) ==
  rend' = [u \in Users |-> IF TransientRowOf(u, done) THEN Emptied(rend[u], "queued")
                           ELSE IF TransientRowOf(u, failed) THEN Emptied(rend[u], rend[u].status)
                           ELSE rend[u]]

UpdateStatus(t, s) == task' = [task EXCEPT ![t].status = IF @ = "deleted" THEN @ ELSE s]

\* Calls whose errors are discarded: of a task's status, and of a deletion
\* that nothing repeats.
TryStatus(t, s) == UpdateStatus(t, s) \/ task' = task
TryDelete(u) ==
  \/ DeleteRendition(u) /\ cut' = cut
  \/ rend[u] # NoRow /\ RemovalFails(u) /\ cut' = TRUE

\* A stop, of the server or of a worker.  A request or a worker may have been
\* between two statements that no later step completes.
Stop(between) ==
  /\ stops < MaxStops /\ stops' = stops + 1
  /\ cut' = (cut \/ between)

-----------------------------------------------------------------------------
(* Requests.                                                               *)

Idle == [at |-> "idle", user |-> SomeUser, task |-> NoTask, current |-> FALSE]

Begin(r, at, u, t) ==
  /\ req[r] = Idle
  /\ req' = [req EXCEPT ![r] = [at |-> at, user |-> u, task |-> t, current |-> at = "reserve"]]
At(r, at) == req[r].at = at
Go(r, at) == req' = [req EXCEPT ![r].at = at]
Answer(r) == req' = [req EXCEPT ![r] = Idle]

\* POST /file/transcode looks up the source and its renditions.  A rendition
\* of any generation refuses it; otherwise the request ...
RequestTranscode(r, u) ==
  /\ "transcode" \in Kinds /\ u \in source
  /\ rend[u].status \notin Live \cup {"ready"}
  /\ Begin(r, "reserve", u, NoTask)
  /\ UNCHANGED <<source, rend, task, worker, stops, cut>>

\* ... creates the row, or resets the one that is there by now, and reads it
\* back; when that fails the row stays, and no task will come for it,
Reserve(r) ==
  /\ At(r, "reserve")
  /\ \/ /\ CreateRendition(req[r].user, req[r].current) /\ cut' = cut
        /\ req' = [req EXCEPT ![r].at = "enqueue", ![r].current = FALSE]
     \/ CreateRendition(req[r].user, req[r].current) /\ cut' = TRUE /\ Answer(r)
     \/ UNCHANGED <<rend, cut>> /\ Answer(r)
  /\ UNCHANGED <<source, task, worker, stops>>

\* Mutant: a failure is answered and not undone.
CreateQueuedOrGiveUp(r) ==
  /\ At(r, "enqueue")
  /\ \/ \E t \in Tasks :
          /\ task[t] = Unborn /\ \A s \in 1..(t - 1) : task[s] # Unborn
          /\ task' = [task EXCEPT ![t] = [status |-> "queued", user |-> req[r].user]]
          /\ req' = [req EXCEPT ![r].at = "link", ![r].task = t]
     \/ task' = task /\ Answer(r)
  /\ UNCHANGED <<source, rend, worker, stops, cut>>

\* ... creates the task
CreateQueued(r) ==
  /\ At(r, "enqueue")
  /\ \/ \E t \in Tasks :
          /\ task[t] = Unborn /\ \A s \in 1..(t - 1) : task[s] # Unborn
          /\ task' = [task EXCEPT ![t] = [status |-> "queued", user |-> req[r].user]]
          /\ \/ req' = [req EXCEPT ![r].at = "link", ![r].task = t]
             \/ Go(r, "undo")
     \/ task' = task /\ Go(r, "undo")
  /\ UNCHANGED <<source, rend, worker, stops, cut>>

\* ... and tells the row its task.
LinkTask(r) ==
  /\ At(r, "link")
  /\ \/ SetRenditionTask(req[r].user, req[r].task) /\ (Answer(r) \/ Go(r, "undo"))
     \/ rend' = rend /\ Go(r, "undo")
  /\ UNCHANGED <<source, task, worker, stops, cut>>

\* A failure is undone: the row first, then the task if its creation succeeded.
UndoRendition(r) ==
  /\ At(r, "undo")
  /\ TryDelete(req[r].user)
  /\ IF req[r].task = NoTask THEN Answer(r) ELSE Go(r, "undoTask")
  /\ UNCHANGED <<source, task, worker, stops>>

UndoTask(r) ==
  /\ At(r, "undoTask")
  /\ TryStatus(req[r].task, "deleted") /\ Answer(r)
  /\ UNCHANGED <<source, rend, worker, stops, cut>>

\* DELETE /task/:id acts on the status it reads first.
CancelTask(r, t) ==
  /\ "cancel" \in Kinds
  /\ \/ task[t].status = "queued" /\ Begin(r, "drop", task[t].user, t)
     \/ task[t].status = "running" /\ Begin(r, "flag", task[t].user, t)
  /\ UNCHANGED <<source, rend, task, worker, stops, cut>>

CancelQueued(r) ==
  /\ At(r, "drop")
  /\ TryDelete(req[r].user) /\ Go(r, "cancelled")
  /\ UNCHANGED <<source, task, worker, stops>>

CancelRunning(r) ==
  /\ At(r, "flag")
  /\ SetRenditionCancelling(req[r].user, req[r].task) \/ rend' = rend
  /\ Go(r, "cancelling")
  /\ UNCHANGED <<source, task, worker, stops, cut>>

CancelStatus(r) ==
  /\ req[r].at \in {"cancelled", "cancelling"}
  /\ TryStatus(req[r].task, req[r].at) /\ Answer(r)
  /\ UNCHANGED <<source, rend, worker, stops, cut>>

\* POST /task/clear-done
ClearDone(u) ==
  /\ "cancel" \in Kinds
  /\ \E t \in Tasks : task[t].user = u /\ task[t].status \in Terminal
  /\ task' = [t \in Tasks |-> IF task[t].user = u /\ task[t].status \in Terminal
                              THEN [task[t] EXCEPT !.status = "deleted"] ELSE task[t]]
  /\ UNCHANGED <<source, rend, req, worker, stops, cut>>

\* A new generation makes what rows, requests and workers know an earlier one.
NewGeneration(u) ==
  /\ rend' = [rend EXCEPT ![u].current = FALSE]
  /\ worker' = [w \in Workers |->
                 IF worker[w].user = u THEN [worker[w] EXCEPT !.current = FALSE] ELSE worker[w]]
Outdate(u) == [r \in Requests |->
                 IF req[r].user = u THEN [req[r] EXCEPT !.current = FALSE] ELSE req[r]]

\* The end of an upload over the source, and its permanent deletion: first
\* the file changes, then its renditions are removed.
ReplaceSource(r, u) ==
  /\ "upload" \in Kinds /\ u \in source /\ req[r] = Idle
  /\ NewGeneration(u)
  /\ req' = [Outdate(u) EXCEPT ![r] = [Idle EXCEPT !.at = "cleanup", !.user = u]]
  /\ UNCHANGED <<source, task, stops, cut>>

DeleteSource(r, u) ==
  /\ "delete" \in Kinds /\ u \in source /\ req[r] = Idle
  /\ source' = source \ {u}
  /\ NewGeneration(u)
  /\ req' = [Outdate(u) EXCEPT ![r] = [Idle EXCEPT !.at = "cleanup", !.user = u]]
  /\ UNCHANGED <<task, stops, cut>>

CleanupRenditions(r) ==
  /\ At(r, "cleanup")
  /\ TryDelete(req[r].user) \/ UNCHANGED <<rend, cut>>
  /\ Answer(r)
  /\ UNCHANGED <<source, task, worker, stops>>

\* A mount writes to the source without anybody removing renditions.
MountWrite(u) ==
  /\ "upload" \in Kinds /\ u \in source
  /\ NewGeneration(u) /\ req' = Outdate(u)
  /\ UNCHANGED <<source, task, stops, cut>>

\* The server stops between two steps of its requests.
ServerStops ==
  /\ \E r \in Requests : req[r] # Idle
  /\ Stop(\E r \in Requests : req[r].at \in {"enqueue", "undo"})
  /\ req' = [r \in Requests |-> Idle]
  /\ UNCHANGED <<source, rend, task, worker>>

-----------------------------------------------------------------------------
(* Workers.  user is the one whose mount is being served; ffmpeg is off,   *)
(* on, killed, or ended whole or broken.                                   *)

Free == [at |-> "free", user |-> SomeUser, task |-> NoTask, current |-> FALSE,
         init |-> FALSE, sent |-> 0, ffmpeg |-> "off", stale |-> {}]
Off == [Free EXCEPT !.at = "off"]

Doing(w, at) == worker[w].at = at
Then(w, at) == worker' = [worker EXCEPT ![w].at = at]
\* The job failed or was cancelled: what its loop knew is of no use any more.
GiveUp(w, at) ==
  worker' = [worker EXCEPT ![w] =
               [Free EXCEPT !.at = at, !.user = worker[w].user, !.task = worker[w].task]]
Release(w) == worker' = [worker EXCEPT ![w] = Free]
\* The rendition of the job, looked up under the user of the pass.
RowOf(w) == IF task[worker[w].task].user = worker[w].user THEN rend[worker[w].user] ELSE NoRow

\* A request that has read the status of a task and is about to write another.
Overwriting ==
  \E r \in Requests : req[r].at \in {"drop", "cancelled", "flag", "cancelling", "undo", "undoTask"}

\* A job whose task has ended: no start of a worker takes it up again.
Disowned(w) == worker[w].task # NoTask /\ task[worker[w].task].status \notin Live

\* A worker that starts takes whatever runs for the residue of a dead one; it
\* goes on without when that fails.
RequeueStale(w) ==
  /\ Doing(w, "off")
  /\ LET stale == {t \in Tasks : task[t].status \in {"running", "cancelling"}} IN
       \/ /\ task' = [t \in Tasks |-> IF t \in stale THEN [task[t] EXCEPT !.status = "queued"]
                                      ELSE task[t]]
          /\ \/ worker' = [worker EXCEPT ![w] = [Free EXCEPT !.at = "resetStale", !.stale = stale]]
             \/ Release(w)
          /\ cut' = (cut \/ Overwriting)
       \/ /\ task' = task /\ Release(w)
          /\ cut' = (cut \/ Overwriting \/ stale # {})
  /\ UNCHANGED <<source, rend, req, stops>>

\* One call per task, each of which may fail.
ResetStale(w) ==
  /\ Doing(w, "resetStale")
  /\ \E done, failed \in SUBSET worker[w].stale : ResetRenditionsForTasks(done, failed)
  /\ Release(w)
  /\ UNCHANGED <<source, task, req, stops, cut>>

\* The oldest queued task of any user, whoever the pass is about.  A claim that
\* is made and reported as failed leaves a running task that nobody is at.
ClaimNextTranscode(w, u) ==
  /\ Doing(w, "free")
  /\ \E t \in Tasks :
       /\ task[t].status = "queued" /\ \A s \in 1..(t - 1) : task[s].status # "queued"
       /\ UpdateStatus(t, "running")
       /\ \/ /\ worker' = [worker EXCEPT ![w] = [Free EXCEPT !.at = "check", !.user = u, !.task = t]]
             /\ cut' = cut
          \/ worker' = worker /\ cut' = TRUE
  /\ UNCHANGED <<source, rend, req, stops>>

\* The row and the source are looked up, and their generations compared.
CheckSource(w) ==
  /\ Doing(w, "check")
  /\ \/ /\ RowOf(w).current
        /\ worker' = [worker EXCEPT ![w].at = "discard", ![w].current = TRUE]
     \/ GiveUp(w, "failTask")
  /\ UNCHANGED <<source, rend, task, req, stops, cut>>

\* The row is reset by deleting and creating it, which unlinks its task.
DiscardPrevious(w) ==
  /\ Doing(w, "discard")
  /\ DeleteRendition(worker[w].user) \/ RemovalFails(worker[w].user)
  /\ Then(w, "create")
  /\ UNCHANGED <<source, task, req, stops, cut>>

RecreateRendition(w) ==
  /\ Doing(w, "create")
  /\ \/ /\ CreateRendition(worker[w].user, worker[w].current)
        /\ \/ worker' = [worker EXCEPT ![w].at = "start", ![w].current = FALSE]
           \/ GiveUp(w, "failTask")
     \/ rend' = rend /\ GiveUp(w, "failTask")
  /\ UNCHANGED <<source, task, req, stops, cut>>

StartTranscode(w) ==
  /\ Doing(w, "start")
  /\ UpdateRenditionStatus(worker[w].user, "running") \/ rend' = rend
  /\ \/ worker' = [worker EXCEPT ![w].at = "tick", ![w].ffmpeg = "on"]
     \/ GiveUp(w, "failTask")
  /\ UNCHANGED <<source, task, req, stops, cut>>

\* A tick of the loop begins with a look at the status of the row, which may
\* fail.
CheckCancelled(w) ==
  /\ Doing(w, "tick")
  /\ \/ Then(w, "publish")
     \/ /\ rend[worker[w].user].status = "cancelling"
        /\ worker' = [worker EXCEPT ![w].at = "publish", ![w].ffmpeg = "killed"]
  /\ UNCHANGED <<source, rend, task, req, stops, cut>>

PublishInit(w) ==
  /\ Doing(w, "publish") /\ ~worker[w].init
  /\ SetRenditionInit(worker[w].user, w)
  /\ worker' = [worker EXCEPT ![w].init = TRUE]
  /\ UNCHANGED <<source, task, req, stops, cut>>

\* Mutant: the loop goes on after the last segment.
AppendBeyond(w) ==
  /\ Doing(w, "publish") /\ worker[w].init /\ worker[w].sent <= Segments
  /\ SetRow(worker[w].user, [rend[worker[w].user] EXCEPT !.segs = Append(@, <<w, worker[w].sent + 1>>)])
  /\ worker' = [worker EXCEPT ![w].sent = @ + 1]
  /\ UNCHANGED <<source, task, req, stops, cut>>

AppendRenditionSegment(w) ==
  /\ Doing(w, "publish") /\ worker[w].init /\ worker[w].sent < Segments
  /\ LET u == worker[w].user IN
       \/ /\ rend[u] # NoRow
          /\ SetRow(u, [rend[u] EXCEPT !.segs = Append(@, <<w, worker[w].sent + 1>>)])
          /\ worker' = [worker EXCEPT ![w].sent = @ + 1] \/ GiveUp(w, "failTask")
       \/ /\ rend' = rend
          /\ GiveUp(w, "failTask")
  /\ UNCHANGED <<source, task, req, stops, cut>>

\* What is left when a tick is over is published by a later one.  Once ffmpeg
\* has ended, whole or not, everything it completed is published first; a
\* kill may come when it has completed everything.
TickEnds(w) ==
  /\ Doing(w, "publish")
  /\ \/ Then(w, "tick")
     \/ /\ IF worker[w].init THEN worker[w].sent = Segments ELSE worker[w].ffmpeg = "on"
        /\ worker' = [worker EXCEPT ![w].at = "settle", ![w].ffmpeg = "whole"]
     \/ worker' = [worker EXCEPT ![w].at = "settle", ![w].ffmpeg = "broken"]
  /\ UNCHANGED <<source, rend, task, req, stops, cut>>

\* Mutant: the end of ffmpeg alone decides.
SettleUnchecked(w) ==
  /\ Doing(w, "settle")
  /\ \/ rend[worker[w].user].status = "cancelling" /\ GiveUp(w, "remove")
     \/ worker[w].ffmpeg = "whole" /\ Then(w, "ready")
     \/ worker[w].ffmpeg # "whole" /\ GiveUp(w, "failTask")
  /\ UNCHANGED <<source, rend, task, req, stops, cut>>

Complete(w) == worker[w].ffmpeg = "whole" /\ worker[w].init /\ worker[w].sent > 0

\* The status is looked up once more; when that fails it is taken for another.
Settle(w) ==
  /\ Doing(w, "settle")
  /\ \/ rend[worker[w].user].status = "cancelling" /\ GiveUp(w, "remove")
     \/ Complete(w) /\ Then(w, "ready")
     \/ ~Complete(w) /\ GiveUp(w, "failTask")
  /\ UNCHANGED <<source, rend, task, req, stops, cut>>

RemoveCancelled(w) ==
  /\ Doing(w, "remove")
  /\ TryDelete(worker[w].user) /\ Then(w, "cancelled")
  /\ UNCHANGED <<source, task, req, stops>>

\* The task is completed whether the row could be marked or not.
MarkReady(w) ==
  /\ Doing(w, "ready")
  /\ \/ UpdateRenditionStatus(worker[w].user, "ready") /\ cut' = cut
     \/ rend' = rend /\ cut' = TRUE
  /\ Then(w, "completed")
  /\ UNCHANGED <<source, task, req, stops>>

EndTask(w) ==
  /\ worker[w].at \in {"completed", "cancelled"}
  /\ TryStatus(worker[w].task, worker[w].at) /\ Release(w)
  /\ UNCHANGED <<source, rend, req, stops, cut>>

FailTask(w) ==
  /\ Doing(w, "failTask")
  /\ TryStatus(worker[w].task, "failed") /\ Then(w, "failRow")
  /\ UNCHANGED <<source, rend, req, stops, cut>>

\* The row of another user's task is not found under the user of the pass.
FailRow(w) ==
  /\ Doing(w, "failRow")
  /\ \/ RowOf(w) = NoRow /\ UNCHANGED <<rend, cut>>
     \/ RowOf(w) # NoRow /\ FailRendition(worker[w].user) /\ cut' = cut
     \/ RowOf(w) # NoRow /\ RemovalFails(worker[w].user) /\ cut' = TRUE
  /\ Release(w)
  /\ UNCHANGED <<source, task, req, stops>>

\* SIGTERM: the loop resets the rendition, then queues the task again.
WorkerStops(w) ==
  /\ Doing(w, "tick") /\ Stop(Overwriting \/ Disowned(w))
  /\ ResetRendition(worker[w].user) \/ RemovalFails(worker[w].user)
  /\ worker' = [worker EXCEPT ![w].at = "requeue"]
  /\ UNCHANGED <<source, task, req>>

RequeueTask(w) ==
  /\ Doing(w, "requeue")
  /\ TryStatus(worker[w].task, "queued")
  /\ worker' = [worker EXCEPT ![w] = Off]
  /\ UNCHANGED <<source, rend, req, stops, cut>>

WorkerDies(w) ==
  /\ worker[w] # Off
  /\ Stop(Overwriting \/ Disowned(w))
  /\ worker' = [worker EXCEPT ![w] = Off]
  /\ UNCHANGED <<source, rend, task, req>>

-----------------------------------------------------------------------------
Init ==
  /\ source = Users
  /\ rend = [u \in Users |-> NoRow]
  /\ task = [t \in Tasks |-> Unborn]
  /\ req = [r \in Requests |-> Idle]
  /\ worker = [w \in Workers |-> Off]
  /\ stops = 0 /\ cut = FALSE

RequestStep(r) ==
  \/ Reserve(r) \/ CreateQueued(r) \/ LinkTask(r)
  \/ UndoRendition(r) \/ UndoTask(r)
  \/ CancelQueued(r) \/ CancelRunning(r) \/ CancelStatus(r)
  \/ CleanupRenditions(r)

WorkerStep(w) ==
  \/ RequeueStale(w) \/ ResetStale(w)
  \/ \E u \in Users : ClaimNextTranscode(w, u)
  \/ CheckSource(w) \/ DiscardPrevious(w) \/ RecreateRendition(w)
  \/ StartTranscode(w)
  \/ CheckCancelled(w) \/ PublishInit(w) \/ AppendRenditionSegment(w) \/ TickEnds(w)
  \/ Settle(w) \/ RemoveCancelled(w) \/ MarkReady(w) \/ EndTask(w)
  \/ FailTask(w) \/ FailRow(w) \/ RequeueTask(w)

Next ==
  \/ \E r \in Requests, u \in Users :
       RequestTranscode(r, u) \/ ReplaceSource(r, u) \/ DeleteSource(r, u)
  \/ \E r \in Requests, t \in Tasks : CancelTask(r, t)
  \/ \E r \in Requests : RequestStep(r)
  \/ \E u \in Users : ClearDone(u) \/ MountWrite(u)
  \/ ServerStops
  \/ \E w \in Workers : WorkerStep(w) \/ WorkerStops(w) \/ WorkerDies(w)

Spec == Init /\ [][Next]_vars

-----------------------------------------------------------------------------
(* Properties.                                                             *)

Renditions ==
  [status : Live \cup {"none", "ready", "failed"}, task : Tasks \cup {NoTask}, current : BOOLEAN,
   init : Workers \cup {NoWorker}, segs : Seq(Workers \X (1..Segments))]
TaskRows == [status : Live \cup Terminal \cup {"unborn", "deleted"}, user : Users]
Records ==
  [at : {"idle", "reserve", "enqueue", "link", "undo", "undoTask", "drop", "cancelled",
         "flag", "cancelling", "cleanup"},
   user : Users, task : Tasks \cup {NoTask}, current : BOOLEAN]
Processes ==
  [at : {"off", "free", "resetStale", "check", "discard", "create", "start", "tick", "publish",
         "settle", "remove", "ready", "completed", "cancelled", "failTask", "failRow", "requeue"},
   user : Users, task : Tasks \cup {NoTask}, current : BOOLEAN, init : BOOLEAN,
   sent : 0..Segments, ffmpeg : {"off", "on", "killed", "whole", "broken"}, stale : SUBSET Tasks]

\* Every variable keeps its type; in particular no manifest outgrows what
\* ffmpeg produced.
TypeOK ==
  /\ source \subseteq Users
  /\ rend \in [Users -> Renditions]
  /\ task \in [Tasks -> TaskRows]
  /\ req \in [Requests -> Records]
  /\ worker \in [Workers -> Processes]
  /\ stops \in 0..MaxStops /\ cut \in BOOLEAN

\* The init segment and every media segment, in order, from one worker.
Whole(row) == \E w \in Workers : row.init = w /\ row.segs = [i \in 1..Segments |-> <<w, i>>]

\* Work that may still change the rendition of u.  A task that runs counts
\* only while a worker is at a job, or while one is down: its start will queue
\* the task again.
Pending(u) ==
  \/ \E t \in Tasks :
       /\ task[t].user = u
       /\ \/ task[t].status = "queued"
          \/ task[t].status \in {"running", "cancelling"} /\ \E w \in Workers : worker[w].at = "off"
  \/ \E r \in Requests : req[r] # Idle /\ req[r].user = u
  \/ \E w \in Workers : worker[w].at \notin {"off", "free"}

\* processTranscode and the requests reset, empty and delete the row under
\* each other, and their statements fail: once all of it has settled, a
\* rendition offered as ready plays from its first to its last segment.  Where
\* a chain of statements was broken off for good, nothing is said.
ReadyIsWhole ==
  ~cut => \A u \in Users : rend[u].status = "ready" /\ ~Pending(u) => Whole(rend[u])

\* handleTranscodeRequest refuses a profile whose rendition is in progress
\* (transcode.go:58): then there is a job, a request or a worker that will
\* end it, or the profile could never be asked for again.  The failures and
\* stops that the code leaves as they are do strand a row; they are what cut
\* records, and nothing else does.
NothingStranded ==
  ~cut => \A u \in Users : rend[u].status \in Live => Pending(u)

=============================================================================
