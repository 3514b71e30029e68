------------------------------- MODULE TrashBin -------------------------------
(***************************************************************************)
(* The trash of internal/handler/trash.go for one user.                    *)
(*                                                                         *)
(* Deleting a file renames its inode into a slot of a hidden directory,    *)
(* named by the UUID of a row of domus_trash_entries.  The row is in       *)
(* PostgreSQL and the inode in the DOFS metadata, so no transaction spans  *)
(* both: each request first moves the row by compare-and-set, then changes *)
(* the namespace by PATHNAME, then settles the row, and may fail or be cut *)
(* by a restart between any two of these steps.  A periodic pass settles   *)
(* the rows that requests left behind; the start of the server does the    *)
(* same and destroys every payload no row accounts for.                    *)
(*                                                                         *)
(* An inode is at a key of a directory; the keys of Top are the visible    *)
(* names of Home and the slots of the trash.  Directories nest one level.  *)
(***************************************************************************)
EXTENDS Naturals, Sequences, FiniteSets

CONSTANTS
    Files, Dirs,     \* inodes
    Names,           \* names of files and directories
    Entries,         \* UUIDs of trash entries, each used at most once
    Requests,        \* concurrent HTTP requests
    Outlasting,      \* kinds of requests that may take longer than the grace
    Editable,        \* inodes a mount (or a file request) moves and removes
    Home0            \* where the inodes are at first
    
Inodes == Files \cup Dirs
Top == "top"
Gone == <<"gone">>
Unborn == <<"unborn">>
None == "none"

Places == {<<Top, k>> : k \in Names \cup Entries} \cup (Dirs \X Names) \cup {Gone, Unborn}

\* Two inodes are never at one place, except those that are no more or not yet.
Apart(pl) == \A i, j \in Inodes : i # j /\ pl[i] = pl[j] => pl[i] \in {Gone, Unborn}

ASSUME ConstantsAssumption ==
    /\ Names \cap Entries = {} /\ Files \cap Dirs = {}
    /\ Inodes \cap {Top, "gone", "unborn"} = {}
    /\ Outlasting \subseteq {"restore", "delete", "empty"}

\* At first the slots are empty, and no directory is in another one.
ASSUME HomeAssumption ==
    /\ Home0 \in [Inodes -> Places] /\ Apart(Home0)
    /\ \A i \in Inodes : Home0[i] \notin {Top} \X Entries
    /\ \A d \in Dirs : Home0[d] \in {Top} \X Names \cup {Gone, Unborn}

VARIABLES
    place,   \* where each inode is
    row,     \* the entry rows
    proc     \* the requests in progress

vars == <<place, row, proc>>

-----------------------------------------------------------------------------
(* The namespace.                                                          *)

At(pl, c, k) == {i \in Inodes : pl[i] = <<c, k>>}

\* The inodes a pathname resolves to: one or none.
Resolve(pl, path) ==
    IF Len(path) = 1 THEN At(pl, Top, path[1])
    ELSE UNION {At(pl, d, path[2]) : d \in At(pl, Top, path[1]) \cap Dirs}

\* A pathname that ends in a slash resolves to directories only.
Named(pl, path, dir) == IF dir THEN Resolve(pl, path) \cap Dirs ELSE Resolve(pl, path)

\* The place a pathname stands for, none when its parent is no directory.
PlaceOf(pl, path) ==
    IF Len(path) = 1 THEN {<<Top, path[1]>>}
    ELSE {<<d, path[2]>> : d \in At(pl, Top, path[1]) \cap Dirs}

Children(pl, d) == {i \in Inodes : pl[i][1] = d}
Tree(pl, i) == {i} \cup Children(pl, i)
Remove(pl, S) == [i \in Inodes |-> IF i \in S THEN Gone ELSE pl[i]]

\* A rename of what a pathname resolved to, which refuses to replace.  It may be
\* carried out and yet be answered with an error.
MoveTo(S, path) ==
    /\ S # {} /\ Resolve(place, path) = {}
    /\ \E q \in PlaceOf(place, path) :
          place' = [i \in Inodes |-> IF i \in S THEN q ELSE place[i]]

-----------------------------------------------------------------------------
(* Entry rows.  An entry is unused before its row is created and removed   *)
(* after the row is deleted, or undone when its own creation deleted it;   *)
(* its UUID is not used again.                                             *)

RowStates == {"unused", "pending", "ready", "restoring", "deleting", "removed", "undone"}
Live(r) == r.state \in {"pending", "ready", "restoring", "deleting"}

\* Mutant: the state the transition starts from is not compared.
TransitionAnyway(e, from, to, op) == row' = [row EXCEPT ![e].state = to, ![e].op = op]

Transition(e, from, to, op) ==
    /\ row[e].state = from
    /\ row' = [row EXCEPT ![e].state = to, ![e].op = op]

DeleteRowAs(e, state) == row' = [row EXCEPT ![e].state = state, ![e].op = None]
DeleteRow(e) == DeleteRowAs(e, "removed")
MarkReady(e, from) ==
    IF row[e].state = from THEN Transition(e, from, "ready", None) ELSE UNCHANGED row

InSlot(pl, e) == row[e].root \in Inodes /\ pl[row[e].root] = <<Top, e>>
EmptyDir(pl, i) == i \in Dirs /\ Children(pl, i) = {}

-----------------------------------------------------------------------------
(* Requests.  A request is at a control point and remembers the entry, the *)
(* record it looked up (inode and pathname) and the pathname it targets.   *)

Idle == [pc |-> "idle", kind |-> None, e |-> None, i |-> None, from |-> <<>>,
         to |-> <<>>, how |-> None, rest |-> {},
         child |-> None, as |-> <<>>]
Goto(p, at) == proc' = [proc EXCEPT ![p].pc = at]
Leave(p) == proc' = [proc EXCEPT ![p] = Idle]

Init ==
    /\ place = Home0
    /\ row = [e \in Entries |-> [state |-> "unused", root |-> None, name |-> None, op |-> None]]
    /\ proc = [p \in Requests |-> Idle]

(* POST /trash/: the record at the path is the inode the client expects.   *)
StartCreate(p) ==
    \E i \in Inodes, n \in Names :
        /\ proc[p].pc = "idle" /\ place[i] = <<Top, n>>
        /\ proc' = [proc EXCEPT ![p] = [Idle EXCEPT !.pc = "create", !.kind = "create",
                                                    !.i = i, !.from = <<n>>]]
        /\ UNCHANGED <<place, row>>

\* Mutant: (user, root inode) is not unique.
CreateRowAgain(p) ==
    /\ proc[p].pc = "create"
    /\ \/ \E e \in Entries :
            /\ row[e].state = "unused"
            /\ row' = [row EXCEPT ![e] = [state |-> "pending", root |-> proc[p].i,
                                          name |-> proc[p].from[1], op |-> None]]
            /\ proc' = [proc EXCEPT ![p].pc = "stow", ![p].e = e, ![p].to = <<e>>]
       \/ Leave(p) /\ UNCHANGED row
    /\ UNCHANGED place

\* (user, root inode) is unique among the rows; the insertion may also fail.
CreateRow(p) ==
    /\ proc[p].pc = "create"
    /\ \/ /\ \A e \in Entries : Live(row[e]) => row[e].root # proc[p].i
          /\ \E e \in Entries :
                /\ row[e].state = "unused"
                /\ row' = [row EXCEPT ![e] = [state |-> "pending", root |-> proc[p].i,
                                              name |-> proc[p].from[1], op |-> None]]
                /\ proc' = [proc EXCEPT ![p].pc = "stow", ![p].e = e, ![p].to = <<e>>]
       \/ Leave(p) /\ UNCHANGED row
    /\ UNCHANGED place

\* Whatever is at the pathname by now is renamed into the slot.
Stow(p) ==
    /\ proc[p].pc = "stow"
    /\ \/ /\ MoveTo(Named(place, proc[p].from, proc[p].i \in Dirs), proc[p].to)
          /\ Goto(p, "stowed") \/ Goto(p, "undo")
       \/ Goto(p, "undo") /\ UNCHANGED place
    /\ UNCHANGED row

\* The row is settled or, when that write fails, left to the recovery.
Stowed(p) ==
    /\ proc[p].pc = "stowed"
    /\ MarkReady(proc[p].e, "pending") \/ UNCHANGED row
    /\ Leave(p) /\ UNCHANGED place
\* After any error of the move the row is deleted, whether the payload is in its
\* slot or not; that may fail, too.
UndoCreate(p) ==
    /\ proc[p].pc = "undo"
    /\ DeleteRowAs(proc[p].e, "undone") \/ UNCHANGED row
    /\ Leave(p) /\ UNCHANGED place

CreateStep(p) == StartCreate(p) \/ CreateRow(p) \/ Stow(p) \/ Stowed(p) \/ UndoCreate(p)

-----------------------------------------------------------------------------
(* The requests on an entry read its row, and only then its payload.       *)

\* Mutant: entries still being created are listed.
ListedEarly(e) == row[e].state \in {"pending", "ready"}

Listed(e) == row[e].state = "ready"

StartOnEntry(p) ==
    \E e \in Entries, kind \in {"list", "restore", "delete", "empty"} :
        /\ proc[p].pc = "idle" /\ Listed(e)
        /\ \E path \in IF kind \in {"list", "empty"} THEN {<<e>>}
                       ELSE {<<e>>} \cup {<<e, n>> : n \in Names} :
            proc' = [proc EXCEPT ![p] = [Idle EXCEPT !.pc = "lookup", !.kind = kind,
                                                     !.e = e, !.from = path]]
        /\ UNCHANGED <<place, row>>

\* trashRecord: nothing there, another inode than the row's root, or the record.
LookupPayload(p) ==
    LET r == proc[p]
        found == Named(place, r.from, Len(r.from) = 1 /\ row[r.e].root \in Dirs)
        mismatch == Len(r.from) = 1 /\ found # {} /\ found # {row[r.e].root} IN
    /\ r.pc = "lookup"
    /\ IF found = {} \/ mismatch
       THEN IF r.kind = "list" \/ (r.kind = "empty" /\ ~mismatch)
            THEN Goto(p, "drop") ELSE Leave(p)
       ELSE \E i \in found :
                CASE r.kind = "list" -> Leave(p)
                  [] r.kind = "restore" -> proc' = [proc EXCEPT ![p].pc = "decide", ![p].i = i]
                  [] OTHER -> proc' = [proc EXCEPT ![p].pc = "claim", ![p].i = i]
    /\ UNCHANGED <<place, row>>

\* The entry whose payload was not found is deleted whatever its row says now.
DropEntry(p) ==
    /\ proc[p].pc = "drop"
    /\ DeleteRow(proc[p].e) \/ UNCHANGED row
    /\ Leave(p) /\ UNCHANGED place

(* Restoring: the target is the original pathname, and the client chose    *)
(* what to do when something is there.                                     *)
MergePolicies == {"skip", "replace", "rename"}
Original(r) == <<row[r.e].name>> \o Tail(r.from)
FreeNames(pl, path) ==
    {q \in {[path EXCEPT ![Len(path)] = n] : n \in Names} :
        PlaceOf(pl, q) # {} /\ Resolve(pl, q) = {}}

Decide(p) ==
    LET r == proc[p]
        to == Original(r)
        there == Named(place, to, r.i \in Dirs)
        claim(how, path) ==
            proc' = [proc EXCEPT ![p].pc = "claim", ![p].how = how, ![p].to = path] IN
    /\ r.pc = "decide"
    /\ \/ there = {} /\ claim("plain", to)
       \/ there # {} /\ Leave(p)
       \/ there # {} /\ claim(IF there \subseteq Dirs THEN "overwriteDir" ELSE "overwriteFile", to)
       \/ there # {} /\ \E q \in FreeNames(place, to) : claim("plain", q)
       \/ /\ r.i \in Dirs /\ there \cap Dirs # {}
          /\ \E nested \in MergePolicies : claim(nested, to)
    /\ UNCHANGED <<place, row>>

\* The compare-and-set every mutation of a settled entry starts with.
Claim(p) ==
    LET r == proc[p] IN
    /\ r.pc = "claim"
    /\ \/ /\ r.kind = "restore" /\ Transition(r.e, "ready", "restoring", r.i)
          /\ Goto(p, IF r.how \in MergePolicies THEN "list" ELSE "parent")
       \/ /\ r.kind # "restore" /\ Transition(r.e, "ready", "deleting", r.i)
          /\ Goto(p, "purge")
       \/ row[r.e].state # "ready" /\ Leave(p) /\ UNCHANGED row
    /\ UNCHANGED place

\* permanentlyDeletePath: all of what is at the pathname, or it stops part way or
\* after the last file.
Purge(p, victims, next) ==
    \/ place' = Remove(place, UNION {Tree(place, i) : i \in victims}) /\ next
    \/ \E i \in victims : \E S \in (SUBSET Children(place, i)) \cup {Tree(place, i)} :
          place' = Remove(place, S) /\ Leave(p)

(* handleRestoreTrash.  A missing parent directory is created; a failure    *)
(* before or at the rename puts the entry back.                             *)
GiveUp(p) ==
    /\ MarkReady(proc[p].e, "restoring") \/ UNCHANGED row
    /\ Leave(p)

EnsureParent(p) ==
    LET top == <<Head(proc[p].to)>> IN
    /\ proc[p].pc = "parent"
    /\ \/ /\ PlaceOf(place, proc[p].to) # {}
          /\ Goto(p, "clear") /\ UNCHANGED <<place, row>>
       \/ /\ PlaceOf(place, proc[p].to) = {} /\ Resolve(place, top) = {}
          /\ \E d \in Dirs : place[d] = Unborn /\ place' = [place EXCEPT ![d] = <<Top, top[1]>>]
          /\ Goto(p, "clear") /\ UNCHANGED row
       \/ Len(proc[p].to) = 2 /\ GiveUp(p) /\ UNCHANGED place

ClearTarget(p) ==
    /\ proc[p].pc = "clear"
    /\ IF proc[p].how \in {"overwriteDir", "overwriteFile"}
       THEN Purge(p, Named(place, proc[p].to, proc[p].how = "overwriteDir"), Goto(p, "move"))
       ELSE Goto(p, "move") /\ UNCHANGED place
    /\ UNCHANGED row

MoveOut(p) ==
    /\ proc[p].pc = "move"
    /\ \/ /\ MoveTo(Named(place, proc[p].from, proc[p].i \in Dirs), proc[p].to)
          /\ (Goto(p, "finish") /\ UNCHANGED row) \/ GiveUp(p)
       \/ GiveUp(p) /\ UNCHANGED place

(* mergeTrashDirectory: the children are listed once and moved one by one. *)
ListChildren(p) ==
    /\ proc[p].pc = "list"
    /\ \/ proc' = [proc EXCEPT ![p].pc = "merge",
                      ![p].rest = {n \in Names : Resolve(place, Append(proc[p].from, n)) # {}}]
       \/ Leave(p)
    /\ UNCHANGED <<place, row>>

MergeChild(p) ==
    LET r == proc[p] IN
    \E n \in r.rest :
        LET to == Append(r.to, n)
            there == Resolve(place, to)
            moveTo(q) == proc' = [proc EXCEPT ![p].pc = "mergeMove", ![p].rest = @ \ {n},
                                              ![p].child = n, ![p].as = q] IN
        /\ r.pc = "merge"
        /\ \/ there = {} /\ moveTo(to) /\ UNCHANGED place
           \/ /\ there # {} /\ r.how = "skip"
              /\ proc' = [proc EXCEPT ![p].rest = @ \ {n}] /\ UNCHANGED place
           \/ there # {} /\ r.how = "replace" /\ Purge(p, there, moveTo(to))
           \/ /\ there # {} /\ r.how = "rename" /\ UNCHANGED place
              /\ \E q \in FreeNames(place, to) : moveTo(q)
           \/ Leave(p) /\ UNCHANGED place
        /\ UNCHANGED row

MergeMove(p) ==
    LET from == Append(proc[p].from, proc[p].child) IN
    /\ proc[p].pc = "mergeMove"
    /\ \/ /\ MoveTo(Resolve(place, from), proc[p].as)
          /\ \/ proc' = [proc EXCEPT ![p].pc = "merge", ![p].child = None, ![p].as = <<>>]
             \/ Leave(p)
       \/ Leave(p) /\ UNCHANGED place
    /\ UNCHANGED row

\* The emptied directory is removed; a failure is ignored.
MergeEnd(p) ==
    /\ proc[p].pc = "merge" /\ proc[p].rest = {}
    /\ \/ place' = Remove(place, {i \in Resolve(place, proc[p].from) : EmptyDir(place, i)})
       \/ UNCHANGED place
    /\ Goto(p, "finish") /\ UNCHANGED row

(* DELETE /trash/:id and each entry of DELETE /trash/.                     *)
PurgePayload(p) ==
    /\ proc[p].pc = "purge"
    /\ Purge(p, Named(place, proc[p].from, proc[p].i \in Dirs),
             Goto(p, IF proc[p].kind = "empty" THEN "remove" ELSE "finish"))
    /\ UNCHANGED row

RemoveEntry(p) ==
    /\ proc[p].pc = "remove"
    /\ DeleteRow(proc[p].e) \/ UNCHANGED row
    /\ Leave(p) /\ UNCHANGED place

(* finishTrashMutation: an entry whose payload left is deleted, an emptied  *)
(* directory is destroyed first, and what remains is listed again.          *)
Finish(p) ==
    LET e == proc[p].e IN
    /\ proc[p].pc = "finish"
    /\ \/ ~InSlot(place, e) /\ DeleteRow(e) /\ Leave(p) /\ UNCHANGED place
       \/ /\ InSlot(place, e) /\ EmptyDir(place, row[e].root)
          /\ place' = Remove(place, {row[e].root}) /\ UNCHANGED <<row, proc>>
       \/ /\ InSlot(place, e) /\ ~EmptyDir(place, row[e].root)
          /\ MarkReady(e, IF proc[p].kind = "restore" THEN "restoring" ELSE "deleting")
          /\ Leave(p) /\ UNCHANGED place
       \/ Leave(p) /\ UNCHANGED <<place, row>>

EntryStep(p) ==
    \/ LookupPayload(p) \/ DropEntry(p) \/ Decide(p) \/ Claim(p)
    \/ EnsureParent(p) \/ ClearTarget(p) \/ MoveOut(p)
    \/ ListChildren(p) \/ MergeChild(p) \/ MergeMove(p) \/ MergeEnd(p)
    \/ PurgePayload(p) \/ RemoveEntry(p) \/ Finish(p)

-----------------------------------------------------------------------------
(* Recovery.  A row is recoverable when it is not settled; a periodic pass *)
(* leaves alone those written within trashRecoveryGrace.  Creating an entry *)
(* is two calls of at most operationTimeout, well within the grace; what    *)
(* walks a directory makes as many calls as there are files.               *)

\* Mutant: restorations are not recovered.
RecoverableButRestoring(e) == row[e].state \in {"pending", "deleting"}

Recoverable(e) == row[e].state \in {"pending", "restoring", "deleting"}

Owning == {"stow", "stowed", "undo", "parent", "clear", "move", "list", "merge", "mergeMove",
           "purge", "remove", "finish"}
Owns(p, e) == proc[p].pc \in Owning /\ proc[p].e = e

(* What recovery destroys: the operation's inode if still below the slot,  *)
(* and then, unless the entry was being created, its root if that is an    *)
(* empty directory.                                                        *)
OperationTree(pl, e) ==
    IF row[e].state = "deleting"
    THEN UNION {Tree(pl, i) : i \in {j \in {row[e].op} : pl[j] = <<Top, e>>
                                        \/ pl[j][1] \in At(pl, Top, e)}}
    ELSE {}
RecoveryPurges(pl, e) ==
    LET left == Remove(pl, OperationTree(pl, e)) IN
    OperationTree(pl, e) \cup
        IF row[e].state # "pending" /\ InSlot(left, e) /\ EmptyDir(left, row[e].root)
        THEN {row[e].root} ELSE {}
\* Mutant: an entry found pending is taken for one whose rename never happened.
RecoveredNeverCreated(pl, e) ==
    IF row[e].state # "pending" /\ InSlot(Remove(pl, RecoveryPurges(pl, e)), e) THEN "ready" ELSE "removed"

Recovered(pl, e) ==
    IF InSlot(Remove(pl, RecoveryPurges(pl, e)), e) THEN "ready" ELSE "removed"

RecoverEntry(e) ==
    /\ Recoverable(e)
    /\ \A p \in Requests : Owns(p, e) => proc[p].kind \in Outlasting
    /\ place' = Remove(place, RecoveryPurges(place, e))
    /\ row' = [row EXCEPT ![e].state = Recovered(place, e), ![e].op = None]
    /\ UNCHANGED proc

(* PrepareTrashStorage, then RecoverTrash(true), before requests are served *)
\* Mutant: only the settled entries account for their payload.
ExpectedReady(e) == row[e].state = "ready" /\ InSlot(place, e)

Expected(e) == Live(row[e]) /\ InSlot(place, e)
Orphans ==
    UNION {Tree(place, i) : i \in {j \in Inodes : \E e \in Entries :
                place[j] = <<Top, e>> /\ ~(Expected(e) /\ row[e].root = j)}}

Restart ==
    LET kept == Remove(place, Orphans)
        after(e) == IF Recoverable(e) THEN Recovered(kept, e)
                    ELSE IF row[e].state = "ready" /\ ~Expected(e) THEN "removed"
                    ELSE row[e].state IN
    /\ proc' = [p \in Requests |-> Idle]
    /\ place' = Remove(kept, UNION {RecoveryPurges(kept, e) : e \in {x \in Entries : Recoverable(x)}})
    /\ row' = [e \in Entries |-> [row[e] EXCEPT !.state = after(e), !.op = None]]

-----------------------------------------------------------------------------
(* A mount, or a request of files.go, creates, renames and removes visible  *)
(* files at any moment.                                                    *)

VisibleDirs == {d \in Dirs : place[d] \in {Top} \X Names}
VisiblePlaces == ({Top} \cup VisibleDirs) \X Names

Edit(i) ==
    /\ i \in Editable /\ place[i] \in VisiblePlaces \cup {Unborn}
    /\ \/ \E q \in VisiblePlaces :
            /\ i \in Dirs => q[1] = Top
            /\ \A j \in Inodes : place[j] = q => {i, j} \subseteq Files
            /\ place' = [j \in Inodes |-> IF j = i THEN q ELSE IF place[j] = q THEN Gone ELSE place[j]]
       \/ Children(place, i) = {} /\ place' = [place EXCEPT ![i] = Gone]
    /\ UNCHANGED <<row, proc>>

Next ==
    \/ \E p \in Requests : StartOnEntry(p) \/ CreateStep(p) \/ EntryStep(p)
    \/ \E e \in Entries : RecoverEntry(e)
    \/ Restart
    \/ \E i \in Inodes : Edit(i)

(* A request that began is carried on by its goroutine, and the ticker of   *)
(* StartTrashRecovery keeps visiting what requests left behind.             *)
Fairness ==
    /\ \A p \in Requests : WF_vars(EntryStep(p)) /\ WF_vars(CreateStep(p) /\ proc[p].pc # "idle")
    /\ \A e \in Entries : WF_vars(RecoverEntry(e))

Spec == Init /\ [][Next]_vars /\ Fairness

-----------------------------------------------------------------------------
(* Properties.                                                             *)

Paths ==
    {<<>>} \cup {<<k>> : k \in Names \cup Entries}
           \cup {<<k, n>> : k \in Names \cup Entries, n \in Names}
Rows == [state: RowStates, root: Inodes \cup {None}, name: Names \cup {None},
         op: Inodes \cup {None}]
Records ==
    [pc: {"idle", "create", "lookup", "drop", "decide", "claim"} \cup Owning,
     kind: {None, "create", "list", "restore", "delete", "empty"},
     e: Entries \cup {None}, i: Inodes \cup {None}, from: Paths, to: Paths,
     how: {None, "plain", "overwriteDir", "overwriteFile"} \cup MergePolicies,
     rest: SUBSET Names, child: Names \cup {None}, as: Paths]

\* The state has its shape, two inodes are never at one place, and an entry
\* that exists has a root of its own.
TypeOK ==
    /\ place \in [Inodes -> Places] /\ Apart(place)
    /\ row \in [Entries -> Rows]
    /\ \A e, f \in Entries : e # f /\ Live(row[e]) /\ Live(row[f]) => row[e].root # row[f].root
    /\ proc \in [Requests -> Records]

\* An inode in the slot made for it is never left without its row, whatever
\* request fails, is interrupted, or lists the trash meanwhile: without the row
\* the user cannot see it, and the next start of the server destroys it.  The
\* one exception is a creation that deletes its row because the move into the
\* slot was answered with an error, though it had been carried out (trash.go:284).
OwnPayloadHasRow ==
    \A e \in Entries : InSlot(place, e) => Live(row[e]) \/ row[e].state = "undone"

\* From its compare-and-set to its last write a request is the only one that
\* changes the entry, and the row says what it is doing unless the listing
\* found the payload gone and dropped it.
SoleMutator ==
    \A p \in Requests, e \in Entries : Owns(p, e) =>
        /\ \A q \in Requests \ {p} : ~Owns(q, e)
        /\ \/ row[e].state = CASE proc[p].kind = "create" -> "pending"
                               [] proc[p].kind = "restore" -> "restoring"
                               [] OTHER -> "deleting"
           \/ row[e].state = "removed" /\ ~InSlot(place, e)

\* What is in a trash entry with a row is destroyed only by a permanent deletion
\* that named it or the entry, except for a directory from which everything was
\* taken; neither restoring, nor recovery, nor the clean-up at a start, which
\* destroys what is in the trash without a row, loses anything of it.
PurgedOnlyOnRequest ==
    [][\A e \in Entries : Live(row[e]) /\ InSlot(place, e) =>
        \A i \in Tree(place, row[e].root) : place'[i] = Gone =>
            \/ row[e].state = "deleting" /\ row[e].op \in {i, row[e].root}
            \/ i = row[e].root /\ i \in Dirs /\ Children(place, i) \subseteq {row[e].op}]_vars

\* An entry caught between its two databases is listed again or gone in the end.
EntrySettles ==
    \A e \in Entries : row[e].state \in {"pending", "restoring", "deleting"} ~>
        row[e].state \in {"ready", "removed", "undone"}

(* docs/api/file.md:188: the payload of an entry is the inode it was made for. *)
\* A listed entry's slot holds no other inode than the one the client deleted.
TrashHoldsWhatItNames ==
    \A e \in Entries : row[e].state = "ready" => At(place, Top, e) \subseteq {row[e].root}
=============================================================================
