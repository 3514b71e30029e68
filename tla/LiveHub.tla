-------------------------------- MODULE LiveHub --------------------------------
(***************************************************************************)
(* WebSocket connections: the hub's three maps, the two goroutines of each *)
(* connection, the revocation of a user's sessions, and the relay that     *)
(* turns events of the DOFS store into notices to subscribed browsers.     *)
(*                                                                         *)
(* The maps are sync.Maps: each Store and each Delete is a step, and no    *)
(* lock spans two of them.  A Range over a map is one step.  A connection  *)
(* is entered under its own user only, so a map from users to sets of      *)
(* connections is the set of the connections that are in it.  Messages are *)
(* told apart by their kind.                                               *)
(***************************************************************************)
EXTENDS Naturals, Sequences, FiniteSets

CONSTANTS
  Users,
  Conns,        \* connections, each with a session of its own
  Paths,        \* directories a browser may subscribe to
  Revokers,     \* requests that revoke a user's sessions
  Server,       \* the end of the server, which closes everything
  Nobody,
  Capacity,     \* sendBufSize
  MaxEvents     \* bound: events per user

ASSUME HubAssumption ==
  /\ Capacity \in Nat \ {0} /\ MaxEvents \in Nat
  /\ Users # {} /\ Server \notin Revokers
  /\ Nobody \notin Users \cup Revokers \cup {Server}
  /\ {"reader", "writer"} \cap (Revokers \cup {Server, Nobody}) = {}

VARIABLES
  session,      \* the rows behind the connections
  conn,         \* the connections and their goroutines
  conns,        \* Hub.conns
  userConns,    \* Hub.userConns
  dirSubs,      \* Hub.dirSubs
  log,          \* per user, the directories that changed, in order
  cursor,       \* per user, how much of it has been relayed
  relay,        \* the relay's pass
  skipped,      \* history: per user, the changes that were relayed to nobody
  closing       \* the revocations, and the end of the server

vars == <<session, conn, conns, userConns, dirSubs, log, cursor, relay, skipped, closing>>
hub == <<conns, userConns, dirSubs>>
events == <<log, cursor, relay, skipped>>

-----------------------------------------------------------------------------
Closers == Revokers \cup {Server}
SomeUser == CHOOSE u \in Users : TRUE

\* ack is the history of a subscription: how long the log was when the browser
\* was told of it, or Unasked; seen, the last change it was sent since.
Unasked == MaxEvents + 1
NewConn == [user |-> SomeUser, reader |-> "new", arg |-> SomeUser, writer |-> "none", raw |-> TRUE,
            stage |-> "open", closer |-> Nobody,
            subs |-> {}, left |-> {}, queue |-> <<>>,
            ack |-> [p \in Paths |-> Unasked], seen |-> [p \in Paths |-> 0], dropped |-> FALSE,
            late |-> FALSE]
NoRelay == [user |-> Nobody, upto |-> 0, done |-> 0]
Resting == [at |-> "idle", user |-> SomeUser, left |-> {}, owed |-> {}]

OpenConn(c) == conn[c].stage = "open"
Reading(c) == conn[c].reader = "reading"
Set(c, r) == conn' = [conn EXCEPT ![c] = r]
ReaderTo(c, at) == Set(c, [conn[c] EXCEPT !.reader = at])

\* Close: the flag, the channel and the socket at once.  What is still queued is not read again.
Flag(r, who) == [r EXCEPT !.stage = "flagged", !.closer = who, !.raw = FALSE, !.queue = <<>>,
                          !.ack = NewConn.ack, !.seen = NewConn.seen, !.dropped = FALSE]

\* enqueue, best effort: a full queue drops the message, a closed one too.
Notify(r, kind) ==
  IF r.stage # "open" THEN r
  ELSE IF Len(r.queue) < Capacity THEN [r EXCEPT !.queue = Append(@, kind)]
  ELSE [r EXCEPT !.dropped = TRUE]

-----------------------------------------------------------------------------
(* A connection: upgrade, registration, and the reader's requests.         *)

\* The upgrade is refused unless the session's row is there.
WebSocketUpgrade(c, u) ==
  /\ conn[c].reader = "new"
  /\ session' = [session EXCEPT ![c] = "valid"]      \* a login of u, some time before
  /\ Set(c, [conn[c] EXCEPT !.user = u, !.reader = "upgrading"])
  /\ UNCHANGED <<hub, events, closing>>

Register(c) ==
  /\ conn[c].reader = "upgrading"
  /\ conns' = conns \cup {c} /\ ReaderTo(c, "registering")
  /\ UNCHANGED <<session, userConns, dirSubs, events, closing>>

\* After it HandleConnection starts the writer, and becomes the reader.
RegisterUser(c) ==
  /\ conn[c].reader = "registering"
  /\ userConns' = userConns \cup {c}
  /\ Set(c, [conn[c] EXCEPT !.reader = "reading", !.writer = "writing"])
  /\ UNCHANGED <<session, conns, dirSubs, events, closing>>

Subscribe(c, p) ==
  /\ Reading(c) /\ conn[c].raw
  /\ Set(c, [conn[c] EXCEPT !.reader = "subscribing", !.arg = p, !.subs = @ \cup {p}])
  /\ UNCHANGED <<session, hub, events, closing>>

\* addDirSub; the answer is queued next
AddDirSub(c) ==
  /\ conn[c].reader = "subscribing"
  /\ dirSubs' = dirSubs \cup {<<conn[c].arg, c>>}
  /\ Set(c, [conn[c] EXCEPT !.reader = "answering"])
  /\ UNCHANGED <<session, conns, userConns, events, closing>>

Unsubscribe(c, p) ==
  /\ Reading(c) /\ conn[c].raw
  /\ Set(c, [conn[c] EXCEPT !.reader = "unsubscribing", !.arg = p, !.subs = @ \ {p},
                            !.ack[p] = Unasked, !.seen[p] = 0])
  /\ UNCHANGED <<session, hub, events, closing>>

\* Mutant: only the connection forgets the subscription.
RemoveNothing(c) ==
  /\ conn[c].reader = "unsubscribing"
  /\ dirSubs' = dirSubs /\ ReaderTo(c, "replying")
  /\ UNCHANGED <<session, conns, userConns, events, closing>>

RemoveDirSub(c) ==
  /\ conn[c].reader = "unsubscribing"
  /\ dirSubs' = dirSubs \ {<<conn[c].arg, c>>}
  /\ ReaderTo(c, "replying")
  /\ UNCHANGED <<session, conns, userConns, events, closing>>

\* Mutant: the queue has no bound.
AnswerAtOnce(c) ==
  /\ conn[c].reader \in {"answering", "replying"}
  /\ Set(c, [conn[c] EXCEPT !.reader = "reading", !.arg = SomeUser,
                            !.queue = IF OpenConn(c) THEN Append(@, "answer") ELSE @])
  /\ UNCHANGED <<session, hub, events, closing>>

\* WriteJSON: an answer waits for a place in the queue, for writeWait at most;
\* then the reader closes its own connection.
Answer(c) ==
  /\ conn[c].reader \in {"answering", "replying"}
  /\ LET subscribed == conn[c].reader = "answering"
         back == [conn[c] EXCEPT !.reader = "reading", !.arg = SomeUser]
         told == IF subscribed THEN [back EXCEPT !.ack[conn[c].arg] = Len(log[conn[c].user])] ELSE back
     IN \/ ~OpenConn(c) /\ Set(c, back)
        \/ OpenConn(c) /\ Len(conn[c].queue) < Capacity
           /\ Set(c, [told EXCEPT !.queue = Append(@, "answer")])
        \/ OpenConn(c) /\ Len(conn[c].queue) = Capacity
           /\ Set(c, [Flag(back, "reader") EXCEPT !.reader = "closing"])
  /\ UNCHANGED <<session, hub, events, closing>>

\* The browser goes away, or says nothing for pongWait.
PeerLeaves(c) ==
  /\ conn[c].reader \notin {"new", "gone"} /\ conn[c].raw
  /\ Set(c, [conn[c] EXCEPT !.raw = FALSE])
  /\ UNCHANGED <<session, hub, events, closing>>

-----------------------------------------------------------------------------
(* Close: whoever sets the flag first unregisters the connection; all      *)
(* others return at once.                                                  *)

ReaderCloses(c) ==
  /\ Reading(c) /\ ~conn[c].raw
  /\ Set(c, IF OpenConn(c) THEN [Flag(conn[c], "reader") EXCEPT !.reader = "closing"]
            ELSE [conn[c] EXCEPT !.reader = "gone"])
  /\ UNCHANGED <<session, hub, events, closing>>

WriterSends(c) ==
  /\ conn[c].writer = "writing" /\ OpenConn(c) /\ conn[c].queue # <<>> /\ conn[c].raw
  /\ Set(c, [conn[c] EXCEPT !.queue = Tail(@)])
  /\ UNCHANGED <<session, hub, events, closing>>

\* Mutant: the writer does not end with a connection another one closed.
WriterClosesOnError(c) ==
  /\ conn[c].writer = "writing" /\ ~conn[c].raw /\ OpenConn(c)
  /\ Set(c, [Flag(conn[c], "writer") EXCEPT !.writer = "closing"])
  /\ UNCHANGED <<session, hub, events, closing>>

\* A write or a ping fails, or the connection has been closed.
WriterCloses(c) ==
  /\ conn[c].writer = "writing" /\ ~conn[c].raw
  /\ Set(c, IF OpenConn(c) THEN [Flag(conn[c], "writer") EXCEPT !.writer = "closing"]
            ELSE [conn[c] EXCEPT !.writer = "gone"])
  /\ UNCHANGED <<session, hub, events, closing>>

\* unregister: out of conns, out of the user's set, then the subscriptions
\* taken out of the connection are removed one by one.
ForgetConn(c) ==
  /\ conn[c].stage = "flagged"
  /\ conns' = conns \ {c} /\ Set(c, [conn[c] EXCEPT !.stage = "unlisted"])
  /\ UNCHANGED <<session, userConns, dirSubs, events, closing>>

ForgetUserConn(c) ==
  /\ conn[c].stage = "unlisted"
  /\ userConns' = userConns \ {c} /\ Set(c, [conn[c] EXCEPT !.stage = "unowned"])
  /\ UNCHANGED <<session, conns, dirSubs, events, closing>>

TakeSubs(c) ==
  /\ conn[c].stage = "unowned"
  /\ Set(c, [conn[c] EXCEPT !.stage = "unsubscribing", !.left = conn[c].subs, !.subs = {}])
  /\ UNCHANGED <<session, hub, events, closing>>

ForgetSub(c) ==
  /\ conn[c].stage = "unsubscribing"
  /\ \E p \in conn[c].left :
       /\ dirSubs' = dirSubs \ {<<p, c>>}
       /\ Set(c, [conn[c] EXCEPT !.left = @ \ {p}])
  /\ UNCHANGED <<session, conns, userConns, events, closing>>

Unregistered(c) ==
  /\ conn[c].stage = "unsubscribing" /\ conn[c].left = {}
  /\ Set(c, [conn[c] EXCEPT !.stage = "closed",
                            !.reader = IF conn[c].closer = "reader" THEN "gone" ELSE @,
                            !.writer = IF conn[c].closer = "writer" THEN "gone" ELSE @])
  /\ UNCHANGED <<session, hub, events, closing>>

-----------------------------------------------------------------------------
(* revokeUserSessions: the rows, a last message, then every connection;    *)
(* and CloseAll.                                                           *)

Of(u) == {c \in userConns : conn[c].user = u}

DeleteSessions(k, u) ==
  /\ k \in Revokers /\ closing[k].at = "idle"
  /\ session' = [c \in Conns |-> IF session[c] = "valid" /\ conn[c].user = u THEN "deleted" ELSE session[c]]
  /\ closing' = [closing EXCEPT ![k] = [Resting EXCEPT !.at = "push", !.user = u, !.owed = Of(u)]]
  /\ UNCHANGED <<conn, hub, events>>

PushSessionExpired(k) ==
  /\ closing[k].at = "push"
  /\ conn' = [c \in Conns |-> IF c \in Of(closing[k].user) THEN Notify(conn[c], "expired") ELSE conn[c]]
  /\ closing' = [closing EXCEPT ![k].at = "disconnect"]
  /\ UNCHANGED <<session, hub, events>>

\* Mutant: the connections to close are collected before the rows are deleted.
DisconnectKnownAtStart(k) ==
  /\ closing[k].at = "disconnect"
  /\ LET u == closing[k].user IN
       /\ closing' = [closing EXCEPT ![k].at = "close", ![k].left = closing[k].owed]
       /\ conn' = [c \in Conns |-> IF conn[c].user = u /\ conn[c].reader \in {"upgrading", "registering"}
                                   THEN [conn[c] EXCEPT !.late = TRUE] ELSE conn[c]]
  /\ UNCHANGED <<session, hub, events>>

\* A connection whose session was checked before, and which is not yet in the
\* user's set, is late.
DisconnectUser(k) ==
  /\ closing[k].at = "disconnect"
  /\ LET u == closing[k].user IN
       /\ closing' = [closing EXCEPT ![k].at = "close", ![k].left = Of(u)]
       /\ conn' = [c \in Conns |-> IF conn[c].user = u /\ conn[c].reader \in {"upgrading", "registering"}
                                   THEN [conn[c] EXCEPT !.late = TRUE] ELSE conn[c]]
  /\ UNCHANGED <<session, hub, events>>

CloseAll ==
  /\ closing[Server].at = "idle"
  /\ closing' = [closing EXCEPT ![Server] = [Resting EXCEPT !.at = "close", !.left = conns]]
  /\ UNCHANGED <<session, conn, hub, events>>

\* closeConnections: one goroutine for each connection, and a wait for all.
CloseOne(k, c) ==
  /\ closing[k].at = "close" /\ c \in closing[k].left
  /\ \/ OpenConn(c) /\ Set(c, Flag(conn[c], k)) /\ UNCHANGED closing
     \/ /\ ~OpenConn(c) /\ (conn[c].closer = k => conn[c].stage = "closed")
        /\ closing' = [closing EXCEPT ![k].left = @ \ {c}] /\ UNCHANGED conn
  /\ UNCHANGED <<session, hub, events>>

Closed(k) ==
  /\ closing[k].at = "close" /\ closing[k].left = {}
  /\ closing' = [closing EXCEPT ![k].at = IF k = Server THEN "ended" ELSE "idle", ![k].user = SomeUser]
  /\ UNCHANGED <<session, conn, hub, events>>

-----------------------------------------------------------------------------
(* The relay: one goroutine, one user after the other.                     *)

Change(u, p) ==
  /\ Len(log[u]) < MaxEvents
  /\ log' = [log EXCEPT ![u] = Append(@, p)]
  /\ UNCHANGED <<session, conn, hub, cursor, relay, skipped, closing>>

\* Mutant: the event at the cursor is taken for relayed.
ListEventsAfterNext(u) ==
  /\ relay = NoRelay /\ cursor[u] < Len(log[u])
  /\ relay' = [user |-> u, upto |-> Len(log[u]), done |-> cursor[u] + 1]
  /\ UNCHANGED <<session, conn, hub, log, cursor, skipped, closing>>

ListEvents(u) ==
  /\ relay = NoRelay /\ cursor[u] < Len(log[u])
  /\ relay' = [user |-> u, upto |-> Len(log[u]), done |-> cursor[u]]
  /\ UNCHANGED <<session, conn, hub, log, cursor, skipped, closing>>

\* publishDOFSEvent looks the directory up and reaches the connections that are
\* subscribed by now.  A lookup that fails reaches nobody, and the relay goes
\* on to the next event all the same.
PublishEvent ==
  /\ relay # NoRelay /\ relay.done < relay.upto
  /\ LET i == relay.done + 1
         p == log[relay.user][i]
         to == {c \in Conns : <<p, c>> \in dirSubs /\ conn[c].user = relay.user}
     IN /\ \/ /\ conn' = [c \in Conns |->
                   IF c \notin to THEN conn[c]
                   ELSE LET r == Notify(conn[c], "notice")
                        IN [r EXCEPT !.seen[p] = IF r = conn[c] THEN @ ELSE i]]
              /\ skipped' = [skipped EXCEPT ![relay.user] = @ \ {i}]
           \/ conn' = conn /\ skipped' = [skipped EXCEPT ![relay.user] = @ \cup {i}]
        /\ relay' = [relay EXCEPT !.done = i]
  /\ UNCHANGED <<session, hub, log, cursor, closing>>

\* The cursor is stored when the user is done; when listing the next batch
\* fails it is not, and the user's events are relayed once more.
StoreCursor ==
  /\ relay # NoRelay /\ relay.done = relay.upto
  /\ \/ cursor' = [cursor EXCEPT ![relay.user] = relay.done]
     \/ cursor' = cursor
  /\ relay' = NoRelay
  /\ UNCHANGED <<session, conn, hub, log, skipped, closing>>

-----------------------------------------------------------------------------
Init ==
  /\ session = [c \in Conns |-> "none"]
  /\ conn = [c \in Conns |-> NewConn]
  /\ conns = {} /\ userConns = {} /\ dirSubs = {}
  /\ log = [u \in Users |-> <<>>] /\ cursor = [u \in Users |-> 0] /\ relay = NoRelay
  /\ skipped = [u \in Users |-> {}]
  /\ closing = [k \in Closers |-> Resting]

ReaderStep(c) ==
  \/ Register(c) \/ RegisterUser(c) \/ AddDirSub(c) \/ RemoveDirSub(c) \/ Answer(c) \/ ReaderCloses(c)
WriterStep(c) == WriterSends(c) \/ WriterCloses(c)
UnregisterStep(c) ==
  ForgetConn(c) \/ ForgetUserConn(c) \/ TakeSubs(c) \/ ForgetSub(c) \/ Unregistered(c)
CloserStep(k) ==
  \/ PushSessionExpired(k) \/ DisconnectUser(k)
  \/ \E c \in Conns : CloseOne(k, c)
  \/ Closed(k)
RelayStep == (\E u \in Users : ListEvents(u)) \/ PublishEvent \/ StoreCursor

Next ==
  \/ \E c \in Conns, u \in Users : WebSocketUpgrade(c, u)
  \/ \E c \in Conns, p \in Paths : Subscribe(c, p) \/ Unsubscribe(c, p)
  \/ \E c \in Conns : ReaderStep(c) \/ WriterStep(c) \/ UnregisterStep(c) \/ PeerLeaves(c)
  \/ \E k \in Revokers, u \in Users : DeleteSessions(k, u)
  \/ \E k \in Closers : CloserStep(k)
  \/ CloseAll
  \/ \E u \in Users, p \in Paths : Change(u, p)
  \/ RelayStep

Spec == Init /\ [][Next]_vars

\* The runtime runs every goroutine.  Browsers, mounts and administrators may
\* do nothing.
Fairness ==
  /\ \A c \in Conns : WF_vars(ReaderStep(c)) /\ WF_vars(WriterStep(c)) /\ WF_vars(UnregisterStep(c))
  /\ \A k \in Closers : WF_vars(CloserStep(k))
FairSpec == Spec /\ Fairness

-----------------------------------------------------------------------------
(* Properties.                                                             *)

Entering == {"new", "upgrading", "registering"}
Asking == {"subscribing", "unsubscribing", "answering", "replying"}
Connections ==
  [user : Users, reader : Entering \cup Asking \cup {"reading", "closing", "gone"},
   arg : Users \cup Paths, writer : {"none", "writing", "closing", "gone"}, raw : BOOLEAN,
   stage : {"open", "flagged", "unlisted", "unowned", "unsubscribing", "closed"},
   closer : Closers \cup {"reader", "writer", Nobody},
   subs : SUBSET Paths, left : SUBSET Paths, queue : Seq({"answer", "notice", "expired"}),
   ack : [Paths -> 0..Unasked], seen : [Paths -> Nat], dropped : BOOLEAN, late : BOOLEAN]

\* Every variable keeps its type, no queue is longer than its channel, and the
\* relay is never ahead of the log.
TypeOK ==
  /\ session \in [Conns -> {"none", "valid", "deleted"}]
  /\ conns \subseteq Conns /\ userConns \subseteq Conns /\ dirSubs \subseteq Paths \X Conns
  /\ conn \in [Conns -> Connections]
  /\ \A c \in Conns : Len(conn[c].queue) <= Capacity
  /\ log \in [Users -> Seq(Paths)] /\ cursor \in [Users -> Nat]
  /\ \A u \in Users : cursor[u] <= Len(log[u]) /\ Len(log[u]) <= MaxEvents
  /\ skipped \in [Users -> SUBSET Nat]
  /\ relay # NoRelay =>
       /\ relay \in [user : Users, upto : Nat, done : Nat]
       /\ cursor[relay.user] <= relay.done /\ relay.done <= relay.upto
       /\ relay.upto <= Len(log[relay.user])
  /\ closing \in [Closers -> [at : {"idle", "push", "disconnect", "close", "ended"}, user : Users,
                              left : SUBSET Conns, owed : SUBSET Conns]]

\* Hub keeps a connection in three maps without a lock around them: an open
\* connection that serves requests is in both maps that revocation and pushes
\* go through, and between two requests the hub knows exactly the
\* subscriptions the connection knows.
HubAgrees ==
  \A c \in Conns : OpenConn(c) /\ conn[c].reader \in Asking \cup {"reading"} =>
    /\ c \in conns \cap userConns
    /\ Reading(c) => {p \in Paths : <<p, c>> \in dirSubs} = conn[c].subs

\* revokeUserSessions: once it has returned, no connection whose session it
\* deleted is open, but for one that was still being upgraded; and none that
\* was registered when it began.
RevokedIsClosed ==
  /\ \A c \in Conns :
       OpenConn(c) /\ session[c] = "deleted" /\ conn[c].reader # "new" =>
         \/ conn[c].late
         \/ \E k \in Revokers : closing[k].at \in {"push", "disconnect", "close"} /\ closing[k].user = conn[c].user
  /\ \A k \in Revokers : closing[k].at = "idle" => \A c \in closing[k].owed : ~OpenConn(c)

\* The browser lists a directory after it was told of its subscription: every
\* later change that the relay has passed was sent to it, unless its queue
\* was full, or the relay could not look up the directory of that change
\* (dofs_events.go:121), which it passes all the same.
NoMissedChange ==
  \A c \in Conns, p \in Paths :
    LET u == conn[c].user
        passed == IF relay.user = u THEN relay.done ELSE cursor[u]
    IN OpenConn(c) /\ conn[c].ack[p] # Unasked /\ ~conn[c].dropped =>
         \A i \in (conn[c].ack[p] + 1)..passed :
           log[u][i] = p /\ i \notin skipped[u] => conn[c].seen[p] >= i

\* Close is called by the reader, the writer, a full queue, a revocation and
\* the end of the server: whoever comes first, both goroutines end and the
\* connection leaves both maps of connections for good, except that the end of
\* the server may close it before it is entered under its user (hub.go:49).  A
\* subscription that is being added meanwhile may stay in dirSubs: nothing is
\* said of it.  And a revocation, which waits for closers it did not start,
\* ends too.
Departed(c) ==
  /\ conn[c].reader = "gone" /\ conn[c].writer = "gone" /\ conn[c].stage = "closed"
  /\ c \notin conns /\ (c \in userConns => conn[c].closer = Server)
ClosingEnds ==
  /\ \A c \in Conns : ~OpenConn(c) ~> []Departed(c)
  /\ \A k \in Revokers : closing[k].at # "idle" ~> closing[k].at = "idle"
=============================================================================
