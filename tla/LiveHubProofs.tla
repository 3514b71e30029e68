----------------------------- MODULE LiveHubProofs -----------------------------
(***************************************************************************)
(* For any number of users, connections, directories and revocations: the  *)
(* safety properties of LiveHub.  Connections share nothing but the maps,  *)
(* in which each has entries of its own, the relay and the revocations; so *)
(* the invariant is one formula per connection, Fits, and a step disturbs  *)
(* it for the connection it is about.                                      *)
(***************************************************************************)
EXTENDS LiveHub, TLAPS

Subscribed(c) == {p \in Paths : <<p, c>> \in dirSubs}

\* Where the connection is in the hub's maps, while it is open.
Mapped(c) ==
  LET r == conn[c] IN
  /\ r.reader \notin {"closing", "gone"}
  /\ r.reader \notin {"new", "upgrading"} => c \in conns
  /\ r.reader \notin Entering => c \in userConns
  /\ r.reader \in Entering => r.subs = {}
  /\ r.reader \notin {"subscribing", "unsubscribing"} => Subscribed(c) = r.subs
  /\ r.reader = "subscribing" => Subscribed(c) \cup {r.arg} = r.subs
  /\ r.reader = "unsubscribing" => Subscribed(c) \ {r.arg} = r.subs /\ r.ack[r.arg] = Unasked
  /\ r.reader = "answering" => r.arg \in r.subs

\* How far the relay is with the events of a user.
Passed(u) == IF relay.user = u THEN relay.done ELSE cursor[u]

\* What the browser was told of is in the hub's map, and it was sent what
\* changed since and was relayed to anybody.
Told(c) ==
  LET r == conn[c] IN
  \A p \in Paths : r.ack[p] # Unasked =>
    /\ <<p, c>> \in dirSubs
    /\ ~r.dropped => \A i \in (r.ack[p] + 1)..Passed(r.user) :
                       log[r.user][i] = p /\ i \notin skipped[r.user] => r.seen[p] >= i

\* A revocation that has not ended will close the connection.
Doomed(c) ==
  \E k \in Revokers :
    /\ closing[k].at \in {"push", "disconnect", "close"} /\ closing[k].user = conn[c].user
    /\ closing[k].at = "close" => c \in closing[k].left

\* A revocation still knows the connections it began with.
Remembered(c) ==
  \A k \in Revokers : c \in closing[k].owed =>
    /\ closing[k].at # "idle"
    /\ closing[k].at # "close" => c \in userConns /\ closing[k].user = conn[c].user
    /\ closing[k].at = "close" => c \in closing[k].left

Fits(c) ==
  /\ conn[c].reader \in Asking => conn[c].arg \in Paths
  /\ c \in userConns => conn[c].reader \notin Entering
  /\ OpenConn(c) =>
       /\ Mapped(c) /\ Told(c) /\ Remembered(c)
       /\ session[c] = "deleted" /\ conn[c].reader # "new" => conn[c].late \/ Doomed(c)

Inv == TypeOK /\ \A c \in Conns : Fits(c)

-----------------------------------------------------------------------------
(* What a step about one connection leaves of the others.                  *)

LEMMA SomeUserType == SomeUser \in Users
  BY HubAssumption DEF SomeUser

\* A connection nothing happens to still fits.
LEMMA OthersFit ==
  ASSUME NEW d \in Conns, Fits(d), conn'[d] = conn[d], session'[d] = session[d],
         d \in conns' <=> d \in conns, d \in userConns' <=> d \in userConns,
         \A p \in Paths : <<p, d>> \in dirSubs' <=> <<p, d>> \in dirSubs,
         UNCHANGED <<events, closing>>
  PROVE  Fits(d)'
  <1>1. Subscribed(d)' = Subscribed(d)
    BY DEF Subscribed
  <1>2. \A u : Passed(u)' = Passed(u)
    BY DEF Passed, events
  <1>3. (Mapped(d) => Mapped(d)') /\ (Remembered(d) => Remembered(d)') /\ (Doomed(d) => Doomed(d)')
    BY <1>1 DEF Mapped, Remembered, Doomed
  <1>4. Told(d) => Told(d)'
    BY <1>2 DEF Told, events
  <1> QED BY <1>3, <1>4 DEF Fits, OpenConn

\* A step that gives connection c the record r.
LEMMA OneConnection ==
  ASSUME Inv, NEW c \in Conns, NEW r \in Connections, Len(r.queue) <= Capacity, Set(c, r),
         session' \in [Conns -> {"none", "valid", "deleted"}],
         conns' \subseteq Conns, userConns' \subseteq Conns, dirSubs' \subseteq Paths \X Conns,
         \A d \in Conns \ {c} :
           /\ session'[d] = session[d]
           /\ d \in conns' <=> d \in conns
           /\ d \in userConns' <=> d \in userConns
           /\ \A p \in Paths : <<p, d>> \in dirSubs' <=> <<p, d>> \in dirSubs,
         UNCHANGED <<events, closing>>, Fits(c)'
  PROVE  Inv'
  <1>1. conn' \in [Conns -> Connections] /\ \A d \in Conns \ {c} : conn'[d] = conn[d]
    BY DEF Set, Inv, TypeOK
  <1>2. \A d \in Conns : Len(conn'[d].queue) <= Capacity
    BY <1>1 DEF Set, Inv, TypeOK
  <1>3. TypeOK'
    BY <1>1, <1>2 DEF Inv, TypeOK, events
  <1>4. ASSUME NEW d \in Conns \ {c} PROVE Fits(d)'
    BY <1>1, OthersFit DEF Inv
  <1> QED BY <1>3, <1>4 DEF Inv

\* The same, of a step that leaves the maps alone.
LEMMA OneRecord ==
  ASSUME Inv, NEW c \in Conns, NEW r \in Connections, Len(r.queue) <= Capacity, Set(c, r),
         UNCHANGED <<session, hub, events, closing>>, Fits(c)'
  PROVE  Inv'
  BY OneConnection DEF Inv, TypeOK, hub

\* A closed connection has nothing left to prove but the type of its argument.
LEMMA ClosedFits ==
  ASSUME TypeOK, NEW c \in Conns, NEW r \in Connections, Set(c, r), r.stage # "open",
         r.reader \in Asking => r.arg \in Paths,
         c \in userConns' => r.reader \notin Entering
  PROVE  Fits(c)'
  <1>1. conn'[c] = r
    BY DEF Set, TypeOK
  <1> QED BY <1>1 DEF Fits, OpenConn

LEMMA FlagType ==
  ASSUME NEW r \in Connections, NEW who \in Closers \cup {"reader", "writer"}
  PROVE  /\ Flag(r, who) \in Connections /\ Len(Flag(r, who).queue) = 0
         /\ Flag(r, who).stage = "flagged" /\ Flag(r, who).reader = r.reader /\ Flag(r, who).arg = r.arg
  <1>1. NewConn.ack \in [Paths -> 0..Unasked] /\ NewConn.seen \in [Paths -> Nat]
    BY HubAssumption DEF NewConn, Unasked
  <1>2. <<>> \in Seq({"answer", "notice", "expired"}) /\ Len(<<>>) = 0
    OBVIOUS
  <1>3. Flag(r, who) \in Connections
    BY <1>1, <1>2 DEF Flag, Connections
  <1>4. /\ Flag(r, who).queue = <<>> /\ Flag(r, who).stage = "flagged"
        /\ Flag(r, who).reader = r.reader /\ Flag(r, who).arg = r.arg
    BY DEF Flag, Connections
  <1> QED BY <1>2, <1>3, <1>4

-----------------------------------------------------------------------------
(* The steps of the reader.                                                *)

\* What the browser was told stays true if its subscriptions stay.
LEMMA ToldKept ==
  ASSUME TypeOK, NEW c \in Conns, NEW r \in Connections, Set(c, r), Told(c),
         r.user = conn[c].user, r.ack = conn[c].ack, r.seen = conn[c].seen,
         conn[c].dropped => r.dropped,
         \A p \in Paths : <<p, c>> \in dirSubs /\ conn[c].ack[p] # Unasked => <<p, c>> \in dirSubs',
         UNCHANGED events
  PROVE  Told(c)'
  <1>1. conn'[c] = r
    BY DEF Set, TypeOK
  <1>2. Passed(r.user)' = Passed(r.user)
    BY DEF Passed, events
  <1> QED BY <1>1, <1>2 DEF Told, events

\* A revocation keeps what it knows of a connection that stays in the user's set.
LEMMA RevocationKept ==
  ASSUME TypeOK, NEW c \in Conns, NEW r \in Connections, Set(c, r), OpenConn(c), Fits(c),
         r.user = conn[c].user, r.late = conn[c].late,
         conn[c].reader # "new", c \in userConns => c \in userConns',
         UNCHANGED <<session, closing>>
  PROVE  /\ Remembered(c)'
         /\ (session[c] = "deleted" /\ conn[c].reader # "new" => conn[c].late \/ Doomed(c))'
  <1>1. conn'[c] = r
    BY DEF Set, TypeOK
  <1>2. Doomed(c) => Doomed(c)'
    BY <1>1 DEF Doomed
  <1> QED BY <1>1, <1>2 DEF Fits, Remembered

LEMMA UpgradeInv ==
  ASSUME Inv, NEW c \in Conns, NEW u \in Users, WebSocketUpgrade(c, u) PROVE Inv'
  <1> DEFINE r == [conn[c] EXCEPT !.user = u, !.reader = "upgrading"]
  <1>0. conn[c] \in Connections /\ Len(conn[c].queue) <= Capacity /\ Fits(c)
    BY DEF Inv, TypeOK
  <1>1. r \in Connections /\ r.queue = conn[c].queue
    BY <1>0 DEF Connections, Entering
  <1>2. conn'[c] = r /\ Set(c, r)
    BY DEF WebSocketUpgrade, Set, Inv, TypeOK
  <1>3. c \notin userConns
    BY <1>0 DEF Fits, WebSocketUpgrade, Entering
  <1>4. ASSUME OpenConn(c) PROVE Mapped(c)' /\ Told(c)' /\ Remembered(c)'
    <2>1. Subscribed(c) = {} /\ Subscribed(c)' = {} /\ conn[c].subs = {}
      BY <1>0, <1>4 DEF Fits, Mapped, WebSocketUpgrade, Entering, Subscribed, hub
    <2>2. \A p \in Paths : conn[c].ack[p] = Unasked
      BY <1>0, <1>4, <2>1 DEF Fits, Told, Subscribed
    <2>3. Mapped(c)'
      BY <1>0, <1>2, <2>1 DEF Mapped, Entering, Connections
    <2>4. Told(c)'
      BY <1>0, <1>2, <2>2 DEF Told, Connections
    <2>5. Remembered(c)'
      BY <1>0, <1>3, <1>4 DEF Fits, Remembered, WebSocketUpgrade
    <2> QED BY <2>3, <2>4, <2>5
  <1>5. Fits(c)'
    <2>1. r.reader = "upgrading" /\ r.stage = conn[c].stage /\ session'[c] = "valid"
      BY <1>0 DEF Connections, WebSocketUpgrade, Inv, TypeOK
    <2>2. c \notin userConns'
      BY <1>3 DEF WebSocketUpgrade, hub
    <2> QED BY <1>2, <1>4, <2>1, <2>2 DEF Fits, OpenConn, Asking
  <1>6. session' \in [Conns -> {"none", "valid", "deleted"}] /\ \A d \in Conns \ {c} : session'[d] = session[d]
    BY DEF WebSocketUpgrade, Inv, TypeOK
  <1> HIDE DEF r
  <1> QED BY <1>0, <1>1, <1>2, <1>5, <1>6, OneConnection DEF WebSocketUpgrade, hub, Inv, TypeOK

LEMMA RegisterInv ==
  ASSUME Inv, NEW c \in Conns, Register(c) \/ RegisterUser(c) PROVE Inv'
  <1> DEFINE r == IF Register(c) THEN [conn[c] EXCEPT !.reader = "registering"]
                  ELSE [conn[c] EXCEPT !.reader = "reading", !.writer = "writing"]
  <1>0. conn[c] \in Connections /\ Len(conn[c].queue) <= Capacity /\ Fits(c)
    BY DEF Inv, TypeOK
  <1>1. /\ r \in Connections
        /\ r.queue = conn[c].queue /\ r.user = conn[c].user /\ r.late = conn[c].late /\ r.ack = conn[c].ack
        /\ r.seen = conn[c].seen /\ r.dropped = conn[c].dropped /\ r.subs = conn[c].subs
        /\ r.stage = conn[c].stage
        /\ r.reader = IF Register(c) THEN "registering" ELSE "reading"
    BY <1>0 DEF Connections, Entering
  <1>2. conn'[c] = r /\ Set(c, r)
    BY DEF Register, RegisterUser, ReaderTo, Set, Inv, TypeOK
  <1>3. /\ conns' \in {conns, conns \cup {c}} /\ userConns' \in {userConns, userConns \cup {c}}
        /\ dirSubs' = dirSubs /\ session' = session /\ UNCHANGED <<events, closing>>
        /\ Register(c) => conn[c].reader = "upgrading" /\ conns' = conns \cup {c} /\ userConns' = userConns
        /\ ~Register(c) => conn[c].reader = "registering" /\ c \in userConns' /\ conns' = conns
    BY DEF Register, RegisterUser
  <1> HIDE DEF r
  <1>4. ASSUME OpenConn(c) PROVE Mapped(c)' /\ Told(c)'
    <2>1. Mapped(c) /\ Told(c) /\ Subscribed(c)' = Subscribed(c)
      BY <1>0, <1>3, <1>4 DEF Fits, Subscribed
    <2>2. Mapped(c)'
      BY <1>1, <1>2, <1>3, <2>1 DEF Mapped, Entering
    <2>3. Told(c)'
      BY <1>1, <1>2, <1>3, <2>1, ToldKept DEF Inv
    <2> QED BY <2>2, <2>3
  <1>5. OpenConn(c) => Remembered(c)' /\ (session[c] = "deleted" /\ conn[c].reader # "new" => conn[c].late \/ Doomed(c))'
    BY <1>0, <1>1, <1>2, <1>3, RevocationKept DEF Inv
  <1>6. Fits(c)'
    BY <1>0, <1>1, <1>2, <1>3, <1>4, <1>5 DEF Fits, OpenConn, Asking, Entering
  <1> QED BY <1>0, <1>1, <1>2, <1>3, <1>6, OneConnection DEF Inv, TypeOK

\* A request for a subscription: the connection's own set changes first.
LEMMA SubscribeInv ==
  ASSUME Inv, NEW c \in Conns, NEW p \in Paths, Subscribe(c, p) \/ Unsubscribe(c, p) PROVE Inv'
  <1> DEFINE r == IF conn'[c].reader = "subscribing"
                  THEN [conn[c] EXCEPT !.reader = "subscribing", !.arg = p, !.subs = @ \cup {p}]
                  ELSE [conn[c] EXCEPT !.reader = "unsubscribing", !.arg = p, !.subs = @ \ {p},
                                       !.ack[p] = Unasked, !.seen[p] = 0]
  <1>0. conn[c] \in Connections /\ Len(conn[c].queue) <= Capacity /\ Fits(c)
    BY DEF Inv, TypeOK
  <1>1. conn'[c] = r /\ Set(c, r)
    <2>1. CASE Subscribe(c, p)
      BY <1>0, <2>1 DEF Subscribe, Set, Inv, TypeOK, Connections
    <2>2. CASE Unsubscribe(c, p)
      BY <1>0, <2>2 DEF Unsubscribe, Set, Inv, TypeOK, Connections
    <2> QED BY <2>1, <2>2
  <1>2. /\ r.queue = conn[c].queue /\ r.user = conn[c].user /\ r.late = conn[c].late
        /\ r.dropped = conn[c].dropped /\ r.stage = conn[c].stage /\ r.arg = p
        /\ \/ /\ r.reader = "subscribing" /\ r.ack = conn[c].ack /\ r.seen = conn[c].seen
              /\ r.subs = conn[c].subs \cup {p}
           \/ /\ r.reader = "unsubscribing" /\ r.subs = conn[c].subs \ {p}
              /\ r.ack = [conn[c].ack EXCEPT ![p] = Unasked] /\ r.seen = [conn[c].seen EXCEPT ![p] = 0]
    BY <1>0 DEF Connections
  <1>3. r \in Connections
    <2>1. Unasked \in 0..Unasked
      BY HubAssumption DEF Unasked
    <2>2. [conn[c] EXCEPT !.reader = "subscribing", !.arg = p, !.subs = @ \cup {p}] \in Connections
      BY <1>0 DEF Connections, Asking
    <2>3. /\ [conn[c].ack EXCEPT ![p] = Unasked] \in [Paths -> 0..Unasked]
          /\ [conn[c].seen EXCEPT ![p] = 0] \in [Paths -> Nat]
      BY <1>0, <2>1 DEF Connections
    <2>4. [conn[c] EXCEPT !.reader = "unsubscribing", !.arg = p, !.subs = @ \ {p},
                          !.ack[p] = Unasked, !.seen[p] = 0] \in Connections
      BY <1>0, <2>3 DEF Connections, Asking
    <2> QED BY <2>2, <2>4
  <1>4. conn[c].reader = "reading" /\ UNCHANGED <<session, hub, events, closing>>
    BY DEF Subscribe, Unsubscribe, Reading
  <1> HIDE DEF r
  <1>5. ASSUME OpenConn(c) PROVE Mapped(c)' /\ Told(c)'
    <2>1. Mapped(c) /\ Told(c) /\ Subscribed(c)' = Subscribed(c) /\ Subscribed(c) = conn[c].subs
      BY <1>0, <1>4, <1>5 DEF Fits, Subscribed, Mapped, hub
    <2>2. r.ack \in [Paths -> 0..Unasked] /\ conn[c].ack \in [Paths -> 0..Unasked]
          /\ conn[c].seen \in [Paths -> Nat]
      BY <1>0, <1>3 DEF Connections
    <2>3. Mapped(c)'
      BY <1>1, <1>2, <1>4, <2>1, <2>2 DEF Mapped, Entering, hub
    <2>4. \A q \in Paths : r.ack[q] # Unasked => r.ack[q] = conn[c].ack[q] /\ r.seen[q] = conn[c].seen[q]
      BY <1>2, <2>2
    <2>5. \A u : Passed(u)' = Passed(u)
      BY <1>4 DEF Passed, events
    <2>6. Told(c)'
      BY <1>1, <1>2, <1>4, <2>1, <2>4, <2>5 DEF Told, hub, events
    <2> QED BY <2>3, <2>6
  <1>6. OpenConn(c) => Remembered(c)' /\ (session[c] = "deleted" /\ conn[c].reader # "new" => conn[c].late \/ Doomed(c))'
    BY <1>0, <1>1, <1>2, <1>3, <1>4, RevocationKept DEF Inv, hub
  <1>7. Fits(c)'
    BY <1>1, <1>2, <1>5, <1>6 DEF Fits, OpenConn, Entering
  <1> QED BY <1>0, <1>1, <1>2, <1>3, <1>4, <1>7, OneRecord

\* The hub follows.
LEMMA FollowInv ==
  ASSUME Inv, NEW c \in Conns, AddDirSub(c) \/ RemoveDirSub(c) PROVE Inv'
  <1> DEFINE to == IF AddDirSub(c) THEN "answering" ELSE "replying"
             r == [conn[c] EXCEPT !.reader = to]
             a == conn[c].arg
  <1>0. conn[c] \in Connections /\ Len(conn[c].queue) <= Capacity /\ Fits(c) /\ a \in Paths
    BY DEF Inv, TypeOK, Fits, AddDirSub, RemoveDirSub, Asking
  <1>1. conn'[c] = r /\ Set(c, r)
    BY DEF AddDirSub, RemoveDirSub, ReaderTo, Set, Inv, TypeOK
  <1>2. /\ r \in Connections
        /\ r.queue = conn[c].queue /\ r.user = conn[c].user /\ r.late = conn[c].late /\ r.ack = conn[c].ack
        /\ r.seen = conn[c].seen /\ r.dropped = conn[c].dropped /\ r.subs = conn[c].subs
        /\ r.stage = conn[c].stage /\ r.arg = a /\ r.reader = to
    BY <1>0 DEF Connections, Asking
  <1>3. /\ UNCHANGED <<session, conns, userConns, events, closing>>
        /\ \/ to = "answering" /\ conn[c].reader = "subscribing" /\ dirSubs' = dirSubs \cup {<<a, c>>}
           \/ to = "replying" /\ conn[c].reader = "unsubscribing" /\ dirSubs' = dirSubs \ {<<a, c>>}
    BY DEF AddDirSub, RemoveDirSub
  <1>4. dirSubs' \subseteq Paths \X Conns
        /\ \A d \in Conns \ {c}, p \in Paths : <<p, d>> \in dirSubs' <=> <<p, d>> \in dirSubs
    BY <1>0, <1>3 DEF Inv, TypeOK
  <1> HIDE DEF r, to, a
  <1>5. ASSUME OpenConn(c) PROVE Mapped(c)' /\ Told(c)'
    <2>1. Mapped(c) /\ Told(c)
      BY <1>0, <1>5 DEF Fits
    <2>2. CASE to = "answering"
      <3>1. Subscribed(c)' = Subscribed(c) \cup {a}
        BY <1>0, <1>3, <2>2 DEF Subscribed
      <3>2. Mapped(c)'
        BY <1>1, <1>2, <1>3, <2>1, <2>2, <3>1 DEF Mapped, Entering, a
      <3>3. Told(c)'
        BY <1>1, <1>2, <1>3, <2>1, <2>2, ToldKept DEF Inv
      <3> QED BY <3>2, <3>3
    <2>3. CASE to = "replying"
      <3>1. Subscribed(c)' = Subscribed(c) \ {a}
        BY <1>0, <1>3, <2>3 DEF Subscribed
      <3>2. Mapped(c)' /\ conn[c].ack[a] = Unasked
        BY <1>1, <1>2, <1>3, <2>1, <2>3, <3>1 DEF Mapped, Entering, a
      <3>3. Told(c)'
        BY <1>1, <1>2, <1>3, <2>1, <2>3, <3>2, ToldKept DEF Inv
      <3> QED BY <3>2, <3>3
    <2> QED BY <1>3, <2>2, <2>3
  <1>6. OpenConn(c) => Remembered(c)' /\ (session[c] = "deleted" /\ conn[c].reader # "new" => conn[c].late \/ Doomed(c))'
    BY <1>0, <1>1, <1>2, <1>3, RevocationKept DEF Inv
  <1>7. Fits(c)'
    BY <1>0, <1>1, <1>2, <1>3, <1>5, <1>6 DEF Fits, OpenConn, Entering
  <1> QED BY <1>0, <1>1, <1>2, <1>3, <1>4, <1>7, OneConnection DEF Inv, TypeOK

\* What the browser sees and hears may change; what it asked for does not.
LEMMA QuietFits ==
  ASSUME TypeOK, NEW c \in Conns, NEW r \in Connections, Set(c, r), Fits(c),
         r.user = conn[c].user, r.reader = conn[c].reader, r.arg = conn[c].arg, r.late = conn[c].late,
         r.subs = conn[c].subs, r.ack = conn[c].ack, r.seen = conn[c].seen, r.stage = conn[c].stage,
         conn[c].dropped => r.dropped, UNCHANGED <<session, hub, events, closing>>
  PROVE  Fits(c)'
  <1>1. conn'[c] = r
    BY DEF Set, TypeOK
  <1>2. ASSUME OpenConn(c) PROVE Mapped(c)' /\ Told(c)'
    <2>1. Mapped(c) /\ Told(c) /\ Subscribed(c)' = Subscribed(c)
      BY <1>2 DEF Fits, Subscribed, hub
    <2>2. Mapped(c)'
      BY <1>1, <2>1 DEF Mapped, hub
    <2>3. Told(c)'
      BY <2>1, ToldKept DEF hub
    <2> QED BY <2>2, <2>3
  <1>3. (Remembered(c) => Remembered(c)') /\ (Doomed(c) => Doomed(c)')
    BY <1>1 DEF Remembered, Doomed, hub
  <1> QED BY <1>1, <1>2, <1>3 DEF Fits, OpenConn, hub

LEMMA QuietInv ==
  ASSUME Inv, NEW c \in Conns, NEW r \in Connections, Set(c, r), Len(r.queue) <= Capacity,
         r.user = conn[c].user, r.reader = conn[c].reader, r.arg = conn[c].arg, r.late = conn[c].late,
         r.subs = conn[c].subs, r.ack = conn[c].ack, r.seen = conn[c].seen, r.stage = conn[c].stage,
         conn[c].dropped => r.dropped, UNCHANGED <<session, hub, events, closing>>
  PROVE  Inv'
  BY QuietFits, OneRecord DEF Inv

\* A step that closes the connection or finds it closed.
LEMMA ClosedInv ==
  ASSUME Inv, NEW c \in Conns, NEW r \in Connections, Set(c, r), Len(r.queue) <= Capacity,
         r.stage # "open",
         r.reader \in Asking \cup Entering => r.reader = conn[c].reader /\ r.arg = conn[c].arg,
         conns' \in {conns, conns \ {c}}, userConns' \in {userConns, userConns \ {c}},
         dirSubs' \subseteq dirSubs,
         \A d \in Conns \ {c}, p \in Paths : <<p, d>> \in dirSubs => <<p, d>> \in dirSubs',
         UNCHANGED <<session, events, closing>>
  PROVE  Inv'
  <1>1. Fits(c)'
    BY ClosedFits DEF Inv, Fits, Asking, Entering
  <1>2. conns' \subseteq Conns /\ userConns' \subseteq Conns /\ dirSubs' \subseteq Paths \X Conns
    BY DEF Inv, TypeOK
  <1> QED BY <1>1, <1>2, OneConnection DEF Inv, TypeOK

\* The relay is never ahead of the log.
LEMMA PassedInLog ==
  ASSUME TypeOK, NEW u \in Users
  PROVE  Passed(u) \in Nat /\ Len(log[u]) \in Nat /\ Passed(u) <= Len(log[u]) /\ Len(log[u]) <= MaxEvents
  <1>1. relay = NoRelay => relay.user # u
    BY HubAssumption DEF NoRelay
  <1>2. Len(log[u]) \in Nat
    BY DEF TypeOK
  <1> QED BY <1>1, <1>2, HubAssumption DEF Passed, TypeOK

LEMMA AnswerInv ==
  ASSUME Inv, NEW c \in Conns, Answer(c) PROVE Inv'
  <1> DEFINE back == [conn[c] EXCEPT !.reader = "reading", !.arg = SomeUser]
             told == IF conn[c].reader = "answering"
                     THEN [back EXCEPT !.ack[conn[c].arg] = Len(log[conn[c].user])] ELSE back
             r == [told EXCEPT !.queue = Append(@, "answer")]
             u == conn[c].user
  <1>0. /\ conn[c] \in Connections /\ Len(conn[c].queue) <= Capacity /\ Fits(c)
        /\ conn[c].reader \in {"answering", "replying"} /\ conn[c].arg \in Paths /\ u \in Users
        /\ UNCHANGED <<session, hub, events, closing>>
    BY DEF Inv, TypeOK, Answer, Fits, Asking, Connections
  <1>1. back \in Connections /\ back.queue = conn[c].queue /\ back.reader = "reading" /\ back.stage = conn[c].stage
    BY <1>0, SomeUserType DEF Connections
  <1>2. CASE ~OpenConn(c) /\ Set(c, back)
    <2> HIDE DEF back
    <2> QED BY <1>0, <1>1, <1>2, ClosedInv DEF OpenConn, Asking, Entering, hub
  <1>3. CASE OpenConn(c) /\ Set(c, [Flag(back, "reader") EXCEPT !.reader = "closing"])
    <2> HIDE DEF back
    <2>1. Flag(back, "reader") \in Connections
          /\ Len(Flag(back, "reader").queue) = 0 /\ Flag(back, "reader").stage = "flagged"
      BY <1>1, FlagType
    <2>2. /\ [Flag(back, "reader") EXCEPT !.reader = "closing"] \in Connections
          /\ [Flag(back, "reader") EXCEPT !.reader = "closing"].stage = "flagged"
          /\ [Flag(back, "reader") EXCEPT !.reader = "closing"].reader = "closing"
          /\ [Flag(back, "reader") EXCEPT !.reader = "closing"].queue = Flag(back, "reader").queue
      BY <2>1 DEF Connections
    <2>3. 0 <= Capacity
      BY HubAssumption
    <2> QED BY <1>0, <1>3, <2>1, <2>2, <2>3, ClosedInv DEF Asking, Entering, hub
  <1>4. CASE OpenConn(c) /\ Len(conn[c].queue) < Capacity /\ Set(c, r)
    <2>1. Append(conn[c].queue, "answer") \in Seq({"answer", "notice", "expired"})
          /\ Len(Append(conn[c].queue, "answer")) <= Capacity
      BY <1>0, <1>4, HubAssumption DEF Connections
    <2>2. told \in Connections /\ told.queue = conn[c].queue
      <3>1. Len(log[u]) \in 0..Unasked
        BY <1>0, PassedInLog, HubAssumption DEF Unasked, Inv
      <3>2. [conn[c].ack EXCEPT ![conn[c].arg] = Len(log[u])] \in [Paths -> 0..Unasked]
        BY <1>0, <3>1 DEF Connections
      <3>3. back.ack = conn[c].ack
        BY <1>0 DEF Connections
      <3>4. told = back \/ told = [back EXCEPT !.ack = [conn[c].ack EXCEPT ![conn[c].arg] = Len(log[u])]]
        BY <3>3
      <3> HIDE DEF told, back
      <3> QED BY <1>1, <3>2, <3>4 DEF Connections
    <2>3. r \in Connections /\ Len(r.queue) <= Capacity
      <3> HIDE DEF told
      <3>1. r = [told EXCEPT !.queue = Append(conn[c].queue, "answer")]
        BY <2>2
      <3> QED BY <2>1, <2>2, <3>1 DEF Connections
    <2>4. /\ r.user = u /\ r.late = conn[c].late /\ r.subs = conn[c].subs /\ r.stage = conn[c].stage
          /\ r.seen = conn[c].seen /\ r.dropped = conn[c].dropped /\ r.reader = "reading"
          /\ \/ r.ack = conn[c].ack
             \/ /\ conn[c].reader = "answering"
                /\ r.ack = [conn[c].ack EXCEPT ![conn[c].arg] = Len(log[u])]
      BY <1>0, <2>2 DEF Connections
    <2> HIDE DEF r, told, back
    <2>5. conn'[c] = r
      BY <1>4 DEF Set, Inv, TypeOK
    <2>6. Mapped(c) /\ Told(c) /\ Subscribed(c)' = Subscribed(c) /\ Subscribed(c) = conn[c].subs
      BY <1>0, <1>4 DEF Fits, Mapped, Subscribed, hub
    <2>7. Mapped(c)'
      BY <1>0, <2>4, <2>5, <2>6 DEF Mapped, Entering, hub
    <2>8. Told(c)'
      <3>1. SUFFICES ASSUME NEW p \in Paths, r.ack[p] # Unasked
            PROVE  /\ <<p, c>> \in dirSubs
                   /\ ~r.dropped => \A i \in (r.ack[p] + 1)..Passed(u) :
                                      log[u][i] = p /\ i \notin skipped[u] => r.seen[p] >= i
        <4>1. \A v : Passed(v)' = Passed(v)
          BY <1>0 DEF Passed, events
        <4> QED BY <1>0, <2>4, <2>5, <4>1 DEF Told, hub, events
      <3>2. CASE r.ack[p] = conn[c].ack[p]
        BY <2>4, <2>6, <3>1, <3>2 DEF Told
      <3>3. CASE r.ack[p] # conn[c].ack[p]
        <4>1. p = conn[c].arg /\ conn[c].reader = "answering" /\ r.ack[p] = Len(log[u])
          BY <1>0, <2>4, <3>3 DEF Connections
        <4>2. <<p, c>> \in dirSubs
          BY <2>6, <4>1 DEF Mapped, Subscribed
        <4>3. (r.ack[p] + 1)..Passed(u) = {}
          BY <1>0, <4>1, PassedInLog DEF Inv
        <4> QED BY <4>2, <4>3
      <3> QED BY <3>2, <3>3
    <2>9. Remembered(c)' /\ (session[c] = "deleted" /\ conn[c].reader # "new" => conn[c].late \/ Doomed(c))'
      BY <1>0, <1>4, <2>3, <2>4, RevocationKept DEF Inv, hub
    <2>10. Fits(c)'
      BY <2>4, <2>5, <2>7, <2>8, <2>9 DEF Fits, Asking, Entering
    <2> QED BY <1>0, <1>4, <2>3, <2>10, OneRecord
  <1> QED BY <1>2, <1>3, <1>4 DEF Answer

-----------------------------------------------------------------------------
(* The browser, the writer, and whoever closes and unregisters.            *)

LEMMA PeerInv ==
  ASSUME Inv, NEW c \in Conns, PeerLeaves(c) \/ WriterSends(c) PROVE Inv'
  <1>0. conn[c] \in Connections /\ Len(conn[c].queue) <= Capacity
    BY DEF Inv, TypeOK
  <1>1. CASE PeerLeaves(c)
    <2> DEFINE r == [conn[c] EXCEPT !.raw = FALSE]
    <2>1. /\ r \in Connections /\ Len(r.queue) <= Capacity
          /\ r.user = conn[c].user /\ r.reader = conn[c].reader /\ r.arg = conn[c].arg /\ r.late = conn[c].late
          /\ r.subs = conn[c].subs /\ r.ack = conn[c].ack /\ r.seen = conn[c].seen /\ r.stage = conn[c].stage
          /\ r.dropped = conn[c].dropped
      BY <1>0 DEF Connections
    <2>2. Set(c, r) /\ UNCHANGED <<session, hub, events, closing>>
      BY <1>1 DEF PeerLeaves
    <2> HIDE DEF r
    <2> QED BY <2>1, <2>2, QuietInv
  <1>2. CASE WriterSends(c)
    <2> DEFINE r == [conn[c] EXCEPT !.queue = Tail(@)]
    <2>1. /\ conn[c].queue \in Seq({"answer", "notice", "expired"}) /\ conn[c].queue # <<>>
          /\ Capacity \in Nat
      BY <1>0, <1>2, HubAssumption DEF Connections, WriterSends
    <2>2. Tail(conn[c].queue) \in Seq({"answer", "notice", "expired"})
          /\ Len(Tail(conn[c].queue)) <= Capacity
      BY <1>0, <2>1
    <2>3. /\ r \in Connections /\ Len(r.queue) <= Capacity
          /\ r.user = conn[c].user /\ r.reader = conn[c].reader /\ r.arg = conn[c].arg /\ r.late = conn[c].late
          /\ r.subs = conn[c].subs /\ r.ack = conn[c].ack /\ r.seen = conn[c].seen /\ r.stage = conn[c].stage
          /\ r.dropped = conn[c].dropped
      BY <1>0, <2>2 DEF Connections
    <2>4. Set(c, r) /\ UNCHANGED <<session, hub, events, closing>>
      BY <1>2 DEF WriterSends
    <2> HIDE DEF r
    <2> QED BY <2>3, <2>4, QuietInv
  <1> QED BY <1>1, <1>2

\* A goroutine of the connection goes on to its end.
LEMMA GoroutineEnds ==
  ASSUME NEW r \in Connections, NEW at \in {"closing", "gone"}
  PROVE  /\ [r EXCEPT !.reader = at] \in Connections
         /\ [r EXCEPT !.reader = at].stage = r.stage /\ [r EXCEPT !.reader = at].queue = r.queue
         /\ [r EXCEPT !.reader = at].reader = at /\ [r EXCEPT !.reader = at].arg = r.arg
         /\ [r EXCEPT !.writer = at] \in Connections
         /\ [r EXCEPT !.writer = at].stage = r.stage /\ [r EXCEPT !.writer = at].queue = r.queue
         /\ [r EXCEPT !.writer = at].reader = r.reader /\ [r EXCEPT !.writer = at].arg = r.arg
  <1>1. [r EXCEPT !.reader = at] \in Connections
    BY DEF Connections
  <1>2. [r EXCEPT !.writer = at] \in Connections
    BY DEF Connections
  <1> QED BY <1>1, <1>2 DEF Connections

\* The reader or the writer closes the connection, or ends because it is closed.
LEMMA OwnCloseInv ==
  ASSUME Inv, NEW c \in Conns, ReaderCloses(c) \/ WriterCloses(c) PROVE Inv'
  <1>0. /\ conn[c] \in Connections /\ Len(conn[c].queue) <= Capacity
        /\ UNCHANGED <<session, hub, events, closing>> /\ 0 <= Capacity
    BY HubAssumption DEF Inv, TypeOK, ReaderCloses, WriterCloses
  <1> DEFINE f == Flag(conn[c], IF ReaderCloses(c) THEN "reader" ELSE "writer")
             r == IF ReaderCloses(c)
                  THEN IF OpenConn(c) THEN [f EXCEPT !.reader = "closing"] ELSE [conn[c] EXCEPT !.reader = "gone"]
                  ELSE IF OpenConn(c) THEN [f EXCEPT !.writer = "closing"] ELSE [conn[c] EXCEPT !.writer = "gone"]
  <1>1. /\ f \in Connections /\ Len(f.queue) = 0
        /\ f.stage = "flagged" /\ f.reader = conn[c].reader /\ f.arg = conn[c].arg
    BY <1>0, FlagType
  <1>2. Set(c, r)
    BY DEF ReaderCloses, WriterCloses
  <1> HIDE DEF f
  <1>3. /\ r \in Connections /\ r.stage # "open" /\ Len(r.queue) <= Capacity
        /\ r.reader \in {conn[c].reader, "closing", "gone"} /\ r.arg = conn[c].arg
    <2>1. CASE OpenConn(c)
      <3>1. \/ r = [f EXCEPT !.reader = "closing"]
            \/ r = [f EXCEPT !.writer = "closing"]
        BY <2>1
      <3> HIDE DEF r
      <3>2. /\ [f EXCEPT !.reader = "closing"] \in Connections
            /\ [f EXCEPT !.reader = "closing"].stage = f.stage /\ [f EXCEPT !.reader = "closing"].queue = f.queue
            /\ [f EXCEPT !.reader = "closing"].reader = "closing" /\ [f EXCEPT !.reader = "closing"].arg = f.arg
        BY <1>1, GoroutineEnds
      <3>3. /\ [f EXCEPT !.writer = "closing"] \in Connections
            /\ [f EXCEPT !.writer = "closing"].stage = f.stage /\ [f EXCEPT !.writer = "closing"].queue = f.queue
            /\ [f EXCEPT !.writer = "closing"].reader = f.reader /\ [f EXCEPT !.writer = "closing"].arg = f.arg
        BY <1>1, GoroutineEnds
      <3> QED BY <1>0, <1>1, <3>1, <3>2, <3>3
    <2>2. CASE ~OpenConn(c)
      <3>1. \/ r = [conn[c] EXCEPT !.reader = "gone"]
            \/ r = [conn[c] EXCEPT !.writer = "gone"]
        BY <2>2
      <3> HIDE DEF r
      <3>2. /\ [conn[c] EXCEPT !.reader = "gone"] \in Connections
            /\ [conn[c] EXCEPT !.reader = "gone"].stage = conn[c].stage /\ [conn[c] EXCEPT !.reader = "gone"].queue = conn[c].queue
            /\ [conn[c] EXCEPT !.reader = "gone"].reader = "gone" /\ [conn[c] EXCEPT !.reader = "gone"].arg = conn[c].arg
        BY <1>0, GoroutineEnds
      <3>3. /\ [conn[c] EXCEPT !.writer = "gone"] \in Connections
            /\ [conn[c] EXCEPT !.writer = "gone"].stage = conn[c].stage /\ [conn[c] EXCEPT !.writer = "gone"].queue = conn[c].queue
            /\ [conn[c] EXCEPT !.writer = "gone"].reader = conn[c].reader /\ [conn[c] EXCEPT !.writer = "gone"].arg = conn[c].arg
        BY <1>0, GoroutineEnds
      <3> QED BY <1>0, <2>2, <3>1, <3>2, <3>3 DEF OpenConn
    <2> QED BY <2>1, <2>2
  <1> HIDE DEF r
  <1> QED BY <1>0, <1>2, <1>3, ClosedInv DEF Asking, Entering, hub

LEMMA UnregisterInv ==
  ASSUME Inv, NEW c \in Conns, UnregisterStep(c) PROVE Inv'
  <1>0. /\ conn[c] \in Connections /\ Len(conn[c].queue) <= Capacity
        /\ UNCHANGED <<session, events, closing>>
    BY DEF Inv, TypeOK, UnregisterStep, ForgetConn, ForgetUserConn, TakeSubs, ForgetSub, Unregistered
  <1>1. ASSUME NEW s \in {"unlisted", "unowned"}, Set(c, [conn[c] EXCEPT !.stage = s]), dirSubs' = dirSubs,
               conns' \in {conns, conns \ {c}}, userConns' \in {userConns, userConns \ {c}}
        PROVE Inv'
    <2> DEFINE r == [conn[c] EXCEPT !.stage = s]
    <2>1. /\ r \in Connections /\ Len(r.queue) <= Capacity /\ r.stage # "open"
          /\ r.reader = conn[c].reader /\ r.arg = conn[c].arg
      BY <1>0 DEF Connections
    <2>2. Set(c, r)
      BY <1>1
    <2> HIDE DEF r
    <2> QED BY <1>0, <1>1, <2>1, <2>2, ClosedInv
  <1>2. CASE ForgetConn(c) \/ ForgetUserConn(c)
    BY <1>1, <1>2 DEF ForgetConn, ForgetUserConn
  <1>3. CASE TakeSubs(c)
    <2> DEFINE r == [conn[c] EXCEPT !.stage = "unsubscribing", !.left = conn[c].subs, !.subs = {}]
    <2>1. /\ r \in Connections /\ Len(r.queue) <= Capacity /\ r.stage # "open"
          /\ r.reader = conn[c].reader /\ r.arg = conn[c].arg
      BY ZenonT(40), <1>0 DEF Connections
    <2>2. Set(c, r) /\ UNCHANGED hub
      BY <1>3 DEF TakeSubs
    <2> HIDE DEF r
    <2> QED BY <1>0, <2>1, <2>2, ClosedInv DEF hub
  <1>4. CASE ForgetSub(c)
    <2>1. PICK p \in conn[c].left : /\ dirSubs' = dirSubs \ {<<p, c>>}
                                    /\ Set(c, [conn[c] EXCEPT !.left = @ \ {p}])
      BY <1>4 DEF ForgetSub
    <2> DEFINE r == [conn[c] EXCEPT !.left = @ \ {p}]
    <2>2. /\ r \in Connections /\ Len(r.queue) <= Capacity /\ r.stage # "open"
          /\ r.reader = conn[c].reader /\ r.arg = conn[c].arg
      BY <1>0, <1>4 DEF Connections, ForgetSub
    <2>3. Set(c, r) /\ UNCHANGED <<conns, userConns>>
      BY <1>4, <2>1 DEF ForgetSub
    <2> HIDE DEF r
    <2> QED BY <1>0, <2>1, <2>2, <2>3, ClosedInv
  <1>5. CASE Unregistered(c)
    <2> DEFINE rd == IF conn[c].closer = "reader" THEN "gone" ELSE conn[c].reader
               wr == IF conn[c].closer = "writer" THEN "gone" ELSE conn[c].writer
               r == [conn[c] EXCEPT !.stage = "closed", !.reader = rd, !.writer = wr]
    <2>0. /\ rd \in {conn[c].reader, "gone"}
          /\ rd \in Entering \cup Asking \cup {"reading", "closing", "gone"}
          /\ wr \in {"none", "writing", "closing", "gone"}
      BY <1>0 DEF Connections
    <2> HIDE DEF rd, wr
    <2>1. /\ r \in Connections /\ Len(r.queue) <= Capacity /\ r.stage # "open"
          /\ r.reader \in {conn[c].reader, "gone"} /\ r.arg = conn[c].arg
      <3>1. r \in Connections
        BY ZenonT(40), <1>0, <2>0 DEF Connections
      <3>2. r.stage = "closed" /\ r.queue = conn[c].queue /\ r.reader = rd /\ r.arg = conn[c].arg
        BY <1>0 DEF Connections
      <3> QED BY <1>0, <2>0, <3>1, <3>2
    <2>2. Set(c, r) /\ UNCHANGED hub
      BY <1>5 DEF Unregistered, rd, wr
    <2> HIDE DEF r
    <2> QED BY <1>0, <2>1, <2>2, ClosedInv DEF hub, Asking, Entering
  <1> QED BY <1>2, <1>3, <1>4, <1>5 DEF UnregisterStep

-----------------------------------------------------------------------------
(* Revocations, and the end of the server.                                 *)

LEMMA NotifyType ==
  ASSUME NEW r \in Connections, Len(r.queue) <= Capacity, NEW kind \in {"notice", "expired"}
  PROVE  LET n == Notify(r, kind) IN
         /\ n \in Connections /\ Len(n.queue) <= Capacity
         /\ n.user = r.user /\ n.reader = r.reader /\ n.arg = r.arg /\ n.late = r.late
         /\ n.subs = r.subs /\ n.ack = r.ack /\ n.seen = r.seen /\ n.stage = r.stage
         /\ (r.dropped => n.dropped)
         /\ (r.stage = "open" => n # r \/ n.dropped)
  <1> DEFINE q == Append(r.queue, kind)
  <1>1. CASE r.stage # "open"
    BY <1>1 DEF Notify
  <1>2. CASE r.stage = "open" /\ Len(r.queue) < Capacity
    <2>1. /\ q \in Seq({"answer", "notice", "expired"}) /\ Len(q) <= Capacity /\ q # r.queue
      BY <1>2, HubAssumption DEF Connections
    <2>2. Notify(r, kind) = [r EXCEPT !.queue = q]
      BY <1>2 DEF Notify
    <2> HIDE DEF q
    <2>3. Notify(r, kind) \in Connections /\ Notify(r, kind).queue = q
      BY <2>1, <2>2 DEF Connections
    <2> QED BY <2>1, <2>2, <2>3 DEF Connections
  <1>3. CASE r.stage = "open" /\ ~(Len(r.queue) < Capacity)
    <2>1. Notify(r, kind) = [r EXCEPT !.dropped = TRUE]
      BY <1>3 DEF Notify
    <2> QED BY <2>1 DEF Connections
  <1> QED BY <1>1, <1>2, <1>3

\* A connection fits if the step's revocations leave it remembered and doomed.
LEMMA RevokedFits ==
  ASSUME NEW d \in Conns, Fits(d), UNCHANGED <<hub, events>>,
         conn'[d].user = conn[d].user, conn'[d].reader = conn[d].reader, conn'[d].arg = conn[d].arg,
         conn'[d].subs = conn[d].subs, conn'[d].ack = conn[d].ack, conn'[d].seen = conn[d].seen,
         conn'[d].stage = conn[d].stage, conn[d].dropped => conn'[d].dropped,
         OpenConn(d) =>
           /\ Remembered(d)'
           /\ session'[d] = "deleted" /\ conn[d].reader # "new" => conn'[d].late \/ Doomed(d)'
  PROVE  Fits(d)'
  <1>1. Subscribed(d)' = Subscribed(d) /\ \A u : Passed(u)' = Passed(u)
    BY DEF Subscribed, Passed, hub, events
  <1>2. Mapped(d) => Mapped(d)'
    BY <1>1 DEF Mapped, hub
  <1>3. Told(d) => Told(d)'
    BY <1>1 DEF Told, hub, events
  <1> QED BY <1>2, <1>3 DEF Fits, OpenConn, hub

Revocation == [at : {"idle", "push", "disconnect", "close", "ended"}, user : Users,
               left : SUBSET Conns, owed : SUBSET Conns]

\* A step of revocation k, which says something to connections or not.
LEMMA RevocationInv ==
  ASSUME Inv, NEW k \in Closers, NEW x \in Revocation, closing' = [closing EXCEPT ![k] = x],
         session' \in [Conns -> {"none", "valid", "deleted"}], UNCHANGED <<hub, events>>,
         conn' \in [Conns -> Connections],
         \A d \in Conns :
           /\ Len(conn'[d].queue) <= Capacity
           /\ conn'[d].user = conn[d].user /\ conn'[d].reader = conn[d].reader
           /\ conn'[d].arg = conn[d].arg /\ conn'[d].subs = conn[d].subs
           /\ conn'[d].ack = conn[d].ack /\ conn'[d].seen = conn[d].seen
           /\ conn'[d].stage = conn[d].stage /\ (conn[d].dropped => conn'[d].dropped)
           /\ OpenConn(d) =>
                /\ Remembered(d)'
                /\ session'[d] = "deleted" /\ conn[d].reader # "new" => conn'[d].late \/ Doomed(d)'
  PROVE  Inv'
  <1>1. closing' \in [Closers -> Revocation]
    BY DEF Inv, TypeOK, Revocation
  <1>2. TypeOK'
    BY <1>1 DEF Inv, TypeOK, Revocation, hub, events
  <1>3. ASSUME NEW d \in Conns PROVE Fits(d)'
    BY <1>3, RevokedFits DEF Inv
  <1> QED BY <1>2, <1>3 DEF Inv

\* The revocations that a step does not take keep what they know.
LEMMA OtherRevocations ==
  ASSUME Inv, NEW k \in Closers, NEW x \in Revocation, closing' = [closing EXCEPT ![k] = x],
         NEW d \in Conns, OpenConn(d), UNCHANGED hub, conn'[d].user = conn[d].user,
         k \in Revokers /\ d \in x.owed =>
           /\ x.at # "idle"
           /\ x.at # "close" => d \in userConns /\ x.user = conn[d].user
           /\ x.at = "close" => d \in x.left
  PROVE  Remembered(d)'
  <1>1. \A j \in Closers : closing'[j] = IF j = k THEN x ELSE closing[j]
    BY DEF Inv, TypeOK
  <1> QED BY <1>1 DEF Inv, Fits, Remembered, Closers, hub

LEMMA DeleteSessionsInv ==
  ASSUME Inv, NEW k \in Revokers, NEW u \in Users, DeleteSessions(k, u) PROVE Inv'
  <1> DEFINE x == [Resting EXCEPT !.at = "push", !.user = u, !.owed = Of(u)]
  <1>1. /\ x \in Revocation /\ x.at = "push" /\ x.user = u /\ x.owed = Of(u)
        /\ Of(u) \subseteq Conns
    BY SomeUserType DEF Resting, Revocation, Of, Inv, TypeOK
  <1>2. /\ closing[k].at = "idle" /\ closing' = [closing EXCEPT ![k] = x] /\ UNCHANGED <<conn, hub, events>>
        /\ \A d \in Conns : session'[d] = IF session[d] = "valid" /\ conn[d].user = u THEN "deleted" ELSE session[d]
        /\ session' \in [Conns -> {"none", "valid", "deleted"}]
    BY DEF DeleteSessions, Inv, TypeOK
  <1>3. \A j \in Closers : closing'[j] = IF j = k THEN x ELSE closing[j]
    BY <1>2 DEF Inv, TypeOK
  <1> HIDE DEF x
  <1>4. ASSUME NEW d \in Conns, OpenConn(d) PROVE Remembered(d)'
    BY <1>1, <1>2, <1>4, OtherRevocations DEF Closers, Of, Inv, TypeOK
  <1>5. ASSUME NEW d \in Conns, OpenConn(d), session'[d] = "deleted", conn[d].reader # "new"
        PROVE  conn'[d].late \/ Doomed(d)'
    <2>1. CASE conn[d].user = u
      BY <1>1, <1>2, <1>3, <2>1 DEF Doomed, Closers
    <2>2. CASE conn[d].user # u
      <3>1. conn[d].late \/ Doomed(d)
        BY <1>2, <1>5, <2>2 DEF Inv, Fits
      <3>2. Doomed(d) => Doomed(d)'
        BY <1>2, <1>3 DEF Doomed, Closers
      <3> QED BY <1>2, <3>1, <3>2
    <2> QED BY <2>1, <2>2
  <1>6. conn' \in [Conns -> Connections] /\ \A d \in Conns : Len(conn'[d].queue) <= Capacity
    BY <1>2 DEF Inv, TypeOK
  <1> QED BY <1>1, <1>2, <1>4, <1>5, <1>6, RevocationInv DEF Closers

LEMMA PushInv ==
  ASSUME Inv, NEW k \in Closers, PushSessionExpired(k) PROVE Inv'
  <1> DEFINE x == [closing[k] EXCEPT !.at = "disconnect"]
  <1>0. closing[k] \in Revocation /\ closing[k].at = "push"
    BY DEF PushSessionExpired, Inv, TypeOK, Revocation
  <1>1. /\ x \in Revocation /\ x.at = "disconnect" /\ x.user = closing[k].user
        /\ x.left = closing[k].left /\ x.owed = closing[k].owed
    BY <1>0 DEF Revocation
  <1>2. closing' = [closing EXCEPT ![k] = x] /\ UNCHANGED <<session, hub, events>>
    BY DEF PushSessionExpired
  <1>3. \A j \in Closers : closing'[j] = IF j = k THEN x ELSE closing[j]
    BY <1>2 DEF Inv, TypeOK
  <1> HIDE DEF x
  <1>4. conn' \in [Conns -> Connections]
    BY NotifyType DEF PushSessionExpired, Inv, TypeOK
  <1>5. ASSUME NEW d \in Conns
        PROVE  /\ Len(conn'[d].queue) <= Capacity
               /\ conn'[d].user = conn[d].user /\ conn'[d].reader = conn[d].reader
               /\ conn'[d].arg = conn[d].arg /\ conn'[d].subs = conn[d].subs
               /\ conn'[d].ack = conn[d].ack /\ conn'[d].seen = conn[d].seen
               /\ conn'[d].stage = conn[d].stage /\ (conn[d].dropped => conn'[d].dropped)
               /\ conn'[d].late = conn[d].late
    <2>1. conn'[d] = conn[d] \/ conn'[d] = Notify(conn[d], "expired")
      BY DEF PushSessionExpired
    <2>2. conn[d] \in Connections /\ Len(conn[d].queue) <= Capacity
      BY DEF Inv, TypeOK
    <2> QED BY <2>1, <2>2, NotifyType
  <1>6. ASSUME NEW d \in Conns, OpenConn(d) PROVE Remembered(d)'
    <2>1. k \in Revokers /\ d \in x.owed => d \in userConns /\ x.user = conn[d].user
      BY <1>0, <1>1, <1>6 DEF Inv, Fits, Remembered
    <2> QED BY <1>1, <1>2, <1>5, <1>6, <2>1, OtherRevocations
  <1>7. ASSUME NEW d \in Conns, OpenConn(d), session'[d] = "deleted", conn[d].reader # "new"
        PROVE  conn'[d].late \/ Doomed(d)'
    <2>1. conn[d].late \/ Doomed(d)
      BY <1>2, <1>7 DEF Inv, Fits
    <2>2. Doomed(d) => Doomed(d)'
      BY <1>0, <1>1, <1>3, <1>5 DEF Doomed, Closers
    <2> QED BY <1>5, <2>1, <2>2
  <1> QED BY <1>1, <1>2, <1>4, <1>5, <1>6, <1>7, RevocationInv DEF Inv, TypeOK

\* Whoever is not in the user's set by now is late, or not there yet.
LEMMA DisconnectInv ==
  ASSUME Inv, NEW k \in Closers, DisconnectUser(k) PROVE Inv'
  <1> DEFINE u == closing[k].user
             x == [closing[k] EXCEPT !.at = "close", !.left = Of(u)]
  <1>0. closing[k] \in Revocation /\ closing[k].at = "disconnect" /\ Of(u) \subseteq Conns
    BY DEF DisconnectUser, Inv, TypeOK, Revocation, Of
  <1>1. /\ x \in Revocation /\ x.at = "close" /\ x.user = u
        /\ x.left = Of(u) /\ x.owed = closing[k].owed
    BY <1>0 DEF Revocation
  <1>2. closing' = [closing EXCEPT ![k] = x] /\ UNCHANGED <<session, hub, events>>
    <2>1. closing' = [closing EXCEPT ![k].at = "close", ![k].left = Of(u)]
      BY DEF DisconnectUser
    <2>2. closing' = [closing EXCEPT ![k] = x]
      BY <2>1 DEF Inv, TypeOK
    <2> QED BY <2>2 DEF DisconnectUser
  <1>3. \A j \in Closers : closing'[j] = IF j = k THEN x ELSE closing[j]
    BY <1>2 DEF Inv, TypeOK
  <1>4. \A d \in Conns : conn'[d] = IF conn[d].user = u /\ conn[d].reader \in {"upgrading", "registering"}
                                    THEN [conn[d] EXCEPT !.late = TRUE] ELSE conn[d]
    BY DEF DisconnectUser
  <1>5. ASSUME NEW d \in Conns
        PROVE  /\ conn'[d] \in Connections /\ Len(conn'[d].queue) <= Capacity
               /\ conn'[d].user = conn[d].user /\ conn'[d].reader = conn[d].reader
               /\ conn'[d].arg = conn[d].arg /\ conn'[d].subs = conn[d].subs
               /\ conn'[d].ack = conn[d].ack /\ conn'[d].seen = conn[d].seen
               /\ conn'[d].stage = conn[d].stage /\ (conn[d].dropped => conn'[d].dropped)
               /\ conn[d].late => conn'[d].late
               /\ conn[d].user = u /\ conn[d].reader \in {"upgrading", "registering"} => conn'[d].late
    <2>1. conn[d] \in Connections /\ Len(conn[d].queue) <= Capacity
      BY DEF Inv, TypeOK
    <2>2. CASE conn[d].user = u /\ conn[d].reader \in {"upgrading", "registering"}
      <3>1. conn'[d] = [conn[d] EXCEPT !.late = TRUE]
        BY <1>4, <2>2
      <3> QED BY <2>1, <3>1 DEF Connections
    <2>3. CASE ~(conn[d].user = u /\ conn[d].reader \in {"upgrading", "registering"})
      <3>1. conn'[d] = conn[d]
        BY <1>4, <2>3
      <3> QED BY <2>1, <2>3, <3>1
    <2> QED BY <2>2, <2>3
  <1>6. conn' \in [Conns -> Connections]
    <2>1. DOMAIN conn' = Conns /\ conn' = [d \in Conns |-> conn'[d]]
      BY DEF DisconnectUser
    <2> QED BY <1>5, <2>1
  <1> HIDE DEF x
  <1>7. ASSUME NEW d \in Conns, OpenConn(d) PROVE Remembered(d)'
    <2>1. k \in Revokers /\ d \in x.owed => d \in userConns /\ conn[d].user = u
      BY <1>0, <1>1, <1>7 DEF Inv, Fits, Remembered
    <2> QED BY <1>1, <1>2, <1>5, <1>7, <2>1, OtherRevocations DEF Of
  <1>8. ASSUME NEW d \in Conns, OpenConn(d), session'[d] = "deleted", conn[d].reader # "new"
        PROVE  conn'[d].late \/ Doomed(d)'
    <2>1. (conn[d].late \/ Doomed(d)) /\ Mapped(d)
      BY <1>2, <1>8 DEF Inv, Fits
    <2>2. ASSUME NEW j \in Revokers, closing[j].at \in {"push", "disconnect", "close"},
                 closing[j].user = conn[d].user, closing[j].at = "close" => d \in closing[j].left
          PROVE  conn'[d].late \/ Doomed(d)'
      <3>1. CASE j # k
        BY <1>3, <1>5, <2>2, <3>1 DEF Doomed, Closers
      <3>2. CASE j = k /\ d \in userConns
        BY <1>1, <1>3, <1>5, <2>2, <3>2 DEF Doomed, Closers, Of
      <3>3. CASE j = k /\ d \notin userConns
        BY <1>5, <1>8, <2>1, <2>2, <3>3 DEF Mapped, Entering
      <3> QED BY <3>1, <3>2, <3>3
    <2> QED BY <1>5, <2>1, <2>2 DEF Doomed
  <1> QED BY <1>1, <1>2, <1>5, <1>6, <1>7, <1>8, RevocationInv DEF Inv, TypeOK

LEMMA CloseAllInv ==
  ASSUME Inv, CloseAll PROVE Inv'
  <1> DEFINE x == [Resting EXCEPT !.at = "close", !.left = conns]
  <1>1. x \in Revocation
    BY SomeUserType DEF Resting, Revocation, Inv, TypeOK
  <1>2. closing' = [closing EXCEPT ![Server] = x] /\ UNCHANGED <<session, conn, hub, events>>
    BY DEF CloseAll
  <1>3. \A j \in Revokers : closing'[j] = closing[j]
    BY <1>2, HubAssumption DEF Inv, TypeOK, Closers
  <1> HIDE DEF x
  <1>4. ASSUME NEW d \in Conns, OpenConn(d)
        PROVE  /\ Remembered(d)'
               /\ session'[d] = "deleted" /\ conn[d].reader # "new" => conn'[d].late \/ Doomed(d)'
    BY <1>2, <1>3, <1>4 DEF Inv, Fits, Remembered, Doomed, hub
  <1> QED BY <1>1, <1>2, <1>4, RevocationInv DEF Closers, Inv, TypeOK

LEMMA CloseOneInv ==
  ASSUME Inv, NEW k \in Closers, NEW c \in Conns, CloseOne(k, c) PROVE Inv'
  <1>1. CASE Set(c, Flag(conn[c], k)) /\ UNCHANGED closing
    <2>1. conn[c] \in Connections /\ 0 <= Capacity
      BY HubAssumption DEF Inv, TypeOK
    <2>2. /\ Flag(conn[c], k) \in Connections /\ Len(Flag(conn[c], k).queue) = 0
          /\ Flag(conn[c], k).stage = "flagged" /\ Flag(conn[c], k).reader = conn[c].reader
          /\ Flag(conn[c], k).arg = conn[c].arg
      BY <2>1, FlagType
    <2> QED BY <1>1, <2>1, <2>2, ClosedInv DEF CloseOne, hub
  <1>2. CASE ~OpenConn(c) /\ closing' = [closing EXCEPT ![k].left = @ \ {c}] /\ UNCHANGED conn
    <2> DEFINE x == [closing[k] EXCEPT !.left = @ \ {c}]
    <2>1. closing[k] \in Revocation /\ closing[k].at = "close"
      BY DEF Inv, TypeOK, Revocation, CloseOne
    <2>2. /\ x \in Revocation /\ x.at = "close" /\ x.user = closing[k].user
          /\ x.left = closing[k].left \ {c} /\ x.owed = closing[k].owed
      BY <2>1 DEF Revocation
    <2>3. closing' = [closing EXCEPT ![k] = x] /\ UNCHANGED <<session, conn, hub, events>>
      BY <1>2 DEF CloseOne
    <2>4. \A j \in Closers : closing'[j] = IF j = k THEN x ELSE closing[j]
      BY <2>3 DEF Inv, TypeOK
    <2> HIDE DEF x
    <2>5. ASSUME NEW d \in Conns, OpenConn(d)
          PROVE  /\ Remembered(d)'
                 /\ session'[d] = "deleted" /\ conn[d].reader # "new" => conn'[d].late \/ Doomed(d)'
      <3>1. d # c /\ Remembered(d) /\ (session[d] = "deleted" /\ conn[d].reader # "new" => conn[d].late \/ Doomed(d))
        BY <1>2, <2>5 DEF Inv, Fits
      <3>2. Remembered(d)'
        BY <2>1, <2>2, <2>3, <2>4, <3>1 DEF Remembered, hub, Closers
      <3>3. Doomed(d) => Doomed(d)'
        BY <2>1, <2>2, <2>3, <2>4, <3>1 DEF Doomed, Closers
      <3> QED BY <2>3, <3>1, <3>2, <3>3
    <2> QED BY <2>2, <2>3, <2>5, RevocationInv DEF Inv, TypeOK
  <1> QED BY <1>1, <1>2 DEF CloseOne

LEMMA RevocationEndsInv ==
  ASSUME Inv, NEW k \in Closers, Closed(k) PROVE Inv'
  <1> DEFINE x == [closing[k] EXCEPT !.at = IF k = Server THEN "ended" ELSE "idle", !.user = SomeUser]
  <1>1. closing[k] \in Revocation /\ closing[k].at = "close" /\ closing[k].left = {}
    BY DEF Inv, TypeOK, Revocation, Closed
  <1>2. x \in Revocation
    BY <1>1, SomeUserType DEF Revocation
  <1>3. closing' = [closing EXCEPT ![k] = x] /\ UNCHANGED <<session, conn, hub, events>>
    <2>1. closing' = [closing EXCEPT ![k].at = IF k = Server THEN "ended" ELSE "idle", ![k].user = SomeUser]
      BY DEF Closed
    <2>2. closing' = [closing EXCEPT ![k] = x]
      BY <2>1 DEF Inv, TypeOK
    <2> QED BY <2>2 DEF Closed
  <1>4. \A j \in Closers : j # k => closing'[j] = closing[j]
    BY <1>3 DEF Inv, TypeOK
  <1>5. closing'[k].owed = closing[k].owed
    BY <1>1, <1>3 DEF Revocation, Inv, TypeOK
  <1> HIDE DEF x
  <1>6. ASSUME NEW d \in Conns, OpenConn(d)
        PROVE  /\ Remembered(d)'
               /\ session'[d] = "deleted" /\ conn[d].reader # "new" => conn'[d].late \/ Doomed(d)'
    <2>1. Remembered(d) /\ (session[d] = "deleted" /\ conn[d].reader # "new" => conn[d].late \/ Doomed(d))
      BY <1>6 DEF Inv, Fits
    <2>2. k \in Revokers => d \notin closing[k].owed
      BY <1>1, <2>1 DEF Remembered
    <2>3. Remembered(d)'
      BY <1>3, <1>4, <1>5, <2>1, <2>2 DEF Remembered, Closers, hub
    <2>4. Doomed(d) => Doomed(d)'
      BY <1>1, <1>3, <1>4 DEF Doomed, Closers
    <2> QED BY <1>3, <2>1, <2>3, <2>4
  <1> QED BY <1>2, <1>3, <1>6, RevocationInv DEF Inv, TypeOK

-----------------------------------------------------------------------------
(* What happens to directories, and the relay.                             *)

\* A connection fits if what it was told of is still true.
LEMMA RelayedFits ==
  ASSUME NEW d \in Conns, Fits(d), UNCHANGED <<session, hub, closing>>,
         conn'[d].user = conn[d].user, conn'[d].reader = conn[d].reader, conn'[d].arg = conn[d].arg,
         conn'[d].subs = conn[d].subs, conn'[d].ack = conn[d].ack, conn'[d].late = conn[d].late,
         conn'[d].stage = conn[d].stage,
         OpenConn(d) => Told(d)'
  PROVE  Fits(d)'
  <1>1. Subscribed(d)' = Subscribed(d)
    BY DEF Subscribed, hub
  <1>2. Mapped(d) => Mapped(d)'
    BY <1>1 DEF Mapped, hub
  <1>3. (Remembered(d) => Remembered(d)') /\ (Doomed(d) => Doomed(d)')
    BY DEF Remembered, Doomed, hub
  <1> QED BY <1>2, <1>3 DEF Fits, OpenConn, hub

\* A step that sends nothing, and after which the relay has passed no more.
LEMMA NothingPassed ==
  ASSUME Inv, TypeOK', UNCHANGED <<session, conn, hub, skipped, closing>>,
         \A u \in Users : Passed(u)' \in Nat /\ Passed(u)' <= Passed(u),
         \A u \in Users : \A i \in 1..Len(log[u]) : log'[u][i] = log[u][i]
  PROVE  Inv'
  <1>1. ASSUME NEW d \in Conns PROVE Fits(d)'
    <2>1. ASSUME OpenConn(d) PROVE Told(d)'
      <3> DEFINE r == conn[d]
                 u == conn[d].user
      <3>1. Told(d) /\ u \in Users /\ r.ack \in [Paths -> 0..Unasked] /\ MaxEvents \in Nat
        BY <2>1, HubAssumption DEF Inv, Fits, TypeOK, Connections
      <3>2. SUFFICES ASSUME NEW p \in Paths, r.ack[p] # Unasked
            PROVE  /\ <<p, d>> \in dirSubs
                   /\ ~r.dropped => \A i \in (r.ack[p] + 1)..Passed(u)' :
                                      log'[u][i] = p /\ i \notin skipped[u] => r.seen[p] >= i
        BY DEF Told, hub
      <3>3. <<p, d>> \in dirSubs
        BY <3>1, <3>2 DEF Told
      <3>4. ASSUME ~r.dropped, NEW i \in (r.ack[p] + 1)..Passed(u)'
            PROVE  log'[u][i] = p /\ i \notin skipped[u] => r.seen[p] >= i
        <4>1. r.ack[p] \in Nat /\ Passed(u) \in Nat /\ Passed(u) <= Len(log[u]) /\ Len(log[u]) \in Nat
          BY <3>1, PassedInLog DEF Inv, Unasked
        <4>2. i \in (r.ack[p] + 1)..Passed(u) /\ i \in 1..Len(log[u])
          BY <3>1, <3>4, <4>1
        <4>3. log'[u][i] = log[u][i]
          BY <3>1, <4>2
        <4> QED BY <3>1, <3>2, <3>4, <4>2, <4>3 DEF Told
      <3> QED BY <3>3, <3>4
    <2> QED BY <2>1, RelayedFits DEF Inv
  <1> QED BY <1>1 DEF Inv

LEMMA ChangeInv ==
  ASSUME Inv, NEW u \in Users, NEW p \in Paths, Change(u, p) PROVE Inv'
  <1>1. /\ log[u] \in Seq(Paths) /\ log' = [log EXCEPT ![u] = Append(log[u], p)] /\ Len(log[u]) < MaxEvents
        /\ UNCHANGED <<session, conn, hub, cursor, relay, skipped, closing>> /\ MaxEvents \in Nat
    BY HubAssumption DEF Change, Inv, TypeOK
  <1>2. /\ Append(log[u], p) \in Seq(Paths) /\ Len(Append(log[u], p)) = Len(log[u]) + 1
        /\ \A i \in 1..Len(log[u]) : Append(log[u], p)[i] = log[u][i]
        /\ Len(log[u]) \in Nat
    BY <1>1
  <1>3. log' \in [Users -> Seq(Paths)]
        /\ \A v \in Users : log'[v] = IF v = u THEN Append(log[u], p) ELSE log[v]
    BY <1>1, <1>2 DEF Inv, TypeOK
  <1>4. \A v \in Users : /\ Len(log[v]) <= Len(log'[v]) /\ Len(log'[v]) <= MaxEvents
                         /\ Len(log'[v]) \in Nat /\ Len(log[v]) \in Nat
    BY <1>1, <1>2, <1>3 DEF Inv, TypeOK
  <1>5. TypeOK'
    <2>1. ASSUME NEW v \in Users PROVE cursor'[v] <= Len(log'[v]) /\ Len(log'[v]) <= MaxEvents
      BY <1>1, <1>4 DEF Inv, TypeOK
    <2>2. relay' # NoRelay => relay'.upto <= Len(log'[relay'.user])
      BY <1>1, <1>4 DEF Inv, TypeOK
    <2> QED BY <1>1, <1>3, <2>1, <2>2 DEF Inv, TypeOK, hub
  <1>6. ASSUME NEW v \in Users PROVE Passed(v)' \in Nat /\ Passed(v)' <= Passed(v)
    <2>1. Passed(v)' = Passed(v) /\ Passed(v) \in Nat
      BY <1>1, PassedInLog DEF Passed, Inv
    <2> QED BY <2>1
  <1>7. \A v \in Users : \A i \in 1..Len(log[v]) : log'[v][i] = log[v][i]
    BY <1>2, <1>3
  <1> QED BY <1>1, <1>5, <1>6, <1>7, NothingPassed

LEMMA ListEventsInv ==
  ASSUME Inv, NEW u \in Users, ListEvents(u) PROVE Inv'
  <1>1. /\ relay = NoRelay /\ relay' = [user |-> u, upto |-> Len(log[u]), done |-> cursor[u]]
        /\ UNCHANGED <<session, conn, hub, log, cursor, skipped, closing>>
        /\ cursor[u] \in Nat /\ Len(log[u]) \in Nat /\ cursor[u] <= Len(log[u])
    BY DEF ListEvents, Inv, TypeOK
  <1>2. /\ relay' \in [user : Users, upto : Nat, done : Nat]
        /\ relay'.user = u /\ relay'.upto = Len(log[u]) /\ relay'.done = cursor[u]
    BY <1>1
  <1>3. TypeOK'
    BY <1>1, <1>2 DEF Inv, TypeOK, hub
  <1>4. ASSUME NEW v \in Users PROVE Passed(v)' \in Nat /\ Passed(v)' <= Passed(v)
    <2>1. Passed(v) = cursor[v] /\ Passed(v)' = cursor[v]
      BY <1>1, <1>2, HubAssumption DEF Passed, NoRelay
    <2> QED BY <2>1 DEF Inv, TypeOK
  <1> QED BY <1>1, <1>3, <1>4, NothingPassed

LEMMA StoreCursorInv ==
  ASSUME Inv, StoreCursor PROVE Inv'
  <1> DEFINE u == relay.user
  <1>1. /\ relay # NoRelay /\ relay' = NoRelay
        /\ relay \in [user : Users, upto : Nat, done : Nat] /\ u \in Users
        /\ UNCHANGED <<session, conn, hub, log, skipped, closing>>
        /\ relay.done \in Nat /\ cursor[u] <= relay.done /\ relay.done <= Len(log[u])
        /\ cursor' = cursor \/ cursor' = [cursor EXCEPT ![u] = relay.done]
    BY DEF StoreCursor, Inv, TypeOK
  <1>2. cursor' \in [Users -> Nat] /\ \A v \in Users : cursor'[v] = cursor[v] \/ (v = u /\ cursor'[v] = relay.done)
    BY <1>1 DEF Inv, TypeOK
  <1>3. TypeOK'
    BY <1>1, <1>2 DEF Inv, TypeOK, hub
  <1>4. ASSUME NEW v \in Users PROVE Passed(v)' \in Nat /\ Passed(v)' <= Passed(v)
    <2>1. Passed(v)' = cursor'[v] /\ Passed(v) = IF v = u THEN relay.done ELSE cursor[v]
      BY <1>1, HubAssumption DEF Passed, NoRelay
    <2> QED BY <1>1, <1>2, <2>1 DEF Inv, TypeOK
  <1> QED BY <1>1, <1>3, <1>4, NothingPassed

\* A notice is queued for each connection the hub has, or is dropped and
\* remembered as dropped; or the change is remembered as relayed to nobody.
LEMMA PublishInv == ASSUME Inv, PublishEvent PROVE Inv'
  <1> DEFINE u == relay.user
             i == relay.done + 1
             p == log[u][i]
             to == {c \in Conns : <<p, c>> \in dirSubs /\ conn[c].user = u}
             n(c) == Notify(conn[c], "notice")
  <1>1. /\ relay # NoRelay /\ relay \in [user : Users, upto : Nat, done : Nat] /\ u \in Users
        /\ relay.done \in Nat /\ relay.upto \in Nat /\ i \in Nat /\ i <= relay.upto /\ relay.upto <= Len(log[u])
        /\ i \in 1..Len(log[u]) /\ p \in Paths /\ cursor[u] <= relay.done
        /\ relay' = [relay EXCEPT !.done = i] /\ UNCHANGED <<session, hub, log, cursor, closing>>
    BY DEF PublishEvent, Inv, TypeOK
  <1>2. /\ relay' \in [user : Users, upto : Nat, done : Nat]
        /\ relay'.user = u /\ relay'.upto = relay.upto /\ relay'.done = i
    BY <1>1
  <1>3. DOMAIN conn' = Conns /\ conn' = [c \in Conns |-> conn'[c]]
    BY DEF PublishEvent, Inv, TypeOK
  <1>a. \/ /\ \A c \in Conns : conn'[c] = IF c \in to
                THEN [n(c) EXCEPT !.seen[p] = IF n(c) = conn[c] THEN @ ELSE i] ELSE conn[c]
           /\ skipped' = [skipped EXCEPT ![u] = @ \ {i}]
        \/ conn' = conn /\ skipped' = [skipped EXCEPT ![u] = @ \cup {i}]
    BY DEF PublishEvent
  <1> HIDE DEF i, p, n
  <1>b. /\ skipped' \in [Users -> SUBSET Nat]
        /\ \A v \in Users : \A k : k \notin skipped'[v] /\ (v = u => k # i) => k \notin skipped[v]
        /\ i \notin skipped'[u] => skipped' = [skipped EXCEPT ![u] = @ \ {i}]
    <2>1. skipped \in [Users -> SUBSET Nat] /\ i \in Nat /\ u \in Users
      BY <1>1 DEF Inv, TypeOK
    <2>2. CASE skipped' = [skipped EXCEPT ![u] = @ \ {i}]
      BY <2>1, <2>2
    <2>3. CASE skipped' = [skipped EXCEPT ![u] = @ \cup {i}]
      BY <2>1, <2>3
    <2> QED BY <1>a, <2>2, <2>3
  <1>4. ASSUME NEW c \in Conns
        PROVE  /\ conn'[c] \in Connections /\ Len(conn'[c].queue) <= Capacity
               /\ conn'[c].user = conn[c].user /\ conn'[c].reader = conn[c].reader
               /\ conn'[c].arg = conn[c].arg /\ conn'[c].subs = conn[c].subs
               /\ conn'[c].ack = conn[c].ack /\ conn'[c].late = conn[c].late
               /\ conn'[c].stage = conn[c].stage /\ (conn[c].dropped => conn'[c].dropped)
               /\ \A q \in Paths \ {p} : conn'[c].seen[q] = conn[c].seen[q]
               /\ conn'[c].seen[p] = conn[c].seen[p] \/ conn'[c].seen[p] = i
               /\ c \notin to => conn'[c].seen[p] = conn[c].seen[p]
               /\ c \in to /\ conn[c].stage = "open" /\ i \notin skipped'[u] =>
                    conn'[c].dropped \/ conn'[c].seen[p] = i
    <2>1. conn[c] \in Connections /\ Len(conn[c].queue) <= Capacity
      BY DEF Inv, TypeOK
    <2>0. CASE conn' = conn /\ skipped' = [skipped EXCEPT ![u] = @ \cup {i}]
      <3>1. i \in skipped'[u]
        BY <1>1, <2>0 DEF Inv, TypeOK
      <3> QED BY <2>0, <2>1, <3>1
    <2> DEFINE sent == IF c \in to THEN [n(c) EXCEPT !.seen[p] = IF n(c) = conn[c] THEN @ ELSE i]
                       ELSE conn[c]
    <2>2. CASE c \notin to /\ conn'[c] = sent
      BY <2>1, <2>2
    <2>3. CASE c \in to /\ conn'[c] = sent
      <3> DEFINE m == n(c)
                 j == IF m = conn[c] THEN m.seen[p] ELSE i
      <3>1. /\ m \in Connections /\ Len(m.queue) <= Capacity
            /\ m.user = conn[c].user /\ m.reader = conn[c].reader /\ m.arg = conn[c].arg /\ m.late = conn[c].late
            /\ m.subs = conn[c].subs /\ m.ack = conn[c].ack /\ m.seen = conn[c].seen /\ m.stage = conn[c].stage
            /\ (conn[c].dropped => m.dropped) /\ (conn[c].stage = "open" => m # conn[c] \/ m.dropped)
        BY <2>1, NotifyType DEF n
      <3>2. conn'[c] = [m EXCEPT !.seen[p] = j]
        BY <2>3
      <3>3. m.seen \in [Paths -> Nat] /\ j \in Nat
        BY <1>1, <3>1 DEF Connections
      <3>4. (m # conn[c] => j = i) /\ (j = i \/ j = conn[c].seen[p])
        BY <3>1
      <3> HIDE DEF m, j
      <3>5. [m.seen EXCEPT ![p] = j] \in [Paths -> Nat]
        BY <3>3
      <3>6. conn'[c] = [m EXCEPT !.seen = [m.seen EXCEPT ![p] = j]]
        BY <3>2
      <3>7. /\ conn'[c] \in Connections /\ conn'[c].seen = [m.seen EXCEPT ![p] = j]
            /\ conn'[c].queue = m.queue /\ conn'[c].user = m.user /\ conn'[c].reader = m.reader
            /\ conn'[c].arg = m.arg /\ conn'[c].subs = m.subs /\ conn'[c].ack = m.ack
            /\ conn'[c].late = m.late /\ conn'[c].stage = m.stage /\ conn'[c].dropped = m.dropped
        BY <3>1, <3>5, <3>6 DEF Connections
      <3>8. /\ \A q \in Paths \ {p} : conn'[c].seen[q] = conn[c].seen[q]
            /\ conn'[c].seen[p] = j
        BY <1>1, <3>1, <3>3, <3>7
      <3> QED BY <2>3, <3>1, <3>4, <3>7, <3>8
    <2> QED BY <1>a, <2>0, <2>2, <2>3
  <1>5. TypeOK'
    <2>1. conn' \in [Conns -> Connections] /\ \A c \in Conns : Len(conn'[c].queue) <= Capacity
      BY <1>3, <1>4
    <2>2. cursor[u] <= i
      BY <1>1 DEF i, Inv, TypeOK
    <2> QED BY <1>1, <1>2, <1>b, <2>1, <2>2 DEF Inv, TypeOK, hub
  <1>6. ASSUME NEW d \in Conns, OpenConn(d) PROVE Told(d)'
    <2> DEFINE r == conn[d]
               s == conn'[d]
               v == conn[d].user
    <2>1. Told(d) /\ v \in Users /\ r.ack \in [Paths -> 0..Unasked]
      BY <1>6 DEF Inv, Fits, TypeOK, Connections
    <2>2. SUFFICES ASSUME NEW q \in Paths, r.ack[q] # Unasked
          PROVE  /\ <<q, d>> \in dirSubs
                 /\ ~s.dropped => \A k \in (r.ack[q] + 1)..Passed(v)' :
                                    log[v][k] = q /\ k \notin skipped'[v] => s.seen[q] >= k
      BY <1>1, <1>4 DEF Told, hub
    <2>3. <<q, d>> \in dirSubs
      BY <2>1, <2>2 DEF Told
    <2>4. ASSUME ~s.dropped, NEW k \in (r.ack[q] + 1)..Passed(v)', log[v][k] = q, k \notin skipped'[v]
          PROVE  s.seen[q] >= k
      <3>0. r.ack[q] \in Nat /\ k \in Nat
        BY <2>1, HubAssumption DEF Unasked
      <3>1. CASE v # u
        <4>1. Passed(v)' = Passed(v)
          BY <1>1, <1>2, <1>4, <3>1 DEF Passed
        <4>2. s.seen[q] = r.seen[q] /\ ~r.dropped /\ k \notin skipped[v]
          BY <1>4, <1>b, <2>1, <2>4, <3>1
        <4> QED BY <2>1, <2>2, <2>4, <4>1, <4>2 DEF Told
      <3>2. CASE v = u /\ k = i
        <4>1. q = p
          BY <2>4, <3>2 DEF p
        <4>2. s.seen[q] = i
          BY <1>4, <1>6, <2>3, <2>4, <3>2, <4>1 DEF OpenConn
        <4> QED BY <1>1, <3>2, <4>2
      <3>3. CASE v = u /\ k # i
        <4>1. Passed(v)' = i /\ Passed(v) = relay.done
          BY <1>2, <1>4, <3>3 DEF Passed
        <4>2. k \in (r.ack[q] + 1)..Passed(v)
          BY <1>1, <2>4, <3>0, <3>3, <4>1 DEF i
        <4>3. ~r.dropped /\ k \notin skipped[v]
          BY <1>4, <1>b, <2>1, <2>4, <3>3
        <4>4. r.seen[q] >= k
          BY <2>1, <2>2, <2>4, <4>2, <4>3 DEF Told
        <4>5. s.seen[q] = r.seen[q] \/ s.seen[q] = i
          BY <1>4, <1>6, <2>2, <2>3
        <4>6. k <= i
          BY <1>1, <2>4, <3>0, <4>1
        <4> QED BY <4>4, <4>5, <4>6
      <3> QED BY <3>1, <3>2, <3>3
    <2> QED BY <2>3, <2>4
  <1>7. ASSUME NEW d \in Conns PROVE Fits(d)'
    BY <1>1, <1>4, <1>6, RelayedFits DEF Inv
  <1> QED BY <1>5, <1>7 DEF Inv

-----------------------------------------------------------------------------
(* The theorems.                                                           *)

LEMMA InitInv == Init => Inv
  <1> SUFFICES ASSUME Init PROVE Inv
    OBVIOUS
  <1>1. NewConn \in Connections
    <2>1. /\ [q \in Paths |-> Unasked] \in [Paths -> 0..Unasked] /\ [q \in Paths |-> 0] \in [Paths -> Nat]
          /\ <<>> \in Seq({"answer", "notice", "expired"})
      BY HubAssumption DEF Unasked
    <2> QED BY <2>1, SomeUserType DEF NewConn, Connections, Entering
  <1>2. /\ NewConn.reader = "new" /\ NewConn.queue = <<>> /\ NewConn.subs = {}
        /\ \A q \in Paths : NewConn.ack[q] = Unasked
    BY DEF NewConn
  <1>3. Resting \in Revocation /\ Resting.owed = {}
    BY SomeUserType DEF Resting, Revocation
  <1>4. TypeOK
    <2>1. Len(<<>>) = 0 /\ 0 <= Capacity /\ 0 <= MaxEvents /\ <<>> \in Seq(Paths)
      BY HubAssumption
    <2>2. closing \in [Closers -> Revocation] /\ conn \in [Conns -> Connections]
      BY <1>1, <1>3 DEF Init
    <2> QED BY <1>2, <2>1, <2>2 DEF Init, TypeOK, Revocation
  <1>5. ASSUME NEW c \in Conns PROVE Fits(c)
    <2>1. conn[c] = NewConn /\ Subscribed(c) = {} /\ c \notin userConns /\ session[c] = "none"
          /\ \A k \in Revokers : closing[k] = Resting
      BY DEF Init, Subscribed, Closers
    <2>2. Mapped(c) /\ Told(c) /\ Remembered(c)
      BY <1>2, <1>3, <2>1 DEF Mapped, Told, Remembered, Entering
    <2> QED BY <1>2, <2>1, <2>2 DEF Fits, Asking
  <1> QED BY <1>4, <1>5 DEF Inv

LEMMA StutterInv == ASSUME Inv, UNCHANGED vars PROVE Inv'
  <1>1. TypeOK'
    BY DEF Inv, TypeOK, vars
  <1>2. ASSUME NEW d \in Conns PROVE Fits(d)'
    BY OthersFit DEF Inv, vars, events
  <1> QED BY <1>1, <1>2 DEF Inv

\* The invariant the properties follow from.
THEOREM Invariant == Spec => []Inv
<1>1. ASSUME Inv, [Next]_vars PROVE Inv'
  <2>1. ASSUME NEW c \in Conns, ReaderStep(c) \/ WriterStep(c) \/ UnregisterStep(c) \/ PeerLeaves(c)
        PROVE Inv'
    BY <1>1, <2>1, RegisterInv, FollowInv, AnswerInv, OwnCloseInv, PeerInv, UnregisterInv
    DEF ReaderStep, WriterStep
  <2>2. ASSUME NEW k \in Closers, CloserStep(k) PROVE Inv'
    BY <1>1, <2>2, PushInv, DisconnectInv, CloseOneInv, RevocationEndsInv DEF CloserStep
  <2>3. ASSUME RelayStep PROVE Inv'
    BY <1>1, <2>3, ListEventsInv, PublishInv, StoreCursorInv DEF RelayStep
  <2>4. ASSUME NEW c \in Conns, NEW p \in Paths, Subscribe(c, p) \/ Unsubscribe(c, p) PROVE Inv'
    BY <1>1, <2>4, SubscribeInv
  <2>5. ASSUME NEW c \in Conns, NEW u \in Users, WebSocketUpgrade(c, u) PROVE Inv'
    BY <1>1, <2>5, UpgradeInv
  <2>6. ASSUME NEW k \in Revokers, NEW u \in Users, DeleteSessions(k, u) PROVE Inv'
    BY <1>1, <2>6, DeleteSessionsInv
  <2>7. ASSUME NEW u \in Users, NEW p \in Paths, Change(u, p) PROVE Inv'
    BY <1>1, <2>7, ChangeInv
  <2> QED BY <1>1, <2>1, <2>2, <2>3, <2>4, <2>5, <2>6, <2>7, CloseAllInv, StutterInv DEF Next
<1> QED BY InitInv, <1>1, PTL DEF Spec

\* Every variable keeps its type, for any capacity of the queues.
THEOREM TypeCorrect == Spec => []TypeOK
<1>1. Inv => TypeOK
  BY DEF Inv
<1> QED BY Invariant, <1>1, PTL

\* An open connection is in the maps that pushes and revocations go through,
\* with the subscriptions it knows.
THEOREM HubAgreesHolds == Spec => []HubAgrees
<1>1. Inv => HubAgrees
  <2> SUFFICES ASSUME Inv, NEW c \in Conns, OpenConn(c), conn[c].reader \in Asking \cup {"reading"}
               PROVE  /\ c \in conns \cap userConns
                      /\ Reading(c) => {p \in Paths : <<p, c>> \in dirSubs} = conn[c].subs
    BY DEF HubAgrees
  <2>1. Mapped(c)
    BY DEF Inv, Fits
  <2> QED BY <2>1 DEF Mapped, Entering, Asking, Reading, Subscribed
<1> QED BY Invariant, <1>1, PTL

\* A revocation that has returned has closed what it found and what its
\* sessions stood behind, late connections excepted.
THEOREM RevokedIsClosedHolds == Spec => []RevokedIsClosed
<1>1. Inv => RevokedIsClosed
  <2> SUFFICES ASSUME Inv PROVE RevokedIsClosed
    OBVIOUS
  <2>1. ASSUME NEW c \in Conns, OpenConn(c), session[c] = "deleted", conn[c].reader # "new"
        PROVE  \/ conn[c].late
               \/ \E k \in Revokers : /\ closing[k].at \in {"push", "disconnect", "close"}
                                      /\ closing[k].user = conn[c].user
    BY <2>1 DEF Inv, Fits, Doomed
  <2>2. ASSUME NEW k \in Revokers, closing[k].at = "idle", NEW c \in closing[k].owed PROVE ~OpenConn(c)
    <3>1. c \in Conns
      BY <2>2 DEF Inv, TypeOK, Closers
    <3> QED BY <2>2, <3>1 DEF Inv, Fits, Remembered
  <2> QED BY <2>1, <2>2 DEF RevokedIsClosed
<1> QED BY Invariant, <1>1, PTL

\* A subscribed browser was sent every change that the relay has passed since
\* it was told, unless its queue was full.
THEOREM NoMissedChangeHolds == Spec => []NoMissedChange
<1>1. Inv => NoMissedChange
  BY DEF Inv, Fits, Told, Passed, NoMissedChange
<1> QED BY Invariant, <1>1, PTL
=============================================================================
