---------------------------- MODULE TrashBinProofs ----------------------------
(***************************************************************************)
(* Theorems about TrashBin, for any set of inodes, names, entries and      *)
(* requests.                                                               *)
(*                                                                         *)
(* Two facts carry the argument.  A slot is entered only once, by the      *)
(* request that made its entry, while no other request knows the entry:    *)
(* from then on inodes only leave it, and what a request found missing     *)
(* stays missing.  And every pathname a request changes, other than those  *)
(* of its own entry, begins with a visible name: it is never in a slot.    *)
(*                                                                         *)
(* The first part states what a request knows (Formed, Knows, Alone), the  *)
(* second what a step may do to the namespace (Keeps), the third takes the *)
(* actions one by one.                                                     *)
(***************************************************************************)
EXTENDS TrashBin, SequenceTheorems, TLAPS

Creating == {"stow", "stowed", "undo"}
Restoring == {"parent", "clear", "move", "list", "merge", "mergeMove"}
OnEntry(p) == proc[p].pc \notin {"idle", "create"}

\* A request that has its record, and one that has its target as well.
Chosen(r) == r.pc \in {"decide", "claim", "purge", "remove", "finish"} \cup Restoring
Aims(r) == r.kind = "restore" /\ r.pc \in {"claim", "finish"} \cup Restoring

Short == {<<n>> : n \in Names}
Long == {<<n, m>> : n \in Names, m \in Names}
Below(e) == {<<e, n>> : n \in Names}

\* The pathnames a request holds at each of its steps.
Formed(r) ==
  /\ r.pc \in {"create"} \cup Creating => r.kind = "create" /\ r.i \in Inodes /\ r.from \in Short
  /\ r.pc \in Creating => r.to = <<r.e>>
  /\ r.pc \notin {"idle", "create"} => r.e \in Entries
  /\ r.pc \in {"lookup", "drop"} \/ Chosen(r) =>
        /\ r.from \in {<<r.e>>} \cup Below(r.e)
        /\ r.kind \in {"list", "restore", "delete", "empty"}
        /\ r.kind \in {"list", "empty"} => r.from = <<r.e>>
  /\ Chosen(r) => r.i \in Inodes /\ (r.from # <<r.e>> => r.i \in Files)
  /\ r.pc \in {"decide"} \cup Restoring => r.kind = "restore"
  /\ r.pc = "claim" => r.kind \in {"restore", "delete", "empty"}
  /\ r.pc = "purge" => r.kind \in {"delete", "empty"}
  /\ r.pc = "remove" => r.kind = "empty"
  /\ r.pc = "finish" => r.kind \in {"restore", "delete"}
  /\ Aims(r) => IF r.from = <<r.e>> THEN r.to \in Short ELSE r.to \in Long
  /\ r.pc \in {"list", "merge", "mergeMove"} => r.from = <<r.e>>
  /\ Aims(r) /\ r.pc = "claim" /\ r.how \in MergePolicies => r.from = <<r.e>>
  /\ r.pc = "mergeMove" => r.child \in Names /\ r.as \in Long

\* What stays true of the entry a request works on, whatever others do.
Knows(r) ==
  /\ r.pc \notin {"idle", "create"} => row[r.e].state # "unused"
  /\ r.pc \in Creating => row[r.e].state = "pending"
  /\ r.pc = "stow" => \A x \in Inodes : place[x] # <<Top, r.e>>
  /\ r.pc \in {"drop", "remove"} => ~InSlot(place, r.e)
  /\ Chosen(r) /\ r.from = <<r.e>> => r.i = row[r.e].root
  /\ Chosen(r) => \A n \in Names : r.from = <<r.e, n>> /\ InSlot(place, r.e) =>
        \A x \in Inodes : place[x] = <<row[r.e].root, n>> => x = r.i

\* Nobody else knows an entry that is being created.
Alone(p) == proc[p].pc \in Creating =>
    \A q \in Requests \ {p} : OnEntry(q) => proc[q].e # proc[p].e

\* A namespace: no two inodes at one place, no directory in a directory.
Flat(pl) == \A d \in Dirs : pl[d] \in {Top} \X (Names \cup Entries) \cup {Gone, Unborn}
Good(pl) == pl \in [Inodes -> Places] /\ Apart(pl) /\ Flat(pl)

\* A row that may account for a payload in its slot.
Held(r) == Live(r) \/ r.state = "undone"

\* What the rows say of the slots, and of the roots.
Filled ==
  \A e \in Entries :
    /\ row[e].state = "unused" => \A x \in Inodes : place[x] # <<Top, e>>
    /\ row[e].state # "unused" => row[e].root \in Inodes /\ row[e].name \in Names
    /\ row[e].state = "deleting" => row[e].op \in Inodes

Ready(p) == Formed(proc[p]) /\ Knows(proc[p]) /\ Alone(p)

\* A request that mutates an entry does so alone, and its row says so.
By(kind) ==
  CASE kind = "create" -> "pending" [] kind = "restore" -> "restoring" [] OTHER -> "deleting"
Sole(p) ==
  LET e == proc[p].e IN
  proc[p].pc \in Owning =>
    /\ \A q \in Requests \ {p} : ~Owns(q, e)
    /\ \/ /\ row[e].state = By(proc[p].kind)
          /\ proc[p].pc = "purge" => row[e].op = proc[p].i
       \/ row[e].state = "removed" /\ ~InSlot(place, e)
OneMutator == Outlasting = {} => \A p \in Requests : Sole(p)

Inv ==
  /\ TypeOK /\ Good(place) /\ Filled /\ OwnPayloadHasRow /\ OneMutator
  /\ \A p \in Requests : Ready(p)

\* From one namespace to the next nothing enters the slots of E, nor a
\* directory that is in one.
Keeps(pl, ql, E) ==
  \A x \in Inodes, e \in E :
    /\ ql[x] = <<Top, e>> => pl[x] = <<Top, e>>
    /\ \A d \in Dirs, n \in Names : pl[d] = <<Top, e>> /\ ql[x] = <<d, n>> => pl[x] = <<d, n>>

-----------------------------------------------------------------------------
(* Pathnames and places.                                                   *)

\* A pathname of one component is a key of Top.
LEMMA ShortPath ==
  ASSUME NEW pl, NEW k
  PROVE  /\ Resolve(pl, <<k>>) = At(pl, Top, k)
         /\ PlaceOf(pl, <<k>>) = {<<Top, k>>}
  BY DEF Resolve, PlaceOf

\* One of two components goes through a directory at Top.
LEMMA LongPath ==
  ASSUME NEW pl, NEW k, NEW n
  PROVE  /\ Resolve(pl, <<k, n>>) = UNION {At(pl, d, n) : d \in At(pl, Top, k) \cap Dirs}
         /\ PlaceOf(pl, <<k, n>>) = {<<d, n>> : d \in At(pl, Top, k) \cap Dirs}
  BY DEF Resolve, PlaceOf

\* Where an inode can be.
LEMMA PlaceShape ==
  ASSUME NEW q \in Places
  PROVE  \/ q = Gone \/ q = Unborn
         \/ \E k \in Names \cup Entries : q = <<Top, k>>
         \/ \E d \in Dirs, n \in Names : q = <<d, n>>
  BY DEF Places

\* A pair is a place that only one inode can take.
LEMMA PairIsAPlace ==
  ASSUME NEW c, NEW k
  PROVE  <<c, k>> \notin {Gone, Unborn}
  <1>1. Len(<<c, k>>) = 2 /\ Len(<<"gone">>) = 1 /\ Len(<<"unborn">>) = 1
    OBVIOUS
  <1> QED BY <1>1 DEF Gone, Unborn

\* Two inodes at one key are the same inode.
LEMMA AtOnce ==
  ASSUME NEW pl, Apart(pl), NEW i \in Inodes, NEW j \in Inodes, NEW c, NEW k,
         pl[i] = <<c, k>>, pl[j] = <<c, k>>
  PROVE  i = j
  BY PairIsAPlace DEF Apart

\* A pathname resolves to inodes, and to one at most.
LEMMA ResolvesToOne ==
  ASSUME NEW pl, Apart(pl), NEW k, NEW n, NEW path \in {<<k>>, <<k, n>>}
  PROVE  /\ Resolve(pl, path) \subseteq Inodes
         /\ \A x, y \in Resolve(pl, path) : x = y
  <1>1. CASE path = <<k>>
    <2>1. Resolve(pl, path) = At(pl, Top, k)
      BY <1>1, ShortPath
    <2>2. ASSUME NEW x \in At(pl, Top, k), NEW y \in At(pl, Top, k)
          PROVE  x = y
      BY <2>2, AtOnce DEF At
    <2> QED BY <2>1, <2>2 DEF At
  <1>2. CASE path = <<k, n>>
    <2>1. Resolve(pl, path) = UNION {At(pl, d, n) : d \in At(pl, Top, k) \cap Dirs}
      BY <1>2, LongPath
    <2>2. ASSUME NEW x \in Resolve(pl, path), NEW y \in Resolve(pl, path)
          PROVE  x = y
      <3>1. PICK d \in At(pl, Top, k) \cap Dirs : x \in At(pl, d, n)
        BY <2>1, <2>2
      <3>2. PICK d2 \in At(pl, Top, k) \cap Dirs : y \in At(pl, d2, n)
        BY <2>1, <2>2
      <3>3. d = d2
        BY AtOnce DEF At
      <3> QED BY <3>1, <3>2, <3>3, AtOnce DEF At
    <2> QED BY <2>1, <2>2 DEF At
  <1> QED BY <1>1, <1>2

\* One component after another.
LEMMA PairFromTwo ==
  ASSUME NEW k, NEW n
  PROVE  <<k>> \o <<n>> = <<k, n>>
  <1> DEFINE s == <<k>> \o <<n>>
             t == <<k, n>>
  <1>1. Len(s) = 2 /\ Len(t) = 2
    OBVIOUS
  <1>2. s[1] = k /\ s[2] = n /\ t[1] = k /\ t[2] = n
    OBVIOUS
  <1>3. s \in Seq({k, n}) /\ t \in Seq({k, n})
    OBVIOUS
  <1>4. \A i \in 1..2 : i = 1 \/ i = 2
    OBVIOUS
  <1>5. \A i \in 1..Len(s) : s[i] = t[i]
    BY <1>1, <1>2, <1>4
  <1>6. s = t
    <2> HIDE DEF s, t
    <2> QED BY <1>1, <1>3, <1>5, SeqEqual
  <1> QED BY <1>6

LEMMA PairByAppend ==
  ASSUME NEW k, NEW n
  PROVE  Append(<<k>>, n) = <<k, n>>
  <1> DEFINE s == Append(<<k>>, n)
             t == <<k, n>>
  <1>1. Len(s) = 2 /\ Len(t) = 2
    OBVIOUS
  <1>2. s[1] = k /\ s[2] = n /\ t[1] = k /\ t[2] = n
    OBVIOUS
  <1>3. s \in Seq({k, n}) /\ t \in Seq({k, n})
    OBVIOUS
  <1>4. \A i \in 1..2 : i = 1 \/ i = 2
    OBVIOUS
  <1>5. \A i \in 1..Len(s) : s[i] = t[i]
    BY <1>1, <1>2, <1>4
  <1>6. s = t
    <2> HIDE DEF s, t
    <2> QED BY <1>1, <1>3, <1>5, SeqEqual
  <1> QED BY <1>6

\* The inodes of a pathname of one component, with or without a slash.
LEMMA NamedShort ==
  ASSUME NEW pl, NEW k, NEW dir
  PROVE  Named(pl, <<k>>, dir) \subseteq At(pl, Top, k)
  BY ShortPath DEF Named

\* Those of two components are in a directory at Top.
LEMMA ResolvesLong ==
  ASSUME NEW pl, NEW k, NEW n, NEW x \in Resolve(pl, <<k, n>>)
  PROVE  \E d \in Dirs : pl[d] = <<Top, k>> /\ x \in Inodes /\ pl[x] = <<d, n>>
  <1>1. x \in UNION {At(pl, d, n) : d \in At(pl, Top, k) \cap Dirs}
    BY LongPath
  <1>2. PICK d \in At(pl, Top, k) \cap Dirs : x \in At(pl, d, n)
    BY <1>1
  <1> QED BY <1>2 DEF At

LEMMA NamedLong ==
  ASSUME NEW pl, NEW k, NEW n, NEW dir, NEW x \in Named(pl, <<k, n>>, dir)
  PROVE  \E d \in Dirs : pl[d] = <<Top, k>> /\ x \in Inodes /\ pl[x] = <<d, n>>
  <1>1. x \in Resolve(pl, <<k, n>>)
    BY DEF Named
  <1> QED BY <1>1, ResolvesLong

-----------------------------------------------------------------------------
(* What a step may do to the namespace.                                    *)

\* Whatever is destroyed, the others stay where they are.
LEMMA RemoveKeeps ==
  ASSUME NEW pl, Good(pl), NEW S, NEW E \in SUBSET Entries
  PROVE  Good(Remove(pl, S)) /\ Keeps(pl, Remove(pl, S), E)
  <1> DEFINE ql == Remove(pl, S)
  <1>1. \A x \in Inodes : ql[x] = pl[x] \/ ql[x] = Gone
    BY DEF Remove
  <1>2. ql \in [Inodes -> Places]
    BY DEF Remove, Good, Places
  <1>3. Apart(ql)
    BY <1>1 DEF Apart, Good
  <1>4. Flat(ql)
    BY <1>1 DEF Flat, Good, Inodes
  <1>5. Keeps(pl, ql, E)
    BY <1>1, PairIsAPlace DEF Keeps
  <1> QED BY <1>2, <1>3, <1>4, <1>5 DEF Good

Moved(pl, S, q) == [i \in Inodes |-> IF i \in S THEN q ELSE pl[i]]

\* One inode goes to a free place; a directory stays at Top.
LEMMA MoveIsGood ==
  ASSUME NEW pl, Good(pl), NEW S \in SUBSET Inodes, \A x, y \in S : x = y,
         NEW q \in Places, \A x \in Inodes : pl[x] # q,
         S \subseteq Files \/ q \in {Top} \X (Names \cup Entries)
  PROVE  Good(Moved(pl, S, q))
  <1> DEFINE ql == Moved(pl, S, q)
  <1>1. \A x \in Inodes : ql[x] = IF x \in S THEN q ELSE pl[x]
    BY DEF Moved
  <1>2. ql \in [Inodes -> Places]
    BY DEF Moved, Good
  <1>3. Apart(ql)
    BY <1>1 DEF Apart, Good
  <1>4. Flat(ql)
    <2>1. \A d \in Dirs : d \in S => q \in {Top} \X (Names \cup Entries)
      BY ConstantsAssumption
    <2> QED BY <1>1, <2>1 DEF Flat, Good, Inodes
  <1> QED BY <1>2, <1>3, <1>4 DEF Good

\* A move to a visible place: nothing enters the trash.
LEMMA MoveKeeps ==
  ASSUME NEW pl, NEW S, NEW c, NEW k, NEW E \in SUBSET Entries,
         \A e \in E : <<c, k>> # <<Top, e>>,
         \A e \in E : c \in Dirs => pl[c] # <<Top, e>>
  PROVE  Keeps(pl, Moved(pl, S, <<c, k>>), E)
  BY DEF Keeps, Moved

\* A rename within the visible namespace, or out of the trash.
LEMMA RenameVisible ==
  ASSUME Good(place), NEW S \in SUBSET Inodes, \A x, y \in S : x = y,
         NEW path \in Short \cup Long, path \in Long => S \subseteq Files,
         MoveTo(S, path)
  PROVE  Good(place') /\ Keeps(place, place', Entries)
  <1>1. PICK q \in PlaceOf(place, path) : place' = Moved(place, S, q)
    BY DEF MoveTo, Moved
  <1>2. CASE path \in Short
    <2>1. PICK n \in Names : path = <<n>>
      BY <1>2 DEF Short
    <2>2. q = <<Top, n>> /\ At(place, Top, n) = {}
      BY <1>1, <2>1, ShortPath DEF MoveTo
    <2>3. q \in Places /\ q \in {Top} \X (Names \cup Entries)
      BY <2>2 DEF Places
    <2>4. \A x \in Inodes : place[x] # q
      BY <2>2 DEF At
    <2>5. Good(place')
      BY <1>1, <2>3, <2>4, MoveIsGood
    <2>6. Keeps(place, place', Entries)
      <3>1. \A e \in Entries : <<Top, n>> # <<Top, e>>
        BY ConstantsAssumption
      <3>2. Top \notin Dirs
        BY ConstantsAssumption DEF Inodes
      <3> QED BY <1>1, <2>2, <3>1, <3>2, MoveKeeps
    <2> QED BY <2>5, <2>6
  <1>3. CASE path \in Long
    <2>1. PICK n \in Names, m \in Names : path = <<n, m>>
      BY <1>3 DEF Long
    <2>2. PICK d \in At(place, Top, n) \cap Dirs : q = <<d, m>>
      BY <1>1, <2>1, LongPath
    <2>3. place[d] = <<Top, n>> /\ d \in Dirs /\ At(place, d, m) = {}
      BY <2>1, <2>2, LongPath DEF MoveTo, At
    <2>4. q \in Places /\ S \subseteq Files
      BY <1>3, <2>2 DEF Places
    <2>5. \A x \in Inodes : place[x] # q
      BY <2>2, <2>3 DEF At
    <2>6. Good(place')
      BY <1>1, <2>4, <2>5, MoveIsGood
    <2>7. Keeps(place, place', Entries)
      <3>1. \A e \in Entries : <<d, m>> # <<Top, e>> /\ place[d] # <<Top, e>>
        BY <2>3, ConstantsAssumption DEF Inodes
      <3> QED BY <1>1, <2>2, <3>1, MoveKeeps
    <2> QED BY <2>6, <2>7
  <1> QED BY <1>2, <1>3

\* What a mount does to visible files leaves the trash alone.
LEMMA EditKeeps ==
  ASSUME Good(place), NEW i \in Inodes, Edit(i)
  PROVE  Good(place') /\ Keeps(place, place', Entries)
  <1>1. CASE \E q \in VisiblePlaces :
               /\ i \in Dirs => q[1] = Top
               /\ \A j \in Inodes : place[j] = q => {i, j} \subseteq Files
               /\ place' = [j \in Inodes |-> IF j = i THEN q ELSE IF place[j] = q THEN Gone ELSE place[j]]
    <2>0. PICK q \in VisiblePlaces :
               /\ i \in Dirs => q[1] = Top
               /\ place' = [j \in Inodes |-> IF j = i THEN q ELSE IF place[j] = q THEN Gone ELSE place[j]]
      BY <1>1
    <2>a. PICK c \in {Top} \cup VisibleDirs, n \in Names : q = <<c, n>>
      BY DEF VisiblePlaces
    <2>1. i \in Dirs => c = Top
      BY <2>0, <2>a
    <2>2. q \in Places
      BY <2>a DEF Places, VisibleDirs
    <2>3. \A j \in Inodes : place'[j] = IF j = i THEN q ELSE IF place[j] = q THEN Gone ELSE place[j]
      BY <2>0
    <2>4. place' \in [Inodes -> Places]
      BY <2>0, <2>2 DEF Good, Places
    <2>5. Apart(place')
      BY <2>3 DEF Good, Apart
    <2>6. Flat(place')
      BY <2>1, <2>a, <2>3 DEF Good, Flat, Inodes
    <2>7. \A e \in Entries : q # <<Top, e>>
      <3>1. \A e \in Entries : n # e
        BY ConstantsAssumption
      <3> QED BY <3>1, <2>a
    <2>8. \A e \in Entries : c \in Dirs => place[c] # <<Top, e>>
      <3>1. c \in Dirs => \E m \in Names : place[c] = <<Top, m>>
        BY ConstantsAssumption DEF VisibleDirs, Inodes
      <3> QED BY <3>1, ConstantsAssumption
    <2>9. Keeps(place, place', Entries)
      BY <2>a, <2>3, <2>7, <2>8, PairIsAPlace DEF Keeps
    <2> QED BY <2>4, <2>5, <2>6, <2>9 DEF Good
  <1>2. CASE place' = [place EXCEPT ![i] = Gone]
    <2>1. place' = Remove(place, {i})
      BY <1>2 DEF Remove, Good
    <2> QED BY <2>1, RemoveKeeps
  <1> QED BY <1>1, <1>2 DEF Edit

\* A missing parent directory appears at a visible name.
LEMMA ParentKeeps ==
  ASSUME Good(place), NEW d \in Dirs, NEW n \in Names, Resolve(place, <<n>>) = {},
         place' = [place EXCEPT ![d] = <<Top, n>>]
  PROVE  Good(place') /\ Keeps(place, place', Entries)
  <1>1. place' = Moved(place, {d}, <<Top, n>>)
    BY DEF Moved, Good
  <1>2. \A x \in Inodes : place[x] # <<Top, n>>
    BY ShortPath DEF At
  <1>3. <<Top, n>> \in Places /\ <<Top, n>> \in {Top} \X (Names \cup Entries)
    BY DEF Places
  <1>4. {d} \in SUBSET Inodes /\ \A x, y \in {d} : x = y
    BY DEF Inodes
  <1>5. Good(Moved(place, {d}, <<Top, n>>))
    BY <1>2, <1>3, <1>4, MoveIsGood
  <1>6. \A e \in Entries : <<Top, n>> # <<Top, e>>
    BY ConstantsAssumption
  <1>7. Top \notin Dirs
    BY ConstantsAssumption DEF Inodes
  <1>8. Keeps(place, Moved(place, {d}, <<Top, n>>), Entries)
    BY <1>6, <1>7, MoveKeeps
  <1> QED BY <1>1, <1>5, <1>8

\* A namespace that does not change.
LEMMA StillKeeps ==
  ASSUME Good(place), UNCHANGED place
  PROVE  Good(place') /\ Keeps(place, place', Entries)
  BY DEF Keeps

\* A permanent deletion, whole or cut short.
LEMMA PurgeKeeps ==
  ASSUME Good(place), NEW p, NEW victims, NEW next, Purge(p, victims, next)
  PROVE  Good(place') /\ Keeps(place, place', Entries)
  <1>1. PICK S : place' = Remove(place, S)
    BY DEF Purge
  <1> QED BY <1>1, RemoveKeeps

\* The name a restored inode gets when its own is taken is at the same level.
LEMMA FreeNamesKeepTheLevel ==
  ASSUME NEW pl, NEW path, NEW q \in FreeNames(pl, path)
  PROVE  /\ path \in Short => q \in Short
         /\ path \in Long => q \in Long
  <1>1. PICK n \in Names : q = [path EXCEPT ![Len(path)] = n]
    BY DEF FreeNames
  <1>2. ASSUME path \in Short PROVE q \in Short
    <2>1. PICK k \in Names : path = <<k>>
      BY <1>2 DEF Short
    <2>2. q = <<n>>
      BY <1>1, <2>1
    <2> QED BY <2>2 DEF Short
  <1>3. ASSUME path \in Long PROVE q \in Long
    <2>1. PICK k \in Names, m \in Names : path = <<k, m>>
      BY <1>3 DEF Long
    <2>2. q = <<k, n>>
      BY <1>1, <2>1
    <2> QED BY <2>2 DEF Long
  <1> QED BY <1>2, <1>3

-----------------------------------------------------------------------------
(* Steps of one request, and of one row.                                   *)

StepOf(p) ==
  /\ proc' \in [Requests -> Records]
  /\ \A q \in Requests \ {p} : proc'[q] = proc[q]

\* The request goes on with the same record.
LEMMA GotoStep ==
  ASSUME TypeOK, NEW p \in Requests, NEW at, Goto(p, at),
         at \in {"idle", "create", "lookup", "drop", "decide", "claim"} \cup Owning
  PROVE  /\ StepOf(p)
         /\ proc'[p].pc = at /\ proc'[p].kind = proc[p].kind /\ proc'[p].e = proc[p].e
         /\ proc'[p].i = proc[p].i /\ proc'[p].from = proc[p].from /\ proc'[p].to = proc[p].to
         /\ proc'[p].how = proc[p].how /\ proc'[p].child = proc[p].child
         /\ proc'[p].as = proc[p].as /\ proc'[p].rest = proc[p].rest
  <1> DEFINE r == [proc[p] EXCEPT !.pc = at]
  <1>1. proc[p] \in Records
    BY DEF TypeOK
  <1>2. r \in Records
    BY <1>1 DEF Records
  <1>3. proc' = [proc EXCEPT ![p] = r]
    BY DEF Goto, TypeOK
  <1>4. proc'[p] = r
    BY <1>3 DEF TypeOK
  <1>5. StepOf(p)
    BY <1>2, <1>3 DEF TypeOK, StepOf
  <1> QED BY <1>1, <1>4, <1>5 DEF Records

LEMMA IdleIsARecord == Idle \in Records
  BY DEF Idle, Records, Paths

\* The request ends.
LEMMA LeaveStep ==
  ASSUME TypeOK, NEW p \in Requests, Leave(p)
  PROVE  StepOf(p) /\ proc'[p].pc = "idle"
  <1>1. proc'[p] = Idle
    BY DEF Leave, TypeOK
  <1>2. StepOf(p)
    BY IdleIsARecord DEF Leave, TypeOK, StepOf
  <1> QED BY <1>1, <1>2 DEF Idle

\* The row of an entry goes on: same root and name, and no new life.
Continues(e) ==
  /\ row' \in [Entries -> Rows]
  /\ \A f \in Entries \ {e} : row'[f] = row[f]
  /\ row'[e].root = row[e].root /\ row'[e].name = row[e].name
  /\ row'[e].state = "unused" => row[e].state = "unused"
  /\ Live(row'[e]) => Live(row[e])
  /\ row'[e].state = "deleting" => row'[e].op \in Inodes

LEMMA SameRow ==
  ASSUME TypeOK, Filled, NEW e \in Entries, UNCHANGED row
  PROVE  Continues(e)
  BY DEF TypeOK, Filled, Continues

LEMMA TransitionStep ==
  ASSUME TypeOK, NEW e \in Entries, NEW from, NEW to, NEW op \in Inodes \cup {None},
         Transition(e, from, to, op), from \in {"pending", "ready", "restoring", "deleting"},
         to \in {"ready", "restoring", "deleting"}, to = "deleting" => op \in Inodes
  PROVE  Continues(e) /\ row'[e].state = to /\ row'[e].op = op
  <1> DEFINE r == [row[e] EXCEPT !.state = to, !.op = op]
  <1>1. row[e] \in Rows
    BY DEF TypeOK
  <1>2. r \in Rows /\ r.state = to /\ r.op = op /\ r.root = row[e].root /\ r.name = row[e].name
    BY <1>1 DEF Rows, RowStates
  <1>3. row' = [row EXCEPT ![e] = r]
    BY DEF Transition, TypeOK
  <1>4. row'[e] = r /\ row[e].state = from
    BY <1>3 DEF TypeOK, Transition
  <1> HIDE DEF r
  <1>5. row' \in [Entries -> Rows] /\ \A f \in Entries \ {e} : row'[f] = row[f]
    BY <1>2, <1>3 DEF TypeOK
  <1> QED BY <1>2, <1>4, <1>5 DEF Continues, Live

LEMMA DeleteStep ==
  ASSUME TypeOK, NEW e \in Entries, NEW state \in {"removed", "undone"}, DeleteRowAs(e, state)
  PROVE  Continues(e) /\ row'[e].state = state
  <1> DEFINE r == [row[e] EXCEPT !.state = state, !.op = None]
  <1>1. row[e] \in Rows
    BY DEF TypeOK
  <1>2. r \in Rows /\ r.state = state /\ r.root = row[e].root /\ r.name = row[e].name
    BY <1>1 DEF Rows, RowStates
  <1>3. row' = [row EXCEPT ![e] = r]
    BY DEF DeleteRowAs, TypeOK
  <1>4. row'[e] = r
    BY <1>3 DEF TypeOK
  <1> HIDE DEF r
  <1>5. row' \in [Entries -> Rows] /\ \A f \in Entries \ {e} : row'[f] = row[f]
    BY <1>2, <1>3 DEF TypeOK
  <1> QED BY <1>2, <1>4, <1>5 DEF Continues, Live

LEMMA MarkReadyStep ==
  ASSUME TypeOK, Filled, NEW e \in Entries, NEW from \in {"pending", "restoring", "deleting"},
         MarkReady(e, from) \/ UNCHANGED row
  PROVE  /\ Continues(e)
         /\ row'[e].state = row[e].state \/ row'[e].state = "ready"
         /\ Held(row[e]) => Held(row'[e])
  <1>1. CASE UNCHANGED row
    BY <1>1, SameRow
  <1>2. CASE Transition(e, from, "ready", None)
    BY <1>2, TransitionStep DEF Held, Live
  <1> QED BY <1>1, <1>2 DEF MarkReady

-----------------------------------------------------------------------------
(* The invariant is carried on by a step of one request on its own entry.  *)

\* A payload is not back in a slot it left.
LEMMA InSlotFrame ==
  ASSUME NEW e \in Entries, NEW E, e \in E, Keeps(place, place', E),
         row'[e].root = row[e].root, InSlot(place, e)'
  PROVE  InSlot(place, e)
  BY DEF InSlot, Keeps

\* What a request knows survives the steps of the others.
LEMMA KnowsFrame ==
  ASSUME Good(place'), NEW q \in Requests, Formed(proc[q]), Knows(proc[q]), proc'[q] = proc[q],
         NEW E, OnEntry(q) => proc[q].e \in E, Keeps(place, place', E),
         OnEntry(q) => /\ row'[proc[q].e].root = row[proc[q].e].root
                       /\ row'[proc[q].e].state = "unused" => row[proc[q].e].state = "unused",
         proc[q].pc \in Creating => row'[proc[q].e].state = "pending"
  PROVE  Knows(proc[q])'
  <1> DEFINE r == proc[q]
             e == r.e
  <1>1. CASE ~OnEntry(q)
    BY <1>1 DEF OnEntry, Knows, Chosen, Creating, Restoring
  <1>2. CASE OnEntry(q)
    <2>1. e \in Entries /\ e \in E
      BY <1>2 DEF Formed, OnEntry
    <2>2. InSlot(place, e)' => InSlot(place, e)
      BY <1>2, <2>1, InSlotFrame
    <2>3. r.pc = "stow" => \A x \in Inodes : place'[x] # <<Top, e>>
      BY <2>1 DEF Knows, Keeps
    <2>4. r.pc \in {"drop", "remove"} => ~InSlot(place, e)'
      BY <2>2 DEF Knows
    <2>5. Chosen(r) => \A n \in Names : r.from = <<e, n>> /\ InSlot(place, e)' =>
             \A x \in Inodes : place'[x] = <<row'[e].root, n>> => x = r.i
      <3> SUFFICES ASSUME Chosen(r), NEW n \in Names, r.from = <<e, n>>, InSlot(place, e)',
                          NEW x \in Inodes, place'[x] = <<row'[e].root, n>>
                   PROVE  x = r.i
        OBVIOUS
      <3>1. InSlot(place, e) /\ row'[e].root = row[e].root
        BY <1>2, <2>2
      <3>2. place[row[e].root] = <<Top, e>> /\ row[e].root \in Inodes
        BY <3>1 DEF InSlot
      <3>3. row[e].root \in Dirs
        <4>1. place'[x] \in Places
          BY DEF Good
        <4>2. row[e].root # Top
          BY <3>2, ConstantsAssumption
        <4> QED BY <3>1, <4>1, <4>2, PlaceShape, PairIsAPlace
      <3> QED BY <2>1, <3>1, <3>2, <3>3 DEF Keeps, Knows
    <2> QED BY <1>2, <2>1, <2>2, <2>3, <2>4, <2>5 DEF Knows, OnEntry
  <1> QED BY <1>1, <1>2
\* How a request may change its row: while it owns the entry and lets go, from
\* the settled state to its own, or because the payload is gone.
Acts(p, e) ==
  \/ proc[p].pc \in Owning /\ proc'[p].pc \notin Owning
  \/ /\ proc[p].pc \in Owning /\ row'[e] = row[e]
     /\ proc'[p].kind = proc[p].kind /\ proc'[p].pc # "purge"
  \/ /\ proc[p].pc \notin Owning /\ proc'[p].pc \notin Owning
     /\ row'[e] = row[e] \/ (row'[e].state = "removed" /\ ~InSlot(place, e))
  \/ /\ row[e].state = "ready" /\ row'[e].state = By(proc'[p].kind)
     /\ proc'[p].pc = "purge" => row'[e].op = proc'[p].i

\* The states of an entry that is being mutated.
LEMMA ByStates ==
  ASSUME NEW kind
  PROVE  By(kind) \in {"pending", "restoring", "deleting"}
  BY DEF By

\* Requests that mutate stay alone on their entries.
LEMMA SoleCarries ==
  ASSUME Inv, NEW p \in Requests, OnEntry(p), StepOf(p), NEW e, e = proc[p].e, Continues(e),
         Keeps(place, place', Entries \ {e}),
         proc[p].pc \notin Creating => Keeps(place, place', Entries),
         Acts(p, e), proc'[p].pc = "idle" \/ proc'[p].e = e
  PROVE  OneMutator'
  <1> SUFFICES ASSUME Outlasting = {}, NEW q \in Requests, proc'[q].pc \in Owning
               PROVE  Sole(q)'
    BY DEF OneMutator, Sole
  <1>1. e \in Entries /\ \A f \in Entries \ {e} : row'[f] = row[f]
    BY DEF Inv, Ready, Formed, OnEntry, Continues
  <1>2. \A s \in Requests : Sole(s)
    BY DEF Inv, OneMutator
  <1>3. \A s \in Requests : proc[s].pc \in Owning /\ proc[s].e = e => row[e].state # "ready"
    BY <1>2, ByStates DEF Sole
  <1>4. CASE q = p
    <2>1. proc'[p].e = e
      BY <1>4 DEF Owning
    <2>2. CASE proc[p].pc \in Owning /\ row'[e] = row[e] /\ proc'[p].kind = proc[p].kind
               /\ proc'[p].pc # "purge"
      <3>1. \A s \in Requests \ {p} : ~Owns(s, e)'
        BY <1>2, <2>2 DEF Sole, Owns, StepOf
      <3>2. row[e].state = By(proc[p].kind) \/ (row[e].state = "removed" /\ ~InSlot(place, e))
        BY <1>2, <2>2 DEF Sole
      <3>3. proc[p].pc \in Creating => row[e].state # "removed"
        BY DEF Inv, Ready, Knows
      <3>4. row'[e].state = By(proc'[p].kind) \/ (row'[e].state = "removed" /\ ~InSlot(place, e)')
        BY <1>1, <2>2, <3>2, <3>3, InSlotFrame
      <3> QED BY <1>4, <2>1, <2>2, <3>1, <3>4 DEF Sole
    <2>3. CASE /\ row[e].state = "ready" /\ row'[e].state = By(proc'[p].kind)
               /\ proc'[p].pc = "purge" => row'[e].op = proc'[p].i
      <3>1. \A s \in Requests \ {p} : ~Owns(s, e)'
        BY <1>3, <2>3 DEF Owns, StepOf
      <3> QED BY <1>4, <2>1, <2>3, <3>1 DEF Sole
    <2> QED BY <1>4, <2>2, <2>3 DEF Acts
  <1>5. CASE q # p
    <2> DEFINE f == proc[q].e
    <2>1. proc'[q] = proc[q] /\ proc[q].pc \in Owning /\ f \in Entries /\ Sole(q)
      <3>1. proc'[q] = proc[q]
        BY <1>5 DEF StepOf
      <3>2. f \in Entries
        BY <3>1 DEF Inv, Ready, Formed, Owning
      <3> QED BY <1>2, <3>1, <3>2
    <2>2. /\ \A s \in Requests \ {q} : ~Owns(s, f)
          /\ \/ /\ row[f].state = By(proc[q].kind)
                /\ proc[q].pc = "purge" => row[f].op = proc[q].i
             \/ row[f].state = "removed" /\ ~InSlot(place, f)
      BY <2>1 DEF Sole
    <2>3. CASE f # e
      <3>1. row'[f] = row[f] /\ (InSlot(place, f)' => InSlot(place, f))
        <4>1. row'[f] = row[f]
          BY <1>1, <2>1, <2>3
        <4> QED BY <2>1, <2>3, <4>1 DEF InSlot, Keeps
      <3>2. \A s \in Requests \ {q} : ~(proc'[s].pc \in Owning /\ proc'[s].e = f)
        BY <2>2, <2>3 DEF Owns, StepOf, Owning
      <3> QED BY <2>1, <2>2, <3>1, <3>2 DEF Sole, Owns
    <2>4. CASE f = e
      <3>1. proc[p].pc \notin Owning
        BY <1>5, <2>2, <2>4 DEF Owns
      <3>2. /\ proc'[p].pc \notin Owning
            /\ row'[e] = row[e] \/ (row'[e].state = "removed" /\ ~InSlot(place, e))
        BY <1>3, <2>1, <2>4, <3>1 DEF Acts
      <3>3. Keeps(place, place', Entries) /\ row'[e].root = row[e].root
        BY <3>1 DEF Creating, Owning, Continues
      <3>4. InSlot(place, e)' => InSlot(place, e)
        BY <1>1, <3>3 DEF InSlot, Keeps
      <3>5. \A s \in Requests \ {q} : ~(proc'[s].pc \in Owning /\ proc'[s].e = e)
        BY <2>2, <2>4, <3>2 DEF Owns, StepOf
      <3> QED BY <2>1, <2>2, <2>4, <3>2, <3>4, <3>5 DEF Sole, Owns
    <2> QED BY <2>3, <2>4
  <1> QED BY <1>4, <1>5

\* A step on the request's own entry, which lets nothing into another slot.
LEMMA CarryOn ==
  ASSUME Inv, NEW p \in Requests, OnEntry(p), StepOf(p), NEW e, e = proc[p].e,
         Continues(e), Good(place'), Keeps(place, place', Entries \ {e}),
         proc[p].pc \notin Creating => Keeps(place, place', Entries),
         InSlot(place, e)' => Held(row'[e]),
         \/ proc'[p].pc = "idle"
         \/ /\ OnEntry(p)' /\ proc'[p].e = e
            /\ Formed(proc'[p]) /\ Knows(proc[p])'
            /\ proc'[p].pc \in Creating => proc[p].pc \in Creating,
         Acts(p, e)
  PROVE  Inv'
  <1>1. e \in Entries /\ row[e].state # "unused"
    BY DEF Inv, Ready, Formed, Knows, OnEntry
  <1>2. \A f \in Entries \ {e} : row'[f] = row[f]
    BY DEF Continues
  <1>3. TypeOK'
    <2>1. \A f \in Entries : row'[f].root = row[f].root /\ (Live(row'[f]) => Live(row[f]))
      BY <1>2 DEF Continues
    <2>2. \A f, g \in Entries : f # g /\ Live(row'[f]) /\ Live(row'[g]) => row'[f].root # row'[g].root
      BY <2>1 DEF Inv, TypeOK
    <2> QED BY <2>2 DEF TypeOK, Good, Continues, StepOf
  <1>4. Filled'
    <2>1. ASSUME NEW f \in Entries \ {e}
          PROVE  /\ row'[f].state = "unused" => \A x \in Inodes : place'[x] # <<Top, f>>
                 /\ row'[f].state # "unused" => row'[f].root \in Inodes /\ row'[f].name \in Names
                 /\ row'[f].state = "deleting" => row'[f].op \in Inodes
      BY <1>2 DEF Inv, Filled, Keeps
    <2>2. /\ row'[e].state # "unused"
          /\ row'[e].root \in Inodes /\ row'[e].name \in Names
          /\ row'[e].state = "deleting" => row'[e].op \in Inodes
      BY <1>1 DEF Inv, Filled, Continues
    <2> QED BY <2>1, <2>2 DEF Filled
  <1>5. OwnPayloadHasRow'
    <2>1. ASSUME NEW f \in Entries, InSlot(place, f)'
          PROVE  Held(row'[f])
      <3>1. CASE f = e
        BY <2>1, <3>1
      <3>2. CASE f # e
        BY <2>1, <3>2, <1>2, InSlotFrame DEF Inv, OwnPayloadHasRow, Held
      <3> QED BY <3>1, <3>2
    <2> QED BY <2>1 DEF OwnPayloadHasRow, Held
  <1>6. ASSUME NEW q \in Requests
        PROVE  Ready(q)'
    <2>1. Formed(proc'[q])
      BY DEF StepOf, Inv, Ready, Formed, Chosen, Aims, Creating, Restoring
    <2>2. Alone(q)'
      BY DEF StepOf, Inv, Ready, Alone, OnEntry, Creating
    <2>3. Knows(proc[q])'
      <3>1. CASE q = p
        BY <3>1 DEF Knows, Chosen, Creating, Restoring
      <3>2. CASE q # p
        <4>1. proc'[q] = proc[q] /\ Ready(q)
          BY <3>2 DEF StepOf, Inv
        <4>2. CASE OnEntry(q) /\ proc[q].e = e
          <5>1. proc[p].pc \notin Creating /\ proc[q].pc \notin Creating
            BY <3>2, <4>2 DEF Inv, Ready, Alone
          <5>2. Keeps(place, place', Entries)
            BY <5>1
          <5> QED BY <4>1, <4>2, <5>1, <5>2, <1>1, KnowsFrame DEF Ready, Continues
        <4>3. CASE ~(OnEntry(q) /\ proc[q].e = e)
          <5>1. OnEntry(q) => proc[q].e \in Entries \ {e}
            BY <4>1, <4>3 DEF Ready, Formed, OnEntry
          <5>2. proc[q].pc \in Creating => row'[proc[q].e].state = "pending"
            BY <4>1, <5>1, <1>2 DEF Ready, Knows, OnEntry, Creating
          <5> QED BY <4>1, <5>1, <5>2, <1>2, KnowsFrame DEF Ready
        <4> QED BY <4>2, <4>3
      <3> QED BY <3>1, <3>2
    <2> QED BY <2>1, <2>2, <2>3 DEF Ready
  <1>7. OneMutator'
    BY SoleCarries
  <1> QED BY <1>3, <1>4, <1>5, <1>6, <1>7 DEF Inv, Good

\* Between two steps on a record that was chosen, what was known is still known.
LEMMA KnowsOn ==
  ASSUME Inv, NEW p \in Requests, Chosen(proc[p]), NEW e, e = proc[p].e, Continues(e),
         Good(place'), Keeps(place, place', Entries),
         Chosen(proc'[p]), proc'[p].e = e, proc'[p].i = proc[p].i, proc'[p].from = proc[p].from,
         proc'[p].pc = "remove" => ~InSlot(place, e)'
  PROVE  Knows(proc[p])'
  <1> DEFINE r == proc[p]
  <1>1. e \in Entries /\ row[e].state # "unused" /\ Knows(r) /\ Formed(r)
    BY DEF Inv, Ready, Formed, Knows, Chosen, Restoring
  <1>2. row'[e].state # "unused" /\ row'[e].root = row[e].root
    BY <1>1 DEF Continues
  <1>3. proc'[p].pc \notin Creating /\ proc'[p].pc # "drop"
    BY DEF Chosen, Creating, Restoring
  <1>4. \A n \in Names : r.from = <<e, n>> /\ InSlot(place, e)' =>
             \A x \in Inodes : place'[x] = <<row'[e].root, n>> => x = r.i
    <2> SUFFICES ASSUME NEW n \in Names, r.from = <<e, n>>, InSlot(place, e)',
                        NEW x \in Inodes, place'[x] = <<row'[e].root, n>>
                 PROVE  x = r.i
      OBVIOUS
    <2>1. InSlot(place, e)
      BY <1>1, <1>2, InSlotFrame
    <2>2. place[row[e].root] = <<Top, e>> /\ row[e].root \in Inodes
      BY <2>1 DEF InSlot
    <2>3. row[e].root \in Dirs
      <3>1. place'[x] \in Places
        BY DEF Good
      <3>2. row[e].root # Top
        BY <2>2, ConstantsAssumption
      <3> QED BY <1>2, <3>1, <3>2, PlaceShape, PairIsAPlace
    <2> QED BY <1>1, <1>2, <2>1, <2>2, <2>3 DEF Keeps, Knows
  <1> QED BY <1>1, <1>2, <1>3, <1>4 DEF Knows, Creating

\* A request that chose its record goes on with it.
LEMMA GoesOn ==
  ASSUME Inv, NEW p \in Requests, Chosen(proc[p]), StepOf(p), NEW e, e = proc[p].e, Continues(e),
         Good(place'), Keeps(place, place', Entries), Held(row[e]) => Held(row'[e]),
         Chosen(proc'[p]), proc'[p].e = e, proc'[p].i = proc[p].i, proc'[p].from = proc[p].from,
         proc'[p].pc = "remove" => ~InSlot(place, e)',
         Formed(proc'[p]), Acts(p, e)
  PROVE  Inv'
  <1>1. Knows(proc[p])'
    BY KnowsOn
  <1>2. OnEntry(p) /\ OnEntry(p)' /\ proc'[p].pc \notin Creating /\ proc[p].pc \notin Creating
    BY DEF Chosen, OnEntry, Creating, Restoring
  <1>3. e \in Entries
    BY <1>2 DEF Inv, Ready, Formed, OnEntry
  <1>4. InSlot(place, e)' => Held(row'[e])
    BY <1>3, InSlotFrame DEF Inv, OwnPayloadHasRow, Continues, Held
  <1>5. Keeps(place, place', Entries \ {e})
    BY DEF Keeps
  <1> QED BY <1>1, <1>2, <1>4, <1>5, CarryOn

\* It goes on and the rows do not change.
LEMMA GoesOnQuietly ==
  ASSUME Inv, NEW p \in Requests, Chosen(proc[p]), StepOf(p), UNCHANGED row,
         Good(place'), Keeps(place, place', Entries),
         Chosen(proc'[p]), proc'[p].e = proc[p].e, proc'[p].i = proc[p].i,
         proc'[p].from = proc[p].from, proc'[p].kind = proc[p].kind,
         proc'[p].pc \notin {"purge", "remove"}, Formed(proc'[p]),
         proc'[p].pc \in Owning => proc[p].pc \in Owning
  PROVE  Inv'
  <1>1. proc[p].e \in Entries
    BY DEF Inv, Ready, Formed, Chosen, Restoring
  <1>2. Continues(proc[p].e)
    BY <1>1, SameRow DEF Inv
  <1>3. Acts(p, proc[p].e)
    BY DEF Acts
  <1> QED BY <1>2, <1>3, GoesOn

\* A request on an entry ends.
LEMMA Ends ==
  ASSUME Inv, NEW p \in Requests, OnEntry(p), Leave(p), NEW e, e = proc[p].e, Continues(e),
         Good(place'), Keeps(place, place', Entries),
         Held(row[e]) => Held(row'[e]) \/ ~InSlot(place, e),
         proc[p].pc \in Owning \/ row'[e] = row[e] \/ (row'[e].state = "removed" /\ ~InSlot(place, e))
  PROVE  Inv'
  <1>1. StepOf(p) /\ proc'[p].pc = "idle"
    BY LeaveStep DEF Inv
  <1>2. e \in Entries
    BY DEF Inv, Ready, Formed, OnEntry
  <1>3. InSlot(place, e)' => Held(row'[e])
    BY <1>2, InSlotFrame DEF Inv, OwnPayloadHasRow, Continues, Held
  <1>4. Keeps(place, place', Entries \ {e})
    BY DEF Keeps
  <1>5. Acts(p, e)
    BY <1>1 DEF Acts, Owning
  <1> QED BY <1>1, <1>3, <1>4, <1>5, CarryOn

LEMMA EndsQuietly ==
  ASSUME Inv, NEW p \in Requests, OnEntry(p), Leave(p), UNCHANGED row,
         Good(place'), Keeps(place, place', Entries)
  PROVE  Inv'
  <1>1. proc[p].e \in Entries
    BY DEF Inv, Ready, Formed, OnEntry
  <1>2. Continues(proc[p].e)
    BY <1>1, SameRow DEF Inv
  <1> QED BY <1>2, Ends

\* A request begins, or ends before it has an entry.
LEMMA Begins ==
  ASSUME Inv, NEW p \in Requests, ~OnEntry(p), StepOf(p), UNCHANGED <<place, row>>,
         Formed(proc'[p]), Knows(proc[p])', proc'[p].pc \notin Owning,
         OnEntry(p)' => row[proc'[p].e].state = "ready"
  PROVE  Inv'
  <1>1. TypeOK' /\ Good(place)' /\ Filled' /\ OwnPayloadHasRow'
    BY DEF Inv, TypeOK, StepOf, Good, Filled, OwnPayloadHasRow, InSlot, Live, Apart, Flat
  <1>2. ASSUME NEW q \in Requests
        PROVE  Ready(q)'
    <2>1. CASE q = p
      BY <2>1 DEF Ready, Alone, Creating, Owning
    <2>2. CASE q # p
      <3>1. proc'[q] = proc[q] /\ Ready(q)
        BY <2>2 DEF StepOf, Inv
      <3>2. Formed(proc'[q]) /\ Knows(proc[q])'
        BY <3>1 DEF Ready, Knows, InSlot
      <3>3. Alone(q)'
        <4>1. proc[q].pc \in Creating => row[proc[q].e].state = "pending"
          BY <3>1 DEF Ready, Knows
        <4> QED BY <3>1, <4>1 DEF Ready, Alone, StepOf, OnEntry
      <3> QED BY <3>2, <3>3 DEF Ready
    <2> QED BY <2>1, <2>2
  <1>3. OneMutator'
    BY DEF Inv, OneMutator, Sole, StepOf, Owns, InSlot
  <1> QED BY <1>1, <1>2, <1>3 DEF Inv

\* No request takes a step, and at most one row changes.
LEMMA Around ==
  ASSUME Inv, UNCHANGED proc, NEW e \in Entries, Continues(e),
         Good(place'), Keeps(place, place', Entries),
         Held(row[e]) => Held(row'[e]) \/ ~InSlot(place, e)',
         row[e].state = "unused" => row'[e] = row[e],
         row'[e] = row[e] \/ \A p \in Requests : proc[p].pc \in Creating => proc[p].e # e,
         row'[e] = row[e] \/ (Outlasting = {} => \A p \in Requests : ~Owns(p, e))
  PROVE  Inv'
  <1>1. \A f \in Entries \ {e} : row'[f] = row[f]
    BY DEF Continues
  <1>2. TypeOK'
    <2>1. \A f \in Entries : row'[f].root = row[f].root /\ (Live(row'[f]) => Live(row[f]))
      BY <1>1 DEF Continues
    <2>2. \A f, g \in Entries : f # g /\ Live(row'[f]) /\ Live(row'[g]) => row'[f].root # row'[g].root
      BY <2>1 DEF Inv, TypeOK
    <2> QED BY <2>2 DEF Inv, TypeOK, Good, Continues
  <1>3. Filled'
    <2>1. ASSUME NEW f \in Entries
          PROVE  /\ row'[f].state = "unused" => \A x \in Inodes : place'[x] # <<Top, f>>
                 /\ row'[f].state # "unused" => row'[f].root \in Inodes /\ row'[f].name \in Names
                 /\ row'[f].state = "deleting" => row'[f].op \in Inodes
      <3>1. CASE f # e
        BY <1>1, <3>1 DEF Inv, Filled, Keeps
      <3>2. CASE f = e
        BY <3>2 DEF Inv, Filled, Keeps, Continues, Live
      <3> QED BY <3>1, <3>2
    <2> QED BY <2>1 DEF Filled
  <1>4. OwnPayloadHasRow'
    <2>1. ASSUME NEW f \in Entries, InSlot(place, f)'
          PROVE  Held(row'[f])
      <3>1. InSlot(place, f) /\ Held(row[f])
        BY <1>1, <2>1, InSlotFrame DEF Inv, OwnPayloadHasRow, Continues, Held
      <3> QED BY <1>1, <2>1, <3>1
    <2> QED BY <2>1 DEF OwnPayloadHasRow, Held
  <1>5. ASSUME NEW q \in Requests
        PROVE  Ready(q)'
    <2>1. Formed(proc'[q]) /\ Alone(q)'
      BY DEF Inv, Ready, Formed, Chosen, Aims, Creating, Restoring, Alone, OnEntry
    <2>2. Ready(q) /\ (OnEntry(q) => proc[q].e \in Entries)
      BY DEF Inv, Ready, Formed, OnEntry
    <2>3. proc[q].pc \in Creating => row'[proc[q].e].state = "pending"
      BY <1>1, <2>2 DEF Ready, Knows, OnEntry, Creating
    <2>4. OnEntry(q) => /\ row'[proc[q].e].root = row[proc[q].e].root
                        /\ row'[proc[q].e].state = "unused" => row[proc[q].e].state = "unused"
      BY <1>1, <2>2 DEF Continues
    <2>5. Knows(proc[q])'
      BY <2>2, <2>3, <2>4, KnowsFrame DEF Ready
    <2> QED BY <2>1, <2>5 DEF Ready
  <1>6. OneMutator'
    <2> SUFFICES ASSUME Outlasting = {}, NEW q \in Requests, proc[q].pc \in Owning
                 PROVE  Sole(q)'
      BY DEF OneMutator, Sole
    <2> DEFINE f == proc[q].e
    <2>1. f \in Entries /\ Sole(q)
      BY DEF Inv, OneMutator, Ready, Formed, Owning
    <2>2. f # e \/ row'[e] = row[e]
      BY DEF Owns
    <2>3. row'[f] = row[f]
      BY <1>1, <2>1, <2>2
    <2>4. InSlot(place, f)' => InSlot(place, f)
      BY <2>1, <2>3 DEF InSlot, Keeps
    <2> QED BY <2>1, <2>3, <2>4 DEF Sole, Owns
  <1> QED BY <1>2, <1>3, <1>4, <1>5, <1>6 DEF Inv

-----------------------------------------------------------------------------
(* The steps of a request on an entry.                                     *)

\* What is looked up is in the slot, or in the directory in the slot.
LEMMA LookupPayloadInv ==
  ASSUME Inv, NEW p \in Requests, LookupPayload(p)
  PROVE  Inv'
  <1> DEFINE r == proc[p]
             e == r.e
             found == Named(place, r.from, Len(r.from) = 1 /\ row[e].root \in Dirs)
             mismatch == Len(r.from) = 1 /\ found # {} /\ found # {row[e].root}
  <1>1. OnEntry(p) /\ e \in Entries /\ row[e].state # "unused" /\ row[e].root \in Inodes
    BY DEF LookupPayload, Inv, Ready, Formed, Knows, OnEntry, Filled
  <1>2. /\ r.pc = "lookup" /\ r.from \in {<<e>>} \cup Below(e)
        /\ r.kind \in {"list", "restore", "delete", "empty"}
        /\ r.kind \in {"list", "empty"} => r.from = <<e>>
    BY DEF LookupPayload, Inv, Ready, Formed
  <1>3. UNCHANGED <<place, row>> /\ Good(place') /\ Keeps(place, place', Entries)
    BY StillKeeps DEF LookupPayload, Inv
  <1>4. Continues(e)
    BY <1>1, <1>3, SameRow DEF Inv
  <1>5. ASSUME r.from = <<e>>, InSlot(place, e)
        PROVE  found = {row[e].root}
    <2>1. found = Named(place, <<e>>, row[e].root \in Dirs)
      BY <1>5
    <2>2. row[e].root \in found
      BY <1>5, <2>1, ShortPath DEF InSlot, Named, At
    <2>3. found \subseteq At(place, Top, e)
      BY <2>1, NamedShort
    <2>4. \A x \in At(place, Top, e) : x = row[e].root
      BY <1>1, <1>5, AtOnce DEF InSlot, At, Inv, TypeOK
    <2> QED BY <2>2, <2>3, <2>4
  <1>6. CASE Leave(p)
    BY <1>1, <1>3, <1>6, EndsQuietly
  <1>7. CASE Goto(p, "drop") /\ (found = {} \/ mismatch) /\ r.kind \in {"list", "empty"}
    <2>1. ~InSlot(place, e)
      BY <1>2, <1>5, <1>7
    <2>2. StepOf(p) /\ proc'[p].pc = "drop" /\ proc'[p].e = e
             /\ proc'[p].from = r.from /\ proc'[p].kind = r.kind
      BY <1>7, GotoStep DEF Inv, Owning
    <2>3. Formed(proc'[p]) /\ OnEntry(p)' /\ proc'[p].pc \notin Creating
      BY <1>1, <1>2, <2>2 DEF Formed, OnEntry, Chosen, Aims, Restoring, Creating
    <2>4. Knows(proc[p])'
      BY <1>1, <1>3, <2>1, <2>2 DEF Knows, Chosen, Restoring, Creating, InSlot
    <2>5. Keeps(place, place', Entries \ {e})
      BY <1>3 DEF Keeps
    <2>6. Acts(p, e)
      BY <1>2, <1>3, <2>2 DEF Acts, Owning
    <2> QED BY <1>1, <1>3, <1>4, <2>1, <2>2, <2>3, <2>4, <2>5, <2>6, CarryOn DEF InSlot
  <1>8. ASSUME found # {}, ~mismatch, NEW i \in found, NEW at \in {"decide", "claim"},
               proc' = [proc EXCEPT ![p].pc = at, ![p].i = i],
               at = "decide" <=> r.kind = "restore", r.kind # "list"
        PROVE  Inv'
    <2> DEFINE s == [r EXCEPT !.pc = at, !.i = i]
    <2>1. i \in Inodes
      <3>1. found \subseteq Resolve(place, r.from)
        BY DEF Named
      <3>2. PICK n : r.from = <<e>> \/ r.from = <<e, n>>
        BY <1>2 DEF Below
      <3>3. r.from \in {<<e>>, <<e, n>>}
        BY <3>2
      <3> QED BY <1>8, <3>1, <3>3, ResolvesToOne DEF Inv, Good
    <2>2. r \in Records
      BY DEF Inv, TypeOK
    <2>3. s \in Records /\ s.pc = at /\ s.i = i /\ s.e = e /\ s.from = r.from /\ s.kind = r.kind
      BY <2>1, <2>2 DEF Records, Owning
    <2>4. proc' = [proc EXCEPT ![p] = s]
      BY <1>8 DEF Inv, TypeOK
    <2>5. proc'[p] = s
      BY <2>4 DEF Inv, TypeOK
    <2> HIDE DEF s
    <2>6. StepOf(p)
      BY <2>3, <2>4 DEF Inv, TypeOK, StepOf
    <2>7. r.from = <<e>> => i = row[e].root
      <3>1. r.from = <<e>> => Len(r.from) = 1
        OBVIOUS
      <3> QED BY <1>8, <3>1
    <2>8. ASSUME NEW n \in Names, r.from = <<e, n>>
          PROVE  \E d \in Dirs : place[d] = <<Top, e>> /\ place[i] = <<d, n>>
      BY SMTT(30), <1>8, <2>8, NamedLong
    <2>9. r.from # <<e>> => i \in Files
      <3> SUFFICES ASSUME r.from # <<e>> PROVE i \in Files
        OBVIOUS
      <3>1. PICK n \in Names : r.from = <<e, n>>
        BY <1>2 DEF Below
      <3>2. PICK d \in Dirs : place[i] = <<d, n>>
        BY <2>8, <3>1
      <3>3. d # Top
        BY ConstantsAssumption DEF Inodes
      <3>4. place[i] \notin {Top} \X (Names \cup Entries) \cup {Gone, Unborn}
        BY <3>2, <3>3, PairIsAPlace
      <3> QED BY <2>1, <3>4 DEF Inv, Good, Flat, Inodes
    <2>10. ASSUME NEW n \in Names, r.from = <<e, n>>, InSlot(place, e), NEW x \in Inodes,
                  place[x] = <<row[e].root, n>>
           PROVE  x = i
      <3>1. PICK d \in Dirs : place[d] = <<Top, e>> /\ place[i] = <<d, n>>
        BY <2>8, <2>10
      <3>2. d = row[e].root
        BY <1>1, <2>10, <3>1, AtOnce DEF InSlot, Inv, Good, Inodes
      <3> QED BY <2>1, <2>10, <3>1, <3>2, AtOnce DEF Inv, Good
    <2>11. Formed(proc'[p]) /\ OnEntry(p)' /\ proc'[p].pc \notin Creating
      <3>1. r.from # <<e>> => r.kind \notin {"list", "empty"}
        BY <1>2
      <3>2. at = "claim" => r.kind # "restore"
        BY <1>8
      <3> QED BY <1>1, <1>2, <1>8, <2>1, <2>3, <2>5, <2>9, <3>2
            DEF Formed, OnEntry, Chosen, Aims, Restoring, Creating
    <2>12. Knows(proc[p])'
      BY <1>1, <1>3, <2>3, <2>5, <2>7, <2>10 DEF Knows, Chosen, Restoring, Creating, InSlot
    <2>13. Keeps(place, place', Entries \ {e})
      BY <1>3 DEF Keeps
    <2>14. InSlot(place, e)' => Held(row'[e])
      <3>1. InSlot(place, e) => Held(row[e])
        BY <1>1 DEF Inv, OwnPayloadHasRow, Held
      <3> QED BY <1>3, <2>3, <2>5, <3>1 DEF InSlot
    <2>15. Acts(p, e)
      BY <1>2, <1>3, <1>8, <2>3, <2>5 DEF Acts, Owning
    <2> QED BY <1>1, <1>3, <1>4, <2>3, <2>5, <2>6, <2>11, <2>12, <2>13, <2>14, <2>15, CarryOn
  <1>9. CASE found = {} \/ mismatch
    BY <1>6, <1>7, <1>9 DEF LookupPayload
  <1>10. CASE ~(found = {} \/ mismatch)
    <2>1. PICK i \in found :
            CASE r.kind = "list" -> Leave(p)
              [] r.kind = "restore" -> proc' = [proc EXCEPT ![p].pc = "decide", ![p].i = i]
              [] OTHER -> proc' = [proc EXCEPT ![p].pc = "claim", ![p].i = i]
      BY <1>10 DEF LookupPayload
    <2>2. CASE r.kind = "list"
      BY <1>6, <2>1, <2>2
    <2>3. CASE r.kind = "restore"
      BY <1>8, <1>10, <2>1, <2>3
    <2>4. CASE r.kind \notin {"list", "restore"}
      <3>1. proc' = [proc EXCEPT ![p].pc = "claim", ![p].i = i]
        BY <2>1, <2>4
      <3> QED BY <1>8, <1>10, <2>4, <3>1
    <2> QED BY <2>2, <2>3, <2>4
  <1> QED BY <1>9, <1>10

\* The entry of a request, as a constant of the step.
LEMMA EntryOf ==
  ASSUME Inv, NEW p \in Requests, OnEntry(p)
  PROVE  /\ proc[p].e \in Entries /\ row[proc[p].e].state # "unused"
         /\ row[proc[p].e].root \in Inodes /\ row[proc[p].e].name \in Names
         /\ proc[p] \in Records /\ Formed(proc[p]) /\ Knows(proc[p])
  BY DEF Inv, TypeOK, Ready, Formed, Knows, OnEntry, Filled

\* The row is dropped because the slot is empty.
LEMMA DropEntryInv ==
  ASSUME Inv, NEW p \in Requests, DropEntry(p)
  PROVE  Inv'
  <1>1. OnEntry(p) /\ ~InSlot(place, proc[p].e)
    BY DEF DropEntry, OnEntry, Inv, Ready, Knows
  <1>2. Good(place') /\ Keeps(place, place', Entries) /\ Leave(p)
    BY StillKeeps DEF DropEntry, Inv
  <1>3. Continues(proc[p].e)
    BY <1>1, EntryOf, DeleteStep, SameRow DEF DropEntry, DeleteRow, Inv
  <1>4. row'[proc[p].e] = row[proc[p].e] \/ row'[proc[p].e].state = "removed"
    BY <1>1, EntryOf, DeleteStep DEF DropEntry, DeleteRow, Inv
  <1> QED BY <1>1, <1>2, <1>3, <1>4, Ends

LEMMA RemoveEntryInv ==
  ASSUME Inv, NEW p \in Requests, RemoveEntry(p)
  PROVE  Inv'
  <1>1. OnEntry(p) /\ ~InSlot(place, proc[p].e) /\ proc[p].pc \in Owning
    BY DEF RemoveEntry, OnEntry, Inv, Ready, Knows, Owning
  <1>2. Good(place') /\ Keeps(place, place', Entries) /\ Leave(p)
    BY StillKeeps DEF RemoveEntry, Inv
  <1>3. Continues(proc[p].e)
    BY <1>1, EntryOf, DeleteStep, SameRow DEF RemoveEntry, DeleteRow, Inv
  <1> QED BY <1>1, <1>2, <1>3, Ends

\* The original pathname is at the level of what is restored.
LEMMA OriginalIsAway ==
  ASSUME Inv, NEW p \in Requests, OnEntry(p), NEW e, e = proc[p].e,
         proc[p].from \in {<<e>>} \cup Below(e)
  PROVE  /\ proc[p].from = <<e>> => Original(proc[p]) \in Short
         /\ proc[p].from # <<e>> => Original(proc[p]) \in Long
  <1> DEFINE name == row[e].name
  <1>1. name \in Names
    BY EntryOf
  <1>2. Original(proc[p]) = <<name>> \o Tail(proc[p].from)
    BY DEF Original
  <1>3. ASSUME proc[p].from = <<e>> PROVE Original(proc[p]) \in Short
    <2>1. Original(proc[p]) = <<name>>
      BY <1>2, <1>3
    <2> QED BY <1>1, <2>1 DEF Short
  <1>4. ASSUME proc[p].from # <<e>> PROVE Original(proc[p]) \in Long
    <2>1. PICK n \in Names : proc[p].from = <<e, n>>
      BY <1>4 DEF Below
    <2>2. Tail(<<e, n>>) = <<n>>
      OBVIOUS
    <2>3. Original(proc[p]) = <<name, n>>
      BY <1>2, <2>1, <2>2, PairFromTwo
    <2> QED BY <1>1, <2>3 DEF Long
  <1> QED BY <1>3, <1>4

\* The client's policy is settled on a target, and nothing is changed yet.
LEMMA DecideInv ==
  ASSUME Inv, NEW p \in Requests, Decide(p)
  PROVE  Inv'
  <1> DEFINE r == proc[p]
             to == Original(r)
             there == Named(place, to, r.i \in Dirs)
  <1>1. r.pc = "decide" /\ OnEntry(p) /\ Chosen(r)
    BY DEF Decide, OnEntry, Chosen
  <1>2. PICK e \in Entries : e = r.e
    BY <1>1, EntryOf
  <1>3. r \in Records /\ Formed(r) /\ r.kind = "restore" /\ r.from \in {<<e>>} \cup Below(e)
    BY <1>1, <1>2, EntryOf DEF Formed
  <1>4. UNCHANGED <<place, row>> /\ Good(place') /\ Keeps(place, place', Entries)
    BY StillKeeps DEF Decide, Inv
  <1>5. /\ r.from = <<e>> => to \in Short
        /\ r.from # <<e>> => to \in Long
    BY <1>1, <1>2, <1>3, OriginalIsAway
  <1>6. ASSUME NEW how \in {"plain", "overwriteDir", "overwriteFile"} \cup MergePolicies, NEW path,
               r.from = <<e>> => path \in Short, r.from # <<e>> => path \in Long,
               how \in MergePolicies => r.from = <<e>>,
               proc' = [proc EXCEPT ![p].pc = "claim", ![p].how = how, ![p].to = path]
        PROVE  Inv'
    <2> DEFINE s == [r EXCEPT !.pc = "claim", !.how = how, !.to = path]
    <2>1. path \in Paths
      BY <1>6 DEF Short, Long, Paths
    <2>2. /\ s \in Records /\ s.pc = "claim" /\ s.how = how /\ s.to = path /\ s.i = r.i
          /\ s.e = e /\ s.from = r.from /\ s.kind = "restore"
      BY <1>2, <1>3, <2>1 DEF Records, Owning
    <2>3. proc' = [proc EXCEPT ![p] = s]
      BY <1>6 DEF Inv, TypeOK
    <2>4. proc'[p] = s
      BY <2>3 DEF Inv, TypeOK
    <2> HIDE DEF s
    <2>5. StepOf(p)
      BY <2>2, <2>3 DEF Inv, TypeOK, StepOf
    <2>6. Formed(s)
      BY <1>1, <1>2, <1>3, <1>6, <2>2 DEF Formed, Chosen, Aims, Restoring, Creating
    <2>7. Chosen(s) /\ s.pc \notin Owning
      BY <2>2 DEF Chosen, Owning
    <2> QED BY <1>1, <1>2, <1>3, <1>4, <2>2, <2>4, <2>5, <2>6, <2>7, GoesOnQuietly
  <1>7. CASE Leave(p)
    BY <1>1, <1>4, <1>7, EndsQuietly
  <1>8. ASSUME NEW q \in FreeNames(place, to)
        PROVE  (r.from = <<e>> => q \in Short) /\ (r.from # <<e>> => q \in Long)
    BY <1>5, FreeNamesKeepTheLevel
  <1>9. r.i \in Dirs => r.from = <<e>>
    BY <1>1, <1>2, <1>3, ConstantsAssumption DEF Formed
  <1>10. \/ proc' = [proc EXCEPT ![p].pc = "claim", ![p].how = "plain", ![p].to = to]
         \/ Leave(p)
         \/ proc' = [proc EXCEPT ![p].pc = "claim", ![p].how = "overwriteDir", ![p].to = to]
         \/ proc' = [proc EXCEPT ![p].pc = "claim", ![p].how = "overwriteFile", ![p].to = to]
         \/ \E q \in FreeNames(place, to) :
              proc' = [proc EXCEPT ![p].pc = "claim", ![p].how = "plain", ![p].to = q]
         \/ /\ r.i \in Dirs
            /\ \E nested \in MergePolicies :
                 proc' = [proc EXCEPT ![p].pc = "claim", ![p].how = nested, ![p].to = to]
    BY DEF Decide
  <1> HIDE DEF r, to
  <1>11. {"plain", "overwriteDir", "overwriteFile"} \cap MergePolicies = {}
    BY DEF MergePolicies
  <1> QED BY <1>5, <1>6, <1>7, <1>8, <1>9, <1>10, <1>11

\* The compare-and-set.
LEMMA ClaimInv ==
  ASSUME Inv, NEW p \in Requests, Claim(p)
  PROVE  Inv'
  <1> DEFINE r == proc[p]
  <1>1. r.pc = "claim" /\ OnEntry(p) /\ Chosen(r)
    BY DEF Claim, OnEntry, Chosen
  <1>2. PICK e \in Entries : e = r.e
    BY <1>1, EntryOf
  <1>3. Formed(r) /\ r.kind \in {"restore", "delete", "empty"} /\ r.i \in Inodes
    BY <1>1, EntryOf DEF Formed
  <1>4. Good(place') /\ Keeps(place, place', Entries)
    BY StillKeeps DEF Claim, Inv
  <1>5. CASE r.kind = "restore" /\ Transition(e, "ready", "restoring", r.i)
             /\ Goto(p, IF r.how \in MergePolicies THEN "list" ELSE "parent")
    <2>1. PICK at \in {"list", "parent"} : /\ Goto(p, at)
                                           /\ at = "list" => r.how \in MergePolicies
      BY <1>5
    <2>2. /\ StepOf(p) /\ proc'[p].pc = at /\ proc'[p].e = e /\ proc'[p].i = r.i
          /\ proc'[p].from = r.from /\ proc'[p].to = r.to /\ proc'[p].kind = "restore"
      BY <1>2, <1>5, <2>1, GotoStep DEF Inv, Owning
    <2>3. Held(row[e]) => Held(row'[e])
      BY <1>3, <1>5, TransitionStep DEF Inv, Held, Live
    <2>4. Chosen(proc'[p])
      BY <2>2 DEF Chosen, Restoring
    <2>5. Formed(proc'[p])
      BY <1>1, <1>2, <1>3, <1>5, <2>1, <2>2 DEF Formed, Chosen, Aims, Restoring, Creating
    <2>6. Continues(e)
      BY <1>3, <1>5, TransitionStep DEF Inv
    <2>7. Acts(p, e)
      <3>1. row[e].state = "ready"
        BY <1>5 DEF Transition
      <3>2. row'[e].state = "restoring"
        BY <1>3, <1>5, TransitionStep DEF Inv
      <3> QED BY <2>1, <2>2, <3>1, <3>2 DEF Acts, By
    <2> QED BY <1>1, <1>2, <1>4, <2>2, <2>3, <2>4, <2>5, <2>6, <2>7, GoesOn
  <1>6. CASE r.kind # "restore" /\ Transition(e, "ready", "deleting", r.i) /\ Goto(p, "purge")
    <2>2. /\ StepOf(p) /\ proc'[p].pc = "purge" /\ proc'[p].e = e /\ proc'[p].i = r.i
          /\ proc'[p].from = r.from /\ proc'[p].to = r.to /\ proc'[p].kind = r.kind
      BY <1>2, <1>6, GotoStep DEF Inv, Owning
    <2>3. Held(row[e]) => Held(row'[e])
      BY <1>3, <1>6, TransitionStep DEF Inv, Held, Live
    <2>4. Chosen(proc'[p])
      BY <2>2 DEF Chosen, Restoring
    <2>5. Formed(proc'[p])
      BY <1>1, <1>2, <1>3, <1>6, <2>2 DEF Formed, Chosen, Aims, Restoring, Creating
    <2>6. Continues(e)
      BY <1>3, <1>6, TransitionStep DEF Inv
    <2>7. Acts(p, e)
      <3>1. row[e].state = "ready"
        BY <1>6 DEF Transition
      <3>2. row'[e].state = "deleting" /\ row'[e].op = r.i
        BY <1>3, <1>6, TransitionStep DEF Inv
      <3>3. By(r.kind) = "deleting"
        BY <1>3, <1>6 DEF By
      <3> QED BY <2>2, <3>1, <3>2, <3>3 DEF Acts
    <2> QED BY <1>1, <1>2, <1>4, <2>2, <2>3, <2>4, <2>5, <2>6, <2>7, GoesOn
  <1>7. CASE Leave(p) /\ UNCHANGED row
    BY <1>1, <1>4, <1>7, EndsQuietly
  <1> QED BY <1>2, <1>5, <1>6, <1>7 DEF Claim

\* A request that restores moves on without a change of the rows.
LEMMA RestoresOn ==
  ASSUME Inv, NEW p \in Requests, Chosen(proc[p]), proc[p].kind = "restore",
         Aims(proc[p]), proc[p].pc \in Restoring, UNCHANGED row, Good(place'), Keeps(place, place', Entries),
         NEW at \in {"clear", "move", "finish"}, Goto(p, at)
  PROVE  Inv'
  <1> DEFINE r == proc[p]
  <1>1. /\ StepOf(p) /\ proc'[p].pc = at /\ proc'[p].e = r.e /\ proc'[p].i = r.i
        /\ proc'[p].from = r.from /\ proc'[p].to = r.to /\ proc'[p].kind = "restore"
    BY GotoStep DEF Inv, Owning
  <1>2. OnEntry(p)
    BY DEF OnEntry, Chosen, Restoring
  <1>3. Formed(r)
    BY <1>2, EntryOf
  <1>4. Chosen(proc'[p]) /\ Formed(proc'[p])
    BY <1>1, <1>2, <1>3 DEF Formed, Chosen, Aims, Restoring, Creating, OnEntry
  <1>5. proc[p].pc \in Owning
    BY DEF Restoring, Owning
  <1> QED BY <1>1, <1>4, <1>5, GoesOnQuietly

\* A restoration that gives up puts the entry back.
LEMMA GiveUpInv ==
  ASSUME Inv, NEW p \in Requests, OnEntry(p), proc[p].pc \in Owning, GiveUp(p),
         Good(place'), Keeps(place, place', Entries)
  PROVE  Inv'
  <1>1. proc[p].e \in Entries
    BY EntryOf
  <1>2. Continues(proc[p].e) /\ (Held(row[proc[p].e]) => Held(row'[proc[p].e]))
    BY <1>1, MarkReadyStep DEF GiveUp, Inv
  <1> QED BY <1>2, Ends DEF GiveUp

\* A restoration has a target.
LEMMA RestoringAims ==
  ASSUME Inv, NEW p \in Requests, proc[p].pc \in Restoring
  PROVE  /\ Chosen(proc[p]) /\ OnEntry(p) /\ Aims(proc[p]) /\ proc[p].kind = "restore"
         /\ proc[p].to \in Short \cup Long /\ Formed(proc[p]) /\ proc[p].pc \in Owning
  <1>1. Chosen(proc[p]) /\ OnEntry(p) /\ proc[p].pc \in Owning
    BY DEF Chosen, OnEntry, Restoring, Owning
  <1>2. Formed(proc[p])
    BY <1>1, EntryOf
  <1>3. proc[p].kind = "restore" /\ Aims(proc[p])
    BY <1>2 DEF Formed, Aims
  <1> QED BY <1>1, <1>2, <1>3 DEF Formed

LEMMA EnsureParentInv ==
  ASSUME Inv, NEW p \in Requests, EnsureParent(p)
  PROVE  Inv'
  <1> DEFINE r == proc[p]
             top == <<Head(r.to)>>
  <1>1. /\ Chosen(r) /\ OnEntry(p) /\ Aims(r) /\ r.kind = "restore"
        /\ r.to \in Short \cup Long /\ r.pc \in Restoring /\ r.pc \in Owning
    BY RestoringAims DEF EnsureParent, Restoring
  <1>2. Good(place) /\ TypeOK
    BY DEF Inv
  <1>3. CASE Goto(p, "clear") /\ UNCHANGED <<place, row>>
    BY <1>1, <1>2, <1>3, StillKeeps, RestoresOn
  <1>4. CASE /\ Resolve(place, top) = {}
             /\ \E d \in Dirs : place[d] = Unborn /\ place' = [place EXCEPT ![d] = <<Top, top[1]>>]
             /\ Goto(p, "clear") /\ UNCHANGED row
    <2>1. PICK n \in Names : top = <<n>>
      BY <1>1 DEF Short, Long
    <2>2. Good(place') /\ Keeps(place, place', Entries)
      BY <1>2, <1>4, <2>1, ParentKeeps
    <2> QED BY <1>1, <1>4, <2>2, RestoresOn
  <1>5. CASE GiveUp(p) /\ UNCHANGED place
    BY <1>1, <1>2, <1>5, StillKeeps, GiveUpInv
  <1> QED BY <1>3, <1>4, <1>5 DEF EnsureParent

LEMMA ClearTargetInv ==
  ASSUME Inv, NEW p \in Requests, ClearTarget(p)
  PROVE  Inv'
  <1> DEFINE r == proc[p]
             victims == Named(place, r.to, r.how = "overwriteDir")
  <1>1. Chosen(r) /\ OnEntry(p) /\ Aims(r) /\ r.kind = "restore" /\ r.pc \in Restoring
    BY RestoringAims DEF ClearTarget, Restoring
  <1>2. Good(place) /\ UNCHANGED row
    BY DEF Inv, ClearTarget
  <1>3. CASE Purge(p, victims, Goto(p, "move"))
    <2>1. Good(place') /\ Keeps(place, place', Entries)
      BY <1>2, <1>3, PurgeKeeps
    <2>2. Goto(p, "move") \/ Leave(p)
      BY <1>3 DEF Purge
    <2> QED BY <1>1, <1>2, <2>1, <2>2, RestoresOn, EndsQuietly
  <1>4. CASE Goto(p, "move") /\ UNCHANGED place
    BY <1>1, <1>2, <1>4, StillKeeps, RestoresOn
  <1> QED BY <1>3, <1>4 DEF ClearTarget

\* The inode leaves the slot, or the directory in the slot, for the target.
LEMMA MoveOutInv ==
  ASSUME Inv, NEW p \in Requests, MoveOut(p)
  PROVE  Inv'
  <1> DEFINE r == proc[p]
             S == Named(place, r.from, r.i \in Dirs)
  <1>1. /\ Chosen(r) /\ OnEntry(p) /\ Aims(r) /\ r.kind = "restore"
        /\ r.to \in Short \cup Long /\ Formed(r) /\ r.pc = "move"
        /\ r.pc \in Restoring /\ r.pc \in Owning
    BY RestoringAims DEF MoveOut, Restoring
  <1>2. Good(place) /\ TypeOK
    BY DEF Inv
  <1>3. CASE MoveTo(S, r.to) /\ ((Goto(p, "finish") /\ UNCHANGED row) \/ GiveUp(p))
    <2>1. PICK e \in Entries : e = r.e
      BY <1>1, EntryOf
    <2>2. PICK n : r.from \in {<<e>>, <<e, n>>}
      BY <1>1, <2>1 DEF Formed, Below
    <2>3. S \subseteq Inodes /\ \A x, y \in S : x = y
      BY <1>2, <2>2, ResolvesToOne DEF Named, Good
    <2>4. r.to \in Long => S \subseteq Files
      <3>1. r.to \in Long => r.from # <<e>>
        <4>1. Short \cap Long = {}
          <5>1. \A x \in Short : Len(x) = 1
            BY DEF Short
          <5>2. \A x \in Long : Len(x) = 2
            BY DEF Long
          <5> QED BY <5>1, <5>2
        <4> QED BY <1>1, <2>1, <4>1 DEF Formed
      <3>2. ASSUME r.from = <<e, n>>, NEW x \in S
            PROVE  x \in Files
        <4>1. PICK d \in Dirs : place[x] = <<d, n>> /\ x \in Inodes
          BY <3>2, NamedLong
        <4>2. d # Top
          BY ConstantsAssumption DEF Inodes
        <4> QED BY <1>2, <4>1, <4>2, PairIsAPlace DEF Good, Flat, Inodes
      <3> QED BY <2>2, <3>1, <3>2
    <2>5. Good(place') /\ Keeps(place, place', Entries)
      BY <1>1, <1>2, <1>3, <2>3, <2>4, RenameVisible
    <2> QED BY <1>1, <1>3, <2>5, RestoresOn, GiveUpInv
  <1>4. CASE GiveUp(p) /\ UNCHANGED place
    BY <1>1, <1>2, <1>4, StillKeeps, GiveUpInv
  <1> QED BY <1>3, <1>4 DEF MoveOut

\* A request that merges a directory moves on without a change of the rows.
LEMMA MergesOn ==
  ASSUME Inv, NEW p \in Requests, proc[p].pc \in {"list", "merge", "mergeMove"},
         UNCHANGED row, Good(place'), Keeps(place, place', Entries), StepOf(p),
         proc'[p].pc \in {"merge", "mergeMove", "finish"}, proc'[p].kind = proc[p].kind,
         proc'[p].e = proc[p].e, proc'[p].i = proc[p].i, proc'[p].from = proc[p].from,
         proc'[p].to = proc[p].to,
         proc'[p].pc = "mergeMove" => proc'[p].child \in Names /\ proc'[p].as \in Long
  PROVE  Inv'
  <1>1. /\ Chosen(proc[p]) /\ OnEntry(p) /\ Aims(proc[p]) /\ proc[p].kind = "restore"
        /\ Formed(proc[p]) /\ proc[p].from = <<proc[p].e>>
    BY RestoringAims DEF Restoring, Formed
  <1>2. Chosen(proc'[p])
    BY DEF Chosen, Restoring
  <1>3. Formed(proc'[p])
    BY <1>1 DEF Formed, Chosen, Aims, Restoring, Creating, OnEntry
  <1>4. proc[p].pc \in Owning
    BY DEF Owning
  <1> QED BY <1>1, <1>2, <1>3, <1>4, GoesOnQuietly

\* The target of a merge is a visible directory, and what is in it has a
\* pathname of two components.
LEMMA MergeTarget ==
  ASSUME Inv, NEW p \in Requests, proc[p].pc \in {"list", "merge", "mergeMove"}, NEW n \in Names
  PROVE  Append(proc[p].to, n) \in Long /\ Append(proc[p].from, n) = <<proc[p].e, n>>
  <1>1. Formed(proc[p]) /\ Aims(proc[p]) /\ proc[p].from = <<proc[p].e>>
    BY RestoringAims DEF Restoring, Formed
  <1>2. PICK k \in Names : proc[p].to = <<k>>
    BY <1>1 DEF Formed, Short
  <1>3. Append(<<k>>, n) = <<k, n>> /\ Append(<<proc[p].e>>, n) = <<proc[p].e, n>>
    BY PairByAppend
  <1> QED BY <1>1, <1>2, <1>3 DEF Long

LEMMA ListChildrenInv ==
  ASSUME Inv, NEW p \in Requests, ListChildren(p)
  PROVE  Inv'
  <1> DEFINE r == proc[p]
             names == {n \in Names : Resolve(place, Append(r.from, n)) # {}}
             s == [r EXCEPT !.pc = "merge", !.rest = names]
  <1>1. r \in Records /\ OnEntry(p) /\ r.pc = "list"
    BY DEF ListChildren, Inv, TypeOK, OnEntry
  <1>2. UNCHANGED row /\ Good(place') /\ Keeps(place, place', Entries)
    BY StillKeeps DEF ListChildren, Inv
  <1>3. CASE proc' = [proc EXCEPT ![p].pc = "merge", ![p].rest = names]
    <2>1. /\ s \in Records /\ s.pc = "merge" /\ s.e = r.e /\ s.i = r.i /\ s.from = r.from
          /\ s.to = r.to /\ s.kind = r.kind
      BY <1>1 DEF Records, Owning
    <2>2. proc' = [proc EXCEPT ![p] = s]
      BY <1>3 DEF Inv, TypeOK
    <2>3. proc'[p] = s
      BY <2>2 DEF Inv, TypeOK
    <2> HIDE DEF s
    <2>4. StepOf(p)
      BY <2>1, <2>2 DEF Inv, TypeOK, StepOf
    <2> QED BY <1>1, <1>2, <2>1, <2>3, <2>4, MergesOn
  <1>4. CASE Leave(p)
    BY <1>1, <1>2, <1>4, EndsQuietly
  <1> QED BY <1>3, <1>4 DEF ListChildren

LEMMA MergeChildInv ==
  ASSUME Inv, NEW p \in Requests, MergeChild(p)
  PROVE  Inv'
  <1> DEFINE r == proc[p]
             moveTo(n, q) == proc' = [proc EXCEPT ![p].pc = "mergeMove", ![p].rest = @ \ {n},
                                                  ![p].child = n, ![p].as = q]
  <1>1. r \in Records /\ OnEntry(p) /\ r.pc = "merge" /\ UNCHANGED row /\ Good(place)
    BY DEF MergeChild, Inv, TypeOK, OnEntry
  <1>2. PICK n \in r.rest :
          LET to == Append(r.to, n)
              there == Resolve(place, to) IN
          \/ moveTo(n, to) /\ UNCHANGED place
          \/ proc' = [proc EXCEPT ![p].rest = @ \ {n}] /\ UNCHANGED place
          \/ Purge(p, there, moveTo(n, to))
          \/ (\E q \in FreeNames(place, to) : moveTo(n, q)) /\ UNCHANGED place
          \/ Leave(p) /\ UNCHANGED place
    BY DEF MergeChild
  <1> DEFINE to == Append(r.to, n)
             there == Resolve(place, to)
  <1>3. n \in Names
    BY <1>1 DEF Records
  <1>4. to \in Long
    BY <1>1, <1>3, MergeTarget
  <1>5. ASSUME NEW q \in Long, moveTo(n, q), Good(place'), Keeps(place, place', Entries)
        PROVE  Inv'
    <2> DEFINE s == [r EXCEPT !.pc = "mergeMove", !.rest = r.rest \ {n}, !.child = n, !.as = q]
    <2>1. q \in Paths
      BY <1>5 DEF Long, Paths
    <2>2. /\ s \in Records /\ s.pc = "mergeMove" /\ s.e = r.e /\ s.i = r.i /\ s.from = r.from
          /\ s.to = r.to /\ s.kind = r.kind /\ s.child = n /\ s.as = q
      BY <1>1, <1>3, <2>1 DEF Records, Owning
    <2>3. proc' = [proc EXCEPT ![p] = s]
      BY <1>5 DEF Inv, TypeOK
    <2>4. proc'[p] = s
      BY <2>3 DEF Inv, TypeOK
    <2> HIDE DEF s
    <2>5. StepOf(p)
      BY <2>2, <2>3 DEF Inv, TypeOK, StepOf
    <2> QED BY <1>1, <1>3, <1>5, <2>2, <2>4, <2>5, MergesOn
  <1>6. CASE proc' = [proc EXCEPT ![p].rest = @ \ {n}] /\ UNCHANGED place
    <2> DEFINE s == [r EXCEPT !.rest = r.rest \ {n}]
    <2>1. /\ s \in Records /\ s.pc = "merge" /\ s.e = r.e /\ s.i = r.i /\ s.from = r.from
          /\ s.to = r.to /\ s.kind = r.kind
      BY <1>1 DEF Records, Owning
    <2>2. proc' = [proc EXCEPT ![p] = s]
      BY <1>6 DEF Inv, TypeOK
    <2>3. proc'[p] = s
      BY <2>2 DEF Inv, TypeOK
    <2> HIDE DEF s
    <2>4. StepOf(p)
      BY <2>1, <2>2 DEF Inv, TypeOK, StepOf
    <2> QED BY <1>1, <1>6, <2>1, <2>3, <2>4, StillKeeps, MergesOn
  <1>7. CASE Leave(p) /\ UNCHANGED place
    BY <1>1, <1>7, StillKeeps, EndsQuietly
  <1>8. CASE Purge(p, there, moveTo(n, to))
    <2>1. Good(place') /\ Keeps(place, place', Entries)
      BY <1>1, <1>8, PurgeKeeps
    <2>2. moveTo(n, to) \/ Leave(p)
      BY <1>8 DEF Purge
    <2> QED BY <1>1, <1>4, <1>5, <2>1, <2>2, EndsQuietly
  <1>9. CASE (\E q \in FreeNames(place, to) : moveTo(n, q)) /\ UNCHANGED place
    <2>1. PICK q \in FreeNames(place, to) : moveTo(n, q)
      BY <1>9
    <2>2. q \in Long
      BY <1>4, FreeNamesKeepTheLevel
    <2> QED BY <1>1, <1>5, <1>9, <2>1, <2>2, StillKeeps
  <1>10. CASE moveTo(n, to) /\ UNCHANGED place
    BY <1>1, <1>4, <1>5, <1>10, StillKeeps
  <1> QED BY <1>2, <1>6, <1>7, <1>8, <1>9, <1>10

LEMMA MergeMoveInv ==
  ASSUME Inv, NEW p \in Requests, MergeMove(p)
  PROVE  Inv'
  <1> DEFINE r == proc[p]
             from == Append(r.from, r.child)
             s == [r EXCEPT !.pc = "merge", !.child = None, !.as = <<>>]
  <1>1. /\ r \in Records /\ OnEntry(p) /\ r.pc = "mergeMove" /\ UNCHANGED row /\ Good(place)
        /\ r.child \in Names /\ r.as \in Long
    BY EntryOf DEF MergeMove, Inv, TypeOK, OnEntry, Formed
  <1>2. ASSUME MoveTo(Resolve(place, from), r.as)
        PROVE  Good(place') /\ Keeps(place, place', Entries)
    <2>5. from = <<r.e, r.child>>
      BY <1>1, MergeTarget
    <2>6. Resolve(place, from) \subseteq Inodes /\ \A x, y \in Resolve(place, from) : x = y
      <3> DEFINE path == <<r.e, r.child>>
      <3>1. Apart(place) /\ path \in {<<r.e>>, path}
        BY <1>1 DEF Good
      <3>2. Resolve(place, path) \subseteq Inodes /\ \A x, y \in Resolve(place, path) : x = y
        BY <3>1, ResolvesToOne
      <3> QED BY <2>5, <3>2
    <2>7. ASSUME NEW x \in Resolve(place, from) PROVE x \in Files
      <3>1. x \in Resolve(place, <<r.e, r.child>>)
        BY <2>5, <2>7
      <3>2. PICK d \in Dirs : place[x] = <<d, r.child>> /\ x \in Inodes
        BY <3>1, ResolvesLong
      <3>3. d # Top
        BY ConstantsAssumption DEF Inodes
      <3> QED BY <1>1, <3>2, <3>3, PairIsAPlace DEF Good, Flat, Inodes
    <2> QED BY <1>1, <1>2, <2>6, <2>7, RenameVisible
  <1>3. CASE /\ MoveTo(Resolve(place, from), r.as)
             /\ proc' = [proc EXCEPT ![p].pc = "merge", ![p].child = None, ![p].as = <<>>]
    <2>1. /\ s \in Records /\ s.pc = "merge" /\ s.e = r.e /\ s.i = r.i /\ s.from = r.from
          /\ s.to = r.to /\ s.kind = r.kind
      <3>1. <<>> \in Paths
        BY DEF Paths
      <3> QED BY <1>1, <3>1 DEF Records, Owning
    <2>2. proc' = [proc EXCEPT ![p] = s]
      BY <1>3 DEF Inv, TypeOK
    <2>3. proc'[p] = s
      BY <2>2 DEF Inv, TypeOK
    <2> HIDE DEF s
    <2>4. StepOf(p)
      BY <2>1, <2>2 DEF Inv, TypeOK, StepOf
    <2> QED BY <1>1, <1>2, <1>3, <2>1, <2>3, <2>4, MergesOn
  <1>4. CASE MoveTo(Resolve(place, from), r.as) /\ Leave(p)
    BY <1>1, <1>2, <1>4, EndsQuietly
  <1>5. CASE Leave(p) /\ UNCHANGED place
    BY <1>1, <1>5, StillKeeps, EndsQuietly
  <1> QED BY <1>3, <1>4, <1>5 DEF MergeMove

LEMMA MergeEndInv ==
  ASSUME Inv, NEW p \in Requests, MergeEnd(p)
  PROVE  Inv'
  <1>1. proc[p].pc = "merge" /\ Goto(p, "finish") /\ UNCHANGED row /\ Good(place)
    BY DEF MergeEnd, Inv
  <1>2. Good(place') /\ Keeps(place, place', Entries)
    BY <1>1, StillKeeps, RemoveKeeps DEF MergeEnd
  <1> QED BY <1>1, <1>2, RestoringAims, RestoresOn DEF Restoring

\* A permanent deletion of the whole entry leaves its slot empty.
LEMMA PurgePayloadInv ==
  ASSUME Inv, NEW p \in Requests, PurgePayload(p)
  PROVE  Inv'
  <1> DEFINE r == proc[p]
             victims == Named(place, r.from, r.i \in Dirs)
             at == IF r.kind = "empty" THEN "remove" ELSE "finish"
  <1>1. r.pc = "purge" /\ Chosen(r) /\ OnEntry(p) /\ UNCHANGED row /\ Good(place)
    BY DEF PurgePayload, Inv, Chosen, OnEntry
  <1>2. PICK e \in Entries : e = r.e
    BY <1>1, EntryOf
  <1>3. Formed(r) /\ Knows(r) /\ r.kind \in {"delete", "empty"}
    BY <1>1, EntryOf DEF Formed
  <1>4. Good(place') /\ Keeps(place, place', Entries)
    BY <1>1, PurgeKeeps DEF PurgePayload
  <1>5. CASE Leave(p)
    BY <1>1, <1>4, <1>5, EndsQuietly
  <1>6. CASE place' = Remove(place, UNION {Tree(place, i) : i \in victims}) /\ Goto(p, at)
    <2>1. /\ StepOf(p) /\ proc'[p].pc = at /\ proc'[p].e = e /\ proc'[p].i = r.i
          /\ proc'[p].from = r.from /\ proc'[p].to = r.to /\ proc'[p].kind = r.kind
      BY <1>2, <1>6, GotoStep DEF Inv, Owning
    <2>2. Chosen(proc'[p])
      BY <2>1 DEF Chosen
    <2>3. Formed(proc'[p])
      BY <1>1, <1>2, <1>3, <2>1 DEF Formed, Chosen, Aims, Restoring, Creating
    <2>4. ASSUME r.kind = "empty", InSlot(place, e)'
          PROVE  FALSE
      <3>1. r.from = <<e>> /\ r.i = row[e].root
        BY <1>1, <1>2, <1>3, <2>4 DEF Formed, Knows
      <3>2. row[e].root \in Inodes /\ place'[row[e].root] = <<Top, e>>
        BY <1>1, <2>4 DEF InSlot
      <3>3. place[row[e].root] = <<Top, e>>
        BY <1>4, <3>2 DEF Keeps
      <3>4. row[e].root \in Named(place, <<e>>, row[e].root \in Dirs)
        BY <3>2, <3>3, ShortPath DEF Named, At
      <3>5. row[e].root \in victims
        BY <3>1, <3>4
      <3>6. row[e].root \in UNION {Tree(place, i) : i \in victims}
        BY <3>5 DEF Tree
      <3>7. place'[row[e].root] = Gone
        BY <1>6, <3>2, <3>6 DEF Remove
      <3> QED BY <3>2, <3>7, PairIsAPlace
    <2>5. Continues(e) /\ Acts(p, e)
      BY <1>1, <1>2, <2>1, SameRow DEF Inv, Acts, Owning
    <2> QED BY <1>1, <1>2, <1>4, <2>1, <2>2, <2>3, <2>4, <2>5, GoesOn
  <1> QED BY <1>5, <1>6 DEF PurgePayload, Purge

\* The entry goes when its payload left, and is listed again otherwise.
LEMMA FinishInv ==
  ASSUME Inv, NEW p \in Requests, Finish(p)
  PROVE  Inv'
  <1>1. /\ proc[p].pc = "finish" /\ OnEntry(p) /\ Good(place) /\ TypeOK /\ Filled
        /\ proc[p].pc \in Owning
    BY DEF Finish, OnEntry, Inv, Owning
  <1>2. PICK e \in Entries : e = proc[p].e
    BY <1>1, EntryOf
  <1>3. CASE ~InSlot(place, e) /\ DeleteRow(e) /\ Leave(p) /\ UNCHANGED place
    BY <1>1, <1>2, <1>3, DeleteStep, StillKeeps, Ends DEF DeleteRow
  <1>4. CASE place' = Remove(place, {row[e].root}) /\ UNCHANGED <<row, proc>>
    <2>1. Good(place') /\ Keeps(place, place', Entries)
      BY <1>1, <1>4, RemoveKeeps
    <2>2. Continues(e)
      BY <1>1, <1>4, SameRow
    <2> QED BY <1>4, <2>1, <2>2, Around
  <1>5. CASE /\ MarkReady(e, IF proc[p].kind = "restore" THEN "restoring" ELSE "deleting")
             /\ Leave(p) /\ UNCHANGED place
    <2>1. Continues(e) /\ (Held(row[e]) => Held(row'[e]))
      BY <1>1, <1>5, MarkReadyStep
    <2> QED BY <1>1, <1>2, <1>5, <2>1, StillKeeps, Ends
  <1>6. CASE Leave(p) /\ UNCHANGED <<place, row>>
    BY <1>1, <1>6, StillKeeps, EndsQuietly
  <1> QED BY <1>2, <1>3, <1>4, <1>5, <1>6 DEF Finish

-----------------------------------------------------------------------------
(* Requests that begin, and the creation of an entry.                      *)

LEMMA StartCreateInv ==
  ASSUME Inv, NEW p \in Requests, StartCreate(p)
  PROVE  Inv'
  <1>1. PICK i \in Inodes, n \in Names :
          proc' = [proc EXCEPT ![p] = [Idle EXCEPT !.pc = "create", !.kind = "create",
                                                   !.i = i, !.from = <<n>>]]
    BY DEF StartCreate
  <1> DEFINE s == [Idle EXCEPT !.pc = "create", !.kind = "create", !.i = i, !.from = <<n>>]
  <1>2. <<n>> \in Paths
    BY DEF Paths
  <1>3. s \in Records /\ s.pc = "create" /\ s.i = i /\ s.from = <<n>> /\ s.kind = "create"
    BY <1>2, IdleIsARecord DEF Records, Idle
  <1>4. proc' = [proc EXCEPT ![p] = s] /\ proc'[p] = s
    BY <1>1 DEF Inv, TypeOK
  <1> HIDE DEF s
  <1>5. StepOf(p)
    BY <1>3, <1>4 DEF Inv, TypeOK, StepOf
  <1>6. Formed(proc'[p]) /\ Knows(proc[p])' /\ proc'[p].pc \notin Owning /\ ~OnEntry(p)'
    BY <1>3, <1>4 DEF Owning, Formed, Knows, Chosen, Aims, Restoring, Creating, Short, OnEntry
  <1>7. ~OnEntry(p) /\ UNCHANGED <<place, row>>
    BY DEF OnEntry, StartCreate
  <1> QED BY <1>5, <1>6, <1>7, Begins

LEMMA StartOnEntryInv ==
  ASSUME Inv, NEW p \in Requests, StartOnEntry(p)
  PROVE  Inv'
  <1>1. PICK e \in Entries, kind \in {"list", "restore", "delete", "empty"} :
          /\ Listed(e)
          /\ \E path \in IF kind \in {"list", "empty"} THEN {<<e>>}
                         ELSE {<<e>>} \cup {<<e, n>> : n \in Names} :
               proc' = [proc EXCEPT ![p] = [Idle EXCEPT !.pc = "lookup", !.kind = kind,
                                                        !.e = e, !.from = path]]
    BY DEF StartOnEntry
  <1>2. PICK path \in {<<e>>} \cup Below(e) :
          /\ kind \in {"list", "empty"} => path = <<e>>
          /\ proc' = [proc EXCEPT ![p] = [Idle EXCEPT !.pc = "lookup", !.kind = kind,
                                                      !.e = e, !.from = path]]
    BY <1>1 DEF Below
  <1> DEFINE s == [Idle EXCEPT !.pc = "lookup", !.kind = kind, !.e = e, !.from = path]
  <1>3. path \in Paths
    BY DEF Paths, Below
  <1>4. s \in Records /\ s.pc = "lookup" /\ s.e = e /\ s.from = path /\ s.kind = kind
    BY <1>3, IdleIsARecord DEF Records, Idle
  <1>5. proc' = [proc EXCEPT ![p] = s] /\ proc'[p] = s
    BY <1>2 DEF Inv, TypeOK
  <1> HIDE DEF s
  <1>6. StepOf(p)
    BY <1>4, <1>5 DEF Inv, TypeOK, StepOf
  <1>7. row[e].state = "ready"
    BY <1>1 DEF Listed
  <1>8. ~OnEntry(p) /\ UNCHANGED <<place, row>>
    BY DEF OnEntry, StartOnEntry
  <1>9. Formed(proc'[p]) /\ proc'[p].pc \notin Owning /\ row[proc'[p].e].state = "ready"
    BY <1>2, <1>4, <1>5, <1>7 DEF Owning, Formed, Chosen, Aims, Restoring, Creating
  <1>10. Knows(proc[p])'
    BY <1>4, <1>5, <1>7, <1>8 DEF Knows, Chosen, Restoring, Creating
  <1> QED BY <1>6, <1>8, <1>9, <1>10, Begins

\* The row is inserted: its slot is empty and nobody has heard of it.
LEMMA CreateRowInv ==
  ASSUME Inv, NEW p \in Requests, CreateRow(p)
  PROVE  Inv'
  <1> DEFINE r == proc[p]
  <1>1. /\ r.pc = "create" /\ ~OnEntry(p) /\ UNCHANGED place /\ Good(place) /\ TypeOK
        /\ Formed(r) /\ r \in Records
    BY DEF CreateRow, OnEntry, Inv, Ready, TypeOK
  <1>2. r.kind = "create" /\ r.i \in Inodes /\ r.from \in Short
    BY <1>1 DEF Formed
  <1>3. CASE Leave(p) /\ UNCHANGED row
    <2>1. StepOf(p) /\ proc'[p].pc = "idle"
      BY <1>1, <1>3, LeaveStep
    <2>2. Formed(proc'[p]) /\ Knows(proc[p])' /\ ~OnEntry(p)' /\ proc'[p].pc \notin Owning
      BY <2>1 DEF Owning, Formed, Knows, Chosen, Aims, Restoring, Creating, OnEntry
    <2> QED BY <1>1, <1>3, <2>1, <2>2, Begins
  <1>4. ASSUME NEW e \in Entries, row[e].state = "unused",
               \A f \in Entries : Live(row[f]) => row[f].root # r.i,
               row' = [row EXCEPT ![e] = [state |-> "pending", root |-> r.i,
                                          name |-> r.from[1], op |-> None]],
               proc' = [proc EXCEPT ![p].pc = "stow", ![p].e = e, ![p].to = <<e>>]
        PROVE  Inv'
    <2> DEFINE s == [r EXCEPT !.pc = "stow", !.e = e, !.to = <<e>>]
               new == [state |-> "pending", root |-> r.i, name |-> r.from[1], op |-> None]
    <2>1. <<e>> \in Paths
      BY DEF Paths
    <2>2. /\ s \in Records /\ s.pc = "stow" /\ s.e = e /\ s.to = <<e>> /\ s.i = r.i
          /\ s.from = r.from /\ s.kind = r.kind
      BY <1>1, <2>1 DEF Records, Owning
    <2>3. proc' = [proc EXCEPT ![p] = s]
      BY <1>1, <1>4 DEF TypeOK
    <2>4. proc'[p] = s
      BY <1>1, <2>3 DEF TypeOK
    <2> HIDE DEF s
    <2>5. StepOf(p)
      BY <1>1, <2>2, <2>3 DEF TypeOK, StepOf
    <2>6. r.from[1] \in Names
      BY <1>2 DEF Short
    <2>7. /\ new \in Rows /\ new.state = "pending" /\ new.root = r.i /\ new.name \in Names
          /\ new.op = None
      BY <1>2, <2>6 DEF Rows, RowStates
    <2>8. row'[e] = new /\ \A f \in Entries \ {e} : row'[f] = row[f]
      BY <1>1, <1>4 DEF TypeOK
    <2>9. row' \in [Entries -> Rows]
      BY <1>1, <1>4, <2>7 DEF TypeOK
    <2> HIDE DEF new
    <2>10. TypeOK'
      <3>1. \A f, g \in Entries : f # g /\ Live(row'[f]) /\ Live(row'[g]) => row'[f].root # row'[g].root
        BY <1>1, <1>4, <2>7, <2>8 DEF TypeOK
      <3> QED BY <1>1, <2>5, <2>9, <3>1 DEF TypeOK, StepOf, Apart
    <2>11. Good(place)' /\ Keeps(place, place', Entries)
      BY <1>1, StillKeeps
    <2>12. Filled'
      BY <1>1, <1>2, <2>7, <2>8 DEF Inv, Filled
    <2>13. OwnPayloadHasRow'
      BY <1>1, <1>4, <2>7, <2>8 DEF Inv, OwnPayloadHasRow, InSlot, Live
    <2>14. ASSUME NEW q \in Requests, q # p, OnEntry(q)
           PROVE  proc[q].e # e /\ proc'[q] = proc[q] /\ proc[q].e \in Entries
      BY <1>4, <2>5, <2>14, EntryOf DEF StepOf
    <2>15. ASSUME NEW q \in Requests PROVE Ready(q)'
      <3>1. CASE q = p
        <4>1. Formed(proc'[p])
          BY <1>1, <1>2, <2>2, <2>4, <3>1 DEF Formed, Chosen, Aims, Restoring, Creating
        <4>2. Knows(proc[p])'
          BY <1>1, <1>4, <2>2, <2>4, <2>7, <2>8, <3>1
             DEF Knows, Chosen, Restoring, Creating, Inv, Filled
        <4>3. Alone(p)'
          BY <2>2, <2>4, <2>5, <2>14 DEF Alone, OnEntry, StepOf
        <4> QED BY <3>1, <4>1, <4>2, <4>3 DEF Ready
      <3>2. CASE q # p
        <4>1. proc'[q] = proc[q] /\ Ready(q)
          BY <2>5, <3>2 DEF StepOf, Inv
        <4>2. Knows(proc[q])'
          <5>1. /\ OnEntry(q) => proc[q].e \in Entries \ {e}
                /\ proc[q].pc \in Creating => row'[proc[q].e].state = "pending"
            BY <2>8, <2>14, <3>2, <4>1 DEF Ready, Knows, OnEntry, Creating
          <5> QED BY <2>8, <2>11, <4>1, <5>1, KnowsFrame DEF Ready
        <4>3. Alone(q)'
          <5>1. OnEntry(q) => proc[q].e # e
            BY <2>14, <3>2
          <5> QED BY <2>2, <2>4, <2>5, <3>2, <4>1, <5>1 DEF Ready, Alone, StepOf, OnEntry, Creating
        <4> QED BY <4>1, <4>2, <4>3 DEF Ready
      <3> QED BY <3>1, <3>2
    <2>16. OneMutator'
      <3> SUFFICES ASSUME Outlasting = {}, NEW q \in Requests, proc'[q].pc \in Owning
                   PROVE  Sole(q)'
        BY DEF OneMutator, Sole
      <3>1. \A t \in Requests \ {p} : proc'[t].pc \in Owning => proc'[t].e # e /\ proc'[t] = proc[t]
        BY <2>5, <2>14 DEF OnEntry, Owning, StepOf
      <3>2. CASE q = p
        BY <2>2, <2>4, <2>7, <2>8, <3>1, <3>2, <1>2 DEF Sole, Owns, By
      <3>3. CASE q # p
        <4>1. proc'[q] = proc[q] /\ proc[q].e \in Entries \ {e} /\ Sole(q)
          BY <2>5, <2>14, <3>3 DEF Inv, OneMutator, StepOf, OnEntry, Owning
        <4>2. row'[proc[q].e] = row[proc[q].e]
          BY <2>8, <4>1
        <4>3. \A t \in Requests \ {q} : ~Owns(t, proc[q].e)'
          <5>1. ~Owns(p, proc[q].e)'
            BY <2>2, <2>4, <4>1 DEF Owns
          <5> QED BY <2>5, <4>1, <5>1 DEF Sole, Owns, StepOf
        <4> QED BY <1>1, <4>1, <4>2, <4>3 DEF Sole, InSlot
      <3> QED BY <3>2, <3>3
    <2> QED BY <2>10, <2>11, <2>12, <2>13, <2>15, <2>16 DEF Inv
  <1> QED BY <1>3, <1>4 DEF CreateRow

\* The one step that fills a slot.
LEMMA StowInv ==
  ASSUME Inv, NEW p \in Requests, Stow(p)
  PROVE  Inv'
  <1> DEFINE r == proc[p]
             S == Named(place, r.from, r.i \in Dirs)
  <1>1. /\ r.pc = "stow" /\ OnEntry(p) /\ r.pc \in Creating /\ UNCHANGED row
        /\ Good(place) /\ TypeOK /\ Filled
    BY DEF Stow, OnEntry, Inv, Creating
  <1>2. PICK e \in Entries : e = r.e
    BY <1>1, EntryOf
  <1>3. /\ r.from \in Short /\ r.to = <<e>> /\ row[e].state = "pending"
        /\ \A x \in Inodes : place[x] # <<Top, e>>
        /\ Formed(r)
    BY <1>1, <1>2, EntryOf DEF Formed, Knows, Creating
  <1>4. Continues(e)
    BY <1>1, SameRow
  <1>5. InSlot(place, e)' => Held(row'[e])
    BY <1>1, <1>3 DEF Held, Live
  <1>6. ASSUME NEW at \in {"stowed", "undo"}, Goto(p, at)
        PROVE  /\ StepOf(p) /\ OnEntry(p)' /\ proc'[p].e = e /\ Formed(proc'[p])
               /\ Knows(proc[p])' /\ Acts(p, e)
    <2>1. /\ StepOf(p) /\ proc'[p].pc = at /\ proc'[p].e = e /\ proc'[p].i = r.i
          /\ proc'[p].from = r.from /\ proc'[p].to = r.to /\ proc'[p].kind = r.kind
      BY <1>1, <1>2, <1>6, GotoStep DEF Owning
    <2>2. Formed(proc'[p]) /\ OnEntry(p)'
      BY <1>1, <1>2, <1>3, <2>1 DEF Formed, Chosen, Aims, Restoring, Creating, OnEntry
    <2>3. Knows(proc[p])'
      BY <1>1, <1>3, <1>6, <2>1 DEF Knows, Chosen, Restoring, Creating
    <2>4. Acts(p, e)
      BY <1>1, <2>1 DEF Acts, Owning
    <2> QED BY <2>1, <2>2, <2>3, <2>4
  <1>7. CASE MoveTo(S, r.to) /\ (Goto(p, "stowed") \/ Goto(p, "undo"))
    <2>1. PICK q \in PlaceOf(place, <<e>>) : place' = Moved(place, S, q)
      BY <1>3, <1>7 DEF MoveTo, Moved
    <2>2. q = <<Top, e>>
      BY <2>1, ShortPath
    <2>3. PICK n \in Names : r.from = <<n>>
      BY <1>3 DEF Short
    <2>4. S \in SUBSET Inodes /\ \A x, y \in S : x = y
      <3>1. S \subseteq At(place, Top, n)
        BY <2>3, NamedShort
      <3> QED BY <1>1, <3>1, AtOnce DEF At, Good
    <2>5. q \in Places /\ q \in {Top} \X (Names \cup Entries)
      BY <2>2 DEF Places
    <2>6. Good(place')
      BY <1>1, <1>3, <2>1, <2>2, <2>4, <2>5, MoveIsGood
    <2>7. Keeps(place, place', Entries \ {e})
      <3>1. Top \notin Dirs /\ \A f \in Entries \ {e} : <<Top, e>> # <<Top, f>>
        BY ConstantsAssumption DEF Inodes
      <3> QED BY <2>1, <2>2, <3>1, MoveKeeps
    <2>8. /\ StepOf(p) /\ OnEntry(p)' /\ proc'[p].e = e /\ Formed(proc'[p])
          /\ Knows(proc[p])' /\ Acts(p, e)
      BY <1>6, <1>7
    <2> QED BY <1>1, <1>2, <1>4, <1>5, <2>6, <2>7, <2>8, CarryOn
  <1>8. CASE Goto(p, "undo") /\ UNCHANGED place
    <2>1. Good(place') /\ Keeps(place, place', Entries) /\ Keeps(place, place', Entries \ {e})
      BY <1>1, <1>8, StillKeeps DEF Keeps
    <2>2. /\ StepOf(p) /\ OnEntry(p)' /\ proc'[p].e = e /\ Formed(proc'[p])
          /\ Knows(proc[p])' /\ Acts(p, e)
      BY <1>3, <1>6, <1>8
    <2> QED BY <1>1, <1>2, <1>4, <1>5, <2>1, <2>2, CarryOn
  <1> QED BY <1>7, <1>8 DEF Stow

LEMMA StowedInv ==
  ASSUME Inv, NEW p \in Requests, Stowed(p)
  PROVE  Inv'
  <1>1. /\ OnEntry(p) /\ Good(place) /\ Leave(p) /\ UNCHANGED place /\ TypeOK /\ Filled
        /\ proc[p].pc \in Owning
    BY DEF Stowed, OnEntry, Inv, Owning
  <1>2. proc[p].e \in Entries
    BY <1>1, EntryOf
  <1>3. Continues(proc[p].e) /\ (Held(row[proc[p].e]) => Held(row'[proc[p].e]))
    BY <1>1, <1>2, MarkReadyStep DEF Stowed
  <1> QED BY <1>1, <1>3, StillKeeps, Ends

\* The row goes whether its slot is empty or not.
LEMMA UndoCreateInv ==
  ASSUME Inv, NEW p \in Requests, UndoCreate(p)
  PROVE  Inv'
  <1>1. /\ OnEntry(p) /\ Good(place) /\ Leave(p) /\ UNCHANGED place /\ TypeOK /\ Filled
        /\ proc[p].pc = "undo" /\ proc[p].pc \in Owning
    BY DEF UndoCreate, OnEntry, Inv, Owning
  <1>2. proc[p].e \in Entries
    BY <1>1, EntryOf
  <1>3. CASE DeleteRowAs(proc[p].e, "undone")
    <2>1. Continues(proc[p].e) /\ Held(row'[proc[p].e])
      BY <1>1, <1>2, <1>3, DeleteStep DEF Held
    <2> QED BY <1>1, <2>1, StillKeeps, Ends
  <1>4. CASE UNCHANGED row
    BY <1>1, <1>4, StillKeeps, EndsQuietly
  <1> QED BY <1>3, <1>4 DEF UndoCreate

-----------------------------------------------------------------------------
(* Recovery, restart, and the rest of the namespace.                       *)

\* Recovery leaves alone what is being created, and lists what is in the slot.
LEMMA RecoverEntryInv ==
  ASSUME Inv, NEW e \in Entries, RecoverEntry(e)
  PROVE  Inv'
  <1> DEFINE r == [row[e] EXCEPT !.state = Recovered(place, e), !.op = None]
  <1>1. Recoverable(e) /\ UNCHANGED proc /\ TypeOK /\ Good(place)
    BY DEF RecoverEntry, Inv
  <1>2. place' = Remove(place, RecoveryPurges(place, e))
    BY DEF RecoverEntry
  <1>3. Good(place') /\ Keeps(place, place', Entries)
    BY <1>1, <1>2, RemoveKeeps
  <1>4. Recovered(place, e) = IF InSlot(place', e) THEN "ready" ELSE "removed"
    BY <1>2 DEF Recovered
  <1>5. row[e] \in Rows
    BY <1>1 DEF TypeOK
  <1>6. /\ r \in Rows /\ r.state = Recovered(place, e) /\ r.op = None
        /\ r.root = row[e].root /\ r.name = row[e].name
    BY <1>4, <1>5 DEF Rows, RowStates
  <1>7. row' = [row EXCEPT ![e] = r]
    BY <1>1 DEF RecoverEntry, TypeOK
  <1>8. row'[e] = r
    BY <1>1, <1>7 DEF TypeOK
  <1> HIDE DEF r
  <1>9. row' \in [Entries -> Rows] /\ \A f \in Entries \ {e} : row'[f] = row[f]
    BY <1>1, <1>6, <1>7 DEF TypeOK
  <1>10. Continues(e)
    BY <1>1, <1>4, <1>6, <1>8, <1>9 DEF Continues, Live, Recoverable
  <1>11. Held(row[e]) => Held(row'[e]) \/ ~InSlot(place, e)'
    BY <1>4, <1>6, <1>8 DEF InSlot, Held, Live
  <1>12. row[e].state # "unused"
    BY <1>1 DEF Recoverable
  <1>13. ASSUME NEW p \in Requests, proc[p].pc \in Creating, proc[p].e = e
         PROVE  FALSE
    <2>1. proc[p].kind = "create"
      BY <1>13 DEF Inv, Ready, Formed
    <2>2. Owns(p, e)
      BY <1>13 DEF Owns, Owning, Creating
    <2>3. proc[p].kind \in Outlasting
      BY <2>2 DEF RecoverEntry
    <2> QED BY <2>1, <2>3, ConstantsAssumption
  <1>14. Outlasting = {} => \A p \in Requests : ~Owns(p, e)
    BY DEF RecoverEntry
  <1> QED BY <1>1, <1>3, <1>10, <1>11, <1>12, <1>13, <1>14, Around

\* A start forgets the requests, and the payloads that rows account for stay.
LEMMA RestartInv ==
  ASSUME Inv, Restart
  PROVE  Inv'
  <1> DEFINE kept == Remove(place, Orphans)
             X == UNION {RecoveryPurges(kept, e) : e \in {x \in Entries : Recoverable(x)}}
             after(e) == IF Recoverable(e) THEN Recovered(kept, e)
                         ELSE IF row[e].state = "ready" /\ ~Expected(e) THEN "removed"
                         ELSE row[e].state
  <1>1. /\ proc' = [p \in Requests |-> Idle] /\ place' = Remove(kept, X)
        /\ row' = [e \in Entries |-> [row[e] EXCEPT !.state = after(e), !.op = None]]
    BY DEF Restart
  <1>2. TypeOK /\ Good(place) /\ Filled /\ OwnPayloadHasRow
    BY DEF Inv
  <1>3. place' = Remove(place, Orphans \cup X)
    BY <1>1 DEF Remove
  <1>4. Good(place')
    BY <1>2, <1>3, RemoveKeeps
  <1>5. Keeps(place, place', Entries)
    BY <1>2, <1>3, RemoveKeeps
  <1>6. ASSUME NEW e \in Entries
        PROVE  /\ row'[e] \in Rows /\ row'[e].root = row[e].root /\ row'[e].name = row[e].name
               /\ row'[e].state = after(e) /\ row'[e].op = None
               /\ after(e) = "unused" <=> row[e].state = "unused"
               /\ after(e) # "deleting"
               /\ Live(row'[e]) => Live(row[e])
    <2> DEFINE r == [row[e] EXCEPT !.state = after(e), !.op = None]
    <2>1. row[e] \in Rows
      BY <1>2 DEF TypeOK
    <2>2. /\ after(e) \in RowStates
          /\ after(e) = "unused" <=> row[e].state = "unused"
          /\ after(e) # "deleting"
          /\ after(e) \in {"removed", "undone", "unused"} \/ Live(row[e])
      BY <2>1 DEF Rows, RowStates, Recovered, Recoverable, Live
    <2> HIDE DEF after
    <2>3. /\ r \in Rows /\ r.state = after(e) /\ r.op = None
          /\ r.root = row[e].root /\ r.name = row[e].name
      BY <2>1, <2>2 DEF Rows
    <2>4. row'[e] = r
      BY <1>1
    <2> HIDE DEF r
    <2> QED BY <2>2, <2>3, <2>4 DEF Live
  <1>7. TypeOK'
    <2>1. row' \in [Entries -> Rows]
      <3>1. row' = [e \in Entries |-> row'[e]]
        BY <1>1
      <3> QED BY <1>6, <3>1
    <2>2. proc' \in [Requests -> Records]
      BY <1>1, IdleIsARecord
    <2>3. \A e, f \in Entries : e # f /\ Live(row'[e]) /\ Live(row'[f]) => row'[e].root # row'[f].root
      BY <1>2, <1>6 DEF TypeOK
    <2> QED BY <1>4, <2>1, <2>2, <2>3 DEF TypeOK, Good
  <1>8. Filled'
    BY <1>2, <1>5, <1>6 DEF Filled, Keeps
  <1>9. OwnPayloadHasRow'
    <2> SUFFICES ASSUME NEW e \in Entries, InSlot(place, e)'
                 PROVE  Held(row'[e])
      BY DEF OwnPayloadHasRow, Held
    <2>1. row'[e].root = row[e].root /\ row[e].root \in Inodes /\ place'[row[e].root] = <<Top, e>>
      BY <1>6 DEF InSlot
    <2>2. InSlot(place, e) /\ Held(row[e])
      BY <1>2, <1>5, <2>1 DEF InSlot, Keeps, OwnPayloadHasRow, Held
    <2>3. CASE Recoverable(e)
      <3>1. row[e].root \notin X /\ kept[row[e].root] = <<Top, e>>
        BY <1>1, <2>1, PairIsAPlace DEF Remove
      <3>2. row[e].root \notin RecoveryPurges(kept, e)
        BY <2>3, <3>1
      <3>3. InSlot(Remove(kept, RecoveryPurges(kept, e)), e)
        BY <2>1, <3>1, <3>2 DEF InSlot, Remove
      <3>4. after(e) = "ready"
        BY <2>3, <3>3 DEF Recovered
      <3> QED BY <1>6, <3>4 DEF Held, Live
    <2>4. CASE ~Recoverable(e)
      <3>1. row[e].state = "ready" => Expected(e)
        BY <2>2 DEF Expected, Live
      <3>2. after(e) = row[e].state
        BY <2>4, <3>1
      <3> QED BY <1>6, <2>2, <3>2 DEF Held, Live
    <2> QED BY <2>3, <2>4
  <1>10. ASSUME NEW q \in Requests PROVE Ready(q)'
    <2>1. proc'[q].pc = "idle"
      BY <1>1 DEF Idle
    <2> QED BY <2>1 DEF Ready, Formed, Knows, Alone, Chosen, Aims, Restoring, Creating
  <1>11. OneMutator'
    BY <1>1 DEF OneMutator, Sole, Idle, Owning
  <1> QED BY <1>4, <1>7, <1>8, <1>9, <1>10, <1>11 DEF Inv

LEMMA EditInv ==
  ASSUME Inv, NEW i \in Inodes, Edit(i)
  PROVE  Inv'
  <1>1. Good(place') /\ Keeps(place, place', Entries) /\ UNCHANGED <<row, proc>>
    BY EditKeeps DEF Inv, Edit
  <1>2. CASE Entries = {}
    <2>1. TypeOK' /\ Filled' /\ OwnPayloadHasRow'
      BY <1>1, <1>2 DEF Inv, TypeOK, Good, Filled, OwnPayloadHasRow
    <2>2. \A q \in Requests : proc[q].pc \in {"idle", "create"}
      BY <1>2 DEF Inv, Ready, Formed
    <2>3. \A q \in Requests : Ready(q)'
      BY <1>1, <2>2 DEF Inv, Ready, Formed, Knows, Alone, Chosen, Aims, Restoring, Creating
    <2>4. OneMutator'
      BY <1>1, <2>2 DEF OneMutator, Sole, Owning
    <2> QED BY <1>1, <2>1, <2>3, <2>4 DEF Inv
  <1>3. CASE Entries # {}
    <2>1. PICK e \in Entries : TRUE
      BY <1>3
    <2>2. Continues(e)
      BY <1>1, SameRow DEF Inv
    <2> QED BY <1>1, <2>2, Around
  <1> QED BY <1>2, <1>3

LEMMA InitInv == Init => Inv
  <1> SUFFICES ASSUME Init PROVE Inv
    OBVIOUS
  <1>1. Good(place)
    <2>1. Flat(Home0)
      BY HomeAssumption DEF Flat
    <2> QED BY <2>1, HomeAssumption DEF Init, Good
  <1>2. \A e \in Entries, x \in Inodes : place[x] # <<Top, e>>
    <2>1. \A e \in Entries : <<Top, e>> \in {Top} \X Entries
      OBVIOUS
    <2> QED BY <2>1, HomeAssumption DEF Init
  <1>3. row \in [Entries -> Rows] /\ \A e \in Entries : row[e].state = "unused"
    BY DEF Init, Rows, RowStates
  <1>4. TypeOK
    BY <1>1, <1>3, IdleIsARecord DEF TypeOK, Init, Good, Live
  <1>5. Filled /\ OwnPayloadHasRow
    BY <1>2, <1>3 DEF Filled, OwnPayloadHasRow, InSlot
  <1>6. ASSUME NEW q \in Requests PROVE Ready(q)
    <2>1. proc[q].pc = "idle"
      BY DEF Init, Idle
    <2> QED BY <2>1 DEF Ready, Formed, Knows, Alone, Chosen, Aims, Restoring, Creating
  <1>7. OneMutator
    BY DEF Init, OneMutator, Sole, Idle, Owning
  <1> QED BY <1>1, <1>4, <1>5, <1>6, <1>7 DEF Inv

\* A step that changes nothing.
LEMMA StutterInv ==
  ASSUME Inv, UNCHANGED vars
  PROVE  Inv'
  <1>1. TypeOK' /\ Good(place)' /\ Filled' /\ OwnPayloadHasRow'
    BY DEF vars, Inv, TypeOK, Good, Apart, Flat, Filled, OwnPayloadHasRow, InSlot, Live
  <1>2. OneMutator'
    BY DEF vars, Inv, OneMutator, Sole, Owns, InSlot
  <1>3. \A q \in Requests : Ready(q)'
    BY SMTT(30) DEF vars, Inv, Ready, Formed, Knows, Alone, OnEntry, InSlot
  <1> QED BY <1>1, <1>2, <1>3 DEF Inv

LEMMA StepInv == Inv /\ [Next]_vars => Inv'
  <1> SUFFICES ASSUME Inv, [Next]_vars PROVE Inv'
    OBVIOUS
  <1>1. ASSUME NEW p \in Requests, StartOnEntry(p) \/ CreateStep(p)
        PROVE  Inv'
    BY <1>1, StartOnEntryInv, StartCreateInv, CreateRowInv, StowInv, StowedInv, UndoCreateInv
       DEF CreateStep
  <1>2. ASSUME NEW p \in Requests, EntryStep(p)
        PROVE  Inv'
    BY <1>2, LookupPayloadInv, DropEntryInv, DecideInv, ClaimInv, EnsureParentInv, ClearTargetInv,
       MoveOutInv, ListChildrenInv, MergeChildInv, MergeMoveInv, MergeEndInv, PurgePayloadInv,
       RemoveEntryInv, FinishInv DEF EntryStep
  <1>3. CASE UNCHANGED vars
    BY <1>3, StutterInv
  <1> QED BY <1>1, <1>2, <1>3, RecoverEntryInv, RestartInv, EditInv DEF Next

-----------------------------------------------------------------------------
(* What holds whatever takes longer than the grace of the recovery.        *)

THEOREM Invariant == Spec => []Inv
  <1>1. Inv /\ [Next]_vars => Inv'
    BY StepInv
  <1> QED BY InitInv, <1>1, PTL DEF Spec

\* Every row, request and inode has its shape; no two inodes are at one place,
\* and no two entries answer for one inode.
THEOREM TypeCorrect == Spec => []TypeOK
  <1>1. Inv => TypeOK
    BY DEF Inv
  <1> QED BY <1>1, Invariant, PTL

\* trash.go:302-321 and 641-666: no listing, no failure and no restart, at
\* whatever moment, leaves an inode in the slot of its entry without a row, but
\* for a move that was carried out and reported as failed (trash.go:284).
THEOREM OwnPayloadHasRowHolds == Spec => []OwnPayloadHasRow
  <1>1. Inv => OwnPayloadHasRow
    BY DEF Inv
  <1> QED BY <1>1, Invariant, PTL

-----------------------------------------------------------------------------
(* When no request outlasts the grace of the recovery.                     *)

\* trash.go:729-760: the compare-and-set that begins a mutation gives the
\* request its entry; nobody else changes the row before it is done.
THEOREM SoleMutatorHolds == Outlasting = {} => (Spec => []SoleMutator)
  <1> SUFFICES ASSUME Outlasting = {} PROVE Spec => []SoleMutator
    OBVIOUS
  <1>1. ASSUME Inv PROVE SoleMutator
    <2> SUFFICES ASSUME NEW p \in Requests, NEW e \in Entries, Owns(p, e)
                 PROVE  /\ \A q \in Requests \ {p} : ~Owns(q, e)
                        /\ row[e].state = By(proc[p].kind) \/ (row[e].state = "removed" /\ ~InSlot(place, e))
      BY DEF SoleMutator, By
    <2>1. Sole(p)
      BY <1>1 DEF Inv, OneMutator
    <2> QED BY <2>1 DEF Sole, Owns
  <1>2. Inv => SoleMutator
    BY <1>1
  <1> QED BY <1>2, Invariant, PTL

\* An inode that is in an entry: its payload, or in the directory that is.
Payload(e, i) ==
  e \in Entries /\ Live(row[e]) /\ InSlot(place, e) /\ i \in Tree(place, row[e].root)

\* It may be destroyed.
Asked(e, i) ==
  \/ row[e].state = "deleting" /\ row[e].op \in {i, row[e].root}
  \/ i = row[e].root /\ i \in Dirs /\ Children(place, i) \subseteq {row[e].op}

\* Trees of an inode in a slot, and of one that is not in that tree.
LEMMA TreesApart ==
  ASSUME NEW pl, NEW e, NEW r \in Inodes, pl[r] = <<Top, e>>,
         NEW v \in Inodes, v # r, pl[v][1] # r, NEW i \in Tree(pl, r)
  PROVE  i \notin Tree(pl, v)
  <1>1. Top \notin Inodes
    BY ConstantsAssumption
  <1>2. pl[r][1] = Top
    OBVIOUS
  <1> QED BY <1>1, <1>2 DEF Tree, Children

\* What a pathname that begins elsewhere resolves to is not in the slot.
LEMMA Elsewhere ==
  ASSUME NEW pl, Apart(pl), NEW e, NEW r \in Inodes, pl[r] = <<Top, e>>, NEW k, k # e, NEW n,
         NEW path \in {<<k>>, <<k, n>>}, NEW v \in Resolve(pl, path)
  PROVE  v \in Inodes /\ v # r /\ pl[v][1] # r
  <1>1. Top \notin Inodes
    BY ConstantsAssumption
  <1>2. CASE path = <<k>>
    <2>1. v \in Inodes /\ pl[v] = <<Top, k>>
      BY <1>2, ShortPath DEF At
    <2> QED BY <1>1, <2>1
  <1>3. CASE path = <<k, n>>
    <2>1. PICK d \in Dirs : pl[d] = <<Top, k>> /\ v \in Inodes /\ pl[v] = <<d, n>>
      BY <1>3, ResolvesLong
    <2> QED BY <1>1, <2>1 DEF Inodes
  <1> QED BY <1>2, <1>3

\* A payload is somewhere.
LEMMA PayloadIsThere ==
  ASSUME Inv, NEW e, NEW i, Payload(e, i)
  PROVE  /\ e \in Entries /\ i \in Inodes /\ row[e].root \in Inodes
         /\ place[row[e].root] = <<Top, e>>
         /\ place[i] # Gone /\ place[i] # Unborn
         /\ i = row[e].root \/ (row[e].root \in Dirs /\ place[i][1] = row[e].root)
  <1>1. /\ e \in Entries /\ row[e].root \in Inodes /\ place[row[e].root] = <<Top, e>>
    BY DEF Payload, InSlot
  <1>2. CASE i = row[e].root
    BY <1>1, <1>2, PairIsAPlace
  <1>3. CASE i \in Children(place, row[e].root)
    <2>1. i \in Inodes /\ place[i] \in Places /\ place[i][1] = row[e].root
      BY <1>3 DEF Children, Inv, Good
    <2>2. row[e].root \notin {Top, "gone", "unborn"}
      BY <1>1, ConstantsAssumption
    <2>3. Gone[1] = "gone" /\ Unborn[1] = "unborn"
      BY DEF Gone, Unborn
    <2>4. place[i] # Gone /\ place[i] # Unborn
      BY <2>1, <2>2, <2>3
    <2>5. row[e].root \in Dirs
      BY <2>1, <2>2, <2>4, PlaceShape
    <2> QED BY <1>1, <2>1, <2>4, <2>5
  <1> QED BY <1>2, <1>3 DEF Payload, Tree

\* A deletion, even one cut short.
Cut(victims) ==
  \E S : place' = Remove(place, S) /\ S \subseteq UNION {Tree(place, v) : v \in victims}

LEMMA PurgeCuts ==
  ASSUME NEW p, NEW victims, NEW next, Purge(p, victims, next)
  PROVE  Cut(victims)
  <1>1. CASE place' = Remove(place, UNION {Tree(place, v) : v \in victims})
    BY <1>1 DEF Cut
  <1>2. ASSUME NEW v \in victims, NEW S \in (SUBSET Children(place, v)) \cup {Tree(place, v)},
               place' = Remove(place, S)
        PROVE  Cut(victims)
    <2>1. S \subseteq Tree(place, v)
      <3>1. CASE S \in SUBSET Children(place, v)
        BY <3>1 DEF Tree
      <3> QED BY <3>1
    <2>2. S \subseteq UNION {Tree(place, x) : x \in victims}
      BY <2>1
    <2> QED BY <1>2, <2>2 DEF Cut
  <1>3. \/ place' = Remove(place, UNION {Tree(place, v) : v \in victims})
        \/ \E v \in victims : \E S \in (SUBSET Children(place, v)) \cup {Tree(place, v)} :
              place' = Remove(place, S)
    BY DEF Purge
  <1> QED BY <1>1, <1>2, <1>3

\* A deletion of what is elsewhere spares it.
LEMMA PurgeSpares ==
  ASSUME Inv, NEW e, NEW i, Payload(e, i), NEW victims, Cut(victims),
         \A v \in victims : v \in Inodes /\ v # row[e].root /\ place[v][1] # row[e].root
  PROVE  place'[i] # Gone
  <1>1. PICK S : place' = Remove(place, S) /\ S \subseteq UNION {Tree(place, v) : v \in victims}
    BY DEF Cut
  <1>2. i \in Tree(place, row[e].root)
    BY DEF Payload
  <1>3. /\ e \in Entries /\ i \in Inodes /\ row[e].root \in Inodes
        /\ place[row[e].root] = <<Top, e>> /\ place[i] # Gone
    BY PayloadIsThere
  <1>4. \A v \in victims : i \notin Tree(place, v)
    BY <1>2, <1>3, TreesApart
  <1> QED BY <1>1, <1>3, <1>4 DEF Remove

\* A rename destroys nothing.
LEMMA MoveSpares ==
  ASSUME Inv, NEW e, NEW i, Payload(e, i), NEW S, NEW k, NEW n, NEW path \in {<<k>>, <<k, n>>},
         MoveTo(S, path)
  PROVE  place'[i] # Gone
  <1>1. PICK q \in PlaceOf(place, path) :
           place' = [x \in Inodes |-> IF x \in S THEN q ELSE place[x]]
    BY DEF MoveTo
  <1>2. q # Gone
    <2>1. CASE path = <<k>>
      BY <1>1, <2>1, ShortPath, PairIsAPlace
    <2>2. CASE path = <<k, n>>
      <3>1. PICK d : q = <<d, n>>
        BY <1>1, <2>2, LongPath
      <3> QED BY <3>1, PairIsAPlace
    <2> QED BY <2>1, <2>2
  <1>3. i \in Inodes /\ place[i] # Gone
    BY PayloadIsThere
  <1> QED BY <1>1, <1>2, <1>3

\* A visible pathname is elsewhere.
LEMMA VisibleIsElsewhere ==
  ASSUME Inv, NEW e, NEW i, Payload(e, i), NEW path \in Short \cup Long, NEW v \in Resolve(place, path)
  PROVE  v \in Inodes /\ v # row[e].root /\ place[v][1] # row[e].root
  <1>1. PICK k \in Names, n \in Names : path \in {<<k>>, <<k, n>>}
    BY DEF Short, Long
  <1>2. k # e
    BY PayloadIsThere, ConstantsAssumption
  <1>3. Apart(place) /\ row[e].root \in Inodes /\ place[row[e].root] = <<Top, e>>
    BY PayloadIsThere DEF Inv, Good
  <1> QED BY <1>1, <1>2, <1>3, Elsewhere

\* Restoring destroys only what the client chose to replace, and the
\* directory it has emptied.
LEMMA StowSpares ==
  ASSUME Inv, NEW e, NEW i, Payload(e, i), NEW p \in Requests, Stow(p)
  PROVE  place'[i] # Gone
  <1>1. i \in Inodes /\ place[i] # Gone
    BY PayloadIsThere
  <1>2. OnEntry(p) /\ proc[p].pc = "stow"
    BY DEF Stow, OnEntry
  <1>3. proc[p].to = <<proc[p].e>>
    BY <1>2, EntryOf DEF Formed, Creating
  <1>4. CASE MoveTo(Named(place, proc[p].from, proc[p].i \in Dirs), proc[p].to)
    BY <1>3, <1>4, MoveSpares
  <1> QED BY <1>1, <1>4 DEF Stow

LEMMA EnsureParentSpares ==
  ASSUME Inv, NEW e, NEW i, Payload(e, i), NEW p \in Requests, EnsureParent(p)
  PROVE  place'[i] # Gone
  <1>1. i \in Inodes /\ place[i] # Gone
    BY PayloadIsThere
  <1>2. CASE UNCHANGED place
    BY <1>1, <1>2
  <1>3. CASE \E d \in Dirs : \E k : place' = [place EXCEPT ![d] = <<Top, k>>]
    BY <1>1, <1>3, PairIsAPlace DEF Inv, Good
  <1> QED BY <1>2, <1>3 DEF EnsureParent

LEMMA ClearTargetSpares ==
  ASSUME Inv, NEW e, NEW i, Payload(e, i), NEW p \in Requests, ClearTarget(p)
  PROVE  place'[i] # Gone
  <1>1. i \in Inodes /\ place[i] # Gone
    BY PayloadIsThere
  <1>2. proc[p].to \in Short \cup Long
    BY RestoringAims DEF ClearTarget, Restoring
  <1> DEFINE victims == Named(place, proc[p].to, proc[p].how = "overwriteDir")
  <1>3. CASE Purge(p, victims, Goto(p, "move"))
    <2>1. victims \subseteq Resolve(place, proc[p].to)
      BY DEF Named
    <2>2. \A v \in victims : v \in Inodes /\ v # row[e].root /\ place[v][1] # row[e].root
      BY <1>2, <2>1, VisibleIsElsewhere
    <2>3. Cut(victims)
      BY <1>3, PurgeCuts
    <2> HIDE DEF victims
    <2> QED BY <2>2, <2>3, PurgeSpares
  <1> QED BY <1>1, <1>3 DEF ClearTarget

LEMMA MoveOutSpares ==
  ASSUME Inv, NEW e, NEW i, Payload(e, i), NEW p \in Requests, MoveOut(p)
  PROVE  place'[i] # Gone
  <1>1. i \in Inodes /\ place[i] # Gone
    BY PayloadIsThere
  <1>2. proc[p].to \in Short \cup Long
    BY RestoringAims DEF MoveOut, Restoring
  <1>3. PICK k, n : proc[p].to \in {<<k>>, <<k, n>>}
    BY <1>2 DEF Short, Long
  <1>4. CASE MoveTo(Named(place, proc[p].from, proc[p].i \in Dirs), proc[p].to)
    BY <1>3, <1>4, MoveSpares
  <1> QED BY <1>1, <1>4 DEF MoveOut

LEMMA MergeChildSpares ==
  ASSUME Inv, NEW e, NEW i, Payload(e, i), NEW p \in Requests, MergeChild(p)
  PROVE  place'[i] # Gone
  <1>1. i \in Inodes /\ place[i] # Gone
    BY PayloadIsThere
  <1>2. proc[p].pc = "merge" /\ proc[p] \in Records
    BY DEF MergeChild, Inv, TypeOK
  <1>3. PICK n \in proc[p].rest :
          \/ UNCHANGED place
          \/ Cut(Resolve(place, Append(proc[p].to, n)))
    BY PurgeCuts DEF MergeChild
  <1>4. CASE Cut(Resolve(place, Append(proc[p].to, n)))
    <2>1. n \in Names
      BY <1>2 DEF Records
    <2>2. Append(proc[p].to, n) \in Long
      BY <1>2, <2>1, MergeTarget
    <2> DEFINE victims == Resolve(place, Append(proc[p].to, n))
    <2>3. \A v \in victims : v \in Inodes /\ v # row[e].root /\ place[v][1] # row[e].root
      BY <2>2, VisibleIsElsewhere
    <2>4. Cut(victims)
      BY <1>4
    <2> HIDE DEF victims
    <2> QED BY <2>3, <2>4, PurgeSpares
  <1> QED BY <1>1, <1>3, <1>4

LEMMA MergeMoveSpares ==
  ASSUME Inv, NEW e, NEW i, Payload(e, i), NEW p \in Requests, MergeMove(p)
  PROVE  place'[i] # Gone
  <1>1. i \in Inodes /\ place[i] # Gone
    BY PayloadIsThere
  <1>2. proc[p].pc = "mergeMove" /\ OnEntry(p)
    BY DEF MergeMove, OnEntry
  <1>3. PICK k, n : proc[p].as = <<k, n>>
    BY <1>2, EntryOf DEF Formed, Long
  <1>4. CASE MoveTo(Resolve(place, Append(proc[p].from, proc[p].child)), proc[p].as)
    BY <1>3, <1>4, MoveSpares
  <1> QED BY <1>1, <1>4 DEF MergeMove

LEMMA MergeEndAsked ==
  ASSUME Inv, NEW e, NEW i, Payload(e, i), NEW p \in Requests, MergeEnd(p), place'[i] = Gone
  PROVE  Asked(e, i)
  <1>1. /\ i \in Inodes /\ place[i] # Gone /\ e \in Entries
        /\ row[e].root \in Inodes /\ place[row[e].root] = <<Top, e>>
    BY PayloadIsThere
  <1>2. OnEntry(p) /\ Chosen(proc[p]) /\ Formed(proc[p]) /\ Knows(proc[p]) /\ proc[p].pc = "merge"
    BY RestoringAims, EntryOf DEF MergeEnd, Restoring
  <1>3. proc[p].from = <<proc[p].e>> /\ proc[p].i = row[proc[p].e].root
    BY <1>2 DEF Formed, Knows
  <1>4. i \in Resolve(place, <<proc[p].e>>) /\ EmptyDir(place, i)
    <2>1. place' = Remove(place, {j \in Resolve(place, proc[p].from) : EmptyDir(place, j)})
      BY <1>1 DEF MergeEnd
    <2>2. i \in {j \in Resolve(place, proc[p].from) : EmptyDir(place, j)}
      BY <1>1, <2>1 DEF Remove
    <2> QED BY <1>3, <2>2
  <1>5. place[i] = <<Top, proc[p].e>>
    <2>1. i \in At(place, Top, proc[p].e)
      BY <1>4, ShortPath
    <2> QED BY <2>1 DEF At
  <1>6. i = row[e].root
    <2>1. Top \notin Inodes
      BY ConstantsAssumption
    <2> QED BY <1>1, <1>5, <2>1, PayloadIsThere
  <1> QED BY <1>4, <1>6 DEF Asked, EmptyDir

LEMMA FinishAsked ==
  ASSUME Inv, NEW e, NEW i, Payload(e, i), NEW p \in Requests, Finish(p), place'[i] = Gone
  PROVE  Asked(e, i)
  <1>1. /\ i \in Inodes /\ place[i] # Gone /\ e \in Entries
        /\ row[e].root \in Inodes /\ place[row[e].root] = <<Top, e>>
        /\ i = row[e].root \/ (row[e].root \in Dirs /\ place[i][1] = row[e].root)
    BY PayloadIsThere
  <1>2. PICK f : /\ InSlot(place, f) /\ EmptyDir(place, row[f].root)
                 /\ place' = Remove(place, {row[f].root})
    BY <1>1 DEF Finish
  <1>3. i = row[f].root /\ place[i] = <<Top, f>>
    BY <1>1, <1>2 DEF Remove, InSlot
  <1>4. i = row[e].root
    <2>1. Top \notin Inodes
      BY ConstantsAssumption
    <2> QED BY <1>1, <1>3, <2>1
  <1> QED BY <1>2, <1>3, <1>4 DEF Asked, EmptyDir
\* A permanent deletion destroys what its row names: its own entry, or one
\* inode of the directory that is its payload.
LEMMA PurgePayloadAsked ==
  ASSUME Inv, Outlasting = {}, NEW e, NEW i, Payload(e, i), NEW p \in Requests, PurgePayload(p),
         place'[i] = Gone
  PROVE  Asked(e, i)
  <1>1. /\ i \in Inodes /\ place[i] # Gone /\ e \in Entries
        /\ row[e].root \in Inodes /\ place[row[e].root] = <<Top, e>>
        /\ i = row[e].root \/ (row[e].root \in Dirs /\ place[i][1] = row[e].root)
    BY PayloadIsThere
  <1>2. proc[p].pc = "purge" /\ OnEntry(p) /\ Chosen(proc[p])
    BY DEF PurgePayload, OnEntry, Chosen
  <1>3. Formed(proc[p]) /\ Knows(proc[p]) /\ proc[p].e \in Entries
    BY <1>2, EntryOf
  <1>4. proc[p].from \in {<<proc[p].e>>} \cup Below(proc[p].e)
    BY <1>2, <1>3 DEF Formed
  <1> DEFINE victims == Named(place, proc[p].from, proc[p].i \in Dirs)
  <1>5. Cut(victims)
    BY PurgeCuts DEF PurgePayload
  <1>6. Apart(place) /\ Top \notin Inodes
    BY ConstantsAssumption DEF Inv, Good
  <1>7. CASE proc[p].e # e
    <2>1. PICK n : proc[p].from \in {<<proc[p].e>>, <<proc[p].e, n>>}
      BY <1>4 DEF Below
    <2>2. \A v \in victims : v \in Resolve(place, proc[p].from)
      BY DEF Named
    <2> DEFINE f == proc[p].e
               path == proc[p].from
    <2>3. ASSUME NEW v \in Resolve(place, path)
          PROVE  v \in Inodes /\ v # row[e].root /\ place[v][1] # row[e].root
      <3>1. f # e /\ path \in {<<f>>, <<f, n>>}
        BY <1>7, <2>1
      <3> HIDE DEF f, path
      <3> QED BY ZenonT(40), <1>1, <1>6, <3>1, Elsewhere
    <2>4. \A v \in victims : v \in Inodes /\ v # row[e].root /\ place[v][1] # row[e].root
      BY <2>2, <2>3
    <2> HIDE DEF victims
    <2> QED BY <1>5, <2>4, PurgeSpares
  <1>8. CASE proc[p].e = e
    <2>1. row[e].state = "deleting" /\ row[e].op = proc[p].i
      <3>1. Sole(p) /\ proc[p].kind \in {"delete", "empty"}
        BY <1>2, <1>3 DEF Inv, OneMutator, Formed
      <3>2. Live(row[e])
        BY DEF Payload
      <3> QED BY <1>2, <1>8, <3>1, <3>2 DEF Sole, Owning, By, Live
    <2>2. CASE proc[p].from = <<e>>
      BY <1>2, <1>3, <1>8, <2>1, <2>2 DEF Knows, Asked
    <2>3. CASE proc[p].from \in Below(e)
      <3>1. PICK n \in Names : proc[p].from = <<e, n>>
        BY <2>3 DEF Below
      <3>2. PICK v \in victims : i \in Tree(place, v)
        <4> HIDE DEF victims
        <4>1. PICK S : place' = Remove(place, S) /\ S \subseteq UNION {Tree(place, x) : x \in victims}
          BY <1>5 DEF Cut
        <4>2. i \in S
          BY <1>1, <4>1 DEF Remove
        <4> QED BY <4>1, <4>2
      <3>3. PICK d \in Dirs : place[d] = <<Top, e>> /\ v \in Inodes /\ place[v] = <<d, n>>
        <4>1. v \in Resolve(place, <<e, n>>)
          BY <3>1 DEF Named
        <4> QED BY <4>1, ResolvesLong
      <3>4. d = row[e].root
        BY <1>1, <1>6, <3>3, AtOnce DEF Inodes
      <3>5. v = proc[p].i
        BY <1>2, <1>3, <1>8, <3>1, <3>3, <3>4 DEF Knows, Payload
      <3>6. i = v
        BY <1>1, <1>6, <3>2, <3>3, <3>4 DEF Tree, Children
      <3> QED BY <2>1, <3>5, <3>6 DEF Asked
    <2> QED BY <1>4, <1>8, <2>2, <2>3
  <1> QED BY <1>7, <1>8

\* What the recovery of an entry destroys of a payload.
LEMMA RecoveryAsked ==
  ASSUME Inv, NEW pl, Good(pl), NEW e \in Entries, NEW r \in Inodes, r = row[e].root,
         pl[r] = <<Top, e>>, NEW i \in Tree(pl, r), NEW f \in Entries, i \in RecoveryPurges(pl, f)
  PROVE  \/ row[e].state = "deleting" /\ row[e].op \in {i, r}
         \/ i = r /\ i \in Dirs /\ Children(pl, i) \subseteq {row[e].op}
  <1>1. Top \notin Inodes /\ pl[r][1] = Top
    BY ConstantsAssumption
  <1>2. i \in Inodes /\ (i = r \/ pl[i][1] = r)
    BY DEF Tree, Children
  <1> DEFINE op == row[f].op
             left == Remove(pl, OperationTree(pl, f))
  <1>3. ASSUME NEW x, x \in OperationTree(pl, f)
        PROVE  /\ row[f].state = "deleting" /\ op \in Inodes /\ x \in Tree(pl, op)
               /\ pl[op] = <<Top, f>> \/ (pl[op][1] \in Inodes /\ pl[pl[op][1]] = <<Top, f>>)
    BY <1>3 DEF OperationTree, Inv, Filled, At
  <1>4. CASE i \in OperationTree(pl, f)
    <2>1. op = r \/ pl[op][1] = r
      BY <1>3, <1>4, TreesApart
    <2>2. f = e
      BY <1>1, <1>3, <1>4, <2>1
    <2>3. op \in {i, r}
      BY <1>1, <1>2, <1>3, <1>4, <2>1 DEF Tree, Children
    <2> QED BY <1>3, <1>4, <2>2, <2>3
  <1>5. CASE i \notin OperationTree(pl, f)
    <2>1. i = row[f].root /\ InSlot(left, f) /\ EmptyDir(left, i)
      BY <1>5 DEF RecoveryPurges
    <2>2. left[i] = <<Top, f>> /\ left[i] = pl[i]
      BY <1>2, <1>5, <2>1 DEF InSlot, Remove
    <2>3. i = r /\ f = e
      BY <1>1, <1>2, <2>2
    <2>4. ASSUME NEW c \in Children(pl, i)
          PROVE  c \in OperationTree(pl, f)
      BY <2>1, <2>4 DEF EmptyDir, Children, Remove
    <2>5. ASSUME NEW c \in Children(pl, i), c # op
          PROVE  row[f].state = "deleting" /\ op = i
      BY <2>4, <2>5, <1>3 DEF Tree, Children
    <2> QED BY <2>1, <2>3, <2>5 DEF EmptyDir
  <1> QED BY <1>4, <1>5

LEMMA RecoverEntryAsked ==
  ASSUME Inv, NEW e, NEW i, Payload(e, i), NEW f \in Entries, RecoverEntry(f), place'[i] = Gone
  PROVE  Asked(e, i)
  <1>1. /\ i \in Inodes /\ place[i] # Gone /\ e \in Entries
        /\ row[e].root \in Inodes /\ place[row[e].root] = <<Top, e>>
        /\ i \in Tree(place, row[e].root)
    BY PayloadIsThere DEF Payload
  <1>2. i \in RecoveryPurges(place, f)
    BY <1>1 DEF RecoverEntry, Remove
  <1>3. Good(place)
    BY DEF Inv
  <1> QED BY <1>1, <1>2, <1>3, RecoveryAsked DEF Asked

\* No payload is an orphan: its entry expects it.
LEMMA NoOrphan ==
  ASSUME Inv, NEW e, NEW i, Payload(e, i), NEW x \in Tree(place, row[e].root)
  PROVE  x \notin Orphans
  <1>1. /\ e \in Entries /\ row[e].root \in Inodes /\ place[row[e].root] = <<Top, e>>
        /\ Live(row[e]) /\ InSlot(place, e)
    BY PayloadIsThere DEF Payload
  <1>2. Top \notin Inodes /\ Apart(place)
    BY ConstantsAssumption DEF Inv, Good
  <1> SUFFICES ASSUME x \in Orphans PROVE FALSE
    OBVIOUS
  <1>3. PICK j \in Inodes, g \in Entries :
           /\ x \in Tree(place, j) /\ place[j] = <<Top, g>>
           /\ ~(Expected(g) /\ row[g].root = j)
    BY DEF Orphans
  <1>4. j = row[e].root
    <2>1. place[j][1] # row[e].root
      BY <1>1, <1>2, <1>3
    <2> QED BY <1>1, <1>3, <2>1, TreesApart
  <1>5. g = e
    BY <1>1, <1>3, <1>4
  <1> QED BY <1>1, <1>3, <1>4, <1>5 DEF Expected

LEMMA RestartAsked ==
  ASSUME Inv, NEW e, NEW i, Payload(e, i), Restart, place'[i] = Gone
  PROVE  Asked(e, i)
  <1>1. /\ i \in Inodes /\ place[i] # Gone /\ e \in Entries
        /\ row[e].root \in Inodes /\ place[row[e].root] = <<Top, e>>
        /\ i \in Tree(place, row[e].root) /\ row[e].root \in Tree(place, row[e].root)
    BY PayloadIsThere DEF Payload, Tree
  <1> DEFINE kept == Remove(place, Orphans)
             r == row[e].root
  <1>2. \A x \in Tree(place, r) : x \in Inodes /\ kept[x] = place[x]
    BY <1>1, NoOrphan DEF Remove, Tree, Children
  <1>3. Good(kept)
    <2>1. Good(place) /\ {} \in SUBSET Entries
      BY DEF Inv
    <2> QED BY <2>1, RemoveKeeps
  <1>4. i \in Tree(kept, r) /\ Children(place, r) \subseteq Children(kept, r) /\ kept[r] = <<Top, e>>
    BY <1>1, <1>2 DEF Tree, Children
  <1>5. PICK f \in Entries : i \in RecoveryPurges(kept, f)
    <2>1. kept[i] # Gone
      BY <1>1, <1>2
    <2>2. place' = Remove(kept, UNION {RecoveryPurges(kept, x) : x \in {y \in Entries : Recoverable(y)}})
      BY DEF Restart
    <2> HIDE DEF kept
    <2> QED BY <1>1, <2>1, <2>2 DEF Remove
  <1>6. \/ row[e].state = "deleting" /\ row[e].op \in {i, r}
        \/ i = r /\ i \in Dirs /\ Children(kept, i) \subseteq {row[e].op}
    <2> HIDE DEF kept
    <2> QED BY <1>1, <1>3, <1>4, <1>5, RecoveryAsked
  <1> QED
    <2> HIDE DEF kept
    <2> QED BY <1>4, <1>6 DEF Asked

\* A mount sees no payload.
LEMMA EditSpares ==
  ASSUME Inv, NEW e, NEW i, Payload(e, i), NEW j \in Inodes, Edit(j)
  PROVE  place'[i] # Gone
  <1>1. /\ i \in Inodes /\ place[i] # Gone /\ place[i] # Unborn /\ e \in Entries
        /\ row[e].root \in Inodes /\ place[row[e].root] = <<Top, e>>
        /\ i = row[e].root \/ (row[e].root \in Dirs /\ place[i][1] = row[e].root)
    BY PayloadIsThere
  <1>2. place[i] \notin VisiblePlaces
    <2>1. Top \notin Inodes /\ e \notin Names
      BY <1>1, ConstantsAssumption
    <2> QED BY <1>1, <2>1 DEF VisiblePlaces, VisibleDirs
  <1>3. i # j
    BY <1>1, <1>2 DEF Edit
  <1>4. CASE \E q \in VisiblePlaces :
               place' = [x \in Inodes |-> IF x = j THEN q ELSE IF place[x] = q THEN Gone ELSE place[x]]
    BY <1>1, <1>2, <1>3, <1>4
  <1>5. CASE place' = [place EXCEPT ![j] = Gone]
    BY <1>1, <1>3, <1>5 DEF Inv, Good
  <1> QED BY <1>4, <1>5 DEF Edit

\* trash.go:361-402, 641-721 and 787-842: what is in the trash is lost only to
\* a permanent deletion that named it, in whatever order requests, recovery,
\* restarts and mounts take their steps.
THEOREM PurgedOnlyOnRequestHolds == Outlasting = {} => (Spec => PurgedOnlyOnRequest)
  <1> SUFFICES ASSUME Outlasting = {} PROVE Spec => PurgedOnlyOnRequest
    OBVIOUS
  <1> DEFINE Spared ==
        \A e \in Entries : Live(row[e]) /\ InSlot(place, e) =>
          \A i \in Tree(place, row[e].root) : place'[i] = Gone =>
              \/ row[e].state = "deleting" /\ row[e].op \in {i, row[e].root}
              \/ i = row[e].root /\ i \in Dirs /\ Children(place, i) \subseteq {row[e].op}
  <1>1. ASSUME Inv, [Next]_vars PROVE Spared
    <2> SUFFICES ASSUME NEW e \in Entries, Live(row[e]), InSlot(place, e),
                        NEW i \in Tree(place, row[e].root), place'[i] = Gone
                 PROVE  Asked(e, i)
      BY DEF Asked
    <2>1. Payload(e, i)
      BY DEF Payload
    <2>2. place' # place
      BY <1>1, <2>1, PayloadIsThere
    <2>3. ASSUME NEW p \in Requests, CreateStep(p)
          PROVE  Asked(e, i)
      BY <1>1, <2>1, <2>2, <2>3, StowSpares DEF CreateStep, StartCreate, CreateRow, Stowed, UndoCreate
    <2>4. ASSUME NEW p \in Requests, EntryStep(p)
          PROVE  Asked(e, i)
      <3>1. CASE ClearTarget(p) \/ EnsureParent(p) \/ MoveOut(p)
        BY <1>1, <2>1, <3>1, ClearTargetSpares, EnsureParentSpares, MoveOutSpares
      <3>2. CASE MergeChild(p) \/ MergeMove(p) \/ MergeEnd(p)
        BY <1>1, <2>1, <3>2, MergeChildSpares, MergeMoveSpares, MergeEndAsked
      <3>3. CASE PurgePayload(p) \/ Finish(p)
        BY <1>1, <2>1, <3>3, PurgePayloadAsked, FinishAsked
      <3>4. CASE \/ LookupPayload(p) \/ DropEntry(p) \/ Decide(p) \/ Claim(p)
                 \/ ListChildren(p) \/ RemoveEntry(p)
        BY <2>2, <3>4 DEF LookupPayload, DropEntry, Decide, Claim, ListChildren, RemoveEntry
      <3> QED BY <2>4, <3>1, <3>2, <3>3, <3>4 DEF EntryStep
    <2>5. CASE \E p \in Requests : StartOnEntry(p)
      BY <2>2, <2>5 DEF StartOnEntry
    <2>6. CASE UNCHANGED vars
      BY <2>2, <2>6 DEF vars
    <2> QED BY <1>1, <2>1, <2>3, <2>4, <2>5, <2>6, RecoverEntryAsked, RestartAsked, EditSpares DEF Next
  <1>2. Inv /\ [Next]_vars => [Spared]_vars
    BY <1>1
  <1> QED BY <1>2, Invariant, PTL DEF Spec, PurgedOnlyOnRequest


=============================================================================
