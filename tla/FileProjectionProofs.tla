------------------------- MODULE FileProjectionProofs -------------------------
(***************************************************************************)
(* The projection never misleads about what the worker found, never rolls  *)
(* back, and keeps its rows, for any number of files, names, requests and  *)
(* workers.                                                                *)
(*                                                                         *)
(* A file keeps its name until it is moved or deleted, a file that was     *)
(* deleted never comes back, and generations only grow: an operation that  *)
(* remembers a file, a name and a generation can lose them in these three  *)
(* ways only, and Fit says what is left of its knowledge.                  *)
(***************************************************************************)
EXTENDS FileProjection, TLAPS

\* Inode i has left the name it was created at.
Left(i) == ~Live(i) \/ i \in moved

\* What every step of an operation relies on when it is taken.
Fit(q) ==
  LET s == proc[q] IN
  /\ s.pc # "idle" => s.name \in Names
  /\ s.on.ino # 0 => s.on.gen > 0 /\ (s.pc # "cloneCommit" => gen[s.on.ino] >= s.on.gen)
  /\ s.pc = "commit" => s.of.ino # 0
  /\ s.pc \in {"read", "guard", "stamp", "cloneCommit", "copyRow", "unlink", "forget"} =>
       s.on.ino # 0
  /\ s.pc \in {"read", "guard"} => s.op \in {"pic", "meta"}
  /\ s.pc = "stamp" => s.op \in {"hash", "pic", "meta"}
  /\ s.pc \in {"clone", "cloneCommit", "rename", "copyRow"} => s.to \in Names /\ s.of.ino # 0
  /\ s.pc = "rename" /\ s.on.ino # 0 => at[s.to] = s.on.ino \/ Left(s.on.ino)
  /\ s.pc = "unlink" => at[s.name] = s.on.ino \/ Left(s.on.ino)
  /\ s.pc = "forget" => Left(s.on.ino)

\* What a worker job knows of the file it has collected.
WorkerFit(q) ==
  LET s == proc[q] IN
  /\ s.pc \in {"idle", "read", "guard", "stamp"} /\ (s.pc = "stamp" => s.op # "hash")
  /\ s.pc = "read" => at[s.name] = s.on.ino \/ Left(s.on.ino)
  /\ s.pc = "guard" => s.of = s.on \/ Left(s.on.ino) \/ gen[s.on.ino] > s.on.gen
  /\ s.pc = "stamp" => s.of = s.on \/ s.on.ino \in moved

\* A file has one name, and what has a name was published.
Placed ==
  /\ \A n, m \in Names : at[n] = at[m] /\ at[n] # 0 => n = m
  /\ \A n \in Names : at[n] # 0 => gen[at[n]] > 0

\* What a row says wrong of the worker's findings was probed for a file that moved.
Probed(i) == {row[i].pic.probed, row[i].meta.probed}
Told == \A i \in Inodes : Probed(i) \subseteq {0} \cup moved

IInv ==
  /\ TypeOK /\ Placed /\ Told
  /\ \A q \in Procs : Fit(q)
  /\ \A q \in Workers : WorkerFit(q)

-----------------------------------------------------------------------------
LEMMA VersionType ==
  ASSUME TypeOK, NEW i \in Inodes \cup {0}
  PROVE  Version(i) \in Versions /\ Version(i).ino = i /\ (i # 0 => Version(i).gen = gen[i])
  BY InodesNumbered, GenBound DEF TypeOK, Version, Versions

LEMMA InitHolds == Init => IInv
  BY InodesNumbered, NamesDistinct, GenBound
  DEF Init, IInv, TypeOK, Placed, Told, Fit, WorkerFit, Left, Blank, NoFacts, Idle, NoVersion,
      Probed, Procs, Versions, Rows, Truths, Facts, Pcs, Ops

\* The row that a stamp writes.
LEMMA Stamped ==
  ASSUME TypeOK, NEW p \in Procs, proc[p].op \in {"hash", "pic", "meta"},
         NEW i \in Inodes, i = proc[p].on.ino, UpsertMetadata(p)
  PROVE  /\ row' \in [Inodes -> Rows]
         /\ \A j \in Inodes \ {i} : row'[j] = row[j]
         /\ \/ row'[i] = row[i]
            \/ /\ row'[i].gen = proc[p].on.gen /\ proc[p].on.gen >= row[i].gen
               /\ \/ Probed(i)' \subseteq {0} \cup Probed(i)
                  \/ /\ p \in Workers /\ proc[p].of # proc[p].on
                     /\ Probed(i)' \subseteq {0, i} \cup Probed(i)
  <1> DEFINE v == proc[p].on
             b == Base(i, v.gen)
             truth == Truth(proc[p].of, v)
             facts == [truth |-> truth,
                       probed |-> IF p \in Workers /\ truth = "stale" THEN i ELSE 0]
  <1>1. v.gen \in 0..MaxGen /\ row[i] \in Rows /\ row[i].gen \in Nat /\ row \in [Inodes -> Rows]
    BY GenBound DEF TypeOK, Versions, Rows
  <1>2. /\ b \in Rows /\ b.gen = v.gen
        /\ {b.pic.probed, b.meta.probed} \subseteq {0} \cup Probed(i)
    BY <1>1 DEF Base, Blank, Rows, NoFacts, Facts, Truths, Probed
  <1>3. truth \in Truths /\ facts \in Facts /\ (truth = "stale" => proc[p].of # v)
    BY DEF Truth, Truths, Facts
  <1> DEFINE d == Described(b, p)
  <1>4. /\ proc[p].op = "hash" => d = [Blank(b.gen) EXCEPT !.hash = truth]
        /\ proc[p].op = "pic" => d = [b EXCEPT !.pic = facts]
        /\ proc[p].op = "meta" => d = [b EXCEPT !.meta = facts]
    BY DEF Described
  <1>5. facts.probed = 0 \/ (p \in Workers /\ proc[p].of # v /\ facts.probed = i)
    BY <1>3
  <1>6. row' = [row EXCEPT ![i] = IF Refused(i, v.gen) THEN @ ELSE d]
    BY DEF UpsertMetadata
  <1>7. ~Refused(i, v.gen) => v.gen >= row[i].gen
    BY <1>1 DEF Refused
  <1> HIDE DEF b, facts, d, truth
  <1>8. d \in Rows /\ d.gen = v.gen
    BY <1>2, <1>3, <1>4 DEF Blank, Rows, NoFacts, Facts, Truths
  <1>9. {d.pic.probed, d.meta.probed} \subseteq {0, facts.probed} \cup {b.pic.probed, b.meta.probed}
    BY <1>2, <1>3, <1>4 DEF Blank, Rows, NoFacts, Facts
  <1>10. /\ row' \in [Inodes -> Rows] /\ \A j \in Inodes \ {i} : row'[j] = row[j]
         /\ row'[i] = row[i] \/ (row'[i] = d /\ v.gen >= row[i].gen)
    BY <1>1, <1>6, <1>7, <1>8
  <1>11. row'[i] = d => Probed(i)' \subseteq {0, facts.probed} \cup Probed(i)
    BY <1>2, <1>9 DEF Probed
  <1> QED BY <1>5, <1>8, <1>10, <1>11

-----------------------------------------------------------------------------
\* What a step may do to names and generations.
Steady ==
  /\ moved \subseteq moved'
  /\ \A i \in Inodes : gen'[i] >= gen[i]
  /\ \A i \in Inodes : gen[i] > 0 /\ Left(i) => Left(i)'
  /\ \A n \in Names, i \in Inodes : at[n] = i => at'[n] = i \/ Left(i)'

LEMMA SteadyIfSame ==
  ASSUME TypeOK, Placed, UNCHANGED <<at, gen, moved>>
  PROVE  Steady /\ Placed'
  BY GenBound DEF TypeOK, Placed, Steady, Left, Live

\* A file that has no name and no generation yet is put at a free name.
LEMMA SteadyIfCreated ==
  ASSUME TypeOK, Placed, NEW n \in Names, at[n] = 0, NEW i \in Inodes, gen[i] = 0,
         at' = [at EXCEPT ![n] = i], gen' = [gen EXCEPT ![i] = 1], moved' = moved
  PROVE  Steady /\ Placed'
  <1> USE GenBound, InodesNumbered
  <1>1. \A m \in Names : at[m] # i
    BY DEF Placed
  <1>2. \A j \in Inodes : gen'[j] >= gen[j]
    BY DEF TypeOK
  <1>3. \A m \in Names, j \in Inodes : at[m] = j => at'[m] = j
    BY DEF TypeOK
  <1>4. ASSUME NEW j \in Inodes, gen[j] > 0, Left(j)
        PROVE  Left(j)'
    BY <1>4 DEF TypeOK, Left, Live
  <1>5. Placed'
    BY <1>1 DEF TypeOK, Placed
  <1> QED BY <1>2, <1>3, <1>4, <1>5 DEF Steady

\* A file gets a later generation.
LEMMA SteadyIfWritten ==
  ASSUME TypeOK, Placed, NEW i \in Inodes, gen' = [gen EXCEPT ![i] = gen[i] + 1],
         UNCHANGED <<at, moved>>
  PROVE  Steady /\ Placed'
  BY GenBound, InodesNumbered DEF TypeOK, Placed, Steady, Left, Live

\* A version is published at a free name or over the generation before it.
LEMMA SteadyIfPublished ==
  ASSUME TypeOK, Placed, NEW v \in Versions, v.ino \in Inodes, NEW n \in Names,
         CommitAllowed(v, n), PublishVersion(v, n), moved' = moved
  PROVE  /\ Steady /\ Placed'
         /\ at' \in [Names -> Inodes \cup {0}] /\ gen' \in [Inodes -> 0..MaxGen]
         /\ v.gen > 0 /\ gen'[v.ino] = v.gen
  <1>1. v.gen \in 0..MaxGen /\ gen[v.ino] \in Nat /\ gen[v.ino] + 1 = v.gen
    BY GenBound DEF TypeOK, Versions, CommitAllowed
  <1>2. gen' = [gen EXCEPT ![v.ino] = v.gen]
    BY DEF PublishVersion
  <1>3. at' \in [Names -> Inodes \cup {0}] /\ gen' \in [Inodes -> 0..MaxGen] /\ gen'[v.ino] = v.gen
    BY <1>1, <1>2 DEF TypeOK, PublishVersion
  <1>4. v.gen > 0
    BY <1>1
  <1>5. CASE v.gen = 1
    <2>1. at[n] = 0 /\ gen[v.ino] = 0 /\ at' = [at EXCEPT ![n] = v.ino]
      BY <1>1, <1>5 DEF CommitAllowed, PublishVersion
    <2> QED BY <1>2, <1>3, <1>4, <1>5, <2>1, SteadyIfCreated
  <1>6. CASE v.gen # 1
    <2>1. at' = at /\ gen' = [gen EXCEPT ![v.ino] = gen[v.ino] + 1]
      BY <1>1, <1>2, <1>6 DEF PublishVersion
    <2> QED BY <1>3, <1>4, <2>1, SteadyIfWritten
  <1> QED BY <1>5, <1>6

LEMMA SteadyIfRenamed ==
  ASSUME TypeOK, Placed, NEW i \in Inodes, Live(i), NEW m \in Names,
         at' = Renamed(i, m), moved' = moved \cup {i}, gen' = gen
  PROVE  /\ Steady /\ Placed'
         /\ \A j \in Inodes \ {i} : at[m] = j => ~Live(j)'
  <1> USE GenBound, InodesNumbered
  <1>1. \A n \in Names : at'[n] = IF n = m THEN i ELSE IF at[n] = i THEN 0 ELSE at[n]
    BY DEF Renamed
  <1>2. ASSUME NEW j \in Inodes \ {i}, at[m] = j
        PROVE  ~Live(j)'
    BY <1>1, <1>2 DEF Placed, Live, TypeOK
  <1>3. ASSUME NEW n \in Names, NEW j \in Inodes, at[n] = j
        PROVE  at'[n] = j \/ Left(j)'
    BY <1>1, <1>2, <1>3 DEF TypeOK, Left
  <1>4. ASSUME NEW j \in Inodes, gen[j] > 0, Left(j)
        PROVE  Left(j)'
    BY <1>1, <1>4 DEF TypeOK, Left, Live
  <1>5. Placed'
    <2>1. PICK k \in Names : at[k] = i
      BY DEF Live
    <2>2. gen[i] > 0
      BY <2>1 DEF Placed, TypeOK
    <2>3. \A n, k2 \in Names : at'[n] = at'[k2] /\ at'[n] # 0 => n = k2
      BY <1>1, <2>1 DEF TypeOK, Placed
    <2>4. \A n \in Names : at'[n] # 0 => gen[at'[n]] > 0
      BY <1>1, <2>2 DEF TypeOK, Placed
    <2> QED BY <2>3, <2>4 DEF Placed
  <1>6. \A j \in Inodes : gen'[j] >= gen[j]
    BY DEF TypeOK
  <1> QED BY <1>2, <1>3, <1>4, <1>5, <1>6 DEF Steady

LEMMA SteadyIfUnlinked ==
  ASSUME TypeOK, Placed, NEW n \in Names, NEW i \in Inodes, at[n] = i,
         at' = [at EXCEPT ![n] = 0], UNCHANGED <<gen, moved>>
  PROVE  /\ Steady /\ Placed'
         /\ ~Live(i)'
  <1> USE GenBound, InodesNumbered
  <1>1. ~Live(i)'
    BY DEF TypeOK, Placed, Live
  <1>2. ASSUME NEW m \in Names, NEW j \in Inodes, at[m] = j
        PROVE  at'[m] = j \/ Left(j)'
    BY <1>1, <1>2 DEF TypeOK, Left
  <1>3. ASSUME NEW j \in Inodes, gen[j] > 0, Left(j)
        PROVE  Left(j)'
    BY <1>3 DEF TypeOK, Left, Live
  <1>4. Placed' /\ \A j \in Inodes : gen'[j] >= gen[j]
    BY DEF TypeOK, Placed
  <1> QED BY <1>1, <1>2, <1>3, <1>4 DEF Steady

-----------------------------------------------------------------------------
\* The states an operation can be in.
OpStates ==
  [pc : Pcs, op : Ops, name : Names \cup {NoName}, to : Names \cup {NoName},
   of : Versions, on : Versions]

LEMMA IdleFits ==
  ASSUME NEW p \in Procs, proc'[p] = Idle
  PROVE  Idle \in OpStates /\ Fit(p)' /\ WorkerFit(p)'
  <1>1. Idle \in OpStates
    BY GenBound DEF Idle, OpStates, NoVersion, Versions, Pcs, Ops
  <1>2. Fit(p)' /\ WorkerFit(p)'
    BY DEF Fit, WorkerFit, Idle, NoVersion
  <1> QED BY <1>1, <1>2

\* An operation that does not step keeps what it relies on.
LEMMA OthersFit ==
  ASSUME TypeOK, TypeOK', Steady, NEW q \in Procs, proc'[q] = proc[q], Fit(q)
  PROVE  Fit(q)' /\ (WorkerFit(q) => WorkerFit(q)')
  <1>1. PICK i \in Inodes \cup {0} : i = proc[q].on.ino
    BY DEF TypeOK, Versions
  <1>2. i # 0 => /\ gen[i] \in Nat /\ gen'[i] \in Nat /\ gen'[i] >= gen[i]
                 /\ gen[i] > 0 /\ Left(i) => Left(i)'
                 /\ \A n \in Names : at[n] = i => at'[n] = i \/ Left(i)'
                 /\ i \in moved => i \in moved'
    BY GenBound DEF TypeOK, Steady
  <1>3. proc[q].on.gen \in Nat
    BY GenBound DEF TypeOK, Versions
  <1>4. Fit(q)'
    BY <1>1, <1>2, <1>3 DEF Fit
  <1>5. WorkerFit(q) => WorkerFit(q)'
    BY <1>1, <1>2, <1>3 DEF Fit, WorkerFit
  <1> QED BY <1>4, <1>5

\* A step whose own operation and whose rows are in order is in order.
LEMMA Kept ==
  ASSUME IInv, NEW p \in Procs, TypeOK', Steady, Placed', Told',
         \A q \in Procs \ {p} : proc'[q] = proc[q],
         Fit(p)', p \in Workers => WorkerFit(p)'
  PROVE  IInv'
  <1>1. \A q \in Procs : Fit(q)'
    BY OthersFit DEF IInv
  <1>2. \A q \in Workers : WorkerFit(q)'
    BY OthersFit DEF IInv, Procs
  <1> QED BY <1>1, <1>2 DEF IInv

\* Rows that take what they say from each other go on telling the truth.
LEMMA ToldIfSame ==
  ASSUME Told, moved \subseteq moved',
         \A i \in Inodes : \E j \in Inodes : Probed(i)' \subseteq {0} \cup Probed(j)
  PROVE  Told'
  BY DEF Told

LEMMA ToldIfUnchanged ==
  ASSUME Told, moved \subseteq moved', row' = row
  PROVE  Told'
  BY ToldIfSame DEF Probed

\* A step that only goes on with its operation.
LEMMA Quiet ==
  ASSUME IInv, NEW p \in Procs, UNCHANGED <<at, gen, row, moved>>,
         \E s \in OpStates : proc' = [proc EXCEPT ![p] = s],
         Fit(p)', p \in Workers => WorkerFit(p)'
  PROVE  IInv'
  <1>1. TypeOK'
    BY DEF IInv, TypeOK, OpStates
  <1>2. Steady /\ Placed'
    BY SteadyIfSame DEF IInv
  <1>3. Told'
    BY ToldIfUnchanged DEF IInv
  <1>4. \A q \in Procs \ {p} : proc'[q] = proc[q]
    BY DEF IInv, TypeOK
  <1> QED BY <1>1, <1>2, <1>3, <1>4, Kept

\* A step that gives its operation up.
LEMMA QuietIfDone ==
  ASSUME IInv, NEW p \in Procs, UNCHANGED <<at, gen, row, moved>>, Done(p)
  PROVE  IInv'
  <1>1. proc'[p] = Idle
    BY DEF Done, IInv, TypeOK
  <1> QED BY <1>1, IdleFits, Quiet DEF Done

-----------------------------------------------------------------------------
\* Steps that only go on with their operation.

LEMMA StartUploadKeeps ==
  ASSUME IInv, NEW p \in Requests, NEW n \in Names, NEW i \in Inodes, StartUpload(p, n, i)
  PROVE  IInv'
  <1> DEFINE s == [pc |-> "commit", op |-> "upload", name |-> n, to |-> NoName,
                   of |-> [ino |-> i, gen |-> gen[i] + 1], on |-> NoVersion]
  <1>1. p \in Procs /\ p \notin Workers
    BY ProcsDistinct DEF Procs
  <1>2. gen[i] \in Nat /\ gen[i] + 1 \in 0..MaxGen
    BY GenBound DEF StartUpload, Captures, IInv, TypeOK
  <1>4. s \in OpStates
    BY <1>2, GenBound DEF OpStates, Pcs, Ops, Versions, NoVersion
  <1>5. proc' = [proc EXCEPT ![p] = s] /\ proc'[p] = s
    BY <1>1 DEF StartUpload, IInv, TypeOK
  <1>6. Fit(p)'
    BY <1>5, InodesNumbered DEF Fit, NoVersion
  <1>7. UNCHANGED <<at, gen, row, moved>>
    BY DEF StartUpload
  <1> HIDE DEF s
  <1> QED BY <1>1, <1>4, <1>5, <1>6, <1>7, Quiet

LEMMA ResolvePublishedKeeps ==
  ASSUME IInv, NEW p \in Procs, ResolvePublished(p)
  PROVE  IInv'
  <1>1. proc[p] \in OpStates /\ proc[p].pc = "resolve" /\ Fit(p) /\ (p \in Workers => WorkerFit(p))
    BY DEF IInv, TypeOK, OpStates, ResolvePublished, At
  <1>2. UNCHANGED <<at, gen, row, moved>>
    BY DEF ResolvePublished
  <1>3. CASE Done(p)
    BY <1>2, <1>3, QuietIfDone
  <1>4. ASSUME NEW n \in Names, proc' = [proc EXCEPT ![p].pc = "upsert", ![p].name = n]
        PROVE  IInv'
    <2> DEFINE s == [proc[p] EXCEPT !.pc = "upsert", !.name = n]
    <2>1. s \in OpStates
      BY <1>1 DEF OpStates, Pcs
    <2>2. proc' = [proc EXCEPT ![p] = s] /\ proc'[p] = s
      BY <1>4 DEF IInv, TypeOK
    <2>3. Fit(p)'
      BY <1>1, <1>2, <2>2 DEF Fit, OpStates
    <2>4. p \notin Workers
      BY <1>1 DEF WorkerFit
    <2> HIDE DEF s
    <2> QED BY <1>2, <2>1, <2>2, <2>3, <2>4, Quiet
  <1> QED BY <1>3, <1>4 DEF ResolvePublished

\* A pathname is resolved again, and what it names now will be stamped.
LEMMA ResolveAgainKeeps ==
  ASSUME IInv, NEW p \in Procs, proc[p].pc \in {"upsert", "attach"}, NEW op \in {"hash", "pic"},
         at[proc[p].name] # 0, UNCHANGED <<at, gen, row, moved>>,
         proc' = [proc EXCEPT ![p].pc = "stamp", ![p].op = op, ![p].on = Version(at[proc[p].name])]
  PROVE  IInv'
  <1>1. proc[p] \in OpStates /\ Fit(p) /\ (p \in Workers => WorkerFit(p))
    BY DEF IInv, TypeOK, OpStates
  <1>2. at[proc[p].name] \in Inodes /\ gen[at[proc[p].name]] > 0
    BY <1>1 DEF IInv, TypeOK, Fit, Placed
  <1>3. PICK v \in Versions : v = Version(at[proc[p].name])
    BY <1>2, VersionType DEF IInv
  <1>4. v.ino # 0 /\ v.gen > 0 /\ gen[v.ino] >= v.gen
    BY <1>2, <1>3, VersionType, GenBound DEF IInv, TypeOK
  <1> DEFINE s == [proc[p] EXCEPT !.pc = "stamp", !.op = op, !.on = v]
  <1>5. s \in OpStates
    BY <1>1 DEF OpStates, Pcs, Ops
  <1>6. proc' = [proc EXCEPT ![p] = s] /\ proc'[p] = s
    BY <1>3 DEF IInv, TypeOK
  <1>7. Fit(p)'
    BY <1>1, <1>4, <1>6 DEF Fit, OpStates
  <1>8. p \notin Workers
    BY <1>1 DEF WorkerFit
  <1> HIDE DEF s
  <1> QED BY <1>5, <1>6, <1>7, <1>8, Quiet

LEMMA UpsertKeeps ==
  ASSUME IInv, NEW p \in Procs, Upsert(p)
  PROVE  IInv'
  <1>1. UNCHANGED <<at, gen, row, moved>> /\ proc[p].pc = "upsert"
    BY DEF Upsert, At
  <1>2. CASE Done(p)
    BY <1>1, <1>2, QuietIfDone
  <1>3. CASE ~Done(p)
    BY <1>1, <1>3, ResolveAgainKeeps DEF Upsert
  <1> QED BY <1>2, <1>3

LEMMA AttachKeeps ==
  ASSUME IInv, NEW p \in Procs, Attach(p)
  PROVE  IInv'
  <1>1. UNCHANGED <<at, gen, row, moved>> /\ proc[p].pc = "attach"
    BY DEF Attach, At
  <1>2. CASE Done(p)
    BY <1>1, <1>2, QuietIfDone
  <1>3. CASE ~Done(p)
    BY <1>1, <1>3, ResolveAgainKeeps DEF Attach
  <1> QED BY <1>2, <1>3

LEMMA CollectKeeps ==
  ASSUME IInv, NEW p \in Workers, NEW n \in Names, NEW job \in {"pic", "meta"}, Collect(p, n, job)
  PROVE  IInv'
  <1>1. p \in Procs
    BY DEF Procs
  <1>2. at[n] \in Inodes /\ gen[at[n]] > 0
    BY DEF Collect, IInv, TypeOK, Placed
  <1>3. PICK v \in Versions : v = Version(at[n])
    BY <1>2, VersionType DEF IInv
  <1>4. v.ino = at[n] /\ v.ino # 0 /\ v.gen > 0 /\ gen[v.ino] >= v.gen
    <2>1. v.ino = at[n] /\ at[n] # 0 /\ v.gen = gen[at[n]]
      BY <1>2, <1>3, InodesNumbered DEF Version
    <2> QED BY <1>2, <2>1, GenBound DEF IInv, TypeOK
  <1> DEFINE s == [pc |-> "read", op |-> job, name |-> n, to |-> NoName,
                   of |-> NoVersion, on |-> v]
  <1>5. s \in OpStates
    BY GenBound DEF OpStates, Pcs, Ops, NoVersion, Versions
  <1>6. proc' = [proc EXCEPT ![p] = s] /\ proc'[p] = s
    BY <1>1, <1>3 DEF Collect, IInv, TypeOK
  <1>7. UNCHANGED <<at, gen, row, moved>>
    BY DEF Collect
  <1>8. Fit(p)' /\ WorkerFit(p)'
    BY <1>4, <1>6, <1>7 DEF Fit, WorkerFit
  <1> HIDE DEF s
  <1> QED BY <1>1, <1>5, <1>6, <1>7, <1>8, Quiet

\* What the worker reads is the version it has collected, or the file has left,
\* or has a later generation.
LEMMA ReadKeeps ==
  ASSUME IInv, NEW p \in Procs, Read(p)
  PROVE  IInv'
  <1>1. proc[p] \in OpStates /\ proc[p].pc = "read" /\ Fit(p) /\ (p \in Workers => WorkerFit(p))
    BY DEF IInv, TypeOK, OpStates, Read, At
  <1>2. UNCHANGED <<at, gen, row, moved>>
    BY DEF Read
  <1>3. at[proc[p].name] \in Inodes \cup {0}
    BY <1>1 DEF IInv, TypeOK, Fit
  <1>4. CASE Done(p)
    BY <1>2, <1>4, QuietIfDone
  <1>5. CASE ~Done(p)
    <2>1. PICK v \in Versions : v = Version(at[proc[p].name])
      BY <1>3, VersionType DEF IInv
    <2>2. v.ino = at[proc[p].name] /\ (v.ino # 0 => v.gen = gen[v.ino])
      BY <1>3, <2>1, VersionType DEF IInv
    <2> DEFINE s == [proc[p] EXCEPT !.pc = "guard", !.of = v]
    <2>3. v.ino # 0 /\ proc' = [proc EXCEPT ![p] = s] /\ proc'[p] = s
      BY <1>5, <2>1, <2>2 DEF Read, IInv, TypeOK
    <2>4. s \in OpStates
      BY <1>1 DEF OpStates, Pcs
    <2>5. Fit(p)'
      BY <1>1, <1>2, <2>3 DEF Fit, OpStates
    <2>6. v = proc[p].on \/ proc[p].on.ino # v.ino \/ gen[v.ino] > proc[p].on.gen
      <3>1. v = [ino |-> v.ino, gen |-> v.gen] /\ v.gen \in Nat
            /\ proc[p].on = [ino |-> proc[p].on.ino, gen |-> proc[p].on.gen]
            /\ proc[p].on.gen \in Nat
        BY <1>1, <2>1, GenBound DEF OpStates, Versions
      <3>2. v.ino = proc[p].on.ino => v.gen >= proc[p].on.gen /\ v.gen = gen[v.ino]
        BY <1>1, <2>2, <2>3 DEF Fit
      <3> QED BY <3>1, <3>2
    <2>7. p \in Workers => WorkerFit(p)'
      BY <1>1, <1>2, <2>2, <2>3, <2>6 DEF WorkerFit, OpStates, Left, Live
    <2> HIDE DEF s
    <2> QED BY <1>2, <2>3, <2>4, <2>5, <2>7, Quiet
  <1> QED BY <1>4, <1>5

LEMMA GuardKeeps ==
  ASSUME IInv, NEW p \in Procs, Guard(p)
  PROVE  IInv'
  <1>1. proc[p] \in OpStates /\ proc[p].pc = "guard" /\ Fit(p) /\ (p \in Workers => WorkerFit(p))
    BY DEF IInv, TypeOK, OpStates, Guard, At
  <1>2. UNCHANGED <<at, gen, row, moved>>
    BY DEF Guard
  <1>3. CASE Done(p)
    BY <1>2, <1>3, QuietIfDone
  <1>4. CASE ~Done(p)
    <2>0. Goto(p, "stamp") /\ Version(at[proc[p].name]) = proc[p].on
      BY <1>4 DEF Guard
    <2> DEFINE s == [proc[p] EXCEPT !.pc = "stamp"]
    <2>1. s \in OpStates
      BY <1>1 DEF OpStates, Pcs
    <2>2. proc' = [proc EXCEPT ![p] = s] /\ proc'[p] = s
      BY <2>0 DEF Goto, IInv, TypeOK
    <2>3. Fit(p)'
      BY <1>1, <1>2, <2>2 DEF Fit, OpStates
    <2>4. PICK i \in Inodes : i = proc[p].on.ino
      BY <1>1 DEF Fit, OpStates, Versions
    <2>5. at[proc[p].name] = i /\ gen[i] = proc[p].on.gen /\ gen[i] \in Nat
      <3>1. at[proc[p].name] \in Inodes \cup {0}
        BY <1>1 DEF IInv, TypeOK, Fit
      <3>2. at[proc[p].name] = i
        BY <2>0, <2>4, <3>1, VersionType DEF IInv
      <3> QED BY <2>0, <2>4, <3>2, InodesNumbered, VersionType, GenBound DEF IInv, TypeOK
    <2>6. Live(i)
      BY <1>1, <2>5 DEF Live, Fit
    <2>7. p \in Workers => WorkerFit(p)'
      <3>1. p \in Workers => proc[p].of = proc[p].on \/ i \in moved
        BY <1>1, <2>4, <2>5, <2>6 DEF WorkerFit, Left
      <3>2. s.pc = "stamp" /\ s.op = proc[p].op /\ s.of = proc[p].of /\ s.on = proc[p].on
        BY <1>1 DEF OpStates
      <3> HIDE DEF s
      <3> QED BY <1>1, <1>2, <2>2, <2>4, <3>1, <3>2 DEF Fit, WorkerFit
    <2> HIDE DEF s
    <2> QED BY <1>2, <2>1, <2>2, <2>3, <2>7, Quiet
  <1> QED BY <1>3, <1>4

LEMMA StartCopyKeeps ==
  ASSUME IInv, NEW p \in Requests, NEW n \in Names, NEW m \in Names, StartCopy(p, n, m)
  PROVE  IInv'
  <1>1. p \in Procs /\ p \notin Workers
    BY ProcsDistinct DEF Procs
  <1>2. at[n] \in Inodes
    BY DEF StartCopy, IInv, TypeOK
  <1>3. PICK v \in Versions : v = Version(at[n]) /\ v.ino = at[n]
    BY <1>2, VersionType DEF IInv
  <1> DEFINE s == [pc |-> "clone", op |-> "copy", name |-> n, to |-> m,
                   of |-> v, on |-> NoVersion]
  <1>4. s \in OpStates
    BY GenBound DEF OpStates, Pcs, Ops, NoVersion, Versions
  <1>5. proc' = [proc EXCEPT ![p] = s] /\ proc'[p] = s
    BY <1>1, <1>3 DEF StartCopy, IInv, TypeOK
  <1>6. Fit(p)'
    BY <1>2, <1>3, <1>5, InodesNumbered DEF Fit, NoVersion
  <1>7. UNCHANGED <<at, gen, row, moved>>
    BY DEF StartCopy
  <1> HIDE DEF s
  <1> QED BY <1>1, <1>4, <1>5, <1>6, <1>7, Quiet

LEMMA StartMoveKeeps ==
  ASSUME IInv, NEW p \in Requests, NEW n \in Names, NEW m \in Names,
         NEW op \in {"move", "moveNoReplace"}, StartMove(p, n, m, op)
  PROVE  IInv'
  <1>1. p \in Procs /\ p \notin Workers
    BY ProcsDistinct DEF Procs
  <1>2. at[n] \in Inodes /\ at[m] \in Inodes \cup {0}
    BY DEF StartMove, IInv, TypeOK
  <1>3. PICK v \in Versions : v = Version(at[n]) /\ v.ino = at[n]
    BY <1>2, VersionType DEF IInv
  <1>4. PICK t \in Versions : t = Version(at[m]) /\ t.ino = at[m]
    BY <1>2, VersionType DEF IInv
  <1>5. t.ino # 0 => t.gen > 0 /\ gen[t.ino] >= t.gen
    BY <1>2, <1>4, VersionType, GenBound DEF IInv, TypeOK, Placed
  <1> DEFINE s == [pc |-> "rename", op |-> op, name |-> n, to |-> m,
                   of |-> v, on |-> t]
  <1>6. s \in OpStates
    BY GenBound DEF OpStates, Pcs, Ops, NoVersion, Versions
  <1>7. proc' = [proc EXCEPT ![p] = s] /\ proc'[p] = s
    BY <1>1, <1>3, <1>4 DEF StartMove, IInv, TypeOK
  <1>8. UNCHANGED <<at, gen, row, moved>>
    BY DEF StartMove
  <1>9. Fit(p)'
    BY <1>2, <1>3, <1>4, <1>5, <1>7, <1>8, InodesNumbered DEF Fit
  <1> HIDE DEF s
  <1> QED BY <1>1, <1>6, <1>7, <1>8, <1>9, Quiet

LEMMA StartDeleteKeeps ==
  ASSUME IInv, NEW p \in Requests, NEW n \in Names, StartDelete(p, n)
  PROVE  IInv'
  <1>1. p \in Procs /\ p \notin Workers
    BY ProcsDistinct DEF Procs
  <1> DEFINE s == [pc |-> "lookup", op |-> "delete", name |-> n, to |-> NoName,
                   of |-> NoVersion, on |-> NoVersion]
  <1>3. s \in OpStates
    BY GenBound DEF OpStates, Pcs, Ops, NoVersion, Versions
  <1>4. proc' = [proc EXCEPT ![p] = s] /\ proc'[p] = s
    BY <1>1 DEF StartDelete, IInv, TypeOK
  <1>5. Fit(p)'
    BY <1>4 DEF Fit, NoVersion
  <1>6. UNCHANGED <<at, gen, row, moved>>
    BY DEF StartDelete
  <1> HIDE DEF s
  <1> QED BY <1>1, <1>3, <1>4, <1>5, <1>6, Quiet

LEMMA LookupVictimKeeps ==
  ASSUME IInv, NEW p \in Procs, LookupVictim(p)
  PROVE  IInv'
  <1>1. proc[p] \in OpStates /\ proc[p].pc = "lookup" /\ Fit(p) /\ (p \in Workers => WorkerFit(p))
    BY DEF IInv, TypeOK, OpStates, LookupVictim, At
  <1>2. UNCHANGED <<at, gen, row, moved>>
    BY DEF LookupVictim
  <1>3. CASE Done(p)
    BY <1>2, <1>3, QuietIfDone
  <1>4. CASE ~Done(p)
    <2>1. at[proc[p].name] \in Inodes /\ gen[at[proc[p].name]] > 0
      BY <1>1, <1>4 DEF LookupVictim, IInv, TypeOK, Fit, Placed
    <2>2. PICK v \in Versions : v = Version(at[proc[p].name])
      BY <2>1, VersionType DEF IInv
    <2>3. v.ino = at[proc[p].name] /\ v.ino # 0 /\ v.gen > 0 /\ gen[v.ino] >= v.gen
      <3>1. v.ino = at[proc[p].name] /\ v.ino # 0 /\ v.gen = gen[at[proc[p].name]]
        BY <2>1, <2>2, InodesNumbered DEF Version
      <3> QED BY <2>1, <3>1, GenBound DEF IInv, TypeOK
    <2> DEFINE s == [proc[p] EXCEPT !.pc = "unlink", !.on = v]
    <2>4. s \in OpStates
      BY <1>1 DEF OpStates, Pcs
    <2>5. proc' = [proc EXCEPT ![p] = s] /\ proc'[p] = s
      BY <1>4, <2>2 DEF LookupVictim, IInv, TypeOK
    <2>6. Fit(p)'
      BY <1>1, <1>2, <2>3, <2>5 DEF Fit, OpStates
    <2>7. p \notin Workers
      BY <1>1 DEF WorkerFit
    <2> HIDE DEF s
    <2> QED BY <1>2, <2>4, <2>5, <2>6, <2>7, Quiet
  <1> QED BY <1>3, <1>4

-----------------------------------------------------------------------------
\* Steps that change names, generations or rows.

LEMMA AbandonKeeps ==
  ASSUME IInv, NEW p \in Procs, Abandon(p)
  PROVE  IInv'
  BY QuietIfDone DEF Abandon

LEMMA NewGenerationKeeps ==
  ASSUME IInv, NEW i \in Inodes, NewGeneration(i)
  PROVE  IInv'
  <1>1. TypeOK'
    BY GenBound DEF IInv, TypeOK, NewGeneration
  <1>2. Steady /\ Placed'
    BY SteadyIfWritten DEF IInv, NewGeneration
  <1>3. Told'
    BY ToldIfUnchanged DEF IInv, NewGeneration
  <1>4. \A q \in Procs : Fit(q)' /\ (WorkerFit(q) => WorkerFit(q)')
    BY <1>1, <1>2, OthersFit DEF IInv, NewGeneration
  <1> QED BY <1>1, <1>2, <1>3, <1>4 DEF IInv, Procs

LEMMA MountCreateKeeps ==
  ASSUME IInv, NEW n \in Names, NEW i \in Inodes, MountCreate(n, i)
  PROVE  IInv'
  <1>1. TypeOK'
    BY GenBound DEF IInv, TypeOK, MountCreate
  <1>2. Steady /\ Placed'
    BY SteadyIfCreated DEF IInv, MountCreate, NextInode, Unused
  <1>3. Told'
    BY ToldIfUnchanged DEF IInv, MountCreate
  <1>4. \A q \in Procs : Fit(q)' /\ (WorkerFit(q) => WorkerFit(q)')
    BY <1>1, <1>2, OthersFit DEF IInv, MountCreate
  <1> QED BY <1>1, <1>2, <1>3, <1>4 DEF IInv, Procs

\* A publication goes on with its operation.
LEMMA PublishedKeeps ==
  ASSUME IInv, NEW p \in Procs, p \notin Workers, UNCHANGED <<row, moved>>,
         NEW v \in Versions, v.ino \in Inodes, NEW n \in Names,
         CommitAllowed(v, n), PublishVersion(v, n), NEW pc \in {"resolve", "copyRow"}, Goto(p, pc),
         pc = "resolve" => proc[p].pc = "commit",
         pc = "copyRow" => proc[p].pc = "cloneCommit" /\ proc[p].on = v
  PROVE  IInv'
  <1>1. proc[p] \in OpStates /\ Fit(p)
    BY DEF IInv, TypeOK, OpStates
  <1>2. /\ Steady /\ Placed'
        /\ at' \in [Names -> Inodes \cup {0}] /\ gen' \in [Inodes -> 0..MaxGen]
        /\ v.gen > 0 /\ gen'[v.ino] = v.gen
    BY SteadyIfPublished DEF IInv
  <1> DEFINE s == [proc[p] EXCEPT !.pc = pc]
  <1>3. s \in OpStates
    BY <1>1 DEF OpStates, Pcs
  <1>4. proc' = [proc EXCEPT ![p] = s] /\ proc'[p] = s
    BY DEF Goto, IInv, TypeOK
  <1>5. TypeOK'
    BY <1>2, <1>3, <1>4 DEF IInv, TypeOK, OpStates
  <1>6. Fit(p)'
    <2>1. PICK i \in Inodes \cup {0} : i = proc[p].on.ino
      BY <1>1 DEF OpStates, Versions
    <2>2. proc[p].on.gen \in Nat
      BY <1>1, GenBound DEF OpStates, Versions
    <2>3. i # 0 => gen[i] \in Nat /\ gen'[i] \in Nat /\ gen'[i] >= gen[i]
      BY <1>2, <1>5, GenBound DEF Steady, IInv, TypeOK
    <2>4. s.pc = pc /\ s.on = proc[p].on /\ s.name = proc[p].name /\ s.to = proc[p].to /\ s.of = proc[p].of
      BY <1>1 DEF OpStates
    <2> HIDE DEF s
    <2>5. CASE pc = "resolve"
      BY <1>1, <1>4, <2>1, <2>2, <2>3, <2>4, <2>5 DEF Fit
    <2>6. CASE pc = "copyRow"
      BY <1>1, <1>2, <1>4, <2>1, <2>2, <2>4, <2>6 DEF Fit
    <2> QED BY <2>5, <2>6
  <1>7. Told'
    BY ToldIfUnchanged DEF IInv
  <1>8. \A q \in Procs \ {p} : proc'[q] = proc[q]
    BY <1>4 DEF IInv, TypeOK
  <1> QED BY <1>2, <1>5, <1>6, <1>7, <1>8, Kept

LEMMA PublishKeeps ==
  ASSUME IInv, NEW p \in Procs, Publish(p)
  PROVE  IInv'
  <1>1. proc[p] \in OpStates /\ proc[p].pc = "commit" /\ Fit(p) /\ p \notin Workers
    BY DEF IInv, TypeOK, OpStates, Publish, At, WorkerFit
  <1>2. UNCHANGED <<row, moved>>
    BY DEF Publish
  <1>3. PICK v \in Versions : v = proc[p].of
    BY <1>1 DEF OpStates
  <1>4. PICK n \in Names : n = proc[p].name
    BY <1>1 DEF Fit
  <1>5. CASE ~CommitAllowed(v, n)
    BY <1>2, <1>3, <1>4, <1>5, QuietIfDone DEF Publish
  <1>6. CASE CommitAllowed(v, n)
    <2>1. v.ino \in Inodes
      BY <1>1, <1>3 DEF Fit, Versions
    <2>2. PublishVersion(v, n) /\ Goto(p, "resolve")
      BY <1>3, <1>4, <1>6 DEF Publish
    <2> QED BY <1>1, <1>2, <1>6, <2>1, <2>2, PublishedKeeps
  <1> QED BY <1>5, <1>6

LEMMA CloneReserveKeeps ==
  ASSUME IInv, NEW p \in Procs, CloneReserve(p)
  PROVE  IInv'
  <1>1. /\ proc[p] \in OpStates /\ proc[p].pc = "clone" /\ Fit(p) /\ p \notin Workers
        /\ UNCHANGED <<at, gen, row, moved>>
    BY DEF IInv, TypeOK, OpStates, CloneReserve, At, WorkerFit
  <1>2. PICK i \in Inodes :
          /\ Captures(proc[p].to, i)
          /\ proc' = [proc EXCEPT ![p].pc = "cloneCommit", ![p].on = [ino |-> i, gen |-> gen[i] + 1]]
    BY DEF CloneReserve
  <1>3. gen[i] \in Nat /\ gen[i] + 1 \in 0..MaxGen
    BY <1>2, GenBound DEF Captures, IInv, TypeOK
  <1> DEFINE v == [ino |-> i, gen |-> gen[i] + 1]
             s == [proc[p] EXCEPT !.pc = "cloneCommit", !.on = v]
  <1>4. v \in Versions /\ v.ino = i /\ v.gen > 0
    BY <1>3 DEF Versions
  <1> HIDE DEF v
  <1>5. /\ s \in OpStates /\ s.pc = "cloneCommit" /\ s.on = v
        /\ s.name = proc[p].name /\ s.to = proc[p].to /\ s.of = proc[p].of
    BY <1>1, <1>4 DEF OpStates, Pcs
  <1>6. proc' = [proc EXCEPT ![p] = s] /\ proc'[p] = s
    BY <1>2 DEF v, IInv, TypeOK
  <1> HIDE DEF s
  <1>7. Fit(p)'
    BY <1>1, <1>4, <1>5, <1>6, InodesNumbered DEF Fit
  <1> QED BY <1>1, <1>5, <1>6, <1>7, Quiet

LEMMA CloneCommitKeeps ==
  ASSUME IInv, NEW p \in Procs, CloneCommit(p)
  PROVE  IInv'
  <1>1. proc[p] \in OpStates /\ proc[p].pc = "cloneCommit" /\ Fit(p) /\ p \notin Workers
    BY DEF IInv, TypeOK, OpStates, CloneCommit, At, WorkerFit
  <1>2. UNCHANGED <<row, moved>>
    BY DEF CloneCommit
  <1>3. PICK v \in Versions : v = proc[p].on
    BY <1>1 DEF OpStates
  <1>4. PICK n \in Names : n = proc[p].to
    BY <1>1 DEF Fit
  <1>5. CASE ~CommitAllowed(v, n)
    BY <1>2, <1>3, <1>4, <1>5, QuietIfDone DEF CloneCommit
  <1>6. CASE CommitAllowed(v, n)
    <2>1. v.ino \in Inodes
      BY <1>1, <1>3 DEF Fit, Versions
    <2>2. PublishVersion(v, n) /\ Goto(p, "copyRow")
      BY <1>3, <1>4, <1>6 DEF CloneCommit
    <2> QED BY <1>1, <1>2, <1>3, <1>6, <2>1, <2>2, PublishedKeeps
  <1> QED BY <1>5, <1>6

\* The step that ends an operation: what is left to show is the tree and the rows.
LEMMA KeptIfDone ==
  ASSUME IInv, NEW p \in Procs, Done(p), Steady, Placed',
         at' \in [Names -> Inodes \cup {0}], gen' \in [Inodes -> 0..MaxGen],
         row' \in [Inodes -> Rows], moved' \subseteq Inodes,
         Told'
  PROVE  IInv'
  <1>1. proc' = [proc EXCEPT ![p] = Idle] /\ proc'[p] = Idle
    BY DEF Done, IInv, TypeOK
  <1>2. Idle \in OpStates /\ Fit(p)' /\ WorkerFit(p)'
    BY <1>1, IdleFits
  <1>3. TypeOK'
    BY <1>1, <1>2 DEF IInv, TypeOK, OpStates
  <1>4. \A q \in Procs \ {p} : proc'[q] = proc[q]
    BY <1>1 DEF IInv, TypeOK
  <1> QED BY <1>2, <1>3, <1>4, Kept

\* The step that goes on with its operation at pc.
LEMMA KeptIfGone ==
  ASSUME IInv, NEW p \in Procs, NEW pc \in Pcs, Goto(p, pc), p \notin Workers, Steady, Placed',
         at' \in [Names -> Inodes \cup {0}], gen' \in [Inodes -> 0..MaxGen],
         row' \in [Inodes -> Rows], moved' \subseteq Inodes,
         pc = "attach" \/ (pc = "forget" /\ Fit(p)'),
         proc[p].pc \notin {"idle", "cloneCommit"},
         Told'
  PROVE  IInv'
  <1> DEFINE s == [proc[p] EXCEPT !.pc = pc]
  <1>1. proc[p] \in OpStates /\ Fit(p)
    BY DEF IInv, TypeOK, OpStates
  <1>2. proc' = [proc EXCEPT ![p] = s] /\ proc'[p] = s
    BY DEF Goto, IInv, TypeOK
  <1>3. s \in OpStates /\ s.on = proc[p].on /\ s.name = proc[p].name /\ s.pc = pc
    BY <1>1 DEF OpStates
  <1> HIDE DEF s
  <1>4. TypeOK'
    BY <1>2, <1>3 DEF IInv, TypeOK, OpStates
  <1>5. \A q \in Procs \ {p} : proc'[q] = proc[q]
    BY <1>2 DEF IInv, TypeOK
  <1>6. CASE pc = "attach"
    <2>1. PICK i \in Inodes \cup {0} : i = proc[p].on.ino
      BY <1>1 DEF OpStates, Versions
    <2>2. proc[p].on.gen \in Nat
      BY <1>1, GenBound DEF OpStates, Versions
    <2>3. i # 0 => gen[i] \in Nat /\ gen'[i] \in Nat /\ gen'[i] >= gen[i]
      BY <1>4, GenBound DEF Steady, IInv, TypeOK
    <2>4. Fit(p)'
      BY <1>1, <1>2, <1>3, <1>6, <2>1, <2>2, <2>3 DEF Fit
    <2> QED BY <1>4, <1>5, <2>4, Kept
  <1>7. CASE pc = "forget"
    BY <1>4, <1>5, <1>7, Kept
  <1> QED BY <1>6, <1>7

LEMMA StampKeeps ==
  ASSUME IInv, NEW p \in Procs, Stamp(p)
  PROVE  IInv'
  <1>1. /\ proc[p] \in OpStates /\ proc[p].pc = "stamp" /\ Fit(p)
        /\ p \in Workers => WorkerFit(p)
    BY DEF IInv, TypeOK, OpStates, Stamp, At
  <1>2. PICK i \in Inodes : i = proc[p].on.ino
    BY <1>1 DEF Fit, OpStates, Versions
  <1>3. /\ proc[p].op \in {"hash", "pic", "meta"}
        /\ UpsertMetadata(p) /\ UNCHANGED <<at, gen, moved>>
    BY <1>1 DEF Fit, Stamp
  <1>4. /\ row' \in [Inodes -> Rows] /\ \A j \in Inodes \ {i} : row'[j] = row[j]
        /\ \/ row'[i] = row[i]
           \/ Probed(i)' \subseteq {0} \cup Probed(i)
           \/ /\ p \in Workers /\ proc[p].of # proc[p].on
              /\ Probed(i)' \subseteq {0, i} \cup Probed(i)
    BY <1>2, <1>3, Stamped DEF IInv
  <1>5. Steady /\ Placed'
    BY <1>3, SteadyIfSame DEF IInv
  <1>6. Told'
    <2>1. \/ Probed(i)' \subseteq {0, i} \cup Probed(i) /\ i \in moved
          \/ Probed(i)' \subseteq {0} \cup Probed(i)
      BY <1>1, <1>2, <1>4 DEF WorkerFit, Probed
    <2>2. \A j \in Inodes \ {i} : Probed(j)' = Probed(j)
      BY <1>4 DEF Probed
    <2> QED BY <1>3, <2>1, <2>2 DEF Told, IInv
  <1>7. at' \in [Names -> Inodes \cup {0}] /\ gen' \in [Inodes -> 0..MaxGen] /\ moved' \subseteq Inodes
    BY <1>3 DEF IInv, TypeOK
  <1>8. CASE Done(p)
    BY <1>4, <1>5, <1>6, <1>7, <1>8, KeptIfDone
  <1>9. CASE ~Done(p)
    <2>1. proc[p].op = "hash" /\ Goto(p, "attach")
      BY <1>9 DEF Stamp
    <2>2. p \notin Workers
      BY <1>1, <2>1 DEF WorkerFit
    <2> QED BY <1>1, <1>4, <1>5, <1>6, <1>7, <2>1, <2>2, KeptIfGone DEF Pcs
  <1> QED BY <1>8, <1>9

LEMMA ForgetKeeps ==
  ASSUME IInv, NEW p \in Procs, Forget(p)
  PROVE  IInv'
  <1>1. UNCHANGED <<at, gen, moved>> /\ Done(p)
        /\ row' = [row EXCEPT ![proc[p].on.ino] = Blank(0)]
    BY DEF Forget
  <1>2. Blank(0) \in Rows
    BY GenBound DEF Blank, Rows, NoFacts, Facts, Truths
  <1>3. row' \in [Inodes -> Rows]
        /\ \A i \in Inodes : row'[i] = row[i] \/ row'[i] = Blank(0)
    BY <1>1, <1>2 DEF IInv, TypeOK
  <1>4. Steady /\ Placed'
    BY <1>1, SteadyIfSame DEF IInv
  <1>5. Told'
    BY <1>1, <1>3, ToldIfSame DEF IInv, Blank, NoFacts, Probed
  <1>6. at' \in [Names -> Inodes \cup {0}] /\ gen' \in [Inodes -> 0..MaxGen] /\ moved' \subseteq Inodes
    BY <1>1 DEF IInv, TypeOK
  <1> QED BY <1>1, <1>3, <1>4, <1>5, <1>6, KeptIfDone

LEMMA CopyMetadataKeeps ==
  ASSUME IInv, NEW p \in Procs, CopyMetadata(p)
  PROVE  IInv'
  <1>1. /\ proc[p] \in OpStates /\ proc[p].pc = "copyRow" /\ Fit(p)
        /\ UNCHANGED <<at, gen, moved>> /\ Done(p)
    BY DEF IInv, TypeOK, OpStates, CopyMetadata, At
  <1>2. proc[p].of.ino \in Inodes /\ proc[p].on.ino \in Inodes /\ proc[p].on.gen \in 0..MaxGen
    BY <1>1 DEF Fit, OpStates, Versions
  <1> DEFINE r == row[proc[p].of.ino]
             b == [r EXCEPT !.gen = proc[p].on.gen]
  <1>3. b \in Rows /\ b.pic = r.pic /\ b.meta = r.meta
    BY <1>2 DEF IInv, TypeOK, Rows
  <1>4. row' = row \/ row' = [row EXCEPT ![proc[p].on.ino] = b]
    BY DEF CopyMetadata
  <1> HIDE DEF b
  <1>5. /\ row' \in [Inodes -> Rows]
        /\ \A i \in Inodes : row'[i] = row[i] \/ (row'[i].pic = r.pic /\ row'[i].meta = r.meta)
    BY <1>2, <1>3, <1>4 DEF IInv, TypeOK
  <1>6. Steady /\ Placed'
    BY <1>1, SteadyIfSame DEF IInv
  <1>7. Told'
    <2>1. \A i \in Inodes : Probed(i)' = Probed(i) \/ Probed(i)' = Probed(proc[p].of.ino)
      BY <1>5 DEF Probed
    <2> QED BY <1>1, <1>2, <2>1, ToldIfSame DEF IInv
  <1>8. at' \in [Names -> Inodes \cup {0}] /\ gen' \in [Inodes -> 0..MaxGen] /\ moved' \subseteq Inodes
    BY <1>1 DEF IInv, TypeOK
  <1> QED BY <1>1, <1>5, <1>6, <1>7, <1>8, KeptIfDone

\* A rename or a deletion that took the name of a file goes on to delete its row,
\* and that file has left.
LEMMA ForgetFits ==
  ASSUME IInv, NEW p \in Procs, proc[p].pc \in {"rename", "unlink"}, Goto(p, "forget"), Steady, gen' = gen,
         NEW i \in Inodes, proc[p].on.ino = i, ~Live(i)' \/ Left(i)
  PROVE  Fit(p)'
  <1>1. proc[p] \in OpStates /\ Fit(p)
    BY DEF IInv, TypeOK, OpStates
  <1>2. proc'[p] = [proc[p] EXCEPT !.pc = "forget"]
    BY DEF Goto, IInv, TypeOK
  <1>3. /\ proc'[p].pc = "forget" /\ proc'[p].on = proc[p].on /\ proc'[p].name = proc[p].name
    BY <1>1, <1>2 DEF OpStates
  <1>4. proc[p].on.gen > 0 /\ gen[i] >= proc[p].on.gen /\ gen[i] > 0
    BY <1>1, GenBound, InodesNumbered DEF Fit, OpStates, Versions, IInv, TypeOK
  <1>5. Left(i)'
    <2>1. CASE ~Live(i)'
      BY <2>1 DEF Left
    <2>2. CASE Left(i)
      BY <1>4, <2>2 DEF Steady
    <2> QED BY <2>1, <2>2
  <1> QED BY <1>1, <1>3, <1>4, <1>5, InodesNumbered DEF Fit

LEMMA RenameKeeps ==
  ASSUME IInv, NEW p \in Procs, Rename(p)
  PROVE  IInv'
  <1>1. /\ proc[p] \in OpStates /\ proc[p].pc = "rename" /\ Fit(p) /\ p \notin Workers
        /\ UNCHANGED <<gen, row>>
    BY DEF IInv, TypeOK, OpStates, Rename, At, WorkerFit
  <1> DEFINE allowed == Live(proc[p].of.ino) /\ (proc[p].op = "move" \/ at[proc[p].to] = 0)
  <1>2. CASE ~allowed
    BY <1>1, <1>2, QuietIfDone DEF Rename
  <1>3. CASE allowed
    <2>1. PICK i \in Inodes : i = proc[p].of.ino
      BY <1>1 DEF Fit, OpStates, Versions
    <2>2. PICK m \in Names : m = proc[p].to
      BY <1>1 DEF Fit
    <2>3. /\ Live(i) /\ at' = Renamed(i, m) /\ moved' = moved \cup {i}
          /\ IF proc[p].on.ino \notin {0, i} THEN Goto(p, "forget") ELSE Done(p)
      BY <1>3, <2>1, <2>2 DEF Rename
    <2>4. Steady /\ Placed' /\ \A j \in Inodes \ {i} : at[m] = j => ~Live(j)'
      BY <1>1, <2>3, SteadyIfRenamed DEF IInv
    <2>5. /\ at' \in [Names -> Inodes \cup {0}] /\ gen' \in [Inodes -> 0..MaxGen]
          /\ row' \in [Inodes -> Rows] /\ moved' \subseteq Inodes
      BY <1>1, <2>3 DEF IInv, TypeOK, Renamed
    <2>6. Told'
      BY <1>1, <2>3, ToldIfUnchanged DEF IInv
    <2>7. CASE proc[p].on.ino \in {0, i}
      BY <2>3, <2>4, <2>5, <2>6, <2>7, KeptIfDone
    <2>8. CASE proc[p].on.ino \notin {0, i}
      <3>1. PICK j \in Inodes \ {i} : j = proc[p].on.ino
        BY <1>1, <2>8 DEF OpStates, Versions
      <3>2. at[m] = j \/ Left(j)
        BY <1>1, <2>2, <2>8, <3>1 DEF Fit
      <3>3. Fit(p)'
        BY <1>1, <2>3, <2>4, <2>8, <3>1, <3>2, ForgetFits
      <3> QED BY <1>1, <2>3, <2>4, <2>5, <2>6, <2>8, <3>3, KeptIfGone DEF Pcs
    <2> QED BY <2>7, <2>8
  <1> QED BY <1>2, <1>3

LEMMA UnlinkKeeps ==
  ASSUME IInv, NEW p \in Procs, Unlink(p)
  PROVE  IInv'
  <1>1. /\ proc[p] \in OpStates /\ proc[p].pc = "unlink" /\ Fit(p) /\ p \notin Workers
        /\ UNCHANGED <<gen, row, moved>>
    BY DEF IInv, TypeOK, OpStates, Unlink, At, WorkerFit
  <1>2. PICK n \in Names : n = proc[p].name
    BY <1>1 DEF Fit
  <1>3. CASE at[n] = 0
    BY <1>1, <1>2, <1>3, QuietIfDone DEF Unlink
  <1>4. CASE at[n] # 0
    <2>1. at' = [at EXCEPT ![n] = 0] /\ Goto(p, "forget")
      BY <1>2, <1>4 DEF Unlink
    <2>2. PICK i \in Inodes : i = at[n]
      BY <1>4 DEF IInv, TypeOK
    <2>3. Steady /\ Placed' /\ ~Live(i)'
      BY <1>1, <2>1, <2>2, SteadyIfUnlinked DEF IInv
    <2>4. PICK j \in Inodes : j = proc[p].on.ino
      BY <1>1 DEF Fit, OpStates, Versions
    <2>5. j = i \/ Left(j)
      BY <1>1, <1>2, <2>2, <2>4 DEF Fit
    <2>6. Fit(p)'
      BY <1>1, <2>1, <2>3, <2>4, <2>5, ForgetFits
    <2>7. /\ at' \in [Names -> Inodes \cup {0}] /\ gen' \in [Inodes -> 0..MaxGen]
          /\ row' \in [Inodes -> Rows] /\ moved' \subseteq Inodes
      BY <1>1, <2>1 DEF IInv, TypeOK
    <2>8. Told'
      BY <1>1, ToldIfUnchanged DEF IInv
    <2> QED BY <1>1, <2>1, <2>3, <2>6, <2>7, <2>8, KeptIfGone DEF Pcs
  <1> QED BY <1>3, <1>4

-----------------------------------------------------------------------------
LEMMA StepKeeps == IInv /\ [Next]_vars => IInv'
  <1> SUFFICES ASSUME IInv, [Next]_vars PROVE IInv'
    OBVIOUS
  <1>1. CASE UNCHANGED vars
    BY <1>1 DEF vars, IInv, TypeOK, Placed, Told, Probed, Fit, WorkerFit, Left, Live
  <1>2. ASSUME NEW i \in Inodes, NewGeneration(i) \/ \E n \in Names : MountCreate(n, i)
        PROVE  IInv'
    BY <1>2, NewGenerationKeeps, MountCreateKeeps
  <1>3. ASSUME NEW p \in Requests, StartRequest(p)
        PROVE  IInv'
    BY <1>3, StartUploadKeeps, StartMoveKeeps, StartCopyKeeps, StartDeleteKeeps DEF StartRequest
  <1>4. ASSUME NEW p \in Workers, NEW n \in Names, NEW job \in {"pic", "meta"}, Collect(p, n, job)
        PROVE  IInv'
    BY <1>4, CollectKeeps
  <1>5. ASSUME NEW p \in Procs, UploadStep(p)
        PROVE  IInv'
    BY <1>5, PublishKeeps, ResolvePublishedKeeps, UpsertKeeps, StampKeeps, AttachKeeps DEF UploadStep
  <1>6. ASSUME NEW p \in Procs, WorkerStep(p)
        PROVE  IInv'
    BY <1>6, ReadKeeps, GuardKeeps DEF WorkerStep
  <1>7. ASSUME NEW p \in Procs, TreeStep(p)
        PROVE  IInv'
    BY <1>7, CloneReserveKeeps, CloneCommitKeeps, CopyMetadataKeeps, RenameKeeps, ForgetKeeps,
       LookupVictimKeeps, UnlinkKeeps DEF TreeStep
  <1>8. ASSUME NEW p \in Procs, Abandon(p)
        PROVE  IInv'
    BY <1>8, AbandonKeeps
  <1> QED BY <1>1, <1>2, <1>3, <1>4, <1>5, <1>6, <1>7, <1>8 DEF Next

\* What every step finds, at any number of operations, files and names.
THEOREM Invariant == Spec => []IInv
  <1>1. Init => IInv
    BY InitHolds
  <1>2. IInv /\ [Next]_vars => IInv'
    BY StepKeeps
  <1> QED BY <1>1, <1>2, PTL DEF Spec

\* The five variables keep their types.
THEOREM TypeCorrect == Spec => []TypeOK
  <1>1. IInv => TypeOK
    BY DEF IInv
  <1> QED BY <1>1, Invariant, PTL

\* What the worker found in contents that were replaced meanwhile is never shown
\* with the new contents or with a copy, unless the file it was probed for was
\* moved.
THEOREM WorkerNeverMisleadsHolds == Spec => []WorkerNeverMisleads
  <1>1. IInv => WorkerNeverMisleads
    BY DEF IInv, Told, Probed, WorkerNeverMisleads
  <1> QED BY <1>1, Invariant, PTL

\* The only steps that write a generation to a row.
LEMMA RowSteps ==
  ASSUME IInv, Next, row' # row
  PROVE  \E p \in Procs : Stamp(p) \/ CopyMetadata(p) \/ Forget(p)
  BY ZenonT(40) DEF Next, NewGeneration, MountCreate, StartRequest, StartUpload, StartMove, StartCopy,
     StartDelete, Collect, UploadStep, Publish, ResolvePublished, Upsert, Attach,
     WorkerStep, Read, Guard, TreeStep, CloneReserve, CloneCommit, Rename, LookupVictim, Unlink, Abandon

\* What each of them does to the generation of a row.
LEMMA RowGens ==
  ASSUME IInv, NEW p \in Procs, NEW i \in Inodes,
         Stamp(p) \/ CopyMetadata(p) \/ Forget(p)
  PROVE  \/ row'[i].gen >= row[i].gen
         \/ At(p, "copyRow") /\ proc[p].on.ino = i /\ row'[i].gen > 0
         \/ row'[i].gen = 0 /\ Left(i)
  <1>1. /\ proc[p] \in OpStates /\ Fit(p) /\ (p \in Workers => WorkerFit(p))
        /\ TypeOK /\ row[i].gen \in Nat
    BY GenBound DEF IInv, TypeOK, OpStates, Rows
  <1>2. CASE Stamp(p)
    <2>1. proc[p].op \in {"hash", "pic", "meta"} /\ proc[p].on.ino \in Inodes /\ UpsertMetadata(p)
      BY <1>1, <1>2 DEF Stamp, At, Fit, OpStates, Versions
    <2>2. row'[i] = row[i] \/ row'[i].gen >= row[i].gen
      <3>1. CASE i # proc[p].on.ino
        BY <1>1, <2>1, <3>1, Stamped
      <3>2. CASE i = proc[p].on.ino
        BY <1>1, <2>1, <3>2, Stamped
      <3> QED BY <3>1, <3>2
    <2> QED BY <1>1, <2>2
  <1>4. CASE CopyMetadata(p)
    <2>1. proc[p].on.ino \in Inodes /\ proc[p].on.gen > 0 /\ At(p, "copyRow")
      BY <1>1, <1>4 DEF CopyMetadata, At, Fit, OpStates, Versions
    <2>2. i # proc[p].on.ino => row'[i] = row[i]
      BY <1>1, <1>4, <2>1 DEF CopyMetadata, TypeOK
    <2>3. row' = row \/ row'[proc[p].on.ino].gen = proc[p].on.gen
      BY <1>4, <2>1, <1>1 DEF CopyMetadata, TypeOK
    <2> QED BY <1>1, <2>1, <2>2, <2>3
  <1>5. CASE Forget(p)
    <2>1. proc[p].on.ino \in Inodes /\ Left(proc[p].on.ino)
      BY <1>1, <1>5 DEF Forget, At, Fit, OpStates, Versions
    <2> QED BY <1>1, <1>5, <2>1 DEF Forget, TypeOK, Blank
  <1> QED BY <1>2, <1>4, <1>5

\* No late writer rolls a row back to an older generation.
THEOREM NeverRolledBackHolds == Spec => NeverRolledBack
  <1> DEFINE A == \A i \in Inodes :
                    row'[i].gen < row[i].gen =>
                      \/ row'[i].gen = 0
                      \/ \E p \in Procs : At(p, "copyRow") /\ proc[p].on.ino = i
  <1>1. IInv /\ [Next]_vars => [A]_vars
    <2> SUFFICES ASSUME IInv, Next, NEW i \in Inodes, row'[i].gen < row[i].gen
                 PROVE  \/ row'[i].gen = 0
                        \/ \E p \in Procs : At(p, "copyRow") /\ proc[p].on.ino = i
      OBVIOUS
    <2>1. row[i].gen \in Nat /\ row'[i].gen \in Nat
      BY StepKeeps, GenBound DEF IInv, TypeOK, Rows
    <2>2. PICK p \in Procs : Stamp(p) \/ CopyMetadata(p) \/ Forget(p)
      BY <2>1, RowSteps
    <2> QED BY <2>1, <2>2, RowGens
  <1> HIDE DEF A
  <1>2. Spec => [][A]_vars
    BY <1>1, Invariant, PTL DEF Spec
  <1> QED BY <1>2 DEF NeverRolledBack, A

\* The row of a file disappears only when the file has gone or was moved.
THEOREM RowLivesWithFileHolds == Spec => RowLivesWithFile
  <1> DEFINE A == \A i \in Inodes :
                    row[i].gen > 0 /\ row'[i].gen = 0 => ~Live(i) \/ i \in moved
  <1>1. IInv /\ [Next]_vars => [A]_vars
    <2> SUFFICES ASSUME IInv, Next, NEW i \in Inodes, row[i].gen > 0, row'[i].gen = 0
                 PROVE  Left(i)
      BY DEF Left
    <2>1. PICK p \in Procs : Stamp(p) \/ CopyMetadata(p) \/ Forget(p)
      BY RowSteps
    <2>2. row[i].gen \in Nat
      BY GenBound DEF IInv, TypeOK, Rows
    <2> QED BY <2>1, <2>2, RowGens
  <1> HIDE DEF A
  <1>2. Spec => [][A]_vars
    BY <1>1, Invariant, PTL DEF Spec
  <1> QED BY <1>2 DEF RowLivesWithFile, A
=============================================================================
