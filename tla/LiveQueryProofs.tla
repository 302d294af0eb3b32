------------------------- MODULE LiveQueryProofs -------------------------
(***************************************************************************)
(* What holds of LiveQuery for any runs, threads and queries, however many *)
(* releases are built and switched and however the requests interleave     *)
(* with them: its types, what a release holds, how a switch ends, and that *)
(* neither the index nor the search cache answers from a release that is   *)
(* gone.                                                                   *)
(***************************************************************************)
EXTENDS LiveQuery, FiniteSetTheorems, TLAPS

(***************************************************************************)
(* The types the steps rely on.                                            *)
(***************************************************************************)
Snapshots(time) == [of : 0..time, ref : 0..time, named : 0..time, at : 0..time]

Databases(time) == [rows : [Runs -> 0..time], snaps : [Runs -> Snapshots(time)], live : Runs, liveAt : 0..time, ref : 0..time]

Releases == 1..Len(built)

Builds(time) == [run : Runs, at : 0..time, purpose : {"release", "local"}, snaps : Snapshots(time)]

Markers(time) == [run : Runs, rows : 0..time, at : 0..time, snaps : BOOLEAN, ref : 0..time]

Begun == {"idle", "live"}
Loaded == {"indexed", "rank", "context", "family", "reply"}
Steps == Begun \union {"published", "counts", "refs"} \union Loading \union Loaded

BuildTyped ==
    /\ now \in Nat /\ local \in Databases(now)
    /\ built \in Seq(Databases(now)) /\ Len(built) > 0
    /\ bpc \in {"idle", "context", "rows", "copy", "publish", "bundle"}
    /\ bpc # "idle" => payload \in Builds(now)
    /\ bpc = "bundle" => copy \in Databases(now)

ThreadTyped(t) ==
    /\ pc[t] \notin Begun => mark[t] \in Markers(now)
    /\ pc[t] \in Loaded \union {"import", "external"} => got[t] \in Contents
    /\ pc[t] = "rank" => req[t] \in Queries
    /\ pc[t] = "family" => req[t] \in Runs
    /\ pc[t] \in {"family", "reply"} => out[t] \in Contents

ThreadsTyped ==
    /\ pc \in [Threads -> Steps]
    /\ DOMAIN req = Threads /\ DOMAIN mark = Threads /\ DOMAIN got = Threads /\ DOMAIN out = Threads
    /\ seen \in [Threads -> SUBSET Releases] /\ mixed \subseteq Releases
    /\ \A t \in Threads : ThreadTyped(t)

Answers == [key : Runs \X (0..now) \X Queries, content : Contents]

CachesTyped ==
    /\ cache # None => cache \in [marker : Markers(now), content : Contents]
    /\ answers \in Seq(Answers)

\* Requests begin when all releases are built.
Settled ==
    /\ ~AllBuilt => cache = None /\ answers = <<>> /\ dpc = "idle" /\ \A t \in Threads : pc[t] = "idle"
    /\ \A t \in Threads : pc[t] # "idle" /\ Released => served \in seen[t]

Placed ==
    /\ {served, retired, previous} \subseteq {Absent, Empty, Stub} \union Releases
    /\ dpc \in {"idle", "retire", "publish", "drop", "undo", "restore"}
    /\ IF dpc = "idle" THEN incoming = None ELSE incoming \in Releases

Owned == \A t \in Threads : lock = t <=> pc[t] \in {"count", "snapshots", "rows", "import", "external"}

Typed == BuildTyped /\ Placed /\ ThreadsTyped /\ CachesTyped /\ Owned /\ Settled

-----------------------------------------------------------------------------
(* The operators *)

LEMMA Constants ==
    /\ None \notin Nat /\ Absent \notin Nat /\ Empty \notin Nat /\ Stub \notin Nat
    /\ Absent # Empty /\ Absent # Stub /\ Empty # Stub
    /\ NoRun \notin Runs /\ None \notin Threads /\ CacheSize \in Nat \ {0}
    /\ \A x \in Runs : x \notin Queries
BY LiveQueryAssumption

\* Types grow with the time.
LEMMA LaterTypes ==
    ASSUME NEW m \in Nat, NEW n \in Nat, m <= n
    PROVE  /\ Snapshots(m) \subseteq Snapshots(n) /\ Databases(m) \subseteq Databases(n)
           /\ Builds(m) \subseteq Builds(n)
<1>1. 0..m \subseteq 0..n
  OBVIOUS
<1>2. Snapshots(m) \subseteq Snapshots(n)
  BY <1>1 DEF Snapshots
<1>3. [Runs -> 0..m] \subseteq [Runs -> 0..n] /\ [Runs -> Snapshots(m)] \subseteq [Runs -> Snapshots(n)]
  BY <1>1, <1>2
<1>. QED
  BY <1>1, <1>2, <1>3 DEF Databases, Builds

\* What publish_market_snapshots leaves
LEMMA PublishedFields ==
    ASSUME NEW time \in Nat, NEW db \in Databases(time), NEW p, p.run \in Runs, p.snaps \in Snapshots(time),
           p.at \in 0..time
    PROVE  /\ Published(db, p) \in Databases(time)
           /\ Published(db, p).rows = db.rows /\ Published(db, p).ref = db.ref
           /\ Published(db, p).live = p.run /\ Published(db, p).liveAt = p.at
           /\ \A x \in Runs :
                Published(db, p).snaps[x] = IF x = p.run THEN p.snaps ELSE db.snaps[x]
<1>. DEFINE snaps == [db.snaps EXCEPT ![p.run] = p.snaps]
            new == [rows |-> db.rows, snaps |-> snaps, live |-> p.run, liveAt |-> p.at, ref |-> db.ref]
<1>1. snaps \in [Runs -> Snapshots(time)]
      /\ \A x \in Runs : snaps[x] = IF x = p.run THEN p.snaps ELSE db.snaps[x]
  BY DEF Databases
<1>2. Published(db, p) = new
  <2>1. db = [rows |-> db.rows, snaps |-> db.snaps, live |-> db.live, liveAt |-> db.liveAt, ref |-> db.ref]
    BY DEF Databases
  <2>2. [[[db EXCEPT !.snaps = snaps] EXCEPT !.live = p.run] EXCEPT !.liveAt = p.at] = new
    <3>. DEFINE one == [db EXCEPT !.snaps = snaps]
                two == [one EXCEPT !.live = p.run]
    <3>. HIDE DEF snaps
    <3>1. one = [rows |-> db.rows, snaps |-> snaps, live |-> db.live, liveAt |-> db.liveAt, ref |-> db.ref]
      BY DEF Databases
    <3>. HIDE DEF one
    <3>2. two = [rows |-> db.rows, snaps |-> snaps, live |-> p.run, liveAt |-> db.liveAt, ref |-> db.ref]
      BY <3>1
    <3>. HIDE DEF two
    <3>3. [two EXCEPT !.liveAt = p.at] = new
      BY <3>2
    <3>. QED
      BY <3>3 DEF two, one
  <2>3. Published(db, p) = [[[db EXCEPT !.snaps = snaps] EXCEPT !.live = p.run] EXCEPT !.liveAt = p.at]
    BY <2>1, Zenon DEF Published
  <2>. QED
    BY <2>2, <2>3
<1>. HIDE DEF snaps
<1>. QED
  BY <1>1, <1>2 DEF Databases

\* The search cache holds what it held and the new answer.
LEMMA MoveToEndType ==
    ASSUME NEW S, answers \in Seq(S), NEW entry \in S
    PROVE  MoveToEnd(entry) \in Seq(S)
<1>. DEFINE known == {i \in DOMAIN answers : answers[i].key = entry.key}
            j == CHOOSE i \in known : TRUE
            others == IF known = {} THEN answers
                      ELSE SubSeq(answers, 1, j - 1) \o SubSeq(answers, j + 1, Len(answers))
            all == Append(others, entry)
<1>1. others \in Seq(S)
  <2>1. CASE known = {}
    BY <2>1
  <2>2. CASE known # {}
    <3>1. j \in 1..Len(answers)
      BY <2>2
    <3>. HIDE DEF j
    <3>2. SubSeq(answers, 1, j - 1) \in Seq(S) /\ SubSeq(answers, j + 1, Len(answers)) \in Seq(S)
      BY <3>1
    <3>. QED
      BY <2>2, <3>2
  <2>. QED
    BY <2>1, <2>2
<1>. HIDE DEF others
<1>2. all \in Seq(S) /\ Tail(all) \in Seq(S)
  BY <1>1
<1>. QED
  BY <1>2 DEF MoveToEnd, others

LEMMA MoveToEndKeeps ==
    ASSUME NEW S, answers \in Seq(S), NEW entry \in S, NEW P,
           \A i \in DOMAIN answers : answers[i] \in P, entry \in P
    PROVE  \A i \in DOMAIN MoveToEnd(entry) : MoveToEnd(entry)[i] \in P
<1>. DEFINE both == S \cap P
<1>1. answers \in Seq(both) /\ entry \in both
  OBVIOUS
<1>. HIDE DEF both
<1>2. MoveToEnd(entry) \in Seq(both)
  BY <1>1, MoveToEndType
<1>. QED
  BY <1>2 DEF both

\* A stored answer
LEMMA AnswerType ==
    ASSUME NEW S, answers \in Seq(S), NEW key, Known(key)
    PROVE  /\ Answer(key) \in S /\ Answer(key).key = key
           /\ \E i \in DOMAIN answers : Answer(key) = answers[i]
BY DEF Known, Answer

\* A release
LEMMA ReleaseType ==
    ASSUME Typed, NEW n \in Releases
    PROVE  /\ built[n] \in Databases(now) /\ built[n].live \in Runs /\ LiveRun(built[n]) = built[n].live
           /\ built[n].liveAt \in 0..now /\ built[n].ref \in 0..now
           /\ \A x \in Runs : built[n].rows[x] \in 0..now /\ built[n].snaps[x].at \in 0..now
<1>1. built[n] \in Databases(now)
  BY DEF Typed, BuildTyped, Releases
<1>. QED
  BY <1>1, Constants DEF Databases, Snapshots, LiveRun

LEMMA ServedType ==
    ASSUME Typed, Released
    PROVE  /\ served \in Releases /\ DB = built[served] /\ LiveRun(DB) = DB.live /\ DB.live \in Runs
           /\ DB.liveAt \in 0..now /\ DB.ref \in 0..now
           /\ \A x \in Runs : DB.rows[x] \in 0..now /\ DB.snaps[x].at \in 0..now
BY ReleaseType DEF Released, Releases, DB

-----------------------------------------------------------------------------
(* The kinds of steps *)

\* A step of a build; there are no requests yet.
Building ==
    /\ ~AllBuilt
    /\ UNCHANGED <<served, retired, previous, incoming, moved, dpc, switches, spoiled, cache, lock, answers,
                   pc, req, mark, got, out, requests, seen, mixed, aba>>

\* A step of a switch: the directory stays, goes, or is a release again.
Moves ==
    \/ UNCHANGED <<served, seen, mixed, aba>>
    \/ served' \notin Releases /\ UNCHANGED <<seen, mixed, aba>>
    \/ \E n \in Releases : Serve(n)

Switching ==
    /\ UNCHANGED <<now, local, bpc, payload, copy, built, cache, lock, answers, pc, req, mark, got,
                   out, requests>>
    /\ dpc = "idle" => AllBuilt
    /\ Moves

\* What a request leaves alone
Querying ==
    /\ UNCHANGED <<now, local, bpc, payload, copy, built, retired, previous, incoming, moved, dpc,
                   switches>>
    /\ served' = served \/ ({served, served'} \cap Releases = {})

LEMMA BuilderKind ==
    ASSUME Builder
    PROVE  Building
BY DEF Builder, Building, Collect, ImportReference, BeginBuild, ReadContext, ReadRows, PublishLocal, CopyDatabase,
       FinishRelease, BuildFails, switch, caches, threads, observers

LEMMA SwitchKind ==
    ASSUME Typed, Switch
    PROVE  Switching
<1>. USE DEF Switching, Moves, build, caches, threads, observers
<1>a. Absent \notin Releases
  BY Constants DEF Releases
<1>1. ASSUME NEW n \in 1..MaxReleases, NEW rollback \in BOOLEAN, BeginSwitch(n, rollback) PROVE Switching
  BY <1>1 DEF BeginSwitch
<1>2. CASE Retire
  BY <1>2, <1>a DEF Retire
<1>3. CASE Publish
  BY <1>3 DEF Publish, Typed, Placed
<1>4. CASE DropRetired \/ Undo
  BY <1>4, <1>a DEF DropRetired, Undo, UndoDrops
<1>5. CASE Restore
  BY <1>5 DEF Restore, Releases
<1>. QED
  BY <1>1, <1>2, <1>3, <1>4, <1>5 DEF Switch

LEMMA QueryKind ==
    ASSUME NEW t \in Threads, Query(t)
    PROVE  Querying
<1>. USE DEF Querying, build, switch, threads, caches, observers
<1>1. CASE MakeDirectory(t) \/ OpenStub(t)
  BY <1>1, Constants DEF MakeDirectory, OpenStub, Releases
<1>2. CASE Ask(t) \/ ReadLive(t) \/ ReadPublished(t) \/ ReadCounts(t) \/ ReadReference(t) \/ Lock(t) \/ CountSnapshots(t)
  BY <1>2 DEF Ask, ReadLive, ReadPublished, ReadCounts, ReadReference, Lock, CountSnapshots
<1>3. CASE ListSnapshots(t) \/ ListRows(t) \/ FindImport(t) \/ ListExternal(t) \/ \E q \in Queries : LookUp(t, q)
  BY <1>3 DEF ListSnapshots, ListRows, FindImport, ListExternal, Store, LookUp
<1>4. CASE Rank(t) \/ Detail(t) \/ (\E x \in Runs : Context(t, x)) \/ Family(t) \/ Reply(t)
  BY <1>4 DEF Rank, Detail, Context, Family, Reply
<1>. QED
  BY <1>1, <1>2, <1>3, <1>4 DEF Query

-----------------------------------------------------------------------------
(* Types *)

LEMMA BuildNext ==
    ASSUME Typed, Builder
    PROVE  /\ BuildTyped' /\ Len(built) <= Len(built') /\ Len(built') \in Nat
           /\ \A n \in Releases : built'[n] = built[n]
<1>. USE DEF Typed, BuildTyped
<1>a. \A x \in Runs : local.rows[x] \in 0..now
  BY DEF Databases
<1>b. local.ref \in 0..now /\ now \in Nat
  BY DEF Databases
<1>c. Len(built) \in Nat /\ \A n \in Releases : built[n] \in Databases(now)
  BY DEF Releases
<1>1. ASSUME now' = now + 1, UNCHANGED <<copy, built>>, local' \in Databases(now'),
             bpc' \in {"idle", "context", "rows", "copy", "publish", "bundle"},
             bpc' = "bundle" => bpc = "bundle",
             bpc' # "idle" => payload' \in Builds(now')
      PROVE  BuildTyped'
  <2>1. now' \in Nat /\ Databases(now) \subseteq Databases(now')
    BY <1>1, LaterTypes
  <2>2. built' \in Seq(Databases(now'))
    BY <1>1, <2>1
  <2>. QED
    BY <1>1, <2>1, <2>2
<1>2. ASSUME NEW x \in Runs, Collect(x) PROVE BuildTyped' /\ built' = built
  <2>1. now' = now + 1 /\ local \in Databases(now') /\ (bpc # "idle" => payload \in Builds(now'))
    BY <1>2, LaterTypes DEF Collect, Tick
  <2>2. local' \in Databases(now')
    <3>1. now' \in 0..now' /\ local' = [local EXCEPT !.rows[x] = now']
      BY <1>2, <2>1 DEF Collect
    <3>. QED
      BY <2>1, <3>1 DEF Databases
  <2>. QED
    BY <1>2, <1>1, <2>1, <2>2 DEF Collect, build
<1>3. CASE ImportReference
  <2>1. now' = now + 1 /\ local \in Databases(now') /\ (bpc # "idle" => payload \in Builds(now'))
    BY <1>3, LaterTypes DEF ImportReference, Tick
  <2>2. local' \in Databases(now')
    <3>1. now' \in 0..now' /\ local' = [local EXCEPT !.ref = now']
      BY <1>3, <2>1 DEF ImportReference
    <3>. QED
      BY <2>1, <3>1 DEF Databases
  <2>3. BuildTyped' /\ built' = built
    BY <1>3, <1>1, <2>1, <2>2 DEF ImportReference, build
  <2>. QED
    BY <2>3, <1>c
<1>4. ASSUME NEW x \in Runs, NEW purpose \in {"release", "local"}, BeginBuild(x, purpose)
      PROVE  BuildTyped' /\ built' = built
  <2>1. now' = now + 1 /\ local' \in Databases(now')
    BY <1>4, LaterTypes DEF BeginBuild, Tick
  <2>2. [NoSnapshots EXCEPT !.ref = local.ref] \in Snapshots(now')
    BY <1>b, <2>1 DEF NoSnapshots, Snapshots
  <2>3. payload' \in Builds(now')
    BY <1>4, <1>b, <2>1, <2>2 DEF BeginBuild, Builds
  <2>. QED
    BY <1>4, <1>1, <2>1, <2>3 DEF BeginBuild
<1>5. CASE ReadRows
  <2>1. payload.run \in Runs /\ payload.at \in 0..now /\ payload.snaps \in Snapshots(now) /\ bpc = "rows"
    BY <1>5 DEF ReadRows, Builds
  <2>2. PICK snaps \in Snapshots(now) : payload' = [payload EXCEPT !.snaps = snaps]
    <3>1. NoSnapshots \in Snapshots(now)
      BY <1>b DEF NoSnapshots, Snapshots
    <3>2. [payload.snaps EXCEPT !.of = local.rows[payload.run], !.at = payload.at] \in Snapshots(now)
      BY <2>1, <1>a, <1>b DEF Snapshots
    <3>. QED
      BY <1>5, <2>1, <3>1, <3>2 DEF ReadRows
  <2>3. payload' \in Builds(now)
    BY <2>1, <2>2 DEF Builds
  <2>. QED
    BY <1>5, <2>1, <2>3, <1>c DEF ReadRows
<1>6. CASE PublishLocal
  <2>1. local' \in Databases(now)
    BY <1>6, PublishedFields DEF PublishLocal, Builds
  <2>. QED
    BY <1>6, <2>1, <1>c DEF PublishLocal
<1>7. CASE CopyDatabase
  BY <1>7, <1>c DEF CopyDatabase
<1>8. CASE FinishRelease
  <2>1. Published(copy, payload) \in Databases(now)
    BY <1>8, PublishedFields DEF FinishRelease, Builds
  <2>2. built' = Append(built, Published(copy, payload)) /\ bpc' = "idle" /\ UNCHANGED <<now, local>>
    BY <1>8 DEF FinishRelease
  <2>3. built' \in Seq(Databases(now)) /\ Len(built') = Len(built) + 1
        /\ \A n \in 1..Len(built) : built'[n] = built[n]
    BY <2>1, <2>2
  <2>4. BuildTyped'
    <3>1. now' \in Nat /\ local' \in Databases(now')
      BY <2>2
    <3>2. built' \in Seq(Databases(now')) /\ Len(built') > 0
      BY <2>2, <2>3, <1>c
    <3>. QED
      BY <2>2, <3>1, <3>2
  <2>5. Len(built) <= Len(built') /\ Len(built') \in Nat /\ \A n \in Releases : built'[n] = built[n]
    BY <2>3, <1>c DEF Releases
  <2>. QED
    BY <2>4, <2>5
<1>9. CASE BuildFails
  BY <1>9, <1>c DEF BuildFails
<1>10. CASE ReadContext
  <2>1. payload \in Builds(now) /\ payload.snaps \in Snapshots(now) /\ bpc = "context"
    BY <1>10 DEF ReadContext, Builds
  <2>2. [payload.snaps EXCEPT !.named = local.ref] \in Snapshots(now)
    BY <2>1, <1>b DEF Snapshots
  <2>3. payload' \in Builds(now)
    BY <1>10, <2>1, <2>2 DEF ReadContext, Builds
  <2>. QED
    BY <1>10, <2>3, <1>c DEF ReadContext
<1>. QED
  BY <1>2, <1>3, <1>4, <1>5, <1>6, <1>7, <1>8, <1>9, <1>10, <1>c DEF Builder

LEMMA TypedBuild ==
    ASSUME Typed, Builder
    PROVE  Typed'
<1>1. BuildTyped' /\ Building /\ Releases \subseteq Releases'
  BY BuildNext, BuilderKind DEF Releases
<1>2. cache = None /\ answers = <<>> /\ \A t \in Threads : pc[t] = "idle"
  BY <1>1 DEF Building, Typed, Settled
<1>3. Placed'
  BY <1>1 DEF Building, Typed, Placed
<1>4. ThreadsTyped'
  <2>1. \A t \in Threads : ThreadTyped(t)'
    BY <1>1, <1>2 DEF Building, ThreadTyped, Begun, Loaded
  <2>2. seen' \in [Threads -> SUBSET Releases'] /\ mixed' \subseteq Releases'
    BY <1>1 DEF Building, Typed, ThreadsTyped
  <2>. QED
    BY <1>1, <2>1, <2>2 DEF Building, Typed, ThreadsTyped
<1>5. CachesTyped' /\ Owned' /\ Settled'
  <2>1. CachesTyped'
    BY <1>1, <1>2 DEF Building, CachesTyped
  <2>. QED
    BY <1>1, <1>2, <2>1 DEF Building, Typed, Owned, Settled
<1>. QED
  BY <1>1, <1>3, <1>4, <1>5 DEF Typed

\* Where the time and the releases stay, so do the types.
LEMMA SameTypes ==
    ASSUME UNCHANGED <<now, built>>
    PROVE  Contents' = Contents /\ Markers(now)' = Markers(now) /\ Answers' = Answers /\ Releases' = Releases
BY DEF Contents, Markers, Answers, Releases

LEMMA PlacedSwitch ==
    ASSUME Typed, Switch
    PROVE  Placed'
<1>. USE DEF Typed, Placed
<1>a. built' = built /\ Releases' = Releases /\ None \notin Releases
  BY SwitchKind, Constants DEF Switching, Releases
<1>1. ASSUME NEW n \in 1..MaxReleases, NEW rollback \in BOOLEAN, BeginSwitch(n, rollback) PROVE Placed'
  <2>1. n \in Releases
    BY <1>1 DEF BeginSwitch, Releases
  <2>2. previous' \in {Absent, Empty, Stub} \union Releases
    BY <1>1 DEF BeginSwitch
  <2>. QED
    BY <1>1, <1>a, <2>1, <2>2 DEF BeginSwitch
<1>2. CASE Retire
  BY <1>2, <1>a DEF Retire
<1>3. CASE Publish
  BY <1>3, <1>a DEF Publish, Serve
<1>4. CASE DropRetired \/ Undo
  BY <1>4, <1>a DEF DropRetired, Undo, UndoDrops
<1>5. CASE Restore
  BY <1>5, <1>a DEF Restore, Serve
<1>. QED
  BY <1>1, <1>2, <1>3, <1>4, <1>5 DEF Switch

LEMMA TypedSwitch ==
    ASSUME Typed, Switch
    PROVE  Typed'
<1>1. Switching /\ UNCHANGED <<now, built>>
  BY SwitchKind DEF Switching
<1>a. Contents' = Contents /\ Markers(now)' = Markers(now) /\ Answers' = Answers /\ Releases' = Releases
  BY <1>1, SameTypes
<1>2. BuildTyped'
  BY <1>1 DEF Switching, Typed, BuildTyped
<1>3. ThreadsTyped'
  <2>1. seen' \in [Threads -> SUBSET Releases] /\ mixed' \subseteq Releases
    BY <1>1 DEF Switching, Moves, Serve, Typed, ThreadsTyped
  <2>. QED
    BY <1>1, <1>a, <2>1 DEF Switching, Typed, ThreadsTyped, ThreadTyped
<1>4. CachesTyped' /\ Owned'
  BY <1>1, <1>a DEF Switching, Typed, CachesTyped, Owned
<1>5. Settled'
  <2>1. AllBuilt
    BY <1>1 DEF Switching, Typed, Settled
  <2>2. AllBuilt'
    BY <1>1, <2>1 DEF AllBuilt
  <2>3. \A t \in Threads : pc'[t] # "idle" /\ Released' => served' \in seen'[t]
    BY <1>1, <1>a DEF Switching, Moves, Serve, Released, Releases, Typed, Settled
  <2>. QED
    BY <2>2, <2>3 DEF Settled
<1>. QED
  BY <1>2, <1>3, <1>4, <1>5, PlacedSwitch DEF Typed

\* The other threads stay where they are.
Alone(t) ==
    /\ pc' \in [Threads -> Steps]
    /\ DOMAIN req' = Threads /\ DOMAIN mark' = Threads /\ DOMAIN got' = Threads /\ DOMAIN out' = Threads
    /\ seen' \in [Threads -> SUBSET Releases]
    /\ \A u \in Threads \ {t} :
        /\ pc'[u] = pc[u] /\ req'[u] = req[u] /\ mark'[u] = mark[u] /\ got'[u] = got[u]
        /\ out'[u] = out[u] /\ seen'[u] = seen[u]

LEMMA OneThread ==
    ASSUME Typed, NEW t \in Threads, Query(t)
    PROVE  Alone(t) /\ aba' = aba
<1>. USE DEF Alone, Typed, ThreadsTyped, Goto, Steps, Begun, Loaded, Loading, threads, observers
<1>1. CASE Ask(t)
  BY <1>1 DEF Ask, Released, Releases
<1>2. CASE MakeDirectory(t) \/ OpenStub(t)
  BY <1>2 DEF MakeDirectory, OpenStub
<1>3. CASE ReadLive(t) \/ ReadPublished(t) \/ ReadCounts(t) \/ ReadReference(t)
  BY <1>3 DEF ReadLive, ReadPublished, ReadCounts, ReadReference
<1>4. CASE Lock(t) \/ CountSnapshots(t)
  BY <1>4 DEF Lock, CountSnapshots
<1>5. CASE ListSnapshots(t) \/ ListRows(t) \/ FindImport(t) \/ ListExternal(t)
  BY <1>5 DEF ListSnapshots, ListRows, FindImport, ListExternal, Store
<1>6. CASE (\E q \in Queries : LookUp(t, q)) \/ Rank(t)
  BY <1>6 DEF LookUp, Rank
<1>7. CASE Detail(t) \/ (\E x \in Runs : Context(t, x)) \/ Family(t) \/ Reply(t)
  BY <1>7 DEF Detail, Context, Family, Reply
<1>. QED
  BY <1>1, <1>2, <1>3, <1>4, <1>5, <1>6, <1>7 DEF Query

\* What the thread reads
LEMMA MarkType ==
    ASSUME Typed, NEW t \in Threads, pc[t] \notin Begun
    PROVE  /\ mark[t] \in Markers(now) /\ mark[t].run \in Runs /\ mark[t].rows \in 0..now
           /\ mark[t].at \in 0..now /\ mark[t].ref \in 0..now /\ mark[t].snaps \in BOOLEAN
BY DEF Typed, ThreadsTyped, ThreadTyped, Markers

LEMMA ThreadQuery ==
    ASSUME Typed, NEW t \in Threads, Query(t)
    PROVE  ThreadTyped(t)'
<1>. USE DEF Goto, Begun, Loaded, Loading
<1>a. UNCHANGED <<now, built>> /\ Contents' = Contents /\ Markers(now)' = Markers(now)
  BY QueryKind, SameTypes DEF Querying
<1>b. /\ pc \in [Threads -> Steps] /\ ThreadTyped(t) /\ 0 \in 0..now
      /\ DOMAIN req = Threads /\ DOMAIN mark = Threads /\ DOMAIN got = Threads /\ DOMAIN out = Threads
  BY DEF Typed, ThreadsTyped, BuildTyped
<1>1. CASE Ask(t)
  BY <1>1, <1>a, <1>b DEF Ask, ThreadTyped
<1>2. CASE MakeDirectory(t) \/ OpenStub(t) \/ Reply(t)
  BY <1>2, <1>a, <1>b DEF MakeDirectory, OpenStub, Reply, ThreadTyped, threads
<1>3. CASE ReadLive(t)
  <2>1. [run |-> LiveRun(DB), rows |-> 0, at |-> 0, snaps |-> FALSE, ref |-> 0] \in Markers(now)
    BY <1>3, <1>b, ServedType DEF ReadLive, At, Markers
  <2>2. mark'[t] \in Markers(now) /\ pc'[t] = "published"
    BY <1>3, <1>b, <2>1 DEF ReadLive
  <2>. QED
    BY <1>a, <2>2 DEF ThreadTyped
<1>4. CASE ReadCounts(t)
  <2>. DEFINE x == mark[t].run
              at == IF DB.snaps[x].at > 0 THEN DB.snaps[x].at ELSE mark[t].at
              new == [mark[t] EXCEPT !.rows = DB.rows[x], !.snaps = DB.snaps[x].at > 0, !.at = at]
  <2>1. new \in Markers(now)
    <3>1. mark[t] \in Markers(now) /\ x \in Runs /\ mark[t].at \in 0..now
      BY <1>4, MarkType DEF ReadCounts, At
    <3>2. DB.rows[x] \in 0..now /\ at \in 0..now /\ (DB.snaps[x].at > 0) \in BOOLEAN
      BY <1>4, <3>1, ServedType DEF ReadCounts, At
    <3>. HIDE DEF at, x
    <3>. QED
      BY <3>1, <3>2 DEF Markers
  <2>2. mark' = [mark EXCEPT ![t] = new]
    BY <1>4, Zenon DEF ReadCounts
  <2>3. pc'[t] = "refs"
    BY <1>4, <1>b DEF ReadCounts
  <2>. HIDE DEF new
  <2>. QED
    BY <1>a, <1>b, <2>1, <2>2, <2>3 DEF ThreadTyped
<1>5. CASE ReadReference(t)
  <2>1. mark[t] \in Markers(now) /\ DB.ref \in 0..now
    BY <1>5, MarkType, ServedType DEF ReadReference, At
  <2>2. mark'[t] = [mark[t] EXCEPT !.ref = DB.ref] /\ pc'[t] = "lock"
    BY <1>5, <1>b DEF ReadReference
  <2>3. mark'[t] \in Markers(now)
    BY <2>1, <2>2 DEF Markers
  <2>. QED
    BY <1>a, <2>2, <2>3 DEF ThreadTyped
<1>6. CASE Lock(t)
  <2>1. UNCHANGED mark /\ (pc'[t] = "count" \/ (pc'[t] = "indexed" /\ got'[t] = cache.content /\ cache # None))
    BY <1>6, <1>b DEF Lock
  <2>2. cache # None => cache.content \in Contents
    BY DEF Typed, CachesTyped
  <2>. QED
    BY <1>6, <1>a, <1>b, <2>1, <2>2 DEF Lock, ThreadTyped
<1>7. CASE CountSnapshots(t)
  BY <1>7, <1>a, <1>b DEF CountSnapshots, At, ThreadTyped
<1>8. CASE ListSnapshots(t) \/ ListRows(t)
  <2>1. mark[t] \in Markers(now) /\ mark[t].run \in Runs
    BY <1>8, MarkType DEF ListSnapshots, ListRows, At
  <2>2. DB.snaps[mark[t].run].at \in 0..now /\ DB.rows[mark[t].run] \in 0..now
    BY <1>8, <2>1, ServedType DEF ListSnapshots, ListRows, At
  <2>3. got'[t] \in Contents /\ pc'[t] = "import" /\ mark' = mark
    BY <1>8, <1>b, <2>1, <2>2 DEF ListSnapshots, ListRows, Contents
  <2>. QED
    BY <1>a, <2>1, <2>3 DEF ThreadTyped
<1>9. CASE FindImport(t) \/ ListExternal(t)
  <2>1. got[t] \in Contents /\ DB.ref \in 0..now /\ mark[t] \in Markers(now)
    BY <1>9, <1>b, ServedType, MarkType DEF FindImport, ListExternal, At, ThreadTyped
  <2>2. PICK ref \in 0..now : got'[t] = [got[t] EXCEPT !.ref = ref]
    BY <1>9, <1>b, <2>1 DEF FindImport, ListExternal, Store, Contents
  <2>3. mark' = mark /\ pc'[t] \in {"indexed", "external"}
    BY <1>9, <1>b DEF FindImport, ListExternal, Store
  <2>4. got'[t] \in Contents
    BY <2>1, <2>2 DEF Contents
  <2>. QED
    BY <1>a, <2>1, <2>3, <2>4 DEF ThreadTyped
<1>10. ASSUME NEW q \in Queries, LookUp(t, q) PROVE ThreadTyped(t)'
  <2>1. UNCHANGED <<mark, got>> /\ pc[t] = "indexed"
    BY <1>10 DEF LookUp
  <2>2. CASE Known(SearchKey(t, q))
    <3>1. Answer(SearchKey(t, q)) \in Answers
      BY <2>2, AnswerType DEF Typed, CachesTyped
    <3>2. out'[t] \in Contents /\ pc'[t] = "reply"
      BY <1>10, <1>b, <2>2, <3>1 DEF LookUp, Answers
    <3>. QED
      BY <1>a, <1>b, <2>1, <3>2 DEF ThreadTyped
  <2>3. CASE ~Known(SearchKey(t, q))
    <3>1. pc'[t] = "rank" /\ req'[t] = q
      BY <1>10, <1>b, <2>3 DEF LookUp
    <3>. QED
      BY <1>a, <1>b, <2>1, <3>1 DEF ThreadTyped
  <2>. QED
    BY <2>2, <2>3
<1>11. CASE Rank(t) \/ Detail(t)
  BY <1>11, <1>a, <1>b DEF Rank, Detail, ThreadTyped
<1>12. ASSUME NEW x \in Runs, Context(t, x) PROVE ThreadTyped(t)'
  <2>1. got[t] \in Contents /\ DB.ref \in 0..now /\ mark[t] \in Markers(now)
    BY <1>12, <1>b, ServedType, MarkType DEF Context, At, ThreadTyped
  <2>2. [got[t] EXCEPT !.ref = DB.ref] \in Contents
        /\ [run |-> x, from |-> "none", data |-> 0, ref |-> DB.ref] \in Contents
    BY <1>b, <2>1 DEF Contents
  <2>3. out'[t] \in Contents /\ pc'[t] \in {"reply", "family"} /\ UNCHANGED <<mark, got>> /\ req'[t] = x
    BY <1>12, <1>b, <2>2 DEF Context
  <2>. QED
    BY <1>a, <2>1, <2>3 DEF ThreadTyped
<1>13. CASE Family(t)
  <2>1. req[t] \in Runs /\ DB.rows[req[t]] \in 0..now /\ out[t] \in Contents
    BY <1>13, <1>b, ServedType DEF Family, At, ThreadTyped
  <2>2. out'[t] = [out[t] EXCEPT !.from = IF DB.rows[req[t]] > 0 THEN "rows" ELSE "none", !.data = DB.rows[req[t]]]
    BY <1>13, <1>b DEF Family
  <2>3. out'[t] \in Contents /\ pc'[t] = "reply" /\ UNCHANGED <<mark, got>>
    BY <1>13, <1>b, <2>1, <2>2 DEF Family, Contents
  <2>. QED
    BY <1>13, <1>a, <1>b, <2>3 DEF Family, At, ThreadTyped
<1>14. CASE ReadPublished(t)
  <2>1. mark[t] \in Markers(now) /\ DB.liveAt \in 0..now
    BY <1>14, MarkType, ServedType DEF ReadPublished, At
  <2>2. mark'[t] = [mark[t] EXCEPT !.at = DB.liveAt] /\ pc'[t] = "counts"
    BY <1>14, <1>b DEF ReadPublished
  <2>3. mark'[t] \in Markers(now)
    BY <2>1, <2>2 DEF Markers
  <2>. QED
    BY <1>a, <2>2, <2>3 DEF ThreadTyped
<1>. QED
  BY <1>1, <1>2, <1>3, <1>4, <1>5, <1>6, <1>7, <1>8, <1>9, <1>10, <1>11, <1>12, <1>13, <1>14 DEF Query

LEMMA CachesQuery ==
    ASSUME Typed, NEW t \in Threads, Query(t)
    PROVE  CachesTyped' /\ mixed' \subseteq Releases
<1>. USE DEF caches
<1>a. UNCHANGED <<now, built>> /\ Contents' = Contents /\ Markers(now)' = Markers(now) /\ Answers' = Answers
  BY QueryKind, SameTypes DEF Querying
<1>b. /\ cache # None => cache \in [marker : Markers(now), content : Contents]
      /\ answers \in Seq(Answers) /\ mixed \subseteq Releases /\ seen[t] \subseteq Releases
  BY DEF Typed, CachesTyped, ThreadsTyped
<1>1. CASE FindImport(t) \/ ListExternal(t)
  <2>1. pc'[t] \in Loaded \union {"external"} => got'[t] \in Contents
    BY <1>a, ThreadQuery DEF ThreadTyped
  <2>2. pc'[t] \in {"indexed", "external"} /\ mark[t] \in Markers(now)
    BY <1>1, MarkType DEF FindImport, ListExternal, Store, At, Goto, Begun, Typed, ThreadsTyped
  <2>3. cache' = cache \/ cache' = [marker |-> mark[t], content |-> got'[t]]
    BY <1>1 DEF FindImport, ListExternal, Store
  <2>4. UNCHANGED answers /\ mixed' \subseteq mixed \union seen[t]
    BY <1>1 DEF FindImport, ListExternal, Store
  <2>. QED
    BY <1>a, <1>b, <2>1, <2>2, <2>3, <2>4 DEF CachesTyped, Loaded
<1>2. ASSUME NEW q \in Queries, LookUp(t, q) PROVE CachesTyped' /\ mixed' \subseteq Releases
  <2>1. UNCHANGED <<cache, mixed>>
    BY <1>2 DEF LookUp, observers
  <2>2. answers' \in Seq(Answers)
    <3>1. CASE Known(SearchKey(t, q))
      <4>1. Answer(SearchKey(t, q)) \in Answers
        BY <1>b, <3>1, AnswerType
      <4>2. MoveToEnd(Answer(SearchKey(t, q))) \in Seq(Answers)
        BY <1>b, <4>1, MoveToEndType
      <4>. QED
        BY <1>2, <3>1, <4>2 DEF LookUp
    <3>. QED
      BY <1>2, <1>b, <3>1 DEF LookUp
  <2>. QED
    BY <1>a, <1>b, <2>1, <2>2 DEF CachesTyped
<1>3. CASE Rank(t)
  <2>1. UNCHANGED <<cache, mixed>> /\ answers' = MoveToEnd([key |-> SearchKey(t, req[t]), content |-> got[t]])
    BY <1>3 DEF Rank, observers
  <2>2. [key |-> SearchKey(t, req[t]), content |-> got[t]] \in Answers
    <3>1. mark[t].run \in Runs /\ mark[t].rows \in 0..now /\ got[t] \in Contents
      BY <1>3, MarkType DEF Rank, Begun, Loaded, Typed, ThreadsTyped, ThreadTyped
    <3>2. req[t] \in Queries
      BY <1>3 DEF Rank, Typed, ThreadsTyped, ThreadTyped
    <3>. QED
      BY <3>1, <3>2 DEF SearchKey, Answers
  <2>3. answers' \in Seq(Answers)
    BY <1>b, <2>1, <2>2, MoveToEndType
  <2>. QED
    BY <1>a, <1>b, <2>1, <2>3 DEF CachesTyped
<1>4. CASE Lock(t)
  <2>1. UNCHANGED <<cache, answers, mixed>>
    BY <1>4 DEF Lock, Unmarked, observers
  <2>. QED
    BY <1>a, <1>b, <2>1 DEF CachesTyped
<1>5. CASE Ask(t) \/ MakeDirectory(t) \/ OpenStub(t) \/ ReadLive(t) \/ ReadPublished(t) \/ ReadCounts(t) \/ ReadReference(t)
  BY <1>5, <1>a, <1>b
     DEF Ask, MakeDirectory, OpenStub, ReadLive, ReadPublished, ReadCounts, ReadReference, observers, CachesTyped
<1>6. CASE CountSnapshots(t) \/ ListSnapshots(t) \/ ListRows(t)
  BY <1>6, <1>a, <1>b DEF CountSnapshots, ListSnapshots, ListRows, observers, CachesTyped
<1>7. CASE Detail(t) \/ (\E x \in Runs : Context(t, x)) \/ Family(t) \/ Reply(t)
  BY <1>7, <1>a, <1>b DEF Detail, Context, Family, Reply, observers, CachesTyped
<1>. QED
  BY <1>1, <1>2, <1>3, <1>4, <1>5, <1>6, <1>7 DEF Query

\* Only the owner of the lock loads the index, and it takes it when it is free.
LEMMA OwnedQuery ==
    ASSUME Typed, NEW t \in Threads, Query(t)
    PROVE  Owned'
<1>. USE DEF caches, threads, Owned, Goto, Alone
<1>a. Owned /\ DOMAIN pc = Threads /\ None \notin Threads /\ Alone(t)
  BY OneThread, Constants DEF Typed, ThreadsTyped
<1>1. CASE Ask(t) \/ MakeDirectory(t) \/ OpenStub(t) \/ ReadLive(t) \/ ReadPublished(t) \/ ReadCounts(t) \/ ReadReference(t)
  BY <1>1, <1>a DEF Ask, MakeDirectory, OpenStub, ReadLive, ReadPublished, ReadCounts, ReadReference, At, Unlocked
<1>2. CASE Lock(t)
  BY <1>2, <1>a DEF Lock
<1>3. CASE CountSnapshots(t) \/ ListSnapshots(t) \/ ListRows(t) \/ FindImport(t) \/ ListExternal(t)
  BY <1>3, <1>a DEF CountSnapshots, ListSnapshots, ListRows, FindImport, ListExternal, Store, At
<1>4. CASE (\E q \in Queries : LookUp(t, q)) \/ Rank(t) \/ Detail(t) \/ (\E x \in Runs : Context(t, x))
           \/ Family(t) \/ Reply(t)
  BY <1>4, <1>a DEF LookUp, Rank, Detail, Context, Family, Reply, At
<1>. QED
  BY <1>1, <1>2, <1>3, <1>4 DEF Query

LEMMA SettledQuery ==
    ASSUME Typed, NEW t \in Threads, Query(t)
    PROVE  Settled' /\ Placed' /\ BuildTyped'
<1>. USE DEF threads, observers
<1>1. Querying /\ Alone(t)
  BY QueryKind, OneThread
<1>2. UNCHANGED Releases /\ AllBuilt' = AllBuilt
  BY <1>1 DEF Querying, Releases, AllBuilt
<1>3. AllBuilt
  <2>1. Ask(t) => AllBuilt
    BY DEF Ask
  <2>2. ~Ask(t) => pc[t] # "idle"
    BY DEF Query, MakeDirectory, OpenStub, ReadLive, ReadPublished, ReadCounts, ReadReference, Lock, CountSnapshots,
           ListSnapshots, ListRows, FindImport, ListExternal, Store, LookUp, Rank, Detail, Context, Family, Reply, At, Reading
  <2>. QED
    BY <2>1, <2>2 DEF Typed, Settled
<1>4. pc'[t] # "idle" /\ Released' => served' \in seen'[t]
  <2>1. CASE Ask(t)
    BY <2>1 DEF Ask, Released, Typed, ThreadsTyped
  <2>2. CASE pc[t] # "idle" /\ seen'[t] = seen[t]
    BY <2>2, <1>1, <1>2 DEF Querying, Released, Releases, Typed, Settled
  <2>3. CASE OpenStub(t) \/ Reply(t)
    BY <2>3 DEF OpenStub, Reply, Goto, Typed, ThreadsTyped
  <2>. QED
    BY <2>1, <2>2, <2>3
       DEF Query, MakeDirectory, ReadLive, ReadPublished, ReadCounts, ReadReference, Lock, CountSnapshots,
           ListSnapshots, ListRows, FindImport, ListExternal, Store, LookUp, Rank, Detail, Context, Family, At, Reading
<1>5. Settled'
  BY <1>1, <1>2, <1>3, <1>4 DEF Querying, Alone, Released, Releases, Typed, Settled
<1>6. Placed'
  <2>1. served' \in {served, Empty, Stub}
    BY DEF Query, Ask, MakeDirectory, OpenStub, ReadLive, ReadPublished, ReadCounts, ReadReference, Lock, CountSnapshots,
           ListSnapshots, ListRows, FindImport, ListExternal, Store, LookUp, Rank, Detail, Context, Family, Reply
  <2>. QED
    BY <1>1, <1>2, <2>1 DEF Querying, Typed, Placed
<1>. QED
  BY <1>1, <1>5, <1>6 DEF Querying, Typed, BuildTyped

LEMMA TypedQuery ==
    ASSUME Typed, NEW t \in Threads, Query(t)
    PROVE  Typed'
<1>1. Querying /\ Alone(t) /\ ThreadTyped(t)' /\ mixed' \subseteq Releases
  BY QueryKind, OneThread, ThreadQuery, CachesQuery
<1>2. Contents' = Contents /\ Markers(now)' = Markers(now) /\ Releases' = Releases
  BY <1>1, SameTypes DEF Querying
<1>3. ThreadsTyped'
  BY <1>1, <1>2 DEF Alone, Typed, ThreadsTyped, ThreadTyped
<1>. QED
  BY <1>3, CachesQuery, OwnedQuery, SettledQuery DEF Typed

LEMMA TypedInit == Init => Typed
<1>. SUFFICES ASSUME Init PROVE Typed
  OBVIOUS
<1>. DEFINE first == CHOOSE x \in Runs : TRUE
            snaps(time) == [of |-> 1, ref |-> 0, named |-> 0, at |-> time]
            start == [rows |-> [x \in Runs |-> IF x = first THEN 1 ELSE 0],
                      snaps |-> [x \in Runs |-> IF x = first THEN snaps(2) ELSE NoSnapshots],
                      live |-> first, liveAt |-> 2, ref |-> 0]
            p == [run |-> first, at |-> 3, snaps |-> snaps(3)]
<1>1. now = 3 /\ local = start /\ built = <<Published(start, p)>>
  BY DEF Init
<1>2. first \in Runs /\ snaps(2) \in Snapshots(3) /\ snaps(3) \in Snapshots(3) /\ NoSnapshots \in Snapshots(3)
  BY LiveQueryAssumption DEF Snapshots, NoSnapshots
<1>3. start \in Databases(3) /\ p.run \in Runs /\ p.snaps \in Snapshots(3) /\ p.at \in 0..3
  <2>. HIDE DEF first, snaps
  <2>. QED
    BY <1>2 DEF Databases
<1>. HIDE DEF start, p
<1>4. Published(start, p) \in Databases(3)
  BY <1>3, PublishedFields
<1>5. BuildTyped
  <2>1. now \in Nat /\ local \in Databases(now) /\ Published(start, p) \in Databases(now)
    BY <1>1, <1>3, <1>4
  <2>2. built \in Seq(Databases(now)) /\ Len(built) > 0
    BY <1>1, <2>1
  <2>3. bpc = "idle"
    BY DEF Init
  <2>. QED
    BY <2>1, <2>2, <2>3 DEF BuildTyped
<1>6. Len(built) = 1 /\ Releases = {1}
  BY <1>1 DEF Releases
<1>7. Placed /\ Owned /\ ThreadsTyped
  BY <1>6, Constants DEF Init, Placed, Owned, ThreadsTyped, ThreadTyped, Steps, Begun, Loaded
<1>8. CachesTyped
  BY DEF Init, CachesTyped
<1>9. Settled
  BY DEF Init, Settled
<1>. QED
  BY <1>5, <1>7, <1>8, <1>9 DEF Typed

LEMMA TypedNext ==
    ASSUME Typed, [Next]_vars
    PROVE  Typed'
<1>1. CASE UNCHANGED vars
  BY <1>1
     DEF vars, build, switch, threads, caches, observers, Typed, BuildTyped, Placed, ThreadsTyped, ThreadTyped,
         CachesTyped, Owned, Settled, Releases, Released, AllBuilt, Contents, Answers
<1>. QED
  BY <1>1, TypedBuild, TypedSwitch, TypedQuery DEF Next

LEMMA Types == Spec => []Typed
<1>. QED
  BY TypedInit, TypedNext, PTL DEF Spec

-----------------------------------------------------------------------------
(* The theorems about types *)

LEMMA TypedIsOK == Typed => TypeOK
<1>. SUFFICES ASSUME Typed PROVE TypeOK
  OBVIOUS
<1>1. local \in Databases(now)
  BY DEF Typed, BuildTyped
<1>2. cache # None => cache.content \in Contents
  BY DEF Typed, CachesTyped
<1>3. \A i \in DOMAIN answers : answers[i].content \in Contents
  <2>1. \A i \in DOMAIN answers : answers[i] \in Answers
    BY DEF Typed, CachesTyped
  <2>. QED
    BY <2>1 DEF Answers
<1>4. (incoming = None) = (dpc = "idle")
  BY Constants DEF Typed, Placed, Releases
<1>. QED
  BY <1>1, <1>2, <1>3, <1>4 DEF TypeOK, Typed, Placed, Releases, Owned, Databases, Snapshots

\* The variables of the model keep their types, and the index is loaded by the
\* owner of the lock only.
THEOREM TypeCorrect == Spec => []TypeOK
BY Types, TypedIsOK, PTL

-----------------------------------------------------------------------------
(***************************************************************************)
(* What a build has read is what the database it reads holds, or that has  *)
(* been written since the build began.                                     *)
(***************************************************************************)
OfRows(s, db, x, at) == s.of <= db.rows[x] /\ (s.of # db.rows[x] => db.rows[x] > at)

OfPrices(s, db, at) == s.ref <= db.ref /\ (s.ref # db.ref => db.ref > at)

OfMoment(s, db, x, at) ==
    s.at > 0 => s.at = at /\ OfRows(s, db, x, at) /\ OfPrices(s, db, at) /\ s.ref <= s.named /\ s.named <= db.ref

BuildMoment ==
    /\ bpc \in {"context", "rows"} => OfPrices(payload.snaps, local, payload.at)
    /\ bpc = "rows" => payload.snaps.ref <= payload.snaps.named /\ payload.snaps.named <= local.ref
    /\ bpc \in {"copy", "publish"} => OfMoment(payload.snaps, local, payload.run, payload.at)
    /\ bpc = "bundle" => OfMoment(payload.snaps, copy, payload.run, payload.at)

BuiltMoment == \A n \in Releases : OfMoment(built[n].snaps[built[n].live], built[n], built[n].live, built[n].liveAt)

\* Rows and references written during a build are later than the build.
LEMMA MomentWritten ==
    ASSUME Typed, BuildMoment, now' = now + 1, UNCHANGED <<bpc, payload, copy>>, local.rows \in [Runs -> 0..now],
           local.ref \in 0..now,
           \/ \E x \in Runs : local' = [local EXCEPT !.rows[x] = now']
           \/ local' = [local EXCEPT !.ref = now']
    PROVE  BuildMoment'
<1>1. now \in Nat /\ local \in Databases(now) /\ (bpc # "idle" => payload \in Builds(now))
  BY DEF Typed, BuildTyped
<1>2. /\ \A y \in Runs : local'.rows[y] \in {local.rows[y], now'}
      /\ local'.ref \in {local.ref, now'}
  BY <1>1 DEF Databases
<1>3. bpc # "idle" => /\ payload.run \in Runs /\ payload.at \in 0..now /\ payload.snaps.at \in 0..now
                      /\ payload.snaps.of \in 0..now /\ payload.snaps.ref \in 0..now /\ payload.snaps.named \in 0..now
  BY <1>1 DEF Builds, Snapshots
<1>4. \A y \in Runs : local.rows[y] \in 0..now
  OBVIOUS
<1>. QED
  BY <1>1, <1>2, <1>3, <1>4 DEF BuildMoment, OfMoment, OfRows, OfPrices

LEMMA MomentNext ==
    ASSUME Typed, BuildMoment, [Next]_vars
    PROVE  BuildMoment'
<1>a. /\ now \in Nat /\ local \in Databases(now) /\ local.rows \in [Runs -> 0..now] /\ local.ref \in 0..now
      /\ (bpc # "idle" => payload \in Builds(now) /\ payload.run \in Runs /\ payload.snaps \in Snapshots(now))
  BY DEF Typed, BuildTyped, Databases, Builds
<1>1. CASE ~Builder
  <2>1. UNCHANGED <<local, bpc, payload, copy>>
    BY <1>1, SwitchKind, QueryKind DEF Next, Switching, Querying, vars, build
  <2>. QED
    BY <2>1 DEF BuildMoment
<1>2. CASE Builder
  <2>1. ASSUME NEW x \in Runs, Collect(x) PROVE BuildMoment'
    BY <2>1, <1>a, MomentWritten DEF Collect, Tick, build
  <2>2. CASE ImportReference
    BY <2>2, <1>a, MomentWritten DEF ImportReference, Tick, build
  <2>3. ASSUME NEW x \in Runs, NEW purpose \in {"release", "local"}, BeginBuild(x, purpose) PROVE BuildMoment'
    <3>1. bpc' = "context" /\ local' = local /\ payload'.snaps.ref = local.ref
      BY <2>3 DEF BeginBuild, NoSnapshots
    <3>. QED
      BY <3>1, <1>a DEF BuildMoment, OfPrices
  <2>4. CASE ReadContext
    <3>1. /\ bpc = "context" /\ bpc' = "rows" /\ local' = local
          /\ payload' = [payload EXCEPT !.snaps.named = local.ref]
      BY <2>4 DEF ReadContext
    <3>2. payload'.at = payload.at /\ payload'.snaps.ref = payload.snaps.ref /\ payload'.snaps.named = local.ref
      BY <3>1, <1>a DEF Builds, Snapshots
    <3>. QED
      BY <3>1, <3>2, <1>a DEF BuildMoment, OfPrices
  <2>5. CASE ReadRows
    <3>1. /\ bpc = "rows" /\ bpc' \in {"copy", "publish"} /\ local' = local
          /\ payload.snaps \in Snapshots(now) /\ payload \in Builds(now)
      BY <2>5, <1>a DEF ReadRows
    <3>2. /\ payload'.run = payload.run /\ payload'.at = payload.at
          /\ payload'.snaps \in {NoSnapshots, [payload.snaps EXCEPT !.of = local.rows[payload.run], !.at = payload.at]}
      BY <2>5, <3>1 DEF ReadRows, Builds
    <3>3. CASE payload'.snaps = NoSnapshots
      BY <3>1, <3>3 DEF BuildMoment, OfMoment, NoSnapshots
    <3>4. CASE payload'.snaps = [payload.snaps EXCEPT !.of = local.rows[payload.run], !.at = payload.at]
      <4>1. /\ payload'.snaps.of = local.rows[payload.run] /\ payload'.snaps.at = payload.at
            /\ payload'.snaps.ref = payload.snaps.ref /\ payload'.snaps.named = payload.snaps.named
        BY <3>1, <3>4 DEF Snapshots
      <4>. QED
        BY <3>1, <3>2, <4>1, <1>a DEF BuildMoment, OfMoment, OfRows, OfPrices
    <3>. QED
      BY <3>2, <3>3, <3>4
  <2>6. CASE PublishLocal \/ FinishRelease \/ BuildFails
    BY <2>6 DEF PublishLocal, FinishRelease, BuildFails, BuildMoment
  <2>7. CASE CopyDatabase
    BY <2>7 DEF CopyDatabase, BuildMoment
  <2>. QED
    BY <1>2, <2>1, <2>2, <2>3, <2>4, <2>5, <2>6, <2>7 DEF Builder
<1>. QED
  BY <1>1, <1>2

LEMMA MomentBuilt ==
    ASSUME Typed, BuildMoment, BuiltMoment, [Next]_vars
    PROVE  BuiltMoment'
<1>1. CASE UNCHANGED built
  BY <1>1 DEF BuiltMoment, Releases
<1>2. CASE FinishRelease
  <2>. DEFINE db == Published(copy, payload)
  <2>1. /\ bpc = "bundle" /\ built' = Append(built, db)
        /\ copy \in Databases(now) /\ payload \in Builds(now) /\ now \in Nat
    BY <1>2 DEF FinishRelease, Typed, BuildTyped
  <2>2. payload.run \in Runs /\ payload.snaps \in Snapshots(now) /\ payload.at \in 0..now
    BY <2>1 DEF Builds
  <2>. HIDE DEF db
  <2>3. /\ db.live = payload.run /\ db.liveAt = payload.at /\ db.snaps[db.live] = payload.snaps
        /\ db.rows = copy.rows /\ db.ref = copy.ref
    BY <2>1, <2>2, PublishedFields DEF db
  <2>4. OfMoment(db.snaps[db.live], db, db.live, db.liveAt)
    BY <2>1, <2>3 DEF BuildMoment, OfMoment, OfRows, OfPrices
  <2>5. /\ Releases' = Releases \union {Len(built) + 1}
        /\ built'[Len(built) + 1] = db /\ \A n \in Releases : built'[n] = built[n]
    BY <2>1 DEF Typed, BuildTyped, Releases
  <2>. QED
    BY <2>4, <2>5 DEF BuiltMoment
<1>3. UNCHANGED built \/ FinishRelease
  BY SwitchKind, QueryKind
     DEF Next, Builder, Switching, Querying, vars, Collect, ImportReference, BeginBuild, ReadContext, ReadRows,
         PublishLocal, CopyDatabase, BuildFails
<1>. QED
  BY <1>1, <1>2, <1>3

\* The snapshots of a release are made of its own rows, with the prices of its
\* own reference import, but for what was written into the local database from
\* the time of the build on (build_local_release_bundle), and they are never
\* ahead of it.
THEOREM ReleaseMoment == Spec => []ReleaseIsOfOneMoment
<1>1. Init => BuildMoment /\ BuiltMoment
  <2>. SUFFICES ASSUME Init PROVE BuiltMoment
    BY DEF Init, BuildMoment
  <2>. DEFINE first == CHOOSE x \in Runs : TRUE
              snaps(time) == [of |-> 1, ref |-> 0, named |-> 0, at |-> time]
              start == [rows |-> [x \in Runs |-> IF x = first THEN 1 ELSE 0],
                        snaps |-> [x \in Runs |-> IF x = first THEN snaps(2) ELSE NoSnapshots],
                        live |-> first, liveAt |-> 2, ref |-> 0]
              p == [run |-> first, at |-> 3, snaps |-> snaps(3)]
              db == Published(start, p)
  <2>1. local = start /\ built = <<db>> /\ now = 3
    BY DEF Init
  <2>2. start \in Databases(3) /\ first \in Runs
    BY <2>1, TypedInit, LiveQueryAssumption DEF Typed, BuildTyped
  <2>3. /\ p.run = first /\ p.at = 3 /\ p.snaps = snaps(3) /\ p.snaps \in Snapshots(3)
        /\ start.rows[first] = 1 /\ start.ref = 0
    BY <2>2 DEF Snapshots
  <2>. HIDE DEF start, p, first
  <2>4. /\ db.live = first /\ db.liveAt = 3 /\ db.snaps[first] = snaps(3)
        /\ db.rows[first] = 1 /\ db.ref = 0
    BY <2>2, <2>3, PublishedFields
  <2>. HIDE DEF db
  <2>5. OfMoment(db.snaps[db.live], db, db.live, db.liveAt)
    BY <2>4 DEF OfMoment, OfRows, OfPrices
  <2>6. Releases = {1} /\ built[1] = db
    BY <2>1 DEF Releases
  <2>. QED
    BY <2>5, <2>6 DEF BuiltMoment
<1>2. Typed /\ BuiltMoment => ReleaseIsOfOneMoment
  <2>1. Typed => DOMAIN built = Releases
    BY DEF Typed, BuildTyped, Releases
  <2>. QED
    BY <2>1 DEF BuiltMoment, OfMoment, OfRows, OfPrices, ReleaseIsOfOneMoment
<1>. QED
  BY <1>1, <1>2, MomentNext, MomentBuilt, Types, PTL DEF Spec

-----------------------------------------------------------------------------
(***************************************************************************)
(* The directories during a switch                                         *)
(***************************************************************************)
SwitchInv ==
    /\ dpc \in {"idle", "retire"} => served \in Releases \union {Stub}
    /\ dpc = "drop" => Released
    /\ dpc \in {"publish", "undo", "restore"} => moved /\ retired \in Releases \union {Stub} /\ ~Released
    /\ dpc = "publish" /\ served = Stub => spoiled > 0
    /\ dpc = "undo" => spoiled > 0
    /\ dpc = "restore" => spoiled > IF served = Stub THEN 1 ELSE 0
    /\ spoiled \in Nat

LEMMA SwitchNext ==
    ASSUME Typed, SwitchInv, [Next]_vars
    PROVE  SwitchInv' /\ (dpc # "idle" /\ dpc' = "idle" /\ spoiled <= 1
                             /\ (moved => retired \in 1..Len(built) \/ retired = Absent)
                             => served' \in 1..Len(built))
<1>. USE DEF SwitchInv, Released, Releases
<1>a. Absent \notin Releases /\ Stub \notin Releases /\ Empty \notin Releases /\ None \notin Releases
      /\ Absent # Stub /\ Absent # Empty /\ Stub # Empty
  BY Constants
<1>1. CASE Builder
  BY <1>1, BuildNext, BuilderKind, <1>a DEF Building, Typed, Settled, Placed
<1>2. CASE Switch
  <2>1. built' = built
    BY <1>2, SwitchKind DEF Switching
  <2>2. ASSUME NEW n \in 1..MaxReleases, NEW rollback \in BOOLEAN, BeginSwitch(n, rollback)
        PROVE  SwitchInv' /\ dpc' # "idle"
    BY <2>1, <2>2 DEF BeginSwitch
  <2>3. CASE Retire
    BY <1>a, <2>1, <2>3 DEF Retire
  <2>4. CASE Publish
    BY <1>a, <2>1, <2>4 DEF Publish, Serve, Typed, Placed
  <2>5. CASE DropRetired
    BY <2>1, <2>5 DEF DropRetired
  <2>6. CASE Undo
    BY <1>a, <2>1, <2>6 DEF Undo, UndoDrops
  <2>7. CASE Restore
    BY <1>a, <2>1, <2>7 DEF Restore, Serve, Typed, Placed
  <2>. QED
    BY <1>2, <2>2, <2>3, <2>4, <2>5, <2>6, <2>7 DEF Switch
<1>3. ASSUME NEW t \in Threads, Query(t) PROVE SwitchInv' /\ dpc' = dpc
  <2>1. Querying
    BY <1>3, QueryKind
  <2>2. CASE MakeDirectory(t) \/ OpenStub(t)
    BY <1>a, <2>1, <2>2 DEF MakeDirectory, OpenStub, Querying
  <2>3. CASE ~(MakeDirectory(t) \/ OpenStub(t))
    <3>1. UNCHANGED <<served, spoiled>>
      BY <1>3, <2>3 DEF Query, Ask, ReadLive, ReadPublished, ReadCounts, ReadReference, Lock, CountSnapshots, ListSnapshots,
         ListRows, FindImport, ListExternal, Store, LookUp, Rank, Detail, Context, Family, Reply
    <3>. QED
      BY <2>1, <3>1 DEF Querying
  <2>. QED
    BY <2>2, <2>3
<1>4. CASE UNCHANGED vars
  BY <1>4 DEF vars, switch
<1>. QED
  BY <1>1, <1>2, <1>3, <1>4 DEF Next

\* A switch ends with a release being served, the new one or the old one, in
\* whatever steps requests open the database between its renames, as long as
\* only one of them made the directory (_replace_directory).
THEOREM SwitchSafe == Spec => SwitchEndsServed
<1>1. Init => SwitchInv
  BY Constants DEF Init, SwitchInv, Releases
<1>. QED
  BY <1>1, SwitchNext, Types, PTL DEF Spec, SwitchEndsServed

-----------------------------------------------------------------------------
(***************************************************************************)
(* The time of publication of a release is its own: no other release, and  *)
(* nothing a release is made from, was published then.  So the markers of  *)
(* releases differ.                                                        *)
(***************************************************************************)
\* No release has the stamp.
Fresh(stamp) ==
    \A n \in Releases : built[n].liveAt # stamp /\ \A x \in Runs : built[n].snaps[x].at # stamp

\* The database has the stamp of no release, nor the given one.
Unstamped(db) == \A x \in Runs, n \in Releases : db.snaps[x].at # built[n].liveAt

Without(db, stamp) == \A x \in Runs : db.snaps[x].at # stamp

Stamped ==
    /\ \A n \in Releases :
        /\ built[n].liveAt > 0
        /\ built[n].snaps[built[n].live].at \in {0, built[n].liveAt}
        /\ \A m \in Releases : m # n =>
              built[m].liveAt # built[n].liveAt /\ Without(built[m], built[n].liveAt)
    /\ Unstamped(local)
    /\ bpc # "idle" =>
        /\ payload.at > 0 /\ Fresh(payload.at) /\ Without(local, payload.at)
        /\ payload.snaps.at \in {0, payload.at}
    /\ bpc = "bundle" => Unstamped(copy) /\ Without(copy, payload.at)

LEMMA StampedBuild ==
    ASSUME Typed, Stamped, Builder
    PROVE  Stamped'
<1>a. now \in Nat /\ local \in Databases(now) /\ \A x \in Runs : local.snaps[x].at \in 0..now
  BY DEF Typed, BuildTyped, Databases, Snapshots
<1>b. bpc # "idle" => payload.run \in Runs /\ payload.at \in 0..now /\ payload.snaps \in Snapshots(now)
  BY DEF Typed, BuildTyped, Builds
<1>1. ASSUME UNCHANGED built, local'.snaps = local.snaps, bpc' = "idle" \/ UNCHANGED <<bpc, payload, copy>>
      PROVE  Stamped'
  BY <1>1 DEF Stamped, Fresh, Unstamped, Without, Releases
<1>2. ASSUME NEW x \in Runs, Collect(x) PROVE Stamped'
  BY <1>2, <1>1, <1>a DEF Collect, Databases, build
<1>3. CASE ImportReference \/ BuildFails
  BY <1>3, <1>1, <1>a DEF ImportReference, BuildFails, Databases, build
<1>4. ASSUME NEW x \in Runs, NEW purpose \in {"release", "local"}, BeginBuild(x, purpose) PROVE Stamped'
  <2>1. UNCHANGED <<local, built>> /\ bpc' = "context" /\ payload'.at = now + 1 /\ payload'.snaps.at = 0
    BY <1>4 DEF BeginBuild, Tick, NoSnapshots
  <2>2. Fresh(now + 1) /\ Without(local, now + 1)
    BY <1>a, ReleaseType DEF Fresh, Without
  <2>. QED
    BY <1>a, <2>1, <2>2 DEF Stamped, Fresh, Unstamped, Without, Releases
<1>5. CASE ReadContext \/ ReadRows
  <2>1. UNCHANGED <<local, built>> /\ bpc \in {"context", "rows"} /\ bpc' \in {"rows", "copy", "publish"}
    BY <1>5 DEF ReadContext, ReadRows
  <2>2. payload'.at = payload.at /\ payload'.snaps.at \in {0, payload.at}
    <3>1. payload \in Builds(now) /\ payload.snaps \in Snapshots(now) /\ payload.snaps.at \in {0, payload.at}
      BY <2>1 DEF Typed, BuildTyped, Builds, Stamped
    <3>2. CASE ReadContext
      BY <3>1, <3>2 DEF ReadContext, Builds, Snapshots
    <3>3. CASE ReadRows
      <4>1. PICK snaps \in {NoSnapshots, [payload.snaps EXCEPT !.of = local.rows[payload.run], !.at = payload.at]} :
                payload' = [payload EXCEPT !.snaps = snaps]
        BY <3>1, <3>3 DEF ReadRows, Builds
      <4>2. snaps.at \in {0, payload.at}
        <5>1. NoSnapshots.at = 0
          BY DEF NoSnapshots
        <5>2. [payload.snaps EXCEPT !.of = local.rows[payload.run], !.at = payload.at].at = payload.at
          BY <3>1 DEF Snapshots
        <5>. QED
          BY <4>1, <5>1, <5>2, Zenon
      <4>. QED
        BY <3>1, <4>1, <4>2 DEF Builds
    <3>. QED
      BY <1>5, <3>2, <3>3
  <2>. QED
    BY <2>1, <2>2 DEF Stamped, Fresh, Unstamped, Without, Releases
<1>6. CASE PublishLocal
  <2>1. UNCHANGED built /\ bpc # "idle" /\ bpc' = "idle" /\ local' = Published(local, payload)
    BY <1>6 DEF PublishLocal
  <2>2. \A x \in Runs : local'.snaps[x] = IF x = payload.run THEN payload.snaps ELSE local.snaps[x]
    BY <1>a, <1>b, <2>1, PublishedFields
  <2>3. Unstamped(local)'
    <3>1. \A n \in Releases : built[n].liveAt > 0 /\ built[n].liveAt # payload.at
      BY <2>1 DEF Stamped, Fresh
    <3>2. payload.snaps.at \in {0, payload.at}
      BY <2>1 DEF Stamped
    <3>3. \A n \in Releases : payload.snaps.at # built[n].liveAt
      BY <3>1, <3>2, ReleaseType
    <3>. QED
      BY <2>1, <2>2, <3>3 DEF Stamped, Unstamped, Releases
  <2>. QED
    BY <2>1, <2>3 DEF Stamped, Fresh, Unstamped, Without, Releases
<1>7. CASE CopyDatabase
  BY <1>7 DEF CopyDatabase, Stamped, Fresh, Unstamped, Without, Releases
<1>8. CASE FinishRelease
  <2>. DEFINE db == Published(copy, payload)
              new == Len(built) + 1
  <2>1. bpc = "bundle" /\ bpc' = "idle" /\ UNCHANGED local /\ built' = Append(built, db)
    BY <1>8 DEF FinishRelease
  <2>2. copy \in Databases(now)
    BY <2>1 DEF Typed, BuildTyped
  <2>3. /\ db.live = payload.run /\ db.liveAt = payload.at
        /\ \A x \in Runs : db.snaps[x] = IF x = payload.run THEN payload.snaps ELSE copy.snaps[x]
    BY <1>a, <1>b, <2>1, <2>2, PublishedFields
  <2>. HIDE DEF db
  <2>4. /\ Releases' = Releases \union {new} /\ new \notin Releases
        /\ built'[new] = db /\ \A n \in Releases : built'[n] = built[n]
    BY <2>1 DEF Typed, BuildTyped, Releases
  <2>5. /\ payload.at > 0 /\ Fresh(payload.at) /\ Without(local, payload.at) /\ Without(copy, payload.at)
        /\ Unstamped(copy) /\ payload.snaps.at \in {0, payload.at}
    BY <2>1 DEF Stamped
  <2>6. \A n \in Releases : Without(db, built[n].liveAt) /\ built[n].liveAt # payload.at
    <3>1. \A n \in Releases : built[n].liveAt > 0 /\ built[n].liveAt # payload.at
      BY <2>5 DEF Stamped, Fresh
    <3>2. \A n \in Releases : payload.snaps.at # built[n].liveAt
      BY <3>1, <2>5, ReleaseType
    <3>. QED
      BY <2>3, <2>5, <3>1, <3>2 DEF Unstamped, Without
  <2>7. \A n \in Releases : Without(built[n], payload.at)
    BY <2>5 DEF Fresh, Without
  <2>8. db.liveAt > 0 /\ db.snaps[db.live].at \in {0, db.liveAt}
    BY <1>b, <2>1, <2>3, <2>5
  <2>9. \A n \in Releases' :
          /\ built'[n].liveAt > 0
          /\ built'[n].snaps[built'[n].live].at \in {0, built'[n].liveAt}
          /\ \A m \in Releases' : m # n =>
                built'[m].liveAt # built'[n].liveAt /\ Without(built'[m], built'[n].liveAt)
    <3>. TAKE n \in Releases'
    <3>1. CASE n = new
      BY <3>1, <2>3, <2>4, <2>6, <2>7, <2>8
    <3>2. CASE n \in Releases
      BY <3>2, <2>3, <2>4, <2>6 DEF Stamped
    <3>. QED
      BY <3>1, <3>2, <2>4
  <2>10. Unstamped(local)'
    <3>. SUFFICES ASSUME NEW x \in Runs, NEW n \in Releases'
                  PROVE  local.snaps[x].at # built'[n].liveAt
      BY <2>1 DEF Unstamped
    <3>1. CASE n = new
      BY <3>1, <2>3, <2>4, <2>5 DEF Without
    <3>2. CASE n \in Releases
      BY <3>2, <2>4 DEF Stamped, Unstamped
    <3>. QED
      BY <3>1, <3>2, <2>4
  <2>. QED
    BY <2>1, <2>9, <2>10 DEF Stamped, Without
<1>. QED
  BY <1>2, <1>3, <1>4, <1>5, <1>6, <1>7, <1>8 DEF Builder

LEMMA StampedNext ==
    ASSUME Typed, Stamped, [Next]_vars
    PROVE  Stamped'
<1>1. CASE ~Builder
  <2>1. UNCHANGED <<local, bpc, payload, copy, built>>
    BY <1>1, SwitchKind, QueryKind DEF Next, Switching, Querying, vars, build
  <2>. QED
    BY <2>1 DEF Stamped, Fresh, Unstamped, Without, Releases
<1>. QED
  BY <1>1, StampedBuild

LEMMA StampedInit == Init => Stamped
<1>. SUFFICES ASSUME Init PROVE Stamped
  OBVIOUS
<1>. DEFINE first == CHOOSE x \in Runs : TRUE
            snaps(time) == [of |-> 1, ref |-> 0, named |-> 0, at |-> time]
            start == [rows |-> [x \in Runs |-> IF x = first THEN 1 ELSE 0],
                      snaps |-> [x \in Runs |-> IF x = first THEN snaps(2) ELSE NoSnapshots],
                      live |-> first, liveAt |-> 2, ref |-> 0]
            p == [run |-> first, at |-> 3, snaps |-> snaps(3)]
<1>1. now = 3 /\ local = start /\ built = <<Published(start, p)>> /\ bpc = "idle"
  BY DEF Init
<1>2. first \in Runs
  BY LiveQueryAssumption
<1>3. local \in Databases(3)
  BY <1>1, TypedInit DEF Typed, BuildTyped
<1>4. \A x \in Runs : start.snaps[x].at \in {0, 2}
  BY DEF NoSnapshots
<1>5. /\ Published(start, p).live = first /\ Published(start, p).liveAt = 3
      /\ Published(start, p).snaps[first].at = 3
  <2>1. p.run = first /\ p.at = 3 /\ p.snaps.at = 3 /\ p.snaps \in Snapshots(3)
    BY DEF Snapshots
  <2>2. start \in Databases(3)
    BY <1>1, <1>3
  <2>. HIDE DEF p, start, first
  <2>3. p.run \in Runs /\ p.at \in 0..3
    BY <1>2, <2>1
  <2>4. /\ Published(start, p).live = p.run /\ Published(start, p).liveAt = p.at
        /\ Published(start, p).snaps[p.run] = p.snaps
    BY <2>1, <2>2, <2>3, PublishedFields
  <2>. QED
    BY <2>1, <2>4
<1>. HIDE DEF p, start, first
<1>6. Releases = {1} /\ built[1] = Published(start, p)
  BY <1>1 DEF Releases
<1>7. Unstamped(local)
  BY <1>1, <1>4, <1>5, <1>6 DEF Unstamped
<1>. QED
  BY <1>1, <1>5, <1>6, <1>7 DEF Stamped

\* The marker of a release has its time of publication.
LEMMA MarkerAt ==
    ASSUME Typed, Stamped, NEW n \in Releases
    PROVE  MarkerOf(built[n]).at = built[n].liveAt
BY ReleaseType DEF MarkerOf, Stamped

-----------------------------------------------------------------------------
(***************************************************************************)
(* The index.  A marker which is the one of a release was read, in its     *)
(* last part, while that release was served; an index is loaded from the   *)
(* release it is marked with, or from a switch on.                         *)
(***************************************************************************)
Marked == {"counts", "refs"} \union Loading

MarkSeen(t) ==
    pc[t] \in Marked => \A n \in Releases : mark[t].at = built[n].liveAt => n \in seen[t]

\* What is loaded under the marker of the release that is served
LoadsServed(t) ==
    Released /\ pc[t] \in Loading /\ mark[t] = MarkerOf(DB) =>
        /\ pc[t] = "snapshots" => DB.snaps[mark[t].run].at > 0
        /\ pc[t] = "rows" => DB.snaps[mark[t].run].at = 0
        /\ pc[t] = "import" => got[t] = [IndexOf(DB, mark[t].run) EXCEPT !.ref = 0]
        /\ pc[t] = "external" => got[t] = IndexOf(DB, mark[t].run)

CacheRight ==
    cache # None => \A n \in Releases :
        cache.marker = MarkerOf(built[n]) =>
            cache.content = IndexOf(built[n], cache.marker.run) \/ (n \in mixed /\ n # served)

IndexInv ==
    /\ \A t \in Threads : MarkSeen(t)
    /\ ~aba => (\A t \in Threads : LoadsServed(t)) /\ CacheRight

\* The releases have the time to themselves.
LEMMA OwnTime ==
    ASSUME Typed, Stamped, NEW m \in Releases, NEW n \in Releases
    PROVE  /\ built[m].liveAt = built[n].liveAt => m = n
           /\ \A x \in Runs : built[m].snaps[x].at = built[n].liveAt => m = n
BY DEF Stamped, Without

LEMMA IndexBuild ==
    ASSUME Typed, IndexInv, Builder
    PROVE  IndexInv'
BY BuilderKind DEF Building, Typed, Settled, IndexInv, MarkSeen, LoadsServed, CacheRight, Marked, Loading

LEMMA IndexSwitch ==
    ASSUME Typed, Stamped, IndexInv, Switch
    PROVE  IndexInv'
<1>1. Switching /\ UNCHANGED Releases
  BY SwitchKind DEF Switching, Releases
<1>2. \A t \in Threads : MarkSeen(t)'
  <2>. SUFFICES ASSUME NEW t \in Threads PROVE MarkSeen(t)'
    OBVIOUS
  <2>1. MarkSeen(t) /\ seen \in [Threads -> SUBSET Releases]
    BY DEF IndexInv, Typed, ThreadsTyped
  <2>2. pc[t] # "idle" => seen[t] \subseteq seen'[t]
    BY <1>1, <2>1 DEF Switching, Moves, Serve
  <2>. QED
    BY <1>1, <2>1, <2>2 DEF Switching, MarkSeen, Marked, Loading
<1>3. CASE UNCHANGED <<served, mixed, aba>>
  BY <1>1, <1>2, <1>3 DEF Switching, IndexInv, LoadsServed, CacheRight, Released, DB
<1>4. CASE served' \notin Releases /\ UNCHANGED <<mixed, aba>>
  BY <1>1, <1>2, <1>4 DEF Switching, IndexInv, LoadsServed, CacheRight, Released, Releases
<1>5. ASSUME NEW n \in Releases, Serve(n), ~aba' PROVE IndexInv'
  <2>1. served' = n /\ ~aba /\ n \notin mixed /\ mixed' = mixed /\ \A t \in Threads : pc[t] \in Loading => n \notin seen[t]
    BY <1>5 DEF Serve
  <2>2. \A t \in Threads : LoadsServed(t)'
    <3>. SUFFICES ASSUME NEW t \in Threads, pc[t] \in Loading PROVE mark[t] # MarkerOf(built[n])
      BY <1>1, <2>1 DEF Switching, LoadsServed, DB
    <3>. QED
      BY <2>1, MarkerAt DEF IndexInv, MarkSeen, Marked
  <2>3. CacheRight'
    BY <1>1, <2>1 DEF Switching, IndexInv, CacheRight
  <2>. QED
    BY <1>2, <2>2, <2>3 DEF IndexInv
<1>. QED
  BY <1>1, <1>2, <1>3, <1>4, <1>5 DEF Switching, Moves, IndexInv

\* A request keeps what it read, as a rule.
LEMMA IndexThread ==
    ASSUME Typed, Stamped, IndexInv, NEW t \in Threads, Query(t)
    PROVE  MarkSeen(t)' /\ (~aba => LoadsServed(t)')
<1>. USE DEF Goto, Marked, Loading
<1>a. /\ Querying /\ UNCHANGED Releases /\ aba' = aba
      /\ MarkSeen(t) /\ (~aba => LoadsServed(t)) /\ pc \in [Threads -> Steps]
      /\ DOMAIN mark = Threads /\ DOMAIN got = Threads
  BY QueryKind, OneThread DEF Querying, Releases, IndexInv, Typed, ThreadsTyped
<1>1. CASE Ask(t) \/ OpenStub(t) \/ Reply(t) \/ Detail(t) \/ (\E x \in Runs : Context(t, x)) \/ Family(t)
  BY <1>1, <1>a DEF Ask, OpenStub, Reply, Detail, Context, Family, MarkSeen, LoadsServed
<1>2. CASE Rank(t) \/ \E q \in Queries : LookUp(t, q)
  BY <1>2, <1>a DEF Rank, LookUp, MarkSeen, LoadsServed
<1>3. CASE MakeDirectory(t)
  <2>1. served' \notin Releases /\ UNCHANGED <<pc, mark, got, seen>>
    BY <1>3, Constants DEF MakeDirectory, threads, observers, Releases
  <2>. QED
    BY <1>a, <2>1 DEF Querying, MarkSeen, LoadsServed, Released, Releases
<1>4. CASE ReadLive(t)
  <2>1. pc'[t] = "published"
    BY <1>4, <1>a DEF ReadLive
  <2>. QED
    BY <2>1 DEF MarkSeen, LoadsServed
<1>5. CASE ReadCounts(t)
  <2>1. served \in Releases /\ served \in seen[t] /\ pc'[t] = "refs" /\ UNCHANGED <<built, seen>>
        /\ pc[t] = "counts" /\ mark[t].run \in Runs
    BY <1>5, <1>a, ServedType, MarkType DEF ReadCounts, At, observers, Typed, Settled, Begun
  <2>2. mark'[t].at \in {built[served].snaps[mark[t].run].at, mark[t].at}
    <3>1. mark[t] \in Markers(now)
      BY <1>5, MarkType DEF ReadCounts, At, Begun
    <3>. QED
      BY <1>5, <1>a, <3>1 DEF ReadCounts, DB, Markers
  <2>. QED
    BY <1>a, <2>1, <2>2, OwnTime DEF MarkSeen, LoadsServed
<1>6. CASE ReadReference(t)
  <2>1. mark'[t] = [mark[t] EXCEPT !.ref = DB.ref] /\ mark[t] \in Markers(now) /\ pc[t] = "refs"
        /\ pc'[t] = "lock" /\ UNCHANGED <<built, seen>>
    BY <1>6, <1>a, MarkType DEF ReadReference, At, observers, Begun
  <2>2. mark'[t].at = mark[t].at
    BY <2>1 DEF Markers
  <2>. QED
    BY <1>a, <2>1, <2>2 DEF MarkSeen, LoadsServed
<1>7. CASE Lock(t)
  <2>1. pc[t] = "lock" /\ pc'[t] \in {"count", "indexed"} /\ UNCHANGED <<built, seen, mark>>
    BY <1>7, <1>a DEF Lock, observers
  <2>. QED
    BY <1>a, <2>1 DEF MarkSeen, LoadsServed
<1>9. CASE ReadPublished(t)
  <2>1. /\ served \in Releases /\ served \in seen[t] /\ mark[t] \in Markers(now) /\ pc'[t] = "counts"
        /\ mark'[t] = [mark[t] EXCEPT !.at = built[served].liveAt] /\ UNCHANGED <<built, seen>>
    BY <1>9, <1>a, ServedType, MarkType DEF ReadPublished, At, DB, observers, Typed, Settled, Begun
  <2>2. mark'[t].at = built[served].liveAt
    BY <2>1 DEF Markers
  <2>. QED
    BY <1>a, <2>1, <2>2, OwnTime DEF MarkSeen, LoadsServed
<1>8. CASE CountSnapshots(t) \/ ListSnapshots(t) \/ ListRows(t) \/ FindImport(t) \/ ListExternal(t)
  <2>1. UNCHANGED <<built, seen, mark, served>> /\ pc[t] \in Loading
    BY <1>8 DEF CountSnapshots, ListSnapshots, ListRows, FindImport, ListExternal, Store, At, observers
  <2>2. MarkSeen(t)'
    BY <1>a, <2>1 DEF MarkSeen
  <2>3. pc[t] \notin Begun /\ mark[t].run \in Runs /\ Released
    BY <1>8, MarkType DEF CountSnapshots, ListSnapshots, ListRows, FindImport, ListExternal, Store, At, Begun
  <2>4. DB.snaps[mark[t].run].at \in Nat
    BY <2>3, ServedType DEF Typed, BuildTyped
  <2>5. CASE CountSnapshots(t)
    <3>1. pc'[t] = IF DB.snaps[mark[t].run].at > 0 THEN "snapshots" ELSE "rows"
      BY <2>5, <1>a DEF CountSnapshots
    <3>. QED
      BY <1>a, <2>1, <2>2, <2>4, <3>1 DEF LoadsServed, DB
  <2>6. CASE ListSnapshots(t)
    <3>1. /\ pc[t] = "snapshots" /\ pc'[t] = "import"
          /\ got'[t] = [run |-> mark[t].run, from |-> "snapshots", data |-> DB.snaps[mark[t].run].at, ref |-> 0]
      BY <2>6, <1>a DEF ListSnapshots, At
    <3>. QED
      BY <1>a, <2>1, <2>2, <3>1 DEF LoadsServed, DB, IndexOf, Released
  <2>7. CASE ListRows(t)
    <3>1. /\ pc[t] = "rows" /\ pc'[t] = "import"
          /\ got'[t] = [run |-> mark[t].run, from |-> "rows", data |-> DB.rows[mark[t].run], ref |-> 0]
      BY <2>7, <1>a DEF ListRows, At
    <3>. QED
      BY <1>a, <2>1, <2>2, <3>1 DEF LoadsServed, DB, IndexOf, Released
  <2>8. CASE ListExternal(t)
    BY <2>8, <1>a, <2>2 DEF ListExternal, Store, LoadsServed
  <2>9. CASE FindImport(t)
    <3>1. pc[t] = "import" /\ pc'[t] \in {"indexed", "external"}
      BY <2>9, <1>a DEF FindImport, Store, At
    <3>2. pc'[t] = "external" => got'[t] = [got[t] EXCEPT !.ref = DB.ref]
      BY <2>9, <1>a DEF FindImport, Store
    <3>. QED
      BY <1>a, <2>1, <2>2, <3>1, <3>2 DEF LoadsServed, DB, IndexOf, Released
  <2>. QED
    BY <1>8, <2>5, <2>6, <2>7, <2>8, <2>9
<1>. QED
  BY <1>1, <1>2, <1>3, <1>4, <1>5, <1>6, <1>7, <1>8, <1>9 DEF Query

\* Who has loaded the index of a release that is gone has seen two releases.
LEMMA TwoSeen ==
    ASSUME Typed, NEW t \in Threads, NEW m \in seen[t], NEW n \in seen[t], m # n
    PROVE  Cardinality(seen[t]) > 1
<1>1. seen[t] \in SUBSET (1..Len(built)) /\ IsFiniteSet(1..Len(built))
  BY FS_Interval DEF Typed, ThreadsTyped, BuildTyped, Releases
<1>2. IsFiniteSet(seen[t]) /\ {m, n} \subseteq seen[t]
  BY <1>1, FS_Subset
<1>3. IsFiniteSet({m}) /\ Cardinality({m}) = 1
  BY FS_Singleton
<1>4. Cardinality({m} \union {n}) = 2
  BY <1>3, FS_AddElement
<1>5. Cardinality({m} \union {n}) <= Cardinality(seen[t])
  BY <1>2, FS_Subset
<1>6. Cardinality(seen[t]) \in Nat
  BY <1>2, FS_CardinalityType
<1>. QED
  BY <1>4, <1>5, <1>6

\* The end of a load: of an index without an import, or with its candidates
Stores(t, ref) ==
    /\ Store(t, ref)
    /\ \/ FindImport(t) /\ DB.ref = 0 /\ ref = 0
       \/ ListExternal(t) /\ ref \in {0, got[t].ref} /\ (ref = 0 => DB.ref < got[t].ref)

LEMMA FoundOrStored ==
    ASSUME NEW t \in Threads, FindImport(t) \/ ListExternal(t)
    PROVE  (\E ref : Stores(t, ref)) \/ (FindImport(t) /\ DB.ref # 0)
<1>1. CASE FindImport(t) /\ DB.ref = 0
  <2>1. Stores(t, 0)
    BY <1>1 DEF FindImport, Stores
  <2>. QED
    BY <2>1
<1>2. CASE ListExternal(t)
  <2>1. PICK ref \in {0, got[t].ref} : (ref = 0 => DB.ref < got[t].ref) /\ Store(t, ref)
    BY <1>2 DEF ListExternal
  <2>2. Stores(t, ref)
    BY <1>2, <2>1 DEF Stores
  <2>. QED
    BY <2>2
<1>. QED
  BY <1>1, <1>2

LEMMA StoresOrNot ==
    ASSUME NEW t \in Threads, Query(t)
    PROVE  (\E ref : Stores(t, ref)) \/ UNCHANGED <<cache, mixed>>
<1>1. CASE FindImport(t) \/ ListExternal(t)
  BY <1>1, FoundOrStored DEF FindImport
<1>2. CASE ~(FindImport(t) \/ ListExternal(t))
  BY <1>2
     DEF Query, Ask, MakeDirectory, OpenStub, ReadLive, ReadPublished, ReadCounts, ReadReference, Lock, Unmarked,
         CountSnapshots, ListSnapshots, ListRows, LookUp, Rank, Detail, Context, Family, Reply, observers, caches
<1>. QED
  BY <1>1, <1>2

LEMMA IndexCache ==
    ASSUME Typed, Stamped, IndexInv, NEW t \in Threads, Query(t), ~aba
    PROVE  CacheRight'
<1>. USE DEF caches
<1>a. Querying /\ UNCHANGED Releases /\ CacheRight
  BY QueryKind DEF Querying, Releases, IndexInv
<1>1. ASSUME NEW ref, Stores(t, ref) PROVE CacheRight'
  <2>1. /\ Released /\ pc[t] \in {"import", "external"} /\ cache' = [marker |-> mark[t], content |-> got'[t]]
        /\ mixed' = IF Cardinality(seen[t]) > 1 THEN mixed \union seen[t] ELSE mixed
        /\ UNCHANGED <<built, served>>
        /\ got'[t] = [got[t] EXCEPT !.ref = ref]
    BY <1>1 DEF Stores, FindImport, ListExternal, Store, At, Typed, ThreadsTyped
  <2>. SUFFICES ASSUME NEW n \in Releases, mark[t] = MarkerOf(built[n])
                PROVE  got'[t] = IndexOf(built[n], mark[t].run) \/ (n \in mixed' /\ n # served)
    BY <1>a, <2>1 DEF CacheRight
  <2>2. CASE n = served
    <3>1. /\ pc[t] = "import" => got[t] = [IndexOf(DB, mark[t].run) EXCEPT !.ref = 0]
          /\ pc[t] = "external" => got[t] = IndexOf(DB, mark[t].run)
      BY <2>1, <2>2 DEF IndexInv, LoadsServed, DB, Loading
    <3>2. /\ pc[t] = "import" => ref = DB.ref
          /\ pc[t] = "external" => ref = got[t].ref \/ DB.ref < got[t].ref
      BY <1>1 DEF Stores, FindImport, ListExternal, At
    <3>3. DB.ref \in Nat
      BY <2>1, ServedType DEF Typed, BuildTyped
    <3>4. got'[t] = IndexOf(DB, mark[t].run)
      BY <2>1, <3>1, <3>2, <3>3 DEF IndexOf
    <3>. QED
      BY <2>2, <3>4 DEF DB
  <2>3. CASE n # served
    <3>1. n \in seen[t] /\ served \in seen[t]
      BY <2>1, MarkerAt DEF IndexInv, MarkSeen, Marked, Loading, Typed, Settled
    <3>. QED
      BY <2>1, <2>3, <3>1, TwoSeen
  <2>. QED
    BY <2>2, <2>3
<1>2. CASE UNCHANGED <<cache, mixed>>
  BY <1>a, <1>2 DEF Querying, CacheRight
<1>. QED
  BY <1>1, <1>2, StoresOrNot

LEMMA IndexNext ==
    ASSUME Typed, Stamped, IndexInv, [Next]_vars
    PROVE  IndexInv'
<1>1. ASSUME NEW t \in Threads, Query(t) PROVE IndexInv'
  <2>1. Querying /\ Alone(t) /\ aba' = aba /\ UNCHANGED Releases
    BY <1>1, QueryKind, OneThread DEF Querying, Releases
  <2>2. ASSUME NEW u \in Threads PROVE MarkSeen(u)' /\ (~aba => LoadsServed(u)')
    <3>1. CASE u = t
      BY <1>1, <3>1, IndexThread
    <3>2. CASE u # t
      BY <2>1, <3>2 DEF Querying, Alone, IndexInv, MarkSeen, LoadsServed, Released, Releases, DB
    <3>. QED
      BY <3>1, <3>2
  <2>. QED
    BY <1>1, <2>1, <2>2, IndexCache DEF IndexInv
<1>2. CASE UNCHANGED vars
  BY <1>2 DEF vars, threads, caches, observers, IndexInv, MarkSeen, LoadsServed, CacheRight, Released, Releases, DB
<1>. QED
  BY <1>1, <1>2, IndexBuild, IndexSwitch DEF Next

\* The index that the next request takes as fresh is the one of the release
\* that is served, though the marker is read in four reads before the lock is
\* taken and the candidates in four after it (QueryIndexCache.get_state): an
\* index that was loaded across a switch has not the marker of the new release,
\* and one with the marker of the old release is taken again only when that
\* release comes back.
THEOREM IndexSafe == Spec => []IndexIsOfTheRelease
<1>1. Init => IndexInv
  BY DEF Init, IndexInv, MarkSeen, LoadsServed, CacheRight, Marked, Loading
<1>2. Typed /\ IndexInv => IndexIsOfTheRelease
  <2>. SUFFICES ASSUME Typed, IndexInv, Released, cache # None, ~aba, cache.marker = MarkerOf(DB)
                PROVE  cache.content = IndexOf(DB, LiveRun(DB))
    BY DEF IndexIsOfTheRelease
  <2>1. cache.content = IndexOf(DB, cache.marker.run)
    BY DEF IndexInv, CacheRight, Released, Releases, DB
  <2>. QED
    BY <2>1 DEF MarkerOf
<1>. QED
  BY <1>1, <1>2, StampedInit, StampedNext, IndexNext, Types, PTL DEF Spec

-----------------------------------------------------------------------------
(***************************************************************************)
(* The search cache.  What was loaded under the key of a release is known  *)
(* to every request during which that release is served: it is of the      *)
(* release itself, or it was loaded across a switch, and then the release  *)
(* has not come back.                                                      *)
(***************************************************************************)
Holds(db, x, data) == data \in {db.rows[x], db.snaps[x].at}

\* A release served during the request has the data.
ToldData(t, x, data) == \E n \in seen[t] : Holds(built[n], x, data)

ToldPrices(t, ref) == ref = 0 \/ \E n \in seen[t] : ref = built[n].ref

Told(t, c) == ToldData(t, c.run, c.data) /\ ToldPrices(t, c.ref)

\* Of content c which was loaded under the key of release n
SoundFor(n, c) ==
    /\ \/ Holds(built[n], c.run, c.data) /\ c.ref = built[n].ref
       \/ n \in mixed /\ n # served
    /\ \A t \in Threads : pc[t] # "idle" /\ n \in seen[t] => Told(t, c)

\* The contents a key may have: a release has its run, and one its rows.
Sounds ==
    {s \in Runs \X (0..now) \X Contents :
        /\ s[3].run = s[1]
        /\ \E n \in Releases : LiveRun(built[n]) = s[1] /\ SoundFor(n, s[3])
        /\ \E n \in Releases : built[n].rows[s[1]] = s[2] /\ SoundFor(n, s[3])}

\* The same while the content is being loaded
LoadsFor(t, n) ==
    /\ n \in seen[t]
    /\ pc[t] \in {"import", "external"} =>
        /\ served = n => Holds(built[n], mark[t].run, got[t].data)
        /\ \A u \in Threads : pc[u] # "idle" /\ n \in seen[u] => ToldData(u, mark[t].run, got[t].data)
    /\ pc[t] = "external" =>
        /\ served = n => got[t].ref = built[n].ref
        /\ \A u \in Threads : pc[u] # "idle" /\ n \in seen[u] => ToldPrices(u, got[t].ref)

Reads(t) ==
    /\ pc[t] \notin Begun => \E n \in seen[t] : LiveRun(built[n]) = mark[t].run
    /\ pc[t] = "refs" => \E n \in seen[t] : built[n].rows[mark[t].run] = mark[t].rows

Loads(t) ==
    pc[t] \in Loading =>
        /\ \E n \in Releases : LiveRun(built[n]) = mark[t].run /\ LoadsFor(t, n)
        /\ \E n \in Releases : built[n].rows[mark[t].run] = mark[t].rows /\ LoadsFor(t, n)
        /\ pc[t] \in {"import", "external"} => got[t].run = mark[t].run

Tells(t) ==
    /\ pc[t] \in Loaded => <<mark[t].run, mark[t].rows, got[t]>> \in Sounds
    /\ pc[t] = "reply" /\ req[t] \in Queries => <<mark[t].run, mark[t].rows, out[t]>> \in Sounds

CacheSound == cache # None => <<cache.marker.run, cache.marker.rows, cache.content>> \in Sounds

SoundAnswers == {a \in Answers : <<a.key[1], a.key[2], a.content>> \in Sounds}

AnswersSound == \A i \in DOMAIN answers : answers[i] \in SoundAnswers

SearchInv ==
    /\ \A t \in Threads : Reads(t)
    /\ ~aba => (\A t \in Threads : Loads(t) /\ Tells(t)) /\ CacheSound /\ AnswersSound

LEMMA SearchBuild ==
    ASSUME Typed, SearchInv, Builder
    PROVE  SearchInv'
BY BuilderKind
   DEF Building, Typed, Settled, SearchInv, Reads, Loads, Tells, CacheSound, AnswersSound, Begun, Loading, Loaded

\* What switches and requests have in common, as long as no release comes
\* back that a request saw: a request learns of the release that is served.
Grows ==
    /\ UNCHANGED <<now, built>> /\ mixed \subseteq mixed'
    /\ \A n \in mixed : n # served => n # served'
    /\ \A t \in Threads :
        /\ pc[t] # "idle" /\ pc'[t] # "idle" => seen[t] \subseteq seen'[t]
        /\ pc'[t] # "idle" => \A n \in seen'[t] : n = served' \/ (pc[t] # "idle" /\ n \in seen[t])
        /\ pc[t] \in Loading => \A n \in seen[t] : n # served => n # served'

LEMMA GrowsSwitch ==
    ASSUME Typed, Switch, ~aba'
    PROVE  Grows /\ ~aba
<1>1. Switching /\ seen \in [Threads -> SUBSET Releases] /\ mixed \subseteq Releases
  BY SwitchKind DEF Typed, ThreadsTyped
<1>2. CASE UNCHANGED <<served, seen, mixed, aba>>
  BY <1>1, <1>2 DEF Switching, Grows
<1>3. CASE served' \notin Releases /\ UNCHANGED <<seen, mixed, aba>>
  BY <1>1, <1>3 DEF Switching, Grows
<1>4. ASSUME NEW n \in Releases, Serve(n) PROVE Grows /\ ~aba
  BY <1>1, <1>4 DEF Switching, Serve, Grows
<1>. QED
  BY <1>1, <1>2, <1>3, <1>4 DEF Switching, Moves

LEMMA GrowsQuery ==
    ASSUME Typed, NEW t \in Threads, Query(t)
    PROVE  Grows
<1>1. /\ Querying /\ Alone(t) /\ pc \in [Threads -> Steps]
      /\ seen \in [Threads -> SUBSET Releases] /\ mixed \subseteq Releases
  BY QueryKind, OneThread DEF Typed, ThreadsTyped
<1>2. mixed \subseteq mixed'
  <2>1. CASE FindImport(t) \/ ListExternal(t)
    BY <2>1 DEF FindImport, ListExternal, Store
  <2>2. CASE ~(FindImport(t) \/ ListExternal(t))
    BY <2>2 DEF Query, Ask, MakeDirectory, OpenStub, ReadLive, ReadPublished, ReadCounts, ReadReference, Lock,
           CountSnapshots, ListSnapshots, ListRows, LookUp, Rank, Detail, Context, Family, Reply, observers
  <2>. QED
    BY <2>1, <2>2
<1>3. seen'[t] = seen[t] \/ Ask(t) \/ (pc'[t] = "idle")
  <2>1. CASE OpenStub(t) \/ Reply(t)
    BY <1>1, <2>1 DEF OpenStub, Reply, Goto
  <2>. QED
    BY <2>1 DEF Query, MakeDirectory, ReadLive, ReadPublished, ReadCounts, ReadReference, Lock,
           CountSnapshots, ListSnapshots, ListRows, FindImport, ListExternal, Store, LookUp, Rank, Detail, Context, Family, observers
<1>4. pc'[t] # "idle" => \A n \in seen'[t] : n = served' \/ (pc[t] # "idle" /\ n \in seen[t])
  <2>1. CASE Ask(t)
    BY <1>1, <2>1 DEF Ask
  <2>2. CASE ~Ask(t)
    <3>1. pc[t] # "idle"
      BY <2>2 DEF Query, MakeDirectory, OpenStub, ReadLive, ReadPublished, ReadCounts, ReadReference, Lock, CountSnapshots,
           ListSnapshots, ListRows, FindImport, ListExternal, Store, LookUp, Rank, Detail, Context, Family, Reply, At, Reading
    <3>. QED
      BY <1>3, <2>2, <3>1
  <2>. QED
    BY <2>1, <2>2
<1>5. pc[t] # "idle" /\ pc'[t] # "idle" => seen[t] \subseteq seen'[t]
  BY <1>3 DEF Ask
<1>. QED
  BY <1>1, <1>2, <1>4, <1>5 DEF Querying, Alone, Grows

LEMMA SoundForGrows ==
    ASSUME Typed, Grows, NEW n \in Releases, NEW c, SoundFor(n, c)
    PROVE  SoundFor(n, c)'
<1>1. (Holds(built[n], c.run, c.data) /\ c.ref = built[n].ref) \/ (n \in mixed' /\ n # served')
  BY DEF SoundFor, Grows
<1>2. ASSUME NEW t \in Threads, pc'[t] # "idle", n \in seen'[t] PROVE Told(t, c)'
  <2>1. CASE pc[t] # "idle" /\ n \in seen[t]
    <3>1. Told(t, c) /\ seen[t] \subseteq seen'[t] /\ built' = built
      BY <1>2, <2>1 DEF SoundFor, Grows
    <3>. QED
      BY <3>1 DEF Told, ToldData, ToldPrices
  <2>2. CASE n = served'
    BY <1>1, <1>2, <2>2 DEF Grows, Told, ToldData, ToldPrices
  <2>. QED
    BY <1>2, <2>1, <2>2 DEF Grows
<1>. QED
  BY <1>1, <1>2 DEF SoundFor, Grows

LEMMA SoundsGrow ==
    ASSUME Typed, Grows
    PROVE  Sounds \subseteq Sounds' /\ SoundAnswers \subseteq SoundAnswers'
<1>a. UNCHANGED <<now, built>> /\ Contents' = Contents /\ Answers' = Answers /\ Releases' = Releases
  BY SameTypes DEF Grows
<1>1. Sounds \subseteq Sounds'
  <2>. SUFFICES ASSUME NEW s \in Sounds PROVE s \in Sounds'
    OBVIOUS
  <2>1. \A n \in Releases : SoundFor(n, s[3]) => SoundFor(n, s[3])'
    BY SoundForGrows
  <2>2. PICK n \in Releases : LiveRun(built[n]) = s[1] /\ SoundFor(n, s[3])
    BY DEF Sounds
  <2>3. PICK m \in Releases : built[m].rows[s[1]] = s[2] /\ SoundFor(m, s[3])
    BY DEF Sounds
  <2>4. s \in Runs \X (0..now) \X Contents /\ s[3].run = s[1]
    BY DEF Sounds
  <2>5. /\ LiveRun(built'[n]) = s[1] /\ SoundFor(n, s[3])'
        /\ built'[m].rows[s[1]] = s[2] /\ SoundFor(m, s[3])'
    BY <1>a, <2>1, <2>2, <2>3
  <2>. QED
    BY <1>a, <2>4, <2>5 DEF Sounds
<1>. QED
  BY <1>1, <1>a DEF SoundAnswers

\* What a thread that does nothing has
LEMMA StaysSound ==
    ASSUME Typed, SearchInv, Grows, NEW t \in Threads,
           pc'[t] = pc[t], req'[t] = req[t], mark'[t] = mark[t], got'[t] = got[t], out'[t] = out[t]
    PROVE  Reads(t)' /\ (~aba => Loads(t)' /\ Tells(t)')
<1>a. UNCHANGED <<built, Releases>> /\ (pc[t] \notin Begun => seen[t] \subseteq seen'[t])
  BY DEF Grows, Releases, Begun
<1>1. Reads(t)'
  BY <1>a DEF SearchInv, Reads, Begun
<1>2. ASSUME ~aba, pc[t] \in Loading, NEW n \in Releases, LoadsFor(t, n) PROVE LoadsFor(t, n)'
  <2>1. n \in seen'[t] /\ pc[t] # "idle" /\ n \in seen[t]
    BY <1>2 DEF LoadsFor, Loading, Grows
  <2>2. served' = n => served = n
    BY <1>2, <2>1 DEF Grows
  <2>3. ASSUME pc[t] \in {"import", "external"}, NEW u \in Threads, pc'[u] # "idle", n \in seen'[u]
        PROVE  \E m \in seen'[u] : Holds(built[m], mark[t].run, got[t].data)
    <3>1. CASE pc[u] # "idle" /\ n \in seen[u]
      BY <1>2, <2>3, <3>1 DEF LoadsFor, ToldData, Grows
    <3>2. CASE n = served'
      BY <1>2, <2>2, <2>3, <3>2 DEF LoadsFor
    <3>. QED
      BY <2>3, <3>1, <3>2 DEF Grows
  <2>4. ASSUME pc[t] = "external", NEW u \in Threads, pc'[u] # "idle", n \in seen'[u]
        PROVE  got[t].ref = 0 \/ \E m \in seen'[u] : got[t].ref = built[m].ref
    <3>1. CASE pc[u] # "idle" /\ n \in seen[u]
      BY <1>2, <2>4, <3>1 DEF LoadsFor, ToldPrices, Grows
    <3>2. CASE n = served'
      BY <1>2, <2>2, <2>4, <3>2 DEF LoadsFor
    <3>. QED
      BY <2>4, <3>1, <3>2 DEF Grows
  <2>. QED
    BY <1>2, <2>1, <2>2, <2>3, <2>4 DEF LoadsFor, ToldData, ToldPrices, Grows
<1>3. ASSUME ~aba PROVE Loads(t)'
  <2>. SUFFICES ASSUME pc[t] \in Loading PROVE Loads(t)'
    BY DEF Loads
  <2>1. Loads(t)
    BY <1>3 DEF SearchInv
  <2>2. PICK n \in Releases : LiveRun(built[n]) = mark[t].run /\ LoadsFor(t, n)
    BY <2>1 DEF Loads
  <2>3. PICK m \in Releases : built[m].rows[mark[t].run] = mark[t].rows /\ LoadsFor(t, m)
    BY <2>1 DEF Loads
  <2>4. LoadsFor(t, n)' /\ LoadsFor(t, m)'
    BY <1>2, <1>3, <2>2, <2>3
  <2>5. built'[n] = built[n] /\ built'[m] = built[m] /\ n \in Releases' /\ m \in Releases'
    BY <1>a
  <2>. QED
    BY <2>1, <2>2, <2>3, <2>4, <2>5 DEF Loads
<1>4. ASSUME ~aba PROVE Tells(t)'
  BY <1>4, SoundsGrow DEF SearchInv, Tells
<1>. QED
  BY <1>1, <1>3, <1>4

LEMMA SearchSwitch ==
    ASSUME Typed, SearchInv, Switch
    PROVE  SearchInv'
<1>1. Switching
  BY SwitchKind
<1>2. ASSUME ~aba' PROVE SearchInv'
  <2>1. Grows /\ ~aba
    BY <1>2, GrowsSwitch
  <2>2. \A t \in Threads : Reads(t)' /\ Loads(t)' /\ Tells(t)'
    BY <1>1, <2>1, StaysSound DEF Switching
  <2>3. CacheSound' /\ AnswersSound'
    BY <1>1, <2>1, SoundsGrow DEF Switching, SearchInv, CacheSound, AnswersSound
  <2>. QED
    BY <2>2, <2>3 DEF SearchInv
<1>3. \A t \in Threads : Reads(t)'
  <2>. SUFFICES ASSUME NEW t \in Threads PROVE Reads(t)'
    OBVIOUS
  <2>1. pc[t] # "idle" => seen[t] \subseteq seen'[t]
    BY <1>1 DEF Switching, Moves, Serve, Typed, ThreadsTyped
  <2>. QED
    BY <1>1, <2>1 DEF Switching, SearchInv, Reads, Begun
<1>. QED
  BY <1>2, <1>3 DEF SearchInv

\* The first part of a request: the marker
LEMMA SearchMark ==
    ASSUME Typed, SearchInv, NEW t \in Threads, ReadLive(t) \/ ReadPublished(t) \/ ReadCounts(t) \/ ReadReference(t)
    PROVE  Reads(t)' /\ Loads(t)' /\ Tells(t)'
<1>. USE DEF Goto
<1>a. /\ UNCHANGED <<built, seen, Releases>> /\ DOMAIN mark = Threads /\ pc \in [Threads -> Steps]
      /\ served \in Releases /\ served \in seen[t] /\ DB = built[served] /\ seen[t] \subseteq Releases
  BY ServedType DEF ReadLive, ReadPublished, ReadCounts, ReadReference, At, observers, Releases, Typed, ThreadsTyped, Settled
<1>1. CASE ReadLive(t)
  <2>1. mark'[t].run = LiveRun(DB) /\ pc'[t] = "published"
    BY <1>1, <1>a DEF ReadLive
  <2>. QED
    BY <1>a, <2>1 DEF Reads, Loads, Tells, Loading, Loaded
<1>4. CASE ReadPublished(t)
  <2>1. mark[t] \in Markers(now) /\ pc[t] = "published" /\ pc'[t] = "counts"
    BY <1>4, <1>a, MarkType DEF ReadPublished, At, Begun
  <2>2. mark'[t].run = mark[t].run
    BY <1>4, <1>a, <2>1 DEF ReadPublished, Markers
  <2>3. \E n \in seen[t] : LiveRun(built[n]) = mark[t].run
    BY <2>1 DEF SearchInv, Reads, Begun
  <2>. QED
    BY <1>a, <2>1, <2>2, <2>3 DEF Reads, Loads, Tells, Loading, Loaded
<1>2. CASE ReadCounts(t)
  <2>1. mark[t] \in Markers(now) /\ pc[t] = "counts" /\ pc'[t] = "refs"
    BY <1>2, <1>a, MarkType DEF ReadCounts, At, Begun
  <2>2. mark'[t].run = mark[t].run /\ mark'[t].rows = DB.rows[mark[t].run]
    BY <1>2, <1>a, <2>1 DEF ReadCounts, Markers
  <2>3. \E n \in seen[t] : LiveRun(built[n]) = mark[t].run
    BY <2>1 DEF SearchInv, Reads, Begun
  <2>. QED
    BY <1>a, <2>1, <2>2, <2>3 DEF Reads, Loads, Tells, Loading, Loaded
<1>3. CASE ReadReference(t)
  <2>1. mark[t] \in Markers(now) /\ pc[t] = "refs" /\ pc'[t] = "lock"
    BY <1>3, <1>a, MarkType DEF ReadReference, At, Begun
  <2>2. mark'[t].run = mark[t].run /\ mark'[t].rows = mark[t].rows
    BY <1>3, <1>a, <2>1 DEF ReadReference, Markers
  <2>3. /\ \E n \in seen[t] : LiveRun(built[n]) = mark[t].run
        /\ \E n \in seen[t] : built[n].rows[mark[t].run] = mark[t].rows
    BY <2>1 DEF SearchInv, Reads, Begun
  <2>4. \A n \in seen[t] : LoadsFor(t, n)'
    BY <1>a, <2>1 DEF LoadsFor
  <2>5. Loads(t)'
    BY <1>a, <2>1, <2>2, <2>3, <2>4 DEF Loads
  <2>. QED
    BY <1>a, <2>1, <2>2, <2>3, <2>5 DEF Reads, Tells, Loaded
<1>. QED
  BY <1>1, <1>2, <1>3, <1>4

\* The second: the candidates.  What is listed is known to every request,
\* as all of them see the release which is served.
LEMMA SearchLoad ==
    ASSUME Typed, SearchInv, ~aba, NEW t \in Threads,
           CountSnapshots(t) \/ ListSnapshots(t) \/ ListRows(t) \/ (FindImport(t) /\ DB.ref # 0)
    PROVE  Loads(t)' /\ Tells(t)' /\ UNCHANGED cache
<1>. USE DEF Goto
<1>a. /\ UNCHANGED <<built, served, seen, mark, cache, Releases>> /\ DOMAIN got = Threads /\ pc \in [Threads -> Steps]
      /\ served \in Releases /\ DB = built[served] /\ Loads(t) /\ pc[t] \in Loading /\ Released
      /\ pc' = [pc EXCEPT ![t] = pc'[t]] /\ pc'[t] \in {"snapshots", "rows", "import", "external"}
  BY ServedType
     DEF CountSnapshots, ListSnapshots, ListRows, FindImport, At, observers, caches, Releases, Typed, ThreadsTyped,
         SearchInv, Loading
<1>b. \A u \in Threads : pc'[u] # "idle" => served \in seen[u]
  <2>1. \A u \in Threads : pc'[u] # "idle" => pc[u] # "idle"
    BY <1>a DEF Loading
  <2>. QED
    BY <1>a, <2>1 DEF Typed, Settled
<1>1. CASE CountSnapshots(t)
  <2>1. pc'[t] \notin {"import", "external"}
    BY <1>1, <1>a DEF CountSnapshots
  <2>2. \A n \in Releases : LoadsFor(t, n) => LoadsFor(t, n)'
    BY <1>a, <2>1 DEF LoadsFor
  <2>. QED
    BY <1>a, <2>1, <2>2 DEF Loads, Tells, Loaded
<1>2. CASE ListSnapshots(t) \/ ListRows(t)
  <2>1. /\ got'[t].run = mark[t].run /\ pc'[t] = "import"
        /\ got'[t].data \in {DB.rows[mark[t].run], DB.snaps[mark[t].run].at}
    BY <1>2, <1>a DEF ListSnapshots, ListRows
  <2>2. \A n \in Releases : LoadsFor(t, n) => LoadsFor(t, n)'
    BY <1>a, <1>b, <2>1 DEF LoadsFor, ToldData, Holds
  <2>. QED
    BY <1>a, <2>1, <2>2 DEF Loads, Tells, Loaded
<1>3. CASE FindImport(t) /\ DB.ref # 0
  <2>1. pc[t] = "import" /\ pc'[t] = "external" /\ got'[t] = [got[t] EXCEPT !.ref = DB.ref]
    BY <1>3, <1>a DEF FindImport, At
  <2>2. got'[t].run = got[t].run /\ got'[t].data = got[t].data /\ got'[t].ref = DB.ref
    <3>1. got[t] \in Contents
      BY <2>1 DEF Typed, ThreadsTyped, ThreadTyped
    <3>. QED
      BY <2>1, <3>1 DEF Contents
  <2>3. \A u \in Threads : pc'[u] # "idle" => pc[u] # "idle"
    BY <1>a DEF Loading
  <2>4. \A n \in Releases : LoadsFor(t, n) => LoadsFor(t, n)'
    BY <1>a, <1>b, <2>1, <2>2, <2>3 DEF LoadsFor, ToldData, ToldPrices
  <2>. QED
    BY <1>a, <2>1, <2>2, <2>4 DEF Loads, Tells, Loaded, Loading
<1>. QED
  BY <1>1, <1>2, <1>3

LEMMA SearchLoaded ==
    ASSUME Typed, SearchInv, ~aba, NEW t \in Threads, NEW ref, Stores(t, ref)
    PROVE  Loads(t)' /\ Tells(t)' /\ CacheSound'
<1>. USE DEF Goto
<1>a. /\ UNCHANGED <<now, built, served, seen, mark, Releases, Contents>> /\ pc \in [Threads -> Steps]
      /\ served \in Releases /\ DB = built[served] /\ Loads(t) /\ pc[t] \in {"import", "external"}
      /\ pc' = [pc EXCEPT ![t] = "indexed"] /\ pc'[t] = "indexed" /\ Released
      /\ cache' = [marker |-> mark[t], content |-> got'[t]]
      /\ mixed' = IF Cardinality(seen[t]) > 1 THEN mixed \union seen[t] ELSE mixed
  BY ServedType, SameTypes
     DEF Stores, Store, FindImport, ListExternal, At, observers, Releases, Typed, ThreadsTyped, SearchInv
<1>b. got[t] \in Contents /\ got'[t] = [got[t] EXCEPT !.ref = ref] /\ DB.ref \in 0..now /\ now \in Nat
  BY <1>a, ServedType DEF Stores, Store, Typed, ThreadsTyped, ThreadTyped, BuildTyped, Loaded
<1>c. got'[t].run = got[t].run /\ got'[t].data = got[t].data /\ got'[t].ref = ref
  BY <1>b DEF Contents
<1>d. \A u \in Threads : pc[u] # "idle" => served \in seen[u]
  BY <1>a DEF Typed, Settled
<1>e. /\ pc[t] = "import" => ref = 0 /\ DB.ref = 0
      /\ pc[t] = "external" => ref \in {0, got[t].ref} /\ (ref = 0 => DB.ref < got[t].ref)
  BY DEF Stores, FindImport, ListExternal, At
<1>f. got[t].ref \in 0..now
  BY <1>b DEF Contents
<1>1. ASSUME NEW n \in Releases, LoadsFor(t, n), got[t].run = mark[t].run, NEW c, c = got'[t]
      PROVE  SoundFor(n, c)'
  <2>1. (Holds(built[n], c.run, c.data) /\ c.ref = built[n].ref) \/ (n \in mixed' /\ n # served)
    <3>1. CASE n = served
      <4>1. Holds(built[n], c.run, c.data)
        BY <1>1, <1>a, <1>c, <3>1 DEF LoadsFor
      <4>2. pc[t] = "external" => got[t].ref = DB.ref
        BY <1>1, <1>a, <3>1 DEF LoadsFor
      <4>3. ref = DB.ref
        BY <1>a, <1>b, <1>e, <1>f, <4>2
      <4>. QED
        BY <1>1, <1>a, <1>c, <3>1, <4>1, <4>3
    <3>2. CASE n # served
      <4>1. n \in seen[t] /\ served \in seen[t]
        BY <1>1, <1>a, <1>d DEF LoadsFor
      <4>. QED
        BY <3>2, <4>1, <1>a, TwoSeen
    <3>. QED
      BY <3>1, <3>2
  <2>2. ASSUME NEW u \in Threads, pc'[u] # "idle", n \in seen[u]
        PROVE  /\ \E m \in seen[u] : Holds(built[m], c.run, c.data)
               /\ c.ref = 0 \/ \E m \in seen[u] : c.ref = built[m].ref
    <3>1. pc[u] # "idle"
      BY <2>2, <1>a
    <3>2. \E m \in seen[u] : Holds(built[m], c.run, c.data)
      BY <1>1, <2>2, <3>1, <1>a, <1>c DEF LoadsFor, ToldData
    <3>3. pc[t] = "external" => got[t].ref = 0 \/ \E m \in seen[u] : got[t].ref = built[m].ref
      BY <1>1, <2>2, <3>1 DEF LoadsFor, ToldPrices
    <3>. QED
      BY <1>1, <1>a, <1>c, <1>e, <3>2, <3>3
  <2>. QED
    BY <1>a, <2>1, <2>2 DEF SoundFor, Told, ToldData, ToldPrices
<1>2. <<mark[t].run, mark[t].rows, got'[t]>> \in Sounds'
  <2>. DEFINE c == got'[t]
  <2>1. c \in Contents' /\ mark[t].run \in Runs /\ mark[t].rows \in 0..now
    <3>1. ref \in 0..now
      BY <1>a, <1>b, <1>e, <1>f
    <3>2. c \in Contents
      BY <1>b, <3>1 DEF Contents
    <3>. QED
      BY <1>a, <3>2, MarkType DEF Begun
  <2>2. c.run = mark[t].run
    BY <1>a, <1>c DEF Loads, Loading
  <2>3. PICK n \in Releases : LiveRun(built[n]) = mark[t].run /\ LoadsFor(t, n)
    BY <1>a DEF Loads, Loading
  <2>4. PICK m \in Releases : built[m].rows[mark[t].run] = mark[t].rows /\ LoadsFor(t, m)
    BY <1>a DEF Loads, Loading
  <2>5. PICK d : d = c
    OBVIOUS
  <2>6. SoundFor(n, d)' /\ SoundFor(m, d)'
    BY <1>1, <1>c, <2>2, <2>3, <2>4, <2>5
  <2>. HIDE DEF c
  <2>7. <<mark[t].run, mark[t].rows, d>> \in Sounds'
    BY <1>a, <2>1, <2>2, <2>3, <2>4, <2>5, <2>6 DEF Sounds
  <2>. QED
    BY <2>5, <2>7 DEF c
<1>. QED
  BY <1>a, <1>2 DEF Loads, Tells, CacheSound, Loading, Loaded

\* The third: the search.  A remembered answer has the key of the request.
LEMMA SearchLook ==
    ASSUME Typed, SearchInv, ~aba, NEW t \in Threads, NEW q \in Queries, LookUp(t, q)
    PROVE  Loads(t)' /\ Tells(t)' /\ AnswersSound'
<1>. USE DEF Goto
<1>a. /\ UNCHANGED <<mark, got>> /\ DOMAIN out = Threads /\ pc \in [Threads -> Steps] /\ pc[t] = "indexed"
      /\ answers \in Seq(Answers) /\ Tells(t) /\ AnswersSound
  BY DEF LookUp, Typed, ThreadsTyped, CachesTyped, SearchInv
<1>b. Sounds \subseteq Sounds' /\ SoundAnswers \subseteq SoundAnswers'
  BY GrowsQuery, SoundsGrow DEF Query
<1>1. pc'[t] \in Loaded /\ <<mark'[t].run, mark'[t].rows, got'[t]>> \in Sounds'
  BY <1>a, <1>b DEF LookUp, Tells, Loaded
<1>2. CASE Known(SearchKey(t, q))
  <2>. DEFINE a == Answer(SearchKey(t, q))
  <2>1. a \in Answers /\ a.key = SearchKey(t, q) /\ \E i \in DOMAIN answers : a = answers[i]
    BY <1>a, <1>2, AnswerType
  <2>2. answers' = MoveToEnd(a) /\ out'[t] = a.content /\ pc'[t] = "reply"
    BY <1>2, <1>a DEF LookUp
  <2>. HIDE DEF a
  <2>3. a \in SoundAnswers
    BY <1>a, <2>1 DEF AnswersSound
  <2>4. <<mark[t].run, mark[t].rows, out'[t]>> \in Sounds
    BY <2>1, <2>2, <2>3 DEF SoundAnswers, SearchKey
  <2>5. \A i \in DOMAIN answers' : answers'[i] \in SoundAnswers
    BY <1>a, <2>1, <2>2, <2>3, MoveToEndKeeps DEF AnswersSound
  <2>. QED
    BY <1>a, <1>b, <1>1, <2>2, <2>4, <2>5 DEF Loads, Tells, AnswersSound, Loading
<1>3. CASE ~Known(SearchKey(t, q))
  <2>1. UNCHANGED answers /\ pc'[t] = "rank"
    BY <1>3, <1>a DEF LookUp
  <2>. QED
    BY <1>a, <1>b, <1>1, <2>1 DEF Loads, Tells, AnswersSound, Loading
<1>. QED
  BY <1>2, <1>3

LEMMA SearchRank ==
    ASSUME Typed, SearchInv, ~aba, NEW t \in Threads, Rank(t)
    PROVE  Loads(t)' /\ Tells(t)' /\ AnswersSound'
<1>. USE DEF Goto
<1>. DEFINE a == [key |-> SearchKey(t, req[t]), content |-> got[t]]
<1>a. /\ UNCHANGED <<mark, got>> /\ DOMAIN out = Threads /\ pc \in [Threads -> Steps] /\ pc[t] = "rank"
      /\ answers \in Seq(Answers) /\ Tells(t) /\ AnswersSound
      /\ answers' = MoveToEnd(a) /\ out'[t] = got[t] /\ pc'[t] = "reply"
  BY DEF Rank, Typed, ThreadsTyped, CachesTyped, SearchInv
<1>b. Sounds \subseteq Sounds' /\ SoundAnswers \subseteq SoundAnswers'
  BY GrowsQuery, SoundsGrow DEF Query
<1>1. <<mark[t].run, mark[t].rows, got[t]>> \in Sounds
  BY <1>a DEF Tells, Loaded
<1>2. a \in SoundAnswers
  <2>1. mark[t].run \in Runs /\ mark[t].rows \in 0..now /\ got[t] \in Contents /\ req[t] \in Queries
    BY <1>a, MarkType DEF Begun, Loaded, Typed, ThreadsTyped, ThreadTyped
  <2>. QED
    BY <1>1, <2>1 DEF SearchKey, Answers, SoundAnswers
<1>3. \A i \in DOMAIN answers' : answers'[i] \in SoundAnswers
  <2>1. a \in Answers
    BY <1>2 DEF SoundAnswers
  <2>. HIDE DEF a
  <2>. QED
    BY <1>a, <1>2, <2>1, MoveToEndKeeps DEF AnswersSound
<1>. QED
  BY <1>a, <1>b, <1>1, <1>3 DEF Loads, Tells, AnswersSound, Loading

\* An index taken from the cache has the marker of the request.
LEMMA SearchLock ==
    ASSUME Typed, SearchInv, ~aba, NEW t \in Threads, Lock(t)
    PROVE  Loads(t)' /\ Tells(t)'
<1>. USE DEF Goto
<1>a. /\ UNCHANGED <<built, served, seen, mark, Releases>> /\ pc \in [Threads -> Steps] /\ pc[t] = "lock"
      /\ DOMAIN got = Threads /\ Loads(t) /\ CacheSound
  BY DEF Lock, observers, Releases, Typed, ThreadsTyped, SearchInv
<1>1. CASE cache # None /\ cache.marker = mark[t]
  <2>1. got'[t] = cache.content /\ pc'[t] = "indexed"
    BY <1>1, <1>a DEF Lock
  <2>2. Sounds \subseteq Sounds'
    BY GrowsQuery, SoundsGrow DEF Query
  <2>. QED
    BY <1>1, <1>a, <2>1, <2>2 DEF CacheSound, Loads, Tells, Loading
<1>2. CASE ~(cache # None /\ cache.marker = mark[t])
  <2>1. pc'[t] = "count"
    BY <1>2, <1>a DEF Lock
  <2>2. \A n \in Releases : LoadsFor(t, n) => LoadsFor(t, n)'
    BY <1>a, <2>1 DEF LoadsFor
  <2>. QED
    BY <1>a, <2>1, <2>2 DEF Loads, Tells, Loading, Loaded
<1>. QED
  BY <1>1, <1>2

\* The detail of a model is no search.
LEMMA SearchDetail ==
    ASSUME Typed, SearchInv, ~aba, NEW t \in Threads,
           Detail(t) \/ (\E x \in Runs : Context(t, x)) \/ Family(t)
    PROVE  Loads(t)' /\ Tells(t)'
<1>. USE DEF Goto
<1>a. /\ UNCHANGED <<mark, got>> /\ DOMAIN req = Threads /\ pc \in [Threads -> Steps]
      /\ pc[t] \in Loaded /\ pc'[t] \in Loaded /\ Tells(t)
  BY DEF Detail, Context, Family, At, Typed, ThreadsTyped, SearchInv, Loaded
<1>b. Sounds \subseteq Sounds'
  BY GrowsQuery, SoundsGrow DEF Query
<1>1. pc'[t] = "reply" => req'[t] \notin Queries
  <2>1. CASE Detail(t)
    BY <2>1, <1>a DEF Detail
  <2>2. CASE \E x \in Runs : Context(t, x)
    BY <2>2, <1>a, Constants DEF Context
  <2>3. CASE Family(t)
    BY <2>3, <1>a, Constants DEF Family, At, Typed, ThreadsTyped, ThreadTyped
  <2>. QED
    BY <2>1, <2>2, <2>3
<1>. QED
  BY <1>a, <1>b, <1>1 DEF Loads, Tells, Loading, Loaded

LEMMA SearchThread ==
    ASSUME Typed, SearchInv, NEW t \in Threads, Query(t)
    PROVE  Reads(t)' /\ (~aba => Loads(t)' /\ Tells(t)')
<1>. USE DEF Goto
<1>1. CASE Ask(t) \/ OpenStub(t) \/ Reply(t)
  <2>1. pc'[t] \in Begun
    BY <1>1 DEF Ask, OpenStub, Reply, Begun, Typed, ThreadsTyped
  <2>. QED
    BY <2>1 DEF Reads, Loads, Tells, Begun, Loading, Loaded
<1>2. CASE MakeDirectory(t)
  BY <1>2, GrowsQuery, StaysSound DEF MakeDirectory, threads
<1>3. CASE ReadLive(t) \/ ReadPublished(t) \/ ReadCounts(t) \/ ReadReference(t)
  BY <1>3, SearchMark
<1>4. CASE ~(Ask(t) \/ OpenStub(t) \/ Reply(t) \/ MakeDirectory(t) \/ ReadLive(t) \/ ReadPublished(t) \/ ReadCounts(t) \/ ReadReference(t))
  <2>1. /\ UNCHANGED <<built, seen, mark>> /\ pc[t] \notin Begun
        /\ pc'[t] # "refs"
    BY <1>4
       DEF Query, Lock, CountSnapshots, ListSnapshots, ListRows, FindImport, ListExternal, Store, LookUp, Rank, Detail, Context,
           Family, At, Begun, observers, Typed, ThreadsTyped
  <2>2. Reads(t)'
    BY <2>1 DEF SearchInv, Reads
  <2>3. ASSUME FindImport(t) \/ ListExternal(t), ~aba PROVE Loads(t)' /\ Tells(t)'
    BY <2>3, SearchLoad, SearchLoaded, FoundOrStored
  <2>. QED
    BY <1>4, <2>2, <2>3, SearchLock, SearchLoad, SearchLook, SearchRank, SearchDetail DEF Query
<1>. QED
  BY <1>1, <1>2, <1>3, <1>4

LEMMA SearchQuery ==
    ASSUME Typed, SearchInv, NEW t \in Threads, Query(t)
    PROVE  SearchInv'
<1>1. Grows /\ Alone(t) /\ aba' = aba
  BY GrowsQuery, OneThread
<1>2. ASSUME NEW u \in Threads PROVE Reads(u)' /\ (~aba => Loads(u)' /\ Tells(u)')
  <2>1. CASE u = t
    BY <2>1, SearchThread
  <2>2. CASE u # t
    BY <1>1, <2>2, StaysSound DEF Alone
  <2>. QED
    BY <2>1, <2>2
<1>3. ASSUME ~aba PROVE CacheSound' /\ AnswersSound'
  <2>1. CASE FindImport(t) \/ ListExternal(t)
    <3>1. CacheSound'
      <4>1. CASE \E ref : Stores(t, ref)
        BY <1>3, <4>1, SearchLoaded
      <4>2. CASE FindImport(t) /\ DB.ref # 0
        BY <1>1, <1>3, <4>2, SoundsGrow DEF FindImport, SearchInv, CacheSound
      <4>. QED
        BY <2>1, <4>1, <4>2, FoundOrStored
    <3>2. UNCHANGED answers
      BY <2>1 DEF FindImport, ListExternal
    <3>. QED
      BY <1>1, <1>3, <3>1, <3>2, SoundsGrow DEF SearchInv, AnswersSound
  <2>2. ASSUME Rank(t) \/ \E q \in Queries : LookUp(t, q) PROVE CacheSound' /\ AnswersSound'
    <3>1. UNCHANGED cache
      BY <2>2 DEF Rank, LookUp
    <3>. QED
      BY <1>1, <1>3, <2>2, <3>1, SearchLook, SearchRank, SoundsGrow DEF SearchInv, CacheSound
  <2>3. CASE ~(FindImport(t) \/ ListExternal(t) \/ Rank(t) \/ \E q \in Queries : LookUp(t, q))
    <3>1. UNCHANGED <<cache, answers>>
      BY <2>3 DEF Query, Ask, MakeDirectory, OpenStub, ReadLive, ReadPublished, ReadCounts, ReadReference, Lock, Unmarked,
             CountSnapshots, ListSnapshots, ListRows, Detail, Context, Family, Reply, caches
    <3>. QED
      BY <1>1, <1>3, <3>1, SoundsGrow DEF SearchInv, CacheSound, AnswersSound
  <2>. QED
    BY <2>1, <2>2, <2>3
<1>. QED
  BY <1>1, <1>2, <1>3 DEF SearchInv

LEMMA SearchNext ==
    ASSUME Typed, SearchInv, [Next]_vars
    PROVE  SearchInv'
<1>1. CASE UNCHANGED vars
  <2>1. UNCHANGED <<now, built, served, pc, req, mark, got, out, cache, answers, seen, mixed, aba>>
    BY <1>1 DEF vars, threads, caches, observers
  <2>2. Grows
    BY <2>1 DEF Grows
  <2>3. \A t \in Threads : Reads(t)' /\ (~aba => Loads(t)' /\ Tells(t)')
    BY <2>1, <2>2, StaysSound
  <2>4. ~aba => CacheSound' /\ AnswersSound'
    BY <2>1, <2>2, SoundsGrow DEF SearchInv, CacheSound, AnswersSound
  <2>. QED
    BY <2>1, <2>3, <2>4 DEF SearchInv
<1>. QED
  BY <1>1, SearchBuild, SearchSwitch, SearchQuery DEF Next

\* A search tells the run, the data and the prices of releases which were
\* served while it ran, whatever the index and the search cache had before
\* (search_payload), unless a release came back that a request saw, or of the
\* releases it did not see one has the run and one the rows of its key.
THEOREM SearchSafe == Spec => []SearchIsOfTheRelease
<1>1. Init => SearchInv
  BY DEF Init, SearchInv, Reads, Loads, Tells, CacheSound, AnswersSound, Begun, Loading, Loaded
<1>2. Typed /\ SearchInv => SearchIsOfTheRelease
  <2>. SUFFICES ASSUME Typed, SearchInv, NEW t \in Threads, pc[t] = "reply", req[t] \in Queries, ~aba, ~Alike(t)
                PROVE  /\ \E n \in seen[t] : out[t].data \in {built[n].rows[out[t].run], built[n].snaps[out[t].run].at}
                       /\ out[t].ref = 0 \/ \E n \in seen[t] : out[t].ref = built[n].ref
                       /\ \E n \in seen[t] : out[t].run = LiveRun(built[n])
    BY DEF SearchIsOfTheRelease
  <2>1. <<mark[t].run, mark[t].rows, out[t]>> \in Sounds
    BY DEF SearchInv, Tells
  <2>2. /\ out[t].run = mark[t].run
        /\ \E n \in Releases : LiveRun(built[n]) = mark[t].run /\ SoundFor(n, out[t])
        /\ \E n \in Releases : built[n].rows[mark[t].run] = mark[t].rows /\ SoundFor(n, out[t])
    BY <2>1 DEF Sounds
  <2>3. PICK n \in seen[t] : SoundFor(n, out[t])
    BY <2>2 DEF Alike, Releases
  <2>4. Told(t, out[t])
    BY <2>3 DEF SoundFor
  <2>5. \E m \in seen[t] : LiveRun(built[m]) = mark[t].run
    BY DEF SearchInv, Reads, Begun
  <2>. QED
    BY <2>2, <2>4, <2>5 DEF Told, ToldData, ToldPrices, Holds
<1>. QED
  BY <1>1, <1>2, SearchNext, Types, PTL DEF Spec
=============================================================================
