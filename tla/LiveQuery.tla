----------------------------- MODULE LiveQuery -----------------------------
(***************************************************************************)
(* From the local database to the answers of the query service.            *)
(*                                                                         *)
(* A build (release/builder.py, release/live_market.py) reads quote rows   *)
(* and reference prices of the local database, copies the database and     *)
(* publishes the snapshots into the copy.  The cloud serves one release    *)
(* from the directory `current`; a deployment replaces the directory by    *)
(* two renames (ReleaseStore has the rest of it).  The threads of the      *)
(* query service (query_api/server.py) open the database in it by path,    *)
(* anew for each of the reads a request consists of, and share an index    *)
(* and a cache of search answers.                                          *)
(*                                                                         *)
(* Times have the resolution of the counter `now`: two writes are never in *)
(* the same second.  Run events are left out: they may only refresh the    *)
(* index more often.                                                       *)
(***************************************************************************)
EXTENDS Naturals, Sequences, FiniteSets

CONSTANTS
    Runs, Threads, Queries,
    NoRun, None,
    Absent, Empty, Stub,   \* no directory, an empty one, one with an empty database
    CacheSize,       \* SEARCH_CACHE_SIZE
    MaxTime,         \* bound: writes to the local database and builds
    MaxReleases,     \* bound: releases built
    MaxSwitches,     \* bound: deployments and rollbacks
    MaxRequests      \* bound: requests to the query service

ASSUME LiveQueryAssumption ==
    /\ NoRun \notin Runs /\ Runs # {} /\ Runs \cap Queries = {}
    /\ None \notin Threads
    /\ {None, Absent, Empty, Stub} \cap Nat = {}
    /\ Absent # Empty /\ Absent # Stub /\ Empty # Stub
    /\ {CacheSize, MaxReleases} \subseteq Nat \ {0}
    /\ {MaxTime, MaxSwitches, MaxRequests} \subseteq Nat

\* What is published of a run: the time of the rows the snapshots were made
\* of, the reference import of their prices and the one the summary names,
\* and the time of publication; 0 when there are no snapshots.
NoSnapshots == [of |-> 0, ref |-> 0, named |-> 0, at |-> 0]

\* rows: the time of the last quote row of a run; ref: the latest completed
\* reference import.
Database ==
    [rows : [Runs -> Nat], snaps : [Runs -> [of : Nat, ref : Nat, named : Nat, at : Nat]],
     live : Runs \union {NoRun}, liveAt : Nat, ref : Nat]

VARIABLES
    now,
    local,           \* the local database
    bpc, payload, copy,   \* the build: its step, its payload, the copied database
    built,           \* the releases, by their databases
    served,          \* the directory the query service reads from
    retired, previous, incoming, moved, dpc, switches,   \* the deployment
    spoiled,         \* observer: how often a query made the directory in this switch
    cache,           \* QueryIndexCache: marker and candidates
    lock,            \* its owner
    answers,         \* the search cache, least recently used first
    pc, req, mark, got, out,   \* each thread
    requests, seen, \* observers: releases served during a request
    mixed,           \* observer: the releases served while an index was loaded across a switch
    aba              \* observer: one of them came back

build == <<bpc, payload, copy>>
switch == <<retired, previous, incoming, moved, dpc, switches>>
threads == <<pc, req, mark, got, out, requests>>
caches == <<cache, lock, answers>>
observers == <<seen, mixed, aba>>
vars == <<now, local, build, built, served, switch, spoiled, caches, threads, observers>>

-----------------------------------------------------------------------------
(* The database *)

\* get_preferred_run_key: the run with the latest rows
Preferred(db) ==
    IF \A x \in Runs : db.rows[x] = 0 THEN NoRun
    ELSE CHOOSE x \in Runs : \A y \in Runs : db.rows[y] <= db.rows[x]

\* get_live_marker: the run of the live market, else the preferred one
LiveRun(db) == IF db.live # NoRun THEN db.live ELSE Preferred(db)

\* Variant: published at the time of publication, not of the build.
PublishedNow(db, p) ==
    [db EXCEPT !.snaps[p.run] = [p.snaps EXCEPT !.at = IF @ > 0 THEN now ELSE 0], !.live = p.run, !.liveAt = now]

\* publish_market_snapshots: one transaction
Published(db, p) ==
    [db EXCEPT !.snaps[p.run] = p.snaps, !.live = p.run, !.liveAt = p.at]

\* A run was collected and published, and a release was made of it.
Init ==
    LET first == CHOOSE x \in Runs : TRUE
        snaps(time) == [of |-> 1, ref |-> 0, named |-> 0, at |-> time]
        start == [rows |-> [x \in Runs |-> IF x = first THEN 1 ELSE 0],
                  snaps |-> [x \in Runs |-> IF x = first THEN snaps(2) ELSE NoSnapshots],
                  live |-> first, liveAt |-> 2, ref |-> 0]
    IN  /\ now = 3 /\ local = start
        /\ built = <<Published(start, [run |-> first, at |-> 3, snaps |-> snaps(3)])>>
        /\ bpc = "idle" /\ payload = None /\ copy = None
        /\ served = 1
        /\ retired = Absent /\ previous = Absent /\ incoming = None /\ moved = FALSE /\ dpc = "idle"
        /\ switches = 0 /\ spoiled = 0
        /\ cache = None /\ lock = None /\ answers = <<>>
        /\ pc = [t \in Threads |-> "idle"] /\ req = [t \in Threads |-> None]
        /\ mark = [t \in Threads |-> None] /\ got = [t \in Threads |-> None]
        /\ out = [t \in Threads |-> None]
        /\ requests = 0 /\ seen = [t \in Threads |-> {}] /\ mixed = {} /\ aba = FALSE

-----------------------------------------------------------------------------
(* The local database and the build of a release *)

Tick == now < MaxTime /\ now' = now + 1

\* replace_quote_rows_for_task or an import: rows of a run, stamped now
Collect(x) ==
    /\ Tick
    /\ local' = [local EXCEPT !.rows[x] = now']
    /\ UNCHANGED <<build, built, served, switch, spoiled, caches, threads, observers>>

\* run_reference_import: the import counts from the transaction that marks it
\* completed; what it wrote before, or when it fails, nobody reads.
ImportReference ==
    /\ Tick
    /\ local' = [local EXCEPT !.ref = now']
    /\ UNCHANGED <<build, built, served, switch, spoiled, caches, threads, observers>>

\* build_live_market_payload: the reference prices are read first, those of the
\* latest import, which does not change any more.  The crawler builds to publish
\* into the local database, the publisher to make a release.
BeginBuild(x, purpose) ==
    /\ bpc = "idle" /\ Tick
    /\ purpose = "release" => Len(built) < MaxReleases
    /\ local.rows[x] > 0
    /\ payload' = [run |-> x, at |-> now', purpose |-> purpose, snaps |-> [NoSnapshots EXCEPT !.ref = local.ref]]
    /\ bpc' = "context"
    /\ UNCHANGED <<local, copy, built, served, switch, spoiled, caches, threads, observers>>

\* Then the import the summary names,
ReadContext ==
    /\ bpc = "context"
    /\ payload' = [payload EXCEPT !.snaps.named = local.ref]
    /\ bpc' = "rows"
    /\ UNCHANGED <<now, local, copy, built, served, switch, spoiled, caches, threads, observers>>

\* and the rows.  No group of rows may have a price, and then there is no
\* snapshot.
ReadRows ==
    /\ bpc = "rows"
    /\ \E priced \in BOOLEAN :
        payload' = [payload EXCEPT !.snaps =
            IF priced THEN [@ EXCEPT !.of = local.rows[payload.run], !.at = payload.at] ELSE NoSnapshots]
    /\ bpc' = IF payload.purpose = "release" THEN "copy" ELSE "publish"
    /\ UNCHANGED <<now, local, copy, built, served, switch, spoiled, caches, threads, observers>>

PublishLocal ==
    /\ bpc = "publish"
    /\ local' = Published(local, payload)
    /\ bpc' = "idle" /\ payload' = None
    /\ UNCHANGED <<now, copy, built, served, switch, spoiled, caches, threads, observers>>

\* export_database_snapshot
CopyDatabase ==
    /\ bpc = "copy"
    /\ copy' = local
    /\ bpc' = "bundle"
    /\ UNCHANGED <<now, local, payload, built, served, switch, spoiled, caches, threads, observers>>

\* The snapshots are published into the copy, the bundle is completed,
\* validated and moved to its place; the cloud gets it.
FinishRelease ==
    /\ bpc = "bundle"
    /\ built' = Append(built, Published(copy, payload))
    /\ bpc' = "idle" /\ payload' = None /\ copy' = None
    /\ UNCHANGED <<now, local, served, switch, spoiled, caches, threads, observers>>

\* An error anywhere: the half-built bundle is removed.
BuildFails ==
    /\ bpc \in {"context", "rows", "publish", "copy", "bundle"}
    /\ bpc' = "idle" /\ payload' = None /\ copy' = None
    /\ UNCHANGED <<now, local, built, served, switch, spoiled, caches, threads, observers>>

\* The two machines meet in the finished releases only, so the builds are
\* interleaved with each other and end before the rest begins: a bound.
AllBuilt == Len(built) = MaxReleases

Builder ==
    /\ ~AllBuilt
    /\ \/ \E x \in Runs : Collect(x) \/ BeginBuild(x, "release") \/ BeginBuild(x, "local")
       \/ ImportReference \/ ReadContext \/ ReadRows \/ PublishLocal \/ CopyDatabase \/ FinishRelease \/ BuildFails

-----------------------------------------------------------------------------
(* The switch of the served directory: _replace_directory *)

Released == served \in 1..Len(built)

\* The steps of a request which may store something that is out of date.
Loading == {"lock", "count", "snapshots", "rows", "import", "external"}

\* A release may come back over a request which saw it serve.
Serve(n) ==
    /\ served' = n
    /\ seen' = [t \in Threads |-> IF pc[t] = "idle" THEN {} ELSE seen[t] \union {n}]
    /\ aba' = (aba \/ n \in mixed \/ \E t \in Threads : pc[t] \in Loading /\ n \in seen[t])
    /\ UNCHANGED mixed

\* deploy_release or rollback, up to the switch: what an earlier switch left
\* aside is removed; a deployment first copies the live directory, whatever
\* it holds, to the rollback target.
BeginSwitch(n, rollback) ==
    /\ dpc = "idle" /\ switches < MaxSwitches /\ AllBuilt
    /\ IF rollback
       THEN n = previous /\ UNCHANGED previous
       ELSE previous' = IF served \in {Absent, Empty} THEN previous ELSE served
    /\ n \in 1..Len(built)
    /\ incoming' = n /\ retired' = Absent /\ moved' = FALSE
    /\ dpc' = "retire" /\ switches' = switches + 1 /\ spoiled' = 0
    /\ UNCHANGED <<now, local, build, built, served, caches, threads, observers>>

Retire ==
    /\ dpc = "retire"
    /\ retired' = served /\ served' = Absent /\ moved' = (served # Absent)
    /\ dpc' = "publish"
    /\ UNCHANGED <<now, local, build, built, previous, incoming, switches, spoiled, caches, threads, observers>>

\* A directory is renamed over no directory or an empty one only.
Publish ==
    /\ dpc = "publish"
    /\ IF served \in {Absent, Empty}
       THEN Serve(incoming) /\ dpc' = "drop"
       ELSE dpc' = "undo" /\ UNCHANGED <<served, observers>>
    /\ UNCHANGED <<now, local, build, built, retired, previous, incoming, moved, switches, spoiled, caches, threads>>

DropRetired ==
    /\ dpc = "drop"
    /\ retired' = Absent /\ incoming' = None /\ dpc' = "idle"
    /\ UNCHANGED <<now, local, build, built, served, previous, moved, switches, spoiled, caches, threads, observers>>

\* Variant: what is in the way is not removed.
UndoKeeps == dpc = "undo" /\ UNCHANGED served

UndoDrops == dpc = "undo" /\ served' = Absent

\* The except clause: remove what is in the way, rename the old release back.
Undo ==
    /\ UndoDrops
    /\ dpc' = "restore"
    /\ UNCHANGED <<now, local, build, built, retired, previous, incoming, moved, switches, spoiled, caches, threads, observers>>

\* It fails when a query has made the directory once more.
Restore ==
    /\ dpc = "restore"
    /\ IF moved /\ served \in {Absent, Empty}
       THEN /\ IF retired \in 1..Len(built) THEN Serve(retired) ELSE served' = retired /\ UNCHANGED observers
            /\ retired' = Absent
       ELSE UNCHANGED <<served, retired, observers>>
    /\ incoming' = None /\ dpc' = "idle"
    /\ UNCHANGED <<now, local, build, built, previous, moved, switches, spoiled, caches, threads>>

Switch ==
    \/ \E n \in 1..MaxReleases, rollback \in BOOLEAN : BeginSwitch(n, rollback)
    \/ Retire \/ Publish \/ DropRetired \/ Undo \/ Restore

-----------------------------------------------------------------------------
(* A request: QueryIndexCache.get_state, then the search or the detail *)

Goto(t, step) == pc' = [pc EXCEPT ![t] = step]

\* A search or the detail of a model: LookUp and Detail tell them apart, as
\* both begin with the index.
Ask(t) ==
    /\ pc[t] = "idle" /\ requests < MaxRequests /\ AllBuilt
    /\ requests' = requests + 1
    /\ seen' = [seen EXCEPT ![t] = IF Released THEN {served} ELSE {}]
    /\ Goto(t, "live")
    /\ UNCHANGED <<now, local, build, built, served, switch, spoiled, caches, req, mark, got, out, mixed, aba>>

\* The steps which open the database
Reading == {"live", "published", "counts", "refs", "count", "snapshots", "rows", "import", "external", "context",
            "family"}

\* DGTeamStorage.connect makes the missing directory,
MakeDirectory(t) ==
    /\ pc[t] \in Reading /\ served = Absent
    /\ served' = Empty
    /\ UNCHANGED <<now, local, build, built, switch, spoiled, caches, threads, observers>>

\* Variant: an error leaves the lock taken.
StillLocked(t) == lock

Unlocked(t) == IF lock = t THEN None ELSE lock

\* and sqlite makes the missing database.  Its tables are missing then: the
\* request ends with an error, and leaves the lock.
OpenStub(t) ==
    /\ pc[t] \in Reading /\ served \in {Empty, Stub}
    /\ served' = Stub
    /\ spoiled' = IF served = Empty THEN spoiled + 1 ELSE spoiled
    /\ lock' = Unlocked(t)
    /\ Goto(t, "idle")
    /\ req' = [req EXCEPT ![t] = None] /\ mark' = [mark EXCEPT ![t] = None]
    /\ got' = [got EXCEPT ![t] = None] /\ seen' = [seen EXCEPT ![t] = {}]
    /\ UNCHANGED <<now, local, build, built, switch, cache, answers, out, requests, mixed, aba>>

At(t, step) == pc[t] = step /\ Released

DB == built[served]

\* get_live_marker, each of its connections by itself: the run that is live
\* and its time of publication (get_live_market_state; its summary is not used),
ReadLive(t) ==
    /\ At(t, "live")
    /\ mark' = [mark EXCEPT ![t] = [run |-> LiveRun(DB), rows |-> 0, at |-> 0, snaps |-> FALSE, ref |-> 0]]
    /\ Goto(t, "published")
    /\ UNCHANGED <<now, local, build, built, served, switch, spoiled, caches, req, got, out, requests, observers>>

ReadPublished(t) ==
    /\ At(t, "published")
    /\ mark' = [mark EXCEPT ![t].at = DB.liveAt]
    /\ Goto(t, "counts")
    /\ UNCHANGED <<now, local, build, built, served, switch, spoiled, caches, req, got, out, requests, observers>>

\* then what the run has.
ReadCounts(t) ==
    /\ At(t, "counts")
    /\ LET x == mark[t].run
           snaps == DB.snaps[x].at > 0
           at == IF snaps THEN DB.snaps[x].at ELSE mark[t].at
       IN  mark' = [mark EXCEPT ![t] = [@ EXCEPT !.rows = DB.rows[x], !.snaps = snaps, !.at = at]]
    /\ Goto(t, "refs")
    /\ UNCHANGED <<now, local, build, built, served, switch, spoiled, caches, req, got, out, requests, observers>>

\* get_latest_reference_import_run
ReadReference(t) ==
    /\ At(t, "refs")
    /\ mark' = [mark EXCEPT ![t].ref = DB.ref]
    /\ Goto(t, "lock")
    /\ UNCHANGED <<now, local, build, built, served, switch, spoiled, caches, req, got, out, requests, observers>>

\* Variant: the cache takes the new marker before it has the candidates.
MarkedFirst(t) == IF cache = None THEN cache ELSE [cache EXCEPT !.marker = mark[t]]

Unmarked(t) == cache

\* Under the lock: the cached candidates, or load them.
Lock(t) ==
    /\ pc[t] = "lock" /\ lock = None
    /\ IF cache # None /\ cache.marker = mark[t]
       THEN got' = [got EXCEPT ![t] = cache.content] /\ Goto(t, "indexed") /\ UNCHANGED <<lock, cache>>
       ELSE lock' = t /\ cache' = Unmarked(t) /\ Goto(t, "count") /\ UNCHANGED got
    /\ UNCHANGED <<now, local, build, built, served, switch, spoiled, answers, req, mark, out, requests, observers>>

\* list_live_sku_candidates of the marker's run: from the snapshots if there
\* are any, else from the rows; then the candidates of the reference import.
CountSnapshots(t) ==
    /\ At(t, "count")
    /\ Goto(t, IF DB.snaps[mark[t].run].at > 0 THEN "snapshots" ELSE "rows")
    /\ UNCHANGED <<now, local, build, built, served, switch, spoiled, caches, req, mark, got, out, requests, observers>>

ListSnapshots(t) ==
    /\ At(t, "snapshots")
    /\ got' = [got EXCEPT ![t] = [run |-> mark[t].run, from |-> "snapshots", data |-> DB.snaps[mark[t].run].at, ref |-> 0]]
    /\ Goto(t, "import")
    /\ UNCHANGED <<now, local, build, built, served, switch, spoiled, caches, req, mark, out, requests, observers>>

ListRows(t) ==
    /\ At(t, "rows")
    /\ got' = [got EXCEPT ![t] = [run |-> mark[t].run, from |-> "rows", data |-> DB.rows[mark[t].run], ref |-> 0]]
    /\ Goto(t, "import")
    /\ UNCHANGED <<now, local, build, built, served, switch, spoiled, caches, req, mark, out, requests, observers>>

\* The cache takes the index and the lock is released.
Store(t, ref) ==
    /\ got' = [got EXCEPT ![t].ref = ref]
    /\ cache' = [marker |-> mark[t], content |-> got'[t]]
    /\ lock' = None
    /\ Goto(t, "indexed")
    /\ mixed' = IF Cardinality(seen[t]) > 1 THEN mixed \union seen[t] ELSE mixed

\* list_external_reference_candidates: the latest import; without one there is
\* nothing to list.
FindImport(t) ==
    /\ At(t, "import")
    /\ IF DB.ref = 0 THEN Store(t, 0)
       ELSE /\ got' = [got EXCEPT ![t].ref = DB.ref]
            /\ Goto(t, "external") /\ UNCHANGED <<cache, lock, mixed>>
    /\ UNCHANGED <<now, local, build, built, served, switch, spoiled, answers, req, mark, out, requests, seen, aba>>

\* The candidates of that import.  A database that was copied before the import
\* was completed has all of them (replace_reference_import_rows was through) or
\* none.
ListExternal(t) ==
    /\ At(t, "external")
    /\ \E ref \in {0, got[t].ref} : (ref = 0 => DB.ref < got[t].ref) /\ Store(t, ref)
    /\ UNCHANGED <<now, local, build, built, served, switch, spoiled, answers, req, mark, out, requests, seen, aba>>

-----------------------------------------------------------------------------
(* search_payload *)

\* Variant: answers are remembered by the query alone.
SearchKeyOfQuery(t, q) == <<q>>

\* search_cache_key, from the marker the index is of
SearchKey(t, q) == <<mark[t].run, mark[t].rows, q>>

Known(key) == \E i \in DOMAIN answers : answers[i].key = key

Answer(key) == CHOOSE a \in {answers[i] : i \in DOMAIN answers} : a.key = key

\* The OrderedDict, which has a key once: a used or new answer goes to the
\* end, the first one leaves a full cache.
MoveToEnd(entry) ==
    LET known == {i \in DOMAIN answers : answers[i].key = entry.key}
        i == CHOOSE i \in known : TRUE
        others == IF known = {} THEN answers
                  ELSE SubSeq(answers, 1, i - 1) \o SubSeq(answers, i + 1, Len(answers))
        all == Append(others, entry)
    IN  IF Len(all) > CacheSize THEN Tail(all) ELSE all

LookUp(t, q) ==
    /\ pc[t] = "indexed"
    /\ req' = [req EXCEPT ![t] = q]
    /\ IF Known(SearchKey(t, q))
       THEN /\ answers' = MoveToEnd(Answer(SearchKey(t, q)))
            /\ out' = [out EXCEPT ![t] = Answer(SearchKey(t, q)).content]
            /\ Goto(t, "reply")
       ELSE Goto(t, "rank") /\ UNCHANGED <<answers, out>>
    /\ UNCHANGED <<now, local, build, built, served, switch, spoiled, cache, lock, mark, got, requests, observers>>

\* Ranked outside the lock; another thread may have stored its own by then.
Rank(t) ==
    /\ pc[t] = "rank"
    /\ answers' = MoveToEnd([key |-> SearchKey(t, req[t]), content |-> got[t]])
    /\ out' = [out EXCEPT ![t] = got[t]]
    /\ Goto(t, "reply")
    /\ UNCHANGED <<now, local, build, built, served, switch, spoiled, cache, lock, req, mark, got, requests, observers>>

-----------------------------------------------------------------------------
(* _quote_snapshot_payload *)

\* The request is for the detail of a model.
Detail(t) ==
    /\ pc[t] = "indexed"
    /\ Goto(t, "context")
    /\ UNCHANGED <<now, local, build, built, served, switch, spoiled, caches, req, mark, got, out, requests, observers>>

\* The detail of a model of run x, by the key of an earlier answer, or of the
\* index's run, by its title.  The reference prices are read (one step for three
\* reads, which nothing compares), and then the snapshots of the index answer,
\* or, if it is of another run, the rows of the named run.
Context(t, x) ==
    /\ At(t, "context")
    /\ req' = [req EXCEPT ![t] = x]
    /\ IF got[t].from = "snapshots" /\ got[t].run = x
       THEN out' = [out EXCEPT ![t] = [got[t] EXCEPT !.ref = DB.ref]] /\ Goto(t, "reply")
       ELSE out' = [out EXCEPT ![t] = [run |-> x, from |-> "none", data |-> 0, ref |-> DB.ref]] /\ Goto(t, "family")
    /\ UNCHANGED <<now, local, build, built, served, switch, spoiled, caches, mark, got, requests, observers>>

\* get_model_family_rows; without rows the answer is no_usable_price.
Family(t) ==
    /\ At(t, "family")
    /\ LET rows == DB.rows[req[t]]
       IN  out' = [out EXCEPT ![t] = [@ EXCEPT !.from = IF rows > 0 THEN "rows" ELSE "none", !.data = rows]]
    /\ Goto(t, "reply")
    /\ UNCHANGED <<now, local, build, built, served, switch, spoiled, caches, req, mark, got, requests, observers>>

Reply(t) ==
    /\ pc[t] = "reply"
    /\ Goto(t, "idle")
    /\ req' = [req EXCEPT ![t] = None] /\ mark' = [mark EXCEPT ![t] = None]
    /\ got' = [got EXCEPT ![t] = None] /\ out' = [out EXCEPT ![t] = None]
    /\ seen' = [seen EXCEPT ![t] = {}]
    /\ UNCHANGED <<now, local, build, built, served, switch, spoiled, caches, requests, mixed, aba>>

Query(t) ==
    \/ Ask(t)
    \/ MakeDirectory(t) \/ OpenStub(t)
    \/ ReadLive(t) \/ ReadPublished(t) \/ ReadCounts(t) \/ ReadReference(t)
    \/ Lock(t) \/ CountSnapshots(t) \/ ListSnapshots(t) \/ ListRows(t)
    \/ FindImport(t) \/ ListExternal(t)
    \/ (\E q \in Queries : LookUp(t, q)) \/ Rank(t) \/ Detail(t) \/ (\E x \in Runs : Context(t, x)) \/ Family(t) \/ Reply(t)

Next == Builder \/ Switch \/ \E t \in Threads : Query(t)

Spec == Init /\ [][Next]_vars

-----------------------------------------------------------------------------
(* Properties *)

Contents == [run : Runs, from : {"snapshots", "rows", "none"}, data : 0..now, ref : 0..now]

\* Types; the index is loaded by the owner of the lock only.
TypeOK ==
    /\ local \in [rows : [Runs -> 0..now], snaps : [Runs -> [of : 0..now, ref : 0..now, named : 0..now, at : 0..now]],
                   live : Runs, liveAt : 0..now, ref : 0..now]
    /\ {served, retired, previous} \subseteq {Absent, Empty, Stub} \union (1..Len(built))
    /\ (incoming = None) = (dpc = "idle")
    /\ cache # None => cache.content \in Contents
    /\ \A i \in DOMAIN answers : answers[i].content \in Contents
    /\ \A t \in Threads : lock = t <=> pc[t] \in {"count", "snapshots", "rows", "import", "external"}

\* A release holds the data of one moment, the time of its build, but for what
\* was written into the local database from then on: build_local_release_bundle
\* reads it in five transactions.  Its snapshots are made of its own rows, with
\* the prices of its own reference import, unless these are later than the build
\* itself; they are never ahead of the release, nor their prices of the import
\* which the summary names.
ReleaseIsOfOneMoment ==
    \A n \in DOMAIN built :
        LET db == built[n] s == db.snaps[db.live]
        IN  s.at > 0 =>
                /\ s.at = db.liveAt
                /\ s.of <= db.rows[db.live] /\ (s.of # db.rows[db.live] => db.rows[db.live] > db.liveAt)
                /\ s.ref <= s.named /\ s.named <= db.ref /\ (s.ref # db.ref => db.ref > db.liveAt)

\* The candidates of run x that database db yields
IndexOf(db, x) ==
    LET snaps == db.snaps[x].at > 0
    IN  [run |-> x, from |-> IF snaps THEN "snapshots" ELSE "rows",
         data |-> IF snaps THEN db.snaps[x].at ELSE db.rows[x], ref |-> db.ref]

\* The marker of a database nothing is done to
MarkerOf(db) ==
    LET x == LiveRun(db) snaps == db.snaps[x].at > 0
    IN  [run |-> x, rows |-> db.rows[x], at |-> IF snaps THEN db.snaps[x].at ELSE db.liveAt,
         snaps |-> snaps, ref |-> db.ref]

\* The index that the next request will take as fresh is the one of the
\* release that is served, though the marker is read before the lock is
\* taken, in several reads, and releases change between them.  Excused is a
\* release that comes back after a request has loaded the index across a
\* switch (QueryIndexCache.get_state).
IndexIsOfTheRelease ==
    Released /\ cache # None /\ ~aba /\ cache.marker = MarkerOf(DB)
        => cache.content = IndexOf(DB, LiveRun(DB))

\* What the search cache takes for the release of a request: of the releases
\* which were not served during it, one has the same live run, and one the
\* same rows of that run.
Alike(t) ==
    LET others == 1..Len(built) \ seen[t]
    IN  /\ \E n \in others : LiveRun(built[n]) = mark[t].run
        /\ \E n \in others : built[n].rows[mark[t].run] = mark[t].rows

\* A search tells nothing that no release served during the request holds:
\* neither the index nor the search cache answers from an older release, but
\* for releases which are alike, or which came back (aba).  (It may tell
\* nothing at all, when the snapshots are counted in one release and listed in
\* the next, and no external price, when the import is.)
SearchIsOfTheRelease ==
    \A t \in Threads :
        pc[t] = "reply" /\ req[t] \in Queries /\ ~aba /\ ~Alike(t) =>
            /\ \E n \in seen[t] : out[t].data \in {built[n].rows[out[t].run], built[n].snaps[out[t].run].at}
            /\ out[t].ref = 0 \/ \E n \in seen[t] : out[t].ref = built[n].ref
            /\ \E n \in seen[t] : out[t].run = LiveRun(built[n])

\* A switch ends with a release being served, the new one or the old one, as
\* long as a query got between its steps only once: README.md says that the
\* query service is read-only, but opening a missing database makes the
\* directory that the switch is about to fill.
SwitchEndsServed ==
    [][dpc # "idle" /\ dpc' = "idle" /\ spoiled <= 1 /\ (moved => retired \in 1..Len(built) \/ retired = Absent)
        => served' \in 1..Len(built)]_vars
=============================================================================
