---------------------------- MODULE ProdAutomation ----------------------------
(***************************************************************************)
(* The production automation: automation/prod_collect_and_sync.py with the *)
(* pipeline it runs (agent/pipeline.py, agent/stages/publisher.py), the    *)
(* sync to the cloud (release/sync_cli.py, release/upload_client.py) and   *)
(* the publish API at the other end.                                       *)
(*                                                                         *)
(* A release is the number of the pipeline run that built it.  A run of    *)
(* the automation takes the lock, retries the release that pending_sync    *)
(* names, collects and builds a new release, and uploads and activates it. *)
(*                                                                         *)
(* The publish API is one step per request here: ReleaseStore has its      *)
(* details.  A request may be lost; or the caller gives up on it and the   *)
(* server works on, so that it takes effect later, also after the caller   *)
(* has sent others.                                                        *)
(*                                                                         *)
(* Left out: --no-activate (every sync activates), the status files that   *)
(* nothing reads back (current_run.json, last_run.json, ...), journals and *)
(* the migration of a legacy runtime directory.                            *)
(***************************************************************************)
EXTENDS Naturals, FiniteSets

CONSTANTS
    Procs,          \* processes that may be started: by the scheduler, by hand
    Torn,           \* pending_sync.json was truncated and not written yet
    MaxReleases,    \* bound: releases ever built
    MaxFaults,      \* bound: requests lost, abandoned or failed by the server
    MaxCrashes      \* bound: deaths of an automation process

None == 0
Releases == 1 .. MaxReleases

ASSUME BoundAssumption == {MaxReleases, MaxFaults, MaxCrashes} \subseteq Nat
ASSUME TornAssumption == Torn \notin Nat

VARIABLES
    lock,           \* collect_and_sync.lock exists
    pending,        \* what pending_sync.json names, None without the file
    disk,           \* the release directories under releases_dir
    pc, rel,        \* each process: its step, the release it syncs
    retrying,       \* each process: the sync is the retry of a pending one
    built,          \* the number of releases built so far
    uploaded,       \* publish API: the releases in its history
    live, previous, \* publish API: the release served, the rollback target
    late,           \* requests the server still works on without their caller
    faults, crashes,
    unsynced,       \* observer: the newest release whose sync raised
    skipped         \* observer: a run passed a pending release by

local == <<lock, pending, disk, built>>
process == <<pc, rel, retrying>>
cloud == <<uploaded, live, previous>>
budget == <<faults, crashes>>
observers == <<unsynced, skipped>>
vars == <<local, process, cloud, late, budget, observers>>

Steps == {"idle", "read", "upload", "activate", "unlink", "pipeline", "prune",
          "save_open", "save_fill", "stop"}
Request == [kind : {"upload", "activate"}, rel : Releases]

Init ==
    /\ lock = FALSE /\ pending = None /\ disk = {} /\ built = 0
    /\ pc = [p \in Procs |-> "idle"]
    /\ rel = [p \in Procs |-> None]
    /\ retrying = [p \in Procs |-> FALSE]
    /\ uploaded = {} /\ live = None /\ previous = None
    /\ late = {}
    /\ faults = 0 /\ crashes = 0
    /\ unsynced = None /\ skipped = FALSE

Goto(p, step) == pc' = [pc EXCEPT ![p] = step]

-----------------------------------------------------------------------------
(* main(): the lock and the pending release. *)

\* Variant: the lock file is opened without O_EXCL.
StartAnyway(p, skip) ==
    /\ pc[p] = "idle"
    /\ lock' = TRUE
    /\ Goto(p, IF pending # None /\ ~skip THEN "read" ELSE "pipeline")
    /\ skipped' = (skipped \/ (skip /\ pending # None))
    /\ UNCHANGED <<pending, disk, built, rel, retrying, cloud, late, budget, unsynced>>

\* A process that finds the lock stops without any effect.  skip stands for
\* --skip-pending-retry, or a missing server URL or token.
Start(p, skip) ==
    /\ pc[p] = "idle"
    /\ lock = FALSE /\ lock' = TRUE
    /\ Goto(p, IF pending # None /\ ~skip THEN "read" ELSE "pipeline")
    /\ skipped' = (skipped \/ (skip /\ pending # None))
    /\ UNCHANGED <<pending, disk, built, rel, retrying, cloud, late, budget, unsynced>>

\* The finally clause of main.
Stop(p) ==
    /\ pc[p] = "stop"
    /\ lock' = FALSE
    /\ Goto(p, "idle")
    /\ rel' = [rel EXCEPT ![p] = None]
    /\ retrying' = [retrying EXCEPT ![p] = FALSE]
    /\ UNCHANGED <<pending, disk, built, cloud, late, budget, observers>>

\* Variant: neither the content nor the release directory is checked.
ReadUnchecked(p) ==
    /\ pc[p] = "read"
    /\ Goto(p, "upload")
    /\ rel' = [rel EXCEPT ![p] = pending]
    /\ retrying' = [retrying EXCEPT ![p] = TRUE]
    /\ UNCHANGED <<local, cloud, late, budget, observers>>

\* retry_pending_sync_if_needed: an unreadable file or a release that is gone
\* from the disk ends the run.
ReadPending(p) ==
    /\ pc[p] = "read"
    /\ IF pending \in disk
       THEN /\ Goto(p, "upload")
            /\ rel' = [rel EXCEPT ![p] = pending]
            /\ retrying' = [retrying EXCEPT ![p] = TRUE]
       ELSE Goto(p, "stop") /\ UNCHANGED <<rel, retrying>>
    /\ UNCHANGED <<local, cloud, late, budget, observers>>

Unlink(p) ==
    /\ pc[p] = "unlink"
    /\ pending' = None
    /\ Goto(p, "pipeline")
    /\ UNCHANGED <<lock, disk, built, rel, retrying, cloud, late, budget, observers>>

-----------------------------------------------------------------------------
(* run_pipeline("collect-and-publish"). *)

\* The crawl outlasts every request the server still works on.  The collector,
\* the cleaner, the market engine or the builder may raise; the bundle is
\* renamed into place when it is complete.
Pipeline(p) ==
    /\ pc[p] = "pipeline"
    /\ late = {}
    /\ \/ Goto(p, "stop") /\ UNCHANGED <<disk, built, rel, retrying>>
       \/ /\ built < MaxReleases
          /\ built' = built + 1
          /\ disk' = disk \cup {built'}
          /\ rel' = [rel EXCEPT ![p] = built']
          /\ retrying' = [retrying EXCEPT ![p] = FALSE]
          /\ Goto(p, "prune")
    /\ UNCHANGED <<lock, pending, cloud, late, budget, observers>>

Newer(r, S) == {s \in S : s > r}

\* Variant: retention keeps one release too many.
PruneKeepsTwo(p) ==
    /\ pc[p] = "prune"
    /\ disk' = {r \in disk : Cardinality(Newer(r, disk)) < 2}
    /\ \E step \in {"upload", "stop"} : Goto(p, step)
    /\ UNCHANGED <<lock, pending, built, rel, retrying, cloud, late, budget, observers>>

\* Variant: retention keeps no release.
PruneKeepsNone(p) ==
    /\ pc[p] = "prune"
    /\ disk' = {}
    /\ \E step \in {"upload", "stop"} : Goto(p, step)
    /\ UNCHANGED <<lock, pending, built, rel, retrying, cloud, late, budget, observers>>

\* prune_local_runtime with DGTEAM_KEEP_LOCAL_RELEASES=1.  Without a server URL
\* or token, or with --skip-sync, the run stops here.
Prune(p) ==
    /\ pc[p] = "prune"
    /\ disk' = {r \in disk : Newer(r, disk) = {}}
    /\ \E step \in {"upload", "stop"} : Goto(p, step)
    /\ UNCHANGED <<lock, pending, built, rel, retrying, cloud, late, budget, observers>>

-----------------------------------------------------------------------------
(* The publish API, a request at a time. *)
Upload(r) == uploaded' = uploaded \cup {r} /\ UNCHANGED <<live, previous>>

\* The release must be in the history, which the retention pass after the
\* activation empties (keep_cloud_releases is 0).
Activate(r) ==
    /\ r \in uploaded
    /\ live' = r
    /\ previous' = IF live = None THEN previous ELSE live
    /\ uploaded' = {}

Serves(q) == IF q.kind = "upload" THEN Upload(q.rel) ELSE Activate(q.rel)
Refuses(q) == q.kind = "activate" /\ q.rel \notin uploaded /\ UNCHANGED cloud

\* The request fails in the server; a failed deployment has already copied the
\* live release over the rollback target.
Breaks(q) ==
    \/ UNCHANGED cloud
    \/ /\ q.kind = "activate" /\ q.rel \in uploaded /\ live # None
       /\ previous' = live
       /\ UNCHANGED <<uploaded, live>>

ServeLate ==
    /\ \E q \in late :
          /\ late' = late \ {q}
          /\ Serves(q) \/ Refuses(q)
    /\ UNCHANGED <<local, process, budget, observers>>

-----------------------------------------------------------------------------
(* sync_release: upload without activation, then activate. *)
Calling(p) == pc[p] \in {"upload", "activate"}
Call(p) == [kind |-> pc[p], rel |-> rel[p]]

\* Variant: a failed retry is logged and the run goes on.
RaiseUnlessRetry(p) ==
    /\ Goto(p, IF retrying[p] THEN "pipeline" ELSE "save_open")
    /\ unsynced' = rel[p]

\* The exception of sync_release: the retry lets it out, main first writes
\* pending_sync.json.
Raise(p) ==
    /\ Goto(p, IF retrying[p] THEN "stop" ELSE "save_open")
    /\ unsynced' = rel[p]

Sync(p) ==
    /\ Calling(p)
    /\ \/ /\ Serves(Call(p))
          /\ Goto(p, IF pc[p] = "upload" THEN "activate"
                     ELSE IF retrying[p] THEN "unlink" ELSE "stop")
          /\ UNCHANGED unsynced
       \/ Refuses(Call(p)) /\ Raise(p)
    /\ UNCHANGED <<local, rel, retrying, late, budget, skipped>>

\* The request never arrives, or the server answers with an error.
SyncFails(p) ==
    /\ Calling(p)
    /\ faults < MaxFaults /\ faults' = faults + 1
    /\ Breaks(Call(p))
    /\ Raise(p)
    /\ UNCHANGED <<local, rel, retrying, late, crashes, skipped>>

\* The connection breaks after the server has the request.
SyncAbandons(p) ==
    /\ Calling(p)
    /\ faults < MaxFaults /\ faults' = faults + 1
    /\ late' = late \cup {Call(p)}
    /\ Raise(p)
    /\ UNCHANGED <<local, rel, retrying, cloud, crashes, skipped>>

\* Variant: the pending file of an earlier release is kept.
SaveFirst(p) ==
    /\ \/ pc[p] = "save_open" /\ Goto(p, "save_fill") /\ UNCHANGED pending
       \/ pc[p] = "save_fill" /\ Goto(p, "stop")
          /\ pending' = IF pending = None THEN rel[p] ELSE pending
    /\ UNCHANGED <<lock, disk, built, rel, retrying, cloud, late, budget, observers>>

\* write_json truncates the file, then writes it.
SavePending(p) ==
    /\ \/ pc[p] = "save_open" /\ pending' = Torn /\ Goto(p, "save_fill")
       \/ pc[p] = "save_fill" /\ pending' = rel[p] /\ Goto(p, "stop")
    /\ UNCHANGED <<lock, disk, built, rel, retrying, cloud, late, budget, observers>>

-----------------------------------------------------------------------------
\* The process dies and its lock file stays; its request may still be served.
Crash(p) ==
    /\ pc[p] # "idle"
    /\ crashes < MaxCrashes /\ crashes' = crashes + 1
    /\ late' \in {late} \cup (IF Calling(p) THEN {late \cup {Call(p)}} ELSE {})
    /\ Goto(p, "idle")
    /\ rel' = [rel EXCEPT ![p] = None]
    /\ retrying' = [retrying EXCEPT ![p] = FALSE]
    /\ UNCHANGED <<local, cloud, faults, observers>>

\* Nothing in the code removes the lock of a dead process: the operator does.
RemoveStaleLock ==
    /\ lock /\ \A p \in Procs : pc[p] = "idle"
    /\ lock' = FALSE
    /\ UNCHANGED <<pending, disk, built, process, cloud, late, budget, observers>>

Run(p) == ReadPending(p) \/ Unlink(p) \/ Pipeline(p) \/ Prune(p) \/ Sync(p)
            \/ SavePending(p) \/ Stop(p)

Next ==
    \/ \E p \in Procs : \/ \E skip \in BOOLEAN : Start(p, skip)
                        \/ Run(p) \/ SyncFails(p) \/ SyncAbandons(p) \/ Crash(p)
    \/ ServeLate
    \/ RemoveStaleLock

\* The scheduler starts a run again and again, without options; a run that has
\* started goes on, and so does a request the server has.
Spec ==
    /\ Init /\ [][Next]_vars
    /\ WF_vars(\E p \in Procs : Start(p, FALSE))
    /\ WF_vars(\E p \in Procs : Run(p))
    /\ WF_vars(ServeLate)

-----------------------------------------------------------------------------
TypeOK ==
    /\ lock \in BOOLEAN
    /\ pending \in Releases \cup {None, Torn}
    /\ disk \subseteq Releases /\ uploaded \subseteq Releases
    /\ pc \in [Procs -> Steps]
    /\ rel \in [Procs -> Releases \cup {None}]
    /\ retrying \in [Procs -> BOOLEAN]
    /\ built \in 0 .. MaxReleases
    /\ {live, previous, unsynced} \subseteq Releases \cup {None}
    /\ late \subseteq Request
    /\ faults \in 0 .. MaxFaults /\ crashes \in 0 .. MaxCrashes
    /\ skipped \in BOOLEAN

Running == {p \in Procs : pc[p] # "idle"}

\* Two processes never work on the releases, the pending file and the cloud at
\* the same time, whoever started them; and the lock is not lost while one runs.
OneRunAtATime ==
    /\ \A p, q \in Running : p = q
    /\ Running # {} => lock

\* The cloud never goes back to an older release by itself: a release that is
\* retried days later is newer than the live one or is no longer on the disk,
\* and a request that takes effect late does not undo a newer one.
LiveNeverGoesBack == [][live' >= live]_live

\* The release that pending_sync.json names stays on the disk until it is
\* synced, although every pipeline run prunes all releases but one: the retry
\* comes first, and its failure ends the run.
PendingIsOnDisk == skipped \/ pending \in disk \cup {None, Torn}

\* A release whose sync raised is not forgotten: between runs it, or a newer
\* one, is live or named by pending_sync.json, unless a process died.
FailedSyncIsRemembered ==
    Running = {} /\ crashes = 0 =>
        unsynced <= live \/ unsynced <= pending

\* A pending release reaches the cloud sooner or later, through lost, failed
\* and late requests, unless a process died or the operator skipped the retry.
PendingIsSynced ==
    \A r \in Releases :
        pending = r ~> live >= r \/ crashes > 0 \/ skipped
=============================================================================
