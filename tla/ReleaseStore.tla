----------------------------- MODULE ReleaseStore -----------------------------
(***************************************************************************)
(* The cloud release store: publish_api/release_store.py behind the        *)
(* threaded HTTP server of publish_api/app.py, with the retention pass of  *)
(* release/retention.py that follows every activation.                     *)
(*                                                                         *)
(* The state is the directories of the store.  A directory is abstracted   *)
(* to what validate_release_dir can tell apart: it is missing, it is       *)
(* empty, it holds every file of one release, or it is torn (some files    *)
(* of a release, which fails validation).  One step is one file operation  *)
(* on one shared directory.  A copytree or rmtree is one step when it      *)
(* succeeds; an I/O error (the Fault actions) or the death of the process  *)
(* (Crash) in the middle of it may leave the directory torn.               *)
(*                                                                         *)
(* Each HTTP request is served by a thread of ThreadingHTTPServer, a       *)
(* worker here.  There is no lock: the steps of two workers interleave     *)
(* freely.  One worker models a store whose clients wait for each answer.  *)
(*                                                                         *)
(* Left out: the order of a directory's mtime (opening dgteam.db in it     *)
(* changes it, so retention may keep any of the candidates), the contents  *)
(* of journal events, and the scratch directories under uploads/, which    *)
(* an import empties before it uses them.                                  *)
(***************************************************************************)
EXTENDS Naturals, FiniteSets

CONSTANTS
    Workers,        \* threads of the publish API that can serve a request
    Releases,       \* release ids; also the complete content of that release
    Absent,         \* content: the directory does not exist
    Empty,          \* content: it exists and holds nothing
    Torn,           \* content: it holds part of a release, or a mixture
    FaultPoints,    \* the steps at which the file system may report an error
    MaxFaults,      \* bound: file system errors in a behaviour
    MaxCrashes,     \* bound: process deaths in a behaviour
    MaxTrouble,     \* bound: both together
    KeepReleases,   \* the values settings.retention.keep_cloud_releases may have
    KeepRollbacks   \* settings.retention.keep_cloud_rollbacks

Content == Releases \cup {Absent, Empty, Torn}

(* The endpoints: upload, deploy (or upload with X-Activate), import-local *)
(* without and with activate, activate, rollback.                          *)
Imports == {"upload", "deploy", "import", "import_deploy"}
Archives == {"upload", "deploy"}
Deploys == {"deploy", "import_deploy", "activate"}
Ops == Imports \cup Deploys \cup {"rollback"}

Steps == {"idle", "unpack", "check_source", "drop_history", "fill_history",
          "drop_unpacked", "preflight", "stage", "backup", "incoming",
          "retire", "publish", "drop_retired", "undo_drop", "undo_restore",
          "check_live", "restore", "rb_check", "rb_archive", "rb_done",
          "fail", "drop_stage", "prune", "answer"}

ASSUME ContentAssumption ==
    /\ Absent # Empty /\ Absent # Torn /\ Empty # Torn
    /\ Releases \cap {Absent, Empty, Torn} = {}
    /\ IsFiniteSet(Releases)

ASSUME WorkerAssumption == Workers # {}

ASSUME BoundAssumption ==
    /\ FaultPoints \subseteq Steps
    /\ KeepReleases \union {MaxFaults, MaxCrashes, MaxTrouble, KeepRollbacks} \subseteq Nat

VARIABLES
    current,        \* current_dir, what the query API serves
    previous,       \* previous_dir, the rollback target
    incoming,       \* current.staging, _replace_directory's copy of the source
    retired,        \* current.previous_staging, the live directory moved aside
    history,        \* history_dir/<release id>
    evidence,       \* the contents of the history_dir/rolled_back_* archives
    work,           \* staging_dir/<deployment id> of each worker's deployment
    pc,             \* the next file operation of each worker
    job,            \* the request each worker serves
    faults, crashes,
    established,    \* observer: some deployment's journal says completed
    prior           \* observer: the release the live one replaced

dirs == <<current, previous, incoming, retired, history, evidence, work>>
observers == <<established, prior>>
budget == <<faults, crashes>>
vars == <<dirs, pc, job, budget, observers>>

-----------------------------------------------------------------------------
(* What the code asks of a directory. *)
HasFiles(c) == c \notin {Absent, Empty}      \* exists() and any(iterdir())
Complete(c) == c \in Releases                \* validate_release_dir(...)["ok"]

\* What an interrupted rmtree can leave of a directory holding c, and what an
\* interrupted copytree after it can.
PartlyRemoved(c) == IF HasFiles(c) THEN {c, Torn, Absent} ELSE {c, Absent}
PartlyCopied(c) == {c, Absent, Empty, Torn}

\* ensure_dirs when the service starts.
Restarted(c) == IF c = Absent THEN Empty ELSE c

\* The request a worker serves: had is had_live_before, moved is
\* moved_existing, nested tells the rollback inside a failed deployment from
\* the endpoint's, from names the source of _replace_directory, ok is the
\* answer.  before and hits are observers: what was live when the request
\* arrived, and how many errors it met.
Job == [op : Ops, rel : Releases \cup {Absent}, had : BOOLEAN, moved : BOOLEAN,
        nested : BOOLEAN, from : {"stage", "previous"}, ok : BOOLEAN,
        journal : {"none", "running", "completed", "failed"},
        before : Content, hits : Nat]

NewJob(op, r, live) ==
    [op |-> op, rel |-> r, had |-> FALSE, moved |-> FALSE, nested |-> FALSE,
     from |-> "stage", ok |-> TRUE, journal |-> "none", before |-> live,
     hits |-> 0]

NoJob == NewJob("rollback", Absent, Absent)

Source(w) == IF job[w].from = "stage" THEN work[w] ELSE previous

-----------------------------------------------------------------------------
(* Where control goes. *)
Goto(w, step) == pc' = [pc EXCEPT ![w] = step]

FirstStep(op) ==
    CASE op \in Archives -> "unpack"
      [] op \in Imports \ Archives -> "check_source"
      [] op = "activate" -> "preflight"
      [] op = "rollback" -> "rb_check"

AfterImport(w) == IF job[w].op \in Deploys THEN "preflight" ELSE "answer"

\* The finally of import_release_archive runs on both paths.
AfterImportError(w) == IF job[w].op \in Archives THEN "drop_unpacked" ELSE "answer"

\* An exception inside _replace_directory or rollback reaches deploy_release's
\* handler, or the HTTP handler when the request is itself a rollback.
AfterRaise(w) ==
    IF job[w].from = "stage" \/ job[w].nested THEN "fail" ELSE "answer"

Errs(w) == job' = [job EXCEPT ![w].ok = FALSE]

Init ==
    /\ current = Empty /\ previous = Empty
    /\ incoming = Absent /\ retired = Absent
    /\ history = [r \in Releases |-> Absent]
    /\ evidence = {}
    /\ work = [w \in Workers |-> Absent]
    /\ pc = [w \in Workers |-> "idle"]
    /\ job = [w \in Workers |-> NoJob]
    /\ faults = 0 /\ crashes = 0
    /\ established = FALSE /\ prior = Absent

-----------------------------------------------------------------------------
(* A request arrives and is answered. *)
Accept(w) ==
    /\ pc[w] = "idle"
    /\ \E op \in Ops :
        /\ \E r \in IF op = "rollback" THEN {Absent} ELSE Releases :
              job' = [job EXCEPT ![w] = NewJob(op, r, current)]
        /\ Goto(w, FirstStep(op))
    /\ UNCHANGED <<dirs, budget, observers>>

Reply(w) ==
    /\ pc[w] = "answer"
    /\ Goto(w, "idle")
    /\ job' = [job EXCEPT ![w] = NoJob]
    /\ UNCHANGED <<dirs, budget, observers>>

-----------------------------------------------------------------------------
(* import_release_archive and import_local_release. *)
Unpack(w) ==
    /\ pc[w] = "unpack"
    /\ Goto(w, "check_source")
    /\ UNCHANGED <<dirs, job, budget, observers>>

\* The uploaded or local directory is a valid release, or the import is
\* refused before the history is touched.
CheckSource(w) ==
    /\ pc[w] = "check_source"
    /\ \/ Goto(w, "drop_history") /\ UNCHANGED job
       \/ /\ Goto(w, AfterImportError(w))
          /\ job' = [job EXCEPT ![w].ok = FALSE, ![w].hits = @ + 1]
    /\ UNCHANGED <<dirs, budget, observers>>

DropHistory(w) ==
    /\ pc[w] = "drop_history"
    /\ history' = [history EXCEPT ![job[w].rel] = Absent]
    /\ Goto(w, "fill_history")
    /\ UNCHANGED <<current, previous, incoming, retired, evidence, work>>
    /\ UNCHANGED <<job, budget, observers>>

FillHistory(w) ==
    /\ pc[w] = "fill_history"
    /\ history' = [history EXCEPT ![job[w].rel] = job[w].rel]
    /\ Goto(w, IF job[w].op \in Archives THEN "drop_unpacked" ELSE AfterImport(w))
    /\ UNCHANGED <<current, previous, incoming, retired, evidence, work>>
    /\ UNCHANGED <<job, budget, observers>>

DropUnpacked(w) ==
    /\ pc[w] = "drop_unpacked"
    /\ Goto(w, IF job[w].ok THEN AfterImport(w) ELSE "answer")
    /\ UNCHANGED <<dirs, job, budget, observers>>

-----------------------------------------------------------------------------
(* deploy_release up to the switch. *)
Preflight(w) ==
    /\ pc[w] = "preflight"
    /\ LET stored == history[job[w].rel] IN
       IF stored = Absent
       THEN Goto(w, "answer") /\ Errs(w)
       ELSE /\ Goto(w, IF Complete(stored) THEN "stage" ELSE "fail")
            /\ job' = [job EXCEPT ![w].had = HasFiles(current),
                                  ![w].journal = "running",
                                  ![w].ok = Complete(stored)]
    /\ UNCHANGED <<dirs, budget, observers>>

\* Clears the workspace, copies the release into it and validates the copy.
Stage(w) ==
    /\ pc[w] = "stage"
    /\ work' = [work EXCEPT ![w] = history[job[w].rel]]
    /\ IF Complete(work'[w])
       THEN Goto(w, "backup") /\ UNCHANGED job
       ELSE Goto(w, "fail") /\ Errs(w)
    /\ UNCHANGED <<current, previous, incoming, retired, history, evidence>>
    /\ UNCHANGED <<budget, observers>>

\* Variant: the backup ignores had_live_before.
BackupAlways(w) ==
    /\ pc[w] = "backup"
    /\ previous' = current
    /\ Goto(w, "incoming")
    /\ UNCHANGED <<current, incoming, retired, history, evidence, work>>
    /\ UNCHANGED <<job, budget, observers>>

\* Variant: an existing rollback target is kept.
BackupOnce(w) ==
    /\ pc[w] = "backup"
    /\ previous' = IF job[w].had /\ ~HasFiles(previous) THEN current ELSE previous
    /\ Goto(w, "incoming")
    /\ UNCHANGED <<current, incoming, retired, history, evidence, work>>
    /\ UNCHANGED <<job, budget, observers>>

\* The live release is copied over the rollback target, without validation.
Backup(w) ==
    /\ pc[w] = "backup"
    /\ IF job[w].had /\ current = Absent
       THEN /\ previous' = Empty
            /\ Goto(w, "fail")
            /\ Errs(w)
       ELSE /\ previous' = IF job[w].had THEN current ELSE previous
            /\ Goto(w, "incoming")
            /\ UNCHANGED job
    /\ UNCHANGED <<current, incoming, retired, history, evidence, work>>
    /\ UNCHANGED <<budget, observers>>

-----------------------------------------------------------------------------
(* _replace_directory(source, current_dir). *)
\* Variant: the leftover of an interrupted switch is not removed first.
IncomingOverLeftover(w) ==
    /\ pc[w] = "incoming"
    /\ incoming' = Source(w)
    /\ Goto(w, "retire")
    /\ job' = [job EXCEPT ![w].moved = FALSE]
    /\ UNCHANGED <<current, previous, retired, history, evidence, work>>
    /\ UNCHANGED <<budget, observers>>

\* Variant: the source is moved, not copied.
IncomingByMove(w) ==
    /\ pc[w] = "incoming"
    /\ retired' = Absent
    /\ incoming' = Source(w)
    /\ previous' = IF job[w].from = "previous" THEN Absent ELSE previous
    /\ Goto(w, "retire")
    /\ job' = [job EXCEPT ![w].moved = FALSE]
    /\ UNCHANGED <<current, history, evidence, work>>
    /\ UNCHANGED <<budget, observers>>

Incoming(w) ==
    /\ pc[w] = "incoming"
    /\ retired' = Absent
    /\ incoming' = Source(w)
    /\ IF Source(w) = Absent
       THEN Goto(w, AfterRaise(w)) /\ Errs(w)
       ELSE Goto(w, "retire") /\ job' = [job EXCEPT ![w].moved = FALSE]
    /\ UNCHANGED <<current, previous, history, evidence, work>>
    /\ UNCHANGED <<budget, observers>>

\* os.rename replaces an empty directory and refuses one that has files.
Retire(w) ==
    /\ pc[w] = "retire"
    /\ IF current = Absent
       THEN Goto(w, "publish") /\ UNCHANGED <<current, retired, job>>
       ELSE IF HasFiles(retired)
            THEN Goto(w, "undo_drop") /\ UNCHANGED <<current, retired, job>>
            ELSE /\ retired' = current
                 /\ current' = Absent
                 /\ job' = [job EXCEPT ![w].moved = TRUE]
                 /\ Goto(w, "publish")
    /\ UNCHANGED <<previous, incoming, history, evidence, work>>
    /\ UNCHANGED <<budget, observers>>

Publish(w) ==
    /\ pc[w] = "publish"
    /\ IF incoming = Absent \/ HasFiles(current)
       THEN Goto(w, "undo_drop") /\ UNCHANGED <<current, incoming>>
       ELSE /\ current' = incoming
            /\ incoming' = Absent
            /\ Goto(w, "drop_retired")
    /\ UNCHANGED <<previous, retired, history, evidence, work>>
    /\ UNCHANGED <<job, budget, observers>>

DropRetired(w) ==
    /\ pc[w] = "drop_retired"
    /\ retired' = Absent
    /\ incoming' = Absent
    /\ Goto(w, IF job[w].from = "stage" THEN "check_live" ELSE "rb_done")
    /\ UNCHANGED <<current, previous, history, evidence, work>>
    /\ UNCHANGED <<job, budget, observers>>

\* The except clause: whatever stands at the destination is removed, and the
\* old directory comes back only if it had been moved aside.
UndoDrop(w) ==
    /\ pc[w] = "undo_drop"
    /\ current' = Absent
    /\ Goto(w, "undo_restore")
    /\ UNCHANGED <<previous, incoming, retired, history, evidence, work>>
    /\ UNCHANGED <<job, budget, observers>>

\* Variant: the directory moved aside is never brought back.
UndoForgets(w) ==
    /\ pc[w] = "undo_restore"
    /\ incoming' = Absent
    /\ Goto(w, AfterRaise(w))
    /\ Errs(w)
    /\ UNCHANGED <<current, previous, retired, history, evidence, work>>
    /\ UNCHANGED <<budget, observers>>

UndoRestore(w) ==
    /\ pc[w] = "undo_restore"
    /\ IF job[w].moved /\ retired # Absent
       THEN current' = retired /\ retired' = Absent
       ELSE UNCHANGED <<current, retired>>
    /\ incoming' = Absent
    /\ Goto(w, AfterRaise(w))
    /\ Errs(w)
    /\ UNCHANGED <<previous, history, evidence, work>>
    /\ UNCHANGED <<budget, observers>>

-----------------------------------------------------------------------------
(* deploy_release after the switch. *)
CheckLive(w) ==
    /\ pc[w] = "check_live"
    /\ IF Complete(current)
       THEN /\ Goto(w, "drop_stage")
            /\ job' = [job EXCEPT ![w].journal = "completed"]
            /\ established' = TRUE
            /\ prior' = IF Complete(job[w].before) /\ job[w].before # current
                        THEN job[w].before ELSE prior
       ELSE /\ Goto(w, "restore")
            /\ Errs(w)
            /\ UNCHANGED observers
    /\ UNCHANGED <<dirs, budget>>

\* _restore_live_after_failure.
CanRollBack(w) == job[w].had /\ HasFiles(previous)

RestoreByRollback(w) ==
    /\ pc[w] = "restore"
    /\ CanRollBack(w)
    /\ Goto(w, "rb_check")
    /\ job' = [job EXCEPT ![w].nested = TRUE]
    /\ UNCHANGED <<dirs, budget, observers>>

ClearLive(w) ==
    /\ pc[w] = "restore"
    /\ ~CanRollBack(w)
    /\ current' = IF HasFiles(current) THEN Empty ELSE current
    /\ Goto(w, "fail")
    /\ UNCHANGED <<previous, incoming, retired, history, evidence, work>>
    /\ UNCHANGED <<job, budget, observers>>

Fail(w) ==
    /\ pc[w] = "fail"
    /\ job' = [job EXCEPT ![w].journal = "failed"]
    /\ Goto(w, "drop_stage")
    /\ UNCHANGED <<dirs, budget, observers>>

DropStage(w) ==
    /\ pc[w] = "drop_stage"
    /\ work' = [work EXCEPT ![w] = Absent]
    /\ Goto(w, IF job[w].ok THEN "prune" ELSE "answer")
    /\ UNCHANGED <<current, previous, incoming, retired, history, evidence>>
    /\ UNCHANGED <<job, budget, observers>>

-----------------------------------------------------------------------------
(* rollback, called by its endpoint and by a failed deployment. *)
RbCheck(w) ==
    /\ pc[w] = "rb_check"
    /\ IF Complete(previous)
       THEN /\ Goto(w, "rb_archive")
            /\ job' = [job EXCEPT ![w].from = "previous"]
       ELSE /\ Goto(w, IF job[w].nested THEN "fail" ELSE "answer")
            /\ Errs(w)
    /\ UNCHANGED <<dirs, budget, observers>>

\* Variant: an empty live directory is archived too.
RbArchiveAnything(w) ==
    /\ pc[w] = "rb_archive"
    /\ evidence' = evidence \cup {current}
    /\ Goto(w, "incoming")
    /\ UNCHANGED <<current, previous, incoming, retired, history, work>>
    /\ UNCHANGED <<job, budget, observers>>

RbArchive(w) ==
    /\ pc[w] = "rb_archive"
    /\ evidence' = IF HasFiles(current) THEN evidence \cup {current} ELSE evidence
    /\ Goto(w, "incoming")
    /\ UNCHANGED <<current, previous, incoming, retired, history, work>>
    /\ UNCHANGED <<job, budget, observers>>

\* The restored release is validated, but the verdict is only reported.
RbDone(w) ==
    /\ pc[w] = "rb_done"
    /\ IF job[w].nested
       THEN Goto(w, "fail") /\ UNCHANGED <<job, prior>>
       ELSE /\ Goto(w, "prune")
            /\ job' = [job EXCEPT ![w].journal = "completed"]
            /\ prior' = Absent
    /\ UNCHANGED <<dirs, budget, established>>

-----------------------------------------------------------------------------
(* prune_cloud_runtime: at most so many of each kind stay. *)
Prune(w) ==
    /\ pc[w] = "prune"
    /\ \E kept \in SUBSET {r \in Releases : history[r] # Absent}, keep \in KeepReleases :
          /\ Cardinality(kept) <= keep
          /\ Cardinality(kept) = keep
                \/ kept = {r \in Releases : history[r] # Absent}
          /\ history' = [r \in Releases |-> IF r \in kept THEN history[r] ELSE Absent]
    /\ \E kept \in SUBSET evidence :
          /\ Cardinality(kept) <= KeepRollbacks
          /\ Cardinality(kept) = KeepRollbacks \/ kept = evidence
          /\ evidence' = kept
    /\ Goto(w, "answer")
    /\ UNCHANGED <<current, previous, incoming, retired, work>>
    /\ UNCHANGED <<job, budget, observers>>

-----------------------------------------------------------------------------
(* The file system reports an error: the operation at pc raises, and its   *)
(* target is left as the error found it.                                   *)
Hit(w, step) ==
    /\ pc[w] \in FaultPoints
    /\ faults < MaxFaults /\ faults + crashes < MaxTrouble
    /\ faults' = faults + 1
    /\ Goto(w, step)
    /\ job' = [job EXCEPT ![w].ok = FALSE, ![w].hits = @ + 1]
    /\ UNCHANGED <<crashes, observers>>

FaultImport(w) ==
    /\ pc[w] \in {"unpack", "check_source", "drop_history", "fill_history", "drop_unpacked"}
    /\ Hit(w, IF pc[w] = "drop_unpacked" THEN "answer" ELSE AfterImportError(w))
    /\ IF pc[w] \in {"drop_history", "fill_history"}
       THEN \E c \in PartlyCopied(history[job[w].rel]) :
               history' = [history EXCEPT ![job[w].rel] = c]
       ELSE UNCHANGED history
    /\ UNCHANGED <<current, previous, incoming, retired, evidence, work>>

FaultStage(w) ==
    /\ pc[w] = "stage"
    /\ Hit(w, "fail")
    /\ \E c \in PartlyCopied(work[w]) : work' = [work EXCEPT ![w] = c]
    /\ UNCHANGED <<current, previous, incoming, retired, history, evidence>>

FaultBackup(w) ==
    /\ pc[w] = "backup"
    /\ job[w].had
    /\ Hit(w, "fail")
    /\ previous' \in PartlyCopied(previous)
    /\ UNCHANGED <<current, incoming, retired, history, evidence, work>>

FaultIncoming(w) ==
    /\ pc[w] = "incoming"
    /\ Hit(w, AfterRaise(w))
    /\ incoming' \in PartlyCopied(incoming)
    /\ retired' \in PartlyRemoved(retired)
    /\ UNCHANGED <<current, previous, history, evidence, work>>

FaultSwitch(w) ==
    /\ pc[w] \in {"retire", "publish", "drop_retired"}
    /\ pc[w] = "retire" => current # Absent
    /\ Hit(w, "undo_drop")
    /\ IF pc[w] = "drop_retired" THEN retired' \in PartlyRemoved(retired) ELSE UNCHANGED retired
    /\ UNCHANGED <<current, previous, incoming, history, evidence, work>>

FaultUndo(w) ==
    /\ pc[w] \in {"undo_drop", "undo_restore"}
    /\ Hit(w, AfterRaise(w))
    /\ IF pc[w] = "undo_drop" THEN current' \in PartlyRemoved(current) ELSE UNCHANGED current
    /\ incoming' = Absent
    /\ UNCHANGED <<previous, retired, history, evidence, work>>

FaultCheckLive(w) ==
    /\ pc[w] = "check_live"
    /\ Hit(w, "restore")
    /\ UNCHANGED dirs

FaultClearLive(w) ==
    /\ pc[w] = "restore"
    /\ ~CanRollBack(w)
    /\ Hit(w, "fail")
    /\ current' \in PartlyRemoved(current)
    /\ UNCHANGED <<previous, incoming, retired, history, evidence, work>>

FaultRollback(w) ==
    /\ pc[w] \in {"rb_check", "rb_archive", "rb_done"}
    /\ Hit(w, IF job[w].nested THEN "fail" ELSE "answer")
    /\ evidence' = IF pc[w] = "rb_archive" THEN evidence \cup {Torn} ELSE evidence
    /\ UNCHANGED <<current, previous, incoming, retired, history, work>>

FaultDropStage(w) ==
    /\ pc[w] = "drop_stage"
    /\ Hit(w, "answer")
    /\ \E c \in PartlyCopied(work[w]) : work' = [work EXCEPT ![w] = c]
    /\ UNCHANGED <<current, previous, incoming, retired, history, evidence>>

FaultPrune(w) ==
    /\ pc[w] = "prune"
    /\ Hit(w, "answer")
    /\ \E r \in Releases : \E c \in PartlyRemoved(history[r]) :
          history' = [history EXCEPT ![r] = c]
    /\ UNCHANGED <<current, previous, incoming, retired, evidence, work>>

-----------------------------------------------------------------------------
(* The process dies and the service manager starts it again.  Directories  *)
(* some worker was writing are left as they were at that moment.           *)
At(steps) == \E w \in Workers : pc[w] \in steps

Writing(r) ==
    \E w \in Workers : \/ pc[w] \in {"drop_history", "fill_history"} /\ job[w].rel = r
                       \/ pc[w] = "prune"

BackingUp == \E w \in Workers : pc[w] = "backup" /\ job[w].had

Left(c, steps, part(_)) == IF At(steps) THEN part(c) ELSE {c}

\* The directories the live path can be caught as: whole, unless it was being
\* removed.
LiveLeft ==
    IF \E w \in Workers : pc[w] = "undo_drop" \/ (pc[w] = "restore" /\ ~CanRollBack(w))
    THEN PartlyRemoved(current) ELSE {current}

Crash ==
    /\ crashes < MaxCrashes /\ faults + crashes < MaxTrouble
    /\ At(Steps \ {"idle"})
    /\ crashes' = crashes + 1
    /\ \E c \in LiveLeft : current' = Restarted(c)
    /\ \E c \in IF BackingUp THEN PartlyCopied(previous) ELSE {previous} : previous' = Restarted(c)
    /\ incoming' \in Left(incoming, {"incoming", "undo_restore"}, PartlyCopied)
    /\ retired' \in Left(retired, {"incoming", "drop_retired"}, PartlyRemoved)
    /\ history' \in [Releases -> Content]
    /\ \A r \in Releases :
          history'[r] \in IF Writing(r) THEN PartlyCopied(history[r]) ELSE {history[r]}
    /\ evidence' \in {evidence, IF At({"rb_archive", "prune"})
                                THEN evidence \cup {Torn} ELSE evidence}
    /\ work' \in [Workers -> Content]
    /\ \A w \in Workers :
          work'[w] \in IF pc[w] \in {"stage", "drop_stage"} THEN PartlyCopied(work[w]) ELSE {work[w]}
    /\ pc' = [w \in Workers |-> "idle"]
    /\ job' = [w \in Workers |-> NoJob]
    /\ UNCHANGED <<faults, observers>>

-----------------------------------------------------------------------------
Import(w) == Unpack(w) \/ CheckSource(w) \/ DropHistory(w) \/ FillHistory(w)
                \/ DropUnpacked(w)
Deploy(w) == Preflight(w) \/ Stage(w) \/ Backup(w) \/ CheckLive(w)
                \/ RestoreByRollback(w) \/ ClearLive(w) \/ Fail(w) \/ DropStage(w)
Replace(w) == Incoming(w) \/ Retire(w) \/ Publish(w) \/ DropRetired(w)
                \/ UndoDrop(w) \/ UndoRestore(w)
Rollback(w) == RbCheck(w) \/ RbArchive(w) \/ RbDone(w)
Fault(w) == FaultImport(w) \/ FaultStage(w) \/ FaultBackup(w) \/ FaultIncoming(w)
                \/ FaultSwitch(w) \/ FaultUndo(w) \/ FaultCheckLive(w)
                \/ FaultClearLive(w) \/ FaultRollback(w) \/ FaultDropStage(w)
                \/ FaultPrune(w)

Next ==
    \/ \E w \in Workers : Accept(w) \/ Import(w) \/ Deploy(w) \/ Replace(w)
                            \/ Rollback(w) \/ Prune(w) \/ Reply(w) \/ Fault(w)
    \/ Crash

Spec == Init /\ [][Next]_vars

-----------------------------------------------------------------------------
TypeOK ==
    /\ {current, previous, incoming, retired, prior} \subseteq Content
    /\ history \in [Releases -> Content]
    /\ evidence \subseteq Releases \cup {Torn}
    /\ work \in [Workers -> Content]
    /\ pc \in [Workers -> Steps]
    /\ job \in [Workers -> Job]
    /\ faults \in Nat /\ crashes \in Nat
    /\ established \in BOOLEAN

Answered(w, ops) == pc[w] = "answer" /\ job[w].op \in ops

\* A missing live directory and an empty one serve nothing alike.
Same(c, d) == c = d \/ {c, d} \subseteq {Absent, Empty}

\* Once a deployment has completed, a complete release is always either live
\* or in the rollback target, at every instant of every later deployment and
\* rollback and whatever a crash interrupts: deploy_release overwrites
\* previous only while current is whole, and only if something was live.
LiveOrPreviousIntact == established => Complete(current) \/ Complete(previous)

\* When a deployment's journal says completed, the release it was asked for is
\* live and the release it replaced is the rollback target, untouched by the
\* validation, the cleaning and the retention that follow.
CompletedDeployKeepsBoth ==
    \A w \in Workers :
        Answered(w, Deploys) /\ job[w].journal = "completed" =>
            /\ current = job[w].rel
            /\ HasFiles(job[w].before) => previous = job[w].before

\* A deployment that failed on one file system error or on a bad release left
\* live exactly what was live before, also when the error came after the
\* switch and _restore_live_after_failure had to roll back.
FailedDeployKeepsLive ==
    \A w \in Workers :
        Answered(w, Deploys) /\ job[w].journal = "failed" /\ job[w].hits <= 1
            /\ job[w].before # Torn
        => Same(current, job[w].before)

\* Whatever earlier crashes and errors left behind in the staging, history and
\* backup directories, a request that meets no error of its own succeeds: only
\* activating a release the history lacks (or holds in part) and rolling back
\* without a whole rollback target are refused.
NoResidueWedgesTheStore ==
    \A w \in Workers :
        pc[w] = "answer" /\ ~job[w].ok /\ job[w].hits = 0 =>
            \/ job[w].op = "activate" /\ ~Complete(history[job[w].rel])
            \/ job[w].op = "rollback" /\ ~Complete(previous)

\* A rollback that answers leaves the live directory either as it found it or
\* equal to the rollback target, and the target itself survives to be restored
\* again.
RollbackIsAllOrNothing ==
    \A w \in Workers :
        Answered(w, {"rollback"}) /\ job[w].hits <= 1 =>
            /\ Same(current, job[w].before) \/ current = previous
            /\ job[w].journal = "completed" => Complete(current) /\ current = previous

\* What the documents promise and the code does not keep.

\* DEPLOYMENT_BLUEPRINT.md: "rollback always falls back to the previous live
\* release".  A rollback that completes after deployments that replaced one
\* release by another does not leave the same release live.
RollbackFallsBack ==
    \A w \in Workers :
        pc[w] = "rb_done" /\ ~job[w].nested /\ Complete(prior) =>
            current # job[w].before
=============================================================================
