------------------------------ MODULE CrawlRun ------------------------------
(***************************************************************************)
(* One run (run key) of the quote crawler, agent/crawler.py: main() over   *)
(* the task table of core/storage.py and the output files of the run, with *)
(* the request pool, the pool that parses answers, the relogin, the replay *)
(* of gaps, and attempts which die and are resumed.                        *)
(*                                                                         *)
(* The main thread owns all state but the two pools; a pool thread only    *)
(* computes a result, so a future is done at any time with any result.     *)
(* An answer is one of: rows, no rows, a parse error, a transport error,   *)
(* "session expired", "membership expired", another API code.              *)
(***************************************************************************)
EXTENDS Naturals, FiniteSets

CONSTANTS
    Tasks,           \* model x city
    Options,         \* what an attempt may start with: the tasks which catalog, filters
                     \* and blacklist leave, --request-workers, --max-tasks, and FALSE
                     \* for --disable-sqlite
    Absent,          \* no row in the task table
    None,
    ProcessWorkers, PendingArg,     \* command line
    RequestRetries, LoginRetries, GapPasses,
    MaxAttempts,     \* bound: starts of the crawler for this run
    MaxFaults,       \* bound: database and file errors
    FaultPoints      \* the operations which may fail

ASSUME CrawlAssumption ==
    /\ IsFiniteSet(Tasks)
    /\ Options \subseteq [plan : SUBSET Tasks, workers : Nat \ {0}, limit : Nat, sqlite : BOOLEAN]
    /\ {ProcessWorkers, MaxAttempts} \subseteq Nat \ {0}
    /\ {PendingArg, RequestRetries, LoginRetries, GapPasses, MaxFaults} \subseteq Nat

Status == {"pending", "running", "ok", "zero_row", "error", "exception", "persistence_error"}
Recorded == Status \ {"pending", "running"}

\* A request of the pool, by its task, its retries and the session it was sent
\* with; and a result that is being made durable (see "Making a result durable").
Requests == [key : Tasks, login : Nat, retry : Nat, gen : Nat]

Results == [key : Tasks, status : Recorded, stage : {"rows", "progress", "task"},
            from : {"request", "process", "replay"}, gap : BOOLEAN,
            back : {"more_requests", "top", "drain_requests", "drain_processing", "replaying"}]

ASSUME NoneAssumption == Absent \notin Status /\ None \notin Results

\* resolve_max_pending_process
MaxPending ==
    LET pending == IF PendingArg = 0 THEN 2 * ProcessWorkers ELSE PendingArg
    IN  IF pending > ProcessWorkers THEN pending ELSE ProcessWorkers

VARIABLES
    \* on the disk
    task,        \* the task table
    stored,      \* how often the rows of a task are in the table quote_rows
    csv,         \* how often they are in all_rows.csv (2: more than once)
    progress,    \* progress.jsonl: the last status of a task, and whether it ever was ok
    live,        \* the tasks the published live market shows
    \* the main thread
    pc, sqlite, workers, limit, plan, todo, started,
    reqs,        \* pending_requests
    procs,       \* pending_process
    gen,         \* auth_generation
    stop, fatal, status,
    gaps,        \* gap_state_by_key
    pass, queue, \* the replay pass and what is left of it
    save,        \* the result being made durable
    \* observers, read by no action of the code
    attempts, faults,
    dbFault,     \* the database failed this attempt
    torn,        \* tasks an interrupted import left without their rows
    expired,     \* session generations some answer called expired
    replayed     \* gaps that were replayed

disk == <<task, stored, csv, progress, live>>
options == <<sqlite, workers, limit, plan>>
pools == <<reqs, procs>>
session == <<gen, expired>>
ending == <<stop, fatal, status>>
replay == <<gaps, pass, queue, replayed>>
observers == <<attempts, torn>>
trouble == <<faults, dbFault>>
vars == <<disk, pc, options, todo, started, pools, session, ending, replay, save,
          observers, trouble>>

Init ==
    /\ task = [k \in Tasks |-> Absent]
    /\ stored = [k \in Tasks |-> 0]
    /\ csv = [k \in Tasks |-> 0]
    /\ progress = [k \in Tasks |-> [last |-> Absent, ok |-> FALSE]]
    /\ live = {}
    /\ pc = "down" /\ sqlite = FALSE /\ workers = 1 /\ limit = 0 /\ plan = {} /\ todo = {} /\ started = 0
    /\ reqs = {} /\ procs = {} /\ gen = 0 /\ expired = {}
    /\ stop = FALSE /\ fatal = FALSE /\ status = "none"
    /\ gaps = [k \in Tasks |-> "none"] /\ pass = 0 /\ queue = {} /\ replayed = {}
    /\ save = None
    /\ attempts = 0 /\ faults = 0 /\ dbFault = FALSE /\ torn = {}

-----------------------------------------------------------------------------
(* Starting: main() up to the executors *)

Fault(point) == point \in FaultPoints /\ faults < MaxFaults /\ faults' = faults + 1

\* The process is gone, and with it all that is not on the disk.
Gone ==
    /\ pc' = "down" /\ todo' = {} /\ started' = 0 /\ reqs' = {} /\ procs' = {}
    /\ gen' = 0 /\ expired' = {} /\ stop' = FALSE /\ fatal' = FALSE
    /\ gaps' = [k \in Tasks |-> "none"] /\ pass' = 0 /\ queue' = {} /\ replayed' = {}
    /\ save' = None
    /\ plan' = {} /\ workers' = 1 /\ limit' = 0 /\ sqlite' = FALSE /\ status' = "none" /\ dbFault' = FALSE

\* Parse the arguments, log in, build the plan.
Start ==
    /\ pc = "down" /\ attempts < MaxAttempts
    /\ attempts' = attempts + 1
    /\ \E o \in Options : plan' = o.plan /\ workers' = o.workers /\ limit' = o.limit /\ sqlite' = o.sqlite
    /\ pc' = IF sqlite' THEN "bootstrap" ELSE "load"
    /\ status' = "running"
    /\ UNCHANGED <<disk, todo, started, pools, session, stop, fatal, replay, save, torn, trouble>>

NeedsImport ==
    /\ \A k \in Tasks : task[k] = Absent
    /\ \E k \in Tasks : progress[k].last # Absent \/ csv[k] > 0

\* bootstrap_sqlite_run_if_needed: nothing to import, or import_run_directory
\* begins by deleting what the database has of the run.
Bootstrap ==
    /\ pc = "bootstrap"
    /\ IF NeedsImport
       THEN stored' = [k \in Tasks |-> 0] /\ pc' = "import"
       ELSE pc' = "requeue" /\ UNCHANGED stored
    /\ UNCHANGED <<task, csv, progress, live, options, todo, started, pools, session, ending,
                   replay, save, observers, trouble>>

\* One line of progress.jsonl after another; the last line of a task stays.
\* (Of its earlier lines only an ok makes a difference.)
ImportTask(k) ==
    /\ pc = "import" /\ task[k] # progress[k].last
    /\ \E s \in {progress[k].last} \union
               (IF task[k] = Absent /\ progress[k].ok THEN {"ok"} ELSE {}) :
            task' = [task EXCEPT ![k] = s]
    /\ UNCHANGED <<stored, csv, progress, live, pc, options, todo, started, pools, session,
                   ending, replay, save, observers, trouble>>

\* Then the rows.  main() reports the import through persist_run_event, which
\* it defines only further down: the attempt ends with an UnboundLocalError.
ImportRows ==
    /\ pc = "import" /\ \A k \in Tasks : task[k] = progress[k].last
    /\ stored' = csv
    /\ Gone
    /\ UNCHANGED <<task, csv, progress, live, observers, faults>>

\* The rows are inserted in batches.
ImportedSoFar ==
    IF \A k \in Tasks : task[k] = progress[k].last
    THEN {[k \in Tasks |-> IF k \in part THEN csv[k] ELSE 0] : part \in SUBSET Tasks}
    ELSE {stored}

\* Any error of the import is swallowed; what it wrote stays.
ImportFails ==
    /\ pc = "import" /\ Fault("import")
    /\ stored' \in ImportedSoFar
    /\ dbFault' = TRUE /\ torn' = {k \in Tasks : task[k] = "ok"}
    /\ pc' = "requeue"
    /\ UNCHANGED <<task, csv, progress, live, options, todo, started, pools, session, ending, replay, save, attempts>>

\* Variant: only tasks of the current plan are put back.
RequeuedPlanned ==
    [k \in Tasks |-> IF task[k] = "running" /\ k \in plan THEN "pending" ELSE task[k]]

\* requeue_running_tasks
Requeued == [k \in Tasks |-> IF task[k] = "running" THEN "pending" ELSE task[k]]

\* An error is logged.
Requeue ==
    /\ pc = "requeue" /\ pc' = "ensure"
    /\ \/ task' = Requeued /\ UNCHANGED trouble
       \/ Fault("requeue") /\ dbFault' = TRUE /\ UNCHANGED task
    /\ UNCHANGED <<stored, csv, progress, live, options, todo, started, pools, session, ending,
                   replay, save, observers>>

\* ensure_run_tasks: one transaction; a task already there keeps its status.
Ensured == [k \in Tasks |-> IF k \in plan /\ task[k] = Absent THEN "pending" ELSE task[k]]

EnsureTasks ==
    /\ pc = "ensure" /\ pc' = "load"
    /\ \/ task' = Ensured /\ UNCHANGED trouble
       \/ Fault("ensure") /\ dbFault' = TRUE /\ UNCHANGED task
    /\ UNCHANGED <<stored, csv, progress, live, options, todo, started, pools, session, ending,
                   replay, save, observers>>

\* load_schedulable_tasks_from_sqlite asks for these.
Schedulable == {"pending", "error", "exception"}

\* load_done_keys
DoneInProgress == {k \in Tasks : progress[k].ok}

\* Variant: without the task table every task is scheduled again.
Forgotten(done) == plan

Unfinished(done) == plan \ done

\* load_done_keys_from_sqlite and load_schedulable_tasks_from_sqlite; an error
\* of either read is an empty answer.  Only an empty schedule falls back to
\* the plan without the tasks that are done.
Load ==
    /\ pc = "load" /\ pc' = "top"
    /\ \E readDone, readTodo \in BOOLEAN :
        LET ok == {k \in Tasks : sqlite /\ readDone /\ task[k] = "ok"}
            open == {k \in Tasks : sqlite /\ readTodo /\ task[k] \in Schedulable}
            done == IF ok = {} /\ open = {}
                    THEN DoneInProgress ELSE ok
        IN  /\ IF sqlite /\ ~(readDone /\ readTodo)
               THEN Fault("load") /\ dbFault' = TRUE
               ELSE UNCHANGED trouble
            /\ todo' = IF open # {} THEN open ELSE Unfinished(done)
    /\ UNCHANGED <<disk, options, started, pools, session, ending, replay, save, observers>>

-----------------------------------------------------------------------------
(* Making a result durable: persist_ok_result, persist_zero_row_result and
   the error records, then the summary checkpoint and the gap candidate.
   save holds what is still to be written.                                *)

\* upsert_task
Upserted(k, s) == IF sqlite THEN [task EXCEPT ![k] = s] ELSE task

\* main() logs its errors.
Upsert(k, s) ==
    \/ task' = Upserted(k, s) /\ UNCHANGED trouble
    \/ sqlite /\ Fault("record") /\ dbFault' = TRUE /\ UNCHANGED task

\* Variant: the task is recorded, and its rows are not written to the database.
ResultWithoutRows(k, s, from, isGap, back) ==
    [key |-> k, status |-> s, stage |-> "task", from |-> from, gap |-> isGap, back |-> back]

Result(k, s, from, isGap, back) ==
    [key |-> k, status |-> s, stage |-> IF s = "ok" THEN "rows" ELSE "task",
     from |-> from, gap |-> isGap, back |-> back]

\* CsvRowsAppender, JsonlAppender
AppendRows(k) == [csv EXCEPT ![k] = IF @ < 2 THEN @ + 1 ELSE @]

LogProgress(k, s) == [progress EXCEPT ![k] = [last |-> s, ok |-> @.ok \/ s = "ok"]]

\* The first write: the rows to all_rows.csv, or the record of a task without
\* rows to progress.jsonl.
BeginSave(result) ==
    /\ pc' = "save" /\ save' = result
    /\ IF result.status = "ok"
       THEN csv' = AppendRows(result.key) /\ UNCHANGED progress
       ELSE progress' = LogProgress(result.key, result.status) /\ UNCHANGED csv
    /\ UNCHANGED <<task, stored, live>>

\* replace_quote_rows_for_task: one transaction.
Replaced(k) == IF sqlite THEN [stored EXCEPT ![k] = 1] ELSE stored

\* Here a database error is raised, and the task is recorded as
\* persistence_error.
SaveRows ==
    /\ pc = "save" /\ save.stage = "rows"
    /\ \/ /\ stored' = Replaced(save.key)
          /\ torn' = IF sqlite THEN torn \ {save.key} ELSE torn
          /\ save' = [save EXCEPT !.stage = "progress"]
          /\ UNCHANGED trouble
       \/ /\ sqlite /\ Fault("rows") /\ dbFault' = TRUE
          /\ save' = [save EXCEPT !.stage = "progress", !.status = "persistence_error", !.gap = TRUE]
          /\ UNCHANGED <<stored, torn>>
    /\ UNCHANGED <<task, csv, progress, live, pc, options, todo, started, pools, session, ending,
                   replay, attempts>>

SaveProgress ==
    /\ pc = "save" /\ save.stage = "progress"
    /\ progress' = LogProgress(save.key, save.status)
    /\ save' = [save EXCEPT !.stage = "task"]
    /\ UNCHANGED <<task, stored, csv, live, pc, options, todo, started, pools, session, ending,
                   replay, observers, trouble>>

\* A gap of the pool is looked up in the current plan, which raises KeyError
\* for a task only an earlier plan had.
GapLookupFails == save.gap /\ save.from = "process" /\ save.key \notin plan

\* register_gap_candidate, or mark_gap_unresolved in the replay
OpenGap(k) == [gaps EXCEPT ![k] = "open"]

\* mark_gap_resolved
ResolveGap(k) == [gaps EXCEPT ![k] = "resolved"]

SaveTask ==
    /\ pc = "save" /\ save.stage = "task" /\ ~GapLookupFails
    /\ Upsert(save.key, save.status)
    /\ gaps' = CASE save.gap -> OpenGap(save.key)
                 [] save.from = "replay" -> ResolveGap(save.key)
                 [] OTHER -> gaps
    /\ pc' = save.back /\ save' = None
    /\ UNCHANGED <<stored, csv, progress, live, options, todo, started, pools, session, ending, pass,
                   queue, replayed, observers>>

\* What follows an exception which leaves the handler: the finally of main(),
\* where each of the two drains swallows it.
AfterRaise ==
    CASE save.back = "drain_requests" -> "drain_processing"
      [] save.back = "drain_processing" -> "exit"
      [] OTHER -> "drain_requests"

\* The record is written, but then the summary cannot be, or the lookup
\* fails.  A result that was saved inside a try is recorded again, as a
\* failure; any other ends the main loop.
SaveRaises ==
    /\ pc = "save" /\ save.stage = "task"
    /\ task' = Upserted(save.key, save.status)
    /\ \/ GapLookupFails /\ UNCHANGED faults
       \/ Fault("checkpoint")
    /\ IF save.from \in {"process", "replay"} /\ save.status \in {"ok", "zero_row"}
       THEN LET s == IF save.from = "process" THEN "exception" ELSE "persistence_error"
            IN  /\ save' = [save EXCEPT !.stage = "progress", !.status = s, !.gap = TRUE]
                /\ UNCHANGED pc
       ELSE pc' = AfterRaise /\ save' = None
    /\ UNCHANGED <<stored, csv, progress, live, options, todo, started, pools, session, ending,
                   replay, observers, dbFault>>

-----------------------------------------------------------------------------
(* The main loop *)

\* Variant: the request carries the generation the next login will have.
RequestAhead(k) == [key |-> k, login |-> 0, retry |-> 0, gen |-> gen + 1]

Request(k) == [key |-> k, login |-> 0, retry |-> 0, gen |-> gen]

\* drain_processing is over; the submit loop begins.  With a full backlog the
\* code first waits for one result; here nothing can be submitted then.
BeginSubmit ==
    /\ pc = "top" /\ pc' = "submit"
    /\ UNCHANGED <<disk, options, todo, started, pools, session, ending, replay, save, observers, trouble>>

\* Variant: the backlog of answers is not looked at.
CanSubmitOnly == ~stop /\ todo # {} /\ Cardinality(reqs) < workers

CanSubmit ==
    /\ ~stop /\ todo # {}
    /\ Cardinality(reqs) < workers
    /\ Cardinality(procs) < MaxPending

LimitReached == limit > 0 /\ started >= limit

\* submit_request_future
Submit(k) ==
    /\ pc = "submit" /\ CanSubmit /\ ~LimitReached /\ k \in todo
    /\ todo' = todo \ {k} /\ started' = started + 1
    /\ Upsert(k, "running")
    /\ reqs' = reqs \union {Request(k)}
    /\ UNCHANGED <<stored, csv, progress, live, pc, options, procs, session, ending, replay, save,
                   observers>>

HitLimit ==
    /\ pc = "submit" /\ CanSubmit /\ LimitReached
    /\ stop' = TRUE /\ status' = "stopped_max_tasks"
    /\ UNCHANGED <<disk, pc, options, todo, started, pools, session, fatal, replay, save, observers,
                   trouble>>

\* drain_requests(wait_for_one), else drain_processing(wait_for_one), else
\* the loop is left.
EndSubmit ==
    /\ pc = "submit" /\ ~CanSubmit
    /\ pc' = CASE reqs # {} -> "wait_request"
               [] reqs = {} /\ procs # {} -> "wait_process"
               [] OTHER -> "replay"
    /\ UNCHANGED <<disk, options, todo, started, pools, session, ending, replay, save, observers, trouble>>

\* After one future the same drain may find more of them done.
AfterRequest == IF pc = "drain_requests" THEN pc ELSE "more_requests"
AfterProcess == IF pc = "drain_processing" THEN pc ELSE "top"

DrainedSome ==
    /\ pc = "more_requests" /\ pc' = "top"
    /\ UNCHANGED <<disk, options, todo, started, pools, session, ending, replay, save, observers, trouble>>

-----------------------------------------------------------------------------
(* finalize_request_future, by the answer *)

Finalizing == pc \in {"wait_request", "more_requests", "drain_requests"}

CanRetry(r) == r.retry < RequestRetries /\ ~stop

\* Submit again, with the session of now (gen').
Resubmit(r, retries, logins) ==
    /\ Upsert(r.key, "running")
    /\ reqs' = (reqs \ {r}) \union
                   {[key |-> r.key, login |-> r.login + logins, retry |-> r.retry + retries, gen |-> gen']}
    /\ pc' = AfterRequest
    /\ UNCHANGED <<stored, csv, progress, live, options, todo, started, procs, ending, replay, save,
                   observers>>

\* status is stopped_relogin_failed, stopped_session_expired or
\* stopped_membership_expired; fatal_stop keeps the first cause.
StopRun == stop' = TRUE /\ fatal' = TRUE /\ status' = "stopped"

\* Record the task as failed.
Refuse(r, s, isGap) ==
    /\ reqs' = reqs \ {r}
    /\ BeginSave(Result(r.key, s, "request", isGap, AfterRequest))
    /\ UNCHANGED <<options, todo, started, procs, replay, observers, trouble>>

RequestRaises(r) ==
    /\ Finalizing /\ UNCHANGED session
    /\ IF CanRetry(r) THEN Resubmit(r, 1, 0) ELSE Refuse(r, "exception", TRUE) /\ UNCHANGED ending

\* An expired answer to a session that has been replaced since is asked again.
StaleExpired(r) ==
    /\ Finalizing /\ r.gen < gen /\ CanRetry(r)
    /\ expired' = expired \union {r.gen} /\ UNCHANGED gen
    /\ Resubmit(r, 1, 0)

\* Variant: every expired answer logs in again.
RefreshAlways(r) == gen + 1

\* refresh_request_auth_state logs in again unless the session was replaced.
Refresh(r) == IF r.gen = gen THEN gen + 1 ELSE gen

ExpiredRelogin(r) ==
    /\ Finalizing /\ ~(r.gen < gen /\ CanRetry(r)) /\ r.login < LoginRetries
    /\ expired' = expired \union {r.gen}
    /\ gen' = Refresh(r)
    /\ Resubmit(r, 0, 1)

\* No credentials, or the login fails.
ExpiredReloginFails(r) ==
    /\ Finalizing /\ ~(r.gen < gen /\ CanRetry(r)) /\ r.login < LoginRetries
    /\ expired' = expired \union {r.gen} /\ UNCHANGED gen
    /\ Refuse(r, "error", TRUE) /\ StopRun

ExpiredForGood(r) ==
    /\ Finalizing /\ ~(r.gen < gen /\ CanRetry(r)) /\ r.login >= LoginRetries
    /\ expired' = expired \union {r.gen} /\ UNCHANGED gen
    /\ Refuse(r, "error", TRUE) /\ StopRun

MembershipExpired(r) ==
    /\ Finalizing /\ UNCHANGED session
    /\ Refuse(r, "error", FALSE) /\ StopRun

ApiCode(r) ==
    /\ Finalizing /\ UNCHANGED session
    /\ Refuse(r, "error", TRUE) /\ UNCHANGED ending

Answered(r) ==
    /\ Finalizing
    /\ reqs' = reqs \ {r} /\ procs' = procs \union {r.key}
    /\ pc' = AfterRequest
    /\ UNCHANGED <<disk, options, todo, started, session, ending, replay, save, observers, trouble>>

FinalizeRequest(r) ==
    \/ RequestRaises(r) \/ StaleExpired(r) \/ ExpiredRelogin(r) \/ ExpiredReloginFails(r)
    \/ ExpiredForGood(r) \/ MembershipExpired(r) \/ ApiCode(r) \/ Answered(r)

\* finalize_processing_future: process_quote_result gave rows, none, or raised.
FinalizeProcess(k) ==
    /\ pc \in {"top", "wait_process", "drain_processing"}
    /\ procs' = procs \ {k}
    /\ \E s \in {"ok", "zero_row", "exception"} :
            BeginSave(Result(k, s, "process", s # "ok", AfterProcess))
    /\ UNCHANGED <<options, todo, started, reqs, session, ending, replay, observers, trouble>>

-----------------------------------------------------------------------------
(* run_gap_replay_passes and the end of main() *)

OpenGaps == {k \in plan : gaps[k] = "open"}

BeginPass ==
    /\ pc = "replay" /\ pass < GapPasses /\ ~fatal /\ OpenGaps # {}
    /\ pass' = pass + 1 /\ queue' = OpenGaps /\ pc' = "replaying"
    /\ UNCHANGED <<disk, options, todo, started, pools, session, ending, gaps, replayed, save,
                   observers, trouble>>

\* replay_gap_task: the same answers, one at a time.  Its retries change
\* nothing but the session, at most once per login retry.
ReplayTask(k, s) ==
    /\ pc = "replaying" /\ ~fatal /\ k \in queue
    /\ queue' = queue \ {k} /\ replayed' = replayed \union {k}
    /\ \E logins \in 0..LoginRetries :
            gen' = gen + logins /\ expired' = expired \union (gen .. gen' - 1)
    /\ BeginSave(Result(k, s, "replay", s # "ok", "replaying"))
    /\ UNCHANGED <<options, todo, started, pools, gaps, pass, observers, trouble>>

\* The request raises, the API answers another code.
ReplayFails(k) ==
    /\ ReplayTask(k, "exception") \/ ReplayTask(k, "error")
    /\ UNCHANGED ending

\* The session or the membership expired for good.
ReplayStopped(k) == ReplayTask(k, "error") /\ StopRun

\* The answer is parsed in the main thread.
ReplayAnswered(k) ==
    /\ \E s \in {"ok", "zero_row", "exception"} : ReplayTask(k, s)
    /\ UNCHANGED ending

\* Variant: one task of a pass is enough.
PassEarly == queue # OpenGaps

PassOver == queue = {} \/ fatal

EndPass ==
    /\ pc = "replaying" /\ PassOver
    /\ pc' = "replay" /\ queue' = {}
    /\ UNCHANGED <<disk, options, todo, started, pools, session, ending, gaps, pass, replayed, save,
                   observers, trouble>>

EndReplay ==
    /\ pc = "replay" /\ (pass = GapPasses \/ fatal \/ OpenGaps = {})
    /\ pc' = "finish"
    /\ UNCHANGED <<disk, options, todo, started, pools, session, ending, replay, save, observers, trouble>>

\* raise fatal_stop, or return after --max-tasks.
Stopped ==
    /\ pc = "finish" /\ (fatal \/ status = "stopped_max_tasks")
    /\ pc' = "drain_requests"
    /\ UNCHANGED <<disk, options, todo, started, pools, session, ending, replay, save, observers, trouble>>

Complete ==
    /\ pc = "finish" /\ ~fatal /\ status # "stopped_max_tasks"
    /\ pc' = "drain_requests"
    /\ \/ /\ live' = IF sqlite THEN {k \in Tasks : stored[k] > 0} ELSE live
          /\ status' = "completed" /\ UNCHANGED trouble
       \/ /\ sqlite /\ Fault("publish") /\ dbFault' = TRUE
          /\ status' = "failed_live_publish" /\ UNCHANGED live
    /\ UNCHANGED <<task, stored, csv, progress, options, todo, started, pools, session, stop, fatal,
                   replay, save, observers>>

\* The finally of main(): both drains, then the executors and files are closed.
DrainedRequests ==
    /\ pc = "drain_requests" /\ reqs = {} /\ pc' = "drain_processing"
    /\ UNCHANGED <<disk, options, todo, started, pools, session, ending, replay, save, observers, trouble>>

DrainedProcessing ==
    /\ pc = "drain_processing" /\ procs = {} /\ pc' = "exit"
    /\ UNCHANGED <<disk, options, todo, started, pools, session, ending, replay, save, observers, trouble>>

Exit ==
    /\ pc = "exit"
    /\ Gone
    /\ UNCHANGED <<disk, observers, faults>>

\* The process is killed.
Crash ==
    /\ pc \notin {"down", "exit"}
    /\ IF pc = "import"
       THEN torn' = {k \in Tasks : task[k] = "ok"} /\ stored' \in ImportedSoFar
       ELSE UNCHANGED <<torn, stored>>
    /\ Gone
    /\ UNCHANGED <<task, csv, progress, live, attempts, faults>>

-----------------------------------------------------------------------------

Startup ==
    \/ Bootstrap \/ (\E k \in Tasks : ImportTask(k)) \/ ImportRows \/ ImportFails
    \/ Requeue \/ EnsureTasks \/ Load

Save == SaveRows \/ SaveProgress \/ SaveTask \/ SaveRaises

Loop ==
    \/ BeginSubmit \/ (\E k \in Tasks : Submit(k)) \/ HitLimit \/ EndSubmit \/ DrainedSome
    \/ \E r \in reqs : FinalizeRequest(r)
    \/ \E k \in procs : FinalizeProcess(k)

Ending ==
    \/ BeginPass \/ EndPass \/ EndReplay
    \/ \E k \in Tasks : ReplayFails(k) \/ ReplayStopped(k) \/ ReplayAnswered(k)
    \/ Stopped \/ Complete \/ DrainedRequests \/ DrainedProcessing \/ Exit

Next == Start \/ Startup \/ Save \/ Loop \/ Ending \/ Crash

Spec == Init /\ [][Next]_vars

-----------------------------------------------------------------------------
(* Properties *)

Keys(requests) == {r.key : r \in requests}

\* Types.
TypeOK ==
    /\ task \in [Tasks -> Status \union {Absent}]
    /\ {stored, csv} \subseteq [Tasks -> 0..2]
    /\ progress \in [Tasks -> [last : Recorded \union {Absent}, ok : BOOLEAN]]
    /\ {live, plan, todo, procs, queue, torn, replayed} \subseteq SUBSET Tasks
    /\ reqs \subseteq Requests /\ \A r \in reqs : r.gen <= gen
    /\ workers \in Nat \ {0} /\ gen \in Nat
    /\ gaps \in [Tasks -> {"none", "open", "resolved"}]
    /\ save \in Results \union {None}
    /\ (pc = "save") = (save # None)

\* The backlog is bounded: answers that wait to be parsed and requests under
\* way never exceed --max-pending-process by more than the request workers,
\* whatever is retried, relogged in or slow to parse (the loop tests the two
\* pools separately).
BacklogBounded == Cardinality(reqs) + Cardinality(procs) <= MaxPending + workers - 1

\* A session is replaced only after some answer called that very session
\* expired, though many requests of it may expire together
\* (refresh_request_auth_state compares generations).
ReloginOnlyWhenExpired == \A g \in 0..(gen - 1) : g \in expired

\* A run that ends as completed has tried every task of its plan, and every
\* task an earlier attempt left, unless the database failed it: nothing is
\* still pending or running, however often it died before.
CompletedTriedEverything ==
    status = "completed" /\ sqlite /\ ~dbFault =>
        /\ \A k \in Tasks : task[k] \notin {"pending", "running"}
        /\ \A k \in plan : task[k] \in Recorded

\* Every gap that is still open when the replay is over was replayed, unless
\* the run was stopped (run_gap_replay_passes).
OpenGapsWereReplayed ==
    pc = "finish" /\ ~fatal /\ GapPasses > 0 => OpenGaps \subseteq replayed

\* A task recorded as collected is not requested again, even by an attempt
\* which cannot read the task table: progress.jsonl then tells the same.
CollectedIsNotRequestedAgain ==
    [][\A k \in Tasks : k \in Keys(reqs') \ Keys(reqs) => task[k] # "ok"]_vars

\* The tasks which count as collected: an interrupted import leaves records
\* without rows behind, which torn excepts.
Credit == IF pc = "import" THEN {} ELSE {k \in Tasks : task[k] = "ok"} \ torn

Ledger == INSTANCE TaskLedger WITH
    rows <- {k \in Tasks : stored[k] > 0},
    credit <- Credit

\* The crawl implements the ledger: rows once stored stay stored over retries
\* and restarts, a collected task has its rows in the database, and the live
\* market gets what is stored.
ImplementsLedger == Ledger!Spec
=============================================================================
