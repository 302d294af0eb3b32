------------------------- MODULE CrawlRunProofs -------------------------
(***************************************************************************)
(* What holds of CrawlRun for any tasks, command lines, retries, errors    *)
(* and deaths: its types, the bound of the backlog, one login for each     *)
(* expired session, nothing collected twice, that it implements TaskLedger,*)
(* and that a run which ends has tried every task and replayed every gap.  *)
(***************************************************************************)
EXTENDS CrawlRun, FiniteSetTheorems, TLAPS

(***************************************************************************)
(* The invariant.  A task is recorded as collected after its rows are in   *)
(* all_rows.csv and, with a database, stored; one that is scheduled is     *)
(* neither collected nor under way; one that is under way again has not    *)
(* lost its rows to an import.                                             *)
(***************************************************************************)
Preparing == pc \in {"down", "bootstrap", "import", "requeue", "ensure", "load"}

Rested ==
    Preparing =>
        /\ todo = {} /\ reqs = {} /\ procs = {} /\ queue = {}
        /\ \A k \in Tasks : gaps[k] = "none"

Busy(k) ==
    \/ k \in Keys(reqs) \/ k \in procs \/ k \in queue
    \/ gaps[k] = "open"
    \/ save # None /\ save.key = k

Scheduled == \A k \in todo : ~Busy(k) /\ task[k] # "ok"

Logged ==
    \A k \in Tasks :
        /\ progress[k].last = "ok" => progress[k].ok
        /\ progress[k].ok => csv[k] > 0
        /\ task[k] = "ok" => progress[k].ok

Saving ==
    save # None /\ save.status = "ok" =>
        /\ csv[save.key] > 0
        /\ save.stage = "task" => progress[save.key].ok
        /\ sqlite /\ save.stage # "rows" => stored[save.key] > 0 /\ save.key \notin torn

Kept ==
    /\ pc # "import" => \A k \in Tasks : task[k] = "ok" /\ k \notin torn => stored[k] > 0
    /\ sqlite => \A k \in Tasks : Busy(k) /\ task[k] = "ok" => k \notin torn

Ledgered == Rested /\ Scheduled /\ Logged /\ Saving /\ Kept

Backlog == IsFiniteSet(reqs) /\ BacklogBounded

IInv == TypeOK /\ Ledgered /\ Backlog /\ ReloginOnlyWhenExpired

-----------------------------------------------------------------------------
(* Types *)

LEMMA SaveType ==
    ASSUME TypeOK, save # None
    PROVE  save \in Results /\ save.key \in Tasks /\ save.status \in Recorded
BY DEF TypeOK, Results

LEMMA RecordedType ==
    /\ {"ok", "zero_row", "error", "exception", "persistence_error"} = Recorded
    /\ Recorded \subseteq Status
BY DEF Recorded, Status

\* The updates of the tables
LEMMA UpsertType ==
    ASSUME TypeOK, NEW k \in Tasks, NEW s \in Status
    PROVE  Upserted(k, s) \in [Tasks -> Status \union {Absent}]
BY DEF TypeOK, Upserted

LEMMA LogProgressType ==
    ASSUME TypeOK, NEW k \in Tasks, NEW s \in Recorded
    PROVE  LogProgress(k, s) \in [Tasks -> [last : Recorded \union {Absent}, ok : BOOLEAN]]
BY DEF TypeOK, LogProgress

LEMMA AppendRowsType ==
    ASSUME TypeOK, NEW k \in Tasks
    PROVE  AppendRows(k) \in [Tasks -> 0..2] /\ AppendRows(k)[k] > 0
           /\ \A o \in Tasks : AppendRows(k)[o] >= csv[o]
BY DEF TypeOK, AppendRows

LEMMA BeginSaveType ==
    ASSUME TypeOK, NEW result \in Results, BeginSave(result)
    PROVE  /\ pc' = "save" /\ save' = result /\ save' # None
           /\ csv' \in [Tasks -> 0..2]
           /\ progress' \in [Tasks -> [last : Recorded \union {Absent}, ok : BOOLEAN]]
           /\ UNCHANGED <<task, stored, live>>
<1>1. result.key \in Tasks /\ result.status \in Recorded /\ result # None
  BY NoneAssumption DEF Results
<1>. QED
  BY <1>1, AppendRowsType, LogProgressType DEF BeginSave, TypeOK

LEMMA RequestType ==
    ASSUME TypeOK, NEW r \in reqs
    PROVE  r.key \in Tasks /\ r.login \in Nat /\ r.retry \in Nat /\ r.gen \in Nat /\ r.gen <= gen
BY DEF TypeOK, Requests

LEMMA InitType == Init => TypeOK
BY DEF Init, TypeOK, Status, Recorded

-----------------------------------------------------------------------------
(* The kinds of steps *)

\* The loop goes on, a replay pass begins or ends, or the run is published.
Goes ==
    /\ UNCHANGED <<task, stored, csv, progress, torn, reqs, procs, gen, expired, gaps, save,
                   todo, sqlite, workers, plan, replayed>>
    /\ live' \in {live, {k \in Tasks : stored[k] > 0}}
    /\ queue' \subseteq queue \union OpenGaps
    /\ (dbFault => dbFault')
    /\ (Preparing' <=> Preparing) /\ (Preparing => pc' = pc)
    /\ (pc' = "import") = (pc = "import") /\ (pc' = "save") = (pc = "save")

\* A request goes out again, perhaps with a new session.
Resubmits ==
    /\ \E r \in reqs, q \in Requests :
         /\ q.key = r.key /\ q.gen <= gen'
         /\ reqs' = (reqs \ {r}) \union {q}
         /\ task' \in {task, Upserted(r.key, "running")}
    /\ gen' \in Nat /\ gen <= gen' /\ expired \subseteq expired' /\ gen .. (gen' - 1) \subseteq expired'
    /\ UNCHANGED <<stored, csv, progress, live, torn, procs, gaps, save, todo, queue, sqlite, workers,
                   plan, replayed>>
    /\ (dbFault => dbFault')
    /\ ~Preparing /\ ~Preparing' /\ pc # "save" /\ pc' # "save"

\* A result of a request, of the parser or of the replay begins to be saved.
Begins ==
    /\ \E result \in Results :
         /\ BeginSave(result) /\ Busy(result.key)
         /\ result.stage = IF result.status = "ok" THEN "rows" ELSE "task"
         /\ (\A r \in reqs \ reqs' : r.key = result.key) /\ procs \ procs' \subseteq {result.key}
    /\ reqs' \subseteq reqs /\ procs' \subseteq procs /\ queue' \subseteq queue
    /\ replayed' \subseteq replayed \union Tasks
    /\ gen' \in Nat /\ gen <= gen' /\ expired \subseteq expired' /\ gen .. (gen' - 1) \subseteq expired'
    /\ UNCHANGED <<torn, gaps, todo, sqlite, workers, plan, dbFault>>
    /\ ~Preparing /\ pc # "save"

\* The attempt is over, outside the import.
Ends == Gone /\ UNCHANGED <<task, stored, csv, progress, live, torn>> /\ pc # "import"

LEMMA GoesKind ==
    ASSUME \/ BeginSubmit \/ HitLimit \/ EndSubmit \/ DrainedSome \/ BeginPass \/ EndPass \/ EndReplay
           \/ Stopped \/ Complete \/ DrainedRequests \/ DrainedProcessing \/ UNCHANGED vars
    PROVE  Goes
<1>. USE DEF disk, options, pools, session, ending, replay, observers, trouble, Goes, Preparing
<1>1. CASE BeginSubmit \/ HitLimit \/ EndSubmit \/ DrainedSome
  BY <1>1 DEF BeginSubmit, HitLimit, EndSubmit, DrainedSome
<1>2. CASE BeginPass \/ EndPass \/ EndReplay
  BY <1>2 DEF BeginPass, EndPass, EndReplay
<1>3. CASE Stopped \/ DrainedRequests \/ DrainedProcessing
  BY <1>3 DEF Stopped, DrainedRequests, DrainedProcessing
<1>4. CASE Complete
  BY <1>4 DEF Complete
<1>5. CASE UNCHANGED vars
  BY <1>5 DEF vars
<1>. QED
  BY <1>1, <1>2, <1>3, <1>4, <1>5

LEMMA ResubmitKind ==
    ASSUME TypeOK, NEW r \in reqs, NEW retries \in {0, 1}, NEW logins \in {0, 1},
           Finalizing, Resubmit(r, retries, logins), gen' \in Nat, gen <= gen',
           expired \subseteq expired', gen .. (gen' - 1) \subseteq expired'
    PROVE  Resubmits
<1>. DEFINE q == [key |-> r.key, login |-> r.login + logins, retry |-> r.retry + retries, gen |-> gen']
<1>1. r.key \in Tasks /\ r.retry + retries \in Nat /\ r.login + logins \in Nat
  BY RequestType
<1>3. q \in Requests /\ q.key = r.key /\ q.gen <= gen'
  BY <1>1 DEF Requests
<1>4. reqs' = (reqs \ {r}) \union {q} /\ task' \in {task, Upserted(r.key, "running")}
  BY DEF Resubmit, Upsert
<1>5. \E p \in reqs, o \in Requests :
         /\ o.key = p.key /\ o.gen <= gen'
         /\ reqs' = (reqs \ {p}) \union {o}
         /\ task' \in {task, Upserted(p.key, "running")}
  <2>. HIDE DEF q
  <2>. QED
    BY <1>3, <1>4
<1>. QED
  BY <1>5
     DEF Resubmit, Resubmits, Upsert, AfterRequest, Finalizing, Preparing, options, replay, observers,
         ending, trouble

LEMMA RefuseKind ==
    ASSUME TypeOK, NEW r \in reqs, NEW s \in {"error", "exception"}, NEW isGap \in BOOLEAN,
           Finalizing, Refuse(r, s, isGap), gen' = gen, expired \subseteq expired'
    PROVE  Begins
<1>1. AfterRequest \in {"more_requests", "drain_requests"}
  BY DEF AfterRequest
<1>. DEFINE result == Result(r.key, s, "request", isGap, AfterRequest)
<1>2. result \in Results /\ result.key = r.key /\ result.status = s
      /\ result.stage = IF s = "ok" THEN "rows" ELSE "task"
  <2>1. r.key \in Tasks /\ s \in Recorded
    BY RequestType, RecordedType
  <2>. QED
    BY <2>1, <1>1 DEF Result, Results
<1>3. /\ BeginSave(result) /\ Busy(result.key)
      /\ (\A o \in reqs \ reqs' : o.key = result.key) /\ procs \ procs' \subseteq {result.key}
  BY <1>2 DEF Refuse, Busy, Keys
<1>4. \E o \in Results :
         /\ BeginSave(o) /\ Busy(o.key)
         /\ o.stage = IF o.status = "ok" THEN "rows" ELSE "task"
         /\ (\A p \in reqs \ reqs' : p.key = o.key) /\ procs \ procs' \subseteq {o.key}
  <2>. HIDE DEF result
  <2>. QED
    BY <1>2, <1>3
<1>5. gen .. (gen' - 1) = {} /\ gen' \in Nat /\ gen <= gen'
  BY DEF TypeOK
<1>. QED
  BY <1>4, <1>5 DEF Refuse, Begins, Finalizing, Preparing, options, replay, observers, trouble

LEMMA RequestKind ==
    ASSUME TypeOK, NEW r \in reqs, FinalizeRequest(r)
    PROVE  Resubmits \/ Begins \/ Answered(r)
<1>. USE DEF session
<1>a. gen \in Nat /\ gen .. (gen - 1) = {} /\ gen .. (gen + 1 - 1) = {gen} /\ r.gen \in Nat
  BY RequestType DEF TypeOK
<1>1. CASE RequestRaises(r)
  <2>1. gen' = gen /\ expired' = expired
    BY <1>1 DEF RequestRaises
  <2>2. CASE CanRetry(r)
    BY <1>1, <2>1, <2>2, <1>a, ResubmitKind DEF RequestRaises
  <2>3. CASE ~CanRetry(r)
    <3>1. Refuse(r, "exception", TRUE) /\ Finalizing
      BY <1>1, <2>3 DEF RequestRaises
    <3>. QED
      BY <3>1, <2>1, RefuseKind
  <2>. QED
    BY <2>2, <2>3
<1>2. CASE StaleExpired(r)
  BY <1>2, <1>a, ResubmitKind DEF StaleExpired
<1>3. CASE ExpiredRelogin(r)
  <2>1. gen' = gen \/ (gen' = gen + 1 /\ r.gen = gen)
    BY <1>3 DEF ExpiredRelogin, Refresh
  <2>2. gen' \in Nat /\ gen <= gen' /\ expired \subseteq expired' /\ gen .. (gen' - 1) \subseteq expired'
    BY <1>3, <1>a, <2>1 DEF ExpiredRelogin
  <2>. QED
    BY <1>3, <2>2, ResubmitKind DEF ExpiredRelogin
<1>4. CASE ExpiredReloginFails(r) \/ ExpiredForGood(r)
  BY <1>4, RefuseKind DEF ExpiredReloginFails, ExpiredForGood
<1>5. CASE MembershipExpired(r) \/ ApiCode(r)
  BY <1>5, RefuseKind DEF MembershipExpired, ApiCode
<1>. QED
  BY <1>1, <1>2, <1>3, <1>4, <1>5 DEF FinalizeRequest

LEMMA ProcessKind ==
    ASSUME TypeOK, NEW k \in procs, FinalizeProcess(k)
    PROVE  Begins
<1>1. AfterProcess \in {"drain_processing", "top"} /\ k \in Tasks
  BY DEF AfterProcess, TypeOK
<1>2. PICK s \in {"ok", "zero_row", "exception"} :
        BeginSave(Result(k, s, "process", s # "ok", AfterProcess))
  BY DEF FinalizeProcess
<1>. DEFINE result == Result(k, s, "process", s # "ok", AfterProcess)
<1>3. result \in Results /\ result.key = k /\ result.status = s
      /\ result.stage = IF s = "ok" THEN "rows" ELSE "task"
  <2>1. s \in Recorded
    BY RecordedType
  <2>. QED
    BY <2>1, <1>1 DEF Result, Results
<1>4. /\ BeginSave(result) /\ Busy(k)
      /\ reqs \ reqs' = {} /\ procs \ procs' \subseteq {k}
  BY <1>2 DEF FinalizeProcess, Busy
<1>5. \E o \in Results :
         /\ BeginSave(o) /\ Busy(o.key)
         /\ o.stage = IF o.status = "ok" THEN "rows" ELSE "task"
         /\ (\A p \in reqs \ reqs' : p.key = o.key) /\ procs \ procs' \subseteq {o.key}
  <2>. HIDE DEF result
  <2>. QED
    BY <1>3, <1>4
<1>6. gen .. (gen - 1) = {} /\ gen \in Nat
  BY DEF TypeOK
<1>. QED
  BY <1>5, <1>6 DEF FinalizeProcess, Begins, Preparing, options, replay, session, observers, trouble

LEMMA ReplayKind ==
    ASSUME TypeOK, NEW k \in Tasks, NEW s \in Recorded, ReplayTask(k, s)
    PROVE  Begins
<1>. DEFINE result == Result(k, s, "replay", s # "ok", "replaying")
<1>1. result \in Results /\ result.key = k /\ result.status = s
      /\ result.stage = IF s = "ok" THEN "rows" ELSE "task"
  BY DEF Result, Results
<1>2. /\ BeginSave(result) /\ Busy(k)
      /\ reqs \ reqs' = {} /\ procs \ procs' = {}
  BY DEF ReplayTask, Busy, pools
<1>3. \E o \in Results :
         /\ BeginSave(o) /\ Busy(o.key)
         /\ o.stage = IF o.status = "ok" THEN "rows" ELSE "task"
         /\ (\A p \in reqs \ reqs' : p.key = o.key) /\ procs \ procs' \subseteq {o.key}
  <2>. HIDE DEF result
  <2>. QED
    BY <1>1, <1>2
<1>4. gen' \in Nat /\ gen <= gen' /\ expired \subseteq expired' /\ gen .. (gen' - 1) \subseteq expired'
  <2>1. PICK logins \in 0..LoginRetries :
          gen' = gen + logins /\ expired' = expired \union (gen .. gen' - 1)
    BY DEF ReplayTask
  <2>. QED
    BY <2>1, CrawlAssumption DEF TypeOK
<1>. QED
  BY <1>3, <1>4 DEF ReplayTask, Begins, Preparing, options, pools, observers, trouble

LEMMA StepKinds ==
    ASSUME TypeOK, [Next]_vars
    PROVE  \/ Goes \/ Resubmits \/ Begins \/ Ends
           \/ \E r \in reqs : Answered(r)
           \/ \E k \in Tasks : Submit(k)
           \/ Start \/ Startup \/ Save
           \/ Crash /\ pc = "import"
<1>1. CASE Loop
  <2>1. ASSUME NEW r \in reqs, FinalizeRequest(r) PROVE Resubmits \/ Begins \/ Answered(r)
    BY <2>1, RequestKind
  <2>2. ASSUME NEW k \in procs, FinalizeProcess(k) PROVE Begins
    BY <2>2, ProcessKind
  <2>. QED
    BY <1>1, <2>1, <2>2, GoesKind DEF Loop
<1>2. CASE Ending
  <2>1. Exit => Ends
    BY DEF Exit, Ends, disk, observers
  <2>2. ASSUME NEW k \in Tasks, ReplayFails(k) \/ ReplayStopped(k) \/ ReplayAnswered(k) PROVE Begins
    <3>1. \E s \in Recorded : ReplayTask(k, s)
      BY <2>2, RecordedType DEF ReplayFails, ReplayStopped, ReplayAnswered
    <3>. QED
      BY <3>1, ReplayKind
  <2>. QED
    BY <1>2, <2>1, <2>2, GoesKind DEF Ending
<1>3. CASE Crash
  BY <1>3 DEF Crash, Ends
<1>4. CASE UNCHANGED vars
  BY <1>4, GoesKind
<1>. QED
  BY <1>1, <1>2, <1>3, <1>4 DEF Next

-----------------------------------------------------------------------------
(* Type correctness *)

LEMMA SaveEdited ==
    ASSUME TypeOK, save # None, NEW stage \in {"progress", "task"}, NEW s \in Recorded
    PROVE  /\ [save EXCEPT !.stage = stage] \in Results
           /\ [save EXCEPT !.stage = stage].key = save.key
           /\ [save EXCEPT !.stage = stage].status = save.status
           /\ [save EXCEPT !.stage = stage].stage = stage
           /\ [save EXCEPT !.stage = stage, !.status = s, !.gap = TRUE] \in Results
           /\ [save EXCEPT !.stage = stage, !.status = s, !.gap = TRUE].key = save.key
           /\ [save EXCEPT !.stage = stage, !.status = s, !.gap = TRUE].status = s
           /\ [save EXCEPT !.stage = stage, !.status = s, !.gap = TRUE].stage = stage
<1>1. save \in Results
  BY SaveType
<1>. QED
  BY <1>1 DEF Results

LEMMA StartupType ==
    ASSUME TypeOK, Startup
    PROVE  TypeOK'
<1>. USE DEF TypeOK, options, pools, session, replay, observers, trouble
<1>1. CASE Bootstrap
  BY <1>1 DEF Bootstrap
<1>2. ASSUME NEW k \in Tasks, ImportTask(k) PROVE TypeOK'
  <2>1. PICK s \in Status \union {Absent} : task' = [task EXCEPT ![k] = s]
    BY <1>2, RecordedType DEF ImportTask
  <2>. QED
    BY <1>2, <2>1 DEF ImportTask
<1>3. CASE ImportRows
  BY <1>3 DEF ImportRows, Gone
<1>4. CASE ImportFails
  <2>1. stored' \in [Tasks -> 0..2]
    BY <1>4 DEF ImportFails, ImportedSoFar
  <2>. QED
    BY <1>4, <2>1 DEF ImportFails
<1>5. CASE Requeue
  <2>1. task' \in [Tasks -> Status \union {Absent}]
    BY <1>5 DEF Requeue, Requeued, Status
  <2>. QED
    BY <1>5, <2>1 DEF Requeue
<1>6. CASE EnsureTasks
  <2>1. task' \in [Tasks -> Status \union {Absent}]
    BY <1>6 DEF EnsureTasks, Ensured, Status
  <2>. QED
    BY <1>6, <2>1 DEF EnsureTasks
<1>7. CASE Load
  <2>1. todo' \subseteq Tasks
    BY <1>7 DEF Load, Unfinished
  <2>. QED
    BY <1>7, <2>1 DEF Load, disk
<1>. QED
  BY <1>1, <1>2, <1>3, <1>4, <1>5, <1>6, <1>7 DEF Startup

LEMMA SavingType ==
    ASSUME TypeOK, Save
    PROVE  TypeOK'
<1>. USE DEF options, pools, session, replay, observers, trouble
<1>s. save # None /\ pc = "save" /\ save.key \in Tasks /\ save.status \in Recorded
      /\ save.back \notin {"save"} /\ save \in Results /\ save.status \in Status
  BY SaveType, RecordedType DEF Save, SaveRows, SaveProgress, SaveTask, SaveRaises, TypeOK, Results
<1>1. CASE SaveRows
  <2>1. save' \in Results /\ save' # None
    <3>1. [save EXCEPT !.stage = "progress"] \in Results
          /\ [save EXCEPT !.stage = "progress", !.status = "persistence_error", !.gap = TRUE] \in Results
      BY <1>s DEF Results, Recorded, Status
    <3>. QED
      BY <1>1, <3>1, NoneAssumption DEF SaveRows
  <2>2. stored' \in [Tasks -> 0..2] /\ torn' \subseteq Tasks
    BY <1>1, <1>s DEF SaveRows, Replaced, TypeOK
  <2>. QED
    BY <1>1, <2>1, <2>2 DEF SaveRows, TypeOK
<1>2. CASE SaveProgress
  <2>1. save' \in Results /\ save' # None
    BY <1>2, <1>s, SaveEdited, NoneAssumption DEF SaveProgress
  <2>2. progress' \in [Tasks -> [last : Recorded \union {Absent}, ok : BOOLEAN]]
    BY <1>2, <1>s, LogProgressType DEF SaveProgress
  <2>. QED
    BY <1>2, <2>1, <2>2 DEF SaveProgress, TypeOK
<1>3. CASE SaveTask
  <2>1. task' \in [Tasks -> Status \union {Absent}]
    BY <1>3, <1>s, UpsertType DEF SaveTask, Upsert, TypeOK
  <2>2. gaps' \in [Tasks -> {"none", "open", "resolved"}]
    <3>1. OpenGap(save.key) \in [Tasks -> {"none", "open", "resolved"}]
          /\ ResolveGap(save.key) \in [Tasks -> {"none", "open", "resolved"}]
          /\ gaps \in [Tasks -> {"none", "open", "resolved"}]
      BY <1>s DEF OpenGap, ResolveGap, TypeOK
    <3>. QED
      BY <1>3, <3>1, Zenon DEF SaveTask
  <2>. QED
    BY <1>3, <1>s, <2>1, <2>2 DEF SaveTask, TypeOK
<1>4. CASE SaveRaises
  <2>1. task' \in [Tasks -> Status \union {Absent}]
    BY <1>4, <1>s, UpsertType DEF SaveRaises
  <2>2. AfterRaise # "save"
    BY DEF AfterRaise
  <2>3. (save' = None /\ pc' # "save") \/ (save' \in Results /\ save' # None /\ pc' = "save")
    <3>1. \A x \in {"exception", "persistence_error"} :
            [save EXCEPT !.stage = "progress", !.status = x, !.gap = TRUE] \in Results
      BY <1>s DEF Results, Recorded, Status
    <3>2. \/ save' = None /\ pc' = AfterRaise
          \/ /\ pc' = pc
             /\ \E x \in {"exception", "persistence_error"} :
               save' = [save EXCEPT !.stage = "progress", !.status = x, !.gap = TRUE]
      <4>1. CASE save.from \in {"process", "replay"} /\ save.status \in {"ok", "zero_row"}
        <5>. DEFINE x == IF save.from = "process" THEN "exception" ELSE "persistence_error"
        <5>1. x \in {"exception", "persistence_error"}
          OBVIOUS
        <5>2. pc' = pc /\ save' = [save EXCEPT !.stage = "progress", !.status = x, !.gap = TRUE]
          BY <1>4, <4>1, Zenon DEF SaveRaises
        <5>. HIDE DEF x
        <5>. QED
          BY <5>1, <5>2, Zenon
      <4>2. CASE ~(save.from \in {"process", "replay"} /\ save.status \in {"ok", "zero_row"})
        BY <1>4, <4>2, Zenon DEF SaveRaises
      <4>. QED
        BY <4>1, <4>2, Zenon
    <3>. QED
      BY <1>s, <2>2, <3>1, <3>2, NoneAssumption
  <2>. QED
    BY <1>4, <2>1, <2>3 DEF SaveRaises, TypeOK
<1>. QED
  BY <1>1, <1>2, <1>3, <1>4 DEF Save

LEMMA TypeStep == TypeOK /\ [Next]_vars => TypeOK'
<1>. SUFFICES ASSUME TypeOK, [Next]_vars PROVE TypeOK'
  OBVIOUS
<1>1. CASE Goes
  BY <1>1 DEF Goes, TypeOK, OpenGaps
<1>2. CASE Resubmits
  <2>1. PICK r \in reqs, q \in Requests :
          /\ q.gen <= gen' /\ reqs' = (reqs \ {r}) \union {q}
          /\ task' \in {task, Upserted(r.key, "running")}
    BY <1>2 DEF Resubmits
  <2>2. task' \in [Tasks -> Status \union {Absent}]
    BY <2>1, RequestType, UpsertType DEF TypeOK, Status
  <2>3. reqs' \subseteq Requests /\ \A o \in reqs' : o.gen <= gen'
    BY <1>2, <2>1, RequestType DEF Resubmits, TypeOK
  <2>. QED
    BY <1>2, <2>2, <2>3 DEF Resubmits, TypeOK
<1>3. CASE Begins
  <2>1. PICK result \in Results : BeginSave(result)
    BY <1>3 DEF Begins
  <2>2. reqs' \subseteq Requests /\ \A o \in reqs' : o.gen <= gen'
    BY <1>3, RequestType DEF Begins, TypeOK
  <2>. QED
    BY <1>3, <2>1, <2>2, BeginSaveType DEF Begins, TypeOK
<1>4. CASE Ends
  BY <1>4 DEF Ends, Gone, TypeOK
<1>5. ASSUME NEW r \in reqs, Answered(r) PROVE TypeOK'
  BY <1>5, RequestType
     DEF Answered, TypeOK, disk, options, session, replay, observers, Finalizing, AfterRequest
<1>6. ASSUME NEW k \in Tasks, Submit(k) PROVE TypeOK'
  <2>1. task' \in [Tasks -> Status \union {Absent}]
    BY <1>6, UpsertType DEF Submit, Upsert, TypeOK, Status
  <2>2. Request(k) \in Requests /\ Request(k).gen = gen
    BY DEF Request, Requests, TypeOK
  <2>3. reqs' \subseteq Requests /\ \A o \in reqs' : o.gen <= gen'
    BY <1>6, <2>2, RequestType DEF Submit, TypeOK, session
  <2>. QED
    BY <1>6, <2>1, <2>3 DEF Submit, TypeOK, options, session, replay, observers
<1>7. CASE Start
  <2>1. plan' \subseteq Tasks /\ workers' \in Nat \ {0}
    BY <1>7, CrawlAssumption DEF Start
  <2>. QED
    BY <1>7, <2>1 DEF Start, TypeOK, disk, pools, session, replay
<1>8. CASE Crash /\ pc = "import"
  <2>1. stored' \in [Tasks -> 0..2] /\ torn' \subseteq Tasks
    BY <1>8 DEF Crash, ImportedSoFar, TypeOK
  <2>. QED
    BY <1>8, <2>1 DEF Crash, Gone, TypeOK
<1>. QED
  BY <1>1, <1>2, <1>3, <1>4, <1>5, <1>6, <1>7, <1>8, StepKinds, StartupType, SavingType

-----------------------------------------------------------------------------
(* Collected tasks keep their rows and their credit *)

\* Before the loop nothing is under way.
LEMMA NothingBusy ==
    ASSUME TypeOK, Rested, Preparing
    PROVE  \A k \in Tasks : ~Busy(k)
BY DEF TypeOK, Rested, Preparing, Busy, Keys

\* What a scheduled task is, and what keeps it so.
LEMMA StillScheduled ==
    ASSUME Scheduled, todo' \subseteq todo,
           \A k \in todo' : Busy(k)' => Busy(k),
           \A k \in todo' : task'[k] = "ok" => task[k] = "ok" \/ Busy(k)
    PROVE  Scheduled'
BY DEF Scheduled

\* A record that is neither new nor of a collected task disturbs nothing.
LEMMA UpsertKeeps ==
    ASSUME TypeOK, NEW k \in Tasks, NEW s \in Status, task' \in {task, Upserted(k, s)}
    PROVE  /\ \A o \in Tasks : task'[o] = "ok" => task[o] = "ok" \/ (o = k /\ s = "ok" /\ sqlite)
           /\ \A o \in Tasks : o # k => task'[o] = task[o]
BY DEF TypeOK, Upserted

LEMMA InitLedgered == Init => Ledgered
BY NoneAssumption
   DEF Init, Ledgered, Rested, Preparing, Scheduled, Logged, Saving, Kept, Busy, Keys, Status

LEMMA GoesLedgered ==
    ASSUME TypeOK, Ledgered, Goes
    PROVE  Ledgered'
<1>. USE DEF Ledgered
<1>1. \A k \in Tasks : Busy(k)' => Busy(k)
  BY DEF Goes, Busy, Keys, OpenGaps
<1>2. Rested'
  <2>1. Preparing' => Preparing /\ OpenGaps = {}
    BY DEF Goes, Rested, OpenGaps, TypeOK
  <2>. QED
    BY <2>1 DEF Goes, Rested
<1>3. Scheduled'
  BY <1>1, StillScheduled DEF Goes, TypeOK
<1>4. Logged' /\ Saving'
  BY DEF Goes, Logged, Saving
<1>5. Kept'
  BY <1>1 DEF Goes, Kept
<1>. QED
  BY <1>2, <1>3, <1>4, <1>5

LEMMA ResubmitsLedgered ==
    ASSUME TypeOK, Ledgered, Resubmits
    PROVE  Ledgered'
<1>. USE DEF Ledgered
<1>0. PICK r \in reqs, q \in Requests :
        /\ q.key = r.key /\ reqs' = (reqs \ {r}) \union {q}
        /\ task' \in {task, Upserted(r.key, "running")}
  BY DEF Resubmits
<1>t. \A k \in Tasks : task'[k] = "ok" => task[k] = "ok"
  BY <1>0, RequestType, UpsertKeeps DEF Status
<1>1. \A k \in Tasks : Busy(k)' => Busy(k)
  BY <1>0 DEF Resubmits, Busy, Keys
<1>2. Rested'
  BY DEF Resubmits, Rested
<1>3. Scheduled'
  BY <1>1, <1>t, StillScheduled DEF Resubmits, TypeOK
<1>4. Logged' /\ Saving'
  BY <1>t DEF Resubmits, Logged, Saving
<1>5. Kept'
  BY <1>1, <1>t DEF Resubmits, Kept, Preparing
<1>. QED
  BY <1>2, <1>3, <1>4, <1>5

LEMMA BeginsLedgered ==
    ASSUME TypeOK, Ledgered, Begins
    PROVE  Ledgered'
<1>. USE DEF Ledgered
<1>0. PICK result \in Results :
        /\ BeginSave(result) /\ Busy(result.key)
        /\ result.stage = IF result.status = "ok" THEN "rows" ELSE "task"
  BY DEF Begins
<1>a. /\ result.key \in Tasks /\ pc' = "save" /\ save' = result
      /\ UNCHANGED <<task, stored, torn, gaps, sqlite>>
  BY <1>0, BeginSaveType DEF Begins, Results
<1>1. \A k \in Tasks : Busy(k)' => Busy(k)
  BY <1>0, <1>a DEF Begins, Busy, Keys
<1>2. Rested'
  BY <1>a DEF Rested, Preparing
<1>3. Scheduled'
  BY <1>1, <1>a, StillScheduled DEF Begins, TypeOK
<1>4. Logged' /\ Saving'
  <2>1. CASE result.status = "ok"
    <3>1. csv' = AppendRows(result.key) /\ progress' = progress
      BY <1>0, <2>1 DEF BeginSave
    <3>2. csv'[result.key] > 0 /\ \A k \in Tasks : csv[k] > 0 => csv'[k] > 0
      BY <1>a, <3>1 DEF AppendRows, TypeOK
    <3>. QED
      BY <1>0, <1>a, <2>1, <3>1, <3>2 DEF Logged, Saving
  <2>2. CASE result.status # "ok"
    <3>1. csv' = csv /\ progress' = LogProgress(result.key, result.status)
      BY <1>0, <2>2 DEF BeginSave
    <3>2. \A k \in Tasks : progress'[k].last = "ok" => progress[k].last = "ok"
      BY <1>a, <2>2, <3>1 DEF LogProgress, TypeOK
    <3>3. \A k \in Tasks : progress'[k].ok = progress[k].ok
      BY <1>a, <2>2, <3>1 DEF LogProgress, TypeOK
    <3>. QED
      BY <1>0, <1>a, <2>2, <3>1, <3>2, <3>3 DEF Logged, Saving
  <2>. QED
    BY <2>1, <2>2
<1>5. Kept'
  BY <1>1, <1>a DEF Begins, Kept, Preparing
<1>. QED
  BY <1>2, <1>3, <1>4, <1>5

LEMMA EndsLedgered ==
    ASSUME Ledgered, Ends
    PROVE  Ledgered'
BY DEF Ledgered, Ends, Gone, Rested, Preparing, Scheduled, Logged, Saving, Kept, Busy, Keys

LEMMA AnsweredLedgered ==
    ASSUME TypeOK, Ledgered, NEW r \in reqs, Answered(r)
    PROVE  Ledgered'
<1>. USE DEF Ledgered, Answered, disk, options, session, ending, replay, observers, trouble
<1>1. \A k \in Tasks : Busy(k)' => Busy(k)
  BY DEF Busy, Keys
<1>2. Rested' /\ pc # "import" /\ pc' # "import"
  BY DEF Rested, Preparing, Finalizing, AfterRequest
<1>3. Scheduled'
  BY <1>1, StillScheduled DEF TypeOK
<1>4. Logged' /\ Saving'
  BY DEF Logged, Saving
<1>5. Kept'
  BY <1>1, <1>2 DEF Kept
<1>. QED
  BY <1>2, <1>3, <1>4, <1>5

LEMMA SubmitLedgered ==
    ASSUME TypeOK, Ledgered, NEW k \in Tasks, Submit(k)
    PROVE  Ledgered'
<1>. USE DEF Ledgered, Submit, options, session, ending, replay, observers
<1>t. \A o \in Tasks : task'[o] = "ok" => task[o] = "ok" /\ o # k
  <2>1. task' \in {task, Upserted(k, "running")}
    BY DEF Upsert
  <2>2. task'[k] # "ok"
    BY DEF Upsert, Upserted, TypeOK, Scheduled
  <2>. QED
    BY <2>1, <2>2, UpsertKeeps DEF Status
<1>1. \A o \in Tasks : Busy(o)' => Busy(o) \/ o = k
  BY DEF Busy, Keys, Request
<1>2. Rested' /\ pc # "import" /\ pc' # "import"
  BY DEF Rested, Preparing
<1>3. Scheduled'
  BY <1>1, <1>t, StillScheduled DEF TypeOK
<1>4. Logged' /\ Saving'
  BY <1>t DEF Logged, Saving
<1>5. Kept'
  BY <1>1, <1>2, <1>t DEF Kept
<1>. QED
  BY <1>2, <1>3, <1>4, <1>5

\* A startup step, which leaves the pools and the gaps alone.
LEMMA PreparingLedgered ==
    ASSUME TypeOK, Ledgered, Preparing, Preparing', Logged',
           UNCHANGED <<todo, reqs, procs, queue, gaps, save>>,
           pc' = "import" \/ \A k \in Tasks : task'[k] = "ok" /\ k \notin torn' => stored'[k] > 0
    PROVE  Ledgered'
<1>1. save = None
  BY DEF TypeOK, Preparing
<1>2. \A k \in Tasks : ~Busy(k)'
  BY <1>1 DEF Ledgered, Rested, Busy, Keys
<1>. QED
  BY <1>1, <1>2 DEF Ledgered, Rested, Scheduled, Saving, Kept

LEMMA StartupLedgered ==
    ASSUME TypeOK, Ledgered, Start \/ Startup
    PROVE  Ledgered'
<1>. USE DEF options, pools, session, replay, observers, trouble, disk
<1>1. CASE Start
  <2>1. Logged'
    BY <1>1 DEF Start, Ledgered, Logged
  <2>. QED
    BY <1>1, <2>1, PreparingLedgered DEF Start, Preparing, Ledgered, Kept
<1>2. CASE Bootstrap
  <2>1. Logged'
    BY <1>2 DEF Bootstrap, Ledgered, Logged
  <2>. QED
    BY <1>2, <2>1, PreparingLedgered DEF Bootstrap, Preparing, Ledgered, Kept
<1>3. ASSUME NEW k \in Tasks, ImportTask(k) PROVE Ledgered'
  <2>1. \A o \in Tasks : task'[o] = "ok" => progress[o].ok
    BY <1>3 DEF ImportTask, TypeOK, Ledgered, Logged
  <2>2. Logged'
    BY <1>3, <2>1 DEF ImportTask, Ledgered, Logged
  <2>. QED
    BY <1>3, <2>2, PreparingLedgered DEF ImportTask, Preparing
<1>4. CASE ImportRows
  <2>1. \A k \in Tasks : task[k] = "ok" => csv[k] > 0
    BY DEF Ledgered, Logged
  <2>2. Logged'
    BY <1>4 DEF ImportRows, Ledgered, Logged
  <2>3. \A k \in Tasks : ~Busy(k)'
    BY <1>4 DEF ImportRows, Gone, Busy, Keys
  <2>. QED
    BY <1>4, <2>1, <2>2, <2>3 DEF ImportRows, Gone, Ledgered, Rested, Scheduled, Saving, Kept
<1>5. CASE ImportFails
  <2>1. Logged'
    BY <1>5 DEF ImportFails, Ledgered, Logged
  <2>. QED
    BY <1>5, <2>1, PreparingLedgered DEF ImportFails, Preparing
<1>6. CASE Requeue
  <2>1. \A k \in Tasks : task'[k] = "ok" => task[k] = "ok"
    BY <1>6 DEF Requeue, Requeued
  <2>2. Logged'
    BY <1>6, <2>1 DEF Requeue, Ledgered, Logged
  <2>. QED
    BY <1>6, <2>1, <2>2, PreparingLedgered DEF Requeue, Preparing, Ledgered, Kept
<1>7. CASE EnsureTasks
  <2>1. \A k \in Tasks : task'[k] = "ok" => task[k] = "ok"
    BY <1>7 DEF EnsureTasks, Ensured
  <2>2. Logged'
    BY <1>7, <2>1 DEF EnsureTasks, Ledgered, Logged
  <2>. QED
    BY <1>7, <2>1, <2>2, PreparingLedgered DEF EnsureTasks, Preparing, Ledgered, Kept
<1>8. CASE Load
  <2>1. \A k \in todo' : k \in Tasks /\ task[k] # "ok"
    BY <1>8 DEF Load, Unfinished, Schedulable, DoneInProgress, Ledgered, Logged, TypeOK
  <2>2. \A k \in Tasks : ~Busy(k)
    BY <1>8, NothingBusy DEF Ledgered, Load, Preparing
  <2>3. \A k \in Tasks : Busy(k)' = Busy(k)
    BY <1>8 DEF Load, Busy, Keys
  <2>4. Scheduled' /\ Rested'
    BY <1>8, <2>1, <2>2, <2>3 DEF Load, Scheduled, Rested, Preparing
  <2>5. Logged' /\ Saving'
    BY <1>8 DEF Load, Ledgered, Logged, Saving
  <2>6. Kept'
    BY <1>8, <2>2, <2>3 DEF Load, Ledgered, Kept
  <2>. QED
    BY <2>4, <2>5, <2>6 DEF Ledgered
<1>. QED
  BY <1>1, <1>2, <1>3, <1>4, <1>5, <1>6, <1>7, <1>8 DEF Startup

LEMMA CrashLedgered ==
    ASSUME Ledgered, Crash, pc = "import"
    PROVE  Ledgered'
<1>1. \A k \in Tasks : task'[k] = "ok" => k \in torn'
  BY DEF Crash
<1>. QED
  BY <1>1 DEF Ledgered, Crash, Gone, Rested, Preparing, Scheduled, Logged, Saving, Kept, Busy, Keys

LEMMA SavingState ==
    ASSUME TypeOK, Save
    PROVE  /\ save # None /\ save \in Results /\ save.key \in Tasks /\ save.status \in Recorded
           /\ pc = "save" /\ Busy(save.key) /\ save.status \in Status
BY SaveType, RecordedType DEF Save, SaveRows, SaveProgress, SaveTask, SaveRaises, TypeOK, Busy

\* The result being saved keeps its task.
LEMMA SavedNext ==
    ASSUME TypeOK, Save
    PROVE  /\ save' # None => save'.key = save.key /\ save' \in Results
           /\ save' # None => pc' = "save"
           /\ pc' \notin {"down", "bootstrap", "import", "requeue", "ensure", "load"}
<1>. USE DEF TypeOK
<1>1. save.back \in {"more_requests", "top", "drain_requests", "drain_processing", "replaying"}
      /\ save \in Results
  BY SavingState DEF Results
<1>2. AfterRaise \in {"drain_processing", "exit", "drain_requests"}
  BY DEF AfterRaise
<1>3. TypeOK'
  BY SavingType
<1>4. save' # None => pc' = "save" /\ save' \in Results
  BY <1>3
<1>5. \/ save' = None
      \/ \E st \in {"progress", "task"} : save' = [save EXCEPT !.stage = st]
      \/ \E st \in {"progress", "task"}, x \in Recorded :
           save' = [save EXCEPT !.stage = st, !.status = x, !.gap = TRUE]
  BY Zenon, RecordedType DEF Save, SaveRows, SaveProgress, SaveTask, SaveRaises
<1>6. \A st \in {"progress", "task"} :
        /\ [save EXCEPT !.stage = st].key = save.key
        /\ \A x \in Recorded : [save EXCEPT !.stage = st, !.status = x, !.gap = TRUE].key = save.key
  BY <1>1 DEF Results
<1>7. save' # None => save'.key = save.key
  <2>1. ASSUME NEW st \in {"progress", "task"}, save' = [save EXCEPT !.stage = st]
        PROVE  save'.key = save.key
    BY <2>1, <1>6, Zenon
  <2>2. ASSUME NEW st \in {"progress", "task"}, NEW x \in Recorded,
               save' = [save EXCEPT !.stage = st, !.status = x, !.gap = TRUE]
        PROVE  save'.key = save.key
    BY <2>2, <1>6, Zenon
  <2>. QED
    BY <1>5, <2>1, <2>2, Zenon
<1>8. pc = "save" /\ pc' \in {pc, save.back, AfterRaise}
  BY SavingState DEF Save, SaveRows, SaveProgress, SaveTask, SaveRaises
<1>. QED
  BY <1>1, <1>2, <1>4, <1>7, <1>8

LEMMA SavedBusy ==
    ASSUME TypeOK, Save
    PROVE  \A k \in Tasks : Busy(k)' => Busy(k)
<1>1. \A k \in Tasks : gaps'[k] = "open" => gaps[k] = "open" \/ k = save.key
  <2>1. gaps' \in {gaps, OpenGap(save.key), ResolveGap(save.key)}
    BY Zenon DEF Save, SaveRows, SaveProgress, SaveTask, SaveRaises, replay
  <2>. QED
    BY <2>1, SavingState DEF OpenGap, ResolveGap, TypeOK
<1>2. UNCHANGED <<reqs, procs, queue>>
  BY DEF Save, SaveRows, SaveProgress, SaveTask, SaveRaises, pools, replay
<1>. QED
  BY <1>1, <1>2, SavingState, SavedNext DEF Busy, Keys

\* What is left to be saved after each step.
LEMMA SaveRowsNext ==
    ASSUME TypeOK, SaveRows
    PROVE  /\ save'.stage = "progress"
           /\ \/ /\ save'.status = save.status /\ stored' = Replaced(save.key)
                 /\ torn' = IF sqlite THEN torn \ {save.key} ELSE torn
              \/ save'.status # "ok" /\ UNCHANGED <<stored, torn>>
<1>. DEFINE good == [save EXCEPT !.stage = "progress"]
            bad == [save EXCEPT !.stage = "progress", !.status = "persistence_error", !.gap = TRUE]
<1>1. /\ good.stage = "progress" /\ good.status = save.status
      /\ bad.stage = "progress" /\ bad.status = "persistence_error"
  BY SavingState DEF Results, Save
<1>2. \/ /\ save' = good /\ stored' = Replaced(save.key)
         /\ torn' = IF sqlite THEN torn \ {save.key} ELSE torn
      \/ save' = bad /\ UNCHANGED <<stored, torn>>
  BY Zenon DEF SaveRows
<1>. HIDE DEF good, bad
<1>. QED
  BY <1>1, <1>2

LEMMA SaveProgressNext ==
    ASSUME TypeOK, SaveProgress
    PROVE  save'.stage = "task" /\ save'.status = save.status
<1>. DEFINE good == [save EXCEPT !.stage = "task"]
<1>1. good.stage = "task" /\ good.status = save.status
  BY SavingState DEF Results, Save
<1>2. save' = good
  BY Zenon DEF SaveProgress
<1>. HIDE DEF good
<1>. QED
  BY <1>1, <1>2

LEMMA SaveRaisesNext ==
    ASSUME TypeOK, SaveRaises, save' # None
    PROVE  save'.status # "ok"
<1>. DEFINE s == IF save.from = "process" THEN "exception" ELSE "persistence_error"
            bad == [save EXCEPT !.stage = "progress", !.status = s, !.gap = TRUE]
<1>1. bad.status # "ok"
  BY SavingState DEF Results, Save
<1>2. save' = bad
  BY Zenon DEF SaveRaises
<1>. HIDE DEF bad
<1>. QED
  BY <1>1, <1>2

LEMMA SavingLedgered ==
    ASSUME TypeOK, Ledgered, Save
    PROVE  Ledgered'
<1>. DEFINE k == save.key
<1>a. /\ save # None /\ k \in Tasks /\ pc = "save" /\ Busy(k) /\ save.status \in Status
      /\ save.status \in Recorded
  BY SavingState
<1>b. /\ \A o \in Tasks : Busy(o)' => Busy(o)
      /\ pc' # "import" /\ Rested' /\ (save' # None => save'.key = k)
  BY SavedBusy, SavedNext DEF Rested, Preparing
<1>c. UNCHANGED <<todo, sqlite>> /\ todo \subseteq Tasks
  BY DEF Save, SaveRows, SaveProgress, SaveTask, SaveRaises, TypeOK, options
<1>. HIDE DEF k
<1>1. CASE SaveRows
  <2>1. UNCHANGED <<task, csv, progress>>
    BY <1>1 DEF SaveRows
  <2>2. \/ /\ save'.status = save.status /\ stored' = Replaced(k)
           /\ torn' = IF sqlite THEN torn \ {k} ELSE torn
        \/ save'.status # "ok" /\ UNCHANGED <<stored, torn>>
    BY <1>1, SaveRowsNext DEF k
  <2>3. \A o \in Tasks : Replaced(k)[o] = IF o = k /\ sqlite THEN 1 ELSE stored[o]
    BY <1>a DEF Replaced, TypeOK
  <2>4. Scheduled'
    BY <1>b, <1>c, <2>1, StillScheduled DEF Ledgered
  <2>5. Logged'
    BY <2>1 DEF Ledgered, Logged
  <2>6. Saving'
    <3>1. save.status = "ok" => csv[k] > 0
      BY <1>a DEF Ledgered, Saving, k
    <3>2. save'.stage = "progress"
      BY <1>1, SaveRowsNext
    <3>. QED
      BY <1>a, <1>b, <1>c, <2>1, <2>2, <2>3, <3>1, <3>2 DEF Saving
  <2>7. Kept'
    BY <1>a, <1>b, <1>c, <2>1, <2>2, <2>3 DEF Ledgered, Kept
  <2>. QED
    BY <1>b, <2>4, <2>5, <2>6, <2>7 DEF Ledgered
<1>2. CASE SaveProgress
  <2>1. UNCHANGED <<task, csv, stored, torn>> /\ progress' = LogProgress(k, save.status)
    BY <1>2 DEF SaveProgress, observers, k
  <2>2. /\ \A o \in Tasks : o # k => progress'[o] = progress[o]
        /\ progress'[k].last = save.status
        /\ progress'[k].ok <=> progress[k].ok \/ save.status = "ok"
    BY <1>a, <2>1 DEF LogProgress, TypeOK
  <2>3. save.status = "ok" => csv[k] > 0 /\ (sqlite => save.stage = "rows" \/ (stored[k] > 0 /\ k \notin torn))
    BY <1>a DEF Ledgered, Saving, k
  <2>4. Scheduled'
    BY <1>b, <1>c, <2>1, StillScheduled DEF Ledgered
  <2>5. Logged'
    BY <1>a, <2>1, <2>2, <2>3 DEF Ledgered, Logged
  <2>6. Saving'
    <3>1. save'.stage = "task" /\ save'.status = save.status /\ save.stage = "progress"
      BY <1>2, SaveProgressNext DEF SaveProgress
    <3>. QED
      BY <1>a, <1>b, <1>c, <2>1, <2>2, <2>3, <3>1 DEF Saving
  <2>7. Kept'
    BY <1>a, <1>b, <1>c, <2>1 DEF Ledgered, Kept
  <2>. QED
    BY <1>b, <2>4, <2>5, <2>6, <2>7 DEF Ledgered
<1>3. CASE SaveTask \/ SaveRaises
  <2>1. UNCHANGED <<csv, stored, torn, progress>> /\ task' \in {task, Upserted(k, save.status)}
        /\ save.stage = "task"
    BY <1>3 DEF SaveTask, SaveRaises, Upsert, observers, k
  <2>2. /\ \A o \in Tasks : task'[o] = "ok" => task[o] = "ok" \/ (o = k /\ save.status = "ok" /\ sqlite)
        /\ \A o \in Tasks : o # k => task'[o] = task[o]
    BY <1>a, <2>1, UpsertKeeps
  <2>3. save.status = "ok" => progress[k].ok /\ (sqlite => stored[k] > 0 /\ k \notin torn)
    BY <1>a, <2>1 DEF Ledgered, Saving, k
  <2>4. save' = None \/ save'.status # "ok"
    BY <1>3, SaveRaisesNext DEF SaveTask
  <2>5. Scheduled'
    BY <1>a, <1>b, <1>c, <2>2, StillScheduled DEF Ledgered
  <2>6. Logged' /\ Saving'
    BY <1>a, <2>1, <2>2, <2>3, <2>4 DEF Ledgered, Logged, Saving
  <2>7. Kept'
    BY <1>a, <1>b, <1>c, <2>1, <2>2, <2>3 DEF Ledgered, Kept
  <2>. QED
    BY <1>b, <2>5, <2>6, <2>7 DEF Ledgered
<1>. QED
  BY <1>1, <1>2, <1>3 DEF Save

LEMMA LedgeredStep == TypeOK /\ Ledgered /\ [Next]_vars => Ledgered'
BY StepKinds, GoesLedgered, ResubmitsLedgered, BeginsLedgered, EndsLedgered, AnsweredLedgered,
   SubmitLedgered, StartupLedgered, SavingLedgered, CrashLedgered

-----------------------------------------------------------------------------
(* The backlog and the logins *)

LEMMA MaxPendingType == MaxPending \in Nat \ {0}
BY CrawlAssumption DEF MaxPending

\* Finite pools that only lose members keep to any bound.
LEMMA FewerInPools ==
    ASSUME IsFiniteSet(reqs), IsFiniteSet(procs), reqs' \subseteq reqs, procs' \subseteq procs
    PROVE  /\ IsFiniteSet(reqs') /\ IsFiniteSet(procs')
           /\ Cardinality(reqs') <= Cardinality(reqs) /\ Cardinality(procs') <= Cardinality(procs)
           /\ Cardinality(reqs) \in Nat /\ Cardinality(procs) \in Nat
           /\ Cardinality(reqs') \in Nat /\ Cardinality(procs') \in Nat
BY FS_Subset, FS_CardinalityType

LEMMA BacklogStep == TypeOK /\ Rested /\ Backlog /\ [Next]_vars => Backlog'
<1>. SUFFICES ASSUME TypeOK, Rested, Backlog, [Next]_vars PROVE Backlog'
  OBVIOUS
<1>a. /\ IsFiniteSet(reqs) /\ IsFiniteSet(procs) /\ MaxPending \in Nat \ {0}
      /\ Cardinality(reqs) \in Nat /\ Cardinality(procs) \in Nat
  BY MaxPendingType, CrawlAssumption, FS_Subset, FS_CardinalityType DEF Backlog, TypeOK
<1>w. workers \in Nat \ {0} /\ Cardinality(reqs) + Cardinality(procs) <= MaxPending + workers - 1
  BY DEF TypeOK, Backlog, BacklogBounded
<1>1. ASSUME reqs' \subseteq reqs, procs' \subseteq procs, workers' = workers PROVE Backlog'
  BY <1>1, <1>a, <1>w, FewerInPools DEF Backlog, BacklogBounded
<1>2. ASSUME reqs' = {}, procs' = {}, workers' \in Nat \ {0} PROVE Backlog'
  BY <1>2, <1>a, FS_EmptySet DEF Backlog, BacklogBounded
<1>3. CASE Resubmits
  <2>1. PICK r \in reqs, q \in Requests : reqs' = (reqs \ {r}) \union {q}
    BY <1>3 DEF Resubmits
  <2>2. IsFiniteSet(reqs \ {r}) /\ Cardinality(reqs \ {r}) = Cardinality(reqs) - 1
    BY <1>a, FS_RemoveElement
  <2>3. IsFiniteSet(reqs') /\ Cardinality(reqs') <= Cardinality(reqs) /\ Cardinality(reqs') \in Nat
    <3>1. /\ IsFiniteSet(reqs')
          /\ \/ Cardinality(reqs') = Cardinality(reqs \ {r})
             \/ Cardinality(reqs') = Cardinality(reqs \ {r}) + 1
      BY <2>1, <2>2, FS_AddElement, Zenon
    <3>2. Cardinality(reqs \ {r}) \in Nat
      BY <2>2, FS_CardinalityType
    <3>. QED
      BY <1>a, <2>2, <3>1, <3>2
  <2>. QED
    BY <1>3, <1>a, <1>w, <2>3 DEF Resubmits, Backlog, BacklogBounded
<1>4. ASSUME NEW r \in reqs, Answered(r) PROVE Backlog'
  <2>1. IsFiniteSet(reqs') /\ Cardinality(reqs') = Cardinality(reqs) - 1
    BY <1>a, <1>4, FS_RemoveElement DEF Answered
  <2>2. Cardinality(procs') <= Cardinality(procs) + 1 /\ Cardinality(procs') \in Nat
    BY <1>a, <1>4, FS_AddElement, FS_CardinalityType DEF Answered
  <2>. QED
    BY <1>4, <1>a, <1>w, <2>1, <2>2 DEF Answered, options, Backlog, BacklogBounded
<1>5. ASSUME NEW k \in Tasks, Submit(k) PROVE Backlog'
  <2>1. Cardinality(reqs) < workers /\ Cardinality(procs) < MaxPending
    BY <1>5 DEF Submit, CanSubmit
  <2>2. IsFiniteSet(reqs') /\ Cardinality(reqs') <= Cardinality(reqs) + 1 /\ Cardinality(reqs') \in Nat
    <3>1. reqs' = reqs \union {Request(k)}
      BY <1>5 DEF Submit
    <3>2. IsFiniteSet(reqs') /\ (Cardinality(reqs') = Cardinality(reqs) \/ Cardinality(reqs') = Cardinality(reqs) + 1)
      BY <1>a, <3>1, FS_AddElement, Zenon
    <3>. QED
      BY <1>a, <3>2
  <2>. QED
    BY <1>5, <1>a, <1>w, <2>1, <2>2 DEF Submit, options, Backlog, BacklogBounded
<1>6. CASE Start
  <2>1. reqs' = {} /\ procs' = {}
    BY <1>6 DEF Start, pools, Rested, Preparing
  <2>. QED
    BY <1>2, <1>6, <2>1, TypeStep DEF TypeOK
<1>7. CASE Startup \/ Save
  <2>1. CASE ImportRows
    BY <1>2, <2>1 DEF ImportRows, Gone
  <2>2. CASE ~ImportRows
    BY <1>1, <1>7, <2>2
       DEF Startup, Bootstrap, ImportTask, ImportFails, Requeue, EnsureTasks, Load, Save, SaveRows,
           SaveProgress, SaveTask, SaveRaises, pools, options
  <2>. QED
    BY <2>1, <2>2
<1>8. CASE Ends \/ Crash
  BY <1>2, <1>8 DEF Ends, Crash, Gone
<1>9. CASE Goes \/ Begins
  BY <1>1, <1>9 DEF Goes, Begins
<1>. QED
  BY <1>3, <1>4, <1>5, <1>6, <1>7, <1>8, <1>9, StepKinds

LEMMA RangeSplit ==
    ASSUME NEW low \in Nat, NEW high \in Nat, low <= high
    PROVE  \A g \in 0..(high - 1) : g \in 0..(low - 1) \/ g \in low..(high - 1)
OBVIOUS

LEMMA ReloginStep == TypeOK /\ ReloginOnlyWhenExpired /\ [Next]_vars => ReloginOnlyWhenExpired'
<1>. SUFFICES ASSUME TypeOK, ReloginOnlyWhenExpired, [Next]_vars PROVE ReloginOnlyWhenExpired'
  OBVIOUS
<1>. USE DEF ReloginOnlyWhenExpired
<1>1. CASE UNCHANGED session
  BY <1>1 DEF session
<1>2. CASE Gone
  BY <1>2 DEF Gone
<1>3. CASE Resubmits \/ Begins
  <2>1. gen \in Nat /\ gen' \in Nat /\ gen <= gen' /\ expired \subseteq expired'
        /\ gen .. (gen' - 1) \subseteq expired'
    BY <1>3 DEF Resubmits, Begins, TypeOK
  <2>2. \A g \in 0..(gen' - 1) : g \in 0..(gen - 1) \/ g \in gen..(gen' - 1)
    BY <2>1, RangeSplit
  <2>. QED
    BY <2>1, <2>2
<1>4. CASE Startup \/ Save
  BY <1>1, <1>2, <1>4
     DEF Startup, Bootstrap, ImportTask, ImportRows, ImportFails, Requeue, EnsureTasks, Load, Save,
         SaveRows, SaveProgress, SaveTask, SaveRaises
<1>. QED
  BY <1>1, <1>2, <1>3, <1>4, StepKinds DEF Goes, Ends, Crash, Answered, Submit, Start, session

-----------------------------------------------------------------------------
(* The crawl implements the ledger *)

Stored == {k \in Tasks : stored[k] > 0}

LedgerNext == Ledger!Next \/ UNCHANGED <<Stored, Credit, live>>

\* A step that leaves rows and credits alone.
LEMMA LedgerStutter ==
    ASSUME UNCHANGED <<stored, task, torn, live>>, (pc = "import") = (pc' = "import")
    PROVE  LedgerNext
BY DEF LedgerNext, Stored, Credit

\* A record of one task, with its rows if it counts as collected.
LEMMA LedgerRecord ==
    ASSUME TypeOK, NEW k \in Tasks, NEW s \in Status, task' \in {task, Upserted(k, s)},
           s = "ok" /\ sqlite => stored[k] > 0 /\ k \notin torn,
           UNCHANGED <<stored, torn, live>>, pc # "import", pc' # "import"
    PROVE  LedgerNext
<1>1. Stored' = Stored /\ live' = live
  BY DEF Stored
<1>2. Credit' \in {Credit, Credit \union {k}, Credit \ {k}}
      /\ (Credit' = Credit \union {k} => k \in Stored \/ Credit' = Credit)
  <2>1. CASE task' = task \/ ~sqlite
    BY <2>1 DEF Credit, Upserted
  <2>2. CASE task' = Upserted(k, s) /\ sqlite /\ s = "ok"
    BY <2>2 DEF Credit, Upserted, Stored, TypeOK
  <2>3. CASE task' = Upserted(k, s) /\ sqlite /\ s # "ok"
    <3>1. Credit' = Credit \ {k}
      BY <2>3 DEF Credit, Upserted, TypeOK
    <3>. QED
      BY <3>1
  <2>. QED
    BY <2>1, <2>2, <2>3
<1>. HIDE DEF Credit, Stored
<1>3. CASE Credit' = Credit
  BY <1>1, <1>3 DEF LedgerNext
<1>4. CASE Credit' = Credit \union {k} /\ k \in Stored
  BY <1>1, <1>4 DEF LedgerNext, Ledger!Next, Ledger!Credit, Stored
<1>5. CASE Credit' = Credit \ {k}
  BY <1>1, <1>5 DEF LedgerNext, Ledger!Next, Ledger!Doubt, Stored
<1>. QED
  BY <1>2, <1>3, <1>4, <1>5

\* The import writes tables without a credited task.
LEMMA LedgerImport ==
    ASSUME Credit = {}, Credit' \subseteq Stored', UNCHANGED live
    PROVE  LedgerNext
<1>1. Stored' \in SUBSET Tasks
  BY DEF Stored
<1>. QED
  BY <1>1 DEF LedgerNext, Ledger!Next, Ledger!Import, Stored

LEMMA LedgerGoes ==
    ASSUME TypeOK, Goes
    PROVE  LedgerNext
<1>1. CASE live' = live
  BY <1>1, LedgerStutter DEF Goes
<1>2. CASE live' = Stored
  <2>1. Stored' = Stored /\ Credit' = Credit
    BY DEF Goes, Stored, Credit
  <2>. QED
    BY <1>2, <2>1 DEF LedgerNext, Ledger!Next, Ledger!Publish, Stored
<1>. QED
  BY <1>1, <1>2 DEF Goes, Stored

LEMMA LedgerStartup ==
    ASSUME TypeOK, Ledgered, Startup
    PROVE  LedgerNext
<1>. USE DEF observers
<1>1. CASE Bootstrap
  <2>1. CASE NeedsImport
    <3>1. Credit = {} /\ Credit' = {}
      BY <1>1, <2>1, NoneAssumption DEF Bootstrap, NeedsImport, Credit, Status
    <3>. QED
      BY <1>1, <3>1, LedgerImport DEF Bootstrap
  <2>. QED
    BY <1>1, <2>1, LedgerStutter DEF Bootstrap
<1>2. ASSUME NEW k \in Tasks, ImportTask(k) PROVE LedgerNext
  <2>1. Credit = {} /\ Credit' = {} /\ Stored' = Stored /\ live' = live
    BY <1>2 DEF ImportTask, Credit, Stored
  <2>. QED
    BY <2>1 DEF LedgerNext
<1>3. CASE ImportRows
  <2>1. \A k \in Tasks : task[k] = "ok" => csv[k] > 0
    BY DEF Ledgered, Logged
  <2>2. Credit = {} /\ Credit' \subseteq Stored' /\ live' = live
    BY <1>3, <2>1 DEF ImportRows, Gone, Credit, Stored
  <2>. QED
    BY <2>2, LedgerImport
<1>4. CASE ImportFails
  <2>1. Credit = {} /\ Credit' = {} /\ live' = live
    BY <1>4 DEF ImportFails, Credit
  <2>. QED
    BY <2>1, LedgerImport
<1>5. CASE Requeue \/ EnsureTasks
  <2>1. \A k \in Tasks : (task'[k] = "ok") = (task[k] = "ok")
    BY <1>5, NoneAssumption DEF Requeue, Requeued, EnsureTasks, Ensured, Status
  <2>2. Credit' = Credit /\ Stored' = Stored /\ live' = live
    BY <1>5, <2>1 DEF Requeue, EnsureTasks, Credit, Stored
  <2>. QED
    BY <2>2 DEF LedgerNext
<1>6. CASE Load
  BY <1>6, LedgerStutter DEF Load, disk
<1>. QED
  BY <1>1, <1>2, <1>3, <1>4, <1>5, <1>6 DEF Startup

LEMMA LedgerSave ==
    ASSUME TypeOK, Ledgered, Save
    PROVE  LedgerNext
<1>. DEFINE k == save.key
<1>a. /\ save # None /\ k \in Tasks /\ pc = "save" /\ Busy(k) /\ save.status \in Status
      /\ pc' # "import"
  BY SavingState, SavedNext
<1>. HIDE DEF k
<1>1. CASE SaveRows
  <2>1. CASE UNCHANGED <<stored, torn>>
    BY <1>1, <1>a, <2>1, LedgerStutter DEF SaveRows
  <2>2. CASE stored' = Replaced(k) /\ torn' = IF sqlite THEN torn \ {k} ELSE torn
    <3>1. CASE ~sqlite
      BY <2>1, <2>2, <3>1 DEF Replaced
    <3>2. CASE sqlite
      <4>1. Stored' = Stored \union {k}
        BY <1>a, <2>2, <3>2 DEF Stored, Replaced, TypeOK
      <4>2. Credit' = Credit
        BY <1>1, <1>a, <2>2, <3>2 DEF SaveRows, Credit, Ledgered, Kept
      <4>. QED
        BY <1>1, <1>a, <4>1, <4>2 DEF SaveRows, LedgerNext, Ledger!Next, Ledger!Store, Stored
    <3>. QED
      BY <3>1, <3>2
  <2>. QED
    BY <1>1, <2>1, <2>2, SaveRowsNext DEF k
<1>2. CASE SaveProgress
  BY <1>2, <1>a, LedgerStutter DEF SaveProgress, observers
<1>3. CASE SaveTask \/ SaveRaises
  <2>1. UNCHANGED <<stored, torn, live>> /\ task' \in {task, Upserted(k, save.status)}
        /\ save.stage = "task"
    BY <1>3 DEF SaveTask, SaveRaises, Upsert, observers, k
  <2>2. save.status = "ok" /\ sqlite => stored[k] > 0 /\ k \notin torn
    BY <1>a, <2>1 DEF Ledgered, Saving, k
  <2>. QED
    BY <1>a, <2>1, <2>2, LedgerRecord
<1>. QED
  BY <1>1, <1>2, <1>3 DEF Save

LEMMA LedgerStep == TypeOK /\ Ledgered /\ [Next]_vars => LedgerNext
<1>. SUFFICES ASSUME TypeOK, Ledgered, [Next]_vars PROVE LedgerNext
  OBVIOUS
<1>1. CASE Resubmits
  <2>1. PICK r \in reqs : task' \in {task, Upserted(r.key, "running")}
    BY <1>1 DEF Resubmits
  <2>. QED
    BY <1>1, <2>1, RequestType, LedgerRecord DEF Resubmits, Preparing, Status
<1>2. CASE Begins
  <2>1. UNCHANGED <<task, stored, live, torn>> /\ pc' = "save" /\ pc # "import"
    BY <1>2, BeginSaveType DEF Begins, Preparing
  <2>. QED
    BY <2>1, LedgerStutter
<1>3. CASE Ends
  BY <1>3, LedgerStutter DEF Ends, Gone
<1>4. ASSUME NEW r \in reqs, Answered(r) PROVE LedgerNext
  BY <1>4, LedgerStutter DEF Answered, disk, observers, Finalizing, AfterRequest
<1>5. ASSUME NEW k \in Tasks, Submit(k) PROVE LedgerNext
  <2>1. task' \in {task, Upserted(k, "running")} /\ UNCHANGED <<stored, torn, live>>
        /\ pc # "import" /\ pc' # "import"
    BY <1>5 DEF Submit, Upsert, observers
  <2>. QED
    BY <2>1, LedgerRecord DEF Status
<1>6. CASE Start
  BY <1>6, LedgerStutter DEF Start, disk
<1>7. CASE Crash /\ pc = "import"
  <2>1. Credit = {} /\ Credit' = {} /\ live' = live
    BY <1>7 DEF Crash, Gone, Credit
  <2>. QED
    BY <2>1, LedgerImport
<1>. QED
  BY <1>1, <1>2, <1>3, <1>4, <1>5, <1>6, <1>7, StepKinds, LedgerGoes, LedgerStartup, LedgerSave

-----------------------------------------------------------------------------
(* The theorems *)

LEMMA InitInv == Init => IInv
<1>. SUFFICES ASSUME Init PROVE IInv
  OBVIOUS
<1>1. TypeOK /\ Ledgered
  BY InitType, InitLedgered
<1>2. Backlog
  BY FS_EmptySet, MaxPendingType DEF Init, Backlog, BacklogBounded
<1>3. ReloginOnlyWhenExpired
  BY DEF Init, ReloginOnlyWhenExpired
<1>. QED
  BY <1>1, <1>2, <1>3 DEF IInv

LEMMA Invariant == Spec => []IInv
<1>1. IInv /\ [Next]_vars => IInv'
  BY TypeStep, LedgeredStep, BacklogStep, ReloginStep DEF IInv, Ledgered
<1>. QED
  BY <1>1, InitInv, PTL DEF Spec

\* The variables of the model keep their types.
THEOREM TypeCorrect == Spec => []TypeOK
<1>1. IInv => TypeOK
  BY DEF IInv
<1>. QED
  BY <1>1, Invariant, PTL

\* The requests under way and the answers that wait stay within
\* --max-pending-process and the request workers, for any of both.
THEOREM BacklogSafe == Spec => []BacklogBounded
<1>1. IInv => BacklogBounded
  BY DEF IInv, Backlog
<1>. QED
  BY <1>1, Invariant, PTL

\* Any number of requests may expire together: a session is replaced only
\* after an answer called it expired (refresh_request_auth_state).
THEOREM ReloginSafe == Spec => []ReloginOnlyWhenExpired
<1>1. IInv => ReloginOnlyWhenExpired
  BY DEF IInv
<1>. QED
  BY <1>1, Invariant, PTL

\* A task recorded as collected is not requested again, by this attempt of the
\* run or by any later one.
THEOREM NotAgain == Spec => CollectedIsNotRequestedAgain
<1>. DEFINE Step == \A k \in Tasks : k \in Keys(reqs') \ Keys(reqs) => task[k] # "ok"
<1>1. IInv /\ [Next]_vars => Step
  <2>. SUFFICES ASSUME IInv, [Next]_vars, NEW k \in Tasks, k \in Keys(reqs') \ Keys(reqs)
                PROVE  task[k] # "ok"
    OBVIOUS
  <2>. USE DEF IInv, Keys
  <2>1. CASE reqs' \subseteq reqs
    BY <2>1
  <2>2. CASE Resubmits
    BY <2>2 DEF Resubmits
  <2>3. ASSUME NEW o \in Tasks, Submit(o) PROVE task[k] # "ok"
    BY <2>3 DEF Submit, Request, Ledgered, Scheduled
  <2>4. CASE Startup \/ Save
    BY <2>1, <2>4
       DEF Startup, Bootstrap, ImportTask, ImportRows, ImportFails, Requeue, EnsureTasks, Load,
           Save, SaveRows, SaveProgress, SaveTask, SaveRaises, Gone, pools
  <2>. QED
    BY <2>1, <2>2, <2>3, <2>4, StepKinds
       DEF Goes, Begins, Ends, Crash, Gone, Answered, Start, pools
<1>. QED
  BY <1>1, Invariant, PTL DEF Spec, CollectedIsNotRequestedAgain

\* The crawl implements the task ledger, over every order of answers, retry,
\* error and restart.
THEOREM Implements == Spec => ImplementsLedger
<1>1. Init => Ledger!Init
  <2>1. Init => {k \in Tasks : stored[k] > 0} = {} /\ Credit = {} /\ live = {}
    BY NoneAssumption DEF Init, Credit, Status
  <2>. QED
    BY <2>1 DEF Ledger!Init
<1>2. IInv /\ [Next]_vars => [Ledger!Next]_(Ledger!ledger)
  BY LedgerStep DEF IInv, LedgerNext, Stored, Ledger!ledger
<1>. QED
  BY <1>1, <1>2, Invariant, PTL DEF Spec, ImplementsLedger, Ledger!Spec

-----------------------------------------------------------------------------
(***************************************************************************)
(* What a run that ends has done.  A task that still has to be tried is in *)
(* the hands of the attempt: scheduled, requested, waiting for the parser  *)
(* or being saved, as long as the database answers.  Where the replay      *)
(* begins both pools are empty, and the schedule too unless the run was    *)
(* stopped; and in a pass every open gap was replayed or is in the queue.  *)
(***************************************************************************)
Held(k) ==
    \/ k \in todo \/ k \in procs
    \/ \E r \in reqs : r.key = k
    \/ save # None /\ save.key = k

Untried(k) == task[k] \in {"pending", "running"} \/ (task[k] = Absent /\ k \in plan)

Covered ==
    sqlite /\ ~dbFault =>
        /\ pc \in {"ensure", "load"} => \A k \in Tasks : task[k] # "running"
        /\ pc = "load" => \A k \in plan : task[k] # Absent
        /\ ~Preparing => \A k \in Tasks : Untried(k) => Held(k)

\* Where the saving of a result goes back to.
AtBack(steps) == save # None /\ save.back \in steps

Draining == {"drain_requests", "drain_processing"}
Replaying == {"replay", "replaying", "finish"}

Phased ==
    /\ Preparing => ~stop
    /\ stop => fatal \/ status = "stopped_max_tasks"
    /\ pc \in Replaying \/ AtBack({"replaying"}) \/ status = "completed" =>
          reqs = {} /\ procs = {} /\ (stop \/ todo = {})
    /\ status = "completed" => ~stop /\ pc \in Draining \union {"exit"}
    /\ pass \in Nat
    /\ pass > 0 => \/ pc \in Replaying \union Draining \union {"exit"}
                   \/ AtBack({"replaying"} \union Draining)

GapsSeen ==
    /\ AtBack({"replaying"}) => save.key \in replayed
    /\ ~fatal /\ (pc = "replaying" \/ AtBack({"replaying"})) =>
          OpenGaps \subseteq replayed \union queue
    /\ ~fatal /\ pass > 0 /\ pc = "replay" => OpenGaps \subseteq replayed
    /\ OpenGapsWereReplayed

EndInv == TypeOK /\ Covered /\ Phased /\ GapsSeen

\* Requests of the loop or of the drain, which the replay does not make.
LEMMA Backs ==
    ASSUME TypeOK
    PROVE  /\ AfterRequest \in {"more_requests", "drain_requests"}
           /\ AfterProcess \in {"top", "drain_processing"}
           /\ AfterRaise \in Draining \union {"exit"}
           /\ pc = "drain_requests" <=> AfterRequest = "drain_requests"
           /\ pc = "drain_processing" <=> AfterProcess = "drain_processing"
           /\ save # None => save.back \in {"more_requests", "top", "replaying"} \union Draining
BY DEF AfterRequest, AfterProcess, AfterRaise, Draining, TypeOK, Results

\* A result that begins to be saved.
LEMMA Saved ==
    ASSUME TypeOK, NEW k \in Tasks, NEW s \in Recorded,
           NEW from \in {"request", "process", "replay"}, NEW isGap \in BOOLEAN,
           NEW back \in {"more_requests", "top", "drain_requests", "drain_processing", "replaying"},
           BeginSave(Result(k, s, from, isGap, back))
    PROVE  /\ pc' = "save" /\ save' # None /\ UNCHANGED task
           /\ save'.key = k /\ save'.back = back
<1>. DEFINE result == Result(k, s, from, isGap, back)
<1>1. result \in Results /\ result.key = k /\ result.back = back
  BY DEF Result, Results
<1>. HIDE DEF result
<1>2. BeginSave(result)
  BY DEF result
<1>. QED
  BY <1>1, <1>2, BeginSaveType

\* What saving leaves of the result.
LEMMA SaveKeeps ==
    ASSUME TypeOK, Save
    PROVE  /\ save # None /\ pc = "save" /\ save.key \in Tasks /\ save.status \in Recorded
           /\ UNCHANGED <<reqs, procs, todo, sqlite, plan, stop, fatal, status, pass, queue, replayed>>
           /\ \/ save' # None /\ pc' = "save" /\ save'.key = save.key /\ save'.back = save.back
              \/ save' = None /\ pc' \in {save.back, AfterRaise}
<1>1. save # None /\ pc = "save" /\ save \in Results /\ save.key \in Tasks /\ save.status \in Recorded
  BY SavingState
<1>2. UNCHANGED <<reqs, procs, todo, sqlite, plan, stop, fatal, status, pass, queue, replayed>>
  BY DEF Save, SaveRows, SaveProgress, SaveTask, SaveRaises, options, pools, ending, replay
<1>3. CASE SaveTask
  BY <1>1, <1>2, <1>3 DEF SaveTask
<1>4. CASE SaveRows
  <2>1. save' # None
    BY <1>1, <1>4, SavingType DEF SaveRows, TypeOK
  <2>. QED
    BY <1>1, <1>2, <1>4, <2>1 DEF SaveRows, Results
<1>5. CASE SaveProgress
  <2>1. save' # None
    BY <1>1, <1>5, SavingType DEF SaveProgress, TypeOK
  <2>. QED
    BY <1>1, <1>2, <1>5, <2>1 DEF SaveProgress, Results
<1>6. CASE SaveRaises
  <2>1. CASE save.from \in {"process", "replay"} /\ save.status \in {"ok", "zero_row"}
    <3>1. PICK x : pc' = pc /\ save' = [save EXCEPT !.stage = "progress", !.status = x, !.gap = TRUE]
      BY <1>6, <2>1, Zenon DEF SaveRaises
    <3>2. save'.key = save.key /\ save'.back = save.back
      BY <1>1, <3>1, ZenonT(30) DEF Results
    <3>3. save' # None
      BY <1>1, <1>6, <3>1, SavingType DEF TypeOK
    <3>. QED
      BY <1>1, <1>2, <3>1, <3>2, <3>3
  <2>2. CASE ~(save.from \in {"process", "replay"} /\ save.status \in {"ok", "zero_row"})
    <3>1. pc' = AfterRaise /\ save' = None
      BY <1>6, <2>2, Zenon DEF SaveRaises
    <3>. QED
      BY <1>1, <1>2, <3>1
  <2>. QED
    BY <2>1, <2>2
<1>. QED
  BY <1>3, <1>4, <1>5, <1>6 DEF Save

LEMMA EndInit == Init => EndInv
BY InitType DEF Init, EndInv, Covered, Phased, GapsSeen, Preparing, AtBack, Replaying, Draining,
   OpenGapsWereReplayed

(***************************************************************************)
(* Nothing that has to be tried is dropped.                                *)
(***************************************************************************)
\* A step that keeps hold of what it records.
LEMMA StillCovered ==
    ASSUME TypeOK, Covered, ~Preparing, ~Preparing',
           UNCHANGED <<sqlite, plan>>, ~dbFault' => ~dbFault,
           sqlite /\ ~dbFault' =>
               \A k \in Tasks : Untried(k)' => Held(k)' \/ (Untried(k) /\ ~Held(k))
    PROVE  Covered'
BY DEF Covered, Preparing

LEMMA CoveredNext ==
    ASSUME TypeOK, Covered, [Next]_vars
    PROVE  Covered'
<1>. USE DEF disk, options, pools, session, ending, replay, observers, trouble
<1>1. CASE Start
  BY <1>1 DEF Start, Covered, Preparing
<1>2. CASE Startup
  <2>1. CASE Bootstrap
    BY <1>2, <2>1 DEF Bootstrap, Covered, Preparing
  <2>2. ASSUME NEW k \in Tasks, ImportTask(k) PROVE Covered'
    BY <2>2 DEF ImportTask, Covered, Preparing
  <2>3. CASE ImportRows
    BY <2>3 DEF ImportRows, Gone, Covered, Preparing
  <2>4. CASE ImportFails
    BY <2>4 DEF ImportFails, Covered, Preparing
  <2>5. CASE Requeue
    BY <2>5 DEF Requeue, Requeued, Covered, Preparing, TypeOK
  <2>6. CASE EnsureTasks
    <3>1. SUFFICES ASSUME sqlite', ~dbFault' PROVE Covered'
      BY DEF Covered
    <3>2. /\ task' = Ensured /\ UNCHANGED dbFault /\ pc = "ensure" /\ pc' = "load"
          /\ UNCHANGED <<sqlite, plan>>
      BY <2>6, <3>1, Zenon DEF EnsureTasks
    <3>3. \A k \in Tasks : task[k] # "running"
      BY <3>1, <3>2 DEF Covered
    <3>4. Absent # "pending"
      BY NoneAssumption DEF Status
    <3>5. (\A k \in Tasks : task'[k] # "running") /\ \A k \in plan : task'[k] # Absent
      BY <3>2, <3>3, <3>4 DEF Ensured, TypeOK
    <3>. QED
      BY <3>2, <3>5 DEF Covered, Preparing
  <2>7. CASE Load
    <3>1. SUFFICES ASSUME sqlite', ~dbFault', NEW k \in Tasks, Untried(k)'
                   PROVE  Held(k)'
      BY <2>7 DEF Load, Covered
    <3>2. sqlite /\ ~dbFault /\ task[k] = "pending" /\ UNCHANGED task
      BY <2>7, <3>1 DEF Load, Covered, Untried
    <3>3. k \in todo'
      BY <2>7, <3>1, <3>2 DEF Load, Schedulable
    <3>. QED
      BY <3>3 DEF Held
  <2>. QED
    BY <1>2, <2>1, <2>2, <2>3, <2>4, <2>5, <2>6, <2>7 DEF Startup
<1>3. CASE Save
  <2>1. ~Preparing /\ ~Preparing'
    BY <1>3, SaveKeeps, SavedNext DEF Preparing
  <2>2. ~dbFault' => ~dbFault
    BY <1>3 DEF Save, SaveRows, SaveProgress, SaveTask, SaveRaises, Upsert
  <2>3. ASSUME sqlite, ~dbFault', NEW k \in Tasks, Untried(k)'
        PROVE  Held(k)' \/ (Untried(k) /\ ~Held(k))
    <3>1. CASE save' # None
      <4>1. Held(k)' <=> Held(k)
        BY <1>3, <3>1, SaveKeeps DEF Held
      <4>2. Untried(k)
        <5>1. task' \in {task, Upserted(save.key, save.status)}
          BY <1>3 DEF Save, SaveRows, SaveProgress, SaveTask, SaveRaises, Upsert
        <5>2. task'[k] = task[k] \/ task'[k] \in Recorded
          BY <1>3, <5>1, SaveKeeps DEF Upserted, TypeOK
        <5>. QED
          BY <1>3, <2>3, <5>2, SaveKeeps, NoneAssumption DEF Untried, Recorded, Status
      <4>. QED
        BY <4>1, <4>2
    <3>2. CASE save' = None
      <4>1. task' = Upserted(save.key, save.status)
        <5>1. SaveTask \/ SaveRaises
          BY <1>3, <3>2, SavingType DEF Save, SaveRows, SaveProgress, TypeOK
        <5>. QED
          BY <2>3, <5>1 DEF SaveTask, SaveRaises, Upsert
      <4>2. k # save.key
        BY <1>3, <2>3, <4>1, SaveKeeps, NoneAssumption DEF Untried, Upserted, TypeOK, Recorded, Status
      <4>3. task'[k] = task[k]
        BY <1>3, <4>1, <4>2, SaveKeeps DEF Upserted, TypeOK
      <4>. QED
        BY <1>3, <2>3, <3>2, <4>2, <4>3, SaveKeeps DEF Untried, Held
    <3>. QED
      BY <3>1, <3>2
  <2>. QED
    BY <1>3, <2>1, <2>2, <2>3, SaveKeeps, StillCovered
<1>4. ASSUME NEW k \in Tasks, Submit(k) PROVE Covered'
  <2>1. ~Preparing /\ ~Preparing' /\ (~dbFault' => ~dbFault)
    BY <1>4 DEF Submit, Upsert, Preparing
  <2>2. \A o \in Tasks : o # k => (Untried(o)' <=> Untried(o)) /\ (Held(o)' <=> Held(o))
    BY <1>4 DEF Submit, Upsert, Upserted, Untried, Held, Request, TypeOK
  <2>3. Request(k) \in reqs' /\ Request(k).key = k
    BY <1>4 DEF Submit, Request
  <2>4. Held(k)'
    BY <2>3 DEF Held
  <2>. QED
    BY <1>4, <2>1, <2>2, <2>4, StillCovered DEF Submit
<1>5. CASE Resubmits
  <2>1. PICK r \in reqs, q \in Requests :
          /\ q.key = r.key /\ reqs' = (reqs \ {r}) \union {q}
          /\ task' \in {task, Upserted(r.key, "running")}
    BY <1>5 DEF Resubmits
  <2>2. ~Preparing /\ ~Preparing' /\ (~dbFault' => ~dbFault)
        /\ UNCHANGED <<sqlite, plan, todo, procs, save>>
    BY <1>5 DEF Resubmits
  <2>3. \A k \in Tasks : Held(k) => Held(k)'
    BY <2>1, <2>2 DEF Held
  <2>4. Held(r.key)' /\ r.key \in Tasks
    BY <2>1, RequestType DEF Held
  <2>5. \A k \in Tasks : k # r.key => (Untried(k)' <=> Untried(k))
    BY <2>1, <2>2, <2>4 DEF Untried, Upserted, TypeOK
  <2>. QED
    BY <2>2, <2>3, <2>4, <2>5, StillCovered
<1>6. CASE Begins
  <2>1. PICK result \in Results :
          /\ BeginSave(result)
          /\ (\A r \in reqs \ reqs' : r.key = result.key) /\ procs \ procs' \subseteq {result.key}
    BY <1>6 DEF Begins
  <2>2. pc' = "save" /\ save' = result /\ save' # None /\ UNCHANGED task
    BY <2>1, BeginSaveType
  <2>3. ~Preparing /\ save = None /\ UNCHANGED <<sqlite, plan, todo, dbFault>>
    BY <1>6 DEF Begins, TypeOK
  <2>4. \A k \in Tasks : (Held(k) => Held(k)') /\ (Untried(k)' <=> Untried(k))
    BY <2>1, <2>2, <2>3 DEF Held, Untried
  <2>5. ~Preparing'
    BY <2>2 DEF Preparing
  <2>. QED
    BY <2>2, <2>3, <2>4, <2>5, StillCovered
<1>7. ASSUME NEW r \in reqs, Answered(r) PROVE Covered'
  <2>1. ~Preparing /\ ~Preparing'
    BY <1>7 DEF Answered, Finalizing, AfterRequest, Preparing
  <2>2. \A k \in Tasks : (Held(k) => Held(k)') /\ (Untried(k)' <=> Untried(k))
    BY <1>7 DEF Answered, Held, Untried
  <2>. QED
    BY <1>7, <2>1, <2>2, StillCovered DEF Answered
<1>8. CASE Goes
  <2>1. CASE Preparing
    BY <1>8, <2>1 DEF Goes, Covered
  <2>2. CASE ~Preparing
    BY <1>8, <2>2, StillCovered DEF Goes, Held, Untried
  <2>. QED
    BY <2>1, <2>2
<1>9. CASE Ends \/ Crash
  BY <1>9 DEF Ends, Crash, Gone, Covered, Preparing
<1>. QED
  BY <1>1, <1>2, <1>3, <1>4, <1>5, <1>6, <1>7, <1>8, <1>9, StepKinds

(***************************************************************************)
(* The replay begins with empty pools, and what is done then is the end.   *)
(***************************************************************************)
\* Where an answer leads.
LEMMA RequestGoes ==
    ASSUME TypeOK, NEW r \in reqs, FinalizeRequest(r)
    PROVE  /\ Finalizing /\ UNCHANGED pass
           /\ \/ pc' = AfterRequest /\ UNCHANGED save
              \/ pc' = "save" /\ save' # None /\ save'.back = AfterRequest
<1>. USE DEF session, options, pools, ending, replay, observers, trouble, disk
<1>1. Finalizing /\ UNCHANGED pass
  <2>1. Finalizing
    BY DEF FinalizeRequest, RequestRaises, StaleExpired, ExpiredRelogin, ExpiredReloginFails, ExpiredForGood,
           MembershipExpired, ApiCode, Answered
  <2>2. UNCHANGED pass
    BY DEF FinalizeRequest, RequestRaises, StaleExpired, ExpiredRelogin, ExpiredReloginFails, ExpiredForGood,
           MembershipExpired, ApiCode, Answered, Resubmit, Refuse
  <2>. QED
    BY <2>1, <2>2
<1>2. \/ pc' = AfterRequest /\ UNCHANGED save
      \/ pc' = "save" /\ save' # None /\ save'.back = AfterRequest
  <2>1. \/ pc' = AfterRequest /\ UNCHANGED save
        \/ \E s \in {"error", "exception"}, isGap \in BOOLEAN : Refuse(r, s, isGap)
    BY Zenon
       DEF FinalizeRequest, RequestRaises, StaleExpired, ExpiredRelogin, ExpiredReloginFails,
           ExpiredForGood, MembershipExpired, ApiCode, Answered, Resubmit
  <2>2. ASSUME NEW s \in {"error", "exception"}, NEW isGap \in BOOLEAN, Refuse(r, s, isGap)
        PROVE  pc' = "save" /\ save' # None /\ save'.back = AfterRequest
    <3>1. r.key \in Tasks /\ s \in Recorded
          /\ AfterRequest \in {"more_requests", "top", "drain_requests", "drain_processing", "replaying"}
      BY RequestType, RecordedType DEF AfterRequest
    <3>2. BeginSave(Result(r.key, s, "request", isGap, AfterRequest))
      BY <2>2, Zenon DEF Refuse
    <3>. QED
      BY <3>1, <3>2, Saved
  <2>. QED
    BY <2>1, <2>2
<1>. QED
  BY <1>1, <1>2

LEMMA ProcessGoes ==
    ASSUME TypeOK, NEW k \in procs, FinalizeProcess(k)
    PROVE  pc' = "save" /\ save' # None /\ save'.back = AfterProcess
<1>1. PICK s \in {"ok", "zero_row", "exception"} :
        BeginSave(Result(k, s, "process", s # "ok", AfterProcess))
  BY DEF FinalizeProcess
<1>2. k \in Tasks /\ s \in Recorded /\ (s # "ok") \in BOOLEAN
      /\ AfterProcess \in {"more_requests", "top", "drain_requests", "drain_processing", "replaying"}
  BY RecordedType DEF AfterProcess, TypeOK
<1>. QED
  BY <1>1, <1>2, Saved

LEMMA PhasedRequest ==
    ASSUME TypeOK, Phased, NEW r \in reqs, FinalizeRequest(r)
    PROVE  Phased'
<1>. USE DEF session, options, pools, ending, replay, observers, trouble, disk
<1>a. Finalizing /\ UNCHANGED pass
  BY RequestGoes
<1>1. /\ pc \in {"wait_request", "more_requests", "drain_requests"} /\ save = None
      /\ status # "completed"
      /\ pc \notin Replaying /\ ~Preparing
      /\ pc # "drain_requests" => pass = 0
      /\ pass \in Nat
  BY <1>a DEF Finalizing, Phased, TypeOK, Replaying, Draining, AtBack, Preparing
<1>2. UNCHANGED <<stop, fatal, status>> \/ StopRun
  BY DEF FinalizeRequest, RequestRaises, StaleExpired, ExpiredRelogin, ExpiredReloginFails, ExpiredForGood,
         MembershipExpired, ApiCode, Answered, Resubmit, Refuse
<1>3. \/ pc' = AfterRequest /\ UNCHANGED save
      \/ pc' = "save" /\ save' # None /\ save'.back = AfterRequest
  BY RequestGoes
<1>4. AfterRequest = IF pc = "drain_requests" THEN pc ELSE "more_requests"
  BY DEF AfterRequest
<1>. QED
  BY <1>a, <1>1, <1>2, <1>3, <1>4 DEF Phased, StopRun, Replaying, Draining, AtBack, Preparing

LEMMA PhasedProcess ==
    ASSUME TypeOK, Phased, NEW k \in procs, FinalizeProcess(k)
    PROVE  Phased'
<1>. USE DEF session, options, pools, ending, replay, observers, trouble, disk
<1>3. pc' = "save" /\ save' # None /\ save'.back = AfterProcess
  BY ProcessGoes
<1>4. AfterProcess = IF pc = "drain_processing" THEN pc ELSE "top"
  BY DEF AfterProcess
<1>. QED
  BY <1>3, <1>4 DEF FinalizeProcess, Phased, Replaying, Draining, AtBack, Preparing, TypeOK

LEMMA PhasedReplay ==
    ASSUME TypeOK, Phased, NEW k \in Tasks, NEW s \in Recorded, ReplayTask(k, s),
           UNCHANGED ending \/ StopRun
    PROVE  Phased'
<1>. USE DEF session, options, pools, ending, replay, observers, trouble, disk
<1>1. pc' = "save" /\ save' # None /\ save'.back = "replaying"
  BY Saved DEF ReplayTask
<1>. QED
  BY <1>1 DEF ReplayTask, Phased, StopRun, Replaying, Draining, AtBack, Preparing, TypeOK

LEMMA PhasedNext ==
    ASSUME TypeOK, Phased, [Next]_vars
    PROVE  Phased'
<1>. USE DEF disk, options, pools, session, ending, replay, observers, trouble
<1>1. CASE Start
  BY <1>1 DEF Start, Phased, Preparing, Replaying, Draining, AtBack, TypeOK
<1>2. CASE Startup
  BY <1>2
     DEF Startup, Bootstrap, ImportTask, ImportRows, ImportFails, Requeue, EnsureTasks, Load, Gone, Phased,
         Preparing, Replaying, Draining, AtBack, TypeOK
<1>3. CASE Save
  BY <1>3, SaveKeeps, SavedNext, Backs DEF Phased, Preparing, Replaying, Draining, AtBack, TypeOK
<1>4. CASE Loop
  <2>1. CASE BeginSubmit \/ DrainedSome
    BY <2>1 DEF BeginSubmit, DrainedSome, Phased, Preparing, Replaying, Draining, AtBack, TypeOK
  <2>2. ASSUME NEW k \in Tasks, Submit(k) PROVE Phased'
    BY <2>2 DEF Submit, Phased, Preparing, Replaying, Draining, AtBack, TypeOK
  <2>3. CASE HitLimit
    BY <2>3 DEF HitLimit, Phased, Preparing, Replaying, Draining, AtBack, TypeOK
  <2>4. CASE EndSubmit
    <3>1. reqs = {} /\ procs = {} => stop \/ todo = {}
      BY <2>4, FS_EmptySet, MaxPendingType DEF EndSubmit, CanSubmit, TypeOK
    <3>. QED
      BY <2>4, <3>1 DEF EndSubmit, Phased, Preparing, Replaying, Draining, AtBack, TypeOK
  <2>. QED
    BY <1>4, <2>1, <2>2, <2>3, <2>4, PhasedRequest, PhasedProcess DEF Loop
<1>5. CASE Ending
  <2>1. CASE BeginPass \/ EndPass \/ EndReplay
    BY <2>1, CrawlAssumption
       DEF BeginPass, EndPass, EndReplay, Phased, Preparing, Replaying, Draining, AtBack, TypeOK
  <2>2. ASSUME NEW k \in Tasks, ReplayFails(k) \/ ReplayStopped(k) \/ ReplayAnswered(k) PROVE Phased'
    <3>1. \E s \in Recorded : ReplayTask(k, s)
      BY <2>2, RecordedType DEF ReplayFails, ReplayStopped, ReplayAnswered
    <3>2. UNCHANGED ending \/ StopRun
      BY <2>2, Zenon DEF ReplayFails, ReplayStopped, ReplayAnswered
    <3>. QED
      BY <3>1, <3>2, PhasedReplay
  <2>3. CASE Stopped \/ Complete
    BY <2>3 DEF Stopped, Complete, Phased, Preparing, Replaying, Draining, AtBack, TypeOK
  <2>4. CASE DrainedRequests \/ DrainedProcessing
    BY <2>4 DEF DrainedRequests, DrainedProcessing, Phased, Preparing, Replaying, Draining, AtBack, TypeOK
  <2>5. CASE Exit
    BY <2>5 DEF Exit, Gone, Phased, Preparing, Replaying, Draining, AtBack
  <2>. QED
    BY <1>5, <2>1, <2>2, <2>3, <2>4, <2>5 DEF Ending
<1>6. CASE Crash
  BY <1>6 DEF Crash, Gone, Phased, Preparing, Replaying, Draining, AtBack
<1>7. CASE UNCHANGED vars
  BY <1>7 DEF vars, Phased, Preparing, Replaying, Draining, AtBack
<1>. QED
  BY <1>1, <1>2, <1>3, <1>4, <1>5, <1>6, <1>7 DEF Next

(***************************************************************************)
(* Every open gap of a pass is in its queue until it is replayed.          *)
(***************************************************************************)
\* The gaps matter only in the replay.
Elsewhere == pc \notin Replaying /\ ~AtBack({"replaying"})

LEMMA GapsElsewhere == Elsewhere' => GapsSeen'
BY DEF Elsewhere, GapsSeen, OpenGapsWereReplayed, Replaying, AtBack

LEMMA GapsSave ==
    ASSUME TypeOK, GapsSeen, Save
    PROVE  GapsSeen'
<1>1. CASE save.back # "replaying"
  BY <1>1, SaveKeeps, Backs, GapsElsewhere DEF Elsewhere, Replaying, Draining, AtBack
<1>2. CASE save.back = "replaying"
  <2>1. save.key \in replayed /\ AtBack({"replaying"})
    BY <1>2, SaveKeeps DEF GapsSeen, AtBack
  <2>2. \A k \in Tasks : gaps'[k] = "open" => gaps[k] = "open" \/ k = save.key
    <3>1. gaps' \in {gaps, OpenGap(save.key), ResolveGap(save.key)}
      BY Zenon DEF Save, SaveRows, SaveProgress, SaveTask, SaveRaises, replay
    <3>. QED
      BY <3>1, SavingState DEF OpenGap, ResolveGap, TypeOK
  <2>3. OpenGaps' \subseteq OpenGaps \union replayed
    BY <2>1, <2>2, SaveKeeps DEF OpenGaps, TypeOK
  <2>. QED
    BY <1>2, <2>1, <2>3, SaveKeeps, Backs
       DEF GapsSeen, OpenGapsWereReplayed, Replaying, Draining, AtBack
<1>. QED
  BY <1>1, <1>2

LEMMA GapsReplay ==
    ASSUME TypeOK, GapsSeen, NEW k \in Tasks, NEW s \in Recorded, ReplayTask(k, s)
    PROVE  GapsSeen'
<1>1. pc' = "save" /\ save' # None /\ save'.back = "replaying" /\ save'.key = k
  BY Saved DEF ReplayTask
<1>2. /\ pc = "replaying" /\ ~fatal /\ queue' = queue \ {k} /\ replayed' = replayed \union {k}
      /\ UNCHANGED OpenGaps
  BY DEF ReplayTask, OpenGaps, options
<1>. QED
  BY <1>1, <1>2 DEF GapsSeen, OpenGapsWereReplayed, AtBack

LEMMA GapsSeenNext ==
    ASSUME TypeOK, Phased, GapsSeen, [Next]_vars
    PROVE  GapsSeen'
<1>. USE DEF disk, options, pools, session, ending, replay, observers, trouble
<1>1. CASE Start \/ Startup \/ Crash
  <2>1. Elsewhere'
    BY <1>1
       DEF Start, Startup, Bootstrap, ImportTask, ImportRows, ImportFails, Requeue, EnsureTasks, Load,
           Crash, Gone, Elsewhere, Replaying, AtBack, TypeOK
  <2>. QED
    BY <2>1, GapsElsewhere
<1>2. CASE Loop
  <2>1. CASE EndSubmit
    BY <2>1 DEF EndSubmit, GapsSeen, OpenGapsWereReplayed, Phased, Replaying, Draining, AtBack, TypeOK
  <2>2. CASE BeginSubmit \/ DrainedSome \/ HitLimit \/ \E k \in Tasks : Submit(k)
    <3>1. Elsewhere'
      BY <2>2 DEF BeginSubmit, DrainedSome, HitLimit, Submit, Elsewhere, Replaying, AtBack, TypeOK
    <3>. QED
      BY <3>1, GapsElsewhere
  <2>3. ASSUME NEW r \in reqs, FinalizeRequest(r) PROVE GapsSeen'
    <3>1. \/ pc' = AfterRequest /\ UNCHANGED save
          \/ pc' = "save" /\ save' # None /\ save'.back = AfterRequest
      BY <2>3, RequestGoes
    <3>2. Elsewhere'
      BY <2>3, <3>1, RequestGoes, Backs DEF Finalizing, Elsewhere, Replaying, Draining, AtBack, TypeOK
    <3>. QED
      BY <3>2, GapsElsewhere
  <2>4. ASSUME NEW k \in procs, FinalizeProcess(k) PROVE GapsSeen'
    <3>1. Elsewhere'
      BY <2>4, ProcessGoes, Backs DEF Elsewhere, Replaying, Draining, AtBack
    <3>. QED
      BY <3>1, GapsElsewhere
  <2>. QED
    BY <1>2, <2>1, <2>2, <2>3, <2>4 DEF Loop
<1>3. CASE Ending
  <2>1. CASE BeginPass
    BY <2>1 DEF BeginPass, OpenGaps, GapsSeen, OpenGapsWereReplayed, AtBack, TypeOK
  <2>2. CASE EndPass
    BY <2>2 DEF EndPass, PassOver, OpenGaps, GapsSeen, OpenGapsWereReplayed, AtBack, TypeOK
  <2>3. CASE EndReplay
    BY <2>3, CrawlAssumption DEF EndReplay, OpenGaps, GapsSeen, OpenGapsWereReplayed, AtBack, TypeOK
  <2>4. ASSUME NEW k \in Tasks, ReplayFails(k) \/ ReplayStopped(k) \/ ReplayAnswered(k) PROVE GapsSeen'
    <3>1. \E s \in Recorded : ReplayTask(k, s)
      BY <2>4, RecordedType DEF ReplayFails, ReplayStopped, ReplayAnswered
    <3>. QED
      BY <3>1, GapsReplay
  <2>5. CASE Stopped \/ Complete \/ DrainedRequests \/ DrainedProcessing \/ Exit
    <3>1. Elsewhere'
      BY <2>5
         DEF Stopped, Complete, DrainedRequests, DrainedProcessing, Exit, Gone, Elsewhere, Replaying, AtBack, TypeOK
    <3>. QED
      BY <3>1, GapsElsewhere
  <2>. QED
    BY <1>3, <2>1, <2>2, <2>3, <2>4, <2>5 DEF Ending
<1>4. CASE UNCHANGED vars
  BY <1>4 DEF vars, OpenGaps, GapsSeen, OpenGapsWereReplayed, AtBack
<1>. QED
  BY <1>1, <1>2, <1>3, <1>4, GapsSave DEF Next

LEMMA EndInvariant == Spec => []EndInv
<1>1. EndInv /\ [Next]_vars => EndInv'
  BY TypeStep, CoveredNext, PhasedNext, GapsSeenNext DEF EndInv
<1>. QED
  BY <1>1, EndInit, PTL DEF Spec

\* A run that ends as completed has recorded a result of every task of its
\* plan and of every task an earlier attempt left, over any number of deaths,
\* retries and restarts, as long as the database failed no step of it.
THEOREM CompletedSafe == Spec => []CompletedTriedEverything
<1>1. EndInv => CompletedTriedEverything
  <2>. SUFFICES ASSUME EndInv, status = "completed", sqlite, ~dbFault
                PROVE  /\ \A k \in Tasks : task[k] \notin {"pending", "running"}
                       /\ \A k \in plan : task[k] \in Recorded
    BY DEF CompletedTriedEverything
  <2>1. reqs = {} /\ procs = {} /\ todo = {} /\ save = None /\ ~Preparing
    BY DEF EndInv, TypeOK, Phased, Draining, Preparing
  <2>2. \A k \in Tasks : ~Untried(k)
    BY <2>1 DEF EndInv, Covered, Held
  <2>. QED
    BY <2>2 DEF Untried, EndInv, TypeOK, Recorded
<1>. QED
  BY <1>1, EndInvariant, PTL

\* When the replay is over, every gap that is still open has been replayed,
\* whatever the passes found, unless the run was stopped.
THEOREM GapsReplayed == Spec => []OpenGapsWereReplayed
<1>1. EndInv => OpenGapsWereReplayed
  BY DEF EndInv, GapsSeen
<1>. QED
  BY <1>1, EndInvariant, PTL
=============================================================================
