---------------------------- MODULE WechatOfficial ----------------------------
(***************************************************************************)
(* The WeChat official account: the callback service (service.py with      *)
(* callback_deduper.py and workflow.py) and the recognition workers        *)
(* (worker_cli.py with recognition_worker.py and result_dispatcher.py).    *)
(* They are separate processes which share the files of the recognition    *)
(* queue and the session of each user.                                     *)
(*                                                                         *)
(* write_json_utf8 truncates a file and then writes it, so a file shared   *)
(* by two processes is torn between the two steps, and stays torn if the   *)
(* writer dies there.  Reading a torn file raises JSONDecodeError.         *)
(*                                                                         *)
(* The callback coroutine calls the service without awaiting, so the event *)
(* loop handles one callback at a time; the platform delivers a message    *)
(* again when it has no answer in time.                                    *)
(*                                                                         *)
(* Left out: what a reply says, inbox/ (never read), the image cache, the  *)
(* trace, and the expiry of dedupe entries (24 hours; redeliveries end     *)
(* within a minute).  completed/ and failed/ are one place, finished.      *)
(***************************************************************************)
EXTENDS Naturals, FiniteSets

CONSTANTS
    Images,         \* image messages
    Texts,          \* text messages
    Users,
    Sender,         \* who sent each message
    Workers,        \* recognition worker processes
    NoSession,      \* the session file does not exist
    Torn,           \* a file that was truncated and not written yet
    MaxTasks,       \* bound: tasks ever queued
    MaxDeliveries,  \* bound: deliveries of one message
    MaxFaults,      \* bound: I/O errors met by the callback service
    MaxServiceCrashes, MaxWorkerCrashes     \* bounds: deaths of a process

Messages == Images \cup Texts
Tasks == 1 .. MaxTasks
None == 0           \* an empty pending_task_id

ASSUME MessageAssumption ==
    /\ Messages # {} /\ Images \cap Texts = {}
    /\ Sender \in [Messages -> Users]

ASSUME BoundAssumption ==
    {MaxTasks, MaxDeliveries, MaxFaults, MaxServiceCrashes, MaxWorkerCrashes} \subseteq Nat

ASSUME TornAssumption == Torn \notin {"absent", "whole", "none", "processing", "completed"}

VARIABLES
    dedupe,         \* callback_dedupe/<key>.json of each message
    session,        \* sessions/<open_id>.json of each user
    queued, processing, finished,   \* recognition/queued/<task>.json ...
    issued,         \* number of task ids handed out
    origin,         \* the message each task was made for
    cpc, cjob,      \* the callback in progress, and what it knows
    wpc, wjob,      \* each worker's step, and what it knows
    delivered,      \* deliveries of each message so far
    failed,         \* observer: handlings of each message that did not finish
    replied,        \* observer: custom messages sent for each task
    faults, crashes

files == <<queued, processing, finished>>
service == <<cpc, cjob, dedupe, delivered, issued, origin>>
worker == <<wpc, wjob>>
observers == <<failed, replied>>
budget == <<faults, crashes>>
vars == <<files, session, service, worker, observers, budget>>

State == [task : Tasks \cup {None}, cands : BOOLEAN]
Fresh == [task |-> None, cands |-> FALSE]
File == {"absent", "whole", Torn}

ServiceSteps == {"idle", "load", "text", "probe", "queue_fill",
                 "save_open", "save_fill", "reset", "choice", "find", "read", "finish"}
WorkerSteps == {"idle", "move", "mark_open", "mark_fill", "recognize", "send",
                "load", "save_open", "save_fill", "unlink", "record_open", "record_fill"}

\* seen: the session as loaded and edited; place: where find saw the task.
ServiceJob == [msg : Messages, seen : State,
               place : {"nowhere", "queued", "processing", "finished"}]

\* result: the resolution handed to apply_dispatch_resolution.
WorkerJob == [task : Tasks \cup {None}, seen : State,
              result : {"no_result", "snapshot", "ambiguous"}]

NoCall == [msg |-> CHOOSE m \in Messages : TRUE, seen |-> Fresh, place |-> "nowhere"]
NoWork == [task |-> None, seen |-> Fresh, result |-> "no_result"]

Init ==
    /\ dedupe = [m \in Messages |-> "none"]
    /\ session = [u \in Users |-> NoSession]
    /\ queued = [t \in Tasks |-> "absent"]
    /\ processing = queued /\ finished = queued
    /\ issued = 0 /\ origin = [t \in Tasks |-> CHOOSE m \in Messages : TRUE]
    /\ cpc = "idle" /\ cjob = NoCall
    /\ wpc = [w \in Workers |-> "idle"]
    /\ wjob = [w \in Workers |-> NoWork]
    /\ delivered = [m \in Messages |-> 0]
    /\ failed = delivered
    /\ replied = [t \in Tasks |-> 0]
    /\ faults = 0 /\ crashes = [service |-> 0, worker |-> 0]

-----------------------------------------------------------------------------
(* The callback service. *)
user == Sender[cjob.msg]

Continue(step) == cpc' = step /\ UNCHANGED <<dedupe, failed>>

\* except Exception: abort, and the exception becomes an HTTP 500.
Raise ==
    /\ cpc' = "idle" /\ cjob' = NoCall
    /\ dedupe' = [dedupe EXCEPT ![cjob.msg] = "none"]
    /\ failed' = [failed EXCEPT ![cjob.msg] = @ + 1]

\* Unreadable entries of any message count as expired; then the entry is
\* created exclusively.  A delivery that finds one is answered at once.
Begin(m) ==
    /\ cpc = "idle"
    /\ delivered[m] < MaxDeliveries
    /\ delivered' = [delivered EXCEPT ![m] = @ + 1]
    /\ dedupe' = [n \in Messages |->
                    IF n = m /\ dedupe[n] \in {"none", Torn} THEN "processing"
                    ELSE IF dedupe[n] = Torn THEN "none" ELSE dedupe[n]]
    /\ IF dedupe[m] \in {"none", Torn}
       THEN /\ cpc' = "load"
            /\ cjob' = [NoCall EXCEPT !.msg = m]
       ELSE UNCHANGED <<cpc, cjob>>
    /\ UNCHANGED <<files, session, worker, issued, origin, observers, budget>>

\* Variant: load without the test whether the file exists.
LoadWithoutDefault ==
    /\ cpc = "load"
    /\ IF session[user] = Torn
       THEN Raise
       ELSE /\ Continue(IF cjob.msg \in Images THEN "probe" ELSE "text")
            /\ cjob' = [cjob EXCEPT !.seen = session[user]]
    /\ UNCHANGED <<files, session, worker, issued, origin, delivered, replied, budget>>

LoadSession ==
    /\ cpc = "load"
    /\ IF session[user] = Torn
       THEN Raise
       ELSE /\ Continue(IF cjob.msg \in Images THEN "probe" ELSE "text")
            /\ cjob' = [cjob EXCEPT !.seen =
                            IF session[user] = NoSession THEN Fresh ELSE session[user]]
    /\ UNCHANGED <<files, session, worker, issued, origin, delivered, replied, budget>>

\* probe of the fast lane: the picture is no product page, or its product is
\* recognised with confidence and found, and it is answered at once; or it is
\* left to the workers, also when the download or the model raises.
FastLane == {"terminal", "direct_hit", "deferred"}

\* handle_image_message: the answer of the fast lane leaves nothing pending, or
\* enqueue_task opens the queue file of a new task.
Probe ==
    /\ cpc = "probe"
    /\ \E outcome \in FastLane :
         \/ /\ outcome # "deferred"
            /\ Continue("save_open")
            /\ cjob' = [cjob EXCEPT !.seen = Fresh]
            /\ UNCHANGED <<queued, issued, origin>>
         \/ /\ outcome = "deferred" /\ issued < MaxTasks
            /\ issued' = issued + 1
            /\ origin' = [origin EXCEPT ![issued'] = cjob.msg]
            /\ queued' = [queued EXCEPT ![issued'] = Torn]
            /\ cjob' = [cjob EXCEPT !.seen.task = issued']
            /\ Continue("queue_fill")
    /\ UNCHANGED <<processing, finished, session, worker, delivered, replied, budget>>

QueueFill ==
    /\ cpc = "queue_fill"
    /\ queued' = [queued EXCEPT ![cjob.seen.task] = "whole"]
    /\ Continue("save_open")
    /\ UNCHANGED <<processing, finished, session, worker, cjob, issued, origin>>
    /\ UNCHANGED <<delivered, replied, budget>>

\* handle_text_message: a fixed answer, a reset, a status query, a numeric
\* choice, or a market query and its follow-ups.
Text ==
    /\ cpc = "text"
    /\ \/ Continue("finish") /\ UNCHANGED cjob
       \/ Continue("reset") /\ UNCHANGED cjob
       \/ cjob.seen.task # None /\ Continue("find") /\ UNCHANGED cjob
       \/ Continue("choice") /\ UNCHANGED cjob
       \/ /\ Continue("save_open")
          /\ \E b \in BOOLEAN : cjob' = [cjob EXCEPT !.seen.cands = b]
    /\ UNCHANGED <<files, session, worker, issued, origin, delivered, replied, budget>>

Reset ==
    /\ cpc = "reset"
    /\ session' = [session EXCEPT ![user] = NoSession]
    /\ Continue("finish")
    /\ UNCHANGED <<files, worker, cjob, issued, origin, delivered, replied, budget>>

\* _handle_numeric_choice loads the session a second time.
Choice ==
    /\ cpc = "choice"
    /\ LET s == IF session[user] = NoSession THEN Fresh ELSE session[user] IN
       \/ s = Torn /\ Raise
       \/ /\ s # Torn /\ s.task = None /\ s.cands
          /\ cjob' = [cjob EXCEPT !.seen = Fresh]
          /\ Continue("save_open")
       \/ s # Torn /\ Continue("finish") /\ UNCHANGED cjob
    /\ UNCHANGED <<files, session, worker, issued, origin, delivered, replied, budget>>

\* get_task_status: looks for the file, then reads it.
Find ==
    /\ cpc = "find"
    /\ LET t == cjob.seen.task
           place == IF queued[t] # "absent" THEN "queued"
                    ELSE IF processing[t] # "absent" THEN "processing"
                    ELSE IF finished[t] # "absent" THEN "finished" ELSE "nowhere"
       IN  /\ cjob' = [cjob EXCEPT !.place = place]
           /\ Continue(IF place = "nowhere" THEN "finish" ELSE "read")
    /\ UNCHANGED <<files, session, worker, issued, origin, delivered, replied, budget>>

ReadStatus ==
    /\ cpc = "read"
    /\ LET t == cjob.seen.task
           content == CASE cjob.place = "queued" -> queued[t]
                        [] cjob.place = "processing" -> processing[t]
                        [] cjob.place = "finished" -> finished[t]
       IN  IF content = "whole" THEN Continue("finish") /\ UNCHANGED cjob ELSE Raise
    /\ UNCHANGED <<files, session, worker, issued, origin, delivered, replied, budget>>

SaveOpen ==
    /\ cpc = "save_open"
    /\ session' = [session EXCEPT ![user] = Torn]
    /\ Continue("save_fill")
    /\ UNCHANGED <<files, worker, cjob, issued, origin, delivered, replied, budget>>

SaveFill ==
    /\ cpc = "save_fill"
    /\ session' = [session EXCEPT ![user] = cjob.seen]
    /\ Continue("finish")
    /\ UNCHANGED <<files, worker, cjob, issued, origin, delivered, replied, budget>>

\* Variant: the entry stays processing.
FinishForgets ==
    /\ cpc = "finish"
    /\ dedupe' = [dedupe EXCEPT ![cjob.msg] = "none"]
    /\ cpc' = "idle" /\ cjob' = NoCall
    /\ UNCHANGED <<files, session, worker, issued, origin, delivered, observers, budget>>

\* callback_deduper.complete, and the answer.
Finish ==
    /\ cpc = "finish"
    /\ dedupe' = [dedupe EXCEPT ![cjob.msg] = "completed"]
    /\ cpc' = "idle" /\ cjob' = NoCall
    /\ UNCHANGED <<files, session, worker, issued, origin, delivered, observers, budget>>

Service ==
    \/ LoadSession \/ Probe \/ QueueFill \/ Text \/ Reset \/ Choice
    \/ Find \/ ReadStatus \/ SaveOpen \/ SaveFill \/ Finish

\* An I/O error, or the query engine raising, at any step.  The trace is
\* written between begin and the try block: if that raises, nobody aborts.
ServiceFault ==
    /\ cpc # "idle"
    /\ faults < MaxFaults
    /\ faults' = faults + 1
    /\ \/ Raise
       \/ /\ cpc = "load" /\ cpc' = "idle" /\ cjob' = NoCall
          /\ failed' = [failed EXCEPT ![cjob.msg] = @ + 1]
          /\ UNCHANGED dedupe
    /\ UNCHANGED <<files, session, worker, issued, origin, delivered, replied, crashes>>

ServiceCrash ==
    /\ cpc # "idle"
    /\ crashes.service < MaxServiceCrashes
    /\ crashes' = [crashes EXCEPT !.service = @ + 1]
    /\ cpc' = "idle" /\ cjob' = NoCall
    /\ failed' = [failed EXCEPT ![cjob.msg] = @ + 1]
    /\ \/ UNCHANGED dedupe
       \/ cpc \in {"load", "finish"} /\ dedupe' = [dedupe EXCEPT ![cjob.msg] = Torn]
    /\ UNCHANGED <<files, session, worker, issued, origin, delivered>>
    /\ UNCHANGED <<replied, faults>>

-----------------------------------------------------------------------------
(* The recognition workers. *)
Goto(w, step) == wpc' = [wpc EXCEPT ![w] = step]

\* The worker is at the top of its loop, after a task or after a restart: an
\* exception leaves main() and the service manager starts the worker again.
ToIdle(w) == Goto(w, "idle") /\ wjob' = [wjob EXCEPT ![w] = NoWork]

\* Variant: the sort is reversed.
Newest(t) == \A o \in Tasks : queued[o] # "absent" => o <= t

Oldest(t) == \A o \in Tasks : queued[o] # "absent" => t <= o

\* claim_next reads the oldest file.  A torn one kills the worker, which finds
\* the same file again when it comes back: no step.
Pick(w) ==
    /\ wpc[w] = "idle"
    /\ \E t \in Tasks :
         /\ queued[t] = "whole" /\ Oldest(t)
         /\ wjob' = [wjob EXCEPT ![w].task = t]
    /\ Goto(w, "move")
    /\ UNCHANGED <<files, session, service, observers, budget>>

\* Variant: the file is copied to processing/ and stays in queued/.
MoveByCopy(w) ==
    /\ wpc[w] = "move"
    /\ LET t == wjob[w].task IN
       IF queued[t] = "absent"
       THEN ToIdle(w) /\ UNCHANGED files
       ELSE /\ processing' = [processing EXCEPT ![t] = "whole"]
            /\ Goto(w, "mark_open")
            /\ UNCHANGED <<queued, finished, wjob>>
    /\ UNCHANGED <<session, service, observers, budget>>

\* source.replace: of two workers that picked one task, the second finds no
\* file and dies.
Move(w) ==
    /\ wpc[w] = "move"
    /\ LET t == wjob[w].task IN
       IF queued[t] = "absent"
       THEN ToIdle(w) /\ UNCHANGED files
       ELSE /\ queued' = [queued EXCEPT ![t] = "absent"]
            /\ processing' = [processing EXCEPT ![t] = queued[t]]
            /\ Goto(w, "mark_open")
            /\ UNCHANGED <<finished, wjob>>
    /\ UNCHANGED <<session, service, observers, budget>>

Mark(w) ==
    /\ \/ wpc[w] = "mark_open" /\ Goto(w, "mark_fill")
          /\ processing' = [processing EXCEPT ![wjob[w].task] = Torn]
       \/ wpc[w] = "mark_fill" /\ Goto(w, "recognize")
          /\ processing' = [processing EXCEPT ![wjob[w].task] = "whole"]
    /\ UNCHANGED <<queued, finished, wjob, session, service, observers, budget>>

\* resolve_image_candidate_queries: of what the readings of a picture resolve
\* to, the first market found is answered; if there is none, the first list of
\* candidates is offered.
Resolution(kinds) ==
    IF "snapshot" \in kinds THEN "snapshot"
    ELSE IF "ambiguous" \in kinds THEN "ambiguous" ELSE "no_result"

\* Variant: the task leaves processing/ before its reply is sent.
RecognizeUnlinks(w) ==
    /\ wpc[w] = "recognize"
    /\ processing' = [processing EXCEPT ![wjob[w].task] = "absent"]
    /\ Goto(w, "send")
    /\ UNCHANGED <<queued, finished, wjob, session, service, observers, budget>>

\* The recognizer's outcome; a failed or unsupported image resolves nothing.
Recognize(w) ==
    /\ wpc[w] = "recognize"
    /\ \E kinds \in SUBSET {"snapshot", "ambiguous"} :
          wjob' = [wjob EXCEPT ![w].result = Resolution(kinds)]
    /\ Goto(w, "send")
    /\ UNCHANGED <<files, session, service, observers, budget>>

\* The custom message goes out.  If the API or the query engine raises, outside
\* the try of run_once, the worker dies: WorkerCrash.
Send(w) ==
    /\ wpc[w] = "send"
    /\ replied' = [replied EXCEPT ![wjob[w].task] = @ + 1]
    /\ Goto(w, "load")
    /\ UNCHANGED <<files, wjob, session, service, failed, budget>>

Asker(w) == Sender[origin[wjob[w].task]]

\* apply_dispatch_resolution clears whatever task is pending, not only its own.
LoadForDispatch(w) ==
    /\ wpc[w] = "load"
    /\ IF session[Asker(w)] = Torn
       THEN ToIdle(w)
       ELSE /\ wjob' = [wjob EXCEPT ![w].seen =
                   [task |-> None, cands |-> wjob[w].result = "ambiguous"]]
            /\ Goto(w, "save_open")
    /\ UNCHANGED <<files, session, service, observers, budget>>

SaveDispatch(w) ==
    /\ \/ wpc[w] = "save_open" /\ Goto(w, "save_fill")
          /\ session' = [session EXCEPT ![Asker(w)] = Torn]
       \/ wpc[w] = "save_fill" /\ Goto(w, "unlink")
          /\ session' = [session EXCEPT ![Asker(w)] = wjob[w].seen]
    /\ UNCHANGED <<files, wjob, service, observers, budget>>

\* queue.complete and queue.fail: unlink first, then write the outcome.
Unlink(w) ==
    /\ wpc[w] = "unlink"
    /\ processing' = [processing EXCEPT ![wjob[w].task] = "absent"]
    /\ Goto(w, "record_open")
    /\ UNCHANGED <<queued, finished, wjob, session, service, observers, budget>>

Record(w) ==
    /\ \/ /\ wpc[w] = "record_open" /\ Goto(w, "record_fill")
          /\ finished' = [finished EXCEPT ![wjob[w].task] = Torn]
          /\ UNCHANGED wjob
       \/ /\ wpc[w] = "record_fill" /\ ToIdle(w)
          /\ finished' = [finished EXCEPT ![wjob[w].task] = "whole"]
    /\ UNCHANGED <<queued, processing, session, service, observers, budget>>

Worker(w) ==
    \/ Pick(w) \/ Move(w) \/ Mark(w) \/ Recognize(w) \/ Send(w)
    \/ LoadForDispatch(w) \/ SaveDispatch(w) \/ Unlink(w) \/ Record(w)

\* Death of the process, or an exception which nothing catches at that step.
WorkerCrash(w) ==
    /\ wpc[w] # "idle"
    /\ crashes.worker < MaxWorkerCrashes
    /\ crashes' = [crashes EXCEPT !.worker = @ + 1]
    /\ ToIdle(w)
    /\ UNCHANGED <<files, session, service, observers, faults>>

-----------------------------------------------------------------------------
Next ==
    \/ \E m \in Messages : Begin(m)
    \/ Service \/ ServiceFault \/ ServiceCrash
    \/ \E w \in Workers : Worker(w) \/ WorkerCrash(w)

\* Both processes keep running: systemd restarts them.  Users and the
\* platform owe nothing.
Spec == Init /\ [][Next]_vars /\ WF_vars(Service) /\ \A w \in Workers : WF_vars(Worker(w))

-----------------------------------------------------------------------------
TypeOK ==
    /\ dedupe \in [Messages -> {"none", "processing", "completed", Torn}]
    /\ session \in [Users -> State \cup {NoSession, Torn}]
    /\ {queued, processing, finished} \subseteq [Tasks -> File]
    /\ issued \in 0 .. MaxTasks /\ origin \in [Tasks -> Messages]
    /\ cpc \in ServiceSteps /\ cjob \in ServiceJob
    /\ wpc \in [Workers -> WorkerSteps] /\ wjob \in [Workers -> WorkerJob]
    /\ {delivered, failed} \subseteq [Messages -> Nat]
    /\ replied \in [Tasks -> Nat]
    /\ faults \in Nat /\ crashes \in [service : Nat, worker : Nat]

\* A user is never sent two answers for one image, whatever workers race for
\* its task, die with it or are restarted.
AnsweredAtMostOnce == \A t \in Tasks : replied[t] <= 1

\* A task that reached the queue is on disk in some state, or its answer has
\* been sent: claim_next moves the file in one rename, and queue.complete
\* unlinks it only after the reply.
NoTaskVanishesUnanswered ==
    \A t \in 1 .. issued :
        \/ \E place \in {queued, processing, finished} : place[t] # "absent"
        \/ replied[t] > 0

\* The platform's redelivery of one message makes a second task only if an
\* earlier handling of it raised or died.
DuplicateOnlyAfterFailure ==
    \A m \in Messages :
        Cardinality({t \in 1 .. issued : origin[t] = m}) <= 1 + failed[m]

\* A queued task is answered sooner or later, unless a worker died after it
\* claimed the task, which then stays in processing/, or an older queue file
\* was left torn, which no worker gets past.
EveryTaskAnswered ==
    \A t \in Tasks :
        queued[t] = "whole" ~>
            \/ replied[t] > 0
            \/ crashes.worker > 0 /\ queued[t] = "absent" /\ processing[t] # "absent"
            \/ \E o \in 1 .. (t - 1) : queued[o] = Torn

\* docs/WECHAT_OFFICIAL_ARCHITECTURE.md: a failing worker does not keep the
\* callback from answering 200.  Here: after a worker died, and while no worker
\* does anything, no callback of a service without faults fails to load its
\* session.
CallbackUnaffectedByWorker ==
    [][/\ crashes.worker > 0 /\ \A w \in Workers : wpc[w] = "idle"
       /\ faults' = 0 /\ crashes'.service = 0
       /\ cpc = "load"
       => failed' = failed]_vars
=============================================================================
