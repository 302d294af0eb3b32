------------------------ MODULE WechatOfficialProofs ------------------------
(***************************************************************************)
(* What holds of WechatOfficial for any messages, workers, tasks, errors   *)
(* and deaths: the types of its state, and that no task is answered twice, *)
(* lost, or made twice without a cause.                                    *)
(***************************************************************************)
EXTENDS WechatOfficial, FiniteSetTheorems, TLAPS

(***************************************************************************)
(* The invariant.  A task is in the queue, or held by the one worker that  *)
(* moved its file, or let go; it is answered by the one who holds it.      *)
(***************************************************************************)
BeforeReply == {"mark_open", "mark_fill", "recognize", "send"}
AfterReply == {"load", "save_open", "save_fill", "unlink", "record_open", "record_fill"}
Held == BeforeReply \cup AfterReply

Work(w) ==
    /\ wpc[w] # "idle" => wjob[w].task \in 1 .. issued
    /\ wpc[w] = "move" => queued[wjob[w].task] # Torn
    /\ wpc[w] \in Held => queued[wjob[w].task] = "absent"
    /\ wpc[w] \in BeforeReply => processing[wjob[w].task] # "absent" /\ replied[wjob[w].task] = 0
    /\ wpc[w] \in AfterReply => replied[wjob[w].task] = 1

OneHolder ==
    \A v, w \in Workers :
        v # w /\ wpc[v] \in Held /\ wpc[w] \in Held => wjob[v].task # wjob[w].task

Queue ==
    /\ \A t \in Tasks : queued[t] # "absent" => replied[t] = 0
    /\ \A t \in Tasks : t > issued => queued[t] = "absent" /\ replied[t] = 0
    /\ cpc = "queue_fill" =>
         cjob.seen.task \in 1 .. issued /\ queued[cjob.seen.task] = Torn

\* The tasks made for a message, and what its dedupe entry says of them.
Made(m) == {t \in 1 .. issued : origin[t] = m}

Counted ==
    /\ cpc # "idle" => dedupe[cjob.msg] = "processing"
    /\ cpc \in {"load", "probe"} => Cardinality(Made(cjob.msg)) <= failed[cjob.msg]
    /\ \A m \in Messages :
         dedupe[m] \in {"none", Torn} => Cardinality(Made(m)) <= failed[m]

Life ==
    /\ (\A w \in Workers : Work(w)) /\ OneHolder /\ Queue
    /\ AnsweredAtMostOnce /\ NoTaskVanishesUnanswered

IInv == TypeOK /\ Life /\ Counted /\ DuplicateOnlyAfterFailure

-----------------------------------------------------------------------------
(* Types *)

LEMMA ServiceJobType ==
    /\ NoCall \in ServiceJob /\ Fresh \in State
    /\ TypeOK => cjob.seen \in State /\ cjob.msg \in Messages /\ user \in Users
<1>1. (CHOOSE m \in Messages : TRUE) \in Messages
  BY MessageAssumption
<1>2. Fresh \in State
  BY DEF Fresh, State
<1>3. NoCall \in ServiceJob
  BY <1>1, <1>2 DEF NoCall, ServiceJob
<1>. QED
  BY <1>2, <1>3, MessageAssumption DEF ServiceJob, TypeOK, user

\* What a step writes into the record of a callback or of a worker fits.
LEMMA ServiceJobSeen ==
    ASSUME TypeOK, NEW s \in State
    PROVE  [cjob EXCEPT !.seen = s] \in ServiceJob
BY DEF TypeOK, ServiceJob

LEMMA ServiceJobTask ==
    ASSUME TypeOK, NEW t \in Tasks
    PROVE  [cjob EXCEPT !.seen.task = t] \in ServiceJob
BY DEF TypeOK, ServiceJob, State

LEMMA ServiceJobCands ==
    ASSUME TypeOK, NEW b \in BOOLEAN
    PROVE  [cjob EXCEPT !.seen.cands = b] \in ServiceJob
BY DEF TypeOK, ServiceJob, State

LEMMA ServiceJobPlace ==
    ASSUME TypeOK, NEW p \in {"nowhere", "queued", "processing", "finished"}
    PROVE  [cjob EXCEPT !.place = p] \in ServiceJob
BY DEF TypeOK, ServiceJob

LEMMA NewServiceJob ==
    ASSUME NEW m \in Messages
    PROVE  [NoCall EXCEPT !.msg = m] \in ServiceJob
BY ServiceJobType DEF ServiceJob

LEMMA NoWorkType == NoWork \in WorkerJob
BY DEF NoWork, Fresh, WorkerJob, State

LEMMA WorkerJobTask ==
    ASSUME TypeOK, NEW w \in Workers, NEW t \in Tasks
    PROVE  [wjob EXCEPT ![w].task = t] \in [Workers -> WorkerJob]
BY DEF TypeOK, WorkerJob

LEMMA WorkerJobSeen ==
    ASSUME TypeOK, NEW w \in Workers, NEW s \in State
    PROVE  [wjob EXCEPT ![w].seen = s] \in [Workers -> WorkerJob]
BY DEF TypeOK, WorkerJob

LEMMA WorkerJobResult ==
    ASSUME TypeOK, NEW w \in Workers, NEW r \in {"no_result", "snapshot", "ambiguous"}
    PROVE  [wjob EXCEPT ![w].result = r] \in [Workers -> WorkerJob]
BY DEF TypeOK, WorkerJob

LEMMA InitInv == Init => IInv
<1>. SUFFICES ASSUME Init PROVE IInv
  OBVIOUS
<1>. USE DEF Init
<1>1. (CHOOSE m \in Messages : TRUE) \in Messages
  BY MessageAssumption
<1>2. TypeOK
  <2>1. MaxTasks \in Nat
    BY BoundAssumption
  <2>. QED
    BY <1>1, <2>1, ServiceJobType, NoWorkType DEF TypeOK, File, ServiceSteps, WorkerSteps
<1>3. Life
  BY DEF Life, Work, Held, BeforeReply, AfterReply, OneHolder, Queue, AnsweredAtMostOnce,
         NoTaskVanishesUnanswered, Tasks
<1>4. \A m \in Messages : Made(m) = {}
  BY DEF Made
<1>5. Counted /\ DuplicateOnlyAfterFailure
  BY <1>4, FS_EmptySet DEF Counted, DuplicateOnlyAfterFailure, Made
<1>. QED
  BY <1>2, <1>3, <1>5 DEF IInv

\* Steps of the service: the exception handler, and going on.
LEMMA RaiseType ==
    ASSUME TypeOK, Raise
    PROVE  /\ dedupe' \in [Messages -> {"none", "processing", "completed", Torn}]
           /\ cpc' \in ServiceSteps /\ cjob' \in ServiceJob
           /\ failed' \in [Messages -> Nat]
BY ServiceJobType DEF TypeOK, Raise, ServiceSteps

LEMMA TypeStep ==
    ASSUME TypeOK, [Next]_vars
    PROVE  TypeOK'
<1>. USE DEF TypeOK
<1>. DEFINE Entries == {"none", "processing", "completed", Torn}
            Sessions == State \cup {NoSession, Torn}
<1>a. cjob.seen \in State /\ cjob.msg \in Messages /\ user \in Users
  BY ServiceJobType
<1>b. MaxTasks \in Nat
  BY BoundAssumption
<1>1. ASSUME NEW m \in Messages, Begin(m) PROVE TypeOK'
  <2>1. dedupe' \in [Messages -> Entries] /\ delivered' \in [Messages -> Nat]
    BY <1>1 DEF Begin
  <2>2. cpc' \in ServiceSteps /\ cjob' \in ServiceJob
    BY <1>1, NewServiceJob DEF Begin, ServiceSteps
  <2>. QED
    BY <1>1, <2>1, <2>2 DEF Begin, files, worker, observers, budget
<1>2. CASE LoadSession
  <2>1. session[user] \in Sessions
    BY <1>a
  <2>2. cpc' \in ServiceSteps /\ cjob' \in ServiceJob
        /\ dedupe' \in [Messages -> Entries] /\ failed' \in [Messages -> Nat]
    BY <1>2, <2>1, RaiseType, ServiceJobType, ServiceJobSeen DEF LoadSession, Continue, ServiceSteps
  <2>. QED
    BY <1>2, <2>2 DEF LoadSession, files, worker, budget
<1>3. CASE Probe
  <2>1. issued + 1 \in Tasks \/ issued >= MaxTasks
    BY <1>b DEF Tasks
  <2>2. issued' \in 0 .. MaxTasks /\ origin' \in [Tasks -> Messages]
        /\ queued' \in [Tasks -> File]
    BY <1>3, <1>a, <1>b, <2>1 DEF Probe, File
  <2>3. cpc' \in ServiceSteps /\ cjob' \in ServiceJob
    BY <1>3, <1>b, <2>1, ServiceJobType, ServiceJobSeen, ServiceJobTask DEF Probe, Continue, ServiceSteps
  <2>. QED
    BY <1>3, <2>2, <2>3 DEF Probe, Continue, worker, budget
<1>4. CASE QueueFill
  BY <1>4 DEF QueueFill, Continue, worker, budget, ServiceSteps, File
<1>5. CASE Text
  <2>1. cpc' \in ServiceSteps /\ cjob' \in ServiceJob
    BY <1>5, ServiceJobCands DEF Text, Continue, ServiceSteps
  <2>. QED
    BY <1>5, <2>1 DEF Text, Continue, files, worker, budget
<1>6. CASE Reset
  BY <1>6, <1>a DEF Reset, Continue, files, worker, budget, ServiceSteps
<1>7. CASE Choice
  <2>1. cpc' \in ServiceSteps /\ cjob' \in ServiceJob
        /\ dedupe' \in [Messages -> Entries] /\ failed' \in [Messages -> Nat]
    BY <1>7, RaiseType, ServiceJobType, ServiceJobSeen DEF Choice, Continue, ServiceSteps
  <2>. QED
    BY <1>7, <2>1 DEF Choice, files, worker, budget
<1>8. CASE Find
  <2>1. cpc' \in ServiceSteps /\ cjob' \in ServiceJob
    BY <1>8, ServiceJobPlace DEF Find, Continue, ServiceSteps
  <2>. QED
    BY <1>8, <2>1 DEF Find, Continue, files, worker, budget
<1>9. CASE ReadStatus
  <2>1. cpc' \in ServiceSteps /\ cjob' \in ServiceJob
        /\ dedupe' \in [Messages -> Entries] /\ failed' \in [Messages -> Nat]
    <3>1. CASE Raise
      BY <3>1, RaiseType
    <3>2. CASE Continue("finish") /\ UNCHANGED cjob
      BY <3>2 DEF Continue, ServiceSteps
    <3>. QED
      BY <1>9, <3>1, <3>2 DEF ReadStatus
  <2>. QED
    BY <1>9, <2>1 DEF ReadStatus, files, worker, budget
<1>10. CASE SaveOpen
  BY <1>10, <1>a DEF SaveOpen, Continue, files, worker, budget, ServiceSteps
<1>11. CASE SaveFill
  BY <1>11, <1>a DEF SaveFill, Continue, files, worker, budget, ServiceSteps
<1>12. CASE Finish
  BY <1>12, <1>a, ServiceJobType DEF Finish, files, worker, observers, budget, ServiceSteps
<1>13. CASE ServiceFault
  <2>1. cpc' \in ServiceSteps /\ cjob' \in ServiceJob
        /\ dedupe' \in [Messages -> Entries] /\ failed' \in [Messages -> Nat]
    BY <1>13, <1>a, RaiseType, ServiceJobType DEF ServiceFault, ServiceSteps
  <2>. QED
    BY <1>13, <2>1 DEF ServiceFault, files, worker
<1>14. CASE ServiceCrash
  <2>1. cpc' \in ServiceSteps /\ cjob' \in ServiceJob
        /\ dedupe' \in [Messages -> Entries] /\ failed' \in [Messages -> Nat]
        /\ crashes' \in [service : Nat, worker : Nat]
    BY <1>14, <1>a, ServiceJobType DEF ServiceCrash, ServiceSteps
  <2>. QED
    BY <1>14, <2>1 DEF ServiceCrash, files, worker
<1>15. ASSUME NEW w \in Workers, Pick(w) PROVE TypeOK'
  <2>1. wpc' \in [Workers -> WorkerSteps] /\ wjob' \in [Workers -> WorkerJob]
    BY <1>15, WorkerJobTask DEF Pick, Goto, WorkerSteps
  <2>. QED
    BY <1>15, <2>1 DEF Pick, files, service, observers, budget
<1>16. ASSUME NEW w \in Workers, Move(w) PROVE TypeOK'
  <2>1. wpc' \in [Workers -> WorkerSteps] /\ wjob' \in [Workers -> WorkerJob]
    BY <1>16, NoWorkType DEF Move, Goto, ToIdle, WorkerSteps
  <2>2. queued' \in [Tasks -> File] /\ processing' \in [Tasks -> File]
        /\ finished' \in [Tasks -> File]
    <3>1. CASE queued[wjob[w].task] = "absent"
      BY <1>16, <3>1 DEF Move, files
    <3>2. CASE queued[wjob[w].task] # "absent"
      <4>1. wjob[w].task \in Tasks => queued[wjob[w].task] \in File
        OBVIOUS
      <4>. QED
        BY <1>16, <3>2, <4>1 DEF Move, File
    <3>. QED
      BY <3>1, <3>2
  <2>. QED
    BY <1>16, <2>1, <2>2 DEF Move, service, observers, budget
<1>17. ASSUME NEW w \in Workers, Mark(w) PROVE TypeOK'
  <2>1. wpc' \in [Workers -> WorkerSteps] /\ processing' \in [Tasks -> File]
    BY <1>17 DEF Mark, Goto, WorkerSteps, File
  <2>. QED
    BY <1>17, <2>1 DEF Mark, service, observers, budget
<1>18. ASSUME NEW w \in Workers, Recognize(w) PROVE TypeOK'
  <2>1. wpc' \in [Workers -> WorkerSteps] /\ wjob' \in [Workers -> WorkerJob]
    <3>1. \A kinds : Resolution(kinds) \in {"no_result", "snapshot", "ambiguous"}
      BY DEF Resolution
    <3>2. PICK r \in {"no_result", "snapshot", "ambiguous"} : wjob' = [wjob EXCEPT ![w].result = r]
      BY <1>18, <3>1 DEF Recognize
    <3>. QED
      BY <1>18, <3>2, WorkerJobResult DEF Recognize, Goto, WorkerSteps
  <2>. QED
    BY <1>18, <2>1 DEF Recognize, files, service, observers, budget
<1>19. ASSUME NEW w \in Workers, Send(w) PROVE TypeOK'
  <2>1. wpc' \in [Workers -> WorkerSteps] /\ replied' \in [Tasks -> Nat]
    <3>1. wjob[w].task \in Tasks => replied[wjob[w].task] + 1 \in Nat
      OBVIOUS
    <3>. QED
      BY <1>19, <3>1 DEF Send, Goto, WorkerSteps
  <2>. QED
    BY <1>19, <2>1 DEF Send, files, service, budget
<1>20. ASSUME NEW w \in Workers, LoadForDispatch(w) PROVE TypeOK'
  <2>1. [task |-> None, cands |-> wjob[w].result = "ambiguous"] \in State
    BY DEF State
  <2>2. wpc' \in [Workers -> WorkerSteps] /\ wjob' \in [Workers -> WorkerJob]
    BY <1>20, <2>1, NoWorkType, WorkerJobSeen DEF LoadForDispatch, Goto, ToIdle, WorkerSteps
  <2>. QED
    BY <1>20, <2>2 DEF LoadForDispatch, files, service, observers, budget
<1>21. ASSUME NEW w \in Workers, SaveDispatch(w) PROVE TypeOK'
  <2>1. wpc' \in [Workers -> WorkerSteps] /\ session' \in [Users -> Sessions]
    BY <1>21 DEF SaveDispatch, Goto, WorkerSteps, WorkerJob
  <2>. QED
    BY <1>21, <2>1 DEF SaveDispatch, files, service, observers, budget
<1>22. ASSUME NEW w \in Workers, Unlink(w) PROVE TypeOK'
  BY <1>22 DEF Unlink, Goto, service, observers, budget, WorkerSteps, File
<1>23. ASSUME NEW w \in Workers, Record(w) PROVE TypeOK'
  <2>1. wpc' \in [Workers -> WorkerSteps] /\ wjob' \in [Workers -> WorkerJob]
        /\ finished' \in [Tasks -> File]
    BY <1>23, NoWorkType DEF Record, Goto, ToIdle, WorkerSteps, File
  <2>. QED
    BY <1>23, <2>1 DEF Record, service, observers, budget
<1>24. ASSUME NEW w \in Workers, WorkerCrash(w) PROVE TypeOK'
  <2>1. wpc' \in [Workers -> WorkerSteps] /\ wjob' \in [Workers -> WorkerJob]
        /\ crashes' \in [service : Nat, worker : Nat]
    BY <1>24, NoWorkType DEF WorkerCrash, Goto, ToIdle, WorkerSteps
  <2>. QED
    BY <1>24, <2>1 DEF WorkerCrash, files, service, observers
<1>25. CASE UNCHANGED vars
  BY <1>25 DEF vars, files, service, worker, observers, budget
<1>. QED
  BY <1>1, <1>2, <1>3, <1>4, <1>5, <1>6, <1>7, <1>8, <1>9, <1>10, <1>11, <1>12, <1>13, <1>14,
     <1>15, <1>16, <1>17, <1>18, <1>19, <1>20, <1>21, <1>22, <1>23, <1>24, <1>25
     DEF Next, Service, Worker

-----------------------------------------------------------------------------
(* The life of a task *)

\* A step of one worker leaves the others and the service where they are.
LEMMA WorkerAlone ==
    ASSUME TypeOK, NEW w \in Workers, Worker(w) \/ WorkerCrash(w)
    PROVE  /\ UNCHANGED <<issued, cpc, cjob, origin, dedupe, failed>>
           /\ \A v \in Workers \ {w} : wpc'[v] = wpc[v] /\ wjob'[v] = wjob[v]
<1>1. CASE WorkerCrash(w)
  BY <1>1 DEF TypeOK, WorkerCrash, ToIdle, Goto, service, observers
<1>2. CASE Pick(w)
  BY <1>2 DEF TypeOK, Pick, Goto, service, observers
<1>3. CASE Move(w)
  BY <1>3 DEF TypeOK, Move, ToIdle, Goto, service, observers
<1>4. CASE Mark(w) \/ Recognize(w) \/ Send(w)
  BY <1>4 DEF TypeOK, Mark, Recognize, Send, Goto, service, observers
<1>5. CASE LoadForDispatch(w) \/ SaveDispatch(w)
  BY <1>5 DEF TypeOK, LoadForDispatch, SaveDispatch, ToIdle, Goto, service, observers
<1>6. CASE Unlink(w) \/ Record(w)
  BY <1>6 DEF TypeOK, Unlink, Record, ToIdle, Goto, service, observers
<1>. QED
  BY <1>1, <1>2, <1>3, <1>4, <1>5, <1>6 DEF Worker

\* Steps which neither the queue nor the workers notice.
LEMMA LifeQuiet ==
    ASSUME Life, UNCHANGED <<queued, processing, finished, wpc, wjob, issued, replied>>,
           cpc' # "queue_fill"
    PROVE  Life'
BY DEF Life, Work, OneHolder, Queue, AnsweredAtMostOnce, NoTaskVanishesUnanswered

\* A worker that holds a task goes on with it, or lets it go; queued files
\* stay.
LEMMA LifeGoesOn ==
    ASSUME TypeOK, TypeOK', Life, NEW w \in Workers, Worker(w) \/ WorkerCrash(w),
           UNCHANGED <<queued, replied>>,
           \A t \in Tasks : t # wjob[w].task \/ wpc[w] \notin Held => processing'[t] = processing[t],
           \A t \in Tasks : finished[t] # "absent" => finished'[t] # "absent",
           \/ wpc'[w] = "idle"
           \/ /\ wpc[w] \in BeforeReply /\ wpc'[w] \in BeforeReply
              /\ wjob'[w].task = wjob[w].task
           \/ /\ wpc[w] \in AfterReply /\ wpc'[w] \in AfterReply
              /\ wjob'[w].task = wjob[w].task,
           wjob[w].task \in Tasks /\ processing[wjob[w].task] # "absent"
             /\ wpc[w] \notin AfterReply => processing'[wjob[w].task] # "absent"
    PROVE  Life'
<1>. USE DEF Held
<1>1. UNCHANGED <<issued, cpc, cjob>>
      /\ \A v \in Workers \ {w} : wpc'[v] = wpc[v] /\ wjob'[v] = wjob[v]
  BY WorkerAlone
<1>0. 1 .. issued \subseteq Tasks
  BY BoundAssumption DEF TypeOK, Tasks
<1>2. Work(w)'
  BY <1>0, <1>1 DEF Life, Work, BeforeReply, AfterReply
<1>3. ASSUME NEW v \in Workers \ {w} PROVE Work(v)'
  <2>1. wpc[v] \in Held => wjob[v].task \in Tasks
    BY <1>0 DEF Life, Work, BeforeReply, AfterReply
  <2>2. wpc[v] \in Held => processing'[wjob[v].task] = processing[wjob[v].task]
    BY <2>1 DEF Life, OneHolder
  <2>. QED
    BY <1>1, <2>2 DEF Life, Work
<1>4. OneHolder'
  BY <1>1 DEF Life, OneHolder, BeforeReply, AfterReply
<1>5. Queue' /\ AnsweredAtMostOnce'
  BY <1>1 DEF Life, Queue, AnsweredAtMostOnce
<1>6. NoTaskVanishesUnanswered'
  <2>. SUFFICES ASSUME NEW t \in 1 .. issued, queued[t] = "absent", replied[t] = 0
                PROVE  processing'[t] # "absent" \/ finished'[t] # "absent"
    BY <1>0, <1>1 DEF NoTaskVanishesUnanswered, TypeOK
  <2>1. processing[t] # "absent" \/ finished[t] # "absent"
    BY DEF Life, NoTaskVanishesUnanswered
  <2>2. t = wjob[w].task => wpc[w] \notin AfterReply
    BY DEF Life, Work
  <2>. QED
    BY <1>0, <2>1, <2>2
<1>. QED
  BY <1>2, <1>3, <1>4, <1>5, <1>6 DEF Life

LEMMA LifePick ==
    ASSUME TypeOK, TypeOK', Life, NEW w \in Workers, Pick(w)
    PROVE  Life'
<1>. USE DEF Held, BeforeReply, AfterReply
<1>1. UNCHANGED <<issued, cpc, cjob, queued, processing, finished, replied>>
      /\ \A v \in Workers \ {w} : wpc'[v] = wpc[v] /\ wjob'[v] = wjob[v]
  BY WorkerAlone DEF Worker, Pick, files, observers
<1>2. PICK t \in Tasks : queued[t] = "whole" /\ wjob'[w].task = t /\ wpc'[w] = "move"
  BY DEF Pick, Goto, TypeOK, WorkerJob
<1>3. t \in 1 .. issued
  BY <1>2 DEF Life, Queue, Tasks, TypeOK
<1>4. Work(w)'
  BY <1>1, <1>2, <1>3, TornAssumption DEF Work
<1>5. \A v \in Workers \ {w} : Work(v)'
  BY <1>1 DEF Life, Work
<1>6. OneHolder'
  BY <1>1, <1>2 DEF Life, OneHolder
<1>. QED
  BY <1>1, <1>4, <1>5, <1>6 DEF Life, Queue, AnsweredAtMostOnce, NoTaskVanishesUnanswered

LEMMA LifeMove ==
    ASSUME TypeOK, TypeOK', Life, NEW w \in Workers, Move(w), queued[wjob[w].task] # "absent"
    PROVE  Life'
<1>. USE DEF Held, BeforeReply, AfterReply
<1>. DEFINE t == wjob[w].task
<1>1. UNCHANGED <<issued, cpc, cjob>>
      /\ \A v \in Workers \ {w} : wpc'[v] = wpc[v] /\ wjob'[v] = wjob[v]
  BY WorkerAlone DEF Worker
<1>0. 1 .. issued \subseteq Tasks
  BY BoundAssumption DEF TypeOK, Tasks
<1>2. t \in 1 .. issued /\ queued[t] # Torn /\ queued[t] # "absent"
  BY DEF Life, Work, Move
<1>3. /\ wpc'[w] = "mark_open" /\ wjob' = wjob /\ UNCHANGED <<finished, replied>>
      /\ queued' = [queued EXCEPT ![t] = "absent"]
      /\ processing' = [processing EXCEPT ![t] = queued[t]]
  BY DEF Move, Goto, observers, TypeOK
<1>4. queued'[t] = "absent" /\ processing'[t] # "absent"
      /\ \A o \in Tasks \ {t} : queued'[o] = queued[o] /\ processing'[o] = processing[o]
  BY <1>0, <1>2, <1>3 DEF TypeOK
<1>5. replied[t] = 0 /\ \A v \in Workers : wpc[v] \in Held => wjob[v].task # t
  BY <1>0, <1>2 DEF Life, Queue, Work
<1>6. Work(w)'
  BY <1>1, <1>2, <1>3, <1>4, <1>5 DEF Work
<1>7. ASSUME NEW v \in Workers \ {w} PROVE Work(v)'
  <2>1. wpc[v] # "idle" => wjob[v].task \in Tasks
    BY <1>0 DEF Life, Work
  <2>2. wpc[v] \in Held => queued'[wjob[v].task] = queued[wjob[v].task]
                            /\ processing'[wjob[v].task] = processing[wjob[v].task]
    BY <1>4, <1>5, <2>1
  <2>3. wpc[v] = "move" => queued'[wjob[v].task] # Torn
    BY <1>4, <2>1, TornAssumption DEF Life, Work
  <2>. QED
    BY <1>1, <1>3, <2>2, <2>3 DEF Life, Work
<1>8. OneHolder'
  BY <1>1, <1>3, <1>5 DEF Life, OneHolder
<1>9. Queue'
  <2>1. cpc = "queue_fill" => cjob.seen.task # t
    BY <1>2 DEF Life, Queue
  <2>. QED
    BY <1>0, <1>1, <1>3, <1>4, <2>1 DEF Life, Queue
<1>10. AnsweredAtMostOnce'
  BY <1>3 DEF Life, AnsweredAtMostOnce
<1>11. NoTaskVanishesUnanswered'
  BY <1>0, <1>1, <1>3, <1>4 DEF Life, NoTaskVanishesUnanswered
<1>. QED
  BY <1>6, <1>7, <1>8, <1>9, <1>10, <1>11 DEF Life

LEMMA LifeSend ==
    ASSUME TypeOK, TypeOK', Life, NEW w \in Workers, Send(w)
    PROVE  Life'
<1>. USE DEF Held, BeforeReply, AfterReply
<1>. DEFINE t == wjob[w].task
<1>1. UNCHANGED <<issued, cpc, cjob>>
      /\ \A v \in Workers \ {w} : wpc'[v] = wpc[v] /\ wjob'[v] = wjob[v]
  BY WorkerAlone DEF Worker
<1>0. 1 .. issued \subseteq Tasks
  BY BoundAssumption DEF TypeOK, Tasks
<1>2. /\ t \in Tasks /\ t \in 1 .. issued /\ replied[t] = 0 /\ queued[t] = "absent"
  BY <1>0 DEF Life, Work, Send
<1>3. /\ wpc[w] = "send" /\ wpc'[w] = "load" /\ UNCHANGED <<queued, processing, finished, wjob>>
      /\ replied' = [replied EXCEPT ![t] = @ + 1]
  BY DEF Send, Goto, files, TypeOK
<1>4. replied'[t] = 1 /\ \A o \in Tasks \ {t} : replied'[o] = replied[o]
  BY <1>2, <1>3 DEF TypeOK
<1>5. Work(w)'
  BY <1>1, <1>2, <1>3, <1>4 DEF Work
<1>6. ASSUME NEW v \in Workers \ {w} PROVE Work(v)'
  <2>1. wpc[v] \in Held => wjob[v].task \in Tasks \ {t}
    BY <1>0, <1>3 DEF Life, Work, OneHolder
  <2>. QED
    BY <1>1, <1>3, <1>4, <2>1 DEF Life, Work
<1>7. OneHolder'
  BY <1>1, <1>3 DEF Life, OneHolder
<1>8. Queue'
  <2>1. \A o \in Tasks : queued[o] # "absent" => replied'[o] = 0
    BY <1>2, <1>4 DEF Life, Queue
  <2>2. ASSUME NEW o \in Tasks, o > issued PROVE queued[o] = "absent" /\ replied'[o] = 0
    <3>1. o # t
      BY <1>2, <2>2 DEF TypeOK, Tasks
    <3>. QED
      BY <1>4, <2>2, <3>1 DEF Life, Queue
  <2>. QED
    BY <1>1, <1>3, <2>1, <2>2 DEF Life, Queue
<1>9. AnsweredAtMostOnce' /\ NoTaskVanishesUnanswered'
  BY <1>0, <1>1, <1>3, <1>4 DEF Life, AnsweredAtMostOnce, NoTaskVanishesUnanswered
<1>. QED
  BY <1>5, <1>6, <1>7, <1>8, <1>9 DEF Life

LEMMA LifeWork ==
    ASSUME TypeOK, TypeOK', Life, NEW w \in Workers, Worker(w) \/ WorkerCrash(w)
    PROVE  Life'
<1>0. 1 .. issued \subseteq Tasks
  BY BoundAssumption DEF TypeOK, Tasks
<1>1. wpc[w] # "idle" => wjob[w].task \in Tasks
  BY <1>0 DEF Life, Work
<1>. USE DEF Held, BeforeReply, AfterReply
<1>2. CASE Pick(w)
  BY <1>2, LifePick
<1>3. CASE Send(w)
  BY <1>3, LifeSend
<1>4. CASE Move(w)
  <2>1. CASE queued[wjob[w].task] = "absent"
    <3>1. UNCHANGED <<queued, processing, finished, replied>> /\ wpc'[w] = "idle"
      BY <1>4, <2>1 DEF Move, ToIdle, Goto, files, observers, TypeOK
    <3>. QED
      BY <3>1, LifeGoesOn
  <2>2. CASE queued[wjob[w].task] # "absent"
    BY <1>4, <2>2, LifeMove
  <2>. QED
    BY <2>1, <2>2
<1>5. CASE WorkerCrash(w)
  <2>1. UNCHANGED <<queued, processing, finished, replied>> /\ wpc'[w] = "idle"
    BY <1>5 DEF WorkerCrash, ToIdle, Goto, files, observers, TypeOK
  <2>. QED
    BY <2>1, LifeGoesOn
<1>6. CASE Mark(w)
  <2>1. wpc[w] \in {"mark_open", "mark_fill"} /\ wpc'[w] \in {"mark_fill", "recognize"}
    BY <1>6 DEF Mark, Goto, TypeOK
  <2>2. UNCHANGED <<queued, finished, replied, wjob>>
    BY <1>6 DEF Mark, observers
  <2>3. processing'[wjob[w].task] # "absent"
        /\ \A t \in Tasks \ {wjob[w].task} : processing'[t] = processing[t]
    BY <1>1, <1>6, <2>1, TornAssumption DEF Mark, TypeOK
  <2>. QED
    BY <2>1, <2>2, <2>3, LifeGoesOn
<1>7. CASE Recognize(w)
  <2>1. UNCHANGED <<queued, processing, finished, replied>>
        /\ wpc[w] = "recognize" /\ wpc'[w] = "send" /\ wjob'[w].task = wjob[w].task
    BY <1>7 DEF Recognize, Goto, files, observers, TypeOK, WorkerJob
  <2>. QED
    BY <2>1, LifeGoesOn
<1>8. CASE LoadForDispatch(w) \/ SaveDispatch(w)
  <2>1. UNCHANGED <<queued, processing, finished, replied>>
        /\ wpc[w] \in AfterReply
        /\ (wpc'[w] = "idle" \/ (wpc'[w] \in AfterReply /\ wjob'[w].task = wjob[w].task))
    BY <1>8 DEF LoadForDispatch, SaveDispatch, ToIdle, Goto, files, observers, TypeOK, WorkerJob
  <2>. QED
    BY <2>1, LifeGoesOn
<1>9. CASE Unlink(w)
  <2>1. UNCHANGED <<queued, finished, replied, wjob>>
        /\ wpc[w] \in AfterReply /\ wpc'[w] \in AfterReply
    BY <1>9 DEF Unlink, Goto, observers, TypeOK
  <2>2. \A t \in Tasks \ {wjob[w].task} : processing'[t] = processing[t]
    BY <1>9 DEF Unlink, TypeOK
  <2>. QED
    BY <2>1, <2>2, LifeGoesOn
<1>10. CASE Record(w)
  <2>1. UNCHANGED <<queued, processing, replied>>
    BY <1>10 DEF Record, observers
  <2>2. wpc[w] \in AfterReply
        /\ (wpc'[w] = "idle" \/ (wpc'[w] \in AfterReply /\ wjob'[w].task = wjob[w].task))
    BY <1>10 DEF Record, ToIdle, Goto, TypeOK
  <2>3. \A t \in Tasks : finished[t] # "absent" => finished'[t] # "absent"
    BY <1>10, TornAssumption DEF Record, TypeOK
  <2>. QED
    BY <2>1, <2>2, <2>3, LifeGoesOn
<1>. QED
  BY <1>2, <1>3, <1>4, <1>5, <1>6, <1>7, <1>8, <1>9, <1>10 DEF Worker

\* A new task is opened in the queue: its id is new to everybody.
LEMMA LifeProbe ==
    ASSUME TypeOK, TypeOK', Life, Probe, cpc' = "queue_fill"
    PROVE  Life'
<1>1. /\ issued' = issued + 1 /\ issued' \in Tasks
      /\ queued' = [queued EXCEPT ![issued'] = Torn] /\ cjob'.seen.task = issued'
      /\ UNCHANGED <<processing, finished, wpc, wjob, replied>>
  <2>1. PICK outcome \in FastLane : outcome = "deferred" /\ issued < MaxTasks
    BY DEF Probe, Continue
  <2>2. issued' = issued + 1 /\ issued' \in Tasks
    BY <2>1, BoundAssumption DEF Probe, Continue, TypeOK, Tasks
  <2>3. cjob'.seen.task = issued'
    BY <2>2 DEF Probe, Continue, TypeOK, ServiceJob, State
  <2>. QED
    BY <2>2, <2>3 DEF Probe, Continue, worker
<1>2. queued'[issued'] = Torn /\ \A t \in Tasks \ {issued'} : queued'[t] = queued[t]
  BY <1>1 DEF TypeOK
<1>3. issued \in Nat /\ 1 .. issued \subseteq Tasks
  BY BoundAssumption DEF TypeOK, Tasks
<1>4. ASSUME NEW w \in Workers PROVE Work(w)'
  <2>1. wpc[w] # "idle" => wjob[w].task \in 1 .. issued
    BY DEF Life, Work
  <2>2. wpc[w] # "idle" => wjob[w].task \in 1 .. issued' /\ queued'[wjob[w].task] = queued[wjob[w].task]
    BY <1>1, <1>2, <1>3, <2>1
  <2>. QED
    BY <1>1, <2>2 DEF Life, Work, Held, BeforeReply, AfterReply
<1>5. OneHolder' /\ AnsweredAtMostOnce'
  BY <1>1 DEF Life, OneHolder, AnsweredAtMostOnce
<1>6. Queue'
  <2>1. replied[issued'] = 0
    BY <1>1, <1>3 DEF Life, Queue
  <2>2. \A t \in Tasks : queued'[t] # "absent" => replied[t] = 0
    BY <1>2, <2>1 DEF Life, Queue
  <2>3. \A t \in Tasks : t > issued' => queued'[t] = "absent" /\ replied[t] = 0
    BY <1>1, <1>2, <1>3 DEF Life, Queue, Tasks
  <2>4. issued' \in 1 .. issued'
    BY <1>1, <1>3
  <2>. QED
    BY <1>1, <1>2, <2>2, <2>3, <2>4 DEF Queue
<1>7. NoTaskVanishesUnanswered'
  <2>1. \A t \in 1 .. issued' : t = issued' \/ t \in 1 .. issued
    BY <1>1, <1>3
  <2>. QED
    BY <1>1, <1>2, <1>3, <2>1, TornAssumption DEF Life, NoTaskVanishesUnanswered
<1>. QED
  BY <1>4, <1>5, <1>6, <1>7 DEF Life

LEMMA LifeQueueFill ==
    ASSUME TypeOK, Life, QueueFill
    PROVE  Life'
<1>. DEFINE t == cjob.seen.task
<1>1. t \in 1 .. issued /\ t \in Tasks /\ queued[t] = Torn /\ replied[t] = 0
  BY BoundAssumption, TornAssumption DEF QueueFill, Life, Queue, TypeOK, Tasks
<1>2. /\ queued' = [queued EXCEPT ![t] = "whole"] /\ cpc' # "queue_fill"
      /\ UNCHANGED <<processing, finished, wpc, wjob, issued, replied>>
  BY DEF QueueFill, Continue, worker
<1>3. queued'[t] = "whole" /\ \A o \in Tasks \ {t} : queued'[o] = queued[o]
  BY <1>1, <1>2 DEF TypeOK
<1>4. ASSUME NEW w \in Workers PROVE Work(w)'
  <2>1. wpc[w] \in {"move"} \cup Held => wjob[w].task \in Tasks \ {t}
    BY <1>1, BoundAssumption, TornAssumption
       DEF Life, Work, Held, BeforeReply, AfterReply, TypeOK, Tasks
  <2>. QED
    BY <1>2, <1>3, <2>1 DEF Life, Work
<1>5. OneHolder' /\ AnsweredAtMostOnce'
  BY <1>2 DEF Life, OneHolder, AnsweredAtMostOnce
<1>6. Queue'
  BY <1>1, <1>2, <1>3, TornAssumption DEF Life, Queue, TypeOK
<1>7. NoTaskVanishesUnanswered'
  <2>1. 1 .. issued \subseteq Tasks
    BY BoundAssumption DEF TypeOK, Tasks
  <2>. QED
    BY <1>1, <1>2, <1>3, <2>1 DEF Life, NoTaskVanishesUnanswered
<1>. QED
  BY <1>4, <1>5, <1>6, <1>7 DEF Life

LEMMA LifeStep ==
    ASSUME TypeOK, TypeOK', Life, [Next]_vars
    PROVE  Life'
<1>. DEFINE Quiet == /\ UNCHANGED <<queued, processing, finished, wpc, wjob, issued, replied>>
                     /\ cpc' # "queue_fill"
<1>1. ASSUME NEW m \in Messages, Begin(m) PROVE Quiet
  BY <1>1 DEF Begin, files, worker, observers
<1>2. CASE LoadSession
  BY <1>2, LifeQuiet DEF LoadSession, Raise, Continue, files, worker
<1>3. CASE Probe
  <2>1. Quiet \/ cpc' = "queue_fill"
    BY <1>3 DEF Probe, Continue, worker
  <2>. QED
    BY <1>3, <2>1, LifeQuiet, LifeProbe
<1>4. CASE QueueFill
  BY <1>4, LifeQueueFill
<1>5. Text \/ Reset \/ Choice \/ Find => Quiet
  BY DEF Text, Reset, Choice, Find, Raise, Continue, files, worker
<1>6. ReadStatus => Quiet
  <2>1. ReadStatus => cpc' \in {"finish", "idle"}
    <3>1. ReadStatus => Continue("finish") \/ Raise
      BY Zenon DEF ReadStatus
    <3>. QED
      BY <3>1 DEF Continue, Raise
  <2>. QED
    BY <2>1 DEF ReadStatus, files, worker
<1>7. SaveOpen \/ SaveFill \/ Finish => Quiet
  BY DEF SaveOpen, SaveFill, Finish, Continue, files, worker, observers
<1>8. ServiceFault \/ ServiceCrash => Quiet
  BY DEF ServiceFault, ServiceCrash, Raise, files, worker
<1>9. CASE UNCHANGED vars
  BY <1>9 DEF vars, files, service, worker, observers, Life, Work, OneHolder, Queue,
              AnsweredAtMostOnce, NoTaskVanishesUnanswered
<1>. QED
  BY <1>1, <1>2, <1>3, <1>4, <1>5, <1>6, <1>7, <1>8, <1>9, LifeQuiet, LifeWork DEF Next, Service

-----------------------------------------------------------------------------
(* The tasks of a message *)

LEMMA MadeFinite ==
    ASSUME TypeOK, NEW m \in Messages
    PROVE  IsFiniteSet(Made(m)) /\ Cardinality(Made(m)) \in Nat
<1>1. issued \in Nat
  BY BoundAssumption DEF TypeOK
<1>2. IsFiniteSet(1 .. issued)
  BY <1>1, FS_Interval
<1>3. IsFiniteSet(Made(m))
  BY <1>2, FS_Subset, Zenon DEF Made
<1>. QED
  BY <1>3, FS_CardinalityType

\* A step that makes no task keeps the count, if the failures do not go down
\* and the dedupe entries say no more than before.
LEMMA CountKept ==
    ASSUME TypeOK, TypeOK', Counted, DuplicateOnlyAfterFailure, UNCHANGED <<issued, origin>>,
           \A m \in Messages : failed'[m] >= failed[m],
           cpc' # "idle" => dedupe'[cjob'.msg] = "processing",
           cpc' \in {"load", "probe"} =>
             /\ failed'[cjob'.msg] = failed[cjob'.msg]
             /\ \/ cpc \in {"load", "probe"} /\ cjob'.msg = cjob.msg
                \/ dedupe[cjob'.msg] \in {"none", Torn},
           \A m \in Messages : dedupe'[m] \in {"none", Torn} =>
             dedupe[m] \in {"none", Torn} \/ failed'[m] > failed[m]
    PROVE  Counted' /\ DuplicateOnlyAfterFailure'
<1>1. \A m \in Messages : Made(m)' = Made(m)
  BY DEF Made
<1>2. \A m \in Messages : Cardinality(Made(m)) \in Nat
  BY MadeFinite
<1>3. \A m \in Messages : failed[m] \in Nat /\ failed'[m] \in Nat
  BY DEF TypeOK
<1>4. cpc' \in {"load", "probe"} => cjob'.msg \in Messages
  BY DEF TypeOK, ServiceJob
<1>5. \A m \in Messages : Cardinality(Made(m)) <= 1 + failed[m]
  BY DEF DuplicateOnlyAfterFailure, Made
<1>6. \A m \in Messages : Cardinality(Made(m)') <= 1 + failed'[m]
  BY <1>1, <1>2, <1>3, <1>5
<1>7. \A m \in Messages : dedupe'[m] \in {"none", Torn} => Cardinality(Made(m)') <= failed'[m]
  BY <1>1, <1>2, <1>3, <1>5 DEF Counted
<1>8. cpc' \in {"load", "probe"} => Cardinality(Made(cjob'.msg)) <= failed'[cjob'.msg]
  BY <1>4 DEF Counted
<1>9. cpc' \in {"load", "probe"} => Cardinality(Made(cjob.msg)') <= failed'[cjob'.msg]
  BY <1>1, <1>4, <1>8 DEF Made
<1>10. Counted'
  BY <1>7, <1>9 DEF Counted
<1>11. DuplicateOnlyAfterFailure'
  BY <1>6 DEF DuplicateOnlyAfterFailure, Made
<1>. QED
  BY <1>10, <1>11

\* The one step that makes a task, for a message without one too many.
LEMMA CountProbe ==
    ASSUME TypeOK, TypeOK', Counted, DuplicateOnlyAfterFailure, Probe, cpc' = "queue_fill"
    PROVE  Counted' /\ DuplicateOnlyAfterFailure'
<1>1. /\ issued' = issued + 1 /\ issued' \in Tasks
      /\ origin' = [origin EXCEPT ![issued'] = cjob.msg]
      /\ cjob'.msg = cjob.msg /\ UNCHANGED <<dedupe, failed>> /\ cpc = "probe"
  <2>1. PICK outcome \in FastLane : outcome = "deferred" /\ issued < MaxTasks
    BY DEF Probe, Continue
  <2>2. issued' = issued + 1 /\ issued' \in Tasks
    BY <2>1, BoundAssumption DEF Probe, Continue, TypeOK, Tasks
  <2>. QED
    BY <2>2 DEF Probe, Continue, TypeOK, ServiceJob
<1>2. issued \in Nat /\ cjob.msg \in Messages
  BY BoundAssumption DEF TypeOK, ServiceJob
<1>3. \A t \in 1 .. issued : origin'[t] = origin[t]
  BY <1>1, <1>2, BoundAssumption DEF TypeOK, Tasks
<1>4. 1 .. issued' = 1 .. issued \cup {issued'} /\ issued' \notin 1 .. issued
  BY <1>1, <1>2
<1>5. Made(cjob.msg)' = {t \in 1 .. issued' : origin'[t] = cjob.msg}
  BY <1>1 DEF Made
<1>6. {t \in 1 .. issued' : origin'[t] = cjob.msg} = Made(cjob.msg) \cup {issued'}
  BY <1>1, <1>3, <1>4 DEF TypeOK, Made
<1>7. \A m \in Messages : m # cjob.msg => {t \in 1 .. issued' : origin'[t] = m} = Made(m)
  BY <1>1, <1>3, <1>4 DEF TypeOK, Made
<1>8. Cardinality(Made(cjob.msg) \cup {issued'}) = Cardinality(Made(cjob.msg)) + 1
  BY <1>2, <1>4, MadeFinite, FS_AddElement DEF Made
<1>9. Cardinality(Made(cjob.msg)) <= failed[cjob.msg]
  BY <1>1 DEF Counted
<1>10. \A m \in Messages : Cardinality({t \in 1 .. issued' : origin'[t] = m}) <= 1 + failed[m]
  <2>1. Cardinality(Made(cjob.msg)) \in Nat /\ failed[cjob.msg] \in Nat
    BY <1>2, MadeFinite DEF TypeOK
  <2>2. \A m \in Messages : Cardinality(Made(m)) <= 1 + failed[m]
    BY DEF DuplicateOnlyAfterFailure, Made
  <2>. QED
    <3>1. Cardinality({t \in 1 .. issued' : origin'[t] = cjob.msg}) <= 1 + failed[cjob.msg]
      BY <1>6, <1>8, <1>9, <2>1
    <3>. QED
      BY <1>7, <2>2, <3>1
<1>11. DuplicateOnlyAfterFailure'
  BY <1>1, <1>10 DEF DuplicateOnlyAfterFailure
<1>12. Counted'
  <2>1. dedupe[cjob.msg] = "processing"
    BY <1>1 DEF Counted
  <2>2. \A m \in Messages : dedupe[m] \in {"none", Torn} =>
          Cardinality({t \in 1 .. issued' : origin'[t] = m}) <= failed[m]
    BY <1>7, <2>1, TornAssumption DEF Counted
  <2>. QED
    BY <1>1, <2>1, <2>2 DEF Counted, Made
<1>. QED
  BY <1>11, <1>12

LEMMA CountStep ==
    ASSUME TypeOK, TypeOK', Counted, DuplicateOnlyAfterFailure, [Next]_vars
    PROVE  Counted' /\ DuplicateOnlyAfterFailure'
<1>a. cjob.msg \in Messages /\ dedupe \in [Messages -> {"none", "processing", "completed", Torn}]
      /\ failed \in [Messages -> Nat]
  BY ServiceJobType DEF TypeOK
<1>b. cpc # "idle" => dedupe[cjob.msg] = "processing"
  BY DEF Counted
<1>. DEFINE Goal == Counted' /\ DuplicateOnlyAfterFailure'
\* Going on with the callback, and leaving it by an exception
<1>1. ASSUME UNCHANGED <<issued, origin, dedupe, failed>>, cjob'.msg = cjob.msg, cpc # "idle",
             cpc' \in {"load", "probe"} => cpc \in {"load", "probe"}
      PROVE  Goal
  BY <1>1, <1>a, <1>b, CountKept
<1>2. ASSUME UNCHANGED <<issued, origin>>, Raise, cpc # "idle" PROVE Goal
  <2>1. \A m \in Messages : failed'[m] >= failed[m]
    BY <1>2, <1>a DEF Raise
  <2>2. \A m \in Messages : dedupe'[m] \in {"none", Torn} =>
          dedupe[m] \in {"none", Torn} \/ failed'[m] > failed[m]
    BY <1>2, <1>a DEF Raise
  <2>. QED
    BY <1>2, <2>1, <2>2, CountKept DEF Raise
<1>3. ASSUME NEW m \in Messages, Begin(m) PROVE Goal
  <2>1. UNCHANGED <<issued, origin, failed>>
    BY <1>3 DEF Begin, observers
  <2>2. \A n \in Messages : dedupe'[n] \in {"none", Torn} => dedupe[n] \in {"none", Torn}
    BY <1>3, <1>a, TornAssumption DEF Begin
  <2>3. cpc' # "idle" => cjob'.msg = m /\ dedupe'[m] = "processing" /\ dedupe[m] \in {"none", Torn}
    BY <1>3, <1>a, ServiceJobType DEF Begin, ServiceJob
  <2>. QED
    BY <2>1, <2>2, <2>3, <1>a, CountKept
<1>4. CASE LoadSession
  <2>1. UNCHANGED <<issued, origin>> /\ cpc = "load"
        /\ (Raise \/ (UNCHANGED <<dedupe, failed>> /\ cjob'.msg = cjob.msg))
    BY <1>4 DEF LoadSession, Continue, TypeOK, ServiceJob
  <2>. QED
    BY <1>1, <1>2, <2>1
<1>5. CASE Probe
  <2>1. CASE cpc' = "queue_fill"
    BY <1>5, <2>1, CountProbe
  <2>2. CASE cpc' # "queue_fill"
    <3>1. UNCHANGED <<issued, origin, dedupe, failed>> /\ cjob'.msg = cjob.msg
          /\ cpc' = "save_open" /\ cpc = "probe"
      BY <1>5, <2>2 DEF Probe, Continue, TypeOK, ServiceJob
    <3>. QED
      BY <1>1, <3>1
  <2>. QED
    BY <2>1, <2>2
<1>6. CASE QueueFill \/ Text \/ Reset \/ Find \/ SaveOpen \/ SaveFill
  <2>1. UNCHANGED <<issued, origin, dedupe, failed>> /\ cjob'.msg = cjob.msg
        /\ cpc # "idle" /\ cpc' \notin {"load", "probe"}
    BY <1>6 DEF QueueFill, Text, Reset, Find, SaveOpen, SaveFill, Continue, TypeOK, ServiceJob
  <2>. QED
    BY <1>1, <2>1
<1>7. CASE Choice
  <2>1. UNCHANGED <<issued, origin>> /\ cpc = "choice"
        /\ (Raise \/ (/\ UNCHANGED <<dedupe, failed>> /\ cjob'.msg = cjob.msg
                      /\ cpc' \notin {"load", "probe"}))
    BY <1>7 DEF Choice, Continue, TypeOK, ServiceJob
  <2>. QED
    BY <1>1, <1>2, <2>1
<1>8. CASE ReadStatus
  <2>1. Raise \/ (Continue("finish") /\ UNCHANGED cjob)
    BY <1>8, Zenon DEF ReadStatus
  <2>2. UNCHANGED <<issued, origin>> /\ cpc = "read"
    BY <1>8 DEF ReadStatus
  <2>. QED
    BY <1>1, <1>2, <2>1, <2>2 DEF Continue
<1>9. CASE Finish
  <2>1. \A m \in Messages : dedupe'[m] \in {"none", Torn} => dedupe[m] \in {"none", Torn}
    BY <1>9, <1>a, TornAssumption DEF Finish
  <2>. QED
    BY <1>9, <1>a, <2>1, CountKept DEF Finish, observers
<1>10. CASE ServiceFault
  <2>1. UNCHANGED <<issued, origin>> /\ cpc # "idle"
    BY <1>10 DEF ServiceFault
  <2>2. CASE Raise
    BY <1>2, <2>1, <2>2
  <2>3. CASE cpc' = "idle" /\ failed' = [failed EXCEPT ![cjob.msg] = @ + 1] /\ UNCHANGED dedupe
    <3>1. \A m \in Messages : failed'[m] >= failed[m]
      BY <2>3, <1>a
    <3>. QED
      BY <2>1, <2>3, <3>1, CountKept
  <2>. QED
    BY <1>10, <2>2, <2>3 DEF ServiceFault
<1>11. CASE ServiceCrash
  <2>1. UNCHANGED <<issued, origin>> /\ cpc' = "idle"
        /\ failed' = [failed EXCEPT ![cjob.msg] = @ + 1]
        /\ (dedupe' = dedupe \/ dedupe' = [dedupe EXCEPT ![cjob.msg] = Torn])
    BY <1>11 DEF ServiceCrash
  <2>2. \A m \in Messages : failed'[m] >= failed[m]
    BY <2>1, <1>a
  <2>3. \A m \in Messages : dedupe'[m] \in {"none", Torn} =>
          dedupe[m] \in {"none", Torn} \/ failed'[m] > failed[m]
    BY <2>1, <1>a
  <2>. QED
    BY <2>1, <2>2, <2>3, CountKept
<1>12. ASSUME UNCHANGED <<issued, origin, dedupe, failed, cpc, cjob>> PROVE Goal
  BY <1>12, <1>a, <1>b, CountKept DEF Counted
<1>13. ASSUME NEW w \in Workers, Worker(w) \/ WorkerCrash(w) PROVE Goal
  BY <1>12, <1>13, WorkerAlone
<1>14. CASE UNCHANGED vars
  BY <1>12, <1>14 DEF vars, service, observers
<1>. QED
  BY <1>3, <1>4, <1>5, <1>6, <1>7, <1>8, <1>9, <1>10, <1>11, <1>13, <1>14 DEF Next, Service

-----------------------------------------------------------------------------
(* The theorems *)

LEMMA Invariance == Spec => []IInv
<1>1. IInv /\ [Next]_vars => IInv'
  BY TypeStep, LifeStep, CountStep DEF IInv
<1>. QED
  BY <1>1, InitInv, PTL DEF Spec

\* Each variable has its type.
THEOREM TypeCorrect == Spec => []TypeOK
<1>1. IInv => TypeOK
  BY DEF IInv
<1>. QED
  BY <1>1, Invariance, PTL

\* No task is answered twice: the rename of claim_next gives it one holder,
\* and the holder of an answered task does not come back to its reply.
THEOREM OneAnswer == Spec => []AnsweredAtMostOnce
<1>1. IInv => AnsweredAtMostOnce
  BY DEF IInv, Life
<1>. QED
  BY <1>1, Invariance, PTL

\* A queued task has a file or an answer, whoever dies.
THEOREM NoTaskLost == Spec => []NoTaskVanishesUnanswered
<1>1. IInv => NoTaskVanishesUnanswered
  BY DEF IInv, Life
<1>. QED
  BY <1>1, Invariance, PTL

\* However often the platform delivers a message, only a handling that did not
\* finish makes room for another task.
THEOREM OneTaskAHandling == Spec => []DuplicateOnlyAfterFailure
<1>1. IInv => DuplicateOnlyAfterFailure
  BY DEF IInv
<1>. QED
  BY <1>1, Invariance, PTL
=============================================================================
